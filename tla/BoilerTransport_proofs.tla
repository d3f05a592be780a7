----------------------- MODULE BoilerTransport_proofs -----------------------
(* Proofs about BoilerTransport.                                             *)
(*                                                                           *)
(* OneTransport is not inductive: the controller closes the relay on what    *)
(* the probe and the mismatch flag say, so these two must imply that the     *)
(* adapter and the hub are at rest (Quiet).  An answer is never lost between *)
(* the wire and the probe's result (Heard, which needs Probing), the wire    *)
(* never tells less than the boiler was told (Wired), and what the           *)
(* controller calls re-armed or rested is so (Fresh, Rested).                *)
EXTENDS BoilerTransport, TLAPS

\* The off handshake: who waits for it, what its marks stand for.
Handshake ==
  /\ Busy => /\ ~otb.ch /\ ~relay
             /\ IF flush.caller = "probe" THEN user.present /\ ~OT(user) ELSE ~user.present
  /\ ~Busy => ~flush.statusSent /\ ~flush.statusOff /\ ~flush.tsetZero
  /\ flush.statusSent /\ hub.wire.id = "STATUS" => ~hub.wire.on
  /\ flush.statusOff => flush.statusSent /\ ~boiler.ch
  /\ flush.tsetZero => ~boiler.tset

\* The boiler knows at least what it heard last.
Wired ==
  /\ ~hub.polling => hub.wire = NoRequest
  /\ hub.wire.heard /\ hub.wire.id = "STATUS" => boiler.ch = hub.wire.on
  /\ hub.wire.heard /\ hub.wire.id = "TSET" => boiler.tset = hub.wire.on

ProbeKnows ==
  probe.active =>
    /\ ~otb.ch /\ ~mismatch
    /\ ~Busy => user.present /\ ~OT(user)
    /\ hub.wire.known /\ hub.wire.id = "STATUS" => probe.sent

Verified == /\ ~Busy /\ user.present /\ ~OT(user)
            /\ ~probe.active /\ ~mismatch

Quiet == Verified => ~hub.polling /\ ~otb.link /\ otb.status = Stale

Absent == ~Busy /\ ~user.present => ~hub.polling /\ ~otb.link

Heard == seen.answered /\ ~Busy /\ user.present /\ ~OT(user) =>
           (probe.active /\ probe.detected) \/ mismatch

Fresh == ~ctl.rearm \/ command => seen.evaluated

Least(n) == IF n <= MinOff THEN n ELSE MinOff

Rested ==
  /\ otb.ch => otb.applied
  /\ otb.ch /\ ~ctl.request => ctl.since = 0
  /\ ~otb.ch => \/ Least(ctl.since) <= seen.rest
                \/ ctl.request /\ OT(user) /\ (~user.present \/ ~otb.link)
  /\ ~otb.ch /\ ctl.request /\ OT(user) /\ user.present /\ otb.link => seen.rest >= MinOff

IInv == /\ TypeOK /\ OneTransport /\ Handshake /\ Wired /\ ProbeKnows /\ Quiet
        /\ Absent /\ Heard /\ Fresh /\ Rested

(* --------------------------------- types -------------------------------- *)
LEMMA ConstantTypes == /\ MostRest \in Nat /\ 0 \in 0 .. MostRest /\ MostRest \in 0 .. MostRest
                       /\ MinOff \in Nat /\ 0 \in 0 .. MinOff /\ MinOff \in 0 .. MinOff
                       /\ SettleTime \in Nat /\ 0 \in 0 .. SettleTime /\ SettleTime \in 0 .. SettleTime
                       /\ ProbeTime \in Nat /\ 0 \in 0 .. ProbeTime
                       /\ Stale \in Nat /\ 0 \in 0 .. Stale /\ Stale \in 0 .. Stale
                       /\ MinOff <= MostRest /\ LinkTime \in Nat /\ LinkTime < Stale
BY TransportAssumption DEF MostRest, Stale

LEMMA CtlType ==
  ASSUME NEW c \in Ctl
  PROVE /\ Withdrawn(c) \in Ctl /\ Resettled(c) \in Ctl /\ Edge(c) \in Ctl /\ Refused(c) \in Ctl
        /\ [c EXCEPT !.request = FALSE] \in Ctl
<1>1. \A r \in BOOLEAN, n \in 0 .. MostRest : [c EXCEPT !.request = r, !.since = n] \in Ctl
  BY DEF Ctl
<1>2. \A n \in 0 .. SettleTime : \A d \in Ctl : [d EXCEPT !.settle = n, !.rearm = TRUE] \in Ctl
  BY DEF Ctl
<1>3. (IF c.request THEN 0 ELSE c.since) \in 0 .. MostRest /\ c.since \in 0 .. MostRest
  BY ConstantTypes DEF Ctl
<1>4. [c EXCEPT !.request = FALSE] \in Ctl
  BY DEF Ctl
<1>5. Withdrawn(c) \in Ctl
  BY <1>1, <1>3 DEF Withdrawn
<1>6. \A d \in Ctl : Resettled(d) \in Ctl
  BY <1>2, ConstantTypes DEF Resettled
<1>7. Refused(c) \in Ctl
  BY <1>1, ConstantTypes DEF Refused
<1> QED
  BY <1>4, <1>5, <1>6, <1>7 DEF Edge

LEMMA OtbType ==
  ASSUME NEW o \in Otb
  PROVE /\ [o EXCEPT !.ch = FALSE] \in Otb /\ Reset(o) \in Otb
        /\ [Reset(o) EXCEPT !.ch = FALSE] \in Otb
        /\ [Reset(o) EXCEPT !.ch = FALSE, !.applied = FALSE] \in Otb
<1>1. \A p \in Otb : [p EXCEPT !.ch = FALSE] \in Otb
  BY DEF Otb
<1>2. \A n \in 0 .. Stale : [o EXCEPT !.link = FALSE, !.status = n] \in Otb
  BY DEF Otb
<1>3. Reset(o) \in Otb
  BY <1>2, ConstantTypes DEF Reset
<1>4. \A p \in Otb : [p EXCEPT !.ch = FALSE, !.applied = FALSE] \in Otb
  BY DEF Otb
<1> QED
  BY <1>1, <1>3, <1>4

LEMMA WireType == NoRequest \in Request /\ \A w \in Request : [w EXCEPT !.known = FALSE] \in Request
BY DEF Request, NoRequest

LEMMA HubType ==
  /\ Resumed \in Hub /\ Suspended \in Hub
  /\ \A h \in Hub : Orphan(h) \in Hub /\ [h EXCEPT !.wire = NoRequest] \in Hub
  /\ \A h \in Hub, b \in BOOLEAN : [h EXCEPT !.polling = b] \in Hub
<1> DEFINE W == Request
<1>1. \A h \in [polling : BOOLEAN, wire : W] : \A w \in W :
        /\ [h EXCEPT !.wire = w] \in [polling : BOOLEAN, wire : W]
        /\ [h EXCEPT !.wire.known = FALSE] = [h EXCEPT !.wire = [h.wire EXCEPT !.known = FALSE]]
        /\ h.wire \in W
  <2> HIDE DEF W
  <2> QED OBVIOUS
<1>2. \A h \in Hub : \A w \in W : [h EXCEPT !.wire = w] \in Hub /\ h.wire \in W
                   /\ [h EXCEPT !.wire.known = FALSE] = [h EXCEPT !.wire = [h.wire EXCEPT !.known = FALSE]]
  BY <1>1 DEF Hub
<1>3. \A h \in Hub : Orphan(h) \in Hub /\ [h EXCEPT !.wire = NoRequest] \in Hub
  BY <1>2, WireType DEF Orphan
<1>4. Resumed \in Hub /\ Suspended \in Hub
  BY WireType DEF Resumed, Suspended, Hub
<1>5. \A h \in Hub, b \in BOOLEAN : [h EXCEPT !.polling = b] \in Hub
  BY DEF Hub
<1> QED
  BY <1>3, <1>4, <1>5

LEMMA FlushType == NoFlush \in Flush /\ \A c \in {"dormant", "probe"} : [NoFlush EXCEPT !.caller = c] \in Flush
BY DEF NoFlush, Flush

LEMMA ProbeType ==
  /\ NoProbe \in Probe /\ ProbeBegun \in Probe
  /\ \A p \in Probe : [p EXCEPT !.active = FALSE] \in Probe
BY ConstantTypes DEF NoProbe, ProbeBegun, Probe

LEMMA SeenType ==
  ASSUME NEW s \in Seen, NEW o \in Otb
  PROVE EdgeSeen(s) \in Seen /\ ProbeSeen(s) \in Seen /\ CameToRest(s, o) \in Seen
<1>1. \A n \in 0 .. MinOff : [s EXCEPT !.rest = n] \in Seen
  BY DEF Seen
<1>2. [s EXCEPT !.evaluated = FALSE] \in Seen /\ [s EXCEPT !.answered = FALSE] \in Seen
  BY DEF Seen
<1> QED
  BY <1>1, <1>2, ConstantTypes DEF EdgeSeen, ProbeSeen, CameToRest

LEMMA ConnectionType ==
  ASSUME TypeOK, NEW u, NEW o \in Otb, ConnectionChanged(u, o)
  PROVE probe' \in Probe /\ mismatch' \in BOOLEAN /\ otb' \in Otb /\ hub' \in Hub /\ flush' \in Flush
<1>0. otb \in Otb /\ probe \in Probe /\ hub \in Hub /\ mismatch \in BOOLEAN
  BY DEF TypeOK
<1>1. flush' \in Flush
  BY FlushType DEF ConnectionChanged, FlushFor
<1>2. CASE Polling(o)
  BY <1>0, <1>1, <1>2, OtbType, HubType, ProbeType DEF Polling
<1>3. CASE Waiting(o)
  BY <1>0, <1>1, <1>3, OtbType DEF Waiting
<1>4. CASE Probing(o)
  <2>1. [hub EXCEPT !.polling = TRUE] \in Hub
    BY <1>0, HubType
  <2> QED
    BY <1>0, <1>1, <1>4, <2>1, OtbType, HubType, ProbeType DEF Probing
<1>5. CASE Dormant(o)
  BY <1>0, <1>1, <1>5, OtbType, HubType, ProbeType DEF Dormant
<1> QED
  BY <1>2, <1>3, <1>4, <1>5 DEF ConnectionChanged

LEMMA InitType == Init => TypeOK
<1> SUFFICES ASSUME Init PROVE TypeOK
  OBVIOUS
<1>1. user \in User
  BY DEF Init, User
<1>2. ctl \in Ctl
  BY ConstantTypes DEF Init, Ctl
<1>3. probe \in Probe /\ flush \in Flush
  BY ProbeType, FlushType DEF Init
<1>4. otb \in Otb
  BY ConstantTypes DEF Init, Otb
<1>5. hub \in Hub
  BY <1>1, WireType DEF Init, Hub, User
<1>6. seen \in Seen
  BY ConstantTypes DEF Init, Seen
<1> QED
  BY <1>1, <1>2, <1>3, <1>4, <1>5, <1>6 DEF Init, TypeOK

LEMMA SelectType == ASSUME TypeOK, NEW c \in Connection, Select(c) PROVE TypeOK'
<1> DEFINE u == [user EXCEPT !.selected = c]
           o == [otb EXCEPT !.ch = FALSE]
<1>1. u \in User /\ o \in Otb /\ ctl \in Ctl /\ seen \in Seen
  BY OtbType DEF TypeOK, User
<1>2. ConnectionChanged(u, o) /\ user' = u /\ ctl' = Edge(ctl) /\ command' = FALSE /\ relay' = FALSE
      /\ seen' = CameToRest(EdgeSeen(ProbeSeen(seen)), o) /\ boiler' = boiler
  BY DEF Select
<1>3. ctl' \in Ctl
  BY <1>1, <1>2, CtlType
<1>4. seen' \in Seen
  BY <1>1, <1>2, SeenType
<1> HIDE DEF u, o
<1>5. probe' \in Probe /\ mismatch' \in BOOLEAN /\ otb' \in Otb /\ hub' \in Hub /\ flush' \in Flush
  BY <1>1, <1>2, ConnectionType
<1> QED
  BY <1>1, <1>2, <1>3, <1>4, <1>5 DEF TypeOK

LEMMA SourceType == ASSUME TypeOK, NEW p \in BOOLEAN, SourcePresence(p) PROVE TypeOK'
<1> DEFINE u == [user EXCEPT !.present = p]
<1>1. u \in User /\ otb \in Otb /\ seen \in Seen /\ relay \in BOOLEAN
  BY DEF TypeOK, User
<1>2. ConnectionChanged(u, otb) /\ user' = u /\ ctl' = ctl /\ command' = command
      /\ seen' = CameToRest(ProbeSeen(seen), otb') /\ boiler' = boiler /\ relay' \in BOOLEAN
  BY DEF SourcePresence
<1> HIDE DEF u
<1>5. probe' \in Probe /\ mismatch' \in BOOLEAN /\ otb' \in Otb /\ hub' \in Hub /\ flush' \in Flush
  BY <1>1, <1>2, ConnectionType
<1>6. seen' \in Seen
  BY <1>1, <1>2, <1>5, SeenType
<1> QED
  BY <1>1, <1>2, <1>5, <1>6 DEF TypeOK

LEMMA FlushEndsType == ASSUME TypeOK, FlushEnds PROVE TypeOK'
<1>1. otb \in Otb /\ seen \in Seen /\ hub \in Hub /\ probe \in Probe
  BY DEF TypeOK
<1>2. [hub EXCEPT !.polling = TRUE] \in Hub
  BY <1>1, HubType
<1>3. probe' \in Probe /\ mismatch' \in BOOLEAN /\ otb' \in Otb /\ hub' \in Hub
  BY <1>1, <1>2, OtbType, HubType, ProbeType DEF FlushEnds, Dormant, Probing
<1>4. seen' \in Seen
  BY <1>1, <1>3, SeenType DEF FlushEnds
<1> QED
  BY <1>3, <1>4, FlushType DEF FlushEnds, TypeOK

LEMMA PauseType == ASSUME TypeOK, Pause PROVE TypeOK'
<1> DEFINE o == [otb EXCEPT !.ch = FALSE]
<1>1. o \in Otb /\ ctl \in Ctl /\ seen \in Seen
  BY OtbType DEF TypeOK
<1>2. user' \in User
  BY DEF TypeOK, User, Pause
<1>3. ctl' \in Ctl
  <2>1. \A c \in Ctl : [c EXCEPT !.rearm = TRUE] \in Ctl
    BY DEF Ctl
  <2> QED
    BY <1>1, <2>1, CtlType DEF Pause
<1>4. seen' \in Seen
  BY <1>1, SeenType DEF Pause
<1> QED
  BY <1>1, <1>2, <1>3, <1>4 DEF TypeOK, Pause

LEMMA DispatchType == ASSUME TypeOK, Dispatch PROVE TypeOK'
<1>1. seen' \in Seen
  BY DEF Dispatch, TypeOK, Seen
<1> QED
  BY <1>1 DEF Dispatch, TypeOK

LEMMA TickType == ASSUME TypeOK, BoilerTick PROVE TypeOK'
<1>1. \A r \in BOOLEAN, n \in 0 .. MostRest, a \in BOOLEAN :
        [ctl EXCEPT !.request = r, !.since = n, !.rearm = a] \in Ctl
  BY DEF TypeOK, Ctl
<1>2. ctl.since \in 0 .. MostRest
  BY DEF TypeOK, Ctl
<1>3. \A a, r \in BOOLEAN : Drive(a, r) => ctl' \in Ctl /\ relay' \in BOOLEAN
  <2> SUFFICES ASSUME NEW a \in BOOLEAN, NEW r \in BOOLEAN, Drive(a, r)
               PROVE ctl' \in Ctl /\ relay' \in BOOLEAN
    OBVIOUS
  <2>1. (IF a = ctl.request THEN ctl.since ELSE 0) \in 0 .. MostRest
    BY <1>2, ConstantTypes
  <2> QED
    BY <1>1, <2>1 DEF Drive
<1>4. \A valid, guards, heat \in BOOLEAN :
        Output(May(valid, guards), heat) \in BOOLEAN /\ (~Rearmed(valid)) \in BOOLEAN
  BY DEF Output, May, Rearmed
<1>5. ctl' \in Ctl /\ relay' \in BOOLEAN
  BY <1>3, <1>4 DEF BoilerTick
<1> QED
  BY <1>5 DEF BoilerTick, TypeOK

LEMMA ApplyType == ASSUME TypeOK, Apply PROVE TypeOK'
<1>1. \A b \in BOOLEAN : [otb EXCEPT !.ch = b, !.applied = b] \in Otb
  BY DEF TypeOK, Otb
<1>2. ctl \in Ctl /\ seen \in Seen
  BY DEF TypeOK
<1>3. otb' \in Otb
  BY <1>1 DEF Apply
<1>4. ctl' \in Ctl
  BY <1>2, CtlType DEF Apply
<1>5. seen' \in Seen
  BY <1>2, <1>3, SeenType DEF Apply
<1> QED
  BY <1>3, <1>4, <1>5 DEF Apply, TypeOK

LEMMA WatchType == ASSUME TypeOK, LinkWatch PROVE TypeOK'
<1>1. ctl \in Ctl /\ seen \in Seen /\ otb \in Otb /\ hub \in Hub
  BY DEF TypeOK
<1>2. \A a \in BOOLEAN : [otb EXCEPT !.link = a, !.ch = FALSE] \in Otb /\ [otb EXCEPT !.link = a] \in Otb
  BY DEF TypeOK, Otb
<1>3. otb' \in Otb
  BY <1>1, <1>2, OtbType DEF LinkWatch, LinkChanged
<1>4. ctl' \in Ctl /\ command' \in BOOLEAN /\ hub' \in Hub /\ seen' \in Seen
  BY <1>1, <1>3, CtlType, HubType, SeenType DEF LinkWatch, LinkChanged, TypeOK
<1> QED
  BY <1>3, <1>4 DEF LinkWatch, TypeOK

LEMMA ProbeEndType ==
  ASSUME TypeOK, NEW r, ProbeEnd(r)
  PROVE ctl' \in Ctl /\ command' \in BOOLEAN /\ relay' \in BOOLEAN /\ flush' \in Flush /\ boiler' \in Boiler
<1>1. [ctl EXCEPT !.request = FALSE] \in Ctl
  BY CtlType DEF TypeOK
<1> QED
  BY <1>1, CtlType DEF ProbeEnd, TypeOK

LEMMA ProbeActsType == ASSUME TypeOK, ProbeTimedOut \/ ProbeMismatch \/ ProbeSelects PROVE TypeOK'
<1>1. ctl \in Ctl /\ seen \in Seen /\ otb \in Otb /\ hub \in Hub /\ probe \in Probe
  BY DEF TypeOK
<1>2. EdgeSeen(seen) \in Seen
  BY <1>1, SeenType
<1>3. CASE ProbeTimedOut
  BY <1>1, <1>2, <1>3, ProbeEndType, OtbType, HubType, ProbeType DEF ProbeTimedOut, TypeOK
<1>4. CASE ProbeMismatch
  BY <1>1, <1>2, <1>4, ProbeEndType, ProbeType DEF ProbeMismatch, TypeOK
<1>5. CASE ProbeSelects
  <2>1. user' \in User
    BY <1>5 DEF ProbeSelects, TypeOK, User, Connection
  <2>2. [otb EXCEPT !.ch = FALSE] \in Otb
    BY <1>1, OtbType
  <2> QED
    BY <1>1, <1>2, <1>5, <2>1, <2>2, ProbeEndType, OtbType, HubType, ProbeType
       DEF ProbeSelects, Polling, TypeOK
<1> QED
  BY <1>3, <1>4, <1>5

LEMMA SendType == ASSUME TypeOK, Send PROVE TypeOK'
<1>1. PICK id \in {"STATUS", "TSET"}, heard \in BOOLEAN :
        /\ hub' = [hub EXCEPT !.wire = [id |-> id, on |-> otb.ch, known |-> TRUE, heard |-> heard]]
        /\ boiler' = IF heard THEN Told(id, otb.ch) ELSE boiler
        /\ probe' = [probe EXCEPT !.sent = @ \/ (probe.active /\ id = "STATUS" /\ ~otb.ch)]
        /\ flush' = [flush EXCEPT !.statusSent = @ \/ (Busy /\ id = "STATUS" /\ ~otb.ch),
                                  !.tsetSent = @ \/ (Busy /\ id = "TSET" /\ ~otb.ch)]
  BY DEF Send
<1>2. otb.ch \in BOOLEAN
  BY DEF TypeOK, Otb
<1>3. hub' \in Hub
  BY <1>1, <1>2 DEF TypeOK, Hub, Request
<1>4. boiler' \in Boiler
  BY <1>1, <1>2 DEF TypeOK, Boiler, Told
<1>5. probe' \in Probe
  BY <1>1 DEF TypeOK, Probe
<1>6. flush' \in Flush
  BY <1>1 DEF TypeOK, Flush
<1> QED
  BY <1>3, <1>4, <1>5, <1>6 DEF Send, TypeOK

LEMMA AnswerType == ASSUME TypeOK, Answer PROVE TypeOK'
<1>1. hub' \in Hub
  BY HubType DEF Answer, TypeOK
<1>2. \A n \in 0 .. Stale : [otb EXCEPT !.status = n] \in Otb
  BY DEF TypeOK, Otb
<1>3. otb' \in Otb
  BY <1>2, ConstantTypes DEF Answer, TypeOK
<1>4. \A b \in BOOLEAN : [probe EXCEPT !.detected = b] \in Probe /\ [seen EXCEPT !.answered = b] \in Seen
  BY DEF TypeOK, Probe, Seen
<1>5. probe.detected \in BOOLEAN /\ seen.answered \in BOOLEAN
  BY DEF TypeOK, Probe, Seen
<1>6. probe' \in Probe /\ seen' \in Seen
  BY <1>4, <1>5 DEF Answer
<1>7. \A a, b \in BOOLEAN : [flush EXCEPT !.statusOff = a, !.tsetZero = b] \in Flush
  BY DEF TypeOK, Flush
<1>8. flush.statusOff \in BOOLEAN /\ flush.tsetZero \in BOOLEAN /\ flush \in Flush
  BY DEF TypeOK, Flush
<1>9. flush' \in Flush
  BY <1>7, <1>8 DEF Answer, Acknowledged
<1> QED
  BY <1>1, <1>3, <1>6, <1>9 DEF Answer, TypeOK

LEMMA PassType == ASSUME TypeOK, Pass PROVE TypeOK'
<1>1. \A cap \in Nat : \A n \in 0 .. cap : AtMost(cap, n + 1) \in 0 .. cap
  BY DEF AtMost
<1>0. \A cap \in Nat : \A n \in 0 .. cap : (IF n = 0 THEN 0 ELSE n - 1) \in 0 .. cap
  OBVIOUS
<1>2. ctl' \in Ctl
  <2>1. \A n \in 0 .. MostRest, m \in 0 .. SettleTime : [ctl EXCEPT !.since = n, !.settle = m] \in Ctl
    BY DEF TypeOK, Ctl
  <2>2. ctl.since \in 0 .. MostRest /\ ctl.settle \in 0 .. SettleTime
    BY DEF TypeOK, Ctl
  <2>3. AtMost(MostRest, ctl.since + 1) \in 0 .. MostRest
        /\ (IF ctl.settle = 0 THEN 0 ELSE ctl.settle - 1) \in 0 .. SettleTime
    BY <1>0, <1>1, <2>2, ConstantTypes
  <2> QED
    BY <2>1, <2>3 DEF Pass
<1>3. probe' \in Probe
  <2>1. \A n \in 0 .. ProbeTime : [probe EXCEPT !.age = n] \in Probe
    BY DEF TypeOK, Probe
  <2>2. probe.age \in 0 .. ProbeTime
    BY DEF TypeOK, Probe
  <2>3. (IF probe.active THEN AtMost(ProbeTime, probe.age + 1) ELSE probe.age) \in 0 .. ProbeTime
    BY <1>0, <1>1, <2>2, ConstantTypes
  <2> QED
    BY <2>1, <2>3 DEF Pass
<1>4. otb' \in Otb
  <2>1. \A n \in 0 .. Stale : [otb EXCEPT !.status = n] \in Otb
    BY DEF TypeOK, Otb
  <2>2. otb.status \in 0 .. Stale
    BY DEF TypeOK, Otb
  <2>3. AtMost(Stale, otb.status + 1) \in 0 .. Stale
    BY <1>0, <1>1, <2>2, ConstantTypes
  <2> QED
    BY <2>1, <2>3 DEF Pass
<1>5. seen' \in Seen
  <2>1. \A n \in 0 .. MinOff : [seen EXCEPT !.rest = n] \in Seen
    BY DEF TypeOK, Seen
  <2>2. seen.rest \in 0 .. MinOff
    BY DEF TypeOK, Seen
  <2>3. AtMost(MinOff, seen.rest + 1) \in 0 .. MinOff
    BY <1>0, <1>1, <2>2, ConstantTypes
  <2> QED
    BY <2>1, <2>3 DEF Pass
<1> QED
  BY <1>2, <1>3, <1>4, <1>5 DEF Pass, TypeOK

LEMMA RebootType == ASSUME TypeOK, Reboot PROVE TypeOK'
<1> DEFINE u == [user EXCEPT !.paused = FALSE]
<1>1. u \in User /\ u.present \in BOOLEAN
  BY DEF TypeOK, User
<1>2. Booted(u) /\ boiler' = boiler
  BY DEF Reboot
<1> HIDE DEF u
<1>3. ctl' \in Ctl
  BY <1>2, ConstantTypes DEF Booted, Ctl
<1>4. otb' \in Otb /\ seen' \in Seen
  BY <1>2, ConstantTypes DEF Booted, Otb, Seen
<1>5. hub' \in Hub
  BY <1>1, <1>2, WireType DEF Booted, Hub
<1> QED
  BY <1>1, <1>2, <1>3, <1>4, <1>5, ProbeType, FlushType DEF Booted, TypeOK

LEMMA TypeStep == TypeOK /\ [Next]_vars => TypeOK'
<1> SUFFICES ASSUME TypeOK, [Next]_vars PROVE TypeOK'
  OBVIOUS
<1>1. ASSUME NEW c \in Connection, Select(c) PROVE TypeOK'
  BY <1>1, SelectType
<1>2. ASSUME NEW p \in BOOLEAN, SourcePresence(p) PROVE TypeOK'
  BY <1>2, SourceType
<1>4. CASE NoAnswer
  BY <1>4, HubType DEF NoAnswer, TypeOK
<1>5. CASE UNCHANGED vars
  BY <1>5 DEF vars, TypeOK
<1> QED
  BY <1>1, <1>2, <1>4, <1>5, FlushEndsType, PauseType, DispatchType, TickType, ApplyType,
     WatchType, ProbeActsType, SendType, AnswerType, PassType, RebootType DEF Next

(* -------------------- what the shared operators leave -------------------- *)
LEMMA CtlFields ==
  ASSUME NEW c \in Ctl
  PROVE /\ Withdrawn(c).request = FALSE /\ Withdrawn(c).rearm = c.rearm
        /\ Withdrawn(c).since = (IF c.request THEN 0 ELSE c.since)
        /\ Edge(c).request = FALSE /\ Edge(c).rearm = TRUE
        /\ Edge(c).since = (IF c.request THEN 0 ELSE c.since)
        /\ Refused(c).request = FALSE /\ Refused(c).rearm = c.rearm /\ Refused(c).since = 0
BY DEF Withdrawn, Edge, Resettled, Refused, Ctl

LEMMA SeenFields ==
  ASSUME NEW s \in Seen, NEW o
  PROVE /\ EdgeSeen(s).evaluated = FALSE /\ EdgeSeen(s).rest = s.rest /\ EdgeSeen(s).answered = s.answered
        /\ ProbeSeen(s).evaluated = s.evaluated /\ ProbeSeen(s).rest = s.rest
        /\ ProbeSeen(s).answered = (s.answered /\ ~probe'.active)
        /\ CameToRest(s, o).evaluated = s.evaluated /\ CameToRest(s, o).answered = s.answered
        /\ CameToRest(s, o).rest = (IF otb.ch /\ ~o.ch THEN 0 ELSE s.rest)
BY DEF EdgeSeen, ProbeSeen, CameToRest, Seen

LEMMA OtbFields ==
  ASSUME NEW o \in Otb
  PROVE /\ Reset(o).ch = o.ch /\ Reset(o).link = FALSE /\ Reset(o).status = Stale
        /\ [o EXCEPT !.ch = FALSE].ch = FALSE /\ [o EXCEPT !.ch = FALSE].link = o.link
        /\ [o EXCEPT !.ch = FALSE].status = o.status
BY DEF Reset, Otb

LEMMA HubFields ==
  /\ Resumed.wire = NoRequest /\ Resumed.polling = TRUE
  /\ Suspended.wire = NoRequest /\ Suspended.polling = FALSE
  /\ NoRequest.id = "none" /\ ~NoRequest.known /\ ~NoRequest.heard
  /\ \A h \in Hub : /\ Orphan(h).polling = h.polling /\ ~Orphan(h).wire.known
                     /\ Orphan(h).wire.id = h.wire.id /\ Orphan(h).wire.on = h.wire.on
                     /\ Orphan(h).wire.heard = h.wire.heard
BY DEF Resumed, Suspended, Orphan, NoRequest, Hub, Request

(* -------------------------------- Fresh --------------------------------- *)
LEMMA FreshStep == TypeOK /\ Fresh /\ [Next]_vars => Fresh'
<1> SUFFICES ASSUME TypeOK, Fresh, [Next]_vars PROVE Fresh'
  OBVIOUS
<1>0. ctl \in Ctl /\ seen \in Seen /\ otb \in Otb
  BY DEF TypeOK
<1>1. ASSUME NEW c \in Connection, Select(c) PROVE Fresh'
  BY <1>0, <1>1, CtlFields DEF Select, Fresh
<1>2. ASSUME NEW p \in BOOLEAN, SourcePresence(p) PROVE Fresh'
  <2>1. ProbeSeen(seen) \in Seen /\ seen' = CameToRest(ProbeSeen(seen), otb')
        /\ ctl' = ctl /\ command' = command
    BY <1>0, <1>2, SeenType DEF SourcePresence
  <2>2. seen'.evaluated = ProbeSeen(seen).evaluated /\ ProbeSeen(seen).evaluated = seen.evaluated
    BY <1>0, <2>1, SeenFields
  <2> QED
    BY <2>1, <2>2 DEF Fresh
<1>3. CASE FlushEnds
  BY <1>0, <1>3, SeenFields DEF FlushEnds, Fresh
<1>4. CASE Pause
  BY <1>0, <1>4, CtlType DEF Pause, Fresh, Ctl
<1>5. CASE Dispatch
  BY <1>0, <1>5 DEF Dispatch, Fresh, Seen
<1>6. CASE BoilerTick
  BY <1>0, <1>6 DEF BoilerTick, Drive, Rearmed, Fresh, Ctl
<1>7. CASE Apply
  <2>1. seen' = CameToRest(seen, otb') /\ command' = command /\ (ctl' = ctl \/ ctl' = Refused(ctl))
    BY <1>7 DEF Apply
  <2>2. seen'.evaluated = seen.evaluated
    BY <1>0, <2>1, SeenFields
  <2>3. ctl'.rearm = ctl.rearm
    BY <1>0, <2>1, CtlFields
  <2> QED
    BY <2>1, <2>2, <2>3 DEF Fresh
<1>8. CASE LinkWatch
  <2>1. CASE ctl' = ctl /\ command' = command /\ seen' = seen
    BY <2>1 DEF Fresh
  <2>2. CASE ctl' = Edge(ctl) /\ command' = FALSE
    BY <1>0, <2>2, CtlFields DEF Fresh
  <2> QED
    BY <1>8, <2>1, <2>2 DEF LinkWatch, LinkChanged
<1>9. CASE ProbeTimedOut \/ ProbeMismatch \/ ProbeSelects
  <2>1. [ctl EXCEPT !.request = FALSE] \in Ctl
    BY <1>0, CtlType
  <2>2. ctl'.rearm = TRUE /\ command' = FALSE
    BY <1>9, <2>1 DEF ProbeTimedOut, ProbeMismatch, ProbeSelects, ProbeEnd, Resettled, Ctl
  <2> QED
    BY <2>2 DEF Fresh
<1>10. CASE Answer
  BY <1>0, <1>10 DEF Answer, Fresh, Seen
<1>11. CASE Pass
  BY <1>0, <1>11 DEF Pass, Fresh, Seen, Ctl
<1>12. CASE Reboot
  BY <1>12 DEF Reboot, Booted, Fresh
<1>13. CASE Send \/ NoAnswer \/ UNCHANGED vars
  BY <1>13 DEF Send, NoAnswer, vars, Fresh
<1> QED
  BY <1>1, <1>2, <1>3, <1>4, <1>5, <1>6, <1>7, <1>8, <1>9, <1>10, <1>11, <1>12, <1>13 DEF Next

(* --------------------------- Wired, Handshake --------------------------- *)
LEMMA WiredStep == TypeOK /\ Wired /\ [Next]_vars => Wired'
<1> SUFFICES ASSUME TypeOK, Wired, [Next]_vars PROVE Wired'
  OBVIOUS
<1>0. hub \in Hub /\ boiler \in Boiler /\ hub.wire \in Request
  BY DEF TypeOK, Hub
<1> DEFINE Kept == boiler' = boiler
                   /\ (hub' = hub \/ hub' = Resumed \/ hub' = Suspended
                       \/ (hub'.wire = NoRequest)
                       \/ (hub' = Orphan([hub EXCEPT !.polling = TRUE])))
<1>1. Kept => Wired'
  <2>1. [hub EXCEPT !.polling = TRUE] \in Hub /\ [hub EXCEPT !.polling = TRUE].wire = hub.wire
        /\ [hub EXCEPT !.polling = TRUE].polling
    BY <1>0 DEF Hub
  <2>2. CASE hub' = Orphan([hub EXCEPT !.polling = TRUE]) /\ boiler' = boiler
    BY <2>1, <2>2, HubFields DEF Wired
  <2> QED
    BY <2>2, HubFields DEF Wired
<1>2. CASE Send
  <2>1. PICK id \in {"STATUS", "TSET"}, heard \in BOOLEAN :
          /\ hub.polling
          /\ hub' = [hub EXCEPT !.wire = [id |-> id, on |-> otb.ch, known |-> TRUE, heard |-> heard]]
          /\ boiler' = IF heard THEN Told(id, otb.ch) ELSE boiler
    BY <1>2 DEF Send
  <2>2. hub'.polling /\ hub'.wire.id = id /\ hub'.wire.on = otb.ch /\ hub'.wire.heard = heard
    BY <1>0, <2>1 DEF Hub
  <2>3. heard => (id = "STATUS" => boiler'.ch = otb.ch) /\ (id = "TSET" => boiler'.tset = otb.ch)
    BY <1>0, <2>1 DEF Told, Boiler
  <2> QED
    BY <2>2, <2>3 DEF Wired
<1>3. CASE Answer \/ NoAnswer
  <2>1. hub' = [hub EXCEPT !.wire = NoRequest] /\ boiler' = boiler
    BY <1>3 DEF Answer, NoAnswer
  <2> QED
    BY <1>0, <1>1, <2>1 DEF Hub
<1>4. ASSUME NEW c \in Connection, Select(c) PROVE Kept
  BY <1>4 DEF Select, ConnectionChanged, Polling, Waiting, Probing, Dormant
<1>5. ASSUME NEW p \in BOOLEAN, SourcePresence(p) PROVE Kept
  BY <1>5 DEF SourcePresence, ConnectionChanged, Polling, Waiting, Probing, Dormant
<1>6. CASE FlushEnds
  BY <1>1, <1>6 DEF FlushEnds, Probing, Dormant
<1>7. CASE LinkWatch
  BY <1>1, <1>7 DEF LinkWatch, LinkChanged
<1>8. CASE Reboot
  <2>1. boiler' = boiler /\ hub'.wire = NoRequest
    BY <1>8 DEF Reboot, Booted
  <2> QED
    BY <1>1, <2>1
<1>9. CASE ProbeTimedOut \/ ProbeMismatch \/ ProbeSelects
  BY <1>1, <1>9 DEF ProbeTimedOut, ProbeMismatch, ProbeSelects, ProbeEnd, Polling
<1>10. CASE Pause \/ Dispatch \/ BoilerTick \/ Apply \/ Pass \/ UNCHANGED vars
  BY <1>1, <1>10 DEF Pause, Dispatch, BoilerTick, Apply, Pass, vars
<1> QED
  BY <1>1, <1>2, <1>3, <1>4, <1>5, <1>6, <1>7, <1>8, <1>9, <1>10 DEF Next

LEMMA NoFlushFields ==
  /\ NoFlush.caller = "none" /\ ~NoFlush.statusSent /\ ~NoFlush.statusOff /\ ~NoFlush.tsetZero
  /\ \A c \in {"dormant", "probe"} :
       LET f == [NoFlush EXCEPT !.caller = c]
       IN f.caller = c /\ ~f.statusSent /\ ~f.statusOff /\ ~f.tsetZero
BY DEF NoFlush

\* With the relay closed there is no link to talk to.
LEMMA ClosedIsQuiet == ASSUME OneTransport, Quiet, Handshake, relay PROVE ~otb.link /\ ~Busy
BY DEF OneTransport, Quiet, Verified, Handshake, OT

\* Where a handshake begins or ends.
LEMMA FlushBegins ==
  ASSUME TypeOK, NEW u \in User, NEW o \in Otb, ConnectionChanged(u, o), user' = u,
         ~o.ch \/ otb.link, otb.link => ~relay'
  PROVE Handshake'
<1>1. CASE flush' = NoFlush
  BY <1>1, NoFlushFields DEF Handshake, Busy
<1>2. CASE flush' # NoFlush
  <2>1. otb.link /\ otb' = [o EXCEPT !.ch = FALSE]
        /\ \/ u.present /\ ~OT(u) /\ flush' = [NoFlush EXCEPT !.caller = "probe"]
           \/ ~u.present /\ flush' = [NoFlush EXCEPT !.caller = "dormant"]
    BY <1>2 DEF ConnectionChanged, FlushFor, Waiting
  <2>2. ~otb'.ch
    BY <2>1 DEF Otb
  <2> QED
    BY <2>1, <2>2, NoFlushFields DEF Handshake, Busy, OT
<1> QED
  BY <1>1, <1>2

LEMMA HandshakeStep ==
  TypeOK /\ Handshake /\ Wired /\ OneTransport /\ Quiet /\ [Next]_vars => Handshake'
<1> SUFFICES ASSUME TypeOK, Handshake, Wired, OneTransport, Quiet, [Next]_vars PROVE Handshake'
  OBVIOUS
<1>0. user \in User /\ otb \in Otb /\ hub \in Hub /\ hub.wire \in Request /\ flush \in Flush /\ boiler \in Boiler
  BY DEF TypeOK, Hub
<1>1. ASSUME NEW c \in Connection, Select(c) PROVE Handshake'
  <2> DEFINE u == [user EXCEPT !.selected = c]
             o == [otb EXCEPT !.ch = FALSE]
  <2>1. ConnectionChanged(u, o) /\ user' = u /\ ~relay'
    BY <1>1 DEF Select
  <2>2. u \in User /\ o \in Otb /\ ~o.ch
    BY <1>0 DEF User, Otb
  <2> HIDE DEF u, o
  <2> QED
    BY <2>1, <2>2, FlushBegins
<1>2. ASSUME NEW p \in BOOLEAN, SourcePresence(p) PROVE Handshake'
  <2> DEFINE u == [user EXCEPT !.present = p]
  <2>1. ConnectionChanged(u, otb) /\ user' = u /\ (relay' => relay)
    BY <1>2 DEF SourcePresence
  <2>2. u \in User
    BY <1>0 DEF User
  <2>3. (otb.link => ~relay') /\ (~otb.ch \/ otb.link)
    BY <2>1, ClosedIsQuiet DEF OneTransport
  <2> HIDE DEF u
  <2> QED
    BY <1>0, <2>1, <2>2, <2>3, FlushBegins
<1>3. CASE FlushEnds \/ Reboot
  BY <1>3, NoFlushFields DEF FlushEnds, Reboot, Booted, Handshake, Busy
<1>4. CASE Send
  <2>1. PICK id \in {"STATUS", "TSET"}, heard \in BOOLEAN :
          /\ hub' = [hub EXCEPT !.wire = [id |-> id, on |-> otb.ch, known |-> TRUE, heard |-> heard]]
          /\ boiler' = IF heard THEN Told(id, otb.ch) ELSE boiler
          /\ flush' = [flush EXCEPT !.statusSent = @ \/ (Busy /\ id = "STATUS" /\ ~otb.ch),
                                    !.tsetSent = @ \/ (Busy /\ id = "TSET" /\ ~otb.ch)]
          /\ UNCHANGED <<user, otb, relay>>
    BY <1>4 DEF Send
  <2>2. hub'.wire.id = id /\ hub'.wire.on = otb.ch
    BY <1>0, <2>1 DEF Hub
  <2>3. /\ flush'.caller = flush.caller /\ flush'.statusOff = flush.statusOff /\ flush'.tsetZero = flush.tsetZero
        /\ flush'.statusSent <=> (flush.statusSent \/ (Busy /\ id = "STATUS" /\ ~otb.ch))
    BY <1>0, <2>1 DEF Flush
  <2>4. CASE Busy
    <3>1. ~otb.ch /\ (boiler.ch = FALSE => boiler'.ch = FALSE) /\ (boiler.tset = FALSE => boiler'.tset = FALSE)
      BY <1>0, <2>1, <2>4 DEF Handshake, Told, Boiler
    <3>2. boiler.ch \in BOOLEAN /\ boiler.tset \in BOOLEAN
      BY <1>0 DEF Boiler
    <3> QED
      BY <2>1, <2>2, <2>3, <2>4, <3>1, <3>2 DEF Handshake, Busy, OT
  <2>5. CASE ~Busy
    BY <2>3, <2>5 DEF Handshake, Busy
  <2> QED
    BY <2>4, <2>5
<1>5. CASE Answer
  <2>1. hub' = [hub EXCEPT !.wire = NoRequest] /\ UNCHANGED <<user, boiler, relay>> /\ hub.wire.heard
        /\ (flush' = flush \/ (Busy /\ flush' = Acknowledged(flush, hub.wire)))
    BY <1>5 DEF Answer
  <2>2. hub'.wire.id = "none" /\ otb'.ch = otb.ch
    BY <1>0, <1>5, <2>1, HubFields DEF Hub, Answer, Otb
  <2>3. CASE flush' = flush
    BY <2>1, <2>2, <2>3 DEF Handshake, Busy, OT
  <2>4. CASE Busy /\ flush' = Acknowledged(flush, hub.wire)
    <3>1. /\ flush'.caller = flush.caller /\ flush'.statusSent = flush.statusSent
          /\ flush'.statusOff <=> (flush.statusOff \/ (hub.wire.id = "STATUS" /\ flush.statusSent))
          /\ flush'.tsetZero <=> (flush.tsetZero \/ (hub.wire.id = "TSET" /\ ~hub.wire.on /\ flush.tsetSent))
      BY <1>0, <2>4 DEF Acknowledged, Flush
    <3>2. flush'.statusOff => flush'.statusSent /\ ~boiler'.ch
      BY <2>1, <3>1 DEF Handshake, Wired
    <3>3. flush'.tsetZero => ~boiler'.tset
      BY <2>1, <3>1 DEF Handshake, Wired
    <3> QED
      BY <2>1, <2>2, <2>4, <3>1, <3>2, <3>3 DEF Handshake, Busy, OT
  <2> QED
    BY <2>1, <2>3, <2>4
<1>6. CASE NoAnswer
  <2>1. hub'.wire.id = "none"
    BY <1>0, <1>6, HubFields DEF NoAnswer, Hub
  <2> QED
    BY <1>6, <2>1 DEF NoAnswer, Handshake, Busy, OT
<1>7. CASE Pass
  <2>1. otb'.ch = otb.ch
    BY <1>0, <1>7 DEF Pass, Otb
  <2> QED
    BY <1>7, <2>1 DEF Pass, Handshake, Busy, OT
<1>8. CASE ~Busy /\ flush' = flush
  BY <1>8, NoFlushFields DEF Handshake, Busy
<1>9. CASE UNCHANGED vars
  BY <1>9 DEF vars, Handshake, Busy, OT
<1> QED
  BY <1>1, <1>2, <1>3, <1>4, <1>5, <1>6, <1>7, <1>8, <1>9
     DEF Next, Pause, Dispatch, BoilerTick, Apply, LinkWatch, 
         ProbeTimedOut, ProbeMismatch, ProbeSelects, ProbeEnd, Polling

(* ------------------ ProbeKnows, Quiet, Heard, OneTransport --------------- *)
\* Whatever a new connection leads to, R1 is not verified with it, and CH is
\* only left on for OpenTherm.
LEMMA ConnectionLeaves ==
  ASSUME TypeOK, ProbeKnows, NEW u \in User, NEW o \in Otb, ConnectionChanged(u, o), user' = u
  PROVE /\ otb'.ch => o.ch /\ u.present /\ OT(u)
        /\ ProbeKnows'
        /\ flush'.caller = "none" /\ u.present /\ ~OT(u) => probe'.active
<1>0. probe \in Probe /\ hub \in Hub /\ otb \in Otb
  BY DEF TypeOK
<1>1. CASE Polling(o) /\ u.present /\ OT(u)
  <2>1. ~probe'.active /\ otb'.ch = o.ch
    BY <1>0, <1>1, OtbFields DEF Polling, Probe
  <2> QED
    BY <1>1, <2>1 DEF ProbeKnows
<1>2. CASE Waiting(o) /\ flush'.caller # "none"
  <2>1. ~otb'.ch /\ UNCHANGED <<probe, mismatch, hub>>
    BY <1>2, OtbFields DEF Waiting
  <2> QED
    BY <1>2, <2>1 DEF ProbeKnows, Busy
<1>3. CASE Probing(o) /\ u.present /\ ~OT(u)
  <2>1. probe'.active /\ ~mismatch' /\ [hub EXCEPT !.polling = TRUE] \in Hub
    BY <1>0, <1>3, HubType DEF Probing, ProbeBegun, NoProbe
  <2>2. ~hub'.wire.known
    BY <1>3, <2>1, HubFields DEF Probing
  <2>3. ~otb'.ch
    BY <1>3, OtbType DEF Probing, Otb
  <2> QED
    BY <1>3, <2>1, <2>2, <2>3 DEF ProbeKnows, OT
<1>4. CASE Dormant(o) /\ ~u.present
  <2>1. ~probe'.active /\ ~otb'.ch
    BY <1>0, <1>4, OtbType DEF Dormant, Probe, Otb
  <2> QED
    BY <1>4, <2>1 DEF ProbeKnows
<1>5. otb.link => (flush' = NoFlush /\ OT(u)) \/ flush'.caller # "none"
  BY NoFlushFields DEF ConnectionChanged, FlushFor
<1> QED
  BY <1>1, <1>2, <1>3, <1>4, <1>5, NoFlushFields DEF ConnectionChanged, FlushFor

LEMMA DormantLeaves ==
  ASSUME NEW o \in Otb, Dormant(o) PROVE ~hub'.polling /\ ~otb'.link
BY DEF Dormant, Suspended, Reset, Otb

LEMMA FlushEndLeaves ==
  ASSUME TypeOK, Handshake, FlushEnds
  PROVE /\ ~otb'.ch /\ ~relay' /\ ProbeKnows' /\ flush'.caller = "none" /\ user' = user
        /\ user.present /\ ~OT(user) => probe'.active
<1>0. probe \in Probe /\ hub \in Hub /\ otb \in Otb
  BY DEF TypeOK
<1>1. CASE flush.caller = "dormant" /\ Dormant(otb)
  <2>1. ~probe'.active /\ ~otb'.ch
    BY <1>0, <1>1, OtbType DEF Dormant, Probe, Otb
  <2>2. ~user.present
    BY <1>1 DEF Handshake, Busy
  <2> QED
    BY <1>1, <2>1, <2>2, NoFlushFields DEF ProbeKnows, FlushEnds
<1>2. CASE flush.caller = "probe" /\ Probing(otb)
  <2>1. probe'.active /\ ~mismatch' /\ [hub EXCEPT !.polling = TRUE] \in Hub
    BY <1>0, <1>2, HubType DEF Probing, ProbeBegun, NoProbe
  <2>2. ~hub'.wire.known
    BY <1>2, <2>1, HubFields DEF Probing
  <2>3. ~otb'.ch
    BY <1>0, <1>2, OtbType DEF Probing, Otb
  <2>4. user.present /\ ~OT(user)
    BY <1>2 DEF Handshake, Busy
  <2> QED
    BY <1>2, <2>1, <2>2, <2>3, <2>4, NoFlushFields DEF ProbeKnows, OT, FlushEnds
<1> QED
  BY <1>1, <1>2 DEF FlushEnds

LEMMA SourceLeaves ==
  ASSUME TypeOK, OneTransport, Quiet, Handshake, NEW p \in BOOLEAN, SourcePresence(p)
  PROVE ~relay' /\ ~(otb.ch /\ p)
<1>1. ASSUME relay PROVE flush'.caller = "none" /\ ~OT([user EXCEPT !.present = p])
  BY <1>1, ClosedIsQuiet, NoFlushFields
     DEF SourcePresence, ConnectionChanged, FlushFor, OneTransport, OT, TypeOK, User
<1> QED
  BY <1>1 DEF SourcePresence, OneTransport

\* The link watch, by what it does to the adapter.
LEMMA WatchLeaves ==
  ASSUME otb \in Otb, LinkWatch
  PROVE /\ otb'.ch => otb.ch
        /\ user.present => /\ otb'.ch => ~OT(user)
                           /\ otb'.status = otb.status
                           /\ otb'.link <=> ~otb.link
        /\ ~user.present => (otb'.link => otb.link)
<1>1. \A a \in BOOLEAN :
        /\ [otb EXCEPT !.link = a, !.ch = FALSE].ch = FALSE
        /\ [otb EXCEPT !.link = a, !.ch = FALSE].link = a
        /\ [otb EXCEPT !.link = a, !.ch = FALSE].status = otb.status
        /\ [otb EXCEPT !.link = a].ch = otb.ch
        /\ [otb EXCEPT !.link = a].link = a
        /\ [otb EXCEPT !.link = a].status = otb.status
  BY DEF Otb
<1>3. CASE user.present
  <2>1. CASE ~otb.link /\ LinkChanged(TRUE)
    BY <1>1, <1>3, <2>1 DEF LinkChanged
  <2>2. CASE otb.link /\ LinkChanged(FALSE)
    BY <1>1, <1>3, <2>2 DEF LinkChanged
  <2> QED
    BY <1>3, <2>1, <2>2 DEF LinkWatch
<1>4. CASE ~user.present
  <2>1. CASE otb' = otb
    BY <1>4, <2>1
  <2>2. CASE otb' = Reset(otb)
    <3>1. otb'.ch = otb.ch /\ otb'.link = FALSE
      BY <2>2, OtbFields
    <3> QED
      BY <1>4, <3>1
  <2> QED
    BY <1>4, <2>1, <2>2 DEF LinkWatch
<1> QED
  BY <1>3, <1>4

LEMMA ProbeKnowsStep ==
  TypeOK /\ ProbeKnows /\ Handshake /\ OneTransport /\ [Next]_vars => ProbeKnows'
<1> SUFFICES ASSUME TypeOK, ProbeKnows, Handshake, OneTransport, [Next]_vars PROVE ProbeKnows'
  OBVIOUS
<1>0. user \in User /\ otb \in Otb /\ hub \in Hub /\ probe \in Probe /\ hub.wire \in Request
  BY DEF TypeOK, Hub
<1>1. ASSUME NEW c \in Connection, Select(c) PROVE ProbeKnows'
  <2> DEFINE u == [user EXCEPT !.selected = c]
             o == [otb EXCEPT !.ch = FALSE]
  <2>1. ConnectionChanged(u, o) /\ user' = u
    BY <1>1 DEF Select
  <2>2. u \in User /\ o \in Otb
    BY <1>0 DEF User, Otb
  <2> HIDE DEF u, o
  <2> QED
    BY <2>1, <2>2, ConnectionLeaves
<1>2. ASSUME NEW p \in BOOLEAN, SourcePresence(p) PROVE ProbeKnows'
  <2> DEFINE u == [user EXCEPT !.present = p]
  <2>1. ConnectionChanged(u, otb) /\ user' = u
    BY <1>2 DEF SourcePresence
  <2>2. u \in User
    BY <1>0 DEF User
  <2> HIDE DEF u
  <2> QED
    BY <1>0, <2>1, <2>2, ConnectionLeaves
<1>3. CASE FlushEnds
  BY <1>3, FlushEndLeaves
<1>4. CASE Pause
  <2>1. ~otb'.ch /\ user'.selected = user.selected /\ user'.present = user.present
    BY <1>0, <1>4, OtbFields DEF Pause, User
  <2> QED
    BY <1>4, <2>1 DEF Pause, ProbeKnows, Busy, OT
<1>5. CASE Apply
  <2>1. otb'.ch => OT(user)
    BY <1>0, <1>5 DEF Apply, Otb
  <2> QED
    BY <1>5, <2>1 DEF Apply, ProbeKnows, Busy, OT
<1>6. CASE LinkWatch
  <2>1. otb'.ch => otb.ch
    BY <1>0, <1>6, WatchLeaves
  <2>2. hub' = hub \/ hub'.wire = NoRequest
    BY <1>6, HubFields DEF LinkWatch, LinkChanged
  <2> QED
    BY <1>6, <2>1, <2>2, HubFields DEF LinkWatch, ProbeKnows, Busy, OT
<1>7. CASE ProbeTimedOut \/ ProbeMismatch \/ ProbeSelects
  <2>1. ~probe'.active
    BY <1>0, <1>7 DEF ProbeTimedOut, ProbeMismatch, ProbeSelects, Polling, Probe
  <2> QED
    BY <2>1 DEF ProbeKnows
<1>9. CASE Send
  <2>1. PICK id \in {"STATUS", "TSET"}, heard \in BOOLEAN :
          /\ hub' = [hub EXCEPT !.wire = [id |-> id, on |-> otb.ch, known |-> TRUE, heard |-> heard]]
          /\ probe' = [probe EXCEPT !.sent = @ \/ (probe.active /\ id = "STATUS" /\ ~otb.ch)]
          /\ flush' = [flush EXCEPT !.statusSent = @ \/ (Busy /\ id = "STATUS" /\ ~otb.ch),
                                    !.tsetSent = @ \/ (Busy /\ id = "TSET" /\ ~otb.ch)]
          /\ UNCHANGED <<user, otb, mismatch>>
    BY <1>9 DEF Send
  <2>2. hub'.wire.id = id /\ probe'.active = probe.active
        /\ (probe'.sent <=> (probe.sent \/ (probe.active /\ id = "STATUS" /\ ~otb.ch)))
    BY <1>0, <2>1 DEF Hub, Probe
  <2>3. flush'.caller = flush.caller
    BY <2>1 DEF TypeOK, Flush
  <2> QED
    BY <2>1, <2>2, <2>3 DEF ProbeKnows, Busy, OT
<1>10. CASE Answer \/ NoAnswer
  <2>1. hub'.wire.id = "none" /\ UNCHANGED <<user, mismatch>>
    BY <1>0, <1>10, HubFields DEF Answer, NoAnswer, Hub
  <2>2. otb'.ch = otb.ch /\ probe'.active = probe.active
    BY <1>0, <1>10 DEF Answer, NoAnswer, Otb, Probe
  <2>3. flush'.caller = flush.caller
    BY <1>10 DEF Answer, NoAnswer, TypeOK, Flush, Acknowledged
  <2> QED
    BY <2>1, <2>2, <2>3 DEF ProbeKnows, Busy, OT
<1>11. CASE Pass
  <2>1. otb'.ch = otb.ch /\ probe'.active = probe.active /\ probe'.sent = probe.sent
    BY <1>0, <1>11 DEF Pass, Otb, Probe
  <2> QED
    BY <1>11, <2>1 DEF Pass, ProbeKnows, Busy, OT
<1>12. CASE Reboot
  <2> DEFINE u == [user EXCEPT !.paused = FALSE]
  <2>1. u.present = user.present /\ u.selected = user.selected
    BY <1>0 DEF User
  <2>2. Booted(u)
    BY <1>12 DEF Reboot
  <2> HIDE DEF u
  <2>3. ~otb'.ch /\ ~mismatch' /\ hub'.wire = NoRequest /\ user' = u
        /\ (probe'.active => u.present /\ ~OT(u))
    BY <2>2 DEF Booted, NoProbe
  <2> QED
    BY <2>3, HubFields DEF ProbeKnows, OT
<1>13. CASE Dispatch \/ BoilerTick \/ UNCHANGED vars
  BY <1>13 DEF Dispatch, BoilerTick, vars, ProbeKnows, Busy, OT
<1> QED
  BY <1>1, <1>2, <1>3, <1>4, <1>5, <1>6, <1>7, <1>9, <1>10, <1>11, <1>12, <1>13 DEF Next

LEMMA OneTransportStep ==
  TypeOK /\ OneTransport /\ Handshake /\ Wired /\ ProbeKnows /\ Quiet /\ [Next]_vars => OneTransport'
<1> SUFFICES ASSUME TypeOK, OneTransport, Handshake, Wired, ProbeKnows, Quiet, [Next]_vars
             PROVE OneTransport'
  OBVIOUS
<1>0. user \in User /\ otb \in Otb /\ hub \in Hub /\ probe \in Probe /\ hub.wire \in Request
  BY DEF TypeOK, Hub
<1>1. ASSUME NEW c \in Connection, Select(c) PROVE OneTransport'
  <2> DEFINE u == [user EXCEPT !.selected = c]
             o == [otb EXCEPT !.ch = FALSE]
  <2>1. ConnectionChanged(u, o) /\ user' = u /\ ~relay'
    BY <1>1 DEF Select
  <2>2. u \in User /\ o \in Otb /\ ~o.ch
    BY <1>0 DEF User, Otb
  <2> HIDE DEF u, o
  <2>3. ~otb'.ch
    BY <2>1, <2>2, ConnectionLeaves
  <2> QED
    BY <2>1, <2>3 DEF OneTransport
<1>2. ASSUME NEW p \in BOOLEAN, SourcePresence(p) PROVE OneTransport'
  <2> DEFINE u == [user EXCEPT !.present = p]
  <2>1. ConnectionChanged(u, otb) /\ user' = u /\ ~relay' /\ ~(otb.ch /\ p)
    BY <1>2, SourceLeaves DEF SourcePresence
  <2>2. u \in User /\ u.present = p
    BY <1>0 DEF User
  <2> HIDE DEF u
  <2>3. ~otb'.ch
    BY <1>0, <2>1, <2>2, ConnectionLeaves
  <2> QED
    BY <2>1, <2>3 DEF OneTransport
<1>3. CASE FlushEnds
  BY <1>3, FlushEndLeaves DEF OneTransport
<1>4. CASE Pause
  <2>1. ~otb'.ch
    BY <1>0, <1>4, OtbFields DEF Pause
  <2> QED
    BY <1>4, <2>1 DEF Pause, OneTransport
<1>5. CASE BoilerTick
  <2>1. relay' => Verified /\ ~user.paused
    BY <1>5 DEF BoilerTick, Drive, Output, May, Available, Verified
  <2>2. relay' => ~hub.polling /\ ~otb.link /\ hub.wire = NoRequest
    BY <2>1 DEF Quiet, Wired
  <2>3. relay' => user.selected = "R1" /\ ~otb.ch
    BY <1>0, <2>1, <2>2 DEF OneTransport, Verified, OT, Connection, User
  <2>4. UNCHANGED <<user, probe, mismatch, otb, hub>>
    BY <1>5 DEF BoilerTick
  <2> QED
    BY <2>1, <2>2, <2>3, <2>4 DEF OneTransport, Verified, OT
<1>6. CASE Apply
  <2>1. otb'.ch => OT(user) /\ user.present /\ ~user.paused /\ otb'.link
    BY <1>0, <1>6 DEF Apply, Otb
  <2>2. UNCHANGED <<user, relay, probe, mismatch, hub>>
    BY <1>6 DEF Apply
  <2>3. relay => ~otb'.ch
    BY <2>1 DEF OneTransport, OT
  <2> QED
    BY <2>1, <2>2, <2>3 DEF OneTransport, OT
<1>7. CASE LinkWatch
  <2>1. ~otb'.ch
    BY <1>0, <1>7, WatchLeaves DEF OneTransport
  <2>2. ~relay
    <3> SUFFICES ASSUME relay PROVE FALSE
      OBVIOUS
    <3>1. user.present /\ ~otb.link /\ otb.status = Stale
      <4>1. Verified
        BY ClosedIsQuiet DEF OneTransport, Verified, OT
      <4> QED
        BY <4>1 DEF Quiet, Verified
    <3>2. ~(Stale <= LinkTime)
      BY ConstantTypes
    <3> QED
      BY <1>7, <3>1, <3>2 DEF LinkWatch
  <2> QED
    BY <1>7, <2>1, <2>2 DEF LinkWatch, OneTransport
<1>8. CASE ProbeTimedOut \/ ProbeMismatch \/ ProbeSelects
  <2>1. ~relay' /\ probe.active /\ ~otb.ch
    BY <1>8 DEF ProbeTimedOut, ProbeMismatch, ProbeSelects, ProbeEnd, ProbeKnows
  <2>2. [otb EXCEPT !.ch = FALSE] \in Otb
    BY <1>0, OtbType
  <2>3. otb' = Reset(otb) \/ otb' = otb \/ otb' = Reset([otb EXCEPT !.ch = FALSE])
    BY <1>8 DEF ProbeTimedOut, ProbeMismatch, ProbeSelects, Polling
  <2>4. otb'.ch = otb.ch \/ otb'.ch = [otb EXCEPT !.ch = FALSE].ch
    BY <1>0, <2>2, <2>3, OtbFields
  <2>5. ~otb'.ch
    BY <1>0, <2>1, <2>4, OtbFields
  <2> QED
    BY <2>1, <2>5 DEF OneTransport
<1>10. CASE Send
  BY <1>10 DEF Send, OneTransport, OT
<1>11. CASE Answer \/ NoAnswer
  <2>1. ~relay
    BY <1>11, HubFields DEF Answer, NoAnswer, OneTransport
  <2>2. otb'.ch = otb.ch /\ otb'.link = otb.link
    BY <1>0, <1>11 DEF Answer, NoAnswer, Otb
  <2> QED
    BY <1>11, <2>1, <2>2 DEF Answer, NoAnswer, OneTransport, OT
<1>12. CASE Pass
  <2>1. otb'.ch = otb.ch /\ otb'.link = otb.link /\ probe'.active = probe.active
    BY <1>0, <1>12 DEF Pass, Otb, Probe
  <2> QED
    BY <1>12, <2>1 DEF Pass, OneTransport, OT
<1>13. CASE Reboot
  BY <1>13 DEF Reboot, Booted, OneTransport
<1>14. CASE Dispatch \/ UNCHANGED vars
  BY <1>14 DEF Dispatch, vars, OneTransport, OT
<1> QED
  BY <1>1, <1>2, <1>3, <1>4, <1>5, <1>6, <1>7, <1>8, <1>10, <1>11, <1>12, <1>13, <1>14 DEF Next

LEMMA QuietStep ==
  TypeOK /\ Quiet /\ Wired /\ ProbeKnows /\ Handshake /\ [Next]_vars => Quiet'
<1> SUFFICES ASSUME TypeOK, Quiet, Wired, ProbeKnows, Handshake, [Next]_vars PROVE Quiet'
  OBVIOUS
<1>0. user \in User /\ otb \in Otb /\ hub \in Hub /\ probe \in Probe /\ flush \in Flush
  BY DEF TypeOK
<1>1. ASSUME NEW c \in Connection, Select(c) PROVE Quiet'
  <2> DEFINE u == [user EXCEPT !.selected = c]
             o == [otb EXCEPT !.ch = FALSE]
  <2>1. ConnectionChanged(u, o) /\ user' = u
    BY <1>1 DEF Select
  <2>2. u \in User /\ o \in Otb
    BY <1>0 DEF User, Otb
  <2> HIDE DEF u, o
  <2>3. ~Verified'
    BY <2>1, <2>2, ConnectionLeaves DEF Verified, Busy, OT
  <2> QED
    BY <2>3 DEF Quiet
<1>2. ASSUME NEW p \in BOOLEAN, SourcePresence(p) PROVE Quiet'
  <2> DEFINE u == [user EXCEPT !.present = p]
  <2>1. ConnectionChanged(u, otb) /\ user' = u
    BY <1>2 DEF SourcePresence
  <2>2. u \in User
    BY <1>0 DEF User
  <2> HIDE DEF u
  <2>3. ~Verified'
    BY <1>0, <2>1, <2>2, ConnectionLeaves DEF Verified, Busy, OT
  <2> QED
    BY <2>3 DEF Quiet
<1>3. CASE FlushEnds
  BY <1>3, FlushEndLeaves DEF Verified, Busy, OT, Quiet
<1>4. CASE Pause
  <2>1. user'.selected = user.selected /\ user'.present = user.present
        /\ otb'.link = otb.link /\ otb'.status = otb.status
    BY <1>0, <1>4, OtbFields DEF Pause, User
  <2> QED
    BY <1>4, <2>1 DEF Pause, Quiet, Verified, Busy, OT
<1>5. CASE Apply
  <2>1. otb'.link = otb.link /\ otb'.status = otb.status
    BY <1>0, <1>5 DEF Apply, Otb
  <2> QED
    BY <1>5, <2>1 DEF Apply, Quiet, Verified, Busy, OT
<1>6. CASE LinkWatch
  <2>1. Verified' => Verified
    BY <1>6 DEF LinkWatch, Verified, Busy, OT
  <2>2. ~Verified
    <3> SUFFICES ASSUME Verified PROVE FALSE
      OBVIOUS
    <3>1. user.present /\ ~otb.link /\ otb.status = Stale
      BY DEF Quiet, Verified
    <3>2. ~(Stale <= LinkTime)
      BY ConstantTypes
    <3> QED
      BY <1>6, <3>1, <3>2 DEF LinkWatch
  <2> QED
    BY <2>1, <2>2 DEF Quiet
<1>7. CASE ProbeTimedOut
  BY <1>0, <1>7, OtbFields, HubFields DEF ProbeTimedOut, Quiet
<1>8. CASE ProbeMismatch
  BY <1>8 DEF ProbeMismatch, Quiet, Verified
<1>9. CASE ProbeSelects
  <2>1. OT(user')
    BY <1>0, <1>9 DEF ProbeSelects, OT, User
  <2> QED
    BY <2>1 DEF Quiet, Verified, OT
<1>11. CASE Send
  <2>1. hub.polling /\ UNCHANGED <<user, mismatch, otb>> /\ flush'.caller = flush.caller
        /\ probe'.active = probe.active
    BY <1>0, <1>11 DEF Send, Flush, Probe
  <2> QED
    BY <2>1 DEF Quiet, Verified, Busy, OT
<1>12. CASE Answer \/ NoAnswer
  <2>1. hub.wire # NoRequest /\ UNCHANGED <<user, mismatch>> /\ flush'.caller = flush.caller
        /\ probe'.active = probe.active
    BY <1>0, <1>12, HubFields DEF Answer, NoAnswer, Flush, Probe, Acknowledged
  <2> QED
    BY <2>1 DEF Quiet, Verified, Busy, OT, Wired
<1>13. CASE Pass
  <2>1. probe'.active = probe.active /\ otb'.link = otb.link /\ otb'.status = AtMost(Stale, otb.status + 1)
    BY <1>0, <1>13 DEF Pass, Otb, Probe
  <2>2. AtMost(Stale, Stale + 1) = Stale
    BY ConstantTypes DEF AtMost
  <2> QED
    BY <1>13, <2>1, <2>2 DEF Pass, Quiet, Verified, Busy, OT
<1>14. CASE Reboot
  <2> DEFINE u == [user EXCEPT !.paused = FALSE]
  <2>1. Booted(u)
    BY <1>14 DEF Reboot
  <2> HIDE DEF u
  <2>2. user' = u /\ (u.present /\ ~OT(u) => probe'.active)
    BY <2>1 DEF Booted, ProbeBegun, NoProbe
  <2> QED
    BY <2>2 DEF Quiet, Verified, OT
<1>15. CASE Dispatch \/ BoilerTick \/ UNCHANGED vars
  BY <1>15 DEF Dispatch, BoilerTick, vars, Quiet, Verified, Busy, OT
<1> QED
  BY <1>1, <1>2, <1>3, <1>4, <1>5, <1>6, <1>7, <1>8, <1>9, <1>11, <1>12, <1>13, <1>14, <1>15 DEF Next

LEMMA AbsentStep == TypeOK /\ Absent /\ Handshake /\ [Next]_vars => Absent'
<1> SUFFICES ASSUME TypeOK, Absent, Handshake, [Next]_vars PROVE Absent'
  OBVIOUS
<1>0. user \in User /\ otb \in Otb /\ hub \in Hub /\ flush \in Flush
  BY DEF TypeOK
<1>1. ASSUME NEW u \in User, NEW o \in Otb, ConnectionChanged(u, o), user' = u PROVE Absent'
  <2>1. CASE u.present
    BY <1>1, <2>1 DEF Absent
  <2>2. CASE Dormant(o)
    BY <2>2, DormantLeaves DEF Absent
  <2>3. CASE ~u.present /\ otb.link
    BY <1>1, <2>3, NoFlushFields DEF ConnectionChanged, FlushFor, Absent, Busy
  <2> QED
    BY <1>1, <2>1, <2>2, <2>3 DEF ConnectionChanged
<1>2. ASSUME NEW c \in Connection, Select(c) PROVE Absent'
  <2> DEFINE u == [user EXCEPT !.selected = c]
             o == [otb EXCEPT !.ch = FALSE]
  <2>1. ConnectionChanged(u, o) /\ user' = u
    BY <1>2 DEF Select
  <2>2. u \in User /\ o \in Otb
    BY <1>0 DEF User, Otb
  <2> HIDE DEF u, o
  <2> QED
    BY <1>1, <2>1, <2>2
<1>3. ASSUME NEW p \in BOOLEAN, SourcePresence(p) PROVE Absent'
  <2> DEFINE u == [user EXCEPT !.present = p]
  <2>1. ConnectionChanged(u, otb) /\ user' = u
    BY <1>3 DEF SourcePresence
  <2>2. u \in User
    BY <1>0 DEF User
  <2> HIDE DEF u
  <2> QED
    BY <1>0, <1>1, <2>1, <2>2
<1>4. CASE FlushEnds
  <2>1. CASE Dormant(otb)
    BY <1>0, <2>1, DormantLeaves DEF Absent
  <2>2. CASE flush.caller = "probe"
    BY <1>4, <2>2 DEF FlushEnds, Handshake, Busy, Absent
  <2> QED
    BY <1>4, <2>1, <2>2 DEF FlushEnds
<1>5. CASE Pause \/ Apply \/ Pass
  <2>1. user'.present = user.present /\ otb'.link = otb.link /\ UNCHANGED <<hub, flush>>
    BY <1>0, <1>5 DEF Pause, Apply, Pass, User, Otb
  <2> QED
    BY <2>1 DEF Absent, Busy
<1>6. CASE LinkWatch
  <2>1. CASE user.present
    BY <1>6, <2>1 DEF LinkWatch, Absent
  <2>2. CASE ~user.present
    BY <1>6, <2>2 DEF LinkWatch, Absent, Busy
  <2> QED
    BY <2>1, <2>2
<1>7. CASE ProbeTimedOut \/ ProbeMismatch \/ ProbeSelects
  <2>1. user'.present = user.present /\ user.present
    BY <1>0, <1>7 DEF ProbeTimedOut, ProbeMismatch, ProbeSelects, ProbeEnd, KeepPolling, User
  <2> QED
    BY <2>1 DEF Absent
<1>8. CASE Send \/ Answer \/ NoAnswer
  <2>1. UNCHANGED user /\ flush'.caller = flush.caller /\ hub'.polling = hub.polling
        /\ otb'.link = otb.link
    BY <1>0, <1>8 DEF Send, Answer, NoAnswer, Flush, Acknowledged, Hub, Otb
  <2> QED
    BY <2>1 DEF Absent, Busy
<1>9. CASE Reboot
  <2> DEFINE u == [user EXCEPT !.paused = FALSE]
  <2>1. Booted(u)
    BY <1>9 DEF Reboot
  <2>2. hub'.polling = u.present /\ user' = u /\ ~otb'.link
    BY <2>1 DEF Booted
  <2> QED
    BY <2>2 DEF Absent
<1>10. CASE Dispatch \/ BoilerTick \/ UNCHANGED vars
  BY <1>10 DEF Dispatch, BoilerTick, vars, Absent, Busy
<1> QED
  BY <1>2, <1>3, <1>4, <1>5, <1>6, <1>7, <1>8, <1>9, <1>10 DEF Next

LEMMA HeardStep ==
  TypeOK /\ Heard /\ ProbeKnows /\ Handshake /\ [Next]_vars => Heard'
<1> SUFFICES ASSUME TypeOK, Heard, ProbeKnows, Handshake, [Next]_vars PROVE Heard'
  OBVIOUS
<1>0. user \in User /\ probe \in Probe /\ flush \in Flush /\ seen \in Seen /\ otb \in Otb
  BY DEF TypeOK
<1>1. ASSUME NEW c \in Connection, Select(c) PROVE Heard'
  <2> DEFINE u == [user EXCEPT !.selected = c]
             o == [otb EXCEPT !.ch = FALSE]
  <2>1. ConnectionChanged(u, o) /\ user' = u /\ seen' = CameToRest(EdgeSeen(ProbeSeen(seen)), o)
    BY <1>1 DEF Select
  <2>2. u \in User /\ o \in Otb
    BY <1>0 DEF User, Otb
  <2> HIDE DEF u, o
  <2>3. ProbeSeen(seen) \in Seen /\ EdgeSeen(ProbeSeen(seen)) \in Seen
    BY <1>0, <2>2, SeenType
  <2>10. seen'.answered = EdgeSeen(ProbeSeen(seen)).answered
    BY <2>1, <2>3, SeenFields
  <2>11. seen'.answered = ProbeSeen(seen).answered
    BY <2>10, <2>3, SeenFields
  <2>4. probe'.active => ~seen'.answered
    BY <1>0, <2>11, SeenFields
  <2> QED
    BY <2>1, <2>2, <2>4, ConnectionLeaves DEF Heard, Busy, OT
<1>2. ASSUME NEW p \in BOOLEAN, SourcePresence(p) PROVE Heard'
  <2> DEFINE u == [user EXCEPT !.present = p]
  <2>1. ConnectionChanged(u, otb) /\ user' = u /\ seen' = CameToRest(ProbeSeen(seen), otb')
    BY <1>2 DEF SourcePresence
  <2>2. u \in User
    BY <1>0 DEF User
  <2> HIDE DEF u
  <2>3. ProbeSeen(seen) \in Seen
    BY <1>0, SeenType
  <2>10. seen'.answered = ProbeSeen(seen).answered
    BY <2>1, <2>3, SeenFields
  <2>4. probe'.active => ~seen'.answered
    BY <1>0, <2>10, SeenFields
  <2> QED
    BY <1>0, <2>1, <2>2, <2>4, ConnectionLeaves DEF Heard, Busy, OT
<1>3. CASE FlushEnds
  <2>1. probe'.active => ~seen'.answered
    BY <1>0, <1>3, SeenFields DEF FlushEnds
  <2> QED
    BY <1>3, <2>1, FlushEndLeaves DEF Heard, Busy, OT
<1>4. CASE Pause
  <2>1. user'.selected = user.selected /\ user'.present = user.present
    BY <1>0, <1>4 DEF Pause, User
  <2>2. EdgeSeen(seen) \in Seen /\ seen' = CameToRest(EdgeSeen(seen), [otb EXCEPT !.ch = FALSE])
    BY <1>0, <1>4, SeenType DEF Pause
  <2>3. seen'.answered = EdgeSeen(seen).answered
    BY <2>2, SeenFields
  <2>4. seen'.answered = seen.answered
    BY <1>0, <2>3, SeenFields
  <2> QED
    BY <1>4, <2>1, <2>4 DEF Pause, Heard, Busy, OT
<1>5. CASE Dispatch
  <2>1. seen'.answered = seen.answered
    BY <1>0, <1>5 DEF Dispatch, Seen
  <2> QED
    BY <1>5, <2>1 DEF Dispatch, Heard, Busy, OT
<1>6. CASE Apply
  <2>1. seen' = CameToRest(seen, otb')
    BY <1>6 DEF Apply
  <2>2. seen'.answered = seen.answered
    BY <1>0, <2>1, SeenFields
  <2> QED
    BY <1>6, <2>2 DEF Apply, Heard, Busy, OT
<1>7. CASE LinkWatch
  <2>1. CASE seen' = seen
    BY <1>7, <2>1 DEF LinkWatch, Heard, Busy, OT
  <2>2. CASE OT(user)
    BY <1>7, <2>2 DEF LinkWatch, Heard, OT
  <2> QED
    BY <1>7, <2>1, <2>2 DEF LinkWatch, LinkChanged
<1>8. CASE ProbeTimedOut
  <2>1. seen'.answered = seen.answered /\ UNCHANGED user
    BY <1>0, <1>8, SeenFields DEF ProbeTimedOut
  <2>2. ~probe.detected /\ ~mismatch /\ ~Busy /\ user.present /\ ~OT(user)
    BY <1>8 DEF ProbeTimedOut, ProbeEnd, ProbeResult, ProbeKnows
  <2> QED
    BY <2>1, <2>2 DEF Heard
<1>9. CASE ProbeMismatch
  BY <1>9 DEF ProbeMismatch, Heard
<1>10. CASE ProbeSelects
  <2>1. OT(user')
    BY <1>0, <1>10 DEF ProbeSelects, OT, User
  <2> QED
    BY <2>1 DEF Heard, OT
<1>11. CASE Send
  <2>1. flush'.caller = flush.caller /\ probe'.active = probe.active /\ probe'.detected = probe.detected
    BY <1>0, <1>11 DEF Send, Flush, Probe
  <2> QED
    BY <1>11, <2>1 DEF Send, Heard, Busy, OT
<1>12. CASE Answer
  <2>1. flush'.caller = flush.caller /\ probe'.active = probe.active /\ UNCHANGED <<user, mismatch>>
    BY <1>0, <1>12 DEF Answer, Flush, Probe, Acknowledged
  <2>2. PICK frame \in {"ack", "negative", "other"} :
          /\ probe' = [probe EXCEPT !.detected = @ \/ (probe.active /\ probe.sent
                                       /\ (hub.wire.known /\ hub.wire.id = "STATUS")
                                       /\ (hub.wire.known /\ frame # "other"))]
          /\ seen' = [seen EXCEPT !.answered = @ \/ (probe.active
                                       /\ (hub.wire.known /\ hub.wire.id = "STATUS")
                                       /\ (hub.wire.known /\ frame # "other"))]
    BY <1>12 DEF Answer
  <2>3. probe'.detected <=> (probe.detected \/ (probe.active /\ probe.sent /\ hub.wire.known
                                                /\ hub.wire.id = "STATUS" /\ frame # "other"))
    BY <1>0, <2>2 DEF Probe
  <2>4. seen'.answered <=> (seen.answered \/ (probe.active /\ hub.wire.known
                                              /\ hub.wire.id = "STATUS" /\ frame # "other"))
    BY <1>0, <2>2 DEF Seen
  <2> QED
    BY <2>1, <2>3, <2>4 DEF ProbeKnows, Heard, Busy, OT
<1>13. CASE Pass
  <2>1. probe'.active = probe.active /\ probe'.detected = probe.detected /\ seen'.answered = seen.answered
    BY <1>0, <1>13 DEF Pass, Seen, Probe
  <2> QED
    BY <1>13, <2>1 DEF Pass, Heard, Busy, OT
<1>14. CASE Reboot
  BY <1>14 DEF Reboot, Booted, Heard
<1>15. CASE BoilerTick \/ NoAnswer \/ UNCHANGED vars
  BY <1>15 DEF BoilerTick, NoAnswer, vars, Heard, Busy, OT
<1> QED
  BY <1>1, <1>2, <1>3, <1>4, <1>5, <1>6, <1>7, <1>8, <1>9, <1>10, <1>11, <1>12, <1>13, <1>14, <1>15 DEF Next

(* -------------------------------- Rested -------------------------------- *)
LEMMA Numbers ==
  ASSUME TypeOK
  PROVE /\ ctl \in Ctl /\ seen \in Seen /\ otb \in Otb /\ user \in User /\ probe \in Probe
        /\ ctl.since \in 0 .. MostRest /\ ctl.request \in BOOLEAN
        /\ seen.rest \in 0 .. MinOff /\ MinOff \in Nat /\ MostRest \in Nat /\ MinOff <= MostRest
        /\ Least(0) = 0
BY ConstantTypes DEF TypeOK, Ctl, Seen, Least

\* The request and CH go together, or CH was off.
LEMMA Dropped ==
  ASSUME TypeOK, Rested, ~otb'.ch, ctl'.request = FALSE,
         ctl'.since = IF ctl.request THEN 0 ELSE ctl.since,
         seen'.rest = IF otb.ch THEN 0 ELSE seen.rest
  PROVE Rested'
<1>1. Least(ctl'.since) <= seen'.rest
  BY Numbers DEF Rested
<1>2. ctl'.request = FALSE
  OBVIOUS
<1> QED
  BY <1>1, <1>2 DEF Rested, Least

\* CH stays off, and the request, its time and the rest stay.
LEMMA StillOff ==
  ASSUME Rested, ~otb.ch, ~otb'.ch, ctl'.request = ctl.request, ctl'.since = ctl.since, seen'.rest = seen.rest,
         ctl.request /\ OT(user) /\ (~user.present \/ ~otb.link)
           => user'.selected = user.selected /\ (~user'.present \/ ~otb'.link),
         OT(user') /\ user'.present /\ otb'.link => OT(user) /\ user.present /\ otb.link
  PROVE Rested'
<1>1. Least(ctl'.since) = Least(ctl.since)
  OBVIOUS
<1>2. \/ Least(ctl.since) <= seen.rest
      \/ ctl.request /\ OT(user) /\ (~user.present \/ ~otb.link)
  BY DEF Rested
<1>3. \/ Least(ctl'.since) <= seen'.rest
      \/ ctl'.request /\ OT(user') /\ (~user'.present \/ ~otb'.link)
  BY <1>1, <1>2 DEF OT
<1>4. ctl'.request /\ OT(user') /\ user'.present /\ otb'.link => seen'.rest >= MinOff
  BY DEF Rested
<1> QED
  BY <1>3, <1>4 DEF Rested, OT, Least

LEMMA RestedSource ==
  ASSUME TypeOK, Rested, OneTransport, ProbeKnows, NEW p \in BOOLEAN, SourcePresence(p)
  PROVE Rested'
<1> DEFINE u == [user EXCEPT !.present = p]
<1>0. otb \in Otb /\ seen \in Seen /\ ProbeSeen(seen) \in Seen
  BY SeenType DEF TypeOK
<1>1. /\ ConnectionChanged(u, otb) /\ user' = u /\ ctl' = ctl /\ p # user.present
      /\ seen' = CameToRest(ProbeSeen(seen), otb')
  BY DEF SourcePresence
<1>2. u \in User /\ u.present = p /\ u.selected = user.selected /\ user.present \in BOOLEAN
  BY DEF TypeOK, User
<1> HIDE DEF u
<1>3. otb'.ch => otb.ch /\ p
  BY <1>0, <1>1, <1>2, ConnectionLeaves
<1>4. seen'.rest = IF otb.ch /\ ~otb'.ch THEN 0 ELSE ProbeSeen(seen).rest
  BY <1>0, <1>1, SeenFields
<1>5. ProbeSeen(seen).rest = seen.rest
  BY <1>0, SeenFields
<1>6. ~otb'.ch
  BY <1>1, <1>2, <1>3 DEF OneTransport
<1>7. CASE otb.ch
  <2>1. OT(user) /\ user.present /\ ~p /\ seen'.rest = 0
    BY <1>1, <1>2, <1>4, <1>6, <1>7 DEF OneTransport
  <2>2. ~user'.present /\ OT(user')
    BY <1>1, <1>2, <2>1 DEF OT
  <2>3. CASE ctl.request
    BY <1>1, <1>6, <2>2, <2>3 DEF Rested, OT
  <2>4. CASE ~ctl.request
    <3>1. ctl'.since = 0
      BY <1>1, <1>7, <2>4 DEF Rested
    <3>2. Least(ctl'.since) <= seen'.rest
      BY <2>1, <3>1, Numbers
    <3> QED
      BY <1>6, <2>2, <3>2 DEF Rested, Least
  <2> QED
    BY <2>3, <2>4
<1>8. CASE ~otb.ch
  <2>1. seen'.rest = seen.rest
    BY <1>4, <1>5, <1>8
  <2>2. p => ~OT(u) \/ ~otb'.link
    BY <1>0, <1>1, <1>2, OtbFields DEF ConnectionChanged, Polling
  <2> QED
    BY <1>1, <1>2, <1>6, <1>8, <2>1, <2>2, StillOff DEF OT
<1> QED
  BY <1>7, <1>8

LEMMA RestedTick == ASSUME TypeOK, Rested, BoilerTick PROVE Rested'
<1>1. PICK valid \in BOOLEAN, guards \in BOOLEAN, heat \in BOOLEAN :
        Drive(Output(May(valid, guards), heat), ~Rearmed(valid))
  BY DEF BoilerTick
<1> DEFINE output == Output(May(valid, guards), heat)
<1>2. output \in BOOLEAN
  BY DEF Output, May
<1>3. output /\ ~ctl.request /\ OT(user) => ctl.since >= MinOff
  BY Numbers DEF Output
<1> HIDE DEF output
<1>4. /\ ctl'.request = output
      /\ ctl'.since = IF output = ctl.request THEN ctl.since ELSE 0
  BY <1>1, <1>2, Numbers DEF Drive, Ctl, output
<1>5. UNCHANGED <<user, otb, seen>>
  BY DEF BoilerTick
<1>6. CASE output = ctl.request
  <2>1. ctl'.request = ctl.request /\ ctl'.since = ctl.since
    BY <1>4, <1>6
  <2> QED
    BY <1>5, <2>1 DEF Rested, OT, Least
<1>7. CASE output # ctl.request
  <2>1. ctl'.since = 0 /\ (ctl'.request <=> ~ctl.request)
    BY <1>2, <1>4, <1>7, Numbers
  <2>2. Least(ctl'.since) <= seen'.rest
    BY <1>5, <2>1, Numbers
  <2>3. ~otb.ch /\ ctl'.request /\ OT(user) => seen.rest >= MinOff
    BY <1>3, <1>4, <2>1, Numbers DEF Rested, Least
  <2> QED
    BY <1>5, <2>1, <2>2, <2>3 DEF Rested, OT, Least
<1> QED
  BY <1>6, <1>7

LEMMA RestedApply == ASSUME TypeOK, Rested, Apply PROVE Rested'
<1>0. otb \in Otb /\ seen \in Seen /\ ctl \in Ctl
  BY DEF TypeOK
<1>1. PICK active \in BOOLEAN :
        /\ otb' = [otb EXCEPT !.ch = active, !.applied = active]
        /\ active => ctl.request
        /\ ctl' = IF (otb.applied /\ ~active) /\ ctl.request THEN Refused(ctl) ELSE ctl
  BY DEF Apply
<1>2. otb'.ch = active /\ otb'.applied = active /\ otb'.link = otb.link
  BY <1>0, <1>1 DEF Otb
<1>3. seen' = CameToRest(seen, otb') /\ user' = user
  BY DEF Apply
<1>4. seen'.rest = IF otb.ch /\ ~otb'.ch THEN 0 ELSE seen.rest
  BY <1>0, <1>3, SeenFields
<1>5. CASE active
  BY <1>1, <1>2, <1>5 DEF Rested
<1>6. CASE ~active /\ otb.applied /\ ctl.request
  <2>1. ctl'.request = FALSE /\ ctl'.since = 0
    BY <1>0, <1>1, <1>6, CtlFields
  <2>2. seen'.rest = IF otb.ch THEN 0 ELSE seen.rest
    BY <1>2, <1>4, <1>6
  <2> QED
    BY <1>2, <1>6, <2>1, <2>2, Dropped
<1>7. CASE ~active /\ ~(otb.applied /\ ctl.request)
  <2>1. ctl' = ctl /\ ~otb'.ch
    BY <1>1, <1>2, <1>7
  <2>2. CASE otb.ch
    BY <1>2, <1>4, <1>7, <2>1, <2>2, Numbers, Dropped DEF Rested
  <2>3. CASE ~otb.ch
    BY <1>2, <1>3, <1>4, <2>1, <2>3, StillOff DEF OT
  <2> QED
    BY <2>2, <2>3
<1> QED
  BY <1>5, <1>6, <1>7

LEMMA RestedWatch == ASSUME TypeOK, Rested, OneTransport, LinkWatch PROVE Rested'
<1>0. otb \in Otb /\ seen \in Seen /\ ctl \in Ctl /\ EdgeSeen(seen) \in Seen
  BY SeenType DEF TypeOK
<1>1. CASE user.present /\ OT(user)
  <2>1. ~otb'.ch
    BY <1>0, <1>1, WatchLeaves
  <2>2. ctl' = Edge(ctl) /\ seen' = CameToRest(EdgeSeen(seen), otb')
    BY <1>1 DEF LinkWatch, LinkChanged
  <2>3. seen'.rest = IF otb.ch /\ ~otb'.ch THEN 0 ELSE EdgeSeen(seen).rest
    BY <1>0, <2>2, SeenFields
  <2>4. EdgeSeen(seen).rest = seen.rest
    BY <1>0, SeenFields
  <2>5. ctl'.request = FALSE /\ ctl'.since = IF ctl.request THEN 0 ELSE ctl.since
    BY <1>0, <2>2, CtlFields
  <2> QED
    BY <2>1, <2>3, <2>4, <2>5, Dropped
<1>2. CASE ~(user.present /\ OT(user))
  <2>1. ~otb.ch /\ ~otb'.ch
    BY <1>0, <1>2, WatchLeaves DEF OneTransport
  <2>2. UNCHANGED <<ctl, seen, user>>
    BY <1>2 DEF LinkWatch, LinkChanged
  <2> QED
    BY <1>2, <2>1, <2>2, StillOff DEF OT
<1> QED
  BY <1>1, <1>2

LEMMA RestedPass == ASSUME TypeOK, Rested, Pass PROVE Rested'
<1>1. /\ ctl'.since = AtMost(MostRest, ctl.since + 1) /\ ctl'.request = ctl.request
      /\ seen'.rest = AtMost(MinOff, seen.rest + 1)
      /\ otb'.ch = otb.ch /\ otb'.link = otb.link /\ otb'.applied = otb.applied
      /\ user' = user /\ (otb.ch => ctl.request)
  BY Numbers DEF Pass, Ctl, Seen, Otb
<1>2. Least(ctl.since) <= seen.rest => Least(ctl'.since) <= seen'.rest
  BY <1>1, Numbers DEF Least, AtMost
<1>3. seen.rest >= MinOff => seen'.rest >= MinOff
  BY <1>1, Numbers DEF AtMost
<1> QED
  BY <1>1, <1>2, <1>3 DEF Rested, OT, Least

LEMMA RestedStep ==
  TypeOK /\ Rested /\ OneTransport /\ Handshake /\ ProbeKnows /\ [Next]_vars => Rested'
<1> SUFFICES ASSUME TypeOK, Rested, OneTransport, Handshake, ProbeKnows, [Next]_vars PROVE Rested'
  OBVIOUS
<1>0. otb \in Otb /\ seen \in Seen /\ ctl \in Ctl /\ user \in User
  BY DEF TypeOK
<1>1. ASSUME NEW c \in Connection, Select(c) PROVE Rested'
  <2> DEFINE u == [user EXCEPT !.selected = c]
             o == [otb EXCEPT !.ch = FALSE]
  <2>1. /\ ConnectionChanged(u, o) /\ user' = u /\ ctl' = Edge(ctl)
        /\ seen' = CameToRest(EdgeSeen(ProbeSeen(seen)), o)
    BY <1>1 DEF Select
  <2>2. u \in User /\ o \in Otb /\ ~o.ch
    BY <1>0 DEF User, Otb
  <2> HIDE DEF u, o
  <2>3. ProbeSeen(seen) \in Seen /\ EdgeSeen(ProbeSeen(seen)) \in Seen
    BY <1>0, <2>2, SeenType
  <2>4. seen'.rest = IF otb.ch /\ ~o.ch THEN 0 ELSE EdgeSeen(ProbeSeen(seen)).rest
    BY <2>1, <2>3, SeenFields
  <2>5. EdgeSeen(ProbeSeen(seen)).rest = ProbeSeen(seen).rest /\ ProbeSeen(seen).rest = seen.rest
    BY <1>0, <2>3, SeenFields
  <2>6. ~otb'.ch
    BY <2>1, <2>2, ConnectionLeaves
  <2>7. ctl'.request = FALSE /\ ctl'.since = IF ctl.request THEN 0 ELSE ctl.since
    BY <1>0, <2>1, CtlFields
  <2> QED
    BY <2>2, <2>4, <2>5, <2>6, <2>7, Dropped
<1>2. ASSUME NEW p \in BOOLEAN, SourcePresence(p) PROVE Rested'
  BY <1>2, RestedSource
<1>3. CASE FlushEnds
  <2>1. ~otb.ch /\ ~otb'.ch /\ UNCHANGED <<user, ctl>>
    BY <1>3, FlushEndLeaves DEF FlushEnds, Handshake
  <2>2. seen'.rest = seen.rest
    BY <1>0, <1>3, SeenFields DEF FlushEnds
  <2>3. ~otb'.link
    <3>1. Reset(otb) \in Otb /\ ~Reset(otb).link
      BY <1>0, OtbType, OtbFields
    <3> QED
      BY <1>3, <3>1 DEF FlushEnds, Dormant, Probing, Otb
  <2> QED
    BY <2>1, <2>2, <2>3, StillOff
<1>4. CASE Pause
  <2> DEFINE o == [otb EXCEPT !.ch = FALSE]
  <2>1. otb' = o /\ seen' = CameToRest(EdgeSeen(seen), o) /\ EdgeSeen(seen) \in Seen
        /\ ctl' = [Withdrawn(ctl) EXCEPT !.rearm = TRUE]
    BY <1>0, <1>4, SeenType DEF Pause
  <2>2. ~o.ch /\ o \in Otb
    BY <1>0 DEF Otb
  <2> HIDE DEF o
  <2>3. seen'.rest = IF otb.ch /\ ~o.ch THEN 0 ELSE EdgeSeen(seen).rest
    BY <2>1, SeenFields
  <2>4. EdgeSeen(seen).rest = seen.rest
    BY <1>0, SeenFields
  <2>5. Withdrawn(ctl) \in Ctl
    BY <1>0, CtlType
  <2>6. ctl'.request = Withdrawn(ctl).request /\ ctl'.since = Withdrawn(ctl).since
    BY <2>1, <2>5 DEF Ctl
  <2>7. ctl'.request = FALSE /\ ctl'.since = IF ctl.request THEN 0 ELSE ctl.since
    BY <1>0, <2>6, CtlFields
  <2> QED
    BY <2>1, <2>2, <2>3, <2>4, <2>7, Dropped
<1>5. CASE Dispatch
  <2>1. seen'.rest = seen.rest
    BY <1>0, <1>5 DEF Dispatch, Seen
  <2> QED
    BY <1>5, <2>1 DEF Dispatch, Rested, OT, Least
<1>6. CASE ProbeTimedOut \/ ProbeMismatch \/ ProbeSelects
  <2>1. ~otb.ch /\ ~OT(user)
    BY <1>6 DEF ProbeTimedOut, ProbeMismatch, ProbeSelects, ProbeEnd, ProbeKnows
  <2>2. seen'.rest = seen.rest
    BY <1>0, <1>6, SeenFields DEF ProbeTimedOut, ProbeMismatch, ProbeSelects
  <2>3. ~otb'.ch
    <3>1. [otb EXCEPT !.ch = FALSE] \in Otb
      BY <1>0, OtbType
    <3>2. otb' = Reset(otb) \/ otb' = otb \/ otb' = Reset([otb EXCEPT !.ch = FALSE])
      BY <1>6 DEF ProbeTimedOut, ProbeMismatch, ProbeSelects, Polling
    <3>3. otb'.ch = otb.ch \/ otb'.ch = [otb EXCEPT !.ch = FALSE].ch
      BY <1>0, <3>1, <3>2, OtbFields
    <3> QED
      BY <1>0, <2>1, <3>3, OtbFields
  <2>4. ctl'.request = FALSE /\ ctl'.since = ctl.since
    <3>1. ctl' = Resettled([ctl EXCEPT !.request = FALSE])
      BY <1>6 DEF ProbeTimedOut, ProbeMismatch, ProbeSelects, ProbeEnd
    <3> QED
      BY <1>0, <3>1 DEF Resettled, Ctl
  <2>5. Least(ctl'.since) <= seen'.rest
    BY <2>1, <2>2, <2>4 DEF Rested
  <2> QED
    BY <2>3, <2>4, <2>5 DEF Rested, Least
<1>7. CASE Answer
  <2>1. otb'.ch = otb.ch /\ otb'.link = otb.link /\ otb'.applied = otb.applied /\ seen'.rest = seen.rest
    BY <1>0, <1>7 DEF Answer, Otb, Seen
  <2> QED
    BY <1>7, <2>1 DEF Answer, Rested, OT, Least
<1>8. CASE Reboot
  <2>1. ~otb'.ch /\ ctl'.request = FALSE /\ ctl'.since = MostRest /\ seen'.rest = MinOff
    BY <1>8 DEF Reboot, Booted
  <2>2. Least(ctl'.since) <= seen'.rest
    BY <2>1, Numbers DEF Least
  <2> QED
    BY <2>1, <2>2 DEF Rested, Least
<1>9. CASE Send \/ NoAnswer \/ UNCHANGED vars
  BY <1>9 DEF Send, NoAnswer, vars, Rested, OT, Least
<1> QED
  BY <1>1, <1>2, <1>3, <1>4, <1>5, <1>6, <1>7, <1>8, <1>9, RestedTick, RestedApply, RestedWatch, RestedPass DEF Next

(* ------------------------------- theorems ------------------------------- *)
LEMMA InitIInv == Init => IInv
<1> SUFFICES ASSUME Init PROVE IInv
  OBVIOUS
<1>1. TypeOK
  BY InitType
<1>2. ~otb.ch /\ ~otb.link /\ otb.status = Stale /\ hub.wire = NoRequest /\ ~relay
      /\ ~mismatch /\ flush = NoFlush
  BY DEF Init
<1>3. OneTransport /\ Handshake /\ Wired
  BY <1>2, NoFlushFields, HubFields DEF OneTransport, Handshake, Wired, Busy
<1>4. probe.active <=> user.present /\ ~OT(user)
  BY DEF Init, ProbeBegun, NoProbe
<1>5. ProbeKnows /\ Quiet
  BY <1>2, <1>4, HubFields DEF ProbeKnows, Quiet, Verified
<1>8. Absent
  BY <1>2 DEF Init, Absent
<1>6. Heard /\ Fresh
  BY DEF Init, Heard, Fresh
<1>7. Rested
  <2>1. ctl.since = MostRest /\ seen.rest = MinOff /\ ctl.request = FALSE
    BY DEF Init
  <2>2. Least(ctl.since) <= seen.rest
    BY <2>1, ConstantTypes DEF Least
  <2> QED
    BY <1>2, <2>1, <2>2 DEF Rested
<1> QED
  BY <1>1, <1>3, <1>5, <1>6, <1>7, <1>8 DEF IInv

LEMMA StepIInv == IInv /\ [Next]_vars => IInv'
BY TypeStep, OneTransportStep, HandshakeStep, WiredStep, ProbeKnowsStep, QuietStep, AbsentStep,
   HeardStep, FreshStep, RestedStep DEF IInv

LEMMA SpecIInv == Spec => []IInv
BY InitIInv, StepIInv, PTL DEF Spec

(* Every variable keeps its type, whatever the times configured.             *)
THEOREM TransportTypeCorrect == Spec => []TypeOK
<1>1. IInv => TypeOK
  BY DEF IInv
<1> QED
  BY <1>1, SpecIInv, PTL

(* The relay and the bus never heat at the same time, and each of them only  *)
(* for the connection that is selected, present, not paused and verified.    *)
THEOREM OnlyOneTransport == Spec => []OneTransport
<1>1. IInv => OneTransport
  BY DEF IInv
<1> QED
  BY <1>1, SpecIInv, PTL

(* When the off handshake calls both frames acknowledged, the boiler has     *)
(* been told CH off and setpoint 0 after every command to heat.              *)
THEOREM AcknowledgedMeansOff == Spec => []OffMeansOff
<1>1. IInv => OffMeansOff
  BY DEF IInv, Handshake, OffMeansOff
<1> QED
  BY <1>1, SpecIInv, PTL

(* A boiler that answered since the last verification began keeps the relay  *)
(* open, also when its answer comes in the second the probe runs out.        *)
THEOREM AnswerKeepsRelayOpen == Spec => []RelayNeedsSilence
<1>1. IInv => RelayNeedsSilence
  <2> SUFFICES ASSUME IInv, relay, seen.answered PROVE FALSE
    BY DEF RelayNeedsSilence
  <2>1. user.present /\ ~OT(user) /\ ~probe.active /\ ~mismatch /\ ~Busy
    BY DEF IInv, OneTransport, Handshake, OT
  <2> QED
    BY <2>1 DEF IInv, Heard
<1> QED
  BY <1>1, SpecIInv, PTL

(* Every way to a silent bus silences it: with no boiler present, or with R1 *)
(* verified, neither polling nor a link is ever left for a watchdog to find. *)
THEOREM BusIsLeftSilent == Spec => []NoStrayPolling
<1>1. IInv => NoStrayPolling
  BY DEF IInv, Quiet, Verified, Absent, NoStrayPolling, KeepPolling
<1> QED
  BY <1>1, SpecIInv, PTL

\* A request rises in the controller only.
LEMMA OnlyTickRaises ==
  TypeOK /\ [Next]_vars /\ ctl'.request /\ ~ctl.request => BoilerTick
<1> SUFFICES ASSUME TypeOK, [Next]_vars, ctl'.request, ~ctl.request PROVE BoilerTick
  OBVIOUS
<1>0. ctl \in Ctl /\ [ctl EXCEPT !.request = FALSE] \in Ctl /\ Withdrawn(ctl) \in Ctl
  BY CtlType DEF TypeOK
<1>1. ASSUME NEW c \in Connection, Select(c) PROVE FALSE
  BY <1>0, <1>1, CtlFields DEF Select
<1>2. ASSUME NEW p \in BOOLEAN, SourcePresence(p) PROVE FALSE
  BY <1>2 DEF SourcePresence
<1>3. CASE Pause
  BY <1>0, <1>3, CtlFields DEF Pause, Ctl
<1>4. CASE Apply
  BY <1>0, <1>4, CtlFields DEF Apply
<1>5. CASE LinkWatch
  BY <1>0, <1>5, CtlFields DEF LinkWatch, LinkChanged
<1>6. CASE ProbeTimedOut \/ ProbeMismatch \/ ProbeSelects
  <2>1. ctl' = Resettled([ctl EXCEPT !.request = FALSE])
    BY <1>6 DEF ProbeTimedOut, ProbeMismatch, ProbeSelects, ProbeEnd
  <2> QED
    BY <1>0, <2>1 DEF Resettled, Ctl
<1>7. CASE Pass
  BY <1>0, <1>7 DEF Pass, Ctl
<1>8. CASE Reboot
  BY <1>8 DEF Reboot, Booted
<1>9. CASE FlushEnds \/ Dispatch \/ Send \/ Answer \/ NoAnswer \/ UNCHANGED vars
  BY <1>9 DEF FlushEnds, Dispatch, Send, Answer, NoAnswer, vars
<1> QED
  BY <1>1, <1>2, <1>3, <1>4, <1>5, <1>6, <1>7, <1>8, <1>9 DEF Next

(* No edge of the transport is survived by the command of before it: the     *)
(* request only comes back once a command was made after the edge.           *)
THEOREM FreshAfterEveryEdge == Spec => FreshEvaluation
<1>1. IInv /\ [Next]_vars => (ctl'.request /\ ~ctl.request => seen.evaluated)
  <2> SUFFICES ASSUME IInv, [Next]_vars, ctl'.request, ~ctl.request PROVE seen.evaluated
    OBVIOUS
  <2>1. TypeOK /\ Fresh /\ ctl \in Ctl
    BY DEF IInv, TypeOK
  <2>2. PICK valid \in BOOLEAN, guards \in BOOLEAN, heat \in BOOLEAN :
          Drive(Output(May(valid, guards), heat), ~Rearmed(valid))
    BY <2>1, OnlyTickRaises DEF BoilerTick
  <2>3. Output(May(valid, guards), heat)
    BY <2>1, <2>2 DEF Drive, Ctl
  <2>4. Rearmed(valid)
    BY <2>3 DEF Output, May
  <2> QED
    BY <2>1, <2>4 DEF Rearmed, Fresh
<1> QED
  BY <1>1, SpecIInv, PTL DEF Spec, FreshEvaluation

(* Whatever took CH off the boiler, it stays off for the minimum time.       *)
THEOREM BurnerGetsItsRest == Spec => BurnerRests
<1>1. IInv /\ [Next]_vars => (otb'.ch /\ ~otb.ch => seen.rest >= MinOff)
  <2> SUFFICES ASSUME IInv, [Next]_vars, otb'.ch, ~otb.ch PROVE seen.rest >= MinOff
    OBVIOUS
  <2>1. TypeOK /\ Rested /\ otb \in Otb /\ user \in User
    BY DEF IInv, TypeOK
  <2>2. CASE Apply
    <3>1. ctl.request /\ OT(user) /\ user.present /\ otb.link
      BY <2>1, <2>2 DEF Apply, Otb
    <3> QED
      BY <2>1, <3>1 DEF Rested
  <2>3. ASSUME NEW c \in Connection, Select(c) PROVE FALSE
    <3> DEFINE u == [user EXCEPT !.selected = c]
               o == [otb EXCEPT !.ch = FALSE]
    <3>1. ConnectionChanged(u, o) /\ user' = u
      BY <2>3 DEF Select
    <3>2. u \in User /\ o \in Otb /\ ~o.ch
      BY <2>1 DEF User, Otb
    <3> HIDE DEF u, o
    <3> QED
      BY <3>1, <3>2, ConnectionLeaves DEF IInv
  <2>4. ASSUME NEW p \in BOOLEAN, SourcePresence(p) PROVE FALSE
    <3> DEFINE u == [user EXCEPT !.present = p]
    <3>1. ConnectionChanged(u, otb) /\ user' = u
      BY <2>4 DEF SourcePresence
    <3>2. u \in User
      BY <2>1 DEF User
    <3> HIDE DEF u
    <3> QED
      BY <2>1, <3>1, <3>2, ConnectionLeaves DEF IInv
  <2>5. CASE FlushEnds
    BY <2>5, FlushEndLeaves DEF IInv
  <2>6. CASE LinkWatch
    BY <2>1, <2>6, WatchLeaves
  <2>7. CASE Pause \/ Pass \/ Answer \/ Reboot
    BY <2>1, <2>7 DEF Pause, Pass, Answer, Reboot, Booted, Otb
  <2>8. CASE ProbeTimedOut \/ ProbeMismatch \/ ProbeSelects
    <3>1. [otb EXCEPT !.ch = FALSE] \in Otb
      BY <2>1, OtbType
    <3>2. otb' = Reset(otb) \/ otb' = otb \/ otb' = Reset([otb EXCEPT !.ch = FALSE])
      BY <2>8 DEF ProbeTimedOut, ProbeMismatch, ProbeSelects, Polling
    <3>3. otb \in Otb
      BY <2>1
    <3>4. otb'.ch = otb.ch \/ otb'.ch = [otb EXCEPT !.ch = FALSE].ch
      BY <3>1, <3>2, <3>3, OtbFields
    <3> QED
      BY <3>3, <3>4, OtbFields
  <2>9. CASE Dispatch \/ BoilerTick \/ Send \/ NoAnswer \/ UNCHANGED vars
    BY <2>9 DEF Dispatch, BoilerTick, Send, NoAnswer, vars
  <2> QED
    BY <2>2, <2>3, <2>4, <2>5, <2>6, <2>7, <2>8, <2>9 DEF Next
<1> QED
  BY <1>1, SpecIInv, PTL DEF Spec, BurnerRests
=============================================================================
