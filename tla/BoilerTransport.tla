-------------------------- MODULE BoilerTransport ---------------------------
(***************************************************************************)
(* The two ways to the boiler: relay R1 and the OpenTherm bus              *)
(* (includes/control/oq_boiler_runtime.h, includes/boiler/, and the        *)
(* handlers in oq_boiler_opentherm.yaml and oq_boiler_control.yaml).       *)
(*                                                                         *)
(* One of the two is selected.  Every change of it, of the link, of the    *)
(* pause and of the presence of the boiler withdraws the heat request.     *)
(* Before R1 may be used, a probe looks for a boiler that answers on the   *)
(* bus; a live bus that is left is first told to stop, in a nested loop of *)
(* the hub with the rest of the main loop standing still (`flush`).        *)
(*                                                                         *)
(* Left open: which message the hub sends next (its priority sequences     *)
(* only narrow that choice), what a boiler command asks for at the moment  *)
(* it is looked at, and the outcome of the guards that belong to other     *)
(* parts (temperatures, flow, permissions, age of the command).            *)
(* CH enable and a setpoint above zero are always written together and are *)
(* one flag.                                                               *)
(***************************************************************************)
EXTENDS Naturals

CONSTANTS
  ProbeTime,    \* oq_otb_startup_probe_timeout_s
  LinkTime,     \* oq_otb_link_timeout_s, oq_otb_field_timeout_s
  SettleTime,   \* oq_boiler_transport_settle_s
  MinOn,        \* oq_boiler_otb_min_on_s
  MinOff        \* oq_boiler_otb_min_off_s; both are 0 for the relay

ASSUME TransportAssumption ==
  \A t \in {ProbeTime, LinkTime, SettleTime, MinOn, MinOff} : t \in Nat

VARIABLES
  user,     \* the settings: selected, present, paused
  ctl,      \* the controller: request, time since it changed, settle, rearm
  command,  \* the command was made after the last edge
  relay,
  probe,
  mismatch,
  otb,      \* the adapter: link, age of STATUS, CH enable, applied
  hub,      \* polling, and the request on the wire
  flush,    \* the off handshake, and what its caller does afterwards
  boiler,   \* what the boiler on the bus was told last
  seen      \* what has really happened, for the properties only

vars == <<user, ctl, command, relay, probe, mismatch, otb, hub, flush, boiler, seen>>

AtMost(cap, n) == IF n <= cap THEN n ELSE cap
MostRest == IF MinOn > MinOff THEN MinOn ELSE MinOff
Stale == LinkTime + 1

Connection == {"R1", "OpenTherm"}
NoRequest == [id |-> "none", on |-> FALSE, known |-> FALSE, heard |-> FALSE]
Request == [id : {"none", "STATUS", "TSET"}, on : BOOLEAN, known : BOOLEAN, heard : BOOLEAN]

User  == [selected : Connection, present : BOOLEAN, paused : BOOLEAN]
Ctl   == [request : BOOLEAN, since : 0 .. MostRest, settle : 0 .. SettleTime,
          rearm : BOOLEAN]
Probe == [active : BOOLEAN, sent : BOOLEAN, detected : BOOLEAN, age : 0 .. ProbeTime]
Otb   == [link : BOOLEAN, status : 0 .. Stale, ch : BOOLEAN, applied : BOOLEAN]
Hub   == [polling : BOOLEAN, wire : Request]
Flush == [caller : {"none", "dormant", "probe"}, statusSent : BOOLEAN, tsetSent : BOOLEAN,
          statusOff : BOOLEAN, tsetZero : BOOLEAN]
Boiler == [ch : BOOLEAN, tset : BOOLEAN]
Seen  == [evaluated : BOOLEAN, rest : 0 .. MinOff, answered : BOOLEAN]

TypeOK ==
  /\ user \in User /\ ctl \in Ctl /\ command \in BOOLEAN /\ relay \in BOOLEAN
  /\ probe \in Probe /\ mismatch \in BOOLEAN /\ otb \in Otb /\ hub \in Hub
  /\ flush \in Flush /\ boiler \in Boiler /\ seen \in Seen

NoProbe    == [active |-> FALSE, sent |-> FALSE, detected |-> FALSE, age |-> 0]
ProbeBegun == [NoProbe EXCEPT !.active = TRUE]
NoFlush    == [caller |-> "none", statusSent |-> FALSE, tsetSent |-> FALSE,
               statusOff |-> FALSE, tsetZero |-> FALSE]
OT(u)      == u.selected = "OpenTherm"
-----------------------------------------------------------------------------
(* What the handlers have in common.                                       *)

\* withdraw_output_(): the time of change only moves with the request.
Withdrawn(c) == [c EXCEPT !.request = FALSE, !.since = IF c.request THEN 0 ELSE @]

\* A new transport settles first, and heat then needs a newer command.
Resettled(c) == [c EXCEPT !.settle = SettleTime, !.rearm = TRUE]
\* mutant: an edge of the transport leaves the old command good enough
Edge_NoRearm(c) == [Withdrawn(c) EXCEPT !.settle = SettleTime]

Edge(c) == Resettled(Withdrawn(c))

\* reset_link_state(): with the session goes the request that is being
\* waited for, so that its answer is an orphan.
Reset(o)  == [o EXCEPT !.link = FALSE, !.status = Stale]
Orphan(h) == [h EXCEPT !.wire.known = FALSE]
Resumed   == [polling |-> TRUE, wire |-> NoRequest]

\* mutant: suspending lets the exchange under way finish
Suspended_Later == [hub EXCEPT !.polling = FALSE]

Suspended == [polling |-> FALSE, wire |-> NoRequest]

\* How the ghosts follow: `evaluated` until the next edge, `rest` counts while
\* CH is off.
EdgeSeen(s) == [s EXCEPT !.evaluated = FALSE]
CameToRest(s, o) == IF o.ch THEN s ELSE IF otb.ch THEN [s EXCEPT !.rest = 0] ELSE s

Busy == flush.caller # "none"
-----------------------------------------------------------------------------
\* The state after a boot: the relay is ALWAYS_OFF, nothing is requested, and
\* the restored selection has been published once.
Booted(u) ==
  /\ user' = u
  /\ ctl' = [request |-> FALSE, since |-> MostRest, settle |-> SettleTime, rearm |-> TRUE]
  /\ command' = FALSE /\ relay' = FALSE /\ mismatch' = FALSE
  /\ probe' = IF u.present /\ ~OT(u) THEN ProbeBegun ELSE NoProbe
  /\ otb' = [link |-> FALSE, status |-> Stale, ch |-> FALSE, applied |-> FALSE]
  /\ hub' = [polling |-> u.present, wire |-> NoRequest]
  /\ flush' = NoFlush
  /\ seen' = [evaluated |-> FALSE, rest |-> MinOff, answered |-> FALSE]

Init ==
  /\ user \in [selected : Connection, present : BOOLEAN, paused : {FALSE}]
  /\ ctl = [request |-> FALSE, since |-> MostRest, settle |-> SettleTime, rearm |-> TRUE]
  /\ command = FALSE /\ relay = FALSE /\ mismatch = FALSE
  /\ probe = IF user.present /\ ~OT(user) THEN ProbeBegun ELSE NoProbe
  /\ otb = [link |-> FALSE, status |-> Stale, ch |-> FALSE, applied |-> FALSE]
  /\ hub = [polling |-> user.present, wire |-> NoRequest]
  /\ flush = NoFlush
  /\ boiler \in Boiler
  /\ seen = [evaluated |-> FALSE, rest |-> MinOff, answered |-> FALSE]

Reboot == Booted([user EXCEPT !.paused = FALSE]) /\ UNCHANGED boiler
-----------------------------------------------------------------------------
(* oq_otb_withdraw_and_flush: the local command goes at once; only a live  *)
(* link is then talked to until both off frames are acknowledged.          *)
FlushFor(caller) ==
  flush' = IF otb.link THEN [NoFlush EXCEPT !.caller = caller] ELSE NoFlush

\* The rest of enter_dormant_state().
Dormant(o) ==
  /\ probe' = [probe EXCEPT !.active = FALSE]
  /\ mismatch' = FALSE
  /\ hub' = Suspended
  /\ otb' = [Reset(o) EXCEPT !.ch = FALSE, !.applied = FALSE]

\* The rest of connection_changed() for R1.
Probing(o) ==
  /\ probe' = ProbeBegun
  /\ mismatch' = FALSE
  /\ hub' = Orphan([hub EXCEPT !.polling = TRUE])
  /\ otb' = [Reset(o) EXCEPT !.ch = FALSE]

\* connection_changed() for OpenTherm.
Polling(o) ==
  /\ probe' = [probe EXCEPT !.active = FALSE]
  /\ mismatch' = FALSE
  /\ hub' = Resumed
  /\ otb' = Reset(o)

\* While the off handshake of a live link runs, only CH is withdrawn yet.
Waiting(o) ==
  /\ otb' = [o EXCEPT !.ch = FALSE]
  /\ UNCHANGED <<probe, mismatch, hub>>

(* connection_changed() and source_presence_changed() of the adapter, for  *)
(* the settings u.                                                         *)
ConnectionChanged(u, o) ==
  \/ /\ u.present /\ OT(u)
     /\ Polling(o) /\ flush' = NoFlush
  \/ /\ u.present /\ ~OT(u)
     /\ FlushFor("probe")
     /\ IF otb.link THEN Waiting(o) ELSE Probing(o)
  \/ /\ ~u.present
     /\ FlushFor("dormant")
     /\ IF otb.link THEN Waiting(o) ELSE Dormant(o)

ProbeSeen(s) == IF probe'.active THEN [s EXCEPT !.answered = FALSE] ELSE s

\* The on_value of the selection: break before make.
Select(connection) ==
  LET u == [user EXCEPT !.selected = connection]
      o == [otb EXCEPT !.ch = FALSE]
  IN /\ ~Busy
     /\ user' = u
     /\ ctl' = Edge(ctl) /\ command' = FALSE /\ relay' = FALSE
     /\ ConnectionChanged(u, o)
     /\ seen' = CameToRest(EdgeSeen(ProbeSeen(seen)), o)
     /\ UNCHANGED boiler

\* The switch of the boiler's presence only calls the adapter.
SourcePresence(present) ==
  LET u == [user EXCEPT !.present = present]
  IN /\ ~Busy /\ present # user.present
     /\ user' = u
     /\ ConnectionChanged(u, otb)
     /\ relay' = (relay /\ ((OT(u) /\ present) \/ flush'.caller # "none"))
     /\ seen' = CameToRest(ProbeSeen(seen), otb')
     /\ UNCHANGED <<ctl, command, boiler>>

\* The handshake ends with both acknowledgements or with its time budget.
FlushEnds ==
  /\ Busy
  /\ flush' = NoFlush /\ relay' = FALSE
  /\ \/ flush.caller = "dormant" /\ Dormant(otb)
     \/ flush.caller = "probe" /\ Probing(otb)
  /\ seen' = ProbeSeen(seen)
  /\ UNCHANGED <<user, ctl, command, boiler>>
-----------------------------------------------------------------------------
\* runtime_pause_changed(): no settling, but a newer command.
Pause ==
  LET o == [otb EXCEPT !.ch = FALSE]
  IN /\ ~Busy
     /\ user' = [user EXCEPT !.paused = ~@]
     /\ ctl' = [Withdrawn(ctl) EXCEPT !.rearm = TRUE]
     /\ command' = FALSE /\ relay' = FALSE
     /\ otb' = o
     /\ seen' = CameToRest(EdgeSeen(seen), o)
     /\ UNCHANGED <<probe, mismatch, hub, flush, boiler>>

\* oq_boiler_dispatch: the command is stamped now or, in CM3, with the time of
\* the strategy's output, which may lie before the last edge.
Dispatch ==
  /\ ~Busy
  /\ \E newer \in BOOLEAN :
       /\ command' = newer
       /\ seen' = [seen EXCEPT !.evaluated = @ \/ newer]
  /\ UNCHANGED <<user, ctl, relay, probe, mismatch, otb, hub, flush, boiler>>

\* transport_available_for_selection()
Available == ~user.paused /\ IF OT(user) THEN otb.link ELSE ~probe.active /\ ~mismatch

\* command_satisfies_rearm()
Rearmed(valid) == ~ctl.rearm \/ (valid /\ command)

\* Nothing forces the output off.
May(valid, guards) ==
  /\ user.present /\ valid /\ guards /\ ctl.settle = 0
  /\ Available /\ ~mismatch /\ Rearmed(valid)

(* evaluate(): `heat` when the command asks for heat and the target        *)
(* control does not withhold it.                                           *)
Output(may, heat) ==
  /\ may
  /\ IF heat THEN ctl.request \/ ~OT(user) \/ ctl.since >= MinOff
     ELSE ctl.request /\ OT(user) /\ ctl.since < MinOn

Drive(output, rearm) ==
  /\ ctl' = [ctl EXCEPT !.request = output,
                        !.since = IF output = ctl.request THEN @ ELSE 0,
                        !.rearm = rearm]
  /\ relay' = (output /\ ~OT(user) /\ ~probe.active /\ ~mismatch)

BoilerTick ==
  /\ ~Busy
  /\ \E valid, guards, heat \in BOOLEAN :
       Drive(Output(May(valid, guards), heat), ~Rearmed(valid))
  /\ UNCHANGED <<user, command, probe, mismatch, otb, hub, flush, boiler, seen>>
-----------------------------------------------------------------------------
\* mutant: the adapter withdraws the request without noting when
Refused_NotNoted(c) == [c EXCEPT !.request = FALSE]

\* apply_command() takes the request back when the command cannot be kept up.
Refused(c) == [c EXCEPT !.request = FALSE, !.since = 0]

Apply == \E usable \in BOOLEAN :
  LET active  == /\ user.present /\ OT(user) /\ ~user.paused /\ otb.link
                 /\ otb.status <= LinkTime /\ ctl.request /\ usable
      stopped == otb.applied /\ ~active
      o == [otb EXCEPT !.ch = active, !.applied = active]
  IN /\ ~Busy
     /\ ctl' = IF stopped /\ ctl.request THEN Refused(ctl) ELSE ctl
     /\ otb' = o
     /\ seen' = CameToRest(seen, o)
     /\ UNCHANGED <<user, command, relay, probe, mismatch, hub, flush, boiler>>

(* link_watch(): link_available follows the freshness of STATUS, which     *)
(* implies that of the session.                                            *)
LinkChanged(available) ==
  IF OT(user)
  THEN /\ otb' = [otb EXCEPT !.link = available, !.ch = FALSE]
       /\ ctl' = Edge(ctl) /\ command' = FALSE
       /\ hub' = IF available THEN Resumed ELSE hub
       /\ seen' = CameToRest(EdgeSeen(seen), otb')
  ELSE /\ otb' = [otb EXCEPT !.link = available]
       /\ UNCHANGED <<ctl, command, hub, seen>>

LinkWatch ==
  /\ ~Busy
  /\ IF user.present
     THEN \/ ~otb.link /\ otb.status <= LinkTime /\ LinkChanged(TRUE)
          \/ otb.link /\ otb.status > LinkTime /\ LinkChanged(FALSE)
     ELSE /\ hub.polling \/ otb.link
          /\ hub' = IF hub.polling THEN Suspended ELSE hub
          /\ otb' = IF otb.link THEN Reset(otb) ELSE otb
          /\ UNCHANGED <<ctl, command, seen>>
  /\ UNCHANGED <<user, relay, probe, mismatch, flush, boiler>>

\* mutant: the time limit is looked at before the answer
ProbeResult_TimeFirst ==
  IF probe.age >= ProbeTime THEN "timed out"
  ELSE IF probe.detected THEN "detected" ELSE "running"

ProbeResult ==
  IF probe.detected THEN "detected"
  ELSE IF probe.age >= ProbeTime THEN "timed out" ELSE "running"

\* should_keep_opentherm_polling(): without it the probe is not looked at.  The
\* interval would also stop the hub here, but never has to (NoStrayPolling).
KeepPolling == user.present /\ (OT(user) \/ probe.active \/ mismatch)

\* The request goes without its time of change.
ProbeEnd(outcome) ==
  /\ ~Busy /\ KeepPolling /\ probe.active /\ ProbeResult = outcome
  /\ ctl' = Resettled([ctl EXCEPT !.request = FALSE])
  /\ command' = FALSE /\ relay' = FALSE
  /\ UNCHANGED <<flush, boiler>>

ProbeTimedOut ==
  /\ ProbeEnd("timed out")
  /\ probe' = [probe EXCEPT !.active = FALSE] /\ mismatch' = FALSE
  /\ hub' = Suspended /\ otb' = Reset(otb)
  /\ seen' = EdgeSeen(seen)
  /\ UNCHANGED user

ProbeMismatch ==
  /\ ProbeEnd("detected")
  /\ probe' = [probe EXCEPT !.active = FALSE] /\ mismatch' = TRUE
  /\ seen' = EdgeSeen(seen)
  /\ UNCHANGED <<user, hub, otb>>

\* Before the setup is complete a boiler that answers is selected.
ProbeSelects ==
  /\ ProbeEnd("detected")
  /\ user' = [user EXCEPT !.selected = "OpenTherm"]
  /\ Polling([otb EXCEPT !.ch = FALSE])
  /\ seen' = EdgeSeen(seen)
-----------------------------------------------------------------------------
(* The hub: one request at a time, and the boiler hears it or not.         *)

Told(id, on) ==
  IF id = "STATUS" THEN [boiler EXCEPT !.ch = on] ELSE [boiler EXCEPT !.tset = on]

Send == \E id \in {"STATUS", "TSET"}, heard \in BOOLEAN :
  LET on == otb.ch
  IN /\ hub.polling /\ hub.wire = NoRequest
     /\ hub' = [hub EXCEPT !.wire = [id |-> id, on |-> on, known |-> TRUE, heard |-> heard]]
     /\ boiler' = IF heard THEN Told(id, on) ELSE boiler
     /\ probe' = [probe EXCEPT !.sent = @ \/ (probe.active /\ id = "STATUS" /\ ~on)]
     /\ flush' = [flush EXCEPT !.statusSent = @ \/ (Busy /\ id = "STATUS" /\ ~on),
                               !.tsetSent = @ \/ (Busy /\ id = "TSET" /\ ~on)]
     /\ UNCHANGED <<user, ctl, command, relay, mismatch, otb, seen>>

\* mutant: any acknowledgement will do, of whatever was asked before
Acknowledged_AnyAnswer(f, w) ==
  [f EXCEPT !.statusOff = @ \/ w.id = "STATUS", !.tsetZero = @ \/ (w.id = "TSET" /\ ~w.on)]

(* off_flush_state.record_response(): a STATUS answer counts only after an *)
(* off request, and the setpoint's only with the echoed zero.              *)
Acknowledged(f, w) ==
  [f EXCEPT !.statusOff = @ \/ (w.id = "STATUS" /\ f.statusSent),
            !.tsetZero = @ \/ (w.id = "TSET" /\ ~w.on /\ f.tsetSent)]

\* A complete frame arrives: the acknowledgement, a refusal, or a frame that
\* does not belong to the request.
Answer == \E frame \in {"ack", "negative", "other"} :
  LET w == hub.wire
      correlated == w.known /\ frame # "other"
      status == w.known /\ w.id = "STATUS"
  IN /\ w.heard
     /\ hub' = [hub EXCEPT !.wire = NoRequest]
     /\ otb' = IF status THEN [otb EXCEPT !.status = IF frame = "ack" THEN 0 ELSE Stale]
               ELSE otb
     /\ probe' = [probe EXCEPT !.detected = @ \/ (probe.active /\ probe.sent
                                                  /\ status /\ correlated)]
     /\ flush' = IF Busy /\ correlated /\ frame = "ack" THEN Acknowledged(flush, w)
                 ELSE flush
     /\ seen' = [seen EXCEPT !.answered = @ \/ (probe.active /\ status /\ correlated)]
     /\ UNCHANGED <<user, ctl, command, relay, mismatch, boiler>>

NoAnswer ==
  /\ hub.wire # NoRequest
  /\ hub' = [hub EXCEPT !.wire = NoRequest]
  /\ UNCHANGED <<user, ctl, command, relay, probe, mismatch, otb, flush, boiler, seen>>

\* One unit of time is long for the adapter: it has applied what is requested.
Pass ==
  /\ otb.ch => ctl.request
  /\ ctl' = [ctl EXCEPT !.since = AtMost(MostRest, @ + 1),
                        !.settle = IF @ = 0 THEN 0 ELSE @ - 1]
  /\ probe' = [probe EXCEPT !.age = IF probe.active THEN AtMost(ProbeTime, @ + 1) ELSE @]
  /\ otb' = [otb EXCEPT !.status = AtMost(Stale, @ + 1)]
  /\ seen' = [seen EXCEPT !.rest = AtMost(MinOff, @ + 1)]
  /\ UNCHANGED <<user, command, relay, mismatch, hub, flush, boiler>>
-----------------------------------------------------------------------------
Next == \/ \E connection \in Connection : Select(connection)
        \/ \E present \in BOOLEAN : SourcePresence(present)
        \/ FlushEnds \/ Pause \/ Dispatch \/ BoilerTick \/ Apply \/ LinkWatch
        \/ ProbeTimedOut \/ ProbeMismatch \/ ProbeSelects
        \/ Send \/ Answer \/ NoAnswer \/ Pass \/ Reboot

Spec == Init /\ [][Next]_vars
-----------------------------------------------------------------------------
(* Safety: the two transports never heat at the same time.  With the relay *)
(* closed R1 is selected and verified, nothing is paused, CH is off and    *)
(* the bus is silent; with CH on OpenTherm is selected and its link lives. *)
OneTransport ==
  /\ relay => /\ user.selected = "R1" /\ user.present /\ ~user.paused
              /\ ~probe.active /\ ~mismatch /\ ~otb.ch
              /\ ~hub.polling /\ hub.wire = NoRequest
  /\ otb.ch => OT(user) /\ user.present /\ ~user.paused /\ otb.link

(* Safety: the off handshake only reports what is true: once both frames   *)
(* count as acknowledged the boiler has been told CH off and setpoint 0.   *)
OffMeansOff ==
  flush.statusOff /\ flush.tsetZero => ~boiler.ch /\ ~boiler.tset

(* Safety: the relay never closes on an installation where a boiler        *)
(* answered the bus since the last verification began.                     *)
RelayNeedsSilence == relay => ~seen.answered

(* Safety: every way to a bus that must be silent silences it itself.  The *)
(* watchdogs of the interval and of link_watch(), which look for stray     *)
(* polling or a stale link up to seconds later, never find any.            *)
NoStrayPolling == ~Busy /\ ~KeepPolling => ~hub.polling /\ ~otb.link

(* Action property: after an edge of the transport, the pause or the       *)
(* link, the request only comes back on a command made since.              *)
FreshEvaluation ==
  [][ctl'.request /\ ~ctl.request => seen.evaluated]_vars

(* Action property: the boiler's CH is not enabled again before its        *)
(* minimum time off, whatever switched it off.                             *)
BurnerRests == [][otb'.ch /\ ~otb.ch => seen.rest >= MinOff]_vars
=============================================================================
