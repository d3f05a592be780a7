--------------------------- MODULE ReplayHistory ---------------------------
(***************************************************************************)
(* What the replay page makes of the decision log (control-replay-         *)
(* compressor-history.js, -starts.js, -stops.js, -cycles.js): when a       *)
(* compressor ran, which feedback answers which command, which records     *)
(* begin and end one oil return.  The device writes the log while its      *)
(* clock is unknown, set late or corrected, loses records in a power cut   *)
(* or with a bad page, and restarts.                                       *)
(*                                                                         *)
(* A tick is three minutes, so two times are nearby when they differ by    *)
(* at most one tick; Long is the limit of a pump's after-run (15 minutes   *)
(* in the code), a bound.  What a record really was about (the fields      *)
(* turn, cycle, by and real) is kept beside it to state the property; the  *)
(* page never sees it.  A sequence number that wraps is left out.          *)
(***************************************************************************)
EXTENDS Integers, SequencesExt

CONSTANTS
  Units,
  MaxRecords,     \* bound: records the device writes
  MaxTicks,       \* bound: time
  MaxFaults       \* bound: restarts, lost records and clock corrections

Long == 2

VARIABLES
  era,            \* the device's clocks: [wall, up, real, known, next]
  plant,          \* [Units -> [run, on, turn, cycle, cycles]]: on: it was seen to run
  pump,           \* [is, by]: what the pump runs for, the last unit stopped
  archive,        \* the records the device holds
  ran, still,     \* <<unit, wall, boot>>: seen running, or not, in that tick
  faults,
  topic           \* bound: the reading that is looked at

vars == <<era, plant, pump, archive, ran, still, faults, topic>>

\* a behaviour only writes records that this reading tells apart
About(topics) == topic \in topics

\* bound: the second unit only takes part where units can be mistaken for each
\* other, and only with its commands
Lead == CHOOSE u \in Units : TRUE
Involved(topics) == IF About(topics) THEN Units ELSE {Lead}

-----------------------------------------------------------------------------
(* Writing: OpenQuattDecisionLog::emit and the manager's publication       *)

Record(kind, hp, n) ==
  [ seq   |-> era.next + n,
    at    |-> IF era.known THEN era.wall ELSE 0,
    up    |-> era.up, kind |-> kind, hp |-> hp, real |-> era.real,
    turn  |-> IF hp \in Units THEN plant'[hp].turn
              ELSE IF kind = "preflow"
                   THEN [ u \in Units |-> plant[u].turn + 1 ] ELSE 0,
    cycle |-> IF hp \in Units THEN plant[hp].cycles ELSE 0,
    by    |-> pump'.by ]

Write(records) ==
  /\ era.next + Len(records) <= MaxRecords + 1
  /\ archive' = archive \o records
  /\ era' = [era EXCEPT !.next = @ + Len(records)]
  /\ UNCHANGED <<ran, still, faults>>

Running(u) == plant[u].run \in {"starting", "on"}

Prepare ==
  /\ About({"starts"})
  /\ pump.is = "rest" /\ \A u \in Units : ~Running(u)
  /\ pump' = [pump EXCEPT !.is = "pre"]
  /\ UNCHANGED plant
  /\ Write(<<Record("preflow", "SYSTEM", 0)>>)

Command(u) ==
  /\ plant[u].run \in {"off", "unknown"}
  /\ plant' = [plant EXCEPT ![u].run = "starting", ![u].turn = @ + 1]
  /\ pump' = [pump EXCEPT !.is = "run"]
  /\ Write(<<Record("start", u, 0)>>)

Confirm(u) ==
  /\ plant[u].run = "starting"
  /\ plant' = [plant EXCEPT ![u].run = "on", ![u].on = TRUE]
  /\ UNCHANGED pump
  /\ Write(<<Record("running", u, 0)>>)

\* the start of the unit's only idle topology precedes the last stop
StopCommand(u) ==
  /\ Running(u)
  /\ plant' = [plant EXCEPT ![u].run = "stopping"]
  /\ pump' = [pump EXCEPT !.by = u]
  /\ IF ~About({"stops"}) \/ \E v \in Units \ {u} : Running(v)
       THEN Write(<<Record("stop", u, 0)>>)
       ELSE Write(<<Record("idle", "SYSTEM", 0), Record("stop", u, 1)>>)

ConfirmStop(u) ==
  /\ ~About({"starts"})
  /\ plant[u].run \in {"stopping", "unknown"}
  /\ plant' = [plant EXCEPT ![u].run = "off", ![u].on = FALSE]
  /\ UNCHANGED pump
  /\ \/ Write(<<Record("stopped", u, 0)>>)
     \/ /\ About({"stops"})
        /\ Write(<<Record("stopped", u, 0), Record("rest", u, 1)>>)

Available(u) ==
  /\ About({"stops"})
  /\ plant[u].run = "off"
  /\ archive /= <<>> /\ \E i \in 1..Len(archive) : archive[i].kind = "rest"
  /\ UNCHANGED <<plant, pump>>
  /\ Write(<<Record("available", u, 0)>>)

\* from here on nobody knows whether it runs
Incident(u) ==
  /\ \E kind \in {"failed", "unconfirmed", "lost"} :
       /\ kind = "failed" => plant[u].run = "starting"
       /\ kind = "unconfirmed" => plant[u].run = "stopping"
       /\ kind = "lost" => plant[u].run = "on"
       /\ About({"starts"}) => kind = "failed"
       /\ plant' = [plant EXCEPT ![u].run = "unknown", ![u].on = FALSE]
       /\ UNCHANGED pump
       /\ Write(<<Record(kind, u, 0)>>)

OilReturn(u) ==
  /\ About({"cycles"})
  /\ plant[u].run = "on" /\ UNCHANGED pump
  /\ IF plant[u].cycle
       THEN /\ plant' = [plant EXCEPT ![u].cycle = FALSE]
            /\ Write(<<Record("oilEnds", u, 0)>>)
       ELSE /\ plant' = [plant EXCEPT ![u].cycle = TRUE, ![u].cycles = @ + 1]
            /\ Write(<<[Record("oil", u, 0)
                          EXCEPT !.cycle = plant[u].cycles + 1]>>)

AfterRun ==
  /\ About({"stops"})
  /\ UNCHANGED plant
  /\ \/ /\ pump.is = "run" /\ \A u \in Units : ~Running(u)
        /\ pump' = [pump EXCEPT !.is = "post"]
        /\ Write(<<Record("postflow", "SYSTEM", 0)>>)
     \/ /\ pump.is = "post"
        /\ pump' = [pump EXCEPT !.is = "rest"]
        /\ Write(<<Record("postflowEnds", "SYSTEM", 0)>>)

-----------------------------------------------------------------------------
(* Time, clock and storage *)

\* ghost: how each unit is seen as the clock leaves a tick.  A clock that is
\* corrected by d moves the records without a time against the others: the
\* ticks of this boot count as either, under both their numbers.
Booted == era.real - era.up
Noted(d) ==
  LET Seen(seen, us) == seen \cup { <<u, era.wall, Booted>> : u \in us }
      on     == { u \in Units : plant[u].on }
      ticks  == { t \in Seen(ran \cup still, Units) : t[3] = Booted }
      either == IF d = 0 \/ \A i \in 1..Len(archive) : archive[i].at > 0
                THEN {}
                ELSE ticks \cup { <<t[1], t[2] + d, t[3]>> : t \in ticks }
  IN  IF About({"runs"})
      THEN /\ ran' = Seen(ran, on) \cup either
           /\ still' = Seen(still, Units \ on) \cup either
      ELSE UNCHANGED <<ran, still>>

Tick ==
  /\ era.real < MaxTicks
  /\ era' = [era EXCEPT !.wall = @ + 1, !.up = @ + 1, !.real = @ + 1]
  /\ Noted(0)
  /\ UNCHANGED <<plant, pump, archive, faults>>

Fault == faults < MaxFaults /\ faults' = faults + 1

Correct ==
  /\ Fault /\ era.known
  /\ \E d \in {-1, 1} :
       /\ era.wall + d > 0 /\ era' = [era EXCEPT !.wall = @ + d]
       /\ Noted(d)
  /\ UNCHANGED <<plant, pump, archive>>

Sync ==
  /\ ~era.known
  /\ era' = [era EXCEPT !.known = TRUE]
  /\ UNCHANGED <<plant, pump, archive, ran, still, faults>>

\* a record without a time has the boot's time, once the device knows it
Dated(e) == IF e.at = 0 /\ era.known
            THEN [e EXCEPT !.at = era.wall - era.up + e.up] ELSE e

\* flash keeps the time of a record but not its uptime
Restored(e) == [Dated(e) EXCEPT !.up = 0]

Without(i, records) == IF i = 0 THEN records ELSE RemoveAt(records, i)

\* The records not yet on flash are lost, their numbers used again.  One that
\* is on flash may be in a block that cannot be read.  Bound: a record is
\* flushed under the clock of the restart.
Restart ==
  /\ Fault
  /\ \E kept \in 0..Len(archive) :
       LET stays == SubSeq(archive, 1, kept)
           next  == IF kept = 0 THEN 1 ELSE stays[kept].seq + 1
       IN  /\ era.known \/ \A i \in 1..kept : stays[i].at > 0
           /\ next <= MaxRecords
           /\ era' = [era EXCEPT !.up = 0, !.known = FALSE, !.next = next + 1]
           /\ pump' = [is |-> "rest", by |-> "none"]
           /\ plant' = [ u \in Units |-> [plant[u] EXCEPT
                           !.run = IF @ = "off" THEN "off" ELSE "unknown",
                           !.on = FALSE, !.cycle = FALSE] ]
           /\ \E bad \in 0..(IF kept = 0 THEN 0 ELSE kept - 1) :
                archive' = Append(Without(bad, [ i \in 1..kept |->
                                                   Restored(stays[i]) ]),
                  [ seq |-> next, at |-> 0, up |-> 0, kind |-> "boot",
                    hp |-> "SYSTEM", real |-> era.real, turn |-> 0,
                    cycle |-> 0, by |-> "none" ])
  /\ UNCHANGED <<ran, still>>

\* A full ring loses its oldest record, or the new one while those it holds
\* still have to be flushed.  That the newest one is missing nobody can know
\* before the next.
Lose ==
  /\ Fault
  /\ \E i \in 1..(Len(archive) - 1) :
       /\ i = 1 \/ \A j \in i..Len(archive) : archive[j].kind /= "boot"
       /\ archive' = RemoveAt(archive, i)
  /\ UNCHANGED <<era, plant, pump, ran, still>>

-----------------------------------------------------------------------------
(* control-replay-compressor-history.js *)

\* write_decision_log: as the page gets them
Served == [ i \in 1..Len(archive) |-> Dated(archive[i]) ]
Records == { Served[i] : i \in 1..Len(archive) }

\* getDecisionEventSortValue
Epoch(e) == e.at
Sorted(e) == IF e.at > 0 THEN e.at ELSE e.up

\* compareDecisionEvents, with the time each record is given
InTime(time) ==
  LET Before(a, b) == \/ time[a] < time[b]
                      \/ time[a] = time[b] /\ a.seq < b.seq
  IN  SetToSortSeq(Records, Before)

Gap_Never(a, b) == FALSE
Gap(a, b)      == b.seq /= a.seq + 1 /\ b.seq /= a.seq
Rebooted(a, b) == b.up < a.up

Confirmations == {"running", "stopped"}
Uncertain(e)  == e.kind \in {"failed", "unconfirmed", "lost"}

\* an interval that was closed and is not empty
Cut(h, u, until) ==
  IF h.open[u] = 0 \/ h.open[u] >= until THEN {}
  ELSE {[hp |-> u, from |-> h.open[u], to |-> until]}

Close(h, us, until) ==
  [h EXCEPT !.told = @ \cup UNION { Cut(h, u, until) : u \in us },
            !.open = [ u \in Units |-> IF u \in us THEN 0 ELSE @[u] ]]

\* stateAtStart of a window that starts at `start`
Forget(h, us, time, start) ==
  IF time > start THEN h
  ELSE [h EXCEPT !.first = [ u \in Units |-> IF u \in us THEN "?" ELSE @[u] ]]

Invalidate(h, e, start) ==
  LET until == IF h.prev = <<>> THEN e.at ELSE h.prev[1].at
  IN  Forget(Close(h, Units, until), Units, until, start)

HistoryStep(start, h0, e) ==
  LET breaks == h0.prev /= <<>> /\ (Gap(h0.prev[1], e) \/ Rebooted(h0.prev[1], e))
      h      == IF breaks \/ e.kind = "boot" THEN Invalidate(h0, e, start)
                ELSE h0
      us     == {e.hp} \cap Units
      next   == IF Uncertain(e)
                THEN Forget(Close(h, us, e.at), us, e.at, start)
                ELSE IF e.kind \notin Confirmations THEN h
                ELSE LET g == IF e.kind = "stopped" THEN Close(h, us, e.at)
                              ELSE IF h.open[e.hp] /= 0 THEN h
                              ELSE [h EXCEPT !.open[e.hp] = e.at]
                     IN  IF e.at > start THEN g
                         ELSE [g EXCEPT !.first[e.hp] =
                                 IF e.kind = "running" THEN "on" ELSE "off"]
  IN  [next EXCEPT !.prev = <<e>>]

NoHistory == [ told  |-> {}, open |-> [ u \in Units |-> 0 ],
               first |-> [ u \in Units |-> "?" ], prev |-> <<>> ]

History(start, end) ==
  LET unsafe == \/ \E i \in 2..Len(archive) :
                     Served[i - 1].at > Served[i].at /\ Served[i].at > 0
                \/ \E e \in Records : /\ e.at = 0
                                     /\ e.kind \in Confirmations \cup {"boot"}
      inTime == SelectSeq(InTime([ e \in Records |-> Epoch(e) ]), LAMBDA e : e.at > 0 /\ e.at <= end)
      step(h, e) == HistoryStep(start, h, e)
  IN  IF unsafe THEN NoHistory
      ELSE Close(FoldLeft(step, NoHistory, inTime), Units, end)

Clipped(i, start) == (IF i.from < start THEN start ELSE i.from)..(i.to - 1)
-----------------------------------------------------------------------------
(* control-replay-starts.js *)

Near(ta, tb, limit) == tb >= ta /\ tb - ta <= limit

Attempt(e, events) == [ hp |-> e.hp, command |-> e, events |-> events,
                        confirmed |-> FALSE, failed |-> FALSE ]

\* s.pending[u]: index into s.attempts, 0: none
StartStep(s0, e) ==
  LET breaks == \/ e.kind = "boot"
                \/ s0.prev /= <<>> /\ (\/ Gap(s0.prev[1], e)
                                       \/ Rebooted(s0.prev[1], e))
      s      == IF breaks THEN [s0 EXCEPT !.pending = [ u \in Units |-> 0 ],
                                          !.before = {}]
                ELSE s0
      near(a, b) == Near(Sorted(a), Sorted(b), 1)
      now    == { p \in s.before : near(p, e) }
      at     == IF e.hp \in Units THEN s.pending[e.hp] ELSE 0
      next   ==
        CASE e.kind = "preflow" -> [s EXCEPT !.before = {e}]
          [] e.kind = "start" ->
               [s EXCEPT !.attempts = Append(@, Attempt(e, now \cup {e})),
                         !.before = {},
                         !.pending[e.hp] = Len(s.attempts) + 1]
          [] e.kind \in {"running", "failed"} ->
               [s EXCEPT !.pending[e.hp] = 0,
                  !.attempts =
                    IF at = 0 \/ ~near(@[at].command, e) THEN @
                    ELSE [@ EXCEPT ![at].events = @ \cup {e},
                                   ![at].confirmed = e.kind = "running",
                                   ![at].failed = e.kind = "failed"]]
          [] e.kind \in {"stop", "stopped"} ->
               [s EXCEPT !.pending[e.hp] = 0, !.before = {}]
          [] OTHER -> s
  IN  [next EXCEPT !.prev = <<e>>]

Starts ==
  FoldLeft(StartStep, [ attempts |-> <<>>, before |-> {}, prev |-> <<>>,
                        pending |-> [ u \in Units |-> 0 ] ],
           InTime([ e \in Records |-> Sorted(e) ])).attempts

-----------------------------------------------------------------------------
(* control-replay-stops.js: the records in the order they were written     *)

Timed(a, b, limit) == a.at > 0 /\ b.at > 0 /\ Near(a.at, b.at, limit)

\* the wall clock and the uptime moved differently
Jumped(a, b) == b.at - a.at /= b.up - a.up

Stop(e) == [ hp |-> e.hp, command |-> e, events |-> {e},
             confirmed |-> FALSE, failed |-> FALSE, rest |-> <<>> ]

Anew(s) == [s EXCEPT !.context = @ + 1, !.flow = 0]
Released(s, us) ==
  [s EXCEPT !.pending = [ u \in Units |-> IF u \in us THEN 0 ELSE @[u] ]]

StopStep(s0, e) ==
  LET breaks == \/ e.kind = "boot" \/ e.at = 0
                \/ /\ s0.prev /= <<>>
                   /\ LET p == s0.prev[1]
                      IN  Gap(p, e) \/ Rebooted(p, e) \/ Jumped(p, e) \/ p.at = 0
      s  == IF breaks THEN Anew(Released(s0, Units)) ELSE s0
      at == IF e.hp \in Units THEN s.pending[e.hp] ELSE 0
      my == s.attempts[at]
      With(a) == [s EXCEPT !.attempts[at] = a]
      adds(b) == [my EXCEPT !.events = @ \cup {e}, !.confirmed = b]
      next ==
        CASE e.kind \in {"failed", "unconfirmed", "lost", "oil", "oilEnds"} ->
               LET t == IF /\ at /= 0 /\ e.kind = "unconfirmed"
                           /\ Timed(my.command, e, 1)
                        THEN With([my EXCEPT !.failed = TRUE]) ELSE s
               IN  Anew(Released(t, {e.hp}))
          [] e.kind \in {"start", "running"} -> Anew(Released(s, {e.hp}))
          [] e.kind = "preflow" -> Anew(s)
          [] e.kind = "stop" ->
               [s EXCEPT !.attempts = Append(@, Stop(e)),
                         !.contexts = Append(@, s.context),
                         !.pending[e.hp] = Len(s.attempts) + 1]
          [] e.kind = "stopped" ->
               IF at /= 0 /\ ~my.confirmed /\ Timed(my.command, e, 1)
               THEN With(adds(TRUE)) ELSE Released(s, {e.hp})
          [] e.kind = "rest" ->
               IF at /= 0 /\ my.confirmed
               THEN With([adds(TRUE) EXCEPT !.rest = <<e>>])
               ELSE Released(s, {e.hp})
          [] e.kind = "available" ->
               IF at /= 0 /\ my.rest /= <<>>
               THEN Released(With(adds(my.confirmed)), {e.hp})
               ELSE Released(s, {e.hp})
          [] e.kind = "postflow" ->
               [s EXCEPT !.flow = Len(s.flows) + 1,
                  !.flows = Append(@, [ start |-> e, events |-> {e},
                                        context |-> s.context ])]
          [] e.kind = "postflowEnds" /\ s.flow /= 0
             /\ Timed(s.flows[s.flow].start, e, Long) ->
               [s EXCEPT !.flows[s.flow].events = @ \cup {e}, !.flow = 0]
          [] OTHER -> s
  IN  [next EXCEPT !.prev = <<e>>]

NoStops == [ attempts |-> <<>>, contexts |-> <<>>, flows |-> <<>>,
             pending |-> [ u \in Units |-> 0 ], context |-> 0, flow |-> 0,
             prev |-> <<>> ]

\* the attempts that an after-run could belong to
Owners(s, f) ==
  { a \in 1..Len(s.attempts) :
      /\ s.contexts[a] = f.context
      /\ \/ Timed(f.start, s.attempts[a].command, Long)
         \/ Timed(s.attempts[a].command, f.start, Long) }

\* an after-run with one owner, if that owner has no other
AfterRuns(s, a) ==
  LET own == { f \in 1..Len(s.flows) : Owners(s, s.flows[f]) = {a} }
  IN  IF \E f \in own : own = {f}
      THEN UNION { s.flows[f].events : f \in own } ELSE {}

\* the idle topology the actuator writes right before one stop command
Idles(s, a) ==
  { e \in Records :
      LET c == s.attempts[a].command
      IN  /\ e.kind = "idle" /\ e.at > 0 /\ e.at = c.at /\ e.up = c.up
          /\ e.seq + 1 = c.seq
          /\ \A b \in 1..Len(s.attempts) :
               s.attempts[b].command.at = e.at => b = a }

Stops ==
  LET s == FoldLeft(StopStep, NoStops, Served)
  IN  [ a \in 1..Len(s.attempts) |->
          [s.attempts[a] EXCEPT !.events =
             @ \cup AfterRuns(s, a) \cup Idles(s, a)] ]

-----------------------------------------------------------------------------
(* control-replay-cycles.js *)

CycleStep(s0, e) ==
  LET breaks == \/ e.kind = "boot" \/ e.at = 0
                \/ /\ s0.prev /= <<>>
                   /\ LET p == s0.prev[1]
                      IN  Gap(p, e) \/ Rebooted(p, e) \/ Jumped(p, e) \/ p.at = 0
      s  == IF breaks THEN [s0 EXCEPT !.open = [ u \in Units |-> 0 ]] ELSE s0
      at == IF e.hp \in Units THEN s.open[e.hp] ELSE 0
      next ==
        CASE e.kind = "oil" ->
               [s EXCEPT !.cycles = Append(@, [ start |-> e, end |-> e,
                                                complete |-> FALSE ]),
                         !.open[e.hp] = IF e.at = 0 THEN 0
                                        ELSE Len(s.cycles) + 1]
          [] e.kind = "oilEnds" /\ at /= 0 /\ e.at > 0 ->
               [s EXCEPT !.cycles[at].end = e, !.cycles[at].complete = TRUE,
                         !.open[e.hp] = 0]
          [] e.kind \in {"start", "running", "stopped", "failed",
                        "unconfirmed", "lost", "rest"} ->
               [s EXCEPT !.open[e.hp] = 0]
          [] OTHER -> s
  IN  [next EXCEPT !.prev = <<e>>]

Cycles ==
  FoldLeft(CycleStep, [ cycles |-> <<>>, prev |-> <<>>,
                        open |-> [ u \in Units |-> 0 ] ], Served).cycles

-----------------------------------------------------------------------------
Init ==
  /\ topic \in {"runs", "starts", "stops", "cycles"}
  /\ era \in [ wall : {MaxFaults + 1}, up : {0}, real : {0}, known : {TRUE}, next : {1} ]
  /\ \E on \in SUBSET Involved({"stops"}) :
       /\ plant = [ u \in Units |->
                      [ run |-> IF u \in on THEN "on" ELSE "off",
                        on |-> u \in on, turn |-> 0, cycle |-> FALSE,
                        cycles |-> 0 ] ]
       /\ pump = [ is |-> IF on = {} THEN "rest" ELSE "run", by |-> "none" ]
  /\ archive = <<>> /\ ran = {} /\ still = {} /\ faults = 0

Next ==
  /\ UNCHANGED topic
  /\ \/ Prepare \/ AfterRun
     \/ \E u \in Involved({"starts"}) : Command(u)
     \/ \E u \in Involved({"stops"}) : StopCommand(u)
     \/ Confirm(Lead) \/ ConfirmStop(Lead) \/ Available(Lead)
     \/ Incident(Lead) \/ OilReturn(Lead)
     \/ Tick \/ Correct \/ Sync \/ Restart \/ Lose

Spec == Init /\ [][Next]_vars

-----------------------------------------------------------------------------
\* wall tick w of unit u: seen running and at no time not running, or such a
\* tick never was
In(seen, u, w) == \E b \in 0..MaxTicks : <<u, w, b>> \in seen
Ran(u, w)   == In(ran, u, w) \/ ~In(still, u, w)
Still(u, w) == In(still, u, w) \/ ~In(ran, u, w)

(* A run on the page was a run: no interval covers a tick in which nobody  *)
(* saw the compressor run, and the state at the window's start is the one  *)
(* it had (getConfirmedCompressorHistory).  A clock put back behind its own *)
(* records hides the later ones from the page, and a gap before them too.  *)
RunsWereRuns ==
  (\A e \in Records : e.at <= era.wall) =>
  \A start \in 1..era.wall :
    LET h == History(start, era.wall)
    IN  /\ \A i \in h.told : \A w \in Clipped(i, start) : Ran(i.hp, w)
        /\ start < era.wall => \A u \in Units :
             /\ h.first[u] = "on" => Ran(u, start)
             /\ h.first[u] = "off" => Still(u, start)

(* A log without a fault loses no run of the page's window.                *)
NoRunIsMissed ==
  (faults = 0 /\ \A e \in Records : e.at > 0) =>
    \A r \in { q \in ran : \E e \in Records :
                e.kind = "running" /\ e.hp = q[1] /\ e.at <= q[2] } :
      \E i \in History(1, era.wall).told :
        i.hp = r[1] /\ r[2] \in Clipped(i, 1)

(* Feedback and preparation are shown with the command they belong to.     *)
StartsBelong ==
  LET s == Starts
  IN  \A i \in 1..Len(s) : \A e \in s[i].events :
        IF e.kind = "preflow" THEN e.turn[s[i].hp] = s[i].command.turn
        ELSE e.hp = s[i].hp /\ e.turn = s[i].command.turn

(* So are a stop's: also the idle topology and the after-run of the pump,  *)
(* which belong to the stop that led to them, the last one.                *)
StopsBelong ==
  LET s == Stops
  IN  \A i \in 1..Len(s) : \A e \in s[i].events :
        IF e.hp \in Units THEN e.hp = s[i].hp /\ e.turn = s[i].command.turn
        ELSE e.by = s[i].hp

(* A complete oil return began and ended with these records, and lasted    *)
(* as long as it says; of one restored from flash, whose uptime is lost,   *)
(* the page only says that it was complete when it began and ended at once.*)
CyclesBelong ==
  LET s == Cycles
  IN  \A i \in 1..Len(s) : s[i].complete =>
        /\ s[i].start.hp = s[i].end.hp
        /\ s[i].start.cycle = s[i].end.cycle
        /\ s[i].end.at /= s[i].start.at =>
             s[i].end.at - s[i].start.at = s[i].end.real - s[i].start.real

ReplayTrue ==
  /\ About({"runs"}) => RunsWereRuns /\ NoRunIsMissed
  /\ About({"starts"}) => StartsBelong
  /\ About({"stops"}) => StopsBelong
  /\ About({"cycles"}) => CyclesBelong
=============================================================================
