---------------------------- MODULE WebApp_proofs ----------------------------
(***************************************************************************)
(* Proofs about the web app (WebApp), for every number of refreshes,       *)
(* events, saves, confirmations, restarts and releases: its polling does   *)
(* not stop and keeps what was confirmed, a confirmed incident action is   *)
(* executed once, an install goes down only as confirmed, an install that  *)
(* is reported runs, a restored backup leaves the device safe, and the     *)
(* controls behave as in WebControls, whose proofs are in a module of      *)
(* their own.                                                              *)
(*                                                                         *)
(* The slices of the state are disjoint: a step of the whole is, for each  *)
(* part of the app, a step of that part or none, so every part has an      *)
(* invariant of its own, a conjunction of named ones: a shape (the types)  *)
(* and what ties the page's half of the state to the device's.             *)
(***************************************************************************)
EXTENDS WebApp, Sequences, FiniteSets, SequenceTheorems, FiniteSetTheorems, WellFoundedInduction, TLAPS

-----------------------------------------------------------------------------
(***************************************************************************)
(* Part 1: the entity sync                                                 *)
(***************************************************************************)
Loops == [ poll : BOOLEAN, inFlight : BOOLEAN, pending : Opts \cup {NoOpts},
           loading : BOOLEAN, due : SUBSET Timers ]
Tasks == {"sync", "prefetch", "prime", "deferred"}
Refreshes == [ stage : {"idle", "probe", "sent", "answered", "extra"}, task : Tasks,
               opts : Opts, chained : BOOLEAN, rev : Nat, clock : Nat, mode : Nat ]
Faces == [ view : Views, native : BOOLEAN, hidden : BOOLEAN,
           focus : {"none", "field", "button"}, held : BOOLEAN, overlay : BOOLEAN,
           busy : {"", "save", "command"} ]

SyncShape ==
  /\ surface \in Faces
  /\ loop \in Loops
  /\ fetch \in [1 .. Fetches -> Refreshes]
  /\ store \in [ clock : Nat, mode : Nat, loaded : BOOLEAN ]
  /\ rev \in Nat
  /\ save \in [ stage : {"idle", "posted", "confirm"}, id : Nat, confirmed : Nat ]
  /\ ota \in [ install : BOOLEAN, quiet : BOOLEAN ]
  /\ dev \in [ clock : Nat, mode : Nat, by : Nat ]
  /\ left \in [ events : Nat, saves : Nat ]

(* The polling chain hangs on a refresh; the first one never carries it.   *)
Carries(g, f) == g[f].stage # "idle" /\ g[f].chained
PrimeIsFree == \A f \in 1 .. Fetches : fetch[f].task = "prime" => fetch[f].chained = FALSE

(* What a refresh brings from before a write is told by its revision; what *)
(* it brings of now is no older than what was confirmed.                   *)
Written ==
  /\ save.confirmed <= dev.clock /\ save.confirmed <= store.clock
  /\ \A f \in 1 .. Fetches :
       /\ fetch[f].rev <= rev
       /\ fetch[f].stage = "answered" /\ fetch[f].rev = rev /\ save.stage = "idle"
            => save.confirmed <= fetch[f].clock

SyncInv == SyncShape /\ PrimeIsFree /\ PollingAlive /\ Written

(* What a step may make of a refresh: leave it, end it, take it one stage  *)
(* further, or begin it.                                                   *)
Begun(g, f) == g[f].stage = "idle" /\ fetch'[f].stage \in {"probe", "sent"} /\ fetch'[f].rev \in {0, rev}

Synced(l, s, g, chained) ==
  /\ loop' \in Loops /\ fetch' \in [1 .. Fetches -> Refreshes]
  /\ l.poll => loop'.poll
  /\ \A f \in 1 .. Fetches : fetch'[f] = g[f] \/ (Begun(g, f) /\ fetch'[f].task # "prime")
  /\ chained => \/ loop'.poll \/ s.native \/ OtaBusy(ota)
                \/ \E f \in 1 .. Fetches : Carries(fetch', f)

Started(g, f, task, chained) ==
  /\ fetch' \in [1 .. Fetches -> Refreshes]
  /\ \A e \in 1 .. Fetches : e # f => fetch'[e] = g[e]
  /\ Begun(g, f) /\ fetch'[f].task = task /\ fetch'[f].chained = chained

LEMMA QuietTyped == Quiet \in Refreshes /\ Quiet.stage = "idle" /\ Quiet.rev = 0
                    /\ Quiet.task = "sync" /\ Quiet.chained = FALSE
BY DEF Quiet, Refreshes, Tasks, Opts

LEMMA MergeTyped == ASSUME NEW a \in Opts \cup {NoOpts}, NEW b \in Opts PROVE Merge(a, b) \in Opts
<1> DEFINE m == (a \ NoOpts) \cup b
<1>1. m \in Opts
  BY DEF Opts, NoOpts
<1>2. m \ {"fast"} \in Opts
  BY <1>1 DEF Opts
<1> QED BY <1>1, <1>2 DEF Merge

(* scheduleEntityPolling never takes a timer back.                         *)
LEMMA ArmArms ==
  ASSUME NEW l \in Loops, NEW s \in Faces, NEW o \in [ install : BOOLEAN, quiet : BOOLEAN ]
  PROVE  /\ Arm(l, s, o) \in Loops
         /\ l.poll => Arm(l, s, o).poll
         /\ Arm(l, s, o).poll \/ s.native \/ OtaBusy(o)
BY DEF Arm, Loops, Faces, OtaBusy

(* A refresh that begins takes an idle place.                              *)
LEMMA BeginBegins ==
  ASSUME NEW g \in [1 .. Fetches -> Refreshes], NEW f \in 1 .. Fetches, Idle(f, g),
         NEW task \in Tasks, NEW opts \in Opts, NEW chained \in BOOLEAN,
         NEW stage \in {"probe", "sent"}, rev \in Nat, Begin(f, g, task, opts, chained, stage)
  PROVE  Started(g, f, task, chained)
<1> DEFINE new == [Quiet EXCEPT !.stage = stage, !.task = task, !.opts = opts,
                     !.chained = chained, !.rev = IF stage = "sent" THEN rev ELSE 0]
<1>1. new \in Refreshes /\ new.stage = stage /\ new.rev \in {0, rev} /\ new.task = task
      /\ new.chained = chained
  BY QuietTyped DEF Refreshes
<1> HIDE DEF new
<1>2. fetch' = [g EXCEPT ![f] = new]
  BY DEF Begin, new
<1>3. g[f].stage = "idle"
  BY DEF Idle
<1> QED BY <1>1, <1>2, <1>3 DEF Begun, Started

(* syncEntities: what it was given of the timer and of refreshes it keeps; *)
(* the caller of the chain gets the timer or a refresh that carries it.    *)
LEMMA SyncSyncs ==
  ASSUME NEW opts \in Opts, NEW chained \in BOOLEAN, NEW l \in Loops, NEW s \in Faces,
         NEW g \in [1 .. Fetches -> Refreshes], rev \in Nat,
         ota \in [ install : BOOLEAN, quiet : BOOLEAN ], SyncEntities(opts, chained, l, s, g)
  PROVE  Synced(l, s, g, chained)
<1> DEFINE kind == IF Prefetch(opts, s) THEN "prefetch" ELSE "sync"
           Back(x) == loop' = (IF chained THEN Arm(x, s, ota) ELSE x) /\ fetch' = g
<1>1. ASSUME NEW x \in Loops, Back(x), x.poll = l.poll
      PROVE  /\ loop' \in Loops /\ fetch' = g /\ (l.poll => loop'.poll)
             /\ chained => loop'.poll \/ s.native \/ OtaBusy(ota)
  BY <1>1, ArmArms
<1>2. [l EXCEPT !.pending = NoOpts] \in Loops /\ [l EXCEPT !.pending = NoOpts].poll = l.poll
  BY DEF Loops
<1>3. [l EXCEPT !.pending = Merge(@, opts)] \in Loops
      /\ [l EXCEPT !.pending = Merge(@, opts)].poll = l.poll
  BY MergeTyped DEF Loops
<1>4. [l EXCEPT !.inFlight = TRUE] \in Loops /\ [l EXCEPT !.inFlight = TRUE].poll = l.poll
  BY DEF Loops
<1>5. kind \in Tasks /\ kind # "prime"
  BY DEF Tasks
<1> HIDE DEF kind
<1>6. \/ \E x \in {l, [l EXCEPT !.pending = NoOpts], [l EXCEPT !.pending = Merge(@, opts)]} : Back(x)
      \/ \E f \in 1 .. Fetches, stage \in {"probe", "sent"} :
           /\ Idle(f, g) /\ Begin(f, g, kind, opts, chained, stage)
           /\ loop' = [l EXCEPT !.inFlight = TRUE]
  BY DEF SyncEntities, kind
<1>7. CASE \E x \in {l, [l EXCEPT !.pending = NoOpts], [l EXCEPT !.pending = Merge(@, opts)]} : Back(x)
  <2> PICK x \in {l, [l EXCEPT !.pending = NoOpts], [l EXCEPT !.pending = Merge(@, opts)]} : Back(x)
    BY <1>7
  <2>1. x \in Loops /\ x.poll = l.poll
    BY <1>2, <1>3
  <2> HIDE DEF Back
  <2> QED BY <1>1, <2>1 DEF Synced
<1>8. ASSUME NEW f \in 1 .. Fetches, NEW stage \in {"probe", "sent"}, Idle(f, g),
             Begin(f, g, kind, opts, chained, stage), loop' = [l EXCEPT !.inFlight = TRUE]
      PROVE  /\ loop' \in Loops /\ fetch' \in [1 .. Fetches -> Refreshes] /\ (l.poll => loop'.poll)
             /\ \A e \in 1 .. Fetches : fetch'[e] = g[e] \/ (Begun(g, e) /\ fetch'[e].task # "prime")
             /\ chained => \E e \in 1 .. Fetches : Carries(fetch', e)
  <2>0. Started(g, f, kind, chained)
    BY <1>5, <1>8, BeginBegins
  <2>1. /\ fetch' \in [1 .. Fetches -> Refreshes]
        /\ \A e \in 1 .. Fetches : e # f => fetch'[e] = g[e]
        /\ Begun(g, f) /\ fetch'[f].task = kind /\ fetch'[f].chained = chained
    BY <2>0 DEF Started
  <2>2. chained => Carries(fetch', f)
    BY <2>1 DEF Begun, Carries
  <2> QED BY <1>8, <1>4, <1>5, <2>1, <2>2
<1> QED BY <1>6, <1>7, <1>8 DEF Synced

(* What a step may make of a refresh, apart from its answer.               *)
Moved(f) ==
  \/ fetch'[f] = fetch[f]
  \/ /\ fetch'[f].stage # "answered" /\ fetch'[f].rev \in {0, rev}
     /\ fetch'[f].task = "prime" => fetch'[f].chained = FALSE
Kept(f) == Carries(fetch, f) => Carries(fetch', f) \/ loop'.poll \/ surface'.native \/ OtaBusy(ota')

LEMMA RefreshesMove ==
  ASSUME SyncInv, SyncShape', UNCHANGED <<rev, save>>, dev'.clock >= dev.clock,
         store'.clock >= save.confirmed, \A f \in 1 .. Fetches : Moved(f)
  PROVE  PrimeIsFree' /\ Written'
<1>1. PrimeIsFree'
  BY DEF SyncInv, PrimeIsFree, Moved
<1>2. save.confirmed <= dev'.clock
  BY DEF SyncInv, SyncShape, Written
<1>3. save.confirmed <= store'.clock
  BY DEF SyncInv, SyncShape
<1>4. ASSUME NEW f \in 1 .. Fetches
      PROVE  /\ fetch'[f].rev <= rev
             /\ fetch'[f].stage = "answered" /\ fetch'[f].rev = rev /\ save.stage = "idle"
                  => save.confirmed <= fetch'[f].clock
  <2>1. fetch[f] \in Refreshes /\ fetch'[f] \in Refreshes
    BY DEF SyncInv, SyncShape
  <2>2. fetch[f].rev \in Nat /\ fetch'[f].rev \in Nat /\ rev \in Nat
    BY <2>1 DEF Refreshes, SyncInv, SyncShape
  <2>3. CASE fetch'[f] = fetch[f]
    BY <2>3 DEF SyncInv, Written
  <2>4. CASE fetch'[f] # fetch[f]
    BY <2>2, <2>4 DEF Moved
  <2> QED BY <2>3, <2>4
<1> QED BY <1>1, <1>2, <1>3, <1>4 DEF Written

LEMMA ChainGoesOn ==
  ASSUME PollingAlive, surface'.native = surface.native, ota' = ota, loop.poll => loop'.poll,
         \A f \in 1 .. Fetches : Kept(f)
  PROVE  PollingAlive'
BY DEF PollingAlive, Kept, Carries

(* The end of a refresh passes the chain on.                               *)
LEMMA FinishPassesOn ==
  ASSUME SyncInv, NEW f \in 1 .. Fetches, Finish(f), UNCHANGED <<surface, ota, rev>>
  PROVE  /\ loop' \in Loops /\ fetch' \in [1 .. Fetches -> Refreshes]
         /\ loop.poll => loop'.poll
         /\ \A e \in 1 .. Fetches : Moved(e) /\ Kept(e)
<1> DEFINE t == fetch[f]
           queued == loop.pending # NoOpts /\ ~surface.native
           fastOverview == /\ t.task = "sync" /\ "fast" \in t.opts
                           /\ surface.view = "overview" /\ ~surface.native
           next == (IF fastOverview /\ ~queued THEN {"bulk"} ELSE {})
               \cup (IF fastOverview /\ t.stage = "extra" THEN {"supplementary"} ELSE {})
           done == [loop EXCEPT !.inFlight = FALSE, !.pending = NoOpts, !.due = @ \cup next]
           onward == IF t.chained THEN Arm(done, surface, ota) ELSE done
           freed == [fetch EXCEPT ![f] = Quiet]
<1>1. IF queued THEN SyncEntities(loop.pending, FALSE, onward, surface, freed)
                ELSE loop' = onward /\ fetch' = freed
  BY DEF Finish
<1>2. next \in SUBSET Timers
  BY DEF Timers
<1> HIDE DEF next
<1>3. done \in Loops /\ done.poll = loop.poll
  BY <1>2 DEF SyncInv, SyncShape, Loops
<1> HIDE DEF done
<1>4. /\ onward \in Loops /\ (loop.poll => onward.poll)
      /\ t.chained => onward.poll \/ surface.native \/ OtaBusy(ota)
  BY <1>3, ArmArms DEF SyncInv, SyncShape
<1> HIDE DEF onward
<1>5. /\ freed \in [1 .. Fetches -> Refreshes] /\ freed[f] = Quiet
      /\ \A e \in 1 .. Fetches : e # f => freed[e] = fetch[e]
  BY QuietTyped DEF SyncInv, SyncShape
<1> HIDE DEF freed
<1>6. queued => loop.pending \in Opts
  BY DEF SyncInv, SyncShape, Loops
<1>7. /\ loop' \in Loops /\ fetch' \in [1 .. Fetches -> Refreshes] /\ (onward.poll => loop'.poll)
      /\ \A e \in 1 .. Fetches : fetch'[e] = freed[e] \/ (Begun(freed, e) /\ fetch'[e].task # "prime")
  <2>1. CASE queued
    <3>1. SyncEntities(loop.pending, FALSE, onward, surface, freed)
      BY <1>1, <2>1
    <3>2. surface \in Faces /\ rev \in Nat /\ ota \in [ install : BOOLEAN, quiet : BOOLEAN ]
      BY DEF SyncInv, SyncShape
    <3> HIDE DEF queued
    <3>3. Synced(onward, surface, freed, FALSE)
      BY <3>1, <3>2, <1>4, <1>5, <1>6, <2>1, SyncSyncs
    <3> QED BY <3>3 DEF Synced
  <2>2. CASE ~queued
    <3>1. loop' = onward /\ fetch' = freed
      BY <1>1, <2>2
    <3> QED BY <3>1, <1>4, <1>5
  <2> QED BY <2>1, <2>2
<1>8. ASSUME NEW e \in 1 .. Fetches PROVE Moved(e)
  BY <1>5, <1>7, QuietTyped DEF Begun, Moved
<1>9. ASSUME NEW e \in 1 .. Fetches PROVE Kept(e)
  <2>1. CASE e = f
    BY <1>4, <1>7, <2>1 DEF Kept, Carries
  <2>2. CASE e # f
    BY <1>5, <1>7, <2>2 DEF Kept, Carries, Begun
  <2> QED BY <2>1, <2>2
<1> QED BY <1>4, <1>7, <1>8, <1>9

(* Steps of the page that end or begin refreshes by themselves.            *)
LEMMA FinishKeeps ==
  ASSUME SyncInv, NEW f \in 1 .. Fetches, Finish(f), UNCHANGED <<surface, rev, save, ota, dev, left>>,
         store' \in [ clock : Nat, mode : Nat, loaded : BOOLEAN ], store'.clock >= save.confirmed
  PROVE  SyncInv'
<1>1. /\ loop' \in Loops /\ fetch' \in [1 .. Fetches -> Refreshes] /\ (loop.poll => loop'.poll)
      /\ \A e \in 1 .. Fetches : Moved(e) /\ Kept(e)
  BY FinishPassesOn
<1>2. SyncShape'
  BY <1>1 DEF SyncInv, SyncShape
<1>3. PollingAlive'
  BY <1>1, ChainGoesOn DEF SyncInv
<1>4. dev'.clock >= dev.clock
  BY DEF SyncInv, SyncShape
<1> QED BY <1>1, <1>2, <1>3, <1>4, RefreshesMove DEF SyncInv

LEMMA ConfirmedNow ==
  ASSUME SyncInv PROVE save.confirmed <= store.clock /\ store \in [ clock : Nat, mode : Nat, loaded : BOOLEAN ]
                       /\ store.clock >= save.confirmed
BY DEF SyncInv, Written, SyncShape

LEMMA ProbeFailsKeeps == ASSUME SyncInv, NEW f \in 1 .. Fetches, ProbeFails(f) PROVE SyncInv'
<1>1. Finish(f) /\ UNCHANGED <<surface, rev, save, ota, dev, left, store>>
  BY DEF ProbeFails
<1> QED BY <1>1, ConfirmedNow, FinishKeeps

LEMMA EndSyncKeeps == ASSUME SyncInv, NEW f \in 1 .. Fetches, EndSync(f) PROVE SyncInv'
<1>1. Finish(f) /\ UNCHANGED <<surface, rev, save, ota, dev, left, store>>
  BY DEF EndSync
<1> QED BY <1>1, ConfirmedNow, FinishKeeps

LEMMA ProbeOkKeeps == ASSUME SyncInv, NEW f \in 1 .. Fetches, ProbeOk(f) PROVE SyncInv'
<1>1. /\ fetch[f].stage = "probe" /\ fetch' = [fetch EXCEPT ![f].stage = "sent", ![f].rev = rev]
      /\ UNCHANGED <<surface, loop, store, rev, save, ota, dev, left>>
  BY DEF ProbeOk
<1>2. fetch' \in [1 .. Fetches -> Refreshes]
  <2>1. fetch[f] \in Refreshes /\ rev \in Nat
    BY DEF SyncInv, SyncShape
  <2>2. [fetch[f] EXCEPT !.stage = "sent", !.rev = rev] \in Refreshes
    BY <2>1 DEF Refreshes
  <2>3. fetch' = [fetch EXCEPT ![f] = [fetch[f] EXCEPT !.stage = "sent", !.rev = rev]]
    BY <1>1 DEF SyncInv, SyncShape
  <2> QED BY <2>2, <2>3 DEF SyncInv, SyncShape
<1>3. SyncShape' /\ dev'.clock >= dev.clock /\ store'.clock >= save.confirmed
  BY <1>1, <1>2, ConfirmedNow DEF SyncInv, SyncShape
<1>4. ASSUME NEW e \in 1 .. Fetches PROVE Moved(e) /\ Kept(e)
  <2>1. e # f => fetch'[e] = fetch[e]
    BY <1>1 DEF SyncInv, SyncShape
  <2>2. fetch'[f].stage = "sent" /\ fetch'[f].rev = rev /\ fetch'[f].task = fetch[f].task
        /\ fetch'[f].chained = fetch[f].chained
    BY <1>1 DEF SyncInv, SyncShape, Refreshes
  <2>3. Moved(e)
    BY <2>1, <2>2 DEF Moved, SyncInv, PrimeIsFree
  <2>4. Kept(e)
    BY <2>1, <2>2 DEF Kept, Carries
  <2> QED BY <2>3, <2>4
<1>5. PollingAlive'
  BY <1>1, <1>4, ChainGoesOn DEF SyncInv
<1> QED BY <1>1, <1>3, <1>4, <1>5, RefreshesMove DEF SyncInv

(* An answer shows the device as it is now.                                *)
LEMMA AnswerKeeps == ASSUME SyncInv, NEW f \in 1 .. Fetches, Answer(f) PROVE SyncInv'
<1>1. /\ fetch[f].stage = "sent"
      /\ fetch' = [fetch EXCEPT ![f].stage = "answered", ![f].clock = dev.clock, ![f].mode = dev.mode]
      /\ UNCHANGED <<surface, loop, store, rev, save, ota, dev, left>>
  BY DEF Answer
<1>2. fetch' \in [1 .. Fetches -> Refreshes]
  <2>1. fetch[f] \in Refreshes /\ dev.clock \in Nat /\ dev.mode \in Nat
    BY DEF SyncInv, SyncShape
  <2>2. [fetch[f] EXCEPT !.stage = "answered", !.clock = dev.clock, !.mode = dev.mode] \in Refreshes
    BY <2>1 DEF Refreshes
  <2>3. fetch' = [fetch EXCEPT ![f] = [fetch[f] EXCEPT !.stage = "answered", !.clock = dev.clock,
                                                       !.mode = dev.mode]]
    BY <1>1 DEF SyncInv, SyncShape
  <2> QED BY <2>2, <2>3 DEF SyncInv, SyncShape
<1>3. SyncShape'
  BY <1>1, <1>2 DEF SyncInv, SyncShape
<1>4. \A e \in 1 .. Fetches : e # f => fetch'[e] = fetch[e]
  BY <1>1 DEF SyncInv, SyncShape
<1>5. /\ fetch'[f].stage = "answered" /\ fetch'[f].rev = fetch[f].rev /\ fetch'[f].clock = dev.clock
      /\ fetch'[f].task = fetch[f].task /\ fetch'[f].chained = fetch[f].chained
  BY <1>1 DEF SyncInv, SyncShape, Refreshes
<1>6. PrimeIsFree'
  BY <1>4, <1>5 DEF SyncInv, PrimeIsFree
<1>7. \A e \in 1 .. Fetches : Kept(e)
  BY <1>1, <1>4, <1>5 DEF Kept, Carries
<1>8. PollingAlive'
  BY <1>1, <1>7, ChainGoesOn DEF SyncInv
<1>9. Written'
  BY <1>1, <1>4, <1>5 DEF SyncInv, Written
<1> QED BY <1>3, <1>6, <1>8, <1>9 DEF SyncInv

(* What follows a refresh leaves the chain alone or passes it on.          *)
LEMMA ProceedKeeps ==
  ASSUME SyncInv, NEW f \in 1 .. Fetches, Proceed(f), fetch[f].stage # "idle",
         UNCHANGED <<surface, rev, save, ota, dev, left>>,
         store' \in [ clock : Nat, mode : Nat, loaded : BOOLEAN ], store'.clock >= save.confirmed
  PROVE  SyncInv'
<1>0. /\ fetch[f] \in Refreshes /\ fetch \in [1 .. Fetches -> Refreshes] /\ loop \in Loops
      /\ surface \in Faces /\ dev.clock \in Nat /\ rev \in Nat
  BY DEF SyncInv, SyncShape
<1>1. CASE fetch[f].task = "deferred"
  <2>1. Finish(f)
    BY <1>1 DEF Proceed
  <2> QED BY <2>1, FinishKeeps
<1>2. CASE fetch[f].task \in {"sync", "prefetch"}
  <2> DEFINE new == [Quiet EXCEPT !.stage = "extra", !.task = fetch[f].task,
                       !.opts = fetch[f].opts, !.chained = fetch[f].chained]
  <2>1. fetch' = [fetch EXCEPT ![f] = new] /\ loop' = loop
    BY <1>2 DEF Proceed
  <2>2. /\ new \in Refreshes /\ new.stage = "extra" /\ new.rev = 0 /\ new.task = fetch[f].task
        /\ new.chained = fetch[f].chained
    BY <1>0, QuietTyped DEF Refreshes
  <2> HIDE DEF new
  <2>3. fetch' \in [1 .. Fetches -> Refreshes] /\ fetch'[f] = new
        /\ \A e \in 1 .. Fetches : e # f => fetch'[e] = fetch[e]
    BY <1>0, <2>1, <2>2
  <2>4. SyncShape'
    BY <2>1, <2>3 DEF SyncInv, SyncShape
  <2>5. ASSUME NEW e \in 1 .. Fetches PROVE Moved(e) /\ Kept(e)
    BY <1>2, <2>2, <2>3 DEF Moved, Kept, Carries
  <2>6. PollingAlive'
    BY <2>1, <2>5, ChainGoesOn DEF SyncInv
  <2> QED BY <1>0, <2>4, <2>5, <2>6, RefreshesMove DEF SyncInv
<1>3. CASE fetch[f].task = "prime"
  <2> DEFINE due == loop.due \cup ({"deferred"} \cup (IF surface.native THEN {} ELSE {"supplementary"}))
  <2>1. fetch' = [fetch EXCEPT ![f] = Quiet] /\ loop' = [loop EXCEPT !.loading = FALSE, !.due = due]
    BY <1>3 DEF Proceed
  <2>2. due \in SUBSET Timers
    BY <1>0 DEF Loops, Timers
  <2> HIDE DEF due
  <2>3. loop' \in Loops /\ loop'.poll = loop.poll
    BY <1>0, <2>1, <2>2 DEF Loops
  <2>4. fetch' \in [1 .. Fetches -> Refreshes] /\ fetch'[f] = Quiet
        /\ \A e \in 1 .. Fetches : e # f => fetch'[e] = fetch[e]
    BY <1>0, <2>1, QuietTyped
  <2>5. SyncShape'
    BY <2>3, <2>4 DEF SyncInv, SyncShape
  <2>6. ASSUME NEW e \in 1 .. Fetches PROVE Moved(e) /\ Kept(e)
    <3>1. fetch[f].chained = FALSE
      BY <1>3 DEF SyncInv, PrimeIsFree
    <3> QED BY <2>4, <3>1, QuietTyped DEF Moved, Kept, Carries
  <2>7. PollingAlive'
    BY <2>3, <2>6, ChainGoesOn DEF SyncInv
  <2> QED BY <1>0, <2>5, <2>6, <2>7, RefreshesMove DEF SyncInv
<1> QED BY <1>0, <1>1, <1>2, <1>3 DEF Refreshes, Tasks

(* A late answer restores no time from before a write.                     *)
LEMMA MergeAnswerKeeps == ASSUME SyncInv, NEW f \in 1 .. Fetches, MergeAnswer(f) PROVE SyncInv'
<1>1. /\ fetch[f].stage = "answered" /\ Proceed(f)
      /\ store' = [ clock |-> ClockFrom(f), mode |-> fetch[f].mode, loaded |-> TRUE ]
      /\ UNCHANGED <<surface, rev, save, ota, dev, left>>
  BY DEF MergeAnswer
<1>2. fetch[f] \in Refreshes /\ store.clock \in Nat
  BY DEF SyncInv, SyncShape
<1>3. ClockFrom(f) \in Nat /\ ClockFrom(f) >= save.confirmed
  BY <1>1, <1>2 DEF ClockFrom, SyncInv, SyncShape, Written, Refreshes
<1>4. store' \in [ clock : Nat, mode : Nat, loaded : BOOLEAN ] /\ store'.clock >= save.confirmed
  BY <1>1, <1>2, <1>3 DEF Refreshes
<1> QED BY <1>1, <1>4, ProceedKeeps

LEMMA RequestFailsKeeps == ASSUME SyncInv, NEW f \in 1 .. Fetches, RequestFails(f) PROVE SyncInv'
<1>1. fetch[f].stage # "idle" /\ Proceed(f) /\ UNCHANGED <<surface, rev, save, ota, dev, left, store>>
  BY DEF RequestFails
<1> QED BY <1>1, ConfirmedNow, ProceedKeeps

(* A sync that is asked for, by the chain or beside it.                    *)
LEMMA SyncKeeps ==
  ASSUME SyncInv, NEW opts \in Opts, NEW chained \in BOOLEAN, NEW l \in Loops, NEW s \in Faces,
         surface' = s, left' \in [ events : Nat, saves : Nat ],
         UNCHANGED <<store, rev, save, ota, dev>>, SyncEntities(opts, chained, l, s, fetch),
         loop.poll => l.poll \/ chained \/ s.native \/ OtaBusy(ota),
         surface.native => s.native \/ l.poll \/ OtaBusy(ota)
  PROVE  SyncInv'
<1>0. /\ fetch \in [1 .. Fetches -> Refreshes] /\ rev \in Nat /\ dev.clock \in Nat
      /\ ota \in [ install : BOOLEAN, quiet : BOOLEAN ]
  BY DEF SyncInv, SyncShape
<1>1. Synced(l, s, fetch, chained)
  BY <1>0, SyncSyncs
<1>2. /\ loop' \in Loops /\ fetch' \in [1 .. Fetches -> Refreshes] /\ (l.poll => loop'.poll)
      /\ \A f \in 1 .. Fetches : fetch'[f] = fetch[f] \/ (Begun(fetch, f) /\ fetch'[f].task # "prime")
      /\ chained => \/ loop'.poll \/ s.native \/ OtaBusy(ota)
                    \/ \E f \in 1 .. Fetches : Carries(fetch', f)
  BY <1>1 DEF Synced
<1>3. SyncShape'
  BY <1>2 DEF SyncInv, SyncShape
<1>4. ASSUME NEW f \in 1 .. Fetches PROVE Moved(f) /\ Kept(f)
  BY <1>2 DEF Moved, Kept, Carries, Begun
<1>5. PollingAlive'
  <2>1. CASE \E f \in 1 .. Fetches : Carries(fetch, f)
    BY <1>4, <2>1 DEF Kept, Carries, PollingAlive
  <2>2. CASE loop.poll \/ surface.native
    BY <1>2, <2>2 DEF Carries, PollingAlive
  <2>3. CASE OtaBusy(ota)
    BY <2>3 DEF PollingAlive
  <2> QED BY <2>1, <2>2, <2>3 DEF SyncInv, PollingAlive, Carries
<1> QED BY <1>0, <1>3, <1>4, <1>5, ConfirmedNow, RefreshesMove DEF SyncInv

LEMMA OptsTyped == {} \in Opts /\ {"bulk"} \in Opts /\ {"fast"} \in Opts /\ {"prefetch", "fast"} \in Opts
BY DEF Opts

LEMMA WithoutTyped == ASSUME loop \in Loops, NEW t PROVE Without(t) \in Loops /\ Without(t).poll = loop.poll
BY DEF Without, Loops

LEMMA PollFiresKeeps == ASSUME SyncInv, PollFires PROVE SyncInv'
<1> DEFINE l == [loop EXCEPT !.poll = FALSE]
<1>1. SyncEntities({}, TRUE, l, surface, fetch) /\ UNCHANGED <<surface, store, rev, save, ota, dev, left>>
  BY DEF PollFires
<1>2. l \in Loops
  BY DEF SyncInv, SyncShape, Loops
<1>3. surface \in Faces /\ left \in [ events : Nat, saves : Nat ] /\ TRUE \in BOOLEAN
  BY DEF SyncInv, SyncShape
<1> HIDE DEF l
<1>4. surface' = surface /\ left' = left /\ UNCHANGED <<store, rev, save, ota, dev>>
  BY <1>1
<1> QED BY <1>1, <1>2, <1>3, <1>4, OptsTyped, SyncKeeps

LEMMA BulkTimerKeeps == ASSUME SyncInv, BulkTimer PROVE SyncInv'
<1>1. SyncEntities({"bulk"}, FALSE, Without("bulk"), surface, fetch)
      /\ surface' = surface /\ left' = left /\ UNCHANGED <<store, rev, save, ota, dev>>
  BY DEF BulkTimer
<1>2. surface \in Faces /\ left \in [ events : Nat, saves : Nat ] /\ loop \in Loops
  BY DEF SyncInv, SyncShape
<1>3. Without("bulk") \in Loops /\ Without("bulk").poll = loop.poll
  BY <1>2, WithoutTyped
<1> QED BY <1>1, <1>2, <1>3, OptsTyped, SyncKeeps

(* A step that leaves the refreshes alone keeps the chain as long as the   *)
(* timer stays or is armed again.                                          *)
LEMMA LoopKeeps ==
  ASSUME SyncInv, UNCHANGED <<fetch, rev, save, store, dev>>, loop' \in Loops, surface' \in Faces,
         ota' \in [ install : BOOLEAN, quiet : BOOLEAN ], left' \in [ events : Nat, saves : Nat ],
         loop.poll \/ surface.native \/ OtaBusy(ota) => loop'.poll \/ surface'.native \/ OtaBusy(ota')
  PROVE  SyncInv'
<1>1. SyncShape'
  BY DEF SyncInv, SyncShape
<1>2. PrimeIsFree' /\ Written'
  BY DEF SyncInv, PrimeIsFree, Written
<1>3. PollingAlive'
  BY DEF SyncInv, PollingAlive
<1> QED BY <1>1, <1>2, <1>3 DEF SyncInv

LEMMA PrefetchTimerKeeps == ASSUME SyncInv, PrefetchTimer PROVE SyncInv'
<1>0. surface \in Faces /\ left \in [ events : Nat, saves : Nat ] /\ loop \in Loops
      /\ ota \in [ install : BOOLEAN, quiet : BOOLEAN ]
  BY DEF SyncInv, SyncShape
<1>1. surface' = surface /\ left' = left /\ ota' = ota /\ UNCHANGED <<store, rev, save, ota, dev>>
  BY DEF PrefetchTimer
<1>2. Without("prefetch") \in Loops /\ Without("prefetch").poll = loop.poll
  BY <1>0, WithoutTyped
<1>3. CASE SyncEntities({"prefetch", "fast"}, FALSE, Without("prefetch"), surface, fetch)
  BY <1>0, <1>1, <1>2, <1>3, OptsTyped, SyncKeeps
<1>4. CASE loop' = Without("prefetch") /\ UNCHANGED fetch
  BY <1>0, <1>1, <1>2, <1>4, LoopKeeps
<1> QED BY <1>3, <1>4 DEF PrefetchTimer

LEMMA SupplementaryTimerKeeps == ASSUME SyncInv, SupplementaryTimer PROVE SyncInv'
<1>0. surface \in Faces /\ left \in [ events : Nat, saves : Nat ] /\ loop \in Loops
      /\ ota \in [ install : BOOLEAN, quiet : BOOLEAN ]
  BY DEF SyncInv, SyncShape
<1>1. Without("supplementary") \in Loops /\ Without("supplementary").poll = loop.poll
  BY <1>0, WithoutTyped
<1>2. /\ surface' = surface /\ left' = left /\ ota' = ota
      /\ UNCHANGED <<store, fetch, rev, save, dev>>
      /\ \/ loop' = Without("supplementary")
         \/ \E more \in {{}, {"prefetch"}} :
              loop' = [Without("supplementary") EXCEPT !.due = @ \cup more]
  BY DEF SupplementaryTimer
<1>3. ASSUME NEW more \in {{}, {"prefetch"}}
      PROVE  LET l == [Without("supplementary") EXCEPT !.due = @ \cup more]
             IN  l \in Loops /\ l.poll = loop.poll
  BY <1>1, <1>3 DEF Loops, Timers
<1>4. loop' \in Loops /\ loop'.poll = loop.poll
  BY <1>1, <1>2, <1>3
<1> QED BY <1>0, <1>2, <1>4, LoopKeeps

(* A refresh that is begun by itself.                                      *)
LEMMA BeginKeeps ==
  ASSUME SyncInv, NEW f \in 1 .. Fetches, Idle(f, fetch), NEW task \in {"prime", "deferred"},
         Begin(f, fetch, task, {}, FALSE, "sent"), loop' \in Loops, surface' \in Faces,
         left' \in [ events : Nat, saves : Nat ], UNCHANGED <<store, rev, save, ota, dev>>,
         loop.poll \/ surface.native => loop'.poll \/ surface'.native \/ OtaBusy(ota)
  PROVE  SyncInv'
<1>0. /\ fetch \in [1 .. Fetches -> Refreshes] /\ rev \in Nat /\ dev.clock \in Nat
      /\ "sent" \in {"probe", "sent"} /\ FALSE \in BOOLEAN /\ task \in Tasks
  BY DEF SyncInv, SyncShape, Tasks
<1>1. Started(fetch, f, task, FALSE)
  BY <1>0, OptsTyped, BeginBegins
<1>2. /\ fetch' \in [1 .. Fetches -> Refreshes] /\ \A e \in 1 .. Fetches : e # f => fetch'[e] = fetch[e]
      /\ Begun(fetch, f) /\ fetch'[f].chained = FALSE
  BY <1>1 DEF Started
<1>3. SyncShape'
  BY <1>2 DEF SyncInv, SyncShape
<1>4. ASSUME NEW e \in 1 .. Fetches PROVE Moved(e) /\ (Carries(fetch, e) => Carries(fetch', e))
  BY <1>2 DEF Moved, Carries, Begun
<1>5. PollingAlive'
  BY <1>4 DEF SyncInv, PollingAlive, Carries
<1> QED BY <1>0, <1>3, <1>4, <1>5, ConfirmedNow, RefreshesMove DEF SyncInv

LEMMA DeferredTimerKeeps == ASSUME SyncInv, DeferredTimer PROVE SyncInv'
<1>0. surface \in Faces /\ left \in [ events : Nat, saves : Nat ] /\ loop \in Loops
      /\ ota \in [ install : BOOLEAN, quiet : BOOLEAN ]
  BY DEF SyncInv, SyncShape
<1>1. Without("deferred") \in Loops /\ Without("deferred").poll = loop.poll
  BY <1>0, WithoutTyped
<1>2. surface' = surface /\ left' = left /\ ota' = ota /\ UNCHANGED <<store, rev, save, ota, dev>>
  BY DEF DeferredTimer
<1>3. CASE surface.native
  BY <1>0, <1>1, <1>2, <1>3, LoopKeeps DEF DeferredTimer
<1>4. CASE ~surface.native
  <2>1. PICK f \in 1 .. Fetches :
          /\ Idle(f, fetch) /\ Begin(f, fetch, "deferred", {}, FALSE, "sent")
          /\ loop' = [Without("deferred") EXCEPT !.inFlight = TRUE]
    BY <1>4 DEF DeferredTimer
  <2>2. loop' \in Loops /\ loop'.poll = loop.poll
    BY <1>1, <2>1 DEF Loops
  <2> QED BY <1>0, <1>2, <2>1, <2>2, BeginKeeps
<1> QED BY <1>3, <1>4

-----------------------------------------------------------------------------
(* Saving a time: with either end of a save the revision goes on, so no    *)
(* refresh that is under way is of the present one.                        *)
LEMMA NewRevision ==
  ASSUME SyncInv, rev' = rev + 1, UNCHANGED <<fetch, loop, ota, dev>>, surface' \in Faces,
         surface'.native = surface.native, left' \in [ events : Nat, saves : Nat ],
         store' \in [ clock : Nat, mode : Nat, loaded : BOOLEAN ],
         save' \in [ stage : {"idle", "posted", "confirm"}, id : Nat, confirmed : Nat ],
         save'.confirmed <= dev.clock, save'.confirmed <= store'.clock
  PROVE  SyncInv'
<1>0. rev \in Nat /\ rev' \in Nat /\ fetch \in [1 .. Fetches -> Refreshes]
  BY DEF SyncInv, SyncShape
<1>1. SyncShape'
  BY <1>0 DEF SyncInv, SyncShape
<1>2. PrimeIsFree' /\ PollingAlive'
  BY DEF SyncInv, PrimeIsFree, PollingAlive
<1>3. ASSUME NEW f \in 1 .. Fetches PROVE fetch[f].rev <= rev' /\ fetch[f].rev # rev'
  <2>1. fetch[f].rev \in Nat
    BY <1>0 DEF Refreshes
  <2> QED BY <1>0, <2>1 DEF SyncInv, Written
<1>4. Written'
  BY <1>0, <1>3 DEF SyncInv, SyncShape, Written
<1> QED BY <1>1, <1>2, <1>4 DEF SyncInv

LEMMA StartSaveKeeps == ASSUME SyncInv, StartSave PROVE SyncInv'
<1>0. /\ surface \in Faces /\ left \in [ events : Nat, saves : Nat ] /\ ConfirmedTimeStays
      /\ save \in [ stage : {"idle", "posted", "confirm"}, id : Nat, confirmed : Nat ]
      /\ save.confirmed <= dev.clock /\ save.confirmed <= store.clock
      /\ store \in [ clock : Nat, mode : Nat, loaded : BOOLEAN ]
  BY DEF SyncInv, SyncShape, Written, ConfirmedTimeStays
<1>1. /\ left.saves > 0 /\ left' = [left EXCEPT !.saves = @ - 1]
      /\ save' = [save EXCEPT !.stage = "posted", !.id = left.saves]
      /\ surface' = [surface EXCEPT !.busy = "save", !.focus = "none"]
      /\ rev' = rev + 1 /\ store' = store /\ UNCHANGED <<fetch, loop, ota, dev>>
  BY DEF StartSave
<1>2. left' \in [ events : Nat, saves : Nat ]
  BY <1>0, <1>1
<1>3. save' \in [ stage : {"idle", "posted", "confirm"}, id : Nat, confirmed : Nat ]
      /\ save'.confirmed = save.confirmed
  BY <1>0, <1>1
<1>4. surface' \in Faces /\ surface'.native = surface.native
  BY <1>0, <1>1 DEF Faces
<1> QED BY <1>0, <1>1, <1>2, <1>3, <1>4, NewRevision

LEMMA EndSaveKeeps ==
  ASSUME SyncInv, NEW confirmed \in Nat, NEW clock \in Nat, EndSave(confirmed, clock),
         confirmed <= dev.clock, confirmed <= clock
  PROVE  SyncInv'
<1>0. /\ surface \in Faces /\ left \in [ events : Nat, saves : Nat ]
      /\ save \in [ stage : {"idle", "posted", "confirm"}, id : Nat, confirmed : Nat ]
      /\ store \in [ clock : Nat, mode : Nat, loaded : BOOLEAN ]
  BY DEF SyncInv, SyncShape
<1>1. /\ store' = [store EXCEPT !.clock = clock] /\ left' = left
      /\ save' = [save EXCEPT !.stage = "idle", !.confirmed = confirmed]
      /\ surface' = [surface EXCEPT !.busy = IF @ = "save" THEN "" ELSE @]
      /\ rev' = rev + 1 /\ UNCHANGED <<fetch, loop, ota, dev>>
  BY DEF EndSave
<1>2. store' \in [ clock : Nat, mode : Nat, loaded : BOOLEAN ] /\ store'.clock = clock
  BY <1>0, <1>1
<1>3. save' \in [ stage : {"idle", "posted", "confirm"}, id : Nat, confirmed : Nat ]
      /\ save'.confirmed = confirmed
  BY <1>0, <1>1
<1>4. surface' \in Faces /\ surface'.native = surface.native
  BY <1>0, <1>1 DEF Faces
<1> QED BY <1>0, <1>1, <1>2, <1>3, <1>4, NewRevision

LEMMA SaveFailsKeeps == ASSUME SyncInv, SaveFails PROVE SyncInv'
<1>1. /\ EndSave(save.confirmed, store.clock) /\ save.confirmed \in Nat /\ store.clock \in Nat
      /\ save.confirmed <= dev.clock /\ save.confirmed <= store.clock
  BY DEF SaveFails, SyncInv, SyncShape, Written
<1> QED BY <1>1, EndSaveKeeps

LEMMA ConfirmSaveKeeps == ASSUME SyncInv, ConfirmSave PROVE SyncInv'
<1> DEFINE now == IF dev.by = save.id THEN dev.clock ELSE save.confirmed
<1>1. EndSave(now, dev.clock)
  BY DEF ConfirmSave
<1>2. /\ now \in Nat /\ dev.clock \in Nat /\ now <= dev.clock
  BY DEF SyncInv, SyncShape, Written
<1> HIDE DEF now
<1> QED BY <1>1, <1>2, EndSaveKeeps

LEMMA PostAcknowledgedKeeps == ASSUME SyncInv, PostAcknowledged PROVE SyncInv'
<1>1. /\ save' = [save EXCEPT !.stage = "confirm"] /\ save.stage = "posted"
      /\ UNCHANGED <<surface, loop, fetch, store, rev, ota, dev, left>>
  BY DEF PostAcknowledged
<1>2. /\ save' \in [ stage : {"idle", "posted", "confirm"}, id : Nat, confirmed : Nat ]
      /\ save'.confirmed = save.confirmed /\ save'.stage = "confirm"
  BY <1>1 DEF SyncInv, SyncShape
<1>3. SyncShape'
  BY <1>1, <1>2 DEF SyncInv, SyncShape
<1>4. PrimeIsFree' /\ PollingAlive' /\ Written'
  BY <1>1, <1>2 DEF SyncInv, PrimeIsFree, PollingAlive, Written
<1> QED BY <1>3, <1>4 DEF SyncInv

(* The device's own changes make nothing older.                            *)
LEMMA DeviceKeeps ==
  ASSUME SyncInv, UNCHANGED <<surface, loop, fetch, store, rev, save, ota>>,
         dev' \in [ clock : Nat, mode : Nat, by : Nat ], dev'.clock >= dev.clock,
         left' \in [ events : Nat, saves : Nat ]
  PROVE  SyncInv'
<1>1. SyncShape'
  BY DEF SyncInv, SyncShape
<1>2. PrimeIsFree' /\ PollingAlive'
  BY DEF SyncInv, PrimeIsFree, PollingAlive
<1>3. Written'
  BY DEF SyncInv, SyncShape, Written
<1> QED BY <1>1, <1>2, <1>3 DEF SyncInv

LEMMA ApplySaveKeeps == ASSUME SyncInv, wire \subseteq Nat, NEW i \in wire, ApplySave(i) PROVE SyncInv'
<1>0. i \in Nat /\ dev \in [ clock : Nat, mode : Nat, by : Nat ] /\ left \in [ events : Nat, saves : Nat ]
  BY DEF SyncInv, SyncShape
<1>1. /\ dev' = [dev EXCEPT !.clock = @ + 1, !.by = i] /\ left' = left
      /\ UNCHANGED <<surface, loop, fetch, store, rev, save, ota>>
  BY DEF ApplySave
<1>2. dev.clock \in Nat /\ dev.clock + 1 \in Nat /\ dev.clock + 1 >= dev.clock
  BY <1>0
<1>3. dev' \in [ clock : Nat, mode : Nat, by : Nat ] /\ dev'.clock = dev.clock + 1
  BY <1>0, <1>1, <1>2
<1> QED BY <1>0, <1>1, <1>2, <1>3, DeviceKeeps

LEMMA DeviceChangesKeeps == ASSUME SyncInv, DeviceChanges PROVE SyncInv'
<1>0. dev \in [ clock : Nat, mode : Nat, by : Nat ] /\ left \in [ events : Nat, saves : Nat ]
  BY DEF SyncInv, SyncShape
<1>1. /\ dev' = [dev EXCEPT !.mode = @ + 1] /\ left.events > 0 /\ left' = [left EXCEPT !.events = @ - 1]
      /\ UNCHANGED <<surface, loop, fetch, store, rev, save, ota>>
  BY DEF DeviceChanges
<1>2. dev' \in [ clock : Nat, mode : Nat, by : Nat ] /\ dev'.clock >= dev.clock
  BY <1>0, <1>1
<1>3. left' \in [ events : Nat, saves : Nat ]
  BY <1>0, <1>1
<1> QED BY <1>1, <1>2, <1>3, DeviceKeeps

-----------------------------------------------------------------------------
(* What the user does, and an update.                                      *)
LEMMA GestureTyped ==
  ASSUME SyncInv, NEW s, Gesture(s)
  PROVE  surface' = s /\ left' \in [ events : Nat, saves : Nat ]
BY DEF Gesture, SyncInv, SyncShape

(* Steps that touch neither polling nor a refresh, nor leave the app.      *)
LEMMA SurfaceKeeps ==
  ASSUME SyncInv, UNCHANGED <<loop, fetch, store, rev, save, ota, dev>>, surface' \in Faces,
         surface'.native = surface.native, left' \in [ events : Nat, saves : Nat ]
  PROVE  SyncInv'
<1>1. loop \in Loops /\ ota \in [ install : BOOLEAN, quiet : BOOLEAN ]
  BY DEF SyncInv, SyncShape
<1> QED BY <1>1, LoopKeeps

LEMMA UserKeeps ==
  ASSUME SyncInv, \/ Focus \/ Blur \/ Hold \/ Release \/ OpenOverlay \/ CloseOverlay \/ Command \/ CommandEnds
  PROVE  SyncInv'
<1>0. surface \in Faces /\ left \in [ events : Nat, saves : Nat ]
  BY DEF SyncInv, SyncShape
<1>1. CASE Focus
  <2>1. PICK what \in {"field", "button"} : Gesture([surface EXCEPT !.focus = what])
    BY <1>1 DEF Focus
  <2>0. surface' = [surface EXCEPT !.focus = what] /\ left' \in [ events : Nat, saves : Nat ]
    BY <2>1, GestureTyped
  <2>2. surface' \in Faces /\ surface'.native = surface.native
    BY <1>0, <2>0 DEF Faces
  <2>3. UNCHANGED <<loop, fetch, store, rev, save, ota, dev>>
    BY <1>1 DEF Focus
  <2> QED BY <2>0, <2>2, <2>3, SurfaceKeeps
<1>2. CASE Blur \/ Release \/ CloseOverlay \/ CommandEnds
  <2>1. UNCHANGED <<loop, fetch, store, rev, save, ota, dev, left>>
    BY <1>2 DEF Blur, Release, CloseOverlay, CommandEnds
  <2>2. surface' \in Faces /\ surface'.native = surface.native
    BY <1>0, <1>2 DEF Blur, Release, CloseOverlay, CommandEnds, Faces
  <2> QED BY <1>0, <2>1, <2>2, SurfaceKeeps
<1>3. CASE Hold \/ OpenOverlay \/ Command
  <2>1. UNCHANGED <<loop, fetch, store, rev, save, ota, dev>>
    BY <1>3 DEF Hold, OpenOverlay, Command
  <2>2. Gesture(surface') /\ surface' \in Faces /\ surface'.native = surface.native
    BY <1>0, <1>3 DEF Hold, OpenOverlay, Command, Gesture, Faces
  <2> QED BY <2>1, <2>2, GestureTyped, SurfaceKeeps
<1> QED BY <1>1, <1>2, <1>3

LEMMA SwitchViewKeeps == ASSUME SyncInv, SwitchView PROVE SyncInv'
<1>0. surface \in Faces /\ loop \in Loops /\ FALSE \in BOOLEAN
  BY DEF SyncInv, SyncShape
<1>1. PICK v \in Views : /\ Gesture([surface EXCEPT !.view = v])
                         /\ SyncEntities({"fast"}, FALSE, loop, [surface EXCEPT !.view = v], fetch)
                         /\ UNCHANGED <<store, rev, save, ota, dev>>
  BY DEF SwitchView
<1> DEFINE s == [surface EXCEPT !.view = v]
<1>2. s \in Faces /\ s.native = surface.native
  BY <1>0 DEF Faces
<1> HIDE DEF s
<1>3. Gesture(s) /\ SyncEntities({"fast"}, FALSE, loop, s, fetch)
  BY <1>1 DEF s
<1>4. surface' = s /\ left' \in [ events : Nat, saves : Nat ]
  BY <1>3, GestureTyped
<1> QED BY <1>0, <1>1, <1>2, <1>3, <1>4, OptsTyped, SyncKeeps

LEMMA OpenNativeKeeps == ASSUME SyncInv, OpenNative PROVE SyncInv'
<1>0. surface \in Faces /\ loop \in Loops /\ ota \in [ install : BOOLEAN, quiet : BOOLEAN ]
  BY DEF SyncInv, SyncShape
<1>1. Gesture([surface EXCEPT !.native = TRUE, !.overlay = FALSE]) /\ loop' = [loop EXCEPT !.poll = FALSE]
      /\ UNCHANGED <<fetch, store, rev, save, ota, dev>>
  BY DEF OpenNative
<1>a. surface' = [surface EXCEPT !.native = TRUE, !.overlay = FALSE]
      /\ left' \in [ events : Nat, saves : Nat ]
  BY <1>1, GestureTyped
<1>2. surface' \in Faces /\ surface'.native = TRUE
  BY <1>0, <1>a DEF Faces
<1>3. loop' \in Loops
  BY <1>0, <1>1 DEF Loops
<1> QED BY <1>0, <1>1, <1>a, <1>2, <1>3, LoopKeeps

LEMMA CloseNativeKeeps == ASSUME SyncInv, CloseNative PROVE SyncInv'
<1> DEFINE l == Arm(loop, surface', ota)
<1>0. surface \in Faces /\ loop \in Loops /\ ota \in [ install : BOOLEAN, quiet : BOOLEAN ]
      /\ left \in [ events : Nat, saves : Nat ] /\ FALSE \in BOOLEAN
  BY DEF SyncInv, SyncShape
<1>1. surface' = [surface EXCEPT !.native = FALSE] /\ left' = left
      /\ UNCHANGED <<store, rev, save, ota, dev>>
  BY DEF CloseNative
<1>2. surface' \in Faces /\ surface'.native = FALSE
  BY <1>0, <1>1 DEF Faces
<1>3. l \in Loops /\ (loop.poll => l.poll) /\ (l.poll \/ surface'.native \/ OtaBusy(ota))
  BY <1>0, <1>2, ArmArms
<1>4. IF store.loaded THEN SyncEntities({"fast"}, FALSE, l, surface', fetch)
      ELSE \E f \in 1 .. Fetches :
             /\ Idle(f, fetch) /\ Begin(f, fetch, "prime", {}, FALSE, "sent")
             /\ loop' = [l EXCEPT !.loading = TRUE]
  BY DEF CloseNative
<1> HIDE DEF l
<1>5. CASE store.loaded
  <2>1. SyncEntities({"fast"}, FALSE, l, surface', fetch)
    BY <1>4, <1>5
  <2> DEFINE s == [surface EXCEPT !.native = FALSE]
  <2>2. s = surface'
    BY <1>1
  <2> HIDE DEF s
  <2>3. s \in Faces /\ SyncEntities({"fast"}, FALSE, l, s, fetch) /\ s.native = FALSE
    BY <1>2, <2>1, <2>2
  <2> QED BY <1>0, <1>1, <1>2, <1>3, <2>2, <2>3, OptsTyped, SyncKeeps
<1>6. CASE ~store.loaded
  <2>1. PICK f \in 1 .. Fetches : /\ Idle(f, fetch) /\ Begin(f, fetch, "prime", {}, FALSE, "sent")
                                  /\ loop' = [l EXCEPT !.loading = TRUE]
    BY <1>4, <1>6
  <2>2. loop' \in Loops /\ loop'.poll = l.poll
    BY <1>3, <2>1 DEF Loops
  <2> QED BY <1>0, <1>1, <1>2, <1>3, <2>1, <2>2, BeginKeeps
<1> QED BY <1>5, <1>6

LEMMA HideKeeps == ASSUME SyncInv, Hide PROVE SyncInv'
<1>0. surface \in Faces /\ loop \in Loops /\ ota \in [ install : BOOLEAN, quiet : BOOLEAN ]
  BY DEF SyncInv, SyncShape
<1>1. Gesture([surface EXCEPT !.hidden = TRUE]) /\ UNCHANGED <<fetch, store, rev, save, ota, dev>>
      /\ loop' = Arm([loop EXCEPT !.poll = FALSE], surface', ota)
  BY DEF Hide
<1>a. surface' = [surface EXCEPT !.hidden = TRUE] /\ left' \in [ events : Nat, saves : Nat ]
  BY <1>1, GestureTyped
<1>2. surface' \in Faces
  BY <1>0, <1>a DEF Faces
<1>3. [loop EXCEPT !.poll = FALSE] \in Loops
  BY <1>0 DEF Loops
<1>4. loop' \in Loops /\ (loop'.poll \/ surface'.native \/ OtaBusy(ota))
  BY <1>0, <1>1, <1>2, <1>3, ArmArms
<1> QED BY <1>0, <1>1, <1>a, <1>2, <1>4, LoopKeeps

LEMMA RevealKeeps == ASSUME SyncInv, Reveal PROVE SyncInv'
<1> DEFINE s == [surface EXCEPT !.hidden = FALSE]
           l == Arm([loop EXCEPT !.poll = FALSE], s, ota)
<1>0. surface \in Faces /\ loop \in Loops /\ ota \in [ install : BOOLEAN, quiet : BOOLEAN ]
      /\ left \in [ events : Nat, saves : Nat ] /\ FALSE \in BOOLEAN
  BY DEF SyncInv, SyncShape
<1>1. surface' = s /\ left' = left /\ UNCHANGED <<store, rev, save, ota, dev>>
      /\ SyncEntities({}, FALSE, l, s, fetch)
  BY DEF Reveal
<1>2. s \in Faces /\ s.native = surface.native
  BY <1>0 DEF Faces
<1> HIDE DEF s
<1>3. [loop EXCEPT !.poll = FALSE] \in Loops
  BY <1>0 DEF Loops
<1>4. l \in Loops /\ (l.poll \/ s.native \/ OtaBusy(ota))
  BY <1>0, <1>2, <1>3, ArmArms
<1> HIDE DEF l
<1> QED BY <1>0, <1>1, <1>2, <1>4, OptsTyped, SyncKeeps

LEMMA OtaKeeps == ASSUME SyncInv, OtaStep PROVE SyncInv'
<1>0. surface \in Faces /\ loop \in Loops /\ ota \in [ install : BOOLEAN, quiet : BOOLEAN ]
      /\ left \in [ events : Nat, saves : Nat ]
  BY DEF SyncInv, SyncShape
<1>1. CASE BeginInstall
  <2>1. Gesture(surface) /\ ota' = [ota EXCEPT !.install = TRUE]
        /\ UNCHANGED <<loop, fetch, store, rev, save, dev>>
    BY <1>1 DEF BeginInstall
  <2>2. surface' \in Faces /\ left' \in [ events : Nat, saves : Nat ]
    BY <1>0, <2>1, GestureTyped
  <2>3. ota' \in [ install : BOOLEAN, quiet : BOOLEAN ] /\ OtaBusy(ota')
    BY <1>0, <2>1 DEF OtaBusy
  <2> QED BY <1>0, <2>1, <2>2, <2>3, LoopKeeps
<1>2. CASE BeginQuiet
  <2>1. /\ ota' = [ota EXCEPT !.quiet = TRUE] /\ loop' = [loop EXCEPT !.poll = FALSE, !.pending = NoOpts]
        /\ UNCHANGED <<surface, fetch, store, rev, save, dev, left>>
    BY <1>2 DEF BeginQuiet
  <2>2. ota' \in [ install : BOOLEAN, quiet : BOOLEAN ] /\ OtaBusy(ota')
    BY <1>0, <2>1 DEF OtaBusy
  <2>3. loop' \in Loops
    BY <1>0, <2>1 DEF Loops
  <2> QED BY <1>0, <2>1, <2>2, <2>3, LoopKeeps
<1>3. CASE QuietTimer \/ ResetInstall
  <2>0. /\ loop' = Arm(loop, surface, ota') /\ UNCHANGED <<surface, fetch, store, rev, save, dev, left>>
        /\ ota' = [ota EXCEPT !.quiet = FALSE] \/ ota' = [install |-> FALSE, quiet |-> FALSE]
    BY <1>3 DEF QuietTimer, ResetInstall
  <2>1. /\ loop' = Arm(loop, surface, ota') /\ UNCHANGED <<surface, fetch, store, rev, save, dev, left>>
        /\ ota' \in [ install : BOOLEAN, quiet : BOOLEAN ]
    <3>1. [ota EXCEPT !.quiet = FALSE] \in [ install : BOOLEAN, quiet : BOOLEAN ]
      BY <1>0
    <3>2. [install |-> FALSE, quiet |-> FALSE] \in [ install : BOOLEAN, quiet : BOOLEAN ]
      OBVIOUS
    <3> QED BY <2>0, <3>1, <3>2
  <2>2. loop' \in Loops /\ (loop'.poll \/ surface.native \/ OtaBusy(ota'))
    BY <1>0, <2>1, ArmArms
  <2> QED BY <1>0, <2>1, <2>2, LoopKeeps
<1> QED BY <1>1, <1>2, <1>3 DEF OtaStep

LEMMA SyncStart == Init => SyncInv /\ wire \subseteq Nat
<1> SUFFICES ASSUME Init PROVE SyncInv /\ wire \subseteq Nat
  OBVIOUS
<1>1. surface \in Faces /\ store = [ clock |-> 0, mode |-> 0, loaded |-> FALSE ] /\ wire = {}
  BY DEF Init, Faces
<1>2. loop \in Loops /\ loop.poll = TRUE
  BY DEF Init, Loops, Opts, NoOpts, Timers
<1>3. [Quiet EXCEPT !.stage = "sent", !.task = "prime"] \in Refreshes
  BY QuietTyped DEF Refreshes, Tasks
<1>4. fetch \in [1 .. Fetches -> Refreshes]
  BY <1>3, QuietTyped DEF Init
<1>5. \A f \in 1 .. Fetches : fetch[f].chained = FALSE /\ fetch[f].rev = 0 /\ fetch[f].stage # "answered"
  <2> SUFFICES ASSUME NEW f \in 1 .. Fetches
               PROVE  fetch[f].chained = FALSE /\ fetch[f].rev = 0 /\ fetch[f].stage # "answered"
    OBVIOUS
  <2>1. fetch[f] = Quiet \/ fetch[f] = [Quiet EXCEPT !.stage = "sent", !.task = "prime"]
    BY DEF Init
  <2> QED BY <2>1, QuietTyped DEF Quiet
<1>6. rev = 0 /\ save = [ stage |-> "idle", id |-> 0, confirmed |-> 0 ]
      /\ ota = [ install |-> FALSE, quiet |-> FALSE ] /\ dev = [ clock |-> 1, mode |-> 1, by |-> 0 ]
      /\ left = [ events |-> MaxEvents, saves |-> MaxSaves ] /\ MaxEvents \in Nat /\ MaxSaves \in Nat
  BY SyncAssumption DEF Init
<1>7. SyncShape
  BY <1>1, <1>2, <1>4, <1>6 DEF SyncShape
<1>8. PrimeIsFree /\ PollingAlive
  BY <1>2, <1>5 DEF PrimeIsFree, PollingAlive
<1>9. Written
  BY <1>1, <1>5, <1>6 DEF Written
<1> QED BY <1>1, <1>7, <1>8, <1>9 DEF SyncInv

LEMMA WirePosted == ASSUME SyncInv, wire \subseteq Nat, [Next]_vars PROVE wire' \subseteq Nat
<1>1. left.saves \in Nat
  BY DEF SyncInv, SyncShape
<1>2. ASSUME NEW f \in 1 .. Fetches, FetchStep(f) PROVE wire' = wire
  BY <1>2 DEF FetchStep, ProbeOk, ProbeFails, Answer, MergeAnswer, RequestFails, EndSync
<1>3. ASSUME TimerStep \/ PollFires PROVE wire' = wire
  BY <1>3 DEF TimerStep, PollFires, BulkTimer, DeferredTimer, SupplementaryTimer, PrefetchTimer
<1>4. ASSUME UserStep PROVE wire' = wire
  BY <1>4 DEF UserStep, Focus, Blur, Hold, Release, OpenOverlay, CloseOverlay, Command, CommandEnds,
     SwitchView, OpenNative, CloseNative, Hide, Reveal
<1>5. ASSUME OtaStep \/ DeviceChanges PROVE wire' = wire
  BY <1>5 DEF OtaStep, BeginInstall, BeginQuiet, QuietTimer, ResetInstall, DeviceChanges
<1>6. ASSUME SaveStep PROVE wire' \subseteq wire \cup {left.saves}
  BY <1>6 DEF SaveStep, StartSave, PostAcknowledged, SaveFails, ConfirmSave, EndSave, ApplySave
<1>7. ASSUME UNCHANGED vars PROVE wire' = wire
  BY <1>7 DEF vars
<1> QED BY <1>1, <1>2, <1>3, <1>4, <1>5, <1>6, <1>7 DEF Next

LEMMA SyncStep == ASSUME SyncInv, wire \subseteq Nat, [Next]_vars PROVE SyncInv'
<1>1. ASSUME NEW f \in 1 .. Fetches, FetchStep(f) PROVE SyncInv'
  BY <1>1, ProbeOkKeeps, ProbeFailsKeeps, AnswerKeeps, MergeAnswerKeeps, RequestFailsKeeps, EndSyncKeeps
     DEF FetchStep
<1>2. CASE TimerStep
  BY <1>2, BulkTimerKeeps, DeferredTimerKeeps, SupplementaryTimerKeeps, PrefetchTimerKeeps DEF TimerStep
<1>3. CASE SaveStep
  BY <1>3, StartSaveKeeps, PostAcknowledgedKeeps, SaveFailsKeeps, ConfirmSaveKeeps, ApplySaveKeeps
     DEF SaveStep
<1>4. CASE UserStep
  BY <1>4, UserKeeps, SwitchViewKeeps, OpenNativeKeeps, CloseNativeKeeps, HideKeeps, RevealKeeps DEF UserStep
<1>5. CASE UNCHANGED vars
  BY <1>5 DEF vars, SyncInv, SyncShape, PrimeIsFree, PollingAlive, Written
<1> QED BY <1>1, <1>2, <1>3, <1>4, <1>5, PollFiresKeeps, OtaKeeps, DeviceChangesKeeps DEF Next

(* While the app's own surface is open the next poll is always on its way. *)
THEOREM PollingStaysAlive == WebSpec => []PollingAlive
<1> DEFINE Inv == SyncInv /\ wire \subseteq Nat
<1>1. WebInit => Inv
  BY SyncStart DEF WebInit
<1>2. Inv /\ [WebNext]_web => Inv'
  <2> SUFFICES ASSUME Inv, [WebNext]_web PROVE Inv'
    OBVIOUS
  <2>1. [Next]_vars
    BY DEF WebNext, web
  <2> QED BY <2>1, SyncStep, WirePosted
<1>3. Inv => PollingAlive
  BY DEF SyncInv
<1> QED BY <1>1, <1>2, <1>3, PTL DEF WebSpec

(* A time once confirmed is never undone on the page.                      *)
THEOREM ConfirmedTimesStay == WebSpec => []ConfirmedTimeStays
<1> DEFINE Inv == SyncInv /\ wire \subseteq Nat
<1>1. WebInit => Inv
  BY SyncStart DEF WebInit
<1>2. Inv /\ [WebNext]_web => Inv'
  <2> SUFFICES ASSUME Inv, [WebNext]_web PROVE Inv'
    OBVIOUS
  <2>1. [Next]_vars
    BY DEF WebNext, web
  <2> QED BY <2>1, SyncStep, WirePosted
<1>3. Inv => ConfirmedTimeStays
  BY ConfirmedNow DEF ConfirmedTimeStays
<1> QED BY <1>1, <1>2, <1>3, PTL DEF WebSpec

-----------------------------------------------------------------------------
(***************************************************************************)
(* Part 2: a confirmation of an incident                                   *)
(***************************************************************************)
Stages   == {"idle", "first", "second", "csrf", "third", "check"}
Outcomes == Seq([ id : Incident!Ids, ok : BOOLEAN ])
Asks == [ id : 0 .. MaxIds, stage : Stages, pending : BOOLEAN,
          ok : {"open", "done", "failed", "refused"}, tries : Nat, joined : BOOLEAN, lost : BOOLEAN ]
Requests == [ id : Incident!Ids, token : Nat ]
Rigs     == [ boot : Nat \ {0}, slot : 0 .. MaxIds, results : Outcomes ]
Looks    == [ stage : {"idle", "sent", "read"}, boot : Nat, results : Outcomes ]
Marks    == [ boots : SUBSET Nat, twice : BOOLEAN, ok : BOOLEAN ]

IncidentShape ==
  /\ ask \in Asks /\ late \subseteq Requests /\ rig \in Rigs /\ known \in Nat /\ lookup \in Looks
  /\ ran \in [Incident!Ids -> Marks] /\ ids \in 1 .. MaxIds + 1
  /\ ask.joined => ask.stage \in {"csrf", "check"}

(* What ran in this boot is among its results; what is pending is not.     *)
Executed ==
  /\ \A i \in Incident!Ids : /\ ran[i].twice = FALSE /\ ran[i].boots \subseteq 1 .. rig.boot
                             /\ rig.boot \in ran[i].boots => Incident!Has(rig.results, i)
  /\ rig.slot # 0 => ~Incident!Has(rig.results, rig.slot)

(* A result that says it went well is of an action that did.               *)
GoodRan(results) == \A k \in DOMAIN results : results[k].ok => ran[results[k].id].ok
Reported == GoodRan(rig.results) /\ GoodRan(lookup.results)
            /\ (ask.ok = "done" => ask.id # 0 /\ ran[ask.id].ok)

(* A number that is not given out yet is nowhere.                          *)
Fresh ==
  /\ ask.id < ids /\ rig.slot < ids /\ \A p \in late : p.id < ids
  /\ \A i \in Incident!Ids : i >= ids => ran[i].boots = {}

(* As long as no attempt was lost, a confirmation that is not accepted has *)
(* left no trace on the device.                                            *)
Unaccepted == (Incident!Posting \/ ask.stage = "csrf" \/ ask.ok = "refused") /\ ask.lost = FALSE
NoTrace    == /\ ask.id # 0 /\ ran[ask.id].boots = {} /\ rig.slot # ask.id
              /\ \A p \in late : p.id # ask.id
Untouched  == Unaccepted => NoTrace

IncidentInv == IncidentShape /\ Executed /\ Reported /\ Fresh /\ Untouched

LEMMA IdsNumbers == Incident!Ids = 1 .. MaxIds /\ MaxIds \in Nat
BY WebAssumption DEF Incident!Ids

(* A request that is taken fills the free place with an id of which there  *)
(* is no result; any other changes nothing.                                *)
LEMMA AfterTakes ==
  ASSUME IncidentInv, NEW id \in Incident!Ids, NEW token \in Nat
  PROVE  /\ Incident!After(id, token) \in Rigs
         /\ \/ Incident!After(id, token) = rig
            \/ /\ Incident!After(id, token) = [rig EXCEPT !.slot = id]
               /\ ~Incident!Has(rig.results, id)
               /\ Incident!Reply(id, token) = "accepted"
<1>1. rig \in Rigs
  BY DEF IncidentInv, IncidentShape
<1>2. [rig EXCEPT !.slot = id] \in Rigs
  BY <1>1, IdsNumbers DEF Rigs
<1>3. Incident!Reply(id, token) = "accepted" => ~Incident!Has(rig.results, id)
  BY DEF Incident!Reply
<1> QED BY <1>1, <1>2, <1>3 DEF Incident!After

(* What a taken request leaves alone.                                      *)
LEMMA TakingKeeps ==
  ASSUME IncidentInv, NEW id \in Incident!Ids, NEW token \in Nat, rig' = Incident!After(id, token),
         id < ids', ids' \in 1 .. MaxIds + 1, ids <= ids', ran' = ran, lookup' = lookup
  PROVE  /\ rig' \in Rigs /\ Executed' /\ GoodRan(rig.results)' /\ GoodRan(lookup.results)'
         /\ rig'.slot < ids' /\ \A i \in Incident!Ids : i >= ids' => ran'[i].boots = {}
         /\ rig'.slot \in {rig.slot, id} /\ rig'.boot = rig.boot
<1>1. /\ rig' \in Rigs
      /\ \/ rig' = rig
         \/ rig' = [rig EXCEPT !.slot = id] /\ ~Incident!Has(rig.results, id)
  BY AfterTakes
<1>2. rig \in Rigs
  BY DEF IncidentInv, IncidentShape
<1>3. rig'.results = rig.results /\ rig'.boot = rig.boot
  BY <1>1, <1>2 DEF Rigs
<1>4. rig'.slot = rig.slot \/ (rig'.slot = id /\ ~Incident!Has(rig.results, id))
  BY <1>1, <1>2 DEF Rigs
<1>5. Executed'
  BY <1>3, <1>4 DEF IncidentInv, Executed
<1>6. GoodRan(rig.results)' /\ GoodRan(lookup.results)'
  BY <1>3 DEF IncidentInv, Reported, GoodRan
<1>7. rig'.slot < ids' /\ \A i \in Incident!Ids : i >= ids' => ran'[i].boots = {}
  BY <1>2, <1>4, IdsNumbers DEF IncidentInv, IncidentShape, Fresh, Rigs
<1> QED BY <1>1, <1>3, <1>4, <1>5, <1>6, <1>7

LEMMA OutcomeIds ==
  ASSUME NEW results \in Outcomes, NEW k \in DOMAIN results PROVE results[k].id \in Incident!Ids
<1> DEFINE O == [ id : Incident!Ids, ok : BOOLEAN ]
<1>1. \A o \in O : o.id \in Incident!Ids
  OBVIOUS
<1>2. results \in Seq(O)
  BY DEF Outcomes
<1> HIDE DEF O
<1>3. results[k] \in O
  BY <1>2
<1> QED BY <1>1, <1>3

LEMMA AppendedResult ==
  ASSUME NEW results \in Outcomes, NEW r \in [ id : Incident!Ids, ok : BOOLEAN ]
  PROVE  /\ Append(results, r) \in Outcomes
         /\ \A i : Incident!Has(Append(results, r), i) <=> Incident!Has(results, i) \/ r.id = i
         /\ \A k \in DOMAIN Append(results, r) :
              (k \in DOMAIN results /\ Append(results, r)[k] = results[k]) \/ Append(results, r)[k] = r
<1> DEFINE more == Append(results, r)
<1>1. /\ more \in Outcomes /\ DOMAIN more = 1 .. Len(results) + 1 /\ Len(results) \in Nat
      /\ DOMAIN results = 1 .. Len(results)
      /\ \A k \in 1 .. Len(results) : more[k] = results[k]
      /\ more[Len(results) + 1] = r
  BY DEF Outcomes
<1> HIDE DEF more
<1>2. ASSUME NEW i PROVE Incident!Has(more, i) <=> Incident!Has(results, i) \/ r.id = i
  <2>1. ASSUME Incident!Has(more, i) PROVE Incident!Has(results, i) \/ r.id = i
    BY <1>1, <2>1 DEF Incident!Has
  <2>2. ASSUME Incident!Has(results, i) PROVE Incident!Has(more, i)
    BY <1>1, <2>2 DEF Incident!Has
  <2>3. ASSUME r.id = i PROVE Incident!Has(more, i)
    <3>1. Len(results) + 1 \in DOMAIN more /\ more[Len(results) + 1].id = i
      BY <1>1, <2>3
    <3> QED BY <3>1 DEF Incident!Has
  <2> QED BY <2>1, <2>2, <2>3
<1>3. \A k \in DOMAIN more : (k \in DOMAIN results /\ more[k] = results[k]) \/ more[k] = r
  BY <1>1
<1> QED BY <1>1, <1>2, <1>3 DEF more

(* The action that is pending has no result yet, so in this boot it never  *)
(* ran.                                                                    *)
LEMMA ExecuteOnce == ASSUME IncidentInv, Incident!Execute PROVE IncidentInv'
<1>1. PICK ok \in BOOLEAN, cancelled \in BOOLEAN :
        /\ cancelled => ~ok
        /\ rig' = [rig EXCEPT !.slot = 0, !.results = Append(@, [ id |-> rig.slot, ok |-> ok ])]
        /\ ran' = IF cancelled THEN ran
                  ELSE [ran EXCEPT ![rig.slot].boots = @ \cup {rig.boot},
                                   ![rig.slot].twice = @ \/ rig.boot \in ran[rig.slot].boots,
                                   ![rig.slot].ok = @ \/ ok]
  BY DEF Incident!Execute
<1>2. rig.slot # 0 /\ UNCHANGED <<ask, late, known, lookup, ids>>
  BY DEF Incident!Execute
<1>3. /\ rig \in Rigs /\ rig.slot \in Incident!Ids /\ rig.results \in Outcomes /\ rig.boot \in Nat
      /\ rig.boot >= 1 /\ ran \in [Incident!Ids -> Marks] /\ lookup \in Looks /\ lookup.results \in Outcomes
      /\ ask \in Asks
  BY <1>2, IdsNumbers DEF IncidentInv, IncidentShape, Rigs, Looks
<1> DEFINE s == rig.slot
           r == [ id |-> s, ok |-> ok ]
<1>4. r \in [ id : Incident!Ids, ok : BOOLEAN ] /\ r.id = s /\ r.ok = ok
  BY <1>3
<1> HIDE DEF r
<1>5. rig' = [rig EXCEPT !.slot = 0, !.results = Append(rig.results, r)]
  BY <1>1, <1>3 DEF Rigs, r
<1> DEFINE more == Append(rig.results, r)
<1>6. /\ more \in Outcomes
      /\ \A i : Incident!Has(more, i) <=> Incident!Has(rig.results, i) \/ s = i
      /\ \A k \in DOMAIN more : (k \in DOMAIN rig.results /\ more[k] = rig.results[k]) \/ more[k] = r
  BY <1>3, <1>4, AppendedResult
<1> HIDE DEF more
<1>7. rig'.slot = 0 /\ rig'.results = more /\ rig'.boot = rig.boot /\ rig' \in Rigs
  <2>1. rig' = [rig EXCEPT !.slot = 0, !.results = more]
    BY <1>5 DEF more
  <2>2. 0 \in 0 .. MaxIds
    BY IdsNumbers
  <2> QED BY <1>3, <1>6, <2>1, <2>2 DEF Rigs
<1>8. ~Incident!Has(rig.results, s) /\ rig.boot \notin ran[s].boots /\ ran[s].twice = FALSE
  BY <1>2, <1>3 DEF IncidentInv, Executed
<1>9. /\ ran' \in [Incident!Ids -> Marks]
      /\ \A i \in Incident!Ids : i # s => ran'[i] = ran[i]
      /\ ran'[s].twice = FALSE /\ ran'[s].boots \in {ran[s].boots, ran[s].boots \cup {rig.boot}}
      /\ ran[s].ok \/ ok => ran'[s].ok
  <2>1. CASE cancelled
    BY <1>1, <1>3, <1>8, <2>1
  <2>2. CASE ~cancelled
    <3> DEFINE mark == [ran[s] EXCEPT !.boots = @ \cup {rig.boot},
                          !.twice = @ \/ rig.boot \in ran[s].boots, !.ok = @ \/ ok]
    <3>1. ran[s] \in Marks
      BY <1>3
    <3>2. mark \in Marks /\ mark.twice = FALSE /\ mark.boots = ran[s].boots \cup {rig.boot}
          /\ (ran[s].ok \/ ok => mark.ok)
      BY <1>3, <1>8, <3>1 DEF Marks
    <3>3. ran' = [ran EXCEPT ![s] = mark]
      BY <1>1, <1>3, <2>2
    <3> HIDE DEF mark
    <3> QED BY <1>3, <3>2, <3>3
  <2> QED BY <2>1, <2>2
<1>10. IncidentShape'
  BY <1>2, <1>7, <1>9 DEF IncidentInv, IncidentShape
<1>11. Executed'
  <2>1. ASSUME NEW i \in Incident!Ids
        PROVE  /\ ran'[i].twice = FALSE /\ ran'[i].boots \subseteq 1 .. rig'.boot
               /\ rig'.boot \in ran'[i].boots => Incident!Has(rig'.results, i)
    BY <1>3, <1>6, <1>7, <1>9 DEF IncidentInv, Executed
  <2> QED BY <1>7, <2>1 DEF Executed
<1>12. Reported'
  <2>1. ASSUME NEW i \in Incident!Ids, ran[i].ok PROVE ran'[i].ok
    BY <1>9, <2>1
  <2>2. GoodRan(lookup.results)'
    <3>1. \A k \in DOMAIN lookup.results : lookup.results[k].id \in Incident!Ids
      BY <1>3, OutcomeIds
    <3> QED BY <1>2, <2>1, <3>1 DEF IncidentInv, Reported, GoodRan
  <2>3. GoodRan(rig.results)'
    <3>1. \A k \in DOMAIN rig.results : rig.results[k].id \in Incident!Ids
      BY <1>3, OutcomeIds
    <3>2. ASSUME NEW k \in DOMAIN more, more[k].ok PROVE ran'[more[k].id].ok
      <4>1. CASE more[k] = r
        BY <1>4, <1>9, <3>2, <4>1
      <4>2. CASE k \in DOMAIN rig.results /\ more[k] = rig.results[k]
        BY <2>1, <3>1, <3>2, <4>2 DEF IncidentInv, Reported, GoodRan
      <4> QED BY <1>6, <4>1, <4>2
    <3> QED BY <1>7, <3>2 DEF GoodRan
  <2>4. ask'.ok = "done" => ask'.id # 0 /\ ran'[ask'.id].ok
    BY <1>2, <1>3, <2>1, IdsNumbers DEF IncidentInv, Reported, Asks
  <2> QED BY <2>2, <2>3, <2>4 DEF Reported
<1>13. Fresh'
  BY <1>2, <1>3, <1>7, <1>9, IdsNumbers DEF IncidentInv, IncidentShape, Fresh
<1>14. Untouched'
  <2>1. ask.id \in Incident!Ids \/ ask.id = 0
    BY <1>3, IdsNumbers DEF Asks
  <2> QED BY <1>2, <1>7, <1>9, <2>1 DEF IncidentInv, Untouched, Unaccepted, NoTrace, Incident!Posting
<1> QED BY <1>10, <1>11, <1>12, <1>13, <1>14 DEF IncidentInv

(* What ran in an earlier boot did not run in this one.                    *)
LEMMA RestartForgets == ASSUME IncidentInv, Incident!Restart PROVE IncidentInv'
<1>1. /\ rig' = [ boot |-> rig.boot + 1, slot |-> 0, results |-> <<>> ]
      /\ UNCHANGED <<ask, late, known, lookup, ran, ids>>
  BY DEF Incident!Restart
<1>2. rig.boot \in Nat \ {0} /\ <<>> \in Outcomes
  BY DEF IncidentInv, IncidentShape, Rigs, Outcomes
<1>3. IncidentShape'
  BY <1>1, <1>2, IdsNumbers DEF IncidentInv, IncidentShape, Rigs
<1>4. Executed'
  <2>1. ASSUME NEW i \in Incident!Ids PROVE ran[i].boots \subseteq 1 .. rig'.boot /\ rig'.boot \notin ran[i].boots
    BY <1>1, <1>2 DEF IncidentInv, Executed
  <2> QED BY <1>1, <2>1 DEF IncidentInv, Executed
<1>5. Reported'
  BY <1>1 DEF IncidentInv, Reported, GoodRan
<1>6. Fresh'
  BY <1>1, IdsNumbers DEF IncidentInv, IncidentShape, Fresh
<1>7. Untouched'
  BY <1>1 DEF IncidentInv, Untouched, Unaccepted, NoTrace, Incident!Posting
<1> QED BY <1>3, <1>4, <1>5, <1>6, <1>7 DEF IncidentInv

LEMMA ArriveKeeps == ASSUME IncidentInv, Incident!Arrive PROVE IncidentInv'
<1>1. PICK p \in late : rig' = Incident!After(p.id, p.token)
  BY DEF Incident!Arrive
<1>2. UNCHANGED <<ask, late, known, lookup, ran, ids>>
  BY DEF Incident!Arrive
<1>3. p.id \in Incident!Ids /\ p.token \in Nat /\ p.id < ids /\ ids \in 1 .. MaxIds + 1 /\ ids <= ids'
      /\ ids' = ids
  BY <1>2, IdsNumbers DEF IncidentInv, IncidentShape, Requests, Fresh
<1>4. /\ rig' \in Rigs /\ Executed' /\ GoodRan(rig.results)' /\ GoodRan(lookup.results)'
      /\ rig'.slot < ids' /\ \A i \in Incident!Ids : i >= ids' => ran'[i].boots = {}
      /\ rig'.slot \in {rig.slot, p.id} /\ rig'.boot = rig.boot
  BY <1>1, <1>2, <1>3, TakingKeeps
<1>5. IncidentShape' /\ Reported' /\ Fresh'
  BY <1>2, <1>4 DEF IncidentInv, IncidentShape, Reported, Fresh
<1>6. Untouched'
  BY <1>2, <1>4 DEF IncidentInv, Untouched, Unaccepted, NoTrace, Incident!Posting
<1> QED BY <1>4, <1>5, <1>6 DEF IncidentInv

LEMMA RivalKeeps == ASSUME IncidentInv, Incident!Rival PROVE IncidentInv'
<1>1. /\ ids <= MaxIds /\ ids' = ids + 1 /\ rig' = Incident!After(ids, rig.boot)
      /\ UNCHANGED <<ask, late, known, lookup, ran>>
  BY DEF Incident!Rival
<1>2. ids \in Incident!Ids /\ rig.boot \in Nat /\ ids < ids' /\ ids' \in 1 .. MaxIds + 1 /\ ids <= ids'
  BY <1>1, IdsNumbers DEF IncidentInv, IncidentShape, Rigs
<1>3. /\ rig' \in Rigs /\ Executed' /\ GoodRan(rig.results)' /\ GoodRan(lookup.results)'
      /\ rig'.slot < ids' /\ \A i \in Incident!Ids : i >= ids' => ran'[i].boots = {}
      /\ rig'.slot \in {rig.slot, ids} /\ rig'.boot = rig.boot
  BY <1>1, <1>2, TakingKeeps
<1>4. IncidentShape' /\ Reported'
  BY <1>1, <1>2, <1>3 DEF IncidentInv, IncidentShape, Reported
<1>5. ask.id \in Nat /\ ask.id < ids /\ ids \in Nat /\ \A p \in late : p.id \in Nat /\ p.id < ids
  BY IdsNumbers DEF IncidentInv, IncidentShape, Fresh, Asks, Requests
<1>6. Fresh'
  BY <1>1, <1>3, <1>5 DEF Fresh
<1>7. Untouched'
  BY <1>1, <1>3, <1>5 DEF IncidentInv, Untouched, Unaccepted, NoTrace, Incident!Posting
<1> QED BY <1>3, <1>4, <1>6, <1>7 DEF IncidentInv

-----------------------------------------------------------------------------
(* A step of the page that sends nothing.                                  *)
LEMMA PageKeeps ==
  ASSUME IncidentInv, UNCHANGED <<late, rig, ran, ids>>, ask' \in Asks, known' \in Nat,
         lookup' \in Looks, GoodRan(lookup.results)', ask'.id \in {ask.id, 0},
         ask'.ok = "done" => ask'.id # 0 /\ ran[ask'.id].ok,
         Unaccepted' => Unaccepted /\ ask'.id = ask.id,
         ask'.joined => ask'.stage \in {"csrf", "check"}
  PROVE  IncidentInv'
<1>1. IncidentShape'
  BY DEF IncidentInv, IncidentShape
<1>2. Executed' /\ Reported'
  BY DEF IncidentInv, Executed, Reported, GoodRan
<1>3. Fresh'
  BY IdsNumbers DEF IncidentInv, IncidentShape, Fresh
<1>4. Untouched'
  BY DEF IncidentInv, Untouched, NoTrace
<1> QED BY <1>1, <1>2, <1>3, <1>4 DEF IncidentInv

LEMMA LooksTyped ==
  /\ Incident!NoLookup \in Looks
  /\ [Incident!NoLookup EXCEPT !.stage = "sent"] \in Looks
  /\ [Incident!NoLookup EXCEPT !.stage = "sent"].results = <<>> /\ Incident!NoLookup.results = <<>>
  /\ GoodRan(<<>>)
<1>1. <<>> \in Outcomes
  BY DEF Outcomes
<1> QED BY <1>1 DEF Incident!NoLookup, Looks, GoodRan

LEMMA NoAskTyped == Incident!NoAsk \in Asks /\ Incident!NoAsk.id = 0 /\ Incident!NoAsk.ok = "open"
                    /\ Incident!NoAsk.stage = "idle" /\ Incident!NoAsk.lost = FALSE
BY IdsNumbers DEF Incident!NoAsk, Asks, Stages

(* The last look's outcome, which the code takes over as it is.            *)
LEMMA JoinKeeps == ASSUME IncidentInv, Incident!Join PROVE IncidentInv'
<1>0. ask \in Asks /\ lookup \in Looks /\ known \in Nat
  BY DEF IncidentInv, IncidentShape
<1>1. /\ ask' = [ask EXCEPT !.joined = TRUE] /\ UNCHANGED <<late, rig, known, ran, ids>>
      /\ lookup' = lookup \/ lookup' = [Incident!NoLookup EXCEPT !.stage = "sent"]
  BY DEF Incident!Join
<1>2. /\ ask' \in Asks /\ ask'.id = ask.id /\ ask'.ok = ask.ok /\ ask'.stage = ask.stage
      /\ ask'.lost = ask.lost /\ ask.stage \in {"csrf", "check"}
  BY <1>0, <1>1 DEF Asks, Incident!Join
<1>3. lookup' \in Looks /\ GoodRan(lookup.results)'
  BY <1>0, <1>1, LooksTyped DEF IncidentInv, Reported, GoodRan
<1>4. Unaccepted' => Unaccepted
  BY <1>2 DEF Unaccepted, Incident!Posting
<1>5. ask'.ok = "done" => ask'.id # 0 /\ ran[ask'.id].ok
  BY <1>2 DEF IncidentInv, Reported
<1> QED BY <1>0, <1>1, <1>2, <1>3, <1>4, <1>5, PageKeeps

LEMMA LooksKeep == ASSUME IncidentInv, Incident!PollLooks \/ Incident!LookupRead PROVE IncidentInv'
<1>0. ask \in Asks /\ lookup \in Looks /\ known \in Nat /\ rig \in Rigs
  BY DEF IncidentInv, IncidentShape
<1>1. UNCHANGED <<ask, late, rig, known, ran, ids>>
  BY DEF Incident!PollLooks, Incident!LookupRead
<1>2. lookup' \in Looks /\ GoodRan(lookup.results)'
  <2>1. CASE Incident!PollLooks
    BY <2>1, LooksTyped, <1>1 DEF Incident!PollLooks, GoodRan
  <2>2. CASE Incident!LookupRead
    <3>1. lookup' = [ stage |-> "read", boot |-> rig.boot, results |-> rig.results ]
      BY <2>2 DEF Incident!LookupRead
    <3>2. lookup' \in Looks /\ lookup'.results = rig.results
      BY <1>0, <3>1 DEF Looks, Rigs
    <3> QED BY <1>1, <3>2 DEF IncidentInv, Reported, GoodRan
  <2> QED BY <2>1, <2>2
<1>3. Unaccepted' => Unaccepted
  BY <1>1 DEF Unaccepted, Incident!Posting
<1>4. ask'.ok = "done" => ask'.id # 0 /\ ran[ask'.id].ok
  BY <1>1 DEF IncidentInv, Reported
<1>5. ask'.joined => ask'.stage \in {"csrf", "check"}
  BY <1>1 DEF IncidentInv, IncidentShape
<1> QED BY <1>0, <1>1, <1>2, <1>3, <1>4, <1>5, PageKeeps

(* A look tells of an action only what the device did with it.             *)
LEMMA ResolvedTruly ==
  ASSUME IncidentInv, NEW results \in Outcomes, GoodRan(results)
  PROVE  LET a == Incident!Resolved(ask, results) IN
         /\ a \in Asks /\ a.id = ask.id /\ a.stage = ask.stage /\ a.lost = ask.lost
         /\ a.joined = ask.joined
         /\ a.ok \in {ask.ok, "done", "failed"}
         /\ a.ok = "done" => ask.id # 0 /\ ran[ask.id].ok
<1> DEFINE done == \E i \in DOMAIN results : results[i] = [ id |-> ask.id, ok |-> TRUE ]
           a == [ask EXCEPT !.pending = FALSE, !.ok = IF done THEN "done" ELSE "failed"]
<1>0. ask \in Asks
  BY DEF IncidentInv, IncidentShape
<1>1. Incident!Resolved(ask, results) = ask \/ Incident!Resolved(ask, results) = a
  BY DEF Incident!Resolved
<1>2. ask.ok = "done" => ask.id # 0 /\ ran[ask.id].ok
  BY DEF IncidentInv, Reported
<1>3. ASSUME done PROVE ask.id # 0 /\ ran[ask.id].ok
  <2>1. PICK k \in DOMAIN results : results[k] = [ id |-> ask.id, ok |-> TRUE ]
    BY <1>3
  <2>2. results[k].id = ask.id /\ results[k].ok = TRUE /\ results[k].id \in Incident!Ids
    BY <2>1, OutcomeIds
  <2> QED BY <2>2, IdsNumbers DEF GoodRan
<1> HIDE DEF done
<1>4. /\ a \in Asks /\ a.id = ask.id /\ a.stage = ask.stage /\ a.lost = ask.lost
      /\ a.joined = ask.joined /\ a.ok \in {"done", "failed"} /\ (a.ok = "done" => done)
  BY <1>0 DEF Asks
<1> HIDE DEF a
<1> QED BY <1>0, <1>1, <1>2, <1>3, <1>4

LEMMA OnwardTyped ==
  ASSUME NEW a \in Asks, a.joined => a.stage \in {"csrf", "check"}
  PROVE  LET b == Incident!Onward(a) IN
         /\ b \in Asks /\ b.id = a.id /\ b.ok = a.ok /\ b.lost = a.lost
         /\ b.joined = FALSE
         /\ b.stage = a.stage \/ (a.stage = "csrf" /\ b.stage = "third") \/ b.stage = "idle"
<1> DEFINE more == a.pending /\ a.tries + 1 < MaxLooks
           third == [a EXCEPT !.joined = FALSE, !.stage = "third"]
           tries == IF more THEN a.tries + 1 ELSE 0
           next == [a EXCEPT !.joined = FALSE, !.tries = tries,
                      !.stage = IF more THEN "check" ELSE "idle"]
<1>1. CASE ~a.joined
  BY <1>1 DEF Incident!Onward, Asks
<1>2. CASE a.joined /\ a.stage = "csrf"
  <2>1. Incident!Onward(a) = third
    BY <1>2 DEF Incident!Onward
  <2>2. third \in Asks /\ third.id = a.id /\ third.ok = a.ok /\ third.lost = a.lost
        /\ third.stage = "third" /\ third.joined = FALSE
    BY DEF Asks, Stages
  <2> HIDE DEF third
  <2> QED BY <1>2, <2>1, <2>2
<1>3. CASE a.joined /\ a.stage = "check"
  <2>0. a.tries \in Nat /\ a.pending \in BOOLEAN
    BY DEF Asks
  <2>1. Incident!Onward(a) = next
    BY <1>3, <2>0 DEF Incident!Onward
  <2>2. tries \in Nat
    BY <2>0
  <2> HIDE DEF tries
  <2>3. next \in Asks /\ next.id = a.id /\ next.ok = a.ok /\ next.lost = a.lost
        /\ next.stage \in {"check", "idle"} /\ next.joined = FALSE
    BY <2>2 DEF Asks, Stages
  <2> HIDE DEF next
  <2> QED BY <1>3, <2>1, <2>3
<1> QED BY <1>1, <1>2, <1>3

LEMMA LookupEndsKeeps == ASSUME IncidentInv, Incident!LookupEnds \/ Incident!LookupFails PROVE IncidentInv'
<1>0. /\ ask \in Asks /\ lookup \in Looks /\ known \in Nat /\ lookup.boot \in Nat
      /\ lookup.results \in Outcomes /\ GoodRan(lookup.results)
      /\ ask.joined => ask.stage \in {"csrf", "check"}
  BY DEF IncidentInv, IncidentShape, Looks, Reported
<1>1. /\ lookup' = Incident!NoLookup /\ UNCHANGED <<late, rig, ran, ids>> /\ known' \in {known, lookup.boot}
      /\ \E a \in {ask, Incident!Resolved(ask, lookup.results)} : ask' = Incident!Onward(a)
  BY DEF Incident!LookupEnds, Incident!LookupFails
<1>2. PICK a \in {ask, Incident!Resolved(ask, lookup.results)} : ask' = Incident!Onward(a)
  BY <1>1
<1>3. /\ a \in Asks /\ a.id = ask.id /\ a.stage = ask.stage /\ a.lost = ask.lost /\ a.joined = ask.joined
      /\ a.ok \in {ask.ok, "done", "failed"}
      /\ a.ok = "done" => ask.id # 0 /\ ran[ask.id].ok
  BY <1>0, ResolvedTruly DEF IncidentInv, Reported
<1>4. /\ ask' \in Asks /\ ask'.id = ask.id /\ ask'.ok = a.ok /\ ask'.lost = ask.lost
      /\ ask'.joined = FALSE
      /\ ask'.stage = ask.stage \/ (ask.stage = "csrf" /\ ask'.stage = "third") \/ ask'.stage = "idle"
  BY <1>0, <1>2, <1>3, OnwardTyped
<1>5. lookup' \in Looks /\ GoodRan(lookup.results)'
  BY <1>1, LooksTyped DEF GoodRan
<1>6. Unaccepted' => Unaccepted
  BY <1>3, <1>4 DEF Unaccepted, Incident!Posting
<1>7. known' \in Nat
  BY <1>0, <1>1
<1> QED BY <1>1, <1>3, <1>4, <1>5, <1>6, <1>7, PageKeeps

LEMMA ReconnectedKeeps == ASSUME IncidentInv, Incident!Reconnected PROVE IncidentInv'
<1>1. ask' = Incident!NoAsk /\ known' = 0 /\ UNCHANGED <<late, rig, lookup, ran, ids>>
  BY DEF Incident!Reconnected
<1>2. lookup \in Looks /\ GoodRan(lookup.results)'
  BY <1>1 DEF IncidentInv, IncidentShape, Reported, GoodRan
<1>3. ~Unaccepted' /\ ask'.joined = FALSE
  BY <1>1, NoAskTyped DEF Unaccepted, Incident!Posting, Incident!NoAsk
<1> QED BY <1>1, <1>2, <1>3, NoAskTyped, PageKeeps

-----------------------------------------------------------------------------
(* The requests                                                            *)
LEMMA StartKeeps == ASSUME IncidentInv, Incident!Start PROVE IncidentInv'
<1>1. /\ ids <= MaxIds /\ ids' = ids + 1 /\ UNCHANGED <<late, rig, known, lookup, ran>>
      /\ ask' = [Incident!NoAsk EXCEPT !.id = ids, !.stage = "first", !.pending = TRUE]
  BY DEF Incident!Start
<1>2. ids \in Incident!Ids /\ ids \in Nat /\ ids' \in 1 .. MaxIds + 1 /\ ids \in 0 .. MaxIds /\ ids # 0
  BY <1>1, IdsNumbers DEF IncidentInv, IncidentShape
<1>3. /\ ask' \in Asks /\ ask'.id = ids /\ ask'.ok = "open" /\ ask'.joined = FALSE
  BY <1>1, <1>2 DEF Incident!NoAsk, Asks, Stages
<1>4. IncidentShape'
  BY <1>1, <1>2, <1>3 DEF IncidentInv, IncidentShape
<1>5. Executed' /\ Reported'
  BY <1>1, <1>3 DEF IncidentInv, Executed, Reported, GoodRan
<1>6. /\ rig.slot \in Nat /\ rig.slot < ids /\ ran[ids].boots = {}
      /\ \A p \in late : p.id \in Nat /\ p.id < ids
  BY <1>2, IdsNumbers DEF IncidentInv, IncidentShape, Fresh, Rigs, Requests
<1>7. Fresh'
  BY <1>1, <1>2, <1>3, <1>6, IdsNumbers DEF IncidentInv, Fresh
<1>8. Untouched'
  BY <1>1, <1>2, <1>3, <1>6 DEF Untouched, NoTrace
<1> QED BY <1>4, <1>5, <1>7, <1>8 DEF IncidentInv

Same(b, a) == b \in Asks /\ b.id = a.id /\ b.joined = FALSE /\ b.lost = a.lost

LEMMA RepliesTyped ==
  ASSUME NEW a \in Asks, a.joined = FALSE
  PROVE  /\ Same(Incident!ToCheck(a), a) /\ Same(Incident!Refused(a), a)
         /\ Same([a EXCEPT !.stage = "csrf"], a)
         /\ Incident!ToCheck(a).ok = "open" /\ Incident!ToCheck(a).stage = "check"
         /\ Incident!Refused(a).ok = "refused" /\ Incident!Refused(a).stage = "idle"
         /\ [a EXCEPT !.stage = "csrf"].ok = a.ok /\ [a EXCEPT !.stage = "csrf"].stage = "csrf"
<1>1. /\ Incident!ToCheck(a) \in Asks /\ Incident!ToCheck(a).id = a.id
      /\ Incident!ToCheck(a).joined = FALSE /\ Incident!ToCheck(a).lost = a.lost
      /\ Incident!ToCheck(a).ok = "open" /\ Incident!ToCheck(a).stage = "check"
  BY DEF Incident!ToCheck, Asks, Stages
<1>2. /\ Incident!Refused(a) \in Asks /\ Incident!Refused(a).id = a.id
      /\ Incident!Refused(a).joined = FALSE /\ Incident!Refused(a).lost = a.lost
      /\ Incident!Refused(a).ok = "refused" /\ Incident!Refused(a).stage = "idle"
  BY DEF Incident!Refused, Asks, Stages
<1> DEFINE c == [a EXCEPT !.stage = "csrf"]
<1>3. c \in Asks /\ c.id = a.id /\ c.joined = FALSE /\ c.lost = a.lost /\ c.ok = a.ok /\ c.stage = "csrf"
  BY DEF Asks, Stages
<1> QED BY <1>1, <1>2, <1>3 DEF Same

(* While a confirmation is being sent it has an id.                        *)
LEMMA AnsweredKeeps == ASSUME IncidentInv, ask.id # 0, Incident!Answered PROVE IncidentInv'
<1>0. /\ ask \in Asks /\ ask.id \in Incident!Ids /\ known \in Nat /\ ask.id < ids
      /\ ids \in 1 .. MaxIds + 1 /\ ids <= ids
      /\ ask.joined => ask.stage \in {"csrf", "check"}
  BY IdsNumbers DEF IncidentInv, IncidentShape, Asks, Fresh
<1> DEFINE reply == Incident!Reply(ask.id, known)
<1>1. /\ Incident!Posting /\ rig' = Incident!After(ask.id, known)
      /\ UNCHANGED <<late, known, lookup, ran, ids>>
      /\ ask' = CASE reply = "forbidden" /\ ask.stage # "third" -> [ask EXCEPT !.stage = "csrf"]
                  [] reply \in {"accepted", "duplicate"} -> Incident!ToCheck(ask)
                  [] OTHER -> Incident!Refused(ask)
  BY DEF Incident!Answered
<1>2. /\ rig' \in Rigs /\ Executed' /\ GoodRan(rig.results)' /\ GoodRan(lookup.results)'
      /\ rig'.slot < ids' /\ \A i \in Incident!Ids : i >= ids' => ran'[i].boots = {}
      /\ rig'.slot \in {rig.slot, ask.id} /\ rig'.boot = rig.boot
  BY <1>0, <1>1, TakingKeeps
<1>3. rig' = rig \/ reply = "accepted"
  BY <1>0, <1>1, AfterTakes
<1> HIDE DEF reply
<1>4. ask.joined = FALSE
  BY <1>0, <1>1 DEF Asks, Incident!Posting
<1>5. \/ ask' = [ask EXCEPT !.stage = "csrf"] /\ reply # "accepted"
      \/ ask' = Incident!ToCheck(ask)
      \/ ask' = Incident!Refused(ask) /\ reply # "accepted"
  BY <1>1
<1>6. /\ ask' \in Asks /\ ask'.id = ask.id /\ ask'.joined = FALSE /\ ask'.lost = ask.lost
      /\ ask'.ok \in {ask.ok, "open", "refused"}
      /\ reply = "accepted" => ask'.stage = "check" /\ ask'.ok = "open"
      /\ ask'.stage = "check" => ask'.ok = "open"
  <2> DEFINE taken == Incident!ToCheck(ask)
             refused == Incident!Refused(ask)
             token == [ask EXCEPT !.stage = "csrf"]
  <2>1. /\ Same(taken, ask) /\ Same(refused, ask) /\ Same(token, ask)
        /\ taken.ok = "open" /\ taken.stage = "check" /\ refused.ok = "refused" /\ refused.stage = "idle"
        /\ token.ok = ask.ok /\ token.stage = "csrf"
    BY <1>0, <1>4, RepliesTyped
  <2>2. \/ ask' = token /\ reply # "accepted"
        \/ ask' = taken
        \/ ask' = refused /\ reply # "accepted"
    BY <1>5
  <2> HIDE DEF taken, refused, token
  <2> QED BY <2>1, <2>2 DEF Same
<1>7. IncidentShape' /\ Reported'
  BY <1>1, <1>2, <1>6 DEF IncidentInv, IncidentShape, Reported
<1>8. Fresh'
  BY <1>0, <1>1, <1>2, <1>6 DEF IncidentInv, Fresh
<1>9. Untouched'
  <2>1. CASE reply = "accepted"
    BY <1>6, <2>1 DEF Untouched, Unaccepted, Incident!Posting
  <2>2. CASE reply # "accepted"
    BY <1>1, <1>3, <1>6, <2>2 DEF IncidentInv, Untouched, Unaccepted, NoTrace
  <2> QED BY <2>1, <2>2
<1> QED BY <1>2, <1>7, <1>8, <1>9 DEF IncidentInv

LEMMA NotAnsweredKeeps == ASSUME IncidentInv, ask.id # 0, Incident!NotAnswered PROVE IncidentInv'
<1>0. /\ ask \in Asks /\ ask.id \in Incident!Ids /\ known \in Nat /\ ask.id < ids
      /\ ids \in 1 .. MaxIds + 1 /\ ids <= ids
      /\ ask.joined => ask.stage \in {"csrf", "check"}
      /\ rig \in Rigs
  BY IdsNumbers DEF IncidentInv, IncidentShape, Asks, Fresh
<1>1. /\ Incident!Posting
      /\ late' = late \/ late' = late \cup {[ id |-> ask.id, token |-> known ]}
      /\ rig' = rig \/ rig' = Incident!After(ask.id, known)
      /\ ask' = [ask EXCEPT !.stage = "second", !.lost = TRUE]
           \/ ask' = Incident!ToCheck([ask EXCEPT !.lost = TRUE])
      /\ UNCHANGED <<known, lookup, ran, ids>>
  BY DEF Incident!NotAnswered
<1>2. /\ rig' \in Rigs /\ Executed' /\ GoodRan(rig.results)' /\ GoodRan(lookup.results)'
      /\ rig'.slot < ids' /\ \A i \in Incident!Ids : i >= ids' => ran'[i].boots = {}
  <2>1. CASE rig' = Incident!After(ask.id, known)
    BY <1>0, <1>1, <2>1, TakingKeeps
  <2>2. CASE rig' = rig
    BY <1>0, <1>1, <2>2 DEF IncidentInv, Executed, Reported, GoodRan, Fresh
  <2> QED BY <1>1, <2>1, <2>2
<1>3. ask.joined = FALSE
  BY <1>0, <1>1 DEF Asks, Incident!Posting
<1>4. /\ ask' \in Asks /\ ask'.id = ask.id /\ ask'.joined = FALSE /\ ask'.lost = TRUE
      /\ ask'.ok \in {ask.ok, "open"}
  <2> DEFINE lost == [ask EXCEPT !.lost = TRUE]
             second == [ask EXCEPT !.stage = "second", !.lost = TRUE]
  <2>1. lost \in Asks /\ lost.joined = FALSE /\ lost.id = ask.id /\ lost.lost = TRUE
    BY <1>0, <1>3 DEF Asks
  <2>2. /\ second \in Asks /\ second.joined = FALSE /\ second.id = ask.id /\ second.lost = TRUE
        /\ second.ok = ask.ok
    BY <1>0, <1>3 DEF Asks, Stages
  <2>3. ask' = second \/ ask' = Incident!ToCheck(lost)
    BY <1>1
  <2> HIDE DEF lost, second
  <2>4. Same(Incident!ToCheck(lost), lost) /\ Incident!ToCheck(lost).ok = "open"
    BY <2>1, RepliesTyped
  <2> QED BY <2>1, <2>2, <2>3, <2>4 DEF Same
<1>5. [ id |-> ask.id, token |-> known ] \in Requests
  BY <1>0 DEF Requests
<1>6. IncidentShape' /\ Reported'
  BY <1>1, <1>2, <1>4, <1>5 DEF IncidentInv, IncidentShape, Reported
<1>7. Fresh'
  BY <1>0, <1>1, <1>2, <1>4 DEF IncidentInv, Fresh
<1>8. Untouched'
  BY <1>4 DEF Untouched, Unaccepted
<1> QED BY <1>2, <1>6, <1>7, <1>8 DEF IncidentInv

(* A confirmation that is on its way has a number.                         *)
Numbered == Incident!Posting \/ ask.stage \in {"csrf", "check"} => ask.id # 0

LEMMA NumberedStays == ASSUME IncidentInv, Numbered, [Incident!Next]_incidentVars PROVE Numbered'
<1>1. ids # 0
  BY DEF IncidentInv, IncidentShape
<1>2. CASE UNCHANGED ask
  BY <1>2 DEF Numbered, Incident!Posting
<1>3. CASE Incident!Start
  BY <1>1, <1>3 DEF Numbered, Incident!Start, Incident!NoAsk
<1>4. CASE Incident!Answered \/ Incident!NotAnswered
  <2>1. ask'.id = ask.id /\ Incident!Posting
    BY <1>4 DEF Incident!Answered, Incident!NotAnswered, Incident!ToCheck, Incident!Refused,
         IncidentInv, IncidentShape, Asks
  <2> QED BY <2>1 DEF Numbered
<1>5. CASE Incident!Join
  <2>1. ask'.id = ask.id /\ ask.stage \in {"csrf", "check"}
    BY <1>5 DEF Incident!Join, IncidentInv, IncidentShape, Asks
  <2> QED BY <2>1 DEF Numbered
<1>6. CASE Incident!LookupEnds \/ Incident!LookupFails
  <2>0. /\ ask \in Asks /\ lookup.results \in Outcomes /\ GoodRan(lookup.results)
        /\ ask.joined => ask.stage \in {"csrf", "check"}
    BY DEF IncidentInv, IncidentShape, Looks, Reported
  <2>1. PICK a \in {ask, Incident!Resolved(ask, lookup.results)} : ask' = Incident!Onward(a)
    BY <1>6 DEF Incident!LookupEnds, Incident!LookupFails
  <2>2. a \in Asks /\ a.id = ask.id /\ a.stage = ask.stage /\ a.joined = ask.joined
    BY <2>0, ResolvedTruly
  <2>3. ask'.id = ask.id /\ (ask'.stage = ask.stage \/ (ask.stage = "csrf" /\ ask'.stage = "third")
                             \/ ask'.stage = "idle")
    BY <2>0, <2>1, <2>2, OnwardTyped
  <2> QED BY <2>3 DEF Numbered, Incident!Posting
<1>7. CASE Incident!Reconnected
  BY <1>7, NoAskTyped DEF Incident!Reconnected, Numbered, Incident!Posting
<1> QED BY <1>2, <1>3, <1>4, <1>5, <1>6, <1>7 DEF Incident!Next, incidentVars, Incident!Execute,
       Incident!Restart, Incident!Arrive, Incident!Rival, Incident!PollLooks, Incident!LookupRead

LEMMA IncidentStart == Incident!Init => IncidentInv /\ Numbered
<1> SUFFICES ASSUME Incident!Init PROVE IncidentInv /\ Numbered
  OBVIOUS
<1>1. /\ ask = Incident!NoAsk /\ late = {} /\ lookup = Incident!NoLookup /\ known = 1 /\ ids = 1
      /\ rig = [ boot |-> 1, slot |-> 0, results |-> <<>> ]
      /\ ran = [i \in Incident!Ids |-> [ boots |-> {}, twice |-> FALSE, ok |-> FALSE ]]
  BY DEF Incident!Init
<1>2. <<>> \in Outcomes /\ [ boots |-> {}, twice |-> FALSE, ok |-> FALSE ] \in Marks
  BY DEF Outcomes, Marks
<1>3. ask.joined = FALSE /\ ran \in [Incident!Ids -> Marks]
  BY <1>1, <1>2 DEF Incident!NoAsk
<1>4. rig \in Rigs /\ ids \in 1 .. MaxIds + 1
  BY <1>1, <1>2, IdsNumbers DEF Rigs
<1>5. IncidentShape
  BY <1>1, <1>3, <1>4, NoAskTyped, LooksTyped DEF IncidentShape
<1>6. Executed /\ Fresh
  BY <1>1, NoAskTyped DEF Executed, Fresh, Incident!Has
<1>7. Reported /\ Untouched /\ Numbered
  BY <1>1, NoAskTyped, LooksTyped DEF Reported, Untouched, Unaccepted, Numbered, Incident!Posting
<1> QED BY <1>5, <1>6, <1>7 DEF IncidentInv

LEMMA IncidentStep == ASSUME IncidentInv, Numbered, [Incident!Next]_incidentVars PROVE IncidentInv'
<1>1. CASE Incident!Answered \/ Incident!NotAnswered
  <2>1. ask.id # 0
    BY <1>1 DEF Numbered, Incident!Answered, Incident!NotAnswered
  <2> QED BY <1>1, <2>1, AnsweredKeeps, NotAnsweredKeeps
<1>2. CASE UNCHANGED incidentVars
  BY <1>2 DEF incidentVars, IncidentInv, IncidentShape, Executed, Reported, GoodRan, Fresh, Untouched,
     Unaccepted, NoTrace, Incident!Posting
<1> QED BY <1>1, <1>2, ExecuteOnce, RestartForgets, ArriveKeeps, RivalKeeps, StartKeeps, JoinKeeps,
     LooksKeep, LookupEndsKeeps, ReconnectedKeeps DEF Incident!Next

(* However often a request is repeated or delayed, a confirmation is       *)
(* executed at most once in a boot, and the page tells what became of it.  *)
THEOREM ConfirmedAtMostOnce == WebSpec => []ConfirmedOnce
<1> DEFINE Inv == IncidentInv /\ Numbered
<1>1. WebInit => Inv
  BY IncidentStart DEF WebInit
<1>2. Inv /\ [WebNext]_web => Inv'
  <2> SUFFICES ASSUME Inv, [WebNext]_web PROVE Inv'
    OBVIOUS
  <2>1. [Incident!Next]_incidentVars
    BY DEF WebNext, web
  <2> QED BY <2>1, IncidentStep, NumberedStays
<1>3. Inv => ConfirmedOnce
  <2> SUFFICES ASSUME IncidentInv PROVE ConfirmedOnce
    OBVIOUS
  <2>1. (\A i \in Incident!Ids : ~ran[i].twice) /\ (ask.ok = "done" => ran[ask.id].ok)
    BY DEF IncidentInv, Executed, Reported
  <2>2. ask.ok = "refused" /\ ~ask.lost => ran[ask.id].boots = {} /\ rig.slot # ask.id
    BY DEF IncidentInv, IncidentShape, Asks, Untouched, Unaccepted, NoTrace
  <2> QED BY <2>1, <2>2 DEF ConfirmedOnce, Incident!ConfirmedOnce
<1> QED BY <1>1, <1>2, <1>3, PTL DEF WebSpec

-----------------------------------------------------------------------------
(***************************************************************************)
(* Part 3: the update modal                                                *)
(***************************************************************************)
Vers   == [ n : Nat, tag : {"", "dev", "pr"} ]
Modals == [ open : BOOLEAN, advanced : BOOLEAN, sections : SUBSET Modal!Sections,
            confirmed : SUBSET Modal!Sections, downgrade : Vers, said : {"", "failed", "updated"} ]
Entities == [ channel : Modal!Channels, running : Vers, latest : Vers, url : Modal!Channels,
              checking : BOOLEAN, rev : Nat ]
Units  == [ channel : Modal!Channels, running : Vers, latest : Vers, found : Modal!Channels,
            checking : BOOLEAN, rev : Nat ]
Checks == [ stage : {"none", "read", "press", "poll"}, busy : BOOLEAN, aborted : BOOLEAN, rev : Nat,
            tries : Nat ]
Changes == [ stage : {"idle", "post", "poll", "verify", "requested"},
             kind : {"none", "channel", "downgrade", "transition", "update"}, version : Vers, tries : Nat ]

ModalShape ==
  /\ modal \in Modals /\ entity \in Entities /\ unit \in Units /\ check \in Checks /\ change \in Changes
  /\ feed \in [Modal!Channels -> Vers]

(* What is confirmed is on screen, one section at a time.                  *)
OneOnScreen == /\ modal.confirmed \subseteq modal.sections
               /\ modal.sections = {} \/ \E s \in Modal!Sections : modal.sections = {s}

TagOf(c) == IF c = "main" THEN "" ELSE "dev"

(* The device found what a channel offered, and a channel only advances.   *)
Offered == /\ unit.latest.tag = TagOf(unit.found) /\ unit.latest.n <= feed[unit.found].n
           /\ \A c \in Modal!Channels : feed[c].tag = TagOf(c)

(* What the page knows of the present channel, the device found there, or  *)
(* a later one by now.                                                     *)
Known == entity.latest # Modal!Unknown
SeenByPage ==
  /\ entity.running = unit.running
  /\ Known => entity.latest.tag = TagOf(entity.url)
  /\ Known /\ entity.url = unit.channel => unit.found = unit.channel /\ entity.latest.n <= unit.latest.n

(* While a change is made the modal stays open and no check goes on; the   *)
(* page shows another channel than the device's only until it is posted.   *)
OneAtATime ==
  /\ change.stage # "idle" => modal.open /\ check.busy = FALSE
  /\ check.stage # "none" /\ check.aborted = FALSE => check.busy
  /\ ~(change.kind = "channel" /\ change.stage = "post") => entity.channel = unit.channel
  /\ change.stage # "idle" => change.kind # "none"
  /\ change.stage = "poll" => change.kind \in {"channel", "downgrade"}
  /\ change.stage \in {"verify", "requested"} => change.kind # "channel"

(* A plain update goes to a newer version, and still does when it is asked *)
(* of the device.                                                          *)
Upward ==
  change.kind = "update" /\ change.stage \in {"post", "verify"}
    => Known /\ entity.url = unit.channel /\ Modal!Newer(entity.latest, entity.running)

DownOnlyAsConfirmed ==
  change.stage = "requested" /\ Modal!Newer(entity.running, change.version)
    /\ Modal!Channel(entity.running) = "dev" => modal.downgrade = change.version

ModalInv == /\ ModalShape /\ OneOnScreen /\ Offered /\ SeenByPage /\ OneAtATime /\ Upward
            /\ DownOnlyAsConfirmed

LEMMA UnknownTyped == Modal!Unknown \in Vers /\ Modal!Unknown.n = 0 /\ Modal!Unknown.tag = ""
BY DEF Modal!Unknown, Vers

LEMMA NumberTyped == ASSUME NEW v \in Vers PROVE v.n \in Nat
BY DEF Vers

LEMMA FourTimes ==
  ASSUME NEW a \in Nat, NEW b \in Nat, a <= b
  PROVE  4 * a \in Nat /\ 4 * b \in Nat /\ 4 * a <= 4 * b
OBVIOUS

LEMMA NextNumber == ASSUME NEW a \in Nat PROVE a + 1 \in Nat /\ a <= a + 1 /\ a <= a
OBVIOUS

LEMMA RankTyped == ASSUME NEW v \in Vers PROVE Modal!Rank(v) \in Nat
<1>1. v.n \in Nat /\ v.tag \in {"", "dev", "pr"}
  BY DEF Vers
<1>2. 4 * v.n + 1 \in Nat /\ 4 * v.n + 2 \in Nat /\ 4 * v.n + 3 \in Nat
  <2>1. v.n \in Nat /\ v.n <= v.n
    BY NumberTyped
  <2>2. 4 * v.n \in Nat
    BY ONLY <2>1, FourTimes
  <2> QED BY ONLY <2>2
<1> QED BY <1>1, <1>2 DEF Modal!Rank

(* The later of two versions of a channel is newer than what the earlier   *)
(* one is newer than; nothing is newer both ways.                          *)
LEMMA LaterIsNewer ==
  ASSUME NEW v \in Vers, NEW w \in Vers, NEW x \in Vers, v.tag = w.tag, v.n <= w.n, Modal!Newer(v, x)
  PROVE  Modal!Newer(w, x)
<1>1. v.n \in Nat /\ w.n \in Nat /\ v.tag \in {"", "dev", "pr"}
  BY DEF Vers
<1>2. 4 * v.n <= 4 * w.n /\ 4 * v.n \in Nat /\ 4 * w.n \in Nat
  BY NumberTyped, FourTimes
<1>3. Modal!Rank(v) <= Modal!Rank(w)
  <2>1. CASE v.tag = ""
    <3>1. Modal!Rank(v) = 4 * v.n + 3 /\ Modal!Rank(w) = 4 * w.n + 3
      BY <1>1, <2>1 DEF Modal!Rank
    <3> QED BY <1>2, <3>1
  <2>2. CASE v.tag = "pr"
    <3>1. Modal!Rank(v) = 4 * v.n + 2 /\ Modal!Rank(w) = 4 * w.n + 2
      BY <1>1, <2>2 DEF Modal!Rank
    <3> QED BY <1>2, <3>1
  <2>3. CASE v.tag = "dev"
    <3>1. Modal!Rank(v) = 4 * v.n + 1 /\ Modal!Rank(w) = 4 * w.n + 1
      BY <1>1, <2>3 DEF Modal!Rank
    <3> QED BY <1>2, <3>1
  <2> QED BY <1>1, <2>1, <2>2, <2>3
<1> QED BY <1>3, RankTyped DEF Modal!Newer

LEMMA NotBothNewer ==
  ASSUME NEW v \in Vers, NEW w \in Vers, Modal!Newer(v, w) PROVE ~Modal!Newer(w, v)
BY RankTyped DEF Modal!Newer

LEMMA FreeMeansIdle ==
  ASSUME ModalInv, Modal!Free
  PROVE  change.stage = "idle" /\ modal.open /\ check.busy = FALSE /\ entity.checking = FALSE
<1>1. check.busy \in BOOLEAN /\ entity.checking \in BOOLEAN
  BY DEF ModalInv, ModalShape, Checks, Entities
<1>2. modal.open /\ Modal!Status # "checking" /\ Modal!Status # "installing"
  BY DEF Modal!Free
<1>3. ~Modal!Checking
  BY <1>2 DEF Modal!Status
<1>4. change.stage = "idle"
  BY <1>2, <1>3 DEF Modal!Status
<1> QED BY <1>1, <1>2, <1>3, <1>4 DEF Modal!Checking

-----------------------------------------------------------------------------
(* What the user clicks while nothing is changed.                          *)
LEMMA ClickKeeps ==
  ASSUME ModalInv, change.stage = "idle", modal' \in Modals, OneOnScreen',
         UNCHANGED <<entity, unit, feed, check, change>>
  PROVE  ModalInv'
<1>1. ModalShape'
  BY DEF ModalInv, ModalShape
<1>2. Offered' /\ SeenByPage' /\ OneAtATime' /\ Upward' /\ DownOnlyAsConfirmed'
  BY DEF ModalInv, Offered, SeenByPage, OneAtATime, Upward, DownOnlyAsConfirmed, Known
<1> QED BY <1>1, <1>2 DEF ModalInv

LEMMA ClosedTyped == Modal!Closed \in Modals /\ Modal!Closed.sections = {} /\ Modal!Closed.confirmed = {}
BY UnknownTyped DEF Modal!Closed, Modals

LEMMA OpenModalKeeps == ASSUME ModalInv, Modal!OpenModal PROVE ModalInv'
<1>1. /\ ~modal.open /\ modal' = [modal EXCEPT !.open = TRUE, !.downgrade = Modal!Unknown]
      /\ UNCHANGED <<entity, unit, feed, check, change>> /\ modal \in Modals
  BY DEF Modal!OpenModal, Modal!Click, ModalInv, ModalShape
<1>2. change.stage = "idle"
  BY <1>1 DEF ModalInv, OneAtATime
<1>3. modal' \in Modals /\ modal'.sections = modal.sections /\ modal'.confirmed = modal.confirmed
  BY <1>1, UnknownTyped DEF Modals
<1>4. OneOnScreen'
  BY <1>3 DEF ModalInv, OneOnScreen
<1> QED BY <1>1, <1>2, <1>3, <1>4, ClickKeeps

LEMMA PanelsKeep ==
  ASSUME ModalInv,
         \/ Modal!ToggleAdvanced \/ Modal!EditTest \/ Modal!ConfirmDowngrade
         \/ \E s \in Modal!Sections : Modal!ToggleSection(s) \/ Modal!Confirm(s)
  PROVE  ModalInv'
<1>0. Modal!Free /\ UNCHANGED <<entity, unit, feed, check, change>>
  BY DEF Modal!ToggleAdvanced, Modal!EditTest, Modal!ConfirmDowngrade, Modal!ToggleSection, Modal!Confirm
<1>1. change.stage = "idle" /\ modal \in Modals /\ OneOnScreen /\ entity.latest \in Vers
  BY <1>0, FreeMeansIdle DEF ModalInv, ModalShape, Entities
<1>2. CASE Modal!ToggleAdvanced
  <2>1. modal' = [modal EXCEPT !.advanced = FALSE, !.sections = {}, !.confirmed = {}]
          \/ modal' = [modal EXCEPT !.advanced = TRUE]
    BY <1>2 DEF Modal!ToggleAdvanced, Modal!Click
  <2>2. modal' \in Modals /\ (\/ modal'.sections = {} /\ modal'.confirmed = {}
                              \/ modal'.sections = modal.sections /\ modal'.confirmed = modal.confirmed)
    BY <1>1, <2>1 DEF Modals
  <2>3. OneOnScreen'
    BY <1>1, <2>2 DEF OneOnScreen
  <2> QED BY <1>0, <1>1, <2>2, <2>3, ClickKeeps
<1>3. CASE Modal!EditTest
  <2>1. modal' = [modal EXCEPT !.confirmed = @ \ {"test"}]
    BY <1>3 DEF Modal!EditTest, Modal!Click
  <2>2. modal' \in Modals /\ modal'.sections = modal.sections /\ modal'.confirmed \subseteq modal.confirmed
    BY <1>1, <2>1 DEF Modals
  <2>3. OneOnScreen'
    BY <1>1, <2>2 DEF OneOnScreen
  <2> QED BY <1>0, <1>1, <2>2, <2>3, ClickKeeps
<1>4. CASE Modal!ConfirmDowngrade
  <2>1. PICK v \in {Modal!Unknown, entity.latest} : modal' = [modal EXCEPT !.downgrade = v]
    BY <1>1, <1>4 DEF Modal!ConfirmDowngrade, Modal!Click, Modals
  <2>2. modal' \in Modals /\ modal'.sections = modal.sections /\ modal'.confirmed = modal.confirmed
    BY <1>1, <2>1, UnknownTyped DEF Modals
  <2>3. OneOnScreen'
    BY <1>1, <2>2 DEF OneOnScreen
  <2> QED BY <1>0, <1>1, <2>2, <2>3, ClickKeeps
<1>5. ASSUME NEW s \in Modal!Sections, Modal!ToggleSection(s) PROVE ModalInv'
  <2>1. \/ modal' = [modal EXCEPT !.sections = @ \ {s}, !.confirmed = @ \ {s}]
        \/ modal' = [modal EXCEPT !.advanced = TRUE, !.sections = {s}, !.confirmed = {}]
    BY <1>5 DEF Modal!ToggleSection, Modal!Click
  <2>2. /\ modal' \in Modals
        /\ \/ modal'.sections = modal.sections \ {s} /\ modal'.confirmed = modal.confirmed \ {s}
           \/ modal'.sections = {s} /\ modal'.confirmed = {}
    <3>1. CASE modal' = [modal EXCEPT !.sections = @ \ {s}, !.confirmed = @ \ {s}]
      BY <1>1, <3>1 DEF Modals
    <3>2. CASE modal' = [modal EXCEPT !.advanced = TRUE, !.sections = {s}, !.confirmed = {}]
      BY <1>1, <3>2 DEF Modals
    <3> QED BY <2>1, <3>1, <3>2
  <2>3. OneOnScreen'
    BY <1>1, <2>2 DEF OneOnScreen
  <2> QED BY <1>0, <1>1, <2>2, <2>3, ClickKeeps
<1>6. ASSUME NEW s \in Modal!Sections, Modal!Confirm(s) PROVE ModalInv'
  <2>1. s \in modal.sections
        /\ (modal' = [modal EXCEPT !.confirmed = @ \ {s}] \/ modal' = [modal EXCEPT !.confirmed = @ \cup {s}])
    BY <1>1, <1>6 DEF Modal!Confirm, Modal!Click, Modals
  <2>2. /\ modal' \in Modals /\ modal'.sections = modal.sections
        /\ modal'.confirmed \in {modal.confirmed \ {s}, modal.confirmed \cup {s}}
    BY <1>1, <2>1 DEF Modals
  <2>3. OneOnScreen'
    BY <1>1, <2>1, <2>2 DEF OneOnScreen
  <2> QED BY <1>0, <1>1, <2>2, <2>3, ClickKeeps
<1> QED BY <1>2, <1>3, <1>4, <1>5, <1>6

LEMMA CloseKeeps == ASSUME ModalInv, Modal!CloseModal \/ Modal!ClickBeside PROVE ModalInv'
<1>0. modal \in Modals /\ check \in Checks /\ modal.said \in {"", "failed", "updated"}
  BY DEF ModalInv, ModalShape, Modals
<1>1. /\ change.stage = "idle" /\ modal' = [Modal!Closed EXCEPT !.said = modal.said]
      /\ UNCHANGED <<entity, unit, feed, change>>
      /\ check' = check \/ check' = [check EXCEPT !.aborted = TRUE, !.busy = FALSE]
  BY DEF Modal!CloseModal, Modal!ClickBeside
<1>2. modal' \in Modals /\ modal'.sections = {} /\ modal'.confirmed = {}
  BY <1>0, <1>1, ClosedTyped DEF Modals
<1>3. check' \in Checks /\ (check' = check \/ check'.aborted = TRUE)
  BY <1>0, <1>1 DEF Checks
<1>4. ModalShape' /\ OneOnScreen'
  BY <1>1, <1>2, <1>3 DEF ModalInv, ModalShape, OneOnScreen
<1>5. OneAtATime'
  BY <1>1, <1>3 DEF ModalInv, OneAtATime
<1>6. Offered' /\ SeenByPage' /\ Upward' /\ DownOnlyAsConfirmed'
  BY <1>1 DEF ModalInv, Offered, SeenByPage, Upward, DownOnlyAsConfirmed, Known
<1> QED BY <1>4, <1>5, <1>6 DEF ModalInv

-----------------------------------------------------------------------------
(* What the page reads and finds out                                       *)
LEMMA FetchedTyped ==
  ASSUME ModalInv, NEW e
  PROVE  /\ Modal!Fetched(e) \in Entities
         /\ Modal!Fetched(e).channel = unit.channel /\ Modal!Fetched(e).running = unit.running
         /\ Modal!Fetched(e).latest = unit.latest /\ Modal!Fetched(e).url = unit.found
BY DEF ModalInv, ModalShape, Modal!Fetched, Entities, Units

LEMMA PrimedTyped ==
  ASSUME NEW e \in Entities, NEW c \in Modal!Channels
  PROVE  /\ Modal!Primed(e, c) \in Entities /\ Modal!Primed(e, c).latest = Modal!Unknown
         /\ Modal!Primed(e, c).channel = e.channel /\ Modal!Primed(e, c).running = e.running
BY UnknownTyped DEF Modal!Primed, Entities

(* Reading the device while it goes on.                                    *)
LEMMA ReadKeeps ==
  ASSUME ModalInv, entity' = Modal!Fetched(entity), UNCHANGED <<unit, feed, change>>,
         modal' \in Modals, modal'.sections = modal.sections, modal'.confirmed = modal.confirmed,
         modal'.open = modal.open, modal'.downgrade = modal.downgrade, check' \in Checks,
         change.stage # "idle" => check'.busy = FALSE,
         check'.stage # "none" /\ check'.aborted = FALSE => check'.busy
  PROVE  ModalInv'
<1>1. /\ entity' \in Entities /\ entity'.channel = unit.channel /\ entity'.running = unit.running
      /\ entity'.latest = unit.latest /\ entity'.url = unit.found
  BY FetchedTyped
<1>2. ModalShape' /\ OneOnScreen' /\ Offered'
  BY <1>1 DEF ModalInv, ModalShape, OneOnScreen, Offered
<1>3. unit.latest.n \in Nat /\ unit \in Units /\ entity \in Entities /\ entity.latest \in Vers
      /\ unit.latest \in Vers /\ unit.running \in Vers
  BY DEF ModalInv, ModalShape, Units, Vers, Entities
<1>4. SeenByPage'
  BY <1>1, <1>3 DEF ModalInv, SeenByPage, Offered, Known
<1>5. OneAtATime'
  BY <1>1 DEF ModalInv, OneAtATime
<1>6. Upward'
  <2> SUFFICES ASSUME change.kind = "update", change.stage \in {"post", "verify"}
               PROVE  Known' /\ entity'.url = unit.channel /\ Modal!Newer(entity'.latest, entity'.running)
    BY DEF Upward
  <2>1. Known /\ entity.url = unit.channel /\ Modal!Newer(entity.latest, entity.running)
    BY DEF ModalInv, Upward
  <2>2. /\ unit.found = unit.channel /\ entity.latest.n <= unit.latest.n
        /\ entity.latest.tag = unit.latest.tag /\ entity.running = unit.running
    BY <2>1 DEF ModalInv, SeenByPage, Offered
  <2>3. Modal!Newer(unit.latest, unit.running)
    BY <1>3, <2>1, <2>2, LaterIsNewer
  <2>4. unit.latest # Modal!Unknown
    <3>1. entity.latest.n # 0 \/ entity.latest.tag # ""
      BY <1>3, <2>1 DEF Known, Vers, Modal!Unknown
    <3>2. entity.latest.n \in Nat /\ unit.latest.n \in Nat
      BY <1>3 DEF Vers
    <3>3. unit.latest.n # 0 \/ unit.latest.tag # ""
      <4>1. CASE entity.latest.n # 0
        <5>1. unit.latest.n # 0
          BY <2>2, <3>2, <4>1
        <5> QED BY <5>1
      <4>2. CASE entity.latest.tag # ""
        BY <2>2, <4>2
      <4> QED BY <3>1, <4>1, <4>2
    <3> QED BY <3>3, UnknownTyped
  <2> QED BY <1>1, <2>2, <2>3, <2>4 DEF Known
<1>7. DownOnlyAsConfirmed'
  BY <1>1 DEF ModalInv, SeenByPage, DownOnlyAsConfirmed
<1> QED BY <1>2, <1>4, <1>5, <1>6, <1>7 DEF ModalInv

LEMMA HydrateKeeps == ASSUME ModalInv, Modal!Hydrate PROVE ModalInv'
<1>1. entity' = Modal!Fetched(entity) /\ UNCHANGED <<modal, unit, feed, check, change>>
  BY DEF Modal!Hydrate
<1>2. modal \in Modals /\ check \in Checks /\ OneAtATime
  BY DEF ModalInv, ModalShape
<1>3. /\ change.stage # "idle" => check'.busy = FALSE
      /\ check'.stage # "none" /\ check'.aborted = FALSE => check'.busy
  BY <1>1, <1>2 DEF OneAtATime
<1> QED BY <1>1, <1>2, <1>3, ReadKeeps

(* A step of a check that leaves what is known of the device alone, or     *)
(* drops it.                                                               *)
LEMMA CheckKeeps ==
  ASSUME ModalInv, UNCHANGED <<feed, change>>, modal' \in Modals, modal'.sections = modal.sections,
         modal'.confirmed = modal.confirmed, modal'.open = modal.open,
         modal'.downgrade = modal.downgrade, check' \in Checks,
         change.stage # "idle" => check'.busy = FALSE,
         check'.stage # "none" /\ check'.aborted = FALSE => check'.busy,
         unit' = unit \/ unit' = [unit EXCEPT !.checking = TRUE],
         entity' = entity \/ (entity' \in Entities /\ entity'.latest = Modal!Unknown
                              /\ entity'.channel = unit.channel /\ entity'.running = unit.running
                              /\ change.stage = "idle")
  PROVE  ModalInv'
<1>0. unit' \in Units /\ unit'.channel = unit.channel /\ unit'.running = unit.running
      /\ unit'.latest = unit.latest /\ unit'.found = unit.found
  BY DEF ModalInv, ModalShape, Units
<1>1. ModalShape' /\ OneOnScreen' /\ Offered'
  BY <1>0 DEF ModalInv, ModalShape, OneOnScreen, Offered
<1>2. CASE entity' = entity
  BY <1>0, <1>1, <1>2 DEF ModalInv, SeenByPage, OneAtATime, Upward, DownOnlyAsConfirmed, Known
<1>3. CASE entity' # entity
  <2>1. SeenByPage' /\ OneAtATime'
    BY <1>0, <1>3 DEF ModalInv, SeenByPage, OneAtATime, Known
  <2>2. Upward' /\ DownOnlyAsConfirmed'
    BY <1>3 DEF Upward, DownOnlyAsConfirmed
  <2> QED BY <1>1, <2>1, <2>2 DEF ModalInv
<1> QED BY <1>2, <1>3

LEMMA NoCheckTyped == Modal!NoCheck \in Checks /\ Modal!NoCheck.stage = "none" /\ Modal!NoCheck.busy = FALSE
BY DEF Modal!NoCheck, Checks

LEMMA EndCheckTyped ==
  ASSUME ModalInv, NEW says \in {"", "failed", "updated"}, Modal!EndCheck(says)
  PROVE  /\ modal' \in Modals /\ modal'.sections = modal.sections /\ modal'.confirmed = modal.confirmed
         /\ modal'.open = modal.open /\ modal'.downgrade = modal.downgrade
         /\ check' = Modal!NoCheck
<1>1. modal \in Modals /\ modal.said \in {"", "failed", "updated"}
  BY DEF ModalInv, ModalShape, Modals
<1>2. PICK said \in {"", "failed", "updated"} : modal' = [modal EXCEPT !.said = said]
  BY <1>1 DEF Modal!EndCheck
<1>3. check' = Modal!NoCheck
  BY DEF Modal!EndCheck
<1> QED BY <1>1, <1>2, <1>3 DEF Modals

LEMMA StartCheckKeeps == ASSUME ModalInv, Modal!StartCheck PROVE ModalInv'
<1>1. /\ Modal!Free /\ modal' = [modal EXCEPT !.said = ""] /\ UNCHANGED <<entity, unit, feed, change>>
      /\ check' = [Modal!NoCheck EXCEPT !.stage = "read", !.busy = TRUE]
  BY DEF Modal!StartCheck, Modal!Click
<1>2. change.stage = "idle" /\ modal \in Modals
  BY <1>1, FreeMeansIdle DEF ModalInv, ModalShape
<1>3. check' \in Checks /\ check'.busy = TRUE
  BY <1>1 DEF Modal!NoCheck, Checks
<1>4. modal' \in Modals /\ modal'.sections = modal.sections /\ modal'.confirmed = modal.confirmed
      /\ modal'.open = modal.open /\ modal'.downgrade = modal.downgrade
  BY <1>1, <1>2 DEF Modals
<1> QED BY <1>1, <1>2, <1>3, <1>4, CheckKeeps

LEMMA CheckReadsKeeps == ASSUME ModalInv, Modal!CheckReads PROVE ModalInv'
<1>0. /\ check \in Checks /\ entity \in Entities /\ unit \in Units /\ unit.channel \in Modal!Channels
      /\ unit.rev \in Nat /\ modal \in Modals /\ OneAtATime
  BY DEF ModalInv, ModalShape, Units
<1>1. check.stage = "read" /\ UNCHANGED <<unit, feed, change>>
  BY DEF Modal!CheckReads
<1>2. CASE \E says \in {"", "failed"} : Modal!EndCheck(says) /\ UNCHANGED entity
  BY <1>1, <1>2, EndCheckTyped, NoCheckTyped, CheckKeeps
<1>3. CASE /\ ~check.aborted /\ check' = [check EXCEPT !.stage = "press", !.rev = unit.rev]
           /\ entity' = Modal!Primed(Modal!Fetched(entity), unit.channel) /\ UNCHANGED modal
  <2>1. check.aborted = FALSE /\ check.busy = TRUE /\ change.stage = "idle"
    BY <1>0, <1>1, <1>3 DEF OneAtATime, Checks
  <2>2. check' \in Checks /\ check'.busy = TRUE
    BY <1>0, <1>3, <2>1 DEF Checks
  <2>3. /\ entity' \in Entities /\ entity'.latest = Modal!Unknown /\ entity'.channel = unit.channel
        /\ entity'.running = unit.running
    BY <1>0, <1>3, FetchedTyped, PrimedTyped
  <2> QED BY <1>0, <1>1, <1>3, <2>1, <2>2, <2>3, CheckKeeps
<1> QED BY <1>2, <1>3 DEF Modal!CheckReads

LEMMA CheckPressesKeeps == ASSUME ModalInv, Modal!CheckPresses PROVE ModalInv'
<1>0. check \in Checks /\ modal \in Modals /\ OneAtATime
  BY DEF ModalInv, ModalShape
<1>1. /\ check.stage = "press" /\ unit' = [unit EXCEPT !.checking = TRUE]
      /\ UNCHANGED <<entity, feed, change>>
  BY DEF Modal!CheckPresses
<1>2. CASE Modal!EndCheck("")
  BY <1>1, <1>2, EndCheckTyped, NoCheckTyped, CheckKeeps
<1>3. CASE ~check.aborted /\ check' = [check EXCEPT !.stage = "poll"] /\ UNCHANGED modal
  <2>1. check.aborted = FALSE /\ check.busy = TRUE /\ change.stage = "idle"
    BY <1>0, <1>1, <1>3 DEF OneAtATime, Checks
  <2>2. check' \in Checks /\ check'.busy = TRUE
    BY <1>0, <1>3, <2>1 DEF Checks
  <2> QED BY <1>0, <1>1, <1>3, <2>1, <2>2, CheckKeeps
<1> QED BY <1>2, <1>3 DEF Modal!CheckPresses

LEMMA CheckPollsKeeps == ASSUME ModalInv, Modal!CheckPolls PROVE ModalInv'
<1>0. check \in Checks /\ modal \in Modals /\ OneAtATime
  BY DEF ModalInv, ModalShape
<1>1. check.stage = "poll" /\ UNCHANGED <<unit, feed, change>>
  BY DEF Modal!CheckPolls
<1>2. entity' = entity \/ entity' = Modal!Fetched(entity)
  BY DEF Modal!CheckPolls
<1>3. /\ modal' \in Modals /\ modal'.sections = modal.sections /\ modal'.confirmed = modal.confirmed
      /\ modal'.open = modal.open /\ modal'.downgrade = modal.downgrade
      /\ check' \in Checks /\ (change.stage # "idle" => check'.busy = FALSE)
      /\ check'.stage # "none" /\ check'.aborted = FALSE => check'.busy
  <2>1. CASE \E says \in {"", "failed", "updated"} : Modal!EndCheck(says)
    BY <2>1, EndCheckTyped, NoCheckTyped
  <2>2. CASE ~check.aborted /\ check' = [check EXCEPT !.tries = @ + 1] /\ UNCHANGED modal
    <3>1. check.aborted = FALSE /\ check.busy = TRUE /\ change.stage = "idle" /\ check.tries + 1 \in Nat
      BY <1>0, <1>1, <2>2 DEF OneAtATime, Checks
    <3>2. check' \in Checks /\ check'.busy = TRUE
      BY <1>0, <2>2, <3>1 DEF Checks
    <3> QED BY <1>0, <2>2, <3>1, <3>2
  <2> QED BY <2>1, <2>2 DEF Modal!CheckPolls
<1>4. CASE entity' = entity
  BY <1>1, <1>3, <1>4, CheckKeeps
<1>5. CASE entity' = Modal!Fetched(entity)
  BY <1>1, <1>3, <1>5, ReadKeeps
<1> QED BY <1>2, <1>4, <1>5

-----------------------------------------------------------------------------
(* A change of channel, and the install                                    *)
LEMMA IdleTyped ==
  /\ Modal!Idle \in Changes /\ Modal!Idle.stage = "idle" /\ Modal!Idle.kind = "none"
BY UnknownTyped DEF Modal!Idle, Changes

LEMMA SelectChannelKeeps ==
  ASSUME ModalInv, NEW c \in Modal!Channels, Modal!SelectChannel(c) PROVE ModalInv'
<1>1. /\ Modal!Free /\ modal' = [modal EXCEPT !.downgrade = Modal!Unknown]
      /\ change' = [Modal!Idle EXCEPT !.stage = "post", !.kind = "channel"]
      /\ entity' = [entity EXCEPT !.channel = c] /\ UNCHANGED <<unit, feed, check>>
  BY DEF Modal!SelectChannel, Modal!Click
<1>2. modal.open /\ check.busy = FALSE /\ modal \in Modals /\ entity \in Entities
  BY <1>1, FreeMeansIdle DEF ModalInv, ModalShape
<1>3. /\ modal' \in Modals /\ modal'.sections = modal.sections /\ modal'.confirmed = modal.confirmed
      /\ modal'.open
  BY <1>1, <1>2, UnknownTyped DEF Modals
<1>4. change' \in Changes /\ change'.stage = "post" /\ change'.kind = "channel"
  BY <1>1, UnknownTyped DEF Modal!Idle, Changes
<1>5. /\ entity' \in Entities /\ entity'.running = entity.running /\ entity'.latest = entity.latest
      /\ entity'.url = entity.url
  BY <1>1, <1>2 DEF Entities
<1>6. ModalShape' /\ OneOnScreen' /\ Offered'
  BY <1>1, <1>3, <1>4, <1>5 DEF ModalInv, ModalShape, OneOnScreen, Offered
<1>7. SeenByPage' /\ OneAtATime'
  BY <1>1, <1>2, <1>3, <1>4, <1>5 DEF ModalInv, SeenByPage, OneAtATime, Known
<1> QED BY <1>4, <1>6, <1>7 DEF ModalInv, Upward, DownOnlyAsConfirmed

LEMMA ChannelPostedKeeps == ASSUME ModalInv, Modal!ChannelPosted PROVE ModalInv'
<1>0. /\ change.stage = "post" /\ change.kind = "channel" /\ UNCHANGED <<modal, feed, check>>
      /\ modal.open /\ check.busy = FALSE /\ entity \in Entities /\ unit \in Units
      /\ entity.channel \in Modal!Channels /\ unit.channel \in Modal!Channels /\ change \in Changes
  BY DEF Modal!ChannelPosted, ModalInv, ModalShape, OneAtATime, Entities, Units
<1>1. CASE /\ unit' = [unit EXCEPT !.channel = entity.channel, !.checking = TRUE]
           /\ entity' = Modal!Primed(entity, entity.channel)
           /\ change' = [change EXCEPT !.stage = "poll"]
  <2>1. /\ unit' \in Units /\ unit'.channel = entity.channel /\ unit'.running = unit.running
        /\ unit'.latest = unit.latest /\ unit'.found = unit.found
    BY <1>0, <1>1 DEF Units
  <2>2. /\ entity' \in Entities /\ entity'.latest = Modal!Unknown /\ entity'.channel = entity.channel
        /\ entity'.running = entity.running
    BY <1>0, <1>1, PrimedTyped
  <2>3. change' \in Changes /\ change'.stage = "poll" /\ change'.kind = "channel"
    BY <1>0, <1>1 DEF Changes
  <2>4. ModalShape' /\ OneOnScreen' /\ Offered'
    BY <1>0, <2>1, <2>2, <2>3 DEF ModalInv, ModalShape, OneOnScreen, Offered
  <2>5. SeenByPage' /\ OneAtATime'
    BY <1>0, <2>1, <2>2, <2>3 DEF ModalInv, SeenByPage, OneAtATime, Known
  <2> QED BY <2>3, <2>4, <2>5 DEF ModalInv, Upward, DownOnlyAsConfirmed
<1>2. CASE entity' = [entity EXCEPT !.channel = unit.channel] /\ change' = Modal!Idle /\ UNCHANGED unit
  <2>1. /\ entity' \in Entities /\ entity'.channel = unit.channel /\ entity'.running = entity.running
        /\ entity'.latest = entity.latest /\ entity'.url = entity.url
    BY <1>0, <1>2 DEF Entities
  <2>2. change' \in Changes /\ change'.stage = "idle"
    BY <1>2, IdleTyped
  <2>3. ModalShape' /\ OneOnScreen' /\ Offered'
    BY <1>0, <1>2, <2>1, <2>2 DEF ModalInv, ModalShape, OneOnScreen, Offered
  <2>4. SeenByPage' /\ OneAtATime'
    BY <1>0, <1>2, <2>1, <2>2 DEF ModalInv, SeenByPage, OneAtATime, Known
  <2> QED BY <2>2, <2>3, <2>4 DEF ModalInv, Upward, DownOnlyAsConfirmed
<1> QED BY <1>1, <1>2 DEF Modal!ChannelPosted

(* A version the page holds for the present channel was found there.       *)
LEMMA RelatedIsFound ==
  ASSUME ModalInv, Modal!Related(entity), entity.channel = unit.channel
  PROVE  Known /\ entity.url = unit.channel
<1>1. entity.latest # Modal!Unknown /\ Modal!Aligned(entity, entity.channel)
  BY DEF Modal!Related
<1>2. Known /\ entity.latest.tag = TagOf(entity.url)
  BY <1>1 DEF ModalInv, SeenByPage, Known
<1>3. entity.url \in {"main", "dev"} /\ entity.channel \in {"main", "dev"}
  BY DEF ModalInv, ModalShape, Entities, Modal!Channels
<1>4. CASE entity.channel = "dev"
  BY <1>1, <1>2, <1>3, <1>4 DEF Modal!Aligned, TagOf
<1>5. CASE entity.channel = "main"
  BY <1>1, <1>2, <1>3, <1>5 DEF Modal!Aligned, TagOf
<1> QED BY <1>2, <1>3, <1>4, <1>5

LEMMA StartInstallKeeps == ASSUME ModalInv, Modal!StartInstall PROVE ModalInv'
<1>1. /\ Modal!Free /\ (Modal!Available(entity) \/ Modal!Downgrade(entity))
      /\ modal' = [modal EXCEPT !.advanced = FALSE, !.sections = {}, !.confirmed = {}]
      /\ UNCHANGED <<entity, unit, feed, check>>
  BY DEF Modal!StartInstall, Modal!Click
<1>2. PICK kind \in {"downgrade", "transition", "update"} :
        /\ change' = [stage |-> "post", version |-> entity.latest, tries |-> 0, kind |-> kind]
        /\ kind = "update" => ~Modal!Downgrade(entity) /\ ~Modal!Transition(entity)
  <2>1. CASE Modal!Downgrade(entity)
    BY <2>1 DEF Modal!StartInstall
  <2>2. CASE ~Modal!Downgrade(entity) /\ Modal!Transition(entity)
    BY <2>2 DEF Modal!StartInstall
  <2>3. CASE ~Modal!Downgrade(entity) /\ ~Modal!Transition(entity)
    BY <2>3 DEF Modal!StartInstall
  <2> QED BY <2>1, <2>2, <2>3
<1>3. change.stage = "idle" /\ modal.open /\ check.busy = FALSE /\ modal \in Modals
  BY <1>1, FreeMeansIdle DEF ModalInv, ModalShape
<1>9. entity.latest \in Vers /\ entity.channel = unit.channel
  BY <1>3 DEF ModalInv, ModalShape, OneAtATime, Entities
<1>4. modal' \in Modals /\ modal'.sections = {} /\ modal'.confirmed = {} /\ modal'.open
  BY <1>1, <1>3 DEF Modals
<1>5. change' \in Changes /\ change'.stage = "post" /\ change'.kind = kind
  BY <1>2, <1>9 DEF Changes
<1>6. ModalShape' /\ OneOnScreen' /\ Offered'
  BY <1>1, <1>4, <1>5 DEF ModalInv, ModalShape, OneOnScreen, Offered
<1>7. SeenByPage' /\ OneAtATime'
  BY <1>1, <1>3, <1>4, <1>5, <1>9 DEF ModalInv, SeenByPage, OneAtATime, Known
<1>8. Upward'
  <2> SUFFICES ASSUME kind = "update"
               PROVE  Known /\ entity.url = unit.channel /\ Modal!Newer(entity.latest, entity.running)
    BY <1>1, <1>5 DEF Upward, Known
  <2>1. Modal!Related(entity) /\ Modal!Newer(entity.latest, entity.running)
    BY <1>1, <1>2 DEF Modal!Available
  <2> QED BY <1>9, <2>1, RelatedIsFound
<1> QED BY <1>5, <1>6, <1>7, <1>8 DEF ModalInv, DownOnlyAsConfirmed

(* A step of a change that is not made yet, or is given up.                *)
LEMMA ChangeKeeps ==
  ASSUME ModalInv, UNCHANGED <<modal, feed, check>>, change.stage # "idle", change' \in Changes,
         entity' \in Entities, entity'.channel = unit.channel, entity'.running = unit.running,
         unit' = unit \/ unit' = [unit EXCEPT !.checking = TRUE],
         entity'.latest # Modal!Unknown =>
           \/ entity'.latest = entity.latest /\ entity'.url = entity.url
           \/ entity'.latest = unit.latest /\ entity'.url = unit.found,
         change'.stage # "idle" => change'.kind # "none",
         change'.stage = "poll" => change'.kind \in {"channel", "downgrade"},
         change'.stage = "verify" => change'.kind # "channel",
         change'.stage \notin {"post", "requested"},
         change'.kind = "update" /\ change'.stage # "idle" =>
           change.kind = "update" /\ change.stage = "post" /\ entity' = entity
  PROVE  ModalInv'
<1>0. unit' \in Units /\ unit'.channel = unit.channel /\ unit'.running = unit.running
      /\ unit'.latest = unit.latest /\ unit'.found = unit.found
  BY DEF ModalInv, ModalShape, Units
<1>1. ModalShape' /\ OneOnScreen' /\ Offered'
  BY <1>0 DEF ModalInv, ModalShape, OneOnScreen, Offered
<1>2. OneAtATime'
  BY <1>0 DEF ModalInv, OneAtATime
<1>3. unit.latest.n \in Nat
  BY DEF ModalInv, ModalShape, Units, Vers
<1>4. SeenByPage'
  BY <1>0, <1>3 DEF ModalInv, SeenByPage, Offered, Known
<1>5. Upward'
  BY <1>0 DEF ModalInv, Upward, Known
<1> QED BY <1>1, <1>2, <1>4, <1>5 DEF ModalInv, DownOnlyAsConfirmed

LEMMA TargetPostedKeeps == ASSUME ModalInv, Modal!TargetPosted PROVE ModalInv'
<1>0. /\ change.stage = "post" /\ change.kind # "channel" /\ change.kind # "none"
      /\ UNCHANGED <<modal, feed, check>>
      /\ entity.channel = unit.channel /\ entity.running = unit.running /\ entity \in Entities
      /\ entity.channel \in Modal!Channels /\ change \in Changes
  BY DEF Modal!TargetPosted, ModalInv, ModalShape, OneAtATime, SeenByPage, Entities
<1>1. CASE /\ change.kind = "downgrade" /\ unit' = [unit EXCEPT !.checking = TRUE]
           /\ entity' = Modal!Primed(entity, entity.channel)
           /\ change' = [change EXCEPT !.stage = "poll"]
  <2>1. /\ entity' \in Entities /\ entity'.latest = Modal!Unknown /\ entity'.channel = unit.channel
        /\ entity'.running = unit.running
    BY <1>0, <1>1, PrimedTyped
  <2>2. change' \in Changes /\ change'.stage = "poll" /\ change'.kind = "downgrade"
    BY <1>0, <1>1 DEF Changes
  <2> QED BY <1>0, <1>1, <2>1, <2>2, ChangeKeeps
<1>2. CASE /\ change.kind # "downgrade" /\ unit' = [unit EXCEPT !.checking = TRUE]
           /\ UNCHANGED entity /\ change' = [change EXCEPT !.stage = "verify"]
  <2>1. change' \in Changes /\ change'.stage = "verify" /\ change'.kind = change.kind
    BY <1>0, <1>2 DEF Changes
  <2> QED BY <1>0, <1>2, <2>1, ChangeKeeps
<1>3. CASE change' = Modal!Idle /\ UNCHANGED <<unit, entity>>
  BY <1>0, <1>3, IdleTyped, ChangeKeeps
<1> QED BY <1>1, <1>2, <1>3 DEF Modal!TargetPosted

LEMMA ChangePollsKeeps == ASSUME ModalInv, Modal!ChangePolls PROVE ModalInv'
<1>0. /\ change.stage = "poll" /\ change.kind \in {"channel", "downgrade"}
      /\ UNCHANGED <<modal, unit, feed, check>> /\ entity' \in {entity, Modal!Fetched(entity)}
      /\ entity.channel = unit.channel /\ entity.running = unit.running /\ entity \in Entities
      /\ change \in Changes /\ change.tries \in Nat
  BY DEF Modal!ChangePolls, ModalInv, ModalShape, OneAtATime, SeenByPage, Changes
<1>1. /\ entity' \in Entities /\ entity'.channel = unit.channel /\ entity'.running = unit.running
      /\ \/ entity'.latest = entity.latest /\ entity'.url = entity.url
         \/ entity'.latest = unit.latest /\ entity'.url = unit.found
  BY <1>0, FetchedTyped
<1>2. CASE change' = Modal!Idle
  BY <1>0, <1>1, <1>2, IdleTyped, ChangeKeeps
<1>3. CASE change.kind # "channel" /\ change' = [change EXCEPT !.stage = "verify"]
  <2>1. change' \in Changes /\ change'.stage = "verify" /\ change'.kind = "downgrade"
    BY <1>0, <1>3 DEF Changes
  <2> QED BY <1>0, <1>1, <2>1, ChangeKeeps
<1>4. CASE change' = [change EXCEPT !.tries = @ + 1]
  <2>1. change.tries + 1 \in Nat
    BY <1>0
  <2>2. change' \in Changes /\ change'.stage = "poll" /\ change'.kind = change.kind
    BY <1>0, <1>4, <2>1 DEF Changes
  <2> QED BY <1>0, <1>1, <2>2, ChangeKeeps
<1> QED BY <1>2, <1>3, <1>4 DEF Modal!ChangePolls

(* What is asked of the device is what was confirmed: a downgrade by the   *)
(* question asked here, any other install because it goes upward.          *)
LEMMA RequestInstallKeeps == ASSUME ModalInv, Modal!RequestInstall PROVE ModalInv'
<1>0. /\ change.stage = "verify" /\ UNCHANGED <<modal, entity, unit, feed, check>>
      /\ change \in Changes /\ change.kind \in {"downgrade", "transition", "update"}
      /\ entity.latest \in Vers /\ entity.running \in Vers
  BY DEF Modal!RequestInstall, ModalInv, ModalShape, OneAtATime, Changes, Entities
<1>1. CASE change' = Modal!Idle
  <2>1. change' \in Changes /\ change'.stage = "idle"
    BY <1>1, IdleTyped
  <2> QED BY <1>0, <2>1 DEF ModalInv, ModalShape, OneOnScreen, Offered, SeenByPage, OneAtATime, Upward,
                            DownOnlyAsConfirmed, Known
<1>2. CASE Modal!Verified /\ change' = [change EXCEPT !.stage = "requested", !.version = entity.latest]
  <2>1. /\ change' \in Changes /\ change'.stage = "requested" /\ change'.kind = change.kind
        /\ change'.version = entity.latest
    BY <1>0, <1>2 DEF Changes
  <2>2. ModalShape' /\ OneOnScreen' /\ Offered' /\ SeenByPage' /\ OneAtATime' /\ Upward'
    BY <1>0, <2>1 DEF ModalInv, ModalShape, OneOnScreen, Offered, SeenByPage, OneAtATime, Upward, Known
  <2>3. DownOnlyAsConfirmed'
    <3> SUFFICES ASSUME Modal!Newer(entity.running, entity.latest), Modal!Channel(entity.running) = "dev"
                 PROVE  modal.downgrade = entity.latest
      BY <1>0, <2>1 DEF DownOnlyAsConfirmed
    <3>1. CASE change.kind = "downgrade"
      BY <1>2, <3>1 DEF Modal!Verified
    <3>2. CASE change.kind = "transition"
      BY <1>2, <3>2 DEF Modal!Verified, Modal!Transition
    <3>3. CASE change.kind = "update"
      BY <1>0, <3>3, NotBothNewer DEF ModalInv, Upward
    <3> QED BY <1>0, <3>1, <3>2, <3>3
  <2> QED BY <2>2, <2>3 DEF ModalInv
<1> QED BY <1>1, <1>2 DEF Modal!RequestInstall

-----------------------------------------------------------------------------
(* The device and the release channels                                     *)
LEMMA UnitFindsKeeps == ASSUME ModalInv, Modal!UnitFinds PROVE ModalInv'
<1>0. /\ unit' = [unit EXCEPT !.checking = FALSE, !.latest = feed[unit.channel],
                              !.found = unit.channel, !.rev = @ + 1]
      /\ UNCHANGED <<modal, entity, feed, check, change>> /\ unit \in Units /\ unit.rev \in Nat
      /\ unit.channel \in Modal!Channels /\ feed[unit.channel] \in Vers
  BY DEF Modal!UnitFinds, ModalInv, ModalShape, Units
<1>1. unit.rev + 1 \in Nat /\ feed[unit.channel].n \in Nat /\ unit.latest.n \in Nat
  <2>1. unit.latest \in Vers
    BY <1>0 DEF Units
  <2> QED BY <1>0, <2>1, NumberTyped, NextNumber
<1>2. /\ unit' \in Units /\ unit'.latest = feed[unit.channel] /\ unit'.found = unit.channel
      /\ unit'.channel = unit.channel /\ unit'.running = unit.running
  BY <1>0, <1>1 DEF Units
<1>3. ModalShape' /\ OneOnScreen' /\ Offered'
  BY <1>0, <1>1, <1>2 DEF ModalInv, ModalShape, OneOnScreen, Offered
<1>4. SeenByPage'
  <2>1. ASSUME Known, entity.url = unit.channel PROVE entity.latest.n <= feed[unit.channel].n
    <3>1. unit.found = unit.channel /\ entity.latest.n <= unit.latest.n
      BY <2>1 DEF ModalInv, SeenByPage
    <3>2. unit.latest.n <= feed[unit.channel].n /\ entity.latest.n \in Nat
      BY <3>1 DEF ModalInv, ModalShape, Offered, Entities, Vers
    <3> QED BY <1>1, <3>1, <3>2
  <2> QED BY <1>0, <1>2, <2>1 DEF ModalInv, SeenByPage, Known
<1>5. OneAtATime' /\ Upward' /\ DownOnlyAsConfirmed'
  BY <1>0, <1>2 DEF ModalInv, OneAtATime, Upward, DownOnlyAsConfirmed, Known
<1> QED BY <1>3, <1>4, <1>5 DEF ModalInv

LEMMA PublishKeeps == ASSUME ModalInv, NEW c \in Modal!Channels, Modal!Publish(c) PROVE ModalInv'
<1>0. /\ feed' = [feed EXCEPT ![c].n = @ + 1] /\ UNCHANGED <<modal, entity, unit, check, change>>
      /\ feed \in [Modal!Channels -> Vers]
  BY DEF Modal!Publish, ModalInv, ModalShape
<1>1. feed[c] \in Vers
  BY <1>0
<1>2. feed[c].n \in Nat /\ feed[c].n + 1 \in Nat /\ feed[c].n <= feed[c].n + 1
  BY <1>1, NumberTyped, NextNumber
<1>8. /\ [feed[c] EXCEPT !.n = @ + 1] \in Vers
      /\ [feed[c] EXCEPT !.n = @ + 1].tag = feed[c].tag
      /\ [feed[c] EXCEPT !.n = @ + 1].n = feed[c].n + 1
  BY <1>1, <1>2 DEF Vers
<1>9. feed' = [feed EXCEPT ![c] = [feed[c] EXCEPT !.n = @ + 1]]
  BY <1>0
<1>3. feed' \in [Modal!Channels -> Vers]
  BY <1>0, <1>8, <1>9
<1>4. ASSUME NEW d \in Modal!Channels
      PROVE  feed'[d].tag = feed[d].tag /\ feed[d].n <= feed'[d].n /\ feed[d].n \in Nat
  <2>1. CASE d = c
    BY <1>0, <1>2, <1>8, <1>9, <2>1
  <2>2. CASE d # c
    <3>1. feed'[d] = feed[d] /\ feed[d] \in Vers
      BY <1>0, <1>9, <2>2
    <3>2. feed[d].n \in Nat
      BY <3>1 DEF Vers
    <3> QED BY <3>1, <3>2
  <2> QED BY <2>1, <2>2
<1>5. unit.found \in Modal!Channels /\ unit.latest.n \in Nat
  BY DEF ModalInv, ModalShape, Units, Vers
<1>6. Offered'
  <2>1. feed'[unit.found].n \in Nat
    BY <1>3, <1>5 DEF Vers
  <2>2. unit.latest.n <= feed[unit.found].n
    BY DEF ModalInv, Offered
  <2>3. unit.latest.n <= feed'[unit.found].n
    BY <1>4, <1>5, <2>1, <2>2
  <2> QED BY <1>0, <1>4, <2>3 DEF ModalInv, Offered
<1>7. ModalShape' /\ OneOnScreen' /\ SeenByPage' /\ OneAtATime' /\ Upward' /\ DownOnlyAsConfirmed'
  BY <1>0, <1>3 DEF ModalInv, ModalShape, OneOnScreen, SeenByPage, OneAtATime, Upward, DownOnlyAsConfirmed,
                    Known
<1> QED BY <1>6, <1>7 DEF ModalInv

LEMMA ModalInit == ASSUME Modal!Init PROVE ModalInv
<1>1. Newest \in Nat
  BY WebAssumption DEF WebAssumption
<1>2. feed = [c \in Modal!Channels |-> [n |-> 1, tag |-> TagOf(c)]]
  BY DEF Modal!Init, TagOf
<1>3. feed \in [Modal!Channels -> Vers]
  BY <1>2 DEF Vers, TagOf
<1>4. PICK tag \in {"", "dev", "pr"}, c \in Modal!Channels :
        unit = [channel |-> c, running |-> [n |-> IF tag = "" THEN 1 ELSE Newest, tag |-> tag],
                latest |-> feed[c], found |-> c, checking |-> FALSE, rev |-> 1]
  BY DEF Modal!Init
<1>5. unit.running \in Vers /\ feed[c] \in Vers
  BY <1>1, <1>3, <1>4 DEF Vers
<1>6. unit \in Units /\ unit.latest = feed[c] /\ unit.found = c
  BY <1>4, <1>5 DEF Units
<1>7. /\ entity = [channel |-> unit.channel, running |-> unit.running, latest |-> unit.latest,
                   url |-> unit.found, checking |-> FALSE, rev |-> 1]
      /\ modal = Modal!Closed /\ check = Modal!NoCheck /\ change = Modal!Idle
  BY DEF Modal!Init
<1>8. entity \in Entities
  BY <1>6, <1>7 DEF Entities, Units
<1>9. ModalShape /\ OneOnScreen
  BY <1>3, <1>6, <1>7, <1>8, ClosedTyped, NoCheckTyped, IdleTyped DEF ModalShape, OneOnScreen
<1>13. feed[c].n \in Nat /\ feed[c].tag = TagOf(c)
  BY <1>2, <1>5 DEF Vers
<1>14. \A d \in Modal!Channels : feed[d].tag = TagOf(d)
  BY <1>2
<1>10. Offered
  <2>1. feed[c].n <= feed[c].n
    BY <1>13, NextNumber
  <2> QED BY <1>6, <1>13, <1>14, <2>1 DEF Offered
<1>11. SeenByPage
  <2>1. feed[c].n <= feed[c].n
    BY <1>13, NextNumber
  <2>2. /\ entity.running = unit.running /\ entity.latest = feed[c] /\ entity.url = c
        /\ unit.channel = c
    BY <1>4, <1>6, <1>7
  <2> QED BY <1>6, <1>13, <2>1, <2>2 DEF SeenByPage, Known
<1>12. OneAtATime /\ Upward /\ DownOnlyAsConfirmed
  BY <1>7, NoCheckTyped, IdleTyped DEF OneAtATime, Upward, DownOnlyAsConfirmed
<1> QED BY <1>9, <1>10, <1>11, <1>12 DEF ModalInv

LEMMA ModalStep == ASSUME ModalInv, [Modal!Next]_modalVars PROVE ModalInv'
<1>1. CASE UNCHANGED modalVars
  BY <1>1 DEF modalVars, ModalInv, ModalShape, OneOnScreen, Offered, SeenByPage, OneAtATime, Upward,
              DownOnlyAsConfirmed, Known
<1>2. CASE \/ Modal!OpenModal \/ Modal!Hydrate \/ Modal!CloseModal \/ Modal!ClickBeside
           \/ Modal!ToggleAdvanced \/ Modal!EditTest \/ Modal!ConfirmDowngrade
           \/ \E s \in Modal!Sections : Modal!ToggleSection(s) \/ Modal!Confirm(s)
  BY <1>2, OpenModalKeeps, HydrateKeeps, CloseKeeps, PanelsKeep
<1>3. CASE Modal!StartCheck \/ Modal!CheckReads \/ Modal!CheckPresses \/ Modal!CheckPolls
  BY <1>3, StartCheckKeeps, CheckReadsKeeps, CheckPressesKeeps, CheckPollsKeeps
<1>4. CASE \/ Modal!ChannelPosted \/ Modal!StartInstall \/ Modal!TargetPosted \/ Modal!ChangePolls
           \/ Modal!RequestInstall \/ Modal!UnitFinds
  BY <1>4, ChannelPostedKeeps, StartInstallKeeps, TargetPostedKeeps, ChangePollsKeeps,
     RequestInstallKeeps, UnitFindsKeeps
<1>5. CASE \E c \in Modal!Channels : Modal!SelectChannel(c) \/ Modal!Publish(c)
  BY <1>5, SelectChannelKeeps, PublishKeeps
<1> QED BY <1>1, <1>2, <1>3, <1>4, <1>5 DEF Modal!Next

(* What is confirmed is on screen, and the device is asked to install a    *)
(* version over a newer development build only when that very version was  *)
(* confirmed, whatever is released or found meanwhile                      *)
(* (installFirmwareUpdate, setFirmwareUpdateTarget).                       *)
THEOREM InstalledOnlyAsConfirmed == WebSpec => []OnlyAsConfirmed
<1>1. WebInit => ModalInv
  BY ModalInit DEF WebInit
<1>2. ModalInv /\ [WebNext]_web => ModalInv'
  <2> SUFFICES ASSUME ModalInv, [WebNext]_web PROVE ModalInv'
    OBVIOUS
  <2>1. [Modal!Next]_modalVars
    BY DEF WebNext, web
  <2> QED BY <2>1, ModalStep
<1>3. ModalInv => OnlyAsConfirmed
  <2> SUFFICES ASSUME ModalInv PROVE Modal!OnlyAsConfirmed
    BY DEF OnlyAsConfirmed
  <2>1. \A s, t \in modal.sections : s = t
    BY DEF ModalInv, OneOnScreen
  <2> QED BY <2>1 DEF ModalInv, OneOnScreen, DownOnlyAsConfirmed, Modal!OnlyAsConfirmed
<1> QED BY <1>1, <1>2, <1>3, PTL DEF WebSpec

-----------------------------------------------------------------------------
(***************************************************************************)
(* Part 4: an install and the way back to the device                       *)
(***************************************************************************)
Phases   == {"idle", "error", "uploading", "rebooting", "flashed"}
Hosts    == [ up : BOOLEAN, boots : Nat, build : Install!Builds, phase : Phases, next : Install!Builds ]
Pages    == [ boots : Nat, build : Install!Builds, phase : Phases ]
Installs == [ mode : Install!Modes \cup {"none"}, stage : {"idle", "target", "request", "poll"},
              tries : Nat, done : BOOLEAN, seen : BOOLEAN, success : BOOLEAN, resumed : BOOLEAN,
              asked : Nat, target : Install!Builds ]
Records  == [ status : {"none", "pending", "successful", "complete"}, target : Install!Builds,
              source : Install!Builds ]
Polls    == [ stage : {"idle", "answered"}, answer : Pages ]

InstallShape == host \in Hosts /\ page \in Pages /\ install \in Installs /\ record \in Records /\ poll \in Polls

(* A page tells what the device ran in the boot it tells of.               *)
TrueOf(pg) == pg.boots <= host.boots /\ (pg.boots = host.boots => pg.build = host.build)
After(pg)  == page.boots <= pg.boots /\ (pg.boots = page.boots => pg.build = page.build)

(* An answer on its way is no older than what the page has.                *)
Truth == TrueOf(page) /\ (poll.stage = "answered" =>
                            /\ TrueOf(poll.answer) /\ After(poll.answer)
                            /\ host.up => poll.answer.boots = host.boots)

(* What is installed was not running yet in the boot it was asked in.      *)
Asked ==
  /\ install.stage # "idle" => install.mode # "none"
  /\ install.mode # "none" => install.asked <= page.boots
  /\ install.mode = "normal" /\ install.asked = page.boots => page.build.version < Latest
  /\ install.mode = "switch" /\ install.asked = page.boots => page.build.setup # install.target.setup

InstallInv == InstallShape /\ Truth /\ Asked

(* A step that reports an install.                                         *)
Announced ==
  install'.done /\ ~install.done /\ install.mode # "upload"
    => /\ Install!Runs(page'.build, install)
       /\ page'.boots = host.boots => Install!Runs(host.build, install)
       /\ page'.boots >= install.asked
       /\ install.mode # "quickstart" => page'.boots > install.asked

LEMMA NothingTyped ==
  ASSUME InstallShape
  PROVE  /\ Install!NoInstall \in Installs /\ Install!NoInstall.stage = "idle"
         /\ Install!NoInstall.mode = "none" /\ Install!NoInstall.done = FALSE
         /\ Install!NoRecord \in Records
<1>1. host.build \in Install!Builds
  BY DEF InstallShape, Hosts
<1>2. (CHOOSE b \in Install!Builds : TRUE) \in Install!Builds
  BY <1>1
<1> QED BY <1>2 DEF Install!NoInstall, Install!NoRecord, Installs, Records, Install!Modes

(* Only the install moves, and the device takes a request.                 *)
LEMMA InstallMoves ==
  ASSUME InstallInv, host' \in Hosts, host'.boots = host.boots, host'.build = host.build,
         host'.up = host.up, page' = page, poll' = poll, record' \in Records, install' \in Installs,
         \/ install'.mode = "none" /\ install'.stage = "idle"
         \/ /\ install'.mode = install.mode /\ install'.asked = install.asked /\ install.mode # "none"
            /\ install'.target = install.target
  PROVE  InstallInv'
<1>1. InstallShape' /\ Truth'
  BY DEF InstallInv, InstallShape, Truth, TrueOf, After
<1>2. Asked'
  BY DEF InstallInv, Asked
<1> QED BY <1>1, <1>2 DEF InstallInv

LEMMA AskingKeeps == ASSUME InstallInv, Install!StartInstall PROVE InstallInv' /\ install'.done = FALSE
<1>1. PICK mode \in Install!Modes, b \in Install!Builds :
        /\ Install!Offered(mode, b)
        /\ install' = [Install!NoInstall EXCEPT !.mode = mode, !.target = b, !.asked = page.boots,
                         !.stage = IF mode = "upload" THEN "request" ELSE "target"]
  BY DEF Install!StartInstall
<1>2. UNCHANGED <<host, page, record, poll>> /\ InstallShape /\ page.boots \in Nat
  BY DEF Install!StartInstall, InstallInv, InstallShape, Pages
<1>3. /\ install' \in Installs /\ install'.mode = mode /\ install'.target = b
      /\ install'.asked = page.boots /\ install'.done = FALSE
  BY <1>1, <1>2, NothingTyped DEF Installs
<1>4. mode # "none" /\ page.boots <= page.boots
  BY <1>2 DEF Install!Modes
<1>5. mode = "normal" => page.build.version < Latest
  BY <1>1 DEF Install!Offered
<1>6. mode = "switch" => page.build.setup # b.setup
  BY <1>1 DEF Install!Offered
<1>7. InstallShape' /\ Truth'
  BY <1>2, <1>3 DEF InstallInv, InstallShape, Truth, TrueOf, After
<1>8. Asked'
  BY <1>2, <1>3, <1>4, <1>5, <1>6 DEF Asked
<1> QED BY <1>3, <1>7, <1>8 DEF InstallInv

LEMMA TargetKeeps ==
  ASSUME InstallInv, Install!TargetFails \/ Install!AlreadyCurrent \/ Install!TargetReady
  PROVE  InstallInv' /\ install'.done \in {FALSE, install.done}
<1>0. /\ UNCHANGED <<host, page, poll>> /\ install.stage = "target" /\ install.mode # "none"
      /\ host \in Hosts /\ install \in Installs /\ record \in Records /\ install.target \in Install!Builds
      /\ page.build \in Install!Builds /\ InstallShape
  BY DEF Install!TargetFails, Install!AlreadyCurrent, Install!TargetReady, InstallInv, InstallShape, Asked,
         Installs, Pages
<1>1. /\ \/ install' = Install!NoInstall
         \/ install' = [install EXCEPT !.stage = "idle"]
         \/ install' = [install EXCEPT !.stage = "request"]
      /\ \/ record' \in {record, Install!NoRecord}
         \/ \E status \in {"pending", "complete"} :
              record' = [status |-> status, target |-> install.target, source |-> page.build]
  <2>1. CASE Install!TargetFails
    BY <2>1 DEF Install!TargetFails, Install!Kept
  <2>2. CASE Install!AlreadyCurrent
    BY <2>2 DEF Install!AlreadyCurrent
  <2>3. CASE Install!TargetReady
    BY <2>3 DEF Install!TargetReady
  <2> QED BY <2>1, <2>2, <2>3
<1>2. record' \in Records
  BY <1>0, <1>1, NothingTyped DEF Records
<1>3. /\ install' \in Installs /\ install'.done \in {FALSE, install.done}
      /\ \/ install'.mode = "none" /\ install'.stage = "idle"
         \/ /\ install'.mode = install.mode /\ install'.asked = install.asked
            /\ install'.target = install.target
  BY <1>0, <1>1, NothingTyped DEF Installs
<1> QED BY <1>0, <1>2, <1>3, InstallMoves

LEMMA TakenTyped ==
  ASSUME InstallInv, NEW h \in Install!Taken
  PROVE  h \in Hosts /\ h.boots = host.boots /\ h.build = host.build /\ h.up = host.up
<1>1. host \in Hosts /\ install.target \in Install!Builds
  BY DEF InstallInv, InstallShape, Installs
<1>2. h = host \/ h = Install!Updating
  BY DEF Install!Taken
<1> QED BY <1>1, <1>2 DEF Install!Updating, Hosts, Phases

LEMMA RequestKeeps ==
  ASSUME InstallInv, Install!RequestAccepted \/ Install!RequestLost \/ Install!RequestRefused
  PROVE  InstallInv' /\ install'.done \in {FALSE, install.done}
<1>0. /\ UNCHANGED <<page, poll>> /\ install.stage = "request" /\ install.mode # "none"
      /\ host \in Hosts /\ install \in Installs /\ record \in Records /\ InstallShape
  BY DEF Install!RequestAccepted, Install!RequestLost, Install!RequestRefused, InstallInv, InstallShape, Asked
<1>1. /\ host' = host \/ host' \in Install!Taken
      /\ record' \in {record, Install!NoRecord}
      /\ \/ install' = Install!NoInstall
         \/ install' = [install EXCEPT !.stage = "idle"]
         \/ install' = [install EXCEPT !.stage = "poll"]
  <2>1. CASE Install!RequestAccepted
    BY <2>1 DEF Install!RequestAccepted
  <2>2. CASE Install!RequestLost
    BY <2>2 DEF Install!RequestLost, Install!Kept
  <2>3. CASE Install!RequestRefused
    BY <2>3 DEF Install!RequestRefused
  <2> QED BY <2>1, <2>2, <2>3
<1>2. host' \in Hosts /\ host'.boots = host.boots /\ host'.build = host.build /\ host'.up = host.up
  BY <1>0, <1>1, TakenTyped
<1>3. /\ record' \in Records /\ install' \in Installs /\ install'.done \in {FALSE, install.done}
      /\ \/ install'.mode = "none" /\ install'.stage = "idle"
         \/ /\ install'.mode = install.mode /\ install'.asked = install.asked
            /\ install'.target = install.target
  BY <1>0, <1>1, NothingTyped DEF Installs
<1> QED BY <1>0, <1>2, <1>3, InstallMoves

-----------------------------------------------------------------------------
(* What the end of an attempt confirms, the page tells of the device; of   *)
(* an update or a switch it tells so in a later boot.                      *)
LEMMA ConfirmedRuns ==
  ASSUME InstallInv, NEW pg \in Pages, TrueOf(pg), After(pg), NEW i, NEW quiet, NEW rec,
         i.mode = install.mode, i.target = install.target, install.mode \in Install!Modes \ {"upload"},
         Install!Confirmed(pg, i, quiet, rec)
  PROVE  /\ Install!Runs(pg.build, install)
         /\ pg.boots = host.boots => Install!Runs(host.build, install)
         /\ pg.boots >= install.asked
         /\ install.mode # "quickstart" => pg.boots > install.asked
<1>1. /\ Install!Settled(pg, i) /\ (install.mode # "normal" => pg.build.setup = install.target.setup)
      /\ install.mode \in {"normal", "switch", "quickstart"}
  BY DEF Install!Confirmed, Install!SetupConfirmed, Install!Modes
<1>2. /\ pg.build.version >= install.target.version /\ pg.build.version >= Latest
  BY <1>1 DEF Install!Settled, Install!HasTarget
<1>3. Install!Runs(pg.build, install)
  BY <1>1, <1>2 DEF Install!Runs
<1>4. pg.boots = host.boots => pg.build = host.build
  BY DEF TrueOf
<1>5. /\ pg.boots \in Nat /\ page.boots \in Nat /\ install.asked \in Nat
      /\ page.boots <= pg.boots /\ install.asked <= page.boots
  BY <1>1 DEF InstallInv, InstallShape, Asked, After, Pages, Installs
<1>6. ASSUME install.mode # "quickstart", pg.boots = install.asked PROVE FALSE
  <2>1. page.boots = install.asked /\ pg.build = page.build
    BY <1>5, <1>6 DEF After
  <2>2. CASE install.mode = "normal"
    <3>1. page.build.version < Latest
      BY <2>1, <2>2 DEF InstallInv, Asked
    <3>2. page.build.version \in Nat /\ Latest \in Nat
      BY WebAssumption DEF WebAssumption, InstallInv, InstallShape, Pages, Install!Builds
    <3> QED BY <1>2, <2>1, <3>1, <3>2
  <2>3. CASE install.mode = "switch"
    BY <1>1, <2>1, <2>3 DEF InstallInv, Asked
  <2> QED BY <1>1, <1>6, <2>2, <2>3
<1>7. pg.boots >= install.asked /\ (install.mode # "quickstart" => pg.boots > install.asked)
  BY <1>5, <1>6
<1> QED BY <1>3, <1>4, <1>7

LEMMA AttemptKeeps ==
  ASSUME InstallInv, install.stage = "poll", UNCHANGED <<host, poll>>, NEW pg \in Pages, TrueOf(pg),
         After(pg), poll.stage = "answered" =>
                      pg.boots <= poll.answer.boots
                        /\ (poll.answer.boots = pg.boots => poll.answer.build = pg.build),
         NEW ov, NEW rf, NEW fresh \in BOOLEAN, Install!AfterAttempt(pg, ov, rf, fresh)
  PROVE  InstallInv' /\ Announced
<1> DEFINE i   == [install EXCEPT !.tries = @ + 1, !.seen = @ \/ fresh,
                     !.success = @ \/ (install.mode = "quickstart" /\ pg.phase = "rebooting"
                                       /\ (install.seen \/ fresh))]
           rec == IF install.mode = "quickstart" /\ i.success /\ record.status = "pending"
                  THEN [record EXCEPT !.status = "successful"] ELSE record
<1>0. /\ install \in Installs /\ record \in Records /\ InstallShape /\ install.mode \in Install!Modes
      /\ install.tries \in Nat /\ install.seen \in BOOLEAN /\ install.success \in BOOLEAN
  BY DEF InstallInv, InstallShape, Asked, Installs
<1>1. install.tries + 1 \in Nat
  BY <1>0
<1>2. /\ i \in Installs /\ i.mode = install.mode /\ i.target = install.target
      /\ i.asked = install.asked /\ i.done = install.done
  BY <1>0, <1>1 DEF Installs
<1>3. rec \in Records
  BY <1>0 DEF Records
<1> HIDE DEF rec
<1>4. /\ page' = pg
      /\ \/ install' = Install!NoInstall /\ record' \in {Install!NoRecord, record}
         \/ /\ Install!Confirmed(pg, i, rf.ota, rec)
            /\ install' = [Install!NoInstall EXCEPT !.done = TRUE]
            /\ record' \in {[rec EXCEPT !.status = "complete"], rec}
         \/ /\ record' = rec
            /\ install' \in {i, Install!NoInstall, [i EXCEPT !.stage = "idle", !.tries = 0]}
  <2>1. page' = pg
    BY DEF Install!AfterAttempt
  <2> QED BY <2>1 DEF Install!AfterAttempt, rec
<1> HIDE DEF i
<1>10. record' \in Records
  BY <1>0, <1>3, <1>4, NothingTyped DEF Records
<1>5. /\ install' \in Installs /\ (install'.done => install.done \/ Install!Confirmed(pg, i, rf.ota, rec))
      /\ \/ install'.mode = "none" /\ install'.stage = "idle"
         \/ install'.mode = install.mode /\ install'.asked = install.asked /\ install'.target = install.target
  <2>1. CASE install' = Install!NoInstall
    BY <2>1, <1>0, NothingTyped
  <2>2. CASE /\ Install!Confirmed(pg, i, rf.ota, rec)
             /\ install' = [Install!NoInstall EXCEPT !.done = TRUE]
    BY <2>2, <1>0, NothingTyped DEF Installs
  <2>3. CASE install' = i
    BY <2>3, <1>2
  <2>4. CASE install' = [i EXCEPT !.stage = "idle", !.tries = 0]
    BY <2>4, <1>2 DEF Installs
  <2> QED BY <1>4, <2>1, <2>2, <2>3, <2>4
<1>7. InstallShape' /\ Truth'
  BY <1>4, <1>5, <1>10 DEF InstallInv, InstallShape, Truth, TrueOf, After
<1>8. Asked'
  <2>1. page.boots \in Nat /\ pg.boots \in Nat /\ install.asked \in Nat
    BY <1>0 DEF InstallShape, Pages, Installs
  <2>2. install.asked <= page.boots /\ page.boots <= pg.boots /\ install.mode # "none"
    BY <1>0 DEF InstallInv, Asked, After, Install!Modes
  <2>3. install.asked <= pg.boots /\ (install.asked = pg.boots => install.asked = page.boots /\ pg.build = page.build)
    BY <2>1, <2>2 DEF After
  <2> QED BY <1>4, <1>5, <2>2, <2>3 DEF InstallInv, Asked
<1>9. Announced
  BY <1>0, <1>2, <1>4, <1>5, ConfirmedRuns DEF Announced
<1> QED BY <1>7, <1>8, <1>9 DEF InstallInv

LEMMA ReadIs ==
  ASSUME InstallInv
  PROVE  /\ Install!Read \in Pages /\ Install!Read.boots = host.boots /\ Install!Read.build = host.build
         /\ TrueOf(Install!Read) /\ After(Install!Read)
<1>1. /\ Install!Read \in Pages /\ Install!Read.boots = host.boots /\ Install!Read.build = host.build
      /\ host.boots \in Nat
  BY DEF InstallInv, InstallShape, Install!Read, Hosts, Pages
<1>2. host.boots <= host.boots
  BY <1>1
<1> QED BY <1>1, <1>2 DEF InstallInv, Truth, TrueOf, After

LEMMA AttemptsKeep ==
  ASSUME InstallInv, Install!AttemptAnswered \/ Install!AttemptFails PROVE InstallInv' /\ Announced
<1>0. page \in Pages /\ page.boots \in Nat /\ host.boots \in Nat
  BY DEF InstallInv, InstallShape, Pages, Hosts
<1>1. CASE Install!AttemptAnswered
  <2>1. PICK fell \in BOOLEAN :
          Install!AfterAttempt(Install!Read, Install!Recovered(overlay, Install!Noted(Install!Read, fell, refresh).restart),
                               Install!Noted(Install!Read, fell, refresh), TRUE)
    BY <1>1 DEF Install!AttemptAnswered
  <2>2. install.stage = "poll" /\ host.up /\ UNCHANGED <<host, poll>>
    BY <1>1 DEF Install!AttemptAnswered
  <2>3. poll.stage = "answered" =>
          host.boots <= poll.answer.boots /\ (poll.answer.boots = host.boots => poll.answer.build = host.build)
    BY <1>0, <2>2 DEF InstallInv, Truth, TrueOf
  <2> QED BY <2>1, <2>2, <2>3, ReadIs, AttemptKeeps
<1>2. CASE Install!AttemptFails
  <2>1. PICK severed \in BOOLEAN :
          Install!AfterAttempt(page, Install!Failed(overlay, refresh, severed),
                               Install!Fallen(refresh, severed), FALSE)
    BY <1>2 DEF Install!AttemptFails
  <2>2. install.stage = "poll" /\ UNCHANGED <<host, poll>>
    BY <1>2 DEF Install!AttemptFails
  <2>3. TrueOf(page) /\ After(page)
    BY <1>0 DEF InstallInv, Truth, After
  <2>4. poll.stage = "answered" =>
          page.boots <= poll.answer.boots /\ (poll.answer.boots = page.boots => poll.answer.build = page.build)
    BY DEF InstallInv, Truth, After
  <2> QED BY <1>0, <2>1, <2>2, <2>3, <2>4, AttemptKeeps
<1> QED BY <1>1, <1>2

LEMMA ReconcileKeeps == ASSUME InstallInv, Install!ReconcileStored PROVE InstallInv' /\ Announced
<1> DEFINE i   == [install EXCEPT !.success = @ \/ page.phase = "rebooting"]
           rec == IF page.phase = "rebooting" THEN [record EXCEPT !.status = "successful"] ELSE record
<1>0. /\ UNCHANGED <<host, page, poll>> /\ install.mode = "quickstart" /\ install \in Installs
      /\ record \in Records /\ InstallShape /\ host \in Hosts /\ page \in Pages
      /\ install.success \in BOOLEAN /\ page.boots \in Nat
  BY DEF Install!ReconcileStored, InstallInv, InstallShape, Installs, Pages
<1>2. /\ i \in Installs /\ i.mode = install.mode /\ i.target = install.target
      /\ i.asked = install.asked /\ i.done = install.done
  BY <1>0 DEF Installs
<1>3. rec \in Records
  BY <1>0 DEF Records
<1>4. \/ install' = Install!NoInstall /\ record' = Install!NoRecord
      \/ /\ Install!SetupConfirmed(page, i, refresh.ota, rec)
         /\ install' = [Install!NoInstall EXCEPT !.done = TRUE]
         /\ record' = [rec EXCEPT !.status = "complete"]
      \/ record' = rec /\ install' = i
  BY DEF Install!ReconcileStored
<1> HIDE DEF i, rec
<1>5. record' \in Records /\ install' \in Installs
      /\ \/ install'.mode = "none" /\ install'.stage = "idle"
         \/ install'.mode = install.mode /\ install'.asked = install.asked /\ install'.target = install.target
  BY <1>0, <1>2, <1>3, <1>4, NothingTyped DEF Records, Installs
<1>6. install'.done => install.done \/ Install!Confirmed(page, i, refresh.ota, rec)
  BY <1>0, <1>2, <1>4, NothingTyped DEF Installs, Install!Confirmed
<1>7. TrueOf(page) /\ After(page)
  BY <1>0 DEF InstallInv, Truth, After
<1>8. Announced
  BY <1>0, <1>2, <1>6, <1>7, ConfirmedRuns DEF Announced, Install!Modes
<1> QED BY <1>0, <1>5, <1>8, InstallMoves

-----------------------------------------------------------------------------
(* The device, the regular sync and a page loaded anew                     *)
LEMMA HostMoves ==
  ASSUME InstallInv, UNCHANGED <<page, poll, record, install>>, host' \in Hosts,
         \/ /\ host'.boots = host.boots /\ host'.build = host.build
            /\ host'.up => host.up \/ poll.stage = "idle" \/ poll.answer.boots = host.boots
         \/ host'.boots = host.boots + 1 /\ host'.up = FALSE
  PROVE  InstallInv'
<1>1. host.boots \in Nat /\ page.boots \in Nat /\ poll.answer.boots \in Nat
  BY DEF InstallInv, InstallShape, Hosts, Pages, Polls
<1>2. InstallShape' /\ Asked'
  BY DEF InstallInv, InstallShape, Asked
<1>5. TrueOf(page) /\ (poll.stage = "answered" => TrueOf(poll.answer) /\ After(poll.answer))
  BY DEF InstallInv, Truth
<1>6. host.boots # host.boots + 1
  BY <1>1
<1>3. CASE host'.boots = host.boots
  <2>1. host'.build = host.build
    BY <1>3, <1>6
  <2>2. poll.stage = "answered" /\ host'.up => poll.answer.boots = host.boots
    BY <1>3, <1>6 DEF InstallInv, Truth
  <2>3. TrueOf(page)'
    BY <1>3, <1>5, <2>1 DEF TrueOf
  <2>4. poll.stage = "answered" => TrueOf(poll.answer)' /\ After(poll.answer)'
    BY <1>3, <1>5, <2>1 DEF TrueOf, After
  <2> QED BY <1>2, <1>3, <2>2, <2>3, <2>4 DEF Truth, InstallInv
<1>4. CASE host'.boots = host.boots + 1
  <2>1. ASSUME NEW pg, pg.boots \in Nat, pg.boots <= host.boots
        PROVE  pg.boots <= host.boots + 1 /\ pg.boots # host.boots + 1
    BY <1>1, <2>1
  <2>2. page.boots <= host'.boots /\ page.boots # host'.boots
    BY <1>1, <1>4, <1>5, <2>1 DEF TrueOf
  <2>3. poll.stage = "answered" => poll.answer.boots <= host'.boots /\ poll.answer.boots # host'.boots
    BY <1>1, <1>4, <1>5, <2>1 DEF TrueOf
  <2>4. host'.up = FALSE
    BY <1>4, <1>6
  <2>5. TrueOf(page)'
    BY <2>2 DEF TrueOf
  <2>6. poll.stage = "answered" => TrueOf(poll.answer)' /\ After(poll.answer)'
    BY <1>5, <2>3 DEF TrueOf, After
  <2> QED BY <1>2, <2>4, <2>5, <2>6 DEF Truth, InstallInv
<1> QED BY <1>3, <1>4

LEMMA RebootTyped ==
  ASSUME NEW h \in Hosts
  PROVE  Install!Reboot(h) \in Hosts /\ Install!Reboot(h).boots = h.boots + 1 /\ Install!Reboot(h).up = FALSE
<1>1. h.boots \in Nat
  BY DEF Hosts
<1>2. h.boots + 1 \in Nat
  BY <1>1
<1> QED BY <1>1, <1>2 DEF Install!Reboot, Hosts, Phases

LEMMA WorldKeeps ==
  ASSUME InstallInv, Install!Outage \/ Install!LinkUp \/ Install!UpdateStep PROVE InstallInv'
<1>0. UNCHANGED <<page, poll, record, install>> /\ host \in Hosts /\ host.next \in Install!Builds
  BY DEF Install!Outage, Install!LinkUp, Install!UpdateStep, InstallInv, InstallShape, Hosts
<1>1. CASE Install!Outage
  <2>1. host' = [host EXCEPT !.up = FALSE] \/ host' = Install!Reboot(host)
    BY <1>1 DEF Install!Outage
  <2>2. CASE host' = [host EXCEPT !.up = FALSE]
    BY <1>0, <2>2, HostMoves DEF Hosts
  <2>3. CASE host' = Install!Reboot(host)
    BY <1>0, <2>3, RebootTyped, HostMoves
  <2> QED BY <2>1, <2>2, <2>3
<1>2. CASE Install!LinkUp
  <2>1. host' = [host EXCEPT !.up = TRUE] /\ (poll.stage = "idle" \/ poll.answer.boots = host.boots)
    BY <1>2 DEF Install!LinkUp
  <2>2. host' \in Hosts /\ host'.boots = host.boots /\ host'.build = host.build
    BY <1>0, <2>1 DEF Hosts
  <2> QED BY <1>0, <2>1, <2>2, HostMoves
<1>3. CASE Install!UpdateStep
  <2>1. host.up /\ (\/ \E p \in {"rebooting", "error"} : host' = [host EXCEPT !.phase = p]
                    \/ host' = Install!Reboot([host EXCEPT !.build = host.next]))
    <3>1. CASE host.phase = "uploading"
      BY <1>3, <3>1 DEF Install!UpdateStep
    <3>2. CASE host.phase \in {"rebooting", "flashed"}
      BY <1>3, <3>2 DEF Install!UpdateStep
    <3>3. CASE host.phase \in {"idle", "error"}
      BY <1>3, <3>3 DEF Install!UpdateStep
    <3> QED BY <1>0, <3>1, <3>2, <3>3 DEF Hosts, Phases
  <2>2. ASSUME NEW p \in {"rebooting", "error"}, host' = [host EXCEPT !.phase = p] PROVE InstallInv'
    <3>1. host' \in Hosts /\ host'.boots = host.boots /\ host'.build = host.build
      BY <1>0, <2>2 DEF Hosts, Phases
    <3> QED BY <1>0, <2>1, <3>1, HostMoves
  <2>3. CASE host' = Install!Reboot([host EXCEPT !.build = host.next])
    <3>1. [host EXCEPT !.build = host.next] \in Hosts /\ [host EXCEPT !.build = host.next].boots = host.boots
      BY <1>0 DEF Hosts
    <3> QED BY <1>0, <2>3, <3>1, RebootTyped, HostMoves
  <2> QED BY <2>1, <2>2, <2>3
<1> QED BY <1>1, <1>2, <1>3

LEMMA PressKeeps == ASSUME InstallInv, Install!PressStep PROVE InstallInv' /\ install' = install
<1>0. UNCHANGED <<page, poll, record, install>> /\ host \in Hosts
  BY DEF Install!PressStep, Install!PressRestart, Install!PressAccepted, Install!PressLost,
         Install!PressRefused, InstallInv, InstallShape
<1>1. host' = host \/ host' = Install!Reboot(host)
  BY DEF Install!PressStep, Install!PressRestart, Install!PressAccepted, Install!PressLost,
         Install!PressRefused
<1>2. CASE host' = host
  BY <1>0, <1>2, HostMoves
<1>3. CASE host' = Install!Reboot(host)
  BY <1>0, <1>3, RebootTyped, HostMoves
<1> QED BY <1>0, <1>1, <1>2, <1>3

LEMMA HealthKeeps == ASSUME InstallInv, Install!PollStep PROVE InstallInv' /\ install' = install
<1>0. UNCHANGED <<host, record, install>> /\ host \in Hosts /\ page \in Pages /\ poll \in Polls
      /\ poll.answer \in Pages
  BY DEF Install!PollStep, Install!PollAnswered, Install!PollMerges, Install!PollFails, InstallInv,
         InstallShape, Polls
<1>1. CASE Install!PollAnswered
  <2>1. poll' = [stage |-> "answered", answer |-> Install!Read] /\ UNCHANGED page
    BY <1>1 DEF Install!PollAnswered
  <2>2. poll' \in Polls
    BY <2>1, ReadIs DEF Polls
  <2>3. InstallShape' /\ Asked'
    BY <1>0, <2>1, <2>2 DEF InstallInv, InstallShape, Asked
  <2>4. Truth'
    BY <1>0, <2>1, ReadIs DEF InstallInv, Truth, TrueOf, After
  <2> QED BY <1>0, <2>3, <2>4 DEF InstallInv
<1>2. CASE Install!PollMerges
  <2>1. poll.stage = "answered" /\ page' = poll.answer /\ poll' = [poll EXCEPT !.stage = "idle"]
    BY <1>2 DEF Install!PollMerges
  <2>2. poll' \in Polls /\ poll'.stage = "idle"
    BY <1>0, <2>1 DEF Polls
  <2>3. InstallShape'
    BY <1>0, <2>1, <2>2 DEF InstallInv, InstallShape
  <2>4. TrueOf(poll.answer) /\ After(poll.answer)
    BY <2>1 DEF InstallInv, Truth
  <2>5. Truth'
    BY <1>0, <2>1, <2>2, <2>4 DEF Truth, TrueOf
  <2>6. Asked'
    <3>1. page.boots \in Nat /\ poll.answer.boots \in Nat /\ install.asked \in Nat
      BY <1>0 DEF InstallInv, InstallShape, Pages, Installs
    <3>2. page.boots <= poll.answer.boots
      BY <2>4 DEF After
    <3>3. install.mode # "none" => install.asked <= page.boots
      BY DEF InstallInv, Asked
    <3>4. install.mode # "none" =>
            /\ install.asked <= poll.answer.boots
            /\ install.asked = poll.answer.boots => install.asked = page.boots /\ poll.answer.build = page.build
      BY <2>4, <3>1, <3>2, <3>3 DEF After
    <3> QED BY <1>0, <2>1, <3>4 DEF InstallInv, Asked
  <2> QED BY <1>0, <2>3, <2>5, <2>6 DEF InstallInv
<1>3. CASE Install!PollFails
  BY <1>0, <1>3, HostMoves DEF Install!PollFails
<1> QED BY <1>1, <1>2, <1>3 DEF Install!PollStep

LEMMA FreshKeeps == ASSUME InstallInv, Install!Fresh PROVE InstallInv' /\ install'.done = FALSE
<1>0. /\ UNCHANGED <<host, record>> /\ page' = Install!Read
      /\ poll' = [stage |-> "idle", answer |-> Install!Read]
      /\ record \in Records /\ record.target \in Install!Builds /\ host.boots \in Nat /\ InstallShape
  BY DEF Install!Fresh, InstallInv, InstallShape, Records, Hosts
<1>1. /\ install' \in Installs /\ install'.done = FALSE /\ install'.stage = "idle"
      /\ \/ install'.mode = "none"
         \/ install'.mode = "quickstart" /\ install'.asked = host.boots
  <2>1. CASE record.status \in {"pending", "successful"}
    <3>1. install' = [Install!NoInstall EXCEPT !.mode = "quickstart", !.target = record.target,
                        !.asked = host.boots, !.resumed = TRUE, !.success = record.status = "successful"]
      BY <2>1 DEF Install!Fresh
    <3> QED BY <1>0, <3>1, NothingTyped DEF Installs, Install!Modes
  <2>2. CASE record.status \notin {"pending", "successful"}
    <3>1. install' = Install!NoInstall
      BY <2>2 DEF Install!Fresh
    <3> QED BY <1>0, <3>1, NothingTyped
  <2> QED BY <2>1, <2>2
<1>2. /\ page' \in Pages /\ page'.boots = host.boots /\ page'.build = host.build
      /\ poll' \in Polls /\ poll'.stage = "idle"
  BY <1>0, ReadIs DEF Polls
<1>3. InstallShape'
  BY <1>0, <1>1, <1>2 DEF InstallShape
<1>4. host.boots <= host.boots
  BY <1>0
<1>5. Truth' /\ Asked'
  BY <1>0, <1>1, <1>2, <1>4 DEF Truth, TrueOf, Asked
<1> QED BY <1>1, <1>3, <1>5 DEF InstallInv

LEMMA StillKeeps ==
  ASSUME InstallInv, UNCHANGED <<host, page, install, record, poll>> PROVE InstallInv' /\ install' = install
BY DEF InstallInv, InstallShape, Truth, TrueOf, After, Asked

LEMMA TimersKeep ==
  ASSUME InstallInv, Install!TimerStep \/ Install!UserReload
  PROVE  InstallInv' /\ install'.done \in {FALSE, install.done}
<1>1. \/ Install!Fresh
      \/ UNCHANGED <<host, page, install, record, poll>>
  BY DEF Install!TimerStep, Install!RecoveryTimer, Install!OtaReloadTimer, Install!CacheRefreshed,
         Install!RestartReloadTimer, Install!EvidenceTimer, Install!UserReload
<1> QED BY <1>1, FreshKeeps, StillKeeps

LEMMA InstallInit == ASSUME Install!Init PROVE InstallInv
<1>1. PICK b \in Install!Builds :
        /\ host = [up |-> TRUE, boots |-> 0, build |-> b, phase |-> "idle", next |-> b]
        /\ page = [boots |-> 0, build |-> b, phase |-> "idle"]
  BY DEF Install!Init
<1>2. /\ install = Install!NoInstall /\ record = Install!NoRecord
      /\ poll = [stage |-> "idle", answer |-> page]
  BY DEF Install!Init
<1>3. host \in Hosts /\ page \in Pages /\ host.boots = 0 /\ page.boots = 0 /\ page.build = host.build
  BY <1>1 DEF Hosts, Pages, Phases
<1>4. poll \in Polls /\ poll.stage = "idle"
  BY <1>2, <1>3 DEF Polls
<1>5. (CHOOSE c \in Install!Builds : TRUE) \in Install!Builds
  BY <1>1
<1>6. install \in Installs /\ install.mode = "none" /\ install.stage = "idle" /\ record \in Records
  BY <1>2, <1>5 DEF Install!NoInstall, Install!NoRecord, Installs, Records, Install!Modes
<1>7. InstallShape /\ Truth /\ Asked
  BY <1>3, <1>4, <1>6 DEF InstallShape, Truth, TrueOf, Asked
<1> QED BY <1>7 DEF InstallInv

LEMMA InstallStep == ASSUME InstallInv, [Install!Next]_installVars PROVE InstallInv' /\ Announced
<1>1. CASE UNCHANGED installVars
  <2>1. UNCHANGED <<host, page, install, record, poll>>
    BY <1>1 DEF installVars
  <2> QED BY <2>1, StillKeeps DEF Announced
<1>2. CASE Install!InstallStep
  BY <1>2, AskingKeeps, TargetKeeps, RequestKeeps, AttemptsKeep, ReconcileKeeps
     DEF Install!InstallStep, Announced
<1>3. CASE Install!PressStep \/ Install!PollStep \/ Install!TimerStep
  BY <1>3, PressKeeps, HealthKeeps, TimersKeep DEF Announced
<1>4. CASE Install!WorldStep
  <2>1. CASE Install!UserReload
    BY <2>1, TimersKeep DEF Announced
  <2>2. CASE Install!Outage \/ Install!LinkUp \/ Install!UpdateStep
    <3>1. install' = install
      BY <2>2 DEF Install!Outage, Install!LinkUp, Install!UpdateStep
    <3> QED BY <2>2, <3>1, WorldKeeps DEF Announced
  <2> QED BY <1>4, <2>1, <2>2 DEF Install!WorldStep
<1> QED BY <1>1, <1>2, <1>3, <1>4 DEF Install!Next

(* Whatever is lost, repeated, restarted or reloaded: what the page        *)
(* reports as installed the device told it to run, in an answer no older   *)
(* than the request, and runs unless it restarted since                    *)
(* (pollFirmwareInstallState, reconcileStoredQuickStartSetupInstall).      *)
THEOREM WhatIsReportedRuns == WebSpec => InstalledMeansRuns
<1>1. WebInit => InstallInv
  BY InstallInit DEF WebInit
<1>2. InstallInv /\ [WebNext]_web => InstallInv' /\ Announced
  <2> SUFFICES ASSUME InstallInv, [WebNext]_web PROVE InstallInv' /\ Announced
    OBVIOUS
  <2>1. [Install!Next]_installVars
    BY DEF WebNext, web
  <2> QED BY <2>1, InstallStep
<1>3. Announced => [install'.done /\ ~install.done /\ install.mode # "upload"
                   => /\ Install!Runs(page'.build, install)
                      /\ page'.boots = host.boots => Install!Runs(host.build, install)
                      /\ page'.boots >= install.asked
                      /\ install.mode # "quickstart" => page'.boots > install.asked]_(Install!vars)
  BY DEF Announced
<1> QED BY <1>1, <1>2, <1>3, PTL DEF WebSpec, InstalledMeansRuns, Install!InstalledMeansRuns

-----------------------------------------------------------------------------
(***************************************************************************)
(* Part 5: the restore of a backup                                         *)
(***************************************************************************)
SettingKeys == {"source", "start", "end", "other", "mqtt", "enabled", "share", "setup"}
Words == {"", "Disabled", "Schedule", "MQTT", "new", "on", "off", "no", "done", "inputs"}
Boxes == Seq(SettingKeys \X Words)

(* A set of positions has a last one.                                      *)
LEMMA LastPosition ==
  ASSUME NEW N \in Nat, NEW S, S \subseteq 1 .. N, S # {}
  PROVE  \E i \in S : \A j \in S : j <= i
<1> DEFINE Above(i) == {j \in S : j > i}
           T == {Above(i) : i \in S}
           R == StrictSubsetOrdering(S)
<1>1. IsFiniteSet(S)
  BY FS_Interval, FS_Subset, 1 \in Int, N \in Int
<1>2. T \subseteq SUBSET S /\ T # {}
  OBVIOUS
<1>3. IsWellFoundedOn(R, SUBSET S)
  BY <1>1, FS_StrictSubsetOrderingWellFounded, FS_FiniteSubsetsOfFinite
<1>4. PICK t \in T : \A u \in T : ~(<<u, t>> \in R)
  <2> HIDE DEF T, R
  <2> QED BY ONLY <1>2, <1>3, WFMin
<1>5. PICK i \in S : t = Above(i)
  OBVIOUS
<1>6. \A j \in S : ~(j > i)
  <2> SUFFICES ASSUME NEW j \in S, j > i PROVE FALSE
    OBVIOUS
  <2>1. i \in Nat /\ j \in Nat /\ S \subseteq Nat
    OBVIOUS
  <2>2. Above(j) \subseteq Above(i)
    <3>1. \A k \in S : k > j => k > i
      <4> TAKE k \in S
      <4>1. k \in Nat /\ j > i
        BY <2>1
      <4> QED BY <2>1, <4>1
    <3> QED BY <3>1
  <2>3. j \in Above(i) /\ j \notin Above(j)
    BY <2>1
  <2>4. <<Above(j), Above(i)>> \in R
    <3>1. Above(j) \subseteq S /\ Above(i) \subseteq S
      OBVIOUS
    <3> HIDE DEF Above
    <3> QED BY <2>2, <2>3, <3>1 DEF StrictSubsetOrdering
  <2> QED BY <1>4, <1>5, <2>4
<1> QED BY <1>6

(* The last write of a setting counts.                                     *)
LEMMA LastWrite ==
  ASSUME NEW h, NEW w \in Boxes, NEW q \in DOMAIN h, NEW i \in Restore!Writes(w, q),
         \A j \in Restore!Writes(w, q) : j <= i
  PROVE  Restore!Applied(h, w)[q] = w[i][2]
<1> DEFINE W == Restore!Writes(w, q)
           Top(c) == \A j \in W : j <= c
           c == CHOOSE n \in W : Top(n)
<1>1. W \subseteq Nat
  BY DEF Restore!Writes, Boxes
<1>2. c \in W /\ Top(c)
  OBVIOUS
<1>3. c <= i /\ i <= c /\ c \in Nat /\ i \in Nat
  BY <1>1, <1>2
<1>4. c = i
  BY <1>3
<1>5. Restore!Applied(h, w)[q] = w[c][2]
  BY DEF Restore!Applied
<1> QED BY <1>4, <1>5

LEMMA NoWrite ==
  ASSUME NEW h, NEW w, NEW q \in DOMAIN h, Restore!Writes(w, q) = {}
  PROVE  Restore!Applied(h, w)[q] = h[q]
BY DEF Restore!Applied

LEMMA SomeWrite ==
  ASSUME NEW h, NEW w \in Boxes, NEW q \in DOMAIN h, Restore!Writes(w, q) # {}
  PROVE  \E i \in Restore!Writes(w, q) :
           /\ \A j \in Restore!Writes(w, q) : j <= i
           /\ Restore!Applied(h, w)[q] = w[i][2]
<1>1. Len(w) \in Nat /\ Restore!Writes(w, q) \subseteq 1 .. Len(w)
  BY DEF Restore!Writes, Boxes
<1>2. PICK i \in Restore!Writes(w, q) : \A j \in Restore!Writes(w, q) : j <= i
  BY <1>1, LastPosition
<1> QED BY <1>2, LastWrite

ValuesOf(w, q) == {w[i][2] : i \in Restore!Writes(w, q)}

LEMMA AppliedFrom ==
  ASSUME NEW h, NEW w \in Boxes, NEW q \in DOMAIN h
  PROVE  /\ DOMAIN Restore!Applied(h, w) = DOMAIN h
         /\ Restore!Applied(h, w)[q] = h[q] \/ Restore!Applied(h, w)[q] \in ValuesOf(w, q)
<1>1. DOMAIN Restore!Applied(h, w) = DOMAIN h
  BY DEF Restore!Applied
<1>2. CASE Restore!Writes(w, q) = {}
  BY <1>1, <1>2, NoWrite
<1>3. CASE Restore!Writes(w, q) # {}
  BY <1>1, <1>3, SomeWrite DEF ValuesOf
<1> QED BY <1>2, <1>3

(* A box of writes handled in two parts.                                   *)
LEMMA PartFacts ==
  ASSUME NEW w \in Boxes, NEW n \in 0 .. Len(w)
  PROVE  LET a == SubSeq(w, 1, n)
             b == SubSeq(w, n + 1, Len(w))
         IN  /\ a \in Boxes /\ b \in Boxes /\ Len(w) \in Nat
             /\ \A q : Restore!Writes(a, q) = {i \in Restore!Writes(w, q) : i <= n}
             /\ \A q : \A i \in Restore!Writes(a, q) : a[i] = w[i]
             /\ \A q : \A j \in Restore!Writes(b, q) :
                  n + j \in Restore!Writes(w, q) /\ b[j] = w[n + j] /\ j \in Nat /\ j >= 1
             /\ \A q : \A i \in Restore!Writes(w, q) : i > n => i - n \in Restore!Writes(b, q)
<1> DEFINE a == SubSeq(w, 1, n)
           b == SubSeq(w, n + 1, Len(w))
<1>1. Len(w) \in Nat /\ n \in Nat /\ n <= Len(w) /\ DOMAIN w = 1 .. Len(w)
  BY DEF Boxes
<1>2. a \in Boxes /\ Len(a) = n /\ DOMAIN a = 1 .. n /\ \A i \in 1 .. n : a[i] = w[i]
  BY <1>1, SMTT(30) DEF Boxes
<1>3. /\ b \in Boxes /\ Len(b) = Len(w) - n /\ DOMAIN b = 1 .. Len(w) - n
      /\ \A j \in 1 .. Len(w) - n : b[j] = w[n + j]
  <2>1. n + 1 \in 1 .. Len(w) + 1 /\ Len(w) \in n .. Len(w) /\ w \in Seq(SettingKeys \X Words)
    BY <1>1 DEF Boxes
  <2>2. /\ b \in Seq(SettingKeys \X Words)
        /\ Len(b) = IF n + 1 <= Len(w) THEN Len(w) - (n + 1) + 1 ELSE 0
        /\ \A j \in 1 .. Len(w) - (n + 1) + 1 : b[j] = w[(n + 1) + j - 1]
    BY <1>1, <2>1, SubSeqProperties
  <2>3. Len(b) = Len(w) - n /\ Len(w) - n = Len(w) - (n + 1) + 1
    <3> HIDE DEF b
    <3>1. \A l \in Nat : n <= l => l - n = l - (n + 1) + 1 /\ (~(n + 1 <= l) => l - n = 0)
      BY ONLY <1>1
    <3>2. Len(w) - n = Len(w) - (n + 1) + 1 /\ (~(n + 1 <= Len(w)) => Len(w) - n = 0)
      BY <1>1, <3>1
    <3>3. CASE n + 1 <= Len(w)
      BY <2>2, <3>2, <3>3
    <3>4. CASE ~(n + 1 <= Len(w))
      BY <2>2, <3>2, <3>4
    <3> QED BY <3>2, <3>3, <3>4
  <2>4. \A j \in 1 .. Len(w) - n : (n + 1) + j - 1 = n + j
    BY <1>1
  <2>5. b \in Boxes /\ DOMAIN b = 1 .. Len(b)
    BY <2>2 DEF Boxes
  <2> HIDE DEF b
  <2> QED BY <2>2, <2>3, <2>4, <2>5
<1> HIDE DEF a, b
<1>4. \A q : Restore!Writes(a, q) = {i \in Restore!Writes(w, q) : i <= n}
  BY <1>1, <1>2 DEF Restore!Writes
<1>5. \A q : \A i \in Restore!Writes(a, q) : a[i] = w[i]
  BY <1>2 DEF Restore!Writes
<1>6. \A q : \A j \in Restore!Writes(b, q) :
         n + j \in Restore!Writes(w, q) /\ b[j] = w[n + j] /\ j \in Nat /\ j >= 1
  BY <1>1, <1>3 DEF Restore!Writes
<1>7. \A q : \A i \in Restore!Writes(w, q) : i > n => i - n \in Restore!Writes(b, q)
  <2> SUFFICES ASSUME NEW q, NEW i \in Restore!Writes(w, q), i > n
               PROVE  i - n \in Restore!Writes(b, q)
    OBVIOUS
  <2>1. i \in 1 .. Len(w) /\ w[i][1] = q
    BY <1>1 DEF Restore!Writes
  <2>2. i - n \in 1 .. Len(w) - n /\ n + (i - n) = i
    BY <1>1, <2>1
  <2> QED BY <1>3, <2>1, <2>2 DEF Restore!Writes
<1> QED BY <1>1, <1>2, <1>3, <1>4, <1>5, <1>6, <1>7 DEF a, b

LEMMA Parts ==
  ASSUME NEW h, NEW w \in Boxes, NEW n \in 0 .. Len(w), NEW q \in DOMAIN h
  PROVE  LET a == SubSeq(w, 1, n)
             b == SubSeq(w, n + 1, Len(w))
         IN  /\ Restore!Applied(Restore!Applied(h, a), b)[q] = Restore!Applied(h, w)[q]
             /\ ValuesOf(a, q) \subseteq ValuesOf(w, q)
             /\ ValuesOf(b, q) \subseteq ValuesOf(w, q)
<1> DEFINE a == SubSeq(w, 1, n)
           b == SubSeq(w, n + 1, Len(w))
           g == Restore!Applied(h, a)
<1>1. /\ a \in Boxes /\ b \in Boxes /\ Len(w) \in Nat
      /\ Restore!Writes(a, q) = {i \in Restore!Writes(w, q) : i <= n}
      /\ \A i \in Restore!Writes(a, q) : a[i] = w[i]
      /\ \A j \in Restore!Writes(b, q) :
           n + j \in Restore!Writes(w, q) /\ b[j] = w[n + j] /\ j \in Nat /\ j >= 1
      /\ \A i \in Restore!Writes(w, q) : i > n => i - n \in Restore!Writes(b, q)
  BY PartFacts
<1>2. q \in DOMAIN g
  BY DEF Restore!Applied
<1>3. n \in Nat /\ Restore!Writes(w, q) \subseteq Nat
  BY <1>1 DEF Restore!Writes, Boxes
<1> HIDE DEF a, b, g
<1>4. ValuesOf(a, q) \subseteq ValuesOf(w, q) /\ ValuesOf(b, q) \subseteq ValuesOf(w, q)
  BY <1>1 DEF ValuesOf
<1>5. CASE Restore!Writes(b, q) # {}
  <2>1. PICK j \in Restore!Writes(b, q) :
          /\ \A o \in Restore!Writes(b, q) : o <= j
          /\ Restore!Applied(g, b)[q] = b[j][2]
    <3>1. b \in Boxes /\ q \in DOMAIN g /\ Restore!Writes(b, q) # {}
      BY <1>1, <1>2, <1>5
    <3>2. \E j \in Restore!Writes(b, q) :
            (\A o \in Restore!Writes(b, q) : o <= j) /\ Restore!Applied(g, b)[q] = b[j][2]
      BY ONLY <3>1, SomeWrite
    <3> QED BY <3>2
  <2>2. n + j \in Restore!Writes(w, q) /\ b[j] = w[n + j] /\ j \in Nat /\ j >= 1
    BY <1>1
  <2>3. \A i \in Restore!Writes(w, q) : i <= n + j
    <3> TAKE i \in Restore!Writes(w, q)
    <3>1. i \in Nat
      BY <1>3
    <3>2. CASE i > n
      <4>1. i - n <= j
        BY <1>1, <2>1, <3>2
      <4> QED BY <1>3, <2>2, <3>1, <4>1
    <3> QED BY <1>3, <2>2, <3>1, <3>2
  <2>4. Restore!Applied(h, w)[q] = w[n + j][2]
    BY <2>2, <2>3, LastWrite
  <2> QED BY <1>4, <2>1, <2>2, <2>4 DEF a, b, g
<1>6. CASE Restore!Writes(b, q) = {}
  <2>1. Restore!Applied(g, b)[q] = g[q]
    BY <1>2, <1>6, NoWrite
  <2>2. Restore!Writes(a, q) = Restore!Writes(w, q)
    <3>1. \A i \in Restore!Writes(w, q) : i <= n
      BY <1>1, <1>3, <1>6
    <3> QED BY <1>1, <3>1
  <2>3. g[q] = Restore!Applied(h, w)[q]
    <3>1. CASE Restore!Writes(w, q) = {}
      <4>1. g[q] = h[q]
        BY <2>2, <3>1, NoWrite DEF g
      <4> QED BY <3>1, <4>1, NoWrite
    <3>2. CASE Restore!Writes(w, q) # {}
      <4>1. PICK i \in Restore!Writes(a, q) :
              (\A o \in Restore!Writes(a, q) : o <= i) /\ g[q] = a[i][2]
        BY <1>1, <2>2, <3>2, SomeWrite DEF g
      <4>2. Restore!Applied(h, w)[q] = w[i][2]
        BY <2>2, <4>1, LastWrite
      <4> QED BY <1>1, <4>1, <4>2
    <3> QED BY <3>1, <3>2
  <2> QED BY <1>4, <2>1, <2>3 DEF a, b, g
<1> QED BY <1>5, <1>6

(* One more write in the box.                                              *)
Longer(h, w, k, v, q, b) ==
  /\ b \in Boxes
  /\ ValuesOf(b, q) \subseteq ValuesOf(w, q) \cup {x \in {v} : q = k}
  /\ Restore!Applied(h, b)[q] = IF q = k THEN v ELSE Restore!Applied(h, w)[q]

LEMMA OneMore ==
  ASSUME NEW h, NEW w \in Boxes, NEW k \in SettingKeys, NEW v \in Words, NEW q \in DOMAIN h
  PROVE  Longer(h, w, k, v, q, Append(w, <<k, v>>))
<1> DEFINE b == Append(w, <<k, v>>)
<1>1. /\ b \in Boxes /\ Len(w) \in Nat /\ DOMAIN w = 1 .. Len(w) /\ DOMAIN b = 1 .. Len(w) + 1
      /\ b[Len(w) + 1] = <<k, v>> /\ \A i \in 1 .. Len(w) : b[i] = w[i]
  BY DEF Boxes
<1> HIDE DEF b
<1>2. CASE q = k
  <2>1. Restore!Writes(b, q) = Restore!Writes(w, q) \cup {Len(w) + 1}
    BY <1>1, <1>2 DEF Restore!Writes
  <2>2. Len(w) + 1 \in Restore!Writes(b, q) /\ \A j \in Restore!Writes(b, q) : j <= Len(w) + 1
    BY <1>1, <2>1 DEF Restore!Writes
  <2>3. Restore!Applied(h, b)[q] = v
    BY <1>1, <2>2, LastWrite
  <2>4. ValuesOf(b, q) \subseteq ValuesOf(w, q) \cup {v}
    BY <1>1, <2>1 DEF ValuesOf, Restore!Writes
  <2> QED BY <1>1, <1>2, <2>3, <2>4 DEF b, Longer
<1>3. CASE q # k
  <2>1. Restore!Writes(b, q) = Restore!Writes(w, q)
    BY <1>1, <1>3 DEF Restore!Writes
  <2>2. \A i \in Restore!Writes(w, q) : b[i] = w[i]
    BY <1>1 DEF Restore!Writes
  <2>3. ValuesOf(b, q) = ValuesOf(w, q)
    BY <2>1, <2>2 DEF ValuesOf
  <2>4. Restore!Applied(h, b)[q] = Restore!Applied(h, w)[q]
    <3>1. CASE Restore!Writes(w, q) = {}
      <4>1. Restore!Applied(h, b)[q] = h[q]
        BY <2>1, <3>1, NoWrite
      <4> QED BY <3>1, <4>1, NoWrite
    <3>2. CASE Restore!Writes(w, q) # {}
      <4>1. PICK i \in Restore!Writes(w, q) :
              (\A o \in Restore!Writes(w, q) : o <= i) /\ Restore!Applied(h, w)[q] = w[i][2]
        BY <3>2, SomeWrite
      <4>2. Restore!Applied(h, b)[q] = b[i][2]
        BY <1>1, <2>1, <4>1, LastWrite
      <4> QED BY <2>2, <4>1, <4>2
    <3> QED BY <3>1, <3>2
  <2> QED BY <1>1, <1>3, <2>3, <2>4 DEF b, Longer
<1> QED BY <1>2, <1>3

-----------------------------------------------------------------------------
(* What a write may do: its value is the only one that is new, in the      *)
(* house, in the box and in what the house comes to.                       *)
Pend(q) == ValuesOf(mailbox, q)
Due     == Restore!Applied(house, mailbox)

Brings(k, v) ==
  /\ DOMAIN house' = SettingKeys /\ mailbox' \in Boxes
  /\ k = "mqtt" => mailbox' = mailbox
  /\ \A q \in SettingKeys :
       /\ Pend(q)' \subseteq Pend(q) \cup {x \in {v} : q = k}
       /\ house'[q] = house[q] \/ house'[q] \in Pend(q) \/ (q = k /\ house'[q] = v)
       /\ q # "mqtt" => Due'[q] = Due[q] \/ (q = k /\ Due'[q] = v)

LEMMA DrainCarries ==
  ASSUME DOMAIN house = SettingKeys, mailbox \in Boxes, NEW k, NEW v, k # "mqtt",
         NEW box \in Boxes, Restore!Drain(box),
         \A q \in SettingKeys :
           /\ ValuesOf(box, q) \subseteq Pend(q) \cup {x \in {v} : q = k}
           /\ Restore!Applied(house, box)[q] = IF q = k THEN v ELSE Due[q]
  PROVE  Brings(k, v) /\ (k \in SettingKeys => Due'[k] = v)
<1>2. PICK n \in 0 .. Len(box) :
        /\ house' = Restore!Applied(house, SubSeq(box, 1, n))
        /\ mailbox' = SubSeq(box, n + 1, Len(box))
  BY DEF Restore!Drain
<1>3. SubSeq(box, 1, n) \in Boxes /\ SubSeq(box, n + 1, Len(box)) \in Boxes
  BY PartFacts
<1>4. DOMAIN house' = SettingKeys
  BY <1>2 DEF Restore!Applied
<1>5. ASSUME NEW q \in SettingKeys
      PROVE  /\ Pend(q)' \subseteq ValuesOf(box, q)
             /\ house'[q] = house[q] \/ house'[q] \in ValuesOf(box, q)
             /\ Due'[q] = Restore!Applied(house, box)[q]
  <2>1. /\ Restore!Applied(house', mailbox')[q] = Restore!Applied(house, box)[q]
        /\ ValuesOf(SubSeq(box, 1, n), q) \subseteq ValuesOf(box, q)
        /\ ValuesOf(mailbox', q) \subseteq ValuesOf(box, q)
    BY <1>2, Parts
  <2>2. house'[q] = house[q] \/ house'[q] \in ValuesOf(SubSeq(box, 1, n), q)
    BY <1>2, <1>3, AppliedFrom
  <2> QED BY <2>1, <2>2 DEF Pend, Due
<1>6. ASSUME NEW q \in SettingKeys
      PROVE  /\ Pend(q)' \subseteq Pend(q) \cup {x \in {v} : q = k}
             /\ house'[q] = house[q] \/ house'[q] \in Pend(q) \/ (q = k /\ house'[q] = v)
             /\ Due'[q] = Due[q] \/ (q = k /\ Due'[q] = v)
  BY <1>5
<1>7. k \in SettingKeys => Due'[k] = v
  BY <1>5
<1> QED BY <1>2, <1>3, <1>4, <1>6, <1>7 DEF Brings

(* A write that is accepted, and some of the box applied.                  *)
LEMMA AcceptCarries ==
  ASSUME DOMAIN house = SettingKeys, mailbox \in Boxes, NEW k \in SettingKeys, k # "mqtt",
         NEW v \in Words,
         Restore!Drain(Append(mailbox, <<k, v>>))
  PROVE  Brings(k, v) /\ Due'[k] = v
<1> DEFINE box == Append(mailbox, <<k, v>>)
<1>1. ASSUME NEW q \in SettingKeys
      PROVE  /\ box \in Boxes
             /\ ValuesOf(box, q) \subseteq Pend(q) \cup {x \in {v} : q = k}
             /\ Restore!Applied(house, box)[q] = IF q = k THEN v ELSE Due[q]
  <2>1. Longer(house, mailbox, k, v, q, Append(mailbox, <<k, v>>))
    BY OneMore
  <2> QED BY <2>1 DEF Pend, Due, Longer
<1>2. box \in Boxes /\ Restore!Drain(box)
  BY <1>1
<1> HIDE DEF box
<1> QED BY <1>1, <1>2, DrainCarries

(* The box is applied at last.                                             *)
LEMMA ApplyCarries ==
  ASSUME DOMAIN house = SettingKeys, mailbox \in Boxes, Restore!Apply
  PROVE  Brings("", "")
<1>1. /\ mailbox # <<>> /\ house' = Restore!Applied(house, <<Head(mailbox)>>)
      /\ mailbox' = Tail(mailbox)
  BY DEF Restore!Apply
<1>2. mailbox \in Seq(SettingKeys \X Words)
  BY DEF Boxes
<1>3. Len(mailbox) \in Nat /\ Len(mailbox) >= 1 /\ Head(mailbox) = mailbox[1]
  BY <1>1, <1>2
<1>4. Tail(mailbox) = SubSeq(mailbox, 2, Len(mailbox))
  BY <1>1, <1>2, TailIsSubSeq
<1>5. SubSeq(mailbox, 1, 1) = <<Head(mailbox)>>
  <2> DEFINE m == SubSeq(mailbox, 1, 1)
  <2>1. m \in Seq(SettingKeys \X Words) /\ Len(m) = 1 /\ m[1] = mailbox[1]
    <3>1. \A i \in 1 .. 1 : mailbox[i] \in SettingKeys \X Words
      BY <1>2, <1>3
    <3> QED BY <3>1, SubSeqProperties, 1 \in Int
  <2> HIDE DEF m
  <2>2. m = <<mailbox[1]>>
    BY <2>1
  <2> QED BY <1>3, <2>2 DEF m
<1>6. Restore!Drain(mailbox)
  <2>1. 1 \in 0 .. Len(mailbox) /\ 1 + 1 = 2
    BY <1>3
  <2> QED BY <1>1, <1>4, <1>5, <2>1 DEF Restore!Drain
<1>7. "" \notin SettingKeys
  BY DEF SettingKeys
<1> QED BY <1>6, <1>7, DrainCarries DEF Pend, Due

LEMMA StillCarries ==
  ASSUME DOMAIN house = SettingKeys, mailbox \in Boxes, UNCHANGED <<house, mailbox>>, NEW k,
         NEW v
  PROVE  Brings(k, v)
BY DEF Brings, Pend, Due

(* A write that may be lost, or wait.                                      *)
LEMMA LostCarries ==
  ASSUME DOMAIN house = SettingKeys, mailbox \in Boxes, NEW k \in SettingKeys, k # "mqtt",
         NEW v \in Words,
         house' = house, mailbox' = Append(mailbox, <<k, v>>)
  PROVE  Brings(k, v)
<1>1. ASSUME NEW q \in SettingKeys
      PROVE  /\ mailbox' \in Boxes
             /\ Pend(q)' \subseteq Pend(q) \cup {x \in {v} : q = k}
             /\ Due'[q] = IF q = k THEN v ELSE Due[q]
  <2>1. /\ mailbox' \in Boxes
        /\ ValuesOf(mailbox', q) \subseteq ValuesOf(mailbox, q) \cup {x \in {v} : q = k}
        /\ Restore!Applied(house', mailbox')[q]
             = IF q = k THEN v ELSE Restore!Applied(house, mailbox)[q]
    <3>1. Longer(house, mailbox, k, v, q, Append(mailbox, <<k, v>>))
      BY OneMore
    <3> QED BY <3>1 DEF Longer
  <2> QED BY <2>1 DEF Pend, Due
<1>2. mailbox' \in Boxes
  BY <1>1 DEF SettingKeys
<1> QED BY <1>1, <1>2 DEF Brings

LEMMA SetCarries ==
  ASSUME DOMAIN house = SettingKeys, mailbox \in Boxes, NEW k \in SettingKeys, k # "mqtt",
         NEW v \in Words,
         NEW ok, Restore!Set(k, v, ok)
  PROVE  Brings(k, v) /\ (ok => Due'[k] = v)
<1>1. CASE ok
  BY <1>1, AcceptCarries DEF Restore!Set
<1>2. CASE ~ok
  BY <1>2, LostCarries, StillCarries DEF Restore!Set
<1> QED BY <1>1, <1>2

LEMMA VerifiedCarries ==
  ASSUME DOMAIN house = SettingKeys, mailbox \in Boxes, NEW k \in SettingKeys, k # "mqtt",
         NEW v \in Words,
         NEW ok \in BOOLEAN, Restore!SetVerified(k, v, ok)
  PROVE  Brings(k, v) /\ (ok => Due'[k] = v /\ house'[k] = v)
<1>1. CASE Restore!Drain(Append(mailbox, <<k, v>>)) /\ (ok <=> house'[k] = v)
  BY <1>1, AcceptCarries
<1>2. CASE ~ok /\ UNCHANGED house /\ mailbox' \in {mailbox, Append(mailbox, <<k, v>>)}
  BY <1>2, LostCarries, StillCarries
<1> QED BY <1>1, <1>2 DEF Restore!SetVerified

(* The requests about MQTT do not wait.                                    *)
LEMMA PostCarries ==
  ASSUME DOMAIN house = SettingKeys, mailbox \in Boxes, NEW v, NEW ok, Restore!PostMqtt(v, ok)
  PROVE  Brings("mqtt", v) /\ (ok => house'["mqtt"] = v)
<1>1. mailbox' = mailbox /\ (house' = house \/ house' = [house EXCEPT !.mqtt = v])
      /\ (ok => house' = [house EXCEPT !.mqtt = v])
  BY DEF Restore!PostMqtt
<1>2. DOMAIN house' = SettingKeys /\ (ok => house'["mqtt"] = v)
      /\ \A q \in SettingKeys : house'[q] = house[q] \/ (q = "mqtt" /\ house'[q] = v)
  BY <1>1 DEF SettingKeys
<1>3. \A q \in SettingKeys : q # "mqtt" => Due'[q] = Due[q]
  BY <1>1, <1>2 DEF Due, Restore!Applied
<1> QED BY <1>1, <1>2, <1>3 DEF Brings, Pend

-----------------------------------------------------------------------------
(* What holds of the settings, and of those that are due.                  *)
Old == house.start = house.end /\ Pend("start") = {} /\ Pend("end") = {}
New == house.start = "new" /\ house.end = "new"

Meant ==
  /\ DOMAIN house = SettingKeys /\ mailbox \in Boxes /\ draft \in Restore!AllBackups
  /\ Pend("start") \subseteq {"new"} /\ Pend("end") \subseteq {"new"}
  /\ Pend("mqtt") = {} /\ Pend("share") \subseteq {"off"}

Scheduled ==
  /\ house.source = "Schedule" => Old \/ New
  /\ "Schedule" \in Pend("source") => New

Sourced ==
  /\ "MQTT" \in {house.source, house.other} \cup Pend("source") \cup Pend("other") => restore.ready
  /\ restore.ready => draft.mqtt # "" /\ house.mqtt = Restore!Mqtt

SetUp == restore.at # "idle" /\ (house.setup = "done" \/ "done" \in Pend("setup"))
           => house.share = "off" \/ restore.wasDone

IsDue == \A key \in restore.applied :
           IF key = "mqtt" THEN restore.ready ELSE key # "share" /\ Due[key] = draft[key]

Values == Meant /\ Scheduled /\ Sourced /\ SetUp /\ IsDue

(* What a write must respect, to leave that as it is.                      *)
Fitting(k, v) ==
  /\ k \in {"start", "end"} =>
       v = "new" /\ house.source = "Disabled" /\ Pend("source") \subseteq {"Disabled"}
  /\ k = "source" /\ v = "Schedule" => New
  /\ k \in {"source", "other"} /\ v = "MQTT" => restore.ready
  /\ k = "share" => v = "off"
  /\ k = "setup" => house.share = "off" \/ restore.wasDone
  /\ k = "mqtt" => ~restore.ready
  /\ k \in restore.applied => k = "mqtt" \/ v = draft[k]

(* ... and the step it is a part of.                                       *)
Claims(k) ==
  /\ draft' = draft /\ restore.at # "idle" /\ restore'.wasDone = restore.wasDone
  /\ restore.ready => restore'.ready
  /\ restore'.ready => restore.ready \/ (draft.mqtt # "" /\ house'.mqtt = Restore!Mqtt)
  /\ \A key \in restore'.applied :
       \/ key \in restore.applied
       \/ key = k /\ k \notin {"mqtt", "share"} /\ Due'[k] = draft[k]
       \/ key = "mqtt" /\ restore'.ready

(* What stays once it is so.                                               *)
Steady(k, v) ==
  /\ New => New'
  /\ house.start = "new" => house'.start = "new"
  /\ house.share = "off" => house'.share = "off"
  /\ house.source = "Disabled" /\ Pend("source") \subseteq {"Disabled"} /\ (k = "source" => v = "Disabled")
       => house'.source = "Disabled"
  /\ Pend("source") \subseteq {"Disabled"} /\ (k = "source" => v = "Disabled")
       => Pend("source")' \subseteq {"Disabled"}

Meanings ==
  /\ Pend("start") \subseteq {"new"} /\ Pend("end") \subseteq {"new"}
  /\ Pend("mqtt") = {} /\ Pend("share") \subseteq {"off"}

LEMMA ValuesStay ==
  ASSUME Values, NEW k, NEW v, Brings(k, v), Fitting(k, v)
  PROVE  Steady(k, v) /\ Meanings' /\ (k # "mqtt" => house'.mqtt = house.mqtt)
<1>1. /\ "start" \in SettingKeys /\ "end" \in SettingKeys /\ "mqtt" \in SettingKeys
      /\ "share" \in SettingKeys /\ "source" \in SettingKeys
  BY DEF SettingKeys
<1>2. \A q \in SettingKeys :
        /\ Pend(q)' \subseteq Pend(q) \cup {x \in {v} : q = k}
        /\ house'[q] = house[q] \/ house'[q] \in Pend(q) \/ (q = k /\ house'[q] = v)
  BY DEF Brings
<1>3. Meanings
  BY DEF Values, Meant, Meanings
<1>4. CASE k = "mqtt"
  <2>1. Meanings'
    <3>1. mailbox' = mailbox
      BY <1>4 DEF Brings
    <3> QED BY <1>3, <3>1 DEF Meanings, Pend
  <2>2. Steady(k, v)
    BY <1>1, <1>2, <1>3, <1>4 DEF Meanings, Steady, New
  <2> QED BY <1>4, <2>1, <2>2
<1>5. CASE k # "mqtt"
  <2>1. (k \in {"start", "end"} => v = "new") /\ (k = "share" => v = "off")
    BY DEF Fitting
  <2>2. Meanings'
    BY <1>1, <1>2, <1>3, <1>5, <2>1 DEF Meanings
  <2>3. house'.mqtt = house.mqtt
    BY <1>1, <1>2, <1>3, <1>5 DEF Meanings
  <2>4. /\ house.start = "new" => house'.start = "new"
        /\ house.end = "new" => house'.end = "new"
        /\ house.share = "off" => house'.share = "off"
    BY <1>1, <1>2, <1>3, <2>1 DEF Meanings
  <2>5. Pend("source") \subseteq {"Disabled"} /\ (k = "source" => v = "Disabled")
          => /\ Pend("source")' \subseteq {"Disabled"}
             /\ house.source = "Disabled" => house'.source = "Disabled"
    BY <1>1, <1>2
  <2>6. Steady(k, v)
    BY <2>4, <2>5 DEF Steady, New
  <2> QED BY <2>2, <2>3, <2>6
<1> QED BY <1>4, <1>5

LEMMA ScheduleStays ==
  ASSUME Values, NEW k, NEW v, Brings(k, v), Fitting(k, v), Steady(k, v)
  PROVE  Scheduled'
<1>1. "start" \in SettingKeys /\ "end" \in SettingKeys /\ "source" \in SettingKeys
  BY DEF SettingKeys
<1>2. \A q \in SettingKeys :
        /\ Pend(q)' \subseteq Pend(q) \cup {x \in {v} : q = k}
        /\ house'[q] = house[q] \/ house'[q] \in Pend(q) \/ (q = k /\ house'[q] = v)
  BY DEF Brings
<1>3. "Schedule" \in Pend("source")' => New'
  <2>1. "Schedule" \in Pend("source")' => "Schedule" \in Pend("source") \/ (k = "source" /\ v = "Schedule")
    BY <1>1, <1>2
  <2> QED BY <2>1 DEF Values, Scheduled, Fitting, Steady
<1>4. ASSUME house'.source = "Schedule"
      PROVE  Old' \/ New'
  <2>1. house.source = "Schedule" \/ "Schedule" \in Pend("source") \/ (k = "source" /\ v = "Schedule")
    BY <1>1, <1>2, <1>4
  <2>2. CASE New
    BY <2>2 DEF Steady
  <2>3. CASE ~New
    <3>1. house.source = "Schedule" /\ Old
      BY <2>1, <2>3 DEF Values, Scheduled, Fitting
    <3>2. k \notin {"start", "end"}
      BY <3>1 DEF Fitting
    <3>3. Old'
      BY <1>1, <1>2, <3>1, <3>2 DEF Old
    <3> QED BY <3>3
  <2> QED BY <2>2, <2>3
<1> QED BY <1>3, <1>4 DEF Scheduled

LEMMA SourcesStay ==
  ASSUME Values, NEW k, NEW v, Brings(k, v), Fitting(k, v), Claims(k),
         k # "mqtt" => house'.mqtt = house.mqtt
  PROVE  Sourced'
<1>1. "source" \in SettingKeys /\ "other" \in SettingKeys
  BY DEF SettingKeys
<1>2. \A q \in SettingKeys :
        /\ Pend(q)' \subseteq Pend(q) \cup {x \in {v} : q = k}
        /\ house'[q] = house[q] \/ house'[q] \in Pend(q) \/ (q = k /\ house'[q] = v)
  BY DEF Brings
<1>3. "MQTT" \in {house'.source, house'.other} \cup Pend("source")' \cup Pend("other")'
        => \/ "MQTT" \in {house.source, house.other} \cup Pend("source") \cup Pend("other")
           \/ k \in {"source", "other"} /\ v = "MQTT"
  BY <1>1, <1>2
<1>4. "MQTT" \in {house'.source, house'.other} \cup Pend("source")' \cup Pend("other")' => restore'.ready
  BY <1>3 DEF Values, Sourced, Fitting, Claims
<1>5. Restore!Mqtt' = Restore!Mqtt /\ draft' = draft
  BY DEF Claims, Restore!Mqtt
<1>6. restore'.ready => draft.mqtt # "" /\ house'.mqtt = Restore!Mqtt
  <2>1. CASE restore.ready
    <3>1. k # "mqtt"
      BY <2>1 DEF Fitting
    <3> QED BY <2>1, <3>1 DEF Values, Sourced
  <2>2. CASE ~restore.ready
    BY <2>2 DEF Claims
  <2> QED BY <2>1, <2>2
<1> QED BY <1>4, <1>5, <1>6 DEF Sourced

LEMMA SetUpStays ==
  ASSUME Values, NEW k, NEW v, Brings(k, v), Fitting(k, v), Claims(k), Steady(k, v)
  PROVE  SetUp'
<1>1. "setup" \in SettingKeys
  BY DEF SettingKeys
<1>2. /\ Pend("setup")' \subseteq Pend("setup") \cup {x \in {v} : "setup" = k}
      /\ house'.setup = house.setup \/ house'.setup \in Pend("setup") \/ ("setup" = k /\ house'.setup = v)
  BY <1>1 DEF Brings
<1>3. house'.setup = "done" \/ "done" \in Pend("setup")'
        => house.setup = "done" \/ "done" \in Pend("setup") \/ k = "setup"
  BY <1>2
<1>4. house'.setup = "done" \/ "done" \in Pend("setup")' => house.share = "off" \/ restore.wasDone
  BY <1>3 DEF Values, SetUp, Fitting, Claims
<1> QED BY <1>4 DEF SetUp, Claims, Steady

LEMMA DueStays ==
  ASSUME Values, restore.applied \subseteq SettingKeys, NEW k, NEW v, Brings(k, v), Fitting(k,
         v), Claims(k)
  PROVE  IsDue'
<1> SUFFICES ASSUME NEW key \in restore'.applied
             PROVE  IF key = "mqtt" THEN restore'.ready ELSE key # "share" /\ Due'[key] = draft'[key]
  BY DEF IsDue
<1>1. draft' = draft /\ (restore.ready => restore'.ready)
  BY DEF Claims
<1>2. CASE key \in restore.applied
  <2>1. IF key = "mqtt" THEN restore.ready ELSE key # "share" /\ Due[key] = draft[key]
    BY <1>2 DEF Values, IsDue
  <2>2. key # "mqtt" => Due'[key] = Due[key] \/ (key = k /\ Due'[key] = v)
    BY <1>2 DEF Brings
  <2>3. key = k => key = "mqtt" \/ v = draft[key]
    BY <1>2 DEF Fitting
  <2> QED BY <1>1, <2>1, <2>2, <2>3
<1>3. CASE key \notin restore.applied
  BY <1>1, <1>3 DEF Claims
<1> QED BY <1>2, <1>3

LEMMA ValuesKept ==
  ASSUME Values, restore.applied \subseteq SettingKeys, NEW k, NEW v, Brings(k, v), Fitting(k,
         v), Claims(k)
  PROVE  Values' /\ Steady(k, v)
<1>1. Steady(k, v) /\ Meanings' /\ (k # "mqtt" => house'.mqtt = house.mqtt)
  BY ValuesStay
<1>2. Meant'
  BY <1>1 DEF Meant, Meanings, Brings, Claims, Values
<1> QED BY <1>1, <1>2, ScheduleStays, SourcesStay, SetUpStays, DueStays DEF Values

-----------------------------------------------------------------------------
(* Where the restore is, and what it has seen to until then.               *)
Early  == {"guard", "mqtt", "start", "startWrite", "end", "endWrite", "other", "source"}
Ending == {"enable", "share", "setup", "done"}
Late   == {"mqttOther", "mqttSource", "mqttWrite", "mqttUndo"} \cup Ending
Places == {"idle", "sourceWrite", "sourceUndo", "finish", "switchOn"} \cup Early \cup Late

Restores ==
  [ at : Places, guarded : {"none", "yes", "no"}, times : Nat, mqtt : BOOLEAN, ready : BOOLEAN,
    wasDone : BOOLEAN, safe : BOOLEAN, applied : SUBSET SettingKeys ]

Unread == restore.at = "idle" => mailbox = <<>> /\ restore = Restore!Idle

Timed ==
  /\ restore.times = 2 => New
  /\ restore.at \in {"idle", "guard", "mqtt", "start", "startWrite"} => restore.times = 0
  /\ restore.at \in {"end", "endWrite"} =>
       restore.times = 0 \/ (restore.times = 1 /\ house.start = "new")
  /\ restore.at = "startWrite" => draft.start = "new" /\ house.source = "Disabled"
  /\ restore.at = "endWrite" => draft.end = "new" /\ house.source = "Disabled"

Guarded ==
  /\ restore.at \in Early \cup {"idle"} => Pend("source") \subseteq {"Disabled"}
  /\ restore.at \notin {"idle", "guard"} /\ Restore!NeedsGuard => restore.guarded # "none"
  /\ restore.at = "sourceWrite" =>
       draft.source = "Disabled" \/ (draft.source = "Schedule" /\ restore.times = 2)

MqttFirst ==
  /\ restore.ready => restore.at \in Late
  /\ restore.mqtt => draft.mqtt # ""
  /\ restore.at = "switchOn" => draft.mqtt = "on"
  /\ restore.at \in {"mqttWrite", "mqttUndo"} => draft.source = "MQTT" /\ restore.ready

SourceTold ==
  /\ restore.at \in Early \cup {"idle", "sourceWrite", "sourceUndo", "mqttWrite", "mqttUndo"}
       => "source" \notin restore.applied
  /\ draft.source = "MQTT" /\ "source" \in restore.applied => restore.at \in Ending

Unshared == restore.at = "setup" /\ restore.safe /\ draft.setup = "done"
              => house.share = "off" \/ restore.wasDone

Control == Unread /\ Timed /\ Guarded /\ MqttFirst /\ SourceTold /\ Unshared

RestInv == restore \in Restores /\ Values /\ Control

LEMMA RestInit == ASSUME Restore!Init PROVE RestInv
<1>1. /\ mailbox = <<>> /\ restore = Restore!Idle /\ draft \in Restore!Backups
      /\ \E source \in {"Disabled", "Schedule"}, setup \in {"no", "done"} :
           house = [ source |-> source, start |-> "old", end |-> "old", other |-> "old",
                     mqtt |-> "own", enabled |-> "off", share |-> "on", setup |-> setup ]
  BY DEF Restore!Init
<1>2. /\ DOMAIN house = SettingKeys /\ house.start = house.end /\ house.source # "MQTT" /\ house.other = "old"
  BY <1>1 DEF SettingKeys
<1>3. mailbox \in Boxes /\ \A q : Pend(q) = {}
  BY <1>1 DEF Pend, ValuesOf, Restore!Writes, Boxes
<1>4. draft \in Restore!AllBackups
  <2>1. Restore!Bare \in Restore!AllBackups
    BY DEF Restore!AllBackups, Restore!Bare
  <2> QED BY <1>1, <2>1 DEF Restore!Backups
<1>5. /\ restore \in Restores /\ restore.at = "idle" /\ restore.ready = FALSE /\ restore.applied = {}
      /\ restore.times = 0 /\ restore.mqtt = FALSE
  BY <1>1 DEF Restore!Idle, Restores, Places
<1>6. Values
  BY <1>2, <1>3, <1>4, <1>5 DEF Values, Meant, Scheduled, Old, Sourced, SetUp, IsDue
<1>7. Control
  <2>1. Unread /\ Timed /\ Unshared
    BY <1>1, <1>5 DEF Unread, Timed, Unshared
  <2>2. Guarded /\ MqttFirst /\ SourceTold
    BY <1>3, <1>5 DEF Guarded, MqttFirst, SourceTold
  <2> QED BY <2>1, <2>2 DEF Control
<1> QED BY <1>5, <1>6, <1>7 DEF RestInv

(* What the invariant says that every step needs.                          *)
LEMMA RestFacts ==
  ASSUME RestInv
  PROVE  /\ DOMAIN house = SettingKeys /\ mailbox \in Boxes /\ draft \in Restore!AllBackups
         /\ restore \in Restores /\ restore.applied \subseteq SettingKeys /\ Fitting("", "")
<1>1. "" \notin SettingKeys
  BY DEF SettingKeys
<1> QED BY <1>1 DEF RestInv, Values, Meant, Restores, Fitting

(* A step that reports nothing, and writes nothing.                        *)
Sticks ==
  /\ restore'.applied = restore.applied /\ restore'.ready = restore.ready
  /\ restore'.wasDone = restore.wasDone /\ draft' = draft

LEMMA NothingWritten ==
  ASSUME RestInv, restore.at # "idle", Sticks, Restore!No
  PROVE  Values' /\ Steady("", "")
<1>1. Brings("", "")
  BY RestFacts, StillCarries DEF Restore!No
<1>2. Claims("")
  BY DEF Claims, Sticks, RestInv, Values
<1> QED BY <1>1, <1>2, RestFacts, ValuesKept DEF RestInv

(* The guard of the schedule: the source is switched to "Disabled".        *)
LEMMA GuardWrites ==
  ASSUME RestInv, restore.at # "idle", NEW ok \in BOOLEAN, Restore!Guard(ok), Sticks,
         "source" \notin restore.applied
  PROVE  Values' /\ Steady("source", "Disabled") /\ (ok => house'.source = "Disabled")
<1>1. "source" \in SettingKeys /\ "Disabled" \in Words
  BY DEF SettingKeys, Words
<1>2. Brings("source", "Disabled") /\ (ok => house'.source = "Disabled")
  BY <1>1, RestFacts, VerifiedCarries DEF Restore!Guard
<1>3. Fitting("source", "Disabled")
  BY DEF Fitting
<1>4. Claims("source")
  BY DEF Claims, Sticks
<1> QED BY <1>2, <1>3, <1>4, RestFacts, ValuesKept DEF RestInv

LEMMA RestoreStartKeeps == ASSUME RestInv, Restore!Start PROVE RestInv'
<1>1. /\ restore.at = "idle" /\ mailbox = <<>> /\ UNCHANGED <<house, mailbox, draft>>
      /\ restore' = [Restore!Idle EXCEPT !.at = "guard", !.wasDone = house.setup = "done"]
  BY DEF Restore!Start, Restore!At, Restore!No, RestInv, Control, Unread
<1>2. /\ restore' \in Restores /\ restore'.at = "guard" /\ restore'.times = 0 /\ restore'.mqtt = FALSE
      /\ restore'.ready = FALSE /\ restore'.wasDone = (house.setup = "done") /\ restore'.applied = {}
  BY <1>1 DEF Restore!Idle, Restores, Places, Early
<1>3. \A q : Pend(q) = {} /\ Pend(q)' = {}
  BY <1>1 DEF Pend, ValuesOf, Restore!Writes
<1>4. restore.ready = FALSE
  BY <1>1 DEF RestInv, Control, Unread, Restore!Idle
<1>5. Values'
  BY <1>1, <1>2, <1>3, <1>4
     DEF RestInv, Values, Meant, Scheduled, Old, New, Sourced, SetUp, IsDue
<1>6. Control'
  <2>1. Unread' /\ Timed' /\ Unshared'
    BY <1>2 DEF Unread, Timed, Unshared
  <2>2. Guarded' /\ MqttFirst' /\ SourceTold'
    BY <1>2, <1>3 DEF Guarded, MqttFirst, SourceTold
  <2> QED BY <2>1, <2>2 DEF Control
<1> QED BY <1>2, <1>5, <1>6 DEF RestInv

(* The moves between places, with what each has to show.                   *)
LEMMA FirstGuardKeeps == ASSUME RestInv, Restore!FirstGuard PROVE RestInv'
<1>1. restore \in Restores /\ restore.at = "guard" /\ "source" \notin restore.applied /\ draft' = draft
  BY DEF RestInv, Control, SourceTold, Restore!FirstGuard, Restore!At, Restore!Go, Early
<1>2. PICK g \in {"none", "yes", "no"} :
        /\ restore' = [Restore!To("mqtt") EXCEPT !.guarded = g]
        /\ \/ g # "none" /\ \E ok \in BOOLEAN : Restore!Guard(ok)
           \/ g = restore.guarded /\ Restore!No /\ ~Restore!NeedsGuard
  <2>1. CASE \E ok \in BOOLEAN :
               Restore!Guard(ok) /\ Restore!Go([Restore!To("mqtt") EXCEPT !.guarded = Restore!Told(ok)])
    BY <2>1 DEF Restore!Go, Restore!Told
  <2>2. CASE ~Restore!NeedsGuard /\ Restore!Go(Restore!To("mqtt")) /\ Restore!No
    <3>1. Restore!To("mqtt") = [Restore!To("mqtt") EXCEPT !.guarded = restore.guarded]
      BY <1>1 DEF Restore!To, Restores
    <3>2. restore.guarded \in {"none", "yes", "no"}
      BY <1>1 DEF Restores
    <3> QED BY <2>2, <3>1, <3>2 DEF Restore!Go
  <2> QED BY <2>1, <2>2 DEF Restore!FirstGuard
<1>3. /\ restore' \in Restores /\ restore'.at = "mqtt" /\ restore'.guarded = g
      /\ restore'.times = restore.times /\ restore'.mqtt = restore.mqtt /\ Sticks
  BY <1>1, <1>2 DEF Restore!To, Restores, Places, Early, Sticks
<1>4. Pend("source") \subseteq {"Disabled"} /\ restore.times = 0 /\ (restore.mqtt => draft.mqtt # "")
      /\ ~restore.ready
  BY <1>1 DEF RestInv, Control, Guarded, Early, Timed, MqttFirst, Late, Ending
<1>5. Values' /\ Pend("source")' \subseteq {"Disabled"}
  <2>1. CASE g # "none" /\ \E ok \in BOOLEAN : Restore!Guard(ok)
    <3>1. Values' /\ Steady("source", "Disabled")
      BY <1>1, <1>3, <2>1, GuardWrites
    <3> QED BY <1>4, <3>1 DEF Steady
  <2>2. CASE Restore!No
    <3>1. Values' /\ Steady("", "")
      BY <1>1, <1>3, <2>2, NothingWritten
    <3> QED BY <1>4, <3>1 DEF Steady
  <2> QED BY <1>2, <2>1, <2>2
<1>6. Unread' /\ Timed' /\ Unshared'
  <2>1. restore'.times = 0
    BY <1>3, <1>4
  <2>2. Timed'
    <3>1. restore'.times # 2 /\ restore'.at \notin {"end", "endWrite", "startWrite"}
      BY <1>3, <2>1
    <3> QED BY ONLY <2>1, <3>1 DEF Timed
  <2> QED BY <1>3, <2>2 DEF Unread, Unshared
<1>7. Guarded'
  BY <1>2, <1>3, <1>4, <1>5 DEF Guarded, Restore!NeedsGuard, Sticks
<1>8. MqttFirst' /\ SourceTold'
  BY <1>1, <1>3, <1>4 DEF MqttFirst, SourceTold, Sticks
<1> QED BY <1>3, <1>5, <1>6, <1>7, <1>8 DEF RestInv, Control

LEMMA PrepareKeeps == ASSUME RestInv, Restore!PrepareMqtt PROVE RestInv'
<1>1. restore \in Restores /\ restore.at = "mqtt" /\ "source" \notin restore.applied /\ ~restore.ready
  BY DEF RestInv, Control, SourceTold, Restore!PrepareMqtt, Restore!At, Early, MqttFirst, Late,
         Ending
<1>2. \/ draft.mqtt = "" /\ Restore!Go(Restore!To("start")) /\ Restore!No
      \/ /\ draft.mqtt # ""
         /\ \E ok \in BOOLEAN :
              Restore!PostMqtt("off", ok) /\ Restore!Go([Restore!To("start") EXCEPT !.mqtt = ok])
  BY DEF Restore!PrepareMqtt
<1>3. /\ restore' \in Restores /\ restore'.at = "start" /\ restore'.guarded = restore.guarded
      /\ restore'.times = restore.times /\ Sticks
  <2>1. CASE Restore!Go(Restore!To("start"))
    BY <1>1, <2>1 DEF Restore!Go, Restore!To, Restores, Places, Early, Sticks
  <2>2. CASE draft.mqtt # "" /\ \E ok \in BOOLEAN : Restore!Go([Restore!To("start") EXCEPT !.mqtt = ok])
    BY <1>1, <2>2 DEF Restore!Go, Restore!To, Restores, Places, Early, Sticks
  <2> QED BY <1>2, <2>1, <2>2
<1>4. Pend("source") \subseteq {"Disabled"} /\ restore.times = 0 /\ (restore.mqtt => draft.mqtt # "")
      /\ (Restore!NeedsGuard => restore.guarded # "none")
  BY <1>1 DEF RestInv, Control, Guarded, Early, Timed, MqttFirst
<1>9. restore'.mqtt = TRUE => restore.mqtt = TRUE \/ draft.mqtt # ""
  BY <1>1, <1>2 DEF Restore!Go, Restore!To, Restores
<1>5. Values' /\ Pend("source")' \subseteq {"Disabled"}
  <2>1. CASE \E ok \in BOOLEAN : Restore!PostMqtt("off", ok)
    <3>1. Brings("mqtt", "off")
      BY <2>1, RestFacts, PostCarries
    <3>2. Fitting("mqtt", "off") /\ Claims("mqtt")
      BY <1>1, <1>3 DEF Fitting, Claims, Sticks
    <3>3. Values' /\ Steady("mqtt", "off")
      BY <3>1, <3>2, RestFacts, ValuesKept DEF RestInv
    <3> QED BY <1>4, <3>3 DEF Steady
  <2>2. CASE Restore!No
    <3>1. Values' /\ Steady("", "")
      BY <1>1, <1>3, <2>2, NothingWritten
    <3> QED BY <1>4, <3>1 DEF Steady
  <2> QED BY <1>2, <2>1, <2>2
<1>6. Unread' /\ Timed' /\ Unshared'
  <2>1. restore'.times = 0
    BY <1>3, <1>4
  <2>2. Timed'
    BY <1>3, <2>1 DEF Timed
  <2> QED BY <1>3, <2>2 DEF Unread, Unshared
<1>7. Guarded'
  BY <1>3, <1>4, <1>5 DEF Guarded, Restore!NeedsGuard, Sticks
<1>8. MqttFirst' /\ SourceTold'
  <2>1. restore'.mqtt => draft'.mqtt # ""
    BY <1>3, <1>4, <1>9 DEF Restores, Sticks
  <2> QED BY <1>1, <1>3, <2>1 DEF MqttFirst, SourceTold, Sticks
<1> QED BY <1>3, <1>5, <1>6, <1>7, <1>8 DEF RestInv, Control

(* The times of the schedule, each behind a guard of its own.              *)
LEMMA TimeKeeps ==
  ASSUME RestInv, NEW key \in {"start", "end"},
         NEW write, write = (IF key = "start" THEN "startWrite" ELSE "endWrite"),
         NEW next, next = (IF key = "start" THEN "end" ELSE "other"),
         Restore!RestoreTime(key, write, next)
  PROVE  RestInv'
<1>1. /\ restore \in Restores /\ restore.at = key /\ "source" \notin restore.applied /\ ~restore.ready
      /\ restore.at \in {"start", "end"}
  BY DEF RestInv, Control, SourceTold, Restore!RestoreTime, Restore!At, Early, MqttFirst, Late,
         Ending
<1>2. /\ Pend("source") \subseteq {"Disabled"} /\ (restore.mqtt => draft.mqtt # "")
      /\ (Restore!NeedsGuard => restore.guarded # "none")
      /\ restore.times = 0 \/ (key = "end" /\ restore.times = 1 /\ house.start = "new")
  BY <1>1 DEF RestInv, Control, Guarded, Early, Timed, MqttFirst
<1>3. draft.start \in {"", "new"} /\ draft.end \in {"", "new"}
  BY RestFacts DEF Restore!AllBackups
<1>4. CASE draft[key] = ""
  <2>1. Restore!Go(Restore!To(next)) /\ Restore!No
    BY <1>4 DEF Restore!RestoreTime
  <2>2. /\ restore' \in Restores /\ restore'.at = next /\ restore'.guarded = restore.guarded
        /\ restore'.times = restore.times /\ restore'.mqtt = restore.mqtt /\ Sticks
    BY <1>1, <2>1 DEF Restore!Go, Restore!To, Restores, Places, Early, Sticks
  <2>3. Values' /\ Steady("", "")
    BY <1>1, <2>1, <2>2, NothingWritten
  <2>4. Unread' /\ Timed' /\ Unshared'
    <3>1. house.start = "new" => house'.start = "new"
      BY <2>3 DEF Steady
    <3>2. restore'.times = 0 \/ (restore'.times = 1 /\ key = "end")
      BY <1>2, <2>2
    <3>3. CASE key = "start"
      BY <2>2, <3>2, <3>3 DEF Timed, Unread, Unshared
    <3>4. CASE key = "end"
      BY <2>2, <3>2, <3>4 DEF Timed, Unread, Unshared
    <3> QED BY <3>3, <3>4
  <2>5. Guarded'
    BY <1>1, <1>2, <2>2, <2>3 DEF Guarded, Restore!NeedsGuard, Sticks, Steady
  <2>6. MqttFirst' /\ SourceTold'
    BY <1>1, <1>2, <2>2 DEF MqttFirst, SourceTold, Sticks
  <2> QED BY <2>2, <2>3, <2>4, <2>5, <2>6 DEF RestInv, Control
<1>5. CASE draft[key] # ""
  <2>1. PICK ok \in BOOLEAN :
          /\ Restore!Guard(ok)
          /\ Restore!Go([Restore!To(IF ok THEN write ELSE next) EXCEPT !.guarded = Restore!Told(ok)])
    BY <1>5 DEF Restore!RestoreTime
  <2>2. /\ restore' \in Restores /\ restore'.at = (IF ok THEN write ELSE next) /\ restore'.guarded # "none"
        /\ restore'.times = restore.times /\ restore'.mqtt = restore.mqtt /\ Sticks
    BY <1>1, <2>1 DEF Restore!Go, Restore!To, Restores, Places, Early, Sticks, Restore!Told
  <2>3. Values' /\ Steady("source", "Disabled") /\ (ok => house'.source = "Disabled")
    BY <1>1, <2>1, <2>2, GuardWrites
  <2>4. Timed'
    <3>1. key = "start" => restore.times = 0 /\ draft.start = "new"
      BY <1>2, <1>3, <1>5
    <3>2. key = "end" => draft.end = "new"
      BY <1>3, <1>5
    <3>3. CASE key = "start"
      BY <2>2, <2>3, <3>1, <3>3 DEF Timed, Sticks
    <3>4. CASE key = "end"
      <4>1. house.start = "new" => house'.start = "new"
        BY <2>3 DEF Steady
      <4>2. restore'.times = 0 \/ (restore'.times = 1 /\ house'.start = "new")
        BY <1>2, <2>2, <4>1
      <4>3. restore'.at \in {"endWrite", "other"} /\ draft'.end = "new"
        BY <2>2, <3>2, <3>4 DEF Sticks
      <4>4. restore'.at = "endWrite" => house'.source = "Disabled"
        BY <2>2, <2>3, <3>4
      <4> QED BY <4>2, <4>3, <4>4 DEF Timed
    <3> QED BY <3>3, <3>4
  <2>5. Unread' /\ Unshared'
    BY <2>2 DEF Unread, Unshared
  <2>6. Guarded'
    BY <1>1, <1>2, <2>2, <2>3 DEF Guarded, Restore!NeedsGuard, Sticks, Steady
  <2>7. MqttFirst' /\ SourceTold'
    BY <1>1, <1>2, <2>2 DEF MqttFirst, SourceTold, Sticks
  <2> QED BY <2>2, <2>3, <2>4, <2>5, <2>6, <2>7 DEF RestInv, Control
<1> QED BY <1>4, <1>5

LEMMA WriteTimeKeeps ==
  ASSUME RestInv, NEW key \in {"start", "end"},
         NEW write, write = (IF key = "start" THEN "startWrite" ELSE "endWrite"),
         NEW next, next = (IF key = "start" THEN "end" ELSE "other"),
         Restore!WriteTime(key, write, next)
  PROVE  RestInv'
<1>1. /\ restore \in Restores /\ restore.at = write /\ "source" \notin restore.applied /\ ~restore.ready
      /\ restore.at \in {"startWrite", "endWrite"}
  BY DEF RestInv, Control, SourceTold, Restore!WriteTime, Restore!At, Early, MqttFirst, Late,
         Ending
<1>2. /\ Pend("source") \subseteq {"Disabled"} /\ (restore.mqtt => draft.mqtt # "")
      /\ (Restore!NeedsGuard => restore.guarded # "none") /\ draft[key] = "new" /\ house.source = "Disabled"
      /\ restore.times = 0 \/ (key = "end" /\ restore.times = 1 /\ house.start = "new")
  BY <1>1 DEF RestInv, Control, Guarded, Early, Timed, MqttFirst
<1>3. PICK ok \in BOOLEAN :
        /\ Restore!SetVerified(key, "new", ok)
        /\ Restore!Go(IF ok THEN [Restore!Took(key, next) EXCEPT !.times = @ + 1]
                      ELSE Restore!To(next))
  BY <1>2 DEF Restore!WriteTime
<1>4. /\ restore' \in Restores /\ restore'.at = next /\ restore'.guarded = restore.guarded
      /\ restore'.mqtt = restore.mqtt /\ restore'.ready = restore.ready
      /\ restore'.wasDone = restore.wasDone /\ draft' = draft
      /\ restore'.times = (IF ok THEN restore.times + 1 ELSE restore.times)
      /\ restore'.applied = (IF ok THEN restore.applied \cup {key} ELSE restore.applied)
  <2>1. CASE ok
    <3>1. restore.times + 1 \in Nat /\ key \in SettingKeys
      BY <1>1 DEF Restores, SettingKeys
    <3> QED BY <1>1, <1>3, <2>1, <3>1 DEF Restore!Go, Restore!Took, Restore!To, Restores,
                                          Places, Early
  <2>2. CASE ~ok
    BY <1>1, <1>3, <2>2 DEF Restore!Go, Restore!To, Restores, Places, Early
  <2> QED BY <2>1, <2>2
<1>5. Values' /\ Steady(key, "new") /\ (ok => house'[key] = "new")
  <2>1. key \in SettingKeys /\ "new" \in Words
    BY DEF SettingKeys, Words
  <2>2. Brings(key, "new") /\ (ok => Due'[key] = "new" /\ house'[key] = "new")
    BY <1>3, <2>1, RestFacts, VerifiedCarries
  <2>3. Fitting(key, "new")
    BY <1>2 DEF Fitting
  <2>4. Claims(key)
    BY <1>1, <1>2, <1>4, <2>2 DEF Claims
  <2> QED BY <2>2, <2>3, <2>4, RestFacts, ValuesKept DEF RestInv
<1>6. Timed'
  <2>1. CASE ok /\ key = "end" /\ restore.times = 1
    <3>1. house'.start = "new" /\ house'.end = "new"
      <4>1. house.start = "new"
        <5>1. restore.times # 0
          BY <2>1
        <5> QED BY ONLY <1>2, <5>1
      <4> QED BY <1>5, <2>1, <4>1 DEF Steady
    <3>2. restore'.times = 2 /\ restore'.at = "other"
      BY <1>4, <2>1
    <3> QED BY <3>1, <3>2 DEF Timed, New
  <2>2. CASE restore.times = 0
    <3>1. restore'.times = 0 \/ (restore'.times = 1 /\ house'[key] = "new")
      BY <1>4, <1>5, <2>2
    <3> QED BY <1>4, <3>1 DEF Timed
  <2>3. CASE ~ok /\ restore.times = 1 /\ key = "end"
    BY <1>4, <2>3 DEF Timed
  <2> QED BY <1>2, <2>1, <2>2, <2>3
<1>7. Unread' /\ Unshared'
  BY <1>4 DEF Unread, Unshared
<1>8. Guarded'
  BY <1>1, <1>2, <1>4, <1>5 DEF Guarded, Restore!NeedsGuard, Steady
<1>9. MqttFirst'
  BY <1>1, <1>2, <1>4 DEF MqttFirst
<1>10. SourceTold'
  <2>1. "source" \notin restore'.applied
    BY <1>1, <1>4
  <2> QED BY <2>1 DEF SourceTold
<1> QED BY <1>4, <1>5, <1>6, <1>7, <1>8, <1>9, <1>10 DEF RestInv, Control

-----------------------------------------------------------------------------
(* After the times: what they were does not change any more.               *)
PastTimes == (Places \ Early) \ {"idle"}

Later(at) ==
  /\ restore' \in Restores /\ restore'.at = at /\ restore'.times = restore.times
  /\ restore'.guarded = restore.guarded /\ restore'.mqtt = restore.mqtt
  /\ restore'.wasDone = restore.wasDone /\ draft' = draft

Earned(at) ==
  /\ restore.at \in PastTimes \cup {"other", "source"} /\ at \in PastTimes \cup {"source"}
  /\ at = "source" => Pend("source")' \subseteq {"Disabled"}
  /\ at = "sourceWrite" =>
       draft.source = "Disabled" \/ (draft.source = "Schedule" /\ restore.times = 2)
  /\ restore'.ready = TRUE => at \in Late
  /\ at = "switchOn" => draft.mqtt = "on"
  /\ at \in {"mqttWrite", "mqttUndo"} => draft.source = "MQTT" /\ restore'.ready = TRUE

LEMMA LaterControl ==
  ASSUME RestInv, NEW at, Later(at), Earned(at), NEW k, NEW v, Steady(k, v), SourceTold',
         Unshared'
  PROVE  Control'
<1>0. /\ restore.at \in PastTimes \cup {"other", "source"} /\ at \in PastTimes \cup {"source"}
      /\ at = "source" => Pend("source")' \subseteq {"Disabled"}
      /\ at = "sourceWrite" =>
           draft.source = "Disabled" \/ (draft.source = "Schedule" /\ restore.times = 2)
      /\ restore'.ready = TRUE => at \in Late
      /\ at = "switchOn" => draft.mqtt = "on"
      /\ at \in {"mqttWrite", "mqttUndo"} => draft.source = "MQTT" /\ restore'.ready = TRUE
  BY DEF Earned
<1>1. restore.at \notin {"idle", "guard"}
  BY <1>0 DEF PastTimes, Places, Early, Late, Ending
<1>2. restore'.at = at /\ at \notin (Early \ {"source"}) \cup {"idle"}
  BY <1>0 DEF Later, PastTimes, Places, Early, Late, Ending
<1>3. Unread'
  BY <1>2 DEF Unread
<1>4. Timed'
  <2>1. restore'.times = 2 => New'
    BY DEF RestInv, Control, Timed, Steady, Later
  <2>2. restore'.at \notin {"idle", "guard", "mqtt", "start", "startWrite", "end", "endWrite"}
    BY <1>2 DEF Early
  <2> QED BY <2>1, <2>2 DEF Timed
<1>5. Guarded'
  <2>1. restore'.at \in Early \cup {"idle"} => Pend("source")' \subseteq {"Disabled"}
    BY <1>0, <1>2
  <2>2. Restore!NeedsGuard' = Restore!NeedsGuard
    BY DEF Restore!NeedsGuard, Later
  <2>3. Restore!NeedsGuard' => restore'.guarded # "none"
    BY <1>1, <2>2 DEF RestInv, Control, Guarded, Later
  <2> QED BY <1>0, <1>2, <2>1, <2>3 DEF Guarded, Later
<1>6. MqttFirst'
  <2>1. restore'.mqtt => draft'.mqtt # ""
    BY DEF RestInv, Control, MqttFirst, Later
  <2>2. (restore'.ready => restore'.at \in Late) /\ (restore'.at = "switchOn" => draft'.mqtt = "on")
    BY <1>0, <1>2 DEF Later, Restores
  <2>3. restore'.at \in {"mqttWrite", "mqttUndo"} => draft'.source = "MQTT" /\ restore'.ready
    BY <1>0, <1>2 DEF Later
  <2> QED BY <2>1, <2>2, <2>3 DEF MqttFirst
<1> QED BY <1>3, <1>4, <1>5, <1>6 DEF Control

(* A setting is written as the backup has it, and reported when confirmed. *)
LEMMA DraftWrites ==
  ASSUME RestInv, restore.at # "idle", NEW at, Later(at), restore'.ready = restore.ready,
         NEW k \in SettingKeys, k \notin {"mqtt", "share"}, NEW v \in Words, v = draft[k],
         Fitting(k, v),
         NEW ok \in BOOLEAN, Restore!Set(k, v, ok) \/ Restore!SetVerified(k, v, ok),
         restore'.applied = (IF ok THEN restore.applied \cup {k} ELSE restore.applied)
  PROVE  Values' /\ Steady(k, v)
<1>1. Brings(k, v) /\ (ok => Due'[k] = v)
  <2>1. CASE Restore!Set(k, v, ok)
    BY <2>1, RestFacts, SetCarries
  <2>2. CASE Restore!SetVerified(k, v, ok)
    BY <2>2, RestFacts, VerifiedCarries
  <2> QED BY <2>1, <2>2
<1>2. \A key \in restore'.applied : key \in restore.applied \/ (ok /\ key = k)
  OBVIOUS
<1>3. Claims(k)
  BY <1>1, <1>2 DEF Claims, Later
<1> QED BY <1>1, <1>3, RestFacts, ValuesKept DEF RestInv

LEMMA PostWrites ==
  ASSUME RestInv, restore.at # "idle", ~restore.ready, NEW at, Later(at),
         NEW v, NEW ok \in BOOLEAN, Restore!PostMqtt(v, ok),
         restore'.ready = TRUE => ok /\ v = Restore!Mqtt /\ draft.mqtt # "",
         restore'.applied = (IF restore'.ready THEN restore.applied \cup {"mqtt"} ELSE restore.applied)
  PROVE  Values' /\ Steady("mqtt", v)
<1>1. Brings("mqtt", v) /\ (ok => house'["mqtt"] = v)
  BY RestFacts, PostCarries
<1>2. \A key \in restore'.applied : key \in restore.applied \/ (key = "mqtt" /\ restore'.ready)
  OBVIOUS
<1>3. restore'.ready => draft.mqtt # "" /\ house'.mqtt = Restore!Mqtt
  BY <1>1 DEF Later, Restores
<1>4. Claims("mqtt")
  BY <1>2, <1>3 DEF Claims, Later
<1>5. Fitting("mqtt", v)
  BY DEF Fitting
<1> QED BY <1>1, <1>4, <1>5, RestFacts, ValuesKept DEF RestInv

(* The moves: on, or on and remembering a confirmed setting.               *)
Went(at) == Later(at) /\ restore'.ready = restore.ready /\ restore'.safe = restore.safe

LEMMA GoMoves ==
  ASSUME restore \in Restores, NEW at \in Places, Restore!Go(Restore!To(at))
  PROVE  Went(at) /\ restore'.applied = restore.applied
BY DEF Restore!Go, Restore!To, Restores, Later, Went

LEMMA TookMoves ==
  ASSUME restore \in Restores, NEW at \in Places, NEW k \in SettingKeys,
         Restore!Go(Restore!Took(k, at))
  PROVE  Went(at) /\ restore'.applied = restore.applied \cup {k}
<1>1. restore' = [[restore EXCEPT !.at = at] EXCEPT !.applied = @ \cup {k}] /\ draft' = draft
  BY DEF Restore!Go, Restore!Took, Restore!To
<1>2. restore.applied \cup {k} \in SUBSET SettingKeys
  BY DEF Restores
<1> QED BY <1>1, <1>2 DEF Restores, Later, Went

LEMMA TakesOrNot ==
  ASSUME restore \in Restores, NEW at \in Places, NEW other \in Places, NEW k \in SettingKeys,
         NEW ok \in BOOLEAN,
         Restore!Go(IF ok THEN Restore!Took(k, at) ELSE Restore!To(other))
  PROVE  /\ Went(IF ok THEN at ELSE other)
         /\ restore'.applied = (IF ok THEN restore.applied \cup {k} ELSE restore.applied)
<1>1. CASE ok
  BY <1>1, TookMoves
<1>2. CASE ~ok
  BY <1>2, GoMoves
<1> QED BY <1>1, <1>2

LEMMA OtherKeeps == ASSUME RestInv, Restore!RestoreOther PROVE RestInv'
<1>1. /\ restore \in Restores /\ restore.at = "other" /\ "source" \notin restore.applied
      /\ restore.ready = FALSE /\ Pend("source") \subseteq {"Disabled"}
  BY DEF RestInv, Control, SourceTold, Restore!RestoreOther, Restore!At, Early, MqttFirst,
         Late, Ending,
         Guarded, Restores
<1>2. PICK ok \in BOOLEAN :
        \/ Restore!Go(Restore!To("source")) /\ Restore!No /\ ok = FALSE
        \/ /\ draft.other = "new" /\ Restore!Set("other", "new", ok)
           /\ Restore!Go(IF ok THEN Restore!Took("other", "source") ELSE Restore!To("source"))
  BY DEF Restore!RestoreOther
<1>3. /\ Later("source") /\ restore'.ready = restore.ready
      /\ restore'.applied = (IF ok THEN restore.applied \cup {"other"} ELSE restore.applied)
  <2>1. "other" \in SettingKeys /\ "source" \in Places
    BY DEF SettingKeys, Places, Early
  <2>2. CASE Restore!Go(Restore!To("source")) /\ ok = FALSE
    BY <1>1, <2>1, <2>2, GoMoves DEF Went
  <2>3. CASE Restore!Go(IF ok THEN Restore!Took("other", "source") ELSE Restore!To("source"))
    BY <1>1, <2>1, <2>3, TakesOrNot DEF Went
  <2> QED BY <1>2, <2>2, <2>3
<1>4. Values' /\ Pend("source")' \subseteq {"Disabled"} /\ \E k, v : Steady(k, v)
  <2>1. CASE draft.other = "new" /\ Restore!Set("other", "new", ok)
    <3>1. Fitting("other", "new") /\ "other" \in SettingKeys /\ "new" \in Words
      BY <2>1 DEF Fitting, SettingKeys, Words
    <3>2. Values' /\ Steady("other", "new")
      BY <1>1, <1>3, <2>1, <3>1, DraftWrites
    <3> QED BY <1>1, <3>2 DEF Steady
  <2>2. CASE Restore!No /\ ok = FALSE
    <3>1. Sticks
      BY <1>3, <2>2 DEF Sticks, Later
    <3>2. Values' /\ Steady("", "")
      BY <1>1, <2>2, <3>1, NothingWritten
    <3> QED BY <1>1, <3>2 DEF Steady
  <2> QED BY <1>2, <2>1, <2>2
<1>5. "source" \notin restore'.applied
  BY <1>1, <1>3
<1>6. SourceTold' /\ Unshared'
  BY <1>3, <1>5 DEF SourceTold, Unshared, Later
<1>7. Control'
  <2>1. PICK k, v : Steady(k, v)
    BY <1>4
  <2>2. Earned("source")
    BY <1>1, <1>3, <1>4 DEF Earned
  <2> QED BY <1>3, <1>6, <2>1, <2>2, LaterControl
<1> QED BY <1>3, <1>4, <1>7 DEF RestInv, Later

Telling(at) ==
  "source" \in restore'.applied =>
    /\ at \notin Early \cup {"idle", "sourceWrite", "sourceUndo", "mqttWrite", "mqttUndo"}
    /\ draft.source = "MQTT" => at \in Ending

LEMMA WriteKeeps ==
  ASSUME RestInv, NEW at, Later(at), Earned(at), Telling(at), NEW k, NEW v, Steady(k, v),
         Values',
         at = "setup" => Unshared'
  PROVE  RestInv'
<1>1. SourceTold'
  BY DEF SourceTold, Telling, Later
<1>2. Unshared'
  BY DEF Unshared, Later
<1>3. Control'
  BY <1>1, <1>2, LaterControl
<1> QED BY <1>3 DEF RestInv, Later

LEMMA SilentKeeps ==
  ASSUME RestInv, restore.at # "idle", NEW at \in Places, Restore!Go(Restore!To(at)),
         Restore!No,
         Earned(at), Telling(at), at = "setup" => Unshared'
  PROVE  RestInv'
<1>1. Went(at) /\ restore'.applied = restore.applied
  BY RestFacts, GoMoves
<1>2. Sticks
  BY <1>1 DEF Sticks, Went, Later
<1>3. Values' /\ Steady("", "")
  BY <1>2, NothingWritten
<1> QED BY <1>1, <1>3, WriteKeeps DEF Went

LEMMA GuardKeeps ==
  ASSUME RestInv, restore.at # "idle", NEW at \in Places, Restore!Go(Restore!To(at)),
         NEW ok \in BOOLEAN, Restore!Guard(ok), "source" \notin restore.applied,
         Earned(at), at # "setup"
  PROVE  RestInv'
<1>1. Went(at) /\ restore'.applied = restore.applied
  BY RestFacts, GoMoves
<1>2. Sticks
  BY <1>1 DEF Sticks, Went, Later
<1>3. Values' /\ Steady("source", "Disabled")
  BY <1>2, GuardWrites
<1>4. Telling(at)
  BY <1>1 DEF Telling
<1> QED BY <1>1, <1>3, <1>4, WriteKeeps DEF Went

LEMMA TakeKeeps ==
  ASSUME RestInv, restore.at # "idle", NEW at \in Places, NEW other \in Places,
         NEW k \in SettingKeys, k \notin {"mqtt", "share"}, NEW v \in Words, v = draft[k],
         Fitting(k, v),
         NEW ok \in BOOLEAN, Restore!Set(k, v, ok) \/ Restore!SetVerified(k, v, ok),
         Restore!Go(IF ok THEN Restore!Took(k, at) ELSE Restore!To(other)),
         Earned(IF ok THEN at ELSE other), Telling(IF ok THEN at ELSE other),
         at # "setup", other # "setup"
  PROVE  RestInv'
<1>1. /\ Went(IF ok THEN at ELSE other)
      /\ restore'.applied = (IF ok THEN restore.applied \cup {k} ELSE restore.applied)
  BY RestFacts, TakesOrNot
<1> DEFINE to == IF ok THEN at ELSE other
<1>2. to # "setup" /\ Earned(to) /\ Telling(to)
  OBVIOUS
<1>3. Later(to) /\ restore'.ready = restore.ready
  BY <1>1 DEF Went
<1> HIDE DEF to
<1>4. Values' /\ Steady(k, v)
  BY <1>1, <1>3, DraftWrites
<1> QED BY <1>2, <1>3, <1>4, WriteKeeps

LEMMA SourceKeeps == ASSUME RestInv, Restore!RestoreSource PROVE RestInv'
<1>1. /\ restore \in Restores /\ restore.at = "source" /\ "source" \notin restore.applied
      /\ restore.ready = FALSE
  BY DEF RestInv, Control, SourceTold, Restore!RestoreSource, Restore!At, Early, MqttFirst,
         Late, Ending, Restores
<1>2. Restore!NeedsGuard => restore.guarded # "none"
  BY <1>1 DEF RestInv, Control, Guarded
<1>3. /\ "finish" \in PastTimes /\ "sourceWrite" \in PastTimes /\ "sourceUndo" \in PastTimes
      /\ "finish" \in Places /\ "sourceWrite" \in Places /\ "sourceUndo" \in Places
  BY DEF PastTimes, Places, Early, Late
<1>4. ASSUME restore'.ready = restore.ready PROVE Earned("finish") /\ Earned("sourceUndo")
  BY <1>1, <1>3, <1>4 DEF Earned
<1>5. ASSUME NEW at \in {"finish", "sourceUndo"}, Restore!Go(Restore!To(at)),
             Restore!No PROVE RestInv'
  <2>1. Went(at) /\ restore'.applied = restore.applied
    BY <1>1, <1>3, <1>5, GoMoves
  <2>2. Earned(at) /\ Telling(at)
    BY <1>1, <1>4, <2>1 DEF Went, Telling
  <2> QED BY <1>1, <1>3, <1>5, <2>2, SilentKeeps
<1>6. ASSUME draft.source \in {"Disabled", "Schedule"}, restore.guarded = "none",
             NEW ok \in BOOLEAN, Restore!Set("source", draft.source, ok),
             Restore!Go(IF ok THEN Restore!Took("source", "finish") ELSE Restore!To("finish"))
      PROVE  RestInv'
  <2>1. draft.source = "Disabled"
    BY <1>2, <1>6 DEF Restore!NeedsGuard
  <2>2. "source" \in SettingKeys /\ "Disabled" \in Words /\ Fitting("source", "Disabled")
    BY <1>1 DEF SettingKeys, Words, Fitting
  <2>3. Went("finish")
    BY <1>1, <1>3, <1>6, <2>2, TakesOrNot
  <2>4. Earned("finish") /\ Telling("finish")
    BY <1>4, <2>1, <2>3 DEF Went, Telling, Early
  <2> QED BY <1>1, <1>3, <1>6, <2>1, <2>2, <2>4, TakeKeeps
<1>7. ASSUME Restore!SourceAllowed, draft.source \in {"Disabled", "Schedule"},
             NEW ok \in BOOLEAN,
             Restore!Guard(ok), Restore!Go(Restore!To(IF ok THEN "sourceWrite" ELSE "sourceUndo"))
      PROVE  RestInv'
  <2>1. CASE ok
    <3>1. Went("sourceWrite")
      BY <1>1, <1>3, <1>7, <2>1, GoMoves
    <3>2. Earned("sourceWrite")
      BY <1>1, <1>3, <1>7, <3>1 DEF Earned, Went, Restore!SourceAllowed
    <3> QED BY <1>1, <1>3, <1>7, <2>1, <3>2, GuardKeeps
  <2>2. CASE ~ok
    <3>1. Went("sourceUndo")
      BY <1>1, <1>3, <1>7, <2>2, GoMoves
    <3>2. Earned("sourceUndo")
      BY <1>4, <3>1 DEF Went
    <3> QED BY <1>1, <1>3, <1>7, <2>2, <3>2, GuardKeeps
  <2> QED BY <2>1, <2>2
<1> QED BY <1>5, <1>6, <1>7 DEF Restore!RestoreSource

LEMMA WriteSourceKeeps == ASSUME RestInv, Restore!WriteSource PROVE RestInv'
<1>1. /\ restore \in Restores /\ restore.at = "sourceWrite" /\ "source" \notin restore.applied
      /\ restore.ready = FALSE
  BY DEF RestInv, Control, SourceTold, Restore!WriteSource, Restore!At, MqttFirst, Late,
         Ending, Restores
<1>2. draft.source = "Disabled" \/ (draft.source = "Schedule" /\ New)
  BY <1>1 DEF RestInv, Control, Guarded, Timed
<1>3. /\ "finish" \in PastTimes /\ "sourceWrite" \in PastTimes /\ "sourceUndo" \in PastTimes
      /\ "finish" \in Places /\ "sourceUndo" \in Places
  BY DEF PastTimes, Places, Early, Late
<1>4. PICK ok \in BOOLEAN :
        /\ Restore!SetVerified("source", draft.source, ok)
        /\ Restore!Go(IF ok THEN Restore!Took("source", "finish") ELSE Restore!To("sourceUndo"))
  BY DEF Restore!WriteSource
<1>5. "source" \in SettingKeys /\ draft.source \in Words /\ Fitting("source", draft.source)
  BY <1>1, <1>2 DEF SettingKeys, Words, Fitting
<1> DEFINE to == IF ok THEN "finish" ELSE "sourceUndo"
<1>6. /\ Went(to) /\ restore'.applied = (IF ok THEN restore.applied \cup {"source"} ELSE restore.applied)
  BY <1>1, <1>3, <1>4, <1>5, TakesOrNot
<1>7. Earned(to) /\ Telling(to)
  BY <1>1, <1>2, <1>3, <1>6 DEF Earned, Went, Telling, Early
<1> QED BY <1>1, <1>3, <1>4, <1>5, <1>7, TakeKeeps

LEMMA UndoKeeps ==
  ASSUME RestInv, NEW at, NEW next, <<at, next>> \in {<<"sourceUndo", "finish">>, <<"mqttUndo",
         "enable">>},
         Restore!UndoSource(at, next)
  PROVE  RestInv'
<1>1. restore \in Restores /\ restore.at = at /\ "source" \notin restore.applied
  BY DEF RestInv, Control, SourceTold, Restore!UndoSource, Restore!At
<1>2. PICK ok \in BOOLEAN : Restore!Guard(ok) /\ Restore!Go(Restore!To(next))
  BY DEF Restore!UndoSource
<1>3. at \in PastTimes /\ next \in PastTimes /\ next \in Places
  BY DEF PastTimes, Places, Early, Late, Ending
<1>4. Went(next)
  BY <1>1, <1>2, <1>3, GoMoves
<1>5. restore.ready => at \in Late
  BY <1>1 DEF RestInv, Control, MqttFirst
<1>6. Earned(next)
  BY <1>1, <1>3, <1>4, <1>5 DEF Earned, Went, Late, Ending
<1> QED BY <1>1, <1>2, <1>3, <1>6, GuardKeeps

-----------------------------------------------------------------------------
(* MQTT, and the sources that become it                                    *)
LEMMA LatePlaces ==
  /\ {"mqttOther", "mqttSource", "mqttWrite", "mqttUndo", "enable", "share", "setup", "done"} \subseteq Late
  /\ Late \subseteq PastTimes /\ Late \subseteq Places /\ Ending \subseteq Late
  /\ {"enable", "share", "setup", "done"} \subseteq Ending
  /\ "finish" \in PastTimes /\ "switchOn" \in PastTimes /\ "switchOn" \in Places
  /\ "finish" \notin Late /\ "switchOn" \notin Late
  /\ "finish" \notin Ending /\ "switchOn" \notin Ending
  /\ "mqttOther" \notin Ending /\ "mqttSource" \notin Ending /\ "mqttWrite" \notin Ending
  /\ (Late \cup {"switchOn"}) \cap Early = {}
BY DEF Late, Ending, PastTimes, Places, Early

LEMMA FinishMqttKeeps == ASSUME RestInv, Restore!FinishMqtt PROVE RestInv'
<1>1. /\ restore \in Restores /\ restore.at = "finish" /\ restore.ready = FALSE
      /\ draft.source = "MQTT" => "source" \notin restore.applied
      /\ restore.mqtt = TRUE => draft.mqtt # ""
  BY LatePlaces DEF RestInv, Control, SourceTold, Restore!FinishMqtt, Restore!At, MqttFirst,
                    Restores
<1>2. CASE ~restore.mqtt
  <2>1. Restore!Go(Restore!To("mqttOther")) /\ Restore!No
    BY <1>2 DEF Restore!FinishMqtt
  <2>2. Went("mqttOther") /\ restore'.applied = restore.applied
    BY <1>1, <2>1, LatePlaces, GoMoves
  <2>3. Earned("mqttOther") /\ Telling("mqttOther")
    BY <1>1, <2>2, LatePlaces DEF Earned, Telling, Went
  <2> QED BY <1>1, <2>1, <2>3, LatePlaces, SilentKeeps
<1>3. CASE restore.mqtt
  <2>1. PICK ok \in BOOLEAN :
          /\ Restore!PostMqtt("inputs", ok)
          /\ Restore!Go(IF ~ok THEN Restore!To("mqttOther")
                        ELSE IF draft.mqtt = "on" THEN Restore!To("switchOn")
                        ELSE [Restore!Took("mqtt", "mqttOther") EXCEPT !.ready = TRUE])
    BY <1>3 DEF Restore!FinishMqtt
  <2>2. draft.mqtt \in {"inputs", "on"}
    BY <1>1, <1>3, RestFacts DEF Restore!AllBackups
  <2>3. CASE ~ok \/ draft.mqtt = "on"
    <3> DEFINE to == IF ok THEN "switchOn" ELSE "mqttOther"
    <3>1. Went(to) /\ restore'.applied = restore.applied
      BY <1>1, <2>1, <2>3, LatePlaces, GoMoves
    <3>2. Earned(to) /\ Telling(to)
      BY <1>1, <2>3, <3>1, LatePlaces DEF Earned, Telling, Went
    <3>3. to # "setup" /\ Later(to) /\ restore'.ready = FALSE
      BY <1>1, <3>1 DEF Went
    <3> HIDE DEF to
    <3>4. Values' /\ Steady("mqtt", "inputs")
      BY <1>1, <2>1, <3>1, <3>3, PostWrites
    <3> QED BY <3>2, <3>3, <3>4, WriteKeeps
  <2>4. CASE ok /\ draft.mqtt # "on"
    <3>1. restore' = [Restore!Took("mqtt", "mqttOther") EXCEPT !.ready = TRUE] /\ draft' = draft
      BY <2>1, <2>4 DEF Restore!Go
    <3>2. /\ Later("mqttOther") /\ restore'.ready = TRUE
          /\ restore'.applied = restore.applied \cup {"mqtt"}
      <4>1. "mqtt" \in SettingKeys
        BY DEF SettingKeys
      <4> QED BY <1>1, <3>1, <4>1, LatePlaces DEF Restore!Took, Restore!To, Restores, Later
    <3>3. Earned("mqttOther") /\ Telling("mqttOther")
      BY <1>1, <3>2, LatePlaces DEF Earned, Telling
    <3>4. Restore!Mqtt = "inputs"
      BY <2>4 DEF Restore!Mqtt
    <3>5. Values' /\ Steady("mqtt", "inputs")
      BY <1>1, <2>1, <2>2, <2>4, <3>2, <3>4, PostWrites
    <3> QED BY <3>2, <3>3, <3>5, WriteKeeps
  <2> QED BY <2>3, <2>4
<1> QED BY <1>2, <1>3

LEMMA SwitchOnKeeps == ASSUME RestInv, Restore!EnableMqtt PROVE RestInv'
<1>1. /\ restore \in Restores /\ restore.at = "switchOn" /\ restore.ready = FALSE
      /\ draft.source = "MQTT" => "source" \notin restore.applied
      /\ draft.mqtt = "on"
  BY LatePlaces DEF RestInv, Control, SourceTold, Restore!EnableMqtt, Restore!At, MqttFirst,
                    Restores
<1>2. PICK ok \in BOOLEAN :
        /\ Restore!PostMqtt("on", ok)
        /\ Restore!Go(IF ok THEN [Restore!Took("mqtt", "mqttOther") EXCEPT !.ready = TRUE]
                      ELSE Restore!To("mqttOther"))
  BY DEF Restore!EnableMqtt
<1>3. Restore!Mqtt = "on"
  BY <1>1 DEF Restore!Mqtt
<1>4. /\ Later("mqttOther") /\ restore'.ready = ok
      /\ restore'.applied = (IF ok THEN restore.applied \cup {"mqtt"} ELSE restore.applied)
  <2>1. CASE ok
    <3>1. "mqtt" \in SettingKeys
      BY DEF SettingKeys
    <3> QED BY <1>1, <1>2, <2>1, <3>1, LatePlaces
            DEF Restore!Go, Restore!Took, Restore!To, Restores, Later
  <2>2. CASE ~ok
    BY <1>1, <1>2, <2>2, LatePlaces, GoMoves DEF Went
  <2> QED BY <2>1, <2>2
<1>5. Earned("mqttOther") /\ Telling("mqttOther")
  BY <1>1, <1>4, LatePlaces DEF Earned, Telling
<1>6. Values' /\ Steady("mqtt", "on")
  BY <1>1, <1>2, <1>3, <1>4, PostWrites
<1> QED BY <1>4, <1>5, <1>6, WriteKeeps

LEMMA MqttOtherKeeps == ASSUME RestInv, Restore!MqttOther PROVE RestInv'
<1>1. /\ restore \in Restores /\ restore.at = "mqttOther"
      /\ draft.source = "MQTT" => "source" \notin restore.applied
  BY LatePlaces DEF RestInv, Control, SourceTold, Restore!MqttOther, Restore!At
<1>2. CASE Restore!Go(Restore!To("mqttSource")) /\ Restore!No
  <2>1. Went("mqttSource") /\ restore'.applied = restore.applied
    BY <1>1, <1>2, LatePlaces, GoMoves
  <2>2. Earned("mqttSource") /\ Telling("mqttSource")
    BY <1>1, <2>1, LatePlaces DEF Earned, Telling, Went
  <2> QED BY <1>1, <1>2, <2>2, LatePlaces, SilentKeeps
<1>3. CASE ~(draft.other # "MQTT" \/ ~restore.ready)
  <2>1. PICK ok \in BOOLEAN :
          /\ Restore!Set("other", "MQTT", ok)
          /\ Restore!Go(IF ok THEN Restore!Took("other", "mqttSource")
                        ELSE Restore!To("mqttSource"))
    BY <1>3 DEF Restore!MqttOther
  <2>2. "other" \in SettingKeys /\ "MQTT" \in Words /\ Fitting("other", "MQTT")
    BY <1>3 DEF SettingKeys, Words, Fitting
  <2>3. /\ Went("mqttSource")
        /\ restore'.applied = (IF ok THEN restore.applied \cup {"other"} ELSE restore.applied)
    BY <1>1, <2>1, <2>2, LatePlaces, TakesOrNot
  <2>4. Earned("mqttSource") /\ Telling("mqttSource")
    BY <1>1, <2>3, LatePlaces DEF Earned, Telling, Went
  <2> QED BY <1>1, <1>3, <2>1, <2>2, <2>4, LatePlaces, TakeKeeps
<1> QED BY <1>2, <1>3 DEF Restore!MqttOther

LEMMA MqttSourceKeeps == ASSUME RestInv, Restore!MqttSource PROVE RestInv'
<1>1. /\ restore \in Restores /\ restore.at = "mqttSource"
      /\ draft.source = "MQTT" => "source" \notin restore.applied
  BY LatePlaces DEF RestInv, Control, SourceTold, Restore!MqttSource, Restore!At
<1>2. CASE Restore!Go(Restore!To("enable")) /\ Restore!No
  <2>1. Went("enable") /\ restore'.applied = restore.applied
    BY <1>1, <1>2, LatePlaces, GoMoves
  <2>2. Earned("enable") /\ Telling("enable")
    BY <1>1, <2>1, LatePlaces DEF Earned, Telling, Went
  <2> QED BY <1>1, <1>2, <2>2, LatePlaces, SilentKeeps
<1>3. ASSUME draft.source = "MQTT", restore.ready, NEW ok \in BOOLEAN, Restore!Guard(ok),
             Restore!Go(Restore!To(IF ok THEN "mqttWrite" ELSE "enable"))
      PROVE  RestInv'
  <2> DEFINE to == IF ok THEN "mqttWrite" ELSE "enable"
  <2>1. Went(to)
    BY <1>1, <1>3, LatePlaces, GoMoves
  <2>2. Earned(to) /\ to \in Places /\ to # "setup" /\ Restore!Go(Restore!To(to))
    BY <1>1, <1>3, <2>1, LatePlaces DEF Earned, Went
  <2> HIDE DEF to
  <2> QED BY <1>1, <1>3, <2>2, GuardKeeps
<1>4. ASSUME draft.source = "MQTT", restore.ready, NEW ok \in BOOLEAN, Restore!Set("source",
             "MQTT", ok),
             Restore!Go(IF ok THEN Restore!Took("source", "enable") ELSE Restore!To("enable"))
      PROVE  RestInv'
  <2>1. "source" \in SettingKeys /\ "MQTT" \in Words /\ Fitting("source", "MQTT")
    BY <1>4 DEF SettingKeys, Words, Fitting
  <2>2. /\ Went("enable")
        /\ restore'.applied = (IF ok THEN restore.applied \cup {"source"} ELSE restore.applied)
    BY <1>1, <1>4, <2>1, LatePlaces, TakesOrNot
  <2>3. Earned("enable") /\ Telling("enable")
    BY <1>1, <2>2, LatePlaces DEF Earned, Telling, Went
  <2> QED BY <1>1, <1>4, <2>1, <2>3, LatePlaces, TakeKeeps
<1> QED BY <1>2, <1>3, <1>4 DEF Restore!MqttSource

LEMMA WriteMqttSourceKeeps == ASSUME RestInv, Restore!WriteMqttSource PROVE RestInv'
<1>1. /\ restore \in Restores /\ restore.at = "mqttWrite" /\ draft.source = "MQTT" /\ restore.ready
      /\ "source" \notin restore.applied
  BY LatePlaces DEF RestInv, Control, SourceTold, Restore!WriteMqttSource, Restore!At, MqttFirst
<1>2. PICK ok \in BOOLEAN :
        /\ Restore!SetVerified("source", "MQTT", ok)
        /\ Restore!Go(IF ok THEN Restore!Took("source", "enable") ELSE Restore!To("mqttUndo"))
  BY DEF Restore!WriteMqttSource
<1>3. "source" \in SettingKeys /\ "MQTT" \in Words /\ Fitting("source", "MQTT")
  BY <1>1 DEF SettingKeys, Words, Fitting
<1> DEFINE to == IF ok THEN "enable" ELSE "mqttUndo"
<1>4. Went(to) /\ restore'.applied = (IF ok THEN restore.applied \cup {"source"} ELSE restore.applied)
  BY <1>1, <1>2, <1>3, LatePlaces, TakesOrNot
<1>5. Earned(to) /\ Telling(to)
  BY <1>1, <1>4, LatePlaces DEF Earned, Telling, Went
<1>6. "enable" \in Places /\ "mqttUndo" \in Places /\ draft["source"] = "MQTT" /\ restore.at # "idle"
  BY <1>1, LatePlaces
<1>7. Earned(IF ok THEN "enable" ELSE "mqttUndo") /\ Telling(IF ok THEN "enable" ELSE "mqttUndo")
  BY <1>5
<1> HIDE DEF to
<1> QED BY <1>2, <1>3, <1>6, <1>7, TakeKeeps

-----------------------------------------------------------------------------
(* Control, telemetry and setup                                            *)
LEMMA EnabledKeeps == ASSUME RestInv, Restore!RestoreEnabled PROVE RestInv'
<1>1. restore \in Restores /\ restore.at = "enable"
  BY DEF RestInv, Restore!RestoreEnabled, Restore!At
<1>2. CASE Restore!Go(Restore!To("share")) /\ Restore!No
  <2>1. Went("share") /\ restore'.applied = restore.applied
    BY <1>1, <1>2, LatePlaces, GoMoves
  <2>2. Earned("share") /\ Telling("share")
    BY <1>1, <2>1, LatePlaces DEF Earned, Telling, Went
  <2> QED BY <1>1, <1>2, <2>2, LatePlaces, SilentKeeps
<1>3. CASE draft.enabled # ""
  <2>1. draft.enabled = "on"
    BY <1>3, RestFacts DEF Restore!AllBackups
  <2>2. PICK ok \in BOOLEAN :
          /\ Restore!Set("enabled", "on", ok)
          /\ Restore!Go(IF ok THEN Restore!Took("enabled", "share") ELSE Restore!To("share"))
    BY <2>1 DEF Restore!RestoreEnabled
  <2>3. "enabled" \in SettingKeys /\ "on" \in Words /\ Fitting("enabled", "on")
    BY <2>1 DEF SettingKeys, Words, Fitting
  <2>4. Went("share")
    BY <1>1, <2>2, <2>3, LatePlaces, TakesOrNot
  <2>5. Earned("share") /\ Telling("share")
    BY <1>1, <2>4, LatePlaces DEF Earned, Telling, Went
  <2> QED BY <1>1, <2>1, <2>2, <2>3, <2>5, LatePlaces, TakeKeeps
<1> QED BY <1>2, <1>3 DEF Restore!RestoreEnabled

LEMMA SharingKeeps == ASSUME RestInv, Restore!StopSharing PROVE RestInv'
<1>1. restore \in Restores /\ restore.at = "share"
  BY DEF RestInv, Restore!StopSharing, Restore!At
<1>2. CASE (draft.setup # "done" \/ restore.wasDone) /\ Restore!Go(Restore!To("setup")) /\ Restore!No
  <2>1. Went("setup") /\ restore'.applied = restore.applied
    BY <1>1, <1>2, LatePlaces, GoMoves
  <2>2. Earned("setup") /\ Telling("setup") /\ Unshared'
    BY <1>1, <1>2, <2>1, LatePlaces DEF Earned, Telling, Went, Unshared, Later
  <2> QED BY <1>1, <1>2, <2>2, LatePlaces, SilentKeeps
<1>3. ASSUME NEW safe \in BOOLEAN, Restore!Go([Restore!To("setup") EXCEPT !.safe = safe])
      PROVE  /\ Later("setup") /\ Sticks /\ restore'.safe = safe
             /\ Earned("setup") /\ Telling("setup")
  <2>1. Later("setup") /\ Sticks /\ restore'.safe = safe
    BY <1>1, <1>3, LatePlaces DEF Restore!Go, Restore!To, Restores, Later, Sticks
  <2> QED BY <1>1, <2>1, LatePlaces DEF Earned, Telling, Sticks
<1>4. CASE Restore!Go([Restore!To("setup") EXCEPT !.safe = FALSE]) /\ Restore!No
  <2>1. Later("setup") /\ Sticks /\ restore'.safe = FALSE /\ Earned("setup") /\ Telling("setup")
    BY <1>3, <1>4
  <2>2. Values' /\ Steady("", "")
    BY <1>1, <1>4, <2>1, NothingWritten
  <2>3. Unshared'
    BY <2>1 DEF Unshared
  <2> QED BY <2>1, <2>2, <2>3, WriteKeeps
<1>5. ASSUME NEW ok \in BOOLEAN, Restore!SetVerified("share", "off", ok),
             Restore!Go([Restore!To("setup") EXCEPT !.safe = ok])
      PROVE  RestInv'
  <2>1. Later("setup") /\ Sticks /\ restore'.safe = ok /\ Earned("setup") /\ Telling("setup")
    BY <1>3, <1>5
  <2>2. "share" \in SettingKeys /\ "off" \in Words
    BY DEF SettingKeys, Words
  <2>3. Brings("share", "off") /\ (ok => house'.share = "off")
    BY <1>5, <2>2, RestFacts, VerifiedCarries
  <2>4. Fitting("share", "off")
    BY DEF Fitting, RestInv, Values, IsDue
  <2>5. Claims("share")
    BY <1>1, <2>1 DEF Claims, Sticks
  <2>6. Values' /\ Steady("share", "off")
    BY <2>3, <2>4, <2>5, RestFacts, ValuesKept DEF RestInv
  <2>7. Unshared'
    BY <2>1, <2>3 DEF Unshared
  <2> QED BY <2>1, <2>6, <2>7, WriteKeeps
<1> QED BY <1>2, <1>4, <1>5 DEF Restore!StopSharing

LEMMA SetupKeeps == ASSUME RestInv, Restore!CompleteSetup PROVE RestInv'
<1>1. restore \in Restores /\ restore.at = "setup"
  BY DEF RestInv, Restore!CompleteSetup, Restore!At
<1>2. CASE Restore!Go(Restore!To("done")) /\ Restore!No
  <2>1. Went("done") /\ restore'.applied = restore.applied
    BY <1>1, <1>2, LatePlaces, GoMoves
  <2>2. Earned("done") /\ Telling("done")
    BY <1>1, <2>1, LatePlaces DEF Earned, Telling, Went
  <2> QED BY <1>1, <1>2, <2>2, LatePlaces, SilentKeeps
<1>3. CASE draft.setup = "done" /\ restore.safe
  <2>1. PICK ok \in BOOLEAN :
          /\ Restore!Set("setup", "done", ok)
          /\ Restore!Go(IF ok THEN Restore!Took("setup", "done") ELSE Restore!To("done"))
    BY <1>3 DEF Restore!CompleteSetup
  <2>2. house.share = "off" \/ restore.wasDone
    BY <1>1, <1>3 DEF RestInv, Control, Unshared
  <2>3. "setup" \in SettingKeys /\ "done" \in Words /\ Fitting("setup", "done")
    BY <1>3, <2>2 DEF SettingKeys, Words, Fitting
  <2>4. Went("done")
    BY <1>1, <2>1, <2>3, LatePlaces, TakesOrNot
  <2>5. Earned("done") /\ Telling("done")
    BY <1>1, <2>4, LatePlaces DEF Earned, Telling, Went
  <2> QED BY <1>1, <1>3, <2>1, <2>3, <2>5, LatePlaces, TakeKeeps
<1> QED BY <1>2, <1>3 DEF Restore!CompleteSetup

LEMMA ApplyKeeps == ASSUME RestInv, Restore!Apply PROVE RestInv'
<1>1. mailbox # <<>> /\ UNCHANGED <<draft, restore>> /\ restore.at # "idle"
  BY DEF Restore!Apply, RestInv, Control, Unread
<1>2. Brings("", "")
  BY RestFacts, ApplyCarries
<1>3. Claims("")
  BY <1>1 DEF Claims, RestInv, Values
<1>4. Values' /\ Steady("", "")
  BY <1>2, <1>3, RestFacts, ValuesKept DEF RestInv
<1>5. Unread' /\ MqttFirst' /\ SourceTold' /\ Unshared'
  BY <1>1, <1>4 DEF RestInv, Control, Unread, MqttFirst, SourceTold, Unshared, Steady
<1>6. Guarded'
  BY <1>1, <1>4 DEF RestInv, Control, Guarded, Restore!NeedsGuard, Steady
<1>7. Timed'
  <2>1. /\ New => New'
        /\ house.start = "new" => house'.start = "new"
        /\ house.source = "Disabled" /\ Pend("source") \subseteq {"Disabled"} => house'.source = "Disabled"
    BY <1>4 DEF Steady
  <2>2. restore.at \in {"startWrite", "endWrite"} => Pend("source") \subseteq {"Disabled"}
    BY DEF RestInv, Control, Guarded, Early
  <2>3. Timed
    BY DEF RestInv, Control
  <2>4. (restore'.times = 2 => New') /\ restore' = restore /\ draft' = draft
    BY <1>1, <2>1, <2>3 DEF Timed
  <2>5. restore.at = "startWrite" \/ restore.at = "endWrite" => house'.source = "Disabled"
    BY <2>1, <2>2, <2>3 DEF Timed
  <2>6. restore.at \in {"end", "endWrite"} =>
          restore.times = 0 \/ (restore.times = 1 /\ house'.start = "new")
    <3>1. restore.at \in {"end", "endWrite"} =>
            restore.times = 0 \/ (restore.times = 1 /\ house.start = "new")
      BY <2>3 DEF Timed
    <3> QED BY <2>1, <3>1
  <2> QED BY <2>3, <2>4, <2>5, <2>6 DEF Timed
<1> QED BY <1>1, <1>4, <1>5, <1>6, <1>7 DEF RestInv, Control

LEMMA RestoreStep == ASSUME RestInv, [Restore!Next]_restoreVars PROVE RestInv'
<1>1. CASE UNCHANGED restoreVars
  <2>1. UNCHANGED <<draft, house, mailbox, restore>>
    BY <1>1 DEF restoreVars
  <2>2. (\A q : Pend(q)' = Pend(q)) /\ Due' = Due /\ Restore!Mqtt' = Restore!Mqtt
        /\ Restore!NeedsGuard' = Restore!NeedsGuard
    BY <2>1 DEF Pend, Due, Restore!Mqtt, Restore!NeedsGuard
  <2>3. Meant' /\ Scheduled'
    BY <2>1, <2>2 DEF RestInv, Values, Meant, Scheduled, Old, New
  <2>4. Sourced' /\ SetUp' /\ IsDue'
    BY <2>1, <2>2 DEF RestInv, Values, Sourced, SetUp, IsDue
  <2>5. Unread' /\ Timed' /\ Unshared'
    BY <2>1 DEF RestInv, Control, Unread, Timed, New, Unshared
  <2>6. Guarded' /\ MqttFirst' /\ SourceTold'
    BY <2>1, <2>2 DEF RestInv, Control, Guarded, MqttFirst, SourceTold
  <2> QED BY <2>1, <2>3, <2>4, <2>5, <2>6 DEF RestInv, Values, Control
<1>2. CASE Restore!RestoreTime("start", "startWrite", "end") \/ Restore!RestoreTime("end",
"endWrite", "other")
  BY <1>2, TimeKeeps
<1>3. CASE Restore!WriteTime("start", "startWrite", "end") \/ Restore!WriteTime("end",
"endWrite", "other")
  BY <1>3, WriteTimeKeeps
<1>4. CASE Restore!UndoSource("sourceUndo", "finish") \/ Restore!UndoSource("mqttUndo",
"enable")
  BY <1>4, UndoKeeps
<1>5. CASE \/ Restore!Start \/ Restore!FirstGuard \/ Restore!PrepareMqtt \/ Restore!RestoreOther
           \/ Restore!RestoreSource \/ Restore!WriteSource
  BY <1>5, RestoreStartKeeps, FirstGuardKeeps, PrepareKeeps, OtherKeeps, SourceKeeps,
     WriteSourceKeeps
<1>6. CASE \/ Restore!FinishMqtt \/ Restore!EnableMqtt \/ Restore!MqttOther \/ Restore!MqttSource
           \/ Restore!WriteMqttSource
  BY <1>6, FinishMqttKeeps, SwitchOnKeeps, MqttOtherKeeps, MqttSourceKeeps, WriteMqttSourceKeeps
<1>7. CASE Restore!RestoreEnabled \/ Restore!StopSharing \/ Restore!CompleteSetup \/ Restore!Apply
  BY <1>7, EnabledKeeps, SharingKeeps, SetupKeeps, ApplyKeeps
<1> QED BY <1>1, <1>2, <1>3, <1>4, <1>5, <1>6, <1>7 DEF Restore!Next

LEMMA RestInvSafe == ASSUME RestInv PROVE RestoreIsSafe
<1>1. house.source = "Schedule" => house.start = house.end
  BY DEF RestInv, Values, Scheduled, Old, New
<1>2. "MQTT" \in {house.source, house.other} => draft.mqtt # "" /\ house.mqtt = Restore!Mqtt
  BY DEF RestInv, Values, Sourced
<1>3. house.setup = "done" => house.share = "off" \/ restore.wasDone \/ Restore!At("idle")
  BY DEF RestInv, Values, SetUp, Restore!At
<1>4. ASSUME NEW key \in restore.applied
      PROVE  Restore!Applied(house, mailbox)[key] = IF key = "mqtt" THEN Restore!Mqtt ELSE draft[key]
  <2>1. CASE key = "mqtt"
    <3>1. house.mqtt = Restore!Mqtt /\ Pend("mqtt") = {} /\ "mqtt" \in DOMAIN house
      BY <2>1 DEF RestInv, Values, Meant, Sourced, IsDue, SettingKeys
    <3>2. Restore!Writes(mailbox, "mqtt") = {}
      BY <3>1 DEF Pend, ValuesOf
    <3>3. Restore!Applied(house, mailbox)["mqtt"] = house["mqtt"]
      BY <3>1, <3>2, NoWrite
    <3> QED BY <2>1, <3>1, <3>3
  <2>2. CASE key # "mqtt"
    BY <2>2 DEF RestInv, Values, IsDue, Due
  <2> QED BY <2>1, <2>2
<1> QED BY <1>1, <1>2, <1>3, <1>4 DEF RestoreIsSafe, Restore!RestoreIsSafe

(* Whatever fails, and whenever a write is applied, the device never cools *)
(* by a schedule of one old and one new time, no source is MQTT before     *)
(* MQTT is as the backup has it, setup is not completed with telemetry on, *)
(* and what is reported as applied is due (restoreSettingsBackup).         *)
THEOREM RestoreStaysSafe == WebSpec => []RestoreIsSafe
<1>1. WebInit => RestInv
  BY RestInit DEF WebInit
<1>2. RestInv /\ [WebNext]_web => RestInv'
  <2> SUFFICES ASSUME RestInv, [WebNext]_web PROVE RestInv'
    OBVIOUS
  <2>1. [Restore!Next]_restoreVars
    BY DEF WebNext, web
  <2> QED BY <2>1, RestoreStep
<1>3. RestInv => RestoreIsSafe
  BY RestInvSafe
<1> QED BY <1>1, <1>2, <1>3, PTL DEF WebSpec

-----------------------------------------------------------------------------
(***************************************************************************)
(* Part 6: the controls                                                    *)
(***************************************************************************)

(* Whatever else the web app does, its controls do what ControlsSpec says: *)
(* whatever is proved of them alone (WebControls_proofs, ToldIsTrue) holds *)
(* of the app.                                                             *)
THEOREM WebKeepsControls == WebSpec => ControlsSpec
<1>1. WebInit => ControlsInit
  BY DEF WebInit, ControlsInit
<1>2. [WebNext]_web => [ControlsNext]_controlsVars
  BY DEF WebNext, web, ControlsNext, controlsVars, writesVars, toolsVars, quickVars
<1> QED BY <1>1, <1>2, PTL DEF WebSpec, ControlsSpec
=============================================================================
