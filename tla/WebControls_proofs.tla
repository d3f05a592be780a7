------------------------- MODULE WebControls_proofs -------------------------
(***************************************************************************)
(* Proofs about WebControls, for every number of moves, presses, turns and *)
(* losses, and for every choice of commands that may overlap: what the     *)
(* page says it wrote, saved, shared or opened is so.  Every component has *)
(* an invariant of its own.                                                *)
(***************************************************************************)
EXTENDS WebControls, Integers, Sequences, SequenceTheorems, TLAPS

-----------------------------------------------------------------------------
(***************************************************************************)
(* Part 1: the writes of the controls                                      *)
(***************************************************************************)
Levels   == 0 .. 2
KindsOrNone   == Writes!Kinds \cup {"none"}
Points   == { "idle", "write", "write2", "refresh", "confirm", "unconfirm", "undo", "undo2",
              "verify", "verify2", "unverify", "unverify2", "submit", "check" }
Wishes   == [ Writes!Settings -> Levels ]
Commands == [ kind : KindsOrNone, step : Points, want : Wishes, prev : Wishes, tries : Nat,
              bad : BOOLEAN, id : Nat ]
Sayings    == [ must : Wishes, by : Nat ]

WritesShape == /\ unitval \in Wishes /\ inbox \in Seq(Writes!Settings \X Levels) /\ shown \in Wishes
               /\ cmd \in [Writes!Slots -> Commands] /\ notice \in Sayings /\ failure \in Sayings
               /\ wrote \in [Writes!Settings -> Nat] /\ moves \in Nat

(* A command has an id of its own: the moves that were left as it began.   *)
Active(c) == cmd[c].step # "idle"
Own == /\ \A c \in Writes!Slots : Active(c) => cmd[c].id > moves
       /\ \A c, d \in Writes!Slots : c # d /\ Active(c) /\ Active(d) => cmd[c].id # cmd[d].id
       /\ \A x \in Writes!Settings : wrote[x] = 0 \/ wrote[x] > moves
       /\ notice = Writes!Silent \/ notice.by > moves
       /\ failure = Writes!Silent \/ failure.by > moves

(* While a command runs no error is its own, and a command that says       *)
(* nothing before its end has not said anything.                           *)
Unsaid(c) ==
  /\ Active(c) => failure.by # cmd[c].id
  /\ (cmd[c].kind \in Writes!Single \cup {"pause"} /\ cmd[c].step \notin {"idle", "refresh"})
       => notice.by # cmd[c].id
  /\ cmd[c].step = "submit" => notice.by # cmd[c].id

(* A setting the command did not write, or that is as it wrote it.         *)
Unwritten(c, x) == wrote[x] # cmd[c].id
Holds(c, x, v)  == wrote[x] = cmd[c].id => Writes!Settles(x, v)

OfSingle(c) ==
  cmd[c].kind \in Writes!Single =>
    /\ cmd[c].want["b"] = Writes!Free
    /\ cmd[c].step = "confirm" => Holds(c, "a", cmd[c].want["a"])
    /\ cmd[c].step = "unconfirm" => Holds(c, "a", 0)

OfRange(c) ==
  cmd[c].kind = "range" =>
    /\ cmd[c].want["a"] = 0 /\ cmd[c].want["b"] = 0
    /\ cmd[c].step = "write2" => Holds(c, "a", 0) /\ Unwritten(c, "b")
    /\ cmd[c].step = "confirm" => Holds(c, "a", 0) /\ Holds(c, "b", 0)

OfPause(c) ==
  cmd[c].kind = "pause" =>
    /\ cmd[c].want["a"] = 0
    /\ cmd[c].step = "write2" => Holds(c, "b", cmd[c].want["b"])

OfStrategy(c) ==
  cmd[c].kind = "strategy" =>
    /\ cmd[c].step \in {"verify", "write2"} => Unwritten(c, "b")
    /\ cmd[c].step = "verify2" => Holds(c, "b", cmd[c].want["b"])
    /\ cmd[c].step = "unverify" => Holds(c, "b", cmd[c].prev["b"])
    /\ cmd[c].step \in {"undo2", "unverify2"} /\ ~cmd[c].bad => Holds(c, "b", cmd[c].prev["b"])
    /\ cmd[c].step = "unverify2" => Holds(c, "a", cmd[c].prev["a"])

OfCurve(c) ==
  cmd[c].kind = "curve" =>
    /\ cmd[c].step = "write2" => Holds(c, "a", cmd[c].want["a"]) /\ Unwritten(c, "b")
    /\ cmd[c].step \in {"confirm", "check"} => \A x \in Writes!Settings : Holds(c, x, cmd[c].want[x])
    /\ cmd[c].step = "undo2" /\ ~cmd[c].bad => Holds(c, "a", cmd[c].prev["a"])

Course(c) == /\ cmd[c].step \in {"write", "submit"} => \A x \in Writes!Settings : Unwritten(c, x)
             /\ OfSingle(c) /\ OfRange(c) /\ OfPause(c) /\ OfStrategy(c) /\ OfCurve(c)

WritesInv == /\ WritesShape /\ Own /\ Writes!NoticeIsTrue
             /\ \A c \in Writes!Slots : Unsaid(c) /\ Course(c)

(* Names for the values, so that no proof opens the sets above.            *)
LEMMA WritesMembers ==
  /\ "a" \in Writes!Settings /\ "b" \in Writes!Settings /\ \A x \in Writes!Settings : x = "a" \/ x = "b"
  /\ 0 \in Levels /\ Writes!Free \in Levels /\ \A v \in Writes!Values : v \in Levels
  /\ \A x \in Writes!Kinds : x \in KindsOrNone
  /\ \A x \in { "idle", "write", "write2", "refresh", "confirm", "unconfirm", "undo", "undo2",
                "verify", "verify2", "unverify", "unverify2", "submit", "check" } : x \in Points
BY DEF Writes!Settings, Levels, Writes!Free, Writes!Values, KindsOrNone, Points

LEMMA WritesNothing ==
  /\ Writes!Nothing \in Wishes /\ \A x \in Writes!Settings : Writes!Nothing[x] = Writes!Free
  /\ Writes!Silent \in Sayings /\ Writes!Silent.must = Writes!Nothing /\ Writes!Silent.by = 0
  /\ Writes!NoCmd \in Commands /\ Writes!NoCmd.step = "idle" /\ Writes!NoCmd.kind = "none"
  /\ \A x \in Writes!Settings, v \in Levels :
       /\ Writes!About(x, v) \in Wishes /\ Writes!About(x, v)[x] = v
       /\ \A y \in Writes!Settings : y # x => Writes!About(x, v)[y] = Writes!Free
<1>1. Writes!Nothing \in Wishes /\ \A x \in Writes!Settings : Writes!Nothing[x] = Writes!Free
  BY WritesMembers DEF Writes!Nothing, Wishes
<1>2. Writes!Silent \in Sayings /\ Writes!Silent.must = Writes!Nothing /\ Writes!Silent.by = 0
  BY <1>1 DEF Writes!Silent, Sayings
<1>3. Writes!NoCmd \in Commands /\ Writes!NoCmd.step = "idle" /\ Writes!NoCmd.kind = "none"
  <2>1. "idle" \in Points /\ "none" \in KindsOrNone
    BY DEF Points, KindsOrNone
  <2> QED BY <1>1, <2>1 DEF Writes!NoCmd, Commands
<1>4. ASSUME NEW x \in Writes!Settings, NEW v \in Levels
      PROVE  /\ Writes!About(x, v) \in Wishes /\ Writes!About(x, v)[x] = v
             /\ \A y \in Writes!Settings : y # x => Writes!About(x, v)[y] = Writes!Free
  BY <1>1 DEF Writes!About, Wishes
<1> QED BY <1>1, <1>2, <1>3, <1>4

LEMMA WritesInit == Writes!Init => WritesInv
<1> SUFFICES ASSUME Writes!Init PROVE WritesInv
  OBVIOUS
<1>1. /\ inbox = <<>> /\ cmd = [c \in Writes!Slots |-> Writes!NoCmd] /\ notice = Writes!Silent /\ failure = Writes!Silent
      /\ wrote = [x \in Writes!Settings |-> 0] /\ moves \in Nat /\ shown = unitval /\ unitval \in Wishes
  BY WritesAssumption, WritesMembers DEF Writes!Init, Wishes
<1>2. /\ \A c \in Writes!Slots : cmd[c] = Writes!NoCmd
      /\ \A x \in Writes!Settings : wrote[x] = 0
  BY <1>1
<1>3. WritesShape
  BY <1>1, WritesNothing, EmptySeq DEF WritesShape
<1>4. Own
  BY <1>1, <1>2, WritesNothing DEF Own, Active
<1>5. Writes!NoticeIsTrue
  BY <1>1, WritesNothing DEF Writes!NoticeIsTrue, Writes!True
<1>6. ASSUME NEW c \in Writes!Slots PROVE Unsaid(c) /\ Course(c)
  BY <1>2, WritesNothing
     DEF Unsaid, Course, OfSingle, OfRange, OfPause, OfStrategy, OfCurve, Active, Writes!Single,
         Writes!Plain, Writes!AtOnce, Writes!Confirmed
<1> QED BY <1>3, <1>4, <1>5, <1>6 DEF WritesInv

-----------------------------------------------------------------------------
(* What a step makes of the settings                                       *)

(* Of a setting that i wrote last nothing changes: i still did, and it     *)
(* will be what it was to be.                                              *)
Held(i) == \A x \in Writes!Settings, v \in Levels :
             wrote'[x] = i => wrote[x] = i /\ (Writes!Settles(x, v) => Writes!Settles(x, v)')

(* A setting that i wrote last will be v.                                  *)
Now(i, x, v) == wrote'[x] = i => Writes!Settles(x, v)'

(* The last write to x is of v.                                            *)
LastOf(w, x, v) == \E n \in DOMAIN w : w[n] = <<x, v>> /\ \A j \in DOMAIN w : j > n => w[j][1] # x

(* A step that only i writes in.                                           *)
Around(i) ==
  /\ unitval' \in Wishes /\ inbox' \in Seq(Writes!Settings \X Levels) /\ shown' \in Wishes
  /\ wrote' \in [Writes!Settings -> Nat] /\ moves' = moves
  /\ \A x \in Writes!Settings : wrote'[x] = wrote[x] \/ wrote'[x] = i
  /\ \A j \in Nat : j # i => Held(j)

(* Nothing is written; one setting may be; both may be.                    *)
Still == wrote' = wrote /\ \A x \in Writes!Settings, v \in Levels : Writes!Settles(x, v) => Writes!Settles(x, v)'
Sent(i, x, v, ok) ==
  /\ \A y \in Writes!Settings : y # x => /\ wrote'[y] = wrote[y]
                                  /\ \A w \in Levels : Writes!Settles(y, w) => Writes!Settles(y, w)'
  /\ ok \/ wrote[x] # i => Now(i, x, v)
  /\ wrote'[x] = i \/ wrote'[x] = wrote[x]

LEMMA Appended ==
  ASSUME NEW o \in Seq(Writes!Settings \X Levels), NEW w \in Seq(Writes!Settings \X Levels),
         inbox = o, inbox' = o \o w, unitval' = unitval, NEW x \in Writes!Settings, NEW v \in Levels
  PROVE  /\ inbox' \in Seq(Writes!Settings \X Levels)
         /\ (\A i \in DOMAIN w : w[i][1] # x) /\ Writes!Settles(x, v) => Writes!Settles(x, v)'
         /\ LastOf(w, x, v) => Writes!Settles(x, v)'
<1> DEFINE r == o \o w
<1>1. /\ r \in Seq(Writes!Settings \X Levels) /\ Len(r) = Len(o) + Len(w)
      /\ \A i \in 1 .. Len(o) + Len(w) : r[i] = IF i <= Len(o) THEN o[i] ELSE w[i - Len(o)]
  BY ConcatProperties
<1>2. /\ Len(o) \in Nat /\ Len(w) \in Nat /\ DOMAIN o = 1 .. Len(o) /\ DOMAIN w = 1 .. Len(w)
      /\ DOMAIN r = 1 .. Len(o) + Len(w) /\ inbox' = r
  BY <1>1
<1> HIDE DEF r
<1>3. /\ \A i \in DOMAIN o : i \in DOMAIN r /\ r[i] = o[i]
      /\ \A j \in DOMAIN w : j + Len(o) \in DOMAIN r /\ r[j + Len(o)] = w[j]
      /\ \A i \in DOMAIN r : i \in DOMAIN o \/ (i > Len(o) /\ i - Len(o) \in DOMAIN w /\ r[i] = w[i - Len(o)])
  BY <1>1, <1>2
<1>4. ASSUME \A i \in DOMAIN w : w[i][1] # x, Writes!Settles(x, v) PROVE Writes!Settles(x, v)'
  <2>1. \A i \in DOMAIN r : r[i][1] = x => i \in DOMAIN o /\ r[i] = o[i]
    BY <1>3, <1>4
  <2>2. CASE \E i \in DOMAIN o : o[i][1] = x
    <3>1. PICK i \in DOMAIN o : o[i] = <<x, v>> /\ \A j \in DOMAIN o : j > i => o[j][1] # x
      BY <1>4, <2>2 DEF Writes!Settles
    <3>2. /\ i \in DOMAIN r /\ r[i] = <<x, v>> /\ r[i][1] = x
          /\ \A j \in DOMAIN r : j > i => r[j][1] # x
      BY <1>3, <2>1, <3>1
    <3> QED BY <1>2, <3>2 DEF Writes!Settles
  <2>3. CASE ~\E i \in DOMAIN o : o[i][1] = x
    <3>1. unitval[x] = v
      BY <1>4, <2>3 DEF Writes!Settles
    <3>2. ~\E i \in DOMAIN r : r[i][1] = x
      BY <2>1, <2>3
    <3> QED BY <1>2, <3>1, <3>2 DEF Writes!Settles
  <2> QED BY <2>2, <2>3
<1>5. ASSUME NEW i \in DOMAIN w, w[i] = <<x, v>>, \A j \in DOMAIN w : j > i => w[j][1] # x
      PROVE  Writes!Settles(x, v)'
  <2>1. i + Len(o) \in DOMAIN r /\ r[i + Len(o)] = <<x, v>> /\ r[i + Len(o)][1] = x
    BY <1>3, <1>5
  <2>2. ASSUME NEW j \in DOMAIN r, j > i + Len(o) PROVE r[j][1] # x
    BY <1>2, <1>3, <1>5, <2>2
  <2> QED BY <1>2, <2>1, <2>2 DEF Writes!Settles
<1> QED BY <1>1, <1>2, <1>4, <1>5 DEF LastOf

LEMMA StillAround ==
  ASSUME WritesShape, UNCHANGED <<unitval, inbox, wrote, moves>>, shown' \in Wishes, NEW i \in Nat
  PROVE  Around(i) /\ Still
<1>1. Still
  BY DEF Still, Writes!Settles
<1> QED BY <1>1 DEF WritesShape, Around, Held, Still

LEMMA PostsAround ==
  ASSUME WritesShape, NEW c \in Writes!Slots, NEW w \in Seq(Writes!Settings \X Levels),
         NEW ok \in BOOLEAN,
         Writes!Posts(c, w, ok), shown' \in Wishes, NEW i \in Nat, i = cmd[c].id
  PROVE  /\ Around(i)
         /\ \A x \in Writes!Settings, v \in Levels :
              /\ (\A n \in DOMAIN w : w[n][1] # x) =>
                   wrote'[x] = wrote[x] /\ (Writes!Settles(x, v) => Writes!Settles(x, v)')
              /\ LastOf(w, x, v) =>
                   /\ ok \/ wrote[x] # i => Now(i, x, v)
                   /\ wrote'[x] = i \/ wrote'[x] = wrote[x]
<1>0. unitval' = unitval /\ moves' = moves /\ wrote \in [Writes!Settings -> Nat] /\ unitval \in Wishes
  BY DEF Writes!Posts, WritesShape
<1>1. CASE ~ok /\ UNCHANGED <<inbox, wrote>>
  <2>1. Around(i) /\ Still
    BY <1>0, <1>1, StillAround
  <2> QED BY <1>1, <2>1 DEF Still, Now
<1>2. CASE /\ inbox' = inbox \o w
           /\ wrote' = [x \in Writes!Settings |-> IF \E n \in DOMAIN w : w[n][1] = x THEN i ELSE wrote[x]]
  <2>1. PICK o \in Seq(Writes!Settings \X Levels) : inbox = o
    BY DEF WritesShape
  <2>2. wrote' \in [Writes!Settings -> Nat]
    BY <1>0, <1>2
  <2>3. ASSUME NEW x \in Writes!Settings
        PROVE  wrote'[x] = IF \E n \in DOMAIN w : w[n][1] = x THEN i ELSE wrote[x]
    BY <1>2
  <2>4. ASSUME NEW x \in Writes!Settings, NEW v \in Levels, \A n \in DOMAIN w : w[n][1] # x
        PROVE  wrote'[x] = wrote[x] /\ (Writes!Settles(x, v) => Writes!Settles(x, v)')
    BY <1>0, <1>2, <2>1, <2>3, <2>4, Appended
  <2>5. ASSUME NEW x \in Writes!Settings, NEW v \in Levels, LastOf(w, x, v)
        PROVE  Writes!Settles(x, v)' /\ wrote'[x] = i
    <3>1. PICK n \in DOMAIN w : w[n] = <<x, v>>
      BY <2>5 DEF LastOf
    <3>2. w[n][1] = x
      BY <3>1
    <3>3. Writes!Settles(x, v)'
      BY <1>0, <1>2, <2>1, <2>5, Appended
    <3> QED BY <2>3, <3>2, <3>3
  <2>6. inbox' \in Seq(Writes!Settings \X Levels)
    BY <1>2, <2>1, ConcatProperties
  <2>7. ASSUME NEW j \in Nat, j # i PROVE Held(j)
    <3>1. ASSUME NEW x \in Writes!Settings, NEW v \in Levels, wrote'[x] = j
          PROVE  wrote[x] = j /\ (Writes!Settles(x, v) => Writes!Settles(x, v)')
      <4>1. \A n \in DOMAIN w : w[n][1] # x
        BY <2>3, <2>7, <3>1
      <4> QED BY <2>4, <3>1, <4>1
    <3> QED BY <3>1 DEF Held
  <2>8. Around(i)
    BY <1>0, <2>2, <2>3, <2>6, <2>7 DEF Around
  <2> QED BY <2>4, <2>5, <2>8 DEF Now
<1> QED BY <1>1, <1>2 DEF Writes!Posts

LEMMA PostAround ==
  ASSUME WritesShape, NEW c \in Writes!Slots, NEW x \in Writes!Settings, NEW v \in Levels,
         NEW ok \in BOOLEAN,
         Writes!Post(c, x, v, ok), shown' \in Wishes, NEW i \in Nat, i = cmd[c].id
  PROVE  Around(i) /\ Sent(i, x, v, ok)
<1> DEFINE w == << <<x, v>> >>
<1>1. /\ w \in Seq(Writes!Settings \X Levels) /\ DOMAIN w = {1} /\ w[1] = <<x, v>> /\ w[1][1] = x
  OBVIOUS
<1>2. Writes!Posts(c, w, ok)
  BY DEF Writes!Post
<1>3. /\ Around(i)
      /\ \A y \in Writes!Settings, u \in Levels :
           /\ (\A n \in DOMAIN w : w[n][1] # y) =>
                wrote'[y] = wrote[y] /\ (Writes!Settles(y, u) => Writes!Settles(y, u)')
           /\ LastOf(w, y, u) =>
                /\ ok \/ wrote[y] # i => Now(i, y, u)
                /\ wrote'[y] = i \/ wrote'[y] = wrote[y]
  BY <1>1, <1>2, PostsAround
<1> HIDE DEF w
<1>4. /\ ok \/ wrote[x] # i => Now(i, x, v)
      /\ wrote'[x] = i \/ wrote'[x] = wrote[x]
  <2>1. LastOf(w, x, v)
    BY <1>1 DEF LastOf
  <2> QED BY <1>3, <2>1
<1>5. ASSUME NEW y \in Writes!Settings, y # x
      PROVE  wrote'[y] = wrote[y] /\ \A u \in Levels : Writes!Settles(y, u) => Writes!Settles(y, u)'
  <2>1. \A n \in DOMAIN w : w[n][1] # y
    BY <1>1, <1>5
  <2> QED BY <1>3, <2>1, WritesMembers
<1> QED BY <1>3, <1>4, <1>5 DEF Sent

-----------------------------------------------------------------------------
(* What a step makes of a command, and of what is said                     *)

Turned(c, m) == /\ cmd' \in [Writes!Slots -> Commands] /\ cmd'[c] = m
                /\ \A d \in Writes!Slots : d # c => cmd'[d] = cmd[d]

(* What it says is true, and its own or what was said before.              *)
Spoken(i) == /\ notice' \in Sayings /\ failure' \in Sayings /\ Writes!True(notice)' /\ Writes!True(failure)'
             /\ notice' \in {Writes!Silent, notice} \/ notice'.by = i
             /\ failure' \in {Writes!Silent, failure} \/ failure'.by = i

LEMMA SaidAs ==
  ASSUME NEW s \in Sayings, Writes!True(s)'
  PROVE  /\ notice' = s => Writes!True(notice)'
         /\ failure' = s => Writes!True(failure)'
BY DEF Writes!True

LEMMA SilentTrue == Writes!True(Writes!Silent)'
BY WritesNothing DEF Writes!True

(* Of a setting another one wrote, and of every one when nothing is        *)
(* written, what was true stays so.                                        *)
LEMMA SaidStays ==
  ASSUME NEW i \in Nat, Around(i), NEW s \in Sayings, Writes!True(s), s.by # i \/ Still
  PROVE  Writes!True(s)'
<1>1. /\ \A x \in Writes!Settings : s.must[x] \in Levels
      /\ s.by \in Nat
  BY DEF Sayings, Wishes
<1>2. CASE s.by # i
  <2>1. Held(s.by)
    BY <1>1, <1>2 DEF Around
  <2> QED BY <1>1, <2>1 DEF Held, Writes!True
<1>3. CASE Still
  BY <1>1, <1>3 DEF Still, Writes!True
<1> QED BY <1>2, <1>3

LEMMA QuietSpoken ==
  ASSUME WritesInv, NEW i \in Nat, Around(i), Writes!Quietly,
         (notice.by # i /\ failure.by # i) \/ Still
  PROVE  Spoken(i)
<1>1. notice' = notice /\ failure' = failure /\ Writes!True(notice) /\ Writes!True(failure)
  BY DEF Writes!Quietly, WritesInv, Writes!NoticeIsTrue
<1>2. PICK n \in Sayings : notice = n
  BY DEF WritesInv, WritesShape
<1>3. PICK f \in Sayings : failure = f
  BY DEF WritesInv, WritesShape
<1>4. Writes!True(n)' /\ Writes!True(f)'
  BY <1>1, <1>2, <1>3, SaidStays
<1>5. Writes!True(notice)' /\ Writes!True(failure)'
  BY <1>1, <1>2, <1>3, <1>4, SaidAs
<1> QED BY <1>1, <1>2, <1>3, <1>5 DEF Spoken

(* Something is said of the settings in w, and the error stays, goes, or   *)
(* is said instead.                                                        *)
LEMMA TruthSpoken ==
  ASSUME WritesInv, NEW i \in Nat, Around(i), NEW w \in Wishes, NEW u \in Wishes,
         \A x \in Writes!Settings : w[x] # Writes!Free => Now(i, x, w[x]),
         \A x \in Writes!Settings : u[x] # Writes!Free => Now(i, x, u[x]),
         notice' = Writes!Silent \/ notice' = [ must |-> w, by |-> i ],
         failure' = Writes!Silent \/ (failure' = failure /\ (failure.by # i \/ Still)) \/ failure' = [ must |-> u, by |-> i ]
  PROVE  Spoken(i)
<1>1. ASSUME NEW s \in Sayings, NEW y \in Wishes, s = [ must |-> y, by |-> i ],
             \A x \in Writes!Settings : y[x] # Writes!Free => Now(i, x, y[x])
      PROVE  Writes!True(s)' /\ s.by = i
  <2>1. s.must = y /\ s.by = i
    BY <1>1
  <2> QED BY <1>1, <2>1 DEF Writes!True, Now
<1>2. PICK n \in Sayings : n = [ must |-> w, by |-> i ]
  BY DEF Sayings
<1>3. PICK f \in Sayings : f = [ must |-> u, by |-> i ]
  BY DEF Sayings
<1>4. Writes!True(n)' /\ n.by = i /\ Writes!True(f)' /\ f.by = i
  BY <1>1, <1>2, <1>3
<1>5. /\ notice' \in Sayings /\ Writes!True(notice)' /\ (notice' \in {Writes!Silent, notice} \/ notice'.by = i)
  <2>1. CASE notice' = Writes!Silent
    <3>1. PICK s \in Sayings : s = Writes!Silent
      BY WritesNothing
    <3>2. Writes!True(s)'
      BY <3>1, SilentTrue, WritesNothing DEF Writes!True
    <3> QED BY <2>1, <3>1, <3>2, SaidAs, WritesNothing
  <2>2. CASE notice' = n
    BY <1>4, <2>2, SaidAs
  <2> QED BY <1>2, <2>1, <2>2
<1>6. /\ failure' \in Sayings /\ Writes!True(failure)' /\ (failure' \in {Writes!Silent, failure} \/ failure'.by = i)
  <2>1. CASE failure' = Writes!Silent
    <3>1. PICK s \in Sayings : s = Writes!Silent
      BY WritesNothing
    <3>2. Writes!True(s)'
      BY <3>1, SilentTrue, WritesNothing DEF Writes!True
    <3> QED BY <2>1, <3>1, <3>2, SaidAs, WritesNothing
  <2>2. CASE failure' = f
    BY <1>4, <2>2, SaidAs
  <2>3. CASE failure' = failure /\ (failure.by # i \/ Still)
    <3>1. PICK s \in Sayings : failure = s
      BY DEF WritesInv, WritesShape
    <3>2. Writes!True(s) /\ (s.by # i \/ Still)
      BY <2>3, <3>1 DEF WritesInv, Writes!NoticeIsTrue
    <3>3. Writes!True(s)'
      BY <3>2, SaidStays
    <3> QED BY <2>3, <3>1, <3>3, SaidAs
  <2> QED BY <1>3, <2>1, <2>2, <2>3
<1> QED BY <1>5, <1>6 DEF Spoken

(* A command that nothing is done for goes on as it was.                   *)
LEMMA OtherKept ==
  ASSUME WritesInv, NEW d \in Writes!Slots, cmd'[d] = cmd[d],
         Active(d) => /\ Held(cmd[d].id)
                      /\ notice' = notice \/ notice'.by # cmd[d].id
                      /\ failure' = failure \/ failure'.by # cmd[d].id
  PROVE  Unsaid(d)' /\ Course(d)'
<1>1. PICK k \in Commands : cmd[d] = k
  BY DEF WritesInv, WritesShape
<1>2. \A x \in Writes!Settings : k.want[x] \in Levels /\ k.prev[x] \in Levels
  BY DEF Commands, Wishes
<1>3. Unsaid(d)'
  BY <1>1 DEF WritesInv, Unsaid, Active
<1>4. ASSUME Active(d), NEW x \in Writes!Settings
      PROVE  /\ Unwritten(d, x) => Unwritten(d, x)'
             /\ \A v \in Levels : Holds(d, x, v) => Holds(d, x, v)'
  <2>1. Held(k.id)
    BY <1>1, <1>4
  <2> QED BY <1>1, <1>4, <2>1, WritesMembers DEF Held, Unwritten, Holds
<1>5. CASE Active(d)
  <2>1. OfSingle(d)' /\ OfRange(d)' /\ OfPause(d)'
    BY <1>1, <1>2, <1>4, <1>5, WritesMembers DEF WritesInv, Course, OfSingle, OfRange, OfPause
  <2>2. OfStrategy(d)'
    BY <1>1, <1>2, <1>4, <1>5, WritesMembers DEF WritesInv, Course, OfStrategy
  <2>3. OfCurve(d)'
    BY <1>1, <1>2, <1>4, <1>5, WritesMembers DEF WritesInv, Course, OfCurve
  <2>4. cmd'[d].step \in {"write", "submit"} => \A x \in Writes!Settings : Unwritten(d, x)'
    BY <1>1, <1>4, <1>5 DEF WritesInv, Course
  <2> QED BY <1>3, <2>1, <2>2, <2>3, <2>4 DEF Course
<1>6. CASE ~Active(d)
  <2>1. Course(d)'
    BY <1>1, <1>6 DEF WritesInv, Course, OfSingle, OfRange, OfPause, OfStrategy, OfCurve, Active
  <2> QED BY <1>3, <2>1
<1> QED BY <1>5, <1>6

(* A command goes on, or ends.                                             *)
LEMMA CommandKeeps ==
  ASSUME WritesInv, NEW c \in Writes!Slots, Active(c), NEW i \in Nat, i = cmd[c].id,
         NEW m \in Commands, Turned(c, m), Around(i), Spoken(i),
         \/ m = Writes!NoCmd
         \/ /\ m.id = i /\ Course(c)' /\ failure'.by # i
            /\ m.kind \in Writes!Single \cup {"pause"} /\ m.step # "refresh" => notice'.by # i
            /\ m.step # "submit"
  PROVE  WritesInv'
<1>1. /\ moves \in Nat /\ i > moves /\ moves' = moves /\ i # 0
      /\ notice' \in {Writes!Silent, notice} \/ notice'.by = i
      /\ failure' \in {Writes!Silent, failure} \/ failure'.by = i
  BY DEF WritesInv, WritesShape, Own, Spoken, Around
<1>2. ASSUME NEW d \in Writes!Slots, d # c PROVE Unsaid(d)' /\ Course(d)'
  <2>1. cmd'[d] = cmd[d]
    BY <1>2 DEF Turned
  <2>2. ASSUME Active(d) PROVE cmd[d].id # i /\ cmd[d].id # 0 /\ Held(cmd[d].id)
    <3>1. cmd[d].id \in Nat /\ cmd[d].id # i /\ cmd[d].id # 0
      BY <1>1, <1>2, <2>2 DEF WritesInv, WritesShape, Own, Commands
    <3> QED BY <3>1 DEF Around
  <2> QED BY <1>1, <2>1, <2>2, OtherKept, WritesNothing
<1>3. Unsaid(c)' /\ Course(c)'
  <2>1. CASE m = Writes!NoCmd
    BY <2>1, WritesNothing DEF Turned, Unsaid, Course, OfSingle, OfRange, OfPause, OfStrategy,
       OfCurve, Active,
       Writes!Single, Writes!Plain, Writes!AtOnce, Writes!Confirmed
  <2>2. CASE m # Writes!NoCmd
    BY <2>2 DEF Turned, Unsaid, Active
  <2> QED BY <2>1, <2>2
<1>4. WritesShape'
  BY <1>1 DEF WritesShape, Around, Turned, Spoken
<1>5. Own'
  <2>1. ASSUME NEW d \in Writes!Slots, Active(d)'
        PROVE  cmd'[d].id > moves' /\ (d # c => Active(d) /\ cmd'[d].id = cmd[d].id)
    BY <1>1, <2>1, WritesNothing DEF Turned, Active, WritesInv, Own
  <2>2. ASSUME NEW d \in Writes!Slots, NEW e \in Writes!Slots, d # e, Active(d)', Active(e)'
        PROVE  cmd'[d].id # cmd'[e].id
    BY <2>1, <2>2, WritesNothing DEF Turned, Active, WritesInv, Own
  <2>3. \A x \in Writes!Settings : wrote'[x] = 0 \/ wrote'[x] > moves'
    BY <1>1 DEF Around, WritesInv, Own
  <2> QED BY <1>1, <2>1, <2>2, <2>3 DEF Own, WritesInv
<1> QED BY <1>2, <1>3, <1>4, <1>5 DEF WritesInv, Writes!NoticeIsTrue, Spoken

(* A command as it goes on.                                                *)
To(k, s, t, b) == [ kind |-> k.kind, step |-> s, want |-> k.want, prev |-> k.prev,
                    tries |-> t, bad |-> b, id |-> k.id ]

(* A command under way.                                                    *)
Going(c, k) == c \in Writes!Slots /\ k \in Commands /\ cmd[c] = k /\ k.step # "idle"

LEMMA GoingFacts ==
  ASSUME WritesInv, NEW c, NEW k, Going(c, k)
  PROVE  /\ WritesShape /\ Active(c) /\ k.id \in Nat /\ k.id # 0
         /\ k.want \in Wishes /\ k.prev \in Wishes /\ k.tries \in Nat /\ k.bad \in BOOLEAN
         /\ \A x \in Writes!Settings : k.want[x] \in Levels /\ k.prev[x] \in Levels
         /\ shown \in Wishes /\ unitval \in Wishes
         /\ failure.by # k.id
         /\ k.kind \in Writes!Single \cup {"pause"} /\ k.step # "refresh" => notice.by # k.id
         /\ k.step = "submit" => notice.by # k.id
         /\ k.step \in {"write", "submit"} => wrote["a"] # k.id /\ wrote["b"] # k.id
<1>1. WritesShape /\ moves \in Nat
  BY DEF WritesInv, WritesShape
<1>2. Active(c) /\ c \in Writes!Slots /\ k \in Commands /\ cmd[c] = k /\ k.step # "idle"
  BY DEF Going, Active
<1>3. k.id \in Nat /\ k.id # 0
  BY <1>1, <1>2 DEF WritesInv, Own, Commands
<1>4. Unsaid(c) /\ Course(c)
  BY <1>2 DEF WritesInv
<1>5. /\ failure.by # k.id
      /\ k.kind \in Writes!Single \cup {"pause"} /\ k.step # "refresh" => notice.by # k.id
      /\ k.step = "submit" => notice.by # k.id
  BY <1>2, <1>4 DEF Unsaid
<1>6. k.step \in {"write", "submit"} => wrote["a"] # k.id /\ wrote["b"] # k.id
  BY <1>2, <1>4, WritesMembers DEF Course, Unwritten
<1>7. /\ k.want \in Wishes /\ k.prev \in Wishes /\ k.tries \in Nat /\ k.bad \in BOOLEAN
      /\ \A x \in Writes!Settings : k.want[x] \in Levels /\ k.prev[x] \in Levels
  BY <1>2 DEF Commands, Wishes
<1> QED BY <1>1, <1>2, <1>3, <1>5, <1>6, <1>7 DEF WritesShape

LEMMA TurnsTo ==
  ASSUME WritesShape, NEW c, NEW k, Going(c, k), NEW s \in Points, NEW t \in Nat, NEW b \in BOOLEAN
  PROVE  /\ To(k, s, t, b) \in Commands
         /\ cmd' = [cmd EXCEPT ![c] = To(k, s, t, b)] => Turned(c, To(k, s, t, b))
         /\ cmd' = [cmd EXCEPT ![c].step = s] => Turned(c, To(k, s, k.tries, k.bad))
         /\ cmd' = [cmd EXCEPT ![c].step = s, ![c].tries = 0] => Turned(c, To(k, s, 0, k.bad))
         /\ cmd' = [cmd EXCEPT ![c].step = s, ![c].bad = @ \/ b] => Turned(c, To(k, s, k.tries, k.bad \/ b))
         /\ cmd' = [cmd EXCEPT ![c].step = s, ![c].bad = b] => Turned(c, To(k, s, k.tries, b))
         /\ cmd' = [cmd EXCEPT ![c].tries = @ + 1] => Turned(c, To(k, k.step, k.tries + 1, k.bad))
<1>1. /\ c \in Writes!Slots /\ k \in Commands /\ cmd[c] = k /\ cmd \in [Writes!Slots -> Commands]
      /\ k.tries \in Nat /\ k.tries + 1 \in Nat /\ k.bad \in BOOLEAN /\ k.step \in Points
  BY DEF Going, WritesShape, Commands
<1>2. ASSUME NEW u \in Points, NEW v \in Nat, NEW d \in BOOLEAN
      PROVE  /\ To(k, u, v, d) \in Commands
             /\ cmd' = [cmd EXCEPT ![c] = To(k, u, v, d)] => Turned(c, To(k, u, v, d))
  <2>1. To(k, u, v, d) \in Commands
    BY <1>1 DEF To, Commands
  <2> QED BY <1>1, <2>1 DEF Turned
<1>3. cmd' = [cmd EXCEPT ![c].step = s] => cmd' = [cmd EXCEPT ![c] = To(k, s, k.tries, k.bad)]
  BY <1>1 DEF To, Commands
<1>4. cmd' = [cmd EXCEPT ![c].step = s, ![c].tries = 0] => cmd' = [cmd EXCEPT ![c] = To(k, s, 0, k.bad)]
  BY <1>1 DEF To, Commands
<1>5. cmd' = [cmd EXCEPT ![c].step = s, ![c].bad = @ \/ b] => cmd' = [cmd EXCEPT ![c] = To(k, s, k.tries, k.bad \/ b)]
  BY <1>1 DEF To, Commands
<1>6. cmd' = [cmd EXCEPT ![c].step = s, ![c].bad = b] => cmd' = [cmd EXCEPT ![c] = To(k, s, k.tries, b)]
  BY <1>1 DEF To, Commands
<1>7. cmd' = [cmd EXCEPT ![c].tries = @ + 1] => cmd' = [cmd EXCEPT ![c] = To(k, k.step, k.tries + 1, k.bad)]
  BY <1>1 DEF To, Commands
<1>8. k.bad \/ b \in BOOLEAN
  BY <1>1
<1> QED BY <1>1, <1>2, <1>3, <1>4, <1>5, <1>6, <1>7, <1>8

LEMMA CommandEnded ==
  ASSUME WritesInv, NEW c, NEW k, Going(c, k), cmd' = [cmd EXCEPT ![c] = Writes!NoCmd],
         Around(k.id), Spoken(k.id)
  PROVE  WritesInv'
<1>1. Active(c) /\ k.id \in Nat /\ cmd[c] = k /\ c \in Writes!Slots /\ cmd \in [Writes!Slots -> Commands]
  BY GoingFacts DEF Going, WritesShape
<1>2. Turned(c, Writes!NoCmd)
  BY <1>1, WritesNothing DEF Turned
<1> QED BY <1>1, <1>2, WritesNothing, CommandKeeps

LEMMA Onwards ==
  ASSUME WritesInv, NEW c, NEW k, Going(c, k), NEW s \in Points, NEW t \in Nat, NEW b \in BOOLEAN,
         Turned(c, To(k, s, t, b)), Around(k.id), Spoken(k.id), Course(c)', failure'.by # k.id,
         k.kind \in Writes!Single \cup {"pause"} /\ s # "refresh" => notice'.by # k.id,
         s # "submit"
  PROVE  WritesInv'
<1>1. Active(c) /\ k.id \in Nat /\ cmd[c] = k /\ c \in Writes!Slots /\ WritesShape
  BY GoingFacts DEF Going
<1>2. To(k, s, t, b) \in Commands
  BY <1>1, TurnsTo
<1>3. PICK m \in Commands : m = To(k, s, t, b)
  BY <1>2
<1>4. m.id = k.id /\ m.step = s /\ m.kind = k.kind
  BY <1>3 DEF To
<1> QED BY <1>1, <1>3, <1>4, CommandKeeps

(* What is said in the end, on the way, and nothing.                       *)
LEMMA NotifySpoken ==
  ASSUME WritesInv, NEW i \in Nat, Around(i), NEW w \in Wishes,
         \A x \in Writes!Settings : w[x] # Writes!Free => Now(i, x, w[x]),
         notice' = [ must |-> w, by |-> i ],
         failure' = Writes!Silent \/ failure' = failure, failure.by # i, i # 0
  PROVE  Spoken(i) /\ failure'.by # i
<1>1. Spoken(i)
  BY TruthSpoken
<1> QED BY <1>1, WritesNothing

LEMMA SilentSpoken ==
  ASSUME WritesInv, NEW i \in Nat, Around(i), notice' = Writes!Silent,
         failure' = Writes!Silent \/ failure' = failure, failure.by # i, i # 0
  PROVE  Spoken(i) /\ failure'.by # i /\ notice'.by # i
<1>1. Spoken(i)
  BY TruthSpoken, WritesNothing
<1> QED BY <1>1, WritesNothing

LEMMA ReportSpoken ==
  ASSUME WritesInv, NEW i \in Nat, Around(i), NEW w \in Wishes, NEW u \in Wishes,
         \A x \in Writes!Settings : w[x] # Writes!Free => Now(i, x, w[x]),
         \A x \in Writes!Settings : u[x] # Writes!Free => Now(i, x, u[x]),
         notice' = Writes!Silent \/ notice' = [ must |-> w, by |-> i ],
         failure' = [ must |-> u, by |-> i ]
  PROVE  Spoken(i)
BY TruthSpoken

(* What is known of a command of each kind.                                *)
LEMMA Fields ==
  ASSUME NEW c, NEW k, NEW s, NEW t, NEW b, Turned(c, To(k, s, t, b))
  PROVE  /\ cmd'[c].kind = k.kind /\ cmd'[c].step = s /\ cmd'[c].want = k.want
         /\ cmd'[c].prev = k.prev /\ cmd'[c].bad = b /\ cmd'[c].id = k.id
BY DEF Turned, To

LEMMA CourseOfSingle ==
  ASSUME NEW c, NEW k, NEW s, NEW t, NEW b, Turned(c, To(k, s, t, b)),
         k.kind \in Writes!Single, s \notin {"write", "submit"}, k.want["b"] = Writes!Free,
         s = "confirm" => Now(k.id, "a", k.want["a"]), s = "unconfirm" => Now(k.id, "a", 0)
  PROVE  Course(c)'
<1>1. k.kind \notin {"range", "pause", "strategy", "curve"}
  BY DEF Writes!Single, Writes!Plain, Writes!AtOnce, Writes!Confirmed
<1> QED BY <1>1, Fields DEF Course, OfSingle, OfRange, OfPause, OfStrategy, OfCurve, Holds, Now

LEMMA CourseOfRange ==
  ASSUME NEW c, NEW k, NEW s, NEW t, NEW b, Turned(c, To(k, s, t, b)),
         k.kind = "range", s \notin {"write", "submit"}, k.want["a"] = 0, k.want["b"] = 0,
         s = "write2" => Now(k.id, "a", 0) /\ wrote'["b"] # k.id,
         s = "confirm" => Now(k.id, "a", 0) /\ Now(k.id, "b", 0)
  PROVE  Course(c)'
<1>1. k.kind \notin Writes!Single \cup {"pause", "strategy", "curve"}
  BY DEF Writes!Single, Writes!Plain, Writes!AtOnce, Writes!Confirmed
<1> QED BY <1>1, Fields DEF Course, OfSingle, OfRange, OfPause, OfStrategy, OfCurve, Holds,
           Unwritten, Now

LEMMA CourseOfPause ==
  ASSUME NEW c, NEW k, NEW s, NEW t, NEW b, Turned(c, To(k, s, t, b)),
         k.kind = "pause", s \notin {"write", "submit"}, k.want["a"] = 0,
         s = "write2" => Now(k.id, "b", k.want["b"])
  PROVE  Course(c)'
<1>1. k.kind \notin Writes!Single \cup {"range", "strategy", "curve"}
  BY DEF Writes!Single, Writes!Plain, Writes!AtOnce, Writes!Confirmed
<1> QED BY <1>1, Fields DEF Course, OfSingle, OfRange, OfPause, OfStrategy, OfCurve, Holds, Now

LEMMA CourseOfStrategy ==
  ASSUME NEW c, NEW k, NEW s, NEW t, NEW b, Turned(c, To(k, s, t, b)),
         k.kind = "strategy", s \notin {"write", "submit"},
         s \in {"verify", "write2"} => wrote'["b"] # k.id,
         s = "verify2" => Now(k.id, "b", k.want["b"]),
         s = "unverify" => Now(k.id, "b", k.prev["b"]),
         s \in {"undo2", "unverify2"} /\ ~b => Now(k.id, "b", k.prev["b"]),
         s = "unverify2" => Now(k.id, "a", k.prev["a"])
  PROVE  Course(c)'
<1>1. k.kind \notin Writes!Single \cup {"range", "pause", "curve"}
  BY DEF Writes!Single, Writes!Plain, Writes!AtOnce, Writes!Confirmed
<1> QED BY <1>1, Fields DEF Course, OfSingle, OfRange, OfPause, OfStrategy, OfCurve, Holds,
           Unwritten, Now

LEMMA CourseOfCurve ==
  ASSUME NEW c, NEW k, NEW s, NEW t, NEW b, Turned(c, To(k, s, t, b)),
         k.kind = "curve", s \notin {"submit"},
         s = "write" => wrote'["a"] # k.id /\ wrote'["b"] # k.id,
         s = "write2" => Now(k.id, "a", k.want["a"]) /\ wrote'["b"] # k.id,
         s \in {"confirm", "check"} => Now(k.id, "a", k.want["a"]) /\ Now(k.id, "b", k.want["b"]),
         s = "undo2" /\ ~b => Now(k.id, "a", k.prev["a"])
  PROVE  Course(c)'
<1>1. k.kind \notin Writes!Single \cup {"range", "pause", "strategy"}
  BY DEF Writes!Single, Writes!Plain, Writes!AtOnce, Writes!Confirmed
<1>2. s \in {"confirm", "check"} => \A x \in Writes!Settings : Holds(c, x, cmd[c].want[x])'
  <2>1. ASSUME NEW x \in Writes!Settings, s \in {"confirm", "check"}
        PROVE  Holds(c, x, cmd[c].want[x])'
    BY <2>1, Fields, WritesMembers DEF Holds, Now
  <2> QED BY <2>1
<1> QED BY <1>1, <1>2, Fields, WritesMembers
        DEF Course, OfSingle, OfRange, OfPause, OfStrategy, OfCurve, Holds, Unwritten, Now

-----------------------------------------------------------------------------
(* Single settings                                                         *)

LEMMA AtGoing ==
  ASSUME WritesInv, NEW c \in Writes!Slots, NEW kinds, NEW s, s # "idle", Writes!At(c, kinds, s)
  PROVE  \E k \in Commands : Going(c, k) /\ k.kind \in kinds /\ k.step = s
BY DEF Writes!At, Going, WritesInv, WritesShape

LEMMA SingleFacts ==
  ASSUME WritesInv, NEW c, NEW k, Going(c, k), k.kind \in Writes!Single
  PROVE  /\ k.want["b"] = Writes!Free
         /\ k.step = "confirm" => (wrote["a"] = k.id => Writes!Settles("a", k.want["a"]))
         /\ k.step = "unconfirm" => (wrote["a"] = k.id => Writes!Settles("a", 0))
<1>1. c \in Writes!Slots /\ cmd[c] = k
  BY DEF Going
<1>2. OfSingle(c)
  BY <1>1 DEF WritesInv, Course
<1> QED BY <1>1, <1>2 DEF OfSingle, Holds

LEMMA PlainKeeps == ASSUME WritesInv, NEW c \in Writes!Slots, Writes!PlainWrite(c) PROVE WritesInv'
<1>1. PICK k \in Commands : Going(c, k) /\ k.kind \in Writes!Plain /\ k.step = "write"
  BY AtGoing DEF Writes!PlainWrite
<1>2. /\ k.kind \in Writes!Single /\ cmd[c] = k /\ k.kind # "none"
  BY <1>1 DEF Going, Writes!Single, Writes!Plain, Writes!AtOnce
<1>3. PICK ok \in BOOLEAN :
        /\ Writes!Post(c, "a", k.want["a"], ok)
        /\ IF ok
           THEN /\ shown' = IF k.kind \in Writes!AtOnce THEN [shown EXCEPT !["a"] = k.want["a"]] ELSE shown
                /\ Writes!Notify(c, k.want)
                /\ cmd' = [cmd EXCEPT ![c].step = "refresh"]
           ELSE /\ shown' = IF k.kind = "select" THEN [shown EXCEPT !["a"] = k.prev["a"]] ELSE shown
                /\ Writes!End(c) /\ Writes!Quietly
  BY <1>2 DEF Writes!PlainWrite, Writes!Want, Writes!Prev
<1>4. shown' \in Wishes
  BY <1>1, <1>3, GoingFacts, WritesMembers DEF Wishes
<1>5. Around(k.id) /\ Sent(k.id, "a", k.want["a"], ok)
  BY <1>1, <1>2, <1>3, <1>4, GoingFacts, PostAround, WritesMembers
<1>6. CASE ok
  <2>1. Turned(c, To(k, "refresh", k.tries, k.bad))
    BY <1>1, <1>3, <1>6, GoingFacts, TurnsTo, WritesMembers
  <2>2. Spoken(k.id) /\ failure'.by # k.id
    <3>1. \A x \in Writes!Settings : k.want[x] # Writes!Free => Now(k.id, x, k.want[x])
      BY <1>1, <1>2, <1>5, <1>6, SingleFacts, WritesMembers DEF Sent
    <3>2. notice' = [ must |-> k.want, by |-> k.id ] /\ failure' = failure
      BY <1>2, <1>3, <1>6 DEF Writes!Notify
    <3> QED BY <1>1, <1>5, <3>1, <3>2, GoingFacts, NotifySpoken
  <2>3. Course(c)'
    BY <1>1, <1>2, <2>1, SingleFacts, CourseOfSingle
  <2> QED BY <1>1, <1>5, <2>1, <2>2, <2>3, GoingFacts, Onwards, WritesMembers
<1>7. CASE ~ok
  <2>1. Spoken(k.id)
    BY <1>1, <1>2, <1>3, <1>5, <1>7, GoingFacts, QuietSpoken
  <2> QED BY <1>1, <1>3, <1>5, <1>7, <2>1, CommandEnded DEF Writes!End
<1> QED BY <1>6, <1>7

(* Nothing is written any more.                                            *)
LEMMA QuietEnd ==
  ASSUME WritesInv, NEW c, NEW k, Going(c, k), Writes!End(c), Writes!Quietly, shown' \in Wishes,
         UNCHANGED <<unitval, inbox, wrote, moves>>
  PROVE  WritesInv'
<1>1. WritesShape /\ k.id \in Nat
  BY GoingFacts
<1>2. Around(k.id) /\ Still
  BY <1>1, StillAround
<1> QED BY <1>1, <1>2, QuietSpoken, CommandEnded DEF Writes!End

LEMMA NotifyEnd ==
  ASSUME WritesInv, NEW c, NEW k, Going(c, k), cmd' = [cmd EXCEPT ![c] = Writes!NoCmd],
         shown' \in Wishes,
         UNCHANGED <<unitval, inbox, wrote, moves>>, NEW w \in Wishes,
         notice' = [ must |-> w, by |-> k.id ], failure' = failure,
         \A x \in Writes!Settings : w[x] # Writes!Free /\ wrote[x] = k.id => Writes!Settles(x, w[x])
  PROVE  WritesInv'
<1>1. WritesShape /\ k.id \in Nat /\ k.id # 0 /\ failure.by # k.id
  BY GoingFacts
<1>2. Around(k.id) /\ Still
  BY <1>1, StillAround
<1>3. \A x \in Writes!Settings : w[x] # Writes!Free => Now(k.id, x, w[x])
  BY <1>2 DEF Still, Now, Wishes
<1> QED BY <1>1, <1>2, <1>3, NotifySpoken, CommandEnded

LEMMA RefreshesKeep ==
  ASSUME WritesInv, NEW c \in Writes!Slots, Writes!Refreshes(c) PROVE WritesInv'
<1>1. PICK k \in Commands : Going(c, k)
  BY DEF Writes!Refreshes, Going, WritesInv, WritesShape
<1>2. shown' \in Wishes /\ UNCHANGED <<unitval, inbox, wrote, moves>>
  BY <1>1, GoingFacts DEF Writes!Refreshes, Writes!Refresh
<1> QED BY <1>1, <1>2, QuietEnd DEF Writes!Refreshes

(* A write that is confirmed, or undone, later.                            *)
LEMMA QuietPost ==
  ASSUME WritesInv, NEW c \in Writes!Slots, NEW k, Going(c, k),
         k.kind \in Writes!Single \cup {"pause"}, k.step # "refresh",
         NEW x \in Writes!Settings, NEW v \in Levels, NEW ok \in BOOLEAN, Writes!Post(c, x, v, ok), Writes!Quietly, shown' \in Wishes
  PROVE  /\ Around(k.id) /\ Sent(k.id, x, v, ok) /\ Spoken(k.id)
         /\ notice'.by # k.id /\ failure'.by # k.id
         /\ Writes!End(c) => WritesInv'
<1>1. /\ WritesShape /\ k.id \in Nat /\ cmd[c] = k /\ notice.by # k.id /\ failure.by # k.id
  BY GoingFacts DEF Going
<1>2. Around(k.id) /\ Sent(k.id, x, v, ok)
  BY <1>1, PostAround
<1>3. Spoken(k.id)
  BY <1>1, <1>2, QuietSpoken
<1> QED BY <1>1, <1>2, <1>3, CommandEnded DEF Writes!Quietly, Writes!End

LEMMA ConfirmedKeeps ==
  ASSUME WritesInv, NEW c \in Writes!Slots, Writes!ConfirmedWrite(c) PROVE WritesInv'
<1>1. PICK k \in Commands : Going(c, k) /\ k.kind \in Writes!Confirmed /\ k.step = "write"
  BY AtGoing DEF Writes!ConfirmedWrite
<1>2. k.kind \in Writes!Single /\ cmd[c] = k
  BY <1>1 DEF Going, Writes!Single, Writes!Confirmed
<1>3. PICK ok \in BOOLEAN :
        Writes!Post(c, "a", k.want["a"], ok) /\ IF ok THEN Writes!Go(c, "confirm") ELSE Writes!End(c)
  BY <1>2 DEF Writes!ConfirmedWrite, Writes!Want
<1>4. shown' \in Wishes /\ Writes!Quietly
  BY <1>1, GoingFacts DEF Writes!ConfirmedWrite
<1>5. /\ Around(k.id) /\ Sent(k.id, "a", k.want["a"], ok) /\ Spoken(k.id)
      /\ notice'.by # k.id /\ failure'.by # k.id
      /\ Writes!End(c) => WritesInv'
  BY <1>1, <1>2, <1>3, <1>4, GoingFacts, QuietPost, WritesMembers
<1>6. CASE ok
  <2>1. Turned(c, To(k, "confirm", 0, k.bad))
    BY <1>1, <1>3, <1>6, GoingFacts, TurnsTo, WritesMembers DEF Writes!Go
  <2>2. Course(c)'
    BY <1>1, <1>2, <1>5, <1>6, <2>1, SingleFacts, CourseOfSingle DEF Sent
  <2> QED BY <1>1, <1>5, <2>1, <2>2, GoingFacts, Onwards, WritesMembers
<1>7. CASE ~ok
  BY <1>3, <1>5, <1>7
<1> QED BY <1>6, <1>7

(* A read-back that fits, one that does not, and none.                     *)
LEMMA ConfirmNotes ==
  ASSUME WritesInv, NEW c \in Writes!Slots, NEW k, Going(c, k), k.kind \in Writes!Single,
         k.step = "confirm",
         shown' \in Wishes, UNCHANGED <<unitval, inbox, wrote, moves>>
  PROVE  /\ Writes!Go(c, "refresh") /\ Writes!Notify(c, k.want) => WritesInv'
         /\ Writes!End(c) /\ Writes!Notify(c, k.want) => WritesInv'
         /\ Writes!End(c) /\ Writes!Quietly => WritesInv'
         /\ Writes!Go(c, "undo") /\ Writes!Quietly => WritesInv'
         /\ cmd' = [cmd EXCEPT ![c].tries = @ + 1] /\ Writes!Quietly => WritesInv'
<1>1. /\ WritesShape /\ k.id \in Nat /\ k.id # 0 /\ failure.by # k.id /\ notice.by # k.id /\ cmd[c] = k
      /\ k.want \in Wishes /\ k.want["b"] = Writes!Free /\ (wrote["a"] = k.id => Writes!Settles("a", k.want["a"]))
      /\ k.bad \in BOOLEAN /\ k.tries + 1 \in Nat
  BY GoingFacts, SingleFacts DEF Going
<1>2. Around(k.id) /\ Still
  BY <1>1, StillAround
<1>3. /\ Now(k.id, "a", k.want["a"])
      /\ \A x \in Writes!Settings : k.want[x] # Writes!Free => Now(k.id, x, k.want[x])
  BY <1>1, <1>2, GoingFacts, WritesMembers DEF Still, Now
<1>4. ASSUME Writes!Notify(c, k.want) PROVE Spoken(k.id) /\ failure'.by # k.id
  BY <1>1, <1>2, <1>3, <1>4, NotifySpoken DEF Writes!Notify
<1>5. ASSUME Writes!Quietly PROVE Spoken(k.id) /\ failure'.by # k.id /\ notice'.by # k.id
  BY <1>1, <1>2, <1>5, QuietSpoken DEF Writes!Quietly
<1>6. ASSUME Writes!Go(c, "refresh"), Writes!Notify(c, k.want) PROVE WritesInv'
  <2>1. Turned(c, To(k, "refresh", 0, k.bad))
    BY <1>1, <1>6, TurnsTo, WritesMembers DEF Writes!Go
  <2>2. Course(c)'
    BY <1>1, <2>1, CourseOfSingle
  <2> QED BY <1>1, <1>2, <1>4, <1>6, <2>1, <2>2, Onwards, WritesMembers
<1>7. ASSUME Writes!End(c), Writes!Notify(c, k.want) PROVE WritesInv'
  BY <1>1, <1>2, <1>4, <1>7, CommandEnded DEF Writes!End
<1>8. ASSUME Writes!End(c), Writes!Quietly PROVE WritesInv'
  BY <1>8, QuietEnd
<1>9. ASSUME Writes!Go(c, "undo"), Writes!Quietly PROVE WritesInv'
  <2>1. Turned(c, To(k, "undo", 0, k.bad))
    BY <1>1, <1>9, TurnsTo, WritesMembers DEF Writes!Go
  <2>2. Course(c)'
    BY <1>1, <2>1, CourseOfSingle
  <2> QED BY <1>1, <1>2, <1>5, <1>9, <2>1, <2>2, Onwards, WritesMembers
<1>10. ASSUME cmd' = [cmd EXCEPT ![c].tries = @ + 1], Writes!Quietly PROVE WritesInv'
  <2>1. Turned(c, To(k, "confirm", k.tries + 1, k.bad))
    BY <1>1, <1>10, TurnsTo, WritesMembers
  <2>2. Course(c)'
    BY <1>1, <1>3, <2>1, CourseOfSingle
  <2> QED BY <1>1, <1>2, <1>5, <1>10, <2>1, <2>2, Onwards, WritesMembers
<1> QED BY <1>6, <1>7, <1>8, <1>9, <1>10

LEMMA SourceKeep ==
  ASSUME WritesInv, NEW c \in Writes!Slots, Writes!SourceConfirms(c) PROVE WritesInv'
<1>1. PICK k \in Commands : Going(c, k) /\ k.kind = "source" /\ k.step = "confirm"
  BY AtGoing DEF Writes!SourceConfirms
<1>2. k.kind \in Writes!Single /\ cmd[c] = k
  BY <1>1 DEF Going, Writes!Single, Writes!Confirmed
<1>3. shown' \in Wishes /\ UNCHANGED <<unitval, inbox, wrote, moves>>
  BY <1>1, GoingFacts, WritesMembers DEF Writes!SourceConfirms, Writes!ReadBack, Wishes
<1>4. \/ Writes!Go(c, "refresh") /\ Writes!Notify(c, k.want)
      \/ cmd' = [cmd EXCEPT ![c].tries = @ + 1] /\ Writes!Quietly
      \/ Writes!End(c) /\ Writes!Quietly
  BY <1>2 DEF Writes!SourceConfirms, Writes!Again, Writes!Want
<1> QED BY <1>1, <1>2, <1>3, <1>4, ConfirmNotes

LEMMA OverrideKeep ==
  ASSUME WritesInv, NEW c \in Writes!Slots, Writes!OverrideConfirms(c) PROVE WritesInv'
<1>1. PICK k \in Commands : Going(c, k) /\ k.kind = "override" /\ k.step = "confirm"
  BY AtGoing DEF Writes!OverrideConfirms
<1>2. k.kind \in Writes!Single /\ cmd[c] = k
  BY <1>1 DEF Going, Writes!Single, Writes!Confirmed
<1>3. shown' \in Wishes /\ UNCHANGED <<unitval, inbox, wrote, moves>>
  BY <1>1, <1>2, GoingFacts, WritesMembers DEF Writes!OverrideConfirms, Writes!ReadBack, Wishes,
     Writes!Want, Writes!Prev
<1>4. (Writes!Go(c, "refresh") /\ Writes!Notify(c, k.want)) \/ (Writes!End(c) /\ Writes!Quietly)
  BY <1>2 DEF Writes!OverrideConfirms, Writes!Want
<1> QED BY <1>1, <1>2, <1>3, <1>4, ConfirmNotes

LEMMA AdviceKeep ==
  ASSUME WritesInv, NEW c \in Writes!Slots, Writes!AdviceConfirms(c) PROVE WritesInv'
<1>1. PICK k \in Commands : Going(c, k) /\ k.kind = "advice" /\ k.step = "confirm"
  BY AtGoing DEF Writes!AdviceConfirms
<1>2. k.kind \in Writes!Single /\ cmd[c] = k
  BY <1>1 DEF Going, Writes!Single, Writes!Confirmed
<1>3. shown' \in Wishes /\ UNCHANGED <<unitval, inbox, wrote, moves>>
  BY <1>1, GoingFacts, WritesMembers DEF Writes!AdviceConfirms, Writes!ReadBack, Wishes
<1>4. (Writes!Go(c, "refresh") /\ Writes!Notify(c, k.want)) \/ (Writes!End(c) /\ Writes!Quietly)
  BY <1>2 DEF Writes!AdviceConfirms, Writes!Want
<1> QED BY <1>1, <1>2, <1>3, <1>4, ConfirmNotes

LEMMA OptWriteKeep == ASSUME WritesInv, NEW c \in Writes!Slots, Writes!OptWrite(c) PROVE WritesInv'
<1>1. PICK k \in Commands : Going(c, k) /\ k.kind = "telemetry" /\ k.step = "write"
  BY AtGoing DEF Writes!OptWrite
<1>2. k.kind \in Writes!Single /\ cmd[c] = k
  BY <1>1 DEF Going, Writes!Single
<1>3. PICK ok \in BOOLEAN :
        Writes!Post(c, "a", k.want["a"], ok) /\ Writes!Go(c, IF ok THEN "confirm" ELSE "undo")
  BY <1>2 DEF Writes!OptWrite, Writes!Want
<1>4. shown' \in Wishes /\ Writes!Quietly
  BY <1>1, GoingFacts DEF Writes!OptWrite
<1>5. /\ Around(k.id) /\ Sent(k.id, "a", k.want["a"], ok) /\ Spoken(k.id)
      /\ notice'.by # k.id /\ failure'.by # k.id
  BY <1>1, <1>2, <1>3, <1>4, GoingFacts, QuietPost, WritesMembers
<1>6. PICK s \in {"confirm", "undo"} : s = (IF ok THEN "confirm" ELSE "undo") /\ Writes!Go(c, s)
  BY <1>3
<1>7. Turned(c, To(k, s, 0, k.bad))
  BY <1>1, <1>6, GoingFacts, TurnsTo, WritesMembers DEF Writes!Go
<1>8. Course(c)'
  BY <1>1, <1>2, <1>5, <1>6, <1>7, SingleFacts, CourseOfSingle DEF Sent
<1> QED BY <1>1, <1>5, <1>6, <1>7, <1>8, GoingFacts, Onwards, WritesMembers

LEMMA OptConfirmsKeep ==
  ASSUME WritesInv, NEW c \in Writes!Slots, Writes!OptConfirms(c) PROVE WritesInv'
<1>1. PICK k \in Commands : Going(c, k) /\ k.kind = "telemetry" /\ k.step = "confirm"
  BY AtGoing DEF Writes!OptConfirms
<1>2. k.kind \in Writes!Single /\ cmd[c] = k
  BY <1>1 DEF Going, Writes!Single
<1>3. shown' \in Wishes /\ UNCHANGED <<unitval, inbox, wrote, moves>>
  BY <1>1, GoingFacts DEF Writes!OptConfirms, Writes!Refresh
<1>4. \/ Writes!End(c) /\ Writes!Notify(c, k.want)
      \/ cmd' = [cmd EXCEPT ![c].tries = @ + 1] /\ Writes!Quietly
      \/ Writes!Go(c, "undo") /\ Writes!Quietly
  BY <1>2 DEF Writes!OptConfirms, Writes!Again, Writes!Want
<1> QED BY <1>1, <1>2, <1>3, <1>4, ConfirmNotes

LEMMA OptOutKeep == ASSUME WritesInv, NEW c \in Writes!Slots, Writes!OptOut(c) PROVE WritesInv'
<1>1. PICK k \in Commands : Going(c, k) /\ k.kind = "telemetry" /\ k.step = "undo"
  BY AtGoing DEF Writes!OptOut
<1>2. k.kind \in Writes!Single /\ cmd[c] = k
  BY <1>1 DEF Going, Writes!Single
<1>3. PICK ok \in BOOLEAN :
        /\ Writes!Post(c, "a", 0, ok)
        /\ IF ok THEN Writes!Go(c, "unconfirm") /\ UNCHANGED shown
                 ELSE Writes!End(c) /\ shown' = [shown EXCEPT !["a"] = k.prev["a"]]
  BY <1>2 DEF Writes!OptOut, Writes!Prev
<1>4. shown' \in Wishes /\ Writes!Quietly
  BY <1>1, <1>3, GoingFacts, WritesMembers DEF Writes!OptOut, Wishes
<1>5. /\ Around(k.id) /\ Sent(k.id, "a", 0, ok) /\ Spoken(k.id)
      /\ notice'.by # k.id /\ failure'.by # k.id
      /\ Writes!End(c) => WritesInv'
  BY <1>1, <1>2, <1>3, <1>4, QuietPost, WritesMembers
<1>6. CASE ok
  <2>1. Turned(c, To(k, "unconfirm", 0, k.bad))
    BY <1>1, <1>3, <1>6, GoingFacts, TurnsTo, WritesMembers DEF Writes!Go
  <2>2. Course(c)'
    BY <1>1, <1>2, <1>5, <1>6, <2>1, SingleFacts, CourseOfSingle DEF Sent
  <2> QED BY <1>1, <1>5, <2>1, <2>2, GoingFacts, Onwards, WritesMembers
<1>7. CASE ~ok
  BY <1>3, <1>5, <1>7
<1> QED BY <1>6, <1>7

LEMMA OptOutConfirmsKeep ==
  ASSUME WritesInv, NEW c \in Writes!Slots, Writes!OptOutConfirms(c) PROVE WritesInv'
<1>1. PICK k \in Commands : Going(c, k) /\ k.kind = "telemetry" /\ k.step = "unconfirm"
  BY AtGoing DEF Writes!OptOutConfirms
<1>2. k.kind \in Writes!Single /\ cmd[c] = k
  BY <1>1 DEF Going, Writes!Single
<1>3. PICK read \in {shown, unitval} :
        IF read["a"] = 0
        THEN shown' = read /\ Writes!End(c) /\ Writes!Notify(c, Writes!About("a", 0))
        ELSE /\ Writes!Again(c, Writes!End(c)) /\ Writes!Quietly
             /\ shown' = IF cmd'[c].step = "idle" THEN [read EXCEPT !["a"] = k.prev["a"]] ELSE read
  BY <1>2 DEF Writes!OptOutConfirms, Writes!Prev
<1>4. /\ WritesShape /\ k.id \in Nat /\ k.id # 0 /\ failure.by # k.id /\ notice.by # k.id
      /\ (wrote["a"] = k.id => Writes!Settles("a", 0)) /\ k.want["b"] = Writes!Free /\ k.bad \in BOOLEAN /\ k.tries + 1 \in Nat
      /\ UNCHANGED <<unitval, inbox, wrote, moves>>
  BY <1>1, <1>2, GoingFacts, SingleFacts DEF Writes!OptOutConfirms
<1>5. shown' \in Wishes
  BY <1>1, <1>3, GoingFacts, WritesMembers DEF Wishes
<1>6. CASE Writes!End(c) /\ Writes!Notify(c, Writes!About("a", 0))
  <2>1. /\ Writes!About("a", 0) \in Wishes
        /\ \A x \in Writes!Settings : Writes!About("a", 0)[x] # Writes!Free /\ wrote[x] = k.id => Writes!Settles(x, Writes!About("a", 0)[x])
    BY <1>4, WritesNothing, WritesMembers
  <2>2. PICK w \in Wishes : w = Writes!About("a", 0)
    BY <2>1
  <2> QED BY <1>1, <1>2, <1>4, <1>5, <1>6, <2>1, <2>2, NotifyEnd DEF Writes!End, Writes!Notify
<1>7. CASE Writes!End(c) /\ Writes!Quietly
  BY <1>1, <1>4, <1>5, <1>7, QuietEnd
<1>8. CASE cmd' = [cmd EXCEPT ![c].tries = @ + 1] /\ Writes!Quietly
  <2>1. Around(k.id) /\ Still
    BY <1>4, <1>5, StillAround
  <2>2. Spoken(k.id) /\ failure'.by # k.id /\ notice'.by # k.id
    BY <1>4, <1>8, <2>1, QuietSpoken DEF Writes!Quietly
  <2>3. Turned(c, To(k, "unconfirm", k.tries + 1, k.bad))
    BY <1>1, <1>4, <1>8, TurnsTo, WritesMembers
  <2>4. Now(k.id, "a", 0)
    BY <1>4, <2>1, WritesMembers DEF Still, Now
  <2>5. Course(c)'
    BY <1>2, <1>4, <2>3, <2>4, CourseOfSingle
  <2> QED BY <1>1, <1>4, <2>1, <2>2, <2>3, <2>5, Onwards, WritesMembers
<1> QED BY <1>3, <1>6, <1>7, <1>8 DEF Writes!Again

-----------------------------------------------------------------------------
(* A range, and a pause                                                    *)

LEMMA ReportEnd ==
  ASSUME WritesInv, NEW c, NEW k, Going(c, k), cmd' = [cmd EXCEPT ![c] = Writes!NoCmd],
         Around(k.id),
         notice' = Writes!Silent, NEW u \in Wishes, failure' = [ must |-> u, by |-> k.id ],
         \A x \in Writes!Settings : u[x] # Writes!Free => Now(k.id, x, u[x])
  PROVE  WritesInv'
<1>1. Spoken(k.id)
  BY GoingFacts, ReportSpoken
<1> QED BY <1>1, CommandEnded

LEMMA NothingEnd ==
  ASSUME WritesInv, NEW c, NEW k, Going(c, k), cmd' = [cmd EXCEPT ![c] = Writes!NoCmd],
         Around(k.id),
         notice' = Writes!Silent, failure' = [ must |-> Writes!Nothing, by |-> k.id ]
  PROVE  WritesInv'
<1>1. PICK u \in Wishes : u = Writes!Nothing
  BY WritesNothing
<1>2. \A x \in Writes!Settings : u[x] = Writes!Free
  BY <1>1, WritesNothing
<1> QED BY <1>1, <1>2, ReportEnd

(* What is said of the one setting that was just written.                  *)
LEMMA AboutSpoken ==
  ASSUME WritesInv, NEW c, NEW k, Going(c, k), NEW x \in Writes!Settings, NEW v \in Levels,
         Around(k.id), Sent(k.id, x, v, TRUE),
         notice' = [ must |-> Writes!About(x, v), by |-> k.id ], failure' = Writes!Silent \/ failure' = failure
  PROVE  Spoken(k.id) /\ failure'.by # k.id
<1>1. Now(k.id, x, v)
  BY DEF Sent
<1>2. PICK w \in Wishes : w = Writes!About(x, v)
  BY WritesNothing
<1>3. w[x] = v /\ \A y \in Writes!Settings : y # x => w[y] = Writes!Free
  BY <1>2, WritesNothing
<1>4. \A y \in Writes!Settings : w[y] # Writes!Free => Now(k.id, y, w[y])
  BY <1>1, <1>3
<1> QED BY <1>2, <1>4, GoingFacts, NotifySpoken

LEMMA RangeFacts ==
  ASSUME WritesInv, NEW c, NEW k, Going(c, k), k.kind = "range"
  PROVE  /\ k.want["a"] = 0 /\ k.want["b"] = 0
         /\ k.step = "write2" => (wrote["a"] = k.id => Writes!Settles("a", 0)) /\ wrote["b"] # k.id
         /\ k.step = "confirm" => \A x \in Writes!Settings : wrote[x] = k.id => Writes!Settles(x, 0)
<1>1. c \in Writes!Slots /\ cmd[c] = k
  BY DEF Going
<1>2. OfRange(c)
  BY <1>1 DEF WritesInv, Course
<1> QED BY <1>1, <1>2, WritesMembers DEF OfRange, Holds, Unwritten

LEMMA RangeWriteKeeps ==
  ASSUME WritesInv, NEW c \in Writes!Slots, NEW step, NEW x, NEW next,
         \/ step = "write" /\ x = "a" /\ next = "write2"
         \/ step = "write2" /\ x = "b" /\ next = "confirm",
         Writes!RangeWrite(c, step, x, next)
  PROVE  WritesInv'
<1>0. step # "idle" /\ Writes!At(c, {"range"}, step)
  BY DEF Writes!RangeWrite
<1>1. PICK k \in Commands : Going(c, k) /\ k.kind = "range" /\ k.step = step
  BY <1>0, AtGoing
<1>2. cmd[c] = k /\ x \in Writes!Settings /\ next \in Points /\ 0 \in Levels /\ next \notin {"write", "submit", "refresh"}
  BY <1>1, WritesMembers DEF Going
<1>3. PICK ok \in BOOLEAN :
        /\ Writes!Post(c, x, 0, ok)
        /\ cmd' = [cmd EXCEPT ![c].step = next, ![c].bad = @ \/ ~ok]
        /\ IF ok THEN Writes!Notify(c, Writes!About(x, 0)) /\ shown' \in {shown, unitval}
                 ELSE notice' = Writes!Silent /\ UNCHANGED <<shown, failure>>
  BY DEF Writes!RangeWrite
<1>4. shown' \in Wishes
  BY <1>1, <1>3, GoingFacts
<1>5. Around(k.id) /\ Sent(k.id, x, 0, ok)
  BY <1>1, <1>2, <1>3, <1>4, GoingFacts, PostAround
<1>6. Spoken(k.id) /\ failure'.by # k.id
  <2>1. CASE ok
    BY <1>1, <1>2, <1>3, <1>5, <2>1, AboutSpoken DEF Writes!Notify
  <2>2. CASE ~ok
    BY <1>1, <1>3, <1>5, <2>2, GoingFacts, SilentSpoken
  <2> QED BY <2>1, <2>2
<1>7. PICK b \in BOOLEAN : b = (k.bad \/ ~ok) /\ Turned(c, To(k, next, k.tries, b))
  <2>1. PICK n \in BOOLEAN : n = ~ok
    OBVIOUS
  <2>2. cmd' = [cmd EXCEPT ![c].step = next, ![c].bad = @ \/ n]
    BY <1>3, <2>1
  <2>3. Turned(c, To(k, next, k.tries, k.bad \/ n))
    BY <1>1, <1>2, <2>2, GoingFacts, TurnsTo
  <2> QED BY <2>1, <2>3
<1>8. Course(c)'
  <2>1. Now(k.id, x, 0)
    BY <1>1, <1>2, <1>5, GoingFacts, RangeFacts DEF Sent
  <2>2. next = "confirm" => Now(k.id, "a", 0)
    BY <1>1, <1>2, <1>5, RangeFacts, WritesMembers DEF Sent, Now
  <2>3. next = "write2" => wrote'["b"] # k.id
    BY <1>1, <1>2, <1>5, GoingFacts, WritesMembers DEF Sent
  <2> QED BY <1>1, <1>2, <1>7, <2>1, <2>2, <2>3, RangeFacts, CourseOfRange
<1> QED BY <1>1, <1>2, <1>5, <1>6, <1>7, <1>8, GoingFacts, Onwards DEF Writes!Single, Writes!Plain,
           Writes!AtOnce, Writes!Confirmed

LEMMA RangeConfirmsKeep ==
  ASSUME WritesInv, NEW c \in Writes!Slots, Writes!RangeConfirms(c) PROVE WritesInv'
<1>1. PICK k \in Commands : Going(c, k) /\ k.kind = "range" /\ k.step = "confirm"
  BY AtGoing DEF Writes!RangeConfirms
<1>2. cmd[c] = k
  BY <1>1 DEF Going
<1>3. /\ shown' \in Wishes /\ UNCHANGED <<unitval, inbox, wrote, moves>>
      /\ cmd' = [cmd EXCEPT ![c] = Writes!NoCmd]
  BY <1>1, GoingFacts DEF Writes!RangeConfirms, Writes!Refresh
<1>4. CASE Writes!Notify(c, k.want)
  <2>1. \A x \in Writes!Settings : k.want[x] = 0 /\ (wrote[x] = k.id => Writes!Settles(x, 0))
    BY <1>1, RangeFacts, WritesMembers
  <2>2. \A x \in Writes!Settings : k.want[x] # Writes!Free /\ wrote[x] = k.id => Writes!Settles(x, k.want[x])
    BY <2>1
  <2>3. notice' = [ must |-> k.want, by |-> k.id ] /\ failure' = failure /\ k.want \in Wishes
    BY <1>1, <1>2, <1>4, GoingFacts DEF Writes!Notify
  <2> QED BY <1>1, <1>3, <2>2, <2>3, NotifyEnd
<1>5. CASE Writes!Report(c, Writes!Nothing)
  <2>1. Around(k.id)
    BY <1>1, <1>3, GoingFacts, StillAround
  <2> QED BY <1>1, <1>2, <1>3, <1>5, <2>1, NothingEnd DEF Writes!Report
<1> QED BY <1>2, <1>4, <1>5 DEF Writes!RangeConfirms, Writes!Want

LEMMA PauseFacts ==
  ASSUME WritesInv, NEW c, NEW k, Going(c, k), k.kind = "pause"
  PROVE  /\ k.want["a"] = 0
         /\ k.step = "write2" => (wrote["b"] = k.id => Writes!Settles("b", k.want["b"]))
<1>1. c \in Writes!Slots /\ cmd[c] = k
  BY DEF Going
<1>2. OfPause(c)
  BY <1>1 DEF WritesInv, Course
<1> QED BY <1>1, <1>2 DEF OfPause, Holds

LEMMA PauseEndKeeps == ASSUME WritesInv, NEW c \in Writes!Slots, Writes!PauseEnd(c) PROVE WritesInv'
<1>1. PICK k \in Commands : Going(c, k) /\ k.kind = "pause" /\ k.step = "write"
  BY AtGoing DEF Writes!PauseEnd
<1>2. cmd[c] = k
  BY <1>1 DEF Going
<1>3. PICK ok \in BOOLEAN :
        /\ Writes!Post(c, "b", k.want["b"], ok)
        /\ IF ok THEN Writes!Go(c, "write2") /\ shown' = [shown EXCEPT !["b"] = k.want["b"]]
                 ELSE Writes!End(c) /\ UNCHANGED shown
  BY <1>2 DEF Writes!PauseEnd, Writes!Want
<1>4. shown' \in Wishes /\ Writes!Quietly
  BY <1>1, <1>3, GoingFacts, WritesMembers DEF Writes!PauseEnd, Wishes
<1>5. /\ Around(k.id) /\ Sent(k.id, "b", k.want["b"], ok) /\ Spoken(k.id)
      /\ notice'.by # k.id /\ failure'.by # k.id
      /\ Writes!End(c) => WritesInv'
  BY <1>1, <1>3, <1>4, GoingFacts, QuietPost, WritesMembers
<1>6. CASE ok
  <2>1. Turned(c, To(k, "write2", 0, k.bad))
    BY <1>1, <1>3, <1>6, GoingFacts, TurnsTo, WritesMembers DEF Writes!Go
  <2>2. Course(c)'
    BY <1>1, <1>5, <1>6, <2>1, PauseFacts, CourseOfPause DEF Sent
  <2> QED BY <1>1, <1>5, <2>1, <2>2, GoingFacts, Onwards, WritesMembers
<1>7. CASE ~ok
  BY <1>3, <1>5, <1>7
<1> QED BY <1>6, <1>7

LEMMA PauseSwitchKeeps ==
  ASSUME WritesInv, NEW c \in Writes!Slots, Writes!PauseSwitch(c) PROVE WritesInv'
<1>1. PICK k \in Commands : Going(c, k) /\ k.kind = "pause" /\ k.step = "write2"
  BY AtGoing DEF Writes!PauseSwitch
<1>2. cmd[c] = k
  BY <1>1 DEF Going
<1>3. PICK ok \in BOOLEAN :
        /\ Writes!Post(c, "a", 0, ok)
        /\ IF ok THEN Writes!Go(c, "refresh") /\ shown' = [shown EXCEPT !["a"] = 0] /\ Writes!Notify(c, k.want)
           ELSE /\ IF k.want["b"] # 0 THEN Writes!Go(c, "undo") ELSE Writes!End(c)
                /\ Writes!Quietly /\ UNCHANGED shown
  BY <1>2 DEF Writes!PauseSwitch, Writes!Want
<1>4. shown' \in Wishes
  BY <1>1, <1>3, GoingFacts, WritesMembers DEF Wishes
<1>5. CASE ok
  <2>1. Around(k.id) /\ Sent(k.id, "a", 0, ok)
    BY <1>1, <1>2, <1>3, <1>4, GoingFacts, PostAround, WritesMembers
  <2>2. Spoken(k.id) /\ failure'.by # k.id
    <3>1. Now(k.id, "a", 0) /\ Now(k.id, "b", k.want["b"])
      BY <1>1, <1>5, <2>1, GoingFacts, PauseFacts, WritesMembers DEF Sent, Now
    <3>2. \A x \in Writes!Settings : k.want[x] # Writes!Free => Now(k.id, x, k.want[x])
      BY <1>1, <3>1, PauseFacts, WritesMembers
    <3> QED BY <1>1, <1>2, <1>3, <1>5, <2>1, <3>2, GoingFacts, NotifySpoken DEF Writes!Notify
  <2>3. Turned(c, To(k, "refresh", 0, k.bad))
    BY <1>1, <1>3, <1>5, GoingFacts, TurnsTo, WritesMembers DEF Writes!Go
  <2>4. Course(c)'
    BY <1>1, <2>3, PauseFacts, CourseOfPause
  <2> QED BY <1>1, <2>1, <2>2, <2>3, <2>4, GoingFacts, Onwards, WritesMembers
<1>6. CASE ~ok
  <2>1. /\ Around(k.id) /\ Spoken(k.id) /\ notice'.by # k.id /\ failure'.by # k.id
        /\ Writes!End(c) => WritesInv'
    BY <1>1, <1>3, <1>4, <1>6, QuietPost, WritesMembers
  <2>2. CASE Writes!Go(c, "undo")
    <3>1. Turned(c, To(k, "undo", 0, k.bad))
      BY <1>1, <2>2, GoingFacts, TurnsTo, WritesMembers DEF Writes!Go
    <3>2. Course(c)'
      BY <1>1, <3>1, PauseFacts, CourseOfPause
    <3> QED BY <1>1, <2>1, <3>1, <3>2, GoingFacts, Onwards, WritesMembers
  <2> QED BY <1>3, <1>6, <2>1, <2>2
<1> QED BY <1>5, <1>6

LEMMA PauseRollbackKeeps ==
  ASSUME WritesInv, NEW c \in Writes!Slots, Writes!PauseRollback(c) PROVE WritesInv'
<1>1. PICK k \in Commands : Going(c, k) /\ k.kind = "pause" /\ k.step = "undo"
  BY AtGoing DEF Writes!PauseRollback
<1>2. PICK ok \in BOOLEAN :
        Writes!Post(c, "b", 0, ok) /\ shown' = IF ok THEN [shown EXCEPT !["b"] = 0] ELSE shown
  BY DEF Writes!PauseRollback
<1>3. shown' \in Wishes /\ Writes!Quietly /\ Writes!End(c)
  BY <1>1, <1>2, GoingFacts, WritesMembers DEF Writes!PauseRollback, Wishes
<1> QED BY <1>1, <1>2, <1>3, QuietPost, WritesMembers

-----------------------------------------------------------------------------
(* A strategy                                                              *)

LEMMA StrategyFacts ==
  ASSUME WritesInv, NEW c, NEW k, Going(c, k), k.kind = "strategy"
  PROVE  /\ k.step \in {"verify", "write2"} => wrote["b"] # k.id
         /\ k.step = "verify2" => (wrote["b"] = k.id => Writes!Settles("b", k.want["b"]))
         /\ k.step = "unverify" => (wrote["b"] = k.id => Writes!Settles("b", k.prev["b"]))
         /\ k.step \in {"undo2", "unverify2"} /\ ~k.bad => (wrote["b"] = k.id => Writes!Settles("b", k.prev["b"]))
         /\ k.step = "unverify2" => (wrote["a"] = k.id => Writes!Settles("a", k.prev["a"]))
<1>1. c \in Writes!Slots /\ cmd[c] = k
  BY DEF Going
<1>2. OfStrategy(c)
  BY <1>1 DEF WritesInv, Course
<1> QED BY <1>1, <1>2 DEF OfStrategy, Holds, Unwritten

(* A commit that is answered, and one that is not.                         *)
LEMMA CommitOk ==
  ASSUME WritesInv, NEW c \in Writes!Slots, NEW k, Going(c, k), k.kind = "strategy",
         NEW x \in Writes!Settings, NEW v \in Levels, Writes!Post(c, x, v, TRUE),
         shown' \in {[shown EXCEPT ![x] = v], unitval}, Writes!Notify(c, Writes!About(x, v)),
         NEW next \in Points, next \notin {"write", "submit"}, cmd' = [cmd EXCEPT ![c].step = next]
  PROVE  /\ Around(k.id) /\ Sent(k.id, x, v, TRUE) /\ Turned(c, To(k, next, k.tries, k.bad))
         /\ Course(c)' => WritesInv'
<1>1. shown' \in Wishes /\ cmd[c] = k
  BY GoingFacts DEF Wishes, Going
<1>2. Around(k.id) /\ Sent(k.id, x, v, TRUE)
  BY <1>1, GoingFacts, PostAround
<1>3. Spoken(k.id) /\ failure'.by # k.id
  BY <1>1, <1>2, AboutSpoken DEF Writes!Notify
<1>4. Turned(c, To(k, next, k.tries, k.bad))
  BY GoingFacts, TurnsTo
<1>5. ASSUME Course(c)' PROVE WritesInv'
  BY <1>2, <1>3, <1>4, <1>5, GoingFacts, Onwards DEF Writes!Single, Writes!Plain, Writes!AtOnce,
     Writes!Confirmed
<1> QED BY <1>2, <1>4, <1>5

LEMMA OnwardKeeps ==
  ASSUME WritesInv, NEW c \in Writes!Slots, NEW k, Going(c, k), k.kind = "strategy", Around(k.id),
         NEW s \in Points, s \notin {"write", "submit"}, NEW bad \in BOOLEAN, Writes!Onward(c, s, bad)
  PROVE  /\ \E b \in BOOLEAN : b = (k.bad \/ bad) /\ Turned(c, To(k, s, k.tries, b))
         /\ Course(c)' => WritesInv'
<1>1. PICK b \in BOOLEAN : b = (k.bad \/ bad) /\ Turned(c, To(k, s, k.tries, b))
  <2>1. Turned(c, To(k, s, k.tries, k.bad \/ bad))
    BY GoingFacts, TurnsTo DEF Writes!Onward
  <2> QED BY <2>1
<1>2. Spoken(k.id) /\ failure'.by # k.id
  BY GoingFacts, SilentSpoken DEF Writes!Onward
<1>3. ASSUME Course(c)' PROVE WritesInv'
  <2> QED BY <1>1, <1>2, <1>3, GoingFacts, Onwards DEF Writes!Single, Writes!Plain, Writes!AtOnce,
             Writes!Confirmed
<1> QED BY <1>1, <1>3

LEMMA GiveUpKeeps ==
  ASSUME WritesInv, NEW c \in Writes!Slots, NEW k, Going(c, k), Around(k.id), Writes!GiveUp(c)
  PROVE  WritesInv'
BY NothingEnd DEF Writes!GiveUp, Writes!Report, Writes!End, Going

(* To the last undo, when heating enable was not written or is as it was.  *)
LEMMA ToUndo2 ==
  ASSUME WritesInv, NEW c \in Writes!Slots, NEW k, Going(c, k), k.kind = "strategy", Around(k.id),
         NEW bad \in BOOLEAN, Writes!Onward(c, "undo2", bad), bad \/ k.bad \/ Now(k.id, "b", k.prev["b"])
  PROVE  WritesInv'
<1>1. "undo2" \in Points
  BY WritesMembers
<1>2. PICK b \in BOOLEAN : b = (k.bad \/ bad) /\ Turned(c, To(k, "undo2", k.tries, b))
  BY <1>1, OnwardKeeps
<1>3. ~b => Now(k.id, "b", k.prev["b"])
  BY <1>2
<1>4. Course(c)'
  BY <1>2, <1>3, CourseOfStrategy
<1> QED BY <1>1, <1>4, OnwardKeeps

LEMMA UndoBothKeeps ==
  ASSUME WritesInv, NEW c \in Writes!Slots, NEW k, Going(c, k), k.kind = "strategy", Around(k.id),
         Writes!UndoBoth(c), Now(k.id, "b", k.want["b"])
  PROVE  WritesInv'
<1>1. cmd[c] = k /\ "undo" \in Points /\ FALSE \in BOOLEAN
  BY WritesMembers DEF Going
<1>2. CASE k.prev["b"] = k.want["b"]
  <2>1. Writes!Onward(c, "undo2", FALSE)
    BY <1>1, <1>2 DEF Writes!UndoBoth, Writes!Prev, Writes!Want
  <2> QED BY <1>1, <1>2, <2>1, ToUndo2
<1>3. CASE k.prev["b"] # k.want["b"]
  <2>1. Writes!Onward(c, "undo", FALSE)
    BY <1>1, <1>3 DEF Writes!UndoBoth, Writes!Prev, Writes!Want
  <2>2. PICK b \in BOOLEAN : Turned(c, To(k, "undo", k.tries, b))
    BY <1>1, <2>1, OnwardKeeps
  <2>3. Course(c)'
    BY <2>2, CourseOfStrategy
  <2> QED BY <1>1, <2>1, <2>3, OnwardKeeps
<1> QED BY <1>2, <1>3

LEMMA StrategyWrites ==
  ASSUME WritesInv, NEW c \in Writes!Slots,
         \/ Writes!Commit(c, "write", "a", Writes!Want(c)["a"], "verify", Writes!Onward(c, "undo2", FALSE))
         \/ Writes!Commit(c, "write2", "b", Writes!Want(c)["b"], "verify2", Writes!UndoBoth(c))
  PROVE  WritesInv'
<1>1. CASE Writes!Commit(c, "write", "a", Writes!Want(c)["a"], "verify", Writes!Onward(c, "undo2", FALSE))
  <2>0. Writes!At(c, {"strategy"}, "write")
    BY <1>1 DEF Writes!Commit
  <2>1. PICK k \in Commands : Going(c, k) /\ k.kind = "strategy" /\ k.step = "write"
    BY <2>0, AtGoing
  <2>2. cmd[c] = k
    BY <2>1 DEF Going
  <2>3. PICK ok \in BOOLEAN :
          /\ Writes!Post(c, "a", k.want["a"], ok)
          /\ IF ok
             THEN /\ shown' \in {[shown EXCEPT !["a"] = k.want["a"]], unitval}
                  /\ Writes!Notify(c, Writes!About("a", k.want["a"]))
                  /\ cmd' = [cmd EXCEPT ![c].step = "verify"]
             ELSE /\ shown' = [shown EXCEPT !["a"] = k.prev["a"]]
                  /\ Writes!Onward(c, "undo2", FALSE)
    BY <1>1, <2>2 DEF Writes!Commit, Writes!Want, Writes!Prev
  <2>4. wrote["a"] # k.id /\ wrote["b"] # k.id /\ k.want["a"] \in Levels
    BY <2>1, GoingFacts, WritesMembers
  <2>5. CASE ok
    <3>1. /\ Sent(k.id, "a", k.want["a"], TRUE) /\ Turned(c, To(k, "verify", k.tries, k.bad))
          /\ Course(c)' => WritesInv'
      BY <2>1, <2>3, <2>4, <2>5, CommitOk, WritesMembers
    <3>2. Course(c)'
      BY <2>1, <2>4, <3>1, CourseOfStrategy, WritesMembers DEF Sent
    <3> QED BY <3>1, <3>2
  <2>6. CASE ~ok
    <3>1. shown' \in Wishes
      BY <2>1, <2>3, <2>6, GoingFacts, WritesMembers DEF Wishes
    <3>2. Around(k.id) /\ Sent(k.id, "a", k.want["a"], ok)
      BY <2>1, <2>2, <2>3, <2>4, <3>1, GoingFacts, PostAround, WritesMembers
    <3>3. Now(k.id, "b", k.prev["b"])
      BY <2>4, <3>2, WritesMembers DEF Sent, Now
    <3> QED BY <2>1, <2>3, <2>6, <3>2, <3>3, ToUndo2
  <2> QED BY <2>5, <2>6
<1>2. CASE Writes!Commit(c, "write2", "b", Writes!Want(c)["b"], "verify2", Writes!UndoBoth(c))
  <2>0. Writes!At(c, {"strategy"}, "write2")
    BY <1>2 DEF Writes!Commit
  <2>1. PICK k \in Commands : Going(c, k) /\ k.kind = "strategy" /\ k.step = "write2"
    BY <2>0, AtGoing
  <2>2. cmd[c] = k
    BY <2>1 DEF Going
  <2>3. PICK ok \in BOOLEAN :
          /\ Writes!Post(c, "b", k.want["b"], ok)
          /\ IF ok
             THEN /\ shown' \in {[shown EXCEPT !["b"] = k.want["b"]], unitval}
                  /\ Writes!Notify(c, Writes!About("b", k.want["b"]))
                  /\ cmd' = [cmd EXCEPT ![c].step = "verify2"]
             ELSE /\ shown' = shown
                  /\ Writes!UndoBoth(c)
    BY <1>2, <2>2 DEF Writes!Commit, Writes!Want
  <2>4. wrote["b"] # k.id /\ k.want["b"] \in Levels
    BY <2>1, GoingFacts, StrategyFacts, WritesMembers
  <2>5. CASE ok
    <3>1. /\ Sent(k.id, "b", k.want["b"], TRUE) /\ Turned(c, To(k, "verify2", k.tries, k.bad))
          /\ Course(c)' => WritesInv'
      BY <2>1, <2>3, <2>4, <2>5, CommitOk, WritesMembers
    <3>2. Course(c)'
      BY <2>1, <3>1, CourseOfStrategy DEF Sent
    <3> QED BY <3>1, <3>2
  <2>6. CASE ~ok
    <3>1. Around(k.id) /\ Sent(k.id, "b", k.want["b"], ok)
      BY <2>1, <2>2, <2>3, <2>4, <2>6, GoingFacts, PostAround, WritesMembers
    <3>2. Now(k.id, "b", k.want["b"])
      BY <2>4, <3>1 DEF Sent
    <3> QED BY <2>1, <2>3, <2>6, <3>1, <3>2, UndoBothKeeps
  <2> QED BY <2>5, <2>6
<1> QED BY <1>1, <1>2

LEMMA StrategyUndoes ==
  ASSUME WritesInv, NEW c \in Writes!Slots,
         \/ Writes!Commit(c, "undo", "b", Writes!Prev(c)["b"], "unverify", Writes!Onward(c, "undo2", TRUE))
         \/ Writes!Commit(c, "undo2", "a", Writes!Prev(c)["a"], "unverify2", Writes!GiveUp(c))
  PROVE  WritesInv'
<1>1. CASE Writes!Commit(c, "undo", "b", Writes!Prev(c)["b"], "unverify", Writes!Onward(c, "undo2", TRUE))
  <2>0. Writes!At(c, {"strategy"}, "undo")
    BY <1>1 DEF Writes!Commit
  <2>1. PICK k \in Commands : Going(c, k) /\ k.kind = "strategy" /\ k.step = "undo"
    BY <2>0, AtGoing
  <2>2. cmd[c] = k /\ k.prev["b"] \in Levels
    BY <2>1, GoingFacts, WritesMembers DEF Going
  <2>3. PICK ok \in BOOLEAN :
          /\ Writes!Post(c, "b", k.prev["b"], ok)
          /\ IF ok
             THEN /\ shown' \in {[shown EXCEPT !["b"] = k.prev["b"]], unitval}
                  /\ Writes!Notify(c, Writes!About("b", k.prev["b"]))
                  /\ cmd' = [cmd EXCEPT ![c].step = "unverify"]
             ELSE /\ shown' = shown
                  /\ Writes!Onward(c, "undo2", TRUE)
    BY <1>1, <2>2 DEF Writes!Commit, Writes!Prev
  <2>4. CASE ok
    <3>1. /\ Sent(k.id, "b", k.prev["b"], TRUE) /\ Turned(c, To(k, "unverify", k.tries, k.bad))
          /\ Course(c)' => WritesInv'
      BY <2>1, <2>2, <2>3, <2>4, CommitOk, WritesMembers
    <3>2. Course(c)'
      BY <2>1, <3>1, CourseOfStrategy DEF Sent
    <3> QED BY <3>1, <3>2
  <2>5. CASE ~ok
    <3>1. Around(k.id)
      BY <2>1, <2>2, <2>3, <2>5, GoingFacts, PostAround, WritesMembers
    <3> QED BY <2>1, <2>3, <2>5, <3>1, ToUndo2
  <2> QED BY <2>4, <2>5
<1>2. CASE Writes!Commit(c, "undo2", "a", Writes!Prev(c)["a"], "unverify2", Writes!GiveUp(c))
  <2>0. Writes!At(c, {"strategy"}, "undo2")
    BY <1>2 DEF Writes!Commit
  <2>1. PICK k \in Commands : Going(c, k) /\ k.kind = "strategy" /\ k.step = "undo2"
    BY <2>0, AtGoing
  <2>2. cmd[c] = k /\ k.prev["a"] \in Levels /\ k.prev["b"] \in Levels
    BY <2>1, GoingFacts, WritesMembers DEF Going
  <2>3. PICK ok \in BOOLEAN :
          /\ Writes!Post(c, "a", k.prev["a"], ok)
          /\ IF ok
             THEN /\ shown' \in {[shown EXCEPT !["a"] = k.prev["a"]], unitval}
                  /\ Writes!Notify(c, Writes!About("a", k.prev["a"]))
                  /\ cmd' = [cmd EXCEPT ![c].step = "unverify2"]
             ELSE /\ shown' = shown
                  /\ Writes!GiveUp(c)
    BY <1>2, <2>2 DEF Writes!Commit, Writes!Prev
  <2>4. CASE ok
    <3>1. /\ Sent(k.id, "a", k.prev["a"], TRUE) /\ Turned(c, To(k, "unverify2", k.tries, k.bad))
          /\ Course(c)' => WritesInv'
      BY <2>1, <2>2, <2>3, <2>4, CommitOk, WritesMembers
    <3>2. Now(k.id, "a", k.prev["a"]) /\ (~k.bad => Now(k.id, "b", k.prev["b"]))
      BY <2>1, <2>2, <3>1, StrategyFacts, WritesMembers DEF Sent, Now
    <3>3. Course(c)'
      BY <2>1, <3>1, <3>2, CourseOfStrategy
    <3> QED BY <3>1, <3>3
  <2>5. CASE ~ok
    <3>1. Around(k.id)
      BY <2>1, <2>2, <2>3, <2>5, GoingFacts, PostAround, WritesMembers
    <3> QED BY <2>1, <2>3, <2>5, <3>1, GiveUpKeeps
  <2> QED BY <2>4, <2>5
<1> QED BY <1>1, <1>2

LEMMA StrategyVerifies ==
  ASSUME WritesInv, NEW c \in Writes!Slots,
         \/ Writes!Verify(c, "verify", "a", Writes!Want(c)["a"], Writes!StrategyTaken(c), Writes!Onward(c, "undo2", FALSE))
         \/ Writes!Verify(c, "verify2", "b", Writes!Want(c)["b"], Writes!End(c) /\ Writes!Quietly, Writes!UndoBoth(c))
         \/ Writes!Verify(c, "unverify", "b", Writes!Prev(c)["b"], Writes!Onward(c, "undo2", FALSE), Writes!Onward(c, "undo2", TRUE))
         \/ Writes!Verify(c, "unverify2", "a", Writes!Prev(c)["a"], Writes!Restored(c), Writes!GiveUp(c))
  PROVE  WritesInv'
<1>0. /\ UNCHANGED <<unitval, inbox, shown, wrote, moves>>
      /\ \/ Writes!At(c, {"strategy"}, "verify") /\ (Writes!StrategyTaken(c) \/ Writes!Onward(c, "undo2", FALSE))
         \/ Writes!At(c, {"strategy"}, "verify2") /\ ((Writes!End(c) /\ Writes!Quietly) \/ Writes!UndoBoth(c))
         \/ Writes!At(c, {"strategy"}, "unverify") /\ (Writes!Onward(c, "undo2", FALSE) \/ Writes!Onward(c, "undo2", TRUE))
         \/ Writes!At(c, {"strategy"}, "unverify2") /\ (Writes!Restored(c) \/ Writes!GiveUp(c))
  BY DEF Writes!Verify
<1>1. PICK k \in Commands : cmd[c] = k
  BY DEF WritesInv, WritesShape
<1>2. Going(c, k) /\ k.kind = "strategy"
  BY <1>0, <1>1 DEF Writes!At, Going
<1>3. Around(k.id) /\ Still /\ shown' \in Wishes
  BY <1>0, <1>2, GoingFacts, StillAround
<1>4. \A x \in Writes!Settings, v \in Levels : (wrote[x] = k.id => Writes!Settles(x, v)) => Now(k.id, x, v)
  BY <1>3 DEF Still, Now
<1>5. k.want["b"] \in Levels /\ k.prev["b"] \in Levels /\ k.prev["a"] \in Levels
  BY <1>2, GoingFacts, WritesMembers
<1>6. ASSUME Writes!End(c), Writes!Quietly PROVE WritesInv'
  BY <1>0, <1>2, <1>3, <1>6, QuietEnd
<1>7. CASE Writes!At(c, {"strategy"}, "verify") /\ (Writes!StrategyTaken(c) \/ Writes!Onward(c, "undo2", FALSE))
  <2>1. k.step = "verify" /\ wrote["b"] # k.id
    BY <1>1, <1>2, <1>7, StrategyFacts DEF Writes!At
  <2>2. Now(k.id, "b", k.prev["b"]) /\ wrote'["b"] # k.id
    BY <1>3, <2>1 DEF Still, Now
  <2>3. CASE Writes!Onward(c, "undo2", FALSE)
    BY <1>2, <1>3, <2>2, <2>3, ToUndo2
  <2>4. CASE Writes!Onward(c, "write2", FALSE)
    <3>1. "write2" \in Points
      BY WritesMembers
    <3>2. PICK b \in BOOLEAN : Turned(c, To(k, "write2", k.tries, b))
      BY <1>2, <1>3, <2>4, <3>1, OnwardKeeps
    <3>3. Course(c)'
      BY <1>2, <2>2, <3>2, CourseOfStrategy
    <3> QED BY <1>2, <1>3, <2>4, <3>1, <3>3, OnwardKeeps
  <2> QED BY <1>6, <1>7, <2>3, <2>4 DEF Writes!StrategyTaken
<1>8. CASE Writes!At(c, {"strategy"}, "verify2") /\ ((Writes!End(c) /\ Writes!Quietly) \/ Writes!UndoBoth(c))
  <2>1. k.step = "verify2"
    BY <1>1, <1>8 DEF Writes!At
  <2>2. Now(k.id, "b", k.want["b"])
    BY <1>2, <1>4, <1>5, <2>1, StrategyFacts, WritesMembers
  <2> QED BY <1>2, <1>3, <1>6, <1>8, <2>2, UndoBothKeeps
<1>9. CASE Writes!At(c, {"strategy"}, "unverify") /\ (Writes!Onward(c, "undo2", FALSE) \/ Writes!Onward(c, "undo2", TRUE))
  <2>1. k.step = "unverify"
    BY <1>1, <1>9 DEF Writes!At
  <2>2. Now(k.id, "b", k.prev["b"])
    BY <1>2, <1>4, <1>5, <2>1, StrategyFacts, WritesMembers
  <2> QED BY <1>2, <1>3, <1>9, <2>2, ToUndo2
<1>10. CASE Writes!At(c, {"strategy"}, "unverify2") /\ (Writes!Restored(c) \/ Writes!GiveUp(c))
  <2>1. k.step = "unverify2"
    BY <1>1, <1>10 DEF Writes!At
  <2>2. CASE Writes!GiveUp(c)
    BY <1>2, <1>3, <2>2, GiveUpKeeps
  <2>3. CASE Writes!Restored(c) /\ ~Writes!GiveUp(c)
    <3>1. ~k.bad /\ Writes!End(c) /\ Writes!Report(c, k.prev)
      BY <1>1, <2>3 DEF Writes!Restored, Writes!GiveUp, Writes!Prev
    <3>2. Now(k.id, "a", k.prev["a"]) /\ Now(k.id, "b", k.prev["b"])
      BY <1>2, <1>4, <1>5, <2>1, <3>1, StrategyFacts, WritesMembers
    <3>3. \A x \in Writes!Settings : k.prev[x] # Writes!Free => Now(k.id, x, k.prev[x])
      BY <3>2, WritesMembers
    <3> QED BY <1>1, <1>2, <1>3, <3>1, <3>3, GoingFacts, ReportEnd DEF Writes!End, Writes!Report
  <2> QED BY <1>10, <2>2, <2>3
<1> QED BY <1>0, <1>7, <1>8, <1>9, <1>10

LEMMA StrategyKeeps == ASSUME WritesInv, NEW c \in Writes!Slots, Writes!Strategy(c) PROVE WritesInv'
BY StrategyWrites, StrategyUndoes, StrategyVerifies DEF Writes!Strategy

-----------------------------------------------------------------------------
(* A curve                                                                 *)

LEMMA CurveFacts ==
  ASSUME WritesInv, NEW c, NEW k, Going(c, k), k.kind = "curve"
  PROVE  /\ k.step = "write2" => (wrote["a"] = k.id => Writes!Settles("a", k.want["a"])) /\ wrote["b"] # k.id
         /\ k.step \in {"confirm", "check"} =>
              /\ wrote["a"] = k.id => Writes!Settles("a", k.want["a"])
              /\ wrote["b"] = k.id => Writes!Settles("b", k.want["b"])
         /\ k.step = "undo2" /\ ~k.bad => (wrote["a"] = k.id => Writes!Settles("a", k.prev["a"]))
<1>1. c \in Writes!Slots /\ cmd[c] = k
  BY DEF Going
<1>2. OfCurve(c)
  BY <1>1 DEF WritesInv, Course
<1> QED BY <1>1, <1>2, WritesMembers DEF OfCurve, Holds, Unwritten

(* A curve is not among the kinds whose silence is kept.                   *)
LEMMA CurveOnwards ==
  ASSUME WritesInv, NEW c \in Writes!Slots, NEW k, Going(c, k), k.kind = "curve", NEW s \in Points,
         s # "submit",
         NEW t \in Nat, NEW b \in BOOLEAN, Turned(c, To(k, s, t, b)), Around(k.id), Spoken(k.id),
         failure'.by # k.id, Course(c)'
  PROVE  WritesInv'
BY GoingFacts, Onwards DEF Writes!Single, Writes!Plain, Writes!AtOnce, Writes!Confirmed

LEMMA CurveSubmitKeeps ==
  ASSUME WritesInv, NEW c \in Writes!Slots, Writes!CurveSubmit(c) PROVE WritesInv'
<1>1. PICK k \in Commands : Going(c, k) /\ k.kind = "curve" /\ k.step = "submit"
  BY AtGoing DEF Writes!CurveSubmit
<1>2. /\ cmd[c] = k /\ k.want["a"] \in Levels /\ k.want["b"] \in Levels /\ shown' \in Wishes
      /\ k.id \in Nat /\ k.id # 0 /\ k.tries \in Nat /\ k.bad \in BOOLEAN /\ WritesShape
      /\ notice' = notice /\ notice.by # k.id /\ failure.by # k.id
      /\ wrote["a"] # k.id /\ wrote["b"] # k.id
  BY <1>1, GoingFacts, WritesMembers DEF Going, Writes!CurveSubmit
<1>3. CASE /\ \E ok \in BOOLEAN : Writes!Posts(c, << <<"a", k.want["a"]>>, <<"b", k.want["b"]>> >>, ok)
           /\ cmd' = [cmd EXCEPT ![c].step = "confirm"]
           /\ UNCHANGED failure
  <2>1. PICK w : w = << <<"a", k.want["a"]>>, <<"b", k.want["b"]>> >>
    OBVIOUS
  <2>2. /\ w \in Seq(Writes!Settings \X Levels) /\ DOMAIN w = {1, 2}
        /\ w[1] = <<"a", k.want["a"]>> /\ w[2] = <<"b", k.want["b"]>>
    BY <1>2, <2>1, WritesMembers
  <2>3. PICK ok \in BOOLEAN : Writes!Posts(c, w, ok)
    BY <1>3, <2>1
  <2>4. LastOf(w, "a", k.want["a"]) /\ LastOf(w, "b", k.want["b"])
    <3>1. w[2][1] # "a"
      BY <2>2
    <3>2. LastOf(w, "a", k.want["a"])
      <4>1. \A j \in DOMAIN w : j > 1 => w[j][1] # "a"
        BY <2>2, <3>1
      <4> QED BY <2>2, <4>1 DEF LastOf
    <3>3. LastOf(w, "b", k.want["b"])
      <4>1. \A j \in DOMAIN w : j > 2 => w[j][1] # "b"
        BY <2>2
      <4> QED BY <2>2, <4>1 DEF LastOf
    <3> QED BY <3>2, <3>3
  <2>5. Around(k.id) /\ Now(k.id, "a", k.want["a"]) /\ Now(k.id, "b", k.want["b"])
    BY <1>2, <2>2, <2>3, <2>4, PostsAround, WritesMembers
  <2>6. Writes!Quietly /\ Spoken(k.id) /\ failure'.by # k.id
    BY <1>2, <1>3, <2>5, QuietSpoken DEF Writes!Quietly
  <2>7. Turned(c, To(k, "confirm", k.tries, k.bad))
    BY <1>1, <1>2, <1>3, TurnsTo, WritesMembers
  <2>8. Course(c)'
    BY <1>1, <2>5, <2>7, CourseOfCurve
  <2> QED BY <1>1, <1>2, <2>5, <2>6, <2>7, <2>8, CurveOnwards, WritesMembers
<1>4. CASE /\ \/ Writes!Leave(c) /\ failure' = Writes!Silent
              \/ cmd' = [cmd EXCEPT ![c].step = "write"] /\ UNCHANGED failure
           /\ UNCHANGED <<unitval, inbox, wrote, moves>>
  <2>1. Around(k.id) /\ Still
    BY <1>2, <1>4, StillAround
  <2>2. CASE Writes!Leave(c) /\ failure' = Writes!Silent
    <3>1. PICK n \in Sayings : notice = n
      BY DEF WritesInv, WritesShape
    <3>2. Writes!True(n)'
      BY <1>2, <2>1, <3>1, SaidStays DEF WritesInv, Writes!NoticeIsTrue
    <3>3. Writes!True(notice)'
      BY <1>2, <3>1, <3>2, SaidAs
    <3>4. Writes!True(failure)'
      <4>1. PICK f \in Sayings : f = Writes!Silent
        BY WritesNothing
      <4>2. Writes!True(f)'
        BY <4>1, WritesNothing DEF Writes!True
      <4> QED BY <2>2, <4>1, <4>2, SaidAs
    <3>5. Spoken(k.id)
      BY <1>2, <2>2, <3>1, <3>3, <3>4, WritesNothing DEF Spoken
    <3> QED BY <1>1, <2>1, <2>2, <3>5, CommandEnded DEF Writes!Leave
  <2>3. CASE cmd' = [cmd EXCEPT ![c].step = "write"] /\ UNCHANGED failure
    <3>1. Writes!Quietly /\ Spoken(k.id) /\ failure'.by # k.id
      BY <1>2, <2>1, <2>3, QuietSpoken DEF Writes!Quietly
    <3>2. Turned(c, To(k, "write", k.tries, k.bad))
      BY <1>1, <1>2, <2>3, TurnsTo, WritesMembers
    <3>3. \A x \in Writes!Settings : wrote'[x] # k.id
      BY <1>2, <1>4, WritesMembers
    <3>4. Course(c)'
      BY <1>1, <3>2, <3>3, CourseOfCurve, WritesMembers
    <3> QED BY <1>1, <1>2, <2>1, <3>1, <3>2, <3>4, CurveOnwards, WritesMembers
  <2> QED BY <1>4, <2>2, <2>3
<1> QED BY <1>2, <1>3, <1>4 DEF Writes!CurveSubmit, Writes!Want

LEMMA CurveConfirmsKeep ==
  ASSUME WritesInv, NEW c \in Writes!Slots, Writes!CurveConfirms(c) PROVE WritesInv'
<1>1. PICK k \in Commands : Going(c, k) /\ k.kind = "curve" /\ k.step = "confirm"
  BY AtGoing DEF Writes!CurveConfirms
<1>2. cmd[c] = k /\ shown' \in Wishes /\ UNCHANGED <<unitval, inbox, wrote, moves>> /\ failure' = failure
  BY <1>1, GoingFacts DEF Writes!CurveConfirms, Writes!Refresh, Going
<1>3. Around(k.id) /\ Still
  BY <1>1, <1>2, GoingFacts, StillAround
<1>4. CASE Writes!Leave(c) /\ notice' = [ must |-> k.want, by |-> k.id ]
  <2>1. \A x \in Writes!Settings : k.want[x] # Writes!Free /\ wrote[x] = k.id => Writes!Settles(x, k.want[x])
    BY <1>1, CurveFacts, WritesMembers
  <2>2. cmd' = [cmd EXCEPT ![c] = Writes!NoCmd] /\ k.want \in Wishes
    BY <1>1, <1>4, GoingFacts DEF Writes!Leave
  <2> QED BY <1>1, <1>2, <1>4, <2>1, <2>2, NotifyEnd
<1>5. ASSUME notice' = notice PROVE Writes!Quietly /\ Spoken(k.id) /\ failure'.by # k.id
  BY <1>1, <1>2, <1>3, <1>5, GoingFacts, QuietSpoken DEF Writes!Quietly
<1>6. CASE Writes!Leave(c) /\ notice' = notice
  BY <1>1, <1>3, <1>5, <1>6, CommandEnded DEF Writes!Leave
<1>7. CASE cmd' = [cmd EXCEPT ![c].tries = @ + 1] /\ notice' = notice
  <2>1. k.tries \in Nat /\ k.tries + 1 \in Nat /\ k.bad \in BOOLEAN
    BY <1>1, GoingFacts
  <2>2. Turned(c, To(k, "confirm", k.tries + 1, k.bad))
    BY <1>1, <1>7, <2>1, GoingFacts, TurnsTo, WritesMembers
  <2>3. Now(k.id, "a", k.want["a"]) /\ Now(k.id, "b", k.want["b"])
    BY <1>1, <1>3, GoingFacts, CurveFacts, WritesMembers DEF Still, Now
  <2>4. Course(c)'
    BY <1>1, <2>2, <2>3, CourseOfCurve
  <2> QED BY <1>1, <1>3, <1>5, <1>7, <2>1, <2>2, <2>4, CurveOnwards, WritesMembers
<1> QED BY <1>2, <1>4, <1>6, <1>7 DEF Writes!CurveConfirms, Writes!Want

LEMMA CurvePointKeeps ==
  ASSUME WritesInv, NEW c \in Writes!Slots, NEW step, NEW x, NEW next,
         \/ step = "write" /\ x = "a" /\ next = "write2"
         \/ step = "write2" /\ x = "b" /\ next = "check",
         Writes!CurvePoint(c, step, x, next)
  PROVE  WritesInv'
<1>0. step # "idle" /\ Writes!At(c, {"curve"}, step)
  BY DEF Writes!CurvePoint
<1>1. PICK k \in Commands : Going(c, k) /\ k.kind = "curve" /\ k.step = step
  BY <1>0, AtGoing
<1>2. /\ cmd[c] = k /\ x \in Writes!Settings /\ next \in Points /\ "undo" \in Points /\ next \notin {"write", "submit"}
      /\ k.want[x] \in Levels /\ k.want["a"] \in Levels
  BY <1>1, GoingFacts, WritesMembers DEF Going
<1>3. /\ wrote[x] # k.id /\ (step = "write" => wrote["b"] # k.id)
      /\ step = "write2" => (wrote["a"] = k.id => Writes!Settles("a", k.want["a"]))
  BY <1>1, GoingFacts, CurveFacts, WritesMembers
<1>4. CASE /\ cmd' = [cmd EXCEPT ![c].step = next]
           /\ Writes!Quietly /\ UNCHANGED <<unitval, inbox, wrote, moves, shown, busy>>
  <2>1. Around(k.id) /\ Still
    BY <1>1, <1>4, GoingFacts, StillAround
  <2>2. Spoken(k.id) /\ failure'.by # k.id
    BY <1>1, <1>4, <2>1, GoingFacts, QuietSpoken DEF Writes!Quietly
  <2>3. Turned(c, To(k, next, k.tries, k.bad))
    BY <1>1, <1>2, <1>4, GoingFacts, TurnsTo
  <2>4. /\ Now(k.id, x, k.want[x]) /\ (next = "write2" => wrote'["b"] # k.id)
        /\ next = "check" => Now(k.id, "a", k.want["a"])
    BY <1>2, <1>3, <2>1, WritesMembers DEF Still, Now
  <2>5. Course(c)'
    BY <1>1, <1>2, <2>3, <2>4, CourseOfCurve
  <2> QED BY <1>1, <1>2, <2>1, <2>2, <2>3, <2>5, GoingFacts, CurveOnwards
<1>5. ASSUME NEW ok \in BOOLEAN,
             Writes!Point(c, x, k.want[x], ok),
             cmd' = [cmd EXCEPT ![c].step = IF ok THEN next ELSE "undo"],
             notice' = IF ok THEN [ must |-> Writes!About(x, k.want[x]), by |-> k.id ] ELSE Writes!Silent,
             failure' = Writes!Silent
      PROVE  WritesInv'
  <2>1. Writes!Post(c, x, k.want[x], ok) /\ shown' \in Wishes
    BY <1>1, <1>5, GoingFacts DEF Writes!Point
  <2>2. Around(k.id) /\ Sent(k.id, x, k.want[x], ok)
    BY <1>1, <1>2, <2>1, GoingFacts, PostAround
  <2>3. CASE ok
    <3>1. Spoken(k.id) /\ failure'.by # k.id
      BY <1>1, <1>2, <1>5, <2>2, <2>3, AboutSpoken
    <3>2. Turned(c, To(k, next, k.tries, k.bad))
      BY <1>1, <1>2, <1>5, <2>3, GoingFacts, TurnsTo
    <3>3. /\ Now(k.id, x, k.want[x]) /\ (next = "write2" => wrote'["b"] # k.id)
          /\ next = "check" => Now(k.id, "a", k.want["a"])
      BY <1>1, <1>2, <1>3, <2>2, WritesMembers DEF Sent, Now
    <3>4. Course(c)'
      BY <1>1, <1>2, <3>2, <3>3, CourseOfCurve
    <3> QED BY <1>1, <1>2, <2>2, <3>1, <3>2, <3>4, GoingFacts, CurveOnwards
  <2>4. CASE ~ok
    <3>1. Spoken(k.id) /\ failure'.by # k.id
      BY <1>1, <1>5, <2>2, <2>4, GoingFacts, SilentSpoken
    <3>2. Turned(c, To(k, "undo", k.tries, k.bad))
      BY <1>1, <1>2, <1>5, <2>4, GoingFacts, TurnsTo
    <3>3. Course(c)'
      BY <1>1, <3>2, CourseOfCurve
    <3> QED BY <1>1, <1>2, <2>2, <3>1, <3>2, <3>3, GoingFacts, CurveOnwards
  <2> QED BY <2>3, <2>4
<1> QED BY <1>2, <1>4, <1>5 DEF Writes!CurvePoint, Writes!Want

LEMMA CurveCheckKeeps ==
  ASSUME WritesInv, NEW c \in Writes!Slots, Writes!CurveCheck(c) PROVE WritesInv'
<1>1. PICK k \in Commands : Going(c, k) /\ k.kind = "curve" /\ k.step = "check"
  BY AtGoing DEF Writes!CurveCheck
<1>2. cmd[c] = k /\ shown' \in Wishes /\ UNCHANGED <<unitval, inbox, wrote, moves>> /\ failure' = failure
  BY <1>1, GoingFacts DEF Writes!CurveCheck, Going
<1>3. CASE Writes!Leave(c) /\ notice' = [ must |-> k.want, by |-> k.id ]
  <2>1. \A x \in Writes!Settings : k.want[x] # Writes!Free /\ wrote[x] = k.id => Writes!Settles(x, k.want[x])
    BY <1>1, CurveFacts, WritesMembers
  <2>2. cmd' = [cmd EXCEPT ![c] = Writes!NoCmd] /\ k.want \in Wishes
    BY <1>1, <1>3, GoingFacts DEF Writes!Leave
  <2> QED BY <1>1, <1>2, <1>3, <2>1, <2>2, NotifyEnd
<1>4. CASE cmd' = [cmd EXCEPT ![c].step = "undo"] /\ notice' = notice
  <2>1. Around(k.id) /\ Still
    BY <1>1, <1>2, GoingFacts, StillAround
  <2>2. Writes!Quietly /\ Spoken(k.id) /\ failure'.by # k.id
    BY <1>1, <1>2, <1>4, <2>1, GoingFacts, QuietSpoken DEF Writes!Quietly
  <2>3. Turned(c, To(k, "undo", k.tries, k.bad))
    BY <1>1, <1>4, GoingFacts, TurnsTo, WritesMembers
  <2>4. Course(c)'
    BY <1>1, <2>3, CourseOfCurve
  <2> QED BY <1>1, <2>1, <2>2, <2>3, <2>4, GoingFacts, CurveOnwards, WritesMembers
<1> QED BY <1>2, <1>3, <1>4 DEF Writes!CurveCheck, Writes!Want

LEMMA CurveUndoKeeps ==
  ASSUME WritesInv, NEW c \in Writes!Slots,
         Writes!CurveUndo(c, "undo", "a", "undo2") \/ Writes!CurveUndo(c, "undo2", "b", "idle")
  PROVE  WritesInv'
<1>1. CASE Writes!CurveUndo(c, "undo", "a", "undo2")
  <2>0. Writes!At(c, {"curve"}, "undo")
    BY <1>1 DEF Writes!CurveUndo
  <2>1. PICK k \in Commands : Going(c, k) /\ k.kind = "curve" /\ k.step = "undo"
    BY <2>0, AtGoing
  <2>2. cmd[c] = k /\ k.prev["a"] \in Levels
    BY <2>1, GoingFacts, WritesMembers DEF Going
  <2>3. PICK ok \in BOOLEAN :
          /\ Writes!Point(c, "a", k.prev["a"], ok)
          /\ cmd' = [cmd EXCEPT ![c].step = "undo2", ![c].bad = ~ok]
          /\ notice' = Writes!Silent /\ failure' = Writes!Silent
    BY <1>1, <2>2 DEF Writes!CurveUndo, Writes!Prev
  <2>4. Writes!Post(c, "a", k.prev["a"], ok) /\ shown' \in Wishes
    BY <2>1, <2>3, GoingFacts DEF Writes!Point
  <2>5. Around(k.id) /\ Sent(k.id, "a", k.prev["a"], ok)
    BY <2>1, <2>2, <2>4, GoingFacts, PostAround, WritesMembers
  <2>6. Spoken(k.id) /\ failure'.by # k.id
    BY <2>1, <2>3, <2>5, GoingFacts, SilentSpoken
  <2>7. PICK b \in BOOLEAN : b = ~ok
    OBVIOUS
  <2>8. Turned(c, To(k, "undo2", k.tries, b))
    BY <2>1, <2>3, <2>7, GoingFacts, TurnsTo, WritesMembers
  <2>9. ~b => Now(k.id, "a", k.prev["a"])
    BY <2>5, <2>7 DEF Sent
  <2>10. Course(c)'
    BY <2>1, <2>8, <2>9, CourseOfCurve
  <2> QED BY <2>1, <2>5, <2>6, <2>8, <2>10, GoingFacts, CurveOnwards, WritesMembers
<1>2. CASE Writes!CurveUndo(c, "undo2", "b", "idle")
  <2>0. Writes!At(c, {"curve"}, "undo2")
    BY <1>2 DEF Writes!CurveUndo
  <2>1. PICK k \in Commands : Going(c, k) /\ k.kind = "curve" /\ k.step = "undo2"
    BY <2>0, AtGoing
  <2>2. /\ cmd[c] = k /\ k.prev["a"] \in Levels /\ k.prev["b"] \in Levels /\ k.prev \in Wishes
        /\ k.id \in Nat /\ WritesShape
    BY <2>1, GoingFacts, WritesMembers DEF Going
  <2>3. PICK ok \in BOOLEAN :
          /\ Writes!Point(c, "b", k.prev["b"], ok) /\ Writes!Leave(c)
          /\ notice' = IF ok THEN [ must |-> Writes!About("b", k.prev["b"]), by |-> k.id ] ELSE Writes!Silent
          /\ failure' = [ by |-> k.id,
                          must |-> IF ok /\ ~k.bad /\ shown' = k.prev THEN k.prev ELSE Writes!Nothing ]
    BY <1>2, <2>2 DEF Writes!CurveUndo, Writes!Prev
  <2>4. Writes!Post(c, "b", k.prev["b"], ok) /\ shown' \in Wishes
    BY <2>1, <2>3, GoingFacts DEF Writes!Point
  <2>5. Around(k.id) /\ Sent(k.id, "b", k.prev["b"], ok)
    BY <2>1, <2>2, <2>4, PostAround, WritesMembers
  <2>6. PICK w \in Wishes : w = Writes!About("b", k.prev["b"])
    BY <2>2, WritesNothing, WritesMembers
  <2>7. PICK u \in Wishes : u = IF ok /\ ~k.bad /\ shown' = k.prev THEN k.prev ELSE Writes!Nothing
    BY <2>2, WritesNothing
  <2>8. \A x \in Writes!Settings : u[x] # Writes!Free => Now(k.id, x, u[x])
    <3>1. CASE ok /\ ~k.bad
      <4>1. Now(k.id, "b", k.prev["b"]) /\ Now(k.id, "a", k.prev["a"])
        BY <2>1, <2>2, <2>5, <3>1, CurveFacts, WritesMembers DEF Sent, Now
      <4> QED BY <2>7, <4>1, WritesNothing, WritesMembers
    <3>2. CASE ~(ok /\ ~k.bad)
      BY <2>7, <3>2, WritesNothing
    <3> QED BY <3>1, <3>2
  <2>9. failure' = [ must |-> u, by |-> k.id ]
    BY <2>3, <2>7
  <2>10. Spoken(k.id)
    <3>1. CASE ok
      <4>1. Now(k.id, "b", k.prev["b"])
        BY <2>5, <3>1 DEF Sent
      <4>2. \A x \in Writes!Settings : w[x] # Writes!Free => Now(k.id, x, w[x])
        BY <2>2, <2>6, <4>1, WritesNothing, WritesMembers
      <4> QED BY <2>2, <2>3, <2>5, <2>6, <2>8, <2>9, <3>1, <4>2, ReportSpoken
    <3>2. CASE ~ok
      <4>1. notice' = Writes!Silent
        BY <2>3, <3>2
      <4> QED BY <2>2, <2>5, <2>8, <2>9, <4>1, ReportSpoken
    <3> QED BY <3>1, <3>2
  <2> QED BY <2>1, <2>3, <2>5, <2>10, CommandEnded DEF Writes!Leave
<1> QED BY <1>1, <1>2

LEMMA CurveKeeps == ASSUME WritesInv, NEW c \in Writes!Slots, Writes!Curve(c) PROVE WritesInv'
<1>1. CASE Writes!CurvePoint(c, "write", "a", "write2")
  BY <1>1, CurvePointKeeps
<1>2. CASE Writes!CurvePoint(c, "write2", "b", "check")
  BY <1>2, CurvePointKeeps
<1> QED BY <1>1, <1>2, CurveSubmitKeeps, CurveConfirmsKeep, CurveCheckKeeps, CurveUndoKeeps
           DEF Writes!Curve

-----------------------------------------------------------------------------
(* A command begins; others write; the device applies                      *)

LEMMA CommandStartKeeps ==
  ASSUME WritesInv, NEW c \in Writes!Slots, moves > 0, moves' = moves - 1, UNCHANGED <<unitval,
         inbox, wrote>>,
         NEW m \in Commands, Turned(c, m), m.id = moves, m.step \in {"write", "submit"}, shown' \in Wishes,
         m.kind \in Writes!Single => m.want["b"] = Writes!Free,
         m.kind = "range" => m.want["a"] = 0 /\ m.want["b"] = 0,
         m.kind = "pause" => m.want["a"] = 0,
         notice' \in {Writes!Silent, notice}, failure' \in {Writes!Silent, failure}
  PROVE  WritesInv'
<1>1. moves \in Nat /\ moves' \in Nat /\ WritesShape /\ Own
  BY DEF WritesInv, WritesShape
<1>2. /\ \A x \in Writes!Settings : wrote[x] # m.id /\ wrote'[x] = wrote[x]
      /\ notice'.by # m.id /\ failure'.by # m.id
  BY <1>1, WritesNothing DEF Own
<1>3. \A x \in Writes!Settings, v \in Levels : Writes!Settles(x, v) <=> Writes!Settles(x, v)'
  BY DEF Writes!Settles
<1>4. ASSUME NEW d \in Writes!Slots, d # c PROVE Unsaid(d)' /\ Course(d)'
  <2>1. cmd'[d] = cmd[d]
    BY <1>4 DEF Turned
  <2>2. ASSUME Active(d) PROVE cmd[d].id # 0 /\ Held(cmd[d].id)
    <3>1. cmd[d].id # 0
      BY <1>1, <2>2 DEF Own
    <3> QED BY <1>3, <3>1 DEF Held
  <2> QED BY <2>1, <2>2, OtherKept, WritesNothing
<1>5. Unsaid(c)' /\ Course(c)'
  <2>1. cmd'[c] = m
    BY DEF Turned
  <2>2. Unsaid(c)'
    BY <1>2, <2>1 DEF Unsaid, Active
  <2>3. \A x \in Writes!Settings : Unwritten(c, x)'
    BY <1>2, <2>1 DEF Unwritten
  <2> QED BY <2>1, <2>2, <2>3 DEF Course, OfSingle, OfRange, OfPause, OfStrategy, OfCurve
<1>6. WritesShape'
  BY <1>1, WritesNothing DEF WritesShape, Turned
<1>7. Own'
  <2>1. ASSUME NEW d \in Writes!Slots, Active(d)'
        PROVE  /\ cmd'[d].id > moves'
               /\ d # c => cmd'[d].id = cmd[d].id /\ Active(d)
               /\ d = c => cmd'[d].id = moves
    BY <1>1, <2>1 DEF Own, Turned, Active, WritesShape, Commands
  <2>2. ASSUME NEW d \in Writes!Slots, NEW e \in Writes!Slots, d # e, Active(d)', Active(e)'
        PROVE  cmd'[d].id # cmd'[e].id
    BY <1>1, <2>1, <2>2 DEF Own
  <2>3. \A x \in Writes!Settings : wrote'[x] = 0 \/ wrote'[x] > moves'
    BY <1>1, <1>2 DEF Own, WritesShape
  <2>4. (notice' = Writes!Silent \/ notice'.by > moves') /\ (failure' = Writes!Silent \/ failure'.by > moves')
    BY <1>1 DEF Own, WritesShape, Sayings
  <2> QED BY <2>1, <2>2, <2>3, <2>4 DEF Own
<1>8. Writes!NoticeIsTrue'
  <2>1. PICK n \in Sayings : notice = n
    BY <1>1 DEF WritesShape
  <2>2. PICK f \in Sayings : failure = f
    BY <1>1 DEF WritesShape
  <2>3. ASSUME NEW s \in Sayings, Writes!True(s) PROVE Writes!True(s)'
    BY <1>2, <1>3, <2>3 DEF Writes!True, Sayings, Wishes
  <2>4. PICK z \in Sayings : z = Writes!Silent
    BY WritesNothing
  <2>5. Writes!True(z)'
    BY <2>4, WritesNothing DEF Writes!True
  <2>6. Writes!True(n)' /\ Writes!True(f)'
    BY <2>1, <2>2, <2>3 DEF WritesInv, Writes!NoticeIsTrue
  <2> QED BY <2>1, <2>2, <2>4, <2>5, <2>6, SaidAs DEF Writes!NoticeIsTrue
<1> QED BY <1>4, <1>5, <1>6, <1>7, <1>8 DEF WritesInv

LEMMA StartTurns ==
  ASSUME WritesInv, NEW c \in Writes!Slots, NEW kind \in Writes!Kinds, NEW want \in Wishes,
         NEW step \in {"write", "submit"},
         Writes!Start(c, kind, want, step)
  PROVE  \E m \in Commands : /\ Turned(c, m) /\ m.id = moves /\ m.step = step /\ m.kind = kind /\ m.want = want
                             /\ moves > 0 /\ moves' = moves - 1 /\ UNCHANGED <<unitval, inbox, wrote>>
<1>1. PICK m : m = [Writes!NoCmd EXCEPT !.kind = kind, !.want = want, !.prev = shown, !.id = moves, !.step = step]
  OBVIOUS
<1>2. moves \in Nat /\ shown \in Wishes /\ cmd \in [Writes!Slots -> Commands]
  BY DEF WritesInv, WritesShape
<1>3. kind \in KindsOrNone /\ step \in Points
  BY WritesMembers
<1>4. m \in Commands /\ m.id = moves /\ m.step = step /\ m.kind = kind /\ m.want = want
  BY <1>1, <1>2, <1>3, WritesNothing DEF Commands
<1>5. cmd' = [cmd EXCEPT ![c] = m]
  BY <1>1 DEF Writes!Start
<1> QED BY <1>2, <1>4, <1>5 DEF Writes!Start, Turned

LEMMA BeginCommandKeeps ==
  ASSUME WritesInv, NEW c \in Writes!Slots, Overlapping \subseteq Writes!Kinds, Writes!Begin(c)
  PROVE  WritesInv'
<1>1. PICK kind \in (IF c = 1 THEN Writes!Kinds \ {"curve"} ELSE Overlapping),
           want \in [Writes!Settings -> Writes!Values \cup {Writes!Free}] :
        /\ Writes!Asks(kind, want)
        /\ Writes!Start(c, kind, want, "write")
        /\ notice' = Writes!Silent /\ failure' = Writes!Silent
        /\ shown' = IF kind \in {"select", "strategy"}
                    THEN [shown EXCEPT !["a"] = want["a"]] ELSE shown
  BY DEF Writes!Begin
<1>2. kind \in Writes!Kinds /\ want \in Wishes
  BY <1>1, WritesMembers DEF Wishes
<1>3. PICK m \in Commands : /\ Turned(c, m) /\ m.id = moves /\ m.step = "write" /\ m.kind = kind /\ m.want = want
                            /\ moves > 0 /\ moves' = moves - 1 /\ UNCHANGED <<unitval, inbox, wrote>>
  BY <1>1, <1>2, StartTurns
<1>4. shown' \in Wishes
  BY <1>1, <1>2, WritesMembers DEF WritesInv, WritesShape, Wishes
<1>5. /\ kind \in Writes!Single => want["b"] = Writes!Free
      /\ kind = "range" => want["a"] = 0 /\ want["b"] = 0
  BY <1>1 DEF Writes!Asks, Writes!Single, Writes!Plain, Writes!AtOnce, Writes!Confirmed
<1>6. kind = "pause" => want["a"] = 0
  BY <1>1 DEF Writes!Asks, Writes!Single, Writes!Plain, Writes!AtOnce, Writes!Confirmed
<1> QED BY <1>1, <1>3, <1>4, <1>5, <1>6, CommandStartKeeps

LEMMA BeginCurveKeeps ==
  ASSUME WritesInv, NEW c \in Writes!Slots, Writes!BeginCurve(c) PROVE WritesInv'
<1>1. PICK want \in [Writes!Settings -> Writes!Values] : Writes!Start(c, "curve", want, "submit")
  BY DEF Writes!BeginCurve
<1>2. "curve" \in Writes!Kinds /\ want \in Wishes /\ "curve" \notin Writes!Single
  BY WritesMembers DEF Wishes, Writes!Kinds, Writes!Single, Writes!Plain, Writes!AtOnce,
     Writes!Confirmed
<1>3. PICK m \in Commands : /\ Turned(c, m) /\ m.id = moves /\ m.step = "submit" /\ m.kind = "curve"
                            /\ moves > 0 /\ moves' = moves - 1 /\ UNCHANGED <<unitval, inbox, wrote>>
  BY <1>1, <1>2, StartTurns
<1>4. shown' \in Wishes /\ notice' = notice /\ failure' = failure
  BY DEF Writes!BeginCurve, WritesInv, WritesShape
<1> QED BY <1>2, <1>3, <1>4, CommandStartKeeps

(* Nothing changes for a command, and what was said stays true.            *)
LEMMA AllHeld ==
  ASSUME WritesInv, cmd' = cmd, moves' \in Nat, moves' <= moves, shown' \in Wishes,
         unitval' \in Wishes,
         inbox' \in Seq(Writes!Settings \X Levels), wrote' \in [Writes!Settings -> Nat],
         \A x \in Writes!Settings : wrote'[x] = wrote[x] \/ wrote'[x] = 0,
         notice' = notice, failure' \in {Writes!Silent, failure},
         \A j \in Nat : j # 0 => Held(j)
  PROVE  WritesInv'
<1>1. moves \in Nat /\ WritesShape /\ Own
  BY DEF WritesInv, WritesShape
<1>2. ASSUME NEW d \in Writes!Slots PROVE Unsaid(d)' /\ Course(d)'
  <2>1. ASSUME Active(d) PROVE cmd[d].id # 0 /\ Held(cmd[d].id)
    <3>1. cmd[d].id \in Nat /\ cmd[d].id # 0
      BY <1>1, <2>1 DEF Own, WritesShape, Commands
    <3> QED BY <3>1
  <2> QED BY <2>1, OtherKept, WritesNothing
<1>3. WritesShape'
  BY <1>1, WritesNothing DEF WritesShape
<1>4. Own'
  <2>1. \A d \in Writes!Slots : Active(d)' <=> Active(d)
    BY DEF Active
  <2>2. ASSUME NEW d \in Writes!Slots, Active(d) PROVE cmd'[d].id > moves'
    BY <1>1, <2>2 DEF Own, WritesShape, Commands
  <2>3. \A x \in Writes!Settings : wrote'[x] = 0 \/ wrote'[x] > moves'
    BY <1>1 DEF Own, WritesShape
  <2>4. (notice' = Writes!Silent \/ notice'.by > moves') /\ (failure' = Writes!Silent \/ failure'.by > moves')
    BY <1>1 DEF Own, WritesShape, Sayings
  <2> QED BY <1>1, <2>1, <2>2, <2>3, <2>4 DEF Own
<1>5. Writes!NoticeIsTrue'
  <2>1. ASSUME NEW s \in Sayings, Writes!True(s), s = Writes!Silent \/ s.by > moves
        PROVE  Writes!True(s)'
    <3>1. CASE s = Writes!Silent
      BY <3>1, WritesNothing DEF Writes!True
    <3>2. CASE s.by > moves
      <4>1. s.by \in Nat /\ s.by # 0 /\ \A x \in Writes!Settings : s.must[x] \in Levels
        BY <1>1, <3>2 DEF Sayings, Wishes
      <4>2. Held(s.by)
        BY <4>1
      <4> QED BY <2>1, <4>1, <4>2 DEF Held, Writes!True
    <3> QED BY <2>1, <3>1, <3>2
  <2>2. PICK n \in Sayings : notice = n
    BY <1>1 DEF WritesShape
  <2>3. PICK f \in Sayings : failure = f
    BY <1>1 DEF WritesShape
  <2>4. PICK z \in Sayings : z = Writes!Silent
    BY WritesNothing
  <2>5. Writes!True(z)'
    BY <2>4, WritesNothing DEF Writes!True
  <2>6. Writes!True(n)' /\ Writes!True(f)'
    BY <1>1, <2>1, <2>2, <2>3 DEF WritesInv, Writes!NoticeIsTrue, Own
  <2> QED BY <2>2, <2>3, <2>4, <2>5, <2>6, SaidAs DEF Writes!NoticeIsTrue
<1> QED BY <1>2, <1>3, <1>4, <1>5 DEF WritesInv

LEMMA PollWKeeps == ASSUME WritesInv, Writes!Poll PROVE WritesInv'
<1>1. /\ cmd' = cmd /\ moves' = moves /\ moves \in Nat /\ shown' \in Wishes /\ unitval' = unitval
      /\ inbox' = inbox /\ wrote' = wrote /\ notice' = notice /\ failure' = Writes!Silent /\ WritesShape
  BY DEF Writes!Poll, WritesInv, WritesShape
<1>2. \A j \in Nat : Held(j)
  BY <1>1 DEF Held, Writes!Settles
<1> QED BY <1>1, <1>2, AllHeld DEF WritesShape

LEMMA ApplyWKeeps == ASSUME WritesInv, Writes!Apply PROVE WritesInv'
<1>1. /\ cmd' = cmd /\ moves' = moves /\ moves \in Nat /\ shown' = shown /\ inbox # <<>>
      /\ wrote' = wrote /\ notice' = notice /\ failure' = failure /\ WritesShape
  BY DEF Writes!Apply, WritesInv, WritesShape
<1>2. PICK o \in Seq(Writes!Settings \X Levels) : inbox = o
  BY <1>1 DEF WritesShape
<1>3. PICK r : r = Tail(o)
  OBVIOUS
<1>4. /\ r \in Seq(Writes!Settings \X Levels) /\ Len(r) = Len(o) - 1 /\ \A i \in 1 .. Len(r) : r[i] = o[i + 1]
      /\ Len(o) \in Nat /\ Len(o) > 0 /\ o[1] \in Writes!Settings \X Levels
      /\ DOMAIN r = 1 .. Len(r) /\ DOMAIN o = 1 .. Len(o) /\ inbox' = r
  <2>1. o # <<>>
    BY <1>1, <1>2
  <2>2. r \in Seq(Writes!Settings \X Levels) /\ Len(r) = Len(o) - 1 /\ \A i \in 1 .. Len(r) : r[i] = o[i + 1]
    BY <1>3, <2>1, HeadTailProperties
  <2>3. Len(o) \in Nat /\ Len(o) > 0
    BY <2>1, EmptySeq
  <2>4. o[1] \in Writes!Settings \X Levels
    BY <2>3, ElementOfSeq
  <2> QED BY <1>2, <1>3, <2>2, <2>3, <2>4 DEF Writes!Apply
<1>5. PICK y \in Writes!Settings, u \in Levels : o[1] = <<y, u>>
  BY <1>4
<1>6. unitval' = [unitval EXCEPT ![y] = u] /\ unitval \in Wishes
  BY <1>1, <1>2, <1>5 DEF Writes!Apply, WritesShape
<1>7. /\ \A i \in DOMAIN o : i = 1 \/ (i - 1 \in DOMAIN r /\ r[i - 1] = o[i])
      /\ \A i \in DOMAIN r : i + 1 \in DOMAIN o /\ r[i] = o[i + 1] /\ i > 0
      /\ 1 \in DOMAIN o /\ \A i \in DOMAIN o : i \in Nat /\ i >= 1
  BY <1>4
<1>8. ASSUME NEW x \in Writes!Settings, NEW v \in Levels, Writes!Settles(x, v)
      PROVE  Writes!Settles(x, v)'
  <2>1. CASE \E i \in DOMAIN r : r[i][1] = x
    <3>1. PICK n \in DOMAIN r : r[n][1] = x
      BY <2>1
    <3>2. n + 1 \in DOMAIN o /\ o[n + 1][1] = x
      BY <1>7, <3>1
    <3>3. PICK i \in DOMAIN o : o[i] = <<x, v>> /\ \A j \in DOMAIN o : j > i => o[j][1] # x
      BY <1>2, <1>8, <3>2 DEF Writes!Settles
    <3>4. i # 1
      BY <1>7, <3>1, <3>2, <3>3
    <3>5. i - 1 \in DOMAIN r /\ r[i - 1] = <<x, v>>
      BY <1>7, <3>3, <3>4
    <3>6. ASSUME NEW j \in DOMAIN r, j > i - 1 PROVE r[j][1] # x
      BY <1>4, <1>7, <3>3, <3>6
    <3> QED BY <1>4, <2>1, <3>5, <3>6 DEF Writes!Settles
  <2>2. CASE ~\E i \in DOMAIN r : r[i][1] = x
    <3>1. \A i \in DOMAIN o : o[i][1] = x => i = 1
      BY <1>7, <2>2
    <3>2. unitval'[x] = v
      <4>1. CASE y = x
        <5>1. o[1][1] = x
          BY <1>5, <4>1
        <5>2. PICK i \in DOMAIN o : o[i] = <<x, v>>
          BY <1>2, <1>7, <1>8, <5>1 DEF Writes!Settles
        <5>3. i = 1
          BY <3>1, <5>2
        <5>4. v = u
          BY <1>5, <5>2, <5>3
        <5> QED BY <1>6, <4>1, <5>4 DEF Wishes
      <4>2. CASE y # x
        <5>1. ~\E i \in DOMAIN o : o[i][1] = x
          BY <1>5, <3>1, <4>2
        <5>2. unitval[x] = v
          BY <1>2, <1>8, <5>1 DEF Writes!Settles
        <5> QED BY <1>6, <4>2, <5>2 DEF Wishes
      <4> QED BY <4>1, <4>2
    <3> QED BY <1>4, <2>2, <3>2 DEF Writes!Settles
  <2> QED BY <2>1, <2>2
<1>9. \A j \in Nat : Held(j)
  BY <1>1, <1>8 DEF Held
<1>10. unitval' \in Wishes
  BY <1>6 DEF Wishes
<1> QED BY <1>1, <1>4, <1>9, <1>10, AllHeld DEF WritesShape

LEMMA MeddleKeeps == ASSUME WritesInv, Writes!Meddle PROVE WritesInv'
<1>1. /\ cmd' = cmd /\ moves' = moves - 1 /\ moves \in Nat /\ moves > 0 /\ shown' = shown /\ unitval' = unitval
      /\ notice' = notice /\ failure' = failure /\ WritesShape
  BY DEF Writes!Meddle, WritesInv, WritesShape
<1>2. PICK y \in Writes!Settings, u \in Writes!Values :
        inbox' = Append(inbox, <<y, u>>) /\ wrote' = [wrote EXCEPT ![y] = 0]
  BY DEF Writes!Meddle
<1>3. PICK o \in Seq(Writes!Settings \X Levels) : inbox = o
  BY <1>1 DEF WritesShape
<1>4. PICK w : w = << <<y, u>> >>
  OBVIOUS
<1>5. w \in Seq(Writes!Settings \X Levels) /\ DOMAIN w = {1} /\ w[1] = <<y, u>> /\ u \in Levels
  BY <1>4, WritesMembers
<1>6. inbox' = o \o w
  <2>1. PICK e \in Writes!Settings \X Levels : e = <<y, u>>
    BY <1>5
  <2>2. Append(o, e) = o \o <<e>>
    BY AppendIsConcat
  <2> QED BY <1>2, <1>3, <1>4, <2>1, <2>2
<1>7. wrote' \in [Writes!Settings -> Nat] /\ \A x \in Writes!Settings : wrote'[x] = IF x = y THEN 0 ELSE wrote[x]
  BY <1>1, <1>2 DEF WritesShape
<1>8. inbox' \in Seq(Writes!Settings \X Levels)
  BY <1>5, <1>6, ConcatProperties
<1>9. ASSUME NEW j \in Nat, j # 0 PROVE Held(j)
  <2>1. ASSUME NEW x \in Writes!Settings, NEW v \in Levels, wrote'[x] = j
        PROVE  wrote[x] = j /\ (Writes!Settles(x, v) => Writes!Settles(x, v)')
    <3>1. x # y /\ wrote[x] = j
      BY <1>7, <1>9, <2>1
    <3>2. \A i \in DOMAIN w : w[i][1] # x
      BY <1>5, <3>1
    <3>3. Writes!Settles(x, v) => Writes!Settles(x, v)'
      BY <1>1, <1>3, <1>5, <1>6, <3>2, Appended
    <3> QED BY <3>1, <3>3
  <2> QED BY <2>1 DEF Held
<1> QED BY <1>1, <1>7, <1>8, <1>9, AllHeld DEF WritesShape

LEMMA WritesNext ==
  ASSUME Overlapping \subseteq Writes!Kinds
  PROVE  WritesInv /\ [Writes!Next]_writesVars => WritesInv'
<1> SUFFICES ASSUME WritesInv, [Writes!Next]_writesVars PROVE WritesInv'
  OBVIOUS
<1>1. CASE UNCHANGED writesVars
  BY <1>1 DEF writesVars, WritesInv, WritesShape, Own, Active, Writes!NoticeIsTrue, Writes!True,
     Writes!Settles, Unsaid, Course, Unwritten,
     Holds, OfSingle, OfRange, OfPause, OfStrategy, OfCurve
<1>2. CASE Writes!Poll
  BY <1>2, PollWKeeps
<1>3. CASE Writes!Apply
  BY <1>3, ApplyWKeeps
<1>4. CASE Writes!Meddle
  BY <1>4, MeddleKeeps
<1>5. ASSUME NEW c \in Writes!Slots, Writes!Step(c) PROVE WritesInv'
  <2>1. CASE Writes!Begin(c) \/ Writes!BeginCurve(c) \/ Writes!PlainWrite(c) \/ Writes!Refreshes(c) \/ Writes!ConfirmedWrite(c)
    BY <2>1, BeginCommandKeeps, BeginCurveKeeps, PlainKeeps, RefreshesKeep, ConfirmedKeeps
  <2>2. CASE Writes!SourceConfirms(c) \/ Writes!OverrideConfirms(c) \/ Writes!AdviceConfirms(c)
    BY <2>2, SourceKeep, OverrideKeep, AdviceKeep
  <2>3. CASE Writes!OptWrite(c) \/ Writes!OptConfirms(c) \/ Writes!OptOut(c) \/ Writes!OptOutConfirms(c)
    BY <2>3, OptWriteKeep, OptConfirmsKeep, OptOutKeep, OptOutConfirmsKeep
  <2>4. CASE Writes!RangeWrite(c, "write", "a", "write2") \/ Writes!RangeWrite(c, "write2", "b", "confirm") \/ Writes!RangeConfirms(c)
    <3>1. CASE Writes!RangeWrite(c, "write", "a", "write2")
      BY <3>1, RangeWriteKeeps
    <3>2. CASE Writes!RangeWrite(c, "write2", "b", "confirm")
      BY <3>2, RangeWriteKeeps
    <3> QED BY <2>4, <3>1, <3>2, RangeConfirmsKeep
  <2>5. CASE Writes!PauseEnd(c) \/ Writes!PauseSwitch(c) \/ Writes!PauseRollback(c)
    BY <2>5, PauseEndKeeps, PauseSwitchKeeps, PauseRollbackKeeps
  <2>6. CASE Writes!Strategy(c) \/ Writes!Curve(c)
    BY <2>6, StrategyKeeps, CurveKeeps
  <2> QED BY <1>5, <2>1, <2>2, <2>3, <2>4, <2>5, <2>6 DEF Writes!Step, Writes!Range
<1> QED BY <1>1, <1>2, <1>3, <1>4, <1>5 DEF Writes!Next

-----------------------------------------------------------------------------
(***************************************************************************)
(* Part 2: the tools of an outdoor unit                                    *)
(***************************************************************************)
Amounts  == 0 .. 3
Deeds    == {"none", "load", "save", "arm"}
Ended    == {"ready", "loaded", "saved", "stale", "failed"}
Paces    == {"idle", "post", "wait"}

Errands  == [ act : Deeds, want : Amounts, expect : Amounts, shown : Amounts ]
Readings == [ busy : BOOLEAN, table : Amounts, armed : BOOLEAN, result : Ended, boot : Nat ]
Odus     == [ actual : Amounts, table : Amounts, profile : Amounts, armed : BOOLEAN, job : Errands,
              result : Ended, boot : Nat ]
Confirms   == [ want : Amounts, expect : Amounts ]
Desks    == [ known : Readings, draft : Amounts, basis : Amounts, ask : Confirms, failed : BOOLEAN,
              timer : BOOLEAN ]
Given    == [ stage : Paces, job : Errands ]
Glances  == [ open : BOOLEAN, late : BOOLEAN, status : Readings ]
Wordings == [ saved : Amounts, stirred : BOOLEAN ]

ToolShape == /\ tool \in Tools!Tools /\ odu \in Odus /\ desk \in Desks /\ order \in Given
             /\ look \in Glances /\ word \in Wordings

(* An order that shows a method is one for the defrost method, and only    *)
(* replaces the one it shows.                                              *)
ShownTrue(j) == j.shown # 0 => tool = "defrost" /\ j.expect = j.shown
AsShown == ~spoilt /\ ShownTrue(odu.job) /\ ShownTrue(order.job)

(* The unit does what was asked and says how it went, or has not yet begun *)
(* and its settings are put right by itself.                               *)
Doing(v) ==
  \/ odu.job.act = "save" /\ odu.job.want = v
  \/ odu.job = Tools!NoJob /\ odu.result = "failed" /\ (tool = "settings" => odu.profile = v)
  \/ odu.job = Tools!NoJob /\ odu.result = "saved" /\ odu.actual = v
     /\ (tool = "settings" => odu.profile = v /\ odu.table = v)

DoneAsSaid ==
  /\ order.stage = "wait" =>
       /\ tool \in {"settings", "frequency"} /\ order.job.act \in {"load", "save"}
       /\ order.job.act = "load" => order.job.want = 0
       /\ order.job.act = "save" /\ ~word.stirred => Doing(order.job.want)
  /\ order.stage = "idle" => order = Tools!NoOrder
  /\ order.job.act = "load" => order.job.want = 0
  /\ order # Tools!NoOrder => word.saved = 0 /\ order.job.act # "none"
  /\ word.saved # 0 /\ ~word.stirred =>
       /\ tool \in {"settings", "frequency"} /\ odu.job = Tools!NoJob /\ odu.actual = word.saved
       /\ tool = "settings" => odu.profile = word.saved /\ odu.table = word.saved

Polled ==
  /\ look.late => tool = "defrost"
  /\ tool = "dump" /\ desk.known.busy => desk.timer \/ look # Tools!NoLook \/ desk.failed

ToolsInv == ToolShape /\ AsShown /\ DoneAsSaid /\ Polled

(* Names for the values, so that no proof opens the sets above.            *)
LEMMA ToolMembers ==
  /\ \A d \in {"none", "load", "save", "arm"} : d \in Deeds
  /\ \A e \in {"ready", "loaded", "saved", "stale", "failed"} : e \in Ended
  /\ \A s \in {"idle", "post", "wait"} : s \in Paces
  /\ \A v \in Tools!Values : v \in Amounts
  /\ 0 \in Amounts /\ 1 \in Amounts /\ Tools!Other \in Amounts
BY DEF Deeds, Ended, Paces, Tools!Values, Amounts, Tools!Other

LEMMA ToolNothing ==
  /\ Tools!NoJob \in Errands /\ Tools!NoJob.act = "none" /\ Tools!NoJob.want = 0 /\ Tools!NoJob.shown = 0
  /\ Tools!NoOrder \in Given /\ Tools!NoOrder.job = Tools!NoJob /\ Tools!NoOrder.stage = "idle"
  /\ Tools!NoAsk \in Confirms
  /\ Tools!Unread \in Readings /\ Tools!Unread.busy = FALSE
  /\ Tools!NoLook \in Glances /\ Tools!NoLook.late = FALSE /\ Tools!NoLook.open = FALSE
  /\ Tools!Load \in Errands /\ Tools!Load.act = "load" /\ Tools!Load.want = 0 /\ Tools!Load.shown = 0
BY ToolMembers DEF Tools!NoJob, Tools!NoOrder, Tools!NoAsk, Tools!Unread, Tools!NoLook, Tools!Load,
   Errands, Given, Confirms, Readings, Glances

LEMMA WriteTyped ==
  ASSUME NEW v \in Amounts
  PROVE  Tools!Write(v) \in Errands /\ Tools!Write(v).act = "save" /\ Tools!Write(v).want = v /\ Tools!Write(v).shown = 0
BY ToolMembers, ToolNothing DEF Tools!Write, Errands

LEMMA StatusTyped ==
  ASSUME odu \in Odus
  PROVE  Tools!Status \in Readings /\ (Tools!Status.busy <=> odu.job # Tools!NoJob) /\ Tools!Status.table = odu.table
         /\ Tools!Status.result = odu.result
BY DEF Tools!Status, Odus, Readings

LEMMA StoredTyped ==
  ASSUME NEW d \in Desks, NEW s \in Readings
  PROVE  /\ Tools!Stored(d, s) \in Desks /\ Tools!Stored(d, s).known = s /\ Tools!Stored(d, s).failed = d.failed
         /\ Tools!Stored(d, s).timer = (tool = "dump" /\ s.busy)
BY ToolMembers DEF Tools!Stored, Desks

LEMMA ToolsInit == Tools!Init => ToolsInv
<1> SUFFICES ASSUME Tools!Init PROVE ToolsInv
  OBVIOUS
<1>1. /\ tool \in Tools!Tools /\ odu.job = Tools!NoJob /\ order = Tools!NoOrder /\ look = Tools!NoLook /\ spoilt = FALSE
      /\ word.saved = 0 /\ desk.known = Tools!Unread
  BY DEF Tools!Init
<1>2. odu \in Odus
  BY ToolMembers, ToolNothing DEF Tools!Init, Odus
<1>3. desk \in Desks
  BY ToolMembers, ToolNothing DEF Tools!Init, Desks
<1>4. word \in Wordings
  BY ToolMembers DEF Tools!Init, Wordings
<1>5. ToolShape
  BY <1>1, <1>2, <1>3, <1>4, ToolNothing DEF ToolShape
<1> QED BY <1>1, <1>5, ToolNothing DEF ToolsInv, AsShown, ShownTrue, DoneAsSaid, Polled

(* Editing and looking: the orders and the unit stay as they are.          *)
LEMMA Looking2 ==
  ASSUME ToolsInv, tool' = tool, odu' = odu, order' = order, word' = word, spoilt' = spoilt,
         desk' \in Desks, look' \in Glances, Polled'
  PROVE  ToolsInv'
BY DEF ToolsInv, ToolShape, AsShown, ShownTrue, DoneAsSaid, Doing

LEMMA LookSteps ==
  ASSUME ToolsInv, Tools!StartLook \/ Tools!LookEnds \/ Tools!Edit \/ Tools!AskSave \/ Tools!Cancel
  PROVE  ToolsInv'
<1>0. /\ tool' = tool /\ odu' = odu /\ order' = order /\ word' = word /\ spoilt' = spoilt
      /\ desk \in Desks /\ look \in Glances /\ odu \in Odus /\ desk.known \in Readings
      /\ desk.draft \in Amounts /\ desk.basis \in Amounts /\ desk.known.table \in Amounts
  BY DEF Tools!StartLook, Tools!LookEnds, Tools!Edit, Tools!AskSave, Tools!Cancel, ToolsInv,
     ToolShape, Desks, Readings
<1>1. CASE Tools!StartLook
  <2>1. /\ look' = [ open |-> TRUE, late |-> FALSE, status |-> Tools!Status ]
        /\ desk' = [desk EXCEPT !.timer = FALSE]
    BY <1>1 DEF Tools!StartLook
  <2>2. look' \in Glances /\ look'.late = FALSE /\ look'.open = TRUE
    BY <1>0, <2>1, StatusTyped DEF Glances
  <2>3. desk' \in Desks
    BY <1>0, <2>1 DEF Desks
  <2>4. Polled'
    BY <2>2, ToolNothing DEF Polled
  <2> QED BY <1>0, <2>2, <2>3, <2>4, Looking2
<1>2. CASE Tools!LookEnds
  <2>1. look' = Tools!NoLook /\ look.status \in Readings
    BY <1>0, <1>2 DEF Tools!LookEnds, Glances
  <2>2. \/ look.late /\ desk' = desk
        \/ ~look.late /\ desk' = [Tools!Stored(desk, look.status) EXCEPT !.failed = FALSE]
        \/ ~look.late /\ desk' = [desk EXCEPT !.failed = TRUE]
    BY <1>2 DEF Tools!LookEnds
  <2>3. CASE look.late /\ desk' = desk
    <3>1. Polled'
      BY <1>0, <2>1, <2>3, ToolNothing DEF ToolsInv, Polled
    <3> QED BY <1>0, <2>1, <2>3, <3>1, Looking2, ToolNothing
  <2>4. CASE desk' = [Tools!Stored(desk, look.status) EXCEPT !.failed = FALSE]
    <3>1. /\ desk' \in Desks /\ desk'.known = look.status
          /\ desk'.timer = (tool = "dump" /\ look.status.busy)
      BY <1>0, <2>1, <2>4, StoredTyped DEF Desks
    <3>2. Polled'
      BY <1>0, <2>1, <3>1, ToolNothing DEF Polled
    <3> QED BY <1>0, <2>1, <3>1, <3>2, Looking2, ToolNothing
  <2>5. CASE desk' = [desk EXCEPT !.failed = TRUE]
    <3>1. desk' \in Desks /\ desk'.failed
      BY <1>0, <2>5 DEF Desks
    <3>2. Polled'
      BY <1>0, <2>1, <3>1, ToolNothing DEF Polled
    <3> QED BY <1>0, <2>1, <3>1, <3>2, Looking2, ToolNothing
  <2> QED BY <2>2, <2>3, <2>4, <2>5
<1>3. CASE Tools!Edit \/ Tools!AskSave \/ Tools!Cancel
  <2>1. look' = look
    BY <1>3 DEF Tools!Edit, Tools!AskSave, Tools!Cancel
  <2>2. /\ Tools!Selected(desk) \in Amounts /\ Tools!Expected(desk) \in Amounts
        /\ [ want |-> Tools!Selected(desk), expect |-> Tools!Expected(desk) ] \in Confirms
    BY <1>0 DEF Tools!Selected, Tools!Expected, Confirms
  <2>3. /\ desk' \in Desks /\ desk'.known = desk.known /\ desk'.timer = desk.timer
        /\ desk'.failed = desk.failed
    <3>1. CASE Tools!Edit
      <4>1. PICK v \in Tools!Values : desk' = [desk EXCEPT !.draft = v, !.basis = Tools!Expected(desk)]
        BY <3>1 DEF Tools!Edit
      <4> QED BY <1>0, <2>2, <4>1, ToolMembers DEF Desks
    <3>2. CASE Tools!AskSave
      BY <1>0, <2>2, <3>2 DEF Tools!AskSave, Desks
    <3>3. CASE Tools!Cancel
      BY <1>0, <3>3, ToolNothing DEF Tools!Cancel, Desks
    <3> QED BY <1>3, <3>1, <3>2, <3>3
  <2>4. Polled'
    BY <1>0, <2>1, <2>3 DEF ToolsInv, Polled
  <2> QED BY <1>0, <2>1, <2>3, <2>4, Looking2
<1> QED BY <1>1, <1>2, <1>3

(* What taking an order does to the unit.                                  *)
LEMMA Taken ==
  ASSUME odu \in Odus, NEW j \in Errands, Tools!Accepts(j)
  PROVE  /\ odu' \in Odus /\ odu.job = Tools!NoJob /\ odu'.actual = odu.actual
         /\ odu'.profile = odu.profile /\ odu'.job = (IF j.act = "arm" THEN Tools!NoJob ELSE j)
<1>1. odu.job = Tools!NoJob
  BY DEF Tools!Accepts
<1>2. CASE j.act = "arm"
  <2>1. odu' = [odu EXCEPT !.armed = j.want = 1, !.result = "ready"]
    BY <1>2 DEF Tools!Accepts
  <2> QED BY <1>1, <1>2, <2>1, ToolMembers DEF Odus
<1>3. CASE j.act # "arm"
  <2>1. odu' = [odu EXCEPT !.job = j, !.result = "ready",
                  !.table = IF tool \in {"frequency", "dump"} /\ j.act = "load" THEN 0 ELSE @,
                  !.armed = @ /\ j.act # "load"]
    BY <1>3 DEF Tools!Accepts
  <2> QED BY <1>1, <1>3, <2>1, ToolMembers DEF Odus
<1> QED BY <1>2, <1>3

LEMMA OrdersTrue ==
  ASSUME tool \in Tools!Tools, desk \in Desks, NEW j \in Tools!Orders
  PROVE  /\ j \in Errands /\ j.act # "none" /\ ShownTrue(j)
         /\ j.act = "load" => j.want = 0
<1>1. /\ desk.ask \in Confirms /\ desk.ask.want \in Amounts /\ desk.ask.expect \in Amounts
      /\ Tools!Selected(desk) \in Amounts
  BY DEF Desks, Confirms, Readings, Tools!Selected
<1>2. CASE j = Tools!Load
  BY <1>2, ToolNothing DEF ShownTrue
<1>3. CASE j \in {Tools!Write(v) : v \in {Tools!Selected(desk)}}
  BY <1>1, <1>3, WriteTyped DEF ShownTrue
<1>4. CASE tool = "defrost" /\ j = Tools!Confirmed(desk)
  <2>1. /\ j \in Errands /\ j.act = "save" /\ j.shown = j.expect
    BY <1>1, <1>4, ToolMembers DEF Tools!Confirmed, Errands
  <2> QED BY <1>4, <2>1 DEF ShownTrue
<1>5. CASE \E v \in {0, 1} : j = [Tools!NoJob EXCEPT !.act = "arm", !.want = v]
  <2>1. PICK v \in {0, 1} : j = [Tools!NoJob EXCEPT !.act = "arm", !.want = v]
    BY <1>5
  <2>2. v \in Amounts /\ "arm" \in Deeds
    BY <2>1, ToolMembers
  <2>3. j \in Errands /\ j.act = "arm" /\ j.shown = 0
    BY <2>1, <2>2, ToolNothing DEF Errands
  <2> QED BY <2>3 DEF ShownTrue
<1>6. \/ j = Tools!Load
      \/ j \in {Tools!Write(v) : v \in {Tools!Selected(desk)}}
      \/ (tool = "defrost" /\ j = Tools!Confirmed(desk))
      \/ \E v \in {0, 1} : j = [Tools!NoJob EXCEPT !.act = "arm", !.want = v]
  <2>1. CASE tool = "settings"
    <3>1. Tools!Orders = {Tools!Load} \cup {Tools!Write(v) : v \in {Tools!Selected(desk)} \ {0}}
      BY <2>1 DEF Tools!Orders
    <3> QED BY <3>1
  <2>2. CASE tool = "defrost"
    BY <2>2 DEF Tools!Orders
  <2>3. CASE tool = "frequency"
    <3>1. Tools!Orders = {Tools!Load} \cup IF desk.known.table = 0 THEN {} ELSE
                     {[Tools!NoJob EXCEPT !.act = "arm", !.want = IF desk.known.armed THEN 0 ELSE 1]}
                       \cup {Tools!Write(Tools!Selected(desk)) : x \in {TRUE} \cap {desk.known.armed}}
      BY <2>3 DEF Tools!Orders
    <3> QED BY <3>1
  <2>4. CASE tool = "dump"
    <3>1. Tools!Orders = {Tools!Load}
      BY <2>4 DEF Tools!Orders
    <3> QED BY <3>1
  <2> QED BY <2>1, <2>2, <2>3, <2>4 DEF Tools!Tools
<1> QED BY <1>2, <1>3, <1>4, <1>5, <1>6

LEMMA GiveSteps == ASSUME ToolsInv, Tools!Give PROVE ToolsInv'
<1>0. /\ tool \in Tools!Tools /\ tool' = tool /\ odu' = odu /\ spoilt' = spoilt /\ order = Tools!NoOrder
      /\ word' = [ saved |-> 0, stirred |-> FALSE ] /\ desk \in Desks /\ look \in Glances
      /\ look' = [look EXCEPT !.late = look # Tools!NoLook /\ tool = "defrost"] /\ odu \in Odus
  BY DEF Tools!Give, ToolsInv, ToolShape
<1>1. PICK j \in Tools!Orders :
        /\ order' = [ stage |-> "post", job |-> j ]
        /\ desk' = [desk EXCEPT !.ask = Tools!NoAsk,
                      !.draft = IF tool = "defrost" /\ j.act = "load" THEN 0 ELSE @,
                      !.basis = IF tool = "defrost" /\ j.act = "load" THEN 0 ELSE @]
  BY DEF Tools!Give
<1>2. /\ j \in Errands /\ j.act # "none" /\ ShownTrue(j) /\ (j.act = "load" => j.want = 0)
  BY <1>0, OrdersTrue
<1>3. order' \in Given /\ order'.stage = "post" /\ order'.job = j
  BY <1>1, <1>2, ToolMembers DEF Given
<1>4. desk' \in Desks /\ desk'.known = desk.known /\ desk'.timer = desk.timer /\ desk'.failed = desk.failed
  BY <1>0, <1>1, ToolNothing, ToolMembers DEF Desks
<1>5. look' \in Glances /\ look'.late = (look # Tools!NoLook /\ tool = "defrost")
  BY <1>0 DEF Glances
<1>6. tool = "dump" /\ look # Tools!NoLook => look' # Tools!NoLook
  <2>1. tool = "dump" => look.late = FALSE
    BY <1>0 DEF ToolsInv, Polled, Glances
  <2>2. tool = "dump" => look' = look
    BY <1>0, <2>1 DEF Glances
  <2> QED BY <2>2
<1>7. word' \in Wordings /\ word'.saved = 0
  BY <1>0, ToolMembers DEF Wordings
<1>8. ToolShape'
  BY <1>0, <1>3, <1>4, <1>5, <1>7 DEF ToolShape
<1>9. AsShown'
  BY <1>0, <1>2, <1>3 DEF ToolsInv, AsShown, ShownTrue
<1>10. DoneAsSaid'
  BY <1>2, <1>3, <1>7 DEF DoneAsSaid
<1>11. Polled'
  BY <1>0, <1>4, <1>5, <1>6, ToolNothing DEF ToolsInv, Polled
<1> QED BY <1>8, <1>9, <1>10, <1>11 DEF ToolsInv

LEMMA PostSteps == ASSUME ToolsInv, Tools!Posted PROVE ToolsInv'
<1>0. /\ tool \in Tools!Tools /\ tool' = tool /\ spoilt' = spoilt /\ order.stage = "post" /\ word' = word
      /\ desk \in Desks /\ look' = look /\ look \in Glances /\ odu \in Odus /\ order \in Given
      /\ word \in Wordings /\ order.job \in Errands /\ Tools!Accepts(order.job)
  BY DEF Tools!Posted, ToolsInv, ToolShape, Given
<1>1. /\ odu' \in Odus /\ odu'.job = (IF order.job.act = "arm" THEN Tools!NoJob ELSE order.job)
  BY <1>0, Taken
<1>2. Tools!Status' \in Readings
  BY <1>1 DEF Tools!Status, Odus, Readings
<1>3. PICK s \in Readings : s = Tools!Status'
  BY <1>2
<1>4. /\ desk' \in Desks /\ desk'.known = s /\ desk'.timer = (tool = "dump" /\ s.busy)
  BY <1>0, <1>3, StoredTyped DEF Tools!Posted
<1>5. order # Tools!NoOrder /\ word.saved = 0 /\ order.job.act # "none"
  BY <1>0, ToolNothing DEF ToolsInv, DoneAsSaid
<1>6. \/ order' = Tools!NoOrder
      \/ /\ order' \in Given /\ order'.stage = "wait" /\ order'.job = order.job
         /\ tool \in {"settings", "frequency"} /\ order.job.act \in {"load", "save"}
  <2>1. CASE tool \in {"defrost", "dump"} \/ order.job.act = "arm"
    BY <2>1 DEF Tools!Posted
  <2>2. CASE ~(tool \in {"defrost", "dump"} \/ order.job.act = "arm")
    <3>1. order' = [order EXCEPT !.stage = "wait"]
      BY <2>2 DEF Tools!Posted
    <3>2. order.job.act \in {"none", "load", "save", "arm"}
      BY <1>0 DEF Errands, Deeds
    <3> QED BY <1>0, <1>5, <2>2, <3>1, <3>2, ToolMembers DEF Given, Tools!Tools
  <2> QED BY <2>1, <2>2
<1>7. ToolShape'
  BY <1>0, <1>1, <1>4, <1>6, ToolNothing DEF ToolShape
<1>8. AsShown'
  BY <1>0, <1>1, <1>6, ToolNothing DEF ToolsInv, AsShown, ShownTrue
<1>9. DoneAsSaid'
  <2>1. CASE order' = Tools!NoOrder
    BY <1>0, <1>5, <2>1, ToolNothing DEF DoneAsSaid
  <2>2. CASE order' # Tools!NoOrder
    <3>1. order.job.act = "save" => Doing(order.job.want)'
      BY <1>0, <1>1, <1>6, <2>2 DEF Doing
    <3> QED BY <1>0, <1>5, <1>6, <2>2, <3>1 DEF ToolsInv, DoneAsSaid, Doing
  <2> QED BY <2>1, <2>2
<1>10. Polled'
  BY <1>0, <1>4 DEF ToolsInv, Polled
<1> QED BY <1>7, <1>8, <1>9, <1>10 DEF ToolsInv

LEMMA PostFailSteps == ASSUME ToolsInv, Tools!PostFails PROVE ToolsInv'
<1>0. /\ tool \in Tools!Tools /\ tool' = tool /\ spoilt' = spoilt /\ order.stage = "post" /\ word' = word
      /\ desk \in Desks /\ look' = look /\ look \in Glances /\ odu \in Odus /\ order \in Given
      /\ word \in Wordings /\ order.job \in Errands /\ order' = Tools!NoOrder
      /\ desk' = [desk EXCEPT !.failed = TRUE]
  BY DEF Tools!PostFails, ToolsInv, ToolShape, Given
<1>1. odu' \in Odus /\ (odu'.job = odu.job \/ odu'.job = order.job \/ odu'.job = Tools!NoJob)
  BY <1>0, Taken DEF Tools!PostFails
<1>2. desk' \in Desks /\ desk'.failed
  BY <1>0 DEF Desks
<1>3. word.saved = 0
  BY <1>0, ToolNothing DEF ToolsInv, DoneAsSaid
<1>4. ToolShape'
  BY <1>0, <1>1, <1>2, ToolNothing DEF ToolShape
<1>5. AsShown'
  BY <1>0, <1>1, ToolNothing DEF ToolsInv, AsShown, ShownTrue
<1>6. DoneAsSaid'
  BY <1>0, <1>3, ToolNothing DEF DoneAsSaid
<1>7. Polled'
  BY <1>0, <1>2 DEF ToolsInv, Polled
<1> QED BY <1>4, <1>5, <1>6, <1>7 DEF ToolsInv

LEMMA WaitSteps == ASSUME ToolsInv, Tools!Wait PROVE ToolsInv'
<1>0. /\ tool \in Tools!Tools /\ tool' = tool /\ spoilt' = spoilt /\ odu' = odu /\ order.stage = "wait"
      /\ desk \in Desks /\ look' = look /\ look \in Glances /\ odu \in Odus /\ order \in Given
      /\ word \in Wordings /\ order.job \in Errands
  BY DEF Tools!Wait, ToolsInv, ToolShape, Given
<1>1. /\ tool \in {"settings", "frequency"} /\ word.saved = 0 /\ order.job.act \in {"load", "save"}
      /\ order.job.act = "load" => order.job.want = 0
      /\ order.job.act = "save" /\ ~word.stirred => Doing(order.job.want)
  BY <1>0, ToolNothing DEF ToolsInv, DoneAsSaid
<1>2. Tools!Status \in Readings /\ (Tools!Status.busy <=> odu.job # Tools!NoJob) /\ Tools!Status.result = odu.result
  BY <1>0, StatusTyped
<1>3. Tools!Stored(desk, Tools!Status) \in Desks
  BY <1>0, <1>2, StoredTyped
<1>4. look.late => tool = "defrost"
  BY DEF ToolsInv, Polled
<1>5. Polled'
  BY <1>0, <1>1, <1>4 DEF Polled
<1>6. CASE desk' = Tools!Stored(desk, Tools!Status) /\ UNCHANGED <<order, word>>
  BY <1>0, <1>3, <1>5, <1>6 DEF ToolsInv, ToolShape, AsShown, ShownTrue, DoneAsSaid, Doing
<1>7. CASE desk' = [desk EXCEPT !.failed = TRUE] /\ order' = Tools!NoOrder /\ UNCHANGED word
  <2>1. desk' \in Desks
    BY <1>0, <1>7 DEF Desks
  <2> QED BY <1>0, <1>1, <1>5, <1>7, <2>1, ToolNothing
          DEF ToolsInv, ToolShape, AsShown, ShownTrue, DoneAsSaid
<1>8. CASE /\ ~Tools!Status.busy /\ order' = Tools!NoOrder
           /\ desk' = LET d == Tools!Stored(desk, Tools!Status) IN
                      IF tool = "settings" \/ (order.job.act = "load" /\ Tools!Status.table # 0)
                      THEN [d EXCEPT !.draft = 0, !.basis = 0] ELSE d
           /\ word' = [word EXCEPT !.saved = IF Tools!Completed(Tools!Status, order.job) THEN order.job.want ELSE 0]
  <2>1. desk' \in Desks
    BY <1>3, <1>8, ToolMembers DEF Desks
  <2>2. /\ word' \in Wordings /\ word'.stirred = word.stirred
        /\ word'.saved = IF Tools!Completed(Tools!Status, order.job) THEN order.job.want ELSE 0
    BY <1>0, <1>8, ToolMembers DEF Wordings, Errands
  <2>3. odu.job = Tools!NoJob
    BY <1>2, <1>8
  <2>4. ASSUME word'.saved # 0, ~word'.stirred
        PROVE  odu.actual = word'.saved /\ (tool = "settings" => odu.profile = word'.saved /\ odu.table = word'.saved)
    <3>1. Tools!Completed(Tools!Status, order.job) /\ word'.saved = order.job.want /\ order.job.act = "save"
      BY <1>1, <2>2, <2>4
    <3>2. odu.result # "failed"
      BY <1>1, <1>2, <3>1 DEF Tools!Completed
    <3> QED BY <1>1, <2>2, <2>3, <2>4, <3>1, <3>2, ToolNothing DEF Doing
  <2>5. DoneAsSaid'
    BY <1>0, <1>1, <1>8, <2>2, <2>3, <2>4, ToolNothing DEF DoneAsSaid
  <2>6. ToolShape' /\ AsShown'
    BY <1>0, <1>8, <2>1, <2>2, ToolNothing DEF ToolsInv, ToolShape, AsShown, ShownTrue
  <2> QED BY <1>5, <2>5, <2>6 DEF ToolsInv
<1> QED BY <1>6, <1>7, <1>8 DEF Tools!Wait

LEMMA UnitSteps == ASSUME ToolsInv, Tools!CarryOut PROVE ToolsInv'
<1> DEFINE v == odu.job.want
<1>0. /\ tool \in Tools!Tools /\ tool' = tool /\ order' = order /\ word' = word /\ desk' = desk /\ look' = look
      /\ odu \in Odus /\ odu.job \in Errands /\ odu.job # Tools!NoJob /\ v \in Amounts
      /\ odu.profile \in Amounts /\ odu.actual \in Amounts /\ odu.table \in Amounts
  BY DEF Tools!CarryOut, ToolsInv, ToolShape, Odus, Errands
<1>1. /\ Tools!Profile \in Amounts
      /\ odu.job.act = "save" /\ tool = "settings" => Tools!Profile = v
  BY <1>0 DEF Tools!Profile
<1>2. /\ odu' \in Odus /\ odu'.job = Tools!NoJob /\ odu'.profile = Tools!Profile
      /\ odu'.actual # odu.actual => odu.job.act = "save" /\ (tool = "defrost" => odu.job.expect = odu.actual)
      /\ odu.job.act = "save" /\ tool # "defrost" =>
           odu'.result = "failed" \/ (odu'.result = "saved" /\ odu'.actual = v /\ odu'.table = v)
  <2>1. ASSUME Tools!Ends("failed")
        PROVE  /\ odu' \in Odus /\ odu'.job = Tools!NoJob /\ odu'.profile = Tools!Profile /\ odu'.actual = odu.actual
               /\ odu'.result = "failed"
    BY <1>0, <1>1, <2>1, ToolMembers, ToolNothing DEF Tools!Ends, Odus
  <2>2. ASSUME NEW a \in Amounts, NEW t \in Amounts, NEW r \in Ended, Tools!Done(a, t, r)
        PROVE  /\ odu' \in Odus /\ odu'.job = Tools!NoJob /\ odu'.profile = Tools!Profile /\ odu'.actual = a
               /\ odu'.table = t /\ odu'.result = r
    BY <1>0, <1>1, <2>2, ToolMembers, ToolNothing DEF Tools!Done, Odus
  <2>3. CASE Tools!Ends("failed")
    BY <2>1, <2>3
  <2>4. CASE odu.job.act = "load" /\ Tools!Done(odu.actual, odu.actual, "loaded")
    BY <1>0, <2>2, <2>4, ToolMembers
  <2>5. CASE /\ odu.job.act = "save" /\ tool = "defrost" /\ odu.job.expect # odu.actual
             /\ Tools!Done(odu.actual, odu.actual, "stale")
    BY <1>0, <2>2, <2>5, ToolMembers
  <2>6. CASE /\ odu.job.act = "save" /\ (tool = "defrost" => odu.job.expect = odu.actual)
             /\ \E ok \in BOOLEAN :
                  Tools!Done(odu.job.want, IF ok THEN odu.job.want ELSE odu.table, IF ok THEN "saved" ELSE "failed")
    <3>1. CASE Tools!Done(odu.job.want, odu.job.want, "saved")
      BY <1>0, <2>2, <2>6, <3>1, ToolMembers
    <3>2. CASE Tools!Done(odu.job.want, odu.table, "failed")
      BY <1>0, <2>2, <2>6, <3>2, ToolMembers
    <3> QED BY <2>6, <3>1, <3>2
  <2> QED BY <2>3, <2>4, <2>5, <2>6 DEF Tools!CarryOut
<1>3. ToolShape'
  BY <1>0, <1>2 DEF ToolsInv, ToolShape
<1>4. AsShown'
  <2>1. spoilt' = (spoilt \/ (odu.job.shown # 0 /\ odu'.actual # odu.actual /\ odu.job.shown # odu.actual))
    BY DEF Tools!CarryOut
  <2>2. odu.job.shown # 0 => tool = "defrost" /\ odu.job.expect = odu.job.shown
    BY DEF ToolsInv, AsShown, ShownTrue
  <2>3. ~spoilt'
    BY <1>2, <2>1, <2>2 DEF ToolsInv, AsShown
  <2> QED BY <1>0, <1>2, <2>3, ToolNothing DEF ToolsInv, AsShown, ShownTrue
<1>5. DoneAsSaid'
  <2>1. ASSUME order.stage = "wait", order.job.act = "save", ~word.stirred
        PROVE  Doing(order.job.want)'
    <3>1. tool # "defrost" /\ Doing(order.job.want)
      BY <2>1 DEF ToolsInv, DoneAsSaid
    <3>2. odu.job.act = "save" /\ v = order.job.want
      BY <1>0, <3>1 DEF Doing
    <3> QED BY <1>0, <1>1, <1>2, <3>1, <3>2 DEF Doing
  <2> QED BY <1>0, <2>1 DEF ToolsInv, DoneAsSaid
<1>6. Polled'
  BY <1>0 DEF ToolsInv, Polled
<1> QED BY <1>3, <1>4, <1>5, <1>6 DEF ToolsInv

LEMMA ReconcileSteps == ASSUME ToolsInv, Tools!Reconcile PROVE ToolsInv'
<1>0. /\ tool = "settings" /\ tool' = tool /\ order' = order /\ word' = word /\ desk' = desk /\ look' = look
      /\ spoilt' = spoilt /\ odu \in Odus /\ odu.job = Tools!NoJob /\ odu.table # odu.profile
      /\ odu' = [odu EXCEPT !.job = Tools!Write(odu.profile), !.result = "ready"]
  BY DEF Tools!Reconcile, ToolsInv, ToolShape
<1>1. /\ Tools!Write(odu.profile) \in Errands /\ Tools!Write(odu.profile).act = "save"
      /\ Tools!Write(odu.profile).want = odu.profile /\ Tools!Write(odu.profile).shown = 0
  BY <1>0, WriteTyped DEF Odus
<1>2. odu' \in Odus /\ odu'.job = Tools!Write(odu.profile)
  BY <1>0, <1>1, ToolMembers DEF Odus
<1>3. ToolShape'
  BY <1>0, <1>2 DEF ToolsInv, ToolShape
<1>4. AsShown'
  BY <1>0, <1>1, <1>2 DEF ToolsInv, AsShown, ShownTrue
<1>5. DoneAsSaid'
  <2>1. ASSUME NEW w, Doing(w) PROVE Doing(w)'
    BY <1>0, <1>1, <1>2, <2>1, ToolNothing DEF Doing
  <2>2. ~(word.saved # 0 /\ ~word.stirred)
    BY <1>0 DEF ToolsInv, DoneAsSaid
  <2> QED BY <1>0, <2>1, <2>2 DEF ToolsInv, DoneAsSaid
<1>6. Polled'
  BY <1>0 DEF ToolsInv, Polled
<1> QED BY <1>3, <1>4, <1>5, <1>6 DEF ToolsInv

LEMMA StirSteps == ASSUME ToolsInv, Tools!Stir PROVE ToolsInv'
<1>0. /\ tool' = tool /\ order' = order /\ desk' = desk /\ look' = look /\ spoilt' = spoilt /\ odu \in Odus
      /\ word \in Wordings /\ word' = [word EXCEPT !.stirred = TRUE]
  BY DEF Tools!Stir, ToolsInv, ToolShape
<1>1. word' \in Wordings /\ word'.stirred /\ word'.saved = word.saved
  BY <1>0 DEF Wordings
<1>2. odu' \in Odus /\ (odu'.job = Tools!NoJob \/ odu'.job.shown = 0)
  <2>1. CASE odu' = [odu EXCEPT !.table = 0, !.armed = FALSE, !.job = Tools!NoJob, !.result = "ready", !.boot = @ + 1]
    <3>1. odu.boot + 1 \in Nat
      BY <1>0 DEF Odus
    <3> QED BY <1>0, <2>1, <3>1, ToolMembers, ToolNothing DEF Odus
  <2>2. CASE Tools!Accepts([ act |-> "save", want |-> Tools!Other, expect |-> odu.actual, shown |-> 0 ])
    <3>1. PICK j : j = [ act |-> "save", want |-> Tools!Other, expect |-> odu.actual, shown |-> 0 ]
      OBVIOUS
    <3>2. j \in Errands /\ j.shown = 0 /\ j.act = "save"
      BY <1>0, <3>1, ToolMembers DEF Errands, Odus
    <3> QED BY <1>0, <2>2, <3>1, <3>2, Taken
  <2> QED BY <2>1, <2>2 DEF Tools!Stir
<1>3. ToolShape'
  BY <1>0, <1>1, <1>2 DEF ToolsInv, ToolShape
<1>4. AsShown'
  BY <1>0, <1>2, ToolNothing DEF ToolsInv, AsShown, ShownTrue
<1>5. DoneAsSaid'
  BY <1>0, <1>1 DEF ToolsInv, DoneAsSaid
<1>6. Polled'
  BY <1>0 DEF ToolsInv, Polled
<1> QED BY <1>3, <1>4, <1>5, <1>6 DEF ToolsInv

LEMMA ToolsNext == ToolsInv /\ [Tools!Next]_toolsVars => ToolsInv'
<1> SUFFICES ASSUME ToolsInv, [Tools!Next]_toolsVars PROVE ToolsInv'
  OBVIOUS
<1>1. CASE UNCHANGED toolsVars
  BY <1>1 DEF toolsVars, ToolsInv, ToolShape, AsShown, ShownTrue, DoneAsSaid, Doing, Polled
<1>2. CASE Tools!StartLook \/ Tools!LookEnds \/ Tools!Edit \/ Tools!AskSave \/ Tools!Cancel
  BY <1>2, LookSteps
<1>3. CASE Tools!Give
  BY <1>3, GiveSteps
<1>4. CASE Tools!Posted
  BY <1>4, PostSteps
<1>5. CASE Tools!PostFails
  BY <1>5, PostFailSteps
<1>6. CASE Tools!Wait
  BY <1>6, WaitSteps
<1>7. CASE Tools!CarryOut
  BY <1>7, UnitSteps
<1>8. CASE Tools!Reconcile
  BY <1>8, ReconcileSteps
<1>9. CASE Tools!Stir
  BY <1>9, StirSteps
<1> QED BY <1>1, <1>2, <1>3, <1>4, <1>5, <1>6, <1>7, <1>8, <1>9 DEF Tools!Next, Tools!PageStep

LEMMA ToolsTell == ToolsInv => Tools!ToolsTellTrue
BY DEF ToolsInv, AsShown, DoneAsSaid, Polled, Tools!ToolsTellTrue

-----------------------------------------------------------------------------
(***************************************************************************)
(* Part 3: the Quick Start wizard                                          *)
(***************************************************************************)
ChoiceStates   == {"none", "on", "off"}
Whats     == Quick!Telemetry \cup Quick!Sources \cup {"cm100", "test"}
Starting  == {"controls", "wait", "switch", "check"}
Wirings   == {"off", "asked", "on"}
Works     == {"", "prepare", "choice", "source", "test-start", "test-abort"}
Posting   == {"post", "confirm", "undo", "unconfirm"}
ChoiceTasks     == {"idle", "hydrate"} \cup Posting
Trying    == {"idle", "apply", "abort", "aborted"} \cup Starting

Shown     == [ choice : [Quick!Telemetry -> ChoiceStates], applied : SUBSET Quick!Sources, cm100 : BOOLEAN,
               test : BOOLEAN ]
Sites     == [ choice : [Quick!Telemetry -> ChoiceStates], applied : SUBSET Quick!Sources, cm100 : Wirings,
               test : BOOLEAN ]
OrdersDue == [ what : Whats, value : BOOLEAN ]
Wizards   == [ open : BOOLEAN, step : Quick!Steps, ready : BOOLEAN, busy : Works, error : BOOLEAN,
               copy : Shown ]
Choosers  == [ stage : ChoiceTasks, key : Quick!Telemetry, want : BOOLEAN, live : BOOLEAN ]
Trials    == [ stage : Trying, opened : BOOLEAN, lost : BOOLEAN, early : BOOLEAN ]

QuickShape == /\ site \in Sites /\ todo \in Seq(OrdersDue) /\ wizard \in Wizards
              /\ choosing \in [Quick!Writers -> Choosers] /\ trial \in Trials
              /\ monitor \in BOOLEAN /\ assured \in SUBSET Quick!Telemetry

(* One at a time: a choice that is hydrated, one that is written, the flow *)
(* source and the flow test; busyAction says which.                        *)
Acting(w) == choosing[w].stage \in Posting
BusyOf(s) == IF s \in Starting THEN "test-start" ELSE IF s = "apply" THEN "source" ELSE "test-abort"

InTurn ==
  /\ \A w \in Quick!Writers : Acting(w) => wizard.busy = "choice"
  /\ \A v, w \in Quick!Writers : Acting(v) /\ Acting(w) => v = w
  /\ \A p \in Quick!Preps : choosing[p].stage = "hydrate" /\ choosing[p].live => wizard.busy = "prepare"
  /\ \A p, q \in Quick!Preps : choosing[p].live /\ choosing[q].live => p = q
  /\ choosing[Quick!User].stage # "hydrate"
  /\ trial.stage # "idle" => wizard.busy = BusyOf(trial.stage)

Within(q, o) == \E i \in DOMAIN q : q[i] = o
Undone(q, o, undo) == \A i \in DOMAIN q : q[i] = o => \E j \in DOMAIN q : i < j /\ q[j] = undo
Once(q, o) == \A i, j \in DOMAIN q : q[i] = o /\ q[j] = o => i = j

(* Once the orders due are carried out, sharing k is off.                  *)
StaysOff(k) ==
  /\ Undone(todo, Quick!Order(k, TRUE), Quick!Order(k, FALSE))
  /\ site.choice[k] = "on" => Within(todo, Quick!Order(k, FALSE))

(* What the page said is confirmed as not sharing will be off, and no      *)
(* default is written over it, since the page's copy knows it is chosen.   *)
Assures ==
  /\ \A k \in assured : /\ StaysOff(k)
                        /\ wizard.copy.choice[k] # "none" /\ site.choice[k] # "none"
                        /\ \A w \in Quick!Writers : Acting(w) => choosing[w].key # k
  /\ \A w \in Quick!Writers :
       choosing[w].stage = "unconfirm" \/ (choosing[w].stage = "confirm" /\ ~choosing[w].want)
         => StaysOff(choosing[w].key)

Cm100(on) == Quick!Order("cm100", on)
Test(on)  == Quick!Order("test", on)

(* CM100 will be closed; or the test that this start began runs or ended.  *)
Closed == /\ Undone(todo, Cm100(TRUE), Cm100(FALSE))
          /\ site.cm100 # "off" => Within(todo, Cm100(FALSE))
Over == /\ ~Within(todo, Cm100(TRUE)) /\ ~Within(todo, Test(TRUE))
        /\ site.test \/ site.cm100 = "off"
        /\ site.test => wizard.copy.test

TrialOK ==
  /\ site.test => site.cm100 = "on"
  /\ trial.stage \in Starting => ~trial.lost
  /\ trial.stage = "controls" => ~trial.opened
  /\ ~trial.early /\ trial.stage \in {"controls", "wait", "switch"} =>
       ~site.test /\ ~Within(todo, Test(TRUE)) /\ ~wizard.copy.test
  /\ ~trial.early /\ trial.stage = "check" =>
       /\ Undone(todo, Cm100(TRUE), Test(TRUE))
       /\ Once(todo, Test(TRUE))
       /\ site.test \/ wizard.copy.test => ~Within(todo, Test(TRUE))
       /\ wizard.copy.test => site.test \/ site.cm100 = "off"
  /\ ~trial.early /\ trial.stage \notin Starting /\ trial.opened /\ ~trial.lost => Closed \/ Over

QuickInv == QuickShape /\ InTurn /\ Assures /\ TrialOK

(* Names for the values, so that no proof opens the sets above.            *)
LEMMA QuickMembers ==
  /\ \A c \in {"none", "on", "off"} : c \in ChoiceStates
  /\ \A w \in {"cm100", "test"} : w \in Whats
  /\ Quick!Telemetry \subseteq Whats /\ Quick!Sources \subseteq Whats /\ Quick!Telemetry \subseteq Quick!Steps
  /\ \A c \in {"off", "asked", "on"} : c \in Wirings
  /\ \A b \in {"", "prepare", "choice", "source", "test-start", "test-abort"} : b \in Works
  /\ \A s \in {"idle", "hydrate", "post", "confirm", "undo", "unconfirm"} : s \in ChoiceTasks
  /\ \A s \in {"idle", "apply", "abort", "aborted", "controls", "wait", "switch", "check"} : s \in Trying
  /\ "usage" \in Quick!Telemetry /\ "setup" \in Quick!Steps
  /\ "qFlowSource" \in Quick!Sources /\ "flowSource" \in Quick!Sources
  /\ \A p \in Quick!Preps : p \in Quick!Writers /\ p # Quick!User
  /\ Quick!User \in Quick!Writers /\ \A w \in Quick!Writers : w \in Quick!Preps \/ w = Quick!User
  /\ \A s \in {"post", "confirm", "undo", "unconfirm"} : s \in Posting
  /\ \A s \in {"idle", "hydrate"} : s \notin Posting
  /\ \A s \in {"controls", "wait", "switch", "check"} : s \in Starting
  /\ \A s \in {"idle", "apply", "abort", "aborted"} : s \notin Starting
  /\ \A s \in Starting : s \in {"controls", "wait", "switch", "check"}
  /\ \A s \in Posting : s \in {"post", "confirm", "undo", "unconfirm"}
BY DEF ChoiceStates, Whats, Quick!Telemetry, Quick!Sources, Quick!Steps, Wirings, Works,
   ChoiceTasks, Posting, Trying, Starting,
       Quick!Preps, Quick!Writers, Quick!User

LEMMA NoChoiceTyped ==
  Quick!NoChoice \in Choosers /\ Quick!NoChoice.stage = "idle" /\ Quick!NoChoice.live = FALSE
BY QuickMembers DEF Quick!NoChoice, Choosers

LEMMA OrderTyped ==
  ASSUME NEW w \in Whats, NEW v \in BOOLEAN
  PROVE  /\ Quick!Order(w, v) \in OrdersDue
         /\ \A x, y : Quick!Order(w, v) = Quick!Order(x, y) <=> w = x /\ v = y
BY DEF Quick!Order, OrdersDue

LEMMA TellTyped ==
  ASSUME wizard \in Wizards, NEW f \in Shown, NEW e, Quick!Told(f, e)
  PROVE  /\ wizard' \in Wizards /\ wizard'.copy = f /\ wizard'.busy = ""
         /\ wizard'.step = wizard.step /\ wizard'.open = wizard.open /\ wizard'.ready = wizard.ready
BY QuickMembers DEF Quick!Told, Wizards

LEMMA SeesTyped ==
  ASSUME wizard \in Wizards, NEW f \in Shown, wizard' = Quick!Sees(f)
  PROVE  /\ wizard' \in Wizards /\ wizard'.copy = f /\ wizard'.busy = wizard.busy
         /\ wizard'.step = wizard.step /\ wizard'.open = wizard.open /\ wizard'.ready = wizard.ready
BY DEF Quick!Sees, Wizards

LEMMA BusyTyped ==
  ASSUME wizard \in Wizards, NEW b \in Works, Quick!Busy(b)
  PROVE  /\ wizard' \in Wizards /\ wizard'.copy = wizard.copy /\ wizard'.busy = b
         /\ wizard'.step = wizard.step /\ wizard'.open = wizard.open /\ wizard'.ready = wizard.ready
BY DEF Quick!Busy, Wizards

LEMMA StageTyped ==
  ASSUME trial \in Trials, NEW s \in Trying, Quick!Stage(s)
  PROVE  /\ trial' \in Trials /\ trial'.stage = s /\ trial'.opened = trial.opened
         /\ trial'.lost = trial.lost /\ trial'.early = trial.early
BY DEF Quick!Stage, Trials

(* The orders that are due, one more and one less.                         *)
LEMMA OneMoreOrder ==
  ASSUME NEW q \in Seq(OrdersDue), NEW o \in OrdersDue, NEW r, r = Append(q, o)
  PROVE  /\ r \in Seq(OrdersDue) /\ r # <<>>
         /\ \A p : Within(r, p) <=> Within(q, p) \/ p = o
         /\ \A p, u : Undone(q, p, u) /\ p # o => Undone(r, p, u)
         /\ \A p, u : u = o /\ p # o => Undone(r, p, u)
         /\ \A p : Once(q, p) /\ p # o => Once(r, p)
         /\ ~Within(q, o) => Once(r, o)
<1>1. /\ r \in Seq(OrdersDue) /\ Len(r) = Len(q) + 1 /\ Len(q) \in Nat
      /\ DOMAIN r = 1 .. Len(q) + 1 /\ DOMAIN q = 1 .. Len(q)
      /\ r[Len(q) + 1] = o /\ \A i \in 1 .. Len(q) : r[i] = q[i]
  OBVIOUS
<1>2. \A p : Within(r, p) <=> Within(q, p) \/ p = o
  BY <1>1 DEF Within
<1>3. \A p, u : Undone(q, p, u) /\ p # o => Undone(r, p, u)
  <2> SUFFICES ASSUME NEW p, NEW u, Undone(q, p, u), p # o, NEW i \in DOMAIN r, r[i] = p
               PROVE  \E j \in DOMAIN r : i < j /\ r[j] = u
    BY DEF Undone
  <2>1. i \in DOMAIN q /\ q[i] = p
    BY <1>1
  <2>2. PICK j \in DOMAIN q : i < j /\ q[j] = u
    BY <2>1 DEF Undone
  <2> QED BY <1>1, <2>2
<1>4. \A p, u : u = o /\ p # o => Undone(r, p, u)
  BY <1>1 DEF Undone
<1>5. \A p : Once(q, p) /\ p # o => Once(r, p)
  BY <1>1 DEF Once
<1>6. ~Within(q, o) => Once(r, o)
  BY <1>1 DEF Once, Within
<1> QED BY <1>1, <1>2, <1>3, <1>4, <1>5, <1>6

LEMMA OneLess ==
  ASSUME NEW q \in Seq(OrdersDue), q # <<>>, NEW r, r = Tail(q)
  PROVE  /\ r \in Seq(OrdersDue) /\ Head(q) \in OrdersDue
         /\ \A p : Within(q, p) <=> Within(r, p) \/ p = Head(q)
         /\ \A p, u : Undone(q, p, u) => Undone(r, p, u)
         /\ \A p, u : Undone(q, p, u) /\ p = Head(q) => Within(r, u)
         /\ \A p : Once(q, p) => Once(r, p)
         /\ \A p : Once(q, p) /\ p = Head(q) => ~Within(r, p)
<1>1. /\ r \in Seq(OrdersDue) /\ Len(r) = Len(q) - 1 /\ Len(q) \in Nat \ {0}
      /\ DOMAIN r = 1 .. Len(q) - 1 /\ DOMAIN q = 1 .. Len(q)
      /\ \A i \in 1 .. Len(q) - 1 : r[i] = q[i + 1]
      /\ Head(q) = q[1] /\ Head(q) \in OrdersDue
  OBVIOUS
<1>2. \A i \in DOMAIN q : i # 1 => i - 1 \in DOMAIN r /\ r[i - 1] = q[i]
  BY <1>1
<1>3. \A p : Within(q, p) <=> Within(r, p) \/ p = Head(q)
  <2> SUFFICES ASSUME NEW p PROVE Within(q, p) <=> Within(r, p) \/ p = Head(q)
    OBVIOUS
  <2>1. Within(q, p) => Within(r, p) \/ p = Head(q)
    BY <1>1, <1>2 DEF Within
  <2>2. Within(r, p) \/ p = Head(q) => Within(q, p)
    <3>1. CASE Within(r, p)
      <4>1. PICK i \in DOMAIN r : r[i] = p
        BY <3>1 DEF Within
      <4>2. i + 1 \in DOMAIN q /\ q[i + 1] = p
        BY <1>1, <4>1
      <4> QED BY <4>2 DEF Within
    <3>2. CASE p = Head(q)
      BY <1>1, <3>2 DEF Within
    <3> QED BY <3>1, <3>2
  <2> QED BY <2>1, <2>2
<1>4. ASSUME NEW p, NEW u, Undone(q, p, u) PROVE Undone(r, p, u) /\ (p = Head(q) => Within(r, u))
  <2>1. ASSUME NEW i \in DOMAIN r, r[i] = p PROVE \E j \in DOMAIN r : i < j /\ r[j] = u
    <3>1. i + 1 \in DOMAIN q /\ q[i + 1] = p
      BY <1>1, <2>1
    <3>2. PICK j \in DOMAIN q : i + 1 < j /\ q[j] = u
      BY <1>4, <3>1 DEF Undone
    <3>3. j - 1 \in DOMAIN r /\ r[j - 1] = u /\ i < j - 1
      BY <1>1, <1>2, <3>2
    <3> QED BY <3>3
  <2>2. ASSUME p = Head(q) PROVE Within(r, u)
    <3>1. 1 \in DOMAIN q /\ q[1] = p
      BY <1>1, <2>2
    <3>2. PICK j \in DOMAIN q : 1 < j /\ q[j] = u
      BY <1>4, <3>1 DEF Undone
    <3>3. j - 1 \in DOMAIN r /\ r[j - 1] = u
      BY <1>1, <1>2, <3>2
    <3> QED BY <3>3 DEF Within
  <2> QED BY <2>1, <2>2 DEF Undone
<1>5. ASSUME NEW p, Once(q, p) PROVE Once(r, p) /\ (p = Head(q) => ~Within(r, p))
  <2>1. \A i \in DOMAIN r : r[i] = p => i + 1 \in DOMAIN q /\ q[i + 1] = p /\ i \in Nat /\ i >= 1
    BY <1>1
  <2>2. Once(r, p)
    BY <1>5, <2>1 DEF Once
  <2>3. p = Head(q) => ~Within(r, p)
    <3> SUFFICES ASSUME p = Head(q), NEW i \in DOMAIN r, r[i] = p PROVE FALSE
      BY DEF Within
    <3>1. i + 1 = 1
      BY <1>1, <1>5, <2>1 DEF Once
    <3> QED BY <2>1, <3>1
  <2> QED BY <2>2, <2>3
<1> QED BY <1>1, <1>3, <1>4, <1>5

-----------------------------------------------------------------------------
LEMMA QuickInit == Quick!Init => QuickInv
<1> SUFFICES ASSUME Quick!Init PROVE QuickInv
  OBVIOUS
<1>1. /\ todo = <<>> /\ trial = Quick!NoTrial /\ monitor = FALSE /\ assured = {}
      /\ choosing = [w \in Quick!Writers |-> Quick!NoChoice]
      /\ site.cm100 = "off" /\ site.test = FALSE
  BY DEF Quick!Init
<1>2. site \in Sites
  BY QuickMembers DEF Quick!Init, Sites
<1>3. wizard \in Wizards
  BY QuickMembers DEF Quick!Init, Wizards, Shown
<1>4. trial \in Trials /\ trial.stage = "idle" /\ trial.opened = FALSE
  BY <1>1, QuickMembers DEF Quick!NoTrial, Trials
<1>5. QuickShape
  <2>1. todo \in Seq(OrdersDue)
    BY <1>1
  <2>2. choosing \in [Quick!Writers -> Choosers]
    BY <1>1, NoChoiceTyped
  <2> QED BY <1>1, <1>2, <1>3, <1>4, <2>1, <2>2 DEF QuickShape
<1>6. \A w \in Quick!Writers : choosing[w] = Quick!NoChoice
  BY <1>1
<1>7. InTurn
  BY <1>4, <1>6, NoChoiceTyped, QuickMembers DEF InTurn, Acting
<1>8. Assures
  BY <1>1, <1>6, NoChoiceTyped DEF Assures
<1>9. TrialOK
  BY <1>1, <1>4, QuickMembers DEF TrialOK
<1> QED BY <1>5, <1>7, <1>8, <1>9 DEF QuickInv

(* What is due stays, or orders are added that are none of these.          *)
Besides(few) == \/ todo' = todo
                \/ \E o \in OrdersDue : o \notin few /\ todo' = Append(todo, o)
                \/ \E o, n \in OrdersDue : o \notin few /\ n \notin few /\ todo' = Append(Append(todo, o), n)

LEMMA BesidesKeeps ==
  ASSUME QuickShape, NEW few, Besides(few)
  PROVE  /\ todo' \in Seq(OrdersDue)
         /\ \A p : p \in few => (Within(todo', p) <=> Within(todo, p))
         /\ \A p, u : p \in few /\ Undone(todo, p, u) => Undone(todo', p, u)
         /\ \A p, u : Within(todo, u) => Within(todo', u)
         /\ \A p : p \in few /\ Once(todo, p) => Once(todo', p)
<1>0. todo \in Seq(OrdersDue)
  BY DEF QuickShape
<1>1. CASE todo' = todo
  BY <1>0, <1>1 DEF Within, Undone, Once
<1>2. CASE \E o \in OrdersDue : o \notin few /\ todo' = Append(todo, o)
  <2>1. PICK o \in OrdersDue : o \notin few /\ todo' = Append(todo, o)
    BY <1>2
  <2> QED BY <1>0, <2>1, OneMoreOrder
<1>3. CASE \E o, n \in OrdersDue : o \notin few /\ n \notin few /\ todo' = Append(Append(todo, o), n)
  <2>1. PICK o, n \in OrdersDue : o \notin few /\ n \notin few /\ todo' = Append(Append(todo, o), n)
    BY <1>3
  <2>2. PICK q : q = Append(todo, o)
    OBVIOUS
  <2>3. /\ q \in Seq(OrdersDue)
        /\ \A p : Within(q, p) <=> Within(todo, p) \/ p = o
        /\ \A p, u : Undone(todo, p, u) /\ p # o => Undone(q, p, u)
        /\ \A p : Once(todo, p) /\ p # o => Once(q, p)
    BY <1>0, <2>1, <2>2, OneMoreOrder
  <2>4. todo' = Append(q, n)
    BY <2>1, <2>2
  <2>5. /\ todo' \in Seq(OrdersDue)
        /\ \A p : Within(todo', p) <=> Within(q, p) \/ p = n
        /\ \A p, u : Undone(q, p, u) /\ p # n => Undone(todo', p, u)
        /\ \A p : Once(q, p) /\ p # n => Once(todo', p)
    BY <2>1, <2>3, <2>4, OneMoreOrder
  <2> QED BY <2>1, <2>3, <2>5
<1> QED BY <1>1, <1>2, <1>3 DEF Besides

Hot == {Cm100(TRUE), Test(TRUE)}

(* Nothing that bears on the flow test happens.                            *)
LEMMA TrialRests ==
  ASSUME QuickInv, Besides(Hot), site'.cm100 = site.cm100, site'.test = site.test,
         wizard'.copy.test \in {wizard.copy.test, site.test},
         trial'.opened = trial.opened, trial'.lost = trial.lost, trial'.early = trial.early,
         \/ trial'.stage = trial.stage
         \/ trial'.stage \notin Starting /\ trial.stage \notin Starting
  PROVE  TrialOK'
<1>1. /\ Cm100(TRUE) \in Hot /\ Test(TRUE) \in Hot
  BY DEF Hot
<1>2. /\ Within(todo', Test(TRUE)) <=> Within(todo, Test(TRUE))
      /\ Within(todo', Cm100(TRUE)) <=> Within(todo, Cm100(TRUE))
      /\ \A u : Undone(todo, Cm100(TRUE), u) => Undone(todo', Cm100(TRUE), u)
      /\ \A u : Within(todo, u) => Within(todo', u)
      /\ Once(todo, Test(TRUE)) => Once(todo', Test(TRUE))
  BY <1>1, BesidesKeeps DEF QuickInv
<1>3. "controls" \in Starting /\ "wait" \in Starting /\ "switch" \in Starting /\ "check" \in Starting
  BY QuickMembers
<1>4. Closed => Closed'
  BY <1>2 DEF Closed, Cm100, Quick!Order
<1>5. Over => Over'
  BY <1>2 DEF Over, Cm100, Test, Quick!Order
<1> USE DEF QuickInv, TrialOK
<1>6. (site'.test => site'.cm100 = "on") /\ (trial'.stage \in Starting => ~trial'.lost)
      /\ (trial'.stage = "controls" => ~trial'.opened)
  BY <1>3
<1>7. ~trial'.early /\ trial'.stage \in {"controls", "wait", "switch"} =>
       ~site'.test /\ ~Within(todo', Test(TRUE)) /\ ~wizard'.copy.test
  BY <1>2, <1>3
<1>8. ~trial'.early /\ trial'.stage = "check" =>
       /\ Undone(todo', Cm100(TRUE), Test(TRUE)) /\ Once(todo', Test(TRUE))
       /\ site'.test \/ wizard'.copy.test => ~Within(todo', Test(TRUE))
       /\ wizard'.copy.test => site'.test \/ site'.cm100 = "off"
  BY <1>2, <1>3
<1>9. ~trial'.early /\ trial'.stage \notin Starting /\ trial'.opened /\ ~trial'.lost => (Closed \/ Over)'
  BY <1>3, <1>4, <1>5
<1> QED BY <1>6, <1>7, <1>8, <1>9 DEF Cm100, Test, Quick!Order

Yes(k) == Quick!Order(k, TRUE)
Sharing == {Yes(k) : k \in Quick!Telemetry}

(* Nothing that bears on the telemetry choices happens.                    *)
LEMMA ChoiceRests ==
  ASSUME QuickInv, Besides(Sharing), site'.choice = site.choice, assured' \subseteq assured,
         \A k \in Quick!Telemetry : wizard'.copy.choice[k] \in {wizard.copy.choice[k], site.choice[k]},
         \A w \in Quick!Writers : Acting(w)' => choosing'[w].stage = choosing[w].stage
                                          /\ choosing'[w].key = choosing[w].key
                                          /\ choosing'[w].want = choosing[w].want
  PROVE  Assures'
<1>1. \A k \in Quick!Telemetry : StaysOff(k) => StaysOff(k)'
  <2> SUFFICES ASSUME NEW k \in Quick!Telemetry, StaysOff(k) PROVE StaysOff(k)'
    OBVIOUS
  <2>1. Quick!Order(k, TRUE) \in Sharing
    BY DEF Sharing, Yes
  <2>2. /\ \A u : Undone(todo, Quick!Order(k, TRUE), u) => Undone(todo', Quick!Order(k, TRUE), u)
        /\ \A u : Within(todo, u) => Within(todo', u)
    BY <2>1, BesidesKeeps DEF QuickInv
  <2> QED BY <2>2 DEF StaysOff, Quick!Order
<1>2. assured' \subseteq Quick!Telemetry /\ assured \subseteq Quick!Telemetry
  BY DEF QuickInv, QuickShape
<1>3. \A w \in Quick!Writers : Acting(w)' => Acting(w)
  BY DEF Acting
<1>4. ASSUME NEW k \in assured'
      PROVE  /\ StaysOff(k)' /\ wizard'.copy.choice[k] # "none" /\ site'.choice[k] # "none"
             /\ \A w \in Quick!Writers : Acting(w)' => choosing'[w].key # k
  BY <1>1, <1>2, <1>3, <1>4 DEF QuickInv, Assures
<1>5. ASSUME NEW w \in Quick!Writers,
             choosing'[w].stage = "unconfirm" \/ (choosing'[w].stage = "confirm" /\ ~choosing'[w].want)
      PROVE  StaysOff(choosing[w].key)' /\ choosing'[w].key = choosing[w].key
  <2>1. Acting(w)'
    BY <1>5, QuickMembers DEF Acting
  <2>2. StaysOff(choosing[w].key)
    BY <2>1, <1>5 DEF QuickInv, Assures
  <2>3. choosing[w].key \in Quick!Telemetry
    BY DEF QuickInv, QuickShape, Choosers
  <2> QED BY <1>1, <2>1, <2>2, <2>3
<1> QED BY <1>4, <1>5 DEF Assures

-----------------------------------------------------------------------------
(* The steps of the wizard                                                 *)

LEMMA BumpedTyped ==
  ASSUME choosing \in [Quick!Writers -> Choosers]
  PROVE  /\ Quick!Bumped \in [Quick!Writers -> Choosers]
         /\ \A w \in Quick!Writers : /\ Quick!Bumped[w].stage = choosing[w].stage /\ Quick!Bumped[w].key = choosing[w].key
                               /\ Quick!Bumped[w].want = choosing[w].want
                               /\ (Quick!Bumped[w].live <=> choosing[w].live /\ w = Quick!User)
BY DEF Quick!Bumped, Choosers

LEMMA BusyOfOthers == \A s \in Trying : s # "idle" => BusyOf(s) \notin {"", "prepare", "choice"}
BY DEF BusyOf

(* The page turns to another step, or is closed: a choice under way is     *)
(* bumped, a preparation that was under way is not any more.               *)
Turns ==
  /\ wizard' \in Wizards /\ wizard'.copy = wizard.copy
  /\ choosing' = Quick!Bumped
  /\ wizard'.busy = IF wizard.busy = "prepare" THEN "" ELSE wizard.busy

LEMMA TurnsKeep == ASSUME QuickInv, Turns, trial' = trial PROVE InTurn'
<1>1. /\ \A w \in Quick!Writers : /\ choosing'[w].stage = choosing[w].stage
                            /\ (choosing'[w].live <=> choosing[w].live /\ w = Quick!User)
  BY BumpedTyped DEF QuickInv, QuickShape, Turns
<1>2. \A p \in Quick!Preps : p \in Quick!Writers /\ ~choosing'[p].live
  BY <1>1, QuickMembers
<1>3. trial.stage # "idle" => wizard.busy \notin {"", "prepare", "choice"}
  BY BusyOfOthers DEF QuickInv, InTurn, QuickShape, Trials
<1>4. \A w \in Quick!Writers : Acting(w)' <=> Acting(w)
  BY <1>1 DEF Acting
<1>5. Quick!User \in Quick!Writers
  BY QuickMembers
<1> QED BY <1>1, <1>2, <1>3, <1>4, <1>5 DEF QuickInv, InTurn, Turns, BusyOf

LEMMA SteadyQuick ==
  ASSUME QuickInv, site' = site, todo' = todo, trial' = trial, monitor' = monitor,
         assured' = assured,
         wizard' \in Wizards, wizard'.copy = wizard.copy, choosing' \in [Quick!Writers -> Choosers], InTurn',
         \A w \in Quick!Writers : Acting(w)' => /\ choosing'[w].stage = choosing[w].stage
                                          /\ choosing'[w].key = choosing[w].key
                                          /\ choosing'[w].want = choosing[w].want
  PROVE  QuickInv'
<1>1. QuickShape'
  BY DEF QuickInv, QuickShape
<1>2. Besides(Hot) /\ Besides(Sharing)
  BY DEF Besides
<1>3. TrialOK'
  BY <1>2, TrialRests
<1>4. Assures'
  BY <1>2, ChoiceRests
<1> QED BY <1>1, <1>3, <1>4 DEF QuickInv

LEMMA TurnsSteady ==
  ASSUME QuickInv, Turns, site' = site, todo' = todo, trial' = trial, monitor' = monitor,
         assured' = assured
  PROVE  QuickInv'
<1>1. InTurn'
  BY TurnsKeep
<1>2. /\ choosing' \in [Quick!Writers -> Choosers]
      /\ \A w \in Quick!Writers : /\ choosing'[w].stage = choosing[w].stage
                            /\ choosing'[w].key = choosing[w].key
                            /\ choosing'[w].want = choosing[w].want
  BY BumpedTyped DEF Turns, QuickInv, QuickShape
<1> QED BY <1>1, <1>2, SteadyQuick DEF Turns

LEMMA PrepareQuickKeeps ==
  ASSUME QuickInv, NEW s \in Quick!Steps, Quick!Prepare(s), site' = site, todo' = todo,
         trial' = trial,
         monitor' = monitor, assured' = assured
  PROVE  QuickInv'
<1>0. /\ wizard \in Wizards /\ choosing \in [Quick!Writers -> Choosers] /\ trial.stage \in Trying
      /\ wizard.busy \in Works
  BY DEF QuickInv, QuickShape, Trials, Wizards
<1>1. CASE s \in Quick!Telemetry /\ wizard.busy \in {"", "prepare"}
  <2>0. /\ "prepare" \in Works /\ "hydrate" \in ChoiceTasks /\ "hydrate" \notin Posting
        /\ \A p \in Quick!Preps : p \in Quick!Writers /\ p # Quick!User
        /\ Quick!User \in Quick!Writers /\ (\A w \in Quick!Writers : w \in Quick!Preps \/ w = Quick!User)
    BY QuickMembers
  <2>1. wizard' = [wizard EXCEPT !.step = s, !.open = TRUE, !.busy = "prepare", !.error = FALSE]
    BY <1>1 DEF Quick!Prepare
  <2>2. PICK p \in Quick!Preps :
          choosing' = [Quick!Bumped EXCEPT ![p] = [ stage |-> "hydrate", key |-> s, want |-> s = "usage",
                                              live |-> TRUE ]]
    BY <1>1 DEF Quick!Prepare
  <2>3. wizard' \in Wizards /\ wizard'.copy = wizard.copy /\ wizard'.busy = "prepare"
    BY <1>0, <2>0, <2>1 DEF Wizards
  <2>4. [ stage |-> "hydrate", key |-> s, want |-> s = "usage", live |-> TRUE ] \in Choosers
    BY <1>1, <2>0 DEF Choosers
  <2>5. choosing' \in [Quick!Writers -> Choosers]
    BY <1>0, <2>0, <2>2, <2>4, BumpedTyped
  <2>6. choosing'[p].stage = "hydrate" /\ choosing'[p].live
    BY <1>0, <2>0, <2>2, BumpedTyped
  <2>7. \A w \in Quick!Writers \ {p} :
          /\ choosing'[w].stage = choosing[w].stage /\ choosing'[w].key = choosing[w].key
          /\ choosing'[w].want = choosing[w].want /\ (choosing'[w].live <=> choosing[w].live /\ w = Quick!User)
    BY <1>0, <2>0, <2>2, BumpedTyped
  <2>8. \A w \in Quick!Writers : ~Acting(w)
    BY <1>1 DEF QuickInv, InTurn
  <2>9. \A w \in Quick!Writers : ~Acting(w)'
    BY <2>0, <2>6, <2>7, <2>8 DEF Acting
  <2>10. trial.stage = "idle"
    BY <1>0, <1>1, BusyOfOthers DEF QuickInv, InTurn
  <2>11. \A q \in Quick!Preps : choosing'[q].live => q = p
    BY <2>0, <2>7
  <2>12. InTurn'
    BY <2>0, <2>3, <2>7, <2>9, <2>10, <2>11 DEF QuickInv, InTurn
  <2> QED BY <2>3, <2>5, <2>9, <2>12, SteadyQuick
<1>2. CASE ~(s \in Quick!Telemetry /\ wizard.busy \in {"", "prepare"})
  <2>0. "" \in Works
    BY QuickMembers
  <2>1. Turns
    BY <1>0, <1>2, <2>0 DEF Quick!Prepare, Turns, Wizards
  <2> QED BY <2>1, TurnsSteady
<1> QED BY <1>1, <1>2

LEMMA StepSteps == ASSUME QuickInv, Quick!StepNext PROVE QuickInv'
<1>0. wizard \in Wizards /\ choosing \in [Quick!Writers -> Choosers] /\ "" \in Works /\ "setup" \in Quick!Steps
  BY QuickMembers DEF QuickInv, QuickShape
<1>1. CASE Quick!SelectStep
  <2>1. /\ site' = site /\ todo' = todo /\ trial' = trial /\ monitor' = monitor /\ assured' = assured
    BY <1>1 DEF Quick!SelectStep
  <2>2. PICK s \in Quick!Steps : IF Quick!Allowed(s) THEN Quick!Prepare(s)
                           ELSE wizard' = [wizard EXCEPT !.error = TRUE] /\ UNCHANGED choosing
    BY <1>1 DEF Quick!SelectStep
  <2>3. CASE Quick!Allowed(s)
    BY <2>1, <2>2, <2>3, PrepareQuickKeeps
  <2>4. CASE ~Quick!Allowed(s)
    <3>1. /\ wizard' \in Wizards /\ wizard'.copy = wizard.copy /\ wizard'.busy = wizard.busy
          /\ choosing' = choosing
      BY <1>0, <2>2, <2>4 DEF Wizards
    <3>2. InTurn'
      BY <2>1, <3>1 DEF QuickInv, InTurn, Acting, BusyOf
    <3> QED BY <1>0, <2>1, <3>1, <3>2, SteadyQuick
  <2> QED BY <2>3, <2>4
<1>2. CASE Quick!Retry
  <2>1. wizard.step \in Quick!Steps
    BY <1>0 DEF Wizards
  <2> QED BY <1>2, <2>1, PrepareQuickKeeps DEF Quick!Retry
<1>3. CASE Quick!CloseModal
  <2>1. Turns
    BY <1>0, <1>3 DEF Quick!CloseModal, Turns, Wizards
  <2> QED BY <1>3, <2>1, TurnsSteady DEF Quick!CloseModal
<1>4. CASE Quick!OpenModal \/ Quick!SetupDone
  <2>1. /\ site' = site /\ todo' = todo /\ trial' = trial /\ monitor' = monitor /\ assured' = assured
        /\ choosing' = choosing
    BY <1>4 DEF Quick!OpenModal, Quick!SetupDone
  <2>2. wizard' \in Wizards /\ wizard'.copy = wizard.copy /\ wizard'.busy = wizard.busy
    BY <1>0, <1>4 DEF Quick!OpenModal, Quick!SetupDone, Wizards
  <2>3. InTurn'
    BY <2>1, <2>2 DEF QuickInv, InTurn, Acting, BusyOf
  <2> QED BY <1>0, <2>1, <2>2, <2>3, SteadyQuick
<1> QED BY <1>1, <1>2, <1>3, <1>4 DEF Quick!StepNext

-----------------------------------------------------------------------------
(* The device                                                              *)

LEMMA CarriedOut ==
  ASSUME site \in Sites, NEW o \in OrdersDue, site' \in Quick!Carried(o)
  PROVE  /\ site' \in Sites
         /\ \A k \in Quick!Telemetry : site'.choice[k] = "on" => site.choice[k] = "on" \/ o = Quick!Order(k, TRUE)
         /\ \A k \in Quick!Telemetry : site'.choice[k] = "on" => o # Quick!Order(k, FALSE)
         /\ site'.cm100 # "off" => site.cm100 # "off" \/ o = Cm100(TRUE)
         /\ site'.cm100 # "off" => o # Cm100(FALSE)
         /\ site'.test => site.test \/ (o = Test(TRUE) /\ site.cm100 = "on")
         /\ site.test => site'.test \/ site'.cm100 = "off"
         /\ site.cm100 = "on" /\ site'.test => site'.cm100 = "on"
<1>0. /\ o.what \in Whats /\ o.value \in BOOLEAN /\ o = Quick!Order(o.what, o.value)
      /\ "on" \in ChoiceStates /\ "off" \in ChoiceStates /\ "none" \in ChoiceStates
      /\ "off" \in Wirings /\ "asked" \in Wirings /\ "on" \in Wirings
  BY QuickMembers DEF OrdersDue, Quick!Order
<1>1. /\ \A k \in Quick!Telemetry : k \notin Quick!Sources /\ k # "cm100" /\ k # "test"
      /\ \A k \in Quick!Sources : k # "cm100" /\ k # "test"
      /\ "cm100" # "test"
  BY DEF Quick!Telemetry, Quick!Sources
<1>2. /\ \A k, v : o = Quick!Order(k, v) => o.what = k /\ o.value = v
      /\ Cm100(TRUE) = Quick!Order("cm100", TRUE) /\ Cm100(FALSE) = Quick!Order("cm100", FALSE)
      /\ Test(TRUE) = Quick!Order("test", TRUE)
  BY DEF Quick!Order, Cm100, Test
<1>3. CASE o.what \in Quick!Telemetry
  <2>1. PICK c \in {"on", "off", "none"} :
          site' = [site EXCEPT !.choice[o.what] = c] /\ (c = "on" => o.value) /\ (c = "off" => ~o.value)
    BY <1>0, <1>1, <1>3 DEF Quick!Carried
  <2>2. site' \in Sites
    BY <1>0, <1>3, <2>1 DEF Sites
  <2>3. /\ site'.cm100 = site.cm100 /\ site'.test = site.test
        /\ site'.choice[o.what] = c /\ \A k \in Quick!Telemetry \ {o.what} : site'.choice[k] = site.choice[k]
    BY <1>3, <2>1 DEF Sites
  <2>4. o # Cm100(TRUE) /\ o # Cm100(FALSE) /\ o # Test(TRUE)
    BY <1>1, <1>2, <1>3
  <2>5. ASSUME NEW k \in Quick!Telemetry, site'.choice[k] = "on"
        PROVE  (site.choice[k] = "on" \/ o = Quick!Order(k, TRUE)) /\ o # Quick!Order(k, FALSE)
    <3>1. CASE k = o.what
      <4>1. c = "on" /\ o.value = TRUE
        BY <1>0, <2>1, <2>3, <2>5, <3>1
      <4> QED BY <1>0, <1>2, <3>1, <4>1
    <3>2. CASE k # o.what
      BY <1>2, <2>3, <2>5, <3>2
    <3> QED BY <3>1, <3>2
  <2> QED BY <2>2, <2>3, <2>4, <2>5
<1>4. CASE o.what \in Quick!Sources
  <2>1. site' = [site EXCEPT !.applied = @ \cup {o.what}]
    BY <1>1, <1>4 DEF Quick!Carried
  <2> QED BY <1>1, <1>2, <1>4, <2>1 DEF Sites
<1>5. CASE o.what = "cm100" /\ o.value
  <2>1. \/ site' = [site EXCEPT !.cm100 = IF @ = "on" THEN @ ELSE "asked"]
        \/ site' = site
    BY <1>1, <1>5 DEF Quick!Carried
  <2> QED BY <1>0, <1>1, <1>2, <1>5, <2>1 DEF Sites
<1>6. CASE o.what = "cm100" /\ ~o.value
  <2>1. site' = [site EXCEPT !.cm100 = "off", !.test = FALSE]
    BY <1>1, <1>6 DEF Quick!Carried
  <2> QED BY <1>0, <1>1, <1>2, <1>6, <2>1 DEF Sites
<1>7. CASE o.what = "test" /\ o.value
  <2>1. \/ site' = [site EXCEPT !.test = @ \/ site.cm100 = "on"]
        \/ site' = site
    BY <1>1, <1>7 DEF Quick!Carried
  <2> QED BY <1>0, <1>1, <1>2, <1>7, <2>1 DEF Sites
<1>8. CASE o.what = "test" /\ ~o.value
  <2>1. site' = IF site.test THEN [site EXCEPT !.test = FALSE, !.cm100 = "off"] ELSE site
    BY <1>1, <1>8 DEF Quick!Carried
  <2> QED BY <1>0, <1>1, <1>2, <1>8, <2>1 DEF Sites
<1> QED BY <1>0, <1>3, <1>4, <1>5, <1>6, <1>7, <1>8 DEF Whats

LEMMA MainLoopKeeps == ASSUME QuickInv, Quick!MainLoop PROVE QuickInv'
<1>0. /\ todo # <<>> /\ todo' = Tail(todo) /\ site' \in Quick!Carried(Head(todo))
      /\ assured' = {k \in assured : site'.choice[k] # "none"}
      /\ wizard' = wizard /\ choosing' = choosing /\ trial' = trial /\ monitor' = monitor
  BY DEF Quick!MainLoop
<1> DEFINE o == Head(todo)
<1>1. /\ todo' \in Seq(OrdersDue) /\ o \in OrdersDue
      /\ \A p : Within(todo, p) <=> Within(todo', p) \/ p = o
      /\ \A p, u : Undone(todo, p, u) => Undone(todo', p, u)
      /\ \A p, u : Undone(todo, p, u) /\ p = o => Within(todo', u)
      /\ \A p : Once(todo, p) => Once(todo', p)
      /\ \A p : Once(todo, p) /\ p = o => ~Within(todo', p)
  BY <1>0, OneLess DEF QuickInv, QuickShape
<1> HIDE DEF o
<1>2. /\ site' \in Sites
      /\ \A k \in Quick!Telemetry : site'.choice[k] = "on" => site.choice[k] = "on" \/ o = Quick!Order(k, TRUE)
      /\ \A k \in Quick!Telemetry : site'.choice[k] = "on" => o # Quick!Order(k, FALSE)
      /\ site'.cm100 # "off" => site.cm100 # "off" \/ o = Cm100(TRUE)
      /\ site'.cm100 # "off" => o # Cm100(FALSE)
      /\ site'.test => site.test \/ (o = Test(TRUE) /\ site.cm100 = "on")
      /\ site.test => site'.test \/ site'.cm100 = "off"
      /\ site.cm100 = "on" /\ site'.test => site'.cm100 = "on"
  BY <1>0, <1>1, CarriedOut DEF QuickInv, QuickShape, o
<1>3. QuickShape'
  BY <1>0, <1>1, <1>2 DEF QuickInv, QuickShape
<1>4. InTurn'
  BY <1>0 DEF QuickInv, InTurn, Acting, BusyOf
<1>5. \A k \in Quick!Telemetry : StaysOff(k) => StaysOff(k)'
  BY <1>1, <1>2 DEF StaysOff
<1>6. Assures'
  <2>1. assured \subseteq Quick!Telemetry /\ \A w \in Quick!Writers : choosing[w].key \in Quick!Telemetry
    BY DEF QuickInv, QuickShape, Choosers
  <2> QED BY <1>0, <1>5, <2>1 DEF QuickInv, Assures, Acting
<1>7. TrialOK'
  <2> USE DEF QuickInv, TrialOK
  <2>1. site'.test => site'.cm100 = "on"
    BY <1>2
  <2>2. /\ trial'.stage \in Starting => ~trial'.lost
        /\ trial'.stage = "controls" => ~trial'.opened
    BY <1>0
  <2>3. ~trial'.early /\ trial'.stage \in {"controls", "wait", "switch"} =>
          ~site'.test /\ ~Within(todo', Test(TRUE)) /\ ~wizard'.copy.test
    BY <1>0, <1>1, <1>2
  <2>4. ~trial'.early /\ trial'.stage = "check" =>
          /\ Undone(todo', Cm100(TRUE), Test(TRUE)) /\ Once(todo', Test(TRUE))
          /\ site'.test \/ wizard'.copy.test => ~Within(todo', Test(TRUE))
    BY <1>0, <1>1, <1>2
  <2>5. ~trial'.early /\ trial'.stage = "check" =>
          (wizard'.copy.test => site'.test \/ site'.cm100 = "off")
    <3> SUFFICES ASSUME ~trial.early, trial.stage = "check", wizard.copy.test
                 PROVE  site'.test \/ site'.cm100 = "off"
      BY <1>0
    <3>1. ~Within(todo, Test(TRUE)) /\ Undone(todo, Cm100(TRUE), Test(TRUE))
      OBVIOUS
    <3>2. o # Cm100(TRUE)
      BY <1>1, <3>1
    <3> QED BY <1>2, <3>2
  <2>6. Closed => Closed'
    BY <1>1, <1>2 DEF Closed
  <2>7. Over => Over'
    BY <1>0, <1>1, <1>2 DEF Over
  <2> QED BY <1>0, <2>1, <2>2, <2>3, <2>4, <2>5, <2>6, <2>7
<1> QED BY <1>3, <1>4, <1>6, <1>7 DEF QuickInv

LEMMA DeviceSteps == ASSUME QuickInv, Quick!Granted \/ Quick!TestEnds PROVE QuickInv'
<1>0. /\ todo' = todo /\ wizard' = wizard /\ choosing' = choosing /\ trial' = trial
      /\ monitor' = monitor /\ assured' = assured /\ site \in Sites
      /\ "on" \in Wirings /\ "off" \in Wirings
  BY QuickMembers DEF Quick!Granted, Quick!TestEnds, QuickInv, QuickShape
<1>1. /\ site' \in Sites /\ site'.choice = site.choice
      /\ \/ site.cm100 = "asked" /\ site'.cm100 = "on" /\ site'.test = site.test
         \/ site.test /\ site'.cm100 = "off" /\ site'.test = FALSE
  BY <1>0 DEF Quick!Granted, Quick!TestEnds, Sites
<1>2. QuickShape' /\ InTurn'
  BY <1>0, <1>1 DEF QuickInv, QuickShape, InTurn, Acting, BusyOf
<1>3. Assures'
  BY <1>0, <1>1 DEF QuickInv, Assures, StaysOff, Acting
<1>4. TrialOK'
  BY <1>0, <1>1 DEF QuickInv, TrialOK, Closed, Over
<1> QED BY <1>2, <1>3, <1>4 DEF QuickInv

-----------------------------------------------------------------------------
(* The telemetry choices                                                   *)

(* The writer w goes on, or is done and the page not busy any more.        *)
Moves(w, s) == choosing' = [choosing EXCEPT ![w].stage = s] /\ wizard'.busy = wizard.busy
Ends(w) == choosing' = [choosing EXCEPT ![w] = Quick!NoChoice] /\ wizard'.busy = ""

LEMMA ActorMoves ==
  ASSUME QuickInv, NEW w \in Quick!Writers, Acting(w), trial' = trial,
         Ends(w) \/ \E s \in Posting : Moves(w, s)
  PROVE  /\ InTurn' /\ choosing' \in [Quick!Writers -> Choosers]
         /\ \A v \in Quick!Writers \ {w} : choosing'[v] = choosing[v] /\ ~Acting(v)
         /\ trial.stage = "idle" /\ choosing[w].key \in Quick!Telemetry
<1>0. /\ choosing \in [Quick!Writers -> Choosers] /\ wizard.busy = "choice" /\ Quick!NoChoice \in Choosers
      /\ (\A v \in Quick!Writers \ {w} : ~Acting(v)) /\ choosing[w].key \in Quick!Telemetry
      /\ (\A s \in Posting : s \in ChoiceTasks /\ s # "hydrate") /\ "idle" \notin Posting
      /\ Quick!NoChoice.stage = "idle" /\ Quick!NoChoice.live = FALSE
      /\ (\A p \in Quick!Preps : p \in Quick!Writers) /\ Quick!User \in Quick!Writers
  BY NoChoiceTyped, QuickMembers DEF QuickInv, QuickShape, InTurn, Choosers
<1>1. trial.stage = "idle"
  BY <1>0, BusyOfOthers DEF QuickInv, QuickShape, InTurn, Trials
<1>2. \A p \in Quick!Preps : ~(choosing[p].stage = "hydrate" /\ choosing[p].live)
  BY <1>0 DEF QuickInv, InTurn
<1>3. CASE Ends(w)
  <2>1. /\ choosing' \in [Quick!Writers -> Choosers] /\ wizard'.busy = ""
        /\ choosing'[w] = Quick!NoChoice /\ \A v \in Quick!Writers \ {w} : choosing'[v] = choosing[v]
    BY <1>0, <1>3 DEF Ends
  <2>2. \A v \in Quick!Writers : ~Acting(v)'
    BY <1>0, <2>1 DEF Acting
  <2>3. InTurn'
    BY <1>0, <1>1, <1>2, <2>1, <2>2 DEF QuickInv, InTurn
  <2> QED BY <1>0, <1>1, <2>1, <2>3
<1>4. CASE \E s \in Posting : Moves(w, s)
  <2>0. PICK s \in Posting : Moves(w, s)
    BY <1>4
  <2>1. /\ choosing' \in [Quick!Writers -> Choosers] /\ wizard'.busy = "choice"
        /\ choosing'[w].stage = s /\ choosing'[w].live = choosing[w].live
        /\ \A v \in Quick!Writers \ {w} : choosing'[v] = choosing[v]
    BY <1>0, <2>0 DEF Moves, Choosers
  <2>2. \A v \in Quick!Writers \ {w} : ~Acting(v)'
    BY <1>0, <2>1 DEF Acting
  <2>3. InTurn'
    BY <1>0, <1>1, <1>2, <2>0, <2>1, <2>2 DEF QuickInv, InTurn
  <2> QED BY <1>0, <1>1, <2>1, <2>3
<1> QED BY <1>3, <1>4

(* What the orders and the answers of one writer do to the assurances.     *)
LEMMA ActorAssures ==
  ASSUME QuickInv, NEW w \in Quick!Writers, Acting(w), NEW key, key = choosing[w].key, site' = site,
         \A v \in Quick!Writers \ {w} : choosing'[v] = choosing[v] /\ ~Acting(v),
         todo' = todo \/ \E b \in BOOLEAN : todo' = Append(todo, Quick!Order(key, b)),
         \A k \in Quick!Telemetry : wizard'.copy.choice[k] \in {wizard.copy.choice[k], site.choice[k]},
         assured' \subseteq assured \cup {key},
         choosing'[w].stage \in Posting => choosing'[w].key = key,
         key \in assured' =>
           /\ choosing'[w].stage \notin Posting /\ StaysOff(key)'
           /\ wizard'.copy.choice[key] # "none" /\ site.choice[key] # "none",
         choosing'[w].stage = "unconfirm" \/ (choosing'[w].stage = "confirm" /\ ~choosing'[w].want)
           => StaysOff(key)'
  PROVE  Assures'
<1>0. key \in Quick!Telemetry /\ todo \in Seq(OrdersDue) /\ assured \subseteq Quick!Telemetry
      /\ "unconfirm" \in Posting /\ "confirm" \in Posting
      /\ Quick!Telemetry \subseteq Whats
  BY QuickMembers DEF QuickInv, QuickShape, Choosers
<1>1. ASSUME NEW k \in Quick!Telemetry, k # key, StaysOff(k) PROVE StaysOff(k)'
  <2>1. CASE todo' = todo
    BY <1>1, <2>1 DEF StaysOff
  <2>2. CASE \E b \in BOOLEAN : todo' = Append(todo, Quick!Order(key, b))
    <3>1. PICK o \in OrdersDue : o # Quick!Order(k, TRUE) /\ todo' = Append(todo, o)
      BY <1>0, <1>1, <2>2 DEF Quick!Order, OrdersDue
    <3>2. /\ \A p : Within(todo', p) <=> Within(todo, p) \/ p = o
          /\ \A p, u : Undone(todo, p, u) /\ p # o => Undone(todo', p, u)
      BY <1>0, <3>1, OneMoreOrder
    <3> QED BY <1>1, <3>1, <3>2 DEF StaysOff
  <2> QED BY <2>1, <2>2
<1>2. ASSUME NEW k \in assured'
      PROVE  /\ StaysOff(k)' /\ wizard'.copy.choice[k] # "none" /\ site'.choice[k] # "none"
             /\ \A v \in Quick!Writers : Acting(v)' => choosing'[v].key # k
  <2>1. CASE k = key
    <3>1. \A v \in Quick!Writers : ~Acting(v)'
      BY <1>2, <2>1 DEF Acting
    <3> QED BY <1>2, <2>1, <3>1
  <2>2. CASE k # key
    <3>1. k \in assured /\ k \in Quick!Telemetry
      BY <1>0, <1>2, <2>2
    <3>2. StaysOff(k)'
      BY <1>1, <2>2, <3>1 DEF QuickInv, Assures
    <3>3. wizard'.copy.choice[k] # "none" /\ site'.choice[k] # "none"
      BY <3>1 DEF QuickInv, Assures
    <3>4. \A v \in Quick!Writers : Acting(v)' => choosing'[v].key # k
      BY <2>2 DEF Acting
    <3> QED BY <3>2, <3>3, <3>4
  <2> QED BY <2>1, <2>2
<1>3. ASSUME NEW v \in Quick!Writers,
             choosing'[v].stage = "unconfirm" \/ (choosing'[v].stage = "confirm" /\ ~choosing'[v].want)
      PROVE  StaysOff(choosing[v].key)' /\ choosing'[v].key = choosing[v].key
  <2>1. v = w
    BY <1>0, <1>3 DEF Acting
  <2>2. StaysOff(key)' /\ choosing'[v].key = key
    BY <1>0, <1>3, <2>1
  <2> QED BY <2>2
<1> QED BY <1>2, <1>3 DEF Assures

LEMMA RereadTyped ==
  ASSUME QuickInv, NEW k \in Quick!Telemetry
  PROVE  /\ Quick!Reread(k) \in Shown /\ Quick!Reread(k).test = wizard.copy.test
         /\ Quick!Reread(k).choice[k] = site.choice[k]
         /\ \A j \in Quick!Telemetry : Quick!Reread(k).choice[j] \in {wizard.copy.choice[j], site.choice[j]}
BY DEF Quick!Reread, Shown, Wizards, Sites, QuickInv, QuickShape

LEMMA Placed ==
  ASSUME QuickInv, NEW k \in Quick!Telemetry, NEW v \in BOOLEAN, todo' = Append(todo,
         Quick!Order(k, v))
  PROVE  /\ todo' \in Seq(OrdersDue) /\ Besides(Hot)
         /\ v = FALSE /\ UNCHANGED site => StaysOff(k)'
<1>0. Quick!Order(k, v) \in OrdersDue /\ k \in Whats /\ k # "cm100" /\ k # "test"
  BY OrderTyped, QuickMembers DEF Quick!Telemetry
<1>1. Quick!Order(k, v) \notin Hot
  BY <1>0 DEF Hot, Cm100, Test, Quick!Order
<1>2. Besides(Hot)
  BY <1>0, <1>1 DEF Besides
<1>3. PICK o \in OrdersDue : o = Quick!Order(k, v) /\ todo' = Append(todo, o)
  BY <1>0
<1>4. todo \in Seq(OrdersDue)
  BY DEF QuickInv, QuickShape
<1>5. /\ todo' \in Seq(OrdersDue)
      /\ \A p : Within(todo', p) <=> Within(todo, p) \/ p = o
      /\ \A p, u : u = o /\ p # o => Undone(todo', p, u)
  BY <1>3, <1>4, OneMoreOrder
<1>6. ASSUME v = FALSE, UNCHANGED site PROVE StaysOff(k)'
  <2>1. Quick!Order(k, TRUE) # o /\ Quick!Order(k, FALSE) = o
    BY <1>3, <1>6 DEF Quick!Order
  <2> QED BY <1>5, <2>1 DEF StaysOff
<1> QED BY <1>2, <1>5, <1>6

LEMMA Idles ==
  ASSUME QuickInv, site' = site, trial' = trial, monitor' = monitor, todo' \in Seq(OrdersDue),
         Besides(Hot), wizard' \in Wizards, wizard'.copy.test = wizard.copy.test,
         choosing' \in [Quick!Writers -> Choosers], assured' \in SUBSET Quick!Telemetry, InTurn', Assures'
  PROVE  QuickInv'
<1>1. TrialOK'
  BY TrialRests
<1> QED BY <1>1 DEF QuickInv, QuickShape

LEMMA HydratedKeeps == ASSUME QuickInv, NEW p \in Quick!Preps, Quick!Hydrated(p) PROVE QuickInv'
<1>0. /\ choosing \in [Quick!Writers -> Choosers] /\ choosing[p].key \in Quick!Telemetry /\ p \in Quick!Writers /\ p # Quick!User
      /\ (\A q \in Quick!Preps : q \in Quick!Writers) /\ Quick!User \in Quick!Writers
      /\ wizard \in Wizards /\ wizard.busy \in Works /\ wizard.copy \in Shown
      /\ "" \in Works /\ "choice" \in Works /\ "post" \in ChoiceTasks /\ "post" \in Posting /\ "hydrate" \notin Posting
      /\ Quick!NoChoice \in Choosers /\ Quick!NoChoice.stage = "idle" /\ Quick!NoChoice.live = FALSE /\ "idle" \notin Posting
      /\ assured \in SUBSET Quick!Telemetry /\ todo \in Seq(OrdersDue)
  BY QuickMembers, NoChoiceTyped DEF QuickInv, QuickShape, Choosers, Wizards
<1>1. PICK copy \in {wizard.copy, Quick!Reread(choosing[p].key)} :
        LET ends == ~Quick!Current(p) \/ copy.choice[choosing[p].key] # "none"
        IN /\ choosing' = IF ends THEN [choosing EXCEPT ![p] = Quick!NoChoice]
                                  ELSE [choosing EXCEPT ![p].stage = "post"]
           /\ wizard' = [wizard EXCEPT !.copy = copy,
                           !.busy = IF ~ends THEN "choice"
                                    ELSE IF choosing[p].live /\ wizard.busy = "prepare" THEN ""
                                         ELSE wizard.busy,
                           !.error = IF ends THEN wizard.error ELSE FALSE]
  BY DEF Quick!Hydrated, Quick!Leave, Quick!To, Quick!Key
<1>2. /\ choosing[p].stage = "hydrate"
      /\ site' = site /\ todo' = todo /\ trial' = trial /\ monitor' = monitor /\ assured' = assured
  BY DEF Quick!Hydrated
<1>3. /\ copy \in Shown /\ copy.test = wizard.copy.test
      /\ \A k \in Quick!Telemetry : copy.choice[k] \in {wizard.copy.choice[k], site.choice[k]}
  BY <1>0, RereadTyped
<1>4. Besides(Hot) /\ Besides(Sharing)
  BY <1>2 DEF Besides
<1>5. CASE ~Quick!Current(p) \/ copy.choice[choosing[p].key] # "none"
  <2>1. /\ choosing' = [choosing EXCEPT ![p] = Quick!NoChoice]
        /\ wizard' = [wizard EXCEPT !.copy = copy,
                        !.busy = IF choosing[p].live /\ wizard.busy = "prepare" THEN "" ELSE wizard.busy,
                        !.error = wizard.error]
    BY <1>1, <1>5
  <2>2. /\ wizard' \in Wizards /\ wizard'.copy = copy
        /\ wizard'.busy = IF choosing[p].live /\ wizard.busy = "prepare" THEN "" ELSE wizard.busy
    BY <1>0, <1>3, <2>1 DEF Wizards
  <2>3. /\ choosing' \in [Quick!Writers -> Choosers] /\ choosing'[p] = Quick!NoChoice
        /\ \A w \in Quick!Writers \ {p} : choosing'[w] = choosing[w]
    BY <1>0, <2>1
  <2>4. \A w \in Quick!Writers : Acting(w)' <=> Acting(w)
    BY <1>0, <1>2, <2>3 DEF Acting
  <2>5. trial.stage # "idle" => wizard.busy # "prepare"
    BY BusyOfOthers DEF QuickInv, InTurn, QuickShape, Trials
  <2>6. InTurn'
    BY <1>0, <1>2, <2>2, <2>3, <2>4, <2>5 DEF QuickInv, InTurn, BusyOf
  <2>7. Assures'
    BY <1>0, <1>2, <1>3, <1>4, <2>2, <2>3, ChoiceRests DEF Acting
  <2> QED BY <1>0, <1>2, <1>3, <1>4, <2>2, <2>3, <2>6, <2>7, Idles
<1>6. CASE ~(~Quick!Current(p) \/ copy.choice[choosing[p].key] # "none")
  <2>1. /\ choosing' = [choosing EXCEPT ![p].stage = "post"]
        /\ wizard' = [wizard EXCEPT !.copy = copy, !.busy = "choice", !.error = FALSE]
    BY <1>1, <1>6
  <2>2. wizard' \in Wizards /\ wizard'.copy = copy /\ wizard'.busy = "choice"
    BY <1>0, <1>3, <2>1 DEF Wizards
  <2>3. /\ choosing' \in [Quick!Writers -> Choosers]
        /\ choosing'[p].stage = "post" /\ choosing'[p].key = choosing[p].key
        /\ choosing'[p].live = choosing[p].live
        /\ \A w \in Quick!Writers \ {p} : choosing'[w] = choosing[w]
    BY <1>0, <2>1 DEF Choosers
  <2>4. choosing[p].live
    BY <1>6 DEF Quick!Current
  <2>5. wizard.busy = "prepare" /\ \A w \in Quick!Writers : ~Acting(w)
    BY <1>0, <1>2, <2>4 DEF QuickInv, InTurn
  <2>6. trial.stage = "idle"
    BY <2>5, BusyOfOthers DEF QuickInv, InTurn, QuickShape, Trials
  <2>7. \A w \in Quick!Writers : Acting(w)' <=> w = p
    BY <1>0, <2>3, <2>5 DEF Acting
  <2>8. \A q \in Quick!Preps : choosing'[q].live => q = p
    BY <1>0, <2>3, <2>4 DEF QuickInv, InTurn
  <2>9. InTurn'
    BY <1>0, <1>2, <2>2, <2>3, <2>6, <2>7, <2>8 DEF QuickInv, InTurn
  <2>10. choosing[p].key \notin assured
    BY <1>0, <1>3, <1>6 DEF QuickInv, Assures
  <2>11. ASSUME NEW k \in assured'
         PROVE  /\ StaysOff(k)' /\ wizard'.copy.choice[k] # "none" /\ site'.choice[k] # "none"
                /\ \A w \in Quick!Writers : Acting(w)' => choosing'[w].key # k
    <3>1. StaysOff(k)'
      BY <1>2, <2>11 DEF QuickInv, Assures, StaysOff
    <3>2. wizard'.copy.choice[k] # "none" /\ site'.choice[k] # "none"
      BY <1>0, <1>2, <1>3, <2>2, <2>11 DEF QuickInv, Assures
    <3> QED BY <1>2, <2>3, <2>7, <2>10, <3>1, <3>2
  <2>12. \A w \in Quick!Writers : choosing'[w].stage # "unconfirm" /\ choosing'[w].stage # "confirm"
    BY <2>3, <2>7, QuickMembers DEF Acting
  <2>13. Assures'
    BY <2>11, <2>12 DEF Assures
  <2> QED BY <1>0, <1>2, <1>3, <1>4, <2>2, <2>3, <2>9, <2>13, Idles
<1> QED BY <1>5, <1>6

LEMMA ChooseKeeps == ASSUME QuickInv, NEW on \in BOOLEAN, Quick!Choose(on) PROVE QuickInv'
<1>0. /\ choosing \in [Quick!Writers -> Choosers] /\ wizard \in Wizards /\ wizard.step \in Quick!Telemetry
      /\ "choice" \in Works /\ "post" \in ChoiceTasks /\ "post" \in Posting /\ Quick!User \in Quick!Writers
      /\ (\A p \in Quick!Preps : p \in Quick!Writers /\ p # Quick!User) /\ assured \in SUBSET Quick!Telemetry
      /\ todo \in Seq(OrdersDue)
  BY QuickMembers DEF QuickInv, QuickShape, Quick!Choose
<1>1. /\ wizard.busy = "" /\ site' = site /\ todo' = todo /\ trial' = trial /\ monitor' = monitor
      /\ assured' = assured \ {wizard.step}
      /\ wizard' = [wizard EXCEPT !.busy = "choice", !.error = FALSE]
      /\ choosing' = [choosing EXCEPT ![Quick!User] = [ stage |-> "post", key |-> wizard.step, want |-> on,
                                                  live |-> TRUE ]]
  BY DEF Quick!Choose
<1>2. wizard' \in Wizards /\ wizard'.copy = wizard.copy /\ wizard'.busy = "choice"
  BY <1>0, <1>1 DEF Wizards
<1>3. /\ choosing' \in [Quick!Writers -> Choosers]
      /\ choosing'[Quick!User].stage = "post" /\ choosing'[Quick!User].key = wizard.step
      /\ \A w \in Quick!Writers \ {Quick!User} : choosing'[w] = choosing[w]
  BY <1>0, <1>1 DEF Choosers
<1>4. /\ \A w \in Quick!Writers : ~Acting(w)
      /\ \A p \in Quick!Preps : ~(choosing[p].stage = "hydrate" /\ choosing[p].live)
  BY <1>1 DEF QuickInv, InTurn
<1>5. trial.stage = "idle"
  BY <1>1, BusyOfOthers DEF QuickInv, InTurn, QuickShape, Trials
<1>6. \A w \in Quick!Writers : Acting(w)' <=> w = Quick!User
  BY <1>0, <1>3, <1>4 DEF Acting
<1>7. InTurn'
  BY <1>0, <1>1, <1>2, <1>3, <1>4, <1>5, <1>6 DEF QuickInv, InTurn
<1>8. ASSUME NEW k \in assured'
      PROVE  /\ StaysOff(k)' /\ wizard'.copy.choice[k] # "none" /\ site'.choice[k] # "none"
             /\ \A w \in Quick!Writers : Acting(w)' => choosing'[w].key # k
  <2>1. k \in assured /\ k # wizard.step
    BY <1>1, <1>8
  <2>2. StaysOff(k)'
    BY <1>1, <2>1 DEF QuickInv, Assures, StaysOff
  <2> QED BY <1>1, <1>2, <1>3, <1>6, <2>1, <2>2 DEF QuickInv, Assures
<1>9. \A w \in Quick!Writers : choosing'[w].stage # "unconfirm" /\ choosing'[w].stage # "confirm"
  BY <1>3, <1>6, QuickMembers DEF Acting
<1>10. Assures'
  BY <1>8, <1>9 DEF Assures
<1>11. Besides(Hot)
  BY <1>1 DEF Besides
<1> QED BY <1>0, <1>1, <1>2, <1>3, <1>7, <1>10, <1>11, Idles

(* What a writer orders, and what it reads.                                *)
LEMMA WriterKeeps ==
  ASSUME QuickInv, NEW w \in Quick!Writers, Acting(w), NEW k, k = choosing[w].key,
         site' = site, trial' = trial, monitor' = monitor,
         todo' = todo \/ \E b \in BOOLEAN : todo' = Append(todo, Quick!Order(k, b)),
         wizard' \in Wizards, wizard'.copy \in {wizard.copy, Quick!Reread(k)},
         Ends(w) \/ \E s \in Posting : Moves(w, s),
         assured' \subseteq assured \cup {k},
         k \in assured' => Ends(w) /\ StaysOff(k)' /\ wizard'.copy = Quick!Reread(k) /\ site.choice[k] # "none",
         \A s \in {"unconfirm", "confirm"} :
           Moves(w, s) /\ (s = "confirm" => ~choosing[w].want) => StaysOff(k)'
  PROVE  QuickInv'
<1>1. /\ InTurn' /\ choosing' \in [Quick!Writers -> Choosers]
      /\ \A v \in Quick!Writers \ {w} : choosing'[v] = choosing[v] /\ ~Acting(v)
      /\ k \in Quick!Telemetry
  BY ActorMoves
<1>2. /\ choosing \in [Quick!Writers -> Choosers] /\ assured' \in SUBSET Quick!Telemetry
      /\ Quick!NoChoice.stage = "idle" /\ "idle" \notin Posting
      /\ "unconfirm" \in Posting /\ "confirm" \in Posting
  BY <1>1, NoChoiceTyped, QuickMembers DEF QuickInv, QuickShape
<1>3. /\ wizard'.copy.test = wizard.copy.test
      /\ \A j \in Quick!Telemetry : wizard'.copy.choice[j] \in {wizard.copy.choice[j], site.choice[j]}
  BY <1>1, RereadTyped
<1>4. todo' \in Seq(OrdersDue) /\ Besides(Hot)
  <2>1. CASE todo' = todo
    BY <2>1 DEF QuickInv, QuickShape, Besides
  <2>2. CASE \E b \in BOOLEAN : todo' = Append(todo, Quick!Order(k, b))
    BY <1>1, <2>2, Placed
  <2> QED BY <2>1, <2>2
<1>5. choosing'[w].stage \in Posting => choosing'[w].key = k /\ choosing'[w].want = choosing[w].want
  BY <1>2 DEF Ends, Moves, Choosers
<1>6. k \in assured' =>
        /\ choosing'[w].stage \notin Posting /\ StaysOff(k)'
        /\ wizard'.copy.choice[k] # "none" /\ site.choice[k] # "none"
  BY <1>1, <1>2, RereadTyped DEF Ends
<1>7. ASSUME choosing'[w].stage = "unconfirm" \/ (choosing'[w].stage = "confirm" /\ ~choosing'[w].want)
      PROVE  StaysOff(k)'
  <2>1. ~Ends(w)
    BY <1>2, <1>7 DEF Ends
  <2>2. PICK s \in Posting : Moves(w, s)
    BY <2>1
  <2>3. choosing'[w].stage = s
    BY <1>2, <2>2 DEF Moves, Choosers
  <2> QED BY <1>2, <1>5, <1>7, <2>2, <2>3
<1>8. Assures'
  BY <1>1, <1>3, <1>5, <1>6, <1>7, ActorAssures
<1> QED BY <1>1, <1>2, <1>3, <1>4, <1>8, Idles

LEMMA WriterSteps ==
  ASSUME QuickInv, NEW w \in Quick!Writers,
         Quick!Posts(w) \/ Quick!Confirms(w) \/ Quick!Undoes(w) \/ Quick!Unconfirms(w)
  PROVE  QuickInv'
<1> SUFFICES ASSUME NEW k, k = choosing[w].key PROVE QuickInv'
  OBVIOUS
<1>0. /\ k = Quick!Key(w) /\ k \in Quick!Telemetry /\ choosing[w].want \in BOOLEAN /\ wizard \in Wizards /\ wizard.copy \in Shown
      /\ Quick!Reread(k) \in Shown
      /\ "confirm" \in Posting /\ "undo" \in Posting /\ "unconfirm" \in Posting /\ "post" \in Posting
  BY RereadTyped, QuickMembers DEF QuickInv, QuickShape, Choosers, Wizards, Quick!Key
<1>1. site' = site /\ trial' = trial /\ monitor' = monitor
  BY DEF Quick!Posts, Quick!Confirms, Quick!Undoes, Quick!Unconfirms
<1>2. \A s \in Posting : Quick!To(w, s) /\ wizard'.busy = wizard.busy <=> Moves(w, s)
  BY DEF Quick!To, Moves
<1>3. /\ \A f \in Shown : \A e : Quick!Told(f, e) => wizard' \in Wizards /\ wizard'.copy = f /\ wizard'.busy = ""
      /\ \A f, e : Quick!Leave(w) /\ Quick!Told(f, e) /\ f \in Shown => Ends(w)
  BY <1>0, TellTyped DEF Quick!Leave, Ends
<1>4. ASSUME NEW s \in Posting, NEW r \in Posting, r # s, Moves(w, s) PROVE ~Moves(w, r) /\ ~Ends(w)
  <2>1. choosing'[w].stage = s /\ Quick!NoChoice.stage \notin Posting
    BY <1>4, NoChoiceTyped, QuickMembers DEF Moves, QuickInv, QuickShape, Choosers
  <2> QED BY <1>4, <2>1 DEF Moves, Ends, QuickInv, QuickShape, Choosers
<1>5. ASSUME Ends(w) PROVE \A s \in Posting : ~Moves(w, s)
  <2>1. /\ choosing \in [Quick!Writers -> Choosers] /\ Quick!NoChoice.stage = "idle" /\ "idle" \notin Posting
    BY NoChoiceTyped, QuickMembers DEF QuickInv, QuickShape
  <2>2. choosing'[w].stage = "idle"
    BY <1>5, <2>1 DEF Ends
  <2>3. \A s \in Posting : Moves(w, s) => choosing'[w].stage = s
    BY <2>1 DEF Moves, Choosers
  <2> QED BY <2>1, <2>2, <2>3
<1>6. \A v : Quick!Failed(Quick!Order(k, v)) => todo' = todo \/ todo' = Append(todo, Quick!Order(k, v))
  BY DEF Quick!Failed
<1>7. CASE Quick!Posts(w)
  <2>0. /\ Acting(w) /\ assured' = assured /\ k \notin assured
        /\ todo' = todo \/ \E b \in BOOLEAN : todo' = Append(todo, Quick!Order(k, b))
    BY <1>0, <1>6, <1>7 DEF Quick!Posts, Acting, Quick!Key, Quick!Accepted, QuickInv, Assures
  <2>1. CASE Quick!Accepted(Quick!Order(k, choosing[w].want)) /\ Quick!To(w, "confirm") /\ UNCHANGED wizard
    <3>1. Moves(w, "confirm") /\ wizard' = wizard
      BY <1>0, <1>2, <2>1
    <3>2. ~choosing[w].want => StaysOff(k)'
      BY <1>0, <1>1, <2>1, Placed DEF Quick!Accepted
    <3>3. ~Moves(w, "unconfirm") /\ ~Ends(w)
      BY <1>0, <1>4, <3>1
    <3> QED BY <1>0, <1>1, <2>0, <3>1, <3>2, <3>3, WriterKeeps
  <2>2. CASE Quick!To(w, "undo") /\ UNCHANGED wizard
    <3>1. Moves(w, "undo") /\ wizard' = wizard
      BY <1>0, <1>2, <2>2
    <3>2. ~Moves(w, "unconfirm") /\ ~Moves(w, "confirm") /\ ~Ends(w)
      BY <1>0, <1>4, <3>1
    <3> QED BY <1>0, <1>1, <2>0, <3>1, <3>2, WriterKeeps
  <2>3. CASE Quick!Leave(w) /\ Quick!Told(wizard.copy, "error")
    <3>1. Ends(w) /\ wizard' \in Wizards /\ wizard'.copy = wizard.copy
      BY <1>0, <1>3, <2>3
    <3>2. ~Moves(w, "unconfirm") /\ ~Moves(w, "confirm")
      BY <1>0, <1>5, <3>1
    <3> QED BY <1>0, <1>1, <2>0, <3>1, <3>2, WriterKeeps
  <2> QED BY <1>7, <2>1, <2>2, <2>3 DEF Quick!Posts, Quick!Key
<1>8. CASE Quick!Confirms(w)
  <2>0. Acting(w) /\ todo' = todo /\ k \notin assured
    BY <1>0, <1>8 DEF Quick!Confirms, Acting, QuickInv, Assures
  <2>1. CASE /\ Quick!Confirmed(k, choosing[w].want) /\ Quick!Leave(w) /\ Quick!Told(Quick!Reread(k), "")
             /\ assured' = IF choosing[w].want THEN assured ELSE assured \cup {k}
    <3>1. Ends(w) /\ wizard' \in Wizards /\ wizard'.copy = Quick!Reread(k)
      BY <1>0, <1>3, <2>1
    <3>2. ~Moves(w, "unconfirm") /\ ~Moves(w, "confirm")
      BY <1>0, <1>5, <3>1
    <3>3. site.choice[k] # "none"
      BY <2>1 DEF Quick!Confirmed, Quick!Wanted
    <3>4. ~choosing[w].want => StaysOff(k)'
      BY <1>0, <1>1, <1>8, <2>0 DEF Quick!Confirms, QuickInv, Assures, StaysOff
    <3> QED BY <1>0, <1>1, <2>0, <2>1, <3>1, <3>2, <3>3, <3>4, WriterKeeps
  <2>2. CASE Quick!To(w, "undo") /\ wizard' = [wizard EXCEPT !.copy = Quick!Reread(k)] /\ UNCHANGED assured
    <3>1. wizard' \in Wizards /\ wizard'.copy = Quick!Reread(k) /\ wizard'.busy = wizard.busy
      BY <1>0, <2>2 DEF Wizards
    <3>2. Moves(w, "undo")
      BY <1>0, <1>2, <2>2, <3>1
    <3>3. ~Moves(w, "unconfirm") /\ ~Moves(w, "confirm") /\ ~Ends(w)
      BY <1>0, <1>4, <3>2
    <3> QED BY <1>0, <1>1, <2>0, <2>2, <3>1, <3>2, <3>3, WriterKeeps
  <2>3. CASE Quick!Leave(w) /\ Quick!Told(Quick!Reread(k), "error") /\ UNCHANGED assured
    <3>1. Ends(w) /\ wizard' \in Wizards /\ wizard'.copy = Quick!Reread(k)
      BY <1>0, <1>3, <2>3
    <3>2. ~Moves(w, "unconfirm") /\ ~Moves(w, "confirm")
      BY <1>0, <1>5, <3>1
    <3> QED BY <1>0, <1>1, <2>0, <2>3, <3>1, <3>2, WriterKeeps
  <2> QED BY <1>8, <2>1, <2>2, <2>3 DEF Quick!Confirms, Quick!Key
<1>9. CASE Quick!Undoes(w)
  <2>0. /\ Acting(w) /\ assured' = assured /\ k \notin assured
        /\ todo' = todo \/ \E b \in BOOLEAN : todo' = Append(todo, Quick!Order(k, b))
    BY <1>0, <1>6, <1>9 DEF Quick!Undoes, Acting, Quick!Key, Quick!Accepted, QuickInv, Assures
  <2>1. CASE Quick!Accepted(Quick!Order(k, FALSE)) /\ Quick!To(w, "unconfirm") /\ UNCHANGED wizard
    <3>1. Moves(w, "unconfirm") /\ wizard' = wizard
      BY <1>0, <1>2, <2>1
    <3>2. StaysOff(k)'
      BY <1>0, <1>1, <2>1, Placed DEF Quick!Accepted
    <3>3. ~Ends(w)
      BY <1>0, <1>4, <3>1
    <3> QED BY <1>0, <1>1, <2>0, <3>1, <3>2, <3>3, WriterKeeps
  <2>2. CASE Quick!Leave(w) /\ Quick!Told(wizard.copy, "error")
    <3>1. Ends(w) /\ wizard' \in Wizards /\ wizard'.copy = wizard.copy
      BY <1>0, <1>3, <2>2
    <3>2. ~Moves(w, "unconfirm") /\ ~Moves(w, "confirm")
      BY <1>0, <1>5, <3>1
    <3> QED BY <1>0, <1>1, <2>0, <3>1, <3>2, WriterKeeps
  <2> QED BY <1>9, <2>1, <2>2 DEF Quick!Undoes, Quick!Key
<1>10. CASE Quick!Unconfirms(w)
  <2>0. Acting(w) /\ todo' = todo /\ k \notin assured
    BY <1>0, <1>10 DEF Quick!Unconfirms, Acting, QuickInv, Assures
  <2>1. Ends(w) /\ wizard' \in Wizards /\ wizard'.copy = Quick!Reread(k)
    BY <1>0, <1>3, <1>10 DEF Quick!Unconfirms, Quick!Key
  <2>2. ~Moves(w, "unconfirm") /\ ~Moves(w, "confirm")
    BY <1>0, <1>5, <2>1
  <2>3. StaysOff(k)'
    BY <1>0, <1>1, <1>10, <2>0 DEF Quick!Unconfirms, QuickInv, Assures, StaysOff
  <2>4. assured' = assured \/ (assured' = assured \cup {k} /\ Quick!Confirmed(k, FALSE))
    BY <1>10 DEF Quick!Unconfirms, Quick!Key
  <2>5. k \in assured' => site.choice[k] # "none"
    BY <2>0, <2>4 DEF Quick!Confirmed, Quick!Wanted
  <2> QED BY <1>0, <1>1, <2>0, <2>1, <2>2, <2>3, <2>4, <2>5, WriterKeeps
<1> QED BY <1>7, <1>8, <1>9, <1>10

-----------------------------------------------------------------------------
(* The flow source and the flow test                                       *)

(* In these steps only the flow test's part of the state moves.            *)
LEMMA SourceTurn ==
  ASSUME QuickInv, choosing' = choosing,
         \/ wizard'.busy = wizard.busy /\ trial'.stage = trial.stage
         \/ wizard'.busy = wizard.busy /\ trial.stage # "idle" /\ trial'.stage # "idle"
            /\ BusyOf(trial'.stage) = BusyOf(trial.stage)
         \/ wizard.busy = "" /\ trial'.stage # "idle" /\ wizard'.busy = BusyOf(trial'.stage)
         \/ trial.stage # "idle" /\ trial'.stage = "idle" /\ wizard'.busy = ""
  PROVE  InTurn'
<1>1. trial.stage # "idle" \/ wizard.busy = "" =>
        /\ \A w \in Quick!Writers : ~Acting(w)
        /\ \A p \in Quick!Preps : ~(choosing[p].stage = "hydrate" /\ choosing[p].live)
  <2>1. trial.stage # "idle" => wizard.busy \notin {"", "prepare", "choice"}
    BY BusyOfOthers DEF QuickInv, InTurn, QuickShape, Trials
  <2> QED BY <2>1 DEF QuickInv, InTurn
<1> QED BY <1>1 DEF QuickInv, InTurn, Acting, BusyOf

LEMMA SourceChoice ==
  ASSUME QuickInv, choosing' = choosing, site' = site, assured' = assured, Besides(Sharing),
         wizard'.copy.choice = wizard.copy.choice
  PROVE  Assures'
<1> QED BY ChoiceRests DEF Acting

LEMMA CopyTyped ==
  ASSUME QuickInv
  PROVE  /\ wizard \in Wizards /\ wizard.copy \in Shown /\ site.test \in BOOLEAN
         /\ site.applied \in SUBSET Quick!Sources /\ trial \in Trials /\ todo \in Seq(OrdersDue)
         /\ \A b, c \in BOOLEAN :
              LET copy == [wizard.copy EXCEPT !.test = b, !.cm100 = c]
              IN copy \in Shown /\ copy.test = b /\ copy.choice = wizard.copy.choice
         /\ \A b \in BOOLEAN :
              /\ LET copy == [wizard.copy EXCEPT !.test = b]
                 IN copy \in Shown /\ copy.test = b /\ copy.choice = wizard.copy.choice
              /\ LET copy == [wizard.copy EXCEPT !.cm100 = b]
                 IN copy \in Shown /\ copy.test = wizard.copy.test /\ copy.choice = wizard.copy.choice
         /\ \A s \in SUBSET Quick!Sources :
              LET copy == [wizard.copy EXCEPT !.applied = s]
              IN copy \in Shown /\ copy.test = wizard.copy.test /\ copy.choice = wizard.copy.choice
BY DEF QuickInv, QuickShape, Wizards, Shown, Sites

LEMMA OrdersPlaced ==
  ASSUME NEW what \in Quick!Sources \cup {"cm100", "test"}, NEW v \in BOOLEAN
  PROVE  /\ Quick!Order(what, v) \in OrdersDue /\ Quick!Order(what, v) \notin Sharing
         /\ (what \in Quick!Sources \/ v = FALSE => Quick!Order(what, v) \notin Hot)
<1>1. what \in Whats /\ what \notin Quick!Telemetry /\ (what \in Quick!Sources => what # "cm100" /\ what # "test")
  BY DEF Whats, Quick!Telemetry, Quick!Sources
<1> QED BY <1>1, OrderTyped DEF Sharing, Yes, Hot, Cm100, Test, Quick!Order

Harmless == \/ todo' = todo
            \/ \E what \in Quick!Sources \cup {"cm100", "test"}, v \in BOOLEAN :
                 (what \in Quick!Sources \/ v = FALSE) /\ todo' = Append(todo, Quick!Order(what, v))

LEMMA HarmlessBesides ==
  ASSUME QuickInv, Harmless PROVE Besides(Hot) /\ Besides(Sharing) /\ todo' \in Seq(OrdersDue)
<1>1. Besides(Hot) /\ Besides(Sharing)
  BY OrdersPlaced DEF Harmless, Besides
<1> QED BY <1>1, BesidesKeeps DEF QuickInv

LEMMA SourceRests ==
  ASSUME QuickInv, choosing' = choosing, site' = site, assured' = assured, monitor' \in BOOLEAN,
         wizard' \in Wizards, wizard'.copy.choice = wizard.copy.choice,
         wizard'.copy.test \in {wizard.copy.test, site.test}, Harmless, InTurn',
         trial' \in Trials, trial'.opened = trial.opened, trial'.lost = trial.lost,
         trial'.early = trial.early,
         \/ trial'.stage = trial.stage
         \/ trial'.stage \notin Starting /\ trial.stage \notin Starting
  PROVE  QuickInv'
<1>1. Besides(Hot) /\ Besides(Sharing) /\ todo' \in Seq(OrdersDue)
  BY HarmlessBesides
<1>2. TrialOK'
  BY <1>1, TrialRests
<1>3. Assures'
  BY <1>1, SourceChoice
<1> QED BY <1>1, <1>2, <1>3 DEF QuickInv, QuickShape

LEMMA ApplySteps == ASSUME QuickInv, Quick!StartApply \/ Quick!ApplyNext PROVE QuickInv'
<1>0. /\ choosing' = choosing /\ site' = site /\ assured' = assured /\ monitor' = monitor
      /\ monitor \in BOOLEAN /\ wizard \in Wizards /\ wizard.copy \in Shown /\ trial \in Trials
      /\ wizard.copy.applied \in SUBSET Quick!Sources
      /\ "apply" \in Trying /\ "idle" \in Trying /\ "apply" \notin Starting /\ "idle" \notin Starting
      /\ "source" \in Works /\ "" \in Works /\ BusyOf("apply") = "source"
      /\ "qFlowSource" \in Quick!Sources /\ "flowSource" \in Quick!Sources
  BY QuickMembers DEF Quick!StartApply, Quick!ApplyNext, QuickInv, QuickShape, Wizards, BusyOf,
     Shown
<1>1. CASE Quick!StartApply
  <2>1. /\ wizard.busy = "" /\ todo' = todo /\ Quick!Busy("source") /\ Quick!Stage("apply") /\ trial.stage = "idle"
    BY <1>1 DEF Quick!StartApply, Quick!OnSource, Quick!At
  <2>2. wizard' \in Wizards /\ wizard'.copy = wizard.copy /\ wizard'.busy = "source"
    BY <1>0, <2>1, BusyTyped
  <2>3. /\ trial' \in Trials /\ trial'.stage = "apply" /\ trial'.opened = trial.opened
        /\ trial'.lost = trial.lost /\ trial'.early = trial.early
    BY <1>0, <2>1, StageTyped
  <2>4. InTurn'
    BY <1>0, <2>1, <2>2, <2>3, SourceTurn
  <2>5. Harmless
    BY <2>1 DEF Harmless
  <2> QED BY <1>0, <2>1, <2>2, <2>3, <2>4, <2>5, SourceRests
<1>2. CASE Quick!ApplyNext
  <2>0. trial.stage = "apply"
    BY <1>2 DEF Quick!ApplyNext, Quick!At
  <2>1. \/ \E f \in Quick!Sources : /\ Quick!Accepted(Quick!Order(f, TRUE)) /\ UNCHANGED trial
                              /\ wizard' = Quick!Sees([wizard.copy EXCEPT !.applied = wizard.copy.applied \cup {f}])
        \/ \E f \in Quick!Sources : Quick!Failed(Quick!Order(f, TRUE)) /\ Quick!Stage("idle") /\ Quick!Told(wizard.copy, "error")
        \/ \E c \in {wizard.copy, [wizard.copy EXCEPT !.applied = site.applied]} : \E e :
             Quick!Stage("idle") /\ todo' = todo /\ Quick!Told(c, e)
    BY <1>0, <1>2 DEF Quick!ApplyNext
  <2>2. CASE \E f \in Quick!Sources : /\ Quick!Accepted(Quick!Order(f, TRUE)) /\ UNCHANGED trial
                                /\ wizard' = Quick!Sees([wizard.copy EXCEPT !.applied = wizard.copy.applied \cup {f}])
    <3>1. PICK f \in Quick!Sources : /\ Quick!Accepted(Quick!Order(f, TRUE)) /\ UNCHANGED trial
                               /\ wizard' = Quick!Sees([wizard.copy EXCEPT !.applied = wizard.copy.applied \cup {f}])
      BY <2>2
    <3> DEFINE c == [wizard.copy EXCEPT !.applied = wizard.copy.applied \cup {f}]
    <3>2. c \in Shown /\ c.test = wizard.copy.test /\ c.choice = wizard.copy.choice
      BY <1>0 DEF Shown
    <3> HIDE DEF c
    <3>3. wizard' = Quick!Sees(c)
      BY <3>1 DEF c
    <3>4. wizard' \in Wizards /\ wizard'.copy = c /\ wizard'.busy = wizard.busy
      BY <1>0, <3>2, <3>3, SeesTyped
    <3>5. InTurn'
      BY <1>0, <3>1, <3>4, SourceTurn
    <3>6. Harmless
      BY <3>1 DEF Quick!Accepted, Harmless
    <3> QED BY <1>0, <3>1, <3>2, <3>4, <3>5, <3>6, SourceRests
  <2>3. CASE \/ \E f \in Quick!Sources : Quick!Failed(Quick!Order(f, TRUE)) /\ Quick!Stage("idle") /\ Quick!Told(wizard.copy, "error")
             \/ \E c \in {wizard.copy, [wizard.copy EXCEPT !.applied = site.applied]} : \E e :
                  Quick!Stage("idle") /\ todo' = todo /\ Quick!Told(c, e)
    <3>0. PICK c \in {wizard.copy, [wizard.copy EXCEPT !.applied = site.applied]} :
            \E e : Quick!Stage("idle") /\ Quick!Told(c, e)
      BY <2>3
    <3>1. PICK e : Quick!Stage("idle") /\ Quick!Told(c, e)
      BY <3>0
    <3>2. c \in Shown /\ c.test = wizard.copy.test /\ c.choice = wizard.copy.choice
      BY <1>0 DEF Shown, Sites, QuickInv, QuickShape
    <3>3. wizard' \in Wizards /\ wizard'.copy = c /\ wizard'.busy = ""
      BY <1>0, <3>1, <3>2, TellTyped
    <3>4. /\ trial' \in Trials /\ trial'.stage = "idle" /\ trial'.opened = trial.opened
          /\ trial'.lost = trial.lost /\ trial'.early = trial.early
      BY <1>0, <3>1, StageTyped
    <3>5. InTurn'
      BY <1>0, <2>0, <3>3, <3>4, SourceTurn
    <3>6. Harmless
      BY <2>3 DEF Quick!Failed, Harmless
    <3> QED BY <1>0, <2>0, <3>2, <3>3, <3>4, <3>5, <3>6, SourceRests
  <2> QED BY <2>1, <2>2, <2>3
<1> QED BY <1>1, <1>2

LEMMA WatchSteps ==
  ASSUME QuickInv, Quick!Monitors \/ Quick!StartAbort \/ Quick!AbortPosted \/ Quick!AbortRead
  PROVE  QuickInv'
<1>0. /\ choosing' = choosing /\ site' = site /\ assured' = assured
      /\ monitor \in BOOLEAN /\ wizard \in Wizards /\ wizard.copy \in Shown /\ trial \in Trials
      /\ "abort" \in Trying /\ "aborted" \in Trying /\ "idle" \in Trying
      /\ "abort" \notin Starting /\ "aborted" \notin Starting /\ "idle" \notin Starting
      /\ "test-abort" \in Works /\ "" \in Works
      /\ BusyOf("abort") = "test-abort" /\ BusyOf("aborted") = "test-abort"
      /\ site.test \in BOOLEAN /\ (site.cm100 = "on") \in BOOLEAN
  BY QuickMembers
     DEF Quick!Monitors, Quick!StartAbort, Quick!AbortPosted, Quick!AbortRead, QuickInv,
         QuickShape, Wizards, BusyOf, Sites
<1> DEFINE read == [wizard.copy EXCEPT !.test = site.test, !.cm100 = site.cm100 = "on"]
<1>1. read \in Shown /\ read.test = site.test /\ read.choice = wizard.copy.choice
  BY <1>0, CopyTyped
<1>2. CASE Quick!Monitors
  <2>1. /\ monitor' \in BOOLEAN /\ trial' = trial /\ todo' = todo
        /\ wizard' = wizard \/ wizard' = Quick!Sees(read)
    BY <1>0, <1>2 DEF Quick!Monitors
  <2> HIDE DEF read
  <2>2. /\ wizard' \in Wizards /\ wizard'.busy = wizard.busy
        /\ wizard'.copy.choice = wizard.copy.choice
        /\ wizard'.copy.test \in {wizard.copy.test, site.test}
    BY <1>0, <1>1, <2>1, SeesTyped
  <2>3. InTurn'
    BY <1>0, <2>1, <2>2, SourceTurn
  <2>4. Harmless
    BY <2>1 DEF Harmless
  <2> QED BY <1>0, <2>1, <2>2, <2>3, <2>4, SourceRests
<1>3. CASE Quick!StartAbort
  <2>1. /\ wizard.busy = "" /\ todo' = todo /\ Quick!Busy("test-abort") /\ Quick!Stage("abort") /\ trial.stage = "idle"
        /\ monitor' = monitor
    BY <1>3 DEF Quick!StartAbort, Quick!OnSource, Quick!At
  <2>2. wizard' \in Wizards /\ wizard'.copy = wizard.copy /\ wizard'.busy = "test-abort"
    BY <1>0, <2>1, BusyTyped
  <2>3. /\ trial' \in Trials /\ trial'.stage = "abort" /\ trial'.opened = trial.opened
        /\ trial'.lost = trial.lost /\ trial'.early = trial.early
    BY <1>0, <2>1, StageTyped
  <2>4. InTurn'
    BY <1>0, <2>1, <2>2, <2>3, SourceTurn
  <2>5. Harmless
    BY <2>1 DEF Harmless
  <2> QED BY <1>0, <2>1, <2>2, <2>3, <2>4, <2>5, SourceRests
<1>4. CASE Quick!AbortPosted
  <2>0. trial.stage = "abort" /\ monitor' = monitor
    BY <1>4 DEF Quick!AbortPosted, Quick!At
  <2>1. Harmless
    BY <1>4 DEF Quick!AbortPosted, Quick!Accepted, Quick!Failed, Harmless
  <2>2. CASE Quick!Stage("aborted") /\ UNCHANGED wizard
    <3>1. /\ trial' \in Trials /\ trial'.stage = "aborted" /\ trial'.opened = trial.opened
          /\ trial'.lost = trial.lost /\ trial'.early = trial.early
      BY <1>0, <2>2, StageTyped
    <3>2. InTurn'
      BY <1>0, <2>0, <2>2, <3>1, SourceTurn
    <3> QED BY <1>0, <2>0, <2>1, <2>2, <3>1, <3>2, SourceRests
  <2>3. CASE Quick!Stage("idle") /\ Quick!Told(wizard.copy, "error")
    <3>1. /\ trial' \in Trials /\ trial'.stage = "idle" /\ trial'.opened = trial.opened
          /\ trial'.lost = trial.lost /\ trial'.early = trial.early
      BY <1>0, <2>3, StageTyped
    <3>2. wizard' \in Wizards /\ wizard'.copy = wizard.copy /\ wizard'.busy = ""
      BY <1>0, <2>3, TellTyped
    <3>3. InTurn'
      BY <1>0, <2>0, <3>1, <3>2, SourceTurn
    <3> QED BY <1>0, <2>0, <2>1, <3>1, <3>2, <3>3, SourceRests
  <2> QED BY <1>4, <2>2, <2>3 DEF Quick!AbortPosted
<1>5. CASE Quick!AbortRead
  <2>1. /\ trial.stage = "aborted" /\ Quick!Stage("idle") /\ Quick!Told(read, "") /\ todo' = todo /\ monitor' = monitor
    BY <1>5 DEF Quick!AbortRead, Quick!At
  <2> HIDE DEF read
  <2>2. /\ trial' \in Trials /\ trial'.stage = "idle" /\ trial'.opened = trial.opened
        /\ trial'.lost = trial.lost /\ trial'.early = trial.early
    BY <1>0, <2>1, StageTyped
  <2>3. wizard' \in Wizards /\ wizard'.copy = read /\ wizard'.busy = ""
    BY <1>0, <1>1, <2>1, TellTyped
  <2>4. InTurn'
    BY <1>0, <2>1, <2>2, <2>3, SourceTurn
  <2>5. Harmless
    BY <2>1 DEF Harmless
  <2> QED BY <1>0, <1>1, <2>1, <2>2, <2>3, <2>4, <2>5, SourceRests
<1> QED BY <1>2, <1>3, <1>4, <1>5

(* A start of the flow test that fails leaves CM100 closed, or the test    *)
(* runs after all.                                                         *)
LEMMA AbandonKeeps ==
  ASSUME QuickInv, trial.stage \in {"wait", "switch", "check"}, NEW c \in Shown, NEW due,
         due = todo \/ due = Append(todo, Test(TRUE)), Quick!Abandon(c, due),
         choosing' = choosing, site' = site, assured' = assured, monitor' \in BOOLEAN,
         c.choice = wizard.copy.choice,
         ~trial.early /\ c.test => /\ ~Within(due, Cm100(TRUE)) /\ ~Within(due, Test(TRUE))
                                   /\ site.test \/ site.cm100 = "off"
  PROVE  QuickInv'
<1>0. /\ wizard \in Wizards /\ trial \in Trials /\ todo \in Seq(OrdersDue) /\ "idle" \in Trying
      /\ "idle" \notin Starting /\ trial.stage \in Starting
      /\ Test(TRUE) \in OrdersDue /\ Test(TRUE) \notin Sharing
      /\ Cm100(FALSE) \in OrdersDue /\ Cm100(FALSE) \notin Sharing /\ Cm100(TRUE) # Cm100(FALSE)
      /\ Cm100(FALSE) = Quick!Order("cm100", FALSE)
  BY QuickMembers, OrdersPlaced DEF QuickInv, QuickShape, Test, Cm100, Quick!Order
<1>1. /\ wizard' \in Wizards /\ wizard'.copy = c /\ wizard'.busy = ""
  BY <1>0, TellTyped DEF Quick!Abandon
<1>2. /\ trial' \in Trials /\ trial'.stage = "idle" /\ trial'.opened = trial.opened
      /\ trial'.early = trial.early
  BY <1>0, StageTyped DEF Quick!Abandon, Trials
<1>3. Besides(Sharing) /\ due \in Seq(OrdersDue)
  BY <1>0, OneMoreOrder DEF Quick!Abandon, Besides
<1>4. Assures'
  BY <1>1, <1>3, SourceChoice
<1>5. InTurn'
  BY <1>0, <1>1, <1>2, SourceTurn
<1>6. todo' \in Seq(OrdersDue)
  BY <1>3, BesidesKeeps DEF QuickInv
<1>7. QuickShape'
  BY <1>1, <1>2, <1>6 DEF QuickInv, QuickShape
<1>8. trial'.lost \/ ~trial.opened \/ Closed' \/ trial.early \/ Over'
  <2>1. CASE todo' = Append(due, Quick!Order("cm100", FALSE))
    <3>0. PICK o, r : o \in OrdersDue /\ o = Cm100(FALSE) /\ r = todo' /\ r = Append(due, o)
      BY <1>0, <2>1
    <3>2. Within(r, o) /\ \A p : p # o => Undone(r, p, o)
      BY <1>3, <3>0, OneMoreOrder
    <3>1. Undone(todo', Cm100(TRUE), Cm100(FALSE)) /\ Within(todo', Cm100(FALSE))
      BY <1>0, <3>0, <3>2
    <3> QED BY <3>1 DEF Closed, Cm100, Quick!Order
  <2>2. CASE trial' = [trial EXCEPT !.stage = "idle", !.lost = TRUE]
    BY <1>0, <2>2 DEF Trials
  <2>3. CASE todo' = due /\ c.test
    <3>1. ~trial.early => Over'
      BY <1>1, <2>3 DEF Over, Cm100, Test, Quick!Order
    <3> QED BY <3>1
  <2> QED BY <2>1, <2>2, <2>3 DEF Quick!Abandon
<1>9. TrialOK'
  BY <1>0, <1>2, <1>8 DEF QuickInv, TrialOK
<1> QED BY <1>4, <1>5, <1>7, <1>9 DEF QuickInv

LEMMA TestStartKeeps == ASSUME QuickInv, Quick!StartTest PROVE QuickInv'
<1>0. /\ choosing' = choosing /\ site' = site /\ assured' = assured /\ monitor' = monitor /\ todo' = todo
      /\ monitor \in BOOLEAN /\ wizard \in Wizards /\ trial \in Trials /\ site.test \in BOOLEAN
      /\ "controls" \in Trying /\ "test-start" \in Works /\ BusyOf("controls") = "test-start"
      /\ "controls" \in Starting
  BY QuickMembers DEF Quick!StartTest, QuickInv, QuickShape, BusyOf, Sites
<1>1. /\ wizard.busy = "" /\ trial.stage = "idle" /\ ~wizard.copy.test /\ Quick!Busy("test-start")
      /\ trial' = [Quick!NoTrial EXCEPT !.stage = "controls", !.early = Quick!TestGoesOn]
  BY DEF Quick!StartTest, Quick!OnSource, Quick!At
<1>2. wizard' \in Wizards /\ wizard'.copy = wizard.copy /\ wizard'.busy = "test-start"
  BY <1>0, <1>1, BusyTyped
<1>3. Quick!TestGoesOn <=> site.test \/ Within(todo, Test(TRUE))
  BY DEF Quick!TestGoesOn, Within, Test
<1>4. Quick!TestGoesOn \in BOOLEAN
  BY <1>0 DEF Quick!TestGoesOn
<1>5. /\ trial' \in Trials /\ trial'.stage = "controls" /\ ~trial'.opened /\ ~trial'.lost
      /\ trial'.early = Quick!TestGoesOn
  BY <1>0, <1>1, <1>4 DEF Quick!NoTrial, Trials
<1>6. QuickShape'
  BY <1>0, <1>2, <1>5 DEF QuickInv, QuickShape
<1>7. InTurn'
  BY <1>0, <1>1, <1>2, <1>5, SourceTurn
<1>8. Assures'
  BY <1>0, <1>2, SourceChoice DEF Besides
<1>9. TrialOK'
  BY <1>0, <1>1, <1>2, <1>3, <1>5 DEF QuickInv, TrialOK
<1> QED BY <1>6, <1>7, <1>8, <1>9 DEF QuickInv

LEMMA OpenKeeps == ASSUME QuickInv, Quick!OpenCm100 PROVE QuickInv'
<1>0. /\ choosing' = choosing /\ site' = site /\ assured' = assured /\ monitor' = monitor
      /\ monitor \in BOOLEAN /\ wizard \in Wizards /\ wizard.copy \in Shown /\ trial \in Trials
      /\ site.test \in BOOLEAN /\ todo \in Seq(OrdersDue)
      /\ "wait" \in Trying /\ "idle" \in Trying /\ "wait" \in Starting /\ "idle" \notin Starting
      /\ "controls" \in Starting /\ BusyOf("wait") = BusyOf("controls")
      /\ trial.stage = "controls" /\ ~trial.opened /\ ~trial.lost
      /\ Cm100(TRUE) = Quick!Order("cm100", TRUE) /\ Cm100(TRUE) \in OrdersDue /\ Cm100(TRUE) \notin Sharing
      /\ Test(TRUE) # Cm100(TRUE)
  BY QuickMembers, OrdersPlaced
     DEF Quick!OpenCm100, Quick!At, QuickInv, QuickShape, Wizards, Sites, TrialOK, BusyOf, Cm100,
         Test, Quick!Order
<1> DEFINE read == [wizard.copy EXCEPT !.test = site.test]
<1>1. read \in Shown /\ read.test = site.test /\ read.choice = wizard.copy.choice
  BY <1>0, CopyTyped
<1>2. \/ wizard' = Quick!Sees(read) /\ Quick!Stage("wait") /\ todo' = todo
      \/ /\ wizard' = Quick!Sees(read) /\ trial' = [trial EXCEPT !.stage = "wait", !.opened = TRUE]
         /\ todo' = Append(todo, Cm100(TRUE))
      \/ /\ Quick!Told(wizard.copy, "error") /\ Quick!Stage("idle")
         /\ todo' = todo \/ todo' = Append(todo, Cm100(TRUE))
  BY <1>0 DEF Quick!OpenCm100, Quick!Accepted, Quick!Failed
<1> HIDE DEF read
<1>3. todo' \in Seq(OrdersDue) /\ Besides(Sharing)
      /\ (Within(todo', Test(TRUE)) => Within(todo, Test(TRUE)))
  <2>1. CASE todo' = todo
    BY <1>0, <2>1 DEF Besides
  <2>2. CASE todo' = Append(todo, Cm100(TRUE))
    BY <1>0, <2>2, OneMoreOrder DEF Besides
  <2> QED BY <1>2, <2>1, <2>2
<1>4. CASE wizard' = Quick!Sees(read) /\ (Quick!Stage("wait") \/ trial' = [trial EXCEPT !.stage = "wait", !.opened = TRUE])
  <2>1. wizard' \in Wizards /\ wizard'.copy = read /\ wizard'.busy = wizard.busy
    BY <1>0, <1>1, <1>4, SeesTyped
  <2>2. /\ trial' \in Trials /\ trial'.stage = "wait" /\ ~trial'.lost /\ trial'.early = trial.early
    BY <1>0, <1>4 DEF Quick!Stage, Trials
  <2>3. QuickShape'
    BY <1>0, <1>3, <2>1, <2>2 DEF QuickInv, QuickShape
  <2>4. InTurn'
    BY <1>0, <2>1, <2>2, SourceTurn
  <2>5. Assures'
    BY <1>0, <1>1, <1>3, <2>1, SourceChoice
  <2>6. TrialOK'
    BY <1>0, <1>1, <1>3, <2>1, <2>2 DEF QuickInv, TrialOK
  <2> QED BY <2>3, <2>4, <2>5, <2>6 DEF QuickInv
<1>5. CASE Quick!Told(wizard.copy, "error") /\ Quick!Stage("idle")
  <2>1. wizard' \in Wizards /\ wizard'.copy = wizard.copy /\ wizard'.busy = ""
    BY <1>0, <1>5, TellTyped
  <2>2. trial' \in Trials /\ trial'.stage = "idle" /\ ~trial'.opened
    BY <1>0, <1>5, StageTyped
  <2>3. QuickShape'
    BY <1>0, <1>3, <2>1, <2>2 DEF QuickInv, QuickShape
  <2>4. InTurn'
    BY <1>0, <2>1, <2>2, SourceTurn
  <2>5. Assures'
    BY <1>0, <1>3, <2>1, SourceChoice
  <2>6. TrialOK'
    BY <1>0, <2>2 DEF QuickInv, TrialOK
  <2> QED BY <2>3, <2>4, <2>5, <2>6 DEF QuickInv
<1> QED BY <1>2, <1>4, <1>5

LEMMA AwaitKeeps == ASSUME QuickInv, Quick!AwaitCm100 PROVE QuickInv'
<1>0. /\ choosing' = choosing /\ site' = site /\ assured' = assured /\ monitor' = monitor
      /\ monitor \in BOOLEAN /\ wizard \in Wizards /\ wizard.copy \in Shown /\ trial \in Trials
      /\ "switch" \in Trying /\ "switch" \in Starting /\ "wait" \in Starting
      /\ BusyOf("switch") = BusyOf("wait") /\ trial.stage = "wait" /\ (site.cm100 = "on") \in BOOLEAN
  BY QuickMembers DEF Quick!AwaitCm100, Quick!At, QuickInv, QuickShape, Wizards, BusyOf
<1>1. ~trial.early => ~wizard.copy.test
  BY <1>0 DEF QuickInv, TrialOK
<1> DEFINE read == [wizard.copy EXCEPT !.cm100 = site.cm100 = "on"]
<1>2. read \in Shown /\ read.test = wizard.copy.test /\ read.choice = wizard.copy.choice
  BY <1>0, CopyTyped
<1>3. \/ wizard' = Quick!Sees(read) /\ Quick!Stage("switch") /\ todo' = todo
      \/ Quick!Abandon(read, todo) \/ Quick!Abandon(wizard.copy, todo)
  BY DEF Quick!AwaitCm100
<1> HIDE DEF read
<1>4. CASE wizard' = Quick!Sees(read) /\ Quick!Stage("switch") /\ todo' = todo
  <2>1. wizard' \in Wizards /\ wizard'.copy = read /\ wizard'.busy = wizard.busy
    BY <1>0, <1>2, <1>4, SeesTyped
  <2>2. /\ trial' \in Trials /\ trial'.stage = "switch" /\ trial'.lost = trial.lost
        /\ trial'.opened = trial.opened /\ trial'.early = trial.early
    BY <1>0, <1>4, StageTyped
  <2>3. QuickShape'
    BY <1>0, <1>4, <2>1, <2>2 DEF QuickInv, QuickShape
  <2>4. InTurn'
    BY <1>0, <2>1, <2>2, SourceTurn
  <2>5. Assures'
    BY <1>0, <1>2, <1>4, <2>1, SourceChoice DEF Besides
  <2>6. TrialOK'
    BY <1>0, <1>2, <1>4, <2>1, <2>2 DEF QuickInv, TrialOK
  <2> QED BY <2>3, <2>4, <2>5, <2>6 DEF QuickInv
<1>5. CASE Quick!Abandon(read, todo)
  BY <1>0, <1>1, <1>2, <1>5, AbandonKeeps
<1>6. CASE Quick!Abandon(wizard.copy, todo)
  BY <1>0, <1>1, <1>6, AbandonKeeps
<1> QED BY <1>3, <1>4, <1>5, <1>6

LEMMA SwitchKeeps == ASSUME QuickInv, Quick!SwitchOn PROVE QuickInv'
<1>0. /\ choosing' = choosing /\ site' = site /\ assured' = assured /\ monitor' = monitor
      /\ monitor \in BOOLEAN /\ wizard \in Wizards /\ wizard.copy \in Shown /\ trial \in Trials
      /\ todo \in Seq(OrdersDue)
      /\ "check" \in Trying /\ "check" \in Starting /\ "switch" \in Starting
      /\ BusyOf("check") = BusyOf("switch") /\ trial.stage = "switch"
      /\ Test(TRUE) = Quick!Order("test", TRUE) /\ Test(TRUE) \in OrdersDue /\ Test(TRUE) \notin Sharing
      /\ Test(TRUE) # Cm100(TRUE)
  BY QuickMembers, OrdersPlaced
     DEF Quick!SwitchOn, Quick!At, QuickInv, QuickShape, Wizards, BusyOf, Cm100, Test, Quick!Order
<1>1. ~trial.early => ~site.test /\ ~Within(todo, Test(TRUE)) /\ ~wizard.copy.test
  BY <1>0 DEF QuickInv, TrialOK
<1>2. \/ todo' = Append(todo, Test(TRUE)) /\ Quick!Stage("check") /\ wizard' = wizard
      \/ \E due \in {todo, Append(todo, Test(TRUE))} : Quick!Abandon(wizard.copy, due)
  BY <1>0 DEF Quick!SwitchOn, Quick!Accepted
<1>3. CASE todo' = Append(todo, Test(TRUE)) /\ Quick!Stage("check") /\ wizard' = wizard
  <2>1. /\ todo' \in Seq(OrdersDue) /\ Undone(todo', Cm100(TRUE), Test(TRUE))
        /\ ~Within(todo, Test(TRUE)) => Once(todo', Test(TRUE))
    BY <1>0, <1>3, OneMoreOrder
  <2>2. /\ trial' \in Trials /\ trial'.stage = "check" /\ trial'.lost = trial.lost
        /\ trial'.opened = trial.opened /\ trial'.early = trial.early
    BY <1>0, <1>3, StageTyped
  <2>3. QuickShape'
    BY <1>0, <1>3, <2>1, <2>2 DEF QuickInv, QuickShape
  <2>4. InTurn'
    BY <1>0, <1>3, <2>2, SourceTurn
  <2>5. Besides(Sharing)
    BY <1>0, <1>3 DEF Besides
  <2>6. Assures'
    BY <1>0, <1>3, <2>5, SourceChoice
  <2>7. TrialOK'
    BY <1>0, <1>1, <1>3, <2>1, <2>2 DEF QuickInv, TrialOK
  <2> QED BY <2>3, <2>4, <2>6, <2>7 DEF QuickInv
<1>4. CASE \E due \in {todo, Append(todo, Test(TRUE))} : Quick!Abandon(wizard.copy, due)
  BY <1>0, <1>1, <1>4, AbandonKeeps
<1> QED BY <1>2, <1>3, <1>4

LEMMA TestCheckKeeps == ASSUME QuickInv, Quick!CheckTest PROVE QuickInv'
<1>0. /\ choosing' = choosing /\ site' = site /\ assured' = assured
      /\ monitor \in BOOLEAN /\ wizard \in Wizards /\ wizard.copy \in Shown /\ trial \in Trials
      /\ "idle" \in Trying /\ "idle" \notin Starting /\ "check" \in Starting /\ trial.stage = "check"
      /\ site.test \in BOOLEAN /\ (site.cm100 = "on") \in BOOLEAN
  BY QuickMembers DEF Quick!CheckTest, Quick!At, QuickInv, QuickShape, Wizards, Sites
<1>1. ~trial.early =>
        /\ Undone(todo, Cm100(TRUE), Test(TRUE))
        /\ site.test \/ wizard.copy.test => ~Within(todo, Test(TRUE))
        /\ wizard.copy.test => site.test \/ site.cm100 = "off"
  BY <1>0 DEF QuickInv, TrialOK
<1>2. Undone(todo, Cm100(TRUE), Test(TRUE)) /\ ~Within(todo, Test(TRUE)) => ~Within(todo, Cm100(TRUE))
  BY DEF Undone, Within
<1> DEFINE read == [wizard.copy EXCEPT !.test = site.test, !.cm100 = site.cm100 = "on"]
<1>3. read \in Shown /\ read.test = site.test /\ read.choice = wizard.copy.choice
  BY <1>0, CopyTyped
<1>4. \/ Quick!Running(read)
      \/ (~read.test /\ Quick!Abandon(read, todo) /\ monitor' = monitor)
      \/ (Quick!Abandon(wizard.copy, todo) /\ monitor' = monitor)
  BY DEF Quick!CheckTest
<1> HIDE DEF read
<1>5. CASE Quick!Running(read)
  <2>1. /\ site.test /\ Quick!Told(read, "") /\ Quick!Stage("idle") /\ monitor' = TRUE /\ todo' = todo
    BY <1>3, <1>5 DEF Quick!Running
  <2>2. wizard' \in Wizards /\ wizard'.copy = read /\ wizard'.busy = ""
    BY <1>0, <1>3, <2>1, TellTyped
  <2>3. /\ trial' \in Trials /\ trial'.stage = "idle" /\ trial'.lost = trial.lost
        /\ trial'.opened = trial.opened /\ trial'.early = trial.early
    BY <1>0, <2>1, StageTyped
  <2>4. QuickShape'
    BY <1>0, <2>1, <2>2, <2>3 DEF QuickInv, QuickShape
  <2>5. InTurn'
    BY <1>0, <2>2, <2>3, SourceTurn
  <2>6. Assures'
    BY <1>0, <1>3, <2>1, <2>2, SourceChoice DEF Besides
  <2>7. ~trial.early => Over'
    BY <1>0, <1>1, <1>2, <1>3, <2>1, <2>2 DEF Over, Cm100, Test, Quick!Order
  <2>8. TrialOK'
    BY <1>0, <2>3, <2>7 DEF QuickInv, TrialOK
  <2> QED BY <2>4, <2>5, <2>6, <2>8 DEF QuickInv
<1>6. CASE ~read.test /\ Quick!Abandon(read, todo) /\ monitor' = monitor
  BY <1>0, <1>3, <1>6, AbandonKeeps
<1>7. CASE Quick!Abandon(wizard.copy, todo) /\ monitor' = monitor
  BY <1>0, <1>1, <1>2, <1>7, AbandonKeeps
<1> QED BY <1>4, <1>5, <1>6, <1>7

LEMMA QuickNext == ASSUME QuickInv, [Quick!Next]_quickVars PROVE QuickInv'
<1>1. CASE UNCHANGED quickVars
  <2>1. /\ site' = site /\ todo' = todo /\ wizard' = wizard /\ choosing' = choosing /\ trial' = trial
        /\ monitor' = monitor /\ assured' = assured
    BY <1>1 DEF quickVars
  <2> QED BY <2>1 DEF QuickInv, QuickShape, InTurn, Assures, TrialOK, StaysOff, Closed, Over,
             Acting, BusyOf
<1>2. CASE Quick!StepNext
  BY <1>2, StepSteps
<1>3. CASE Quick!ChoiceNext
  BY <1>3, ChooseKeeps, HydratedKeeps, WriterSteps DEF Quick!ChoiceNext
<1>4. CASE Quick!SourceNext
  BY <1>4, ApplySteps, WatchSteps, TestStartKeeps, OpenKeeps, AwaitKeeps, SwitchKeeps,
     TestCheckKeeps
     DEF Quick!SourceNext
<1> QED BY <1>1, <1>2, <1>3, <1>4, MainLoopKeeps, DeviceSteps DEF Quick!Next

LEMMA WizardTells == QuickInv => Quick!WizardTold
<1> SUFFICES ASSUME QuickInv PROVE Quick!WizardTold
  OBVIOUS
<1>1. ASSUME NEW k \in assured, ~Quick!Due(k) PROVE site.choice[k] # "on"
  <2>1. ~Within(todo, Quick!Order(k, FALSE))
    BY <1>1 DEF Quick!Due, Within, Quick!Order
  <2> QED BY <1>1, <2>1 DEF QuickInv, Assures, StaysOff
<1>2. ASSUME Quick!At("idle"), trial.opened, ~trial.lost, ~trial.early, ~wizard.copy.test,
             todo = <<>>
      PROVE  site.cm100 = "off"
  <2>1. \A o : ~Within(todo, o)
    BY <1>2 DEF Within
  <2>2. Closed \/ Over
    BY <1>2, QuickMembers DEF QuickInv, TrialOK, Quick!At
  <2> QED BY <1>2, <2>1, <2>2 DEF Closed, Over
<1> QED BY <1>1, <1>2 DEF Quick!WizardTold

-----------------------------------------------------------------------------
(***************************************************************************)
(* The three together                                                      *)
(***************************************************************************)
ControlsInv == WritesInv /\ ToolsInv /\ QuickInv

(* Whatever is lost or refused, and however the commands overlap, what the *)
(* page says it wrote or put back is so until somebody else writes it; the *)
(* tools of an outdoor unit report no save that was not made and replace   *)
(* no defrost method but the one the user saw; and the wizard calls no     *)
(* sharing off that is on and leaves no CM100 open behind a start of the   *)
(* flow test that failed (commitTelemetrySwitch, runOperation,             *)
(* startQuickStartFlowTest).                                               *)
THEOREM ToldIsTrue == ControlsSpec => []ToldTrue
<1>1. ControlsInit => ControlsInv
  BY WritesInit, ToolsInit, QuickInit DEF ControlsInit, ControlsInv
<1>2. ControlsInv /\ [ControlsNext]_controlsVars => ControlsInv'
  <2> SUFFICES ASSUME ControlsInv, [ControlsNext]_controlsVars PROVE ControlsInv'
    OBVIOUS
  <2>1. [Writes!Next]_writesVars /\ [Tools!Next]_toolsVars /\ [Quick!Next]_quickVars
    BY DEF ControlsNext, controlsVars
  <2> QED BY <2>1, WritesAssumption, WritesNext, ToolsNext, QuickNext DEF ControlsInv
<1>3. ControlsInv => ToldTrue
  BY ToolsTell, WizardTells DEF ToldTrue, ControlsInv, WritesInv
<1> QED BY <1>1, <1>2, <1>3, PTL DEF ControlsSpec
=============================================================================
