-------------------------- MODULE WebHistory_proofs --------------------------
(***************************************************************************)
(* Proofs about the area "energy" of the panels (EnergyHistory), for every *)
(* calendar, every use of energy and every number of events: EnergyTrue    *)
(* holds.                                                                  *)
(*                                                                         *)
(* The sums over a day's hours are recursive functions over Int, so what   *)
(* they are is first shown by sets of numbers (Sums).  Then, for a clock   *)
(* c, an archive b, what was measured t and an import u, the invariant     *)
(* EnergySound(c, b, t, u) says what each knows of the others: the samples *)
(* of the clock, the hours in RAM of those in flash, the hours of the      *)
(* day's total, the archive of what was measured, and the file of an       *)
(* import of the archive it came from and that it goes into.  One lemma    *)
(* each says that a sample, a write, a restart, a clearing or a line of an *)
(* import keeps it; an action is one or two of these (EnergyNow).          *)
(* PageSound is about the page alone: which archive the answers on their   *)
(* way to it can know of.                                                  *)
(***************************************************************************)
EXTENDS WebPanels, Integers, Sequences, WellFoundedInduction, TLAPS

-----------------------------------------------------------------------------
(* Sums                                                                    *)

LEMMA LeastOfNat ==
  ASSUME NEW S \in SUBSET Nat, S /= {}
  PROVE  \E m \in S : \A k \in S : m <= k
<1>1. IsWellFoundedOn(OpToRel(<, Nat), Nat)
  BY NatLessThanWellFounded
<1>2. PICK m \in S : \A k \in S : ~ (<<k, m>> \in OpToRel(<, Nat))
  BY <1>1, WFMin
<1>3. \A k \in S : m <= k
  <2> TAKE k \in S
  <2>1. k \in Nat /\ m \in Nat
    OBVIOUS
  <2>2. k < m => <<k, m>> \in OpToRel(<, Nat)
    BY <2>1 DEF OpToRel
  <2>3. ~ (<<k, m>> \in OpToRel(<, Nat))
    BY <1>2
  <2>4. ~ (k < m)
    BY <2>2, <2>3
  <2> QED BY <2>1, <2>4
<1> QED BY <1>3

\* Induction, said of a set of numbers.
LEMMA StepByStep ==
  ASSUME NEW S, 0 \in S, \A n \in Nat : n \in S => n + 1 \in S
  PROVE  Nat \subseteq S
<1> SUFFICES ASSUME Nat \ S /= {} PROVE FALSE
  OBVIOUS
<1>1. PICK m \in Nat \ S : \A k \in Nat \ S : m <= k
  BY LeastOfNat
<1>2. m - 1 \in Nat /\ m - 1 \in S
  BY <1>1
<1> QED BY <1>1, <1>2

LEMMA GreatestOf ==
  ASSUME NEW n \in Nat, NEW is \in SUBSET (1..n), is /= {}
  PROVE  /\ Energy!Last(is) \in is
         /\ \A i \in is : i <= Energy!Last(is)
<1> DEFINE far == { n - i : i \in is }
<1>1. far \in SUBSET Nat /\ far /= {}
  <2>1. \A i \in is : n - i \in Nat
    OBVIOUS
  <2>2. PICK i \in is : TRUE
    OBVIOUS
  <2>3. n - i \in far
    OBVIOUS
  <2> QED BY <2>1, <2>3
<1>2. PICK m \in far : \A k \in far : m <= k
  BY <1>1, LeastOfNat
<1>3. PICK i \in is : m = n - i
  BY <1>2
<1>4. \A j \in is : j <= i
  <2> TAKE j \in is
  <2>1. n - j \in far
    OBVIOUS
  <2> QED BY <2>1, <1>2, <1>3
<1>5. \E x \in is : \A j \in is : j <= x
  BY <1>4
<1> QED BY <1>5 DEF Energy!Last

Sums(values, from) ==
  CHOOSE sum : sum = [ n \in Int |->
    IF n < from THEN 0 ELSE Energy!Plus(sum[n - 1], values[n]) ]

LEMMA SumIs ==
  ASSUME NEW values, NEW from, NEW to
  PROVE  Energy!SumUp(values, from, to) = Sums(values, from)[to]
BY DEF Energy!SumUp, Sums

\* sum follows the recursion up to n
Follows(sum, values, from, n) ==
  /\ sum = [ i \in Int |-> sum[i] ]
  /\ \A i \in Int : i <= n =>
       sum[i] = IF i < from THEN 0 ELSE Energy!Plus(sum[i - 1], values[i])

LEMMA FollowsExists ==
  ASSUME NEW values, NEW from \in Int, NEW n \in Int
  PROVE  \E sum : Follows(sum, values, from, n)
<1> DEFINE S == { k \in Nat : \E sum : Follows(sum, values, from, from - 1 + k) }
<1>1. 0 \in S
  <2>1. Follows([ i \in Int |-> 0 ], values, from, from - 1)
    BY DEF Follows
  <2> QED BY <2>1
<1>2. ASSUME NEW k \in Nat, k \in S PROVE k + 1 \in S
  <2>1. PICK sum : Follows(sum, values, from, from - 1 + k)
    BY <1>2
  <2> DEFINE next == [ i \in Int |-> IF i = from + k
                        THEN Energy!Plus(sum[i - 1], values[i]) ELSE sum[i] ]
  <2>2. next = [ i \in Int |-> next[i] ]
    OBVIOUS
  <2>3. ASSUME NEW i \in Int, i <= from - 1 + (k + 1)
        PROVE  next[i] = IF i < from THEN 0 ELSE Energy!Plus(next[i - 1], values[i])
    <3>1. CASE i = from + k
      <4>1. i - 1 /= from + k /\ i - 1 \in Int /\ ~(i < from)
        BY <3>1
      <4>2. next[i - 1] = sum[i - 1]
        BY <4>1
      <4> QED BY <3>1, <4>1, <4>2
    <3>2. CASE i /= from + k
      <4>1. i <= from - 1 + k /\ i - 1 /= from + k /\ i - 1 \in Int
        BY <3>2, <2>3
      <4>2. sum[i] = IF i < from THEN 0 ELSE Energy!Plus(sum[i - 1], values[i])
        BY <4>1, <2>1 DEF Follows
      <4> QED BY <3>2, <4>1, <4>2
    <3> QED BY <3>1, <3>2
  <2>4. Follows(next, values, from, from - 1 + (k + 1))
    BY <2>2, <2>3 DEF Follows
  <2> QED BY <2>4
<1>3. Nat \subseteq S
  BY <1>1, <1>2, StepByStep
<1>4. CASE n < from
  <2>1. Follows([ i \in Int |-> 0 ], values, from, n)
    BY <1>4 DEF Follows
  <2> QED BY <2>1
<1>5. CASE ~(n < from)
  <2>1. n - from + 1 \in S /\ from - 1 + (n - from + 1) = n
    BY <1>3, <1>5
  <2> QED BY <2>1
<1> QED BY <1>4, <1>5

LEMMA FollowsAt ==
  ASSUME NEW values, NEW from \in Int, NEW n \in Int, NEW sum,
         Follows(sum, values, from, n), NEW i \in Int, i <= n, ~ (i < from)
  PROVE  sum[i] = Energy!Plus(sum[i - 1], values[i])
<1>1. sum[i] = IF i < from THEN 0 ELSE Energy!Plus(sum[i - 1], values[i])
  BY DEF Follows
<1> QED BY <1>1

LEMMA FollowsUnique ==
  ASSUME NEW values, NEW from \in Int, NEW n \in Int, NEW f, NEW g,
         Follows(f, values, from, n), Follows(g, values, from, n)
  PROVE  f[n] = g[n]
<1> DEFINE S == { k \in Nat : from - 1 + k <= n =>
                    f[from - 1 + k] = g[from - 1 + k] }
<1>1. 0 \in S
  BY DEF Follows
<1>2. ASSUME NEW k \in Nat, k \in S PROVE k + 1 \in S
  <2> SUFFICES ASSUME from + k <= n PROVE f[from + k] = g[from + k]
    OBVIOUS
  <2>0. /\ from + k \in Int /\ ~ (from + k < from)
        /\ from + k <= n
    OBVIOUS
  <2>1. f[from + k] = Energy!Plus(f[from + k - 1], values[from + k])
    BY <2>0, FollowsAt
  <2>2. g[from + k] = Energy!Plus(g[from + k - 1], values[from + k])
    BY <2>0, FollowsAt
  <2>3. f[from + k - 1] = g[from + k - 1]
    BY <1>2
  <2> QED BY <2>1, <2>2, <2>3
<1>3. Nat \subseteq S
  BY <1>1, <1>2, StepByStep
<1>4. CASE n < from
  <2>1. n <= n
    OBVIOUS
  <2>2. f[n] = 0 /\ g[n] = 0
    BY <1>4, <2>1 DEF Follows
  <2> QED BY <2>2
<1>5. CASE ~(n < from)
  <2>1. n - from + 1 \in S /\ from - 1 + (n - from + 1) = n
    BY <1>3, <1>5
  <2> QED BY <2>1
<1> QED BY <1>4, <1>5

LEMMA SumsFollow ==
  ASSUME NEW values, NEW from \in Int, NEW n \in Int
  PROVE  Sums(values, from)[n] =
           IF n < from THEN 0 ELSE Energy!Plus(Sums(values, from)[n - 1], values[n])
<1> DEFINE To(i) == CHOOSE g : Follows(g, values, from, i)
           f == [ i \in Int |-> To(i)[i] ]
<1>1. \A i \in Int : Follows(To(i), values, from, i)
  BY FollowsExists
<1>2. ASSUME NEW i \in Int
      PROVE  f[i] = IF i < from THEN 0 ELSE Energy!Plus(f[i - 1], values[i])
  <2>1. To(i)[i] = IF i < from THEN 0 ELSE Energy!Plus(To(i)[i - 1], values[i])
    <3> HIDE DEF To
    <3>1. i <= i /\ Follows(To(i), values, from, i)
      BY <1>1
    <3> QED BY <3>1 DEF Follows
  <2>2. i - 1 \in Int /\ Follows(To(i), values, from, i - 1)
    <3> HIDE DEF To
    <3> QED BY <1>1 DEF Follows
  <2>3. To(i)[i - 1] = To(i - 1)[i - 1]
    <3> HIDE DEF To
    <3> QED BY <2>2, <1>1, FollowsUnique
  <2>4. f[i] = To(i)[i] /\ f[i - 1] = To(i - 1)[i - 1]
    <3> HIDE DEF To
    <3> QED BY <2>2
  <2> QED BY <2>1, <2>3, <2>4
<1>3. f = [ i \in Int |-> IF i < from THEN 0 ELSE Energy!Plus(f[i - 1], values[i]) ]
  <2> HIDE DEF To
  <2>1. f = [ i \in Int |-> f[i] ]
    OBVIOUS
  <2> HIDE DEF f
  <2> QED BY <1>2, <2>1
<1>4. Sums(values, from) = [ i \in Int |->
        IF i < from THEN 0 ELSE Energy!Plus(Sums(values, from)[i - 1], values[i]) ]
  <2> HIDE DEF f
  <2> QED BY <1>3 DEF Sums
<1> HIDE DEF f
<1>5. Sums(values, from)[n] = [ i \in Int |->
        IF i < from THEN 0 ELSE Energy!Plus(Sums(values, from)[i - 1], values[i]) ][n]
  BY <1>4
<1> QED BY <1>5

-----------------------------------------------------------------------------
(* The total of a day                                                      *)

KnownWh  == Nat \cup {Energy!Unknown}
HourMaps == [Energy!Day -> KnownWh]

LEMMA SumStep ==
  ASSUME NEW values, NEW from \in Int, NEW to \in Int
  PROVE  Energy!SumUp(values, from, to) =
           IF to < from THEN 0
           ELSE Energy!Plus(Energy!SumUp(values, from, to - 1), values[to])
BY SumsFollow, SumIs

LEMMA SumOfNone ==
  ASSUME NEW values, NEW from \in Int
  PROVE  Energy!SumUp(values, from, from - 1) = 0
BY SumStep

LEMMA SumNat ==
  ASSUME NEW values, NEW from \in Int, NEW to \in Int,
         \A i \in from..to : values[i] \in KnownWh
  PROVE  Energy!SumUp(values, from, to) \in Nat
<1> DEFINE S == { k \in Nat : from - 1 + k <= to =>
                    Energy!SumUp(values, from, from - 1 + k) \in Nat }
<1>1. 0 \in S
  BY SumOfNone
<1>2. ASSUME NEW k \in Nat, k \in S PROVE k + 1 \in S
  <2> SUFFICES ASSUME from + k <= to PROVE Energy!SumUp(values, from, from + k) \in Nat
    OBVIOUS
  <2>1. from + k \in Int /\ ~(from + k < from) /\ values[from + k] \in KnownWh
    OBVIOUS
  <2>2. Energy!SumUp(values, from, from + k - 1) \in Nat
    BY <1>2
  <2>3. Energy!SumUp(values, from, from + k) =
          Energy!Plus(Energy!SumUp(values, from, from + k - 1), values[from + k])
    BY <2>1, SumStep
  <2> QED BY <2>1, <2>2, <2>3 DEF Energy!Plus, KnownWh, Energy!Unknown
<1>3. Nat \subseteq S
  BY <1>1, <1>2, StepByStep
<1>4. CASE to < from
  BY <1>4, SumStep
<1>5. CASE ~(to < from)
  <2>0. to - from + 1 \in Nat /\ from - 1 + (to - from + 1) = to
    BY <1>5
  <2>1. to - from + 1 \in S
    BY <1>3, <2>0
  <2> QED BY <2>0, <2>1
<1> QED BY <1>4, <1>5

LEMMA SumSame ==
  ASSUME NEW v, NEW w, NEW from \in Int, NEW to \in Int,
         \A i \in from..to : v[i] = w[i]
  PROVE  Energy!SumUp(v, from, to) = Energy!SumUp(w, from, to)
<1> DEFINE S == { k \in Nat : from - 1 + k <= to =>
                    Energy!SumUp(v, from, from - 1 + k) = Energy!SumUp(w, from, from - 1 + k) }
<1>1. 0 \in S
  BY SumOfNone
<1>2. ASSUME NEW k \in Nat, k \in S PROVE k + 1 \in S
  <2> SUFFICES ASSUME from + k <= to
               PROVE  Energy!SumUp(v, from, from + k) = Energy!SumUp(w, from, from + k)
    OBVIOUS
  <2>1. from + k \in Int /\ ~(from + k < from) /\ v[from + k] = w[from + k]
    OBVIOUS
  <2>2. Energy!SumUp(v, from, from + k - 1) = Energy!SumUp(w, from, from + k - 1)
    BY <1>2
  <2>3. Energy!SumUp(v, from, from + k) = Energy!Plus(Energy!SumUp(v, from, from + k - 1), v[from + k])
    BY <2>1, SumStep
  <2>4. Energy!SumUp(w, from, from + k) = Energy!Plus(Energy!SumUp(w, from, from + k - 1), w[from + k])
    BY <2>1, SumStep
  <2> QED BY <2>1, <2>2, <2>3, <2>4
<1>3. Nat \subseteq S
  BY <1>1, <1>2, StepByStep
<1>4. CASE to < from
  BY <1>4, SumStep
<1>5. CASE ~(to < from)
  <2>0. to - from + 1 \in Nat /\ from - 1 + (to - from + 1) = to
    BY <1>5
  <2>1. to - from + 1 \in S
    BY <1>3, <2>0
  <2> QED BY <2>0, <2>1
<1> QED BY <1>4, <1>5

\* What is unknown adds nothing.
LEMMA SumTail ==
  ASSUME NEW v, NEW from \in Int, NEW m \in Int, NEW to \in Int,
         from - 1 <= m, m <= to, \A i \in m + 1..to : v[i] = Energy!Unknown
  PROVE  Energy!SumUp(v, from, to) = Energy!SumUp(v, from, m)
<1> DEFINE S == { k \in Nat : m + k <= to =>
                    Energy!SumUp(v, from, m + k) = Energy!SumUp(v, from, m) }
<1>1. 0 \in S
  OBVIOUS
<1>2. ASSUME NEW k \in Nat, k \in S PROVE k + 1 \in S
  <2> SUFFICES ASSUME m + k + 1 <= to
               PROVE  Energy!SumUp(v, from, m + k + 1) = Energy!SumUp(v, from, m)
    OBVIOUS
  <2>1. /\ m + k + 1 \in Int /\ ~(m + k + 1 < from)
        /\ v[m + k + 1] = Energy!Unknown /\ m + k + 1 - 1 = m + k
    OBVIOUS
  <2>2. Energy!SumUp(v, from, m + k) = Energy!SumUp(v, from, m)
    BY <1>2
  <2>3. Energy!SumUp(v, from, m + k + 1) =
          Energy!Plus(Energy!SumUp(v, from, m + k + 1 - 1), v[m + k + 1])
    BY <2>1, SumStep
  <2> QED BY <2>1, <2>2, <2>3 DEF Energy!Plus
<1>3. Nat \subseteq S
  BY <1>1, <1>2, StepByStep
<1>4. to - m \in S /\ m + (to - m) = to
  BY <1>3
<1> QED BY <1>4

LEMMA SumAdd ==
  ASSUME NEW v, NEW w, NEW from \in Int, NEW to \in Int,
         NEW h \in from..to, NEW k \in Nat,
         \A i \in from..to : v[i] \in KnownWh /\ (i /= h => w[i] = v[i]),
         w[h] = Energy!Plus(v[h], k)
  PROVE  Energy!SumUp(w, from, to) = Energy!SumUp(v, from, to) + k
<1>1. \A i \in from..h - 1 : v[i] = w[i]
  OBVIOUS
<1>2. Energy!SumUp(w, from, h - 1) = Energy!SumUp(v, from, h - 1)
  BY <1>1, SumSame
<1>3. Energy!SumUp(v, from, h - 1) \in Nat
  <2>1. \A i \in from..h - 1 : v[i] \in KnownWh
    OBVIOUS
  <2> QED BY <2>1, SumNat
<1>4. Energy!SumUp(w, from, h) = Energy!SumUp(v, from, h) + k
  <2>1. Energy!SumUp(w, from, h) = Energy!Plus(Energy!SumUp(w, from, h - 1), w[h])
    BY SumStep
  <2>2. Energy!SumUp(v, from, h) = Energy!Plus(Energy!SumUp(v, from, h - 1), v[h])
    BY SumStep
  <2>3. v[h] \in KnownWh
    OBVIOUS
  <2> QED BY <1>2, <1>3, <2>1, <2>2, <2>3 DEF Energy!Plus, KnownWh, Energy!Unknown
<1> DEFINE S == { n \in Nat : h + n <= to =>
                    /\ Energy!SumUp(w, from, h + n) = Energy!SumUp(v, from, h + n) + k
                    /\ Energy!SumUp(v, from, h + n) \in Nat }
<1>5. 0 \in S
  <2>1. \A i \in from..h : v[i] \in KnownWh
    OBVIOUS
  <2>2. Energy!SumUp(v, from, h) \in Nat
    BY <2>1, SumNat
  <2> QED BY <1>4, <2>2
<1>6. ASSUME NEW n \in Nat, n \in S PROVE n + 1 \in S
  <2> SUFFICES ASSUME h + n + 1 <= to
               PROVE  /\ Energy!SumUp(w, from, h + n + 1) = Energy!SumUp(v, from, h + n + 1) + k
                      /\ Energy!SumUp(v, from, h + n + 1) \in Nat
    OBVIOUS
  <2>1. /\ h + n + 1 \in from..to /\ ~(h + n + 1 < from)
        /\ h + n + 1 /= h /\ h + n + 1 - 1 = h + n /\ h + n + 1 \in Int
    OBVIOUS
  <2>2. v[h + n + 1] \in KnownWh /\ w[h + n + 1] = v[h + n + 1]
    BY <2>1
  <2>3. /\ Energy!SumUp(w, from, h + n) = Energy!SumUp(v, from, h + n) + k
        /\ Energy!SumUp(v, from, h + n) \in Nat
    BY <1>6
  <2>4. Energy!SumUp(w, from, h + n + 1) = Energy!Plus(Energy!SumUp(w, from, h + n), w[h + n + 1])
    BY <2>1, SumStep
  <2>5. Energy!SumUp(v, from, h + n + 1) = Energy!Plus(Energy!SumUp(v, from, h + n), v[h + n + 1])
    BY <2>1, SumStep
  <2> QED BY <2>2, <2>3, <2>4, <2>5 DEF Energy!Plus, KnownWh, Energy!Unknown
<1>7. Nat \subseteq S
  BY <1>5, <1>6, StepByStep
<1>8. to - h \in S /\ h + (to - h) = to
  BY <1>7
<1> QED BY <1>8

LEMMA TotalNat ==
  ASSUME NEW at \in HourMaps
  PROVE  Energy!Total(at) \in Nat
<1>1. \A h \in 0..(Hours - 1) : at[h] \in KnownWh
  BY DEF HourMaps, Energy!Day
<1> QED BY <1>1, SumNat, PanelsAssumption DEF Energy!Total

LEMMA TotalOfNone == Energy!Total(Energy!NoHours) = 0
<1>1. \A h \in (0 - 1) + 1..(Hours - 1) : Energy!NoHours[h] = Energy!Unknown
  BY DEF Energy!NoHours, Energy!Day
<1>2. Energy!SumUp(Energy!NoHours, 0, Hours - 1) = Energy!SumUp(Energy!NoHours, 0, 0 - 1)
  BY <1>1, SumTail, PanelsAssumption
<1> QED BY <1>2, SumOfNone DEF Energy!Total

LEMMA TotalAdds ==
  ASSUME NEW at \in HourMaps, NEW to, NEW h \in Energy!Day, NEW k \in Nat,
         to[h] = Energy!Plus(at[h], k), \A i \in Energy!Day : i /= h => to[i] = at[i]
  PROVE  Energy!Total(to) = Energy!Total(at) + k
<1>1. \A i \in 0..(Hours - 1) : at[i] \in KnownWh /\ (i /= h => to[i] = at[i])
  BY DEF HourMaps, Energy!Day
<1>2. h \in 0..(Hours - 1) /\ Hours - 1 \in Int
  BY PanelsAssumption DEF Energy!Day
<1> QED BY <1>1, <1>2, SumAdd DEF Energy!Total

-----------------------------------------------------------------------------
(* The archive                                                             *)

DayRecs  == [date : Energy!Dates, wh : Nat]
HourRecs == [date : Energy!Dates, at : HourMaps \ {Energy!NoHours}]
Books    == [ days   : Seq(DayRecs), hours : Seq(HourRecs),
              ram    : [Energy!Dates -> HourMaps],
              active : 0..LastDay, now : Nat,
              seen   : [day : 0..LastDay, wh : Nat],
              on     : BOOLEAN ]
Clocks   == [day : Energy!Dates, hour : Energy!Day, meter : Nat]

DayRec(b, d) ==
  LET is == { i \in 1..Len(b.days) : b.days[i].date = d }
  IN  IF is = {} THEN Energy!Unknown ELSE b.days[Energy!Last(is)].wh

HoursOver(a, b) == [ h \in Energy!Day |-> IF a[h] /= Energy!Unknown THEN a[h] ELSE b[h] ]

LEMMA NoHoursType == Energy!NoHours \in HourMaps
BY DEF Energy!NoHours, HourMaps, KnownWh

LEMMA OverType ==
  ASSUME NEW a \in HourMaps, NEW b \in HourMaps
  PROVE  HoursOver(a, b) \in HourMaps
BY DEF HourMaps, HoursOver

LEMMA OverNone ==
  ASSUME NEW a \in HourMaps
  PROVE  HoursOver(Energy!NoHours, a) = a /\ HoursOver(a, Energy!NoHours) = a
BY DEF HourMaps, HoursOver, Energy!NoHours, KnownWh

LEMMA DayRecType ==
  ASSUME NEW b \in Books, NEW d
  PROVE  /\ DayRec(b, d) \in KnownWh
         /\ DayRec(b, d) /= Energy!Unknown <=> d \in Energy!Stored(b)
<1> DEFINE is == { i \in 1..Len(b.days) : b.days[i].date = d }
<1>1. /\ b.days \in Seq(DayRecs) /\ Len(b.days) \in Nat
      /\ \A i \in 1..Len(b.days) : b.days[i] \in DayRecs
  BY DEF Books
<1>2. CASE is = {}
  <2>1. DayRec(b, d) = Energy!Unknown
    BY <1>2 DEF DayRec
  <2>2. d \notin Energy!Stored(b)
    BY <1>2 DEF Energy!Stored
  <2> QED BY <2>1, <2>2 DEF KnownWh
<1>3. CASE is /= {}
  <2>1. Energy!Last(is) \in is
    BY <1>1, <1>3, GreatestOf
  <2>2. b.days[Energy!Last(is)] \in DayRecs
    BY <1>1, <2>1
  <2>3. DayRec(b, d) = b.days[Energy!Last(is)].wh
    BY <1>3 DEF DayRec
  <2>4. d \in Energy!Stored(b)
    BY <2>1 DEF Energy!Stored
  <2> HIDE DEF is
  <2> QED BY <2>2, <2>3, <2>4 DEF DayRecs, KnownWh, Energy!Unknown
<1> QED BY <1>2, <1>3

LEMMA FlashType ==
  ASSUME NEW b \in Books, NEW d
  PROVE  /\ Energy!FromFlash(b, d) \in HourMaps
         /\ Energy!FromFlash(b, d) /= Energy!NoHours <=> d \in Energy!HoursStored(b)
<1> DEFINE is(h) == { i \in 1..Len(b.hours) :
                        b.hours[i].date = d /\ b.hours[i].at[h] /= Energy!Unknown }
           of(h) == IF is(h) = {} THEN Energy!Unknown ELSE b.hours[Energy!Last(is(h))].at[h]
<1>1. /\ b.hours \in Seq(HourRecs) /\ Len(b.hours) \in Nat
      /\ \A i \in 1..Len(b.hours) : b.hours[i] \in HourRecs
  BY DEF Books
<1>2. Energy!FromFlash(b, d) = [ h \in Energy!Day |-> of(h) ]
  BY DEF Energy!FromFlash
<1>3. ASSUME NEW h \in Energy!Day
      PROVE  of(h) \in KnownWh /\ (of(h) = Energy!Unknown <=> is(h) = {})
  <2>1. CASE is(h) = {}
    BY <2>1 DEF KnownWh
  <2>2. CASE is(h) /= {}
    <3>1. Energy!Last(is(h)) \in is(h)
      <4>1. is(h) \in SUBSET (1..Len(b.hours))
        OBVIOUS
      <4> HIDE DEF is
      <4> QED BY <1>1, <2>2, <4>1, GreatestOf
    <3>2. /\ Energy!Last(is(h)) \in 1..Len(b.hours)
          /\ b.hours[Energy!Last(is(h))].at[h] /= Energy!Unknown
      BY <3>1
    <3>3. b.hours[Energy!Last(is(h))].at \in HourMaps
      BY <1>1, <3>2 DEF HourRecs
    <3>4. b.hours[Energy!Last(is(h))].at[h] \in KnownWh
      BY <3>3 DEF HourMaps
    <3> QED BY <2>2, <3>2, <3>4
  <2> QED BY <2>1, <2>2
<1>4. Energy!FromFlash(b, d) \in HourMaps
  BY <1>2, <1>3 DEF HourMaps
<1>5. ASSUME Energy!FromFlash(b, d) /= Energy!NoHours PROVE d \in Energy!HoursStored(b)
  <2>1. PICK h \in Energy!Day : of(h) /= Energy!Unknown
    BY <1>2, <1>5 DEF Energy!NoHours
  <2>2. PICK i \in is(h) : TRUE
    BY <1>3, <2>1
  <2> QED BY <2>2 DEF Energy!HoursStored
<1>6. ASSUME d \in Energy!HoursStored(b) PROVE Energy!FromFlash(b, d) /= Energy!NoHours
  <2>1. PICK i \in 1..Len(b.hours) : b.hours[i].date = d
    BY <1>6 DEF Energy!HoursStored
  <2>2. b.hours[i].at \in HourMaps /\ b.hours[i].at /= Energy!NoHours
    BY <1>1 DEF HourRecs
  <2>3. PICK h \in Energy!Day : b.hours[i].at[h] /= Energy!Unknown
    BY <2>2 DEF HourMaps, Energy!NoHours
  <2>4. i \in is(h)
    BY <2>1, <2>3
  <2>5. of(h) /= Energy!Unknown
    BY <2>4, <1>3
  <2>6. Energy!FromFlash(b, d)[h] /= Energy!NoHours[h]
    BY <2>5, <1>2 DEF Energy!NoHours
  <2> QED BY <2>6
<1> QED BY <1>4, <1>5, <1>6

\* A day's record is above the older ones.
LEMMA DayWritten ==
  ASSUME NEW b \in Books, NEW e \in Energy!Dates, NEW wh \in Nat
  PROVE  LET c == Energy!WithDay(b, e, wh)
         IN  /\ c \in Books
             /\ c = [b EXCEPT !.days = c.days]
             /\ \A d : DayRec(c, d) = IF d = e THEN wh ELSE DayRec(b, d)
             /\ \A d : Energy!FromFlash(c, d) = Energy!FromFlash(b, d)
<1> DEFINE c == Energy!WithDay(b, e, wh)
           n == Len(b.days)
           r == [date |-> e, wh |-> wh]
<1>1. /\ b.days \in Seq(DayRecs) /\ n \in Nat /\ r \in DayRecs
      /\ \A i \in 1..n : b.days[i] \in DayRecs
  <2>1. r \in DayRecs
    BY DEF DayRecs
  <2>2. b.days \in Seq(DayRecs)
    BY DEF Books
  <2> QED BY <2>1, <2>2
<1>2. c = [b EXCEPT !.days = Append(b.days, r)]
  BY DEF Energy!WithDay
<1>3. c.days = Append(b.days, r) /\ c.hours = b.hours
  BY <1>2 DEF Books
<1>4. /\ Append(b.days, r) \in Seq(DayRecs)
      /\ Len(c.days) = n + 1 /\ c.days[n + 1] = r
      /\ \A i \in 1..n : c.days[i] = b.days[i]
  BY <1>1, <1>3
<1>5. c \in Books /\ c = [b EXCEPT !.days = c.days]
  BY <1>2, <1>3, <1>4 DEF Books
<1>6. \A d : Energy!FromFlash(c, d) = Energy!FromFlash(b, d)
  BY <1>3 DEF Energy!FromFlash
<1>7. ASSUME NEW d
      PROVE  DayRec(c, d) = IF d = e THEN wh ELSE DayRec(b, d)
  <2> DEFINE was == { i \in 1..n : b.days[i].date = d }
             is  == { i \in 1..Len(c.days) : c.days[i].date = d }
  <2> HIDE DEF c, n
  <2>1. CASE d = e
    <3>1. n + 1 \in is
      BY <1>1, <1>4, <2>1
    <3>2. Energy!Last(is) \in is /\ \A i \in is : i <= Energy!Last(is)
      <4>1. is \in SUBSET (1..(n + 1)) /\ is /= {} /\ n + 1 \in Nat
        BY <1>1, <1>4, <3>1
      <4> HIDE DEF is
      <4> QED BY <4>1, GreatestOf
    <3>3. Energy!Last(is) = n + 1
      <4>1. Energy!Last(is) \in 1..(n + 1) /\ n + 1 <= Energy!Last(is)
        BY <1>4, <3>1, <3>2
      <4> QED BY <4>1, <1>1
    <3>4. DayRec(c, d) = c.days[Energy!Last(is)].wh
      BY <3>1 DEF DayRec
    <3>5. c.days[Energy!Last(is)].wh = wh
      <4> HIDE DEF is
      <4> QED BY <3>3, <1>4
    <3> QED BY <2>1, <3>4, <3>5
  <2>2. CASE d /= e
    <3>1. is = was
      BY <1>1, <1>4, <2>2
    <3>2. CASE was = {}
      <4>1. DayRec(c, d) = Energy!Unknown /\ DayRec(b, d) = Energy!Unknown
        BY <3>1, <3>2 DEF DayRec, n
      <4> QED BY <4>1, <2>2
    <3>3. CASE was /= {}
      <4>1. Energy!Last(was) \in was
        <5>1. was \in SUBSET (1..n)
          OBVIOUS
        <5> HIDE DEF was
        <5> QED BY <5>1, <3>3, <1>1, GreatestOf
      <4>2. DayRec(c, d) = c.days[Energy!Last(is)].wh
        BY <3>1, <3>3 DEF DayRec
      <4>3. DayRec(b, d) = b.days[Energy!Last(was)].wh
        BY <3>3 DEF DayRec, n
      <4>4. c.days[Energy!Last(was)] = b.days[Energy!Last(was)]
        BY <4>1, <1>4
      <4> HIDE DEF is, was
      <4> QED BY <4>2, <4>3, <4>4, <3>1, <2>2
    <3> QED BY <3>2, <3>3
  <2> QED BY <2>1, <2>2
<1> QED BY <1>5, <1>6, <1>7

\* So are a day's hours, each by itself.
LEMMA HoursWritten ==
  ASSUME NEW b \in Books, NEW e \in Energy!Dates, NEW at \in HourMaps
  PROVE  LET c == Energy!WithHours(b, e, at)
         IN  /\ c \in Books
             /\ c = [b EXCEPT !.hours = c.hours]
             /\ \A d : DayRec(c, d) = DayRec(b, d)
             /\ \A d : Energy!FromFlash(c, d) = IF d = e THEN HoursOver(at, Energy!FromFlash(b, d))
                                                ELSE Energy!FromFlash(b, d)
<1> DEFINE c == Energy!WithHours(b, e, at)
           n == Len(b.hours)
           r == [date |-> e, at |-> at]
<1>1. CASE at = Energy!NoHours
  <2>1. c = b
    BY <1>1 DEF Energy!WithHours
  <2>2. \A d : HoursOver(at, Energy!FromFlash(b, d)) = Energy!FromFlash(b, d)
    BY <1>1, FlashType, OverNone
  <2>3. c = [b EXCEPT !.hours = c.hours]
    BY <2>1 DEF Books
  <2> QED BY <2>1, <2>2, <2>3
<1>2. CASE at /= Energy!NoHours
  <2>1. /\ b.hours \in Seq(HourRecs) /\ n \in Nat /\ r \in HourRecs
        /\ \A i \in 1..n : b.hours[i] \in HourRecs
    <3>1. r \in HourRecs
      BY <1>2 DEF HourRecs
    <3>2. b.hours \in Seq(HourRecs)
      BY DEF Books
    <3> QED BY <3>1, <3>2
  <2>2. c = [b EXCEPT !.hours = Append(b.hours, r)]
    BY <1>2 DEF Energy!WithHours
  <2>3. c.hours = Append(b.hours, r) /\ c.days = b.days
    BY <2>2 DEF Books
  <2>4. /\ Append(b.hours, r) \in Seq(HourRecs)
        /\ Len(c.hours) = n + 1 /\ c.hours[n + 1] = r
        /\ \A i \in 1..n : c.hours[i] = b.hours[i]
    BY <2>1, <2>3
  <2>5. c \in Books /\ c = [b EXCEPT !.hours = c.hours]
    BY <2>2, <2>3, <2>4 DEF Books
  <2>6. \A d : DayRec(c, d) = DayRec(b, d)
    BY <2>3 DEF DayRec
  <2>7. ASSUME NEW d, NEW h \in Energy!Day
        PROVE  Energy!FromFlash(c, d)[h] = IF d = e /\ at[h] /= Energy!Unknown THEN at[h]
                                           ELSE Energy!FromFlash(b, d)[h]
    <3> DEFINE was == { i \in 1..n : b.hours[i].date = d
                                       /\ b.hours[i].at[h] /= Energy!Unknown }
               is  == { i \in 1..Len(c.hours) : c.hours[i].date = d
                                       /\ c.hours[i].at[h] /= Energy!Unknown }
    <3>1. Energy!FromFlash(b, d)[h] = IF was = {} THEN Energy!Unknown
                                      ELSE b.hours[Energy!Last(was)].at[h]
      BY DEF Energy!FromFlash
    <3>2. Energy!FromFlash(c, d)[h] = IF is = {} THEN Energy!Unknown
                                      ELSE c.hours[Energy!Last(is)].at[h]
      BY DEF Energy!FromFlash
    <3> HIDE DEF c, n
    <3>3. CASE d = e /\ at[h] /= Energy!Unknown
      <4>1. n + 1 \in is
        BY <2>1, <2>4, <3>3
      <4>2. Energy!Last(is) \in is /\ \A i \in is : i <= Energy!Last(is)
        <5>1. is \in SUBSET (1..(n + 1)) /\ is /= {} /\ n + 1 \in Nat
          BY <2>1, <2>4, <4>1
        <5> HIDE DEF is
        <5> QED BY <5>1, GreatestOf
      <4>3. Energy!Last(is) = n + 1
        <5>1. Energy!Last(is) \in 1..(n + 1) /\ n + 1 <= Energy!Last(is)
          BY <2>4, <4>1, <4>2
        <5> QED BY <5>1, <2>1
      <4>4. c.hours[Energy!Last(is)].at[h] = at[h]
        <5> HIDE DEF is
        <5> QED BY <4>3, <2>4
      <4>5. is /= {}
        BY <4>1
      <4> HIDE DEF is
      <4> QED BY <3>2, <3>3, <4>4, <4>5
    <3>4. CASE ~(d = e /\ at[h] /= Energy!Unknown)
      <4>1. is = was
        BY <2>1, <2>4, <3>4
      <4>2. CASE was = {}
        BY <3>1, <3>2, <3>4, <4>1, <4>2
      <4>3. CASE was /= {}
        <5>1. Energy!Last(was) \in was
          <6>1. was \in SUBSET (1..n)
            OBVIOUS
          <6> HIDE DEF was
          <6> QED BY <6>1, <4>3, <2>1, GreatestOf
        <5>2. c.hours[Energy!Last(was)] = b.hours[Energy!Last(was)]
          BY <5>1, <2>4
        <5> HIDE DEF is, was
        <5> QED BY <5>2, <3>1, <3>2, <3>4, <4>1, <4>3
      <4> QED BY <4>2, <4>3
    <3> QED BY <3>3, <3>4
  <2>8. ASSUME NEW d
        PROVE  Energy!FromFlash(c, d) = IF d = e THEN HoursOver(at, Energy!FromFlash(b, d))
                                        ELSE Energy!FromFlash(b, d)
    <3>1. Energy!FromFlash(c, d) \in HourMaps /\ Energy!FromFlash(b, d) \in HourMaps
      <4> HIDE DEF c
      <4> QED BY <2>5, FlashType
    <3>2. HoursOver(at, Energy!FromFlash(b, d)) \in HourMaps
      BY <3>1, OverType
    <3>3. CASE d = e
      <4>1. \A h \in Energy!Day : Energy!FromFlash(c, d)[h] = HoursOver(at, Energy!FromFlash(b, d))[h]
        <5> HIDE DEF c
        <5> QED BY <2>7, <3>3 DEF HoursOver
      <4> HIDE DEF c
      <4> QED BY <3>1, <3>2, <3>3, <4>1 DEF HourMaps
    <3>4. CASE d /= e
      <4>1. \A h \in Energy!Day : Energy!FromFlash(c, d)[h] = Energy!FromFlash(b, d)[h]
        <5> HIDE DEF c
        <5> QED BY <2>7, <3>4
      <4> HIDE DEF c
      <4> QED BY <3>1, <3>4, <4>1 DEF HourMaps
    <3> QED BY <3>3, <3>4
  <2> QED BY <2>5, <2>6, <2>8
<1> QED BY <1>1, <1>2

-----------------------------------------------------------------------------
(* A sample, and the writes that follow it                                 *)

LEMMA SameRecords ==
  ASSUME NEW b, NEW c, b.days = c.days, b.hours = c.hours
  PROVE  \A d : DayRec(c, d) = DayRec(b, d) /\ Energy!FromFlash(c, d) = Energy!FromFlash(b, d)
BY DEF DayRec, Energy!FromFlash

LEMMA BookWritten ==
  ASSUME NEW b \in Books, b.active /= 0
  PROVE  LET c == Energy!Written(b)
         IN  /\ c \in Books
             /\ /\ c.ram = b.ram /\ c.active = b.active /\ c.now = b.now
                /\ c.seen = b.seen /\ c.on = b.on
             /\ \A d : DayRec(c, d) = IF d = b.active THEN b.now ELSE DayRec(b, d)
             /\ \A d : Energy!FromFlash(c, d) = IF d = b.active
                                                THEN HoursOver(b.ram[d], Energy!FromFlash(b, d))
                                                ELSE Energy!FromFlash(b, d)
<1> DEFINE a == b.active
           w == Energy!WithDay(b, a, b.now)
           c == Energy!WithHours(w, a, b.ram[a])
<1>1. a \in Energy!Dates /\ b.now \in Nat /\ b.ram[a] \in HourMaps
  BY PanelsAssumption DEF Books, Energy!Dates
<1>2. /\ w \in Books /\ w = [b EXCEPT !.days = w.days]
      /\ \A d : DayRec(w, d) = IF d = a THEN b.now ELSE DayRec(b, d)
      /\ \A d : Energy!FromFlash(w, d) = Energy!FromFlash(b, d)
  <2> HIDE DEF a
  <2> QED BY <1>1, DayWritten
<1>3. /\ c \in Books /\ c = [w EXCEPT !.hours = c.hours]
      /\ \A d : DayRec(c, d) = DayRec(w, d)
      /\ \A d : Energy!FromFlash(c, d) = IF d = a THEN HoursOver(b.ram[a], Energy!FromFlash(w, d))
                                         ELSE Energy!FromFlash(w, d)
  <2> HIDE DEF a, w
  <2> QED BY <1>1, <1>2, HoursWritten
<1>4. Energy!Written(b) = c
  BY DEF Energy!Written
<1>5. /\ w.ram = b.ram /\ w.active = b.active /\ w.now = b.now
      /\ w.seen = b.seen /\ w.on = b.on
  <2> HIDE DEF w
  <2> QED BY <1>2 DEF Books
<1>6. /\ c.ram = w.ram /\ c.active = w.active /\ c.now = w.now
      /\ c.seen = w.seen /\ c.on = w.on
  <2> HIDE DEF c, w
  <2> QED BY <1>2, <1>3 DEF Books
<1> HIDE DEF c, w
<1>7. /\ c \in Books
      /\ /\ c.ram = b.ram /\ c.active = b.active /\ c.now = b.now
         /\ c.seen = b.seen /\ c.on = b.on
  BY <1>3, <1>5, <1>6
<1>8. \A d : DayRec(c, d) = IF d = b.active THEN b.now ELSE DayRec(b, d)
  BY <1>2, <1>3
<1>9. \A d : Energy!FromFlash(c, d) = IF d = b.active
                                      THEN HoursOver(b.ram[d], Energy!FromFlash(b, d))
                                      ELSE Energy!FromFlash(b, d)
  BY <1>2, <1>3
<1> QED BY <1>4, <1>7, <1>8, <1>9

LEMMA DeltaType ==
  ASSUME NEW m \in Nat, NEW n \in Nat
  PROVE  Energy!Delta(m, n) \in KnownWh
BY DEF Energy!Delta, KnownWh, Energy!Unknown

LEMMA PlusType ==
  ASSUME NEW m \in KnownWh, NEW n \in KnownWh
  PROVE  Energy!Plus(m, n) \in KnownWh
BY DEF Energy!Plus, KnownWh, Energy!Unknown

LEMMA RestoredIs ==
  ASSUME NEW b \in Books, NEW c \in Clocks
  PROVE  LET old == Energy!FromFlash(b, c.day)
             ram == Energy!Restored(b, c)
         IN  /\ ram \in [Energy!Dates -> HourMaps]
             /\ \A d \in Energy!Dates : d /= c.day => ram[d] = b.ram[d]
             /\ \A h \in Energy!Day :
                  ram[c.day][h] =
                    IF h = c.hour
                    THEN Energy!Plus(Energy!Plus(b.ram[c.day][h], old[h]),
                                     Energy!Delta(c.meter, Energy!Total(old)))
                    ELSE Energy!Plus(b.ram[c.day][h], old[h])
<1> DEFINE old == Energy!FromFlash(b, c.day)
           of(h) == Energy!Plus(b.ram[c.day][h], old[h])
           new == [ h \in Energy!Day |-> IF h = c.hour
                                         THEN Energy!Plus(of(h), Energy!Delta(c.meter, Energy!Total(old)))
                                         ELSE of(h) ]
<1>1. c.day \in Energy!Dates /\ c.hour \in Energy!Day /\ c.meter \in Nat
  BY DEF Clocks
<1>2. b.ram \in [Energy!Dates -> HourMaps] /\ b.ram[c.day] \in HourMaps
  BY <1>1 DEF Books
<1>3. old \in HourMaps /\ Energy!Total(old) \in Nat
  <2>1. old \in HourMaps
    BY FlashType
  <2> HIDE DEF old
  <2> QED BY <2>1, TotalNat
<1>4. Energy!Delta(c.meter, Energy!Total(old)) \in KnownWh
  <2> HIDE DEF old
  <2> QED BY <1>1, <1>3, DeltaType
<1>5. \A h \in Energy!Day : of(h) \in KnownWh
  <2> TAKE h \in Energy!Day
  <2>1. b.ram[c.day][h] \in KnownWh /\ old[h] \in KnownWh
    <3> HIDE DEF old
    <3> QED BY <1>2, <1>3 DEF HourMaps
  <2> HIDE DEF old
  <2> QED BY <2>1, PlusType
<1>6. new \in HourMaps
  <2> HIDE DEF old, of
  <2>1. \A h \in Energy!Day : Energy!Plus(of(h), Energy!Delta(c.meter, Energy!Total(old))) \in KnownWh
    BY <1>4, <1>5, PlusType
  <2> QED BY <2>1, <1>5 DEF HourMaps
<1>7. Energy!Restored(b, c) = [b.ram EXCEPT ![c.day] = new]
  BY DEF Energy!Restored
<1>8. \A h \in Energy!Day : new[h] = IF h = c.hour
                                     THEN Energy!Plus(of(h), Energy!Delta(c.meter, Energy!Total(old)))
                                     ELSE of(h)
  OBVIOUS
<1> HIDE DEF new
<1>9. /\ Energy!Restored(b, c) \in [Energy!Dates -> HourMaps]
      /\ \A d \in Energy!Dates : d /= c.day => Energy!Restored(b, c)[d] = b.ram[d]
      /\ Energy!Restored(b, c)[c.day] = new
  BY <1>1, <1>2, <1>6, <1>7
<1> QED BY <1>8, <1>9

\* The hour under way gets what was used since the last sample.
Continued(b, c) ==
  [b.ram EXCEPT ![c.day][c.hour] = Energy!Plus(@, Energy!Delta(c.meter, b.seen.wh))]

LEMMA ContinuedIs ==
  ASSUME NEW b \in Books, NEW c \in Clocks
  PROVE  LET ram == Continued(b, c)
         IN  /\ ram \in [Energy!Dates -> HourMaps]
             /\ \A d \in Energy!Dates : d /= c.day => ram[d] = b.ram[d]
             /\ ram[c.day] = [b.ram[c.day] EXCEPT ![c.hour] =
                                Energy!Plus(@, Energy!Delta(c.meter, b.seen.wh))]
<1>1. /\ c.day \in Energy!Dates /\ c.hour \in Energy!Day /\ c.meter \in Nat
      /\ b.seen.wh \in Nat
  BY DEF Clocks, Books
<1>2. b.ram \in [Energy!Dates -> HourMaps] /\ b.ram[c.day] \in HourMaps
  BY <1>1 DEF Books
<1> DEFINE k == Energy!Delta(c.meter, b.seen.wh)
           new == [b.ram[c.day] EXCEPT ![c.hour] = Energy!Plus(@, k)]
<1>3. k \in KnownWh
  BY <1>1, DeltaType
<1> HIDE DEF k
<1>4. new \in HourMaps
  BY <1>1, <1>2, <1>3, PlusType DEF HourMaps
<1>5. Continued(b, c) = [b.ram EXCEPT ![c.day] = new]
  BY <1>1, <1>2 DEF Continued, k
<1>6. new = [b.ram[c.day] EXCEPT ![c.hour] = Energy!Plus(@, Energy!Delta(c.meter, b.seen.wh))]
  BY DEF k
<1> HIDE DEF new
<1> QED BY <1>1, <1>2, <1>4, <1>5, <1>6

LEMMA BookSampled ==
  ASSUME NEW b \in Books, NEW c \in Clocks, b.on
  PROVE  LET s    == Energy!Sampled(b, c)
             ends == b.active \notin {0, c.day}
         IN  /\ s \in Books
             /\ s.on /\ s.active = c.day /\ s.now = c.meter
             /\ s.seen = [day |-> c.day, wh |-> c.meter]
             /\ s.ram = IF b.seen.day /= c.day THEN Energy!Restored(b, c)
                        ELSE Continued(b, c)
             /\ \A d : DayRec(s, d) = IF ends /\ d = b.active THEN b.now
                                      ELSE DayRec(b, d)
             /\ \A d : Energy!FromFlash(s, d) = IF ends /\ d = b.active
                                                THEN HoursOver(b.ram[d], Energy!FromFlash(b, d))
                                                ELSE Energy!FromFlash(b, d)
<1> DEFINE ram == IF b.seen.day /= c.day THEN Energy!Restored(b, c) ELSE Continued(b, c)
           s == [b EXCEPT !.ram = ram]
           t == IF b.active \in {0, c.day} THEN s ELSE Energy!Written(s)
           ends == b.active \notin {0, c.day}
<1>1. c.day \in Energy!Dates /\ c.meter \in Nat /\ b.active \in 0..LastDay
  BY DEF Clocks, Books
<1>2. /\ ram \in [Energy!Dates -> HourMaps]
      /\ \A d \in Energy!Dates : d /= c.day => ram[d] = b.ram[d]
  <2>1. /\ Energy!Restored(b, c) \in [Energy!Dates -> HourMaps]
        /\ \A d \in Energy!Dates : d /= c.day => Energy!Restored(b, c)[d] = b.ram[d]
    BY RestoredIs
  <2>2. /\ Continued(b, c) \in [Energy!Dates -> HourMaps]
        /\ \A d \in Energy!Dates : d /= c.day => Continued(b, c)[d] = b.ram[d]
    BY ContinuedIs
  <2>3. CASE b.seen.day /= c.day
    BY <2>1, <2>3
  <2>4. CASE b.seen.day = c.day
    BY <2>2, <2>4
  <2> QED BY <2>3, <2>4
<1>3. Energy!Sampled(b, c) = [t EXCEPT !.active = c.day, !.now = c.meter,
                                       !.seen = [day |-> c.day, wh |-> c.meter]]
  BY DEF Energy!Sampled, Continued
<1> HIDE DEF ram
<1>4. /\ s \in Books /\ s.ram = ram /\ s.active = b.active /\ s.now = b.now
      /\ s.days = b.days /\ s.hours = b.hours /\ s.on = b.on
  BY <1>2 DEF Books
<1>5. \A d : DayRec(s, d) = DayRec(b, d) /\ Energy!FromFlash(s, d) = Energy!FromFlash(b, d)
  <2> HIDE DEF s
  <2> QED BY <1>4, SameRecords
<1> HIDE DEF s
<1>6. /\ t \in Books /\ t.ram = ram /\ t.on = b.on
      /\ \A d : DayRec(t, d) = IF ends /\ d = b.active THEN b.now
                               ELSE DayRec(b, d)
      /\ \A d : Energy!FromFlash(t, d) = IF ends /\ d = b.active
                                         THEN HoursOver(b.ram[d], Energy!FromFlash(b, d))
                                         ELSE Energy!FromFlash(b, d)
  <2>1. CASE ~ends
    BY <2>1, <1>4, <1>5
  <2>2. CASE ends
    <3>1. s.active /= 0 /\ t = Energy!Written(s)
      BY <2>2, <1>4
    <3>2. /\ t \in Books /\ t.ram = s.ram /\ t.on = s.on
          /\ \A d : DayRec(t, d) = IF d = s.active THEN s.now ELSE DayRec(s, d)
          /\ \A d : Energy!FromFlash(t, d) = IF d = s.active
                                             THEN HoursOver(s.ram[d], Energy!FromFlash(s, d))
                                             ELSE Energy!FromFlash(s, d)
      <4> HIDE DEF t
      <4> QED BY <3>1, <1>4, BookWritten
    <3>3. ram[b.active] = b.ram[b.active]
      BY <1>1, <1>2, <2>2 DEF Energy!Dates
    <3> HIDE DEF t
    <3>4. \A d : DayRec(t, d) = IF d = b.active THEN b.now ELSE DayRec(b, d)
      BY <3>2, <1>4, <1>5
    <3>5. ASSUME NEW d
          PROVE  Energy!FromFlash(t, d) = IF d = b.active
                                          THEN HoursOver(b.ram[d], Energy!FromFlash(b, d))
                                          ELSE Energy!FromFlash(b, d)
      BY <3>2, <3>3, <1>4, <1>5
    <3> QED BY <3>2, <3>4, <3>5, <2>2, <1>4
  <2> QED BY <2>1, <2>2
<1> HIDE DEF t
<1> DEFINE r == Energy!Sampled(b, c)
<1>7. /\ r \in Books /\ r.ram = t.ram /\ r.on = t.on
      /\ r.active = c.day /\ r.now = c.meter
      /\ r.seen = [day |-> c.day, wh |-> c.meter]
      /\ r.days = t.days /\ r.hours = t.hours
  <2>1. c.day \in 0..LastDay
    BY <1>1, PanelsAssumption DEF Energy!Dates
  <2> DEFINE seen == [day |-> c.day, wh |-> c.meter]
  <2>2. seen \in [day : 0..LastDay, wh : Nat]
    BY <1>1, <2>1
  <2>3. r = [t EXCEPT !.active = c.day, !.now = c.meter, !.seen = seen]
    BY <1>3
  <2> HIDE DEF seen, r
  <2>4. t \in Books
    BY <1>6
  <2>5. r \in Books
    BY <1>1, <2>1, <2>2, <2>3, <2>4 DEF Books
  <2>6. /\ r.ram = t.ram /\ r.on = t.on
        /\ r.active = c.day /\ r.now = c.meter /\ r.seen = seen
        /\ r.days = t.days /\ r.hours = t.hours
    BY <2>3, <2>4 DEF Books
  <2> QED BY <2>5, <2>6 DEF seen
<1>8. \A d : DayRec(r, d) = DayRec(t, d) /\ Energy!FromFlash(r, d) = Energy!FromFlash(t, d)
  <2> HIDE DEF r
  <2> QED BY <1>7, SameRecords
<1> HIDE DEF r, ends
<1>9. /\ \A d : DayRec(r, d) = IF ends /\ d = b.active THEN b.now
                               ELSE DayRec(b, d)
      /\ \A d : Energy!FromFlash(r, d) = IF ends /\ d = b.active
                                         THEN HoursOver(b.ram[d], Energy!FromFlash(b, d))
                                         ELSE Energy!FromFlash(b, d)
  BY <1>6, <1>8
<1> QED BY <1>6, <1>7, <1>9 DEF r, ram, ends

LEMMA WithoutSamples ==
  ASSUME NEW b \in Books
  PROVE  LET c == Energy!NoSamples(b)
         IN  /\ c \in Books
             /\ c.ram = [ d \in Energy!Dates |-> Energy!NoHours ] /\ c.active = 0 /\ c.now = 0
             /\ c.seen.day = 0 /\ c.on = b.on
             /\ \A d : DayRec(c, d) = DayRec(b, d)
                       /\ Energy!FromFlash(c, d) = Energy!FromFlash(b, d)
<1> DEFINE c == Energy!NoSamples(b)
<1>1. /\ c \in Books
      /\ c.ram = [ d \in Energy!Dates |-> Energy!NoHours ] /\ c.active = 0 /\ c.now = 0
      /\ c.seen.day = 0 /\ c.on = b.on /\ c.days = b.days /\ c.hours = b.hours
  <2> DEFINE ram == [ d \in Energy!Dates |-> Energy!NoHours ]
             seen == [day |-> 0, wh |-> 0]
  <2>1. ram \in [Energy!Dates -> HourMaps]
    BY NoHoursType
  <2>2. seen \in [day : 0..LastDay, wh : Nat] /\ seen.day = 0 /\ 0 \in 0..LastDay
    BY PanelsAssumption
  <2>3. c = [b EXCEPT !.ram = ram, !.active = 0, !.now = 0, !.seen = seen]
    BY DEF Energy!NoSamples
  <2> HIDE DEF ram, seen, c
  <2>4. c \in Books
    BY <2>1, <2>2, <2>3 DEF Books
  <2>5. /\ c.ram = ram /\ c.active = 0 /\ c.now = 0
        /\ c.seen = seen /\ c.on = b.on /\ c.days = b.days /\ c.hours = b.hours
    BY <2>3 DEF Books
  <2> QED BY <2>2, <2>4, <2>5 DEF ram
<1>2. \A d : DayRec(c, d) = DayRec(b, d) /\ Energy!FromFlash(c, d) = Energy!FromFlash(b, d)
  <2> HIDE DEF c
  <2> QED BY <1>1, SameRecords
<1> QED BY <1>1, <1>2

LEMMA EmptyBook ==
  ASSUME NEW b, b.days = <<>>, b.hours = <<>>
  PROVE  \A d : DayRec(b, d) = Energy!Unknown /\ Energy!FromFlash(b, d) = Energy!NoHours
BY DEF DayRec, Energy!FromFlash, Energy!NoHours

-----------------------------------------------------------------------------
(* What clock, archive, measurement and import say of one another          *)

Truths == [last : [Energy!Dates -> KnownWh], broken : SUBSET Int, odd : SUBSET Int]
FileLines == [kind : {"day"}, date : Energy!Dates, wh : Nat, at : {Energy!NoHours}]
                \cup [kind : {"hourday"}, date : Energy!Dates, wh : {Energy!Unknown},
                      at : HourMaps \ {Energy!NoHours}]
OpenStates == {"ready", "busy", "failed"}
Uploads == [ is : OpenStates \cup {"none", "done"}, lines : SUBSET FileLines,
             was : [Energy!Dates -> KnownWh], before : 0..LastDay, own : BOOLEAN,
             valid : BOOLEAN, token : BOOLEAN, sent : SUBSET FileLines ]

\* what the ghosts, the samples and the clock say of one another
SamplesSay(c, b, t) ==
  /\ b.active <= c.day
  /\ b.active = 0 => b.seen.day = 0
  /\ b.active /= 0 => /\ b.seen = [day |-> b.active, wh |-> b.now]
                      /\ t.last[b.active] = b.now
  /\ b.active = c.day => b.now <= c.meter
  /\ ~b.on /\ b.active /= 0 => b.active \in t.broken

\* the hours of the days before were written
RamWritten(b) ==
  /\ \A d \in Energy!Dates : d > b.active => b.ram[d] = Energy!NoHours
  /\ \A d \in Energy!Dates, h \in Energy!Day :
       d /= b.active /\ b.ram[d][h] /= Energy!Unknown =>
         Energy!FromFlash(b, d)[h] = b.ram[d][h]

\* today's hours hold those of the archive and add up to what was sampled
ActiveSum(b, t) ==
  b.active /= 0 /\ b.active \notin t.odd =>
    /\ \A h \in Energy!Day : b.ram[b.active][h] = Energy!Unknown =>
                        Energy!FromFlash(b, b.active)[h] = Energy!Unknown
    /\ Energy!Total(b.ram[b.active]) = b.now

\* so do those of the archive
FlashSum(c, b, t) ==
  /\ c.day \notin t.odd => Energy!Total(Energy!FromFlash(b, c.day)) <= c.meter
  /\ \A d \in Energy!Dates : d > c.day =>
       /\ DayRec(b, d) = Energy!Unknown
       /\ d \notin t.odd => Energy!FromFlash(b, d) = Energy!NoHours
  /\ \A d \in Energy!Dates \ t.odd :
       DayRec(b, d) /= Energy!Unknown /\ Energy!FromFlash(b, d) /= Energy!NoHours =>
         Energy!Total(Energy!FromFlash(b, d)) = DayRec(b, d)

KeptDays(b, t) ==
  \A d \in Energy!Dates \ t.broken :
    d /= b.active /\ t.last[d] /= Energy!Unknown => DayRec(b, d) = t.last[d]

\* the file of an import is of days that are over, and says of them what the
\* archive says
FileSays(c, b, t, u) ==
  /\ \A l \in u.lines : l.kind = "day" => l.date <= c.day
  /\ \A l, m \in u.lines : l.kind = m.kind /\ l.date = m.date => l = m
  /\ u.is \in {"ready", "failed"} => u.sent = {}
  /\ u.own => /\ u.before <= c.day
              /\ b.active = 0 \/ u.before <= b.active
  /\ u.own /\ u.is \in OpenStates =>
       /\ \A l \in u.lines :
            l.kind = "day" /\ l.date < u.before => l.wh = u.was[l.date]
       /\ \A d \in 1..(u.before - 1) \ t.odd :
            /\ DayRec(b, d) /= Energy!Unknown => DayRec(b, d) = u.was[d]
            /\ Energy!FromFlash(b, d) /= Energy!NoHours =>
                 Energy!Total(Energy!FromFlash(b, d)) = u.was[d]

\* a day of a file that is imported into a cleared archive
HasDay(u, d) == \E l \in u.lines : l.kind = "day" /\ l.date = d

Importing(b, u, d) ==
  /\ DayRec(b, d) /= Energy!Unknown => DayRec(b, d) = u.was[d]
  /\ Energy!FromFlash(b, d) /= Energy!NoHours =>
       /\ u.was[d] /= Energy!Unknown
       /\ \/ HasDay(u, d) \/ DayRec(b, d) /= Energy!Unknown
          \/ Energy!Total(Energy!FromFlash(b, d)) = u.was[d]
  /\ u.was[d] /= Energy!Unknown => \E l \in u.lines : l.date = d
  /\ \A l \in u.lines : l.date = d =>
       /\ u.was[d] /= Energy!Unknown
       /\ l.kind = "hourday" /\ ~HasDay(u, d) => Energy!Total(l.at) = u.was[d]
  /\ \A l \in u.sent \cap u.lines : l.date = d =>
       IF l.kind = "day" THEN DayRec(b, d) /= Energy!Unknown
       ELSE Energy!FromFlash(b, d) /= Energy!NoHours

ValidImport(b, u) ==
  u.valid =>
    /\ u.own
    /\ u.is \in OpenStates => \A d \in 1..(u.before - 1) : Importing(b, u, d)
    /\ u.is = "done" =>
         \A d \in 1..(u.before - 1) :
           u.was[d] = IF DayRec(b, d) /= Energy!Unknown THEN DayRec(b, d)
                      ELSE IF Energy!FromFlash(b, d) /= Energy!NoHours
                      THEN Energy!Total(Energy!FromFlash(b, d)) ELSE Energy!Unknown

EnergySound(c, b, t, u) ==
  /\ c \in Clocks /\ b \in Books /\ t \in Truths /\ u \in Uploads
  /\ SamplesSay(c, b, t) /\ RamWritten(b) /\ ActiveSum(b, t)
  /\ FlashSum(c, b, t) /\ KeptDays(b, t)
  /\ FileSays(c, b, t, u) /\ ValidImport(b, u)

-----------------------------------------------------------------------------
(* A write and a restart keep it                                           *)

LEMMA ActiveIn ==
  ASSUME NEW b \in Books, b.active /= 0
  PROVE  b.active \in Energy!Dates
BY PanelsAssumption DEF Books, Energy!Dates

LEMMA OverSame ==
  ASSUME NEW a \in HourMaps, NEW f \in HourMaps,
         \A h \in Energy!Day : a[h] = Energy!Unknown => f[h] = Energy!Unknown
  PROVE  HoursOver(a, f) = a
BY DEF HoursOver, HourMaps

\* What was sampled may be written at any time.
LEMMA SoundWritten ==
  ASSUME NEW c, NEW b, NEW t, NEW u, EnergySound(c, b, t, u), b.active /= 0
  PROVE  EnergySound(c, Energy!Written(b), t, u)
<1> DEFINE w == Energy!Written(b)
           a == b.active
<1>0. /\ c \in Clocks /\ b \in Books /\ t \in Truths /\ u \in Uploads
      /\ SamplesSay(c, b, t) /\ RamWritten(b) /\ ActiveSum(b, t)
      /\ FlashSum(c, b, t) /\ KeptDays(b, t)
      /\ FileSays(c, b, t, u) /\ ValidImport(b, u)
  BY DEF EnergySound
<1>1. /\ w \in Books
      /\ w.ram = b.ram /\ w.active = a /\ w.now = b.now
      /\ w.seen = b.seen /\ w.on = b.on
      /\ \A d : DayRec(w, d) = IF d = a THEN b.now ELSE DayRec(b, d)
      /\ \A d : Energy!FromFlash(w, d) = IF d = a THEN HoursOver(b.ram[d], Energy!FromFlash(b, d))
                                         ELSE Energy!FromFlash(b, d)
  BY <1>0, BookWritten
<1>2. /\ a \in Energy!Dates /\ c.day \in Energy!Dates /\ c.meter \in Nat /\ b.now \in Nat
      /\ b.ram[a] \in HourMaps
  BY <1>0, ActiveIn DEF Clocks, Books
<1>3. Energy!FromFlash(b, a) \in HourMaps
  BY <1>0, FlashType
<1> HIDE DEF w, a
<1>4. SamplesSay(c, w, t)
  BY <1>0, <1>1 DEF SamplesSay, a
<1>5. RamWritten(w)
  BY <1>0, <1>1 DEF RamWritten, a
<1>6. a \notin t.odd =>
        /\ \A h \in Energy!Day : b.ram[a][h] = Energy!Unknown =>
                                   Energy!FromFlash(b, a)[h] = Energy!Unknown
        /\ Energy!Total(b.ram[a]) = b.now
        /\ Energy!FromFlash(w, a) = b.ram[a]
  <2> SUFFICES ASSUME a \notin t.odd
               PROVE  /\ \A h \in Energy!Day : b.ram[a][h] = Energy!Unknown =>
                                          Energy!FromFlash(b, a)[h] = Energy!Unknown
                      /\ Energy!Total(b.ram[a]) = b.now
                      /\ Energy!FromFlash(w, a) = b.ram[a]
    OBVIOUS
  <2>1. /\ \A h \in Energy!Day : b.ram[a][h] = Energy!Unknown =>
                                   Energy!FromFlash(b, a)[h] = Energy!Unknown
        /\ Energy!Total(b.ram[a]) = b.now
    BY <1>0 DEF ActiveSum, a
  <2>2. HoursOver(b.ram[a], Energy!FromFlash(b, a)) = b.ram[a]
    BY <2>1, <1>2, <1>3, OverSame
  <2> QED BY <2>1, <2>2, <1>1
<1>7. ActiveSum(w, t)
  BY <1>1, <1>6 DEF ActiveSum
<1>8. FlashSum(c, w, t)
  <2>1. c.day \notin t.odd => Energy!Total(Energy!FromFlash(w, c.day)) <= c.meter
    <3>1. CASE a = c.day
      BY <1>0, <1>6, <3>1 DEF SamplesSay, a
    <3>2. CASE a /= c.day
      BY <1>0, <1>1, <3>2 DEF FlashSum
    <3> QED BY <3>1, <3>2
  <2>2. ASSUME NEW d \in Energy!Dates, d > c.day
        PROVE  /\ DayRec(w, d) = Energy!Unknown
               /\ d \notin t.odd => Energy!FromFlash(w, d) = Energy!NoHours
    <3>1. d /= a
      BY <1>0, <1>2, <2>2 DEF SamplesSay, a, Energy!Dates
    <3> QED BY <3>1, <2>2, <1>0, <1>1 DEF FlashSum
  <2>3. ASSUME NEW d \in Energy!Dates \ t.odd,
               DayRec(w, d) /= Energy!Unknown, Energy!FromFlash(w, d) /= Energy!NoHours
        PROVE  Energy!Total(Energy!FromFlash(w, d)) = DayRec(w, d)
    <3>1. CASE d = a
      BY <3>1, <1>1, <1>6
    <3>2. CASE d /= a
      BY <3>2, <2>3, <1>0, <1>1 DEF FlashSum
    <3> QED BY <3>1, <3>2
  <2> QED BY <2>1, <2>2, <2>3 DEF FlashSum
<1>9. KeptDays(w, t)
  BY <1>0, <1>1 DEF KeptDays, a
<1>10. u.own => /\ u.before <= a
                /\ \A d \in 1..(u.before - 1) :
                     /\ DayRec(w, d) = DayRec(b, d)
                     /\ Energy!FromFlash(w, d) = Energy!FromFlash(b, d)
  <2> SUFFICES ASSUME u.own
               PROVE  /\ u.before <= a
                      /\ \A d \in 1..(u.before - 1) :
                           /\ DayRec(w, d) = DayRec(b, d)
                           /\ Energy!FromFlash(w, d) = Energy!FromFlash(b, d)
    OBVIOUS
  <2>1. u.before <= a /\ u.before \in Int /\ a \in Int
    BY <1>0, <1>2 DEF FileSays, a, Uploads, Energy!Dates
  <2>2. \A d \in 1..(u.before - 1) : d /= a
    BY <2>1
  <2> QED BY <2>1, <2>2, <1>1
<1>11. FileSays(c, w, t, u)
  BY <1>0, <1>1, <1>10 DEF FileSays
<1>12. ValidImport(w, u)
  BY <1>0, <1>10 DEF ValidImport, Importing
<1> QED BY <1>0, <1>1, <1>4, <1>5, <1>7, <1>8, <1>9, <1>11, <1>12 DEF EnergySound, w

LEMMA SoundRebooted ==
  ASSUME NEW c, NEW b, NEW t, NEW u, EnergySound(c, b, t, u),
         \/ b.active = 0 \/ b.active \in t.broken
         \/ DayRec(b, b.active) = t.last[b.active]
  PROVE  EnergySound(c, Energy!NoSamples(b), t, u)
<1> DEFINE w == Energy!NoSamples(b)
<1>0. /\ c \in Clocks /\ b \in Books /\ t \in Truths /\ u \in Uploads
      /\ SamplesSay(c, b, t) /\ RamWritten(b) /\ ActiveSum(b, t)
      /\ FlashSum(c, b, t) /\ KeptDays(b, t)
      /\ FileSays(c, b, t, u) /\ ValidImport(b, u)
  BY DEF EnergySound
<1>1. /\ w \in Books
      /\ w.ram = [ d \in Energy!Dates |-> Energy!NoHours ] /\ w.active = 0 /\ w.now = 0
      /\ w.seen.day = 0 /\ w.on = b.on
      /\ \A d : DayRec(w, d) = DayRec(b, d) /\ Energy!FromFlash(w, d) = Energy!FromFlash(b, d)
  BY <1>0, WithoutSamples
<1>2. c.day \in Energy!Dates /\ c.meter \in Nat
  BY <1>0 DEF Clocks
<1> HIDE DEF w
<1>3. SamplesSay(c, w, t)
  BY <1>1, <1>2 DEF SamplesSay, Energy!Dates
<1>4. RamWritten(w)
  BY <1>1 DEF RamWritten, Energy!NoHours
<1>5. ActiveSum(w, t)
  BY <1>1 DEF ActiveSum
<1>6. FlashSum(c, w, t)
  BY <1>0, <1>1 DEF FlashSum
<1>7. KeptDays(w, t)
  BY <1>0, <1>1 DEF KeptDays
<1>8. FileSays(c, w, t, u)
  BY <1>0, <1>1 DEF FileSays
<1>9. ValidImport(w, u)
  BY <1>0, <1>1 DEF ValidImport, Importing
<1> QED BY <1>0, <1>1, <1>3, <1>4, <1>5, <1>6, <1>7, <1>8, <1>9 DEF EnergySound, w

-----------------------------------------------------------------------------
(* So does a sample                                                        *)

LEMMA SeenType ==
  ASSUME NEW t \in Truths, NEW d \in Energy!Dates, NEW m \in Nat
  PROVE  LET s == [t EXCEPT !.last[d] = m]
         IN  /\ s \in Truths
             /\ s.broken = t.broken /\ s.odd = t.odd
             /\ s.last[d] = m
             /\ \A e \in Energy!Dates : e /= d => s.last[e] = t.last[e]
<1> DEFINE last == [t.last EXCEPT ![d] = m]
           s == [t EXCEPT !.last[d] = m]
<1>1. t.last \in [Energy!Dates -> KnownWh] /\ m \in KnownWh
  BY DEF Truths, KnownWh
<1>2. last \in [Energy!Dates -> KnownWh] /\ last[d] = m
      /\ \A e \in Energy!Dates : e /= d => last[e] = t.last[e]
  BY <1>1
<1>3. s = [t EXCEPT !.last = last]
  OBVIOUS
<1> HIDE DEF last
<1>4. s \in Truths /\ s.broken = t.broken /\ s.odd = t.odd /\ s.last = last
  BY <1>2, <1>3 DEF Truths
<1> QED BY <1>2, <1>4

\* The hours under way after a sample, whether it is the first since the boot
\* or not.
LEMMA HoursSampled ==
  ASSUME NEW c, NEW b, NEW t, NEW u, EnergySound(c, b, t, u), b.on,
         c.day \notin t.odd
  PROVE  LET ram == IF b.seen.day /= c.day THEN Energy!Restored(b, c)
                    ELSE Continued(b, c)
         IN  /\ \A h \in Energy!Day : ram[c.day][h] = Energy!Unknown =>
                                 Energy!FromFlash(b, c.day)[h] = Energy!Unknown
             /\ Energy!Total(ram[c.day]) = c.meter
<1> DEFINE old == Energy!FromFlash(b, c.day)
<1>0. /\ c \in Clocks /\ b \in Books
      /\ SamplesSay(c, b, t) /\ RamWritten(b) /\ ActiveSum(b, t)
      /\ FlashSum(c, b, t)
  BY DEF EnergySound
<1>1. /\ c.day \in Energy!Dates /\ c.hour \in Energy!Day /\ c.meter \in Nat
      /\ b.ram[c.day] \in HourMaps /\ b.seen.wh \in Nat
      /\ old \in HourMaps /\ Energy!Total(old) \in Nat
  <2>1. /\ c.day \in Energy!Dates /\ c.hour \in Energy!Day /\ c.meter \in Nat
        /\ b.ram[c.day] \in HourMaps /\ b.seen.wh \in Nat
    BY <1>0 DEF Clocks, Books
  <2>2. old \in HourMaps
    BY <1>0, FlashType
  <2> HIDE DEF old
  <2>3. Energy!Total(old) \in Nat
    BY <2>2, TotalNat
  <2> QED BY <2>1, <2>2, <2>3
<1>2. CASE b.seen.day /= c.day
  <2> DEFINE ram == Energy!Restored(b, c)
             k   == Energy!Delta(c.meter, Energy!Total(old))
  <2>1. b.active /= c.day /\ b.active <= c.day /\ b.active \in 0..LastDay
    BY <1>0, <1>2 DEF SamplesSay, Books
  <2>2. b.ram[c.day] = Energy!NoHours
    BY <1>0, <1>1, <2>1, PanelsAssumption DEF RamWritten, Energy!Dates
  <2>3. Energy!Total(old) <= c.meter
    BY <1>0 DEF FlashSum
  <2> HIDE DEF old
  <2>4. k \in Nat /\ Energy!Total(old) + k = c.meter
    BY <1>1, <2>3 DEF Energy!Delta
  <2>5. \A h \in Energy!Day : b.ram[c.day][h] = Energy!Unknown
    BY <2>2 DEF Energy!NoHours
  <2>6. \A h \in Energy!Day : Energy!Plus(b.ram[c.day][h], old[h]) = old[h]
    BY <2>5 DEF Energy!Plus
  <2>7. \A h \in Energy!Day : ram[c.day][h] = IF h = c.hour THEN Energy!Plus(old[h], k)
                                              ELSE old[h]
    <3>1. \A h \in Energy!Day :
            ram[c.day][h] = IF h = c.hour
                            THEN Energy!Plus(Energy!Plus(b.ram[c.day][h], old[h]), k)
                            ELSE Energy!Plus(b.ram[c.day][h], old[h])
      BY <1>0, RestoredIs DEF old
    <3> QED BY <3>1, <2>6
  <2> HIDE DEF ram, k
  <2>8. Energy!Total(ram[c.day]) = c.meter
    <3>1. /\ ram[c.day][c.hour] = Energy!Plus(old[c.hour], k)
          /\ \A i \in Energy!Day : i /= c.hour => ram[c.day][i] = old[i]
      BY <1>1, <2>7
    <3>2. Energy!Total(ram[c.day]) = Energy!Total(old) + k
      BY <1>1, <2>4, <3>1, TotalAdds
    <3> QED BY <3>2, <2>4
  <2>9. \A h \in Energy!Day : ram[c.day][h] = Energy!Unknown => old[h] = Energy!Unknown
    <3>1. \A h \in Energy!Day : Energy!Plus(old[h], k) /= Energy!Unknown
      <4> TAKE h \in Energy!Day
      <4>1. old[h] \in KnownWh
        BY <1>1 DEF HourMaps
      <4> QED BY <4>1, <2>4 DEF Energy!Plus, KnownWh, Energy!Unknown
    <3> QED BY <2>7, <3>1
  <2> QED BY <1>2, <2>8, <2>9 DEF ram, old
<1>3. CASE b.seen.day = c.day
  <2> DEFINE ram == Continued(b, c)
             k   == Energy!Delta(c.meter, b.seen.wh)
             at  == b.ram[c.day]
  <2>1. c.day /= 0
    BY <1>1 DEF Energy!Dates
  <2>2. b.active = c.day /\ b.seen.wh = b.now /\ b.now <= c.meter
    <3>1. b.active /= 0
      BY <1>0, <1>3, <2>1 DEF SamplesSay
    <3>2. b.seen = [day |-> b.active, wh |-> b.now]
      BY <1>0, <3>1 DEF SamplesSay
    <3>3. b.active = c.day /\ b.seen.wh = b.now
      BY <3>2, <1>3
    <3> QED BY <3>3, <1>0 DEF SamplesSay
  <2>3. /\ \A h \in Energy!Day : at[h] = Energy!Unknown => old[h] = Energy!Unknown
        /\ Energy!Total(at) = b.now
    BY <1>0, <2>1, <2>2 DEF ActiveSum
  <2>4. k \in Nat /\ b.now + k = c.meter
    BY <1>1, <2>2 DEF Energy!Delta
  <2>5. ram[c.day] = [at EXCEPT ![c.hour] = Energy!Plus(@, k)]
    BY <1>0, ContinuedIs
  <2>6. at \in HourMaps
    BY <1>1
  <2> HIDE DEF ram, k, at, old
  <2>7. \A h \in Energy!Day : ram[c.day][h] = IF h = c.hour THEN Energy!Plus(at[h], k)
                                              ELSE at[h]
    BY <2>5, <2>6, <1>1 DEF HourMaps
  <2>8. Energy!Total(ram[c.day]) = c.meter
    <3>1. /\ ram[c.day][c.hour] = Energy!Plus(at[c.hour], k)
          /\ \A i \in Energy!Day : i /= c.hour => ram[c.day][i] = at[i]
      BY <1>1, <2>7
    <3>2. Energy!Total(ram[c.day]) = Energy!Total(at) + k
      BY <1>1, <2>4, <2>6, <3>1, TotalAdds
    <3> QED BY <3>2, <2>3, <2>4
  <2>9. \A h \in Energy!Day : ram[c.day][h] = Energy!Unknown => old[h] = Energy!Unknown
    <3>1. \A h \in Energy!Day : Energy!Plus(at[h], k) /= Energy!Unknown
      <4> TAKE h \in Energy!Day
      <4>1. at[h] \in KnownWh
        BY <2>6 DEF HourMaps
      <4> QED BY <4>1, <2>4 DEF Energy!Plus, KnownWh, Energy!Unknown
    <3> QED BY <2>3, <2>7, <3>1
  <2> QED BY <1>3, <2>8, <2>9 DEF ram, old
<1> QED BY <1>2, <1>3

\* A sample leaves it sound.
LEMMA SoundSampled ==
  ASSUME NEW c, NEW b, NEW t, NEW u, EnergySound(c, b, t, u), b.on
  PROVE  EnergySound(c, Energy!Sampled(b, c), [t EXCEPT !.last[c.day] = c.meter], u)
<1> DEFINE w == Energy!Sampled(b, c)
           s == [t EXCEPT !.last[c.day] = c.meter]
           ends == b.active \notin {0, c.day}
           a == b.active
           ram == IF b.seen.day /= c.day THEN Energy!Restored(b, c) ELSE Continued(b, c)
<1>0. /\ c \in Clocks /\ b \in Books /\ t \in Truths /\ u \in Uploads
      /\ SamplesSay(c, b, t) /\ RamWritten(b) /\ ActiveSum(b, t)
      /\ FlashSum(c, b, t) /\ KeptDays(b, t)
      /\ FileSays(c, b, t, u) /\ ValidImport(b, u)
  BY DEF EnergySound
<1>1. /\ w \in Books
      /\ w.on /\ w.active = c.day /\ w.now = c.meter
      /\ w.seen = [day |-> c.day, wh |-> c.meter]
      /\ w.ram = ram
      /\ \A d : DayRec(w, d) = IF ends /\ d = a THEN b.now ELSE DayRec(b, d)
      /\ \A d : Energy!FromFlash(w, d) = IF ends /\ d = a
                                         THEN HoursOver(b.ram[d], Energy!FromFlash(b, d))
                                         ELSE Energy!FromFlash(b, d)
  BY <1>0, BookSampled
<1>2. /\ c.day \in Energy!Dates /\ c.meter \in Nat /\ a \in 0..LastDay /\ a <= c.day
      /\ c.day \in Int /\ a \in Int
  BY <1>0 DEF Clocks, Books, SamplesSay, Energy!Dates
<1>3. /\ s \in Truths
      /\ s.broken = t.broken /\ s.odd = t.odd
      /\ s.last[c.day] = c.meter
      /\ \A e \in Energy!Dates : e /= c.day => s.last[e] = t.last[e]
  BY <1>0, <1>2, SeenType
<1>4. c.day \notin t.odd =>
        /\ \A h \in Energy!Day : ram[c.day][h] = Energy!Unknown =>
                            Energy!FromFlash(b, c.day)[h] = Energy!Unknown
        /\ Energy!Total(ram[c.day]) = c.meter
  BY HoursSampled
<1>5. \A d \in Energy!Dates : d /= c.day => ram[d] = b.ram[d]
  <2>1. \A d \in Energy!Dates : d /= c.day => Energy!Restored(b, c)[d] = b.ram[d]
    BY <1>0, RestoredIs
  <2>2. \A d \in Energy!Dates : d /= c.day => Continued(b, c)[d] = b.ram[d]
    BY <1>0, ContinuedIs
  <2> QED BY <2>1, <2>2
\* the records that were there before this one
<1>6. /\ DayRec(w, c.day) = DayRec(b, c.day)
      /\ Energy!FromFlash(w, c.day) = Energy!FromFlash(b, c.day)
  BY <1>1
\* the day that ended was written
<1>7. ends => /\ a \in Energy!Dates /\ a < c.day
              /\ DayRec(w, a) = b.now /\ t.last[a] = b.now
              /\ Energy!FromFlash(w, a) = HoursOver(b.ram[a], Energy!FromFlash(b, a))
              /\ a \notin t.odd => Energy!Total(Energy!FromFlash(w, a)) = b.now
  <2> SUFFICES ASSUME ends
               PROVE  /\ a \in Energy!Dates /\ a < c.day
                      /\ DayRec(w, a) = b.now /\ t.last[a] = b.now
                      /\ Energy!FromFlash(w, a) = HoursOver(b.ram[a], Energy!FromFlash(b, a))
                      /\ a \notin t.odd => Energy!Total(Energy!FromFlash(w, a)) = b.now
    OBVIOUS
  <2>1. a /= 0 /\ a \in Energy!Dates /\ a < c.day
    BY <1>2 DEF Energy!Dates
  <2>2. t.last[a] = b.now
    BY <1>0, <2>1 DEF SamplesSay
  <2>3. DayRec(w, a) = b.now /\ Energy!FromFlash(w, a) = HoursOver(b.ram[a], Energy!FromFlash(b, a))
    BY <1>1
  <2>4. ASSUME a \notin t.odd PROVE Energy!Total(Energy!FromFlash(w, a)) = b.now
    <3>1. /\ \A h \in Energy!Day : b.ram[a][h] = Energy!Unknown =>
                                   Energy!FromFlash(b, a)[h] = Energy!Unknown
          /\ Energy!Total(b.ram[a]) = b.now
      BY <1>0, <2>1, <2>4 DEF ActiveSum
    <3>2. b.ram[a] \in HourMaps /\ Energy!FromFlash(b, a) \in HourMaps
      BY <1>0, <2>1, FlashType DEF Books
    <3>3. HoursOver(b.ram[a], Energy!FromFlash(b, a)) = b.ram[a]
      BY <3>1, <3>2, OverSame
    <3> QED BY <2>3, <3>1, <3>3
  <2> QED BY <2>1, <2>2, <2>3, <2>4
<1> HIDE DEF w, s, ram
<1>8. \A d : ~(ends /\ d = a) => /\ DayRec(w, d) = DayRec(b, d)
                                 /\ Energy!FromFlash(w, d) = Energy!FromFlash(b, d)
  BY <1>1
<1> HIDE DEF ends
<1>9. a \notin {0, c.day} <=> ends
  BY DEF ends
<1>10. SamplesSay(c, w, s)
  BY <1>1, <1>2, <1>3 DEF SamplesSay, Energy!Dates
<1>11. RamWritten(w)
  <2>1. ASSUME NEW d \in Energy!Dates, d > c.day PROVE w.ram[d] = Energy!NoHours
    <3>1. d /= c.day /\ d > a
      BY <1>2, <2>1 DEF Energy!Dates
    <3> QED BY <3>1, <1>0, <1>1, <1>5 DEF RamWritten
  <2>2. ASSUME NEW d \in Energy!Dates, NEW h \in Energy!Day, d /= c.day,
               w.ram[d][h] /= Energy!Unknown
        PROVE  Energy!FromFlash(w, d)[h] = w.ram[d][h]
    <3>1. w.ram[d] = b.ram[d]
      BY <1>1, <1>5, <2>2
    <3>2. CASE d = a
      <4>1. ends
        BY <1>9, <2>2, <3>2 DEF Energy!Dates
      <4>2. Energy!FromFlash(w, d)[h] = HoursOver(b.ram[d], Energy!FromFlash(b, d))[h]
        BY <4>1, <1>7, <3>2
      <4> QED BY <4>2, <3>1, <2>2 DEF HoursOver
    <3>3. CASE d /= a
      <4>1. Energy!FromFlash(w, d) = Energy!FromFlash(b, d)
        BY <1>8, <3>3
      <4> QED BY <4>1, <3>1, <3>3, <2>2, <1>0 DEF RamWritten
    <3> QED BY <3>2, <3>3
  <2> QED BY <2>1, <2>2, <1>1 DEF RamWritten
<1>12. ActiveSum(w, s)
  BY <1>1, <1>3, <1>4, <1>6 DEF ActiveSum
<1>13. FlashSum(c, w, s)
  <2>1. c.day \notin s.odd => Energy!Total(Energy!FromFlash(w, c.day)) <= c.meter
    BY <1>0, <1>3, <1>6 DEF FlashSum
  <2>2. ASSUME NEW d \in Energy!Dates, d > c.day
        PROVE  /\ DayRec(w, d) = Energy!Unknown
               /\ d \notin s.odd => Energy!FromFlash(w, d) = Energy!NoHours
    <3>1. d /= a
      BY <1>2, <2>2 DEF Energy!Dates
    <3> QED BY <3>1, <2>2, <1>0, <1>3, <1>8 DEF FlashSum
  <2>3. ASSUME NEW d \in Energy!Dates \ s.odd,
               DayRec(w, d) /= Energy!Unknown, Energy!FromFlash(w, d) /= Energy!NoHours
        PROVE  Energy!Total(Energy!FromFlash(w, d)) = DayRec(w, d)
    <3>1. CASE ends /\ d = a
      BY <3>1, <1>3, <1>7
    <3>2. CASE ~(ends /\ d = a)
      BY <3>2, <2>3, <1>0, <1>3, <1>8 DEF FlashSum
    <3> QED BY <3>1, <3>2
  <2> QED BY <2>1, <2>2, <2>3 DEF FlashSum
<1>14. KeptDays(w, s)
  <2> SUFFICES ASSUME NEW d \in Energy!Dates \ s.broken, d /= w.active,
                      s.last[d] /= Energy!Unknown
               PROVE  DayRec(w, d) = s.last[d]
    BY DEF KeptDays
  <2>1. d /= c.day /\ s.last[d] = t.last[d] /\ d \notin t.broken
    BY <1>1, <1>3
  <2>2. CASE d = a
    <3>1. ends
      BY <1>9, <2>1, <2>2 DEF Energy!Dates
    <3> QED BY <3>1, <2>1, <2>2, <1>7
  <2>3. CASE d /= a
    BY <2>1, <2>3, <1>0, <1>8 DEF KeptDays
  <2> QED BY <2>2, <2>3
<1>15. u.own => \A d \in 1..(u.before - 1) :
                  /\ DayRec(w, d) = DayRec(b, d)
                  /\ Energy!FromFlash(w, d) = Energy!FromFlash(b, d)
  <2> SUFFICES ASSUME u.own, NEW d \in 1..(u.before - 1)
               PROVE  ~(ends /\ d = a)
    BY <1>8
  <2>1. u.before \in Int /\ (a = 0 \/ u.before <= a)
    BY <1>0 DEF FileSays, Uploads
  <2> QED BY <2>1, <1>2, <1>9
<1>16. FileSays(c, w, s, u)
  BY <1>0, <1>1, <1>3, <1>15 DEF FileSays
<1>17. ValidImport(w, u)
  BY <1>0, <1>15 DEF ValidImport, Importing
<1> QED BY <1>0, <1>1, <1>3, <1>10, <1>11, <1>12, <1>13, <1>14, <1>16, <1>17
        DEF EnergySound, w, s

-----------------------------------------------------------------------------
(* Doubt, time, a file and a clearing                                      *)

\* Doubt about more days does no harm.
LEMMA SoundDoubted ==
  ASSUME NEW c, NEW b, NEW t, NEW u, EnergySound(c, b, t, u),
         NEW s \in Truths, s.last = t.last,
         t.broken \subseteq s.broken, t.odd \subseteq s.odd
  PROVE  EnergySound(c, b, s, u)
<1>0. /\ c \in Clocks /\ b \in Books /\ t \in Truths /\ u \in Uploads
      /\ SamplesSay(c, b, t) /\ RamWritten(b) /\ ActiveSum(b, t)
      /\ FlashSum(c, b, t) /\ KeptDays(b, t)
      /\ FileSays(c, b, t, u) /\ ValidImport(b, u)
  BY DEF EnergySound
<1>1. SamplesSay(c, b, s)
  BY <1>0 DEF SamplesSay
<1>2. ActiveSum(b, s)
  BY <1>0 DEF ActiveSum
<1>3. FlashSum(c, b, s)
  BY <1>0 DEF FlashSum
<1>4. KeptDays(b, s)
  BY <1>0 DEF KeptDays
<1>5. FileSays(c, b, s, u)
  BY <1>0 DEF FileSays
<1> QED BY <1>0, <1>1, <1>2, <1>3, <1>4, <1>5 DEF EnergySound

LEMMA SoundClock ==
  ASSUME NEW c, NEW b, NEW t, NEW u, EnergySound(c, b, t, u),
         NEW k \in Clocks, c.day <= k.day,
         b.active = k.day => b.now <= k.meter,
         k.day \notin t.odd => Energy!Total(Energy!FromFlash(b, k.day)) <= k.meter
  PROVE  EnergySound(k, b, t, u)
<1>0. /\ c \in Clocks /\ b \in Books /\ t \in Truths /\ u \in Uploads
      /\ SamplesSay(c, b, t) /\ RamWritten(b) /\ ActiveSum(b, t)
      /\ FlashSum(c, b, t) /\ KeptDays(b, t)
      /\ FileSays(c, b, t, u) /\ ValidImport(b, u)
  BY DEF EnergySound
<1>1. c.day \in Int /\ k.day \in Int /\ b.active \in Int /\ u.before \in Int
  BY <1>0 DEF Clocks, Energy!Dates, Books, Uploads
<1>2. SamplesSay(k, b, t)
  BY <1>0, <1>1 DEF SamplesSay
<1>3. FlashSum(k, b, t)
  <2>1. \A d \in Energy!Dates : d > k.day => d > c.day
    BY <1>1 DEF Energy!Dates
  <2> QED BY <2>1, <1>0 DEF FlashSum
<1>4. FileSays(k, b, t, u)
  <2>1. \A l \in u.lines : l.date \in Int
    BY <1>0 DEF Uploads, FileLines, Energy!Dates
  <2>2. \A l \in u.lines : l.kind = "day" => l.date <= k.day
    BY <2>1, <1>0, <1>1 DEF FileSays
  <2>3. u.own => u.before <= k.day
    BY <1>0, <1>1 DEF FileSays
  <2> QED BY <2>2, <2>3, <1>0 DEF FileSays
<1> QED BY <1>0, <1>2, <1>3, <1>4 DEF EnergySound

LEMMA SoundUpload ==
  ASSUME NEW c, NEW b, NEW t, NEW u, EnergySound(c, b, t, u), NEW v \in Uploads,
         FileSays(c, b, t, v), ValidImport(b, v)
  PROVE  EnergySound(c, b, t, v)
BY DEF EnergySound

\* An upload that goes on with the same file, and has sent no more than before.
LEMMA SoundFile ==
  ASSUME NEW c, NEW b, NEW t, NEW u, EnergySound(c, b, t, u),
         NEW v \in Uploads,
         v.is \in OpenStates => u.is \in OpenStates, v.is = "done" => u.is = "done",
         v.is \in {"ready", "failed"} => v.sent = {},
         v.lines = u.lines, v.was = u.was, v.before = u.before, v.own = u.own,
         v.valid => u.valid, v.sent \subseteq u.sent
  PROVE  EnergySound(c, b, t, v)
<1>0. u \in Uploads /\ FileSays(c, b, t, u) /\ ValidImport(b, u)
  BY DEF EnergySound
<1>1. FileSays(c, b, t, v)
  BY <1>0 DEF FileSays
<1>2. ASSUME NEW d, Importing(b, u, d) PROVE Importing(b, v, d)
  <2>1. HasDay(v, d) <=> HasDay(u, d)
    BY DEF HasDay
  <2>2. v.sent \cap v.lines \subseteq u.sent \cap u.lines
    OBVIOUS
  <2> QED BY <1>2, <2>1, <2>2 DEF Importing
<1>3. ValidImport(b, v)
  BY <1>0, <1>2 DEF ValidImport
<1> QED BY <1>1, <1>3, SoundUpload

\* The archive is emptied.
LEMMA SoundCleared ==
  ASSUME NEW c, NEW b, NEW t, NEW u, EnergySound(c, b, t, u), NEW v \in Uploads,
         u.is \in OpenStates,
         v.is = u.is, v.lines = u.lines, v.was = u.was, v.before = u.before,
         v.own = u.own, v.sent = u.sent,
         v.valid => u.valid /\ u.is \in {"ready", "failed"}
  PROVE  EnergySound(c, Energy!NoSamples([b EXCEPT !.days = <<>>, !.hours = <<>>]),
                     [last |-> [ d \in Energy!Dates |-> Energy!Unknown ], broken |-> {}, odd |-> {}], v)
<1> DEFINE e == [b EXCEPT !.days = <<>>, !.hours = <<>>]
           w == Energy!NoSamples(e)
           s == [last |-> [ d \in Energy!Dates |-> Energy!Unknown ], broken |-> {}, odd |-> {}]
<1>0. /\ c \in Clocks /\ b \in Books /\ t \in Truths /\ u \in Uploads
      /\ FileSays(c, b, t, u) /\ ValidImport(b, u)
  BY DEF EnergySound
<1>1. e \in Books /\ e.days = <<>> /\ e.hours = <<>> /\ e.on = b.on
  <2>1. <<>> \in Seq(DayRecs) /\ <<>> \in Seq(HourRecs)
    OBVIOUS
  <2> QED BY <2>1, <1>0 DEF Books
<1> HIDE DEF e
<1>2. /\ w \in Books
      /\ w.ram = [ d \in Energy!Dates |-> Energy!NoHours ] /\ w.active = 0 /\ w.now = 0
      /\ w.seen.day = 0 /\ w.on = b.on
      /\ \A d : DayRec(w, d) = Energy!Unknown /\ Energy!FromFlash(w, d) = Energy!NoHours
  <2>1. \A d : DayRec(e, d) = Energy!Unknown /\ Energy!FromFlash(e, d) = Energy!NoHours
    BY <1>1, EmptyBook
  <2> QED BY <2>1, <1>1, WithoutSamples
<1>3. /\ s \in Truths /\ s.broken = {} /\ s.odd = {}
      /\ \A d \in Energy!Dates : s.last[d] = Energy!Unknown
  <2>1. [ d \in Energy!Dates |-> Energy!Unknown ] \in [Energy!Dates -> KnownWh]
    BY DEF KnownWh
  <2> QED BY <2>1 DEF Truths
<1>4. c.day \in Energy!Dates /\ c.meter \in Nat
  BY <1>0 DEF Clocks
<1> HIDE DEF w, s
<1>5. SamplesSay(c, w, s)
  BY <1>2, <1>4 DEF SamplesSay, Energy!Dates
<1>6. RamWritten(w)
  BY <1>2 DEF RamWritten, Energy!NoHours
<1>7. ActiveSum(w, s)
  BY <1>2 DEF ActiveSum
<1>8. FlashSum(c, w, s)
  BY <1>2, <1>4, TotalOfNone DEF FlashSum
<1>9. KeptDays(w, s)
  BY <1>3 DEF KeptDays
<1>10. FileSays(c, w, s, v)
  BY <1>0, <1>2 DEF FileSays
<1>11. ValidImport(w, v)
  <2> SUFFICES ASSUME v.valid, NEW d \in 1..(v.before - 1)
               PROVE  Importing(w, v, d)
    <3>1. v.valid => v.own
      BY <1>0 DEF ValidImport
    <3>2. v.is /= "done"
      BY DEF OpenStates
    <3> QED BY <3>1, <3>2 DEF ValidImport
  <2>1. Importing(b, u, d) /\ u.sent = {}
    BY <1>0 DEF ValidImport, FileSays
  <2>2. HasDay(v, d) <=> HasDay(u, d)
    BY DEF HasDay
  <2> QED BY <2>1, <2>2, <1>2 DEF Importing
<1> QED BY <1>0, <1>2, <1>3, <1>5, <1>6, <1>7, <1>8, <1>9, <1>10, <1>11
        DEF EnergySound, w, s, e

-----------------------------------------------------------------------------
(* What is exported, and a file that is chosen                             *)

LEMMA ShownType ==
  ASSUME NEW b \in Books, NEW d \in Energy!Dates
  PROVE  /\ Energy!DayTotal(b, d) = IF b.active = d THEN b.now ELSE DayRec(b, d)
         /\ Energy!HourList(b, d) = HoursOver(b.ram[d], Energy!FromFlash(b, d))
         /\ Energy!DayTotal(b, d) \in KnownWh /\ Energy!HourList(b, d) \in HourMaps
<1>1. Energy!DayTotal(b, d) = IF b.active = d THEN b.now ELSE DayRec(b, d)
  BY DEF Energy!DayTotal, DayRec
<1>2. Energy!HourList(b, d) = HoursOver(b.ram[d], Energy!FromFlash(b, d))
  BY DEF Energy!HourList, HoursOver
<1>3. Energy!DayTotal(b, d) \in KnownWh
  <2>1. b.now \in KnownWh
    BY DEF Books, KnownWh
  <2> QED BY <2>1, <1>1, DayRecType
<1>4. Energy!HourList(b, d) \in HourMaps
  <2>1. b.ram[d] \in HourMaps /\ Energy!FromFlash(b, d) \in HourMaps
    BY FlashType DEF Books
  <2> QED BY <2>1, <1>2, OverType
<1> QED BY <1>1, <1>2, <1>3, <1>4

\* Of a day that is over the page is shown what the archive holds.
LEMMA PastShown ==
  ASSUME NEW b \in Books, RamWritten(b), NEW d \in Energy!Dates, d /= b.active
  PROVE  Energy!DayTotal(b, d) = DayRec(b, d) /\ Energy!HourList(b, d) = Energy!FromFlash(b, d)
<1>1. /\ Energy!DayTotal(b, d) = DayRec(b, d)
      /\ Energy!HourList(b, d) = HoursOver(b.ram[d], Energy!FromFlash(b, d))
  BY ShownType
<1>2. b.ram[d] \in HourMaps /\ Energy!FromFlash(b, d) \in HourMaps
  BY FlashType DEF Books
<1>3. \A h \in Energy!Day : b.ram[d][h] /= Energy!Unknown => Energy!FromFlash(b, d)[h] = b.ram[d][h]
  BY DEF RamWritten
<1>4. HoursOver(b.ram[d], Energy!FromFlash(b, d)) = Energy!FromFlash(b, d)
  BY <1>2, <1>3 DEF HoursOver, HourMaps
<1> QED BY <1>1, <1>4

LEMMA WholeRecords ==
  ASSUME NEW b \in Books
  PROVE  /\ Energy!Records(b, Energy!Whole) \in [Energy!Dates -> KnownWh]
         /\ \A d \in Energy!Dates :
              Energy!Records(b, Energy!Whole)[d] =
                IF Energy!DayTotal(b, d) /= Energy!Unknown THEN Energy!DayTotal(b, d)
                ELSE IF Energy!HourList(b, d) /= Energy!NoHours THEN Energy!Total(Energy!HourList(b, d))
                ELSE Energy!Unknown
         /\ \A d \in Energy!Dates :
              Energy!Records(b, [Energy!Whole EXCEPT !.hours = FALSE])[d] = Energy!DayTotal(b, d)
<1>1. /\ Energy!Whole.from = 1 /\ Energy!Whole.to = LastDay /\ Energy!Whole.hours
      /\ [Energy!Whole EXCEPT !.hours = FALSE].from = 1
      /\ [Energy!Whole EXCEPT !.hours = FALSE].to = LastDay
      /\ ~[Energy!Whole EXCEPT !.hours = FALSE].hours
  BY DEF Energy!Whole, Energy!Asked
<1>2. \A d \in Energy!Dates : d \in 1..LastDay
  BY DEF Energy!Dates
<1>3. \A d \in Energy!Dates :
        Energy!Records(b, Energy!Whole)[d] =
          IF Energy!DayTotal(b, d) /= Energy!Unknown THEN Energy!DayTotal(b, d)
          ELSE IF Energy!HourList(b, d) /= Energy!NoHours THEN Energy!Total(Energy!HourList(b, d))
          ELSE Energy!Unknown
  BY <1>1, <1>2 DEF Energy!Records
<1>4. \A d \in Energy!Dates :
        Energy!Records(b, [Energy!Whole EXCEPT !.hours = FALSE])[d] = Energy!DayTotal(b, d)
  BY <1>1, <1>2 DEF Energy!Records
<1>5. Energy!Records(b, Energy!Whole) \in [Energy!Dates -> KnownWh]
  <2>1. Energy!Records(b, Energy!Whole) = [ d \in Energy!Dates |-> Energy!Records(b, Energy!Whole)[d] ]
    BY DEF Energy!Records
  <2>2. ASSUME NEW d \in Energy!Dates PROVE Energy!Records(b, Energy!Whole)[d] \in KnownWh
    <3>1. Energy!DayTotal(b, d) \in KnownWh /\ Energy!HourList(b, d) \in HourMaps
      BY ShownType
    <3>2. Energy!Total(Energy!HourList(b, d)) \in KnownWh
      BY <3>1, TotalNat DEF KnownWh
    <3>3. Energy!Unknown \in KnownWh
      BY DEF KnownWh
    <3> QED BY <3>1, <3>2, <3>3, <1>3
  <2> QED BY <2>1, <2>2
<1> QED BY <1>3, <1>4, <1>5

\* The lines of an export.
LEMMA ExportedAre ==
  ASSUME NEW b \in Books, NEW mode, NEW l
  PROVE  l \in Energy!Exported(b, mode) <=>
           \E d \in Energy!Dates :
             \/ /\ mode /= "hours" /\ Energy!DayTotal(b, d) /= Energy!Unknown
                /\ l = Energy!DayLine(d, Energy!DayTotal(b, d))
             \/ /\ mode /= "days" /\ Energy!HourList(b, d) /= Energy!NoHours
                /\ l = Energy!HourLine(d, Energy!HourList(b, d))
<1> DEFINE days  == { Energy!DayLine(d, Energy!DayTotal(b, d)) :
                        d \in { e \in Energy!Dates : Energy!DayTotal(b, e) /= Energy!Unknown } }
           hours == { Energy!HourLine(d, Energy!HourList(b, d)) :
                        d \in { e \in Energy!Dates : Energy!HourList(b, e) /= Energy!NoHours } }
<1>1. l \in Energy!Exported(b, mode) <=> \/ mode /= "hours" /\ l \in days
                                         \/ mode /= "days" /\ l \in hours
  BY DEF Energy!Exported
<1>2. l \in days <=> \E d \in Energy!Dates : /\ Energy!DayTotal(b, d) /= Energy!Unknown
                                             /\ l = Energy!DayLine(d, Energy!DayTotal(b, d))
  OBVIOUS
<1>3. l \in hours <=> \E d \in Energy!Dates : /\ Energy!HourList(b, d) /= Energy!NoHours
                                              /\ l = Energy!HourLine(d, Energy!HourList(b, d))
  OBVIOUS
<1> HIDE DEF days, hours
<1> QED BY <1>1, <1>2, <1>3

LEMMA LineIs ==
  ASSUME NEW d, NEW x
  PROVE  /\ Energy!DayLine(d, x).kind = "day" /\ Energy!DayLine(d, x).date = d
         /\ Energy!DayLine(d, x).wh = x
         /\ Energy!HourLine(d, x).kind = "hourday" /\ Energy!HourLine(d, x).date = d
         /\ Energy!HourLine(d, x).at = x
         /\ d \in Energy!Dates /\ x \in Nat => Energy!DayLine(d, x) \in FileLines
         /\ d \in Energy!Dates /\ x \in HourMaps \ {Energy!NoHours} => Energy!HourLine(d, x) \in FileLines
BY DEF Energy!DayLine, Energy!HourLine, FileLines

LEMMA ExportedLines ==
  ASSUME NEW b \in Books, NEW mode
  PROVE  /\ Energy!Exported(b, mode) \in SUBSET FileLines
         /\ \A l \in Energy!Exported(b, mode) :
              /\ l.kind = "day" => /\ mode /= "hours" /\ l.wh = Energy!DayTotal(b, l.date)
                                   /\ Energy!DayTotal(b, l.date) /= Energy!Unknown
              /\ l.kind = "hourday" => /\ mode /= "days"
                                       /\ l.at = Energy!HourList(b, l.date)
                                       /\ Energy!HourList(b, l.date) /= Energy!NoHours
         /\ \A l, m \in Energy!Exported(b, mode) :
              l.kind = m.kind /\ l.date = m.date => l = m
<1>1. ASSUME NEW l \in Energy!Exported(b, mode)
      PROVE  /\ l \in FileLines
             /\ l.kind = "day" => /\ mode /= "hours" /\ l.wh = Energy!DayTotal(b, l.date)
                                  /\ Energy!DayTotal(b, l.date) /= Energy!Unknown
             /\ l.kind = "hourday" => /\ mode /= "days"
                                      /\ l.at = Energy!HourList(b, l.date)
                                      /\ Energy!HourList(b, l.date) /= Energy!NoHours
             /\ l = IF l.kind = "day" THEN Energy!DayLine(l.date, Energy!DayTotal(b, l.date))
                    ELSE Energy!HourLine(l.date, Energy!HourList(b, l.date))
  <2>1. PICK d \in Energy!Dates :
          \/ /\ mode /= "hours" /\ Energy!DayTotal(b, d) /= Energy!Unknown
             /\ l = Energy!DayLine(d, Energy!DayTotal(b, d))
          \/ /\ mode /= "days" /\ Energy!HourList(b, d) /= Energy!NoHours
             /\ l = Energy!HourLine(d, Energy!HourList(b, d))
    BY ExportedAre
  <2>2. /\ Energy!DayTotal(b, d) /= Energy!Unknown => Energy!DayTotal(b, d) \in Nat
        /\ Energy!HourList(b, d) /= Energy!NoHours => Energy!HourList(b, d) \in HourMaps \ {Energy!NoHours}
    BY ShownType DEF KnownWh
  <2>3. CASE /\ mode /= "hours" /\ Energy!DayTotal(b, d) /= Energy!Unknown
             /\ l = Energy!DayLine(d, Energy!DayTotal(b, d))
    <3>1. /\ l.kind = "day" /\ l.date = d /\ l.wh = Energy!DayTotal(b, d) /\ l \in FileLines
      BY <2>2, <2>3, LineIs
    <3> QED BY <2>3, <3>1
  <2>4. CASE /\ mode /= "days" /\ Energy!HourList(b, d) /= Energy!NoHours
             /\ l = Energy!HourLine(d, Energy!HourList(b, d))
    <3>1. /\ l.kind = "hourday" /\ l.date = d /\ l.at = Energy!HourList(b, d)
          /\ l \in FileLines
      BY <2>2, <2>4, LineIs
    <3> QED BY <2>4, <3>1
  <2> QED BY <2>1, <2>3, <2>4
<1>2. ASSUME NEW l \in Energy!Exported(b, mode), NEW m \in Energy!Exported(b, mode),
             l.kind = m.kind, l.date = m.date
      PROVE  l = m
  <2>1. l = IF l.kind = "day" THEN Energy!DayLine(l.date, Energy!DayTotal(b, l.date))
            ELSE Energy!HourLine(l.date, Energy!HourList(b, l.date))
    BY <1>1
  <2>2. m = IF m.kind = "day" THEN Energy!DayLine(m.date, Energy!DayTotal(b, m.date))
            ELSE Energy!HourLine(m.date, Energy!HourList(b, m.date))
    BY <1>1
  <2> QED BY <2>1, <2>2, <1>2
<1> QED BY <1>1, <1>2

\* A file chosen on a day of which every change was sampled.
LEMMA SoundChosen ==
  ASSUME NEW c, NEW b, NEW t, NEW u, EnergySound(c, b, t, u), b.active = c.day,
         NEW mode, NEW v \in Uploads,
         v.is = "ready", v.lines = Energy!Exported(b, mode), v.sent = {}, v.own,
         v.was = Energy!Records(b, Energy!Whole), v.before = c.day,
         v.valid => \/ mode = "days_and_hours"
                    \/ /\ mode = "days"
                       /\ Energy!Records(b, Energy!Whole)
                            = Energy!Records(b, [Energy!Whole EXCEPT !.hours = FALSE])
  PROVE  EnergySound(c, b, t, v)
<1>0. /\ c \in Clocks /\ b \in Books /\ t \in Truths /\ RamWritten(b)
      /\ FlashSum(c, b, t)
  BY DEF EnergySound
<1>1. c.day \in Energy!Dates /\ c.day \in Int /\ c.day <= LastDay
  BY <1>0 DEF Clocks, Energy!Dates
\* the days before today
<1>2. ASSUME NEW d \in 1..(v.before - 1)
      PROVE  /\ d \in Energy!Dates
             /\ Energy!DayTotal(b, d) = DayRec(b, d) /\ Energy!HourList(b, d) = Energy!FromFlash(b, d)
             /\ v.was[d] = IF DayRec(b, d) /= Energy!Unknown THEN DayRec(b, d)
                           ELSE IF Energy!FromFlash(b, d) /= Energy!NoHours
                           THEN Energy!Total(Energy!FromFlash(b, d)) ELSE Energy!Unknown
  <2>1. d \in Energy!Dates /\ d /= b.active
    BY <1>1, PanelsAssumption DEF Energy!Dates
  <2>2. Energy!DayTotal(b, d) = DayRec(b, d) /\ Energy!HourList(b, d) = Energy!FromFlash(b, d)
    BY <1>0, <2>1, PastShown
  <2> QED BY <2>1, <2>2, <1>0, WholeRecords
<1>3. FileSays(c, b, t, v)
  <2>1. ASSUME NEW l \in v.lines, l.kind = "day"
        PROVE  /\ l.date <= c.day
               /\ l.date < v.before => l.wh = v.was[l.date]
    <3>1. /\ l.date \in Energy!Dates /\ l.wh = Energy!DayTotal(b, l.date)
          /\ Energy!DayTotal(b, l.date) /= Energy!Unknown
      BY <1>0, <2>1, ExportedLines DEF FileLines
    <3>2. l.date <= c.day
      <4> SUFFICES ASSUME l.date > c.day PROVE FALSE
        BY <1>1, <3>1 DEF Energy!Dates
      <4>1. DayRec(b, l.date) = Energy!Unknown
        BY <1>0, <3>1 DEF FlashSum
      <4>2. Energy!DayTotal(b, l.date) = DayRec(b, l.date)
        BY <1>0, <1>1, <3>1, PastShown DEF Energy!Dates
      <4> QED BY <4>1, <4>2, <3>1
    <3>3. v.was[l.date] = l.wh
      BY <1>0, <3>1, WholeRecords
    <3> QED BY <3>2, <3>3
  <2>2. ASSUME NEW d \in 1..(v.before - 1) \ t.odd
        PROVE  /\ DayRec(b, d) /= Energy!Unknown => DayRec(b, d) = v.was[d]
               /\ Energy!FromFlash(b, d) /= Energy!NoHours => Energy!Total(Energy!FromFlash(b, d)) = v.was[d]
    <3>1. d \in Energy!Dates \ t.odd
      BY <1>2
    <3> QED BY <3>1, <1>0, <1>2 DEF FlashSum
  <2>3. \A l, m \in v.lines : l.kind = m.kind /\ l.date = m.date => l = m
    BY <1>0, ExportedLines
  <2> QED BY <1>1, <2>1, <2>2, <2>3 DEF FileSays
<1>4. ValidImport(b, v)
  <2> SUFFICES ASSUME v.valid, NEW d \in 1..(v.before - 1)
               PROVE  Importing(b, v, d)
    BY DEF ValidImport
  <2>1. /\ mode /= "hours"
        /\ mode = "days" => v.was[d] = Energy!DayTotal(b, d)
    <3>1. mode = "days_and_hours" \/ mode = "days"
      OBVIOUS
    <3>2. ASSUME mode = "days" PROVE v.was[d] = Energy!DayTotal(b, d)
      <4>1. v.was = Energy!Records(b, [Energy!Whole EXCEPT !.hours = FALSE])
        BY <3>2
      <4>2. Energy!Records(b, [Energy!Whole EXCEPT !.hours = FALSE])[d] = Energy!DayTotal(b, d)
        BY <1>0, <1>2, WholeRecords
      <4> QED BY <4>1, <4>2
    <3> QED BY <3>1, <3>2
  <2>2. /\ DayRec(b, d) \in KnownWh /\ Energy!FromFlash(b, d) \in HourMaps
        /\ Energy!Total(Energy!FromFlash(b, d)) \in Nat
    <3>1. DayRec(b, d) \in KnownWh /\ Energy!FromFlash(b, d) \in HourMaps
      BY <1>0, DayRecType, FlashType
    <3> QED BY <3>1, TotalNat
  <2>3. Energy!Unknown \notin Nat
    BY DEF Energy!Unknown
  <2>4. DayRec(b, d) /= Energy!Unknown => HasDay(v, d)
    <3> SUFFICES ASSUME DayRec(b, d) /= Energy!Unknown PROVE HasDay(v, d)
      OBVIOUS
    <3>1. Energy!DayLine(d, Energy!DayTotal(b, d)) \in v.lines
      BY <1>0, <1>2, <2>1, ExportedAre
    <3> QED BY <3>1, LineIs DEF HasDay
  <2>5. v.was[d] /= Energy!Unknown => \E l \in v.lines : l.date = d
    <3> SUFFICES ASSUME v.was[d] /= Energy!Unknown, DayRec(b, d) = Energy!Unknown
                 PROVE  \E l \in v.lines : l.date = d
      BY <2>4 DEF HasDay
    <3>1. Energy!FromFlash(b, d) /= Energy!NoHours /\ mode /= "days"
      BY <1>2, <2>1
    <3>2. Energy!HourLine(d, Energy!HourList(b, d)) \in v.lines
      BY <1>0, <1>2, <3>1, ExportedAre
    <3> QED BY <3>2, LineIs
  <2>6. ASSUME NEW l \in v.lines, l.date = d
        PROVE  /\ v.was[d] /= Energy!Unknown
               /\ l.kind = "hourday" /\ ~HasDay(v, d) => Energy!Total(l.at) = v.was[d]
    <3>1. l \in FileLines
      BY DEF Uploads
    <3>2. CASE l.kind = "day"
      <4>1. Energy!DayTotal(b, d) /= Energy!Unknown
        BY <1>0, <2>6, <3>2, ExportedLines
      <4> QED BY <4>1, <1>2, <3>2
    <3>3. CASE l.kind = "hourday"
      <4>1. l.at = Energy!HourList(b, d) /\ Energy!HourList(b, d) /= Energy!NoHours
        BY <1>0, <2>6, <3>3, ExportedLines
      <4> QED BY <4>1, <1>2, <2>2, <2>3, <2>4
    <3> QED BY <3>1, <3>2, <3>3 DEF FileLines
  <2>7. Energy!FromFlash(b, d) /= Energy!NoHours => v.was[d] /= Energy!Unknown
    BY <1>2, <2>2, <2>3
  <2> QED BY <1>2, <2>2, <2>5, <2>6, <2>7 DEF Importing
<1> QED BY <1>3, <1>4, SoundUpload

-----------------------------------------------------------------------------
(* A line that is sent                                                     *)

\* There is a first line to send.
LEMMA FirstLeft ==
  ASSUME NEW L \in SUBSET FileLines, L /= {},
         \A l, m \in L : l.kind = m.kind /\ l.date = m.date => l = m
  PROVE  \E l \in L : \A m \in L \ {l} : Energy!Earlier(l, m)
<1>1. ASSUME NEW K \in SUBSET L, K /= {},
             \A l, m \in K : l.kind = m.kind
      PROVE  \E l \in K : \A m \in K \ {l} : l.kind = m.kind /\ l.date < m.date
  <2> DEFINE dates == { l.date : l \in K }
  <2>1. dates \in SUBSET Nat /\ dates /= {}
    <3>1. \A l \in K : l.date \in Nat
      BY DEF FileLines, Energy!Dates
    <3>2. PICK l \in K : TRUE
      BY <1>1
    <3>3. l.date \in dates
      OBVIOUS
    <3> QED BY <3>1, <3>3
  <2>2. PICK d \in dates : \A e \in dates : d <= e
    BY <2>1, LeastOfNat
  <2>3. PICK l \in K : l.date = d
    BY <2>2
  <2>4. \A m \in K \ {l} : l.kind = m.kind /\ l.date < m.date
    <3> TAKE m \in K \ {l}
    <3>1. l.kind = m.kind /\ l.date /= m.date
      BY <1>1
    <3>2. l.date <= m.date /\ l.date \in Nat /\ m.date \in Nat
      BY <2>1, <2>2, <2>3
    <3> QED BY <3>1, <3>2
  <2> QED BY <2>4
<1> DEFINE K == { l \in L : l.kind = "day" }
<1>2. CASE K /= {}
  <2>1. PICK l \in K : \A m \in K \ {l} : l.kind = m.kind /\ l.date < m.date
    BY <1>1, <1>2
  <2>2. \A m \in L \ K : m.kind = "hourday"
    BY DEF FileLines
  <2>3. \A m \in L \ {l} : Energy!Earlier(l, m)
    BY <2>1, <2>2 DEF Energy!Earlier
  <2> QED BY <2>3
<1>3. CASE K = {}
  <2>1. \A l \in L : l.kind = "hourday"
    BY <1>3 DEF FileLines
  <2>2. PICK l \in L : \A m \in L \ {l} : l.kind = m.kind /\ l.date < m.date
    BY <1>1, <2>1
  <2>3. \A m \in L \ {l} : Energy!Earlier(l, m)
    BY <2>2 DEF Energy!Earlier
  <2> QED BY <2>3
<1> QED BY <1>2, <1>3

LEMMA LineFields ==
  ASSUME NEW l \in FileLines
  PROVE  /\ l.date \in Energy!Dates
         /\ l.kind = "day" \/ l.kind = "hourday"
         /\ l.kind = "day" => l.wh \in Nat
         /\ l.kind = "hourday" => l.at \in HourMaps /\ l.at /= Energy!NoHours
BY DEF FileLines

\* What a line that is not there yet puts into the archive.
LEMMA LineImported ==
  ASSUME NEW b \in Books, NEW l \in FileLines, ~Energy!Present(b, l)
  PROVE  LET w == Energy!Imported(b, l)
         IN  /\ w \in Books
             /\ w.ram = b.ram /\ w.active = b.active /\ w.now = b.now
             /\ w.seen = b.seen /\ w.on = b.on
             /\ \A d : d /= l.date => /\ DayRec(w, d) = DayRec(b, d)
                                      /\ Energy!FromFlash(w, d) = Energy!FromFlash(b, d)
             /\ l.kind = "day" =>
                  /\ DayRec(b, l.date) = Energy!Unknown /\ DayRec(w, l.date) = l.wh
                  /\ Energy!FromFlash(w, l.date) = Energy!FromFlash(b, l.date)
             /\ l.kind = "hourday" =>
                  /\ Energy!FromFlash(b, l.date) = Energy!NoHours
                  /\ Energy!FromFlash(w, l.date) = l.at
                  /\ DayRec(w, l.date) = DayRec(b, l.date)
<1> DEFINE w == Energy!Imported(b, l)
<1>1. CASE l.kind = "day"
  <2>1. w = Energy!WithDay(b, l.date, l.wh) /\ DayRec(b, l.date) = Energy!Unknown
    BY <1>1, DayRecType DEF Energy!Imported, Energy!Present
  <2>2. l.date \in Energy!Dates /\ l.wh \in Nat
    BY <1>1, LineFields
  <2>3. /\ w \in Books /\ w = [b EXCEPT !.days = w.days]
        /\ \A d : DayRec(w, d) = IF d = l.date THEN l.wh ELSE DayRec(b, d)
        /\ \A d : Energy!FromFlash(w, d) = Energy!FromFlash(b, d)
    BY <2>1, <2>2, DayWritten
  <2> HIDE DEF w
  <2>4. /\ w.ram = b.ram /\ w.active = b.active /\ w.now = b.now
        /\ w.seen = b.seen /\ w.on = b.on
    BY <2>3 DEF Books
  <2> QED BY <2>1, <2>3, <2>4, <1>1 DEF w
<1>2. CASE l.kind = "hourday"
  <2>1. w = Energy!WithHours(b, l.date, l.at) /\ Energy!FromFlash(b, l.date) = Energy!NoHours
    BY <1>2, FlashType DEF Energy!Imported, Energy!Present
  <2>2. l.date \in Energy!Dates /\ l.at \in HourMaps
    BY <1>2, LineFields
  <2>3. /\ w \in Books /\ w = [b EXCEPT !.hours = w.hours]
        /\ \A d : DayRec(w, d) = DayRec(b, d)
        /\ \A d : Energy!FromFlash(w, d) = IF d = l.date
                                           THEN HoursOver(l.at, Energy!FromFlash(b, d))
                                           ELSE Energy!FromFlash(b, d)
    BY <2>1, <2>2, HoursWritten
  <2>4. Energy!FromFlash(w, l.date) = l.at
    BY <2>1, <2>2, <2>3, OverNone
  <2> HIDE DEF w
  <2>5. /\ w.ram = b.ram /\ w.active = b.active /\ w.now = b.now
        /\ w.seen = b.seen /\ w.on = b.on
    BY <2>3 DEF Books
  <2> QED BY <2>1, <2>3, <2>4, <2>5, <1>2 DEF w
<1> QED BY <1>1, <1>2, LineFields

LEMMA SentType ==
  ASSUME NEW u \in Uploads, NEW l \in FileLines
  PROVE  LET v == [u EXCEPT !.sent = @ \cup {l}]
         IN  /\ v \in Uploads
             /\ v.is = u.is /\ v.lines = u.lines /\ v.was = u.was
             /\ v.before = u.before /\ v.own = u.own /\ v.valid = u.valid
             /\ v.sent = u.sent \cup {l}
BY DEF Uploads

\* A line of a file that came from here, of a day that was over.
FitsDay(u, l) ==
  /\ u.own /\ l.date < u.before
  /\ l.kind = "day" \/ Energy!Total(l.at) = u.was[l.date]

\* The device was sent a line and kept what it had of that date.
LEMMA SoundPosted ==
  ASSUME NEW c, NEW b, NEW t, NEW u, EnergySound(c, b, t, u), b.active = c.day,
         u.is = "busy", NEW l \in u.lines,
         NEW s \in Truths, s.last = t.last, s.broken = t.broken,
         s.odd = IF Energy!Present(b, l) \/ FitsDay(u, l) THEN t.odd
                 ELSE t.odd \cup {l.date}
  PROVE  EnergySound(c, Energy!Imported(b, l), s, [u EXCEPT !.sent = @ \cup {l}])
<1> DEFINE w == Energy!Imported(b, l)
           v == [u EXCEPT !.sent = @ \cup {l}]
           e == l.date
<1>0. /\ c \in Clocks /\ b \in Books /\ t \in Truths /\ u \in Uploads
      /\ SamplesSay(c, b, t) /\ RamWritten(b) /\ ActiveSum(b, t)
      /\ FlashSum(c, b, t) /\ KeptDays(b, t)
      /\ FileSays(c, b, t, u) /\ ValidImport(b, u)
  BY DEF EnergySound
<1>1. /\ l \in FileLines /\ e \in Energy!Dates /\ e \in Int
      /\ l.kind = "day" \/ l.kind = "hourday"
      /\ l.kind = "day" => l.wh \in Nat
      /\ l.kind = "hourday" => l.at \in HourMaps /\ l.at /= Energy!NoHours
  <2>1. l \in FileLines
    BY <1>0 DEF Uploads
  <2> QED BY <2>1, LineFields DEF Energy!Dates
<1>2. /\ v \in Uploads
      /\ v.is = u.is /\ v.lines = u.lines /\ v.was = u.was
      /\ v.before = u.before /\ v.own = u.own /\ v.valid = u.valid
      /\ v.sent = u.sent \cup {l}
  BY <1>0, <1>1, SentType
<1>3. /\ c.day \in Energy!Dates /\ c.day \in Int /\ u.before \in Int
      /\ u.own => u.before <= c.day
  BY <1>0 DEF Clocks, Energy!Dates, Uploads, FileSays
<1> HIDE DEF v
<1>4. CASE Energy!Present(b, l)
  <2>1. w = b /\ s.odd = t.odd
    BY <1>4 DEF Energy!Imported
  <2>2. EnergySound(c, b, s, u)
    BY <2>1, <1>0, SoundDoubted
  <2>3. FileSays(c, b, s, u) /\ ValidImport(b, u)
    BY <2>2 DEF EnergySound
  <2>4. IF l.kind = "day" THEN DayRec(b, e) /= Energy!Unknown
        ELSE Energy!FromFlash(b, e) /= Energy!NoHours
    BY <1>0, <1>4, DayRecType, FlashType DEF Energy!Present
  <2>5. FileSays(c, b, s, v)
    BY <2>3, <1>2 DEF FileSays
  <2>6. ASSUME NEW d, Importing(b, u, d) PROVE Importing(b, v, d)
    <3>1. HasDay(v, d) <=> HasDay(u, d)
      BY <1>2 DEF HasDay
    <3>2. ASSUME NEW k \in v.sent \cap v.lines, k.date = d
          PROVE  IF k.kind = "day" THEN DayRec(b, d) /= Energy!Unknown
                 ELSE Energy!FromFlash(b, d) /= Energy!NoHours
      <4>1. CASE k = l
        BY <4>1, <3>2, <2>4
      <4>2. CASE k /= l
        BY <4>2, <3>2, <2>6, <1>2 DEF Importing
      <4> QED BY <4>1, <4>2
    <3> QED BY <3>1, <3>2, <2>6, <1>2 DEF Importing
  <2>7. ValidImport(b, v)
    BY <2>3, <2>6, <1>2 DEF ValidImport
  <2>8. EnergySound(c, b, s, v)
    BY <2>2, <2>5, <2>7, <1>2, SoundUpload
  <2> QED BY <2>1, <2>8 DEF v
<1>5. CASE ~Energy!Present(b, l)
  <2>1. /\ w \in Books
        /\ w.ram = b.ram /\ w.active = b.active /\ w.now = b.now
        /\ w.seen = b.seen /\ w.on = b.on
        /\ \A d : d /= e => /\ DayRec(w, d) = DayRec(b, d)
                            /\ Energy!FromFlash(w, d) = Energy!FromFlash(b, d)
        /\ l.kind = "day" =>
             /\ DayRec(b, e) = Energy!Unknown /\ DayRec(w, e) = l.wh
             /\ Energy!FromFlash(w, e) = Energy!FromFlash(b, e)
        /\ l.kind = "hourday" =>
             /\ Energy!FromFlash(b, e) = Energy!NoHours
             /\ Energy!FromFlash(w, e) = l.at
             /\ DayRec(w, e) = DayRec(b, e)
    BY <1>0, <1>1, <1>5, LineImported
  <2> HIDE DEF w
  \* it fits, or the day is doubted from now on
  <2>2. e \notin s.odd => /\ u.own /\ e < u.before /\ e < c.day
                          /\ e \notin t.odd
                          /\ l.kind = "hourday" => Energy!Total(l.at) = u.was[e]
    BY <1>1, <1>3, <1>5 DEF FitsDay
  <2>3. t.odd \subseteq s.odd
    OBVIOUS
  <2>4. u.own /\ e < u.before /\ l.kind = "day" => l.wh = u.was[e]
    BY <1>0 DEF FileSays, OpenStates
  <2>5. SamplesSay(c, w, s)
    BY <1>0, <2>1 DEF SamplesSay
  <2>6. RamWritten(w)
    <3>1. ASSUME NEW d \in Energy!Dates, NEW h \in Energy!Day, d /= b.active,
                 b.ram[d][h] /= Energy!Unknown
          PROVE  Energy!FromFlash(w, d)[h] = b.ram[d][h]
      <4>1. Energy!FromFlash(b, d)[h] = b.ram[d][h]
        BY <1>0, <3>1 DEF RamWritten
      <4>2. Energy!FromFlash(b, d) /= Energy!NoHours
        BY <4>1, <3>1 DEF Energy!NoHours
      <4>3. Energy!FromFlash(w, d) = Energy!FromFlash(b, d)
        BY <4>2, <2>1, <1>1
      <4> QED BY <4>1, <4>3
    <3> QED BY <3>1, <1>0, <2>1 DEF RamWritten
  <2>7. ActiveSum(w, s)
    <3>1. c.day \notin s.odd => c.day /= e /\ c.day \notin t.odd
      BY <2>2, <2>3, <1>3
    <3> QED BY <3>1, <1>0, <2>1 DEF ActiveSum
  <2>8. FlashSum(c, w, s)
    <3>1. c.day \notin s.odd => Energy!Total(Energy!FromFlash(w, c.day)) <= c.meter
      <4>1. c.day \notin s.odd => c.day /= e /\ c.day \notin t.odd
        BY <2>2, <2>3, <1>3
      <4> QED BY <4>1, <1>0, <2>1 DEF FlashSum
    <3>2. ASSUME NEW d \in Energy!Dates, d > c.day
          PROVE  /\ DayRec(w, d) = Energy!Unknown
                 /\ d \notin s.odd => Energy!FromFlash(w, d) = Energy!NoHours
      <4>1. /\ DayRec(b, d) = Energy!Unknown
            /\ d \notin t.odd => Energy!FromFlash(b, d) = Energy!NoHours
        BY <1>0, <3>2 DEF FlashSum
      <4>2. CASE d = e
        <5>1. l.kind = "hourday"
          BY <4>2, <3>2, <1>0, <1>1, <1>3 DEF FileSays
        <5>2. e \in s.odd
          BY <4>2, <3>2, <2>2, <1>1, <1>3
        <5> QED BY <5>1, <5>2, <4>1, <4>2, <2>1
      <4>3. CASE d /= e
        BY <4>1, <4>3, <2>1, <2>3
      <4> QED BY <4>2, <4>3
    <3>3. ASSUME NEW d \in Energy!Dates \ s.odd,
                 DayRec(w, d) /= Energy!Unknown, Energy!FromFlash(w, d) /= Energy!NoHours
          PROVE  Energy!Total(Energy!FromFlash(w, d)) = DayRec(w, d)
      <4>1. CASE d = e
        <5>1. d \in 1..(u.before - 1) \ t.odd /\ u.own
          BY <4>1, <2>2, <1>1, <1>3 DEF Energy!Dates
        <5>2. /\ DayRec(b, d) /= Energy!Unknown => DayRec(b, d) = u.was[d]
              /\ Energy!FromFlash(b, d) /= Energy!NoHours => Energy!Total(Energy!FromFlash(b, d)) = u.was[d]
          BY <5>1, <1>0 DEF FileSays, OpenStates
        <5>3. CASE l.kind = "day"
          BY <5>1, <5>2, <5>3, <4>1, <3>3, <2>1, <2>2, <2>4
        <5>4. CASE l.kind = "hourday"
          BY <5>1, <5>2, <5>4, <4>1, <3>3, <2>1, <2>2
        <5> QED BY <5>3, <5>4, <1>1
      <4>2. CASE d /= e
        BY <4>2, <3>3, <2>1, <2>3, <1>0 DEF FlashSum
      <4> QED BY <4>1, <4>2
    <3> QED BY <3>1, <3>2, <3>3 DEF FlashSum
  <2>9. KeptDays(w, s)
    <3> SUFFICES ASSUME NEW d \in Energy!Dates \ s.broken, d /= w.active,
                        s.last[d] /= Energy!Unknown
                 PROVE  DayRec(w, d) = s.last[d]
      BY DEF KeptDays
    <3>1. DayRec(b, d) = t.last[d] /\ DayRec(b, d) /= Energy!Unknown
      BY <1>0, <2>1 DEF KeptDays
    <3>2. DayRec(w, d) = DayRec(b, d)
      BY <3>1, <2>1, <1>1
    <3> QED BY <3>1, <3>2
  <2>10. FileSays(c, w, s, v)
    <3>1. ASSUME u.own, NEW d \in 1..(u.before - 1) \ s.odd
          PROVE  /\ DayRec(w, d) /= Energy!Unknown => DayRec(w, d) = u.was[d]
                 /\ Energy!FromFlash(w, d) /= Energy!NoHours =>
                      Energy!Total(Energy!FromFlash(w, d)) = u.was[d]
      <4>1. /\ DayRec(b, d) /= Energy!Unknown => DayRec(b, d) = u.was[d]
            /\ Energy!FromFlash(b, d) /= Energy!NoHours => Energy!Total(Energy!FromFlash(b, d)) = u.was[d]
        BY <3>1, <2>3, <1>0 DEF FileSays, OpenStates
      <4>2. CASE d = e
        BY <4>1, <4>2, <3>1, <2>1, <2>2, <2>4, <1>1
      <4>3. CASE d /= e
        BY <4>1, <4>3, <2>1
      <4> QED BY <4>2, <4>3
    <3>2. u.is \in OpenStates /\ u.is \notin {"ready", "failed"}
      BY DEF OpenStates
    <3> QED BY <3>1, <3>2, <1>0, <1>2, <2>1 DEF FileSays
  <2>11. ValidImport(w, v)
    <3> SUFFICES ASSUME v.valid, NEW d \in 1..(u.before - 1)
                 PROVE  u.own /\ Importing(w, v, d)
      BY <1>0, <1>2 DEF ValidImport
    <3>1. u.own /\ Importing(b, u, d)
      BY <1>0, <1>2 DEF ValidImport, OpenStates
    <3>2. HasDay(v, d) <=> HasDay(u, d)
      BY <1>2 DEF HasDay
    <3>3. CASE d /= e
      <4>1. DayRec(w, d) = DayRec(b, d) /\ Energy!FromFlash(w, d) = Energy!FromFlash(b, d)
        BY <2>1, <3>3
      <4>2. \A k \in v.sent \cap v.lines :
              k.date = d => k \in u.sent \cap u.lines
        BY <1>2, <3>3
      <4> QED BY <4>1, <4>2, <3>1, <3>2, <1>2 DEF Importing
    <3>4. CASE d = e
      <4>1. e < u.before /\ u.was[e] /= Energy!Unknown
        <5>1. e < u.before
          BY <3>4, <1>3, <1>1
        <5> QED BY <5>1, <3>1, <3>4 DEF Importing
      <4>2. DayRec(b, e) /= Energy!Unknown => DayRec(w, e) = DayRec(b, e)
        BY <2>1, <1>1
      <4>3. Energy!FromFlash(b, e) /= Energy!NoHours => Energy!FromFlash(w, e) = Energy!FromFlash(b, e)
        BY <2>1, <1>1
      <4>4. DayRec(w, e) /= Energy!Unknown => DayRec(w, e) = u.was[e]
        BY <2>1, <2>4, <3>1, <3>4, <4>1, <1>1 DEF Importing
      <4>5. Energy!FromFlash(w, e) /= Energy!NoHours =>
              \/ HasDay(u, e) \/ DayRec(w, e) /= Energy!Unknown
              \/ Energy!Total(Energy!FromFlash(w, e)) = u.was[e]
        <5>1. CASE l.kind = "day"
          BY <5>1, <2>1, <4>2, <3>1, <3>4 DEF Importing
        <5>2. CASE l.kind = "hourday"
          BY <5>2, <2>1, <3>1, <3>4 DEF Importing
        <5> QED BY <5>1, <5>2, <1>1
      <4>6. ASSUME NEW k \in v.sent \cap v.lines, k.date = e
            PROVE  IF k.kind = "day" THEN DayRec(w, e) /= Energy!Unknown
                   ELSE Energy!FromFlash(w, e) /= Energy!NoHours
        <5>1. CASE k = l
          <6>1. l.kind = "day" => DayRec(w, e) /= Energy!Unknown
            BY <2>1, <1>1 DEF Energy!Unknown
          <6> QED BY <6>1, <5>1, <2>1, <1>1
        <5>2. CASE k /= l
          <6>1. IF k.kind = "day" THEN DayRec(b, e) /= Energy!Unknown
                ELSE Energy!FromFlash(b, e) /= Energy!NoHours
            BY <5>2, <4>6, <3>1, <3>4, <1>2 DEF Importing
          <6> QED BY <6>1, <4>2, <4>3
        <5> QED BY <5>1, <5>2
      <4> QED BY <4>1, <4>4, <4>5, <4>6, <3>1, <3>2, <3>4, <1>2 DEF Importing
    <3> QED BY <3>3, <3>4
  <2> QED BY <1>0, <1>2, <2>1, <2>5, <2>6, <2>7, <2>8, <2>9, <2>10, <2>11
          DEF EnergySound, v, w
<1> QED BY <1>4, <1>5

\* Everything was sent.
LEMMA SoundFinished ==
  ASSUME NEW c, NEW b, NEW t, NEW u, EnergySound(c, b, t, u), u.is = "busy",
         u.lines \subseteq u.sent, NEW v \in Uploads,
         v.is = "done", v.lines = {}, v.sent = {}, v.was = u.was,
         v.before = u.before, v.own = u.own, v.valid = u.valid
  PROVE  EnergySound(c, b, t, v)
<1>0. /\ b \in Books /\ u \in Uploads /\ FileSays(c, b, t, u) /\ ValidImport(b, u)
  BY DEF EnergySound
<1>1. FileSays(c, b, t, v)
  BY <1>0 DEF FileSays, OpenStates
<1>2. ValidImport(b, v)
  <2> SUFFICES ASSUME v.valid
               PROVE  /\ u.own
                      /\ \A d \in 1..(u.before - 1) :
                           u.was[d] =
                             IF DayRec(b, d) /= Energy!Unknown THEN DayRec(b, d)
                             ELSE IF Energy!FromFlash(b, d) /= Energy!NoHours
                             THEN Energy!Total(Energy!FromFlash(b, d)) ELSE Energy!Unknown
    <3>1. v.is \notin OpenStates
      BY DEF OpenStates
    <3> QED BY <3>1 DEF ValidImport
  <2>0. u.own
    BY <1>0 DEF ValidImport
  <2> SUFFICES ASSUME NEW d \in 1..(u.before - 1)
               PROVE  u.was[d] =
                        IF DayRec(b, d) /= Energy!Unknown THEN DayRec(b, d)
                        ELSE IF Energy!FromFlash(b, d) /= Energy!NoHours
                        THEN Energy!Total(Energy!FromFlash(b, d)) ELSE Energy!Unknown
    BY <2>0
  <2>1. Importing(b, u, d)
    BY <1>0 DEF ValidImport, OpenStates
  <2>2. \A l \in u.lines : l \in u.sent \cap u.lines
    OBVIOUS
  <2>3. CASE DayRec(b, d) /= Energy!Unknown
    BY <2>1, <2>3 DEF Importing
  <2>4. CASE DayRec(b, d) = Energy!Unknown /\ Energy!FromFlash(b, d) /= Energy!NoHours
    <3>1. ~HasDay(u, d)
      BY <2>1, <2>2, <2>4 DEF HasDay, Importing
    <3> QED BY <3>1, <2>1, <2>4 DEF Importing
  <2>5. CASE DayRec(b, d) = Energy!Unknown /\ Energy!FromFlash(b, d) = Energy!NoHours
    <3> SUFFICES ASSUME u.was[d] /= Energy!Unknown PROVE FALSE
      BY <2>1, <2>5
    <3>1. PICK l \in u.lines : l.date = d
      BY <2>1 DEF Importing
    <3> QED BY <3>1, <2>1, <2>2, <2>5 DEF Importing
  <2> QED BY <2>3, <2>4, <2>5
<1> QED BY <1>1, <1>2, SoundUpload

-----------------------------------------------------------------------------
(* Every action of the device and of an import                             *)

LEMMA SoundSwitched ==
  ASSUME NEW c, NEW b, NEW t, NEW u, EnergySound(c, b, t, u), NEW x \in BOOLEAN,
         x \/ b.active = 0 \/ b.active \in t.broken
  PROVE  EnergySound(c, [b EXCEPT !.on = x], t, u)
<1> DEFINE w == [b EXCEPT !.on = x]
<1>0. /\ c \in Clocks /\ b \in Books /\ t \in Truths /\ u \in Uploads
      /\ SamplesSay(c, b, t) /\ RamWritten(b) /\ ActiveSum(b, t)
      /\ FlashSum(c, b, t) /\ KeptDays(b, t)
      /\ FileSays(c, b, t, u) /\ ValidImport(b, u)
  BY DEF EnergySound
<1>1. /\ w \in Books /\ w.ram = b.ram /\ w.active = b.active /\ w.now = b.now
      /\ w.seen = b.seen /\ w.on = x /\ w.days = b.days /\ w.hours = b.hours
  BY <1>0 DEF Books
<1> HIDE DEF w
<1>2. \A d : DayRec(w, d) = DayRec(b, d) /\ Energy!FromFlash(w, d) = Energy!FromFlash(b, d)
  BY <1>1, SameRecords
<1>3. SamplesSay(c, w, t)
  BY <1>0, <1>1 DEF SamplesSay
<1>4. RamWritten(w)
  BY <1>0, <1>1, <1>2 DEF RamWritten
<1>5. ActiveSum(w, t)
  BY <1>0, <1>1, <1>2 DEF ActiveSum
<1>6. FlashSum(c, w, t)
  BY <1>0, <1>2 DEF FlashSum
<1>7. KeptDays(w, t)
  BY <1>0, <1>1, <1>2 DEF KeptDays
<1>8. FileSays(c, w, t, u)
  BY <1>0, <1>1, <1>2 DEF FileSays
<1>9. ValidImport(w, u)
  BY <1>0, <1>2 DEF ValidImport, Importing
<1> QED BY <1>0, <1>1, <1>3, <1>4, <1>5, <1>6, <1>7, <1>8, <1>9 DEF EnergySound, w

LEMMA WithoutToken ==
  ASSUME NEW c, NEW b, NEW t, NEW u, EnergySound(c, b, t, u)
  PROVE  EnergySound(c, b, t, [u EXCEPT !.token = FALSE])
<1> DEFINE v == [u EXCEPT !.token = FALSE]
<1>1. u \in Uploads /\ FileSays(c, b, t, u)
  BY DEF EnergySound
<1>2. /\ v \in Uploads /\ v.is = u.is /\ v.lines = u.lines /\ v.was = u.was
      /\ v.before = u.before /\ v.own = u.own /\ v.valid = u.valid
      /\ v.sent = u.sent
  BY <1>1 DEF Uploads
<1> HIDE DEF v
<1>3. v.is \in {"ready", "failed"} => v.sent = {}
  BY <1>1, <1>2 DEF FileSays
<1>4. EnergySound(c, b, t, v)
  BY <1>2, <1>3, SoundFile
<1> QED BY <1>4 DEF v

LEMMA SoundNone ==
  ASSUME NEW c, NEW b, NEW t, NEW u, EnergySound(c, b, t, u)
  PROVE  EnergySound(c, b, t, Energy!NoUpload)
<1>1. Energy!NoUpload \in Uploads
  <2>1. [ d \in Energy!Dates |-> Energy!Unknown ] \in [Energy!Dates -> KnownWh]
    BY DEF KnownWh
  <2> QED BY <2>1, PanelsAssumption DEF Energy!NoUpload, Uploads
<1>2. FileSays(c, b, t, Energy!NoUpload) /\ ValidImport(b, Energy!NoUpload)
  BY DEF FileSays, ValidImport, Energy!NoUpload
<1> QED BY <1>1, <1>2, SoundUpload

-----------------------------------------------------------------------------
EnergyNow == EnergySound(clock, book, truth, upload)

LEMMA SampleKeeps ==
  ASSUME NEW c, NEW b, NEW t, NEW u, EnergySound(c, b, t, u)
  PROVE  EnergySound(c, Energy!Sampled(b, c),
                     IF b.on THEN [t EXCEPT !.last[c.day] = c.meter] ELSE t, u)
<1>1. CASE b.on
  BY <1>1, SoundSampled
<1>2. CASE ~b.on
  BY <1>2 DEF Energy!Sampled
<1> QED BY <1>1, <1>2

LEMMA NowSample ==
  ASSUME EnergyNow, Energy!Sample PROVE EnergyNow'
BY SampleKeeps DEF EnergyNow, Energy!Sample, Energy!Seen

LEMMA NowFlush ==
  ASSUME EnergyNow, Energy!Flush PROVE EnergyNow'
<1> DEFINE b == Energy!Sampled(book, clock)
<1>1. EnergySound(clock, b, truth', upload)
  BY SampleKeeps DEF EnergyNow, Energy!Flush, Energy!Seen
<1>2. book' = IF b.on THEN Energy!Written(b) ELSE b
  BY DEF Energy!Flush
<1>3. b.on => b.active /= 0
  <2>1. book \in Books /\ clock \in Clocks /\ clock.day /= 0
    BY DEF EnergyNow, EnergySound, Clocks, Energy!Dates
  <2>2. b.on => book.on
    BY DEF Energy!Sampled
  <2>3. book.on => b.active = clock.day
    BY <2>1, BookSampled
  <2> HIDE DEF b
  <2> QED BY <2>1, <2>2, <2>3
<1> HIDE DEF b
<1>4. EnergySound(clock, book', truth', upload)
  BY <1>1, <1>2, <1>3, SoundWritten
<1> QED BY <1>4 DEF EnergyNow, Energy!Flush

LEMMA NowUse ==
  ASSUME EnergyNow, Energy!Use PROVE EnergyNow'
<1>1. clock \in Clocks /\ SamplesSay(clock, book, truth)
      /\ FlashSum(clock, book, truth) /\ book \in Books
  BY DEF EnergyNow, EnergySound
<1>2. /\ clock' \in Clocks /\ clock'.day = clock.day
      /\ clock'.meter = clock.meter + 1 /\ clock.day \in Int
  BY <1>1 DEF Energy!Use, Clocks, Energy!Dates
<1>3. /\ book.now \in Nat /\ clock.meter \in Nat
      /\ Energy!Total(Energy!FromFlash(book, clock.day)) \in Nat
  BY <1>1, FlashType, TotalNat DEF Clocks, Books
<1>4. book.active = clock'.day => book.now <= clock'.meter
  BY <1>1, <1>2, <1>3 DEF SamplesSay
<1>5. clock'.day \notin truth.odd =>
        Energy!Total(Energy!FromFlash(book, clock'.day)) <= clock'.meter
  BY <1>1, <1>2, <1>3 DEF FlashSum
<1>6. EnergySound(clock', book, truth, upload)
  BY <1>2, <1>4, <1>5, SoundClock DEF EnergyNow
<1> QED BY <1>6 DEF EnergyNow, Energy!Use

LEMMA NowPass ==
  ASSUME EnergyNow, Energy!Pass PROVE EnergyNow'
<1>1. clock \in Clocks /\ SamplesSay(clock, book, truth)
      /\ FlashSum(clock, book, truth) /\ book \in Books
  BY DEF EnergyNow, EnergySound
<1>2. clock.day \in Int /\ clock.day \in 1..LastDay /\ clock.hour \in 0..(Hours - 1)
      /\ clock.meter \in Nat /\ book.active \in Int
  BY <1>1 DEF Clocks, Energy!Dates, Books, Energy!Day
<1>3. CASE clock.hour < Hours - 1
  <2>1. /\ clock' \in Clocks /\ clock'.day = clock.day
        /\ clock'.meter = clock.meter
    <3>1. clock' = [clock EXCEPT !.hour = @ + 1] /\ clock.hour + 1 \in Energy!Day
      BY <1>2, <1>3, PanelsAssumption DEF Energy!Pass, Energy!Day
    <3> QED BY <3>1, <1>1 DEF Clocks
  <2>2. EnergySound(clock', book, truth, upload)
    BY <1>1, <1>2, <2>1, SoundClock DEF EnergyNow, SamplesSay, FlashSum
  <2> QED BY <2>2 DEF EnergyNow, Energy!Pass
<1>4. CASE ~(clock.hour < Hours - 1)
  <2>1. clock' = [day |-> clock.day + 1, hour |-> 0, meter |-> 0]
        /\ clock.day < LastDay
    BY <1>4 DEF Energy!Pass
  <2>2. clock.day + 1 \in Energy!Dates /\ 0 \in Energy!Day /\ clock.day + 1 > clock.day
    BY <1>2, <2>1, PanelsAssumption DEF Energy!Dates, Energy!Day
  <2>3. clock' \in Clocks /\ clock'.day = clock.day + 1 /\ clock'.meter = 0
    BY <2>1, <2>2 DEF Clocks
  <2>4. book.active /= clock'.day
    BY <1>1, <1>2, <2>3 DEF SamplesSay
  <2>5. clock'.day \notin truth.odd =>
          Energy!Total(Energy!FromFlash(book, clock'.day)) <= clock'.meter
    BY <1>1, <2>2, <2>3, TotalOfNone DEF FlashSum
  <2>6. EnergySound(clock', book, truth, upload)
    BY <1>2, <2>3, <2>4, <2>5, SoundClock DEF EnergyNow
  <2> QED BY <2>6 DEF EnergyNow, Energy!Pass
<1> QED BY <1>3, <1>4

LEMMA NowRestart ==
  ASSUME EnergyNow, Energy!Restart PROVE EnergyNow'
<1> DEFINE b == IF book.on THEN Energy!Written(book) ELSE book
<1>0. book \in Books /\ SamplesSay(clock, book, truth)
  BY DEF EnergyNow, EnergySound
<1>1. /\ EnergySound(clock, b, truth, upload)
      /\ \/ b.active = 0 \/ b.active \in truth.broken
         \/ DayRec(b, b.active) = truth.last[b.active]
  <2>1. CASE book.active = 0
    <3>1. b = book
      BY <2>1 DEF Energy!Written
    <3> QED BY <3>1, <2>1 DEF EnergyNow
  <2>2. CASE book.active /= 0 /\ book.on
    <3>1. EnergySound(clock, b, truth, upload)
      BY <2>2, SoundWritten DEF EnergyNow
    <3>2. /\ b.active = book.active
          /\ DayRec(b, book.active) = book.now
      BY <1>0, <2>2, BookWritten
    <3> HIDE DEF b
    <3> QED BY <3>1, <3>2, <2>2, <1>0 DEF SamplesSay
  <2>3. CASE book.active /= 0 /\ ~book.on
    BY <2>3, <1>0 DEF EnergyNow, SamplesSay
  <2> QED BY <2>1, <2>2, <2>3
<1>2. book' = Energy!NoSamples(b) /\ upload' = [upload EXCEPT !.token = FALSE]
      /\ UNCHANGED <<clock, truth>>
  BY DEF Energy!Restart
<1> HIDE DEF b
<1>3. EnergySound(clock, book', truth, upload)
  BY <1>1, <1>2, SoundRebooted
<1>4. EnergySound(clock, book', truth, upload')
  BY <1>2, <1>3, WithoutToken
<1> QED BY <1>2, <1>4 DEF EnergyNow

LEMMA NowPowerCut ==
  ASSUME EnergyNow, Energy!PowerCut PROVE EnergyNow'
<1>0. clock \in Clocks /\ book \in Books /\ truth \in Truths
  BY DEF EnergyNow, EnergySound
<1>1. clock.day \in Energy!Dates /\ clock.meter \in Nat /\ clock.day \in Int
      /\ book.active \in Int
  BY <1>0 DEF Clocks, Energy!Dates, Books
<1>2. PICK kept \in 0..clock.meter :
        /\ clock' = [clock EXCEPT !.meter = kept]
        /\ truth' = [truth EXCEPT !.broken = @ \cup {clock.day, book.active},
                       !.odd = IF kept < Energy!Total(Energy!FromFlash(book, clock.day))
                               THEN @ \cup {clock.day} ELSE @]
  BY DEF Energy!PowerCut
<1> DEFINE B == {clock.day, book.active}
           O == IF kept < Energy!Total(Energy!FromFlash(book, clock.day)) THEN {clock.day}
                ELSE {}
<1>3. truth' = [truth EXCEPT !.broken = truth.broken \cup B,
                             !.odd = truth.odd \cup O]
  BY <1>2
<1>4. B \in SUBSET Int /\ O \in SUBSET Int
  BY <1>1
<1>5. book.active \in B
      /\ (clock.day \notin O => ~(kept < Energy!Total(Energy!FromFlash(book, clock.day))))
  OBVIOUS
<1> HIDE DEF B, O
<1>14. /\ truth' \in Truths /\ truth'.last = truth.last
       /\ truth'.broken = truth.broken \cup B /\ truth'.odd = truth.odd \cup O
  BY <1>0, <1>3, <1>4 DEF Truths
<1>6. EnergySound(clock, book, truth', upload)
  BY <1>14, SoundDoubted DEF EnergyNow
<1>7. EnergySound(clock, Energy!NoSamples(book), truth', upload)
  BY <1>5, <1>6, <1>14, SoundRebooted
<1>8. /\ clock' \in Clocks /\ clock'.day = clock.day /\ clock'.meter = kept
      /\ kept \in Nat
  BY <1>0, <1>1, <1>2 DEF Clocks
<1>9. /\ Energy!NoSamples(book).active = 0
      /\ Energy!FromFlash(Energy!NoSamples(book), clock.day) = Energy!FromFlash(book, clock.day)
      /\ Energy!Total(Energy!FromFlash(book, clock.day)) \in Nat
  BY <1>0, WithoutSamples, FlashType, TotalNat
<1>10. clock'.day \notin truth'.odd =>
         Energy!Total(Energy!FromFlash(Energy!NoSamples(book), clock'.day)) <= clock'.meter
  BY <1>5, <1>14, <1>8, <1>9
<1>11. Energy!NoSamples(book).active /= clock'.day
  BY <1>1, <1>8, <1>9 DEF Energy!Dates
<1>12. EnergySound(clock', Energy!NoSamples(book), truth', upload)
  BY <1>1, <1>7, <1>8, <1>10, <1>11, SoundClock
<1>13. EnergySound(clock', book', truth', upload')
  BY <1>12, WithoutToken DEF Energy!PowerCut
<1> QED BY <1>13 DEF EnergyNow

LEMMA NowToggle ==
  ASSUME EnergyNow, Energy!Toggle PROVE EnergyNow'
<1> DEFINE b == [book EXCEPT !.on = ~@]
<1>0. book \in Books /\ book.active \in Int /\ truth \in Truths
  BY DEF EnergyNow, EnergySound, Books
<1>1. /\ book' = Energy!Sampled(b, clock) /\ UNCHANGED <<clock, upload>>
      /\ truth' = IF b.on THEN [truth EXCEPT !.last[clock.day] = clock.meter]
                  ELSE [truth EXCEPT !.broken = @ \cup {book.active}]
  BY DEF Energy!Toggle
<1> DEFINE x == ~book.on
<1>2. b = [book EXCEPT !.on = x] /\ x \in BOOLEAN /\ (x <=> ~book.on)
  OBVIOUS
<1> HIDE DEF b, x
<1>5. b.on = x
  BY <1>0, <1>2 DEF Books
<1>3. CASE b.on
  <2>1. EnergySound(clock, b, truth, upload)
    BY <1>2, <1>3, <1>5, SoundSwitched DEF EnergyNow
  <2>2. EnergySound(clock, book', truth', upload)
    BY <1>1, <1>3, <2>1, SoundSampled
  <2> QED BY <2>2, <1>1 DEF EnergyNow
<1>4. CASE ~b.on
  <2> DEFINE B == {book.active}
  <2>1. truth' = [truth EXCEPT !.broken = truth.broken \cup B]
    BY <1>1, <1>4
  <2>2. B \in SUBSET Int /\ book.active \in B
    BY <1>0
  <2> HIDE DEF B
  <2>6. /\ truth' \in Truths /\ truth'.last = truth.last
        /\ truth'.broken = truth.broken \cup B /\ truth'.odd = truth.odd
    BY <1>0, <2>1, <2>2 DEF Truths
  <2>3. EnergySound(clock, book, truth', upload)
    BY <2>6, SoundDoubted DEF EnergyNow
  <2>4. EnergySound(clock, b, truth', upload)
    BY <1>2, <1>5, <1>4, <2>2, <2>3, <2>6, SoundSwitched
  <2>5. book' = b
    BY <1>1, <1>4 DEF Energy!Sampled
  <2> QED BY <2>4, <2>5, <1>1 DEF EnergyNow
<1> QED BY <1>3, <1>4

LEMMA NowClear ==
  ASSUME EnergyNow, Energy!Clear, upload.is \in OpenStates PROVE EnergyNow'
<1>1. upload \in Uploads
  BY DEF EnergyNow, EnergySound
<1>2. /\ upload' \in Uploads
      /\ upload'.is = upload.is /\ upload'.lines = upload.lines
      /\ upload'.was = upload.was /\ upload'.before = upload.before
      /\ upload'.own = upload.own /\ upload'.sent = upload.sent
      /\ upload'.valid => upload.valid /\ upload.is \in {"ready", "failed"}
  <2> DEFINE x == upload.valid /\ upload.is \in {"ready", "failed"}
  <2>1. x \in BOOLEAN
    BY <1>1 DEF Uploads
  <2>2. upload' = [upload EXCEPT !.valid = x]
    BY DEF Energy!Clear
  <2>3. x => upload.valid /\ upload.is \in {"ready", "failed"}
    OBVIOUS
  <2> HIDE DEF x
  <2>4. /\ upload' \in Uploads
        /\ upload'.is = upload.is /\ upload'.lines = upload.lines
        /\ upload'.was = upload.was /\ upload'.before = upload.before
        /\ upload'.own = upload.own /\ upload'.sent = upload.sent
        /\ upload'.valid = x
    BY <1>1, <2>1, <2>2 DEF Uploads
  <2> QED BY <2>3, <2>4
<1>3. EnergySound(clock, book', truth', upload')
  BY <1>2, SoundCleared DEF EnergyNow, Energy!Clear
<1> QED BY <1>3 DEF EnergyNow, Energy!Clear

LEMMA WhenSettled ==
  ASSUME EnergyNow, Energy!Settled PROVE book.active = clock.day
<1>1. /\ clock.day \in Energy!Dates /\ book.seen.day = clock.day
      /\ SamplesSay(clock, book, truth)
  BY DEF EnergyNow, EnergySound, Clocks, Energy!Settled
<1>2. book.active /= 0
  BY <1>1 DEF SamplesSay, Energy!Dates
<1>3. book.seen = [day |-> book.active, wh |-> book.now]
  BY <1>1, <1>2 DEF SamplesSay
<1> QED BY <1>1, <1>3

LEMMA NowChoose ==
  ASSUME EnergyNow, Energy!Choose, Energy!Settled PROVE EnergyNow'
<1>0. /\ clock \in Clocks /\ book \in Books /\ clock.day \in Energy!Dates
      /\ clock.day \in 0..LastDay /\ 1 \in Energy!Dates /\ LastDay \in Energy!Dates
      /\ clock.day >= 1
  BY PanelsAssumption DEF EnergyNow, EnergySound, Clocks, Energy!Dates
<1>n. /\ Energy!NoUpload \in Uploads /\ Energy!NoUpload.lines = {} /\ ~Energy!NoUpload.own
      /\ ~Energy!NoUpload.valid /\ Energy!NoUpload.sent = {}
  BY SoundNone DEF EnergyNow, EnergySound, Energy!NoUpload
<1>1. ASSUME NEW mode,
             upload' = [Energy!NoUpload EXCEPT !.is = "ready",
                          !.lines = Energy!Exported(book, mode),
                          !.was = Energy!Records(book, Energy!Whole),
                          !.before = clock.day, !.own = TRUE,
                          !.valid = \/ mode = "days_and_hours"
                                    \/ mode = "days" /\ Energy!NoHoursOnly]
      PROVE  EnergySound(clock, book, truth, upload')
  <2> DEFINE x == \/ mode = "days_and_hours"
                  \/ mode = "days" /\ Energy!NoHoursOnly
             lines == Energy!Exported(book, mode)
             was == Energy!Records(book, Energy!Whole)
  <2>1. /\ x \in BOOLEAN /\ lines \in SUBSET FileLines /\ was \in [Energy!Dates -> KnownWh]
    BY <1>0, ExportedLines, WholeRecords
  <2>2. upload' = [Energy!NoUpload EXCEPT !.is = "ready", !.lines = lines, !.was = was,
                     !.before = clock.day, !.own = TRUE, !.valid = x]
    BY <1>1
  <2>3. x => \/ mode = "days_and_hours"
             \/ /\ mode = "days"
                /\ Energy!Records(book, Energy!Whole)
                     = Energy!Records(book, [Energy!Whole EXCEPT !.hours = FALSE])
    BY DEF Energy!NoHoursOnly
  <2> HIDE DEF x, lines, was
  <2>4. /\ upload' \in Uploads /\ upload'.is = "ready" /\ upload'.lines = lines
        /\ upload'.was = was /\ upload'.before = clock.day /\ upload'.own
        /\ upload'.valid = x /\ upload'.sent = {}
    BY <1>0, <1>n, <2>1, <2>2 DEF Uploads, OpenStates
  <2>5. book.active = clock.day
    BY WhenSettled
  <2> QED BY <2>3, <2>4, <2>5, SoundChosen DEF EnergyNow, lines, was
<1>2. ASSUME NEW l \in FileLines, l.kind = "day" => l.date = 1,
             upload' = [Energy!NoUpload EXCEPT !.is = "ready", !.lines = {l}]
      PROVE  EnergySound(clock, book, truth, upload')
  <2> DEFINE lines == {l}
  <2>1. lines \in SUBSET FileLines
    OBVIOUS
  <2>2. upload' = [Energy!NoUpload EXCEPT !.is = "ready", !.lines = lines]
    BY <1>2
  <2> HIDE DEF lines
  <2>3. /\ upload' \in Uploads /\ upload'.lines = lines /\ ~upload'.own
        /\ ~upload'.valid /\ upload'.sent = {}
    BY <1>n, <2>1, <2>2 DEF Uploads, OpenStates
  <2>4. FileSays(clock, book, truth, upload')
    BY <1>0, <1>2, <2>3 DEF FileSays, lines
  <2>5. ValidImport(book, upload')
    BY <2>3 DEF ValidImport
  <2> QED BY <2>3, <2>4, <2>5, SoundUpload DEF EnergyNow
<1>3. ASSUME NEW l \in {Energy!DayLine(1, MaxUse + 1),
                        Energy!HourLine(LastDay, [Energy!NoHours EXCEPT ![0] = 1])}
      PROVE  l \in FileLines /\ (l.kind = "day" => l.date = 1)
  <2> DEFINE at == [Energy!NoHours EXCEPT ![0] = 1]
  <2>1. at \in HourMaps /\ at /= Energy!NoHours
    <3>1. 0 \in Energy!Day
      BY PanelsAssumption DEF Energy!Day
    <3>2. at[0] = 1 /\ Energy!NoHours[0] = Energy!Unknown
      BY <3>1 DEF Energy!NoHours
    <3>3. at \in HourMaps
      BY NoHoursType DEF HourMaps, KnownWh
    <3> HIDE DEF at
    <3> QED BY <3>2, <3>3 DEF Energy!Unknown
  <2> HIDE DEF at
  <2>2. MaxUse + 1 \in Nat
    BY PanelsAssumption
  <2>3. Energy!DayLine(1, MaxUse + 1) \in FileLines /\ Energy!DayLine(1, MaxUse + 1).date = 1
    BY <1>0, <2>2, LineIs
  <2>4. Energy!HourLine(LastDay, at) \in FileLines /\ Energy!HourLine(LastDay, at).kind = "hourday"
    BY <1>0, <2>1, LineIs
  <2>5. l = Energy!DayLine(1, MaxUse + 1) \/ l = Energy!HourLine(LastDay, at)
    BY DEF at
  <2> QED BY <2>3, <2>4, <2>5
<1>4. EnergySound(clock, book, truth, upload')
  <2>1. CASE \E mode \in {"days", "hours", "days_and_hours"} :
               LET lines == Energy!Exported(book, mode)
               IN  /\ lines /= {}
                   /\ upload' = [Energy!NoUpload EXCEPT !.is = "ready", !.lines = lines,
                                   !.was = Energy!Records(book, Energy!Whole),
                                   !.before = clock.day, !.own = TRUE,
                                   !.valid = \/ mode = "days_and_hours"
                                             \/ mode = "days" /\ Energy!NoHoursOnly]
    BY <2>1, <1>1
  <2>2. CASE \E line \in {Energy!DayLine(1, MaxUse + 1),
                            Energy!HourLine(LastDay, [Energy!NoHours EXCEPT ![0] = 1])} :
               upload' = [Energy!NoUpload EXCEPT !.is = "ready", !.lines = {line}]
    BY <2>2, <1>2, <1>3
  <2> QED BY <2>1, <2>2 DEF Energy!Choose
<1> QED BY <1>4 DEF EnergyNow, Energy!Choose

LEMMA NowBegin ==
  ASSUME EnergyNow, Energy!Begin PROVE EnergyNow'
<1>1. upload \in Uploads
  BY DEF EnergyNow, EnergySound
<1> DEFINE x == upload.valid /\ (upload.is = "failed" \/ book.days = <<>>)
<1>2. x \in BOOLEAN /\ (x => upload.valid)
  BY <1>1 DEF Uploads
<1>3. upload' = [upload EXCEPT !.is = "busy", !.token = TRUE, !.valid = x]
  BY DEF Energy!Begin
<1> HIDE DEF x
<1>4. /\ upload' \in Uploads /\ upload'.is = "busy"
      /\ upload'.lines = upload.lines /\ upload'.was = upload.was
      /\ upload'.before = upload.before /\ upload'.own = upload.own
      /\ upload'.sent = upload.sent /\ upload'.valid = x
  BY <1>1, <1>2, <1>3 DEF Uploads, OpenStates
<1>5. upload.is \in OpenStates
  BY DEF Energy!Begin, OpenStates
<1>6. EnergySound(clock, book, truth, upload')
  BY <1>2, <1>4, <1>5, SoundFile DEF EnergyNow
<1> QED BY <1>6 DEF EnergyNow, Energy!Begin

LEMMA SoundFailed ==
  ASSUME NEW c, NEW b, NEW t, NEW u, EnergySound(c, b, t, u), u.is = "busy"
  PROVE  EnergySound(c, b, t, [u EXCEPT !.is = "failed", !.sent = {}, !.token = FALSE])
<1> DEFINE v == [u EXCEPT !.is = "failed", !.sent = {}, !.token = FALSE]
<1>1. u \in Uploads
  BY DEF EnergySound
<1>2. /\ v \in Uploads /\ v.is = "failed" /\ v.lines = u.lines /\ v.was = u.was
      /\ v.before = u.before /\ v.own = u.own /\ v.valid = u.valid
      /\ v.sent = {}
  BY <1>1 DEF Uploads, OpenStates
<1> HIDE DEF v
<1>3. u.is \in OpenStates
  BY DEF OpenStates
<1>4. EnergySound(c, b, t, v)
  BY <1>2, <1>3, SoundFile
<1> QED BY <1>4 DEF v

LEMMA NowPost ==
  ASSUME EnergyNow, Energy!Post, Energy!Settled PROVE EnergyNow'
<1>0. /\ upload \in Uploads /\ truth \in Truths /\ book \in Books
      /\ FileSays(clock, book, truth, upload)
  BY DEF EnergyNow, EnergySound
<1>1. upload.is = "busy" /\ Energy!Left /= {} /\ UNCHANGED clock
  BY DEF Energy!Post
<1> DEFINE line == CHOOSE l \in Energy!Left : \A m \in Energy!Left \ {l} : Energy!Earlier(l, m)
<1>2. line \in Energy!Left
  <2>1. Energy!Left \in SUBSET FileLines
    BY <1>0 DEF Energy!Left, Uploads
  <2>2. \A l, m \in Energy!Left : l.kind = m.kind /\ l.date = m.date => l = m
    BY <1>0 DEF Energy!Left, FileSays
  <2>3. \E l \in Energy!Left : \A m \in Energy!Left \ {l} : Energy!Earlier(l, m)
    BY <1>1, <2>1, <2>2, FirstLeft
  <2> QED BY <2>3
<1>3. PICK answered \in BOOLEAN :
        IF ~upload.token
        THEN /\ upload' = Energy!Failed
             /\ UNCHANGED <<book, truth>>
        ELSE /\ book' = Energy!Imported(book, line)
             /\ truth' = IF Energy!Present(book, line) \/ Energy!Matches(line) THEN truth
                         ELSE [truth EXCEPT !.odd = @ \cup {line.date}]
             /\ upload' = IF ~answered THEN Energy!Failed
                          ELSE [upload EXCEPT !.sent = @ \cup {line}]
  BY DEF Energy!Post
<1> HIDE DEF line
<1>4. CASE ~upload.token
  <2>1. EnergySound(clock, book, truth, Energy!Failed)
    <3>1. EnergySound(clock, book, truth,
                      [upload EXCEPT !.is = "failed", !.sent = {}, !.token = FALSE])
      BY <1>1, SoundFailed DEF EnergyNow
    <3> QED BY <3>1 DEF Energy!Failed
  <2>2. upload' = Energy!Failed /\ UNCHANGED <<book, truth>>
    BY <1>3, <1>4
  <2> QED BY <2>1, <2>2, <1>1 DEF EnergyNow
<1>5. CASE upload.token
  <2> DEFINE v == [upload EXCEPT !.sent = @ \cup {line}]
  <2>1. line \in upload.lines /\ line \in FileLines /\ line.date \in Int
    BY <1>0, <1>2, LineFields DEF Energy!Left, Uploads, Energy!Dates
  <2>2. Energy!Matches(line) <=> FitsDay(upload, line)
    BY DEF Energy!Matches, FitsDay
  <2>3. /\ truth' \in Truths /\ truth'.last = truth.last
        /\ truth'.broken = truth.broken
        /\ truth'.odd = IF Energy!Present(book, line) \/ FitsDay(upload, line) THEN truth.odd
                        ELSE truth.odd \cup {line.date}
    <3>1. CASE Energy!Present(book, line) \/ Energy!Matches(line)
      BY <3>1, <1>0, <1>3, <1>5, <2>2
    <3>2. CASE ~(Energy!Present(book, line) \/ Energy!Matches(line))
      <4>1. truth' = [truth EXCEPT !.odd = @ \cup {line.date}]
        BY <3>2, <1>3, <1>5
      <4> QED BY <4>1, <3>2, <1>0, <2>1, <2>2 DEF Truths
    <3> QED BY <3>1, <3>2
  <2>4. book.active = clock.day
    BY WhenSettled
  <2>5. EnergySound(clock, book', truth', v)
    <3>1. EnergySound(clock, Energy!Imported(book, line), truth', v)
      BY <1>1, <2>1, <2>3, <2>4, SoundPosted DEF EnergyNow
    <3> QED BY <3>1, <1>3, <1>5
  <2>6. CASE answered
    BY <2>5, <2>6, <1>1, <1>3, <1>5 DEF EnergyNow
  <2>7. CASE ~answered
    <3>1. /\ v \in Uploads /\ v.is = "busy" /\ v.lines = upload.lines
          /\ v.was = upload.was /\ v.before = upload.before
          /\ v.own = upload.own /\ v.valid = upload.valid
      BY <1>0, <1>1, <2>1, SentType
    <3>2. /\ upload' \in Uploads /\ upload'.is = "failed"
          /\ upload'.lines = upload.lines /\ upload'.was = upload.was
          /\ upload'.before = upload.before /\ upload'.own = upload.own
          /\ upload'.valid = upload.valid /\ upload'.sent = {}
      <4>1. upload' = Energy!Failed
        BY <1>3, <1>5, <2>7
      <4> QED BY <4>1, <1>0 DEF Energy!Failed, Uploads, OpenStates
    <3> HIDE DEF v
    <3>3. v.is \in OpenStates
      BY <3>1 DEF OpenStates
    <3>4. EnergySound(clock, book', truth', upload')
      BY <2>5, <3>1, <3>2, <3>3, SoundFile
    <3> QED BY <3>4, <1>1 DEF EnergyNow
  <2> QED BY <2>6, <2>7
<1> QED BY <1>4, <1>5

LEMMA NowFinish ==
  ASSUME EnergyNow, Energy!Finish PROVE EnergyNow'
<1>0. upload \in Uploads
  BY DEF EnergyNow, EnergySound
<1>1. /\ upload.is = "busy" /\ upload.lines \subseteq upload.sent
      /\ UNCHANGED <<clock, book, truth>>
  BY DEF Energy!Finish, Energy!Left
<1>2. CASE ~upload.valid
  <2>1. upload' = Energy!NoUpload
    BY <1>2 DEF Energy!Finish
  <2> QED BY <2>1, <1>1, SoundNone DEF EnergyNow
<1>3. CASE upload.valid
  <2>1. upload' = [upload EXCEPT !.is = "done", !.lines = {}, !.sent = {}]
    BY <1>3 DEF Energy!Finish
  <2>2. /\ upload' \in Uploads /\ upload'.is = "done" /\ upload'.lines = {}
        /\ upload'.sent = {} /\ upload'.was = upload.was
        /\ upload'.before = upload.before /\ upload'.own = upload.own
        /\ upload'.valid = upload.valid
    BY <1>0, <2>1 DEF Uploads, OpenStates
  <2>3. EnergySound(clock, book, truth, upload')
    BY <1>1, <2>2, SoundFinished DEF EnergyNow
  <2> QED BY <2>3, <1>1 DEF EnergyNow
<1> QED BY <1>2, <1>3

LEMMA NowInit == Energy!Init => EnergyNow
<1> SUFFICES ASSUME Energy!Init PROVE EnergyNow
  OBVIOUS
<1>1. clock \in Clocks /\ clock.day = 1 /\ clock.meter = 0
  BY PanelsAssumption DEF Energy!Init, Clocks, Energy!Dates, Energy!Day
<1> DEFINE ram == [ d \in Energy!Dates |-> Energy!NoHours ]
           seen == [day |-> 0, wh |-> 0]
           last == [ d \in Energy!Dates |-> Energy!Unknown ]
<1>2. ram \in [Energy!Dates -> HourMaps] /\ seen \in [day : 0..LastDay, wh : Nat]
      /\ last \in [Energy!Dates -> KnownWh] /\ seen.day = 0
      /\ \A d \in Energy!Dates : last[d] = Energy!Unknown /\ ram[d] = Energy!NoHours
  BY NoHoursType, PanelsAssumption DEF KnownWh
<1>3. /\ book.days = <<>> /\ book.hours = <<>> /\ book.ram = ram
      /\ book.active = 0 /\ book.now = 0 /\ book.seen = seen /\ book.on = TRUE
      /\ book = [ days |-> <<>>, hours |-> <<>>, ram |-> ram, active |-> 0,
                  now |-> 0, seen |-> seen, on |-> TRUE ]
  BY DEF Energy!Init, Energy!NoSamples
<1>4. truth = [last |-> last, broken |-> {}, odd |-> {}] /\ upload = Energy!NoUpload
  BY DEF Energy!Init
<1> HIDE DEF ram, seen, last
<1>5. book \in Books
  <2>1. <<>> \in Seq(DayRecs) /\ <<>> \in Seq(HourRecs)
    OBVIOUS
  <2> QED BY <1>2, <1>3, <2>1, PanelsAssumption DEF Books
<1>6. truth \in Truths /\ truth.last = last /\ truth.broken = {} /\ truth.odd = {}
  BY <1>2, <1>4 DEF Truths
<1>7. \A d : DayRec(book, d) = Energy!Unknown /\ Energy!FromFlash(book, d) = Energy!NoHours
  BY <1>3, EmptyBook
<1>8. SamplesSay(clock, book, truth)
  BY <1>1, <1>2, <1>3 DEF SamplesSay
<1>9. RamWritten(book)
  BY <1>2, <1>3 DEF RamWritten, Energy!NoHours
<1>10. ActiveSum(book, truth)
  BY <1>3 DEF ActiveSum
<1>11. FlashSum(clock, book, truth)
  BY <1>1, <1>7, TotalOfNone DEF FlashSum
<1>12. KeptDays(book, truth)
  BY <1>2, <1>6 DEF KeptDays
<1>13. upload \in Uploads
  <2>1. [ d \in Energy!Dates |-> Energy!Unknown ] \in [Energy!Dates -> KnownWh]
    BY DEF KnownWh
  <2> QED BY <1>4, <2>1, PanelsAssumption DEF Energy!NoUpload, Uploads
<1>14. FileSays(clock, book, truth, upload) /\ ValidImport(book, upload)
  BY <1>4 DEF FileSays, ValidImport, Energy!NoUpload
<1> QED BY <1>1, <1>5, <1>6, <1>8, <1>9, <1>10, <1>11, <1>12, <1>13, <1>14
        DEF EnergyNow, EnergySound

LEMMA NowNext ==
  ASSUME EnergyNow, Energy!Next PROVE EnergyNow'
<1>1. CASE focus /= "page" /\ Energy!BookStep
  <2>1. CASE Energy!Sample
    BY <2>1, NowSample
  <2>2. CASE focus = "samples"
               /\ \/ Energy!Use \/ Energy!Pass \/ Energy!Restart
                   \/ Energy!Flush \/ Energy!PowerCut \/ Energy!Toggle
    BY <2>2, NowUse, NowPass, NowRestart, NowFlush, NowPowerCut, NowToggle
  <2>3. CASE /\ focus = "import" /\ Energy!Settled
             /\ \/ clock.day < LastDay /\ Energy!Use
                \/ Energy!Pass \/ Energy!Begin \/ Energy!Post \/ Energy!Finish
                \/ clock.day = LastDay /\ Energy!Choose
                \/ upload.is \in {"ready", "busy", "failed"} /\ Energy!Clear
                \/ upload.is = "busy" /\ Energy!Restart
    BY <2>3, NowUse, NowPass, NowBegin, NowPost, NowFinish, NowChoose, NowClear,
       NowRestart DEF OpenStates
  <2> QED BY <1>1, <2>1, <2>2, <2>3 DEF Energy!BookStep
<1>2. CASE Energy!PageStep
  <2>1. UNCHANGED <<clock, book, truth, upload>>
    BY <1>2 DEF Energy!PageStep, Energy!RefreshMeta, Energy!RefreshEnergy,
                Energy!Select, Energy!ClearAll, Energy!Answer, Energy!Arrive, Energy!Expire, Energy!Keep
  <2> QED BY <2>1 DEF EnergyNow
<1> QED BY <1>1, <1>2 DEF Energy!Next

-----------------------------------------------------------------------------
(* What follows for the days that are shown                                *)

LEMMA Ranges ==
  ASSUME NEW p
  PROVE  /\ Energy!Range("day", p) = Energy!Asked(p, p, TRUE)
         /\ Energy!Range("week", p) = Energy!Asked(p, p + Energy!Week - 1, FALSE)
         /\ Energy!Range("all", p) = Energy!Asked(1, LastDay, FALSE)
BY DEF Energy!Range

\* A day with a total of its own shows it.
LEMMA RecordShown ==
  ASSUME NEW b, NEW q, NEW d \in Energy!Dates, d \in q.from..q.to,
         Energy!DayTotal(b, d) /= Energy!Unknown
  PROVE  Energy!Records(b, q)[d] = Energy!DayTotal(b, d)
BY DEF Energy!Records

LEMMA DayShown ==
  ASSUME NEW b, NEW d \in Energy!Dates, Energy!DayTotal(b, d) /= Energy!Unknown
  PROVE  Energy!Summary(b, "day", d) = Energy!DayTotal(b, d)
<1>1. Energy!Range("day", d) = Energy!Asked(d, d, TRUE)
  BY Ranges
<1>2. Energy!Asked(d, d, TRUE).from = d /\ Energy!Asked(d, d, TRUE).to = d /\ d \in d..d
  BY DEF Energy!Asked, Energy!Dates
<1>3. Energy!Records(b, Energy!Range("day", d))[d] = Energy!DayTotal(b, d)
  BY <1>1, <1>2, RecordShown
<1> QED BY <1>3 DEF Energy!Summary

LEMMA TotalKept ==
  ASSUME NEW c, NEW b, NEW t, NEW u, EnergySound(c, b, t, u),
         NEW d \in Energy!Dates \ t.broken, t.last[d] /= Energy!Unknown
  PROVE  Energy!DayTotal(b, d) = t.last[d]
<1>0. b \in Books /\ KeptDays(b, t) /\ SamplesSay(c, b, t)
  BY DEF EnergySound
<1>1. Energy!DayTotal(b, d) = IF b.active = d THEN b.now ELSE DayRec(b, d)
  BY <1>0, ShownType
<1>2. CASE b.active = d
  BY <1>0, <1>1, <1>2 DEF SamplesSay, Energy!Dates
<1>3. CASE b.active /= d
  BY <1>0, <1>1, <1>3 DEF KeptDays
<1> QED BY <1>2, <1>3

LEMMA WeekOf ==
  ASSUME NEW d \in Nat \ {0}
  PROVE  \E k \in Nat : /\ Energy!Start("week", d) = 2 * k + 1
                        /\ d = 2 * k + 1 \/ d = 2 * k + 2
<1>1. Energy!Start("week", d) = d - ((d - 1) % 2)
  BY DEF Energy!Start, Energy!Week
<1>2. PICK k \in Nat : d - 1 = 2 * k + ((d - 1) % 2)
  <2>1. (d - 1) \div 2 \in Nat /\ d - 1 = 2 * ((d - 1) \div 2) + ((d - 1) % 2)
    OBVIOUS
  <2> QED BY <2>1
<1>3. (d - 1) % 2 \in 0..1
  OBVIOUS
<1> QED BY <1>1, <1>2, <1>3

LEMMA DaysTrue == EnergyNow => Energy!DaysAreTrue
<1> SUFFICES ASSUME EnergyNow PROVE Energy!DaysAreTrue
  OBVIOUS
<1> DEFINE true == { d \in 1..(clock.day - 1) \ truth.broken :
                       truth.last[d] /= Energy!Unknown }
<1>0. /\ clock \in Clocks /\ book \in Books /\ truth \in Truths
      /\ FlashSum(clock, book, truth)
  BY DEF EnergyNow, EnergySound
<1>1. clock.day \in Int /\ 1 <= clock.day /\ clock.day <= LastDay
      /\ LastDay \in Int
  BY <1>0, PanelsAssumption DEF Clocks, Energy!Dates
<1>2. ASSUME NEW d \in true
      PROVE  d \in Energy!Dates /\ Energy!DayTotal(book, d) = truth.last[d]
             /\ Energy!DayTotal(book, d) /= Energy!Unknown
  <2>1. d \in Energy!Dates \ truth.broken
    BY <1>1 DEF Energy!Dates
  <2> QED BY <2>1, TotalKept DEF EnergyNow
<1>3. ASSUME NEW d \in true
      PROVE  /\ Energy!Summary(book, "day", d) = truth.last[d]
             /\ Energy!Buckets(book, "week", Energy!Start("week", d))[d] = truth.last[d]
  <2>1. Energy!Summary(book, "day", d) = truth.last[d]
    BY <1>2, DayShown
  <2> DEFINE p == Energy!Start("week", d)
             q == Energy!Asked(p, p + Energy!Week - 1, FALSE)
  <2>2. d \in p..(p + Energy!Week - 1)
    <3>1. d \in Nat \ {0}
      BY <1>2 DEF Energy!Dates
    <3> QED BY <3>1, WeekOf DEF Energy!Week
  <2>3. q.from = p /\ q.to = p + Energy!Week - 1
    BY DEF Energy!Asked
  <2>4. Energy!Buckets(book, "week", p) = Energy!Records(book, q)
    BY Ranges DEF Energy!Buckets
  <2> HIDE DEF q, p
  <2>5. Energy!Records(book, q)[d] = Energy!DayTotal(book, d)
    BY <1>2, <2>2, <2>3, RecordShown
  <2> QED BY <2>1, <2>4, <2>5, <1>2 DEF p
<1>4. ASSUME true = 1..(clock.day - 1), book.active = clock.day
      PROVE  Energy!Summary(book, "all", 0)
               = Energy!SumUp(truth.last, 1, clock.day - 1) + book.now
  <2> DEFINE r == Energy!Records(book, Energy!Asked(1, LastDay, FALSE))
  <2>1. Energy!Summary(book, "all", 0) = Energy!SumUp(r, 1, LastDay)
    BY Ranges DEF Energy!Summary, Energy!Buckets
  <2>2. /\ Energy!Asked(1, LastDay, FALSE).from = 1
        /\ Energy!Asked(1, LastDay, FALSE).to = LastDay
        /\ ~Energy!Asked(1, LastDay, FALSE).hours
    BY DEF Energy!Asked
  <2>3. \A d \in Energy!Dates : r[d] = Energy!DayTotal(book, d)
    BY <2>2 DEF Energy!Records, Energy!Dates
  <2> HIDE DEF r
  <2>4. \A d \in clock.day + 1..LastDay : r[d] = Energy!Unknown
    <3> TAKE d \in clock.day + 1..LastDay
    <3>1. d \in Energy!Dates /\ d > clock.day /\ d /= book.active
      BY <1>1, <1>4 DEF Energy!Dates
    <3>2. Energy!DayTotal(book, d) = DayRec(book, d)
      BY <1>0, <3>1, ShownType
    <3> QED BY <3>1, <3>2, <2>3, <1>0 DEF FlashSum
  <2>5. r[clock.day] = book.now /\ book.now \in Nat
    <3>1. clock.day \in Energy!Dates /\ book.now \in Nat
      BY <1>0 DEF Clocks, Books
    <3> QED BY <3>1, <1>0, <1>4, <2>3, ShownType
  <2>6. \A d \in 1..(clock.day - 1) : r[d] = truth.last[d] /\ r[d] \in KnownWh
    <3> HIDE DEF true
    <3> TAKE d \in 1..(clock.day - 1)
    <3>1. d \in Energy!Dates /\ Energy!DayTotal(book, d) = truth.last[d]
      BY <1>2, <1>4
    <3> QED BY <3>1, <2>3, <1>0, ShownType
  <2>7. Energy!SumUp(r, 1, LastDay) = Energy!SumUp(r, 1, clock.day)
    BY <1>1, <2>4, SumTail
  <2>8. Energy!SumUp(r, 1, clock.day) = Energy!Plus(Energy!SumUp(r, 1, clock.day - 1), r[clock.day])
    BY <1>1, SumStep
  <2>9. Energy!SumUp(r, 1, clock.day - 1) = Energy!SumUp(truth.last, 1, clock.day - 1)
    BY <1>1, <2>6, SumSame
  <2>10. Energy!SumUp(r, 1, clock.day - 1) \in Nat
    BY <1>1, <2>6, SumNat
  <2> QED BY <2>1, <2>5, <2>7, <2>8, <2>9, <2>10 DEF Energy!Plus, Energy!Unknown
<1> QED BY <1>3, <1>4 DEF Energy!DaysAreTrue

LEMMA HoursSum == EnergyNow => Energy!HoursAddUp
<1> SUFFICES ASSUME EnergyNow, NEW d \in Energy!Dates \ truth.odd,
                    Energy!DayTotal(book, d) /= Energy!Unknown, Energy!HourList(book, d) /= Energy!NoHours
             PROVE  Energy!Total(Energy!Buckets(book, "day", d)) = Energy!Summary(book, "day", d)
  BY DEF Energy!HoursAddUp
<1>0. /\ book \in Books /\ RamWritten(book) /\ ActiveSum(book, truth)
      /\ FlashSum(clock, book, truth)
  BY DEF EnergyNow, EnergySound
<1>1. Energy!Buckets(book, "day", d) = Energy!HourList(book, d)
  BY DEF Energy!Buckets
<1>2. Energy!Summary(book, "day", d) = Energy!DayTotal(book, d)
  BY DayShown
<1>3. /\ Energy!DayTotal(book, d) = IF book.active = d THEN book.now ELSE DayRec(book, d)
      /\ Energy!HourList(book, d) = HoursOver(book.ram[d], Energy!FromFlash(book, d))
  BY <1>0, ShownType
<1>4. CASE book.active = d
  <2>1. /\ \A h \in Energy!Day : book.ram[d][h] = Energy!Unknown =>
                            Energy!FromFlash(book, d)[h] = Energy!Unknown
        /\ Energy!Total(book.ram[d]) = book.now
    BY <1>0, <1>4 DEF ActiveSum, Energy!Dates
  <2>2. book.ram[d] \in HourMaps /\ Energy!FromFlash(book, d) \in HourMaps
    BY <1>0, FlashType DEF Books
  <2>3. HoursOver(book.ram[d], Energy!FromFlash(book, d)) = book.ram[d]
    BY <2>1, <2>2, OverSame
  <2> QED BY <2>1, <2>3, <1>1, <1>2, <1>3, <1>4
<1>5. CASE book.active /= d
  <2>1. Energy!DayTotal(book, d) = DayRec(book, d)
        /\ Energy!HourList(book, d) = Energy!FromFlash(book, d)
    BY <1>0, <1>5, PastShown
  <2> QED BY <2>1, <1>0, <1>1, <1>2 DEF FlashSum
<1> QED BY <1>4, <1>5

LEMMA ShownAgain == EnergyNow => Energy!Reimported
<1> SUFFICES ASSUME EnergyNow, upload.is = "done", upload.valid,
                    NEW d \in 1..(upload.before - 1)
             PROVE  Energy!Records(book, Energy!Whole)[d] = upload.was[d]
  BY DEF Energy!Reimported
<1>0. /\ clock \in Clocks /\ book \in Books /\ upload \in Uploads /\ RamWritten(book)
      /\ FileSays(clock, book, truth, upload) /\ ValidImport(book, upload)
  BY DEF EnergyNow, EnergySound
<1>1. /\ upload.own
      /\ upload.was[d] =
           IF DayRec(book, d) /= Energy!Unknown THEN DayRec(book, d)
           ELSE IF Energy!FromFlash(book, d) /= Energy!NoHours
           THEN Energy!Total(Energy!FromFlash(book, d)) ELSE Energy!Unknown
  BY <1>0 DEF ValidImport
<1>2. d \in Energy!Dates /\ d /= book.active
  <2>1. upload.before \in 0..LastDay /\ (book.active = 0 \/ upload.before <= book.active)
        /\ book.active \in Int
    BY <1>0, <1>1 DEF FileSays, Uploads, Books
  <2> QED BY <2>1, PanelsAssumption DEF Energy!Dates
<1>3. Energy!DayTotal(book, d) = DayRec(book, d) /\ Energy!HourList(book, d) = Energy!FromFlash(book, d)
  BY <1>0, <1>2, PastShown
<1> QED BY <1>0, <1>1, <1>2, <1>3, WholeRecords

LEMMA LeastIs ==
  ASSUME NEW S \in SUBSET Nat, S /= {}
  PROVE  LET m == CHOOSE d \in S : \A e \in S : d <= e
         IN  m \in S /\ \A e \in S : m <= e
BY LeastOfNat

LEMMA Reachable == EnergyNow => Energy!AllReachable
<1> SUFFICES ASSUME EnergyNow, NEW view \in {"day", "week"}, NEW held \in Energy!Dates,
                    NEW d \in Energy!Stored(book) \cup {clock.day}
             PROVE  LET q      == Energy!Range(view, Energy!Start(view, held))
                        bounds == Energy!Bounds(book, q, view, clock.day)
                    IN  Energy!Start(view, d) \in {bounds[2]} \cup Energy!Reached(view, bounds)
  BY DEF Energy!AllReachable
<1> DEFINE q == Energy!Range(view, Energy!Start(view, held))
           bounds == Energy!Bounds(book, q, view, clock.day)
           keys == { e \in Energy!Dates : Energy!Records(book, q)[e] /= Energy!Unknown }
                     \cup Energy!Stored(book) \cup {clock.day}
           low == CHOOSE e \in keys : \A f \in keys : e <= f
           high == Energy!Last(keys)
<1>1. keys \in SUBSET (1..LastDay) /\ d \in keys /\ keys /= {}
  <2>1. clock.day \in Energy!Dates /\ Energy!Stored(book) \subseteq Energy!Dates
    <3>1. book.days \in Seq(DayRecs) /\ clock.day \in Energy!Dates
      BY DEF EnergyNow, EnergySound, Books, Clocks
    <3>2. \A i \in 1..Len(book.days) : book.days[i] \in DayRecs
      BY <3>1
    <3> QED BY <3>1, <3>2 DEF Energy!Stored, DayRecs
  <2> QED BY <2>1 DEF Energy!Dates
<1>2. bounds = <<Energy!Start(view, low), Energy!Start(view, high)>>
  BY DEF Energy!Bounds
<1> HIDE DEF keys, q
<1>3. low \in keys /\ low <= d
  <2>1. keys \in SUBSET Nat
    BY <1>1
  <2> QED BY <2>1, <1>1, LeastIs
<1>4. high \in keys /\ d <= high
  BY <1>1, PanelsAssumption, GreatestOf
<1> HIDE DEF low, high
<1>5. low \in 1..LastDay /\ high \in 1..LastDay /\ d \in 1..LastDay
      /\ LastDay \in Nat
  BY <1>1, <1>3, <1>4, PanelsAssumption
<1>6. bounds[1] = Energy!Start(view, low) /\ bounds[2] = Energy!Start(view, high)
  BY <1>2
<1> HIDE DEF bounds
<1> DEFINE goal == Energy!Start(view, d) \in {bounds[2]} \cup Energy!Reached(view, bounds)
<1>7. ASSUME view = "day" PROVE goal
  <2>1. bounds[1] = low /\ bounds[2] = high /\ Energy!Start(view, d) = d
        /\ Energy!Length(view) = 1
    BY <1>6, <1>7 DEF Energy!Start, Energy!Length
  <2>2. CASE d /= high
    <3>1. high - d \in Energy!Dates /\ bounds[2] - (high - d) * Energy!Length(view) = d
      <4>1. (high - d) * Energy!Length(view) = high - d /\ high - (high - d) = d
        BY <1>5, <2>1
      <4> QED BY <4>1, <1>4, <1>5, <2>1, <2>2 DEF Energy!Dates
    <3>2. Energy!Clamp(d, bounds) = d
      BY <1>3, <1>4, <1>5, <2>1 DEF Energy!Clamp
    <3> QED BY <2>1, <3>1, <3>2 DEF Energy!Reached
  <2> QED BY <2>1, <2>2
<1>8. ASSUME view = "week" PROVE goal
  <2>1. PICK i \in Nat : /\ Energy!Start(view, low) = 2 * i + 1
                         /\ low = 2 * i + 1 \/ low = 2 * i + 2
    BY <1>5, <1>8, WeekOf
  <2>2. PICK j \in Nat : /\ Energy!Start(view, high) = 2 * j + 1
                         /\ high = 2 * j + 1 \/ high = 2 * j + 2
    BY <1>5, <1>8, WeekOf
  <2>3. PICK k \in Nat : /\ Energy!Start(view, d) = 2 * k + 1
                         /\ d = 2 * k + 1 \/ d = 2 * k + 2
    BY <1>5, <1>8, WeekOf
  <2>4. i <= k /\ k <= j /\ 2 * j + 1 <= LastDay
    BY <1>3, <1>4, <1>5, <2>1, <2>2, <2>3
  <2>5. Energy!Length(view) = 2
    BY <1>8 DEF Energy!Length, Energy!Week
  <2>6. CASE k /= j
    <3>1. j - k \in Energy!Dates
      BY <1>5, <2>4, <2>6 DEF Energy!Dates
    <3>2. bounds[2] - (j - k) * Energy!Length(view) = 2 * k + 1
      BY <1>6, <2>2, <2>5
    <3>3. Energy!Clamp(2 * k + 1, bounds) = 2 * k + 1
      BY <1>6, <2>1, <2>2, <2>4 DEF Energy!Clamp
    <3> QED BY <2>3, <3>1, <3>2, <3>3 DEF Energy!Reached
  <2> QED BY <1>6, <2>2, <2>3, <2>6
<1> HIDE DEF goal
<1>9. goal
  BY <1>7, <1>8
<1> QED BY <1>9 DEF goal, bounds, q

-----------------------------------------------------------------------------
(* The page and its requests                                               *)

HistoryQueries == {"meta", "a", "b"}
HistoryRequests == [ id : Nat, what : {"meta", "energy"}, query : HistoryQueries,
                     first : HistoryQueries, bounds : BOOLEAN, force : BOOLEAN, since : Nat,
                     v : Int ]
HistoryPages    == [ v : Nat, ids : Nat, out : SUBSET HistoryRequests, sel : {"a", "b"},
                     meta : [at : Nat, shown : Int, floor : Nat, due : BOOLEAN],
                     at : Nat, by : HistoryQueries \cup {"none"}, raw : HistoryQueries \cup {"none"},
                     label : HistoryQueries \cup {"none"}, due : BOOLEAN ]

\* A request knows the archive as it is sent or later, and the one the page
\* waits for was not sent before the last that counted.
AsksSoundly(p, r) ==
  /\ 1 <= r.id /\ r.id <= p.ids
  /\ r.since <= p.v
  /\ r.v = -1 \/ r.since <= r.v
  /\ r.id = p.meta.at => p.meta.floor <= r.since

PageSound(p) ==
  /\ p \in HistoryPages
  /\ p.meta.floor <= p.v /\ p.meta.at <= p.ids
  /\ p.meta.shown = -1 \/ p.meta.shown >= p.meta.floor
  /\ p.raw /= "none" => p.raw = p.label
  /\ \A r \in p.out : AsksSoundly(p, r)

LEMMA RequestType ==
  ASSUME page \in HistoryPages, NEW what \in {"meta", "energy"}, NEW query \in HistoryQueries,
         NEW force \in BOOLEAN
  PROVE  LET r == Energy!Request(what, query, force)
         IN  /\ r \in HistoryRequests /\ r.id = page.ids + 1 /\ r.since = page.v
             /\ r.v = -1
BY DEF HistoryPages, HistoryRequests, Energy!Request

\* A new request is for the archive as it is, or as it is after a clearing.
LEMMA SentSound ==
  ASSUME NEW p, PageSound(p), NEW s \in HistoryPages, NEW r \in HistoryRequests,
         r.id = p.ids + 1, r.since = s.v, r.v = -1, p.v <= s.v,
         s.ids = p.ids + 1, s.out = p.out \cup {r},
         s.meta.at = p.meta.at \/ s.meta.at = r.id,
         s.meta.shown = p.meta.shown, s.meta.floor = p.meta.floor,
         s.raw = "none" \/ (s.raw = p.raw /\ s.label = p.label)
  PROVE  PageSound(s)
<1>1. /\ p \in HistoryPages /\ p.ids \in Nat /\ p.v \in Nat /\ p.meta.at \in Nat
      /\ s.v \in Nat /\ p.meta.floor \in Nat
  BY DEF PageSound, HistoryPages
<1>2. ASSUME NEW k \in p.out PROVE AsksSoundly(s, k)
  <2>1. /\ AsksSoundly(p, k) /\ k.id \in Nat /\ k.since \in Nat
    BY <1>1 DEF PageSound, HistoryPages, HistoryRequests
  <2>2. k.id /= r.id /\ k.id <= s.ids /\ k.since <= s.v
    BY <2>1, <1>1 DEF AsksSoundly
  <2> QED BY <2>1, <2>2 DEF AsksSoundly
<1>3. AsksSoundly(s, r)
  BY <1>1 DEF AsksSoundly, PageSound
<1>4. s.meta.floor <= s.v /\ s.meta.at <= s.ids
  BY <1>1 DEF PageSound
<1> QED BY <1>2, <1>3, <1>4 DEF PageSound

LEMMA SentIs ==
  ASSUME NEW p \in HistoryPages, NEW r \in HistoryRequests
  PROVE  LET s == Energy!Sent(p, r)
         IN  /\ s \in HistoryPages /\ s.v = p.v /\ s.ids = p.ids + 1
             /\ s.out = p.out \cup {r} /\ s.meta = p.meta
             /\ s.raw = p.raw /\ s.label = p.label
<1> DEFINE s == Energy!Sent(p, r)
           out == p.out \cup {r}
<1>1. out \in SUBSET HistoryRequests /\ p.ids + 1 \in Nat
  BY DEF HistoryPages
<1>2. s = [p EXCEPT !.ids = p.ids + 1, !.out = out]
  BY DEF Energy!Sent
<1> HIDE DEF out, s
<1>3. /\ s \in HistoryPages /\ s.v = p.v /\ s.ids = p.ids + 1 /\ s.out = out
      /\ s.meta = p.meta /\ s.raw = p.raw /\ s.label = p.label
  BY <1>1, <1>2 DEF HistoryPages
<1> QED BY <1>3 DEF out, s

LEMMA PageRefreshMeta ==
  ASSUME PageSound(page), NEW force \in BOOLEAN, Energy!RefreshMeta(force)
  PROVE  PageSound(page')
<1> DEFINE meta == [page.meta EXCEPT !.at = page.ids + 1]
           p == [page EXCEPT !.meta = meta]
           r == Energy!Request("meta", "meta", force)
<1>1. page \in HistoryPages /\ page.ids \in Nat /\ page.v \in Nat
  BY DEF PageSound, HistoryPages
<1>2. /\ r \in HistoryRequests /\ r.id = page.ids + 1 /\ r.since = page.v /\ r.v = -1
  BY <1>1, RequestType DEF HistoryQueries
<1>3. /\ meta \in [at : Nat, shown : Int, floor : Nat, due : BOOLEAN]
      /\ meta.at = page.ids + 1 /\ meta.shown = page.meta.shown
      /\ meta.floor = page.meta.floor
  <2>1. page.meta \in [at : Nat, shown : Int, floor : Nat, due : BOOLEAN]
    BY <1>1 DEF HistoryPages
  <2> QED BY <2>1, <1>1
<1>4. page' = Energy!Sent(p, r)
  BY DEF Energy!RefreshMeta
<1> HIDE DEF meta, r
<1>5. /\ p \in HistoryPages /\ p.v = page.v /\ p.ids = page.ids /\ p.out = page.out
      /\ p.meta = meta /\ p.raw = page.raw /\ p.label = page.label
  BY <1>1, <1>3 DEF HistoryPages
<1> HIDE DEF p
<1>6. /\ page' \in HistoryPages /\ page'.v = page.v /\ page'.ids = page.ids + 1
      /\ page'.out = page.out \cup {r} /\ page'.meta = meta
      /\ page'.raw = page.raw /\ page'.label = page.label
  BY <1>2, <1>4, <1>5, SentIs
<1> QED BY <1>1, <1>2, <1>3, <1>6, SentSound

LEMMA PageFetched ==
  ASSUME NEW p, PageSound(p), NEW r \in HistoryRequests,
         r.id = p.ids + 1, r.since = p.v, r.v = -1
  PROVE  PageSound(Energy!Fetch(p, r))
<1> DEFINE f == [p EXCEPT !.at = p.ids + 1, !.by = r.query]
           s == Energy!Sent(f, r)
<1>1. /\ p \in HistoryPages /\ p.ids \in Nat /\ p.v \in Nat /\ r.query \in HistoryQueries
  BY DEF PageSound, HistoryPages, HistoryRequests
<1>2. /\ f \in HistoryPages /\ f.v = p.v /\ f.ids = p.ids /\ f.out = p.out
      /\ f.meta = p.meta /\ f.raw = p.raw /\ f.label = p.label
  <2> DEFINE at == p.ids + 1
             by == r.query
  <2>1. at \in Nat /\ by \in HistoryQueries \cup {"none"}
    BY <1>1
  <2>2. f = [p EXCEPT !.at = at, !.by = by]
    OBVIOUS
  <2> HIDE DEF at, by, f
  <2> QED BY <1>1, <2>1, <2>2 DEF HistoryPages
<1> HIDE DEF f
<1>3. /\ s \in HistoryPages /\ s.v = p.v /\ s.ids = p.ids + 1 /\ s.out = p.out \cup {r}
      /\ s.meta = p.meta /\ s.raw = p.raw /\ s.label = p.label
  BY <1>2, SentIs
<1> HIDE DEF s
<1>4. PageSound(s)
  BY <1>1, <1>3, SentSound
<1>5. Energy!Fetch(p, r) = s
  BY DEF Energy!Fetch, f, s
<1> QED BY <1>4, <1>5

LEMMA PageRefreshEnergy ==
  ASSUME PageSound(page), NEW force \in BOOLEAN, Energy!RefreshEnergy(force)
  PROVE  PageSound(page')
<1>1. page \in HistoryPages
  BY DEF PageSound
<1>2. PICK bounds \in BOOLEAN :
        page' = Energy!Fetch(page, [Energy!Request("energy",
                                      IF bounds THEN "meta" ELSE Energy!Query(page), force)
                                      EXCEPT !.bounds = bounds])
  BY DEF Energy!RefreshEnergy
<1> DEFINE query == IF bounds THEN "meta" ELSE Energy!Query(page)
           k == Energy!Request("energy", query, force)
           r == [k EXCEPT !.bounds = bounds]
<1>3. query \in HistoryQueries
  BY <1>1 DEF Energy!Query, HistoryQueries, HistoryPages
<1> HIDE DEF query
<1>4. k \in HistoryRequests /\ k.id = page.ids + 1 /\ k.since = page.v /\ k.v = -1
  BY <1>1, <1>3, RequestType
<1> HIDE DEF k
<1>5. r \in HistoryRequests /\ r.id = page.ids + 1 /\ r.since = page.v /\ r.v = -1
  BY <1>4 DEF HistoryRequests
<1>6. page' = Energy!Fetch(page, r)
  BY <1>2 DEF k, query
<1> HIDE DEF r
<1> QED BY <1>5, <1>6, PageFetched

LEMMA PageSelect ==
  ASSUME PageSound(page), Energy!Select PROVE PageSound(page')
<1>1. PICK s \in {"a", "b"} :
        page' = Energy!Fetch([page EXCEPT !.sel = s],
                             Energy!Request("energy", Energy!Query([page EXCEPT !.sel = s]), TRUE))
  BY DEF Energy!Select
<1> DEFINE p == [page EXCEPT !.sel = s]
           r == Energy!Request("energy", Energy!Query(p), TRUE)
<1>2. page \in HistoryPages
  BY DEF PageSound
<1>3. /\ p \in HistoryPages /\ p.v = page.v /\ p.ids = page.ids /\ p.out = page.out
      /\ p.meta = page.meta /\ p.raw = page.raw /\ p.label = page.label
  BY <1>2 DEF HistoryPages
<1>4. page' = Energy!Fetch(p, r)
  BY <1>1
<1> HIDE DEF p
<1>5. PageSound(p)
  BY <1>3 DEF PageSound, AsksSoundly
<1>6. Energy!Query(p) \in HistoryQueries
  BY <1>3 DEF Energy!Query, HistoryQueries, HistoryPages
<1>7. r \in HistoryRequests /\ r.id = p.ids + 1 /\ r.since = p.v /\ r.v = -1
  BY <1>2, <1>3, <1>6, RequestType
<1> HIDE DEF r
<1> QED BY <1>4, <1>5, <1>7, PageFetched

LEMMA PageClearAll ==
  ASSUME PageSound(page), Energy!ClearAll PROVE PageSound(page')
<1> DEFINE meta == [page.meta EXCEPT !.at = page.ids + 1]
           p == [page EXCEPT !.v = page.v + 1, !.raw = "none", !.due = TRUE,
                             !.meta = meta]
           k == Energy!Request("meta", "meta", TRUE)
           r == [k EXCEPT !.since = page.v + 1]
<1>1. page \in HistoryPages /\ page.ids \in Nat /\ page.v \in Nat
  BY DEF PageSound, HistoryPages
<1>2. /\ k \in HistoryRequests /\ k.id = page.ids + 1 /\ k.v = -1
  BY <1>1, RequestType DEF HistoryQueries
<1>3. /\ meta \in [at : Nat, shown : Int, floor : Nat, due : BOOLEAN]
      /\ meta.at = page.ids + 1 /\ meta.shown = page.meta.shown
      /\ meta.floor = page.meta.floor
  <2>1. page.meta \in [at : Nat, shown : Int, floor : Nat, due : BOOLEAN]
    BY <1>1 DEF HistoryPages
  <2> QED BY <2>1, <1>1
<1>4. page' = Energy!Sent(p, r)
  BY DEF Energy!ClearAll
<1> HIDE DEF meta, k
<1>5. r \in HistoryRequests /\ r.id = page.ids + 1 /\ r.since = page.v + 1 /\ r.v = -1
  BY <1>1, <1>2 DEF HistoryRequests
<1>6. /\ p \in HistoryPages /\ p.v = page.v + 1 /\ p.ids = page.ids /\ p.out = page.out
      /\ p.meta = meta /\ p.raw = "none"
  <2> DEFINE next == page.v + 1
             none == "none"
  <2>1. next \in Nat /\ none \in HistoryQueries \cup {"none"}
    BY <1>1
  <2>2. p = [page EXCEPT !.v = next, !.raw = none, !.due = TRUE, !.meta = meta]
    OBVIOUS
  <2> HIDE DEF next, none, p
  <2>3. /\ p \in HistoryPages /\ p.v = next /\ p.ids = page.ids /\ p.out = page.out
        /\ p.meta = meta /\ p.raw = none
    BY <1>1, <1>3, <2>1, <2>2 DEF HistoryPages
  <2> QED BY <2>3 DEF next, none
<1> HIDE DEF p, r
<1>7. /\ page' \in HistoryPages /\ page'.v = page.v + 1 /\ page'.ids = page.ids + 1
      /\ page'.out = page.out \cup {r} /\ page'.meta = meta
      /\ page'.raw = "none"
  BY <1>4, <1>5, <1>6, SentIs
<1>8. page.v <= page.v + 1
  BY <1>1
<1> QED BY <1>1, <1>3, <1>5, <1>7, <1>8, SentSound

\* What else happens to the page keeps its counters.
LEMMA PageTouched ==
  ASSUME NEW p, PageSound(p), NEW s \in HistoryPages, s.v = p.v, s.ids = p.ids,
         s.meta.at = p.meta.at, s.meta.shown = p.meta.shown,
         s.meta.floor = p.meta.floor,
         s.raw /= "none" => s.raw = s.label,
         \A r \in s.out : AsksSoundly(p, r)
  PROVE  PageSound(s)
BY DEF PageSound, AsksSoundly

LEMMA PageAnswer ==
  ASSUME PageSound(page), Energy!Answer PROVE PageSound(page')
<1>1. page \in HistoryPages /\ page.v \in Nat
  BY DEF PageSound, HistoryPages
<1>2. PICK r \in page.out :
        page' = [page EXCEPT !.out = (@ \ {r}) \cup {[r EXCEPT !.v = page.v]}]
  BY DEF Energy!Answer
<1> DEFINE k == [r EXCEPT !.v = page.v]
           out == (page.out \ {r}) \cup {k}
<1>3. r \in HistoryRequests /\ AsksSoundly(page, r)
  BY <1>1 DEF PageSound, HistoryPages
<1>4. /\ k \in HistoryRequests /\ k.id = r.id /\ k.since = r.since /\ k.v = page.v
  BY <1>1, <1>3 DEF HistoryRequests
<1>5. AsksSoundly(page, k)
  BY <1>3, <1>4 DEF AsksSoundly
<1>6. out \in SUBSET HistoryRequests /\ \A x \in out : AsksSoundly(page, x)
  BY <1>1, <1>4, <1>5 DEF PageSound, HistoryPages
<1>7. page' = [page EXCEPT !.out = out]
  BY <1>2
<1> HIDE DEF out
<1>8. /\ page' \in HistoryPages /\ page'.v = page.v /\ page'.ids = page.ids
      /\ page'.meta = page.meta /\ page'.raw = page.raw
      /\ page'.label = page.label /\ page'.out = out
  BY <1>1, <1>6, <1>7 DEF HistoryPages
<1>9. page.raw /= "none" => page.raw = page.label
  BY DEF PageSound
<1> QED BY <1>6, <1>8, <1>9, PageTouched

LEMMA PageExpire ==
  ASSUME PageSound(page), Energy!Expire PROVE PageSound(page')
<1> DEFINE meta == [page.meta EXCEPT !.due = TRUE]
<1>1. page \in HistoryPages
  BY DEF PageSound
<1>2. /\ meta \in [at : Nat, shown : Int, floor : Nat, due : BOOLEAN]
      /\ meta.at = page.meta.at /\ meta.shown = page.meta.shown
      /\ meta.floor = page.meta.floor
  <2>1. page.meta \in [at : Nat, shown : Int, floor : Nat, due : BOOLEAN]
    BY <1>1 DEF HistoryPages
  <2> QED BY <2>1
<1>3. page' = [page EXCEPT !.due = TRUE, !.meta = meta]
  BY DEF Energy!Expire
<1> HIDE DEF meta
<1>4. /\ page' \in HistoryPages /\ page'.v = page.v /\ page'.ids = page.ids
      /\ page'.meta = meta /\ page'.raw = page.raw
      /\ page'.label = page.label /\ page'.out = page.out
  BY <1>1, <1>2, <1>3 DEF HistoryPages
<1>5. /\ page.raw /= "none" => page.raw = page.label
      /\ \A r \in page.out : AsksSoundly(page, r)
  BY DEF PageSound
<1> QED BY <1>2, <1>4, <1>5, PageTouched

LEMMA PageMetaArrives ==
  ASSUME PageSound(page), NEW r \in page.out, NEW ok \in BOOLEAN,
         ok => r.v /= -1, Energy!MetaArrives(r, ok)
  PROVE  PageSound(page')
<1> DEFINE out == page.out \ {r}
           floor == IF r.force /\ r.since > page.meta.floor THEN r.since
                    ELSE page.meta.floor
           new == [at |-> 0, shown |-> IF ok THEN r.v ELSE -1,
                   floor |-> floor, due |-> FALSE]
           meta == IF ~Energy!Counts(r) THEN page.meta ELSE new
<1>1. /\ page \in HistoryPages /\ page.v \in Nat /\ page.ids \in Nat
      /\ page.meta \in [at : Nat, shown : Int, floor : Nat, due : BOOLEAN]
      /\ r \in HistoryRequests /\ AsksSoundly(page, r)
  BY DEF PageSound, HistoryPages
<1>2. r.since \in Nat /\ r.v \in Int /\ r.id \in Nat /\ page.meta.floor \in Nat
  BY <1>1 DEF HistoryRequests
<1>3. page' = [page EXCEPT !.out = out, !.meta = meta]
  BY DEF Energy!MetaArrives
<1>4. out \in SUBSET HistoryRequests /\ out \subseteq page.out
  BY <1>1 DEF HistoryPages
<1>5. floor \in Nat /\ floor <= page.v
  BY <1>1, <1>2 DEF PageSound, AsksSoundly
<1>6. Energy!Counts(r) => floor <= r.since
  BY <1>1, <1>2 DEF AsksSoundly, Energy!Counts
<1> HIDE DEF floor, out
<1>7. new \in [at : Nat, shown : Int, floor : Nat, due : BOOLEAN]
      /\ new.at = 0 /\ new.floor = floor
      /\ new.shown = IF ok THEN r.v ELSE -1
  BY <1>2, <1>5
<1> HIDE DEF new
<1>8. meta \in [at : Nat, shown : Int, floor : Nat, due : BOOLEAN]
  BY <1>1, <1>7
<1> HIDE DEF meta
<1>9. /\ page' \in HistoryPages /\ page'.v = page.v /\ page'.ids = page.ids
      /\ page'.meta = meta /\ page'.raw = page.raw
      /\ page'.label = page.label /\ page'.out = out
  BY <1>1, <1>3, <1>4, <1>8 DEF HistoryPages
<1>10. /\ page.raw /= "none" => page.raw = page.label
       /\ \A x \in page.out : AsksSoundly(page, x)
  BY DEF PageSound
<1>11. CASE ~Energy!Counts(r)
  BY <1>4, <1>9, <1>10, <1>11, PageTouched DEF meta
<1>12. CASE Energy!Counts(r)
  <2>1. meta = new
    BY <1>12 DEF meta
  <2>2. new.shown = -1 \/ new.shown >= floor
    BY <1>1, <1>2, <1>5, <1>6, <1>7, <1>12 DEF AsksSoundly
  <2>3. ASSUME NEW x \in out PROVE AsksSoundly(page', x)
    <3>1. AsksSoundly(page, x) /\ x.id \in Nat
      BY <1>1, <1>4, <1>10 DEF HistoryPages, HistoryRequests
    <3>2. x.id /= 0
      BY <3>1 DEF AsksSoundly
    <3> QED BY <3>1, <3>2, <1>7, <1>9, <2>1 DEF AsksSoundly
  <2> QED BY <1>1, <1>5, <1>7, <1>9, <1>10, <2>1, <2>2, <2>3 DEF PageSound
<1> QED BY <1>11, <1>12

LEMMA PageEnergyArrives ==
  ASSUME PageSound(page), NEW r \in page.out, NEW ok \in BOOLEAN,
         Energy!EnergyArrives(r, ok)
  PROVE  PageSound(page')
<1>1. /\ page \in HistoryPages /\ page.sel \in HistoryQueries
      /\ r \in HistoryRequests /\ AsksSoundly(page, r)
      /\ page.raw /= "none" => page.raw = page.label
      /\ \A x \in page.out : AsksSoundly(page, x)
  BY DEF PageSound, HistoryPages, HistoryQueries
<1>2. CASE ok /\ r.query = "meta" /\ ~r.bounds
  <2> DEFINE k == [r EXCEPT !.query = page.sel, !.v = -1]
             out == (page.out \ {r}) \cup {k}
  <2>1. k \in HistoryRequests /\ k.id = r.id /\ k.since = r.since /\ k.v = -1
    <3> DEFINE sel == page.sel
               none == -1
    <3>1. sel \in HistoryQueries /\ none \in Int
      BY <1>1
    <3>2. k = [r EXCEPT !.query = sel, !.v = none]
      OBVIOUS
    <3> HIDE DEF sel, none, k
    <3>3. k \in HistoryRequests /\ k.id = r.id /\ k.since = r.since /\ k.v = none
      BY <1>1, <3>1, <3>2 DEF HistoryRequests
    <3> QED BY <3>3 DEF none
  <2>2. AsksSoundly(page, k)
    BY <1>1, <2>1 DEF AsksSoundly
  <2>3. page' = [page EXCEPT !.out = out]
    BY <1>2 DEF Energy!EnergyArrives
  <2>4. out \in SUBSET HistoryRequests /\ \A x \in out : AsksSoundly(page, x)
    BY <1>1, <2>1, <2>2 DEF HistoryPages
  <2> HIDE DEF out
  <2>5. /\ page' \in HistoryPages /\ page'.v = page.v /\ page'.ids = page.ids
        /\ page'.meta = page.meta /\ page'.raw = page.raw
        /\ page'.label = page.label /\ page'.out = out
    BY <1>1, <2>3, <2>4 DEF HistoryPages
  <2> QED BY <1>1, <2>4, <2>5, PageTouched
<1>3. CASE ~(ok /\ r.query = "meta" /\ ~r.bounds)
  <2> DEFINE out == page.out \ {r}
             raw == IF ok THEN r.query ELSE "none"
             label == IF ok THEN r.query ELSE r.first
  <2>1. page' = [page EXCEPT !.out = out, !.at = 0, !.due = FALSE,
                             !.raw = raw, !.label = label]
    BY <1>3 DEF Energy!EnergyArrives
  <2>2. /\ out \in SUBSET HistoryRequests /\ out \subseteq page.out
        /\ raw \in HistoryQueries \cup {"none"} /\ label \in HistoryQueries \cup {"none"}
        /\ raw /= "none" => raw = label
    BY <1>1 DEF HistoryPages, HistoryRequests
  <2> HIDE DEF out, raw, label
  <2>3. /\ page' \in HistoryPages /\ page'.v = page.v /\ page'.ids = page.ids
        /\ page'.meta = page.meta /\ page'.raw = raw
        /\ page'.label = label /\ page'.out = out
    BY <1>1, <2>1, <2>2 DEF HistoryPages
  <2> QED BY <1>1, <2>2, <2>3, PageTouched
<1> QED BY <1>2, <1>3

LEMMA PageInit == Energy!Init => PageSound(page)
<1> SUFFICES ASSUME Energy!Init PROVE PageSound(page)
  OBVIOUS
<1>1. page = Energy!NoPage
  BY DEF Energy!Init
<1>2. Energy!NoPage \in HistoryPages
  BY DEF Energy!NoPage, HistoryPages, HistoryQueries
<1>3. /\ Energy!NoPage.out = {} /\ Energy!NoPage.meta.floor = 0 /\ Energy!NoPage.meta.at = 0
      /\ Energy!NoPage.meta.shown = 0 /\ Energy!NoPage.raw = "none" /\ Energy!NoPage.v = 0
      /\ Energy!NoPage.ids = 0
  BY DEF Energy!NoPage
<1> QED BY <1>1, <1>2, <1>3 DEF PageSound

LEMMA PageNext ==
  ASSUME PageSound(page), Energy!Next PROVE PageSound(page')
<1>1. CASE UNCHANGED page
  BY <1>1
<1>2. CASE Energy!PageStep
  <2>1. ASSUME Energy!Arrive PROVE PageSound(page')
    <3>1. PICK r \in page.out : \E ok \in BOOLEAN :
            /\ ok => r.v /= -1
            /\ IF r.what = "meta" THEN Energy!MetaArrives(r, ok) ELSE Energy!EnergyArrives(r, ok)
      BY <2>1 DEF Energy!Arrive
    <3>2. PICK ok \in BOOLEAN :
            /\ ok => r.v /= -1
            /\ IF r.what = "meta" THEN Energy!MetaArrives(r, ok) ELSE Energy!EnergyArrives(r, ok)
      BY <3>1
    <3> QED BY <3>2, PageMetaArrives, PageEnergyArrives
  <2> QED BY <1>2, <2>1, PageRefreshMeta, PageRefreshEnergy, PageSelect,
             PageClearAll, PageAnswer, PageExpire DEF Energy!PageStep
<1> QED BY <1>1, <1>2 DEF Energy!Next

-----------------------------------------------------------------------------
(* The invariant                                                           *)

EnergyInv == EnergyNow /\ PageSound(page)

LEMMA EnergyStarts == Energy!Init => EnergyInv
BY NowInit, PageInit DEF EnergyInv

LEMMA EnergyGoesOn == EnergyInv /\ [Energy!Next]_energyVars => EnergyInv'
<1> SUFFICES ASSUME EnergyInv, [Energy!Next]_energyVars PROVE EnergyInv'
  OBVIOUS
<1>1. CASE Energy!Next
  BY <1>1, NowNext, PageNext DEF EnergyInv
<1>2. CASE UNCHANGED energyVars
  BY <1>2 DEF EnergyInv, EnergyNow, energyVars
<1> QED BY <1>1, <1>2

LEMMA EnergyHolds == EnergyInv => Energy!EnergyTrue
<1> SUFFICES ASSUME EnergyInv PROVE Energy!EnergyTrue
  OBVIOUS
<1>1. Energy!DaysAreTrue /\ Energy!HoursAddUp /\ Energy!Reimported /\ Energy!AllReachable
  BY DaysTrue, HoursSum, ShownAgain, Reachable DEF EnergyInv
<1>2. Energy!MetaNotStale /\ Energy!HoldsAsLabelled
  BY DEF EnergyInv, PageSound, Energy!MetaNotStale, Energy!HoldsAsLabelled
<1> QED BY <1>1, <1>2 DEF Energy!EnergyTrue

=============================================================================
