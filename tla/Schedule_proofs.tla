--------------------------- MODULE Schedule_proofs ---------------------------
(***************************************************************************)
(* From a schedule to the chain of gaps, for every schedule, overlay and   *)
(* sun: what build makes the chain of is in order and in the week, and is  *)
(* adjusted as asked; clamping keeps it in order and close together, and   *)
(* the chain starts each watering as near its time as rounding allows, and *)
(* serves every event on each of its days unless waterings are far apart.  *)
(***************************************************************************)
EXTENDS Schedule, FiniteSetTheorems, TLAPS

-----------------------------------------------------------------------------
(* The chain                                                               *)

(* The constants, as numbers.                                              *)
LEMMA Constants ==
  /\ GapUnit \in Nat /\ GapUnit > 0
  /\ CycleUnits \in Nat
  /\ MaxGapUnits \in Nat /\ MaxGapUnits > 0
  /\ WeekTicks \in Nat
BY GapUnitAssumption, CycleAssumption DEF WeekTicks

LEMMA TimesUnit ==
  ASSUME NEW a \in Int, NEW b \in Int
  PROVE  /\ GapUnit * a \in Int
         /\ GapUnit * (a + b) = GapUnit * a + GapUnit * b
         /\ GapUnit * (a - b) = GapUnit * a - GapUnit * b
         /\ a <= b => GapUnit * a <= GapUnit * b
         /\ a < b => GapUnit * a + GapUnit <= GapUnit * b
<1>1. \A u \in Nat, x \in Int, y \in Int : u * (x + y) = u * x + u * y
  OBVIOUS
<1>2. \A u \in Nat, x \in Int, y \in Int : u * (x - y) = u * x - u * y
  OBVIOUS
<1>3. \A u \in Nat, x \in Int, y \in Int : x <= y => u * x <= u * y
  OBVIOUS
<1>4. ASSUME a < b PROVE GapUnit * a + GapUnit <= GapUnit * b
  <2>1. GapUnit * (a + 1) <= GapUnit * b
    BY <1>3, <1>4, Constants
  <2>2. GapUnit * (a + 1) = GapUnit * a + GapUnit
    BY <1>1, Constants
  <2> QED
    BY <2>1, <2>2
<1> QED
  BY <1>1, <1>2, <1>3, <1>4, Constants

LEMMA WholeUnits ==
  ASSUME NEW m \in Nat
  PROVE  /\ m \div GapUnit \in Nat /\ m % GapUnit \in Nat
         /\ m = GapUnit * (m \div GapUnit) + (m % GapUnit)
         /\ m % GapUnit < GapUnit
BY Constants

(* Rounding to units errs by half a unit at the most.                      *)
LEMMA RoundBounds ==
  ASSUME NEW m \in Nat
  PROVE  /\ ToUnits(m) \in Nat
         /\ 2 * (GapUnit * ToUnits(m)) <= 2 * m + GapUnit
         /\ 2 * m <= 2 * (GapUnit * ToUnits(m)) + GapUnit
<1> DEFINE q == m \div GapUnit
           rest == m % GapUnit
<1>1. q \in Nat /\ rest \in Nat /\ rest < GapUnit /\ m = GapUnit * q + rest
  BY WholeUnits
<1>2. /\ ToUnits(m) \in {q, q + 1}
      /\ ToUnits(m) = q => 2 * rest <= GapUnit
      /\ ToUnits(m) = q + 1 => 2 * rest >= GapUnit
  <2> DEFINE up == 2 * rest > GapUnit \/ (Tied(m) /\ q % 2 = 1)
  <2>1. ToUnits(m) = IF up THEN q + 1 ELSE q
    BY DEF ToUnits
  <2>2. Tied(m) <=> 2 * rest = GapUnit
    BY DEF Tied
  <2>3. CASE up
    <3>1. ToUnits(m) = q + 1 /\ 2 * rest >= GapUnit
      BY <1>1, <2>1, <2>2, <2>3, Constants
    <3> HIDE DEF up, q, rest
    <3>2. QED
      BY <1>1, <3>1
  <2>4. CASE ~ up
    <3>1. ToUnits(m) = q /\ 2 * rest <= GapUnit
      <4>1. ToUnits(m) = q
        BY <2>1, <2>4
      <4>2. ~ (2 * rest > GapUnit)
        BY <2>4
      <4> QED
        BY <1>1, <4>1, <4>2, Constants
    <3> HIDE DEF up, q, rest
    <3>2. QED
      BY <1>1, <3>1
  <2> QED
    BY <2>3, <2>4
<1> HIDE DEF q, rest
<1>3. GapUnit * (q + 1) = GapUnit * q + GapUnit /\ GapUnit * q \in Int
  <2>1. GapUnit * (q + 1) = GapUnit * q + GapUnit * 1 /\ GapUnit * q \in Int
    BY <1>1, TimesUnit
  <2> QED
    BY <2>1, Constants
<1> QED
  BY <1>1, <1>2, <1>3, Constants

(* Halfway between a number of units and the next.                         *)
LEMMA TiedWhen ==
  ASSUME NEW m \in Nat, NEW a \in Int, 2 * m = 2 * (GapUnit * a) + GapUnit
  PROVE  Tied(m)
<1> DEFINE q == m \div GapUnit
           rest == m % GapUnit
<1>1. q \in Nat /\ rest \in Nat /\ rest < GapUnit /\ m = GapUnit * q + rest
  BY WholeUnits
<1> HIDE DEF q, rest
<1>2. GapUnit * a \in Int /\ GapUnit * q \in Int
  BY <1>1, TimesUnit
<1>3. ~ (a < q)
  <2> SUFFICES ASSUME a < q PROVE FALSE
    OBVIOUS
  <2>1. GapUnit * a + GapUnit <= GapUnit * q
    BY <1>1, TimesUnit
  <2> QED
    BY <1>1, <1>2, <2>1, Constants
<1>4. ~ (q < a)
  <2> SUFFICES ASSUME q < a PROVE FALSE
    OBVIOUS
  <2>1. GapUnit * q + GapUnit <= GapUnit * a
    BY <1>1, TimesUnit
  <2> QED
    BY <1>1, <1>2, <2>1, Constants
<1>5. a = q
  BY <1>1, <1>3, <1>4
<1>6. 2 * rest = GapUnit
  BY <1>1, <1>2, <1>5, Constants
<1> QED
  BY <1>6 DEF Tied, rest

(* A distance within the week is no more units than the week.              *)
LEMMA UnitsInWeek ==
  ASSUME NEW m \in Nat, m <= WeekTicks
  PROVE  ToUnits(m) \in 0 .. CycleUnits
<1>1. /\ ToUnits(m) \in Nat
      /\ 2 * (GapUnit * ToUnits(m)) <= 2 * m + GapUnit
  BY RoundBounds
<1>2. SUFFICES ASSUME CycleUnits < ToUnits(m) PROVE FALSE
  BY <1>1, Constants
<1>3. GapUnit * CycleUnits + GapUnit <= GapUnit * ToUnits(m)
  BY <1>1, <1>2, TimesUnit, Constants
<1>4. GapUnit * CycleUnits = WeekTicks
  BY DEF WeekTicks
<1>5. GapUnit * ToUnits(m) \in Int
  BY <1>1, TimesUnit
<1> QED
  BY <1>1, <1>3, <1>4, <1>5, Constants

(* A firing list is a sequence of firings in order.                        *)
LEMMA AskedInOrder ==
  ASSUME asked \in FiringLists
  PROVE  /\ asked \in Seq(Firing)
         /\ n \in Nat
         /\ \A j, k \in 1 .. n : j < k => asked[j].when <= asked[k].when
BY FiringListsAssumption DEF n

(* Gaps run forwards.                                                      *)
LEMMA Distance ==
  ASSUME TypeOK, PulledInOrder, NEW k \in 1 .. n
  PROVE  /\ n \in Nat
         /\ firings[k].when \in Nat
         /\ GapEnd(k) \in 0 .. WeekTicks
         /\ GapEnd(k) - firings[k].when \in Nat
         /\ GapEnd(k) - firings[k].when <= WeekTicks
         /\ Over(k) \in Int
<1>1. n \in Nat /\ asked \in Seq(Firing)
  BY AskedInOrder DEF TypeOK
<1>2. /\ firings[k] \in Firing
      /\ k < n => firings[k + 1] \in Firing
  BY <1>1 DEF TypeOK
<1>3. /\ firings[k].when \in 0 .. WeekTicks - 1
      /\ k < n => firings[k + 1].when \in 0 .. WeekTicks - 1
  BY <1>2 DEF Firing
<1>4. k < n => firings[k].when <= firings[k + 1].when
  BY <1>1 DEF PulledInOrder
<1>5. /\ GapEnd(k) \in 0 .. WeekTicks
      /\ GapEnd(k) - firings[k].when \in Nat
      /\ GapEnd(k) - firings[k].when <= WeekTicks
  BY <1>1, <1>3, <1>4, Constants DEF GapEnd
<1>6. ToUnits(GapEnd(k) - firings[k].when) \in Nat
  BY <1>5, RoundBounds
<1> QED
  BY <1>1, <1>3, <1>5, <1>6, Constants DEF Over

LEMMA LastElement ==
  ASSUME NEW S, NEW s \in Seq(S)
  PROVE  /\ Len(s) \in Nat
         /\ s # <<>> <=> Len(s) > 0
         /\ Len(s) > 0 => s[Len(s)] \in S
OBVIOUS

LEMMA InitHolds == Init => IInv
<1> SUFFICES ASSUME Init PROVE IInv
  OBVIOUS
<1>1. /\ asked \in FiringLists /\ asked \in Seq(Firing) /\ n \in Nat
      /\ \A j, k \in 1 .. n : j < k => asked[j].when <= asked[k].when
  BY AskedInOrder DEF Init
<1>2. TypeOK
  BY <1>1, Constants DEF Init, TypeOK, n
<1>3. PulledInOrder
  <2>1. \A k \in 1 .. n : asked[k] \in Firing
    BY <1>1 DEF n
  <2>2. \A k \in 1 .. n : asked[k].when \in 0 .. WeekTicks - 1
    BY <2>1 DEF Firing
  <2> QED
    BY <1>1, <2>2, Constants DEF Init, PulledInOrder
<1>4. Joined /\ RoundingIsBounded
  BY <1>1 DEF Init, Joined, RoundingIsBounded
<1>5. Progress /\ Clamped /\ Counted /\ Unpulled
  BY <1>1 DEF Init, Progress, Clamped, Counted, Unpulled
<1> QED
  BY <1>2, <1>3, <1>4, <1>5 DEF IInv

(* Pulling a watering MaxGapUnits after the one before it.                 *)
LEMMA PullStep == IInv /\ Pull => IInv'
<1> SUFFICES ASSUME IInv, Pull PROVE IInv'
  OBVIOUS
<1> DEFINE d == GapEnd(i) - firings[i].when
           new == firings[i + 1].when - Over(i) * GapUnit
<1>1. /\ n \in Nat /\ n' = n /\ asked' = asked /\ stage' = stage /\ stage = "clamp"
      /\ i \in 1 .. n /\ i + 1 \in 1 .. n /\ i < n /\ chain = <<>> /\ chain' = chain
  BY AskedInOrder DEF IInv, TypeOK, Pull, n, Progress
<1>2. /\ firings \in Seq(Firing) /\ Len(firings) = n
      /\ firings[i] \in Firing /\ firings[i + 1] \in Firing
  BY <1>1 DEF IInv, TypeOK
<1>3. /\ firings[i].when \in 0 .. WeekTicks - 1
      /\ firings[i + 1].when \in 0 .. WeekTicks - 1
      /\ firings[i + 1].duration \in Nat
  BY <1>2 DEF Firing
<1>4. /\ d \in Nat /\ d = firings[i + 1].when - firings[i].when
      /\ Over(i) \in Int /\ Over(i) > 0
      /\ Over(i) = ToUnits(d) - MaxGapUnits
      /\ ToUnits(d) \in Nat
      /\ 2 * (GapUnit * ToUnits(d)) <= 2 * d + GapUnit
      /\ 2 * d <= 2 * (GapUnit * ToUnits(d)) + GapUnit
  <2>1. d \in Nat /\ Over(i) \in Int
    BY <1>1, Distance DEF IInv
  <2>2. d = firings[i + 1].when - firings[i].when
    BY <1>1 DEF GapEnd
  <2>3. Over(i) > 0 /\ Over(i) = ToUnits(d) - MaxGapUnits
    BY DEF Pull, Over
  <2> QED
    BY <2>1, <2>2, <2>3, RoundBounds
<1>5. /\ GapUnit * Over(i) = GapUnit * ToUnits(d) - GapUnit * MaxGapUnits
      /\ GapUnit <= GapUnit * MaxGapUnits
      /\ GapUnit * Over(i) \in Nat
      /\ GapUnit * ToUnits(d) \in Int /\ GapUnit * MaxGapUnits \in Int
      /\ Over(i) * GapUnit = GapUnit * Over(i)
  <2>1. GapUnit * 1 <= GapUnit * MaxGapUnits /\ GapUnit * 0 <= GapUnit * Over(i)
    BY <1>4, TimesUnit, Constants
  <2>2. GapUnit * Over(i) = GapUnit * ToUnits(d) - GapUnit * MaxGapUnits
    BY <1>4, TimesUnit, Constants
  <2> QED
    BY <1>4, <2>1, <2>2, Constants
<1> HIDE DEF d
<1>6. /\ new \in 0 .. WeekTicks - 1
      /\ firings[i].when <= new
      /\ new <= firings[i + 1].when
      /\ new - firings[i].when \in Nat
      /\ 2 * (GapUnit * MaxGapUnits) <= 2 * (new - firings[i].when) + GapUnit
      /\ 2 * (new - firings[i].when) <= 2 * (GapUnit * MaxGapUnits) + GapUnit
  BY <1>3, <1>4, <1>5, Constants
<1> HIDE DEF new
<1>7. /\ firings' \in Seq(Firing) /\ Len(firings') = n
      /\ \A k \in 1 .. n : firings'[k].when = IF k = i + 1 THEN new ELSE firings[k].when
      /\ \A k \in 1 .. n : k # i + 1 => firings'[k] = firings[k]
  <2>1. firings' = [firings EXCEPT ![i + 1] = [firings[i + 1] EXCEPT !.when = new]]
    BY DEF Pull, new
  <2>2. [firings[i + 1] EXCEPT !.when = new] \in Firing
    BY <1>2, <1>6 DEF Firing
  <2>3. [firings[i + 1] EXCEPT !.when = new].when = new
    BY <1>2 DEF Firing
  <2> HIDE DEF new
  <2> QED
    BY <1>1, <1>2, <2>1, <2>2, <2>3
<1>8. TypeOK'
  BY <1>1, <1>7 DEF IInv, TypeOK, Pull
<1>9. PulledInOrder'
  <2>1. \A j, k \in 1 .. n : j < k => firings[j].when <= firings[k].when
    BY DEF IInv, PulledInOrder
  <2>2. \A k \in 1 .. n : firings[k].when \in Nat /\ asked[k].when \in Nat
    <3>1. \A k \in 1 .. n : firings[k] \in Firing
      BY <1>2
    <3>2. asked \in Seq(Firing) /\ n = Len(asked)
      BY AskedInOrder DEF IInv, TypeOK, n
    <3>3. \A k \in 1 .. n : asked[k] \in Firing
      BY <3>2
    <3> QED
      BY <3>1, <3>3, Constants DEF Firing
  <2>3. ASSUME NEW j \in 1 .. n, NEW k \in 1 .. n, j < k
        PROVE  firings'[j].when <= firings'[k].when
    <3>1. CASE k = i + 1
      <4>1. j \in 1 .. i /\ j # i + 1
        BY <1>1, <2>3, <3>1
      <4>2. firings[j].when <= firings[i].when
        BY <1>1, <1>3, <2>1, <4>1
      <4>3. firings'[j].when = firings[j].when /\ firings'[k].when = new
        BY <1>7, <3>1, <4>1
      <4> QED
        BY <1>3, <1>6, <2>2, <4>2, <4>3
    <3>2. CASE j = i + 1
      <4>1. firings[j].when <= firings[k].when /\ firings[j].when \in Nat /\ firings[k].when \in Nat
        BY <2>1, <2>2, <2>3
      <4>2. firings'[j].when = new /\ firings'[k].when = firings[k].when
        BY <1>7, <2>3, <3>2
      <4> QED
        BY <1>3, <1>6, <3>2, <4>1, <4>2
    <3>3. CASE j # i + 1 /\ k # i + 1
      BY <1>7, <2>1, <2>3, <3>3
    <3> QED
      BY <3>1, <3>2, <3>3
  <2>4. \A k \in 1 .. n : firings'[k].when <= asked[k].when
    <3>1. \A k \in 1 .. n : firings[k].when <= asked[k].when
      BY DEF IInv, PulledInOrder
    <3>2. /\ new \in Int /\ firings[i + 1].when \in Int
          /\ new <= firings[i + 1].when
      BY <1>3, <1>6
    <3> QED
      BY <1>1, <1>7, <2>2, <3>1, <3>2
  <2>5. firings'[1] = asked[1]
    BY <1>1, <1>7 DEF IInv, PulledInOrder
  <2> QED
    BY <1>1, <2>3, <2>4, <2>5 DEF PulledInOrder
<1>10. Joined' /\ RoundingIsBounded'
  BY <1>1 DEF Joined, RoundingIsBounded
<1>11. Progress' /\ Counted'
  BY <1>1 DEF IInv, Progress, Counted
<1>12. Clamped'
  <2>1. ASSUME NEW k \in 1 .. n - 1, k < i
        PROVE  Over(k)' <= 0 \/ (Over(k)' = 1 /\ Tied((GapEnd(k) - firings[k].when)'))
    <3>1. Over(k)' = Over(k) /\ (GapEnd(k) - firings[k].when)' = GapEnd(k) - firings[k].when
      BY <1>1, <1>7, <2>1 DEF Over, GapEnd
    <3> QED
      BY <1>1, <2>1, <3>1 DEF IInv, Clamped
  <2>2. ASSUME NEW k \in 1 .. n - 1, k = i
        PROVE  Over(k)' <= 0 \/ (Over(k)' = 1 /\ Tied((GapEnd(k) - firings[k].when)'))
    <3>1. Over(k)' = ToUnits(new - firings[i].when) - MaxGapUnits
      BY <1>1, <1>7, <2>2 DEF Over, GapEnd
    <3>2. \/ ToUnits(new - firings[i].when) <= MaxGapUnits
          \/ /\ ToUnits(new - firings[i].when) = MaxGapUnits + 1
             /\ Tied(new - firings[i].when)
      <4> DEFINE e == new - firings[i].when
      <4>1. /\ e \in Nat /\ ToUnits(e) \in Nat
            /\ 2 * (GapUnit * ToUnits(e)) <= 2 * e + GapUnit
        BY <1>6, RoundBounds
      <4>2. 2 * e <= 2 * (GapUnit * MaxGapUnits) + GapUnit
        BY <1>6
      <4> HIDE DEF e
      <4>3. /\ GapUnit * ToUnits(e) \in Int /\ GapUnit * MaxGapUnits \in Int
            /\ GapUnit * (MaxGapUnits + 1) = GapUnit * MaxGapUnits + GapUnit
        <5>1. GapUnit * (MaxGapUnits + 1) = GapUnit * MaxGapUnits + GapUnit * 1
          BY TimesUnit, Constants
        <5>2. GapUnit * ToUnits(e) \in Int /\ GapUnit * MaxGapUnits \in Int
          BY <4>1, TimesUnit, Constants
        <5> QED
          BY <5>1, <5>2, Constants
      <4>4. ASSUME MaxGapUnits + 1 < ToUnits(e) PROVE FALSE
        <5>1. GapUnit * (MaxGapUnits + 1) + GapUnit <= GapUnit * ToUnits(e)
          BY <4>1, <4>4, TimesUnit, Constants
        <5> QED
          BY <4>1, <4>2, <4>3, <5>1, Constants
      <4>5. ASSUME ToUnits(e) = MaxGapUnits + 1 PROVE Tied(e)
        <5>1. 2 * e = 2 * (GapUnit * MaxGapUnits) + GapUnit
          BY <4>1, <4>2, <4>3, <4>5, Constants
        <5> QED
          BY <4>1, <5>1, TiedWhen, Constants
      <4>6. ToUnits(e) <= MaxGapUnits \/ (ToUnits(e) = MaxGapUnits + 1 /\ Tied(e))
        BY <4>1, <4>4, <4>5, Constants
      <4> QED
        BY <4>6 DEF e
    <3>3. (GapEnd(k) - firings[k].when)' = new - firings[i].when
      BY <1>1, <1>7, <2>2 DEF GapEnd
    <3>4. ToUnits(new - firings[i].when) \in Nat
      BY <1>6, RoundBounds
    <3>5. \/ Over(k)' <= 0
          \/ Over(k)' = 1 /\ Tied((GapEnd(k) - firings[k].when)')
      BY <3>1, <3>2, <3>3, <3>4, Constants
    <3> QED
      BY <3>5
  <2> QED
    BY <1>1, <2>1, <2>2 DEF Clamped, Pull, Tied
<1>13. Unpulled'
  <2> SUFFICES ASSUME CloseTogether PROVE FALSE
    BY <1>1 DEF Unpulled, CloseTogether
  <2>1. firings = asked
    BY DEF IInv, Unpulled
  <2>2. ToUnits(d) <= MaxGapUnits
    BY <1>1, <1>4, <2>1 DEF CloseTogether
  <2> QED
    BY <1>4, <2>2, Constants
<1> QED
  BY <1>8, <1>9, <1>10, <1>11, <1>12, <1>13 DEF IInv

LEMMA KeepStep == IInv /\ Keep => IInv'
<1> SUFFICES ASSUME IInv, Keep PROVE IInv'
  OBVIOUS
<1>1. /\ n \in Nat /\ n' = n /\ stage = "clamp" /\ stage' = stage
      /\ i \in 1 .. n /\ i' = i + 1
      /\ asked' = asked /\ firings' = firings /\ lead' = lead
      /\ chain = <<>> /\ chain' = chain
  BY AskedInOrder DEF IInv, TypeOK, Keep, n, Progress
<1>2. TypeOK' /\ PulledInOrder'
  BY <1>1 DEF IInv, TypeOK, PulledInOrder
<1>3. Joined' /\ RoundingIsBounded' /\ Progress' /\ Counted'
  BY <1>1 DEF IInv, Joined, RoundingIsBounded, Progress, Counted
<1>4. Clamped'
  <2>1. ASSUME NEW k \in 1 .. n - 1, k < i + 1
        PROVE  Over(k)' <= 0 \/ (Over(k)' = 1 /\ Tied((GapEnd(k) - firings[k].when)'))
    <3>1. Over(k)' = Over(k) /\ (GapEnd(k) - firings[k].when)' = GapEnd(k) - firings[k].when
      BY <1>1 DEF Over, GapEnd
    <3>2. k < i => Over(k) <= 0 \/ (Over(k) = 1 /\ Tied(GapEnd(k) - firings[k].when))
      BY <1>1 DEF IInv, Clamped
    <3>3. k = i => Over(k) <= 0
      BY <1>1, <2>1 DEF Keep
    <3> QED
      BY <1>1, <2>1, <3>1, <3>2, <3>3
  <2> QED
    BY <1>1, <2>1 DEF Clamped, Tied
<1>5. Unpulled'
  BY <1>1 DEF IInv, Unpulled, CloseTogether
<1> QED
  BY <1>2, <1>3, <1>4, <1>5 DEF IInv

LEMMA LeadStep == IInv /\ Lead => IInv'
<1> SUFFICES ASSUME IInv, Lead PROVE IInv'
  OBVIOUS
<1>1. /\ n \in Nat /\ n' = n /\ stage = "clamp" /\ stage' = "gaps"
      /\ n > 0 /\ i = n + 1 /\ i' = 1
      /\ asked' = asked /\ firings' = firings /\ lead' = ToUnits(firings[1].when)
      /\ chain = <<>> /\ chain' = chain
  BY AskedInOrder DEF IInv, TypeOK, Lead, n, Progress
<1>2. /\ firings[1].when \in Nat /\ firings[1].when <= WeekTicks
  <2>1. firings[1] \in Firing
    BY <1>1 DEF IInv, TypeOK
  <2> QED
    BY <2>1, Constants DEF Firing
<1>3. lead' \in 0 .. CycleUnits
  BY <1>1, <1>2, UnitsInWeek
<1>4. TypeOK' /\ PulledInOrder'
  BY <1>1, <1>3 DEF IInv, TypeOK, PulledInOrder
<1>5. Joined' /\ RoundingIsBounded' /\ Progress'
  BY <1>1 DEF IInv, Joined, RoundingIsBounded, Progress
<1>6. Clamped'
  <2>1. \A k \in 1 .. n - 1 :
          Over(k)' = Over(k) /\ (GapEnd(k) - firings[k].when)' = GapEnd(k) - firings[k].when
    BY <1>1 DEF Over, GapEnd
  <2> QED
    BY <1>1, <2>1 DEF IInv, Clamped, Tied
<1>7. Counted'
  <2>1. Near(lead', firings[1].when, 1)
    <3>1. /\ ToUnits(firings[1].when) \in Nat
          /\ 2 * (GapUnit * ToUnits(firings[1].when)) <= 2 * firings[1].when + GapUnit
          /\ 2 * firings[1].when <= 2 * (GapUnit * ToUnits(firings[1].when)) + GapUnit
      BY <1>2, RoundBounds
    <3>2. GapUnit * 1 = GapUnit
      BY Constants
    <3> QED
      BY <1>1, <3>1, <3>2 DEF Near
  <2> QED
    BY <1>1, <2>1 DEF Counted, Total
<1>8. Unpulled'
  BY <1>1 DEF IInv, Unpulled, CloseTogether
<1> QED
  BY <1>4, <1>5, <1>6, <1>7, <1>8 DEF IInv

(* One gap more, one rounding more.                                        *)
LEMMA NearAdds ==
  ASSUME NEW a \in Int, NEW m \in Int, NEW k \in Nat, NEW d \in Nat, Near(a, m, k)
  PROVE  Near(a + ToUnits(d), m + d, k + 1)
<1>1. /\ ToUnits(d) \in Nat
      /\ 2 * (GapUnit * ToUnits(d)) <= 2 * d + GapUnit
      /\ 2 * d <= 2 * (GapUnit * ToUnits(d)) + GapUnit
  BY RoundBounds
<1>2. /\ GapUnit * (a + ToUnits(d)) = GapUnit * a + GapUnit * ToUnits(d)
      /\ GapUnit * a \in Int /\ GapUnit * ToUnits(d) \in Int
  <2>1. ToUnits(d) \in Int
    BY <1>1
  <2> QED
    BY <2>1, TimesUnit
<1>3. /\ 2 * (GapUnit * a) <= 2 * m + GapUnit * k
      /\ 2 * m <= 2 * (GapUnit * a) + GapUnit * k
  BY DEF Near
<1>4. GapUnit * (k + 1) = GapUnit * k + GapUnit /\ GapUnit * k \in Int
  <2>1. GapUnit * (k + 1) = GapUnit * k + GapUnit * 1 /\ GapUnit * k \in Int
    BY TimesUnit
  <2> QED
    BY <2>1, Constants
<1>5. /\ 2 * (GapUnit * (a + ToUnits(d))) <= 2 * (m + d) + GapUnit * (k + 1)
      /\ 2 * (m + d) <= 2 * (GapUnit * (a + ToUnits(d))) + GapUnit * (k + 1)
  BY <1>1, <1>2, <1>3, <1>4, Constants
<1> QED
  BY <1>5 DEF Near

LEMMA GapStep == IInv /\ Gap => IInv'
<1> SUFFICES ASSUME IInv, Gap PROVE IInv'
  OBVIOUS
<1> DEFINE d == GapEnd(i) - firings[i].when
           e == [duration |-> firings[i].duration, start |-> Total, gap |-> ToUnits(d)]
<1>1. /\ n \in Nat /\ n' = n /\ stage = "gaps" /\ stage' = "gaps"
      /\ i \in 1 .. n /\ i' = i + 1
      /\ asked' = asked /\ firings' = firings /\ lead' = lead
      /\ Len(chain) = i - 1 /\ chain' = Append(chain, e)
  BY AskedInOrder DEF IInv, TypeOK, Gap, n, Progress
<1>2. /\ firings[i] \in Firing /\ firings[i].duration \in Nat
      /\ firings[i].when \in Nat /\ GapEnd(i) \in Nat /\ d \in Nat /\ ToUnits(d) \in Nat
  <2>1. firings[i] \in Firing
    BY <1>1 DEF IInv, TypeOK
  <2> QED
    <3>1. firings[i].duration \in Nat
      BY <2>1 DEF Firing
    <3>2. firings[i].when \in Nat /\ GapEnd(i) \in Nat /\ d \in Nat
      BY <1>1, Distance, Constants DEF IInv
    <3> HIDE DEF d
    <3> QED
      BY <2>1, <3>1, <3>2, RoundBounds
<1>3. Total \in Int
  <2>1. chain # <<>> => chain[Len(chain)] \in [duration : Nat, start : Int, gap : Int]
    BY LastElement DEF IInv, TypeOK
  <2>2. lead \in Int
    BY Constants DEF IInv, TypeOK
  <2> QED
    BY <2>1, <2>2 DEF Total
<1> HIDE DEF d
<1>4. /\ e \in [duration : Nat, start : Int, gap : Int]
      /\ e.start = Total /\ e.gap = ToUnits(d) /\ e.duration = firings[i].duration
  BY <1>2, <1>3
<1> HIDE DEF e
<1>5. /\ chain \in Seq([duration : Nat, start : Int, gap : Int])
      /\ chain' \in Seq([duration : Nat, start : Int, gap : Int])
      /\ Len(chain') = i
      /\ chain'[i] = e /\ \A k \in 1 .. i - 1 : chain'[k] = chain[k]
  BY <1>1, <1>4 DEF IInv, TypeOK
<1>6. TypeOK' /\ PulledInOrder'
  BY <1>1, <1>5 DEF IInv, TypeOK, PulledInOrder
<1>7. Joined'
  <2>1. \A k \in 1 .. i - 2 : chain[k + 1].start = chain[k].start + chain[k].gap
    BY <1>1 DEF IInv, Joined
  <2>2. i > 1 => Total = chain[i - 1].start + chain[i - 1].gap
    BY <1>1, <1>5 DEF Total
  <2>3. i = 1 => Total = lead
    BY <1>1, <1>5 DEF Total
  <2>4. \A k \in 1 .. i - 1 : chain'[k + 1].start = chain'[k].start + chain'[k].gap
    <3>1. ASSUME NEW k \in 1 .. i - 1, k < i - 1
          PROVE  chain'[k + 1].start = chain'[k].start + chain'[k].gap
      BY <1>1, <1>5, <2>1, <3>1
    <3>2. i > 1 => chain'[i].start = chain'[i - 1].start + chain'[i - 1].gap
      BY <1>1, <1>4, <1>5, <2>2
    <3> QED
      BY <1>1, <3>1, <3>2
  <2>5. chain'[1].start = lead
    BY <1>1, <1>4, <1>5, <2>3 DEF IInv, Joined
  <2> QED
    BY <1>1, <1>5, <2>4, <2>5 DEF Joined
<1>8. Near(Total, firings[i].when, i)
  BY <1>1 DEF IInv, Counted
<1>9. RoundingIsBounded'
  <2>1. ASSUME NEW k \in 1 .. i PROVE Near(chain'[k].start, firings[k].when, k)
    <3>1. CASE k = i
      BY <1>4, <1>5, <1>8, <3>1
    <3>2. CASE k < i
      BY <1>1, <1>5, <3>2 DEF IInv, RoundingIsBounded
    <3> QED
      BY <1>1, <3>1, <3>2
  <2> QED
    BY <1>1, <1>5, <2>1 DEF RoundingIsBounded, Near
<1>10. Progress'
  BY <1>1, <1>5 DEF IInv, Progress
<1>11. Clamped'
  <2>1. \A k \in 1 .. n - 1 :
          Over(k)' = Over(k) /\ (GapEnd(k) - firings[k].when)' = GapEnd(k) - firings[k].when
    BY <1>1 DEF Over, GapEnd
  <2> QED
    BY <1>1, <2>1 DEF IInv, Clamped, Tied
<1>12. Counted'
  <2>1. \A k \in 1 .. n : GapEnd(k)' = GapEnd(k)
    BY <1>1 DEF GapEnd
  <2>2. ASSUME NEW k \in 1 .. i
        PROVE  /\ chain'[k].duration = firings[k].duration
               /\ k < n => chain'[k].gap = ToUnits(GapEnd(k) - firings[k].when)
    <3>1. CASE k = i
      BY <1>4, <1>5, <3>1 DEF d
    <3>2. CASE k < i
      <4>1. k \in 1 .. Len(chain) /\ chain'[k] = chain[k]
        BY <1>1, <1>5, <3>2
      <4> QED
        BY <4>1 DEF IInv, Counted
    <3> QED
      BY <1>1, <3>1, <3>2
  <2>3. Total' = Total + ToUnits(d)
    <3>1. chain' # <<>> /\ chain'[Len(chain')] = e
      BY <1>1, <1>5
    <3> QED
      BY <1>4, <3>1 DEF Total
  <2>4. Near(Total', GapEnd(i), i + 1)
    <3>1. firings[i].when + d = GapEnd(i)
      BY <1>2 DEF d
    <3> QED
      BY <1>1, <1>2, <1>3, <1>8, <2>3, <3>1, NearAdds
  <2>5. GapEnd(i) = IF i + 1 <= n THEN firings[i + 1].when ELSE WeekTicks
    BY <1>1 DEF GapEnd
  <2> QED
    BY <1>1, <1>5, <2>1, <2>2, <2>4, <2>5 DEF Counted
<1>13. Unpulled'
  BY <1>1 DEF IInv, Unpulled, CloseTogether
<1> QED
  BY <1>6, <1>7, <1>9, <1>10, <1>11, <1>12, <1>13 DEF IInv

LEMMA CloseStep == IInv /\ Close => IInv'
<1> SUFFICES ASSUME IInv, Close PROVE IInv'
  OBVIOUS
<1> DEFINE Entry == [duration : Nat, start : Int, gap : Int]
<1>1. /\ n \in Nat /\ n' = n /\ n > 0 /\ stage = "gaps" /\ stage' = "done"
      /\ i = n + 1 /\ i' = i
      /\ asked' = asked /\ firings' = firings /\ lead' = lead
      /\ chain \in Seq(Entry) /\ Len(chain) = n /\ chain[n] \in Entry
  <2>1. /\ n \in Nat /\ n' = n /\ n > 0 /\ stage = "gaps" /\ stage' = "done"
        /\ i = n + 1 /\ i' = i
        /\ asked' = asked /\ firings' = firings /\ lead' = lead
        /\ chain \in Seq(Entry) /\ Len(chain) = n
    BY AskedInOrder DEF IInv, TypeOK, Close, n, Progress
  <2> HIDE DEF Entry
  <2> QED
    BY <2>1, LastElement
<1>2. Total = chain[n].start + chain[n].gap
  BY <1>1 DEF Total
<1>3. /\ chain[n].start \in Int /\ chain[n].gap \in Int /\ CycleUnits \in Int
  BY <1>1, Constants
<1> DEFINE g == chain[n].gap + (CycleUnits - Total)
<1>4. g \in Int /\ chain[n].start + g = CycleUnits
  BY <1>2, <1>3
<1>5. chain' = [chain EXCEPT ![n] = [chain[n] EXCEPT !.gap = g]]
  BY DEF Close
<1> HIDE DEF g
<1>6. /\ [chain[n] EXCEPT !.gap = g] \in Entry
      /\ [chain[n] EXCEPT !.gap = g].gap = g
      /\ [chain[n] EXCEPT !.gap = g].start = chain[n].start
      /\ [chain[n] EXCEPT !.gap = g].duration = chain[n].duration
  BY <1>1, <1>4
<1>7. /\ chain' \in Seq(Entry) /\ Len(chain') = n
      /\ chain'[n].gap = g /\ chain'[n].start = chain[n].start
      /\ chain'[n].duration = chain[n].duration
      /\ \A k \in 1 .. n - 1 : chain'[k] = chain[k]
  BY <1>1, <1>5, <1>6
<1>8. TypeOK' /\ PulledInOrder'
  BY <1>1, <1>7 DEF IInv, TypeOK, PulledInOrder
<1>9. \A k \in 1 .. n : chain'[k].start = chain[k].start
  <2>1. ASSUME NEW k \in 1 .. n PROVE k = n \/ k \in 1 .. n - 1
    BY <1>1
  <2> QED
    BY <1>7, <2>1
<1>10. Joined'
  <2>1. \A k \in 1 .. n - 1 : chain'[k + 1].start = chain'[k].start + chain'[k].gap
    <3>1. \A k \in 1 .. n - 1 : chain[k + 1].start = chain[k].start + chain[k].gap
      BY <1>1 DEF IInv, Joined
    <3>2. ASSUME NEW k \in 1 .. n - 1
          PROVE  /\ chain'[k + 1].start = chain[k + 1].start
                 /\ chain'[k] = chain[k]
      BY <1>1, <1>7, <1>9
    <3> QED
      BY <3>1, <3>2
  <2>2. chain'[1].start = lead
    <3>1. chain # <<>>
      BY <1>1
    <3>2. chain[1].start = lead
      BY <3>1 DEF IInv, Joined
    <3> QED
      BY <1>1, <1>9, <3>2
  <2> QED
    BY <1>1, <1>4, <1>7, <2>1, <2>2 DEF Joined
<1>11. RoundingIsBounded'
  BY <1>1, <1>7, <1>9 DEF IInv, RoundingIsBounded, Near
<1>12. Progress'
  BY <1>1 DEF IInv, Progress
<1>13. Clamped'
  <2>1. \A k \in 1 .. n - 1 :
          Over(k)' = Over(k) /\ (GapEnd(k) - firings[k].when)' = GapEnd(k) - firings[k].when
    BY <1>1 DEF Over, GapEnd
  <2> QED
    BY <1>1, <2>1 DEF IInv, Clamped, Tied
<1>14. Counted'
  <2>1. \A k \in 1 .. n : GapEnd(k)' = GapEnd(k)
    BY <1>1 DEF GapEnd
  <2> QED
    BY <1>1, <1>7, <2>1 DEF IInv, Counted
<1>15. Unpulled'
  BY <1>1 DEF IInv, Unpulled, CloseTogether
<1> QED
  BY <1>8, <1>10, <1>11, <1>12, <1>13, <1>14, <1>15 DEF IInv

(* The inductive invariant of the two loops of build, behind the theorems    *)
(* below: each gap already clamped is short and not negative, and the units  *)
(* counted are those of the waterings passed.                                *)
THEOREM Invariance == Spec => []IInv
<1>1. Init => IInv
  BY InitHolds
<1>2. IInv /\ [Next]_vars => IInv'
  <2> SUFFICES ASSUME IInv, [Next]_vars PROVE IInv'
    OBVIOUS
  <2>1. CASE UNCHANGED vars
    BY <2>1 DEF vars, IInv, TypeOK, PulledInOrder, Joined, RoundingIsBounded,
                Progress, Clamped, Counted, Unpulled, CloseTogether, Near, Total, Over,
                Tied, GapEnd, n
  <2> QED
    BY <2>1, PullStep, KeepStep, LeadStep, GapStep, CloseStep DEF Next
<1> QED
  BY <1>1, <1>2, PTL DEF Spec

(* Every variable keeps its type.                                          *)
THEOREM TypeCorrect == Spec => []TypeOK
BY Invariance, PTL DEF IInv

(* clamp_gaps keeps the order and only ever pulls forward.                 *)
THEOREM ClampingKeepsOrder == Spec => []PulledInOrder
BY Invariance, PTL DEF IInv

(* The gap between two waterings is MaxGapUnits at the most, and one unit  *)
(* more only where the sun leaves it halfway between two.                  *)
THEOREM ClampingShortensGaps == Spec => []InnerGapsAreShort
<1>1. IInv => InnerGapsAreShort
  <2> SUFFICES ASSUME IInv, NEW k \in 1 .. Len(chain), k < n
               PROVE  \/ chain[k].gap \in 0 .. MaxGapUnits
                      \/ /\ chain[k].gap = MaxGapUnits + 1
                         /\ Tied(GapEnd(k) - firings[k].when)
    BY DEF InnerGapsAreShort
  <2>1. stage # "clamp"
    BY DEF IInv, Progress
  <2>2. k \in 1 .. n /\ k \in 1 .. n - 1
    BY AskedInOrder DEF IInv, TypeOK
  <2>3. chain[k].gap = ToUnits(GapEnd(k) - firings[k].when)
    BY DEF IInv, Counted
  <2>4. Over(k) <= 0 \/ (Over(k) = 1 /\ Tied(GapEnd(k) - firings[k].when))
    BY <2>1, <2>2 DEF IInv, Clamped
  <2>5. chain[k].gap \in Nat
    BY <2>2, <2>3, Distance, RoundBounds DEF IInv
  <2>6. Over(k) = chain[k].gap - MaxGapUnits
    BY <2>3 DEF Over
  <2> QED
    BY <2>4, <2>5, <2>6, Constants
<1> QED
  BY <1>1, Invariance, PTL

(* The last gap makes up for the rounding of all the others: it closes the *)
(* week exactly, is the rest of it within half a unit for each watering, and *)
(* is negative only if the last watering is nearer to the end of the week  *)
(* than that.                                                              *)
THEOREM LastGapStaysTheRest == Spec => []LastGapIsTheRest
<1>1. IInv => LastGapIsTheRest
  <2> SUFFICES ASSUME IInv, stage = "done", n > 0
               PROVE  /\ chain[n].start + chain[n].gap = CycleUnits
                      /\ Near(chain[n].gap, WeekTicks - firings[n].when, n)
                      /\ chain[n].gap < 0 =>
                           2 * (WeekTicks - firings[n].when) <= GapUnit * (n - 2)
    BY DEF LastGapIsTheRest
  <2> DEFINE g == chain[n].gap
             b == chain[n].start
             w == firings[n].when
  <2>1. n \in Nat /\ n \in 1 .. n
    BY AskedInOrder DEF IInv, TypeOK
  <2>2. /\ Len(chain) = n /\ b + g = CycleUnits
        /\ g \in Int /\ b \in Int
    <3>1. Len(chain) = n /\ b + g = CycleUnits
      BY DEF IInv, Joined
    <3>2. chain[n] \in [duration : Nat, start : Int, gap : Int]
      <4> DEFINE Entry == [duration : Nat, start : Int, gap : Int]
      <4>1. chain \in Seq(Entry)
        BY DEF IInv, TypeOK
      <4> HIDE DEF Entry
      <4>2. chain[n] \in Entry
        BY <2>1, <3>1, <4>1
      <4> QED
        BY <4>2 DEF Entry
    <3> QED
      BY <3>1, <3>2
  <2>3. w \in Nat
    BY <2>1, Distance DEF IInv
  <2>4. Near(b, w, n)
    BY <2>1, <2>2 DEF IInv, RoundingIsBounded
  <2> HIDE DEF g, b, w
  <2>5. 2 * (GapUnit * b) <= 2 * w + GapUnit * n /\ 2 * w <= 2 * (GapUnit * b) + GapUnit * n
    BY <2>4 DEF Near
  <2>6. /\ GapUnit * b + GapUnit * g = WeekTicks
        /\ GapUnit * b \in Int /\ GapUnit * g \in Int /\ GapUnit * n \in Int
    <3>1. /\ GapUnit * (b + g) = GapUnit * b + GapUnit * g
          /\ GapUnit * b \in Int /\ GapUnit * g \in Int
      BY <2>2, TimesUnit
    <3>2. GapUnit * n \in Int
      BY <2>1, TimesUnit
    <3>3. GapUnit * (b + g) = WeekTicks
      BY <2>2 DEF WeekTicks
    <3> QED
      BY <3>1, <3>2, <3>3
  <2>7. Near(g, WeekTicks - w, n)
    <3>1. /\ 2 * (GapUnit * g) <= 2 * (WeekTicks - w) + GapUnit * n
          /\ 2 * (WeekTicks - w) <= 2 * (GapUnit * g) + GapUnit * n
      BY <2>3, <2>5, <2>6, Constants
    <3> QED
      BY <3>1 DEF Near
  <2>8. ASSUME g < 0 PROVE 2 * (WeekTicks - w) <= GapUnit * (n - 2)
    <3>1. GapUnit * g + GapUnit <= GapUnit * 0 /\ GapUnit * 0 = 0
      BY <2>2, <2>8, TimesUnit, Constants
    <3>2. GapUnit * (n - 2) = GapUnit * n - GapUnit * 2 /\ GapUnit * 2 = 2 * GapUnit
      BY <2>1, TimesUnit, Constants
    <3> QED
      BY <2>3, <2>5, <2>6, <3>1, <3>2, Constants
  <2> QED
    BY <2>2, <2>7, <2>8 DEF g, b, w
<1> QED
  BY <1>1, Invariance, PTL

(* The hub starts the k-th watering within k half units of the time        *)
(* clamp_gaps gave it.                                                     *)
THEOREM RoundingStaysBounded == Spec => []RoundingIsBounded
BY Invariance, PTL DEF IInv

-----------------------------------------------------------------------------
(* Sorting                                                                 *)

StrictOrder(ahead, S) ==
  /\ \A x \in S : <<x, x>> \notin ahead
  /\ \A x, y, z \in S : <<x, y>> \in ahead /\ <<y, z>> \in ahead => <<x, z>> \in ahead
  /\ \A x, y \in S : x = y \/ <<x, y>> \in ahead \/ <<y, x>> \in ahead

(* How many others are ahead of x.                                         *)
RankIn(S, ahead, x) == Cardinality({y \in S : <<y, x>> \in ahead})

(* In a finite set that is ordered, the numbers below its size are the     *)
(* ranks of its elements, and they follow the order.                       *)
LEMMA Ranks ==
  ASSUME NEW S, IsFiniteSet(S), NEW ahead, StrictOrder(ahead, S)
  PROVE  /\ \A x \in S : RankIn(S, ahead, x) \in 0 .. Cardinality(S) - 1
         /\ \A x, y \in S : <<x, y>> \in ahead => RankIn(S, ahead, x) < RankIn(S, ahead, y)
         /\ \A r \in 0 .. Cardinality(S) - 1 : \E x \in S : RankIn(S, ahead, x) = r
<1> DEFINE Below(x) == {y \in S : <<y, x>> \in ahead}
           rank == [x \in S |-> Cardinality(Below(x))]
           size == Cardinality(S)
<1>1. size \in Nat
  BY FS_CardinalityType
<1>2. ASSUME NEW x \in S
      PROVE  /\ IsFiniteSet(Below(x)) /\ Cardinality(Below(x)) \in Nat
             /\ Cardinality(Below(x)) <= size - 1
  <2>1. Below(x) \in SUBSET (S \ {x})
    BY DEF StrictOrder
  <2>2. IsFiniteSet(S \ {x}) /\ Cardinality(S \ {x}) = size - 1
    BY FS_RemoveElement
  <2> HIDE DEF Below, size
  <2>3. IsFiniteSet(Below(x)) /\ Cardinality(Below(x)) <= size - 1
    BY <2>1, <2>2, FS_Subset
  <2>4. QED
    BY <2>3, FS_CardinalityType
<1>3. ASSUME NEW x \in S, NEW y \in S, <<x, y>> \in ahead
      PROVE  Cardinality(Below(x)) < Cardinality(Below(y))
  <2>1. Below(x) \in SUBSET Below(y) /\ x \in Below(y) /\ x \notin Below(x)
    BY <1>3 DEF StrictOrder
  <2> HIDE DEF Below
  <2>2. Cardinality(Below(x)) <= Cardinality(Below(y)) /\ Cardinality(Below(x)) # Cardinality(Below(y))
    BY <1>2, <2>1, FS_Subset
  <2>3. QED
    BY <1>2, <2>2
<1>4. ASSUME NEW x \in S, NEW y \in S, Cardinality(Below(x)) = Cardinality(Below(y))
      PROVE  x = y
  <2> HIDE DEF Below
  <2>1. ~ (<<x, y>> \in ahead) /\ ~ (<<y, x>> \in ahead)
    <3>1. ~ (Cardinality(Below(x)) < Cardinality(Below(y))) /\ ~ (Cardinality(Below(y)) < Cardinality(Below(x)))
      BY <1>2, <1>4
    <3>2. QED
      BY <1>3, <3>1
  <2>2. QED
    BY <2>1 DEF StrictOrder
<1>5. IsFiniteSet(0 .. size - 1) /\ Cardinality(0 .. size - 1) = size
  <2> HIDE DEF size
  <2>1. 0 \in Int /\ size - 1 \in Int
    BY <1>1
  <2>2. QED
    BY <1>1, <2>1, FS_Interval
<1>6. ASSUME NEW r \in 0 .. size - 1 PROVE \E x \in S : Cardinality(Below(x)) = r
  <2> HIDE DEF Below, size
  <2>1. rank \in [S -> 0 .. size - 1]
    BY <1>1, <1>2
  <2>2. \A x, y \in S : rank[x] = rank[y] => x = y
    BY <1>4
  <2> HIDE DEF rank
  <2>3. rank \in Injection(S, 0 .. size - 1)
    BY <2>1, <2>2 DEF Injection, IsInjective
  <2>4. rank \in Surjection(S, 0 .. size - 1)
    BY <1>5, <2>3, FS_Injection DEF size
  <2>5. \E x \in S : rank[x] = r
    BY <2>4 DEF Surjection
  <2>6. QED
    BY <2>5 DEF rank
<1>7. ASSUME NEW x \in S PROVE Cardinality(Below(x)) \in 0 .. size - 1
  <2> HIDE DEF Below, size
  <2>1. QED
    BY <1>1, <1>2
<1>8. QED
  BY <1>3, <1>6, <1>7 DEF RankIn

WateringSet == Int \X Nat \X Nat

(* Sorted puts every watering in the list, the earlier ones first.         *)
LEMMA SortedInOrder ==
  ASSUME NEW S \in SUBSET WateringSet, IsFiniteSet(S)
  PROVE  /\ Cardinality(S) \in Nat /\ DOMAIN Sorted(S) = 1 .. Cardinality(S)
         /\ \A k \in DOMAIN Sorted(S) : Sorted(S)[k] \in S
         /\ \A j, k \in DOMAIN Sorted(S) : j < k => Sorted(S)[j][1] <= Sorted(S)[k][1]
         /\ \A w \in S : \E k \in DOMAIN Sorted(S) : Sorted(S)[k] = w
<1> DEFINE ahead == {r \in S \X S : Before(r[1], r[2])}
           size == Cardinality(S)
<1>1. size \in Nat
  BY FS_CardinalityType
<1>2. \A x, y \in S : <<x, y>> \in ahead <=> Before(x, y)
  OBVIOUS
<1>3. \A x \in S : x = <<x[1], x[2], x[3]>> /\ x[1] \in Int /\ x[2] \in Nat /\ x[3] \in Nat
  BY DEF WateringSet
<1>4. /\ \A x \in S : ~ Before(x, x)
      /\ \A x, y, z \in S : Before(x, y) /\ Before(y, z) => Before(x, z)
      /\ \A x, y \in S : x = y \/ Before(x, y) \/ Before(y, x)
  BY <1>3 DEF Before
<1> HIDE DEF ahead
<1>5. StrictOrder(ahead, S)
  BY <1>2, <1>4 DEF StrictOrder
<1>6. \A x \in S : RankIn(S, ahead, x) = Cardinality({v \in S : Before(v, x)})
  <2>1. \A x \in S : {y \in S : <<y, x>> \in ahead} = {v \in S : Before(v, x)}
    BY <1>2
  <2>2. QED
    BY <2>1 DEF RankIn
<1>7. ASSUME NEW k \in 1 .. size
      PROVE  Sorted(S)[k] \in S /\ RankIn(S, ahead, Sorted(S)[k]) = k - 1
  <2> DEFINE place == k - 1
  <2>1. place \in 0 .. size - 1
    BY <1>1
  <2>2. Sorted(S)[k] = CHOOSE w \in S : Cardinality({v \in S : Before(v, w)}) = place
    BY DEF Sorted
  <2> HIDE DEF place
  <2>3. \E w \in S : RankIn(S, ahead, w) = place
    BY <1>5, <2>1, Ranks
  <2>4. \E w \in S : Cardinality({v \in S : Before(v, w)}) = place
    BY <1>6, <2>3
  <2>5. Sorted(S)[k] \in S /\ Cardinality({v \in S : Before(v, Sorted(S)[k])}) = place
    BY <2>2, <2>4
  <2>6. QED
    BY <1>6, <2>5 DEF place
<1>8. ASSUME NEW j \in 1 .. size, NEW k \in 1 .. size, j < k
      PROVE  Sorted(S)[j][1] <= Sorted(S)[k][1]
  <2> DEFINE a == Sorted(S)[j]
             b == Sorted(S)[k]
  <2>1. a \in S /\ b \in S /\ RankIn(S, ahead, a) = j - 1 /\ RankIn(S, ahead, b) = k - 1
    BY <1>7
  <2> HIDE DEF a, b
  <2>2. ~ Before(b, a)
    <3>1. ~ (RankIn(S, ahead, b) < RankIn(S, ahead, a))
      BY <1>1, <1>8, <2>1
    <3>2. QED
      BY <1>2, <1>5, <2>1, <3>1, Ranks
  <2>3. a[1] <= b[1]
    BY <1>3, <2>1, <2>2 DEF Before
  <2>4. QED
    BY <2>3 DEF a, b
<1>9. DOMAIN Sorted(S) = 1 .. size
  BY DEF Sorted
<1>10. ASSUME NEW w \in S PROVE \E k \in 1 .. size : Sorted(S)[k] = w
  <2> DEFINE k == RankIn(S, ahead, w) + 1
  <2>1. RankIn(S, ahead, w) \in 0 .. size - 1
    BY <1>5, Ranks
  <2>2. k \in 1 .. size /\ RankIn(S, ahead, w) = k - 1
    BY <1>1, <2>1
  <2> DEFINE v == Sorted(S)[k]
  <2> HIDE DEF k, size
  <2>3. v \in S /\ RankIn(S, ahead, v) = RankIn(S, ahead, w)
    BY <1>7, <2>2
  <2> HIDE DEF v
  <2>4. ~ Before(v, w) /\ ~ Before(w, v)
    <3>1. RankIn(S, ahead, w) \in Int
      BY <2>1
    <3>2. ~ (RankIn(S, ahead, v) < RankIn(S, ahead, w)) /\ ~ (RankIn(S, ahead, w) < RankIn(S, ahead, v))
      BY <2>3, <3>1
    <3> QED
      BY <1>2, <1>5, <2>3, <3>2, Ranks
  <2>5. v = w
    BY <1>4, <2>3, <2>4
  <2> QED
    BY <2>2, <2>5 DEF v
<1>11. QED
  BY <1>1, <1>7, <1>8, <1>9, <1>10

-----------------------------------------------------------------------------
(* What the chain is made of                                               *)

LEMMA DayFacts ==
  /\ MinuteTicks \in Nat /\ MinuteTicks > 0
  /\ DayTicks \in Nat /\ DayTicks = 1440 * MinuteTicks
  /\ EpochTicks \in Int
BY MinuteAssumption DEF DayTicks, DayMinutes, EpochTicks

LEMMA MinuteInDay ==
  ASSUME NEW a \in Nat, a <= 1439
  PROVE  a * MinuteTicks \in 0 .. DayTicks - 1
<1>1. \A x, y, m \in Nat : x <= y => x * m <= y * m /\ x * m \in Nat
  OBVIOUS
<1>2. a * MinuteTicks <= 1439 * MinuteTicks /\ a * MinuteTicks \in Nat
  BY <1>1, DayFacts
<1> DEFINE am == a * MinuteTicks
<1> HIDE DEF am
<1>3. am \in 0 .. DayTicks - 1
  BY <1>2, DayFacts DEF am
<1> QED
  BY <1>3 DEF am

(* When an event waters is a number of ticks.                              *)
LEMMA WhenType ==
  ASSUME NEW event \in EventSet, NEW day \in Horizon
  PROVE  /\ When(event, day) \in Int
         /\ event.duration \in Nat
         /\ TimeOfDay(event, day) \in 0 .. DayTicks - 1
         /\ event.offset * MinuteTicks \in Int
         /\ day * DayTicks \in Int
         /\ When(event, day) =
              day * DayTicks - EpochTicks + TimeOfDay(event, day) + event.offset * MinuteTicks
<1>1. /\ event.mode \in {"clock", "sunrise", "sunset"} /\ event.at \in 0 .. 1439
      /\ event.duration \in Nat /\ event.offset \in Int
  BY DEF EventSet, DayMinutes
<1>2. TimeOfDay(event, day) \in 0 .. DayTicks - 1
  <2>1. CASE event.mode = "clock"
    <3>1. PICK a \in 0 .. 1439 : event.at = a
      BY <1>1
    <3>2. a * MinuteTicks \in 0 .. DayTicks - 1
      BY MinuteInDay
    <3>3. TimeOfDay(event, day) = a * MinuteTicks
      BY <2>1, <3>1 DEF TimeOfDay
    <3> QED
      BY <3>2, <3>3
  <2>2. CASE event.mode # "clock"
    <3>1. event.mode \in {"sunrise", "sunset"}
      BY <1>1, <2>2
    <3>2. Sun[event.mode] \in [Horizon -> 0 .. DayTicks - 1]
      BY <3>1, SunAssumption
    <3>3. QED
      BY <2>2, <3>2 DEF TimeOfDay
  <2>3. QED
    BY <2>1, <2>2
<1>3. day \in Nat
  BY DEF Horizon, HorizonDays
<1>4. When(event, day) =
        day * DayTicks - EpochTicks + TimeOfDay(event, day) + event.offset * MinuteTicks
  BY DEF When
<1>5. TimeOfDay(event, day) \in Int
  BY <1>2, DayFacts
<1>6. event.offset * MinuteTicks \in Int /\ day * DayTicks \in Int
  BY <1>1, <1>3, DayFacts
<1> HIDE DEF When
<1>7. When(event, day) \in Int
  BY <1>4, <1>5, <1>6, DayFacts
<1>8. QED
  BY <1>1, <1>2, <1>4, <1>6, <1>7

LEMMA MatchingFacts ==
  ASSUME NEW o \in OrderSet, NEW days \in SUBSET Horizon, NEW p \in Matching(o.events, days)
  PROVE  /\ p = <<p[1], p[2]>> /\ p[1] \in DOMAIN o.events /\ p[1] \in Nat
         /\ p[2] \in days /\ p[2] \in Horizon
         /\ o.events[p[1]] \in EventSet
<1>1. o.events \in Seq(EventSet)
  BY DEF OrderSet
<1>2. p \in (DOMAIN o.events) \X days
  BY DEF Matching
<1>3. QED
  BY <1>1, <1>2

LEMMA MatchingFinite ==
  ASSUME NEW o \in OrderSet, NEW days \in SUBSET Horizon
  PROVE  IsFiniteSet(Matching(o.events, days))
<1>1. o.events \in Seq(EventSet)
  BY DEF OrderSet
<1>2. DOMAIN o.events = 1 .. Len(o.events) /\ Len(o.events) \in Nat
  BY <1>1
<1>3. IsFiniteSet(DOMAIN o.events)
  BY <1>2, FS_Interval
<1>4. IsFiniteSet(Horizon)
  <2>1. HorizonDays \in Int /\ 0 \in Int
    BY DEF HorizonDays
  <2>2. QED
    BY <2>1, FS_Interval DEF Horizon
<1>5. IsFiniteSet(days)
  BY <1>4, FS_Subset
<1>6. IsFiniteSet((DOMAIN o.events) \X days)
  BY <1>3, <1>5, FS_Product
<1>7. Matching(o.events, days) \in SUBSET ((DOMAIN o.events) \X days)
  BY DEF Matching
<1>8. QED
  BY <1>6, <1>7, FS_Subset

(* The watering of an event on a day.                                      *)
WateringAt(o, p) == <<When(o.events[p[1]], p[2]), o.events[p[1]].duration, p[1]>>

LEMMA KeptFacts ==
  ASSUME NEW o \in OrderSet
  PROVE  /\ Kept(o) \in SUBSET WateringSet
         /\ \A w \in Kept(o) : w[1] \in 0 .. WeekTicks - 1
         /\ IsFiniteSet(Kept(o))
<1> DEFINE places == Matching(o.events, Horizon)
           image == {WateringAt(o, p) : p \in places}
           at == [p \in places |-> WateringAt(o, p)]
<1>1. Resolve(o.events) = image
  BY DEF Resolve, ResolveDays, WateringAt
<1>2. image \in SUBSET WateringSet
  <2>1. ASSUME NEW p \in places PROVE WateringAt(o, p) \in WateringSet
    <3>1. p[1] \in Nat /\ p[2] \in Horizon /\ o.events[p[1]] \in EventSet
      BY MatchingFacts
    <3>2. When(o.events[p[1]], p[2]) \in Int /\ o.events[p[1]].duration \in Nat
      BY <3>1, WhenType
    <3>3. QED
      BY <3>1, <3>2 DEF WateringAt, WateringSet
  <2>2. QED
    BY <2>1
<1>3. IsFiniteSet(image)
  <2>1. IsFiniteSet(places)
    BY MatchingFinite
  <2>2. at \in Surjection(places, image)
    BY DEF Surjection
  <2> HIDE DEF places, image, at
  <2>3. QED
    BY <2>1, <2>2, FS_Surjection
<1>4. Kept(o) \in SUBSET image
  BY <1>1 DEF Kept
<1> HIDE DEF image
<1>5. \A w \in Kept(o) : w[1] \in 0 .. WeekTicks - 1
  <2>1. \A w \in Kept(o) : w[1] >= 0 /\ w[1] < WeekTicks
    BY DEF Kept
  <2>2. \A w \in Kept(o) : w[1] \in Int
    BY <1>2, <1>4 DEF WateringSet
  <2>3. WeekTicks \in Nat
    BY GapUnitAssumption, CycleAssumption DEF WeekTicks
  <2>4. QED
    BY <2>1, <2>2, <2>3
<1>6. QED
  BY <1>2, <1>3, <1>4, <1>5, FS_Subset

(* What is kept does not depend on the adjustment.                         *)
LEMMA KeptUnadjusted ==
  ASSUME NEW o \in OrderSet
  PROVE  LET plain == [o EXCEPT !.percent = 0]
         IN  plain \in OrderSet /\ plain.percent = 0 /\ Kept(plain) = Kept(o)
<1> DEFINE plain == [o EXCEPT !.percent = 0]
<1>1. /\ plain \in OrderSet /\ plain.percent = 0
      /\ plain.events = o.events /\ plain.pause_until = o.pause_until
  BY DEF OrderSet
<1> HIDE DEF plain
<1>2. Kept(plain) = Kept(o)
  BY <1>1 DEF Kept, Unpaused
<1>3. QED
  BY <1>1, <1>2 DEF plain

(* scale_duration, without the maximum and the minimum of the library.     *)
LEMMA ScaleIs ==
  ASSUME NEW duration \in Nat, NEW percent \in Int
  PROVE  LET scaled == (duration * (100 + percent) + 50) \div 100
         IN  ScaleDuration(duration, percent) =
               IF scaled < 0 THEN 0 ELSE IF scaled > 255 THEN 255 ELSE scaled
<1> DEFINE scaled == (duration * (100 + percent) + 50) \div 100
           low == Min({255, scaled})
<1>1. duration * (100 + percent) + 50 \in Int
  OBVIOUS
<1>2. scaled \in Int
  BY <1>1
<1> HIDE DEF scaled
<1>3. low \in Int /\ low = IF scaled > 255 THEN 255 ELSE scaled
  <2>1. \E x \in {255, scaled} : \A y \in {255, scaled} : x =< y
    BY <1>2
  <2>2. low \in {255, scaled} /\ \A y \in {255, scaled} : low =< y
    BY <2>1 DEF Min
  <2>3. QED
    BY <1>2, <2>2
<1> HIDE DEF low
<1>4. Max({0, low}) = IF low < 0 THEN 0 ELSE low
  <2> DEFINE high == Max({0, low})
  <2>1. \E x \in {0, low} : \A y \in {0, low} : x >= y
    BY <1>3
  <2>2. high \in {0, low} /\ \A y \in {0, low} : high >= y
    BY <2>1 DEF Max
  <2>3. QED
    BY <1>3, <2>2
<1>5. ScaleDuration(duration, percent) = Max({0, low})
  BY DEF ScaleDuration, low, scaled
<1>6. QED
  BY <1>2, <1>3, <1>4, <1>5 DEF scaled

(* It lengthens or shortens as the percentage says, within a byte.         *)
LEMMA ScaleBounds ==
  ASSUME NEW duration \in Nat, NEW percent \in Int
  PROVE  /\ ScaleDuration(duration, percent) \in 0 .. 255
         /\ percent <= 0 => ScaleDuration(duration, percent) <= duration
         /\ percent >= 0 /\ duration <= 255 => ScaleDuration(duration, percent) >= duration
<1> DEFINE product == duration * percent
           scaled == (duration * (100 + percent) + 50) \div 100
<1>1. product \in Int
  OBVIOUS
<1>2. (percent <= 0 => product <= 0) /\ (percent >= 0 => product >= 0)
  OBVIOUS
<1>3. scaled = (100 * duration + product + 50) \div 100
  OBVIOUS
<1>4. ScaleDuration(duration, percent) =
        IF scaled < 0 THEN 0 ELSE IF scaled > 255 THEN 255 ELSE scaled
  BY ScaleIs
<1> HIDE DEF product, scaled
<1>5. scaled \in Int /\ (product <= 0 => scaled <= duration) /\ (product >= 0 => scaled >= duration)
  BY <1>1, <1>3
<1>6. QED
  BY <1>2, <1>4, <1>5

(* The minutes build gives a watering.                                     *)
MinutesOf(o, w) == IF Adjusts(o, w[1]) THEN ScaleDuration(w[2], o.percent) ELSE w[2]

LEMMA FiringsFacts ==
  ASSUME NEW o \in OrderSet
  PROVE  /\ Len(Firings(o)) = Cardinality(Kept(o)) /\ Cardinality(Kept(o)) \in Nat
         /\ Firings(o) \in Seq(Firing)
         /\ \A k \in 1 .. Cardinality(Kept(o)) :
              /\ Sorted(Kept(o))[k][2] \in Nat
              /\ Firings(o)[k].when = Sorted(Kept(o))[k][1]
              /\ Firings(o)[k].duration = MinutesOf(o, Sorted(Kept(o))[k])
         /\ \A j, k \in 1 .. Cardinality(Kept(o)) :
              j < k => Firings(o)[j].when <= Firings(o)[k].when
<1> DEFINE kept == Sorted(Kept(o))
           size == Cardinality(Kept(o))
<1>1. /\ size \in Nat /\ DOMAIN kept = 1 .. size
      /\ \A k \in 1 .. size : kept[k] \in Kept(o)
      /\ \A j, k \in 1 .. size : j < k => kept[j][1] <= kept[k][1]
  BY KeptFacts, SortedInOrder
<1>2. \A k \in 1 .. size : kept[k][1] \in 0 .. WeekTicks - 1 /\ kept[k][2] \in Nat
  BY <1>1, KeptFacts DEF WateringSet
<1>3. Firings(o) =
        [k \in 1 .. size |-> [when |-> kept[k][1], duration |-> MinutesOf(o, kept[k])]]
  BY <1>1 DEF Firings, MinutesOf
<1> HIDE DEF kept, size
<1>4. o.percent \in Int
  BY DEF OrderSet
<1>5. ASSUME NEW k \in 1 .. size PROVE Firings(o)[k] \in Firing
  <2> DEFINE w == kept[k]
  <2>1. w[1] \in 0 .. WeekTicks - 1 /\ w[2] \in Nat
    BY <1>2
  <2>2. Firings(o)[k] = [when |-> w[1], duration |-> MinutesOf(o, w)]
    BY <1>3
  <2> HIDE DEF w
  <2>3. ScaleDuration(w[2], o.percent) \in 0 .. 255
    BY <1>4, <2>1, ScaleBounds
  <2>4. MinutesOf(o, w) \in Nat
    BY <2>1, <2>3 DEF MinutesOf
  <2>5. QED
    BY <2>1, <2>2, <2>4 DEF Firing
<1>6. Firings(o) \in Seq(Firing) /\ Len(Firings(o)) = size
  BY <1>1, <1>3, <1>5
<1>7. \A j, k \in 1 .. size : j < k => Firings(o)[j].when <= Firings(o)[k].when
  BY <1>1, <1>3
<1>8. QED
  BY <1>1, <1>2, <1>3, <1>6, <1>7 DEF kept, size

(* What the module of the chain assumes of its lists of waterings is what  *)
(* resolve, the horizon and the overlays return for any order.             *)
THEOREM FiringsAreInOrder ==
  \A o \in Orders :
    /\ Firings(o) \in Seq(Firing)
    /\ \A j, k \in 1 .. Len(Firings(o)) : j < k => Firings(o)[j].when <= Firings(o)[k].when
<1> SUFFICES ASSUME NEW o \in Orders
             PROVE  /\ Firings(o) \in Seq(Firing)
                    /\ \A j, k \in 1 .. Len(Firings(o)) :
                         j < k => Firings(o)[j].when <= Firings(o)[k].when
  OBVIOUS
<1>1. o \in OrderSet
  BY OrdersAssumption
<1>2. QED
  BY <1>1, FiringsFacts

(* Overlays.apply, for every schedule, percentage and moment: the          *)
(* adjustment neither drops nor adds a watering, and changes its minutes   *)
(* the way it was asked to, within a byte.                                 *)
THEOREM AdjustmentsGoTheRightWay == Spec => []AdjustedTheRightWay
<1>1. AdjustedTheRightWay
  <2> SUFFICES ASSUME NEW o \in Orders, asked = Resolved[o]
               PROVE  LET plain == Unadjusted[o]
                      IN  /\ Len(plain) = n
                          /\ \A k \in 1 .. n :
                               /\ plain[k].duration <= 255 => asked[k].duration <= 255
                               /\ o.percent <= 0 => asked[k].duration <= plain[k].duration
                               /\ o.percent >= 0 /\ plain[k].duration <= 255
                                    => asked[k].duration >= plain[k].duration
    BY DEF AdjustedTheRightWay
  <2> DEFINE base == [o EXCEPT !.percent = 0]
             plain == Unadjusted[o]
  <2>1. o \in OrderSet /\ o.percent \in Int
    BY OrdersAssumption DEF OrderSet
  <2>2. base \in OrderSet /\ base.percent = 0 /\ Kept(base) = Kept(o)
    BY <2>1, KeptUnadjusted
  <2>3. asked = Firings(o) /\ plain = Firings(base)
    BY DEF Resolved, Unadjusted
  <2>4. n = Cardinality(Kept(o)) /\ Len(plain) = n
    BY <2>1, <2>2, <2>3, FiringsFacts DEF n
  <2> HIDE DEF base, plain
  <2>5. ASSUME NEW k \in 1 .. n
        PROVE  /\ plain[k].duration <= 255 => asked[k].duration <= 255
               /\ o.percent <= 0 => asked[k].duration <= plain[k].duration
               /\ o.percent >= 0 /\ plain[k].duration <= 255
                    => asked[k].duration >= plain[k].duration
    <3> DEFINE w == Sorted(Kept(o))[k]
    <3>1. w[2] \in Nat /\ asked[k].duration = MinutesOf(o, w)
      BY <2>1, <2>3, <2>4, FiringsFacts
    <3>2. plain[k].duration = MinutesOf(base, w)
      BY <2>2, <2>3, <2>4, FiringsFacts
    <3> HIDE DEF w
    <3>3. /\ ScaleDuration(w[2], o.percent) \in 0 .. 255
          /\ o.percent <= 0 => ScaleDuration(w[2], o.percent) <= w[2]
          /\ o.percent >= 0 /\ w[2] <= 255 => ScaleDuration(w[2], o.percent) >= w[2]
      BY <2>1, <3>1, ScaleBounds
    <3>4. plain[k].duration = w[2]
      BY <2>2, <3>2 DEF MinutesOf, Adjusts
    <3>5. QED
      BY <3>1, <3>3, <3>4 DEF MinutesOf
  <2>6. QED
    BY <2>4, <2>5 DEF plain
<1>2. QED
  BY <1>1, PTL

(* A later day's watering is a later one: the sun moves by less than a day. *)
LEMMA LaterDayLater ==
  ASSUME NEW event \in EventSet, NEW d \in Horizon, NEW e \in Horizon, d < e
  PROVE  When(event, d) < When(event, e)
<1> DEFINE a == TimeOfDay(event, d)
           b == TimeOfDay(event, e)
           shift == event.offset * MinuteTicks
<1>1. /\ a \in 0 .. DayTicks - 1 /\ b \in 0 .. DayTicks - 1 /\ shift \in Int
      /\ d * DayTicks \in Int /\ e * DayTicks \in Int
      /\ When(event, d) = d * DayTicks - EpochTicks + a + shift
      /\ When(event, e) = e * DayTicks - EpochTicks + b + shift
  BY WhenType
<1> HIDE DEF a, b, shift
<1>2. d * DayTicks + DayTicks <= e * DayTicks
  <2>1. d \in Nat /\ e \in Nat /\ d + 1 <= e
    BY DEF Horizon, HorizonDays
  <2>2. \A x, y, m \in Nat : x + 1 <= y => x * m + m <= y * m
    <3> TAKE x, y, m \in Nat
    <3>1. x + 1 <= y => (x + 1) * m <= y * m
      OBVIOUS
    <3>2. (x + 1) * m = x * m + m
      OBVIOUS
    <3> QED
      BY <3>1, <3>2
  <2> QED
    BY <2>1, <2>2, DayFacts
<1>3. QED
  BY <1>1, <1>2, DayFacts

(* The day a watering of the seven days stands on in the clock week: what  *)
(* the last day has after the week, the first evening has in it.           *)
Place(o, p) ==
  IF p[2] = HorizonDays /\ When(o.events[p[1]], HorizonDays) >= WeekTicks
    THEN <<p[1], 0>> ELSE p

LEMMA SevenDays ==
  ASSUME NEW o \in OrderSet, o.pause_until = Never,
         \A k \in DOMAIN o.events : Steady(o.events[k])
  PROVE  /\ Cardinality(Kept(o)) = Cardinality(Matching(o.events, 1 .. HorizonDays))
         /\ \A p \in Matching(o.events, 1 .. HorizonDays) :
              WateringAt(o, Place(o, p)) \in Kept(o)
<1> DEFINE week == Matching(o.events, 1 .. HorizonDays)
           all == Matching(o.events, Horizon)
           InWeek(p) == When(o.events[p[1]], p[2]) \in 0 .. WeekTicks - 1
           at == [p \in week |-> WateringAt(o, Place(o, p))]
<1>1. /\ 1 .. HorizonDays \in SUBSET Horizon /\ WeekTicks \in Nat
      /\ Weekday(0) = Weekday(HorizonDays) /\ HorizonDays = 7 /\ Horizon = 0 .. 7
  BY Constants DEF Horizon, HorizonDays, Weekday, EpochWeekday
<1>2. ASSUME NEW p \in all
      PROVE  /\ p = <<p[1], p[2]>> /\ p[1] \in DOMAIN o.events /\ p[2] \in 0 .. 7
             /\ o.events[p[1]] \in EventSet /\ Steady(o.events[p[1]])
             /\ When(o.events[p[1]], p[2]) \in Int
             /\ p \in week <=> p[2] # 0
  <2>1. /\ p = <<p[1], p[2]>> /\ p[1] \in DOMAIN o.events /\ p[2] \in Horizon
        /\ o.events[p[1]] \in EventSet
    BY MatchingFacts
  <2>2. When(o.events[p[1]], p[2]) \in Int
    BY <2>1, WhenType
  <2>3. p \in week <=> p[2] # 0
    BY <1>1, <2>1 DEF Matching
  <2>4. QED
    BY <1>1, <2>1, <2>2, <2>3
<1>3. week \in SUBSET all
  BY <1>1 DEF Matching
<1>4. \A w : w \in Kept(o) <=> \E p \in all : InWeek(p) /\ w = WateringAt(o, p)
  <2>1. ASSUME NEW w \in Kept(o) PROVE \E p \in all : InWeek(p) /\ w = WateringAt(o, p)
    <3>1. w[1] \in 0 .. WeekTicks - 1 /\ w \in Resolve(o.events)
      BY KeptFacts DEF Kept
    <3>2. PICK p \in all : w = WateringAt(o, p)
      BY <3>1 DEF Resolve, ResolveDays, WateringAt
    <3>3. QED
      BY <3>1, <3>2 DEF WateringAt
  <2>2. ASSUME NEW p \in all, InWeek(p) PROVE WateringAt(o, p) \in Kept(o)
    <3> DEFINE w == WateringAt(o, p)
    <3>1. w \in Resolve(o.events)
      BY DEF Resolve, ResolveDays, WateringAt
    <3>2. w[1] >= 0 /\ w[1] < WeekTicks
      BY <1>1, <2>2 DEF WateringAt
    <3>3. QED
      BY <3>1, <3>2 DEF Kept, Unpaused
  <2>3. QED
    BY <2>1, <2>2
<1>5. ASSUME NEW p \in all PROVE <<p[1], 0>> \in all <=> <<p[1], HorizonDays>> \in all
  BY <1>1, <1>2 DEF Matching
<1>6. ASSUME NEW p \in week
      PROVE  Place(o, p) \in all /\ InWeek(Place(o, p))
  <2> DEFINE event == o.events[p[1]]
  <2>1. /\ p \in all /\ p = <<p[1], p[2]>> /\ p[2] \in 1 .. 7 /\ event \in EventSet
        /\ Steady(event) /\ When(event, p[2]) \in Int
    <3>1. p \in all
      BY <1>3
    <3>2. QED
      BY <1>2, <3>1
  <2>2. /\ \A day \in 1 .. 6 : When(event, day) \in 0 .. WeekTicks - 1
        /\ When(event, 0) >= 0 <=> When(event, 7) >= WeekTicks
    BY <2>1 DEF Steady, HorizonDays
  <2>3. /\ When(event, 0) \in Int /\ When(event, 0) < When(event, 1)
        /\ When(event, 7) \in Int /\ When(event, 6) < When(event, 7)
    BY <1>1, <2>1, WhenType, LaterDayLater
  <2> HIDE DEF all, event
  <2>4. CASE p[2] = 7 /\ When(event, 7) >= WeekTicks
    <3>1. Place(o, p) = <<p[1], 0>>
      BY <1>1, <2>4 DEF Place, event
    <3>2. <<p[1], 0>> \in all
      BY <1>1, <1>5, <2>1, <2>4
    <3>3. When(event, 0) \in 0 .. WeekTicks - 1
      BY <1>1, <2>2, <2>3, <2>4
    <3>4. QED
      BY <3>1, <3>2, <3>3 DEF event
  <2>5. CASE ~ (p[2] = 7 /\ When(event, 7) >= WeekTicks)
    <3>1. Place(o, p) = p
      BY <1>1, <2>5 DEF Place, event
    <3>2. When(event, p[2]) \in 0 .. WeekTicks - 1
      BY <1>1, <2>1, <2>2, <2>3, <2>5
    <3>3. QED
      BY <2>1, <3>1, <3>2 DEF event
  <2>6. QED
    BY <2>4, <2>5
<1>7. at \in [week -> Kept(o)]
  BY <1>4, <1>6
<1>8. ASSUME NEW p \in week, NEW q \in week, at[p] = at[q]
      PROVE  p = q
  <2> DEFINE a == Place(o, p)
             b == Place(o, q)
  <2>1. a \in all /\ b \in all
    BY <1>6
  <2>2. a[1] = b[1] /\ When(o.events[a[1]], a[2]) = When(o.events[b[1]], b[2])
    BY <1>8 DEF WateringAt
  <2>3. a = <<a[1], a[2]>> /\ b = <<b[1], b[2]>> /\ a[2] \in Horizon /\ b[2] \in Horizon
        /\ o.events[a[1]] \in EventSet
    BY <1>1, <1>2, <2>1
  <2>4. a[2] = b[2]
    <3> HIDE DEF a, b
    <3>1. ~ (When(o.events[a[1]], a[2]) < When(o.events[b[1]], b[2]))
          /\ ~ (When(o.events[b[1]], b[2]) < When(o.events[a[1]], a[2]))
      <4>1. When(o.events[a[1]], a[2]) \in Int
        BY <2>3, WhenType
      <4>2. QED
        BY <2>2, <4>1
    <3>2. ~ (a[2] < b[2]) /\ ~ (b[2] < a[2])
      BY <2>2, <2>3, <3>1, LaterDayLater
    <3>3. a[2] \in Int /\ b[2] \in Int
      BY <1>1, <2>3
    <3>4. QED
      BY <3>2, <3>3
  <2>5. a = b
    BY <2>2, <2>3, <2>4
  <2>6. /\ p \in all /\ q \in all /\ p = <<p[1], p[2]>> /\ q = <<q[1], q[2]>>
        /\ p[2] # 0 /\ q[2] # 0
    <3>1. p \in all /\ q \in all
      BY <1>3
    <3>2. QED
      BY <1>2, <3>1
  <2> HIDE DEF all, week
  <2>7. QED
    BY <2>5, <2>6 DEF Place
<1>9. ASSUME NEW w \in Kept(o) PROVE \E p \in week : at[p] = w
  <2>1. PICK p \in all : InWeek(p) /\ w = WateringAt(o, p)
    BY <1>4
  <2> DEFINE event == o.events[p[1]]
  <2>2. p = <<p[1], p[2]>> /\ p[2] \in 0 .. 7 /\ event \in EventSet /\ Steady(event)
    BY <1>2
  <2>3. CASE p[2] = 0
    <3> DEFINE q == <<p[1], HorizonDays>>
    <3>1. q \in all
      BY <1>5, <2>2, <2>3
    <3>2. q \in week
      <4>1. q[2] # 0
        BY <1>1
      <4> HIDE DEF q, week, all
      <4>2. QED
        BY <1>2, <3>1, <4>1
    <3>3. When(event, HorizonDays) >= WeekTicks
      <4>1. When(event, 0) >= 0
        BY <2>1, <2>3
      <4>2. QED
        BY <2>2, <4>1 DEF Steady
    <3>4. Place(o, q) = p
      BY <2>2, <2>3, <3>3 DEF Place
    <3>5. QED
      BY <2>1, <3>2, <3>4
  <2>4. CASE p[2] # 0
    <3>1. p \in week
      BY <1>2, <2>4
    <3>2. Place(o, p) = p
      <4>1. ~ (p[2] = HorizonDays /\ When(event, HorizonDays) >= WeekTicks)
        <5>1. When(event, p[2]) < WeekTicks /\ When(event, p[2]) \in Int
          BY <1>1, <2>1
        <5>2. QED
          BY <1>1, <5>1
      <4>2. QED
        BY <4>1 DEF Place
    <3>3. QED
      BY <2>1, <3>1, <3>2
  <2>5. QED
    BY <2>3, <2>4
<1>10. IsFiniteSet(week)
  BY <1>1, MatchingFinite
<1> HIDE DEF week
<1>A. \A p \in week : WateringAt(o, Place(o, p)) \in Kept(o)
  BY <1>7
<1> HIDE DEF at
<1>11. at \in Bijection(week, Kept(o))
  BY <1>7, <1>8, <1>9 DEF Bijection, Injection, Surjection, IsInjective
<1>12. Cardinality(Kept(o)) = Cardinality(week)
  BY <1>10, <1>11, FS_Bijection DEF ExistsBijection
<1>13. QED
  BY <1>12, <1>A DEF week

(* The horizon of eight days, the cut to one week, the pulling and the     *)
(* rounding together: unless its waterings are so far apart that some are  *)
(* pulled, a week serves every steady event on each of its days, whichever *)
(* side of the start of the week it stands on.                             *)
THEOREM EventsAreServedEachDay == Spec => []EveryDayIsServed
<1>1. IInv => EveryDayIsServed
  <2> SUFFICES ASSUME IInv, NEW o \in Orders,
                      stage = "done", o.pause_until = Never, asked = Resolved[o],
                      \A k \in DOMAIN o.events : Steady(o.events[k]), CloseTogether
               PROVE  LET week == Matching(o.events, 1 .. HorizonDays)
                      IN  /\ Len(chain) = Cardinality(week)
                          /\ \A p \in week :
                               LET event == o.events[p[1]]
                                   when == WhenInWeek(event, p[2])
                               IN  \E j \in 1 .. Len(chain) :
                                     /\ Near(chain[j].start, when, j)
                                     /\ chain[j].duration = DurationThen(o, event, when)
    BY DEF EveryDayIsServed
  <2> DEFINE week == Matching(o.events, 1 .. HorizonDays)
             size == Cardinality(Kept(o))
  <2>1. o \in OrderSet
    BY OrdersAssumption
  <2>2. asked = Firings(o) /\ firings = asked
    BY DEF Resolved, IInv, Unpulled
  <2>3. size \in Nat /\ n = size /\ Len(chain) = size
    <3>1. size \in Nat /\ n = size
      BY <2>1, <2>2, FiringsFacts DEF n
    <3>2. n = 0 => Len(chain) = 0
      BY DEF IInv, TypeOK
    <3>3. n > 0 => Len(chain) = n
      BY DEF IInv, Joined
    <3> QED
      BY <3>1, <3>2, <3>3
  <2>4. size = Cardinality(week)
    BY <2>1, SevenDays
  <2>5. ASSUME NEW p \in week
        PROVE  LET event == o.events[p[1]]
                   when == WhenInWeek(event, p[2])
               IN  \E j \in 1 .. Len(chain) :
                     /\ Near(chain[j].start, when, j)
                     /\ chain[j].duration = DurationThen(o, event, when)
    <3> DEFINE w == WateringAt(o, Place(o, p))
    <3>1. w \in Kept(o)
      BY <2>1, SevenDays
    <3>2. /\ w[1] = WhenInWeek(o.events[p[1]], p[2])
          /\ w[2] = o.events[p[1]].duration
      BY DEF Place, WateringAt, WhenInWeek
    <3> HIDE DEF w
    <3>3. PICK j \in 1 .. size : Sorted(Kept(o))[j] = w
      BY <2>1, <3>1, KeptFacts, SortedInOrder
    <3>4. firings[j].when = w[1] /\ firings[j].duration = MinutesOf(o, w)
      BY <2>1, <2>2, <3>3, FiringsFacts
    <3>5. /\ Near(chain[j].start, firings[j].when, j)
          /\ chain[j].duration = firings[j].duration
      BY <2>3 DEF IInv, RoundingIsBounded, Counted
    <3>6. MinutesOf(o, w) =
            DurationThen(o, o.events[p[1]], WhenInWeek(o.events[p[1]], p[2]))
      BY <3>2 DEF MinutesOf, DurationThen
    <3> QED
      BY <2>3, <3>2, <3>4, <3>5, <3>6
  <2> QED
    BY <2>3, <2>4, <2>5
<1>2. QED
  BY <1>1, Invariance, PTL

=============================================================================
