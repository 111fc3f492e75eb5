-------------------------- MODULE Schedule_proofs --------------------------
(***************************************************************************)
(* Proofs about the slots of an event, for every length of an hour and of  *)
(* a day, every first slot, period and selection of weekdays.              *)
(***************************************************************************)
EXTENDS ScheduleWeek, FiniteSetTheorems, FunctionTheorems, TLAPS

-----------------------------------------------------------------------------
(* Grids: the instants that have the same remainder *)

LEMMA Divided ==
  ASSUME NEW a \in Int, NEW d \in Nat \ {0}
  PROVE  a \div d \in Int /\ (a % d) \in 0 .. d - 1 /\ a = d * (a \div d) + (a % d)
OBVIOUS

LEMMA QuotientUnique ==
  ASSUME NEW d \in Nat \ {0}, NEW p \in Int, NEW q \in Int,
         NEW r \in 0 .. d - 1, NEW s \in 0 .. d - 1, d * p + r = d * q + s
  PROVE  p = q /\ r = s
<1>1. ASSUME NEW a \in Int, NEW b \in Int, a < b PROVE d * a + d <= d * b
  <2>1. d * (b - a - 1) >= 0  BY <1>1
  <2>2. d * (b - a - 1) = d * b - d * a - d  OBVIOUS
  <2> QED  BY <2>1, <2>2
<1> DEFINE x == d * p
           y == d * q
<1>2. x \in Int /\ y \in Int /\ x + r = y + s  OBVIOUS
<1>3. (p < q => x + d <= y) /\ (q < p => y + d <= x)  BY <1>1
<1> HIDE DEF x, y
<1>4. ~(p < q) /\ ~(q < p)  BY <1>2, <1>3
<1>5. p = q  BY <1>4
<1> QED  BY <1>2, <1>5 DEF x, y

\* k steps of d on.
LEMMA StepsOn ==
  ASSUME NEW a \in Int, NEW d \in Nat \ {0}, NEW k \in Int
  PROVE  (a + d * k) % d = a % d /\ (a + d * k) \div d = a \div d + k
<1> DEFINE b == a + d * k
<1>1. b \in Int /\ b = d * (a \div d + k) + (a % d)
  <2>1. a \div d \in Int /\ a = d * (a \div d) + (a % d) /\ (a % d) \in Int  BY Divided
  <2>2. d * (a \div d + k) = d * (a \div d) + d * k  BY <2>1
  <2>3. d * (a \div d) \in Int /\ d * k \in Int  BY <2>1
  <2> QED  BY <2>1, <2>2, <2>3
<1> HIDE DEF b
<1>2. PICK p \in Int, r \in 0 .. d - 1 :
        p = b \div d /\ r = b % d /\ b = d * p + r
  BY <1>1, Divided
<1>3. PICK q \in Int, s \in 0 .. d - 1 : q = a \div d /\ s = a % d
  BY Divided
<1>4. p = q + k /\ r = s
  <2>1. d * p + r = d * (q + k) + s /\ q + k \in Int  BY <1>1, <1>2, <1>3
  <2> QED  BY <2>1, QuotientUnique
<1> QED  BY <1>2, <1>3, <1>4 DEF b

\* Between an instant and its m-th successor there are the first m only.
LEMMA OnGrid ==
  \A d \in Nat \ {0}, m \in Nat, s, t \in Int :
    s % d = t % d /\ s < t /\ t <= s + d * m =>
      \E k \in 1 .. m : t = s + d * k
<1> SUFFICES ASSUME NEW d \in Nat \ {0}, NEW m \in Nat, NEW s \in Int, NEW t \in Int,
                    s % d = t % d, s < t, t <= s + d * m
             PROVE  \E k \in 1 .. m : t = s + d * k
  OBVIOUS
<1> DEFINE k == t \div d - s \div d
<1>1. /\ s \div d \in Int /\ t \div d \in Int /\ k \in Int
      /\ s = d * (s \div d) + (s % d) /\ t = d * (t \div d) + (t % d)
      /\ (s % d) \in Int
  BY Divided
<1>2. d * k = d * (t \div d) - d * (s \div d)  BY <1>1
<1>3. t = s + d * k
  <2>1. d * (t \div d) \in Int /\ d * (s \div d) \in Int  BY <1>1
  <2> QED  BY <1>1, <1>2, <2>1
<1> HIDE DEF k
<1>4. k > 0
  <2>1. k <= 0 => d * k <= 0  BY <1>1
  <2>2. d * k \in Int  BY <1>1
  <2> QED  BY <1>1, <1>3, <2>1, <2>2
<1>5. k <= m
  <2>1. k > m => d * k >= d * m + d
    <3> SUFFICES ASSUME k > m PROVE d * k >= d * m + d  OBVIOUS
    <3>1. d * (k - m - 1) >= 0  BY <1>1
    <3>2. d * (k - m - 1) = d * k - d * m - d  BY <1>1
    <3>3. d * k \in Int /\ d * m \in Int  BY <1>1
    <3> QED  BY <3>1, <3>2, <3>3
  <2>2. d * k \in Int /\ d * m \in Int  BY <1>1
  <2> QED  BY <1>1, <1>3, <2>1, <2>2
<1> QED  BY <1>1, <1>3, <1>4, <1>5

LEMMA OnHours ==
  ASSUME NEW s \in Int, NEW t \in Int, NEW m \in Nat,
         s % Hour = t % Hour, s < t, t <= s + Hour * m
  PROVE  \E k \in 1 .. m : t = s + Hour * k
<1> Hour \in Nat \ {0}  BY ScheduleAssumption
<1> QED  BY OnGrid, Zenon

LEMMA OnDays ==
  ASSUME NEW s \in Int, NEW t \in Int, NEW m \in Nat,
         s % Day = t % Day, s < t, t <= s + Day * m
  PROVE  \E k \in 1 .. m : t = s + Day * k
<1> Day \in Nat \ {0}  BY ScheduleAssumption
<1> QED  BY OnGrid, Zenon

-----------------------------------------------------------------------------
(* The loop of calculateNextWeekday *)

\* It returns at its first hit.
LEMMA FirstHit ==
  ASSUME NEW S \in SUBSET (1 .. 7), S # {}
  PROVE  \E i \in S : \A k \in S : i <= k
<1> SUFFICES ASSUME \A i \in S : \E k \in S : k < i PROVE FALSE
  OBVIOUS
<1>1. 1 \notin S  OBVIOUS
<1>2. 2 \notin S  BY <1>1
<1>3. 3 \notin S  BY <1>1, <1>2
<1>4. 4 \notin S  BY <1>1, <1>2, <1>3
<1>5. 5 \notin S  BY <1>1, <1>2, <1>3, <1>4
<1>6. 6 \notin S  BY <1>1, <1>2, <1>3, <1>4, <1>5
<1>7. 7 \notin S  BY <1>1, <1>2, <1>3, <1>4, <1>5, <1>6
<1>8. PICK i \in S : i \in 1 .. 7  OBVIOUS
<1>9. i = 1 \/ i = 2 \/ i = 3 \/ i = 4 \/ i = 5 \/ i = 6 \/ i = 7  BY <1>8
<1> QED  BY <1>1, <1>2, <1>3, <1>4, <1>5, <1>6, <1>7, <1>9

\* The day it finds is the first of the next seven that is selected.
LEMMA NextWeekday ==
  ASSUME NEW t \in Nat, NEW days
  PROVE  LET next == calculateNextWeekday(t, days)
             Hit(i) == WeekdayIndex(t + Day * i) \in days
         IN  \/ /\ next = NoTime
                /\ \A i \in 1 .. 7 : ~Hit(i)
             \/ \E i \in 1 .. 7 : /\ next = t + Day * i /\ Hit(i)
                                  /\ \A k \in 1 .. i - 1 : ~Hit(k)
<1> DEFINE hits == LoopHits(t, days)
           first_ == CHOOSE i \in hits : \A k \in hits : i <= k
<1>0. Day \in Nat  BY ScheduleAssumption
<1>1. \A i \in 1 .. 7 : i \in hits <=> WeekdayIndex(t + Day * i) \in days
  <2>1. \A i \in 1 .. 7 : i * Day = Day * i  BY <1>0
  <2> QED  BY <2>1 DEF LoopHits
<1>2. hits \in SUBSET (1 .. 7)  BY DEF LoopHits
<1>3. calculateNextWeekday(t, days) = IF hits = {} THEN NoTime ELSE t + Day * first_
  BY DEF calculateNextWeekday
<1>4. hits # {} => first_ \in hits /\ \A k \in hits : first_ <= k
  <2> HIDE DEF hits
  <2> QED  BY <1>2, FirstHit
<1> HIDE DEF hits, first_
<1>5. CASE hits = {}  BY <1>1, <1>3, <1>5
<1>6. CASE hits # {}
  <2>1. PICK i \in 1 .. 7 : i = first_  BY <1>2, <1>4, <1>6
  <2>2. \A k \in 1 .. i - 1 : k \notin hits
    BY <1>4, <1>6, <2>1
  <2>3. \A k \in 1 .. i - 1 : k \in 1 .. 7  BY <2>1
  <2> QED  BY <1>1, <1>3, <1>4, <1>6, <2>1, <2>2, <2>3
<1> QED  BY <1>5, <1>6

-----------------------------------------------------------------------------
(* The slots of a week *)

LEMMA Lengths == Hour \in Nat \ {0} /\ Day \in Nat \ {0} /\ Week = 7 * Day /\ Week \in Nat \ {0}
BY ScheduleAssumption DEF Week

LEMMA ReferenceStays ==
  ASSUME UNCHANGED <<first, periodicity, weekdays>>
  PROVE  (\A t : Fires(t)' = Fires(t)) /\ Expected' = Expected
BY DEF Fires, Expected

\* The slots passed over fire when the new one is the next there is to fire.
LEMMA SlotAdded ==
  ASSUME WeekInv, Advance, slot' \in Int, slot < slot',
         \A t \in first + 1 .. first + Week :
           slot < t /\ t <= slot' => (Fires(t) <=> t = slot')
  PROVE  EverySlotOfTheWeek'
<1>1. /\ first \in Nat /\ slot \in Nat /\ first <= slot /\ slot # NoTime
      /\ slot' \in Nat /\ slot' # NoTime /\ Week \in Nat
  BY Lengths DEF WeekInv, OnItsGrid, Advance, NoTime
<1>2. fired = Past  BY <1>1 DEF WeekInv, EverySlotOfTheWeek
<1>3. /\ fired' = fired \cup ({slot'} \cap (first .. first + Week))
      /\ Expected' = Expected
  BY ReferenceStays DEF Advance
<1>4. ASSUME NEW t PROVE t \in fired' <=> t \in Past'
  <2>1. t \in fired' <=> \/ t \in Expected /\ t <= slot
                         \/ t = slot' /\ t \in first .. first + Week
    BY <1>1, <1>2, <1>3 DEF Past
  <2>2. t \in Past' <=> t \in Expected /\ t <= slot'
    BY <1>1, <1>3 DEF Past
  <2>3. t \in Expected <=> t \in first + 1 .. first + Week /\ Fires(t)
    BY DEF Expected
  <2>4. CASE t \notin first + 1 .. first + Week
    BY <1>1, <2>1, <2>2, <2>3, <2>4
  <2>5. CASE t \in first + 1 .. first + Week
    <3>1. t \in Int  BY <1>1, <2>5
    <3>2. slot < t /\ t <= slot' => (Fires(t) <=> t = slot')  BY <2>5
    <3> QED  BY <1>1, <2>1, <2>2, <2>3, <2>5, <3>1, <3>2
  <2> QED  BY <2>4, <2>5
<1>5. fired' = Past'  BY <1>4
<1> QED  BY <1>1, <1>5 DEF EverySlotOfTheWeek

LEMMA WeekStep == WeekInv /\ [Advance]_chain => WeekInv'
<1> SUFFICES ASSUME WeekInv, Advance PROVE WeekInv'
  BY ReferenceStays DEF WeekInv, chain, OnItsGrid, EverySlotOfTheWeek, Past
<1>1. /\ first \in Nat /\ slot \in Nat /\ first <= slot /\ slot # NoTime
      /\ slot - first < Week /\ OnItsGrid
      /\ UNCHANGED <<first, periodicity, weekdays>>
      /\ slot' = CalculateNextTime(slot, periodicity, weekdays)
  BY DEF WeekInv, OnItsGrid, Advance
<1>2. /\ Hour \in Nat \ {0} /\ Day \in Nat \ {0} /\ Week = 7 * Day /\ Week \in Nat \ {0}
  BY Lengths
<1>0. slot \in Int /\ 1 \in Int /\ 1 \in Nat  BY <1>1
<1>3. (/\ first \in Nat /\ periodicity \in {"hour", "day", "week", "weekdays"}
       /\ weekdays \in SUBSET (1 .. 7))'
  BY <1>1 DEF WeekInv
<1>4. CASE periodicity = "hour"
  <2>1. slot' = slot + Hour  BY <1>1, <1>4 DEF CalculateNextTime
  <2>2. (slot - first) % Hour = 0  BY <1>1, <1>4 DEF OnItsGrid
  <2>3. (slot' - first) % Hour = 0
    <3> DEFINE a == slot - first
    <3>1. a \in Int /\ slot' - first = a + Hour * 1  BY <1>1, <1>2, <2>1
    <3>2. a % Hour = 0  BY <2>2
    <3> HIDE DEF a
    <3>3. (a + Hour * 1) % Hour = a % Hour  BY <1>0, <1>2, <3>1, StepsOn, Zenon
    <3> QED  BY <3>1, <3>2, <3>3
  <2>4. ASSUME NEW t \in first + 1 .. first + Week, slot < t, t <= slot'
        PROVE  Fires(t) <=> t = slot'
    <3>1. Fires(t) <=> (t - first) % Hour = 0  BY <1>4 DEF Fires
    <3>2. ASSUME (t - first) % Hour = 0 PROVE t = slot'
      <4>1. PICK a \in Int, b \in Int : a = slot - first /\ b = t - first
        BY <1>1, <1>2, <2>4
      <4>2. a % Hour = b % Hour  BY <2>2, <3>2, <4>1
      <4>3. a < b /\ b <= a + Hour * 1  BY <1>1, <1>2, <2>1, <2>4, <4>1
      <4>4. PICK k \in 1 .. 1 : b = a + Hour * k
        BY <1>0, <4>2, <4>3, OnHours
      <4>5. b = a + Hour  BY <1>2, <4>4
      <4> QED  BY <1>1, <1>2, <2>1, <2>4, <4>1, <4>5
    <3> QED  BY <2>3, <3>1, <3>2
  <2>5. slot' \in Nat /\ slot < slot'  BY <1>1, <1>2, <2>1
  <2>6. EverySlotOfTheWeek'  BY <2>4, <2>5, SlotAdded
  <2>7. OnItsGrid'  BY <1>1, <1>4, <2>3, <2>5 DEF OnItsGrid
  <2> QED  BY <1>3, <2>6, <2>7 DEF WeekInv
<1>5. CASE periodicity = "day"
  <2>1. slot' = slot + Day  BY <1>1, <1>5 DEF CalculateNextTime
  <2>2. slot % Day = first % Day  BY <1>1, <1>5 DEF OnItsGrid
  <2>3. slot' % Day = first % Day
    <3>1. slot' = slot + Day * 1  BY <1>1, <1>2, <2>1
    <3>2. (slot + Day * 1) % Day = slot % Day  BY <1>0, <1>2, StepsOn, Zenon
    <3> QED  BY <2>2, <3>1, <3>2
  <2>4. ASSUME NEW t \in first + 1 .. first + Week, slot < t, t <= slot'
        PROVE  Fires(t) <=> t = slot'
    <3>1. Fires(t) <=> t % Day = first % Day  BY <1>5 DEF Fires
    <3>2. ASSUME t % Day = first % Day PROVE t = slot'
      <4>1. PICK a \in Int, b \in Int : a = slot /\ b = t
        BY <1>1, <1>2, <2>4
      <4>2. a % Day = b % Day  BY <2>2, <3>2, <4>1
      <4>3. a < b /\ b <= a + Day * 1  BY <1>1, <1>2, <2>1, <2>4, <4>1
      <4>4. PICK k \in 1 .. 1 : b = a + Day * k
        BY <1>0, <4>2, <4>3, OnDays
      <4> QED  BY <1>1, <1>2, <2>1, <4>1, <4>4
    <3> QED  BY <2>3, <3>1, <3>2
  <2>5. slot' \in Nat /\ slot < slot'  BY <1>1, <1>2, <2>1
  <2>6. EverySlotOfTheWeek'  BY <2>4, <2>5, SlotAdded
  <2>7. OnItsGrid'  BY <1>1, <1>5, <2>3, <2>5 DEF OnItsGrid
  <2> QED  BY <1>3, <2>6, <2>7 DEF WeekInv
<1>6. CASE periodicity = "week"
  <2>1. slot' = first + Week /\ slot = first
    <3>1. slot \in {first, first + Week}  BY <1>1, <1>6 DEF OnItsGrid
    <3>2. slot = first  BY <1>1, <1>2, <3>1
    <3>3. slot' = slot + 7 * Day  BY <1>1, <1>6 DEF CalculateNextTime
    <3> QED  BY <1>2, <3>2, <3>3
  <2>2. ASSUME NEW t \in first + 1 .. first + Week PROVE Fires(t) <=> t = slot'
    BY <1>6, <2>1 DEF Fires
  <2>3. slot' \in Nat /\ slot < slot'  BY <1>1, <1>2, <2>1
  <2>4. EverySlotOfTheWeek'  BY <2>2, <2>3, SlotAdded
  <2>5. OnItsGrid'
    <3>1. Week' = Week  BY DEF Week
    <3> QED  BY <1>1, <1>6, <2>1, <2>3, <3>1 DEF OnItsGrid
  <2> QED  BY <1>3, <2>4, <2>5 DEF WeekInv
<1>7. CASE periodicity = "weekdays"
  <2> DEFINE Hit(i) == WeekdayIndex(slot + Day * i) \in weekdays
  <2>1. slot' = calculateNextWeekday(slot, weekdays)
    BY <1>1, <1>7 DEF CalculateNextTime
  <2>2. \/ slot' = NoTime /\ \A i \in 1 .. 7 : ~Hit(i)
        \/ \E i \in 1 .. 7 : slot' = slot + Day * i /\ Hit(i) /\ \A k \in 1 .. i - 1 : ~Hit(k)
    BY <1>1, <2>1, NextWeekday
  <2>3. slot % Day = first % Day  BY <1>1, <1>7 DEF OnItsGrid
  <2>4. \A t : Fires(t) <=> t % Day = first % Day /\ WeekdayIndex(t) \in weekdays
    BY <1>7 DEF Fires
  <2>5. \A m \in 1 .. 7 : \A t \in first + 1 .. first + Week :
          slot < t /\ t <= slot + Day * m /\ Fires(t) =>
            \E k \in 1 .. m : t = slot + Day * k /\ Hit(k)
    <3> SUFFICES ASSUME NEW m \in 1 .. 7, NEW t \in first + 1 .. first + Week,
                        slot < t, t <= slot + Day * m, Fires(t)
                 PROVE  \E k \in 1 .. m : t = slot + Day * k /\ Hit(k)
      OBVIOUS
    <3>0. m \in Nat  OBVIOUS
    <3>1. t \in Int /\ slot % Day = t % Day  BY <1>1, <1>2, <2>3, <2>4
    <3>2. PICK k \in 1 .. m : t = slot + Day * k
      <4>1. PICK a \in Int, b \in Int : a = slot /\ b = t
        BY <1>0, <3>1
      <4>2. a % Day = b % Day  BY <3>1, <4>1
      <4>3. a < b /\ b <= a + Day * m  BY <4>1
      <4>4. \E k \in 1 .. m : b = a + Day * k
        BY <3>0, <4>2, <4>3, OnDays
      <4> QED  BY <4>1, <4>4
    <3>3. Hit(k)  BY <2>4, <3>2
    <3> QED  BY <3>2, <3>3
  <2>6. CASE slot' = NoTime /\ \A i \in 1 .. 7 : ~Hit(i)
    <3>1. \A t \in Expected : t <= slot
      <4> SUFFICES ASSUME NEW t \in Expected, slot < t PROVE FALSE
        BY <1>1, <1>2 DEF Expected
      <4>1. t \in first + 1 .. first + Week /\ Fires(t)  BY DEF Expected
      <4>2. t <= slot + Day * 7  BY <1>1, <1>2, <4>1
      <4>3. 7 \in 1 .. 7  OBVIOUS
      <4> HIDE DEF Hit
      <4>4. \E k \in 1 .. 7 : t = slot + Day * k /\ Hit(k)
        BY <2>5, <4>1, <4>2, <4>3
      <4> QED  BY <2>6, <4>4
    <3>2. fired = Past  BY <1>1 DEF WeekInv, EverySlotOfTheWeek
    <3>3. fired' = fired
      <4>1. slot' \notin first .. first + Week  BY <1>1, <2>6 DEF NoTime
      <4> QED  BY <4>1 DEF Advance
    <3>4. Expected' = Expected  BY <1>1, ReferenceStays
    <3>5. fired' = Expected'  BY <1>1, <3>1, <3>2, <3>3, <3>4 DEF Past
    <3> QED  BY <1>3, <2>6, <3>5 DEF WeekInv, EverySlotOfTheWeek
  <2>7. ASSUME NEW i \in 1 .. 7, slot' = slot + Day * i, Hit(i),
               \A k \in 1 .. i - 1 : ~Hit(k)
        PROVE  WeekInv'
    <3>1. Day * i \in Nat /\ Day * i > 0
      <4>1. i \in Nat /\ i > 0  OBVIOUS
      <4> QED  BY <1>2, <4>1
    <3>2. slot' \in Nat /\ slot < slot'  BY <1>1, <2>7, <3>1
    <3>3. slot' % Day = first % Day
      <4>0. i \in Int  OBVIOUS
      <4>1. (slot + Day * i) % Day = slot % Day  BY <1>0, <1>2, <4>0, StepsOn, Zenon
      <4> QED  BY <2>3, <2>7, <4>1
    <3>4. ASSUME NEW t \in first + 1 .. first + Week, slot < t, t <= slot'
          PROVE  Fires(t) <=> t = slot'
      <4>1. t = slot' => Fires(t)  BY <2>4, <2>7, <3>3
      <4>2. ASSUME Fires(t) PROVE t = slot'
        <5> HIDE DEF Hit
        <5>1. PICK k \in 1 .. i : t = slot + Day * k /\ Hit(k)
          BY <2>5, <2>7, <3>4, <4>2
        <5>2. k = i  BY <2>7, <5>1
        <5> QED  BY <2>7, <5>1, <5>2
      <4> QED  BY <4>1, <4>2
    <3>5. EverySlotOfTheWeek'  BY <3>2, <3>4, SlotAdded
    <3>6. OnItsGrid'  BY <1>1, <1>7, <3>2, <3>3 DEF OnItsGrid
    <3> QED  BY <1>3, <3>5, <3>6 DEF WeekInv
  <2> QED  BY <2>2, <2>6, <2>7
<1> QED  BY <1>4, <1>5, <1>6, <1>7 DEF WeekInv

LEMMA WeekInit == Init => WeekInv
<1> SUFFICES ASSUME Init PROVE WeekInv  OBVIOUS
<1>1. /\ first \in Nat /\ slot = first /\ slot # NoTime /\ fired = {}
      /\ periodicity \in {"hour", "day", "week", "weekdays"}
      /\ weekdays \in SUBSET (1 .. 7)
  BY Lengths DEF Init, NoTime
<1>2. OnItsGrid
  <2>1. (slot - first) % Hour = 0
    <3>1. slot - first = 0  BY <1>1
    <3>2. 0 % Hour = 0  BY Lengths
    <3> QED  BY <3>1, <3>2
  <2> QED  BY <1>1, <2>1 DEF OnItsGrid
<1>3. Past = {}  BY <1>1, Lengths DEF Past, Expected
<1> QED  BY <1>1, <1>2, <1>3 DEF WeekInv, EverySlotOfTheWeek

LEMMA WeekInvariance == Spec => []WeekInv
BY WeekInit, WeekStep, PTL DEF Spec

(***************************************************************************)
(* From any slot, in a week of any length, the chain of next times goes    *)
(* through exactly the slots at which the event is to fire, and ends only  *)
(* where no more is to come in the week.                                   *)
(***************************************************************************)
THEOREM ChainIsTheWeek == Spec => []EverySlotOfTheWeek
BY WeekInvariance, PTL DEF WeekInv

-----------------------------------------------------------------------------
(* Seven days in a row have the seven numbers of the week, each once *)

LEMMA IndexOn ==
  ASSUME NEW t \in Int, NEW k \in Int
  PROVE  \E v \in 0 .. 6 : /\ v = ((t \div Day) + k + 1) % 7
                           /\ WeekdayIndex(t + Day * k) = IF v = 0 THEN 7 ELSE v - 1
<1> DEFINE u == t + Day * k
<1>1. Day \in Nat \ {0}  BY ScheduleAssumption
<1>2. t \div Day \in Int /\ u \div Day = (t \div Day) + k
  BY <1>1, StepsOn, Divided
<1>3. Weekday(u) = ((t \div Day) + k + 1) % 7  BY <1>2 DEF Weekday
<1> HIDE DEF u
<1>4. ((t \div Day) + k + 1) % 7 \in 0 .. 6  BY <1>2
<1>5. WeekdayIndex(u) = IF Weekday(u) = 0 THEN 7 ELSE Weekday(u) - 1
  BY DEF WeekdayIndex
<1> QED  BY <1>3, <1>4, <1>5 DEF u

LEMMA IndexOnce ==
  ASSUME NEW t \in Int, NEW k \in 1 .. 7, NEW l \in 1 .. 7,
         WeekdayIndex(t + Day * k) = WeekdayIndex(t + Day * l)
  PROVE  k = l
<1>1. PICK a \in Int : a = t \div Day
  BY ScheduleAssumption, Divided
<1>2. k \in Int /\ l \in Int  OBVIOUS
<1>3. PICK v \in 0 .. 6 : /\ v = (a + k + 1) % 7
                          /\ WeekdayIndex(t + Day * k) = IF v = 0 THEN 7 ELSE v - 1
  BY <1>1, <1>2, IndexOn
<1>4. PICK w \in 0 .. 6 : /\ w = (a + l + 1) % 7
                          /\ WeekdayIndex(t + Day * l) = IF w = 0 THEN 7 ELSE w - 1
  BY <1>1, <1>2, IndexOn
<1>5. v = w  BY <1>3, <1>4
<1> QED  BY <1>3, <1>4, <1>5

LEMMA IndexReached ==
  ASSUME NEW t \in Int, NEW n \in (1 .. 7) \ {6}
  PROVE  \E k \in 1 .. 7 : WeekdayIndex(t + Day * k) = n
<1>1. PICK a \in Int : a = t \div Day
  BY ScheduleAssumption, Divided
<1>2. PICK k \in 1 .. 7 : (a + k + 1) % 7 = IF n = 7 THEN 0 ELSE n + 1
  OBVIOUS
<1>3. k \in Int  OBVIOUS
<1>4. PICK v \in 0 .. 6 : /\ v = (a + k + 1) % 7
                          /\ WeekdayIndex(t + Day * k) = IF v = 0 THEN 7 ELSE v - 1
  BY <1>1, <1>3, IndexOn
<1> QED  BY <1>2, <1>4

\* No day has the number 6 as the job counts them.
LEMMA IndexRange == \A t \in Int : WeekdayIndex(t) \in (0 .. 7) \ {6}
<1> SUFFICES ASSUME NEW t \in Int PROVE WeekdayIndex(t) \in (0 .. 7) \ {6}
  OBVIOUS
<1>1. Day \in Nat \ {0}  BY ScheduleAssumption
<1>2. PICK v \in 0 .. 6 :
        WeekdayIndex(t + Day * 0) = IF v = 0 THEN 7 ELSE v - 1
  BY IndexOn
<1>3. t + Day * 0 = t  BY <1>1
<1> QED  BY <1>2, <1>3

LEMMA DaysOfTheWeek ==
  ASSUME WeekInv, periodicity = "weekdays"
  PROVE  ExistsBijection(weekdays \ {6}, Expected)
<1> DEFINE T == weekdays \ {6}
           f == [t \in Expected |-> WeekdayIndex(t)]
<1>0. /\ first \in Nat /\ first \in Int /\ weekdays \in SUBSET (1 .. 7)
      /\ Day \in Nat \ {0} /\ Week = 7 * Day
  BY Lengths DEF WeekInv
<1>1. ASSUME NEW t
      PROVE  t \in Expected <=>
               /\ t \in first + 1 .. first + Week
               /\ t % Day = first % Day /\ WeekdayIndex(t) \in weekdays
  BY DEF Expected, Fires
<1>2. ASSUME NEW t \in Expected PROVE \E k \in 1 .. 7 : t = first + Day * k
  <2>1. t \in Int /\ first < t /\ t <= first + Day * 7  BY <1>0, <1>1
  <2>2. first % Day = t % Day  BY <1>1
  <2>3. PICK a \in Int, b \in Int : a = first /\ b = t  BY <1>0, <2>1
  <2>4. a % Day = b % Day /\ a < b /\ b <= a + Day * 7 /\ 7 \in Nat  BY <2>1, <2>2, <2>3
  <2>5. \E k \in 1 .. 7 : b = a + Day * k  BY <2>4, OnDays
  <2> QED  BY <2>3, <2>5
<1>3. f \in [Expected -> T]
  <2>1. ASSUME NEW t \in Expected PROVE WeekdayIndex(t) \in T
    <3>1. t \in Int /\ WeekdayIndex(t) \in weekdays  BY <1>0, <1>1
    <3>2. WeekdayIndex(t) # 6  BY <3>1, IndexRange
    <3> QED  BY <3>1, <3>2
  <2> QED  BY <2>1
<1>4. ASSUME NEW s \in Expected, NEW t \in Expected, f[s] = f[t] PROVE s = t
  <2>1. WeekdayIndex(s) = WeekdayIndex(t)  BY <1>4
  <2>2. PICK k \in 1 .. 7 : s = first + Day * k  BY <1>2
  <2>3. PICK l \in 1 .. 7 : t = first + Day * l  BY <1>2
  <2>4. k = l
    <3>1. PICK a \in Int : a = first  BY <1>0
    <3>2. WeekdayIndex(a + Day * k) = WeekdayIndex(a + Day * l)
      BY <2>1, <2>2, <2>3, <3>1
    <3> QED  BY <3>2, IndexOnce
  <2> QED  BY <2>2, <2>3, <2>4
<1>5. ASSUME NEW n \in T PROVE \E t \in Expected : f[t] = n
  <2>1. n \in (1 .. 7) \ {6} /\ n \in weekdays  BY <1>0
  <2>2. PICK a \in Int : a = first  BY <1>0
  <2>3. PICK k \in 1 .. 7 : WeekdayIndex(a + Day * k) = n  BY <2>1, IndexReached
  <2>4. PICK t \in Int : t = first + Day * k  BY <1>0
  <2>5. Day <= Day * k /\ Day * k <= 7 * Day  BY <1>0
  <2>6. t \in first + 1 .. first + Week
    <3>1. Day * k \in Int  BY <1>0
    <3> QED  BY <1>0, <2>4, <2>5, <3>1
  <2>7. t % Day = first % Day
    <3>0. k \in Int  OBVIOUS
    <3>1. (a + Day * k) % Day = a % Day  BY <1>0, <3>0, StepsOn, Zenon
    <3> QED  BY <2>2, <2>4, <3>1
  <2>8. t \in Expected  BY <1>1, <2>1, <2>2, <2>3, <2>4, <2>6, <2>7
  <2> QED  BY <2>2, <2>3, <2>4, <2>8
<1> HIDE DEF T, f
<1>6. f \in Bijection(Expected, T)  BY <1>3, <1>4, <1>5, Fun_IsBij
<1>7. ExistsBijection(Expected, T)  BY <1>6 DEF ExistsBijection
<1>8. ExistsBijection(T, Expected)  BY <1>7, Fun_ExistsBijSymmetric
<1> QED  BY <1>8 DEF T

LEMMA OncePerDay == WeekInv => OncePerSelectedDay
<1> SUFFICES ASSUME WeekInv, periodicity = "weekdays", slot # NoTime,
                    slot - first >= Week
             PROVE  Cardinality(fired) = Cardinality(weekdays \ {6})
  BY DEF OncePerSelectedDay
<1>1. /\ first \in Nat /\ slot \in Int /\ weekdays \in SUBSET (1 .. 7) /\ Week \in Nat
      /\ fired = Past
  BY Lengths DEF WeekInv, OnItsGrid, EverySlotOfTheWeek
<1>2. fired = Expected
  <2>1. \A t \in Expected : t <= slot  BY <1>1 DEF Expected
  <2> QED  BY <1>1, <2>1 DEF Past
<1>3. IsFiniteSet(weekdays \ {6})
  <2>0. 1 \in Int /\ 7 \in Int  OBVIOUS
  <2>1. IsFiniteSet(1 .. 7)  BY <2>0, FS_Interval, Zenon
  <2>2. weekdays \ {6} \in SUBSET (1 .. 7)  BY <1>1
  <2> QED  BY <2>1, <2>2, FS_Subset
<1>4. ExistsBijection(weekdays \ {6}, Expected)  BY DaysOfTheWeek
<1>5. Cardinality(Expected) = Cardinality(weekdays \ {6})
  BY <1>3, <1>4, FS_Bijection
<1> QED  BY <1>2, <1>5

(***************************************************************************)
(* A week of a weekly selection has one reminder for every selected day:   *)
(* no day comes twice and none is left out, but the number 6 of the        *)
(* keyboard (Saturday), which the job computes for no day.                 *)
(***************************************************************************)
THEOREM OnceADay == Spec => []OncePerSelectedDay
BY WeekInvariance, OncePerDay, PTL
=============================================================================
