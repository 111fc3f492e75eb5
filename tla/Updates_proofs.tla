--------------------------- MODULE Updates_proofs ---------------------------
(***************************************************************************)
(* The safety properties of the delivery of updates, for any number of     *)
(* updates and restarts and any capacity of the channel; and that every    *)
(* button and message is understood as it was meant, for any numbers.      *)
(***************************************************************************)
EXTENDS Updates, FiniteSetTheorems, TLAPS

\* Ids are the natural numbers up to the number of updates.
LEMMA IdsAreNumbers == Ids \subseteq Nat /\ Len(Wants) \in Nat
BY UpdatesAssumption DEF Ids

\* A function on an initial segment is a sequence.
LEMMA SegmentIsSeq ==
  ASSUME NEW S, NEW n \in Nat, NEW f \in [1 .. n -> S]
  PROVE  f \in Seq(S) /\ Len(f) = n /\ DOMAIN f = 1 .. n
OBVIOUS

\* What the server answers with: consecutive ids from the offset on.
LEMMA PendingIds ==
  ASSUME TypeOK, NEW offset \in Nat \ {0}, offset <= Len(sent)
  PROVE  /\ Pending(offset) \in Seq(Ids)
         /\ Len(Pending(offset)) <= MaxAnswer
         /\ \A i \in DOMAIN Pending(offset) : Pending(offset)[i] = offset + i - 1
<1> DEFINE last == IF Len(sent) < offset + MaxAnswer THEN Len(sent)
                   ELSE offset + MaxAnswer - 1
           n == last - offset + 1
<1>1. /\ Len(sent) \in Nat /\ Len(sent) <= Len(Wants) /\ MaxAnswer \in Nat \ {0}
      /\ Len(Wants) \in Nat
  BY UpdatesAssumption DEF TypeOK
<1>2. n \in Nat /\ n <= MaxAnswer /\ last <= Len(Wants) /\ last \in Nat
  BY <1>1
<1>3. Pending(offset) = [i \in 1 .. n |-> offset + i - 1]
  BY DEF Pending
<1>4. [i \in 1 .. n |-> offset + i - 1] \in [1 .. n -> Ids]
  BY <1>1, <1>2 DEF Ids
<1>5. ASSUME NEW m \in Nat, NEW f \in [1 .. m -> Ids]
      PROVE  f \in Seq(Ids) /\ Len(f) = m /\ DOMAIN f = 1 .. m
  BY SegmentIsSeq
<1> HIDE DEF n, last
<1> DEFINE f == [i \in 1 .. n |-> offset + i - 1]
<1>6. f \in Seq(Ids) /\ Len(f) = n /\ DOMAIN f = 1 .. n
  BY <1>2, <1>4, <1>5
<1>7. \A i \in DOMAIN f : f[i] = offset + i - 1
  BY <1>6
<1> QED
  BY <1>2, <1>3, <1>6, <1>7

\* It holds nothing that was not sent.
LEMMA PendingWithin ==
  ASSUME TypeOK, NEW offset \in Nat \ {0}, offset <= Len(sent),
         NEW i \in DOMAIN Pending(offset)
  PROVE  Pending(offset)[i] <= Len(sent)
<1>1. Len(sent) \in Nat /\ MaxAnswer \in Nat \ {0}
  BY UpdatesAssumption DEF TypeOK
<1> QED
  BY <1>1 DEF Pending

LEMMA MemoryHoldsIds == TypeOK => InMemory \subseteq Ids
BY DEF TypeOK, InMemory, ToSet

\* Nothing is forgotten at the start: nothing was sent.
LEMMA InitInv == Init => IInv
<1> SUFFICES ASSUME Init PROVE IInv
  OBVIOUS
<1>1. Len(Wants) \in Nat /\ Ids \subseteq Nat
  BY IdsAreNumbers
<1>2. TypeOK
  BY <1>1, UpdatesAssumption DEF Init, TypeOK, Ids
<1>3. Consecutive
  BY DEF Init, Consecutive, Fresh
<1>4. Accounted /\ NotYet /\ OncePerProcess
  BY DEF Init, Accounted, NotYet, OncePerProcess
<1> QED
  BY <1>2, <1>3, <1>4 DEF IInv

-----------------------------------------------------------------------------
(* Every step keeps the types *)

LEMMA TypeStep == TypeOK /\ Consecutive /\ [Next]_vars => TypeOK'
<1> SUFFICES ASSUME TypeOK, Consecutive, [Next]_vars PROVE TypeOK'
  OBVIOUS
<1> USE IdsAreNumbers, UpdatesAssumption
<1>1. CASE Sends
  <2>1. PICK want \in Wants[Len(sent) + 1] : sent' = Append(sent, want)
    BY <1>1 DEF Sends
  <2>2. Len(sent) + 1 \in DOMAIN Wants /\ want \in UNION ToSet(Wants)
    BY <1>1 DEF Sends, TypeOK, ToSet
  <2>3. /\ sent' \in Seq(UNION ToSet(Wants)) /\ Len(sent') = Len(sent) + 1
        /\ \A u \in DOMAIN sent' : sent'[u] \in Wants[u]
    BY <2>1, <2>2 DEF TypeOK
  <2> QED
    BY <1>1, <2>3 DEF Sends, TypeOK, observers, stages
<1>2. CASE Polls
  <2>1. First \in Nat \ {0} /\ First <= Len(sent)
    BY <1>2 DEF Polls, TypeOK, Offset, First
  <2>2. fetched' \in Seq(Ids) /\ Len(fetched') <= MaxAnswer
    BY <1>2, <2>1, PendingIds DEF Polls
  <2>3. confirmed' \in 0 .. Len(sent)
    BY <1>2, <2>1 DEF Polls, TypeOK
  <2> QED
    BY <1>2, <2>2, <2>3 DEF Polls, TypeOK, observers
<1>3. CASE PollFails
  BY <1>3 DEF PollFails, TypeOK, Offset, observers, stages
<1>4. CASE Pushes
  <2>1. Head(fetched) \in Ids /\ Tail(fetched) \in Seq(Ids) /\ Len(Tail(fetched)) <= MaxAnswer
    BY <1>4 DEF Pushes, TypeOK
  <2>2. Append(updates, Head(fetched)) \in Seq(Ids)
        /\ Len(Append(updates, Head(fetched))) <= ChanCap
    BY <1>4, <2>1 DEF Pushes, TypeOK
  <2>3. Head(fetched) \in 0 .. Len(sent)
    <3>1. Len(fetched) >= 1 /\ Head(fetched) = Fresh + 1
      BY <1>4 DEF Pushes, TypeOK, Consecutive
    <3>2. Fresh \in Nat
      BY DEF Fresh, TypeOK
    <3>3. Len(fetched) \in Nat /\ Len(sent) \in Nat /\ Fresh + Len(fetched) <= Len(sent)
      BY DEF TypeOK, Consecutive
    <3> QED
      BY <3>1, <3>2, <3>3
  <2> QED
    BY <1>4, <2>1, <2>2, <2>3 DEF Pushes, TypeOK, observers
<1>5. CASE Dispatches
  <2>1. Head(updates) \in Ids /\ Tail(updates) \in Seq(Ids) /\ Len(Tail(updates)) <= ChanCap
    BY <1>5 DEF Dispatches, TypeOK
  <2>2. DOMAIN running' = DOMAIN running \cup {Head(updates)}
    BY <1>5 DEF Dispatches
  <2> QED
    BY <1>5, <2>1, <2>2 DEF Dispatches, TypeOK, observers
<1>6. ASSUME NEW u \in Ids, HandlerEnds(u) PROVE TypeOK'
  <2>1. DOMAIN running' = DOMAIN running \ {u}
    BY <1>6 DEF HandlerEnds, Restrict
  <2>2. acted \in [Ids -> Nat] /\ acted' = [acted EXCEPT ![u] = acted[u] + 1]
    BY <1>6 DEF HandlerEnds, TypeOK
  <2>3. acted' \in [Ids -> Nat]
    BY <2>2
  <2> QED
    BY <1>6, <2>1, <2>3 DEF HandlerEnds, TypeOK
<1>7. ASSUME NEW u \in Ids, HandlerFails(u) PROVE TypeOK'
  <2>1. DOMAIN running' = DOMAIN running \ {u}
    BY <1>7 DEF HandlerFails, Restrict
  <2> QED
    BY <1>7, <2>1 DEF HandlerFails, TypeOK
<1>8. CASE CloseDatabase
  BY <1>8 DEF CloseDatabase, TypeOK, observers, stages
<1>9. CASE Exits
  <2>1. casualties' \subseteq Ids /\ DOMAIN running' = {}
    BY <1>9, MemoryHoldsIds DEF Exits, TypeOK
  <2> QED
    BY <1>9, <2>1 DEF Exits, TypeOK
<1>10. CASE StartsUp
  BY <1>10 DEF StartsUp, TypeOK, observers, stages
<1>11. CASE UNCHANGED vars
  BY <1>11 DEF vars, TypeOK, observers, stages
<1> QED
  BY <1>1, <1>2, <1>3, <1>4, <1>5, <1>6, <1>7, <1>8, <1>9, <1>10, <1>11 DEF Next

-----------------------------------------------------------------------------
(* Sequences as sets *)

LEMMA HeadAndTail ==
  ASSUME NEW S, NEW s \in Seq(S), s # <<>>
  PROVE  ToSet(s) = {Head(s)} \cup ToSet(Tail(s))
<1>1. Len(s) \in Nat \ {0} /\ DOMAIN s = 1 .. Len(s) /\ Head(s) = s[1]
  OBVIOUS
<1>2. /\ DOMAIN Tail(s) = 1 .. Len(s) - 1
      /\ \A i \in 1 .. Len(s) - 1 : Tail(s)[i] = s[i + 1]
  OBVIOUS
<1>3. ASSUME NEW x \in ToSet(s) PROVE x = Head(s) \/ x \in ToSet(Tail(s))
  <2>1. PICK i \in DOMAIN s : x = s[i]
    BY <1>3 DEF ToSet
  <2>2. CASE i = 1
    BY <1>1, <2>1, <2>2
  <2>3. CASE i # 1
    <3>1. i - 1 \in DOMAIN Tail(s) /\ Tail(s)[i - 1] = x
      BY <1>1, <1>2, <2>1, <2>3
    <3> QED
      BY <3>1 DEF ToSet
  <2> QED
    BY <2>2, <2>3
<1>4. ASSUME NEW x \in ToSet(Tail(s)) PROVE x \in ToSet(s)
  <2>1. PICK i \in DOMAIN Tail(s) : x = Tail(s)[i]
    BY <1>4 DEF ToSet
  <2>2. i + 1 \in DOMAIN s /\ s[i + 1] = x
    BY <1>1, <1>2, <2>1
  <2> QED
    BY <2>2 DEF ToSet
<1>5. Head(s) \in ToSet(s)
  BY <1>1 DEF ToSet
<1> QED
  BY <1>3, <1>4, <1>5

LEMMA SetOfAppend ==
  ASSUME NEW S, NEW s \in Seq(S), NEW x \in S
  PROVE  ToSet(Append(s, x)) = ToSet(s) \cup {x}
<1>1. /\ Len(s) \in Nat /\ DOMAIN s = 1 .. Len(s)
      /\ DOMAIN Append(s, x) = 1 .. Len(s) + 1
      /\ Append(s, x)[Len(s) + 1] = x
      /\ \A i \in 1 .. Len(s) : Append(s, x)[i] = s[i]
  OBVIOUS
<1>2. 1 .. Len(s) + 1 = 1 .. Len(s) \cup {Len(s) + 1}
  BY <1>1
<1> QED
  BY <1>1, <1>2 DEF ToSet

-----------------------------------------------------------------------------
(* Every step keeps what waits in a row *)

LEMMA Numerals ==
  TypeOK => /\ lastUpdateID \in Nat /\ confirmed \in Nat /\ Fresh \in Nat
            /\ Len(sent) \in Nat /\ Len(updates) \in Nat /\ Len(fetched) \in Nat
            /\ restarts \in Nat /\ Ids \subseteq Nat \ {0}
            /\ Fresh <= Len(sent)
<1>1. Ids \subseteq Nat \ {0}
  BY IdsAreNumbers DEF Ids
<1> QED
  BY <1>1 DEF TypeOK, Fresh

\* The update pushed is the one after everything taken or dropped.
LEMMA NextInLine ==
  ASSUME TypeOK, Consecutive, fetched # <<>>
  PROVE  /\ Head(fetched) = Fresh + 1
         /\ Tail(fetched) \in Seq(Ids) /\ Len(Tail(fetched)) = Len(fetched) - 1
         /\ \A i \in DOMAIN Tail(fetched) : Tail(fetched)[i] = Fresh + 1 + i
<1>1. fetched \in Seq(Ids) /\ Len(fetched) \in Nat \ {0} /\ Head(fetched) = fetched[1]
  BY DEF TypeOK
<1>2. /\ Tail(fetched) \in Seq(Ids) /\ Len(Tail(fetched)) = Len(fetched) - 1
      /\ DOMAIN Tail(fetched) = 1 .. Len(fetched) - 1
      /\ \A i \in 1 .. Len(fetched) - 1 : Tail(fetched)[i] = fetched[i + 1]
  BY <1>1
<1>3. \A i \in 1 .. Len(fetched) : fetched[i] = Fresh + i
  BY <1>1 DEF Consecutive
<1>4. Fresh \in Nat
  BY Numerals
<1> QED
  BY <1>1, <1>2, <1>3, <1>4

LEMMA ConsecutiveStep == TypeOK /\ TypeOK' /\ Consecutive /\ [Next]_vars => Consecutive'
<1> SUFFICES ASSUME TypeOK, TypeOK', Consecutive, [Next]_vars PROVE Consecutive'
  OBVIOUS
<1> USE Numerals
<1>1. CASE Sends
  <2>1. Len(sent') = Len(sent) + 1
    BY <1>1 DEF Sends, TypeOK
  <2> QED
    BY <1>1, <2>1 DEF Sends, Consecutive, Fresh, stages
<1>2. CASE Polls
  <2>1. First \in Nat \ {0} /\ First <= Len(sent) /\ First - 1 = Fresh
    BY <1>2 DEF Polls, Offset, First, Fresh
  <2>2. /\ fetched' = Pending(First)
        /\ \A i \in DOMAIN Pending(First) : Pending(First)[i] = First + i - 1
    BY <1>2, <2>1, PendingIds DEF Polls
  <2>3. Fresh' = Fresh
    BY <1>2, <2>1 DEF Polls, Fresh
  <2>4. \A i \in DOMAIN fetched' : fetched'[i] = Fresh' + i
    BY <2>1, <2>2, <2>3 DEF TypeOK
  <2>5. Fresh' + Len(fetched') <= Len(sent')
    <3>1. CASE Len(fetched') = 0
      BY <3>1, <2>3, <1>2 DEF Polls
    <3>2. CASE Len(fetched') # 0
      <4>1. Len(fetched') \in DOMAIN fetched' /\ fetched' \in Seq(Ids)
        BY <3>2 DEF TypeOK
      <4>2. fetched'[Len(fetched')] = Fresh' + Len(fetched')
        BY <2>4, <4>1
      <4>3. Pending(First)[Len(fetched')] <= Len(sent)
        BY <1>2, <2>1, <2>2, <4>1, PendingWithin
      <4> QED
        BY <4>2, <4>3, <2>2, <1>2 DEF Polls
    <3> QED
      BY <3>1, <3>2
  <2>6. lastUpdateID' > 0 => confirmed' <= lastUpdateID'
    BY <1>2, <2>1 DEF Polls, Consecutive, Fresh
  <2> QED
    BY <1>2, <2>4, <2>5, <2>6 DEF Polls, Consecutive
<1>3. CASE PollFails
  BY <1>3 DEF PollFails, Consecutive, Fresh, Offset, stages
<1>4. CASE Pushes
  <2>1. /\ lastUpdateID' = Fresh + 1 /\ fetched' = Tail(fetched)
        /\ updates' = Append(updates, Fresh + 1)
        /\ UNCHANGED <<sent, confirmed, running>>
    BY <1>4, NextInLine DEF Pushes
  <2>2. Fresh' = Fresh + 1
    BY <2>1 DEF Fresh
  <2>3. /\ \A i \in DOMAIN fetched' : fetched'[i] = Fresh' + i
        /\ Fresh' + Len(fetched') <= Len(sent')
    BY <1>4, <2>1, <2>2, NextInLine DEF Pushes, Consecutive
  <2>4. updates = <<>> \/ Fresh = lastUpdateID
    BY DEF Consecutive, Fresh, TypeOK
  <2>5. /\ Len(updates') = Len(updates) + 1
        /\ DOMAIN updates' = 1 .. Len(updates) + 1
        /\ updates'[Len(updates) + 1] = Fresh + 1
        /\ \A i \in 1 .. Len(updates) : updates'[i] = updates[i]
    BY <2>1 DEF TypeOK
  <2>6. \A i \in DOMAIN updates' : updates'[i] = lastUpdateID' - Len(updates') + i
    <3>1. ASSUME NEW i \in 1 .. Len(updates)
          PROVE  updates'[i] = lastUpdateID' - Len(updates') + i
      <4>1. i \in DOMAIN updates
        BY <3>1 DEF TypeOK
      <4>2. updates # <<>>
        BY <4>1
      <4>3. Fresh = lastUpdateID
        BY <2>4, <4>2, Zenon
      <4>4. updates[i] = lastUpdateID - Len(updates) + i
        BY <4>1 DEF Consecutive
      <4>5. lastUpdateID' = lastUpdateID + 1
        BY <2>1, <4>3, Zenon
      <4>6. updates'[i] = updates[i]
        BY <2>5, <3>1, Zenon
      <4>7. /\ lastUpdateID \in Nat
            /\ Len(updates) \in Nat
            /\ i \in Nat
        BY <3>1 DEF TypeOK
      <4> QED
        BY <2>5, <4>4, <4>5, <4>6, <4>7
    <3> QED
      BY <2>1, <2>5, <3>1
  <2>7. lastUpdateID <= Fresh
    BY DEF Fresh
  <2>8. \A u \in DOMAIN running' : u <= lastUpdateID' - Len(updates')
    <3>1. \A u \in DOMAIN running : u \in Nat /\ u <= lastUpdateID - Len(updates)
      BY DEF Consecutive, TypeOK
    <3> QED
      BY <3>1, <2>1, <2>5, <2>7
  <2>9. Len(updates') <= lastUpdateID' /\ confirmed' <= lastUpdateID'
    BY <2>1, <2>5, <2>7 DEF Consecutive, Fresh
  <2> QED
    BY <2>3, <2>6, <2>8, <2>9 DEF Consecutive
<1>5. CASE Dispatches
  <2>1. /\ updates # <<>> /\ updates' = Tail(updates)
        /\ DOMAIN running' = DOMAIN running \cup {Head(updates)}
        /\ UNCHANGED <<sent, confirmed, lastUpdateID, fetched>>
    BY <1>5 DEF Dispatches
  <2>2. /\ updates \in Seq(Ids) /\ Len(updates) \in Nat \ {0} /\ Head(updates) = updates[1]
    BY <2>1 DEF TypeOK
  <2>3. /\ Len(updates') = Len(updates) - 1 /\ DOMAIN updates' = 1 .. Len(updates) - 1
        /\ \A i \in 1 .. Len(updates) - 1 : updates'[i] = updates[i + 1]
    BY <2>1, <2>2
  <2>4. \A i \in 1 .. Len(updates) : updates[i] = lastUpdateID - Len(updates) + i
    BY <2>2 DEF Consecutive
  <2>5. \A i \in DOMAIN updates' : updates'[i] = lastUpdateID' - Len(updates') + i
    BY <2>1, <2>2, <2>3, <2>4
  <2>6. \A u \in DOMAIN running' : u <= lastUpdateID' - Len(updates')
    <3>1. \A u \in DOMAIN running : u \in Nat /\ u <= lastUpdateID - Len(updates)
      BY DEF Consecutive, TypeOK
    <3>2. Head(updates) = lastUpdateID - Len(updates) + 1
      BY <2>2, <2>4
    <3> QED
      BY <3>1, <3>2, <2>1, <2>2, <2>3
  <2>7. Len(updates') <= lastUpdateID' /\ Fresh' = Fresh
    BY <2>1, <2>2, <2>3 DEF Consecutive, Fresh
  <2> QED
    BY <2>1, <2>5, <2>6, <2>7 DEF Consecutive
<1>6. ASSUME NEW u \in Ids, HandlerEnds(u) PROVE Consecutive'
  <2>1. DOMAIN running' \subseteq DOMAIN running
    BY <1>6 DEF HandlerEnds, Restrict
  <2> QED
    BY <1>6, <2>1 DEF HandlerEnds, Consecutive, Fresh
<1>7. ASSUME NEW u \in Ids, HandlerFails(u) PROVE Consecutive'
  <2>1. DOMAIN running' \subseteq DOMAIN running
    BY <1>7 DEF HandlerFails, Restrict
  <2> QED
    BY <1>7, <2>1 DEF HandlerFails, Consecutive, Fresh
<1>8. CASE CloseDatabase
  BY <1>8 DEF CloseDatabase, Consecutive, Fresh, stages
<1>9. CASE Exits
  <2>1. DOMAIN running' = {} /\ Fresh' = confirmed
    BY <1>9 DEF Exits, Fresh
  <2> QED
    BY <1>9, <2>1 DEF Exits, Consecutive, TypeOK
<1>10. CASE StartsUp
  BY <1>10 DEF StartsUp, Consecutive, Fresh, stages
<1>11. CASE UNCHANGED vars
  BY <1>11 DEF vars, Consecutive, Fresh, stages
<1> QED
  BY <1>1, <1>2, <1>3, <1>4, <1>5, <1>6, <1>7, <1>8, <1>9, <1>10, <1>11 DEF Next

-----------------------------------------------------------------------------
(* Every step accounts for what it takes *)

LEMMA AccountedStep ==
  TypeOK /\ TypeOK' /\ Consecutive /\ Accounted /\ [Next]_vars => Accounted'
<1> SUFFICES ASSUME TypeOK, TypeOK', Consecutive, Accounted, [Next]_vars PROVE Accounted'
  OBVIOUS
<1> USE Numerals
<1>1. CASE Sends
  <2>1. /\ Len(sent') = Len(sent) + 1 /\ DOMAIN sent' = 1 .. Len(sent) + 1
        /\ DOMAIN sent = 1 .. Len(sent)
    BY <1>1 DEF Sends, TypeOK
  <2>2. Fresh' = Fresh /\ InMemory' = InMemory /\ UNCHANGED <<acted, casualties>>
    BY <1>1 DEF Sends, Fresh, InMemory, stages, observers
  <2>3. \A u \in DOMAIN sent' : u <= Fresh' => u \in DOMAIN sent
    BY <2>1, <2>2
  <2> QED
    BY <2>2, <2>3 DEF Accounted
<1>2. CASE Polls
  <2>1. Fresh' = Fresh
    BY <1>2 DEF Polls, Fresh, First, Offset
  <2>2. InMemory \subseteq InMemory'
    <3>1. ToSet(fetched) = {}
      BY <1>2 DEF Polls, ToSet
    <3> QED
      BY <1>2, <3>1 DEF Polls, InMemory
  <2> QED
    BY <1>2, <2>1, <2>2 DEF Polls, Accounted, observers
<1>3. CASE PollFails
  <2>1. Fresh' = Fresh /\ InMemory' = InMemory
    BY <1>3 DEF PollFails, Fresh, Offset, InMemory, stages
  <2> QED
    BY <1>3, <2>1 DEF PollFails, Accounted, observers
<1>4. CASE Pushes
  <2>1. /\ fetched # <<>> /\ fetched' = Tail(fetched)
        /\ updates' = Append(updates, Head(fetched)) /\ lastUpdateID' = Head(fetched)
        /\ UNCHANGED <<sent, confirmed, running, acted, casualties>>
    BY <1>4 DEF Pushes, observers
  <2>2. Head(fetched) = Fresh + 1 /\ Fresh' = Fresh + 1
    BY <2>1, NextInLine DEF Fresh
  <2>3. /\ ToSet(fetched) = {Head(fetched)} \cup ToSet(Tail(fetched))
        /\ ToSet(updates') = ToSet(updates) \cup {Head(fetched)}
    <3>1. fetched \in Seq(Ids) /\ updates \in Seq(Ids) /\ Head(fetched) \in Ids
      BY <2>1 DEF TypeOK
    <3> QED
      BY <2>1, <3>1, HeadAndTail, SetOfAppend
  <2>4. InMemory' = InMemory /\ Fresh + 1 \in InMemory
    BY <2>1, <2>2, <2>3 DEF InMemory
  <2>5. \A u \in DOMAIN sent : u <= Fresh + 1 => u <= Fresh \/ u = Fresh + 1
    <3>1. DOMAIN sent = 1 .. Len(sent) /\ Len(sent) \in Nat /\ Fresh \in Nat
      BY DEF TypeOK
    <3> QED
      BY <3>1
  <2> QED
    BY <2>1, <2>2, <2>4, <2>5 DEF Accounted
<1>5. CASE Dispatches
  <2>1. /\ updates # <<>> /\ updates' = Tail(updates)
        /\ DOMAIN running' = DOMAIN running \cup {Head(updates)}
        /\ UNCHANGED <<sent, confirmed, lastUpdateID, fetched, acted, casualties>>
    BY <1>5 DEF Dispatches, observers
  <2>2. ToSet(updates) = {Head(updates)} \cup ToSet(updates')
    BY <2>1, HeadAndTail DEF TypeOK
  <2>3. InMemory' = InMemory /\ Fresh' = Fresh
    BY <2>1, <2>2 DEF InMemory, Fresh
  <2> QED
    BY <2>1, <2>3 DEF Accounted
<1>6. ASSUME NEW v \in Ids, HandlerEnds(v) PROVE Accounted'
  <2>1. /\ DOMAIN running' = DOMAIN running \ {v}
        /\ UNCHANGED <<sent, confirmed, lastUpdateID, fetched, updates, casualties>>
    BY <1>6 DEF HandlerEnds, Restrict
  <2>2. InMemory \ {v} \subseteq InMemory' /\ Fresh' = Fresh
    BY <2>1 DEF InMemory, Fresh
  <2>3. acted \in [Ids -> Nat] /\ acted' = [acted EXCEPT ![v] = acted[v] + 1]
    BY <1>6 DEF HandlerEnds, TypeOK
  <2>4. acted'[v] > 0 /\ \A u \in Ids : acted[u] > 0 => acted'[u] > 0
    BY <2>3
  <2>5. DOMAIN sent \subseteq Ids
    BY IdsAreNumbers DEF TypeOK, Ids
  <2> QED
    BY <2>1, <2>2, <2>4, <2>5 DEF Accounted
<1>7. ASSUME NEW v \in Ids, HandlerFails(v) PROVE Accounted'
  <2>1. /\ DOMAIN running' = DOMAIN running \ {v} /\ casualties' = casualties \cup {v}
        /\ UNCHANGED <<sent, confirmed, lastUpdateID, fetched, updates, acted>>
    BY <1>7 DEF HandlerFails, Restrict
  <2>2. InMemory \ {v} \subseteq InMemory' /\ Fresh' = Fresh
    BY <2>1 DEF InMemory, Fresh
  <2> QED
    BY <2>1, <2>2 DEF Accounted
<1>8. CASE CloseDatabase
  BY <1>8 DEF CloseDatabase, Accounted, Fresh, InMemory, stages, observers
<1>9. CASE Exits
  <2>1. /\ Fresh' = confirmed /\ UNCHANGED <<sent, acted>>
        /\ casualties' = casualties \cup {u \in InMemory : u <= confirmed}
    BY <1>9 DEF Exits, Fresh
  <2>2. \A u \in DOMAIN sent : u <= confirmed => u <= Fresh
    BY DEF Fresh, TypeOK
  <2> QED
    BY <2>1, <2>2 DEF Accounted
<1>10. CASE StartsUp
  BY <1>10 DEF StartsUp, Accounted, Fresh, InMemory, stages, observers
<1>11. CASE UNCHANGED vars
  BY <1>11 DEF vars, Accounted, Fresh, InMemory, stages, observers
<1> QED
  BY <1>1, <1>2, <1>3, <1>4, <1>5, <1>6, <1>7, <1>8, <1>9, <1>10, <1>11 DEF Next

-----------------------------------------------------------------------------
(* No step lets an update act twice in one process *)

LEMMA NotYetStep ==
  TypeOK /\ Consecutive /\ NotYet /\ OncePerProcess /\ [Next]_vars
    => NotYet' /\ OncePerProcess'
<1> SUFFICES ASSUME TypeOK, Consecutive, NotYet, OncePerProcess, [Next]_vars
             PROVE  NotYet' /\ OncePerProcess'
  OBVIOUS
<1> USE Numerals
<1>1. CASE Sends
  BY <1>1 DEF Sends, NotYet, OncePerProcess, stages, observers
<1>2. CASE Polls
  BY <1>2 DEF Polls, NotYet, OncePerProcess, observers
<1>3. CASE PollFails
  BY <1>3 DEF PollFails, NotYet, OncePerProcess, stages, observers
<1>4. CASE Pushes
  <2>1. /\ lastUpdateID' = Fresh + 1 /\ updates' = Append(updates, Fresh + 1)
        /\ UNCHANGED <<running, acted, restarts>>
    BY <1>4, NextInLine DEF Pushes, observers
  <2>2. Len(updates') = Len(updates) + 1 /\ lastUpdateID <= Fresh
    BY <2>1 DEF TypeOK, Fresh
  <2>3. \A u \in Ids : u > lastUpdateID' - Len(updates') => u > lastUpdateID - Len(updates)
    BY <2>1, <2>2
  <2> QED
    BY <2>1, <2>3 DEF NotYet, OncePerProcess
<1>5. CASE Dispatches
  <2>1. /\ updates # <<>> /\ updates' = Tail(updates)
        /\ DOMAIN running' = DOMAIN running \cup {Head(updates)}
        /\ UNCHANGED <<lastUpdateID, acted, restarts>>
    BY <1>5 DEF Dispatches, observers
  <2>2. Len(updates) >= 1 /\ Len(updates') = Len(updates) - 1
    BY <2>1 DEF TypeOK
  <2>3. Head(updates) = lastUpdateID - Len(updates) + 1
    BY <2>1 DEF TypeOK, Consecutive
  <2>4. \A u \in Ids : (u \in DOMAIN running' \/ u > lastUpdateID' - Len(updates'))
                       => (u \in DOMAIN running \/ u > lastUpdateID - Len(updates))
    BY <2>1, <2>2, <2>3
  <2> QED
    BY <2>1, <2>4 DEF NotYet, OncePerProcess
<1>6. ASSUME NEW v \in Ids, HandlerEnds(v) PROVE NotYet' /\ OncePerProcess'
  <2>1. /\ v \in DOMAIN running /\ DOMAIN running' = DOMAIN running \ {v}
        /\ UNCHANGED <<lastUpdateID, updates, restarts>>
    BY <1>6 DEF HandlerEnds, Restrict
  <2>2. acted \in [Ids -> Nat] /\ acted' = [acted EXCEPT ![v] = acted[v] + 1]
    BY <1>6 DEF HandlerEnds, TypeOK
  <2>3. acted'[v] = acted[v] + 1 /\ \A u \in Ids : u # v => acted'[u] = acted[u]
    BY <2>2
  <2>4. acted[v] <= restarts /\ ~ (v > lastUpdateID - Len(updates))
    BY <2>1 DEF NotYet, Consecutive
  <2>5. acted'[v] <= 1 + restarts
    BY <2>2, <2>3, <2>4
  <2> QED
    BY <2>1, <2>3, <2>4, <2>5 DEF NotYet, OncePerProcess
<1>7. ASSUME NEW v \in Ids, HandlerFails(v) PROVE NotYet' /\ OncePerProcess'
  <2>1. DOMAIN running' \subseteq DOMAIN running
    BY <1>7 DEF HandlerFails, Restrict
  <2> QED
    BY <1>7, <2>1 DEF HandlerFails, NotYet, OncePerProcess
<1>8. CASE CloseDatabase
  BY <1>8 DEF CloseDatabase, NotYet, OncePerProcess, stages, observers
<1>9. CASE Exits
  <2>1. restarts' = restarts + 1 /\ acted' = acted
    BY <1>9 DEF Exits
  <2>2. \A u \in Ids : acted[u] \in Nat /\ acted[u] <= restarts'
    BY <2>1 DEF OncePerProcess, TypeOK
  <2> QED
    BY <2>1, <2>2 DEF NotYet, OncePerProcess
<1>10. CASE StartsUp
  BY <1>10 DEF StartsUp, NotYet, OncePerProcess, stages, observers
<1>11. CASE UNCHANGED vars
  BY <1>11 DEF vars, NotYet, OncePerProcess, stages, observers
<1> QED
  BY <1>1, <1>2, <1>3, <1>4, <1>5, <1>6, <1>7, <1>8, <1>9, <1>10, <1>11 DEF Next

-----------------------------------------------------------------------------
(* The theorems *)

LEMMA NextInv == IInv /\ [Next]_vars => IInv'
BY TypeStep, ConsecutiveStep, AccountedStep, NotYetStep DEF IInv

LEMMA DeliveryInvariant == Spec => []IInv
<1>1. Init => IInv
  BY InitInv
<1>2. IInv /\ [Next]_vars => IInv'
  BY NextInv
<1> QED
  BY <1>1, <1>2, PTL DEF Spec

\* The state keeps its types: no id that was not sent, no answer or channel fuller
\* than it may be (get_updates.go, wait_updates.go).
THEOREM UpdatesTypeCorrect == Spec => []TypeOK
<1>1. IInv => TypeOK
  BY DEF IInv
<1> QED
  BY <1>1, DeliveryInvariant, PTL

\* However often the process stops, with whatever it has taken, an update acts at
\* most once in each process: an offset kept in memory repeats, but only then.
THEOREM ActsOncePerProcess == Spec => []OncePerProcess
<1>1. IInv => OncePerProcess
  BY DEF IInv
<1> QED
  BY <1>1, DeliveryInvariant, PTL

\* Polling, the channel and the dispatch drop nothing: an update that Telegram no
\* longer holds is in memory, was handled, or was lost in a stop.
THEOREM NoUpdateForgotten == Spec => []NothingForgotten
<1>1. IInv => NothingForgotten
  <2> SUFFICES ASSUME TypeOK, Accounted PROVE NothingForgotten
    BY DEF IInv
  <2>1. \A u \in DOMAIN sent : u > confirmed \/ u <= Fresh
    BY DEF TypeOK, Fresh
  <2> QED
    BY <2>1 DEF NothingForgotten, Accounted
<1> QED
  BY <1>1, DeliveryInvariant, PTL

\* Handlers are started in the order of the updates, once each, whatever the sizes
\* of an answer and of the channel.
THEOREM HandlersStartInOrder == Spec => []StartedInOrder
<1>1. IInv => StartedInOrder
  <2> SUFFICES ASSUME TypeOK, Consecutive PROVE StartedInOrder
    BY DEF IInv
  <2> USE Numerals
  <2> DEFINE waiting == updates \o fetched
             first == lastUpdateID - Len(updates)
  <2>1. /\ DOMAIN waiting = 1 .. Len(updates) + Len(fetched)
        /\ \A i \in 1 .. Len(updates) : waiting[i] = updates[i]
        /\ \A i \in DOMAIN waiting : i > Len(updates) => waiting[i] = fetched[i - Len(updates)]
    BY DEF TypeOK
  <2>2. \A i \in DOMAIN waiting : i <= Len(updates) => waiting[i] = first + i
    BY <2>1 DEF TypeOK, Consecutive
  <2>3. \A i \in DOMAIN waiting : i > Len(updates) => waiting[i] = Fresh + i - Len(updates)
    <3> SUFFICES ASSUME NEW i \in DOMAIN waiting, i > Len(updates)
                 PROVE  waiting[i] = Fresh + i - Len(updates)
      OBVIOUS
    <3>1. i \in Nat /\ i - Len(updates) \in 1 .. Len(fetched)
      BY <2>1
    <3>2. DOMAIN fetched = 1 .. Len(fetched)
      BY DEF TypeOK
    <3>3. fetched[i - Len(updates)] = Fresh + (i - Len(updates))
      BY <3>1, <3>2 DEF Consecutive
    <3> QED
      BY <2>1, <3>1, <3>3
  <2>4. Fresh >= lastUpdateID /\ first \in Int
    BY DEF Fresh
  <2>5. \A u \in DOMAIN running : u \in Nat /\ u <= first
    BY DEF TypeOK, Consecutive
  <2> HIDE DEF waiting, first
  <2>6. first = lastUpdateID - Len(updates)
    BY DEF first
  <2>7. DOMAIN waiting \subseteq Nat \ {0}
    BY <2>1
  <2>8. \A i, k \in DOMAIN waiting : i < k => waiting[i] < waiting[k]
    <3> SUFFICES ASSUME NEW i \in DOMAIN waiting, NEW k \in DOMAIN waiting, i < k
                 PROVE  waiting[i] < waiting[k]
      OBVIOUS
    <3>1. i \in Nat /\ k \in Nat /\ Fresh \in Nat /\ Len(updates) \in Nat /\ lastUpdateID \in Nat
      BY <2>7
    <3>2. CASE k <= Len(updates)
      BY <3>1, <3>2, <2>2, <2>4
    <3>3. CASE i <= Len(updates) /\ k > Len(updates)
      BY <3>1, <3>3, <2>2, <2>3, <2>4, <2>6
    <3>4. CASE i > Len(updates)
      BY <3>1, <3>4, <2>3
    <3> QED
      BY <3>1, <3>2, <3>3, <3>4
  <2>9. \A u \in DOMAIN running, i \in DOMAIN waiting : u < waiting[i]
    BY <2>2, <2>3, <2>4, <2>5, <2>6, <2>7
  <2> QED
    BY <2>8, <2>9 DEF StartedInOrder, waiting
<1> QED
  BY <1>1, DeliveryInvariant, PTL

-----------------------------------------------------------------------------
(* Sequences of words *)

LEMMA ShortTuples ==
  ASSUME NEW S
  PROVE  /\ \A a, b \in S : <<a, b>> \in Seq(S)
         /\ \A a, b, c \in S : <<a, b, c>> \in Seq(S)
         /\ \A a, b, c, d \in S : <<a, b, c, d>> \in Seq(S)
         /\ \A a, b, c, d, e \in S : <<a, b, c, d, e>> \in Seq(S)
OBVIOUS

LEMMA SixTuples ==
  ASSUME NEW S, NEW a \in S, NEW b \in S, NEW c \in S, NEW d \in S, NEW e \in S, NEW f \in S
  PROVE  <<a, b, c, d, e, f>> \in Seq(S)
<1> DEFINE t == <<a, b, c, d, e, f>>
<1>1. \A i \in 1 .. 6 : i = 1 \/ i = 2 \/ i = 3 \/ i = 4 \/ i = 5 \/ i = 6  OBVIOUS
<1>2. t[1] = a /\ t[2] = b /\ t[3] = c /\ t[4] = d /\ t[5] = e /\ t[6] = f  OBVIOUS
<1>3. \A i \in 1 .. 6 : t[i] \in S  BY <1>1, <1>2
<1>4. DOMAIN t = 1 .. 6 /\ t = [i \in 1 .. 6 |-> t[i]]  OBVIOUS
<1> HIDE DEF t
<1>5. t \in [1 .. 6 -> S]  BY <1>3, <1>4
<1> QED  BY <1>5 DEF t

LEMMA SevenTuples ==
  ASSUME NEW S, NEW a \in S, NEW b \in S, NEW c \in S, NEW d \in S, NEW e \in S,
         NEW f \in S, NEW g \in S
  PROVE  <<a, b, c, d, e, f, g>> \in Seq(S)
<1> DEFINE t == <<a, b, c, d, e, f, g>>
<1>1. \A i \in 1 .. 7 : \/ i = 1 \/ i = 2 \/ i = 3 \/ i = 4 \/ i = 5 \/ i = 6 \/ i = 7
  OBVIOUS
<1>2. /\ t[1] = a /\ t[2] = b /\ t[3] = c /\ t[4] = d /\ t[5] = e /\ t[6] = f
      /\ t[7] = g
  OBVIOUS
<1>3. \A i \in 1 .. 7 : t[i] \in S  BY <1>1, <1>2
<1>4. DOMAIN t = 1 .. 7 /\ t = [i \in 1 .. 7 |-> t[i]]  OBVIOUS
<1> HIDE DEF t
<1>5. t \in [1 .. 7 -> S]  BY <1>3, <1>4
<1> QED  BY <1>5 DEF t

\* The words of this program.
Fixed == {"_", ":", "back", "custom", "date", "day", "delete", "desc", "detail", "done",
          "edit", "event", "hour", "list", "none", "page", "period", "periodicity",
          "postpone", "snooze", "to", "week", "weekday", "weekdays"}
Words == Fixed \cup {Decimal(n) : n \in Numbers}

LEMMA TheWords ==
  {"_", ":", "back", "custom", "date", "day", "delete", "desc", "detail", "done",
   "edit", "event", "hour", "list", "none", "page", "period", "periodicity",
   "postpone", "snooze", "to", "week", "weekday", "weekdays"} \subseteq Words
BY DEF Words, Fixed

LEMMA DecimalWords ==
  ASSUME NEW n \in Numbers
  PROVE  /\ Decimal(n) \in Words /\ Decimal(n) \notin {"_", ":", "custom"}
         /\ Decimal(n) = "0" => n = 0
BY RoutingAssumption, Zenon DEF Words

-----------------------------------------------------------------------------
(* Splitting *)

LEMMA TwoOrThree ==
  ASSUME NEW a, NEW b, NEW c, a # b, b # c, a # c
  PROVE  /\ Cardinality({}) = 0 /\ Cardinality({a}) = 1
         /\ Cardinality({a, b}) = 2 /\ Cardinality({a, b, c}) = 3
         /\ IsFiniteSet({a, b, c})
<1>1. IsFiniteSet({a}) /\ Cardinality({a}) = 1  BY FS_Singleton
<1>2. IsFiniteSet({a, b}) /\ Cardinality({a, b}) = 2
  <2>1. {a, b} = {a} \cup {b} /\ b \notin {a}  OBVIOUS
  <2> QED  BY <1>1, <2>1, FS_AddElement
<1>3. IsFiniteSet({a, b, c}) /\ Cardinality({a, b, c}) = 3
  <2>1. {a, b, c} = {a, b} \cup {c} /\ c \notin {a, b}  OBVIOUS
  <2> QED  BY <1>2, <2>1, FS_AddElement
<1> QED  BY <1>1, <1>2, <1>3, FS_EmptySet

LEMMA NthOfThree ==
  ASSUME NEW c \in Int, NEW n \in Int, 0 < c, c < n
  PROVE  /\ Cardinality({0, c, n}) = 3
         /\ Nth({0, c, n}, 2) = c /\ Nth({0, c, n}, 3) = n
<1> DEFINE S == {0, c, n}  Before(x) == {y \in S : y < x}
<1>1. Before(0) = {} /\ Before(c) = {0} /\ Before(n) = {0, c}  OBVIOUS
<1>2. 0 # c /\ c # n /\ 0 # n  OBVIOUS
<1> HIDE DEF Before
<1>3. /\ Cardinality(Before(0)) = 0 /\ Cardinality(Before(c)) = 1
      /\ Cardinality(Before(n)) = 2 /\ Cardinality(S) = 3
  <2>1. /\ Cardinality({}) = 0 /\ Cardinality({0}) = 1
        /\ Cardinality({0, c}) = 2 /\ Cardinality({0, c, n}) = 3
        /\ IsFiniteSet({0, c, n})
    BY <1>2, TwoOrThree, Zenon
  <2> QED  BY <1>1, <2>1
<1>4. \A k : Nth(S, k) = CHOOSE x \in S : Cardinality(Before(x)) = k - 1
  BY DEF Nth, Before
<1>5. \A x \in S : x = 0 \/ x = c \/ x = n  OBVIOUS
<1>6. Nth(S, 2) = c  BY <1>3, <1>4, <1>5
<1>7. Nth(S, 3) = n  BY <1>3, <1>4, <1>5
<1> QED  BY <1>3, <1>6, <1>7

LEMMA NthOfFour ==
  ASSUME NEW b \in Int, NEW c \in Int, NEW n \in Int, 0 < b, b < c, c < n
  PROVE  /\ Cardinality({0, b, c, n}) = 4
         /\ Nth({0, b, c, n}, 2) = b /\ Nth({0, b, c, n}, 3) = c
         /\ Nth({0, b, c, n}, 4) = n
<1> DEFINE S == {0, b, c, n}  Before(x) == {y \in S : y < x}
<1>1. /\ Before(0) = {} /\ Before(b) = {0} /\ Before(c) = {0, b}
      /\ Before(n) = {0, b, c}
  OBVIOUS
<1>2. 0 # b /\ 0 # c /\ b # c /\ n \notin {0, b, c}  OBVIOUS
<1> HIDE DEF Before
<1>2a. /\ Cardinality({}) = 0 /\ Cardinality({0}) = 1
       /\ Cardinality({0, b}) = 2 /\ Cardinality({0, b, c}) = 3
       /\ IsFiniteSet({0, b, c})
  BY <1>2, TwoOrThree, Zenon
<1>3. /\ Cardinality(Before(0)) = 0 /\ Cardinality(Before(b)) = 1
      /\ Cardinality(Before(c)) = 2 /\ Cardinality(Before(n)) = 3
  BY <1>1, <1>2a
<1>4. Cardinality(S) = 4
  <2>1. S = {0, b, c} \cup {n}  OBVIOUS
  <2>2. Cardinality({0, b, c} \cup {n}) = Cardinality({0, b, c}) + 1
    BY <1>2, <1>2a, FS_AddElement
  <2> QED  BY <1>2a, <2>1, <2>2
<1>5. \A k : Nth(S, k) = CHOOSE x \in S : Cardinality(Before(x)) = k - 1
  BY DEF Nth, Before
<1>6. \A x \in S : x = 0 \/ x = b \/ x = c \/ x = n  OBVIOUS
<1>7. Nth(S, 2) = b  BY <1>3, <1>5, <1>6
<1>8. Nth(S, 3) = c  BY <1>3, <1>5, <1>6
<1>9. Nth(S, 4) = n  BY <1>3, <1>5, <1>6
<1> QED  BY <1>4, <1>7, <1>8, <1>9

\* A text with one separator has two parts.
LEMMA SplitOnce ==
  ASSUME NEW data \in Seq(Words), NEW sep, NEW c \in DOMAIN data,
         \A i \in DOMAIN data : data[i] = sep <=> i = c
  PROVE  /\ Len(Split(data, sep)) = 2
         /\ Split(data, sep)[2] = SubSeq(data, c + 1, Len(data))
<1> DEFINE n == Len(data) + 1
           cuts == {0, Len(data) + 1} \cup {i \in DOMAIN data : data[i] = sep}
<1>1. c \in Int /\ n \in Int /\ 0 < c /\ c < n  OBVIOUS
<1>2. cuts = {0, c, n}  OBVIOUS
<1>3. Split(data, sep) = [k \in 1 .. Cardinality(cuts) - 1 |->
                            SubSeq(data, Nth(cuts, k) + 1, Nth(cuts, k + 1) - 1)]
  BY DEF Split
<1> HIDE DEF n, cuts
<1>4. Cardinality(cuts) = 3 /\ Nth(cuts, 2) = c /\ Nth(cuts, 3) = n
  BY <1>1, <1>2, NthOfThree
<1>5. Split(data, sep) = [k \in 1 .. 2 |->
                            SubSeq(data, Nth(cuts, k) + 1, Nth(cuts, k + 1) - 1)]
  BY <1>3, <1>4
<1>6. Split(data, sep)[2] = SubSeq(data, c + 1, n - 1)
  <2>1. Split(data, sep)[2] = SubSeq(data, Nth(cuts, 2) + 1, Nth(cuts, 2 + 1) - 1)
    <3>1. 2 \in 1 .. 2  OBVIOUS
    <3> QED  BY <1>5, <3>1, Zenon
  <2>2. 2 + 1 = 3  OBVIOUS
  <2> QED  BY <1>4, <2>1, <2>2
<1>7. Len(Split(data, sep)) = 2  BY <1>5
<1>8. n - 1 = Len(data)  BY DEF n
<1> QED  BY <1>6, <1>7, <1>8

\* One with two separators has three.
LEMMA SplitTwice ==
  ASSUME NEW data \in Seq(Words), NEW sep, NEW b \in DOMAIN data,
         NEW c \in DOMAIN data, b < c,
         \A i \in DOMAIN data : data[i] = sep <=> i = b \/ i = c
  PROVE  /\ Len(Split(data, sep)) = 3
         /\ Split(data, sep)[2] = SubSeq(data, b + 1, c - 1)
         /\ Split(data, sep)[3] = SubSeq(data, c + 1, Len(data))
<1> DEFINE n == Len(data) + 1
           cuts == {0, Len(data) + 1} \cup {i \in DOMAIN data : data[i] = sep}
<1>1. b \in Int /\ c \in Int /\ n \in Int /\ 0 < b /\ c < n  OBVIOUS
<1>2. cuts = {0, b, c, n}  OBVIOUS
<1>3. Split(data, sep) = [k \in 1 .. Cardinality(cuts) - 1 |->
                            SubSeq(data, Nth(cuts, k) + 1, Nth(cuts, k + 1) - 1)]
  BY DEF Split
<1> HIDE DEF n, cuts
<1>4. /\ Cardinality(cuts) = 4 /\ Nth(cuts, 2) = b /\ Nth(cuts, 3) = c
      /\ Nth(cuts, 4) = n
  BY <1>1, <1>2, NthOfFour
<1>5. Split(data, sep) = [k \in 1 .. 3 |->
                            SubSeq(data, Nth(cuts, k) + 1, Nth(cuts, k + 1) - 1)]
  BY <1>3, <1>4
<1>6. /\ Split(data, sep)[2] = SubSeq(data, b + 1, c - 1)
      /\ Split(data, sep)[3] = SubSeq(data, c + 1, n - 1)
  <2>1. /\ Split(data, sep)[2] = SubSeq(data, Nth(cuts, 2) + 1, Nth(cuts, 2 + 1) - 1)
        /\ Split(data, sep)[3] = SubSeq(data, Nth(cuts, 3) + 1, Nth(cuts, 3 + 1) - 1)
    <3>1. 2 \in 1 .. 3 /\ 3 \in 1 .. 3  OBVIOUS
    <3> QED  BY <1>5, <3>1, Zenon
  <2>2. 2 + 1 = 3 /\ 3 + 1 = 4  OBVIOUS
  <2> QED  BY <1>4, <2>1, <2>2
<1>7. Len(Split(data, sep)) = 3  BY <1>5
<1>8. n - 1 = Len(data)  BY DEF n
<1> QED  BY <1>6, <1>7, <1>8

-----------------------------------------------------------------------------
(* Finding the handler *)

LEMMA PrefixWords ==
  ASSUME NEW s \in Seq(Words), NEW t \in Seq(Words)
  PROVE  IsPrefix(s, t) <=> Len(s) <= Len(t) /\ \A i \in 1 .. Len(s) : s[i] = t[i]
<1>1. CASE Len(s) <= Len(t)
  <2>1. /\ Len(SubSeq(s, 1, Len(s))) = Len(s) /\ Len(SubSeq(t, 1, Len(s))) = Len(s)
        /\ \A i \in 1 .. Len(s) : /\ SubSeq(s, 1, Len(s))[i] = s[i]
                                  /\ SubSeq(t, 1, Len(s))[i] = t[i]
        /\ SubSeq(s, 1, Len(s)) \in Seq(Words) /\ SubSeq(t, 1, Len(s)) \in Seq(Words)
    BY <1>1
  <2>2. SubSeq(s, 1, Len(s)) = SubSeq(t, 1, Len(s))
          <=> \A i \in 1 .. Len(s) : SubSeq(s, 1, Len(s))[i] = SubSeq(t, 1, Len(s))[i]
    BY <2>1
  <2> QED  BY <1>1, <2>1, <2>2 DEF IsPrefix
<1>2. CASE ~(Len(s) <= Len(t))  BY <1>2 DEF IsPrefix
<1> QED  BY <1>1, <1>2

\* The prefixes that have no name in the source.
donePrefix             == <<"done", "_">>
snoozePrefix           == <<"snooze", "_">>
periodPrefix           == <<"period", ":">>
weekdayPrefix          == <<"weekday", ":">>
weekdaysDonePrefix     == <<"weekdays", "_", "done", ":">>
pagePrefix             == <<"page", "_">>
editPeriodPrefix       == <<"edit", "_", "period", ":">>
editWeekdayPrefix      == <<"edit", "_", "weekday", ":">>
editWeekdaysDonePrefix == <<"edit", "_", "weekdays", "_", "done", ":">>

\* The buttons' part of the table of RegisterHandlers.
LEMMA Table ==
  /\ DOMAIN Handlers = 1 .. 25
  /\ \A k \in {1, 2, 3, 4, 25} : Handlers[k].kind = "message"
  /\ Handlers[14] = Route("callback", eventBackToList, "exact", "HandleBackToList")
  /\ Handlers[5] = Callback(donePrefix, "handleDoneCallback")
  /\ Handlers[6] = Callback(snoozePrefix, "handleSnoozeCallback")
  /\ Handlers[7] = Callback(periodPrefix, "handlePeriodicityCallback")
  /\ Handlers[8] = Callback(weekdayPrefix, "handleWeekdayCallback")
  /\ Handlers[9] = Callback(weekdaysDonePrefix, "handleWeekdaysDoneCallback")
  /\ Handlers[10] = Callback(pagePrefix, "handlePageCallback")
  /\ Handlers[11] = Callback(EventDetailPrefix, "HandleEventDetail")
  /\ Handlers[12] = Callback(eventEditPrefix, "HandleEventEdit")
  /\ Handlers[13] = Callback(eventDeletePrefix, "HandleEventDelete")
  /\ Handlers[15] = Callback(editDatePrefix, "HandleEditDate")
  /\ Handlers[16] = Callback(editDescPrefix, "HandleEditDescription")
  /\ Handlers[17] = Callback(editPeriodicityPrefix, "HandleEditPeriodicity")
  /\ Handlers[18] = Callback(postponeHour, "HandlePostpone")
  /\ Handlers[19] = Callback(postponeDay, "HandlePostpone")
  /\ Handlers[20] = Callback(postponeWeek, "HandlePostpone")
  /\ Handlers[21] = Callback(postponeCustom, "HandlePostponeCustom")
  /\ Handlers[22] = Callback(editPeriodPrefix, "HandleEditPeriodicityCallback")
  /\ Handlers[23] = Callback(editWeekdayPrefix, "HandleEditWeekday")
  /\ Handlers[24] = Callback(editWeekdaysDonePrefix, "HandleEditWeekdaysDone")
BY DEF Handlers, Route,
       donePrefix, snoozePrefix, periodPrefix, weekdayPrefix, weekdaysDonePrefix,
       pagePrefix, editPeriodPrefix, editWeekdayPrefix, editWeekdaysDonePrefix

LEMMA PrefixesAreWords ==
  /\ donePrefix \in Seq(Words) /\ Len(donePrefix) = 2
     /\ donePrefix[1] = "done"
  /\ snoozePrefix \in Seq(Words) /\ Len(snoozePrefix) = 2
     /\ snoozePrefix[1] = "snooze"
  /\ periodPrefix \in Seq(Words) /\ Len(periodPrefix) = 2
     /\ periodPrefix[1] = "period"
  /\ weekdayPrefix \in Seq(Words) /\ Len(weekdayPrefix) = 2
     /\ weekdayPrefix[1] = "weekday"
  /\ weekdaysDonePrefix \in Seq(Words) /\ Len(weekdaysDonePrefix) = 4
     /\ weekdaysDonePrefix[1] = "weekdays" /\ weekdaysDonePrefix[3] = "done"
  /\ pagePrefix \in Seq(Words) /\ Len(pagePrefix) = 2
     /\ pagePrefix[1] = "page"
  /\ EventDetailPrefix \in Seq(Words) /\ Len(EventDetailPrefix) = 4
     /\ EventDetailPrefix[1] = "event" /\ EventDetailPrefix[3] = "detail"
  /\ eventEditPrefix \in Seq(Words) /\ Len(eventEditPrefix) = 4
     /\ eventEditPrefix[1] = "event" /\ eventEditPrefix[3] = "edit"
  /\ eventDeletePrefix \in Seq(Words) /\ Len(eventDeletePrefix) = 4
     /\ eventDeletePrefix[1] = "event" /\ eventDeletePrefix[3] = "delete"
  /\ editDatePrefix \in Seq(Words) /\ Len(editDatePrefix) = 4
     /\ editDatePrefix[1] = "edit" /\ editDatePrefix[3] = "date"
  /\ editDescPrefix \in Seq(Words) /\ Len(editDescPrefix) = 4
     /\ editDescPrefix[1] = "edit" /\ editDescPrefix[3] = "desc"
  /\ editPeriodicityPrefix \in Seq(Words) /\ Len(editPeriodicityPrefix) = 4
     /\ editPeriodicityPrefix[1] = "edit" /\ editPeriodicityPrefix[3] = "periodicity"
  /\ postponeHour \in Seq(Words) /\ Len(postponeHour) = 4
     /\ postponeHour[1] = "postpone" /\ postponeHour[3] = "hour"
  /\ postponeDay \in Seq(Words) /\ Len(postponeDay) = 4
     /\ postponeDay[1] = "postpone" /\ postponeDay[3] = "day"
  /\ postponeWeek \in Seq(Words) /\ Len(postponeWeek) = 4
     /\ postponeWeek[1] = "postpone" /\ postponeWeek[3] = "week"
  /\ postponeCustom \in Seq(Words) /\ Len(postponeCustom) = 4
     /\ postponeCustom[1] = "postpone" /\ postponeCustom[3] = "custom"
  /\ editPeriodPrefix \in Seq(Words) /\ Len(editPeriodPrefix) = 4
     /\ editPeriodPrefix[1] = "edit" /\ editPeriodPrefix[3] = "period"
  /\ editWeekdayPrefix \in Seq(Words) /\ Len(editWeekdayPrefix) = 4
     /\ editWeekdayPrefix[1] = "edit" /\ editWeekdayPrefix[3] = "weekday"
  /\ editWeekdaysDonePrefix \in Seq(Words) /\ Len(editWeekdaysDonePrefix) = 6
     /\ editWeekdaysDonePrefix[1] = "edit" /\ editWeekdaysDonePrefix[3] = "weekdays"
<1>1. /\ donePrefix \in Seq(Words) /\ Len(donePrefix) = 2
      /\ donePrefix[1] = "done"
  BY TheWords, ShortTuples DEF donePrefix
<1>2. /\ snoozePrefix \in Seq(Words) /\ Len(snoozePrefix) = 2
      /\ snoozePrefix[1] = "snooze"
  BY TheWords, ShortTuples DEF snoozePrefix
<1>3. /\ periodPrefix \in Seq(Words) /\ Len(periodPrefix) = 2
      /\ periodPrefix[1] = "period"
  BY TheWords, ShortTuples DEF periodPrefix
<1>4. /\ weekdayPrefix \in Seq(Words) /\ Len(weekdayPrefix) = 2
      /\ weekdayPrefix[1] = "weekday"
  BY TheWords, ShortTuples DEF weekdayPrefix
<1>5. /\ weekdaysDonePrefix \in Seq(Words) /\ Len(weekdaysDonePrefix) = 4
      /\ weekdaysDonePrefix[1] = "weekdays" /\ weekdaysDonePrefix[3] = "done"
  BY TheWords, ShortTuples DEF weekdaysDonePrefix
<1>6. /\ pagePrefix \in Seq(Words) /\ Len(pagePrefix) = 2
      /\ pagePrefix[1] = "page"
  BY TheWords, ShortTuples DEF pagePrefix
<1>7. /\ EventDetailPrefix \in Seq(Words) /\ Len(EventDetailPrefix) = 4
      /\ EventDetailPrefix[1] = "event" /\ EventDetailPrefix[3] = "detail"
  BY TheWords, ShortTuples DEF EventDetailPrefix
<1>8. /\ eventEditPrefix \in Seq(Words) /\ Len(eventEditPrefix) = 4
      /\ eventEditPrefix[1] = "event" /\ eventEditPrefix[3] = "edit"
  BY TheWords, ShortTuples DEF eventEditPrefix
<1>9. /\ eventDeletePrefix \in Seq(Words) /\ Len(eventDeletePrefix) = 4
      /\ eventDeletePrefix[1] = "event" /\ eventDeletePrefix[3] = "delete"
  BY TheWords, ShortTuples DEF eventDeletePrefix
<1>10. /\ editDatePrefix \in Seq(Words) /\ Len(editDatePrefix) = 4
      /\ editDatePrefix[1] = "edit" /\ editDatePrefix[3] = "date"
  BY TheWords, ShortTuples DEF editDatePrefix
<1>11. /\ editDescPrefix \in Seq(Words) /\ Len(editDescPrefix) = 4
      /\ editDescPrefix[1] = "edit" /\ editDescPrefix[3] = "desc"
  BY TheWords, ShortTuples DEF editDescPrefix
<1>12. /\ editPeriodicityPrefix \in Seq(Words) /\ Len(editPeriodicityPrefix) = 4
      /\ editPeriodicityPrefix[1] = "edit" /\ editPeriodicityPrefix[3] = "periodicity"
  BY TheWords, ShortTuples DEF editPeriodicityPrefix
<1>13. /\ postponeHour \in Seq(Words) /\ Len(postponeHour) = 4
      /\ postponeHour[1] = "postpone" /\ postponeHour[3] = "hour"
  BY TheWords, ShortTuples DEF postponeHour
<1>14. /\ postponeDay \in Seq(Words) /\ Len(postponeDay) = 4
      /\ postponeDay[1] = "postpone" /\ postponeDay[3] = "day"
  BY TheWords, ShortTuples DEF postponeDay
<1>15. /\ postponeWeek \in Seq(Words) /\ Len(postponeWeek) = 4
      /\ postponeWeek[1] = "postpone" /\ postponeWeek[3] = "week"
  BY TheWords, ShortTuples DEF postponeWeek
<1>16. /\ postponeCustom \in Seq(Words) /\ Len(postponeCustom) = 4
      /\ postponeCustom[1] = "postpone" /\ postponeCustom[3] = "custom"
  BY TheWords, ShortTuples DEF postponeCustom
<1>17. /\ editPeriodPrefix \in Seq(Words) /\ Len(editPeriodPrefix) = 4
      /\ editPeriodPrefix[1] = "edit" /\ editPeriodPrefix[3] = "period"
  BY TheWords, ShortTuples DEF editPeriodPrefix
<1>18. /\ editWeekdayPrefix \in Seq(Words) /\ Len(editWeekdayPrefix) = 4
      /\ editWeekdayPrefix[1] = "edit" /\ editWeekdayPrefix[3] = "weekday"
  BY TheWords, ShortTuples DEF editWeekdayPrefix
<1>19. /\ editWeekdaysDonePrefix \in Seq(Words) /\ Len(editWeekdaysDonePrefix) = 6
      /\ editWeekdaysDonePrefix[1] = "edit" /\ editWeekdaysDonePrefix[3] = "weekdays"
  BY TheWords, SixTuples DEF editWeekdaysDonePrefix
<1> QED
  BY <1>1, <1>2, <1>3, <1>4, <1>5, <1>6, <1>7, <1>8, <1>9, <1>10,
     <1>11, <1>12, <1>13, <1>14, <1>15, <1>16, <1>17, <1>18, <1>19

LEMMA OnlyMatch ==
  ASSUME NEW u, NEW k \in 1 .. 25, Matches(Handlers[k], u),
         \A i \in 1 .. 25 : Matches(Handlers[i], u) => i = k
  PROVE  findHandler(u) = Handlers[k].handler
<1>1. DOMAIN Handlers = 1 .. 25  BY Table
<1>2. {i \in DOMAIN Handlers : Matches(Handlers[i], u)} = {k}  BY <1>1
<1>3. (CHOOSE i \in {k} : \A x \in {k} : i <= x) = k  OBVIOUS
<1> QED  BY <1>2, <1>3 DEF findHandler

Button(data) == [kind |-> "callback", data |-> data]

LEMMA PrefixSays ==
  ASSUME NEW data \in Seq(Words), NEW k, NEW p \in Seq(Words), NEW h,
         Handlers[k] = Callback(p, h), Len(p) >= 2, Matches(Handlers[k], Button(data))
  PROVE  data[1] = p[1] /\ (Len(p) >= 3 => data[3] = p[3])
<1>1. IsPrefix(p, data)  BY DEF Matches, Button, Callback, Route
<1>2. \A i \in 1 .. Len(p) : p[i] = data[i]  BY <1>1, PrefixWords
<1>3. 1 \in 1 .. Len(p) /\ (Len(p) >= 3 => 3 \in 1 .. Len(p))  OBVIOUS
<1> QED  BY <1>2, <1>3

\* What the first and the third word say about the prefixes that match.
Fits(k, data) ==
  \/ k = 5 /\ data[1] = "done"
  \/ k = 6 /\ data[1] = "snooze"
  \/ k = 7 /\ data[1] = "period"
  \/ k = 8 /\ data[1] = "weekday"
  \/ k = 9 /\ data[1] = "weekdays"
  \/ k = 10 /\ data[1] = "page"
  \/ k = 11 /\ data[1] = "event" /\ data[3] = "detail"
  \/ k = 12 /\ data[1] = "event" /\ data[3] = "edit"
  \/ k = 13 /\ data[1] = "event" /\ data[3] = "delete"
  \/ k = 14 /\ data[1] = "back"
  \/ k = 15 /\ data[1] = "edit" /\ data[3] = "date"
  \/ k = 16 /\ data[1] = "edit" /\ data[3] = "desc"
  \/ k = 17 /\ data[1] = "edit" /\ data[3] = "periodicity"
  \/ k = 18 /\ data[1] = "postpone" /\ data[3] = "hour"
  \/ k = 19 /\ data[1] = "postpone" /\ data[3] = "day"
  \/ k = 20 /\ data[1] = "postpone" /\ data[3] = "week"
  \/ k = 21 /\ data[1] = "postpone" /\ data[3] = "custom"
  \/ k = 22 /\ data[1] = "edit" /\ data[3] = "period"
  \/ k = 23 /\ data[1] = "edit" /\ data[3] = "weekday"
  \/ k = 24 /\ data[1] = "edit" /\ data[3] = "weekdays"

LEMMA MatchWords ==
  ASSUME NEW data \in Seq(Words)
  PROVE  \A k \in 1 .. 25 : Matches(Handlers[k], Button(data)) => Fits(k, data)
<1> SUFFICES ASSUME NEW k \in 1 .. 25, Matches(Handlers[k], Button(data))
             PROVE  Fits(k, data)
  OBVIOUS
<1>1. k \notin {1, 2, 3, 4, 25}
  BY Table DEF Matches, Button
<1>2. CASE k = 5
  <2>1. Handlers[k] = Callback(donePrefix, "handleDoneCallback")  BY <1>2, Table
  <2>2. donePrefix \in Seq(Words) /\ Len(donePrefix) >= 2  BY PrefixesAreWords
  <2>3. data[1] = donePrefix[1] /\ (Len(donePrefix) >= 3 => data[3] = donePrefix[3])
    BY <2>1, <2>2, PrefixSays
  <2> QED  BY <1>2, <2>3, PrefixesAreWords DEF Fits
<1>3. CASE k = 6
  <2>1. Handlers[k] = Callback(snoozePrefix, "handleSnoozeCallback")  BY <1>3, Table
  <2>2. snoozePrefix \in Seq(Words) /\ Len(snoozePrefix) >= 2  BY PrefixesAreWords
  <2>3. data[1] = snoozePrefix[1] /\ (Len(snoozePrefix) >= 3 => data[3] = snoozePrefix[3])
    BY <2>1, <2>2, PrefixSays
  <2> QED  BY <1>3, <2>3, PrefixesAreWords DEF Fits
<1>4. CASE k = 7
  <2>1. Handlers[k] = Callback(periodPrefix, "handlePeriodicityCallback")  BY <1>4, Table
  <2>2. periodPrefix \in Seq(Words) /\ Len(periodPrefix) >= 2  BY PrefixesAreWords
  <2>3. data[1] = periodPrefix[1] /\ (Len(periodPrefix) >= 3 => data[3] = periodPrefix[3])
    BY <2>1, <2>2, PrefixSays
  <2> QED  BY <1>4, <2>3, PrefixesAreWords DEF Fits
<1>5. CASE k = 8
  <2>1. Handlers[k] = Callback(weekdayPrefix, "handleWeekdayCallback")  BY <1>5, Table
  <2>2. weekdayPrefix \in Seq(Words) /\ Len(weekdayPrefix) >= 2  BY PrefixesAreWords
  <2>3. data[1] = weekdayPrefix[1] /\ (Len(weekdayPrefix) >= 3 => data[3] = weekdayPrefix[3])
    BY <2>1, <2>2, PrefixSays
  <2> QED  BY <1>5, <2>3, PrefixesAreWords DEF Fits
<1>6. CASE k = 9
  <2>1. Handlers[k] = Callback(weekdaysDonePrefix, "handleWeekdaysDoneCallback")  BY <1>6, Table
  <2>2. weekdaysDonePrefix \in Seq(Words) /\ Len(weekdaysDonePrefix) >= 2  BY PrefixesAreWords
  <2>3. /\ data[1] = weekdaysDonePrefix[1]
        /\ (Len(weekdaysDonePrefix) >= 3 => data[3] = weekdaysDonePrefix[3])
    BY <2>1, <2>2, PrefixSays
  <2> QED  BY <1>6, <2>3, PrefixesAreWords DEF Fits
<1>7. CASE k = 10
  <2>1. Handlers[k] = Callback(pagePrefix, "handlePageCallback")  BY <1>7, Table
  <2>2. pagePrefix \in Seq(Words) /\ Len(pagePrefix) >= 2  BY PrefixesAreWords
  <2>3. data[1] = pagePrefix[1] /\ (Len(pagePrefix) >= 3 => data[3] = pagePrefix[3])
    BY <2>1, <2>2, PrefixSays
  <2> QED  BY <1>7, <2>3, PrefixesAreWords DEF Fits
<1>8. CASE k = 11
  <2>1. Handlers[k] = Callback(EventDetailPrefix, "HandleEventDetail")  BY <1>8, Table
  <2>2. EventDetailPrefix \in Seq(Words) /\ Len(EventDetailPrefix) >= 2  BY PrefixesAreWords
  <2>3. /\ data[1] = EventDetailPrefix[1]
        /\ (Len(EventDetailPrefix) >= 3 => data[3] = EventDetailPrefix[3])
    BY <2>1, <2>2, PrefixSays
  <2> QED  BY <1>8, <2>3, PrefixesAreWords DEF Fits
<1>9. CASE k = 12
  <2>1. Handlers[k] = Callback(eventEditPrefix, "HandleEventEdit")  BY <1>9, Table
  <2>2. eventEditPrefix \in Seq(Words) /\ Len(eventEditPrefix) >= 2  BY PrefixesAreWords
  <2>3. /\ data[1] = eventEditPrefix[1]
        /\ (Len(eventEditPrefix) >= 3 => data[3] = eventEditPrefix[3])
    BY <2>1, <2>2, PrefixSays
  <2> QED  BY <1>9, <2>3, PrefixesAreWords DEF Fits
<1>10. CASE k = 13
  <2>1. Handlers[k] = Callback(eventDeletePrefix, "HandleEventDelete")  BY <1>10, Table
  <2>2. eventDeletePrefix \in Seq(Words) /\ Len(eventDeletePrefix) >= 2  BY PrefixesAreWords
  <2>3. /\ data[1] = eventDeletePrefix[1]
        /\ (Len(eventDeletePrefix) >= 3 => data[3] = eventDeletePrefix[3])
    BY <2>1, <2>2, PrefixSays
  <2> QED  BY <1>10, <2>3, PrefixesAreWords DEF Fits
<1>11. CASE k = 14
  <2>1. data = eventBackToList
    BY <1>11, Table DEF Matches, Button, Route
  <2> QED  BY <1>11, <2>1 DEF eventBackToList, Fits
<1>12. CASE k = 15
  <2>1. Handlers[k] = Callback(editDatePrefix, "HandleEditDate")  BY <1>12, Table
  <2>2. editDatePrefix \in Seq(Words) /\ Len(editDatePrefix) >= 2  BY PrefixesAreWords
  <2>3. data[1] = editDatePrefix[1] /\ (Len(editDatePrefix) >= 3 => data[3] = editDatePrefix[3])
    BY <2>1, <2>2, PrefixSays
  <2> QED  BY <1>12, <2>3, PrefixesAreWords DEF Fits
<1>13. CASE k = 16
  <2>1. Handlers[k] = Callback(editDescPrefix, "HandleEditDescription")  BY <1>13, Table
  <2>2. editDescPrefix \in Seq(Words) /\ Len(editDescPrefix) >= 2  BY PrefixesAreWords
  <2>3. data[1] = editDescPrefix[1] /\ (Len(editDescPrefix) >= 3 => data[3] = editDescPrefix[3])
    BY <2>1, <2>2, PrefixSays
  <2> QED  BY <1>13, <2>3, PrefixesAreWords DEF Fits
<1>14. CASE k = 17
  <2>1. Handlers[k] = Callback(editPeriodicityPrefix, "HandleEditPeriodicity")  BY <1>14, Table
  <2>2. editPeriodicityPrefix \in Seq(Words) /\ Len(editPeriodicityPrefix) >= 2
    BY PrefixesAreWords
  <2>3. /\ data[1] = editPeriodicityPrefix[1]
        /\ (Len(editPeriodicityPrefix) >= 3 => data[3] = editPeriodicityPrefix[3])
    BY <2>1, <2>2, PrefixSays
  <2> QED  BY <1>14, <2>3, PrefixesAreWords DEF Fits
<1>15. CASE k = 18
  <2>1. Handlers[k] = Callback(postponeHour, "HandlePostpone")  BY <1>15, Table
  <2>2. postponeHour \in Seq(Words) /\ Len(postponeHour) >= 2  BY PrefixesAreWords
  <2>3. data[1] = postponeHour[1] /\ (Len(postponeHour) >= 3 => data[3] = postponeHour[3])
    BY <2>1, <2>2, PrefixSays
  <2> QED  BY <1>15, <2>3, PrefixesAreWords DEF Fits
<1>16. CASE k = 19
  <2>1. Handlers[k] = Callback(postponeDay, "HandlePostpone")  BY <1>16, Table
  <2>2. postponeDay \in Seq(Words) /\ Len(postponeDay) >= 2  BY PrefixesAreWords
  <2>3. data[1] = postponeDay[1] /\ (Len(postponeDay) >= 3 => data[3] = postponeDay[3])
    BY <2>1, <2>2, PrefixSays
  <2> QED  BY <1>16, <2>3, PrefixesAreWords DEF Fits
<1>17. CASE k = 20
  <2>1. Handlers[k] = Callback(postponeWeek, "HandlePostpone")  BY <1>17, Table
  <2>2. postponeWeek \in Seq(Words) /\ Len(postponeWeek) >= 2  BY PrefixesAreWords
  <2>3. data[1] = postponeWeek[1] /\ (Len(postponeWeek) >= 3 => data[3] = postponeWeek[3])
    BY <2>1, <2>2, PrefixSays
  <2> QED  BY <1>17, <2>3, PrefixesAreWords DEF Fits
<1>18. CASE k = 21
  <2>1. Handlers[k] = Callback(postponeCustom, "HandlePostponeCustom")  BY <1>18, Table
  <2>2. postponeCustom \in Seq(Words) /\ Len(postponeCustom) >= 2  BY PrefixesAreWords
  <2>3. data[1] = postponeCustom[1] /\ (Len(postponeCustom) >= 3 => data[3] = postponeCustom[3])
    BY <2>1, <2>2, PrefixSays
  <2> QED  BY <1>18, <2>3, PrefixesAreWords DEF Fits
<1>19. CASE k = 22
  <2>1. Handlers[k] = Callback(editPeriodPrefix, "HandleEditPeriodicityCallback")
    BY <1>19, Table
  <2>2. editPeriodPrefix \in Seq(Words) /\ Len(editPeriodPrefix) >= 2  BY PrefixesAreWords
  <2>3. /\ data[1] = editPeriodPrefix[1]
        /\ (Len(editPeriodPrefix) >= 3 => data[3] = editPeriodPrefix[3])
    BY <2>1, <2>2, PrefixSays
  <2> QED  BY <1>19, <2>3, PrefixesAreWords DEF Fits
<1>20. CASE k = 23
  <2>1. Handlers[k] = Callback(editWeekdayPrefix, "HandleEditWeekday")  BY <1>20, Table
  <2>2. editWeekdayPrefix \in Seq(Words) /\ Len(editWeekdayPrefix) >= 2  BY PrefixesAreWords
  <2>3. /\ data[1] = editWeekdayPrefix[1]
        /\ (Len(editWeekdayPrefix) >= 3 => data[3] = editWeekdayPrefix[3])
    BY <2>1, <2>2, PrefixSays
  <2> QED  BY <1>20, <2>3, PrefixesAreWords DEF Fits
<1>21. CASE k = 24
  <2>1. Handlers[k] = Callback(editWeekdaysDonePrefix, "HandleEditWeekdaysDone")
    BY <1>21, Table
  <2>2. editWeekdaysDonePrefix \in Seq(Words) /\ Len(editWeekdaysDonePrefix) >= 2
    BY PrefixesAreWords
  <2>3. /\ data[1] = editWeekdaysDonePrefix[1]
        /\ (Len(editWeekdaysDonePrefix) >= 3 => data[3] = editWeekdaysDonePrefix[3])
    BY <2>1, <2>2, PrefixSays
  <2> QED  BY <1>21, <2>3, PrefixesAreWords DEF Fits
<1> QED
  BY <1>1, <1>2, <1>3, <1>4, <1>5, <1>6, <1>7, <1>8, <1>9, <1>10, <1>11, <1>12,
     <1>13, <1>14, <1>15, <1>16, <1>17, <1>18, <1>19, <1>20, <1>21

LEMMA Found ==
  ASSUME NEW data \in Seq(Words), NEW k \in 1 .. 25, NEW p \in Seq(Words), NEW h,
         Handlers[k] = Callback(p, h), IsPrefix(p, data),
         \A i \in 1 .. 25 : Fits(i, data) => i = k
  PROVE  findHandler(Button(data)) = h
<1>1. Matches(Handlers[k], Button(data))  BY DEF Matches, Button, Callback, Route
<1>2. \A i \in 1 .. 25 : Matches(Handlers[i], Button(data)) => i = k  BY MatchWords
<1>3. findHandler(Button(data)) = Handlers[k].handler  BY <1>1, <1>2, OnlyMatch
<1>4. Handlers[k].handler = h  BY DEF Callback, Route
<1> QED  BY <1>3, <1>4

-----------------------------------------------------------------------------
(* What the handlers understand *)

LEMMA AboutNumber ==
  ASSUME NEW n \in Numbers, NEW op, NEW arg
  PROVE  /\ IsNumber(<<Decimal(n)>>)
         /\ About(op, <<Decimal(n)>>, arg) = Does(op, Decimal(n), arg)
BY DEF About, IsNumber

LEMMA OneWord ==
  ASSUME NEW data \in Seq(Words), NEW n \in DOMAIN data
  PROVE  SubSeq(data, n, n) = <<data[n]>>
<1> DEFINE part == SubSeq(data, n, n)  word == <<data[n]>>
<1>1. n \in 1 .. Len(data)  OBVIOUS
<1>2. part \in Seq(Words) /\ Len(part) = 1  BY <1>1
<1>3. part[1] = data[n]  BY <1>1
<1>4. word \in Seq(Words) /\ Len(word) = 1 /\ word[1] = data[n]  BY <1>1
<1> HIDE DEF part, word
<1>5. part = word  BY <1>2, <1>3, <1>4
<1> QED  BY <1>5 DEF part, word

\* A prefix and an id.
LEMMA AfterPrefix ==
  ASSUME NEW p \in Seq(Words), NEW n \in Numbers
  PROVE  /\ Append(p, Decimal(n)) \in Seq(Words)
         /\ \A i \in 1 .. Len(p) : Append(p, Decimal(n))[i] = p[i]
         /\ IsPrefix(p, Append(p, Decimal(n)))
         /\ \A op : After(op, Append(p, Decimal(n)), p) = Does(op, Decimal(n), None)
<1> DEFINE data == Append(p, Decimal(n))
<1>0. Decimal(n) \in Words  BY DecimalWords
<1>1. data \in Seq(Words) /\ Len(data) = Len(p) + 1  BY <1>0
<1>2. /\ \A i \in 1 .. Len(p) : data[i] = p[i]
      /\ data[Len(p) + 1] = Decimal(n)
  OBVIOUS
<1> HIDE DEF data
<1>3. IsPrefix(p, data)  BY <1>1, <1>2, PrefixWords
<1>4. SubSeq(data, Len(p) + 1, Len(data)) = <<Decimal(n)>>
  BY <1>1, <1>2, OneWord
<1>5. TrimPrefix(data, p) = <<Decimal(n)>>  BY <1>3, <1>4 DEF TrimPrefix
<1>6. \A op : After(op, data, p) = Does(op, Decimal(n), None)
  BY <1>5, AboutNumber DEF After
<1> QED  BY <1>1, <1>2, <1>3, <1>6 DEF data

\* The cases of Understood.
LEMMA ByHandler ==
  ASSUME NEW data
  PROVE  LET h == findHandler(Button(data))  U == Understood(Button(data))
         IN /\ h = "handleDoneCallback"         => U = doneData(data)
            /\ h = "handleSnoozeCallback"       => U = snoozeData(data)
            /\ h = "handlePeriodicityCallback"  => U = WordThenId("period", data)
            /\ h = "handleWeekdayCallback"      => U = WordThenId("weekday", data)
            /\ h = "handleWeekdaysDoneCallback" => U = OnlyId("weekdaysDone", data)
            /\ h = "handlePageCallback"         => U = pageData(data)
            /\ h = "HandleEventDetail"          => U = After("detail", data, EventDetailPrefix)
            /\ h = "HandleEventEdit"            => U = After("edit", data, eventEditPrefix)
            /\ h = "HandleEventDelete"          => U = After("delete", data, eventDeletePrefix)
            /\ h = "HandleBackToList"           => U = Does("backToList", None, None)
            /\ h = "HandleEditDate"             => U = After("editDate", data, editDatePrefix)
            /\ h = "HandleEditDescription"      => U = After("description", data, editDescPrefix)
            /\ h = "HandleEditPeriodicity"      =>
                 U = After("editPeriodicity", data, editPeriodicityPrefix)
            /\ h = "HandlePostpone"             => U = postponeData(data)
            /\ h = "HandlePostponeCustom"       => U = After("customDate", data, postponeCustom)
            /\ h = "HandleEditPeriodicityCallback" => U = WordThenId("editPeriod", data)
            /\ h = "HandleEditWeekday"          => U = WordThenId("editWeekday", data)
            /\ h = "HandleEditWeekdaysDone"     => U = OnlyId("editWeekdaysDone", data)
BY DEF Understood, Button

\* Data with these words fits one prefix only.
Tells(k, first, third) ==
  \A data : data[1] = first /\ data[3] = third
              => \A i \in 1 .. 25 : Fits(i, data) => i = k

LEMMA PrefixFound ==
  ASSUME NEW p \in Seq(Words), Len(p) >= 3, NEW n \in Numbers, NEW k \in 1 .. 25, NEW h,
         Handlers[k] = Callback(p, h), NEW first, NEW third, p[1] = first, p[3] = third,
         Tells(k, first, third)
  PROVE  findHandler(Button(Append(p, Decimal(n)))) = h
<1> DEFINE data == Append(p, Decimal(n))
<1>1. data \in Seq(Words) /\ IsPrefix(p, data)  BY AfterPrefix
<1>2. data[1] = first /\ data[3] = third  BY AfterPrefix
<1> HIDE DEF data
<1>3. \A i \in 1 .. 25 : Fits(i, data) => i = k  BY <1>2 DEF Tells
<1>4. findHandler(Button(data)) = h  BY <1>1, <1>3, Found
<1> QED  BY <1>4 DEF data

\* The buttons that name an event after a prefix.
LEMMA PrefixMeant ==
  ASSUME NEW n \in Numbers
  PROVE
    /\ Understood(Button(Append(EventDetailPrefix, Decimal(n))))
         = Does("detail", Decimal(n), None)
    /\ Understood(Button(Append(eventEditPrefix, Decimal(n)))) = Does("edit", Decimal(n), None)
    /\ Understood(Button(Append(eventDeletePrefix, Decimal(n))))
         = Does("delete", Decimal(n), None)
    /\ Understood(Button(Append(editDatePrefix, Decimal(n))))
         = Does("editDate", Decimal(n), None)
    /\ Understood(Button(Append(editDescPrefix, Decimal(n))))
         = Does("description", Decimal(n), None)
    /\ Understood(Button(Append(editPeriodicityPrefix, Decimal(n))))
         = Does("editPeriodicity", Decimal(n), None)
    /\ Understood(Button(Append(postponeCustom, Decimal(n))))
         = Does("customDate", Decimal(n), None)
<1>1. Understood(Button(Append(EventDetailPrefix, Decimal(n))))
     = Does("detail", Decimal(n), None)
  <2> DEFINE data == Append(EventDetailPrefix, Decimal(n))
  <2>1. Tells(11, "event", "detail")  BY DEF Tells, Fits
  <2>2. /\ EventDetailPrefix \in Seq(Words) /\ Len(EventDetailPrefix) >= 3
        /\ EventDetailPrefix[1] = "event" /\ EventDetailPrefix[3] = "detail"
    BY PrefixesAreWords
  <2>2a. Handlers[11] = Callback(EventDetailPrefix, "HandleEventDetail") /\ 11 \in 1 .. 25
    BY Table
  <2>3. findHandler(Button(data)) = "HandleEventDetail"  
    BY <2>1, <2>2, <2>2a, PrefixFound
  <2>4. Understood(Button(data)) = After("detail", data, EventDetailPrefix)
    BY <2>3, ByHandler
  <2> QED  BY <2>2, <2>4, AfterPrefix
<1>2. Understood(Button(Append(eventEditPrefix, Decimal(n)))) = Does("edit", Decimal(n), None)
  <2> DEFINE data == Append(eventEditPrefix, Decimal(n))
  <2>1. Tells(12, "event", "edit")  BY DEF Tells, Fits
  <2>2. /\ eventEditPrefix \in Seq(Words) /\ Len(eventEditPrefix) >= 3
        /\ eventEditPrefix[1] = "event" /\ eventEditPrefix[3] = "edit"
    BY PrefixesAreWords
  <2>2a. Handlers[12] = Callback(eventEditPrefix, "HandleEventEdit") /\ 12 \in 1 .. 25  BY Table
  <2>3. findHandler(Button(data)) = "HandleEventEdit"  
    BY <2>1, <2>2, <2>2a, PrefixFound
  <2>4. Understood(Button(data)) = After("edit", data, eventEditPrefix)
    BY <2>3, ByHandler
  <2> QED  BY <2>2, <2>4, AfterPrefix
<1>3. Understood(Button(Append(eventDeletePrefix, Decimal(n))))
     = Does("delete", Decimal(n), None)
  <2> DEFINE data == Append(eventDeletePrefix, Decimal(n))
  <2>1. Tells(13, "event", "delete")  BY DEF Tells, Fits
  <2>2. /\ eventDeletePrefix \in Seq(Words) /\ Len(eventDeletePrefix) >= 3
        /\ eventDeletePrefix[1] = "event" /\ eventDeletePrefix[3] = "delete"
    BY PrefixesAreWords
  <2>2a. Handlers[13] = Callback(eventDeletePrefix, "HandleEventDelete") /\ 13 \in 1 .. 25
    BY Table
  <2>3. findHandler(Button(data)) = "HandleEventDelete"  
    BY <2>1, <2>2, <2>2a, PrefixFound
  <2>4. Understood(Button(data)) = After("delete", data, eventDeletePrefix)
    BY <2>3, ByHandler
  <2> QED  BY <2>2, <2>4, AfterPrefix
<1>4. Understood(Button(Append(editDatePrefix, Decimal(n))))
     = Does("editDate", Decimal(n), None)
  <2> DEFINE data == Append(editDatePrefix, Decimal(n))
  <2>1. Tells(15, "edit", "date")  BY DEF Tells, Fits
  <2>2. /\ editDatePrefix \in Seq(Words) /\ Len(editDatePrefix) >= 3
        /\ editDatePrefix[1] = "edit" /\ editDatePrefix[3] = "date"
    BY PrefixesAreWords
  <2>2a. Handlers[15] = Callback(editDatePrefix, "HandleEditDate") /\ 15 \in 1 .. 25  BY Table
  <2>3. findHandler(Button(data)) = "HandleEditDate"  
    BY <2>1, <2>2, <2>2a, PrefixFound
  <2>4. Understood(Button(data)) = After("editDate", data, editDatePrefix)
    BY <2>3, ByHandler
  <2> QED  BY <2>2, <2>4, AfterPrefix
<1>5. Understood(Button(Append(editDescPrefix, Decimal(n))))
     = Does("description", Decimal(n), None)
  <2> DEFINE data == Append(editDescPrefix, Decimal(n))
  <2>1. Tells(16, "edit", "desc")  BY DEF Tells, Fits
  <2>2. /\ editDescPrefix \in Seq(Words) /\ Len(editDescPrefix) >= 3
        /\ editDescPrefix[1] = "edit" /\ editDescPrefix[3] = "desc"
    BY PrefixesAreWords
  <2>2a. Handlers[16] = Callback(editDescPrefix, "HandleEditDescription") /\ 16 \in 1 .. 25
    BY Table
  <2>3. findHandler(Button(data)) = "HandleEditDescription"  
    BY <2>1, <2>2, <2>2a, PrefixFound
  <2>4. Understood(Button(data)) = After("description", data, editDescPrefix)
    BY <2>3, ByHandler
  <2> QED  BY <2>2, <2>4, AfterPrefix
<1>6. Understood(Button(Append(editPeriodicityPrefix, Decimal(n))))
     = Does("editPeriodicity", Decimal(n), None)
  <2> DEFINE data == Append(editPeriodicityPrefix, Decimal(n))
  <2>1. Tells(17, "edit", "periodicity")  BY DEF Tells, Fits
  <2>2. /\ editPeriodicityPrefix \in Seq(Words) /\ Len(editPeriodicityPrefix) >= 3
        /\ editPeriodicityPrefix[1] = "edit" /\ editPeriodicityPrefix[3] = "periodicity"
    BY PrefixesAreWords
  <2>2a. Handlers[17] = Callback(editPeriodicityPrefix, "HandleEditPeriodicity") /\ 17 \in 1 .. 25
    BY Table
  <2>3. findHandler(Button(data)) = "HandleEditPeriodicity"  
    BY <2>1, <2>2, <2>2a, PrefixFound
  <2>4. Understood(Button(data)) = After("editPeriodicity", data, editPeriodicityPrefix)
    BY <2>3, ByHandler
  <2> QED  BY <2>2, <2>4, AfterPrefix
<1>7. Understood(Button(Append(postponeCustom, Decimal(n))))
     = Does("customDate", Decimal(n), None)
  <2> DEFINE data == Append(postponeCustom, Decimal(n))
  <2>1. Tells(21, "postpone", "custom")  BY DEF Tells, Fits
  <2>2. /\ postponeCustom \in Seq(Words) /\ Len(postponeCustom) >= 3
        /\ postponeCustom[1] = "postpone" /\ postponeCustom[3] = "custom"
    BY PrefixesAreWords
  <2>2a. Handlers[21] = Callback(postponeCustom, "HandlePostponeCustom") /\ 21 \in 1 .. 25
    BY Table
  <2>3. findHandler(Button(data)) = "HandlePostponeCustom"  
    BY <2>1, <2>2, <2>2a, PrefixFound
  <2>4. Understood(Button(data)) = After("customDate", data, postponeCustom)
    BY <2>3, ByHandler
  <2> QED  BY <2>2, <2>4, AfterPrefix
<1> QED  BY <1>1, <1>2, <1>3, <1>4, <1>5, <1>6, <1>7

\* The separators of a text.
Cut(data, sep, c) == \A i \in DOMAIN data : data[i] = sep <=> i = c
CutTwice(data, sep, b, c) == \A i \in DOMAIN data : data[i] = sep <=> i = b \/ i = c

\* One separator before the last word, and two around the last word but one.
LEMMA LastOfTwo ==
  ASSUME NEW data \in Seq(Words), NEW sep, NEW c \in Int, c > 0, Len(data) = c + 1,
         Cut(data, sep, c)
  PROVE  Len(Split(data, sep)) = 2 /\ Split(data, sep)[2] = <<data[c + 1]>>
<1>1. c \in DOMAIN data /\ c + 1 \in DOMAIN data  OBVIOUS
<1>2. SubSeq(data, c + 1, Len(data)) = <<data[c + 1]>>  BY <1>1, OneWord
<1>3. \A i \in DOMAIN data : data[i] = sep <=> i = c  BY DEF Cut
<1> QED  BY <1>1, <1>2, <1>3, SplitOnce

LEMMA LastOfThree ==
  ASSUME NEW data \in Seq(Words), NEW sep, NEW b \in Int, b > 0, Len(data) = b + 3,
         CutTwice(data, sep, b, b + 2)
  PROVE  /\ Len(Split(data, sep)) = 3
         /\ Split(data, sep)[2] = <<data[b + 1]>>
         /\ Split(data, sep)[3] = <<data[b + 3]>>
<1> DEFINE c == b + 2
<1>1. /\ b \in DOMAIN data /\ c \in DOMAIN data /\ b < c
      /\ b + 1 \in DOMAIN data /\ b + 3 \in DOMAIN data
  OBVIOUS
<1>2. c - 1 = b + 1 /\ c + 1 = b + 3 /\ Len(data) = b + 3  OBVIOUS
<1>3. \A i \in DOMAIN data : data[i] = sep <=> i = b \/ i = c  BY DEF CutTwice
<1> HIDE DEF c
<1>4. /\ SubSeq(data, b + 1, b + 1) = <<data[b + 1]>>
      /\ SubSeq(data, b + 3, b + 3) = <<data[b + 3]>>
  BY <1>1, OneWord
<1>5. /\ Len(Split(data, sep)) = 3
      /\ Split(data, sep)[2] = SubSeq(data, b + 1, c - 1)
      /\ Split(data, sep)[3] = SubSeq(data, c + 1, Len(data))
  BY <1>1, <1>3, SplitTwice
<1> QED  BY <1>2, <1>4, <1>5

LEMMA WordThenIdMeant ==
  ASSUME NEW data \in Seq(Words), NEW b \in Int, b > 0, Len(data) = b + 3,
         CutTwice(data, ":", b, b + 2),
         NEW n \in Numbers, data[b + 3] = Decimal(n), NEW op
  PROVE  WordThenId(op, data) = Does(op, Decimal(n), data[b + 1])
<1>1. /\ Len(Split(data, ":")) = 3
      /\ Split(data, ":")[2] = <<data[b + 1]>>
      /\ Split(data, ":")[3] = <<Decimal(n)>>
  BY LastOfThree
<1>2. Split(data, ":")[2][1] = data[b + 1]  BY <1>1
<1>3. About(op, <<Decimal(n)>>, data[b + 1]) = Does(op, Decimal(n), data[b + 1])
  BY AboutNumber
<1> QED  BY <1>1, <1>2, <1>3 DEF WordThenId

LEMMA OnlyIdMeant ==
  ASSUME NEW data \in Seq(Words), NEW c \in Int, c > 0, Len(data) = c + 1,
         Cut(data, ":", c),
         NEW n \in Numbers, data[c + 1] = Decimal(n), NEW op
  PROVE  OnlyId(op, data) = Does(op, Decimal(n), None)
<1>1. Len(Split(data, ":")) = 2 /\ Split(data, ":")[2] = <<Decimal(n)>>  BY LastOfTwo
<1>2. About(op, <<Decimal(n)>>, None) = Does(op, Decimal(n), None)  BY AboutNumber
<1> QED  BY <1>1, <1>2 DEF OnlyId

\* The separator, by a name: the SMT backend does not read it as a string.
Bar == "_"

LEMMA BarWord == Bar \in Words /\ Bar # ":"
BY TheWords, Zenon DEF Bar

LEMMA DecimalNotBar ==
  ASSUME NEW n \in Numbers
  PROVE  Decimal(n) # Bar /\ Decimal(n) # ":" /\ Decimal(n) # "custom"
BY DecimalWords, Zenon DEF Bar

\* Data that fits one prefix only.
FitsOnly(k, data) == \A i \in 1 .. 25 : Fits(i, data) => i = k

LEMMA FoundByTwo ==
  ASSUME NEW data \in Seq(Words), Len(data) >= 2, NEW k \in 1 .. 25,
         NEW a \in Words, NEW b \in Words, NEW h,
         Handlers[k] = Callback(<<a, b>>, h), data[1] = a, data[2] = b,
         FitsOnly(k, data)
  PROVE  findHandler(Button(data)) = h
<1> DEFINE p == <<a, b>>
<1>1. p \in Seq(Words)  BY ShortTuples
<1>2. Len(p) = 2 /\ p[1] = a /\ p[2] = b  OBVIOUS
<1>3. Handlers[k] = Callback(p, h)  OBVIOUS
<1> HIDE DEF p
<1>4. \A i \in 1 .. 2 : i = 1 \/ i = 2  OBVIOUS
<1>5. \A i \in 1 .. Len(p) : p[i] = data[i]  BY <1>2, <1>4
<1>6. IsPrefix(p, data)  BY <1>1, <1>2, <1>5, PrefixWords
<1>7. \A i \in 1 .. 25 : Fits(i, data) => i = k  BY DEF FitsOnly
<1> QED  BY <1>1, <1>3, <1>6, <1>7, Found

LEMMA FoundByFour ==
  ASSUME NEW data \in Seq(Words), Len(data) >= 4, NEW k \in 1 .. 25,
         NEW p \in Seq(Words), NEW h, Handlers[k] = Callback(p, h), Len(p) = 4,
         p[1] = data[1], p[2] = data[2], p[3] = data[3], p[4] = data[4],
         FitsOnly(k, data)
  PROVE  findHandler(Button(data)) = h
<1>1. \A i \in 1 .. 4 : i = 1 \/ i = 2 \/ i = 3 \/ i = 4  OBVIOUS
<1>2. \A i \in 1 .. Len(p) : p[i] = data[i]  BY <1>1
<1>3. IsPrefix(p, data)  BY <1>2, PrefixWords
<1>4. \A i \in 1 .. 25 : Fits(i, data) => i = k  BY DEF FitsOnly
<1> QED  BY <1>3, <1>4, Found

LEMMA DoneMeant ==
  ASSUME NEW data \in Seq(Words), NEW n \in Numbers, Len(data) = 3,
         data[1] = "done", data[2] = Bar, data[3] = Decimal(n)
  PROVE  Understood(Button(data)) = Does("done", Decimal(n), None)
<1>1. Decimal(n) # Bar /\ "done" # Bar
  <2>1. "done" # Bar  BY Zenon DEF Bar
  <2> QED  BY <2>1, DecimalNotBar
<1>2. findHandler(Button(data)) = "handleDoneCallback"
  <2>1. FitsOnly(5, data)  BY DEF Fits, FitsOnly
  <2>2. Handlers[5] = Callback(<<"done", Bar>>, "handleDoneCallback")
    BY Table, Zenon DEF donePrefix, Bar
  <2>3. "done" \in Words /\ Bar \in Words  BY TheWords, BarWord, Zenon
  <2>4. 5 \in 1 .. 25  OBVIOUS
  <2> QED  BY <2>1, <2>2, <2>3, <2>4, FoundByTwo
<1>3. Cut(data, Bar, 2)
  <2>1. \A i \in DOMAIN data : i = 1 \/ i = 2 \/ i = 3  OBVIOUS
  <2> QED  BY <1>1, <2>1 DEF Cut
<1>4. Len(Split(data, Bar)) = 2 /\ Split(data, Bar)[2] = <<Decimal(n)>>
  <2>1. 2 \in Int /\ 2 > 0 /\ Len(data) = 2 + 1 /\ data[2 + 1] = Decimal(n)  OBVIOUS
  <2> QED  BY <1>3, <2>1, LastOfTwo
<1>5. doneData(data) = LET parts == Split(data, Bar)
                       IN  IF Len(parts) # 2 THEN Ignored
                           ELSE About("done", parts[2], None)
  BY Zenon DEF doneData, Bar
<1>6. doneData(data) = Does("done", Decimal(n), None)
  BY <1>4, <1>5, AboutNumber
<1> QED  BY <1>2, <1>6, ByHandler

LEMMA FoundBySix ==
  ASSUME NEW data \in Seq(Words), Len(data) >= 6, NEW k \in 1 .. 25,
         NEW p \in Seq(Words), NEW h, Handlers[k] = Callback(p, h), Len(p) = 6,
         p[1] = data[1], p[2] = data[2], p[3] = data[3],
         p[4] = data[4], p[5] = data[5], p[6] = data[6],
         FitsOnly(k, data)
  PROVE  findHandler(Button(data)) = h
<1>1. \A i \in 1 .. 6 : i = 1 \/ i = 2 \/ i = 3 \/ i = 4 \/ i = 5 \/ i = 6  OBVIOUS
<1>2. \A i \in 1 .. Len(p) : p[i] = data[i]  BY <1>1
<1>3. IsPrefix(p, data)  BY <1>2, PrefixWords
<1>4. \A i \in 1 .. 25 : Fits(i, data) => i = k  BY DEF FitsOnly
<1> QED  BY <1>3, <1>4, Found

LEMMA SnoozeMeant ==
  ASSUME NEW data \in Seq(Words), Len(data) = 5, NEW n \in Numbers, NEW m \in Numbers, NEW arg, arg = Decimal(m),
         data[1] = "snooze", data[2] = Bar, data[3] = Decimal(n), data[4] =
         Bar, data[5] = arg
  PROVE  Understood(Button(data)) = Does("snooze", Decimal(n), arg)
<1>1. "snooze" # Bar  BY BarWord, Zenon DEF Bar
<1>2. Decimal(n) # Bar /\ arg # Bar  BY DecimalNotBar
<1>3. findHandler(Button(data)) = "handleSnoozeCallback"
  <2>1. FitsOnly(6, data)  BY DEF Fits, FitsOnly
  <2>2. Handlers[6] = Callback(<<"snooze", Bar>>, "handleSnoozeCallback")
    BY Table, Zenon DEF snoozePrefix, Bar
  <2>3. "snooze" \in Words /\ Bar \in Words
    BY TheWords, BarWord, Zenon
  <2>4. 6 \in 1 .. 25  OBVIOUS
  <2> QED  BY <2>1, <2>2, <2>3, <2>4, FoundByTwo
<1>4. CutTwice(data, Bar, 2, 2 + 2)
  <2>1. \A i \in DOMAIN data : i = 1 \/ i = 2 \/ i = 3 \/ i = 4 \/ i = 5  OBVIOUS
  <2> QED  BY <1>1, <1>2, <2>1 DEF CutTwice
<1>4a. Decimal(n) # "custom"  BY DecimalNotBar
<1>5. /\ Len(Split(data, Bar)) = 3
      /\ Split(data, Bar)[2] = <<Decimal(n)>> /\ Split(data, Bar)[3] = <<arg>>
  <2>1. /\ 2 \in Int /\ 2 > 0 /\ Len(data) = 2 + 3
        /\ data[2 + 1] = Decimal(n) /\ data[2 + 3] = arg
    OBVIOUS
  <2> QED  BY <1>4, <2>1, LastOfThree
<1>6. snoozeData(data) = LET parts == Split(data, Bar)
        IN  CASE Len(parts) # 3           -> Ignored
              [] parts[2] = <<"custom">>  -> About("snoozeCustom", parts[3], None)
              [] OTHER -> IF IsNumber(parts[3]) THEN About("snooze", parts[2], parts[3][1])
                                                ELSE Ignored
  BY Zenon DEF snoozeData, Bar
<1>7. /\ IsNumber(<<arg>>) /\ <<Decimal(n)>> # <<"custom">> /\ <<arg>>[1] = arg
      /\ About("snooze", <<Decimal(n)>>, arg) = Does("snooze", Decimal(n), arg)
  BY <1>4a, AboutNumber
<1>8. snoozeData(data) = Does("snooze", Decimal(n), arg)  BY <1>5, <1>6, <1>7
<1> QED  BY <1>3, <1>8, ByHandler

LEMMA SnoozeCustomMeant ==
  ASSUME NEW data \in Seq(Words), Len(data) = 5, NEW n \in Numbers,
         data[1] = "snooze", data[2] = Bar, data[3] = "custom", data[4] = Bar,
         data[5] = Decimal(n)
  PROVE  Understood(Button(data)) = Does("snoozeCustom", Decimal(n), None)
<1>1. "snooze" # Bar /\ "custom" # Bar  BY BarWord, Zenon DEF Bar
<1>2. Decimal(n) # Bar  BY DecimalNotBar
<1>3. findHandler(Button(data)) = "handleSnoozeCallback"
  <2>1. FitsOnly(6, data)  BY DEF Fits, FitsOnly
  <2>2. Handlers[6] = Callback(<<"snooze", Bar>>, "handleSnoozeCallback")
    BY Table, Zenon DEF snoozePrefix, Bar
  <2>3. "snooze" \in Words /\ Bar \in Words
    BY TheWords, BarWord, Zenon
  <2>4. 6 \in 1 .. 25  OBVIOUS
  <2> QED  BY <2>1, <2>2, <2>3, <2>4, FoundByTwo
<1>4. CutTwice(data, Bar, 2, 2 + 2)
  <2>1. \A i \in DOMAIN data : i = 1 \/ i = 2 \/ i = 3 \/ i = 4 \/ i = 5  OBVIOUS
  <2> QED  BY <1>1, <1>2, <2>1 DEF CutTwice
<1>5. /\ Len(Split(data, Bar)) = 3
      /\ Split(data, Bar)[2] = <<"custom">> /\ Split(data, Bar)[3] = <<Decimal(n)>>
  <2>1. /\ 2 \in Int /\ 2 > 0 /\ Len(data) = 2 + 3
        /\ data[2 + 1] = "custom" /\ data[2 + 3] = Decimal(n)
    OBVIOUS
  <2> QED  BY <1>4, <2>1, LastOfThree
<1>6. snoozeData(data) = LET parts == Split(data, Bar)
        IN  CASE Len(parts) # 3           -> Ignored
              [] parts[2] = <<"custom">>  -> About("snoozeCustom", parts[3], None)
              [] OTHER -> IF IsNumber(parts[3]) THEN About("snooze", parts[2], parts[3][1])
                                                ELSE Ignored
  BY Zenon DEF snoozeData, Bar
<1>7. About("snoozeCustom", <<Decimal(n)>>, None) = Does("snoozeCustom", Decimal(n), None)
  BY AboutNumber
<1>8. snoozeData(data) = Does("snoozeCustom", Decimal(n), None)  BY <1>5, <1>6, <1>7
<1> QED  BY <1>3, <1>8, ByHandler

LEMMA PageMeant ==
  ASSUME NEW data \in Seq(Words), Len(data) = 3, NEW n \in Numbers, n # 0,
         data[1] = "page", data[2] = Bar, data[3] = Decimal(n)
  PROVE  Understood(Button(data)) = Does("page", None, Decimal(n))
<1>1. "page" # Bar  BY BarWord, Zenon DEF Bar
<1>2. Decimal(n) # Bar  BY DecimalNotBar
<1>3. findHandler(Button(data)) = "handlePageCallback"
  <2>1. FitsOnly(10, data)  BY DEF Fits, FitsOnly
  <2>2. Handlers[10] = Callback(<<"page", Bar>>, "handlePageCallback")
    BY Table, Zenon DEF pagePrefix, Bar
  <2>3. "page" \in Words /\ Bar \in Words
    BY TheWords, BarWord, Zenon
  <2>4. 10 \in 1 .. 25  OBVIOUS
  <2> QED  BY <2>1, <2>2, <2>3, <2>4, FoundByTwo
<1>4. Cut(data, Bar, 2)
  <2>1. \A i \in DOMAIN data : i = 1 \/ i = 2 \/ i = 3  OBVIOUS
  <2> QED  BY <1>1, <1>2, <2>1 DEF Cut
<1>5. Len(Split(data, Bar)) = 2 /\ Split(data, Bar)[2] = <<Decimal(n)>>
  <2>1. 2 \in Int /\ 2 > 0 /\ Len(data) = 2 + 1 /\ data[2 + 1] = Decimal(n)  OBVIOUS
  <2> QED  BY <1>4, <2>1, LastOfTwo
<1>6. pageData(data) = LET parts == Split(data, Bar)
        IN  IF Len(parts) # 2 \/ ~IsNumber(parts[2]) \/ parts[2] = <<"0">>
            THEN Ignored ELSE Does("page", None, parts[2][1])
  BY Zenon DEF pageData, Bar
<1>7. Decimal(n) # "0"  BY DecimalWords
<1>8. /\ IsNumber(<<Decimal(n)>>) /\ <<Decimal(n)>> # <<"0">>
      /\ <<Decimal(n)>>[1] = Decimal(n)
  BY <1>7, AboutNumber
<1>9. pageData(data) = Does("page", None, Decimal(n))  BY <1>5, <1>6, <1>8
<1> QED  BY <1>3, <1>9, ByHandler

LEMMA PeriodMeant ==
  ASSUME NEW data \in Seq(Words), Len(data) = 5, NEW n \in Numbers, NEW arg, arg # ":",
         data[1] = "period", data[2] = ":", data[3] = arg, data[4] = ":",
         data[5] = Decimal(n)
  PROVE  Understood(Button(data)) = Does("period", Decimal(n), arg)
<1>1. Bar # ":"  BY BarWord
<1>2. Decimal(n) # ":"  BY DecimalNotBar
<1>3. findHandler(Button(data)) = "handlePeriodicityCallback"
  <2>1. FitsOnly(7, data)  BY DEF Fits, FitsOnly
  <2>2. Handlers[7] = Callback(<<"period", ":">>, "handlePeriodicityCallback")
    BY Table, Zenon DEF periodPrefix, Bar
  <2>3. "period" \in Words /\ ":" \in Words
    BY TheWords, BarWord, Zenon
  <2>4. 7 \in 1 .. 25  OBVIOUS
  <2> QED  BY <2>1, <2>2, <2>3, <2>4, FoundByTwo
<1>4. CutTwice(data, ":", 2, 2 + 2)
  <2>1. \A i \in DOMAIN data : i = 1 \/ i = 2 \/ i = 3 \/ i = 4 \/ i = 5  OBVIOUS
  <2> QED  BY <1>1, <1>2, <2>1 DEF CutTwice
<1>5. WordThenId("period", data) = Does("period", Decimal(n), arg)
  <2>1. /\ 2 \in Int /\ 2 > 0 /\ Len(data) = 2 + 3
        /\ data[2 + 1] = arg /\ data[2 + 3] = Decimal(n)
    OBVIOUS
  <2> QED  BY <1>4, <2>1, WordThenIdMeant
<1> QED  BY <1>3, <1>5, ByHandler

LEMMA WeekdayMeant ==
  ASSUME NEW data \in Seq(Words), Len(data) = 5, NEW n \in Numbers, NEW arg, arg # ":",
         data[1] = "weekday", data[2] = ":", data[3] = arg, data[4] = ":",
         data[5] = Decimal(n)
  PROVE  Understood(Button(data)) = Does("weekday", Decimal(n), arg)
<1>1. Bar # ":"  BY BarWord
<1>2. Decimal(n) # ":"  BY DecimalNotBar
<1>3. findHandler(Button(data)) = "handleWeekdayCallback"
  <2>1. FitsOnly(8, data)  BY DEF Fits, FitsOnly
  <2>2. Handlers[8] = Callback(<<"weekday", ":">>, "handleWeekdayCallback")
    BY Table, Zenon DEF weekdayPrefix, Bar
  <2>3. "weekday" \in Words /\ ":" \in Words
    BY TheWords, BarWord, Zenon
  <2>4. 8 \in 1 .. 25  OBVIOUS
  <2> QED  BY <2>1, <2>2, <2>3, <2>4, FoundByTwo
<1>4. CutTwice(data, ":", 2, 2 + 2)
  <2>1. \A i \in DOMAIN data : i = 1 \/ i = 2 \/ i = 3 \/ i = 4 \/ i = 5  OBVIOUS
  <2> QED  BY <1>1, <1>2, <2>1 DEF CutTwice
<1>5. WordThenId("weekday", data) = Does("weekday", Decimal(n), arg)
  <2>1. /\ 2 \in Int /\ 2 > 0 /\ Len(data) = 2 + 3
        /\ data[2 + 1] = arg /\ data[2 + 3] = Decimal(n)
    OBVIOUS
  <2> QED  BY <1>4, <2>1, WordThenIdMeant
<1> QED  BY <1>3, <1>5, ByHandler

LEMMA WeekdaysDoneMeant ==
  ASSUME NEW data \in Seq(Words), Len(data) = 5, NEW n \in Numbers,
         data[1] = "weekdays", data[2] = Bar, data[3] = "done", data[4] = ":",
         data[5] = Decimal(n)
  PROVE  Understood(Button(data)) = Does("weekdaysDone", Decimal(n), None)
<1>1. Bar # ":"  BY BarWord
<1>2. Decimal(n) # ":"  BY DecimalNotBar
<1>3. findHandler(Button(data)) = "handleWeekdaysDoneCallback"
  <2>1. FitsOnly(9, data)  BY DEF Fits, FitsOnly
  <2>2. weekdaysDonePrefix = <<"weekdays", Bar, "done", ":">>
    BY Zenon DEF weekdaysDonePrefix, Bar
  <2>3. /\ weekdaysDonePrefix[1] = "weekdays"
        /\ weekdaysDonePrefix[2] = Bar
        /\ weekdaysDonePrefix[3] = "done"
        /\ weekdaysDonePrefix[4] = ":"
    BY <2>2
  <2>4. /\ Handlers[9] = Callback(weekdaysDonePrefix, "handleWeekdaysDoneCallback")
        /\ 9 \in 1 .. 25
    BY Table
  <2>5. weekdaysDonePrefix \in Seq(Words) /\ Len(weekdaysDonePrefix) = 4
    BY PrefixesAreWords
  <2> QED  BY <2>1, <2>3, <2>4, <2>5, FoundByFour
<1>4. Cut(data, ":", 4)
  <2>1. \A i \in DOMAIN data : i = 1 \/ i = 2 \/ i = 3 \/ i = 4 \/ i = 5  OBVIOUS
  <2> QED  BY <1>1, <1>2, <2>1 DEF Cut
<1>5. OnlyId("weekdaysDone", data) = Does("weekdaysDone", Decimal(n), None)
  <2>1. 4 \in Int /\ 4 > 0 /\ Len(data) = 4 + 1 /\ data[4 + 1] = Decimal(n)  OBVIOUS
  <2> QED  BY <1>4, <2>1, OnlyIdMeant
<1> QED  BY <1>3, <1>5, ByHandler

LEMMA EditPeriodMeant ==
  ASSUME NEW data \in Seq(Words), Len(data) = 7, NEW n \in Numbers, NEW arg, arg # ":",
         data[1] = "edit", data[2] = Bar, data[3] = "period", data[4] = ":",
         data[5] = arg, data[6] = ":", data[7] = Decimal(n)
  PROVE  Understood(Button(data)) = Does("editPeriod", Decimal(n), arg)
<1>1. Bar # ":"  BY BarWord
<1>2. Decimal(n) # ":"  BY DecimalNotBar
<1>3. findHandler(Button(data)) = "HandleEditPeriodicityCallback"
  <2>1. FitsOnly(22, data)  BY DEF Fits, FitsOnly
  <2>2. editPeriodPrefix = <<"edit", Bar, "period", ":">>  BY Zenon DEF editPeriodPrefix, Bar
  <2>3. /\ editPeriodPrefix[1] = "edit"
        /\ editPeriodPrefix[2] = Bar
        /\ editPeriodPrefix[3] = "period"
        /\ editPeriodPrefix[4] = ":"
    BY <2>2
  <2>4. /\ Handlers[22] = Callback(editPeriodPrefix, "HandleEditPeriodicityCallback")
        /\ 22 \in 1 .. 25
    BY Table
  <2>5. editPeriodPrefix \in Seq(Words) /\ Len(editPeriodPrefix) = 4
    BY PrefixesAreWords
  <2> QED  BY <2>1, <2>3, <2>4, <2>5, FoundByFour
<1>4. CutTwice(data, ":", 4, 4 + 2)
  <2>1. \A i \in DOMAIN data : i = 1 \/ i = 2 \/ i = 3 \/ i = 4 \/ i = 5 \/ i = 6 \/ i = 7  OBVIOUS
  <2> QED  BY <1>1, <1>2, <2>1 DEF CutTwice
<1>5. WordThenId("editPeriod", data) = Does("editPeriod", Decimal(n), arg)
  <2>1. /\ 4 \in Int /\ 4 > 0 /\ Len(data) = 4 + 3
        /\ data[4 + 1] = arg /\ data[4 + 3] = Decimal(n)
    OBVIOUS
  <2> QED  BY <1>4, <2>1, WordThenIdMeant
<1> QED  BY <1>3, <1>5, ByHandler

LEMMA EditWeekdayMeant ==
  ASSUME NEW data \in Seq(Words), Len(data) = 7, NEW n \in Numbers, NEW arg, arg # ":",
         data[1] = "edit", data[2] = Bar, data[3] = "weekday", data[4] = ":",
         data[5] = arg, data[6] = ":", data[7] = Decimal(n)
  PROVE  Understood(Button(data)) = Does("editWeekday", Decimal(n), arg)
<1>1. Bar # ":"  BY BarWord
<1>2. Decimal(n) # ":"  BY DecimalNotBar
<1>3. findHandler(Button(data)) = "HandleEditWeekday"
  <2>1. FitsOnly(23, data)  BY DEF Fits, FitsOnly
  <2>2. editWeekdayPrefix = <<"edit", Bar, "weekday", ":">>  BY Zenon DEF editWeekdayPrefix, Bar
  <2>3. /\ editWeekdayPrefix[1] = "edit"
        /\ editWeekdayPrefix[2] = Bar
        /\ editWeekdayPrefix[3] = "weekday"
        /\ editWeekdayPrefix[4] = ":"
    BY <2>2
  <2>4. /\ Handlers[23] = Callback(editWeekdayPrefix, "HandleEditWeekday")
        /\ 23 \in 1 .. 25
    BY Table
  <2>5. editWeekdayPrefix \in Seq(Words) /\ Len(editWeekdayPrefix) = 4
    BY PrefixesAreWords
  <2> QED  BY <2>1, <2>3, <2>4, <2>5, FoundByFour
<1>4. CutTwice(data, ":", 4, 4 + 2)
  <2>1. \A i \in DOMAIN data : i = 1 \/ i = 2 \/ i = 3 \/ i = 4 \/ i = 5 \/ i = 6 \/ i = 7  OBVIOUS
  <2> QED  BY <1>1, <1>2, <2>1 DEF CutTwice
<1>5. WordThenId("editWeekday", data) = Does("editWeekday", Decimal(n), arg)
  <2>1. /\ 4 \in Int /\ 4 > 0 /\ Len(data) = 4 + 3
        /\ data[4 + 1] = arg /\ data[4 + 3] = Decimal(n)
    OBVIOUS
  <2> QED  BY <1>4, <2>1, WordThenIdMeant
<1> QED  BY <1>3, <1>5, ByHandler

LEMMA EditWeekdaysDoneMeant ==
  ASSUME NEW data \in Seq(Words), Len(data) = 7, NEW n \in Numbers,
         data[1] = "edit", data[2] = Bar, data[3] = "weekdays", data[4] = Bar,
         data[5] = "done", data[6] = ":", data[7] = Decimal(n)
  PROVE  Understood(Button(data)) = Does("editWeekdaysDone", Decimal(n), None)
<1>1. Bar # ":"  BY BarWord
<1>2. Decimal(n) # ":"  BY DecimalNotBar
<1>3. findHandler(Button(data)) = "HandleEditWeekdaysDone"
  <2>1. FitsOnly(24, data)  BY DEF Fits, FitsOnly
  <2>2. editWeekdaysDonePrefix = <<"edit", Bar, "weekdays", Bar, "done", ":">>
    BY Zenon DEF editWeekdaysDonePrefix, Bar
  <2>3. /\ editWeekdaysDonePrefix[1] = "edit"
        /\ editWeekdaysDonePrefix[2] = Bar
        /\ editWeekdaysDonePrefix[3] = "weekdays"
        /\ editWeekdaysDonePrefix[4] = Bar
        /\ editWeekdaysDonePrefix[5] = "done"
        /\ editWeekdaysDonePrefix[6] = ":"
    BY <2>2
  <2>4. /\ Handlers[24] = Callback(editWeekdaysDonePrefix, "HandleEditWeekdaysDone")
        /\ 24 \in 1 .. 25
    BY Table
  <2>5. editWeekdaysDonePrefix \in Seq(Words) /\ Len(editWeekdaysDonePrefix) = 6
    BY PrefixesAreWords
  <2>6. editWeekdaysDonePrefix[1] = data[1] /\ editWeekdaysDonePrefix[2] = data[2] /\ editWeekdaysDonePrefix[3] = data[3]
    BY <2>3
  <2>7. editWeekdaysDonePrefix[4] = data[4] /\ editWeekdaysDonePrefix[5] = data[5] /\ editWeekdaysDonePrefix[6] = data[6]
    BY <2>3
  <2>8. Len(data) >= 6  OBVIOUS
  <2> QED  BY <2>1, <2>4, <2>5, <2>6, <2>7, <2>8, FoundBySix, Zenon
<1>4. Cut(data, ":", 6)
  <2>1. \A i \in DOMAIN data : i = 1 \/ i = 2 \/ i = 3 \/ i = 4 \/ i = 5 \/ i = 6 \/ i = 7  OBVIOUS
  <2> QED  BY <1>1, <1>2, <2>1 DEF Cut
<1>5. OnlyId("editWeekdaysDone", data) = Does("editWeekdaysDone", Decimal(n), None)
  <2>1. 6 \in Int /\ 6 > 0 /\ Len(data) = 6 + 1 /\ data[6 + 1] = Decimal(n)  OBVIOUS
  <2> QED  BY <1>4, <2>1, OnlyIdMeant
<1> QED  BY <1>3, <1>5, ByHandler

\* The buttons under a reminder that put the event off.
LEMMA Trimmed ==
  ASSUME NEW data \in Seq(Words), NEW p \in Seq(Words), IsPrefix(p, data),
         Len(data) = Len(p) + 1
  PROVE  TrimPrefix(data, p) = <<data[Len(data)]>>
<1>1. TrimPrefix(data, p) = SubSeq(data, Len(data), Len(data))  BY DEF TrimPrefix
<1>2. Len(data) \in DOMAIN data  OBVIOUS
<1> QED  BY <1>1, <1>2, OneWord

LEMMA ThirdWord ==
  ASSUME NEW data \in Seq(Words), NEW p \in Seq(Words), Len(p) = 4, IsPrefix(p, data)
  PROVE  p[3] = data[3]
<1>1. 3 \in 1 .. Len(p)  OBVIOUS
<1> QED  BY <1>1, PrefixWords

LEMMA PostponeMeant ==
  ASSUME NEW data \in Seq(Words), Len(data) = 5, NEW n \in Numbers,
         data[1] = "postpone", data[2] = Bar, data[4] = Bar, data[5] = Decimal(n)
  PROVE  \A arg \in {"hour", "day", "week"} :
           data[3] = arg => Understood(Button(data)) = Does("postpone", Decimal(n), arg)
<1>1. /\ postponeHour \in Seq(Words) /\ Len(postponeHour) = 4 /\ postponeHour[3] = "hour"
      /\ postponeDay \in Seq(Words) /\ Len(postponeDay) = 4 /\ postponeDay[3] = "day"
      /\ postponeWeek \in Seq(Words) /\ Len(postponeWeek) = 4 /\ postponeWeek[3] = "week"
  BY PrefixesAreWords
<1>2. /\ IsPrefix(postponeHour, data) => data[3] = "hour"
      /\ IsPrefix(postponeDay, data) => data[3] = "day"
      /\ IsPrefix(postponeWeek, data) => data[3] = "week"
  <2>2. IsPrefix(postponeHour, data) => postponeHour[3] = data[3]
    BY <1>1, ThirdWord
  <2>3. IsPrefix(postponeDay, data) => postponeDay[3] = data[3]
    BY <1>1, ThirdWord
  <2>4. IsPrefix(postponeWeek, data) => postponeWeek[3] = data[3]
    BY <1>1, ThirdWord
  <2> QED  BY <1>1, <2>2, <2>3, <2>4
<1>3. CASE data[3] = "hour"
  <2>1. postponeHour = <<"postpone", Bar, "hour", Bar>>  BY Zenon DEF postponeHour, Bar
  <2>2. /\ postponeHour[1] = "postpone" /\ postponeHour[2] = Bar
        /\ postponeHour[3] = "hour" /\ postponeHour[4] = Bar
    BY <2>1
  <2>3. \A i \in 1 .. Len(postponeHour) : postponeHour[i] = data[i]
    <3>1. \A i \in 1 .. 4 : i = 1 \/ i = 2 \/ i = 3 \/ i = 4  OBVIOUS
    <3> QED  BY <1>1, <1>3, <2>2, <3>1
  <2>4. IsPrefix(postponeHour, data)  BY <1>1, <2>3, PrefixWords
  <2>5. TrimPrefix(data, postponeHour) = <<Decimal(n)>>
    <3>1. Len(data) = Len(postponeHour) + 1 /\ data[Len(data)] = Decimal(n)  BY <1>1
    <3> QED  BY <1>1, <2>4, <3>1, Trimmed
  <2>6. \A i \in 1 .. 25 : Fits(i, data) => i = 18  BY <1>3 DEF Fits
  <2>7. Handlers[18] = Callback(postponeHour, "HandlePostpone") /\ 18 \in 1 .. 25  BY Table
  <2>8. findHandler(Button(data)) = "HandlePostpone"
    BY <1>1, <2>4, <2>6, <2>7, Found
  <2>9. postponeData(data) = About("postpone", <<Decimal(n)>>, "hour")
    BY <1>2, <1>3, <2>4, <2>5 DEF postponeData
  <2>10. postponeData(data) = Does("postpone", Decimal(n), "hour")  BY <2>9, AboutNumber
  <2>11. Understood(Button(data)) = Does("postpone", Decimal(n), "hour")
    BY <2>8, <2>10, ByHandler
  <2> QED  BY <1>3, <2>11
<1>4. CASE data[3] = "day"
  <2>1. postponeDay = <<"postpone", Bar, "day", Bar>>  BY Zenon DEF postponeDay, Bar
  <2>2. /\ postponeDay[1] = "postpone" /\ postponeDay[2] = Bar
        /\ postponeDay[3] = "day" /\ postponeDay[4] = Bar
    BY <2>1
  <2>3. \A i \in 1 .. Len(postponeDay) : postponeDay[i] = data[i]
    <3>1. \A i \in 1 .. 4 : i = 1 \/ i = 2 \/ i = 3 \/ i = 4  OBVIOUS
    <3> QED  BY <1>1, <1>4, <2>2, <3>1
  <2>4. IsPrefix(postponeDay, data)  BY <1>1, <2>3, PrefixWords
  <2>5. TrimPrefix(data, postponeDay) = <<Decimal(n)>>
    <3>1. Len(data) = Len(postponeDay) + 1 /\ data[Len(data)] = Decimal(n)  BY <1>1
    <3> QED  BY <1>1, <2>4, <3>1, Trimmed
  <2>6. \A i \in 1 .. 25 : Fits(i, data) => i = 19  BY <1>4 DEF Fits
  <2>7. Handlers[19] = Callback(postponeDay, "HandlePostpone") /\ 19 \in 1 .. 25  BY Table
  <2>8. findHandler(Button(data)) = "HandlePostpone"
    BY <1>1, <2>4, <2>6, <2>7, Found
  <2>9. postponeData(data) = About("postpone", <<Decimal(n)>>, "day")
    BY <1>2, <1>4, <2>4, <2>5 DEF postponeData
  <2>10. postponeData(data) = Does("postpone", Decimal(n), "day")  BY <2>9, AboutNumber
  <2>11. Understood(Button(data)) = Does("postpone", Decimal(n), "day")
    BY <2>8, <2>10, ByHandler
  <2> QED  BY <1>4, <2>11
<1>5. CASE data[3] = "week"
  <2>1. postponeWeek = <<"postpone", Bar, "week", Bar>>  BY Zenon DEF postponeWeek, Bar
  <2>2. /\ postponeWeek[1] = "postpone" /\ postponeWeek[2] = Bar
        /\ postponeWeek[3] = "week" /\ postponeWeek[4] = Bar
    BY <2>1
  <2>3. \A i \in 1 .. Len(postponeWeek) : postponeWeek[i] = data[i]
    <3>1. \A i \in 1 .. 4 : i = 1 \/ i = 2 \/ i = 3 \/ i = 4  OBVIOUS
    <3> QED  BY <1>1, <1>5, <2>2, <3>1
  <2>4. IsPrefix(postponeWeek, data)  BY <1>1, <2>3, PrefixWords
  <2>5. TrimPrefix(data, postponeWeek) = <<Decimal(n)>>
    <3>1. Len(data) = Len(postponeWeek) + 1 /\ data[Len(data)] = Decimal(n)  BY <1>1
    <3> QED  BY <1>1, <2>4, <3>1, Trimmed
  <2>6. \A i \in 1 .. 25 : Fits(i, data) => i = 20  BY <1>5 DEF Fits
  <2>7. Handlers[20] = Callback(postponeWeek, "HandlePostpone") /\ 20 \in 1 .. 25  BY Table
  <2>8. findHandler(Button(data)) = "HandlePostpone"
    BY <1>1, <2>4, <2>6, <2>7, Found
  <2>9. postponeData(data) = About("postpone", <<Decimal(n)>>, "week")
    BY <1>2, <1>5, <2>4, <2>5 DEF postponeData
  <2>10. postponeData(data) = Does("postpone", Decimal(n), "week")  BY <2>9, AboutNumber
  <2>11. Understood(Button(data)) = Does("postpone", Decimal(n), "week")
    BY <2>8, <2>10, ByHandler
  <2> QED  BY <1>5, <2>11
<1> QED  BY <1>3, <1>4, <1>5

LEMMA BackToListMeant ==
  Understood(Button(eventBackToList)) = Does("backToList", None, None)
<1>1. Handlers[14] = Route("callback", eventBackToList, "exact", "HandleBackToList")
  BY Table
<1>2. Matches(Handlers[14], Button(eventBackToList))
  BY <1>1 DEF Matches, Button, Route
<1>3. eventBackToList = <<"back", Bar, "to", Bar, "list">>
  BY Zenon DEF eventBackToList, Bar
<1>4. eventBackToList \in Seq(Words) /\ eventBackToList[1] = "back"
  <2>1. /\ "back" \in Words /\ Bar \in Words /\ "to" \in Words /\ "list" \in Words
    BY TheWords, BarWord, Zenon
  <2> QED  BY <1>3, <2>1, ShortTuples
<1>5. \A i \in 1 .. 25 : Fits(i, eventBackToList) => i = 14  BY <1>4 DEF Fits
<1>6. \A i \in 1 .. 25 : Matches(Handlers[i], Button(eventBackToList)) => i = 14
  BY <1>4, <1>5, MatchWords
<1>7. findHandler(Button(eventBackToList)) = Handlers[14].handler
  <2>1. 14 \in 1 .. 25  OBVIOUS
  <2> QED  BY <1>2, <1>6, <2>1, OnlyMatch
<1>8. Handlers[14].handler = "HandleBackToList"  BY <1>1 DEF Route
<1> QED  BY <1>7, <1>8, ByHandler

-----------------------------------------------------------------------------
(* Messages *)

\* The messages' part of the table.
LEMMA MessageTable ==
  /\ DOMAIN Handlers = 1 .. 25
  /\ \A k \in 5 .. 24 : Handlers[k].kind = "callback"
  /\ Handlers[1] = Route("message", <<"/start">>, "exact", "StartHandler")
  /\ Handlers[2] = Route("message", <<"/help">>, "exact", "HelpHandler")
  /\ Handlers[3] = Route("message", <<"/add">>, "prefix", "AddHandler")
  /\ Handlers[4] = Route("message", <<"/list">>, "exact", "ListHandler")
  /\ Handlers[25] = Route("message", <<>>, "text", "textHandler")
<1>1. \A k \in 5 .. 24 : Handlers[k].kind = "callback"
  <2> SUFFICES ASSUME NEW k \in 5 .. 24  PROVE Handlers[k].kind = "callback"
    OBVIOUS
  <2>1. \/ k = 5 \/ k = 6 \/ k = 7 \/ k = 8 \/ k = 9 \/ k = 10 \/ k = 11 \/ k = 12
        \/ k = 13 \/ k = 14 \/ k = 15 \/ k = 16 \/ k = 17 \/ k = 18 \/ k = 19
        \/ k = 20 \/ k = 21 \/ k = 22 \/ k = 23 \/ k = 24
    OBVIOUS
  <2> QED  BY <2>1, Table DEF Callback, Route
<1>2. /\ Handlers[1] = Route("message", <<"/start">>, "exact", "StartHandler")
      /\ Handlers[2] = Route("message", <<"/help">>, "exact", "HelpHandler")
      /\ Handlers[3] = Route("message", <<"/add">>, "prefix", "AddHandler")
      /\ Handlers[4] = Route("message", <<"/list">>, "exact", "ListHandler")
      /\ Handlers[25] = Route("message", <<>>, "text", "textHandler")
  BY DEF Handlers
<1> QED  BY <1>1, <1>2, Table

LEMMA FirstMatch ==
  ASSUME NEW u, NEW k \in 1 .. 25, Matches(Handlers[k], u),
         \A i \in 1 .. 25 : Matches(Handlers[i], u) => k <= i
  PROVE  findHandler(u) = Handlers[k].handler
<1> DEFINE hits == {i \in DOMAIN Handlers : Matches(Handlers[i], u)}
           least == CHOOSE i \in hits : \A x \in hits : i <= x
<1>1. DOMAIN Handlers = 1 .. 25  BY Table
<1>2. k \in hits /\ \A x \in hits : k <= x  BY <1>1
<1>3. hits \subseteq Int  BY <1>1
<1>4. findHandler(u) = IF hits = {} THEN "default" ELSE Handlers[least].handler
  BY DEF findHandler
<1> HIDE DEF hits
<1>5. least \in hits /\ \A x \in hits : least <= x  BY <1>2
<1> HIDE DEF least
<1>6. least = k  BY <1>2, <1>3, <1>5
<1> QED  BY <1>2, <1>4, <1>6

\* Messages, of any words.
LEMMA NoPrefix ==
  ASSUME NEW W, NEW data \in Seq(W), "/add" \in W
  PROVE  IsPrefix(<<"/add">>, data) <=> Len(data) > 0 /\ data[1] = "/add"
<1>1. CASE Len(data) > 0
  <2> DEFINE word == <<"/add">>  part == SubSeq(data, 1, 1)
  <2>1. part \in Seq(W) /\ Len(part) = 1 /\ part[1] = data[1]  BY <1>1
  <2>2. word \in Seq(W) /\ Len(word) = 1 /\ word[1] = "/add"  OBVIOUS
  <2>2a. SubSeq(word, 1, 1) = word
    <3> DEFINE w == SubSeq(word, 1, 1)
    <3> HIDE DEF word
    <3>1. w \in Seq(W) /\ Len(w) = 1 /\ w[1] = word[1]  BY <2>2
    <3> HIDE DEF w
    <3>2. w = word  BY <2>2, <3>1
    <3> QED  BY <3>2 DEF w
  <2>3. IsPrefix(word, data) <=> SubSeq(word, 1, 1) = part
    BY <1>1, <2>2 DEF IsPrefix
  <2>3a. IsPrefix(word, data) <=> word = part  BY <2>2a, <2>3
  <2> HIDE DEF word, part
  <2>4. word = part <=> word[1] = part[1]  BY <2>1, <2>2
  <2> QED  BY <1>1, <2>1, <2>2, <2>3a, <2>4 DEF word
<1>2. CASE ~(Len(data) > 0)
  <2>1. Len(data) = 0 /\ Len(<<"/add">>) = 1  BY <1>2
  <2> QED  BY <1>2, <2>1 DEF IsPrefix
<1> QED  BY <1>1, <1>2

LEMMA MessageMatches ==
  ASSUME NEW W, NEW data \in Seq(W), "/add" \in W
  PROVE  /\ Matches(Handlers[1], Message(data)) <=> data = <<"/start">>
         /\ Matches(Handlers[2], Message(data)) <=> data = <<"/help">>
         /\ Matches(Handlers[3], Message(data)) <=> Len(data) > 0 /\ data[1] = "/add"
         /\ Matches(Handlers[4], Message(data)) <=> data = <<"/list">>
         /\ Matches(Handlers[25], Message(data)) <=> data # <<>>
         /\ \A k \in 5 .. 24 : ~Matches(Handlers[k], Message(data))
<1>1. Matches(Handlers[1], Message(data)) <=> data = <<"/start">>
  BY MessageTable DEF Matches, Message, Route
<1>2. Matches(Handlers[2], Message(data)) <=> data = <<"/help">>
  BY MessageTable DEF Matches, Message, Route
<1>3. Matches(Handlers[3], Message(data)) <=> Len(data) > 0 /\ data[1] = "/add"
  <2>1. Matches(Handlers[3], Message(data)) <=> IsPrefix(<<"/add">>, data)
    BY MessageTable DEF Matches, Message, Route
  <2> QED  BY <2>1, NoPrefix
<1>4. Matches(Handlers[4], Message(data)) <=> data = <<"/list">>
  BY MessageTable DEF Matches, Message, Route
<1>5. Matches(Handlers[25], Message(data)) <=> data # <<>>
  BY MessageTable DEF Matches, Message, Route
<1>6. \A k \in 5 .. 24 : ~Matches(Handlers[k], Message(data))
  BY MessageTable DEF Matches, Message
<1> QED  BY <1>1, <1>2, <1>3, <1>4, <1>5, <1>6

LEMMA NotEmpty ==
  ASSUME NEW W, NEW data \in Seq(W)
  PROVE  Len(data) = 1 => data # <<>>
<1>1. Len(<<>>) = 0  OBVIOUS
<1>2. data = <<>> => Len(data) = Len(<<>>)  OBVIOUS
<1> QED  BY <1>1, <1>2

\* Which of its first words sends a message where.
LEMMA MessageFound ==
  ASSUME NEW W, NEW data \in Seq(W), "/add" \in W
  PROVE  /\ data = <<"/start">> => findHandler(Message(data)) = "StartHandler"
         /\ data = <<"/help">> => findHandler(Message(data)) = "HelpHandler"
         /\ Len(data) > 0 /\ data[1] = "/add" => findHandler(Message(data)) = "AddHandler"
         /\ data = <<"/list">> => findHandler(Message(data)) = "ListHandler"
         /\ data = <<"words">> => findHandler(Message(data)) = "textHandler"
         /\ data = <<>> => findHandler(Message(data)) = "default"
<1> DEFINE u == Message(data)
<1>1. /\ Matches(Handlers[1], u) <=> data = <<"/start">>
      /\ Matches(Handlers[2], u) <=> data = <<"/help">>
      /\ Matches(Handlers[3], u) <=> Len(data) > 0 /\ data[1] = "/add"
      /\ Matches(Handlers[4], u) <=> data = <<"/list">>
      /\ Matches(Handlers[25], u) <=> data # <<>>
      /\ \A k \in 5 .. 24 : ~Matches(Handlers[k], u)
  BY MessageMatches
<1> HIDE DEF u
<1>2. \A i \in 1 .. 25 : Matches(Handlers[i], u) => i \in {1, 2, 3, 4, 25}
  <2>1. \A i \in 1 .. 25 : i \in {1, 2, 3, 4, 25} \/ i \in 5 .. 24  OBVIOUS
  <2> QED  BY <1>1, <2>1
<1>3. /\ Handlers[1].handler = "StartHandler" /\ Handlers[2].handler = "HelpHandler"
      /\ Handlers[3].handler = "AddHandler" /\ Handlers[4].handler = "ListHandler"
      /\ Handlers[25].handler = "textHandler"
  BY MessageTable DEF Route
<1>4. ASSUME data = <<"/start">>  PROVE findHandler(u) = "StartHandler"
  <2>1. \A i \in 1 .. 25 : Matches(Handlers[i], u) => 1 <= i  OBVIOUS
  <2>2. 1 \in 1 .. 25 /\ Matches(Handlers[1], u)  BY <1>1, <1>4
  <2> QED  BY <1>3, <2>1, <2>2, FirstMatch
<1>5. ASSUME data = <<"/help">>  PROVE findHandler(u) = "HelpHandler"
  <2>1. data[1] = "/help" /\ <<"/start">>[1] = "/start"  BY <1>5
  <2>2. ~Matches(Handlers[1], u)  BY <1>1, <2>1
  <2>3. \A i \in 1 .. 25 : Matches(Handlers[i], u) => 2 <= i  BY <1>2, <2>2
  <2>4. 2 \in 1 .. 25 /\ Matches(Handlers[2], u)  BY <1>1, <1>5
  <2> QED  BY <1>3, <2>3, <2>4, FirstMatch
<1>6. ASSUME Len(data) > 0, data[1] = "/add"  PROVE findHandler(u) = "AddHandler"
  <2>1. <<"/start">>[1] = "/start" /\ <<"/help">>[1] = "/help"  OBVIOUS
  <2>2. ~Matches(Handlers[1], u) /\ ~Matches(Handlers[2], u)  BY <1>1, <1>6, <2>1
  <2>3. \A i \in 1 .. 25 : Matches(Handlers[i], u) => 3 <= i  BY <1>2, <2>2
  <2>4. 3 \in 1 .. 25 /\ Matches(Handlers[3], u)  BY <1>1, <1>6
  <2> QED  BY <1>3, <2>3, <2>4, FirstMatch
<1>7. ASSUME data = <<"/list">>  PROVE findHandler(u) = "ListHandler"
  <2>1. data[1] = "/list" /\ <<"/start">>[1] = "/start" /\ <<"/help">>[1] = "/help"
    BY <1>7
  <2>2. ~Matches(Handlers[1], u) /\ ~Matches(Handlers[2], u) /\ ~Matches(Handlers[3], u)
    BY <1>1, <2>1
  <2>3. \A i \in 1 .. 25 : Matches(Handlers[i], u) => 4 <= i  BY <1>2, <2>2
  <2>4. 4 \in 1 .. 25 /\ Matches(Handlers[4], u)  BY <1>1, <1>7
  <2> QED  BY <1>3, <2>3, <2>4, FirstMatch
<1>7a. Len(data) = 1 => data # <<>>  BY NotEmpty
<1>8. ASSUME data = <<"words">>  PROVE findHandler(u) = "textHandler"
  <2>1. /\ data[1] = "words" /\ <<"/start">>[1] = "/start" /\ <<"/help">>[1] = "/help"
        /\ <<"/list">>[1] = "/list" /\ Len(data) = 1
    BY <1>8
  <2>2. /\ ~Matches(Handlers[1], u) /\ ~Matches(Handlers[2], u)
        /\ ~Matches(Handlers[3], u) /\ ~Matches(Handlers[4], u)
    BY <1>1, <2>1
  <2>3. \A i \in 1 .. 25 : Matches(Handlers[i], u) => 25 <= i
    <3>1. \A i \in 1 .. 25 : Matches(Handlers[i], u) => i = 25  BY <1>2, <2>2, Zenon
    <3>2. 25 <= 25  OBVIOUS
    <3> QED  BY <3>1, <3>2, Zenon
  <2>4. 25 \in 1 .. 25 /\ Matches(Handlers[25], u)
    <3>0. Len(data) = 1  BY <2>1, Zenon
    <3>1. data # <<>>  BY <1>7a, <3>0, Zenon
    <3>2. Matches(Handlers[25], u)  BY <1>1, <3>1, Zenon
    <3> QED  BY <3>2
  <2> QED  BY <1>3, <2>3, <2>4, FirstMatch
<1>9. ASSUME data = <<>>  PROVE findHandler(u) = "default"
  <2>1. /\ Len(data) = 0 /\ Len(<<"/start">>) = 1 /\ Len(<<"/help">>) = 1
        /\ Len(<<"/list">>) = 1
    BY <1>9
  <2>1a. /\ ~Matches(Handlers[1], u) /\ ~Matches(Handlers[2], u)
         /\ ~Matches(Handlers[3], u) /\ ~Matches(Handlers[4], u)
    BY <1>1, <2>1
  <2>1b. ~Matches(Handlers[25], u)  BY <1>1, <1>9, Zenon
  <2>2. \A i \in 1 .. 25 : ~Matches(Handlers[i], u)  BY <1>2, <2>1a, <2>1b, Zenon
  <2>3. {i \in DOMAIN Handlers : Matches(Handlers[i], u)} = {}  BY <2>2, Table
  <2> QED  BY <2>3 DEF findHandler
<1> QED  BY <1>4, <1>5, <1>6, <1>7, <1>8, <1>9 DEF u

-----------------------------------------------------------------------------
(* Every button and every message *)

LEMMA TheDoes ==
  ASSUME NEW op, NEW event, NEW arg
  PROVE  /\ Does(op, event, arg).op = op
         /\ Does(op, event, arg).event = event
         /\ Does(op, event, arg).arg = arg
BY DEF Does

\* The cases of CallbackData.
LEMMA TheData ==
  ASSUME NEW does
  PROVE  LET id == does.event  data == CallbackData(does)
         IN /\ does.op = "snooze"       => data = <<"snooze", Bar, id, Bar, does.arg>>
            /\ does.op = "snoozeCustom" => data = <<"snooze", Bar, "custom", Bar, id>>
            /\ does.op = "done"         => data = <<"done", Bar, id>>
            /\ does.op = "period"       => data = <<"period", ":", does.arg, ":", id>>
            /\ does.op = "weekday"      => data = <<"weekday", ":", does.arg, ":", id>>
            /\ does.op = "weekdaysDone" => data = <<"weekdays", Bar, "done", ":", id>>
            /\ does.op = "page"         => data = <<"page", Bar, does.arg>>
            /\ does.op = "backToList"   => data = eventBackToList
            /\ does.op = "detail"       => data = Append(EventDetailPrefix, id)
            /\ does.op = "edit"         => data = Append(eventEditPrefix, id)
            /\ does.op = "delete"       => data = Append(eventDeletePrefix, id)
            /\ does.op = "editDate"     => data = Append(editDatePrefix, id)
            /\ does.op = "description"  => data = Append(editDescPrefix, id)
            /\ does.op = "editPeriodicity" => data = Append(editPeriodicityPrefix, id)
            /\ does.op = "postpone"     => data = <<"postpone", Bar, does.arg, Bar, id>>
            /\ does.op = "customDate"   => data = Append(postponeCustom, id)
            /\ does.op = "editPeriod"   =>
                 data = <<"edit", Bar, "period", ":", does.arg, ":", id>>
            /\ does.op = "editWeekday"  =>
                 data = <<"edit", Bar, "weekday", ":", does.arg, ":", id>>
            /\ does.op = "editWeekdaysDone" =>
                 data = <<"edit", Bar, "weekdays", Bar, "done", ":", id>>
BY Zenon DEF CallbackData, Bar

LEMMA Press ==
  ASSUME NEW op, NEW event, NEW arg,
         op \notin {"start", "help", "add", "list", "text", "ignored"}
  PROVE  AsUpdate(Does(op, event, arg)) = Button(CallbackData(Does(op, event, arg)))
<1> DEFINE does == Does(op, event, arg)
<1>1. does.op = op /\ Ignored.op = "ignored"  BY DEF Does, Ignored
<1>2. does # Ignored  BY <1>1
<1> HIDE DEF does
<1>3. AsUpdate(does) = Pressed(does)  BY <1>1, <1>2, Zenon DEF AsUpdate
<1> QED  BY <1>3 DEF does, Pressed, Button

\* What is sent is what is understood.
Meant(op, event, arg) ==
  Understood(AsUpdate(Does(op, event, arg))) = Does(op, event, arg)

LEMMA MeantByData ==
  ASSUME NEW op, NEW event, NEW arg, NEW data,
         op \notin {"start", "help", "add", "list", "text", "ignored"},
         CallbackData(Does(op, event, arg)) = data,
         Understood(Button(data)) = Does(op, event, arg)
  PROVE  Meant(op, event, arg)
BY Press DEF Meant

LEMMA PrefixButtons ==
  ASSUME NEW n \in Numbers
  PROVE  /\ Meant("detail", Decimal(n), None) /\ Meant("edit", Decimal(n), None)
         /\ Meant("delete", Decimal(n), None) /\ Meant("editDate", Decimal(n), None)
         /\ Meant("description", Decimal(n), None)
         /\ Meant("editPeriodicity", Decimal(n), None)
         /\ Meant("customDate", Decimal(n), None)
<1>1. Meant("detail", Decimal(n), None)
  <2>1. CallbackData(Does("detail", Decimal(n), None)) = Append(EventDetailPrefix, Decimal(n))
    BY TheDoes, TheData
  <2>2. Understood(Button(Append(EventDetailPrefix, Decimal(n))))
       = Does("detail", Decimal(n), None)
    BY PrefixMeant
  <2> QED  BY <2>1, <2>2, MeantByData
<1>2. Meant("edit", Decimal(n), None)
  <2>1. CallbackData(Does("edit", Decimal(n), None)) = Append(eventEditPrefix, Decimal(n))
    BY TheDoes, TheData
  <2>2. Understood(Button(Append(eventEditPrefix, Decimal(n)))) = Does("edit", Decimal(n), None)
    BY PrefixMeant
  <2> QED  BY <2>1, <2>2, MeantByData
<1>3. Meant("delete", Decimal(n), None)
  <2>1. CallbackData(Does("delete", Decimal(n), None)) = Append(eventDeletePrefix, Decimal(n))
    BY TheDoes, TheData
  <2>2. Understood(Button(Append(eventDeletePrefix, Decimal(n))))
       = Does("delete", Decimal(n), None)
    BY PrefixMeant
  <2> QED  BY <2>1, <2>2, MeantByData
<1>4. Meant("editDate", Decimal(n), None)
  <2>1. CallbackData(Does("editDate", Decimal(n), None)) = Append(editDatePrefix, Decimal(n))
    BY TheDoes, TheData
  <2>2. Understood(Button(Append(editDatePrefix, Decimal(n))))
       = Does("editDate", Decimal(n), None)
    BY PrefixMeant
  <2> QED  BY <2>1, <2>2, MeantByData
<1>5. Meant("description", Decimal(n), None)
  <2>1. CallbackData(Does("description", Decimal(n), None)) = Append(editDescPrefix, Decimal(n))
    BY TheDoes, TheData
  <2>2. Understood(Button(Append(editDescPrefix, Decimal(n))))
       = Does("description", Decimal(n), None)
    BY PrefixMeant
  <2> QED  BY <2>1, <2>2, MeantByData
<1>6. Meant("editPeriodicity", Decimal(n), None)
  <2>1. CallbackData(Does("editPeriodicity", Decimal(n), None)) = Append(editPeriodicityPrefix, Decimal(n))
    BY TheDoes, TheData
  <2>2. Understood(Button(Append(editPeriodicityPrefix, Decimal(n))))
       = Does("editPeriodicity", Decimal(n), None)
    BY PrefixMeant
  <2> QED  BY <2>1, <2>2, MeantByData
<1>7. Meant("customDate", Decimal(n), None)
  <2>1. CallbackData(Does("customDate", Decimal(n), None)) = Append(postponeCustom, Decimal(n))
    BY TheDoes, TheData
  <2>2. Understood(Button(Append(postponeCustom, Decimal(n))))
       = Does("customDate", Decimal(n), None)
    BY PrefixMeant
  <2> QED  BY <2>1, <2>2, MeantByData
<1> QED  BY <1>1, <1>2, <1>3, <1>4, <1>5, <1>6, <1>7

LEMMA DoneButton ==
  ASSUME NEW n \in Numbers
  PROVE  Meant("done", Decimal(n), None)
<1> DEFINE data == <<"done", Bar, Decimal(n)>>
<1>1. CallbackData(Does("done", Decimal(n), None)) = data  BY TheDoes, TheData
<1>2. "done" \in Words
  BY TheWords, Zenon
<1>3. Bar \in Words /\ Decimal(n) \in Words  BY BarWord, DecimalWords
<1>4. data \in Seq(Words)  BY <1>2, <1>3, ShortTuples
<1>5. /\ Len(data) = 3
      /\ data[1] = "done" /\ data[2] = Bar /\ data[3] = Decimal(n)
  OBVIOUS
<1> HIDE DEF data
<1>6. Understood(Button(data)) = Does("done", Decimal(n), None)
  BY <1>4, <1>5, DoneMeant
<1> QED  BY <1>1, <1>6, MeantByData

LEMMA PageButton ==
  ASSUME NEW n \in Numbers, n # 0
  PROVE  Meant("page", None, Decimal(n))
<1> DEFINE data == <<"page", Bar, Decimal(n)>>
<1>1. CallbackData(Does("page", None, Decimal(n))) = data  BY TheDoes, TheData
<1>2. "page" \in Words
  BY TheWords, Zenon
<1>3. Bar \in Words /\ Decimal(n) \in Words  BY BarWord, DecimalWords
<1>4. data \in Seq(Words)  BY <1>2, <1>3, ShortTuples
<1>5. /\ Len(data) = 3
      /\ data[1] = "page" /\ data[2] = Bar /\ data[3] = Decimal(n)
  OBVIOUS
<1> HIDE DEF data
<1>6. Understood(Button(data)) = Does("page", None, Decimal(n))
  BY <1>4, <1>5, PageMeant
<1> QED  BY <1>1, <1>6, MeantByData

LEMMA SnoozeCustomButton ==
  ASSUME NEW n \in Numbers
  PROVE  Meant("snoozeCustom", Decimal(n), None)
<1> DEFINE data == <<"snooze", Bar, "custom", Bar, Decimal(n)>>
<1>1. CallbackData(Does("snoozeCustom", Decimal(n), None)) = data  BY TheDoes, TheData
<1>2. "snooze" \in Words /\ "custom" \in Words
  BY TheWords, Zenon
<1>3. Bar \in Words /\ Decimal(n) \in Words  BY BarWord, DecimalWords
<1>4. data \in Seq(Words)  BY <1>2, <1>3, ShortTuples
<1>5. /\ Len(data) = 5
      /\ data[1] = "snooze" /\ data[2] = Bar /\ data[3] = "custom" /\ data[4] = Bar
      /\ data[5] = Decimal(n)
  OBVIOUS
<1> HIDE DEF data
<1>6. Understood(Button(data)) = Does("snoozeCustom", Decimal(n), None)
  BY <1>4, <1>5, SnoozeCustomMeant
<1> QED  BY <1>1, <1>6, MeantByData

LEMMA WeekdaysDoneButton ==
  ASSUME NEW n \in Numbers
  PROVE  Meant("weekdaysDone", Decimal(n), None)
<1> DEFINE data == <<"weekdays", Bar, "done", ":", Decimal(n)>>
<1>1. CallbackData(Does("weekdaysDone", Decimal(n), None)) = data  BY TheDoes, TheData
<1>2. "weekdays" \in Words /\ "done" \in Words /\ ":" \in Words
  BY TheWords, Zenon
<1>3. Bar \in Words /\ Decimal(n) \in Words  BY BarWord, DecimalWords
<1>4. data \in Seq(Words)  BY <1>2, <1>3, ShortTuples
<1>5. /\ Len(data) = 5
      /\ data[1] = "weekdays" /\ data[2] = Bar /\ data[3] = "done" /\ data[4] = ":"
      /\ data[5] = Decimal(n)
  OBVIOUS
<1> HIDE DEF data
<1>6. Understood(Button(data)) = Does("weekdaysDone", Decimal(n), None)
  BY <1>4, <1>5, WeekdaysDoneMeant
<1> QED  BY <1>1, <1>6, MeantByData

LEMMA EditWeekdaysDoneButton ==
  ASSUME NEW n \in Numbers
  PROVE  Meant("editWeekdaysDone", Decimal(n), None)
<1> DEFINE data == <<"edit", Bar, "weekdays", Bar, "done", ":", Decimal(n)>>
<1>1. CallbackData(Does("editWeekdaysDone", Decimal(n), None)) = data  BY TheDoes, TheData
<1>2. "edit" \in Words /\ "weekdays" \in Words /\ "done" \in Words /\ ":" \in Words
  BY TheWords, Zenon
<1>3. Bar \in Words /\ Decimal(n) \in Words  BY BarWord, DecimalWords
<1>4. data \in Seq(Words)  BY <1>2, <1>3, SevenTuples
<1>5. /\ Len(data) = 7
      /\ data[1] = "edit" /\ data[2] = Bar /\ data[3] = "weekdays" /\ data[4] = Bar
      /\ data[5] = "done" /\ data[6] = ":" /\ data[7] = Decimal(n)
  OBVIOUS
<1> HIDE DEF data
<1>6. Understood(Button(data)) = Does("editWeekdaysDone", Decimal(n), None)
  BY <1>4, <1>5, EditWeekdaysDoneMeant
<1> QED  BY <1>1, <1>6, MeantByData

LEMMA SnoozeButton ==
  ASSUME NEW n \in Numbers, NEW m \in Numbers, NEW arg \in Words, arg = Decimal(m)
  PROVE  Meant("snooze", Decimal(n), arg)
<1> DEFINE data == <<"snooze", Bar, Decimal(n), Bar, arg>>
<1>1. CallbackData(Does("snooze", Decimal(n), arg)) = data  BY TheDoes, TheData
<1>2. "snooze" \in Words
  BY TheWords, Zenon
<1>3. Bar \in Words /\ Decimal(n) \in Words  BY BarWord, DecimalWords
<1>4. data \in Seq(Words)  BY <1>2, <1>3, ShortTuples
<1>5. /\ Len(data) = 5
      /\ data[1] = "snooze" /\ data[2] = Bar /\ data[3] = Decimal(n) /\ data[4] = Bar
      /\ data[5] = arg
  OBVIOUS
<1> HIDE DEF data
<1>6. Understood(Button(data)) = Does("snooze", Decimal(n), arg)
  BY <1>4, <1>5, SnoozeMeant
<1> QED  BY <1>1, <1>6, MeantByData

LEMMA PostponeButton ==
  ASSUME NEW n \in Numbers, NEW arg \in {"hour", "day", "week"}, arg \in Words
  PROVE  Meant("postpone", Decimal(n), arg)
<1> DEFINE data == <<"postpone", Bar, arg, Bar, Decimal(n)>>
<1>1. CallbackData(Does("postpone", Decimal(n), arg)) = data  BY TheDoes, TheData
<1>2. "postpone" \in Words
  BY TheWords, Zenon
<1>3. Bar \in Words /\ Decimal(n) \in Words  BY BarWord, DecimalWords
<1>4. data \in Seq(Words)  BY <1>2, <1>3, ShortTuples
<1>5. /\ Len(data) = 5
      /\ data[1] = "postpone" /\ data[2] = Bar /\ data[3] = arg /\ data[4] = Bar
      /\ data[5] = Decimal(n)
  OBVIOUS
<1> HIDE DEF data
<1>6. Understood(Button(data)) = Does("postpone", Decimal(n), arg)
  BY <1>4, <1>5, PostponeMeant
<1> QED  BY <1>1, <1>6, MeantByData

LEMMA PeriodButton ==
  ASSUME NEW n \in Numbers, NEW arg \in Words, arg # ":"
  PROVE  Meant("period", Decimal(n), arg)
<1> DEFINE data == <<"period", ":", arg, ":", Decimal(n)>>
<1>1. CallbackData(Does("period", Decimal(n), arg)) = data  BY TheDoes, TheData
<1>2. "period" \in Words /\ ":" \in Words
  BY TheWords, Zenon
<1>3. Bar \in Words /\ Decimal(n) \in Words  BY BarWord, DecimalWords
<1>4. data \in Seq(Words)  BY <1>2, <1>3, ShortTuples
<1>5. /\ Len(data) = 5
      /\ data[1] = "period" /\ data[2] = ":" /\ data[3] = arg /\ data[4] = ":"
      /\ data[5] = Decimal(n)
  OBVIOUS
<1> HIDE DEF data
<1>6. Understood(Button(data)) = Does("period", Decimal(n), arg)
  BY <1>4, <1>5, PeriodMeant
<1> QED  BY <1>1, <1>6, MeantByData

LEMMA WeekdayButton ==
  ASSUME NEW n \in Numbers, NEW arg \in Words, arg # ":"
  PROVE  Meant("weekday", Decimal(n), arg)
<1> DEFINE data == <<"weekday", ":", arg, ":", Decimal(n)>>
<1>1. CallbackData(Does("weekday", Decimal(n), arg)) = data  BY TheDoes, TheData
<1>2. "weekday" \in Words /\ ":" \in Words
  BY TheWords, Zenon
<1>3. Bar \in Words /\ Decimal(n) \in Words  BY BarWord, DecimalWords
<1>4. data \in Seq(Words)  BY <1>2, <1>3, ShortTuples
<1>5. /\ Len(data) = 5
      /\ data[1] = "weekday" /\ data[2] = ":" /\ data[3] = arg /\ data[4] = ":"
      /\ data[5] = Decimal(n)
  OBVIOUS
<1> HIDE DEF data
<1>6. Understood(Button(data)) = Does("weekday", Decimal(n), arg)
  BY <1>4, <1>5, WeekdayMeant
<1> QED  BY <1>1, <1>6, MeantByData

LEMMA EditPeriodButton ==
  ASSUME NEW n \in Numbers, NEW arg \in Words, arg # ":"
  PROVE  Meant("editPeriod", Decimal(n), arg)
<1> DEFINE data == <<"edit", Bar, "period", ":", arg, ":", Decimal(n)>>
<1>1. CallbackData(Does("editPeriod", Decimal(n), arg)) = data  BY TheDoes, TheData
<1>2. "edit" \in Words /\ "period" \in Words /\ ":" \in Words
  BY TheWords, Zenon
<1>3. Bar \in Words /\ Decimal(n) \in Words  BY BarWord, DecimalWords
<1>4. data \in Seq(Words)  BY <1>2, <1>3, SevenTuples
<1>5. /\ Len(data) = 7
      /\ data[1] = "edit" /\ data[2] = Bar /\ data[3] = "period" /\ data[4] = ":"
      /\ data[5] = arg /\ data[6] = ":" /\ data[7] = Decimal(n)
  OBVIOUS
<1> HIDE DEF data
<1>6. Understood(Button(data)) = Does("editPeriod", Decimal(n), arg)
  BY <1>4, <1>5, EditPeriodMeant
<1> QED  BY <1>1, <1>6, MeantByData

LEMMA EditWeekdayButton ==
  ASSUME NEW n \in Numbers, NEW arg \in Words, arg # ":"
  PROVE  Meant("editWeekday", Decimal(n), arg)
<1> DEFINE data == <<"edit", Bar, "weekday", ":", arg, ":", Decimal(n)>>
<1>1. CallbackData(Does("editWeekday", Decimal(n), arg)) = data  BY TheDoes, TheData
<1>2. "edit" \in Words /\ "weekday" \in Words /\ ":" \in Words
  BY TheWords, Zenon
<1>3. Bar \in Words /\ Decimal(n) \in Words  BY BarWord, DecimalWords
<1>4. data \in Seq(Words)  BY <1>2, <1>3, SevenTuples
<1>5. /\ Len(data) = 7
      /\ data[1] = "edit" /\ data[2] = Bar /\ data[3] = "weekday" /\ data[4] = ":"
      /\ data[5] = arg /\ data[6] = ":" /\ data[7] = Decimal(n)
  OBVIOUS
<1> HIDE DEF data
<1>6. Understood(Button(data)) = Does("editWeekday", Decimal(n), arg)
  BY <1>4, <1>5, EditWeekdayMeant
<1> QED  BY <1>1, <1>6, MeantByData

LEMMA BackToListButton == Meant("backToList", None, None)
<1>1. CallbackData(Does("backToList", None, None)) = eventBackToList  BY TheDoes, TheData
<1> QED  BY <1>1, BackToListMeant, MeantByData

\* The cases of AsUpdate.
LEMMA TheMessage ==
  ASSUME NEW want, want.op # "ignored"
  PROVE  /\ want.op = "start" => AsUpdate(want) = Message(<<"/start">>)
         /\ want.op = "help" => AsUpdate(want) = Message(<<"/help">>)
         /\ want.op = "add" =>
              AsUpdate(want) = Message(<<"/add", " ", "date", " ", "time", " ", "text">>)
         /\ want.op = "list" => AsUpdate(want) = Message(<<"/list">>)
         /\ want.op = "text" => AsUpdate(want) = Message(<<"words">>)
<1>1. want # Ignored  BY DEF Ignored, Does
<1> QED  BY <1>1, Zenon DEF AsUpdate

LEMMA MessagesMeant ==
  /\ Meant("start", None, None) /\ Meant("help", None, None) /\ Meant("add", None, None)
  /\ Meant("list", None, None) /\ Meant("text", None, None)
<1>1. Meant("start", None, None)
  <2> DEFINE data == <<"/start">>  W == {"/start", "/add"}
  <2>1. AsUpdate(Does("start", None, None)) = Message(data)
    <3>1. Does("start", None, None).op = "start" /\ "start" # "ignored"  BY TheDoes
    <3> QED  BY <3>1, TheMessage, Zenon
  <2>2. data \in Seq(W) /\ "/add" \in W  OBVIOUS
  <2>3. findHandler(Message(data)) = "StartHandler"  BY <2>2, MessageFound
  <2> HIDE DEF data
  <2>4. Understood(Message(data)) = Does("start", None, None)
    BY <2>3 DEF Understood
  <2> QED  BY <2>1, <2>4 DEF Meant
<1>2. Meant("help", None, None)
  <2> DEFINE data == <<"/help">>  W == {"/help", "/add"}
  <2>1. AsUpdate(Does("help", None, None)) = Message(data)
    <3>1. Does("help", None, None).op = "help" /\ "help" # "ignored"  BY TheDoes
    <3> QED  BY <3>1, TheMessage, Zenon
  <2>2. data \in Seq(W) /\ "/add" \in W  OBVIOUS
  <2>3. findHandler(Message(data)) = "HelpHandler"  BY <2>2, MessageFound
  <2> HIDE DEF data
  <2>4. Understood(Message(data)) = Does("help", None, None)
    BY <2>3 DEF Understood
  <2> QED  BY <2>1, <2>4 DEF Meant
<1>3. Meant("list", None, None)
  <2> DEFINE data == <<"/list">>  W == {"/list", "/add"}
  <2>1. AsUpdate(Does("list", None, None)) = Message(data)
    <3>1. Does("list", None, None).op = "list" /\ "list" # "ignored"  BY TheDoes
    <3> QED  BY <3>1, TheMessage, Zenon
  <2>2. data \in Seq(W) /\ "/add" \in W  OBVIOUS
  <2>3. findHandler(Message(data)) = "ListHandler"  BY <2>2, MessageFound
  <2> HIDE DEF data
  <2>4. Understood(Message(data)) = Does("list", None, None)
    BY <2>3 DEF Understood
  <2> QED  BY <2>1, <2>4 DEF Meant
<1>4. Meant("text", None, None)
  <2> DEFINE data == <<"words">>  W == {"words", "/add"}
  <2>1. AsUpdate(Does("text", None, None)) = Message(data)
    <3>1. Does("text", None, None).op = "text" /\ "text" # "ignored"  BY TheDoes
    <3> QED  BY <3>1, TheMessage, Zenon
  <2>2. data \in Seq(W) /\ "/add" \in W  OBVIOUS
  <2>3. findHandler(Message(data)) = "textHandler"  BY <2>2, MessageFound
  <2> HIDE DEF data
  <2>4. Understood(Message(data)) = Does("text", None, None)
    BY <2>3 DEF Understood
  <2> QED  BY <2>1, <2>4 DEF Meant
<1>5. Meant("add", None, None)
  <2> DEFINE data == <<"/add", " ", "date", " ", "time", " ", "text">>
             W == {"/add", " ", "date", "time", "text"}
  <2>1. AsUpdate(Does("add", None, None)) = Message(data)
    <3>1. Does("add", None, None).op = "add" /\ "add" # "ignored"  BY TheDoes
    <3> QED  BY <3>1, TheMessage, Zenon
  <2>2. "/add" \in W /\ " " \in W /\ "date" \in W /\ "time" \in W /\ "text" \in W
    BY Zenon
  <2>3. Len(data) = 7 /\ data[1] = "/add"  OBVIOUS
  <2> HIDE DEF W
  <2>4. data \in Seq(W)  BY <2>2, SevenTuples
  <2> HIDE DEF data
  <2>5. findHandler(Message(data)) = "AddHandler"
    <3>1. Len(data) > 0  BY <2>3
    <3> QED  BY <2>2, <2>3, <2>4, <3>1, MessageFound, Zenon
  <2>6. Understood(Message(data)) = Does("add", None, None)
    BY <2>5 DEF Understood
  <2> QED  BY <2>1, <2>6 DEF Meant
<1> QED  BY <1>1, <1>2, <1>3, <1>4, <1>5

LEMMA PictureMeant == Understood(AsUpdate(Ignored)) = Ignored
<1>1. AsUpdate(Ignored) = Message(<<>>)
  <2>1. Ignored.op = "ignored"  BY DEF Ignored, Does
  <2> QED  BY <2>1, Zenon DEF AsUpdate
<1>2. findHandler(Message(<<>>)) = "default"
  <2>1. <<>> \in Seq({"/add"}) /\ "/add" \in {"/add"}  OBVIOUS
  <2> QED  BY <2>1, MessageFound
<1>3. Understood(Message(<<>>)) = Ignored  BY <1>2 DEF Understood
<1> QED  BY <1>1, <1>3

\* Every button the bot offers and every message is understood as it was meant.
LEMMA EverythingMeant ==
  ASSUME NEW want \in Anything
  PROVE  Understood(AsUpdate(want)) = want
<1> DEFINE Named == {"snoozeCustom", "done", "weekdaysDone", "detail", "edit", "delete",
                     "editDate", "description", "editPeriodicity", "customDate",
                     "editWeekdaysDone"}
<1>0. (1 .. 7) \subseteq Numbers /\ 5 \in Numbers /\ 10 \in Numbers
  <2>1. (1 .. 7) \cup {10} \subseteq Numbers  BY RoutingAssumption, Zenon
  <2> QED  BY <2>1
<1>1. \/ \E op \in Named, e \in Numbers : want = Does(op, Decimal(e), None)
      \/ \E e \in Numbers, m \in {Decimal(5), Decimal(10)} :
           want = Does("snooze", Decimal(e), m)
      \/ \E op \in {"period", "editPeriod"}, e \in Numbers, p \in Periods :
           want = Does(op, Decimal(e), p)
      \/ \E op \in {"weekday", "editWeekday"}, e \in Numbers, d \in WeekDays :
           want = Does(op, Decimal(e), d)
      \/ \E e \in Numbers, p \in {"hour", "day", "week"} :
           want = Does("postpone", Decimal(e), p)
      \/ \E n \in Numbers \ {0} : want = Does("page", None, Decimal(n))
      \/ want = Does("backToList", None, None)
      \/ want \in Messages
      \/ want = Ignored
  BY DEF Anything, Buttons
<1>2. ASSUME NEW op \in Named, NEW e \in Numbers, want = Does(op, Decimal(e), None)
      PROVE  Understood(AsUpdate(want)) = want
  <2>1. Meant(op, Decimal(e), None)
    BY PrefixButtons, DoneButton, SnoozeCustomButton, WeekdaysDoneButton,
       EditWeekdaysDoneButton
  <2> QED  BY <1>2, <2>1 DEF Meant
<1>3. ASSUME NEW e \in Numbers, NEW m \in {Decimal(5), Decimal(10)},
             want = Does("snooze", Decimal(e), m)
      PROVE  Understood(AsUpdate(want)) = want
  <2>1. PICK k \in Numbers : m = Decimal(k)  BY <1>0
  <2>2. m \in Words  BY <2>1, DecimalWords
  <2>3. Meant("snooze", Decimal(e), m)  BY <2>1, <2>2, SnoozeButton
  <2> QED  BY <1>3, <2>3 DEF Meant
<1>4. ASSUME NEW op \in {"period", "editPeriod"}, NEW e \in Numbers, NEW p \in Periods,
             want = Does(op, Decimal(e), p)
      PROVE  Understood(AsUpdate(want)) = want
  <2>1. p \in Words /\ p # ":"  BY TheWords, Zenon DEF Periods
  <2>2. Meant(op, Decimal(e), p)  BY <2>1, PeriodButton, EditPeriodButton
  <2> QED  BY <1>4, <2>2 DEF Meant
<1>5. ASSUME NEW op \in {"weekday", "editWeekday"}, NEW e \in Numbers, NEW d \in WeekDays,
             want = Does(op, Decimal(e), d)
      PROVE  Understood(AsUpdate(want)) = want
  <2>1. PICK k \in Numbers : d = Decimal(k)  BY <1>0 DEF WeekDays
  <2>2. d \in Words /\ d # ":"  BY <2>1, DecimalWords, DecimalNotBar
  <2>3. Meant(op, Decimal(e), d)  BY <2>2, WeekdayButton, EditWeekdayButton
  <2> QED  BY <1>5, <2>3 DEF Meant
<1>6. ASSUME NEW e \in Numbers, NEW p \in {"hour", "day", "week"},
             want = Does("postpone", Decimal(e), p)
      PROVE  Understood(AsUpdate(want)) = want
  <2>1. p \in Words  BY TheWords, Zenon
  <2>2. Meant("postpone", Decimal(e), p)  BY <2>1, PostponeButton
  <2> QED  BY <1>6, <2>2 DEF Meant
<1>7. ASSUME NEW n \in Numbers \ {0}, want = Does("page", None, Decimal(n))
      PROVE  Understood(AsUpdate(want)) = want
  <2>1. Meant("page", None, Decimal(n))  BY PageButton
  <2> QED  BY <1>7, <2>1 DEF Meant
<1>8. CASE want = Does("backToList", None, None)
  BY <1>8, BackToListButton DEF Meant
<1>9. CASE want \in Messages
  <2>1. PICK op \in {"start", "help", "add", "list", "text"} : want = Does(op, None, None)
    BY <1>9 DEF Messages
  <2> QED  BY <2>1, MessagesMeant DEF Meant
<1>10. CASE want = Ignored  BY <1>10, PictureMeant
<1> HIDE DEF Named
<1> QED
  BY <1>1, <1>2, <1>3, <1>4, <1>5, <1>6, <1>7, <1>8, <1>9, <1>10, Zenon

-----------------------------------------------------------------------------
(* Every handler sets out to do what was sent *)

LEMMA TakenWasSent ==
  ASSUME TypeOK, Consecutive
  PROVE  /\ DOMAIN running \subseteq DOMAIN sent
         /\ updates # <<>> => Head(updates) \in DOMAIN sent
<1> USE Numerals
<1>1. DOMAIN sent = 1 .. Len(sent) /\ lastUpdateID <= Len(sent)  BY DEF TypeOK
<1>2. ASSUME NEW u \in DOMAIN running  PROVE u \in DOMAIN sent
  <2>1. u \in Nat \ {0} /\ u <= lastUpdateID - Len(updates)
    BY <1>2 DEF TypeOK, Consecutive
  <2> QED  BY <1>1, <2>1
<1>3. ASSUME updates # <<>>  PROVE Head(updates) \in DOMAIN sent
  <2>1. Len(updates) >= 1 /\ Head(updates) = updates[1] /\ 1 \in DOMAIN updates
    BY <1>3 DEF TypeOK
  <2>2. updates[1] \in Ids /\ updates[1] = lastUpdateID - Len(updates) + 1
    BY <2>1 DEF TypeOK, Consecutive
  <2>3. Head(updates) \in Nat \ {0} /\ Head(updates) <= lastUpdateID
    BY <2>1, <2>2
  <2> QED  BY <1>1, <2>3
<1> QED  BY <1>2, <1>3

LEMMA MeaningIsMeant ==
  ASSUME TypeOK, NEW u \in DOMAIN sent
  PROVE  Meaning[sent[u]] = sent[u]
<1>1. u \in Ids /\ sent[u] \in Wants[u]
  <2>1. Len(sent) \in Nat /\ Len(Wants) \in Nat /\ Len(sent) <= Len(Wants)
    BY IdsAreNumbers DEF TypeOK
  <2>2. DOMAIN sent = 1 .. Len(sent)  BY DEF TypeOK
  <2> QED  BY <2>1, <2>2 DEF TypeOK, Ids
<1>2. Wants[u] \subseteq Anything
  <2>1. Wants \in Seq(SUBSET Anything)  BY UpdatesAssumption, Zenon
  <2> QED  BY <1>1, <2>1 DEF Ids
<1>3. sent[u] \in UNION {Wants[x] : x \in Ids} /\ sent[u] \in Anything  BY <1>1, <1>2
<1>4. Meaning[sent[u]] = Understood(AsUpdate(sent[u]))  BY <1>3, Zenon DEF Meaning
<1> QED  BY <1>3, <1>4, EverythingMeant

LEMMA UnderstoodStep ==
  IInv /\ UnderstoodAsMeant /\ [Next]_vars => UnderstoodAsMeant'
<1> SUFFICES ASSUME TypeOK, Consecutive, UnderstoodAsMeant, [Next]_vars
             PROVE  UnderstoodAsMeant'
  BY DEF IInv
<1>0. DOMAIN running \subseteq DOMAIN sent  BY TakenWasSent
<1>1. CASE Sends
  <2>1. \A u \in DOMAIN sent : sent'[u] = sent[u]  BY <1>1 DEF Sends, TypeOK
  <2>2. running' = running  BY <1>1 DEF Sends, stages
  <2> QED  BY <1>0, <2>1, <2>2 DEF UnderstoodAsMeant
<1>2. CASE Polls  BY <1>2 DEF Polls, UnderstoodAsMeant
<1>3. CASE PollFails  BY <1>3 DEF PollFails, UnderstoodAsMeant, stages
<1>4. CASE Pushes  BY <1>4 DEF Pushes, UnderstoodAsMeant
<1>5. CASE Dispatches
  <2> DEFINE u == Head(updates)
  <2>1. updates # <<>> /\ sent' = sent  BY <1>5 DEF Dispatches
  <2>2. running' = [x \in DOMAIN running \cup {u} |->
                      IF x = u THEN Meaning[sent[u]] ELSE running[x]]
    BY <1>5 DEF Dispatches
  <2>3. Meaning[sent[u]] = sent[u]  BY <2>1, TakenWasSent, MeaningIsMeant
  <2> HIDE DEF u
  <2> QED  BY <2>1, <2>2, <2>3 DEF UnderstoodAsMeant
<1>6. ASSUME NEW v \in Ids, HandlerEnds(v)  PROVE UnderstoodAsMeant'
  <2>1. running' = [x \in DOMAIN running \ {v} |-> running[x]]
    BY <1>6 DEF HandlerEnds, Restrict
  <2> QED  BY <1>6, <2>1 DEF HandlerEnds, UnderstoodAsMeant
<1>7. ASSUME NEW v \in Ids, HandlerFails(v)  PROVE UnderstoodAsMeant'
  <2>1. running' = [x \in DOMAIN running \ {v} |-> running[x]]
    BY <1>7 DEF HandlerFails, Restrict
  <2> QED  BY <1>7, <2>1 DEF HandlerFails, UnderstoodAsMeant
<1>8. CASE CloseDatabase  BY <1>8 DEF CloseDatabase, UnderstoodAsMeant, stages
<1>9. CASE Exits
  <2>1. DOMAIN running' = {}  BY <1>9 DEF Exits
  <2> QED  BY <2>1 DEF UnderstoodAsMeant
<1>10. CASE StartsUp  BY <1>10 DEF StartsUp, UnderstoodAsMeant, stages
<1>11. CASE UNCHANGED vars  BY <1>11 DEF vars, UnderstoodAsMeant, stages
<1> QED
  BY <1>1, <1>2, <1>3, <1>4, <1>5, <1>6, <1>7, <1>8, <1>9, <1>10, <1>11 DEF Next

\* Whatever the numbers in the buttons are, every button the bot offers and every
\* kind of message reaches the handler it was made for, and the event, the page, the
\* minutes, the period or the day that was put into the button come out of it again:
\* no prefix of RegisterHandlers takes the data of another, and no split loses a word.
THEOREM EveryButtonUnderstood == Spec => []UnderstoodAsMeant
<1>1. Init => UnderstoodAsMeant  BY DEF Init, UnderstoodAsMeant
<1>2. IInv /\ UnderstoodAsMeant /\ [Next]_vars => UnderstoodAsMeant'  BY UnderstoodStep
<1> QED  BY <1>1, <1>2, DeliveryInvariant, PTL DEF Spec
=============================================================================
