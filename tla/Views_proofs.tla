---------------------------- MODULE Views_proofs ----------------------------
(***************************************************************************)
(* Proofs about what users are shown, for every set of events, users,      *)
(* goroutines and operations, every size of a page and every bound.        *)
(***************************************************************************)
EXTENDS Views, Handlers_proofs, FiniteSetTheorems

-----------------------------------------------------------------------------
(* The place of an event among the others *)

LEMMA PlaceBound ==
  ASSUME NEW S \in SUBSET Nat, IsFiniteSet(S), NEW e \in Nat
  PROVE  /\ IsFiniteSet(Newer(S, e)) /\ Place(S, e) \in 0 .. Cardinality(S)
         /\ e \in S => Place(S, e) < Cardinality(S)
<1>1. Newer(S, e) \in SUBSET S /\ Newer(S, e) \subseteq S \ {e}  BY DEF Newer
<1>2. /\ IsFiniteSet(Newer(S, e)) /\ Cardinality(Newer(S, e)) <= Cardinality(S)
      /\ Cardinality(S) = Cardinality(Newer(S, e)) => S = Newer(S, e)
  BY <1>1, FS_Subset
<1>3. Cardinality(S) \in Nat /\ Cardinality(Newer(S, e)) \in Nat
  BY <1>2, FS_CardinalityType
<1> QED  BY <1>1, <1>2, <1>3 DEF Place

LEMMA PlaceFalls ==
  ASSUME NEW S \in SUBSET Nat, IsFiniteSet(S), NEW e \in Nat, NEW f \in S, e < f
  PROVE  Place(S, f) < Place(S, e)
<1>0. \A x \in S : x \in Nat  OBVIOUS
<1>1. /\ Newer(S, f) \in SUBSET Newer(S, e) /\ f \in Newer(S, e) /\ f \notin Newer(S, f)
  <2>1. \A x \in S : x > f => x > e  BY <1>0
  <2>2. f > e /\ ~(f > f)  BY <1>0
  <2> QED  BY <2>1, <2>2 DEF Newer
<1>2. IsFiniteSet(Newer(S, e)) /\ IsFiniteSet(Newer(S, f))  BY PlaceBound
<1>3. /\ Cardinality(Newer(S, f)) <= Cardinality(Newer(S, e))
      /\ Cardinality(Newer(S, e)) = Cardinality(Newer(S, f)) => Newer(S, e) = Newer(S, f)
  BY <1>1, <1>2, FS_Subset
<1>4. Cardinality(Newer(S, e)) \in Nat /\ Cardinality(Newer(S, f)) \in Nat
  BY <1>2, FS_CardinalityType
<1> QED  BY <1>1, <1>3, <1>4 DEF Place

\* A larger set leaves nobody further in front.
LEMMA PlaceGrows ==
  ASSUME NEW S \in SUBSET Nat, NEW T \in SUBSET S, IsFiniteSet(S), NEW e \in Nat
  PROVE  Place(T, e) <= Place(S, e)
<1>1. Newer(T, e) \in SUBSET Newer(S, e)  BY DEF Newer
<1> QED  BY <1>1, PlaceBound, FS_Subset DEF Place

\* Every place is somebody's: the places are as many as the events, and differ.
LEMMA PlaceTaken ==
  ASSUME NEW S \in SUBSET Nat, IsFiniteSet(S), NEW k \in 0 .. Cardinality(S) - 1
  PROVE  \E e \in S : Place(S, e) = k
<1> DEFINE n == Cardinality(S)
           f == [e \in S |-> Place(S, e)]
<1>1. n \in Nat  BY FS_CardinalityType
<1>2. f \in [S -> 0 .. n - 1]
  <2> SUFFICES ASSUME NEW e \in S PROVE Place(S, e) \in 0 .. n - 1  OBVIOUS
  <2>1. Place(S, e) \in 0 .. n /\ Place(S, e) < n  BY PlaceBound
  <2> QED  BY <1>1, <2>1
<1>3. ASSUME NEW a \in S, NEW b \in S, f[a] = f[b] PROVE a = b
  <2>1. Place(S, a) = Place(S, b) /\ Place(S, a) \in Nat
    BY <1>3, PlaceBound
  <2>2. ~(a < b) /\ ~(b < a)  BY <2>1, PlaceFalls
  <2> QED  BY <2>2
<1>4. f \in Injection(S, 0 .. n - 1)
  BY <1>2, <1>3 DEF Injection, IsInjective
<1>5. IsFiniteSet(0 .. n - 1) /\ Cardinality(0 .. n - 1) = n
  BY <1>1, FS_Interval
<1>6. f \in Surjection(S, 0 .. n - 1)
  BY <1>4, <1>5, FS_Injection
<1> QED  BY <1>6 DEF Surjection

-----------------------------------------------------------------------------
(* A list, newest first, and its pages *)

Descending(s) == \A i, j \in DOMAIN s : i < j => s[i] > s[j]

LEMMA NewestFirstList ==
  ASSUME NEW S \in SUBSET Nat, IsFiniteSet(S)
  PROVE  /\ NewestFirst(S) \in [1 .. Cardinality(S) -> S]
         /\ Descending(NewestFirst(S))
<1> DEFINE n == Cardinality(S)
           s == [i \in 1 .. n |-> CHOOSE e \in S : Place(S, e) = i - 1]
<1>1. n \in Nat  BY FS_CardinalityType
<1>2. ASSUME NEW i \in 1 .. n PROVE s[i] \in S /\ Place(S, s[i]) = i - 1
  <2>1. i - 1 \in 0 .. n - 1  BY <1>1
  <2>2. \E e \in S : Place(S, e) = i - 1  BY <2>1, PlaceTaken
  <2> QED  BY <2>2
<1>3. s \in [1 .. n -> S]  BY <1>2
<1>4. Descending(s)
  <2> SUFFICES ASSUME NEW i \in 1 .. n, NEW j \in 1 .. n, i < j PROVE s[i] > s[j]
    BY DEF Descending
  <2>1. /\ s[i] \in S /\ s[j] \in S
        /\ Place(S, s[i]) = i - 1 /\ Place(S, s[j]) = j - 1
    BY <1>2
  <2> HIDE DEF s
  <2>2. ~(s[i] < s[j])
    <3>1. s[i] < s[j] => Place(S, s[j]) < Place(S, s[i])  BY <2>1, PlaceFalls
    <3> QED  BY <2>1, <3>1
  <2>3. s[i] # s[j]  BY <2>1
  <2>4. s[i] \in Nat /\ s[j] \in Nat  BY <2>1
  <2> QED  BY <2>2, <2>3, <2>4
<1> HIDE DEF s, n
<1>5. \E t \in [1 .. n -> S] : \A i, j \in DOMAIN t : i < j => t[i] > t[j]
  BY <1>3, <1>4 DEF Descending
<1> QED  BY <1>5 DEF NewestFirst, Descending, n

LEMMA PlaceInList ==
  ASSUME NEW S \in SUBSET Nat, IsFiniteSet(S), NEW n, n = Cardinality(S),
         NEW s \in [1 .. n -> S], Descending(s), NEW i \in 1 .. n
  PROVE  Place(S, s[i]) = i - 1
<1>1. n \in Nat /\ i \in Nat  BY FS_CardinalityType
<1>2. s \in Injection(1 .. n, S)
  <2>1. ASSUME NEW a \in 1 .. n, NEW b \in 1 .. n, s[a] = s[b] PROVE a = b
    <3>1. s[a] \in Nat /\ s[b] \in Nat  OBVIOUS
    <3>2. ~(a < b) /\ ~(b < a)  BY <2>1, <3>1 DEF Descending
    <3> QED  BY <1>1, <3>2
  <2> QED  BY <2>1 DEF Injection, IsInjective
<1>3. s \in Surjection(1 .. n, S)
  <2>1. Cardinality(1 .. n) = n  BY <1>1, FS_Interval
  <2> QED  BY <1>2, <2>1, FS_Injection
<1>4. Newer(S, s[i]) = {s[k] : k \in 1 .. i - 1}
  <2>1. ASSUME NEW x \in S, x > s[i] PROVE \E k \in 1 .. i - 1 : x = s[k]
    <3>1. PICK k \in 1 .. n : s[k] = x  BY <1>3 DEF Surjection
    <3>2. ~(i <= k)
      <4>1. i = k => x = s[i]  BY <3>1
      <4>2. i < k => s[i] > x  BY <3>1 DEF Descending
      <4>3. x \in Nat /\ s[i] \in Nat  OBVIOUS
      <4> QED  BY <1>1, <2>1, <4>1, <4>2, <4>3
    <3> QED  BY <1>1, <3>1, <3>2
  <2>2. ASSUME NEW k \in 1 .. i - 1 PROVE s[k] \in S /\ s[k] > s[i]
    BY <1>1 DEF Descending
  <2> QED  BY <2>1, <2>2 DEF Newer
<1>5. Cardinality({s[k] : k \in 1 .. i - 1}) = i - 1
  <2> DEFINE T == {s[k] : k \in 1 .. i - 1}
             g == [k \in 1 .. i - 1 |-> s[k]]
  <2>1. g \in Surjection(1 .. i - 1, T)  BY DEF Surjection
  <2>2. g \in Injection(1 .. i - 1, T)
    <3>1. ASSUME NEW a \in 1 .. i - 1, NEW b \in 1 .. i - 1, g[a] = g[b] PROVE a = b
      BY <1>1, <1>2, <3>1 DEF Injection, IsInjective
    <3> QED  BY <3>1 DEF Injection, IsInjective
  <2>3. IsFiniteSet(1 .. i - 1) /\ Cardinality(1 .. i - 1) = i - 1
    <3> DEFINE m == i - 1
    <3>1. m \in Int /\ m >= 0  BY <1>1
    <3> HIDE DEF m
    <3>2. IsFiniteSet(1 .. m) /\ Cardinality(1 .. m) = IF 1 > m THEN 0 ELSE m - 1 + 1
      BY <3>1, FS_Interval
    <3>3. Cardinality(1 .. m) = m  BY <3>1, <3>2
    <3> QED  BY <3>2, <3>3 DEF m
  <2> HIDE DEF T, g
  <2>4. Cardinality(T) = i - 1  BY <2>1, <2>2, <2>3, FS_Surjection
  <2> QED  BY <2>4 DEF T
<1> QED  BY <1>4, <1>5 DEF Place

LEMMA SubSeqDef ==
  ASSUME NEW S, NEW k \in Nat, NEW s \in [1 .. k -> S], NEW m \in Nat \ {0}, NEW n \in Nat
  PROVE  SubSeq(s, m, n) = [i \in 1 .. n - m + 1 |-> s[m + i - 1]]
OBVIOUS

LEMMA EnabledIds ==
  ASSUME StoreTypeOK, NEW c
  PROVE  /\ EnabledOf(c) \in SUBSET Nat /\ EnabledOf(c) \subseteq EventIds
         /\ EnabledOf(c) \subseteq DOMAIN events
         /\ IsFiniteSet(EnabledOf(c)) /\ Cardinality(EnabledOf(c)) \in Nat
         /\ Cardinality(EnabledOf(c)) <= Cardinality(EventIds)
<1>1. EnabledOf(c) \in SUBSET EventIds /\ EnabledOf(c) \subseteq DOMAIN events
  BY DEF StoreTypeOK, EnabledOf
<1> QED  BY <1>1, StoreAssumption, SerialEnds, FS_Subset, FS_CardinalityType

\* A page by the places of its events, and what it says of the pages before and after.
LEMMA PageByPlace ==
  ASSUME StoreTypeOK, NEW c, NEW page \in Nat \ {0},
         NEW ids, ids = EventsPage(c, page)
  PROVE  /\ ids \in Ids
         /\ ToSet(ids) = OnPage(c, page)
         /\ ids # <<>> => page \in Pages
<1> DEFINE S == EnabledOf(c)
           n == Cardinality(S)
           all == NewestFirst(S)
           off == PageOffset(page)
           upTo == off + PageSize
           hi == IF upTo < Len(all) THEN upTo ELSE Len(all)
<1>1. /\ S \in SUBSET Nat /\ S \subseteq EventIds /\ IsFiniteSet(S) /\ n \in Nat
      /\ n <= Cardinality(EventIds) /\ Cardinality(EventIds) \in Nat
  BY EnabledIds, SerialEnds, FS_CardinalityType
<1>2. all \in [1 .. n -> S] /\ Descending(all) /\ Len(all) = n
  BY <1>1, NewestFirstList
<1>3. /\ PageSize \in Nat \ {0} /\ off \in Nat /\ upTo \in Nat
      /\ off = (page - 1) * PageSize /\ upTo = page * PageSize
  BY ListsAssumption DEF PageOffset
<1>4. ids = SubSeq(all, off + 1, hi)  BY DEF EventsPage
<1> HIDE DEF S, n, all, off, upTo, hi
<1>5. hi \in Nat /\ hi <= n /\ hi <= upTo /\ hi \in {upTo, n}
  BY <1>1, <1>2, <1>3 DEF hi
<1>6. ids = [i \in 1 .. hi - off |-> all[off + i]]
  <2>1. ids = [i \in 1 .. hi - (off + 1) + 1 |-> all[off + 1 + i - 1]]
    BY <1>1, <1>2, <1>3, <1>4, <1>5, SubSeqDef
  <2>2. hi - (off + 1) + 1 = hi - off  BY <1>3, <1>5
  <2>3. \A i \in 1 .. hi - off : off + 1 + i - 1 = off + i  BY <1>3, <1>5
  <2> QED  BY <2>1, <2>2, <2>3
<1>7. \A i \in 1 .. hi - off : off + i \in 1 .. n
  BY <1>1, <1>3, <1>5
<1>8. ids \in Ids
  <2>1. ids \in [1 .. hi - off -> EventIds]
    BY <1>1, <1>2, <1>6, <1>7
  <2>2. CASE hi - off \in 0 .. PageSize
    BY <2>1, <2>2 DEF Ids
  <2>3. CASE hi - off \notin 0 .. PageSize
    <3>1. hi - off < 0  BY <1>3, <1>5, <2>3 DEF upTo
    <3>2. 1 .. hi - off = 1 .. 0  BY <1>3, <1>5, <3>1
    <3>3. 0 \in 0 .. PageSize  BY <1>3
    <3> QED  BY <2>1, <3>2, <3>3 DEF Ids
  <2> QED  BY <2>2, <2>3
<1>9. ToSet(ids) = OnPage(c, page)
  <2>1. OnPage(c, page) = {e \in S : off <= Place(S, e) /\ Place(S, e) < upTo}
    <3>1. \A e \in S : Place(S, e) \in Nat  BY <1>1, PlaceBound
    <3> QED  BY <1>3, <3>1 DEF OnPage, FirstPages, S
  <2>2. ASSUME NEW i \in 1 .. hi - off
        PROVE  ids[i] \in OnPage(c, page)
    <3>1. ids[i] = all[off + i] /\ all[off + i] \in S
      BY <1>2, <1>6, <1>7
    <3>2. PICK k \in 1 .. n : k = off + i  BY <1>7
    <3>3. n = Cardinality(S)  BY DEF n
    <3>4. Place(S, all[k]) = k - 1  BY <1>1, <1>2, <3>3, PlaceInList
    <3>5. off <= k - 1 /\ k - 1 < upTo  BY <1>3, <1>5, <3>2
    <3>6. ids[i] \in S /\ off <= Place(S, ids[i]) /\ Place(S, ids[i]) < upTo
      BY <3>1, <3>2, <3>4, <3>5
    <3> QED  BY <2>1, <3>6
  <2>3. ASSUME NEW e \in OnPage(c, page)
        PROVE  \E i \in 1 .. hi - off : ids[i] = e
    <3>0. /\ e \in S /\ e \in Nat
          /\ off <= Place(S, e) /\ Place(S, e) < upTo
      BY <1>1, <2>1
    <3>b. /\ Place(S, e) \in 0 .. Cardinality(S)
          /\ e \in S => Place(S, e) < Cardinality(S)
      BY <1>1, <3>0, PlaceBound
    <3>1. /\ e \in S /\ Place(S, e) \in Nat /\ Place(S, e) < n
          /\ off <= Place(S, e) /\ Place(S, e) < upTo
      BY <1>1, <3>0, <3>b DEF n
    <3> DEFINE j == Place(S, e) + 1
    <3>2. j \in 1 .. n  BY <1>1, <3>1
    <3>3. Place(S, all[j]) = Place(S, e) /\ all[j] \in S
      <4>1. Place(S, all[j]) = j - 1
        BY <1>1, <1>2, <3>2, PlaceInList DEF n
      <4> QED  BY <1>2, <3>1, <3>2, <4>1
    <3>4. all[j] = e
      <4>1. all[j] \in Nat /\ e \in Nat  BY <1>1, <3>1, <3>3
      <4>2. ~(all[j] < e) /\ ~(e < all[j])
        BY <1>1, <3>1, <3>3, <4>1, PlaceFalls
      <4> QED  BY <4>1, <4>2
    <3> HIDE DEF j
    <3>5. j - off \in 1 .. hi - off /\ off + (j - off) = j
      <4>1. j > off /\ j <= upTo /\ j <= n /\ j \in Nat  BY <1>1, <1>3, <3>1 DEF j
      <4> QED  BY <1>1, <1>3, <1>5, <4>1
    <3>6. ids[j - off] = e  BY <1>6, <3>4, <3>5
    <3> QED  BY <3>5, <3>6
  <2>4. DOMAIN ids = 1 .. hi - off  BY <1>6
  <2> QED  BY <2>2, <2>3, <2>4 DEF ToSet
<1>10. ids # <<>> => page \in Pages
  <2> SUFFICES ASSUME ids # <<>> PROVE page \in Pages  OBVIOUS
  <2>1. hi - off >= 1
    <3> SUFFICES ASSUME ~(hi - off >= 1) PROVE FALSE  OBVIOUS
    <3>1. 1 .. hi - off = {}  BY <1>3, <1>5
    <3> QED  BY <1>6, <3>1
  <2>2. (page - 1) * PageSize < Cardinality(EventIds)
    BY <1>1, <1>3, <1>5, <2>1
  <2>3. page - 1 <= (page - 1) * PageSize  BY <1>3
  <2> QED  BY <1>1, <1>3, <2>2, <2>3 DEF Pages
<1> QED  BY <1>8, <1>9, <1>10

-----------------------------------------------------------------------------
(* Types *)

TypeInv == TypeOK /\ DeletesOnly

LEMMA WalkTypes ==
  /\ NoWalk \in Walk /\ Broken \in Walk
  /\ NoWalk.intact /\ ~NoWalk.grew /\ NoWalk.start = {} /\ ~Broken.intact
  /\ \A p \in Pages : NoWalk.seen[p] = {}
  /\ \A S \in SUBSET EventIds : [NoWalk EXCEPT !.start = S] \in Walk
BY DEF Walk, NoWalk, Broken

LEMMA TypeInit == Init => TypeInv
<1> SUFFICES ASSUME Init PROVE TypeInv  OBVIOUS
<1>1. StoreTypeOK
  <2>1. PICK n \in 0 .. Cardinality(EventIds) :
          events \in [{e \in EventIds : e <= n} -> SavedRows]
    BY DEF Init
  <2> QED  BY <2>1, SavedRowsAssumption DEF Init, StoreTypeOK, KeyboardKinds
<1>2. HandlersTypeOK /\ DeletesOnly
  BY DEF Init, HandlersInit, HandlersTypeOK, DeletesOnly, Tasks, Idle, NoEdit, NoState
<1>3. ListsTypeOK
  <2>1. <<>> \in Ids
    <3>1. <<>> \in [1 .. 0 -> EventIds] /\ 0 \in 0 .. PageSize  BY ListsAssumption
    <3> QED  BY <3>1 DEF Ids
  <2>2. NoList \in [page : Nat, ids : Ids, next : BOOLEAN]  BY <2>1 DEF NoList
  <2> QED  BY <2>2 DEF Init, ListsInit, ListsTypeOK
<1>4. DigestTypeOK  BY DigestAssumption DEF Init, DigestInit, DigestTypeOK
<1>5. /\ walk \in [Chats -> Walk]
      /\ due \in [Chats -> SUBSET EventIds] /\ failed \subseteq Chats
  BY WalkTypes DEF Init
<1> QED  BY <1>1, <1>2, <1>3, <1>4, <1>5 DEF TypeInv, TypeOK

\* What a step that moves one goroutine of the lists keeps of their types.
LEMMA GoesType ==
  ASSUME ListsTypeOK, NEW r \in Readers, NEW t, Goes(r, t), UNCHANGED view,
         \/ t = Resting
         \/ t \in [at : {"page"}, chat : Chats, page : Nat \ {0}, total : Nat]
         \/ t \in [at : {"show"}, chat : Chats, page : Nat \ {0}, ids : Ids, next : BOOLEAN]
  PROVE  ListsTypeOK'
BY DEF ListsTypeOK, Goes

LEMMA ReadingTypes ==
  ASSUME ListsTypeOK, NEW r \in Readers
  PROVE  /\ reading[r] # Resting =>
              /\ reading[r].at \in {"page", "show"}
              /\ reading[r].chat \in Chats /\ reading[r].page \in Nat \ {0}
         /\ reading[r] = Resting => reading[r].at = "rest"
         /\ reading[r].at = "page" => reading[r].total \in Nat
         /\ reading[r].at = "show" => reading[r].ids \in Ids /\ reading[r].next \in BOOLEAN
BY DEF ListsTypeOK, Resting

LEMMA ListsType ==
  ASSUME StoreTypeOK, ListsTypeOK, NEW r \in Readers,
         \/ \E chat \in Chats : \/ ListHandler(r, chat) \/ HandleBackToList(r, chat)
                                \/ \E page \in Pages : handlePageCallback(r, chat, page)
         \/ ReadsPage(r) \/ Shows(r) \/ GivesUp(r)
  PROVE  ListsTypeOK'
<1>1. ASSUME NEW chat \in Chats, NEW page \in Nat \ {0}, Counts(r, chat, page)
      PROVE  ListsTypeOK'
  <2>1. CountEvents(chat) \in Nat  BY EnabledIds DEF CountEvents
  <2> QED  BY <1>1, <2>1, GoesType DEF Counts
<1>2. CASE \E chat \in Chats : ListHandler(r, chat)
  BY <1>1, <1>2 DEF ListHandler
<1>3. CASE \E chat \in Chats : \E page \in Pages : handlePageCallback(r, chat, page)
  <2>1. PICK chat \in Chats, page \in Pages : Counts(r, chat, page)
    BY <1>3 DEF handlePageCallback
  <2>2. page \in Nat \ {0}  BY DEF Pages
  <2> QED  BY <1>1, <2>1, <2>2
<1>4. CASE \E chat \in Chats : HandleBackToList(r, chat)
  <2>1. PICK chat \in Chats : HandleBackToList(r, chat)  BY <1>4
  <2> DEFINE all == EnabledOf(chat)
             size == IF Cardinality(all) < PageSize THEN Cardinality(all) ELSE PageSize
  <2>2. PICK ids \in [1 .. size -> all] :
          Goes(r, [at |-> "show", chat |-> chat, page |-> 1, ids |-> ids,
                   next |-> size < Cardinality(all)])
    BY <2>1 DEF HandleBackToList
  <2>3. all \subseteq EventIds /\ Cardinality(all) \in Nat  BY EnabledIds
  <2>4. size \in 0 .. PageSize  BY <2>3, ListsAssumption
  <2> HIDE DEF size, all
  <2>5. ids \in Ids  BY <2>3, <2>4 DEF Ids
  <2> DEFINE t == [at |-> "show", chat |-> chat, page |-> 1, ids |-> ids,
                   next |-> size < Cardinality(all)]
  <2>6. t \in [at : {"show"}, chat : Chats, page : Nat \ {0}, ids : Ids, next : BOOLEAN]
    BY <2>5
  <2>7. Goes(r, t) /\ UNCHANGED view  BY <2>1, <2>2 DEF HandleBackToList
  <2> HIDE DEF t
  <2> QED  BY <2>6, <2>7, GoesType
<1>5. CASE ReadsPage(r)
  <2> DEFINE chat == reading[r].chat
             page == reading[r].page
             ids == EventsPage(chat, page)
             t == [at |-> "show", chat |-> chat, page |-> page, ids |-> ids,
                   next |-> PageOffset(page) + PageSize < reading[r].total]
  <2>1. chat \in Chats /\ page \in Nat \ {0}
    BY <1>5, ReadingTypes DEF ReadsPage, Resting
  <2>2. ids \in Ids  BY <2>1, PageByPlace
  <2>3. Goes(r, IF ids = <<>> THEN Resting ELSE t) /\ UNCHANGED view
    BY <1>5 DEF ReadsPage
  <2> HIDE DEF ids
  <2>4. t \in [at : {"show"}, chat : Chats, page : Nat \ {0}, ids : Ids, next : BOOLEAN]
    BY <2>1, <2>2
  <2> HIDE DEF t
  <2> QED  BY <2>3, <2>4, GoesType
<1>6. CASE Shows(r)
  <2>1. /\ reading[r].page \in Nat /\ reading[r].ids \in Ids /\ reading[r].next \in BOOLEAN
        /\ reading[r].chat \in Chats
    BY <1>6, ReadingTypes DEF Shows, Resting
  <2> DEFINE v == [page |-> reading[r].page, ids |-> reading[r].ids, next |-> reading[r].next]
  <2>2. v \in [page : Nat, ids : Ids, next : BOOLEAN]  BY <2>1
  <2>3. view' = [view EXCEPT ![reading[r].chat] = v] /\ Goes(r, Resting)
    BY <1>6 DEF Shows
  <2> HIDE DEF v
  <2> QED  BY <2>2, <2>3 DEF ListsTypeOK, Goes
<1>7. CASE GivesUp(r)  BY <1>7, GoesType DEF GivesUp
<1> QED  BY <1>2, <1>3, <1>4, <1>5, <1>6, <1>7

LEMMA DigestStep ==
  ASSUME StoreTypeOK, DigestTypeOK,
         \/ StartsDigest \/ SendsEvents \/ EndsDigest
         \/ \E chat \in Chats : ReadsEvents(chat) \/ SkipsUser(chat)
  PROVE  DigestTypeOK'
<1> USE DEF DigestTypeOK
<1>1. CASE StartsDigest
  <2>1. AllUsersWithEventsToday \subseteq Chats
    BY DEF AllUsersWithEventsToday, StoreTypeOK, Row
  <2>2. digests' \in 0 .. MaxDigests  BY <1>1, DigestAssumption DEF StartsDigest
  <2> QED  BY <1>1, <2>1, <2>2 DEF StartsDigest
<1>2. CASE SendsEvents
  BY <1>2 DEF SendsEvents
<1>3. CASE EndsDigest  BY <1>3 DEF EndsDigest
<1>4. ASSUME NEW chat \in Chats, ReadsEvents(chat) PROVE DigestTypeOK'
  <2> DEFINE ids == {e \in DOMAIN events :
                       events[e].userTgId = chat /\ Active(e) /\ ShownAsToday(e)}
  <2>1. ids \subseteq EventIds  BY DEF StoreTypeOK
  <2>2. IF ids = {} THEN UNCHANGED <<digest, ready>>
        ELSE digest' = "send" /\ ready' = [chat |-> chat, ids |-> ids]
    BY <1>4 DEF ReadsEvents
  <2> HIDE DEF ids
  <2> QED  BY <1>4, <2>1, <2>2 DEF ReadsEvents
<1>5. ASSUME NEW chat \in Chats, SkipsUser(chat) PROVE DigestTypeOK'
  BY <1>5 DEF SkipsUser
<1> QED  BY <1>1, <1>2, <1>3, <1>4, <1>5

LEMMA TypeStep == TypeInv /\ [Next]_vars => TypeInv'
<1> SUFFICES ASSUME TypeInv, [Next]_vars PROVE TypeInv'  OBVIOUS
<1>0. /\ HandlersInv /\ StoreTypeOK /\ ListsTypeOK /\ DigestTypeOK /\ failed \subseteq Chats
      /\ walk \in [Chats -> Walk] /\ due \in [Chats -> SUBSET EventIds]
  BY DEF TypeInv, TypeOK, HandlersInv
<1>a. ASSUME UNCHANGED tableVars PROVE StoreTypeOK' /\ HandlersInv'
  <2>1. UNCHANGED handlersVars /\ UNCHANGED storeVars  BY <1>a DEF tableVars
  <2> QED  BY <1>0, <2>1, HandlersInvSame DEF storeVars, StoreTypeOK
<1>b. UNCHANGED listsVars => ListsTypeOK'  BY <1>0 DEF ListsTypeOK, listsVars
<1>c. UNCHANGED digestVars => DigestTypeOK'
  BY <1>0 DEF DigestTypeOK, digestVars
<1>d. ASSUME StoreTypeOK', HandlersInv', ListsTypeOK', DigestTypeOK', failed' \subseteq Chats,
             walk' \in [Chats -> Walk], due' \in [Chats -> SUBSET EventIds]
      PROVE  TypeInv'
  BY <1>d DEF TypeInv, TypeOK, HandlersInv
<1>e. UNCHANGED observers => /\ walk' \in [Chats -> Walk] /\ failed' \subseteq Chats
                             /\ due' \in [Chats -> SUBSET EventIds]
  BY <1>0 DEF observers
<1>1. ASSUME NEW chat \in Chats, NEW typed \in Typed, Adds(chat, typed)
      PROVE  TypeInv'
  <2>1. StoreTypeOK' /\ HandlersInv'  BY <1>0, <1>1, AddRows DEF Adds
  <2>2. [walk[chat] EXCEPT !.grew = TRUE] \in Walk  BY <1>0 DEF Walk
  <2>3. walk' \in [Chats -> Walk]
    BY <1>0, <1>1, <2>2, WalkTypes DEF Adds, Kept
  <2> QED  BY <1>0, <1>1, <1>b, <1>c, <1>d, <2>1, <2>3 DEF Adds
<1>2. ASSUME NEW w \in Workers, Saves(w)
      PROVE  TypeInv'
  <2>1. StoreTypeOK' /\ HandlersInv'  BY <1>0, <1>2, SaveRows DEF Saves
  <2>2. walk' \in [Chats -> Walk]
    BY <1>0, <1>2, WalkTypes DEF Saves, Kept
  <2>3. due' \in [Chats -> SUBSET EventIds]
    BY <1>0, <1>2 DEF Saves
  <2> QED  BY <1>0, <1>2, <1>b, <1>c, <1>d, <2>1, <2>2, <2>3 DEF Saves
<1>3. ASSUME NEW w \in Workers, Works(w)
      PROVE  TypeInv'
  <2>1. HandlersInv' /\ UNCHANGED storeVars
    BY <1>0, <1>3, ButtonsInv, ContinuesInv DEF Works
  <2>2. StoreTypeOK'  BY <1>0, <2>1 DEF storeVars, StoreTypeOK
  <2> QED  BY <1>3, <1>b, <1>c, <1>d, <1>e, <2>1, <2>2 DEF Works
<1>4. ASSUME NEW r \in Readers, NEW chat \in Chats, AsksList(r, chat)
      PROVE  TypeInv'
  <2>1. ListsTypeOK'  BY <1>0, <1>4, ListsType DEF AsksList
  <2>2. EnabledOf(chat) \in SUBSET EventIds  BY <1>0, EnabledIds
  <2>3. walk' \in [Chats -> Walk]
    BY <1>0, <1>4, <2>2, WalkTypes DEF AsksList
  <2> QED  BY <1>0, <1>4, <1>a, <1>c, <1>d, <2>1, <2>3 DEF AsksList
<1>5. ASSUME NEW r \in Readers, NEW chat \in Chats, Turns(r, chat)
      PROVE  TypeInv'
  <2>1. ListsTypeOK'  BY <1>0, <1>5, ListsType DEF Turns
  <2> QED  BY <1>5, <1>a, <1>c, <1>d, <1>e, <2>1 DEF Turns
<1>6. ASSUME NEW r \in Readers, NEW chat \in Chats, GoesBack(r, chat)
      PROVE  TypeInv'
  <2>1. ListsTypeOK'  BY <1>0, <1>6, ListsType DEF GoesBack
  <2>3. walk' \in [Chats -> Walk]
    BY <1>0, <1>6, WalkTypes DEF GoesBack
  <2> QED  BY <1>0, <1>6, <1>a, <1>c, <1>d, <2>1, <2>3 DEF GoesBack
<1>7. ASSUME NEW r \in Readers, Sees(r)
      PROVE  TypeInv'
  <2>1. ListsTypeOK'  BY <1>0, <1>7, ListsType DEF Sees
  <2> DEFINE chat == reading[r].chat
             page == reading[r].page
             ids == ToSet(reading[r].ids)
  <2>2. chat \in Chats /\ ids \subseteq EventIds
    <3>0. reading[r].at = "show"  BY <1>7 DEF Sees, Shows
    <3>1. reading[r] # Resting  BY <3>0 DEF Resting
    <3>2. chat \in Chats /\ reading[r].ids \in Ids
      BY <1>0, <3>0, <3>1, ReadingTypes
    <3> QED  BY <3>2 DEF Ids, ToSet
  <2> DEFINE seen == walk[chat].seen[page] \cup ids
             to == Kept(chat, FALSE, [walk[chat] EXCEPT !.seen[page] = seen])
  <2>3. walk' = [walk EXCEPT ![chat] = to]  BY <1>7 DEF Sees
  <2> HIDE DEF ids, chat, page
  <2>4. [walk[chat] EXCEPT !.seen[page] = seen] \in Walk
    <3>1. walk[chat] \in Walk  BY <1>0, <2>2
    <3>2. page \in Pages => seen \subseteq EventIds  BY <2>2, <3>1 DEF Walk
    <3> HIDE DEF seen
    <3>3. [walk[chat].seen EXCEPT ![page] = seen] \in [Pages -> SUBSET EventIds]
      BY <3>1, <3>2 DEF Walk
    <3> QED  BY <3>1, <3>3 DEF Walk
  <2>5. to \in Walk  BY <2>4, WalkTypes DEF Kept
  <2> HIDE DEF to
  <2>7. walk' \in [Chats -> Walk]  BY <1>0, <2>3, <2>5
  <2> QED  BY <1>0, <1>7, <1>a, <1>c, <1>d, <2>1, <2>7 DEF Sees
<1>8. ASSUME NEW r \in Readers, ReadsPage(r) \/ GivesUp(r),
             UNCHANGED <<tableVars, digestVars, observers>>
      PROVE  TypeInv'
  <2>1. ListsTypeOK'  BY <1>0, <1>8, ListsType
  <2> QED  BY <1>8, <1>a, <1>c, <1>d, <1>e, <2>1
<1>9. CASE DigestBegins
  <2>1. DigestTypeOK'  BY <1>0, <1>9, DigestStep DEF DigestBegins
  <2>2. \A c : EnabledOf(c) \subseteq EventIds  BY <1>0, EnabledIds
  <2>3. due' \in [Chats -> SUBSET EventIds] /\ failed' \subseteq Chats
    BY <1>9, <2>2 DEF DigestBegins
  <2> QED  BY <1>0, <1>9, <1>a, <1>b, <1>d, <2>1, <2>3 DEF DigestBegins
<1>10. CASE DigestGoesOn
  <2>1. DigestTypeOK'  BY <1>0, <1>10, DigestStep DEF DigestGoesOn
  <2> QED  BY <1>10, <1>a, <1>b, <1>d, <1>e, <2>1 DEF DigestGoesOn
<1>11. ASSUME NEW chat \in Chats, DigestFails(chat)
       PROVE  TypeInv'
  <2>1. DigestTypeOK'  BY <1>0, <1>11, DigestStep DEF DigestFails
  <2> QED  BY <1>0, <1>11, <1>a, <1>b, <1>d, <2>1 DEF DigestFails
<1>12. CASE UNCHANGED vars
  BY <1>12, <1>a, <1>b, <1>c, <1>d, <1>e DEF vars
<1> QED
  BY <1>1, <1>2, <1>3, <1>4, <1>5, <1>6, <1>7, <1>8, <1>9, <1>10, <1>11, <1>12
  DEF Next, Lists

LEMMA TypeInvariance == Spec => []TypeInv
BY TypeInit, TypeStep, PTL DEF Spec

(***************************************************************************)
(* Type correctness of the lists, the digest and the table they show.      *)
(***************************************************************************)
THEOREM ViewsTypeCorrect == Spec => []TypeOK
BY TypeInvariance, PTL DEF TypeInv

-----------------------------------------------------------------------------
(* What the digest owes *)

\* What a save leaves of the row it writes, and of the others.
LEMMA SavedRow ==
  ASSUME TypeInv, NEW w \in Workers, Save(w)
  PROVE  \E e \in DOMAIN events :
           /\ e = task[w].event /\ events[e].userTgId \in Chats
           /\ DOMAIN events' = DOMAIN events /\ now' = now
           /\ \A x \in DOMAIN events : x # e => events'[x] = events[x]
           /\ events'[e].userTgId = events[e].userTgId
           /\ "statusId" \notin task[w].cols => events'[e].statusId = events[e].statusId
           /\ "sendAt" \notin task[w].cols => events'[e].sendAt = events[e].sendAt
           /\ "statusId" \in task[w].cols => events'[e].statusId = StatusDeleted
<1> USE DEF TypeInv, TypeOK
<1>1. task[w] \in Tasks /\ task[w].at = "save"  BY DEF Save, HandlersTypeOK
<1>2. "statusId" \in task[w].cols => task[w].row.statusId = StatusDeleted
  BY <1>1 DEF DeletesOnly
<1>3. PICK e \in DOMAIN events : e = task[w].event  BY DEF Save, UpdateEvent
<1> DEFINE new == SetColumns(events[e], task[w].row, task[w].cols)
<1>4. events' = [events EXCEPT ![e] = new] /\ now' = now
  BY <1>3 DEF Save, UpdateEvent
<1>5. events[e] \in Row  BY DEF StoreTypeOK
<1>6. /\ new.userTgId = events[e].userTgId
      /\ "statusId" \notin task[w].cols => new.statusId = events[e].statusId
      /\ "sendAt" \notin task[w].cols => new.sendAt = events[e].sendAt
      /\ "statusId" \in task[w].cols => new.statusId = StatusDeleted
  BY <1>2, <1>5 DEF SetColumns, Row
<1> HIDE DEF new
<1>7. events'[e] = new /\ DOMAIN events' = DOMAIN events
      /\ \A x \in DOMAIN events : x # e => events'[x] = events[x]
  BY <1>4
<1>8. events[e].userTgId \in Chats  BY <1>5 DEF Row
<1> QED  BY <1>3, <1>4, <1>6, <1>7, <1>8

\* The digest has not moved, and nothing it owes was taken from it.
LEMMA OwedSame ==
  ASSUME TypeInv, TypeInv', Owed, UNCHANGED <<digestVars, failed>>,
         \A c \in Chats : /\ due'[c] \subseteq due[c]
                          /\ \A e \in due'[c] : (e \in EnabledOf(c) /\ ShownAsToday(e))'
  PROVE  Owed'
<1>1. UNCHANGED <<digest, left, ready, told, failed>>  BY DEF digestVars
<1>2. (digest = "send" => ready.chat \in Chats)'
  BY DEF TypeInv, TypeOK, DigestTypeOK
<1>3. (digest = "send" => due[ready.chat] \subseteq ready.ids)'
  BY <1>1, <1>2 DEF Owed
<1>4. ASSUME NEW c \in Chats \ failed'
      PROVE  (\/ c \in left
              \/ digest = "send" /\ ready.chat = c
              \/ due[c] \subseteq told[c])'
  <2>1. \/ c \in left
        \/ digest = "send" /\ ready.chat = c
        \/ due[c] \subseteq told[c]
    BY <1>1 DEF Owed
  <2>2. due'[c] \subseteq due[c]  OBVIOUS
  <2> QED  BY <1>1, <2>1, <2>2
<1> QED  BY <1>1, <1>3, <1>4 DEF Owed

\* So it is when neither the table nor the promise changed.
LEMMA OwedRests ==
  ASSUME TypeInv, TypeInv', Owed, UNCHANGED <<digestVars, failed, due, events, now>>
  PROVE  Owed'
<1>1. \A c, e : /\ (e \in EnabledOf(c))' <=> e \in EnabledOf(c)
                /\ ShownAsToday(e)' <=> ShownAsToday(e)
  BY DEF EnabledOf, ShownAsToday, SessionDay, MoscowDay
<1>2. \A c \in Chats : \A e \in due[c] : e \in EnabledOf(c) /\ ShownAsToday(e)
  BY DEF Owed
<1> QED  BY <1>1, <1>2, OwedSame

LEMMA OwedAdds ==
  ASSUME TypeInv, TypeInv', Owed, NEW chat \in Chats, NEW typed \in Typed,
         Adds(chat, typed)
  PROVE  Owed'
<1>1. /\ DOMAIN events \subseteq DOMAIN events'
      /\ \A x \in DOMAIN events : events'[x] = events[x]
  BY AddRows DEF TypeInv, TypeOK, Adds, HandlersInv
<1>2. UNCHANGED <<digestVars, failed, due, now>>  BY DEF Adds, AddHandler
<1>3. ASSUME NEW c \in Chats, NEW e \in due[c]
      PROVE  (e \in EnabledOf(c) /\ ShownAsToday(e))'
  <2>1. e \in EnabledOf(c) /\ ShownAsToday(e)  BY DEF Owed
  <2>2. e \in DOMAIN events  BY <2>1 DEF EnabledOf
  <2>3. e \in DOMAIN events' /\ events'[e] = events[e]  BY <1>1, <2>2
  <2> QED  BY <1>2, <2>1, <2>3 DEF EnabledOf, ShownAsToday, MoscowDay, SessionDay
<1> QED  BY <1>2, <1>3, OwedSame

LEMMA OwedSaves ==
  ASSUME TypeInv, TypeInv', Owed, NEW w \in Workers, Saves(w)
  PROVE  Owed'
<1>1. PICK x \in DOMAIN events :
        /\ x = task[w].event /\ events[x].userTgId \in Chats
        /\ DOMAIN events' = DOMAIN events /\ now' = now
        /\ \A y \in DOMAIN events : y # x => events'[y] = events[y]
        /\ events'[x].userTgId = events[x].userTgId
        /\ "statusId" \notin task[w].cols => events'[x].statusId = events[x].statusId
        /\ "sendAt" \notin task[w].cols => events'[x].sendAt = events[x].sendAt
  BY SavedRow DEF Saves
<1> DEFINE loses == "statusId" \in task[w].cols \/ "sendAt" \in task[w].cols
           owner == events[x].userTgId
<1>2. /\ due' = IF loses THEN [due EXCEPT ![owner] = @ \ {x}] ELSE due
      /\ UNCHANGED <<digestVars, failed>>
  BY <1>1 DEF Saves
<1>3. due \in [Chats -> SUBSET EventIds]  BY DEF TypeInv, TypeOK
<1>4. \A c \in Chats : /\ due'[c] \subseteq due[c]
                       /\ loses /\ c = owner => x \notin due'[c]
  BY <1>2, <1>3
<1>5. ASSUME NEW c \in Chats, NEW e \in due'[c]
      PROVE  (e \in EnabledOf(c) /\ ShownAsToday(e))'
  <2>1. e \in EnabledOf(c) /\ ShownAsToday(e)  BY <1>4 DEF Owed
  <2>2. e \in DOMAIN events /\ events[e].userTgId = c /\ events[e].statusId = StatusEnabled
    BY <2>1 DEF EnabledOf
  <2>3. CASE e # x
    BY <1>1, <2>1, <2>2, <2>3 DEF EnabledOf, ShownAsToday, MoscowDay, SessionDay
  <2>4. CASE e = x
    <3>1. ~loses  BY <1>4, <2>2, <2>4
    <3>2. /\ events'[x].userTgId = c /\ events'[x].statusId = StatusEnabled
          /\ events'[x].sendAt = events[x].sendAt
      BY <1>1, <2>2, <2>4, <3>1
    <3> QED
      BY <1>1, <2>1, <2>4, <3>2 DEF EnabledOf, ShownAsToday, MoscowDay, SessionDay
  <2> QED  BY <2>3, <2>4
<1> HIDE DEF loses, owner
<1> QED  BY <1>2, <1>4, <1>5, OwedSame

LEMMA OwedDigest ==
  ASSUME TypeInv, TypeInv', Owed,
         DigestBegins \/ DigestGoesOn \/ \E chat \in Chats : DigestFails(chat)
  PROVE  Owed'
<1> USE DEF TypeInv, TypeOK, DigestTypeOK
<1>0. UNCHANGED <<events, now>>
  BY DEF DigestBegins, DigestGoesOn, DigestFails, tableVars, storeVars
<1>a. \A c, e : /\ (e \in EnabledOf(c))' <=> e \in EnabledOf(c)
                /\ ShownAsToday(e)' <=> ShownAsToday(e)
  BY <1>0 DEF EnabledOf, ShownAsToday, SessionDay, MoscowDay
<1>b. UNCHANGED due =>
        (\A c \in Chats : \A e \in due[c] : e \in EnabledOf(c) /\ ShownAsToday(e))'
  BY <1>a DEF Owed
<1>1. CASE DigestBegins
  <2>1. /\ digest' = "read" /\ left' = AllUsersWithEventsToday /\ failed' = {}
        /\ due' = [c \in Chats |-> {e \in EnabledOf(c) : TodayInMoscow(e) /\ ShownAsToday(e)}]
    BY <1>1 DEF DigestBegins, StartsDigest
  <2>2. (\A c \in Chats : \A e \in due[c] : e \in EnabledOf(c) /\ ShownAsToday(e))'
    BY <1>a, <2>1
  <2>3. ASSUME NEW c \in Chats, NEW e \in due'[c] PROVE c \in left'
    <3>1. e \in EnabledOf(c) /\ TodayInMoscow(e)  BY <2>1
    <3> QED  BY <2>1, <3>1 DEF EnabledOf, AllUsersWithEventsToday, Active
  <2>4. \A c \in Chats : c \in left' \/ due'[c] \subseteq told'[c]  BY <2>3
  <2> QED  BY <2>1, <2>2, <2>4 DEF Owed
<1>2. CASE SendsEvents /\ UNCHANGED <<due, failed>>
  <2>1. /\ digest = "send" /\ digest' = "read" /\ left' = left
        /\ told' = [told EXCEPT ![ready.chat] = ready.ids]
    BY <1>2 DEF SendsEvents
  <2>2. due[ready.chat] \subseteq ready.ids  BY <2>1 DEF Owed
  <2>3. ASSUME NEW c \in Chats \ failed PROVE c \in left' \/ due[c] \subseteq told'[c]
    <3>1. c \in left \/ ready.chat = c \/ due[c] \subseteq told[c]  BY DEF Owed
    <3>2. told'[c] = IF c = ready.chat THEN ready.ids ELSE told[c]  BY <2>1
    <3> QED  BY <2>1, <2>2, <3>1, <3>2
  <2> QED  BY <1>2, <1>b, <2>1, <2>3 DEF Owed
<1>3. CASE EndsDigest /\ UNCHANGED <<due, failed>>
  BY <1>3, <1>b DEF Owed, EndsDigest
<1>4. ASSUME NEW chat \in Chats, ReadsEvents(chat), UNCHANGED <<due, failed>>
      PROVE  Owed'
  <2> DEFINE ids == {e \in DOMAIN events :
                       events[e].userTgId = chat /\ Active(e) /\ ShownAsToday(e)}
  <2>1. /\ digest = "read" /\ left' = left \ {chat} /\ told' = told
        /\ IF ids = {} THEN digest' = digest
           ELSE digest' = "send" /\ ready' = [chat |-> chat, ids |-> ids]
    BY <1>4 DEF ReadsEvents
  <2>2. due[chat] \subseteq ids
    <3> SUFFICES ASSUME NEW e \in due[chat] PROVE e \in ids  OBVIOUS
    <3>1. e \in EnabledOf(chat) /\ ShownAsToday(e)  BY DEF Owed
    <3> QED  BY <3>1 DEF EnabledOf, Active
  <2> HIDE DEF ids
  <2>3. digest' # "rest"  BY <2>1
  <2>4. digest' = "send" => ready'.chat = chat /\ ready'.ids = ids
    BY <2>1
  <2>5. ids # {} => digest' = "send"  BY <2>1
  <2>6. ASSUME NEW c \in Chats \ failed
        PROVE  \/ c \in left'
               \/ digest' = "send" /\ ready'.chat = c
               \/ due[c] \subseteq told[c]
    <3>1. CASE c = chat  BY <2>2, <2>4, <2>5, <3>1
    <3>2. CASE c # chat  BY <2>1, <3>2 DEF Owed
    <3> QED  BY <3>1, <3>2
  <2>7. digest' = "send" => due[ready'.chat] \subseteq ready'.ids  BY <2>2, <2>4
  <2> QED  BY <1>4, <1>b, <2>1, <2>3, <2>6, <2>7 DEF Owed
<1>5. ASSUME NEW chat \in Chats, DigestFails(chat)
      PROVE  Owed'
  <2>1. /\ digest = "read" /\ UNCHANGED <<digest, ready, told, due>>
        /\ left' = left \ {chat} /\ failed' = failed \cup {chat}
    BY <1>5 DEF DigestFails, SkipsUser
  <2>2. \A c \in Chats \ failed' : c \in left' \/ due[c] \subseteq told[c]
    BY <2>1 DEF Owed
  <2> QED  BY <1>b, <2>1, <2>2 DEF Owed
<1> QED  BY <1>1, <1>2, <1>3, <1>4, <1>5 DEF DigestGoesOn, observers

LEMMA OwedStep ==
  ASSUME TypeInv, TypeInv', Owed, [Next]_vars
  PROVE  Owed'
<1>1. ASSUME NEW r \in Readers, Lists(r) PROVE Owed'
  <2>1. UNCHANGED <<tableVars, digestVars, due, failed>>
    BY <1>1 DEF Lists, AsksList, Turns, GoesBack, Sees, observers
  <2> QED  BY <2>1, OwedRests DEF tableVars, storeVars
<1>2. ASSUME NEW w \in Workers, Works(w) PROVE Owed'
  <2>1. HandlersInv /\ StoreTypeOK  BY DEF TypeInv, TypeOK, HandlersInv
  <2>2. UNCHANGED storeVars  BY <1>2, <2>1, ButtonsInv, ContinuesInv DEF Works
  <2>3. UNCHANGED <<digestVars, due, failed>>  BY <1>2 DEF Works, observers
  <2> QED  BY <2>2, <2>3, OwedRests DEF storeVars
<1>3. CASE UNCHANGED vars
  BY <1>3, OwedRests DEF vars, tableVars, storeVars, observers
<1> QED  BY <1>1, <1>2, <1>3, OwedAdds, OwedSaves, OwedDigest DEF Next

(***************************************************************************)
(* The digest tells every user whose events it could read each of their    *)
(* events of the day, however the handlers run beside it, unless the event *)
(* is deleted or given another date before it comes to that.               *)
(***************************************************************************)
THEOREM EveryoneIsTold == Spec => []DigestComplete
<1>1. Init => Owed
  BY DEF Init, DigestInit, Owed
<1>2. TypeInv /\ Owed => DigestComplete
  BY DEF Owed, DigestComplete
<1> QED  BY <1>1, <1>2, TypeInvariance, OwedStep, PTL DEF Spec

-----------------------------------------------------------------------------
(* The pages of a list that was asked for *)

LEMMA ListType ==
  ASSUME TypeInv, NEW c \in Chats
  PROVE  /\ view[c].page \in Nat /\ view[c].next \in BOOLEAN
         /\ walk[c] \in Walk
         /\ NoList.page = 0 /\ ~NoList.next
BY DEF TypeInv, TypeOK, ListsTypeOK, NoList

LEMMA WalkFields ==
  ASSUME TypeInv, NEW c \in Chats
  PROVE  /\ walk[c].start \subseteq EventIds /\ walk[c].intact \in BOOLEAN
         /\ walk[c].grew \in BOOLEAN
         /\ \A p \in Pages : walk[c].seen[p] \subseteq EventIds
BY ListType DEF Walk

\* The first n pages, for a table of which some events were not there before.
LEMMA FewerInFront ==
  ASSUME StoreTypeOK, StoreTypeOK', NEW c, EnabledOf(c) \subseteq EnabledOf(c)',
         NEW n \in Nat, NEW e \in EnabledOf(c), e \in FirstPages(c, n)'
  PROVE  e \in FirstPages(c, n)
<1>1. /\ EnabledOf(c) \in SUBSET Nat /\ IsFiniteSet(EnabledOf(c))  BY EnabledIds
<1>2. EnabledOf(c)' \in SUBSET Nat /\ IsFiniteSet(EnabledOf(c)')
  <2>1. EnabledOf(c)' \in SUBSET EventIds  BY DEF StoreTypeOK, EnabledOf
  <2> QED  BY <2>1, StoreAssumption, SerialEnds, FS_Subset
<1> DEFINE S == EnabledOf(c)
           T == EnabledOf(c)'
<1>3. e \in Nat /\ S \in SUBSET T  BY <1>1
<1>4. Place(T, e) < n * PageSize  BY DEF FirstPages
<1> HIDE DEF S, T
<1>5. /\ Place(S, e) <= Place(T, e)
      /\ Place(S, e) \in 0 .. Cardinality(S) /\ Place(T, e) \in 0 .. Cardinality(T)
  BY <1>1, <1>2, <1>3, PlaceGrows, PlaceBound DEF S, T
<1>6. Cardinality(S) \in Nat /\ Cardinality(T) \in Nat
  BY <1>1, <1>2, FS_CardinalityType DEF S, T
<1>7. Place(S, e) < n * PageSize
  <2> DEFINE m == n * PageSize
  <2>1. m \in Int  BY ListsAssumption
  <2>2. Place(T, e) < m  BY <1>4
  <2> HIDE DEF m
  <2>3. Place(S, e) < m  BY <1>5, <1>6, <2>1, <2>2
  <2> QED  BY <2>3 DEF m
<1> QED  BY <1>7 DEF FirstPages, S

\* Pages are intervals of places.
LEMMA MorePages ==
  ASSUME StoreTypeOK, NEW c, NEW m \in Nat, NEW n \in Nat, m <= n
  PROVE  /\ FirstPages(c, m) \subseteq FirstPages(c, n)
         /\ FirstPages(c, 0) = {}
<1>1. EnabledOf(c) \in SUBSET Nat /\ IsFiniteSet(EnabledOf(c))
      /\ Cardinality(EnabledOf(c)) \in Nat
  BY EnabledIds
<1>2. \A e \in EnabledOf(c) : Place(EnabledOf(c), e) \in Nat
  BY <1>1, PlaceBound
<1>3. m * PageSize \in Nat /\ n * PageSize \in Nat /\ m * PageSize <= n * PageSize
  BY ListsAssumption
<1>4. 0 * PageSize = 0  BY ListsAssumption
<1> QED  BY <1>2, <1>3, <1>4 DEF FirstPages

\* The last page is the one that reaches the number of events.
LEMMA LastPage ==
  ASSUME StoreTypeOK, NEW c, NEW n \in Nat, ~(n * PageSize < CountEvents(c))
  PROVE  EnabledOf(c) \subseteq FirstPages(c, n)
<1>1. EnabledOf(c) \in SUBSET Nat /\ IsFiniteSet(EnabledOf(c))
      /\ Cardinality(EnabledOf(c)) \in Nat
  BY EnabledIds
<1>2. \A e \in EnabledOf(c) : /\ Place(EnabledOf(c), e) \in Nat
                              /\ Place(EnabledOf(c), e) < Cardinality(EnabledOf(c))
  BY <1>1, PlaceBound
<1>3. n * PageSize \in Nat  BY ListsAssumption
<1> QED  BY <1>1, <1>2, <1>3 DEF FirstPages, CountEvents

\* The walk of a chat goes on as it was, if what it is about stays, and what
\* is on its way was on its way or may be.
LEMMA WalkGoesOn ==
  ASSUME NEW c \in Chats, WalkOf(c),
         EnabledOf(c)' = EnabledOf(c), walk'[c] = walk[c], view'[c] = view[c],
         Listed(c)' => Listed(c),
         \A r \in Readers :
           reading'[r] # Resting /\ reading'[r].chat = c =>
             \/ reading'[r] = reading[r]
             \/ walk[c].intact => (PageUpTo(c, r) /\ ShownUpTo(c, r))'
  PROVE  WalkOf(c)'
<1> SUFFICES ASSUME walk[c].intact PROVE WalkOf(c)'
  BY DEF WalkOf
<1>1. /\ \A n : FirstPages(c, n)' = FirstPages(c, n)
      /\ \A n : OnPage(c, n)' = OnPage(c, n)
      /\ Seen(c)' = Seen(c) /\ CountEvents(c)' = CountEvents(c)
  BY DEF FirstPages, OnPage, Seen, CountEvents
<1>2. StartKept(c)'  BY DEF WalkOf, StartKept
<1>3. ViewUpTo(c)'  BY <1>1 DEF WalkOf, ViewUpTo
<1>4. ASSUME NEW r \in Readers, reading'[r] # Resting
      PROVE  (PageUpTo(c, r) /\ ShownUpTo(c, r))'
  <2>1. CASE reading'[r].chat # c  BY <2>1 DEF PageUpTo, ShownUpTo
  <2>2. CASE reading'[r] = reading[r]
    <3>1. PageUpTo(c, r) /\ ShownUpTo(c, r)  BY <1>4, <2>2 DEF WalkOf
    <3>2. PageUpTo(c, r)'  BY <1>1, <2>2, <3>1 DEF PageUpTo
    <3>3. ShownUpTo(c, r)'  BY <1>1, <2>2, <3>1 DEF ShownUpTo
    <3> QED  BY <3>2, <3>3
  <2> QED  BY <1>4, <2>1, <2>2
<1>5. (~walk[c].grew => \A p \in Pages : walk[c].seen[p] \subseteq OnPage(c, p))'
  BY <1>1 DEF WalkOf
<1> QED  BY <1>2, <1>3, <1>4, <1>5 DEF WalkOf

\* It does when only one goroutine of the lists moved, and not onto the chat.
LEMMA WalkElsewhere ==
  ASSUME TypeInv, NEW c \in Chats, WalkOf(c),
         EnabledOf(c)' = EnabledOf(c), walk'[c] = walk[c], view'[c] = view[c],
         NEW r \in Readers, NEW t, Goes(r, t), t = Resting \/ t.chat # c
  PROVE  WalkOf(c)'
<1>1. reading'[r] = t /\ \A q \in Readers : q # r => reading'[q] = reading[q]
  BY DEF Goes, TypeInv, TypeOK, ListsTypeOK
<1>2. Listed(c)' => Listed(c)  BY <1>1 DEF Listed
<1> QED  BY <1>1, <1>2, WalkGoesOn

LEMMA WalkRests ==
  ASSUME NEW c \in Chats, WalkOf(c),
         EnabledOf(c)' = EnabledOf(c), walk'[c] = walk[c], UNCHANGED listsVars
  PROVE  WalkOf(c)'
<1>1. view' = view /\ reading' = reading  BY DEF listsVars
<1>2. Listed(c)' => Listed(c)  BY <1>1 DEF Listed
<1> QED  BY <1>1, <1>2, WalkGoesOn

LEMMA SameEnabled == UNCHANGED events => \A c : EnabledOf(c)' = EnabledOf(c)
BY DEF EnabledOf

LEMMA WalksAdds ==
  ASSUME TypeInv, TypeInv', NEW c \in Chats, WalkOf(c),
         NEW chat \in Chats, NEW typed \in Typed, Adds(chat, typed)
  PROVE  WalkOf(c)'
<1>1. PICK id \in EventIds \ DOMAIN events :
        AddEvent(id, [userTgId |-> chat, message |-> typed.text, sendAt |-> typed.date,
                      statusId |-> StatusEnabled, weekdays |-> {},
                      periodicity |-> NoPeriod])
  BY DEF Adds, AddHandler
<1>2. /\ DOMAIN events' = DOMAIN events \cup {id}
      /\ \A x \in DOMAIN events : events'[x] = events[x]
      /\ events'[id].userTgId = chat
  BY <1>1 DEF AddEvent
<1>3. /\ UNCHANGED listsVars
      /\ walk' = [walk EXCEPT ![chat] =
                    Kept(chat, Counted(chat), [@ EXCEPT !.grew = TRUE])]
  BY DEF Adds
<1>4. walk \in [Chats -> Walk] /\ StoreTypeOK /\ StoreTypeOK'  BY DEF TypeInv, TypeOK
<1>5. CASE c # chat
  <2>1. EnabledOf(c)' = EnabledOf(c)  BY <1>2, <1>5 DEF EnabledOf
  <2>2. walk'[c] = walk[c]  BY <1>3, <1>4, <1>5
  <2> QED  BY <1>3, <2>1, <2>2, WalkRests
<1>6. CASE c = chat
  <2> SUFFICES ASSUME walk'[c].intact PROVE WalkOf(c)'
    BY DEF WalkOf
  <2>1. walk'[c] = Kept(c, Counted(c), [walk[c] EXCEPT !.grew = TRUE])
    BY <1>3, <1>4, <1>6
  <2>2. walk[c].intact /\ ~Counted(c) /\ walk'[c] = [walk[c] EXCEPT !.grew = TRUE]
    BY <2>1, WalkTypes DEF Kept
  <2>3. /\ walk'[c].start = walk[c].start /\ walk'[c].seen = walk[c].seen /\ walk'[c].grew
    BY <1>4, <2>2 DEF Walk
  <2>4. Seen(c)' = Seen(c)  BY <2>3 DEF Seen
  <2>5. EnabledOf(c) \subseteq EnabledOf(c)'  BY <1>2 DEF EnabledOf
  <2>6. view' = view /\ reading' = reading  BY <1>3 DEF listsVars
  <2>7. Listed(c) => walk[c].start \subseteq EnabledOf(c)
    BY <2>2 DEF WalkOf, StartKept
  <2>8. StartKept(c)'
    <3>1. Listed(c)' = Listed(c)  BY <2>6 DEF Listed
    <3> QED  BY <2>3, <2>5, <2>7, <3>1 DEF StartKept
  <2>9. ASSUME NEW n \in Nat, Listed(c)
        PROVE  walk'[c].start \cap FirstPages(c, n)' \subseteq
                 walk[c].start \cap FirstPages(c, n)
    <3> SUFFICES ASSUME NEW e \in walk[c].start, e \in FirstPages(c, n)'
                 PROVE  e \in FirstPages(c, n)
      BY <2>3
    <3> QED  BY <1>4, <2>5, <2>7, <2>9, FewerInFront
  <2>10. ViewUpTo(c)'
    <3> SUFFICES ASSUME view[c] # NoList PROVE ViewUpTo(c)'
      BY <2>6 DEF ViewUpTo
    <3>1. PICK n \in Nat : n = view[c].page  BY ListType
    <3>2. walk[c].start \cap FirstPages(c, n) \subseteq Seen(c)
      BY <2>2, <3>1 DEF WalkOf, ViewUpTo
    <3>3. walk'[c].start \cap FirstPages(c, n)' \subseteq Seen(c)'
      BY <2>4, <2>9, <3>2 DEF Listed
    <3>5. n = view'[c].page  BY <2>6, <3>1
    <3>4. ~view'[c].next => walk'[c].start \subseteq Seen(c)
      BY <2>2, <2>3, <2>6 DEF WalkOf, ViewUpTo
    <3> QED  BY <2>4, <3>3, <3>4, <3>5 DEF ViewUpTo
  <2>11. ASSUME NEW r \in Readers, reading[r] # Resting, reading[r].chat = c
         PROVE  (PageUpTo(c, r) /\ ShownUpTo(c, r))'
    <3>0. PageUpTo(c, r) /\ ShownUpTo(c, r)  BY <2>2, <2>11 DEF WalkOf
    <3>1. /\ reading[r].page \in Nat \ {0} /\ reading[r].page - 1 \in Nat /\ Listed(c)
          /\ reading[r].at # "page" /\ reading'[r] = reading[r]
      <4>1. reading[r].page \in Nat \ {0}
        BY <2>11, ReadingTypes DEF TypeInv, TypeOK
      <4> QED  BY <2>2, <2>6, <2>11, <4>1 DEF Listed, Counted
    <3> DEFINE page == reading[r].page
    <3>2. /\ walk'[c].start \cap FirstPages(c, page - 1)' \subseteq
                walk[c].start \cap FirstPages(c, page - 1)
          /\ walk'[c].start \cap FirstPages(c, page)' \subseteq
                walk[c].start \cap FirstPages(c, page)
      BY <2>9, <3>1
    <3>3. PageUpTo(c, r)'
      <4>1. walk[c].start \cap FirstPages(c, page - 1) \subseteq Seen(c)
        BY <2>11, <3>0 DEF PageUpTo
      <4>2. walk'[c].start \cap FirstPages(c, page - 1)' \subseteq Seen(c)'
        BY <2>4, <3>2, <4>1
      <4> QED  BY <2>6, <3>1, <4>2 DEF PageUpTo
    <3>4. ShownUpTo(c, r)'
      <4> SUFFICES ASSUME reading[r].at = "show" PROVE ShownUpTo(c, r)'
        BY <2>6 DEF ShownUpTo
      <4> DEFINE ids == ToSet(reading[r].ids)
      <4>1. /\ walk[c].start \cap FirstPages(c, page) \subseteq Seen(c) \cup ids
            /\ ~reading[r].next => walk[c].start \subseteq Seen(c) \cup ids
            /\ page \in Pages
        BY <2>11, <3>0 DEF ShownUpTo
      <4>2. walk'[c].start \cap FirstPages(c, page)' \subseteq Seen(c)' \cup ids
        BY <2>4, <3>2, <4>1
      <4>3. ~reading[r].next => walk'[c].start \subseteq Seen(c)' \cup ids
        BY <2>3, <2>4, <4>1
      <4> HIDE DEF ids
      <4> QED  BY <2>3, <2>6, <3>1, <4>1, <4>2, <4>3 DEF ShownUpTo, ids
    <3> QED  BY <3>3, <3>4
  <2>12. \A r \in Readers : reading'[r] # Resting => (PageUpTo(c, r) /\ ShownUpTo(c, r))'
    <3> SUFFICES ASSUME NEW r \in Readers, reading'[r] # Resting
                 PROVE  (PageUpTo(c, r) /\ ShownUpTo(c, r))'
      OBVIOUS
    <3>1. CASE reading'[r].chat # c  BY <3>1 DEF PageUpTo, ShownUpTo
    <3> QED  BY <2>6, <2>11, <3>1
  <2> QED  BY <2>3, <2>8, <2>10, <2>12 DEF WalkOf
<1> QED  BY <1>5, <1>6

LEMMA WalksSaves ==
  ASSUME TypeInv, NEW c \in Chats, WalkOf(c), NEW w \in Workers, Saves(w)
  PROVE  WalkOf(c)'
<1>1. PICK x \in DOMAIN events :
        /\ x = task[w].event /\ events[x].userTgId \in Chats
        /\ DOMAIN events' = DOMAIN events
        /\ \A y \in DOMAIN events : y # x => events'[y] = events[y]
        /\ events'[x].userTgId = events[x].userTgId
        /\ "statusId" \notin task[w].cols => events'[x].statusId = events[x].statusId
  BY SavedRow DEF Saves
<1> DEFINE owner == events[x].userTgId
           deletes == "statusId" \in task[w].cols
<1>2. /\ walk' = [walk EXCEPT ![owner] = Kept(owner, deletes, @)]
      /\ UNCHANGED listsVars
  BY <1>1 DEF Saves
<1>3. walk \in [Chats -> Walk]  BY DEF TypeInv, TypeOK
<1>4. CASE c = owner /\ deletes
  <2>1. ~walk'[c].intact  BY <1>2, <1>3, <1>4, WalkTypes DEF Kept
  <2> QED  BY <2>1 DEF WalkOf
<1>5. CASE c = owner /\ ~deletes
  <2>1. walk'[c] = IF ~walk[c].intact THEN Broken ELSE walk[c]
    BY <1>2, <1>3, <1>5 DEF Kept
  <2>2. CASE walk[c].intact
    <3>1. EnabledOf(c)' = EnabledOf(c)  BY <1>1, <1>5 DEF EnabledOf
    <3> QED  BY <1>2, <2>1, <2>2, <3>1, WalkRests
  <2>3. CASE ~walk[c].intact
    BY <2>1, <2>3, WalkTypes DEF WalkOf
  <2> QED  BY <2>2, <2>3
<1>6. CASE c # owner
  <2>1. EnabledOf(c)' = EnabledOf(c)  BY <1>1, <1>6 DEF EnabledOf
  <2>2. walk'[c] = walk[c]  BY <1>2, <1>3, <1>6
  <2> QED  BY <1>2, <2>1, <2>2, WalkRests
<1> QED  BY <1>4, <1>5, <1>6

LEMMA WalksAsks ==
  ASSUME TypeInv, NEW c \in Chats, WalkOf(c),
         NEW r \in Readers, NEW chat \in Chats, AsksList(r, chat)
  PROVE  WalkOf(c)'
<1> DEFINE t == [at |-> "page", chat |-> chat, page |-> 1, total |-> CountEvents(chat)]
<1>1. /\ Goes(r, t) /\ view' = view /\ view[c] = NoList
      /\ \A q \in Readers : reading[q] = Resting
      /\ walk' = [walk EXCEPT ![chat] = [NoWalk EXCEPT !.start = EnabledOf(chat)]]
  BY DEF AsksList, ListHandler, Unlisted, Counts
<1>2. EnabledOf(c)' = EnabledOf(c)
  <2>1. UNCHANGED events  BY DEF AsksList, tableVars, storeVars
  <2> QED  BY <2>1, SameEnabled
<1>3. walk \in [Chats -> Walk] /\ StoreTypeOK  BY DEF TypeInv, TypeOK
<1>4. t.at = "page" /\ t.chat = chat /\ t.page = 1 /\ t.total = CountEvents(chat)
  OBVIOUS
<1> HIDE DEF t
<1>5. reading'[r] = t /\ \A q \in Readers : q # r => reading'[q] = Resting
  BY <1>1 DEF Goes, TypeInv, TypeOK, ListsTypeOK
<1>6. CASE c # chat
  <2>1. walk'[c] = walk[c]  BY <1>1, <1>3, <1>6
  <2> QED  BY <1>1, <1>2, <1>4, <1>6, <2>1, WalkElsewhere
<1>7. CASE c = chat
  <2>1. walk'[c] = [NoWalk EXCEPT !.start = EnabledOf(c)]  BY <1>1, <1>3, <1>7
  <2>2. walk'[c].start = EnabledOf(c) /\ \A p \in Pages : walk'[c].seen[p] = {}
    BY <2>1 DEF NoWalk
  <2>3. StartKept(c)'  BY <1>2, <2>2 DEF StartKept
  <2>4. ViewUpTo(c)'  BY <1>1 DEF ViewUpTo
  <2>5. FirstPages(c, 0)' = {}
    <3>1. FirstPages(c, 0) = {}  BY <1>3, MorePages
    <3>2. FirstPages(c, 0)' = FirstPages(c, 0)  BY <1>2 DEF FirstPages
    <3> QED  BY <3>1, <3>2
  <2>6. CountEvents(c)' = CountEvents(c)  BY <1>2 DEF CountEvents
  <2>7. PageUpTo(c, r)'
    <3>1. reading'[r].page - 1 = 0  BY <1>4, <1>5
    <3>2. (walk[c].start \cap FirstPages(c, reading[r].page - 1) \subseteq Seen(c))'
      BY <2>5, <3>1
    <3>3. reading'[r].total = CountEvents(c)'  BY <1>4, <1>5, <1>7, <2>6
    <3> QED  BY <3>2, <3>3 DEF PageUpTo
  <2>8. ShownUpTo(c, r)'  BY <1>4, <1>5 DEF ShownUpTo
  <2>9. \A q \in Readers : reading'[q] # Resting => (PageUpTo(c, q) /\ ShownUpTo(c, q))'
    BY <1>5, <2>7, <2>8
  <2> QED  BY <2>2, <2>3, <2>4, <2>9 DEF WalkOf
<1> QED  BY <1>6, <1>7

LEMMA WalksTurns ==
  ASSUME TypeInv, NEW c \in Chats, WalkOf(c),
         NEW r \in Readers, NEW chat \in Chats, Turns(r, chat)
  PROVE  WalkOf(c)'
<1>1. PICK page \in Pages : handlePageCallback(r, chat, page)  BY DEF Turns
<1> DEFINE t == [at |-> "page", chat |-> chat, page |-> page, total |-> CountEvents(chat)]
<1>2. /\ Goes(r, t) /\ view' = view /\ UNCHANGED walk
      /\ \/ page = view[chat].page - 1 /\ page >= 1
         \/ page = view[chat].page + 1 /\ view[chat].next
  BY <1>1 DEF handlePageCallback, Counts, Turns, observers
<1>3. EnabledOf(c)' = EnabledOf(c)
  <2>1. UNCHANGED events  BY DEF Turns, tableVars, storeVars
  <2> QED  BY <2>1, SameEnabled
<1>4. t.at = "page" /\ t.chat = chat /\ t.page = page /\ t.total = CountEvents(chat)
  OBVIOUS
<1> HIDE DEF t
<1>5. reading'[r] = t /\ \A q \in Readers : q # r => reading'[q] = reading[q]
  BY <1>2 DEF Goes, TypeInv, TypeOK, ListsTypeOK
<1>6. CASE c # chat
  BY <1>2, <1>3, <1>4, <1>6, WalkElsewhere
<1>7. CASE c = chat
  <2>1. /\ view[c] # NoList /\ view[c].page \in Nat
        /\ page - 1 \in Nat /\ page - 1 <= view[c].page
    <3>1. view[c].page \in Nat /\ NoList.page = 0 /\ ~NoList.next  BY ListType
    <3>2. page \in Nat /\ page >= 1  BY DEF Pages
    <3> QED  BY <1>2, <1>7, <3>1, <3>2
  <2>2. Listed(c)  BY <2>1 DEF Listed
  <2>3. ASSUME walk[c].intact PROVE (PageUpTo(c, r) /\ ShownUpTo(c, r))'
    <3>1. walk[c].start \cap FirstPages(c, view[c].page) \subseteq Seen(c)
      BY <2>1, <2>3 DEF WalkOf, ViewUpTo
    <3>2. FirstPages(c, page - 1) \subseteq FirstPages(c, view[c].page)
      BY <2>1, MorePages DEF TypeInv, TypeOK
    <3>3. /\ FirstPages(c, page - 1)' = FirstPages(c, page - 1)
          /\ Seen(c)' = Seen(c) /\ CountEvents(c)' = CountEvents(c)
      BY <1>2, <1>3 DEF FirstPages, Seen, CountEvents
    <3>4. walk'[c].start \cap FirstPages(c, page - 1)' \subseteq Seen(c)'
      BY <1>2, <3>1, <3>2, <3>3
    <3>5. reading'[r].page = page /\ reading'[r].at = "page"
          /\ reading'[r].total = CountEvents(c)'
      BY <1>4, <1>5, <1>7, <3>3
    <3> QED  BY <3>4, <3>5 DEF PageUpTo, ShownUpTo
  <2> QED  BY <1>2, <1>3, <1>5, <2>2, <2>3, WalkGoesOn
<1> QED  BY <1>6, <1>7

LEMMA WalksGoesBack ==
  ASSUME TypeInv, NEW c \in Chats, WalkOf(c),
         NEW r \in Readers, NEW chat \in Chats, GoesBack(r, chat)
  PROVE  WalkOf(c)'
<1>1. walk' = [walk EXCEPT ![chat] = Broken] /\ view' = view
  BY DEF GoesBack, HandleBackToList
<1>2. EnabledOf(c)' = EnabledOf(c)
  <2>1. UNCHANGED events  BY DEF GoesBack, tableVars, storeVars
  <2> QED  BY <2>1, SameEnabled
<1>3. walk \in [Chats -> Walk]  BY DEF TypeInv, TypeOK
<1>4. PICK t : Goes(r, t) /\ t.chat = chat
  BY DEF GoesBack, HandleBackToList
<1>5. CASE c = chat
  <2>1. ~walk'[c].intact  BY <1>1, <1>3, <1>5, WalkTypes
  <2> QED  BY <2>1 DEF WalkOf
<1>6. CASE c # chat
  <2>1. walk'[c] = walk[c]  BY <1>1, <1>3, <1>6
  <2> QED  BY <1>1, <1>2, <1>4, <1>6, <2>1, WalkElsewhere
<1> QED  BY <1>5, <1>6

LEMMA WalksGivesUp ==
  ASSUME TypeInv, NEW c \in Chats, WalkOf(c), NEW r \in Readers, GivesUp(r),
         UNCHANGED <<tableVars, digestVars, observers>>
  PROVE  WalkOf(c)'
<1>1. UNCHANGED events /\ UNCHANGED walk  BY DEF tableVars, storeVars, observers
<1>2. EnabledOf(c)' = EnabledOf(c)  BY <1>1, SameEnabled
<1> QED  BY <1>1, <1>2, WalkElsewhere DEF GivesUp

LEMMA WalksReadsPage ==
  ASSUME TypeInv, NEW c \in Chats, WalkOf(c), NEW r \in Readers, ReadsPage(r),
         UNCHANGED <<tableVars, digestVars, observers>>
  PROVE  WalkOf(c)'
<1>1. UNCHANGED events /\ UNCHANGED walk  BY DEF tableVars, storeVars, observers
<1>2. EnabledOf(c)' = EnabledOf(c)  BY <1>1, SameEnabled
<1>3. reading[r].at = "page" /\ reading[r] # Resting /\ view' = view
  BY DEF ReadsPage, Resting
<1>4. PICK chat \in Chats, page \in Nat \ {0} :
        chat = reading[r].chat /\ page = reading[r].page
  BY <1>3, ReadingTypes DEF TypeInv, TypeOK
<1> DEFINE ids == EventsPage(chat, page)
           next == PageOffset(page) + PageSize < reading[r].total
           t == [at |-> "show", chat |-> chat, page |-> page, ids |-> ids, next |-> next]
<1>5. Goes(r, IF ids = <<>> THEN Resting ELSE t)  BY <1>4 DEF ReadsPage
<1>6. /\ ToSet(ids) = OnPage(chat, page)
      /\ ids # <<>> => page \in Pages
  BY PageByPlace DEF TypeInv, TypeOK
<1>7. t.at = "show" /\ t.chat = chat /\ t.page = page /\ t.ids = ids /\ t.next = next
  OBVIOUS
<1> HIDE DEF t, ids, next
<1>8. /\ reading'[r] = (IF ids = <<>> THEN Resting ELSE t)
      /\ \A q \in Readers : q # r => reading'[q] = reading[q]
  BY <1>5 DEF Goes, TypeInv, TypeOK, ListsTypeOK
<1>9. CASE ids = <<>>  BY <1>1, <1>2, <1>3, <1>5, <1>9, WalkElsewhere
<1>10. CASE ids # <<>> /\ c # chat
  BY <1>1, <1>2, <1>3, <1>5, <1>7, <1>10, WalkElsewhere
<1>11. CASE ids # <<>> /\ c = chat
  <2>1. Listed(c) /\ Goes(r, t) /\ reading'[r] = t
    BY <1>3, <1>4, <1>5, <1>8, <1>11 DEF Listed
  <2>2. ASSUME walk[c].intact PROVE (PageUpTo(c, r) /\ ShownUpTo(c, r))'
    <3>1. /\ \A n : FirstPages(c, n)' = FirstPages(c, n)
          /\ \A n : OnPage(c, n)' = OnPage(c, n)
          /\ Seen(c)' = Seen(c)
      BY <1>1, <1>2 DEF FirstPages, OnPage, Seen
    <3>2. /\ walk[c].start \cap FirstPages(c, page - 1) \subseteq Seen(c)
          /\ reading[r].total = CountEvents(c)
      BY <1>3, <1>4, <1>11, <2>2 DEF WalkOf, PageUpTo
    <3>3. ToSet(ids) = FirstPages(c, page) \ FirstPages(c, page - 1)
      BY <1>6, <1>11 DEF OnPage
    <3>4. walk[c].start \cap FirstPages(c, page) \subseteq Seen(c) \cup ToSet(ids)
      BY <3>2, <3>3
    <3>5. ~next => walk[c].start \subseteq Seen(c) \cup ToSet(ids)
      <4> SUFFICES ASSUME ~next PROVE walk[c].start \subseteq Seen(c) \cup ToSet(ids)
        OBVIOUS
      <4>1. page * PageSize = PageOffset(page) + PageSize
        BY ListsAssumption DEF PageOffset
      <4>2. EnabledOf(c) \subseteq FirstPages(c, page)
        BY <3>2, <4>1, LastPage DEF next, TypeInv, TypeOK
      <4>3. walk[c].start \subseteq EnabledOf(c)
        BY <2>1, <2>2 DEF WalkOf, StartKept
      <4> QED  BY <3>4, <4>2, <4>3
    <3>6. /\ reading'[r].page = page /\ reading'[r].ids = ids
          /\ reading'[r].next = next /\ reading'[r].at = "show"
      BY <1>7, <2>1
    <3>7. PageUpTo(c, r)'
      <4>1. walk'[c].start \cap FirstPages(c, page - 1)' \subseteq Seen(c)'
        BY <1>1, <3>1, <3>2
      <4> QED  BY <3>6, <4>1 DEF PageUpTo
    <3>8. ShownUpTo(c, r)'
      <4>1. walk'[c].start \cap FirstPages(c, page)' \subseteq Seen(c)' \cup ToSet(ids)
        BY <1>1, <3>1, <3>4
      <4>2. ~next => walk'[c].start \subseteq Seen(c)' \cup ToSet(ids)
        BY <1>1, <3>1, <3>5
      <4>3. page \in Pages /\ ToSet(ids) \subseteq OnPage(c, page)'
        BY <1>6, <1>11, <3>1
      <4> QED  BY <3>6, <4>1, <4>2, <4>3 DEF ShownUpTo
    <3> QED  BY <3>7, <3>8
  <2> QED  BY <1>1, <1>2, <1>3, <1>8, <2>1, <2>2, WalkGoesOn
<1> QED  BY <1>9, <1>10, <1>11

LEMMA WalksSees ==
  ASSUME TypeInv, NEW c \in Chats, WalkOf(c), NEW r \in Readers, Sees(r)
  PROVE  WalkOf(c)'
<1>1. reading[r].at = "show" /\ reading[r] # Resting
  BY DEF Sees, Shows, Resting
<1>2. PICK chat \in Chats, page \in Nat \ {0} :
        chat = reading[r].chat /\ page = reading[r].page
  BY <1>1, ReadingTypes DEF TypeInv, TypeOK
<1> DEFINE ids == ToSet(reading[r].ids)
           seen == walk[chat].seen[page] \cup ids
           v == [page |-> page, ids |-> reading[r].ids, next |-> reading[r].next]
<1>3. /\ view' = [view EXCEPT ![chat] = v] /\ Goes(r, Resting)
      /\ walk' = [walk EXCEPT ![chat] = Kept(chat, FALSE, [@ EXCEPT !.seen[page] = seen])]
  BY <1>2 DEF Sees, Shows
<1>4. EnabledOf(c)' = EnabledOf(c)
  <2>1. UNCHANGED events  BY DEF Sees, tableVars, storeVars
  <2> QED  BY <2>1, SameEnabled
<1>5. walk \in [Chats -> Walk] /\ view \in [Chats -> [page : Nat, ids : Ids, next : BOOLEAN]]
  BY DEF TypeInv, TypeOK, ListsTypeOK
<1>6. v.page = page /\ v.next = reading[r].next  OBVIOUS
<1> HIDE DEF v, seen
<1>7. reading'[r] = Resting /\ \A q \in Readers : q # r => reading'[q] = reading[q]
  BY <1>3 DEF Goes, TypeInv, TypeOK, ListsTypeOK
<1>8. CASE c # chat
  <2>1. walk'[c] = walk[c] /\ view'[c] = view[c]  BY <1>3, <1>5, <1>8
  <2> QED  BY <1>3, <1>4, <2>1, WalkElsewhere
<1>9. CASE c = chat
  <2> SUFFICES ASSUME walk'[c].intact PROVE WalkOf(c)'
    BY DEF WalkOf
  <2> DEFINE to == [walk[c] EXCEPT !.seen[page] = seen]
  <2>1. walk'[c] = Kept(c, FALSE, to) /\ view'[c] = v
    BY <1>3, <1>5, <1>9
  <2>2. walk[c].intact /\ walk'[c] = to  BY <2>1, WalkTypes DEF Kept
  <2>3. /\ PageUpTo(c, r)
        /\ walk[c].start \cap FirstPages(c, page) \subseteq Seen(c) \cup ids
        /\ ~reading[r].next => walk[c].start \subseteq Seen(c) \cup ids
        /\ page \in Pages
        /\ ~walk[c].grew => ids \subseteq OnPage(c, page)
    BY <1>1, <1>2, <1>9, <2>2 DEF WalkOf, ShownUpTo
  <2>4. walk[c] \in Walk  BY <1>5
  <2>5. /\ walk'[c].start = walk[c].start /\ walk'[c].grew = walk[c].grew
        /\ walk'[c].seen = [walk[c].seen EXCEPT ![page] = seen]
    BY <2>2, <2>4 DEF Walk
  <2> HIDE DEF to
  <2>6. /\ walk'[c].seen[page] = walk[c].seen[page] \cup ids
        /\ \A p \in Pages : p # page => walk'[c].seen[p] = walk[c].seen[p]
    BY <1>9, <2>3, <2>4, <2>5 DEF Walk, seen
  <2> HIDE DEF ids
  <2>7. Seen(c)' = Seen(c) \cup ids
    <3>1. ASSUME NEW e PROVE e \in Seen(c)' <=> e \in Seen(c) \cup ids
      <4>1. e \in Seen(c)' <=> \E p \in Pages : e \in walk'[c].seen[p]
        BY DEF Seen, Pages
      <4>2. e \in Seen(c) <=> \E p \in Pages : e \in walk[c].seen[p]
        BY DEF Seen
      <4> QED  BY <2>3, <2>6, <4>1, <4>2
    <3> QED  BY <3>1
  <2>8. /\ \A n : FirstPages(c, n)' = FirstPages(c, n)
        /\ \A n : OnPage(c, n)' = OnPage(c, n)
        /\ CountEvents(c)' = CountEvents(c)
    BY <1>4 DEF FirstPages, OnPage, CountEvents
  <2>9. StartKept(c)'
    <3>1. Listed(c)  BY <1>1, <1>2, <1>9 DEF Listed
    <3> QED  BY <1>4, <2>2, <2>5, <3>1 DEF WalkOf, StartKept
  <2>10. ViewUpTo(c)'
    <3>1. view'[c].page = page /\ view'[c].next = reading[r].next
      BY <1>6, <2>1
    <3>2. walk'[c].start \cap FirstPages(c, page)' \subseteq Seen(c)'
      BY <2>3, <2>5, <2>7, <2>8
    <3>3. ~reading[r].next => walk'[c].start \subseteq Seen(c)'
      BY <2>3, <2>5, <2>7
    <3> QED  BY <3>1, <3>2, <3>3 DEF ViewUpTo
  <2>11. ASSUME NEW q \in Readers, reading'[q] # Resting
         PROVE  (PageUpTo(c, q) /\ ShownUpTo(c, q))'
    <3>1. reading'[q] = reading[q]  BY <1>7, <2>11
    <3>2. PageUpTo(c, q) /\ ShownUpTo(c, q)  BY <2>2, <2>11, <3>1 DEF WalkOf
    <3>3. PageUpTo(c, q)'  BY <2>5, <2>7, <2>8, <3>1, <3>2 DEF PageUpTo
    <3>4. ShownUpTo(c, q)'  BY <2>5, <2>7, <2>8, <3>1, <3>2 DEF ShownUpTo
    <3> QED  BY <3>3, <3>4
  <2>12. (~walk[c].grew => \A p \in Pages : walk[c].seen[p] \subseteq OnPage(c, p))'
    <3> SUFFICES ASSUME ~walk'[c].grew, NEW p \in Pages
                 PROVE  walk'[c].seen[p] \subseteq OnPage(c, p)'
      BY DEF Pages
    <3>1. walk[c].seen[p] \subseteq OnPage(c, p)  BY <2>2, <2>5 DEF WalkOf
    <3>2. CASE p = page  BY <2>3, <2>5, <2>6, <2>8, <3>1, <3>2
    <3>3. CASE p # page  BY <2>6, <2>8, <3>1, <3>3
    <3> QED  BY <3>2, <3>3
  <2> QED  BY <2>9, <2>10, <2>11, <2>12 DEF WalkOf
<1> QED  BY <1>8, <1>9

LEMMA WalksStep ==
  ASSUME TypeInv, TypeInv', Walks, [Next]_vars
  PROVE  Walks'
<1> SUFFICES ASSUME NEW c \in Chats PROVE WalkOf(c)'  BY DEF Walks
<1>0. WalkOf(c)  BY DEF Walks
<1>1. ASSUME UNCHANGED <<events, listsVars, walk>> PROVE WalkOf(c)'
  BY <1>0, <1>1, SameEnabled, WalkRests
<1>2. ASSUME NEW w \in Workers, Works(w) PROVE WalkOf(c)'
  <2>1. HandlersInv /\ StoreTypeOK  BY DEF TypeInv, TypeOK, HandlersInv
  <2>2. UNCHANGED storeVars  BY <1>2, <2>1, ButtonsInv, ContinuesInv DEF Works
  <2> QED  BY <1>1, <1>2, <2>2 DEF Works, storeVars, observers
<1>3. CASE DigestBegins \/ DigestGoesOn \/ \E chat \in Chats : DigestFails(chat)
  BY <1>1, <1>3
  DEF DigestBegins, DigestGoesOn, DigestFails, tableVars, storeVars, observers
<1>4. CASE UNCHANGED vars
  BY <1>1, <1>4 DEF vars, tableVars, storeVars, observers
<1>5. ASSUME NEW r \in Readers, Lists(r) PROVE WalkOf(c)'
  BY <1>0, <1>5, WalksAsks, WalksTurns, WalksGoesBack, WalksSees, WalksGivesUp,
     WalksReadsPage DEF Lists
<1> QED  BY <1>0, <1>2, <1>3, <1>4, <1>5, WalksAdds, WalksSaves DEF Next

LEMMA WalksInit == Init => Walks
<1> SUFFICES ASSUME Init, NEW c \in Chats PROVE WalkOf(c)  BY DEF Walks
<1>1. /\ view[c] = NoList /\ \A r \in Readers : reading[r] = Resting
      /\ walk[c] = NoWalk
  BY DEF Init, ListsInit
<1>2. ~Listed(c)  BY <1>1 DEF Listed
<1>3. \A p \in Pages : walk[c].seen[p] = {}  BY <1>1, WalkTypes
<1> QED  BY <1>1, <1>2, <1>3 DEF WalkOf, StartKept, ViewUpTo

LEMMA WalksInvariance == Spec => []Walks
BY WalksInit, TypeInvariance, WalksStep, PTL DEF Spec

(***************************************************************************)
(* Who turns the pages to the last one has seen all there was, for every   *)
(* size of a page, and whatever is added, deleted or moved in between, as  *)
(* far as the promise goes.                                                *)
(***************************************************************************)
THEOREM NothingMissed == Spec => []EverythingSeen
<1>1. Walks => EverythingSeen
  BY DEF Walks, WalkOf, ViewUpTo, Seen, EverythingSeen
<1> QED  BY <1>1, WalksInvariance, PTL

(***************************************************************************)
(* Nobody is shown an event on two pages of a list that did not change.    *)
(***************************************************************************)
THEOREM NothingTwice == Spec => []SeenOnce
<1>1. TypeInv /\ Walks => SeenOnce
  <2> SUFFICES ASSUME TypeInv, Walks, NEW c \in Chats, walk[c].intact, ~walk[c].grew,
                      NEW p \in Pages, NEW q \in Pages, p # q
               PROVE  walk[c].seen[p] \cap walk[c].seen[q] = {}
    BY DEF SeenOnce
  <2>1. \A x \in Pages : walk[c].seen[x] \subseteq OnPage(c, x)
    BY DEF Walks, WalkOf
  <2>2. ASSUME NEW x \in Pages, NEW y \in Pages, x < y
        PROVE  OnPage(c, x) \cap OnPage(c, y) = {}
    <3>1. x \in Nat /\ y - 1 \in Nat /\ x <= y - 1  BY <2>2 DEF Pages
    <3>2. FirstPages(c, x) \subseteq FirstPages(c, y - 1)
      BY <3>1, MorePages DEF TypeInv, TypeOK
    <3> QED  BY <3>2 DEF OnPage
  <2>3. p < q \/ q < p  BY DEF Pages
  <2>4. OnPage(c, p) \cap OnPage(c, q) = {}  BY <2>2, <2>3
  <2> QED  BY <2>1, <2>4
<1> QED  BY <1>1, TypeInvariance, WalksInvariance, PTL
=============================================================================
