------------------------------- MODULE Views -------------------------------
(***************************************************************************)
(* What users are shown of the table while it changes: the list with its   *)
(* pages, and the daily digest, beside the handlers that add events,       *)
(* delete them and give them a period.  None of the three waits for        *)
(* another.  The clock stands: it is the time of the daily digest, and no  *)
(* run of it reaches the next day.                                         *)
(***************************************************************************)
EXTENDS Lists, Digest

CONSTANT SavedRows  \* the rows that may be in the table at the start

ASSUME SavedRowsAssumption == SavedRows \subseteq Row

VARIABLES  \* observers
  walk,    \* for each chat, what was shown since its list was asked for
  due,     \* for each user, the events of the day that the digest owes
  failed   \* users whose events this run of the digest could not read

observers == <<walk, due, failed>>
tableVars == <<storeVars, handlersVars>>
vars == <<tableVars, listsVars, digestVars, observers>>

Pages == 1 .. Cardinality(EventIds)
Walk == [start : SUBSET EventIds, seen : [Pages -> SUBSET EventIds],
         intact : BOOLEAN, grew : BOOLEAN]
NoWalk == [start |-> {}, seen |-> [p \in Pages |-> {}], intact |-> TRUE, grew |-> FALSE]
Broken == [NoWalk EXCEPT !.intact = FALSE]

\* A walk goes on, unless it has come to nothing before or does so now.
Kept(chat, unless, goesOn) == IF unless \/ ~walk[chat].intact THEN Broken ELSE goesOn

TypeOK ==
  /\ StoreTypeOK /\ HandlersTypeOK /\ ListsTypeOK /\ DigestTypeOK
  /\ walk \in [Chats -> Walk]
  /\ due \in [Chats -> SUBSET EventIds]
  /\ failed \subseteq Chats

Init ==
  /\ \E n \in 0 .. Cardinality(EventIds) :
       events \in [{e \in EventIds : e <= n} -> SavedRows]
  /\ now = 0
  /\ keyboards = [e \in EventIds |-> IF e \in DOMAIN events THEN {"periodicity"} ELSE {}]
  /\ HandlersInit /\ ListsInit /\ DigestInit
  /\ walk = [c \in Chats |-> NoWalk]
  /\ due = [c \in Chats |-> {}]
  /\ failed = {}

-----------------------------------------------------------------------------
(* The table changes *)

\* A page of the chat is between its two statements.
Counted(chat) == \E r \in Readers : reading[r].at = "page" /\ reading[r].chat = chat

Adds(chat, typed) ==
  /\ AddHandler(chat, typed.text, typed.date)
  /\ walk' = [walk EXCEPT ![chat] = Kept(chat, Counted(chat), [@ EXCEPT !.grew = TRUE])]
  /\ UNCHANGED <<listsVars, digestVars, due, failed>>

Saves(w) ==
  /\ Save(w)
  /\ LET e == task[w].event  chat == events[e].userTgId
         deletes == "statusId" \in task[w].cols
         moves == "sendAt" \in task[w].cols
     IN  /\ walk' = [walk EXCEPT ![chat] = Kept(chat, deletes, @)]
         /\ due' = IF deletes \/ moves THEN [due EXCEPT ![chat] = @ \ {e}] ELSE due
  /\ UNCHANGED <<listsVars, digestVars, failed>>

Works(w) ==
  /\ \/ \E chat \in Chats, e \in EventIds : Buttons(w, chat, e)
     \/ Continues(w)
  /\ UNCHANGED <<listsVars, digestVars, observers>>

-----------------------------------------------------------------------------
(* Lists *)

AsksList(r, chat) ==
  /\ ListHandler(r, chat)
  /\ walk' = [walk EXCEPT ![chat] = [NoWalk EXCEPT !.start = EnabledOf(chat)]]
  /\ UNCHANGED <<tableVars, digestVars, due, failed>>

Turns(r, chat) ==
  /\ \E page \in Pages : handlePageCallback(r, chat, page)
  /\ UNCHANGED <<tableVars, digestVars, observers>>

\* The way back shows another order, and is no part of the walk.
GoesBack(r, chat) ==
  /\ HandleBackToList(r, chat)
  /\ walk' = [walk EXCEPT ![chat] = Broken]
  /\ UNCHANGED <<tableVars, digestVars, due, failed>>

Sees(r) ==
  /\ Shows(r)
  /\ LET chat == reading[r].chat  page == reading[r].page
         seen == walk[chat].seen[page] \cup ToSet(reading[r].ids)
     IN  walk' = [walk EXCEPT ![chat] = Kept(chat, FALSE, [@ EXCEPT !.seen[page] = seen])]
  /\ UNCHANGED <<tableVars, digestVars, due, failed>>

Lists(r) ==
  \/ \E chat \in Chats : AsksList(r, chat) \/ Turns(r, chat) \/ GoesBack(r, chat)
  \/ Sees(r)
  \/ (ReadsPage(r) \/ GivesUp(r)) /\ UNCHANGED <<tableVars, digestVars, observers>>

-----------------------------------------------------------------------------
(* The digest *)

DigestBegins ==
  /\ StartsDigest
  /\ due' = [c \in Chats |-> {e \in EnabledOf(c) : TodayInMoscow(e) /\ ShownAsToday(e)}]
  /\ failed' = {}
  /\ UNCHANGED <<tableVars, listsVars, walk>>

DigestGoesOn ==
  /\ SendsEvents \/ EndsDigest \/ \E chat \in Chats : ReadsEvents(chat)
  /\ UNCHANGED <<tableVars, listsVars, observers>>

DigestFails(chat) ==
  /\ SkipsUser(chat)
  /\ failed' = failed \cup {chat}
  /\ UNCHANGED <<tableVars, listsVars, walk, due>>

-----------------------------------------------------------------------------

Next ==
  \/ \E chat \in Chats, typed \in Typed : Adds(chat, typed)
  \/ \E w \in Workers : Saves(w) \/ Works(w)
  \/ \E r \in Readers : Lists(r)
  \/ DigestBegins \/ DigestGoesOn \/ \E chat \in Chats : DigestFails(chat)

Spec == Init /\ [][Next]_vars

-----------------------------------------------------------------------------
(* Properties *)

\* Who turns the pages from /list to the last one has seen every event there was
\* when asking, although new events shift the pages: they come first (createdAt
\* descending, events.go lines 60 to 63).  Deleting, adding between the count and
\* the page, and the other order after "back" are outside of the promise.
EverythingSeen ==
  \A c \in Chats :
    view[c] # NoList /\ ~view[c].next /\ walk[c].intact =>
      walk[c].start \subseteq UNION {walk[c].seen[p] : p \in Pages}

\* Over a table that stays as it is no event is on two pages.
SeenOnce ==
  \A c \in Chats :
    walk[c].intact /\ ~walk[c].grew =>
      \A p, q \in Pages : p # q => walk[c].seen[p] \cap walk[c].seen[q] = {}

\* The digest tells every user of each event of the day that is not deleted or given
\* another date in the meantime; a user whose events cannot be read does not keep it from the
\* others (SendDailyEvents, lines 339 to 344).  An event of the day is one that both
\* zones count to this day: the code promises nothing about the hours between.
DigestComplete ==
  digest = "rest" /\ digests > 0 =>
    \A c \in Chats \ failed : due[c] \subseteq told[c]

-----------------------------------------------------------------------------
(* The inductive invariant *)

\* What is owed is there to be told, and is told, being told, or still to be read.
Owed ==
  /\ \A c \in Chats : \A e \in due[c] : e \in EnabledOf(c) /\ ShownAsToday(e)
  /\ digest = "rest" => left = {}
  /\ digest = "send" => due[ready.chat] \subseteq ready.ids
  /\ \A c \in Chats \ failed :
       \/ c \in left
       \/ digest = "send" /\ ready.chat = c
       \/ due[c] \subseteq told[c]

\* The place of e among ids, newest first, counted from 0.
Newer(ids, e) == {x \in ids : x > e}
Place(ids, e) == Cardinality(Newer(ids, e))

FirstPages(c, n) == {e \in EnabledOf(c) : Place(EnabledOf(c), e) < n * PageSize}
OnPage(c, page) == FirstPages(c, page) \ FirstPages(c, page - 1)

Seen(c) == UNION {walk[c].seen[p] : p \in Pages}

\* There is a list of c to look at, or one is on its way.
Listed(c) ==
  view[c] # NoList \/ \E r \in Readers : reading[r] # Resting /\ reading[r].chat = c

\* While the walk of c is intact, the events it began with are there, and no
\* others if it did not grow.
StartKept(c) ==
  Listed(c) => /\ walk[c].start \subseteq EnabledOf(c)
               /\ ~walk[c].grew => EnabledOf(c) \subseteq walk[c].start

\* All up to the page a chat looks at has been seen, and there is a button to go
\* on if there is more.
ViewUpTo(c) ==
  view[c] # NoList =>
    /\ walk[c].start \cap FirstPages(c, view[c].page) \subseteq Seen(c)
    /\ ~view[c].next => walk[c].start \subseteq Seen(c)

\* The same of a page on its way, which follows one that was seen.
PageUpTo(c, r) ==
  reading[r].chat = c =>
    /\ walk[c].start \cap FirstPages(c, reading[r].page - 1) \subseteq Seen(c)
    /\ reading[r].at = "page" => reading[r].total = CountEvents(c)

ShownUpTo(c, r) ==
  reading[r].chat = c /\ reading[r].at = "show" =>
    LET ids == ToSet(reading[r].ids)
    IN  /\ walk[c].start \cap FirstPages(c, reading[r].page) \subseteq Seen(c) \cup ids
        /\ ~reading[r].next => walk[c].start \subseteq Seen(c) \cup ids
        /\ reading[r].page \in Pages
        /\ ~walk[c].grew => ids \subseteq OnPage(c, reading[r].page)

WalkOf(c) ==
  walk[c].intact =>
    /\ StartKept(c)
    /\ ViewUpTo(c)
    /\ \A r \in Readers : reading[r] # Resting => PageUpTo(c, r) /\ ShownUpTo(c, r)
    /\ ~walk[c].grew => \A p \in Pages : walk[c].seen[p] \subseteq OnPage(c, p)

Walks == \A c \in Chats : WalkOf(c)

ViewsInv == TypeOK /\ DeletesOnly /\ Owed /\ Walks
=============================================================================
