------------------------------- MODULE Lists -------------------------------
(***************************************************************************)
(* /list and its pages.  A goroutine counts the events of the chat with    *)
(* one statement, reads a page with the next, and then sends or edits the  *)
(* message, which may fail; the page number in a button is all that lasts  *)
(* between two pages.  The number of periodic events in the heading is     *)
(* only displayed, and left out.                                           *)
(***************************************************************************)
EXTENDS Handlers, SequencesExt

CONSTANTS
  Readers,  \* goroutines that handle /list and its buttons
  PageSize  \* 10 in the source

ASSUME ListsAssumption == PageSize \in Nat \ {0}

VARIABLES
  reading,  \* what each of these goroutines is about to do
  view      \* the list each chat looks at, or NoList

listsVars == <<reading, view>>

Resting == [at |-> "rest"]
NoList == [page |-> 0, ids |-> <<>>, next |-> FALSE]

Ids == UNION {[1 .. n -> EventIds] : n \in 0 .. PageSize}
ListsTypeOK ==
  /\ reading \in [Readers -> {Resting}
       \cup [at : {"page"}, chat : Chats, page : Nat \ {0}, total : Nat]
       \cup [at : {"show"}, chat : Chats, page : Nat \ {0}, ids : Ids, next : BOOLEAN]]
  /\ view \in [Chats -> [page : Nat, ids : Ids, next : BOOLEAN]]

ListsInit ==
  /\ reading = [r \in Readers |-> Resting]
  /\ view = [c \in Chats |-> NoList]

-----------------------------------------------------------------------------
(* Queries *)

EnabledOf(chat) ==
  {e \in DOMAIN events : events[e].userTgId = chat /\ events[e].statusId = StatusEnabled}

CountEvents(chat) == Cardinality(EnabledOf(chat))

\* DefaultEventSort: createdAt, which follows the ids, descending.
NewestFirst(ids) ==
  CHOOSE s \in [1 .. Cardinality(ids) -> ids] : \A i, j \in DOMAIN s : i < j => s[i] > s[j]

\* Faulty: consecutive pages share an event.
OffsetShort(page) == (page - 1) * (PageSize - 1)

PageOffset(page) == (page - 1) * PageSize

\* Faulty: the limit is left out.
EventsPageEndless(chat, page) ==
  LET all == NewestFirst(EnabledOf(chat))
  IN  SubSeq(all, PageOffset(page) + 1, Len(all))

\* EventsByFilters with a Pager: LIMIT and OFFSET.
EventsPage(chat, page) ==
  LET all == NewestFirst(EnabledOf(chat))
      upTo == PageOffset(page) + PageSize
  IN  SubSeq(all, PageOffset(page) + 1, IF upTo < Len(all) THEN upTo ELSE Len(all))

-----------------------------------------------------------------------------

Goes(r, t) == reading' = [reading EXCEPT ![r] = t]

\* GetUserEventsPaged begins.
Counts(r, chat, page) ==
  /\ reading[r] = Resting
  /\ Goes(r, [at |-> "page", chat |-> chat, page |-> page, total |-> CountEvents(chat)])
  /\ UNCHANGED view

\* Bound: an instance follows one list message.
Unlisted ==
  /\ \A c \in Chats : view[c] = NoList
  /\ \A q \in Readers : reading[q] = Resting

ListHandler(r, chat) == Unlisted /\ Counts(r, chat, 1)

\* "Back" from the second page on, "next" when the count says there is more.
handlePageCallback(r, chat, page) ==
  /\ \/ page = view[chat].page - 1 /\ page >= 1
     \/ page = view[chat].page + 1 /\ view[chat].next
  /\ Counts(r, chat, page)

\* Faulty: one more event than a page holds is taken to fit.
ReadsPageLoosely(r) ==
  /\ reading[r].at = "page"
  /\ LET chat == reading[r].chat  page == reading[r].page
         ids == EventsPage(chat, page)
     IN  Goes(r, IF ids = <<>> THEN Resting
                 ELSE [at |-> "show", chat |-> chat, page |-> page, ids |-> ids,
                       next |-> PageOffset(page) + PageSize + 1 < reading[r].total])
  /\ UNCHANGED view

\* GetUserEventsPaged ends.  An empty page is not shown.
ReadsPage(r) ==
  /\ reading[r].at = "page"
  /\ LET chat == reading[r].chat  page == reading[r].page
         ids == EventsPage(chat, page)
     IN  Goes(r, IF ids = <<>> THEN Resting
                 ELSE [at |-> "show", chat |-> chat, page |-> page, ids |-> ids,
                       next |-> PageOffset(page) + PageSize < reading[r].total])
  /\ UNCHANGED view

\* From the details of an event back to the list: the first page, now with the
\* earliest events first (sort.Slice leaves equal dates in any order).
HandleBackToList(r, chat) ==
  /\ reading[r] = Resting
  /\ view[chat] # NoList
  /\ LET all == EnabledOf(chat)
         size == IF Cardinality(all) < PageSize THEN Cardinality(all) ELSE PageSize
     IN \E ids \in [1 .. size -> all] :
          /\ IsInjective(ids)
          /\ \A i \in 1 .. size : \A e \in all \ {ids[k] : k \in 1 .. i} :
               events[ids[i]].sendAt <= events[e].sendAt
          /\ Goes(r, [at |-> "show", chat |-> chat, page |-> 1, ids |-> ids,
                      next |-> size < Cardinality(all)])
  /\ UNCHANGED view

Shows(r) ==
  /\ reading[r].at = "show"
  /\ view' = [view EXCEPT ![reading[r].chat] =
                [page |-> reading[r].page, ids |-> reading[r].ids, next |-> reading[r].next]]
  /\ Goes(r, Resting)

\* The statement, or the call to Telegram, fails; the view stays as it was.
GivesUp(r) ==
  /\ reading[r] # Resting
  /\ Goes(r, Resting)
  /\ UNCHANGED view
=============================================================================
