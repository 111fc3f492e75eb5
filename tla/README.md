# A specification of the event reminder bot

The bot stores events that Telegram users create, reminds them of each event
when its time comes, and lets them confirm, snooze, edit and delete events with
buttons and typed messages. It is one Go process with a PostgreSQL table. This
directory holds TLA+ modules that model it, TLC configurations that check them on
small instances, and TLAPS proofs of every safety property that a passing run checks:
about the schedule, the job and its refinement of an abstract lifecycle, the whole
program and its refinement of an abstract service, the dialogs, the lists and the
digest, the delivery of updates and the meaning of buttons.

Paths below are relative to the repository: `bm` is
`pkg/event-reminder-bot/handlers.go`, `bs` is `pkg/botService/handlers.go`, `lib` is
`vendor/github.com/go-telegram/bot`.

## 1. Inventory

| Component | State | Operations | Talks to |
|---|---|---|---|
| events table and repository (`pkg/db`) | rows: owner, text, date, status, weekdays, period | `EventByID`, `EventsToSend`, `CountUserPeriodicEvents`, `AddEvent`, `UpdateEvent` with a column list, `DeleteEvent` (a status update) | everyone; no transaction spans two statements |
| schedule (`pkg/reminder`) | none | `CalculateNextTime`, `calculateNextWeekday` | the job |
| reminder job (`pkg/app/cron.go`, `pkg/reminder`) | `finished`, the rows read by a run | a run each minute: read the due rows, send, store the next time or deactivate | table, Telegram |
| event handlers (`bm`, `bs`) | none of their own: copies of rows | /add, done, snooze, period, weekdays, delete, postpone, edit period, edit weekdays | table, Telegram |
| dialogs (`bs.snoozeStates`, `bm.EditStates`) | for each chat, what the next typed message answers | ask for a time, a date or a description; `textHandler` | handlers |
| lists and menus (`bm`) | none; page numbers in buttons | /list (a count, then a page), pages, details, back to the first page | table, Telegram |
| daily digest (`bm`, `cron.go`) | the users left in a run | once a day: select the users, then read and send the events of each | table, Telegram |
| update delivery (`lib`) | `lastUpdateID`, a channel | polling, dispatch, a goroutine per update | routing |
| routing (`bs` 60–88, `lib/process_update.go`) | none | the first registered handler that matches; what it takes out of a button | handlers |
| lifecycle (`cmd`, `app.go`) | none | start, SIGTERM, close the database | everyone |
| HTTP, metrics, logging, configuration, query builder, other vendored code | — | — | — |

### What is hard here

* The job holds **copies** of rows for as long as it sends messages, and writes
  `sendAt` or the status from those copies. Handlers change the same rows
  meanwhile, each reading a row with one statement and writing some columns with a
  later one. `UpdateEvent` looks neither at the status nor at a version.
* The library starts **a goroutine per update**, so two handlers, even of one
  user, overlap.
* `finished` is a plain variable, checked and set in two steps by the goroutines
  the scheduler starts.
* The message is sent **before** the next time is stored; a crash, or a failing
  update, in between repeats the reminder.
* Everything but the table is lost in a restart: dialogs, the rows of a run.
* After a long stop a periodic event lags by many periods.
* The limit of periodic events is counted and used in separate statements.
* The **offset** of the updates lives in memory and confirms an answer only with the
  next poll: a stop repeats some updates and loses others. The context of the
  library is never cancelled, so that polling and handlers go on after Shutdown has
  closed the database.
* A page number outlives the list it was computed from.
* Buttons are words with two kinds of separators, chosen by the first matching
  prefix of some twenty.
* The digest takes the day in two zones.
* Day numbers: the keyboards count from Monday = 1, Go from Sunday = 0, and
  `calculateNextWeekday` has a third numbering.

`PROJECT.json` lists these hazards, and those not covered yet, at their lines.

### What makes the components correct

* job: one run at a time; no slot of a periodic event skipped; repetitions only
  after a crash or a failed update; an event ended only when it has no next time;
  every due event reminded of, in the end, and every periodic one brought up to date.
* schedule: the chain of next times is exactly the selected slots of the week.
* table under handlers and job: a deleted event stays deleted and falls silent; a
  confirmed date stands; the limit holds; a weekday event has a weekday.
* dialogs: a question takes one answer, while its user waits for one update to be
  handled, and a question that is shown is remembered.
* delivery: no update is lost outside of a stop, none acts twice in one process,
  handlers start in order, and every update comes to its end.
* routing: each button does what it says, to the event it was made for.
* lists and digest: a walk through the pages shows every event, once; no user is left
  out because the events of another cannot be read.

## 2. Modules

```
Schedule   EventStore                     pure functions; the table, the clock, keyboards
     \      /      \
    ReminderJob   Handlers----------.     the cron job; the Telegram handlers
     /       \     /    \           \
Reminders   ReminderBot  Dialogs   Lists  Digest     job alone; job and handlers;
    |                                 \    /         dialogs; lists; digest
    |           |                     Views         what is shown, beside handlers
EventLifecycle  EventService                         abstract specifications (refined)

Schedule -- ScheduleWeek                  the slots of one event, chained for a week

Routing -- Updates                        what a button means; how it gets there
```

`MC*` modules give the instances their rows and inputs. `X_proofs` holds the lemmas and
theorems about module `X`; `ReminderJob_proofs` and `Handlers_proofs` hold the lemmas
that several of the others need.

| Module | Code | State | Actions |
|---|---|---|---|
| `Schedule` | `reminder.go` 71–121 | – | operators with the source's names |
| `ScheduleWeek` | `reminder.go` 52–65 | `slot` and `fired` of one event, its period and weekdays | `Advance` |
| `EventStore` | `pkg/db/events.go`, `events_ext.go`, `options.go`, `model.go` | `events` (rows by id), `now`, `keyboards` | one operator per SQL statement; `Clock` |
| `ReminderJob` | `cron.go`, `reminder.go` | `finished`; for each scheduler goroutine `pc`, `batch` (rows read, to be processed), `current` | `Tick` (check), `Claim` (assignment), `FetchDue`/`FetchFails`, `SendPeriodic`, `AdvanceTime`/`Deactivate`/`AdvanceFails`, `SendOnce`, `FinishJob` |
| `Handlers` | `bm`, `bs` | `task` (what each handler goroutine is about to do), `snoozeStates`, `EditStates` | one action per handler up to its write, then `Save`; `CountPeriodic`; the text handler in its lock sections |
| `EventLifecycle` | what `reminder.go` promises | for each event: in service, slot, next slot, slot last reminded of, uncharged mishaps | `Remind`, `Repeat`, `MoveOn`, `End`, `Mishap` |
| `Reminders` | as `ReminderJob` | observers: slot last attempted, repetitions, failures, restarts | the job's, `Restart`, `Passes` |
| `EventService` | what job and handlers together do for owners | events known, in service, their plans (slot, whether and when next); the plans taken up in a round; the one just told | owners: `Enters`, `Changes`, `Retires`; the service: `TakesUp`, `Reminds`, `MovesOn`, `Ends`, `Stays`, `Forgets` |
| `ReminderBot` | `app.go` `Run` | observers: late reminders, confirmed dates, restarts | all of the above |
| `Dialogs` | `bs` 146–224, 366–415, 624–754; the buttons of `Handlers` | observers: questions asked, messages accepted as answers, who waits | prompts (`Asks`), typed messages (`Reads`, `Answers`), every button of an event (`Presses`), the rest of a handler (`Goes`) |
| `Routing` | `bs` 24–104, 226–623, the keyboards of `bm`, `lib/process_update.go` | – | the data of each button, the registrations in order, the matching, what each handler takes out |
| `Updates` | `lib/bot.go` 66–149, `get_updates.go`, `wait_updates.go`, `process_update.go`, `app.go` 85–120, `main.go` | `sent`, `confirmed` (Telegram); `lastUpdateID`, `fetched`, `updates` (the channel), `running`; `process` | `Polls`, `PollFails`, `Pushes`, `Dispatches`, `HandlerEnds`/`HandlerFails`, `CloseDatabase`, `Exits`, `StartsUp` |
| `Lists` | `bm` 176–309, 873–889, 1081–1194, `bs` 418–448, `options.go` 178–226 | `reading` (what a goroutine is about to do), `view` (the list a chat looks at) | `ListHandler`, `handlePageCallback`, `HandleBackToList`, `ReadsPage`, `Shows`, `GivesUp` |
| `Digest` | `bm` 332–391, `cron.go` 29–34, `events_ext.go` 38–54 | `digest`, `left` (users to serve), `ready`, `told` | `StartsDigest`, `ReadsEvents`, `SkipsUser`, `SendsEvents`, `EndsDigest` |
| `Views` | lists and digest beside the handlers | observers: what a walk has shown, what the digest owes, whose events it could not read | all of these |

Conventions of the models:

* **Time** is counted in ticks; a day is `Day` ticks from a Monday. `sendAt` and
  `now` are ticks. Seconds, which `calculateNextWeekday` cuts off, and changes to
  summer time are abstracted away. The proofs need no relation between `Hour` and
  `Day`.
* **A handler** is split where another goroutine can get in: between its
  statements, and between lock sections. Its first query and what it computes
  from it is one action (`Starts ... WillSave`); what lies between is local. A
  handler that ends at its first query without changing anything is no step;
  one that ends later is `Returns`, which also stands for a failed statement.
* **Operators named "Faulty"** stand before some definitions: each is a version
  of the next definition with a plausible bug in it, kept to see that a property
  notices. Nothing else refers to them.
* **Texts** are two model values, and one longer than the limit; **typed
  messages** are the date they parse to and a text.
* **Keyboards** are never taken away, because the edit or deletion of the message
  that carries one comes last in a handler and may fail. The menus below /list can
  be opened for any event of the chat at any time, and old ones pressed.
* Chats are private ones, where chat and sender have one id.
* A send may fail and the job does not learn of it: the properties speak of
  reminders *attempted*.
* `weekdays` is a set: the code keeps the slice free of duplicates and only shows
  its order.
* **An update** in `Routing` and `Updates` is what its sender meant (an operation, an
  event, a word); the button turns it into words, the handler turns the words
  back, and `UnderstoodAsMeant` compares. `Decimal`, the word `strconv.Itoa` writes a
  number as, is a constant operator (TLC takes `ToString`): of it the model only assumes
  what digits give, that the word is no separator and no "custom", and is "0" for zero
  alone.
* Handlers of `Updates` are one step, which needs the table or does not; their
  insides are in `Handlers`.
* **createdAt** follows the ids: newer events have greater ones.
* The digest runs at one time of the day, which `Views` lets stand still.
* Ticks are a minute apart, so that no tick falls between the check and the
  assignment of another (`TicksApart`), and the store of `finished` is seen by a
  load a minute later.

## 3. Runs

| Run | Instance | Shows |
|---|---|---|
| `MCSchedule` | every hour of a week, 4 periods, 128 selections, 24-hour days | `EverySlotOfTheWeek`: the chain equals the reference slots; `OncePerSelectedDay` |
| `MCScheduleDays` | the same | **violated**: `FiresOnSelectedDays`, see findings |
| `MCReminders` | 2 scheduler goroutines, 2 events of 5 shapes, clock to 2, one restart, one failing update per event, with fairness | `OneRunAtATime`, `DuplicatesBounded`, `NoSkippedSlot`, `DeactivatedOnlyWithoutNext`; `ImplementsLifecycle`; `DueIsReminded`, `CatchesUp` |
| `MCDeletion` | 2 scheduler and 2 handler goroutines, one event of 3 shapes (once, hourly, weekdays without a next time), one restart; done, delete, snooze, postpone, typed dates | `OneLateReminder`, `DeletedForever`; `ImplementsService` |
| `MCEditing` | 2 handlers; delete, typed descriptions, periods and weekdays from both menus | `DeletedForever` |
| `MCLimitRace` | 2 handlers, 2 events; the period button alone | **violated**: `PeriodicLimit` |
| `MCConfirmedDate` | job and one handler | **violated**: `ConfirmedDateStands` |
| `MCWeekdays` | edit menu | **violated**: `WeekdaysChosen` |
| `MCDialogs` | 2 users in turns (`TurnsSpec`), 2 handlers, 2 events, a question about each, 2 messages, periods and weekdays from the keyboards of /add | `OneAnswerEach`, `LimitPassedUncounted` |
| `MCDialogsOverlap` | 1 user, 2 handlers at once | **violated**: `StillWaiting` |
| `MCUpdates` | 3 updates, the first any button or command; answers of 2, a channel of 1, one restart; with fairness | `OncePerProcess`, `NothingForgotten`, `UnderstoodAsMeant`, `StartedInOrder`, `EveryUpdateEnds` |
| `MCViews` | 2 users, 3 events added and deleted, pages of one event, one list message, one digest, zones half a day apart | `EverythingSeen`, `SeenOnce`, `DigestComplete` |

`MCReminders`, `MCDeletion`, `MCDialogs`, `MCUpdates` and `MCViews` also check the type
invariant of their module. The goroutines of a kind are interchangeable, which
`MCDeletion`, `MCEditing` and the dialogs use as a symmetry, and so are the users of `MCViews` and
`MCDialogs`; no
definition chooses among them, but for the mapping of `ImplementsService`, where one
goroutine at most can be chosen.

**Bounds.** `MaxNow`, `MaxSendAt` bound time, `MaxRestarts`, `MaxFailures` and
`MaxPrompts` the events of their name. A stale copy needs one reader and one
writer, so two goroutines of a kind, and one event, show every race of a pair; the
proofs lift the numbers for the properties they cover. Two events are needed for
the limit, for the order in a batch and for dialogs. A clock that moves twice has
an event become due, lag by more than a period, and be caught up. With days of two
hours the week is short, so that `now` lies within every period.
`MCSchedule` uses real days, and its first slots cover every weekday and hour.
In `MCDialogs` a user in turns has one handler at work, so the two handlers are those of two
users; two questions for one chat may be open at once, one about each event, and one
event of a user may become periodic uncounted before the other is counted.
In `MCUpdates` three updates, answers of two and a channel of one let the pushing
goroutine wait for a place while an answer is half pushed, with one update running
and one that Telegram still holds; one restart puts a stop at each of these points,
and the proofs lift the numbers. Every kind of button is tried as the first update
only: routing has no state. In `MCViews` three events are three pages, enough
for an event to move from one page to the next in the middle of a walk; pages of one
event put every event on a border. One list message suffices, because messages share
nothing but the table; there are two users, so that the digest can fail for one of them.
The runs of `ScheduleWeek`, `MCDialogsOverlap` and `MCUpdates` stop where the chain has covered its
week, all questions have been asked and answered, or all updates were handled and no
restart is left: there TLC is told not to look for deadlock. Elsewhere deadlock is
checked.

**Fairness** (`Reminders!Fairness`). Weak fairness on the job as a whole: the
scheduler ticks each minute for ever, and a goroutine that runs is scheduled
again. Strong fairness on `FetchDue`: the query for the due rows may fail, but not
always. `CatchesUp` also leans on `MaxFailures`: an update of a date that failed for ever would
leave its event in the past. Nothing is assumed of the handlers, of the clock or of
restarts. A query or a send that never returns is excluded by the fairness: the job has no timeout, and such a call
would leave `finished` false for ever.

`Updates!Fairness`: weak fairness on polling, pushing, dispatching and each handler
(goroutines that run on), on the end of a shutdown that has begun (`main` returns) and
on the start after a stop (the service manager). Polls may fail any number of times in
between, but a poll that could get an answer does so in the end. Nothing is assumed of
users, and a shutdown or a crash need never come.

### Findings

1. **Weekdays are off** (`MCScheduleDays`, `reminder.go` 103–108). The number
   compared is one below the stored one, except on Sundays. A selection of Monday
   fires on Tuesday, and so on; Saturday alone never fires, and the job deletes the
   event. `EverySlotOfTheWeek` reads the selection as the job does, so that it
   judges the rest of the function.
2. **The limit of periodic events can be passed** (`MCLimitRace`):
   two presses handled at once count before either saves. It can be passed by one press at
   a time as well, since the weekday selections of the /add keyboard (`bm` 690–698,
   766–823) and the edit menu (1365–1444, 1535–1597) make an event periodic without
   counting at all. What the count still achieves is `LimitPassedUncounted`, in
   `MCDialogs`: for users who take turns, a counted button never takes anybody past the
   limit, even when other events became periodic uncounted.
3. **A confirmed date can be lost** (`MCConfirmedDate`, `reminder.go` 55–56): the
   job's stale copy overwrites it.
4. **An active event can lose all its weekdays** (`MCWeekdays`, `bm` 1517–1520),
   after which the job deletes it.
5. **A question can be forgotten** (`MCDialogsOverlap`, `bs` 154–161): a prompt
   that arrives between the two locks of `textHandler` is deleted with the entry
   that was read.

Met while modelling, and stated by no property:

* The digest selects users by the day in Moscow and filters events by the day in the
  zone of the database session. Where they differ (`Shift`), events between the two
  midnights are left out, or told on the wrong day; `DigestComplete` is about the
  events on which both agree.
* The way back to the list (`bm` 884) shows the earliest events first, but its button
  to go on leads to a page of the newest first: a walk from there may miss an event or
  show one twice. A deletion during a walk moves an event to a page already seen.
* An event added between the count and the page can make a last page that lacks its
  button to go on.
* A stop in the middle of the digest leaves the remaining users without one.
* The help text names /delete and /snooze, which are not registered: they reach
  `textHandler`, and are taken as an answer when a question is open.

## 4. Proofs

Checked by TLAPS for every value of the constants: any number of rows, chats,
goroutines, restarts and failures, any clock, any size of a page, any lengths of an hour
and a day.

*Assumptions*: `ScheduleAssumption` (hours and days are positive), `StoreAssumption` (ids
are positive), `SerialEnds` (there are finitely many ids: the serial column ends),
`HandlersAssumption` (what users type and press is of the right type, `MaxPeriodic` is a
number), `SavedRowsAssumption`, `PromptsAssumption` and `DigestAssumption` (the bounds are
numbers), `ListsAssumption` (a page holds at least one event), `UpdatesAssumption` (what
users want is among the buttons, commands, texts and pictures there are; answers and the
channel hold at least one update), `RoutingAssumption` (what `Decimal` gives, see section
2; the day numbers and the minutes of the keyboards are numbers).

*The schedule* (`Schedule_proofs`). `WeekInv` adds to `EverySlotOfTheWeek` that the slot
is on the grid of the event (`OnItsGrid`): the same time of the day as the first slot, or
whole hours from it. The proof is arithmetic: `Divided` and `QuotientUnique` are the
division of integers, `StepsOn` says that whole steps keep the remainder, and `OnGrid` that
between an instant and its m-th successor there are the first m only, so that nothing can
be stepped over. `NextWeekday` is the loop of `calculateNextWeekday`: its result is the first hit
among the next seven days, or nil when there is none. `ChainIsTheWeek` follows. `OnceADay` counts:
by `IndexOnce` and `IndexReached` seven days in a row have the seven day numbers of the
job once each, which makes `WeekdayIndex` a bijection from the slots of a week to the
selection, less the number 6 that the job never computes.

*The job* (`Reminders_proofs`). The inductive invariant is `IInv`:
type correctness; `OneRunAtATime`; `Snapshot`, that the copies in a batch are
still the rows of the table (true because there is one run and nobody else writes,
which is why this module leaves the handlers out); `Current`, that what is being
advanced was just sent; and `Debt`. `DuplicatesBounded` alone is not inductive:
after a crash between message and update nothing has been repeated yet, but
the next run will. `Debt` counts that owed repetition, which the crash or the
failed update has already paid for. `NextTimeLater` in `ReminderJob_proofs` gives
that the next time differs from the present one, so that advancing settles the debt.
The theorems are `TypeCorrect`, `RunsDoNotOverlap`, `RepeatsArePaidFor`,
`SlotsAreNotSkipped` and `EndsAreJustified`.

*The lifecycle* (the last part of `Reminders_proofs`). `EventLifecycle` knows no runs,
batches or statements. In the mapping of `Reminders`, the slot of an event is its `sendAt`,
it is in service while enabled, and its mishaps are the restarts and failed updates that no
repetition has been charged to (`Unpaid`). `JobImplementsLifecycle` is proved by step
simulation: `Snapshot` lets a copy stand for its row, so that a message or a write
by a copy is one of the abstract event; `Debt` says that a reminder sent again for its
slot finds a mishap to be charged to; and claiming, reading and finishing a run are
stutters. `AllStored`, that rows stay in the table, is needed beside `IInv`.

*The whole program* (`ReminderBot_proofs`). The invariant is `BotInv`: types;
`JobInv`, what the job keeps whatever happens to the rows (`ReminderJob_proofs`
proves it action by action, and with it that a run has only the rows it read);
`DeletesOnly`, that a handler about to write the status writes "deleted", from
which no copy revives an event (`Handlers_proofs`, used again for the lists); and `Late`,
that after one late reminder no run has the event left to send. From it
`BotTypeCorrect`, `DeletionIsFinal` and `LateAtMostOnce`.

*Confirmed dates* (in `ReminderBot_proofs`). `MCConfirmedDate` shows that
`ConfirmedDateStands` fails. `ConfirmedDatesBetweenRuns` proves it under one hypothesis,
`DateSavedBetweenRuns`: no handler saves a date for an event that a run has read as a
periodic one and not yet advanced. So the stale copy of the finding is the only way to
lose a date; restarts, failed statements and handlers that overtake each other are not.
The hypothesis is about steps, so it enters as `[][DateSavedBetweenRuns]_vars`, and any
behaviour whose handlers save dates while no run holds the event satisfies it. The
invariant is `DatesAgree`: a confirmed date is that of the row, and also that of the copy
a run will advance from.

*The service* (the last part of `ReminderBot_proofs`). `EventService` has no goroutines,
no statements and no copies in handlers: owners change plans at once, and the service
works in rounds from what it took up. In the mapping, the plan of an event is what its row says
(`PlanOf`, with `NextTime` for the slot that follows), what is taken up are the batches
of all runs put together (`PlansHeld`), and what was just told is the event a run is
about to advance. `BotImplementsService` is a step simulation with one case for each
action of the job and the handlers. `JobInv` makes the union of the batches the batch of
one run, `DeletesOnly` makes a save of the status a retirement, and `HeldAreDue` (what a
run holds is due, since a copy does not change and the clock does not go back)
says that nothing is reminded of early. That a run goes by its copies is part of the
abstract specification, because the code does so: `MovesOn` may replace a slot the owner
has changed, which is the finding above, but it never brings an event back and never
touches another event.

*The dialogs* (`Dialogs_proofs`). `DialogsTypeCorrect` holds however handlers overlap.
`OneAnswerInTurn` and `LimitPassedInTurn` have `[]UsersTakeTurns` as a hypothesis, that no
two handlers work for one chat at a time. Without it two messages that both read an entry
before either deletes it can both be taken as the answer, and two presses can both count
before either saves (`MCLimitRace`). The hypothesis says nothing of different users, whose
handlers interleave freely, and every behaviour with a single handler satisfies it; all
buttons of an event may be pressed. `Owned` says that a dialog and a task are about an
event of their chat, and that a copy is its owner's. For the answers, `Budget` says that for
each event the messages accepted, the one that may be accepted next and the questions open
add up to no more than the questions asked: `OneAnswerEach` alone does not see an answer
under way. For the limit, `RoomForOneMore` says that a handler that has counted and not yet
saved still has the room it found, since only handlers of the same user could take it; the
lemma `SaveNumbers`, that a save changes its owner's number only, by one at most, and
upwards only with a period, then gives `OnlyUncounted` for each step. So a counted button
passes the limit only in an overlap, from whatever table it starts and whichever
uncounted periods were stored before.

*Lists and digest* (`Views_proofs`). The invariant is `ViewsInv`: types, `DeletesOnly`, `Owed` and
`Walks`. `Owed` says of each event the digest owes that it still belongs to the digest,
and has been told, is in the message being sent, or is its user's who is still to
be served; `EveryoneIsTold` is the case where nothing is left. `Walks` speaks of pages by `Place`, the number
of newer events: what a chat was shown up to its page covers the `FirstPages` of what it began
with (`ViewUpTo`), and so does a page on its way, before its second statement (`PageUpTo`) and after it
(`ShownUpTo`). A new event only raises places, so that the first pages lose events of the beginning
and never win one that was not shown; this is why additions do not make a walk miss
anything, and deletions do. While nothing is added, each page holds
exactly its places (`OnPage`), and two pages have nothing in common. The lemmas about places
are facts on cardinalities of finite sets, proved once. From it
`ViewsTypeCorrect`, `EveryoneIsTold`, `NothingMissed` and `NothingTwice`, for every size of a page.

*The delivery of updates* (`Updates_proofs`). `NothingForgotten` and `OncePerProcess` are
not inductive, since they say nothing of where the ids in memory stand with respect
to the two offsets. `Consecutive` says it: the channel ends with `lastUpdateID`, the rest
of the answer goes on from `Fresh` (the greater of `lastUpdateID` and what Telegram has
dropped), and what runs came before. `Accounted` extends `NothingForgotten` from the
dropped ids to all up to `Fresh`, and `NotYet` has what is still to be handled act in
earlier processes only. The theorems are `UpdatesTypeCorrect`, `ActsOncePerProcess`,
`NoUpdateForgotten` and `HandlersStartInOrder`; they hold whatever fails, fairness is
not used.

*What a button means* (the second half of `Updates_proofs`). `EveryButtonUnderstood` is
`UnderstoodAsMeant` for any set of numbers. `PrefixWords` says when a sequence is a prefix of
another, `MatchWords` that the first and the third word of a button's data leave one registered
prefix that can match (`Fits`), so that the order of the registrations does not matter
among buttons; for messages it does, and `FirstMatch` takes the first. `SplitOnce` and
`SplitTwice` give the parts of data with one or two separators, from `NthOfThree` and
`NthOfFour`, which count the separators before a place. One lemma for each kind of button
then computes what its handler takes out, and `EverythingMeant` collects them. The separators
are the point of `RoutingAssumption`: an id that could be written with one would be
split. The inductive step (`UnderstoodStep`) is small beside that: what runs was taken from the
channel and was sent, by `Consecutive`. The string of an underscore has a name of its own
(`Bar`) because the SMT translation mistakes it for a symbol.

*Only model-checked*: the liveness properties `DueIsReminded`, `CatchesUp` and
`EveryUpdateEnds`, which are out of reach of the prover. Of the properties that violation
runs refute, `ConfirmedDateStands` is proved under the condition that its run breaks, and of
`PeriodicLimit` the part that the counting is there for, `LimitPassedUncounted`.

## 5. Not modelled

* The length of a text in bytes, ids wider than a column, and the wording of
  messages: below the level of the models.
* Group chats, in which chat and sender differ.
* A shutdown in its order beside the job: `Updates` has the order, and beside the job
  a shutdown is a failing statement followed by a restart.
* Menus that change nothing and read one row (details, edit menus, keyboards):
  `Handlers` has their buttons be there, `Routing` their words.
* The scheduler library, beyond a goroutine for each minute; the query builder and the
  connection, taken by what their statements mean. `RunInTransaction`, `RunInLock`,
  `DeleteHandler` and `CleanupPastEvents` have no caller.
* A button on a message so old that Telegram no longer gives its content: the
  handlers that use the message then end the process, which is a crash in `Updates`.
* HTTP, metrics, logging, configuration.

## 6. What could follow

All modules of section 2 have their runs, and every safety property of a passing run its
proof. Left for whoever goes on:

1. Liveness with the handlers present: a due event that nobody touches is reminded of
   whatever happens to the others. `Reminders` has it for the job alone.
2. A digest that is interrupted by a stop, once the code records who was served.
3. `EventService` with owners who are told what they confirmed, once the update in
   `processEvent` looks at the row again: `DateSavedBetweenRuns` would then no longer be
   needed.
