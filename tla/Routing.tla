------------------------------ MODULE Routing ------------------------------
(***************************************************************************)
(* Which handler an update reaches, and what that handler takes it to      *)
(* mean.  The data of a button and the text of a message are sequences of  *)
(* words and separators: where the code formats a number or a name into    *)
(* them, and splits them again, these operators do the same word by word.  *)
(* Every registered prefix ends at the end of a word, so that a prefix of  *)
(* the string is a prefix of the sequence.                                 *)
(***************************************************************************)
EXTENDS Integers, FiniteSets, Sequences, SequencesExt

CONSTANTS
  Numbers,    \* the numbers that occur in buttons: ids, pages, minutes, days
  Decimal(_)  \* strconv.Itoa: the word a number is written as

\* Digits are no separators and no words, and only zero is written as 0.
ASSUME RoutingAssumption ==
  /\ Numbers \subseteq Nat /\ (1 .. 7) \cup {10} \subseteq Numbers
  /\ \A n \in Numbers : /\ Decimal(n) \in STRING
                        /\ Decimal(n) \notin {"_", ":", "custom"}
                        /\ Decimal(n) = "0" => n = 0

\* What a user wants, or a handler understands: an operation, the event it is
\* about, and a word more.  None stands for "not said".
None == "none said"
Does(op, event, arg) == [op |-> op, event |-> event, arg |-> arg]
Ignored == Does("ignored", None, None)

-----------------------------------------------------------------------------
(* The data behind the buttons *)

EventDetailPrefix     == <<"event", "_", "detail", "_">>
eventEditPrefix       == <<"event", "_", "edit", "_">>
eventDeletePrefix     == <<"event", "_", "delete", "_">>
eventBackToList       == <<"back", "_", "to", "_", "list">>
editDatePrefix        == <<"edit", "_", "date", "_">>
editDescPrefix        == <<"edit", "_", "desc", "_">>
editPeriodicityPrefix == <<"edit", "_", "periodicity", "_">>
postponeHour          == <<"postpone", "_", "hour", "_">>
postponeDay           == <<"postpone", "_", "day", "_">>
postponeWeek          == <<"postpone", "_", "week", "_">>
postponeCustom        == <<"postpone", "_", "custom", "_">>

\* The data of the button that stands for an operation.
CallbackData(does) ==
  LET id == does.event
  IN CASE does.op = "snooze"       -> <<"snooze", "_", id, "_", does.arg>>
       [] does.op = "snoozeCustom" -> <<"snooze", "_", "custom", "_", id>>
       [] does.op = "done"         -> <<"done", "_", id>>
       [] does.op = "period"       -> <<"period", ":", does.arg, ":", id>>
       [] does.op = "weekday"      -> <<"weekday", ":", does.arg, ":", id>>
       [] does.op = "weekdaysDone" -> <<"weekdays", "_", "done", ":", id>>
       [] does.op = "page"         -> <<"page", "_", does.arg>>
       [] does.op = "backToList"   -> eventBackToList
       [] does.op = "detail"       -> Append(EventDetailPrefix, id)
       [] does.op = "edit"         -> Append(eventEditPrefix, id)
       [] does.op = "delete"       -> Append(eventDeletePrefix, id)
       [] does.op = "editDate"     -> Append(editDatePrefix, id)
       [] does.op = "description"  -> Append(editDescPrefix, id)
       [] does.op = "editPeriodicity" -> Append(editPeriodicityPrefix, id)
       [] does.op = "postpone"     -> <<"postpone", "_", does.arg, "_", id>>
       [] does.op = "customDate"   -> Append(postponeCustom, id)
       [] does.op = "editPeriod"   -> <<"edit", "_", "period", ":", does.arg, ":", id>>
       [] does.op = "editWeekday"  -> <<"edit", "_", "weekday", ":", does.arg, ":", id>>
       [] does.op = "editWeekdaysDone" -> <<"edit", "_", "weekdays", "_", "done", ":", id>>

\* Every button the bot puts under a message about the events with these ids.
WeekDays == {Decimal(d) : d \in 1 .. 7}
Periods == {"hour", "day", "week", "weekdays", "none"}
Buttons(ids, pages) ==
  {Does(op, Decimal(e), None) :
     op \in {"snoozeCustom", "done", "weekdaysDone", "detail", "edit", "delete",
             "editDate", "description", "editPeriodicity", "customDate",
             "editWeekdaysDone"}, e \in ids}
  \cup {Does("snooze", Decimal(e), m) : e \in ids, m \in {Decimal(5), Decimal(10)}}
  \cup {Does(op, Decimal(e), p) : op \in {"period", "editPeriod"}, e \in ids, p \in Periods}
  \cup {Does(op, Decimal(e), d) : op \in {"weekday", "editWeekday"}, e \in ids, d \in WeekDays}
  \cup {Does("postpone", Decimal(e), p) : e \in ids, p \in {"hour", "day", "week"}}
  \cup {Does("page", None, Decimal(n)) : n \in pages}
  \cup {Does("backToList", None, None)}

-----------------------------------------------------------------------------
(* Updates *)

Pressed(does) == [kind |-> "callback", data |-> CallbackData(does)]
Message(text) == [kind |-> "message", data |-> text]

-----------------------------------------------------------------------------
(* RegisterHandlers, and the choice the library makes *)

Route(kind, pattern, match, handler) ==
  [kind |-> kind, pattern |-> pattern, match |-> match, handler |-> handler]
Callback(pattern, handler) == Route("callback", pattern, "prefix", handler)

Handlers ==
  << Route("message", <<"/start">>, "exact", "StartHandler"),
     Route("message", <<"/help">>, "exact", "HelpHandler"),
     Route("message", <<"/add">>, "prefix", "AddHandler"),
     Route("message", <<"/list">>, "exact", "ListHandler"),
     Callback(<<"done", "_">>, "handleDoneCallback"),
     Callback(<<"snooze", "_">>, "handleSnoozeCallback"),
     Callback(<<"period", ":">>, "handlePeriodicityCallback"),
     Callback(<<"weekday", ":">>, "handleWeekdayCallback"),
     Callback(<<"weekdays", "_", "done", ":">>, "handleWeekdaysDoneCallback"),
     Callback(<<"page", "_">>, "handlePageCallback"),
     Callback(EventDetailPrefix, "HandleEventDetail"),
     Callback(eventEditPrefix, "HandleEventEdit"),
     Callback(eventDeletePrefix, "HandleEventDelete"),
     Route("callback", eventBackToList, "exact", "HandleBackToList"),
     Callback(editDatePrefix, "HandleEditDate"),
     Callback(editDescPrefix, "HandleEditDescription"),
     Callback(editPeriodicityPrefix, "HandleEditPeriodicity"),
     Callback(postponeHour, "HandlePostpone"),
     Callback(postponeDay, "HandlePostpone"),
     Callback(postponeWeek, "HandlePostpone"),
     Callback(postponeCustom, "HandlePostponeCustom"),
     Callback(<<"edit", "_", "period", ":">>, "HandleEditPeriodicityCallback"),
     Callback(<<"edit", "_", "weekday", ":">>, "HandleEditWeekday"),
     Callback(<<"edit", "_", "weekdays", "_", "done", ":">>, "HandleEditWeekdaysDone"),
     Route("message", <<>>, "text", "textHandler") >>

Matches(route, update) ==
  /\ route.kind = update.kind
  /\ CASE route.match = "exact"  -> update.data = route.pattern
       [] route.match = "prefix" -> IsPrefix(route.pattern, update.data)
       [] route.match = "text"   -> update.data # <<>>

findHandler(update) ==
  LET hits == {i \in DOMAIN Handlers : Matches(Handlers[i], update)}
  IN  IF hits = {} THEN "default"
      ELSE Handlers[CHOOSE i \in hits : \A k \in hits : i <= k].handler

-----------------------------------------------------------------------------
(* What the handlers take out of the data *)

\* The element of S that k - 1 others precede.
Nth(S, k) == CHOOSE x \in S : Cardinality({y \in S : y < x}) = k - 1

\* strings.Split: the words between the separators, each a sequence here.
Split(data, sep) ==
  LET cuts == {0, Len(data) + 1} \cup {i \in DOMAIN data : data[i] = sep}
  IN  [k \in 1 .. Cardinality(cuts) - 1 |->
         SubSeq(data, Nth(cuts, k) + 1, Nth(cuts, k + 1) - 1)]

\* strings.TrimPrefix.
TrimPrefix(data, prefix) ==
  IF IsPrefix(prefix, data) THEN SubSeq(data, Len(prefix) + 1, Len(data)) ELSE data

\* strconv.Atoi succeeds.
IsNumber(part) == \E n \in Numbers : part = <<Decimal(n)>>

\* The event named by the rest of the data.
About(op, part, arg) == IF IsNumber(part) THEN Does(op, part[1], arg) ELSE Ignored
After(op, data, prefix) == About(op, TrimPrefix(data, prefix), None)

\* "<what>:<word>:<id>" and "<what>:<id>".
WordThenId(op, data) ==
  LET parts == Split(data, ":")
  IN  IF Len(parts) < 3 THEN Ignored ELSE About(op, parts[3], parts[2][1])
OnlyId(op, data) ==
  LET parts == Split(data, ":")
  IN  IF Len(parts) < 2 THEN Ignored ELSE About(op, parts[2], None)

doneData(data) ==
  LET parts == Split(data, "_")
  IN  IF Len(parts) # 2 THEN Ignored ELSE About("done", parts[2], None)

\* Faulty: the id is expected before the word "custom".
SnoozeSwapped(data) ==
  LET parts == Split(data, "_")
  IN  CASE Len(parts) # 3           -> Ignored
        [] parts[3] = <<"custom">>  -> About("snoozeCustom", parts[2], None)
        [] OTHER -> IF IsNumber(parts[3]) THEN About("snooze", parts[2], parts[3][1])
                                          ELSE Ignored

snoozeData(data) ==
  LET parts == Split(data, "_")
  IN  CASE Len(parts) # 3           -> Ignored
        [] parts[2] = <<"custom">>  -> About("snoozeCustom", parts[3], None)
        [] OTHER -> IF IsNumber(parts[3]) THEN About("snooze", parts[2], parts[3][1])
                                          ELSE Ignored

pageData(data) ==
  LET parts == Split(data, "_")
  IN  IF Len(parts) # 2 \/ ~IsNumber(parts[2]) \/ parts[2] = <<"0">>
      THEN Ignored ELSE Does("page", None, parts[2][1])

postponeData(data) ==
  CASE IsPrefix(postponeHour, data) -> About("postpone", TrimPrefix(data, postponeHour), "hour")
    [] IsPrefix(postponeDay, data)  -> About("postpone", TrimPrefix(data, postponeDay), "day")
    [] IsPrefix(postponeWeek, data) -> About("postpone", TrimPrefix(data, postponeWeek), "week")
    [] OTHER -> Ignored

\* What the goroutine of an update sets out to do.
Understood(update) ==
  LET h == findHandler(update)  data == update.data
  IN CASE h = "handleDoneCallback"         -> doneData(data)
       [] h = "handleSnoozeCallback"       -> snoozeData(data)
       [] h = "handlePeriodicityCallback"  -> WordThenId("period", data)
       [] h = "handleWeekdayCallback"      -> WordThenId("weekday", data)
       [] h = "handleWeekdaysDoneCallback" -> OnlyId("weekdaysDone", data)
       [] h = "handlePageCallback"         -> pageData(data)
       [] h = "HandleEventDetail"          -> After("detail", data, EventDetailPrefix)
       [] h = "HandleEventEdit"            -> After("edit", data, eventEditPrefix)
       [] h = "HandleEventDelete"          -> After("delete", data, eventDeletePrefix)
       [] h = "HandleBackToList"           -> Does("backToList", None, None)
       [] h = "HandleEditDate"             -> After("editDate", data, editDatePrefix)
       [] h = "HandleEditDescription"      -> After("description", data, editDescPrefix)
       [] h = "HandleEditPeriodicity"      -> After("editPeriodicity", data, editPeriodicityPrefix)
       [] h = "HandlePostpone"             -> postponeData(data)
       [] h = "HandlePostponeCustom"       -> After("customDate", data, postponeCustom)
       [] h = "HandleEditPeriodicityCallback" -> WordThenId("editPeriod", data)
       [] h = "HandleEditWeekday"          -> WordThenId("editWeekday", data)
       [] h = "HandleEditWeekdaysDone"     -> OnlyId("editWeekdaysDone", data)
       [] h = "AddHandler"                 -> Does("add", None, None)
       [] h = "ListHandler"                -> Does("list", None, None)
       [] h = "StartHandler"               -> Does("start", None, None)
       [] h = "HelpHandler"                -> Does("help", None, None)
       [] h = "textHandler"                -> Does("text", None, None)
       [] h = "default"                    -> Ignored
=============================================================================
