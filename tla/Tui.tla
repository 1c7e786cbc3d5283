--------------------------------- MODULE Tui ----------------------------------
(***************************************************************************)
(* internal/tui: the event loop of Run with its model, the goroutine that  *)
(* collects snapshots, the one that reads the terminal, and those that     *)
(* carry out the operator's actions.                                       *)
(*                                                                         *)
(* A byte is a string, a key is a sequence of bytes.  The operator's    *)
(* input is chosen at the start; how it is cut into reads is not.  What    *)
(* has been read is told by where it ends in the input.  What only changes *)
(* the layout (help, maximized panes, the process tree) is left out, and   *)
(* so is what the snapshots say of a service.                              *)
(***************************************************************************)
EXTENDS LogView

CONSTANTS
  Services,       \* sequence of the services, as in snapshots
  Code,           \* of each byte, its number
  Inputs,         \* what the operator may type
  Written,        \* bound: what is logged meanwhile, a sequence of targets and texts
  Limit,          \* of bytes in an escape sequence that does not end
  FilterRoom,     \* of bytes in a filter
  KeyRoom         \* of the channel keys

NoService == ""

ASSUME TuiAssumption ==
  /\ {KeyRoom, FilterRoom} \subseteq Nat \ {0} /\ Limit \in Nat \ 0..1
  /\ Services \in Seq(STRING) /\ NoService \notin Range(Services)
  /\ (Range(Services) \cup {NoService}) \X {"logs", "events"} \subseteq Targets
  /\ Code \in [DOMAIN Code -> 0..255] /\ Inputs \subseteq Seq(DOMAIN Code)
  /\ DOMAIN Code \subseteq STRING /\ Written \in Seq(Targets \X Texts)

VARIABLES
  ctx,                          \* the context of Run is canceled
  loop,                         \* Run: at its select, its keys, render, or on its way out
  worker, updates,              \* the collecting goroutine; a snapshot in the channel
  typed,                        \* the operator's bytes
  reader, taken, keys,          \* the reading goroutine; where its last read and those in
                                \* the channel end
  received, framed,             \* where the field input of model ends, and where it begins
  m,                            \* model
  known,                        \* m.apps: the first snapshot has come
  actions, results,             \* goroutines of actions; the channel results
  handled                       \* history: the keys, and where each began

workerVars == <<worker, updates>>
readerVars == <<typed, reader, taken, keys>>
inputVars  == <<received, framed>>
modelVars  == <<m, known, actions>>
tuiVars    == <<ctx, loop, workerVars, readerVars, inputVars, modelVars, results, handled>>

None  == <<>>
CtrlC == <<"^C">>

Selected == target[1]

TuiInit ==
  /\ StoreInit /\ ViewInit /\ target = <<NoService, "logs">>
  /\ ctx = FALSE /\ loop = "render"
  /\ worker = "collect" /\ updates = FALSE
  /\ typed \in Inputs
  /\ reader = "poll" /\ taken = 0 /\ keys = <<>> /\ received = 0 /\ framed = 0
  /\ m = [filter |-> NoFilter, search |-> FALSE, focus |-> 0, confirm |-> None, busy |-> FALSE]
  /\ known = FALSE
  /\ actions = {} /\ results = 0
  /\ handled = <<>>

Leaving  == loop \in {"worker", "restore", "returned"}
Canceled == ctx \/ Leaving

-----------------------------------------------------------------------------
(* nextKey *)

\* Mutant: a letter ends a sequence, and nothing else does.
FinalLetter(byte) == Code[byte] \in (65..90) \cup (97..122)

\* 0x40 to 0x7e
Final(byte) == Code[byte] \in 64..126

\* Mutant: an escape at the end of a read is a key.
NextKeyEager(s) ==
  IF s = <<"esc">> THEN [key |-> <<"escape">>, rest |-> <<>>]
  ELSE [key |-> SubSeq(s, 1, 1), rest |-> SubSeq(s, 2, Len(s))]

\* The first key of s and what follows it; None if s may be the start of a longer one.
NextKey(s) ==
  LET Cut(n) == [key |-> SubSeq(s, 1, n), rest |-> SubSeq(s, n + 1, Len(s))]
      ends   == {i \in 3..Len(s) : Final(s[i])}
  IN  IF s = <<>> \/ s = <<"esc">> THEN [key |-> None, rest |-> s]
      ELSE IF s[1] # "esc" THEN Cut(1)
      ELSE IF s[2] \notin {"[", "O"} THEN [Cut(1) EXCEPT !.key = <<"escape">>]
      ELSE IF ends # {} THEN Cut(Min(ends))
      ELSE IF Len(s) > Limit THEN [key |-> <<"escape">>, rest |-> <<>>]
      ELSE [key |-> None, rest |-> s]

-----------------------------------------------------------------------------
(* model.key: each takes m to m', and the pane *)

Passing(filter) == Picked(Services, {i \in DOMAIN Services : Matches(Services[i], filter)})
Visible(filter) == IF known THEN Passing(filter) ELSE <<>>

\* reselect
Reselected(shown) ==
  IF Selected \in Range(shown) THEN Selected
  ELSE IF shown = <<>> THEN NoService
  ELSE Head(shown)

Stay == UNCHANGED <<actions, loop>>

\* The goroutine that calls Supervisor.Action and sends its result.
StartAction(action, id) ==
  /\ actions' = actions \cup {[action |-> action, id |-> id, nr |-> Len(handled)]}
  /\ UNCHANGED loop

\* Mutant: another answer leaves the question standing.
AnswerKept(k) ==
  /\ IF k = <<"y">> /\ m.confirm.action = "kill" /\ ~m.busy
       THEN StartAction("kill", m.confirm.id) /\ m' = [m EXCEPT !.busy = TRUE, !.confirm = None]
       ELSE Stay /\ UNCHANGED m
  /\ UNCHANGED viewVars

\* The answer to a question: it is "y", or no.
Answer(k) ==
  /\ CASE k = <<"y">> /\ m.confirm.action = "quit" ->
            m' = [m EXCEPT !.confirm = None] /\ loop' = "worker" /\ UNCHANGED actions
       [] k = <<"y">> /\ m.confirm.action = "kill" /\ ~m.busy ->
            m' = [m EXCEPT !.confirm = None, !.busy = TRUE] /\ StartAction("kill", m.confirm.id)
       [] OTHER -> m' = [m EXCEPT !.confirm = None] /\ Stay
  /\ UNCHANGED viewVars

\* A key for the filter being typed, of the apps or of the log.
Edited(filter, k) ==
  IF k = <<"escape">> THEN NoFilter
  ELSE IF k = <<"del">> THEN SubSeq(filter, 1, Len(filter) - 1)
  ELSE IF Len(k) = 1 /\ Code[k[1]] \in 32..126 /\ Len(filter) < FilterRoom THEN filter \o k
  ELSE filter

EditFilter(k) ==
  LET ofLog == m.focus = 3
      apps  == IF ofLog THEN m.filter ELSE Edited(m.filter, k)
  IN  /\ m' = [m EXCEPT !.filter = apps, !.search = k \notin {<<"cr">>, <<"escape">>}]
      /\ Look(<<Reselected(Visible(apps)), target[2]>>, IF ofLog THEN Edited(logFilter, k) ELSE logFilter)
      /\ Stay

\* Arrows in the list of services.
Neighbour(delta) ==
  LET shown == Visible(m.filter)
      i     == SelectInSeq(shown, LAMBDA id : id = Selected)
  IN  shown[Max({1, Min({Len(shown), i + delta})})]

Move(delta) ==
  /\ UNCHANGED m /\ Stay
  /\ IF m.focus = 3 THEN Scroll(-delta)
     ELSE IF m.focus = 2 \/ Selected \notin Range(Visible(m.filter)) THEN UNCHANGED viewVars
     ELSE Look(<<Neighbour(delta), target[2]>>, logFilter)

Focus(n) == m' = [m EXCEPT !.focus = n] /\ UNCHANGED viewVars /\ Stay

ShowLog(kind) ==
  m' = [m EXCEPT !.focus = 3] /\ Look(<<Selected, kind>>, logFilter) /\ Stay

Search ==
  /\ m' = [m EXCEPT !.search = TRUE, !.focus = IF @ = 3 THEN 3 ELSE 1]
  /\ UNCHANGED viewVars /\ Stay

Ask(action, id) ==
  /\ m' = [m EXCEPT !.confirm = [action |-> action, id |-> id]]
  /\ UNCHANGED viewVars /\ Stay

Ignore == UNCHANGED <<m, viewVars>> /\ Stay

\* Mutant: an action is started while another runs.
FreeAlways == Selected # NoService

Free == ~m.busy /\ Selected # NoService

Act(action) ==
  IF ~Free THEN Ignore
  ELSE IF action = "kill" THEN Ask("kill", Selected)
  ELSE m' = [m EXCEPT !.busy = TRUE] /\ StartAction(action, Selected) /\ UNCHANGED viewVars

ActionOf == [S |-> "start", x |-> "stop", r |-> "restart", k |-> "kill"]

Command(k) ==
  CASE k = <<"q">>                          -> Ask("quit", NoService)
    [] k = <<"tab">>                        -> Focus((m.focus % 3) + 1)
    [] k = <<"1">>                          -> Focus(1)
    [] k \in {<<"2">>, <<"p">>}             -> Focus(2)
    [] k = <<"3">>                          -> Focus(3)
    [] k = <<"l">>                          -> ShowLog("logs")
    [] k = <<"e">>                          -> ShowLog("events")
    [] k = <<"/">>                          -> Search
    [] k = <<"esc", "[", "A">>              -> Move(-1)
    [] k \in {<<"esc", "[", "B">>, <<"j">>} -> Move(1)
    [] k = <<"esc", "[", "5", "~">>         -> UNCHANGED m /\ Scroll(Page) /\ Stay
    [] k = <<"esc", "[", "6", "~">>         -> UNCHANGED m /\ Scroll(-Page) /\ Stay
    [] k = <<"g">>                          -> UNCHANGED m /\ Look(target, logFilter) /\ Stay
    [] Len(k) = 1 /\ k[1] \in DOMAIN ActionOf -> Act(ActionOf[k[1]])
    [] OTHER                                -> Ignore

Key(k) ==
  IF k = CtrlC THEN loop' = "worker" /\ UNCHANGED <<m, actions, viewVars>>
  ELSE IF m.confirm # None THEN Answer(k)
  ELSE IF m.search THEN EditFilter(k)
  ELSE Command(k)

-----------------------------------------------------------------------------
(* Run *)

\* Mutant: that keys is closed goes unnoticed.
EndedBySignal == ctx

\* <-ctx.Done(), or keys is closed
Ended == ctx \/ (keys = <<>> /\ reader = "done")

Leave ==
  /\ loop = "select" /\ Ended /\ loop' = "worker"
  /\ UNCHANGED <<ctx, workerVars, readerVars, inputVars, modelVars, results, handled, storeVars, viewVars>>

TakeUpdate ==
  /\ loop = "select" /\ updates
  /\ updates' = FALSE /\ known' = TRUE /\ loop' = "render"
  /\ LET shown == Passing(m.filter)
     IN  IF Selected \in Range(shown) THEN UNCHANGED viewVars
         ELSE LookAlong(<<Reselected(shown), target[2]>>)
  /\ UNCHANGED <<ctx, worker, readerVars, inputVars, m, actions, results, handled, storeVars>>

TakeResult ==
  /\ loop = "select" /\ results > 0
  /\ results' = results - 1 /\ m' = [m EXCEPT !.busy = FALSE] /\ loop' = "render"
  /\ UNCHANGED <<ctx, workerVars, readerVars, inputVars, known, actions, handled, storeVars, viewVars>>

TakeKeys ==
  /\ loop = "select" /\ keys # <<>>
  /\ received' = Head(keys) /\ keys' = Tail(keys) /\ loop' = "keys"
  /\ UNCHANGED <<ctx, workerVars, typed, reader, taken, framed, modelVars, results, handled,
                 storeVars, viewVars>>

Redraw ==
  /\ loop = "select" /\ loop' = "render"
  /\ UNCHANGED <<ctx, workerVars, readerVars, inputVars, modelVars, results, handled, storeVars, viewVars>>

Input == SubSeq(typed, framed + 1, received)

HandleKey ==
  /\ loop = "keys"
  /\ LET next == NextKey(Input)
     IN  /\ framed' = received - Len(next.rest)
         /\ IF next.key = None
              THEN loop' = "render" /\ UNCHANGED <<modelVars, handled, viewVars>>
              ELSE /\ Key(next.key) /\ UNCHANGED known
                   /\ handled' = Append(handled, [key |-> next.key, at |-> framed])
  /\ UNCHANGED <<ctx, workerVars, readerVars, received, results, storeVars>>

Render ==
  /\ loop = "render" /\ loop' = "select" /\ Draw
  /\ UNCHANGED <<ctx, workerVars, readerVars, inputVars, modelVars, results, handled, storeVars>>

\* The deferred calls: cancel and wait for the worker, cancel and wait for the reader.
Return ==
  /\ \/ loop = "worker" /\ worker = "done" /\ loop' = "restore"
     \/ loop = "restore" /\ reader = "done" /\ loop' = "returned"
  /\ UNCHANGED <<ctx, workerVars, readerVars, inputVars, modelVars, results, handled, storeVars, viewVars>>

-----------------------------------------------------------------------------
(* The other goroutines, and the surroundings *)

Others == <<ctx, loop, inputVars, modelVars, results, handled, storeVars, viewVars>>

\* It waits for the ticker, or collects, which a canceled context ends; then it sends.
WorkerStep ==
  /\ \/ worker = "collect" /\ worker' = "send" /\ UNCHANGED updates
     \/ worker = "send" /\ ~updates /\ updates' = TRUE /\ worker' = "collect"
     \/ worker # "done" /\ Canceled /\ worker' = "done" /\ UNCHANGED updates
  /\ UNCHANGED <<readerVars, Others>>

\* A read returns some of what has been typed.
ReadChunk ==
  /\ reader = "poll" /\ reader' = "send"
  /\ taken' \in (taken + 1)..Len(typed)
  /\ UNCHANGED <<keys, typed, workerVars, Others>>

SendChunk ==
  /\ reader = "send" /\ Len(keys) < KeyRoom
  /\ keys' = Append(keys, taken) /\ reader' = "poll"
  /\ UNCHANGED <<typed, taken, workerVars, Others>>

ReaderStops ==
  /\ reader \in {"poll", "send"} /\ Canceled
  /\ reader' = "done"
  /\ UNCHANGED <<keys, typed, taken, workerVars, Others>>

\* Bounds: entries come while their pane has the focus, before that it is at the tail;
\* and a signal or a terminal that goes away does so before the first of them.
Unlogged == seq = 0

HangUp ==
  /\ reader = "poll" /\ Unlogged /\ reader' = "done"
  /\ UNCHANGED <<keys, typed, taken, workerVars, Others>>

\* Supervisor.Action returns; there is room for the result.
ActionEnds(a) ==
  /\ a \in actions /\ results = 0
  /\ actions' = actions \ {a} /\ results' = 1
  /\ UNCHANGED <<ctx, loop, workerVars, readerVars, inputVars, m, known, handled, storeVars, viewVars>>

Cancel ==
  /\ ~ctx /\ Unlogged /\ ctx' = TRUE
  /\ UNCHANGED <<loop, workerVars, readerVars, inputVars, modelVars, results, handled, storeVars, viewVars>>

LogEntry ==
  /\ m.focus = 3 /\ ~Canceled /\ reader # "done" /\ seq < Len(Written)
  /\ Log(Written[seq + 1][1], Written[seq + 1][2])
  /\ UNCHANGED <<tuiVars, viewVars>>

ReaderStep == ReadChunk \/ SendChunk \/ ReaderStops

TuiNext ==
  \/ Leave \/ TakeUpdate \/ TakeResult \/ TakeKeys \/ Redraw \/ HandleKey \/ Render \/ Return
  \/ WorkerStep \/ ReaderStep \/ HangUp \/ (\E a \in actions : ActionEnds(a)) \/ Cancel
  \/ LogEntry

allVars == <<tuiVars, storeVars, viewVars>>

\* Go's select takes one of the ready cases at random: none is passed over for ever.
TuiSpec ==
  /\ TuiInit /\ [][TuiNext]_allVars
  /\ SF_allVars(Leave) /\ SF_allVars(TakeKeys)
  /\ WF_allVars(HandleKey) /\ WF_allVars(Render) /\ WF_allVars(Return)
  /\ WF_allVars(WorkerStep) /\ WF_allVars(ReaderStep)

-----------------------------------------------------------------------------
(* Properties *)

TuiTypeOK ==
  /\ StoreInv /\ ViewTypeOK
  /\ loop \in {"select", "keys", "render", "worker", "restore", "returned"}
  /\ worker \in {"collect", "send", "done"} /\ reader \in {"poll", "send", "done"}
  /\ framed \in 0..received /\ received \in 0..taken /\ taken \in 0..Len(typed)
  /\ Len(keys) <= KeyRoom
  /\ m.focus \in 0..3 /\ results \in 0..1

\* One action at a time, whose result always finds room.
OneAction == Cardinality(actions) + results = IF m.busy THEN 1 ELSE 0

\* What is acted on is a service that is shown; one is, unless none passes the filter.
ShownSelected ==
  LET shown == {id \in Range(Services) : known /\ Matches(id, m.filter)}
  IN  IF shown = {} THEN Selected = NoService ELSE Selected \in shown

\* When the terminal is given back, nothing reads from it, and nothing collects.
LeftClean == loop = "returned" => worker = "done" /\ reader = "done"

\* The types, and what the event loop and its goroutines owe each other.
TuiInv == TuiTypeOK /\ OneAction /\ ShownSelected /\ LeftClean

\* Control sequences as terminals send them (ECMA-48): an introducer, then parameter bytes
\* (0x30 to 0x3f) and intermediate bytes (0x20 to 0x2f), and one final byte.
Introducer(b) == b \in {"[", "O"}
Within(b)     == Code[b] \in (48..63) \cup (32..47)
Ending(b)     == Code[b] \in 64..126

\* A byte that has no place in a sequence, or a sequence that does not end within the limit.
Malformed ==
  \E i, j \in DOMAIN typed :
    /\ typed[i] = "esc" /\ i + 2 <= j /\ Introducer(typed[i + 1])
    /\ \A l \in (i + 2)..(j - 1) : Within(typed[l])
    /\ ~Ending(typed[j]) /\ (Within(typed[j]) => j = i + Limit)

\* k is the key that comes after the first n bytes.
FirstKey(k, n) ==
  LET From(i) == typed[n + i]
  IN  \/ From(1) # "esc" /\ k = <<From(1)>>
      \/ From(1) = "esc" /\ n + 2 \in DOMAIN typed /\ ~Introducer(From(2)) /\ k = <<"escape">>
      \/ /\ From(1) = "esc" /\ Introducer(From(2)) /\ k = SubSeq(typed, n + 1, n + Len(k))
         /\ n + Len(k) \in DOMAIN typed /\ Len(k) >= 3 /\ Ending(From(Len(k)))
         /\ \A i \in 3..(Len(k) - 1) : Within(From(i))

Width(k) == IF k = <<"escape">> THEN 1 ELSE Len(k)

\* The keys are those in the bytes typed, one after the other from the first, wherever
\* the reads cut them ("Parse escape sequences across read boundaries", model.go:174), if
\* no sequence is malformed.
KeysFramed ==
  ~Malformed =>
    \A i \in DOMAIN handled :
      /\ FirstKey(handled[i].key, handled[i].at)
      /\ handled[i].at = IF i = 1 THEN 0 ELSE handled[i - 1].at + Width(handled[i - 1].key)

\* An action starts only by its key, a kill only by the y that answers k, and for the
\* service that is selected ("Force kill with confirmation pinned to selected app",
\* README.md:644).
ActionsAsked ==
  [][ \A a \in actions' \ actions :
        LET n == Len(handled')
        IN  /\ a.id = Selected
            /\ IF a.action = "kill"
                 THEN handled'[n - 1].key = <<"k">> /\ handled'[n].key = <<"y">>
                 ELSE a.action = ActionOf[handled'[n].key[1]] ]_allVars

\* While a service is selected, and no key is pressed, a paused frame stays where it is
\* (TestPausedLogsKeepTheirAnchor; README.md:642, "Scroll output / resume tail").
PausedStays ==
  [][Unpressed /\ Rows # <<>> /\ Selected # NoService => PauseKept]_<<storeVars, viewVars>>

\* Heron's own events, which are shown when no service passes the filter, stay as well
\* (README.md:642, "Scroll output / resume tail").
OwnEventsStay ==
  [][Unpressed /\ Rows # <<>> /\ Selected = NoService /\ known => PauseKept]_<<storeVars, viewVars>>

\* The keys in bytes that all come at once: one state of a scanner per byte.
Frames(bytes) ==
  LET Scan(s, b) ==
        IF s.open = <<>> \/ (s.open = <<"esc">> /\ ~Introducer(b))
          THEN LET done == IF s.open = <<>> THEN s.done ELSE Append(s.done, <<"escape">>)
               IN  IF b = "esc" THEN [done |-> done, open |-> <<b>>]
                   ELSE [done |-> Append(done, <<b>>), open |-> <<>>]
        ELSE IF Len(s.open) > 1 /\ Ending(b)
          THEN [done |-> Append(s.done, Append(s.open, b)), open |-> <<>>]
        ELSE [s EXCEPT !.open = Append(@, b)]
  IN  FoldLeft(Scan, [done |-> <<>>, open |-> <<>>], bytes).done

\* Ctrl-C, a terminal that is gone and a signal each end Run, whatever it and its
\* goroutines are doing, even if an action never returns (model.go:433, "Ctrl-C: stop
\* all and quit").
TuiReturns ==
  (ctx \/ reader = "done" \/ CtrlC \in Range(Frames(typed))) ~> loop = "returned"

=============================================================================
