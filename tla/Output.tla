-------------------------------- MODULE Output --------------------------------
(***************************************************************************)
(* What a command prints, from its pipes to the store: every line that     *)
(* logStream logs is an entry of the output of its service, and so is the  *)
(* error that ends a scan, if the level heron logs at lets them pass;      *)
(* meanwhile the supervisor logs events.                                   *)
(***************************************************************************)
EXTENDS Runner, Store, FiniteSets

CONSTANTS
  Logs,          \* the output of the service the command belongs to
  Events,        \* its events
  EventTexts,
  Levels,        \* the levels heron may log at
  MaxEvents      \* bound: of events

\* The text of an entry: a line by its stream and number, an error by its stream and 0.
Warning == 0
Printed == UNION {{<<s, n>> : n \in 0..Lines[s]} : s \in Streams}

ASSUME OutputAssumption ==
  /\ {Logs, Events} \subseteq Targets /\ Logs # Events
  /\ Printed \cup EventTexts \subseteq Texts
  /\ Levels \subseteq Int /\ MaxEvents \in Nat

VARIABLES level      \* of observe.Handler

outputVars == <<vars, storeVars, level>>

OutputInit == RunnerInit /\ StoreInit /\ level \in Levels

\* slog's, of the lines of a stream and of the errors of its reader.
Info == 0
Warn == 4
Severity(s) == IF s = "stdout" THEN Info ELSE Warn

\* Handler.Enabled
Enabled(severity) == severity >= level

Record(severity, text) == IF Enabled(severity) THEN Log(Logs, text) ELSE UNCHANGED storeVars

ScanLine(s) ==
  /\ Scan(s)
  /\ IF got' = got THEN UNCHANGED storeVars ELSE Record(Severity(s), <<s, got'[s]>>)

WarnLine(s) == Warns(s) /\ Record(Warn, <<s, Warning>>)

\* The supervisor logs "launching service", say.
LogEvent ==
  /\ Len(logged[Events]) < MaxEvents
  /\ \E text \in EventTexts : Log(Events, text)

OutputNext ==
  \/ UNCHANGED level /\ (\/ QuietStep /\ UNCHANGED storeVars
                         \/ \E s \in Streams : ScanLine(s) \/ WarnLine(s))
  \/ LogEvent /\ UNCHANGED <<vars, level>>

OutputSpec == OutputInit /\ [][OutputNext]_outputVars /\ RunnerFairness

-----------------------------------------------------------------------------
(* Properties *)

ServiceLog == logged[Logs]

\* What is logged of a stream.
From(s)  == {i \in DOMAIN ServiceLog : ServiceLog[i].text[1] = s}
LogOf(s) == {ServiceLog[i].text[2] : i \in From(s)}

\* Of each stream every line that was scanned is logged, and after them the error that
\* ended the scan, if there was one and the level lets them pass; nothing else is, and
\* nothing twice or out of order, however the streams mix.
LinesLogged ==
  \A s \in Streams :
    /\ LogOf(s) = (IF Enabled(Severity(s)) THEN 1..got[s] ELSE {})
                    \cup (IF reader[s] = "warned" /\ Enabled(Warn) THEN {Warning} ELSE {})
    /\ \A i, j \in From(s) : i < j =>
         /\ ServiceLog[i].text[2] # Warning
         /\ ServiceLog[j].text[2] = Warning \/ ServiceLog[i].text[2] < ServiceLog[j].text[2]

OutputInv == RunnerInv /\ StoreInv /\ LinesLogged

\* Nothing that a command has written is lost in silence: when Done is closed, each line
\* is in the log, or the log says that reading the stream failed (runner.go:125-127), at
\* a level that shows either.
LossReported ==
  runner = "done" =>
    \A s \in Streams :
      Enabled(Severity(s)) => 1..sent[s] \subseteq LogOf(s) \/ Warning \in LogOf(s)

\* All that will be logged of a command, its readers' errors too, is logged before Done is
\* closed (the deferred wg.Done, runner.go:119).
LoggedBeforeDone == [][runner = "done" => UNCHANGED <<got, ServiceLog>>]_outputVars

=============================================================================
