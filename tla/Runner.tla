------------------------------- MODULE Runner --------------------------------
(***************************************************************************)
(* One command run by internal/process/runner.go: the shell (leader of its *)
(* process group), a descendant, the two goroutines that log its output    *)
(* and the one that waits for it.                                          *)
(*                                                                         *)
(* os/exec, the pipes and the processes are modelled from how Runner uses  *)
(* them: c.Wait closes our ends of the pipes once the leader has exited.   *)
(***************************************************************************)
EXTENDS Integers

CONSTANTS
  Streams,             \* stdout and stderr
  Lines,               \* bound: lines written to each
  PipeSize,            \* lines a pipe holds
  LongLines            \* those too long to scan, if they are: pairs of stream and number

ASSUME RunnerAssumption ==
  /\ Lines \in [Streams -> Nat] /\ PipeSize \in Nat \ {0}
  /\ LongLines \subseteq Streams \X Nat

VARIABLES
  runner,              \* the goroutine of Start; "new" before, "error" if it failed
  leader, child,       \* the processes
  status, result,      \* how the leader ended; Process.result.Err
  ctxDone,             \* the context of the command
  reader, pipeOpen,    \* logStream of each stream; our ends of the pipes
  sent, read, got,     \* lines written, read from the pipe, and logged
  long,                \* those of LongLines that are
  returned             \* what Run returned

processVars == <<leader, child, status>>
streamVars  == <<reader, sent, read, got, long>>
vars        == <<runner, processVars, result, ctxDone, pipeOpen, streamVars, returned>>

None == "none"

\* status: nil error, failure, or death by SIGKILL; the first also is the zero Result.
Statuses == {"ok", "failed", "killed"}

RunnerTypeOK ==
  /\ runner \in {"new", "error", "wait", "readers", "publish", "done"}
  /\ leader \in {"none", "running", "exited"}
  /\ child \in {"none", "running", "escaped", "exited"}
  /\ status \in Statuses \cup {None} /\ result \in Statuses
  /\ ctxDone \in BOOLEAN /\ pipeOpen \in BOOLEAN
  /\ reader \in [Streams -> {"none", "scanning", "failed", "done", "warned"}]
  /\ {sent, read, got} \subseteq [Streams -> Nat]
  /\ \A s \in Streams : /\ got[s] <= read[s] /\ sent[s] <= Lines[s]
                         /\ sent[s] - read[s] \in 0..PipeSize
  /\ long \subseteq LongLines
  /\ returned \in Statuses \cup {None, "error"}

RunnerInit ==
  /\ runner = "new" /\ leader = "none" /\ child = "none"
  /\ status = None /\ result = "ok" /\ ctxDone = FALSE /\ pipeOpen = FALSE
  /\ reader = [s \in Streams |-> "none"]
  /\ sent = [s \in Streams |-> 0] /\ read = [s \in Streams |-> 0]
  /\ got = [s \in Streams |-> 0] /\ long \in SUBSET LongLines
  /\ returned = None

-----------------------------------------------------------------------------
(* Runner.Start and Runner.Run *)

Start ==
  /\ runner = "new"
  /\ \/ /\ ~ctxDone /\ runner' = "wait"
        /\ leader' = "running" /\ pipeOpen' = TRUE
        /\ reader' = [s \in Streams |-> "scanning"]
     \/ runner' = "error" /\ UNCHANGED <<leader, pipeOpen, reader>>
  /\ UNCHANGED <<child, status, result, ctxDone, sent, read, got, long, returned>>

\* Mutant: Wait is called when the readers are done, as os/exec wants it.
WaitAfterReaders ==
  /\ runner = "wait" /\ leader = "exited"
  /\ \A s \in Streams : reader[s] \in {"done", "warned"}
  /\ runner' = "readers" /\ pipeOpen' = FALSE
  /\ UNCHANGED <<processVars, result, ctxDone, streamVars, returned>>

\* c.Wait returns.
WaitReturns ==
  /\ runner = "wait" /\ leader = "exited"
  /\ runner' = "readers" /\ pipeOpen' = FALSE
  /\ UNCHANGED <<processVars, result, ctxDone, streamVars, returned>>

\* Mutant: nothing waits for the readers.
ReadersForgotten == pipeOpen = FALSE

ReadersDone == \A s \in Streams : reader[s] \in {"done", "warned"}

\* wg.Wait returns, and the result is set.
SetResult ==
  /\ runner = "readers" /\ ReadersDone /\ runner' = "publish"
  /\ result' = status
  /\ UNCHANGED <<processVars, ctxDone, pipeOpen, streamVars, returned>>

\* close(d)
CloseDone ==
  /\ runner = "publish" /\ runner' = "done"
  /\ UNCHANGED <<processVars, result, ctxDone, pipeOpen, streamVars, returned>>

RunReturns ==
  /\ returned = None
  /\ \/ runner = "done" /\ returned' = result
     \/ runner = "error" /\ returned' = "error"
  /\ UNCHANGED <<runner, processVars, result, ctxDone, pipeOpen, streamVars>>

-----------------------------------------------------------------------------
(* Signals to the process group *)

KillGroup ==
  /\ leader' = "exited" /\ status' = "killed"
  /\ child' = IF child = "running" THEN "exited" ELSE child

CancelContext ==
  /\ ~ctxDone /\ ctxDone' = TRUE
  /\ UNCHANGED <<runner, processVars, result, pipeOpen, streamVars, returned>>

\* c.Cancel, while c.Wait waits; or Process.Kill.
Kill ==
  /\ runner = "wait" /\ leader = "running"
  /\ KillGroup
  /\ UNCHANGED <<runner, result, ctxDone, pipeOpen, streamVars, returned>>

-----------------------------------------------------------------------------
(* The command *)

LeaderExits(st) ==
  /\ leader = "running" /\ leader' = "exited" /\ status' = st
  /\ UNCHANGED <<runner, child, result, ctxDone, pipeOpen, streamVars, returned>>

\* A descendant starts; as a daemon it leaves the group, and keeps the pipes.
Fork ==
  /\ leader = "running" /\ child = "none"
  /\ child' \in {"running", "escaped"}
  /\ UNCHANGED <<runner, leader, status, result, ctxDone, pipeOpen, streamVars, returned>>

ChildExits ==
  /\ child \in {"running", "escaped"} /\ child' = "exited"
  /\ UNCHANGED <<runner, leader, status, result, ctxDone, pipeOpen, streamVars, returned>>

Writing == leader = "running" \/ child \in {"running", "escaped"}

\* Writing to a full pipe blocks, and to a broken one fails.
Write(s) ==
  /\ Writing /\ pipeOpen
  /\ sent[s] < Lines[s] /\ sent[s] - read[s] < PipeSize
  /\ sent' = [sent EXCEPT ![s] = @ + 1]
  /\ UNCHANGED <<runner, processVars, result, ctxDone, pipeOpen, reader, read, got, long,
                 returned>>

-----------------------------------------------------------------------------
(* logStream *)

Scanned(s) == got' = [got EXCEPT ![s] = @ + 1]

\* The scanner's buffer is filled with what the pipe holds.
Read(s) ==
  /\ reader[s] = "scanning" /\ pipeOpen /\ got[s] = read[s] /\ read[s] < sent[s]
  /\ read' = [read EXCEPT ![s] = sent[s]]
  /\ UNCHANGED <<runner, processVars, result, ctxDone, pipeOpen, reader, sent, got, long,
                 returned>>

\* The next line is logged; one of more than 1 MiB ends the scan, with an error.
Scan(s) ==
  /\ reader[s] = "scanning" /\ got[s] < read[s]
  /\ IF <<s, got[s] + 1>> \in long
       THEN reader' = [reader EXCEPT ![s] = "failed"] /\ UNCHANGED got
       ELSE Scanned(s) /\ UNCHANGED reader
  /\ UNCHANGED <<runner, processVars, result, ctxDone, pipeOpen, sent, read, long, returned>>

\* Mutant: that our end was closed counts as the end of the file.
ClosedIsEnd(s) ==
  /\ reader[s] = "scanning" /\ got[s] = read[s]
  /\ ~pipeOpen \/ (read[s] = sent[s] /\ ~Writing)
  /\ reader' = [reader EXCEPT ![s] = "done"]
  /\ UNCHANGED <<runner, processVars, result, ctxDone, pipeOpen, sent, read, got, long,
                 returned>>

\* End of file; or our end was closed, which is an error (os.ErrClosed).
ScanEnds(s) ==
  /\ reader[s] = "scanning" /\ got[s] = read[s]
  /\ ~pipeOpen \/ (read[s] = sent[s] /\ ~Writing)
  /\ reader' = [reader EXCEPT ![s] = IF pipeOpen THEN "done" ELSE "failed"]
  /\ UNCHANGED <<runner, processVars, result, ctxDone, pipeOpen, sent, read, got, long,
                 returned>>

\* The error is logged, before the deferred wg.Done.
Warns(s) ==
  /\ reader[s] = "failed" /\ reader' = [reader EXCEPT ![s] = "warned"]
  /\ UNCHANGED <<runner, processVars, result, ctxDone, pipeOpen, sent, read, got, long,
                 returned>>

-----------------------------------------------------------------------------
RunnerStep == WaitReturns \/ SetResult \/ CloseDone \/ RunReturns

\* All that logs nothing.
QuietStep ==
  \/ Start \/ RunnerStep \/ CancelContext \/ Kill \/ Fork \/ ChildExits
  \/ LeaderExits("ok") \/ LeaderExits("failed")
  \/ \E s \in Streams : Write(s) \/ Read(s) \/ ScanEnds(s)

\* Goroutines are scheduled and a canceled context kills; no command has to end.
RunnerFairness ==
  /\ WF_vars(Start) /\ WF_vars(RunnerStep) /\ WF_vars(ctxDone /\ Kill)
  /\ \A s \in Streams : WF_vars(Read(s)) /\ WF_vars(Scan(s) \/ ScanEnds(s) \/ Warns(s))

-----------------------------------------------------------------------------
(* Properties *)

\* Run returns how the command ended, never the zero Result of one that has yet to
\* be set ("Result returns the process result after Done has closed", runner.go:29).
RunReportsExit == returned \in Statuses => returned = status

\* A killed command leaves no descendant in its group (process_unix.go:19-20).
KilledEntirely == status = "killed" => child # "running"

\* The types, the bounds of the pipes, the result of Run, and what a kill leaves.
RunnerInv == RunnerTypeOK /\ RunReportsExit /\ KilledEntirely

\* Done is closed after every exit, though a daemon still holds the pipes: what the
\* supervisor's stop and watch wait for does come.
DoneFollowsExit == leader = "exited" ~> runner = "done"

\* README.md:573: "Child process stdout and stderr are forwarded through Heron":
\* what the command had written when it was waited for, but for lines that no
\* scanner takes, has been logged when Done is closed.
OutputForwarded ==
  runner = "done" /\ long = {} => \A s \in Streams : got[s] = sent[s]

\* README.md:573, for a running command: whatever it writes is logged sooner or
\* later, unless it ends.
KeepsForwarding ==
  \A s \in Streams : sent[s] = Lines[s] ~> (got[s] = Lines[s] \/ leader = "exited")

=============================================================================
