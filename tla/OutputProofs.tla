----------------------------- MODULE OutputProofs -----------------------------
(***************************************************************************)
(* Proofs about Output.tla, for any command, targets, texts and capacity:  *)
(* the lines scanned and the errors of the readers are logged once and in  *)
(* order, and none once Done is closed; a line that is lost is not lost in *)
(* silence; and Run returns how the command ended.                         *)
(***************************************************************************)
EXTENDS Output, StoreProofs

-----------------------------------------------------------------------------
(* The runner *)

\* No stream is read before the command runs.
NewReaders == \A s \in Streams : reader[s] = "none"

\* The goroutine of Start gets no further than the processes and readers let it, and a
\* result is what the leader ended with.
ProgressInv ==
  /\ runner = "new" => /\ leader = "none" /\ child = "none" /\ returned = None
                       /\ NewReaders
  /\ runner = "error" => leader = "none" /\ child = "none" /\ returned \in {None, "error"}
  /\ runner \in {"wait", "readers", "publish"} => returned = None
  /\ runner \in {"readers", "publish", "done"} => leader = "exited"
  /\ runner \in {"publish", "done"} => ReadersDone /\ result = status
  /\ runner = "done" => returned \in {None, result}
  /\ leader = "exited" <=> status # None

RunnerIInv == RunnerInv /\ ProgressInv

LEMMA RunnerBegins ==
  ASSUME RunnerInit
  PROVE  RunnerIInv
<1>1. \A s \in Streams : 0 <= 0 /\ 0 <= Lines[s] /\ 0 - 0 \in 0..PipeSize
  BY RunnerAssumption
<1>2. RunnerTypeOK
  <2>1. /\ {sent, read, got} \subseteq [Streams -> Nat]
        /\ reader \in [Streams -> {"none", "scanning", "failed", "done", "warned"}]
    BY DEF RunnerInit
  <2>2. \A s \in Streams : /\ got[s] <= read[s] /\ sent[s] <= Lines[s]
                           /\ sent[s] - read[s] \in 0..PipeSize
    <3>1. \A s \in Streams : got[s] = 0 /\ read[s] = 0 /\ sent[s] = 0
      BY DEF RunnerInit
    <3> QED
      BY <1>1, <3>1
  <2> QED
    BY <2>1, <2>2 DEF RunnerInit, RunnerTypeOK, Statuses, None
<1> QED
  BY <1>2 DEF RunnerInit, RunnerIInv, RunnerInv, RunReportsExit, KilledEntirely, ProgressInv,
    NewReaders, Statuses, None

\* The processes and the goroutine of Start, which touch no stream.
ProcessStep ==
  \/ RunnerStep \/ CancelContext \/ Kill \/ Fork \/ ChildExits
  \/ LeaderExits("ok") \/ LeaderExits("failed")

LEMMA ProcessKeeps ==
  ASSUME RunnerIInv, ProcessStep
  PROVE  RunnerIInv'
<1>1. UNCHANGED streamVars
  BY DEF ProcessStep, RunnerStep, WaitReturns, SetResult, CloseDone, RunReturns, CancelContext,
    Kill, Fork, ChildExits, LeaderExits
<1>2. /\ reader' = reader /\ sent' = sent /\ read' = read /\ got' = got /\ long' = long
      /\ ReadersDone' = ReadersDone /\ NewReaders' = NewReaders
  BY <1>1 DEF streamVars, ReadersDone, NewReaders
<1>3. RunnerTypeOK' /\ KilledEntirely' /\ ProgressInv'
  <2>1. CASE RunnerStep
    <3>1. CASE WaitReturns
      BY <1>2, <3>1 DEF WaitReturns, processVars, RunnerIInv, RunnerInv, RunnerTypeOK,
        RunReportsExit, KilledEntirely, ProgressInv, Statuses, None
    <3>2. CASE SetResult
      BY <1>2, <3>2 DEF SetResult, processVars, RunnerIInv, RunnerInv, RunnerTypeOK,
        RunReportsExit, KilledEntirely, ProgressInv, Statuses, None
    <3>3. CASE CloseDone
      BY <1>2, <3>3 DEF CloseDone, processVars, RunnerIInv, RunnerInv, RunnerTypeOK,
        RunReportsExit, KilledEntirely, ProgressInv, Statuses, None
    <3>4. CASE RunReturns
      BY <1>2, <3>4 DEF RunReturns, processVars, RunnerIInv, RunnerInv, RunnerTypeOK,
        RunReportsExit, KilledEntirely, ProgressInv, Statuses, None
    <3> QED
      BY <2>1, <3>1, <3>2, <3>3, <3>4 DEF RunnerStep
  <2>2. CASE CancelContext
    BY <1>2, <2>2 DEF CancelContext, processVars, RunnerIInv, RunnerInv, RunnerTypeOK,
      RunReportsExit, KilledEntirely, ProgressInv, Statuses, None
  <2>3. CASE Kill
    BY <1>2, <2>3 DEF Kill, KillGroup, RunnerIInv, RunnerInv, RunnerTypeOK,
      RunReportsExit, KilledEntirely, ProgressInv, Statuses, None
  <2>4. CASE Fork
    BY <1>2, <2>4 DEF Fork, RunnerIInv, RunnerInv, RunnerTypeOK,
      RunReportsExit, KilledEntirely, ProgressInv, Statuses, None
  <2>5. CASE ChildExits
    BY <1>2, <2>5 DEF ChildExits, RunnerIInv, RunnerInv, RunnerTypeOK,
      RunReportsExit, KilledEntirely, ProgressInv, Statuses, None
  <2>6. CASE LeaderExits("ok") \/ LeaderExits("failed")
    BY <1>2, <2>6 DEF LeaderExits, RunnerIInv, RunnerInv, RunnerTypeOK,
      RunReportsExit, KilledEntirely, ProgressInv, Statuses, None
  <2> QED
    BY <2>1, <2>2, <2>3, <2>4, <2>5, <2>6 DEF ProcessStep
<1>4. RunReportsExit'
  BY <1>3 DEF RunReportsExit, ProgressInv, RunnerTypeOK, Statuses, None
<1> QED
  BY <1>3, <1>4 DEF RunnerIInv, RunnerInv

\* The streams, which touch no process.
LEMMA StreamKeeps ==
  ASSUME RunnerIInv,
         Start \/ \E s \in Streams : Write(s) \/ Read(s) \/ Scan(s) \/ ScanEnds(s) \/ Warns(s)
  PROVE  RunnerIInv'
<1>1. CASE Start
  BY <1>1 DEF Start, ReadersDone, RunnerIInv, RunnerInv, RunnerTypeOK, RunReportsExit,
    KilledEntirely, ProgressInv, Statuses, None
<1>2. ASSUME NEW s \in Streams, Write(s) \/ Read(s) \/ Scan(s) \/ ScanEnds(s) \/ Warns(s)
      PROVE  RunnerIInv'
  <2>1. /\ UNCHANGED <<runner, processVars, result, ctxDone, pipeOpen, long, returned>>
        /\ \A t \in Streams : reader[t] \in {"done", "warned"} => reader'[t] = reader[t]
    BY <1>2 DEF Write, Read, Scan, ScanEnds, Warns, RunnerIInv, RunnerInv, RunnerTypeOK
  <2>2. ReadersDone => ReadersDone'
    BY <2>1 DEF ReadersDone
  <2>3. RunnerTypeOK'
    <3>1. /\ sent \in [Streams -> Nat] /\ read \in [Streams -> Nat] /\ got \in [Streams -> Nat]
          /\ reader \in [Streams -> {"none", "scanning", "failed", "done", "warned"}]
          /\ \A t \in Streams : /\ got[t] <= read[t] /\ sent[t] <= Lines[t]
                                /\ sent[t] - read[t] \in 0..PipeSize /\ Lines[t] \in Nat
          /\ PipeSize \in Nat
      BY RunnerAssumption DEF RunnerIInv, RunnerInv, RunnerTypeOK
    <3>2. /\ reader' \in [Streams -> {"none", "scanning", "failed", "done", "warned"}]
          /\ sent' \in [Streams -> Nat] /\ read' \in [Streams -> Nat] /\ got' \in [Streams -> Nat]
          /\ \A t \in Streams : /\ got'[t] <= read'[t] /\ sent'[t] <= Lines[t]
                                /\ sent'[t] - read'[t] \in 0..PipeSize
      <4>1. CASE Write(s)
        BY <3>1, <4>1 DEF Write
      <4>2. CASE Read(s)
        BY <3>1, <4>2 DEF Read
      <4>3. CASE Scan(s)
        BY <3>1, <4>3 DEF Scan, Scanned
      <4>4. CASE ScanEnds(s)
        BY <3>1, <4>4 DEF ScanEnds
      <4>5. CASE Warns(s)
        BY <3>1, <4>5 DEF Warns
      <4> QED
        BY <1>2, <4>1, <4>2, <4>3, <4>4, <4>5
    <3> QED
      BY <2>1, <3>2 DEF processVars, RunnerIInv, RunnerInv, RunnerTypeOK
  <2>4. runner # "new"
    <3>1. CASE Write(s)
      BY <3>1 DEF Write, Writing, RunnerIInv, ProgressInv
    <3>2. CASE Read(s) \/ Scan(s) \/ ScanEnds(s) \/ Warns(s)
      BY <3>2 DEF Read, Scan, ScanEnds, Warns, RunnerIInv, ProgressInv, NewReaders
    <3> QED
      BY <1>2, <3>1, <3>2
  <2> QED
    BY <2>1, <2>2, <2>3, <2>4 DEF processVars, RunnerIInv, RunnerInv, RunReportsExit,
      KilledEntirely, ProgressInv
<1> QED
  BY <1>1, <1>2

\* A scan that ended without an error has taken all that was ever written.
EndInv ==
  \A s \in Streams : reader[s] = "done" => got[s] = sent[s] /\ ~Writing

LEMMA EndsKept ==
  ASSUME RunnerIInv, EndInv,
         QuietStep \/ \E s \in Streams : Scan(s) \/ Warns(s)
  PROVE  EndInv'
<1>0. /\ sent \in [Streams -> Nat] /\ read \in [Streams -> Nat] /\ got \in [Streams -> Nat]
      /\ reader \in [Streams -> {"none", "scanning", "failed", "done", "warned"}]
  BY DEF RunnerIInv, RunnerInv, RunnerTypeOK
<1>1. CASE Start
  <2>1. CASE reader' = [s \in Streams |-> "scanning"]
    BY <2>1 DEF EndInv
  <2>2. CASE UNCHANGED <<leader, pipeOpen, reader>>
    BY <1>1, <2>2 DEF Start, EndInv, Writing
  <2> QED
    BY <1>1, <2>1, <2>2 DEF Start
<1>2. CASE ProcessStep
  <2>1. reader' = reader /\ sent' = sent /\ got' = got
    BY <1>2 DEF ProcessStep, RunnerStep, WaitReturns, SetResult, CloseDone, RunReturns,
      CancelContext, Kill, Fork, ChildExits, LeaderExits, streamVars
  <2>2. ~Writing => ~Writing'
    <3>1. CASE RunnerStep \/ CancelContext
      BY <3>1 DEF RunnerStep, WaitReturns, SetResult, CloseDone, RunReturns, CancelContext,
        processVars, Writing
    <3>2. CASE Kill \/ Fork \/ LeaderExits("ok") \/ LeaderExits("failed")
      BY <3>2 DEF Kill, Fork, LeaderExits, Writing
    <3>3. CASE ChildExits
      BY <3>3 DEF ChildExits, Writing
    <3> QED
      BY <1>2, <3>1, <3>2, <3>3 DEF ProcessStep
  <2> QED
    BY <2>1, <2>2 DEF EndInv
<1>3. ASSUME NEW s \in Streams, Write(s) \/ Read(s) \/ Scan(s) \/ ScanEnds(s) \/ Warns(s)
      PROVE  EndInv'
  <2>1. Writing' = Writing
    BY <1>3 DEF Write, Read, Scan, ScanEnds, Warns, processVars, Writing
  <2>2. ASSUME NEW t \in Streams, reader'[t] = "done" PROVE got'[t] = sent'[t] /\ ~Writing
    <3>1. CASE Write(s)
      BY <1>0, <2>2, <3>1 DEF Write, EndInv
    <3>2. CASE Read(s) \/ Scan(s) \/ Warns(s)
      <4>1. reader[t] = "done" /\ sent' = sent
        BY <1>0, <2>2, <3>2 DEF Read, Scan, Warns
      <4>2. got'[t] = got[t]
        BY <1>0, <3>2, <4>1 DEF Read, Scan, Scanned, Warns
      <4> QED
        BY <4>1, <4>2 DEF EndInv
    <3>3. CASE ScanEnds(s)
      BY <1>0, <2>2, <3>3 DEF ScanEnds, EndInv
    <3> QED
      BY <1>3, <3>1, <3>2, <3>3
  <2> QED
    BY <2>1, <2>2 DEF EndInv
<1> QED
  BY <1>1, <1>2, <1>3 DEF QuietStep, ProcessStep

-----------------------------------------------------------------------------
(* Output *)

\* The entry added to the output of the service is one more of its stream, and the last.
LEMMA EntryLogged ==
  ASSUME StoreInv, NEW text \in Texts, Log(Logs, text), NEW s
  PROVE  LET n == Len(ServiceLog)
         IN  /\ n \in Nat /\ DOMAIN ServiceLog = 1..n
             /\ From(s)' = From(s) \cup (IF text[1] = s THEN {n + 1} ELSE {})
             /\ ServiceLog'[n + 1].text = text
             /\ \A i \in 1..n : ServiceLog'[i] = ServiceLog[i]
<1> DEFINE entry == [seq |-> seq + 1, text |-> text]
           n     == Len(ServiceLog)
<1>1. /\ Logs \in Targets /\ ServiceLog \in Seq(Entries) /\ n \in Nat
      /\ DOMAIN ServiceLog = 1..n
  BY OutputAssumption DEF StoreInv, StoreTypeOK, ServiceLog
<1>2. ServiceLog' = Append(ServiceLog, entry) /\ entry.text = text
  BY <1>1, LogEffect DEF ServiceLog
<1> HIDE DEF entry
<1>3. /\ DOMAIN ServiceLog' = 1..n + 1 /\ ServiceLog'[n + 1] = entry
      /\ \A i \in 1..n : ServiceLog'[i] = ServiceLog[i]
  BY <1>1, <1>2
<1>4. \A i : i \in 1..n + 1 <=> i \in 1..n \/ i = n + 1
  BY <1>1
<1> HIDE DEF n
<1>5. From(s)' = From(s) \cup (IF text[1] = s THEN {n + 1} ELSE {})
  BY <1>1, <1>2, <1>3, <1>4 DEF From
<1> QED
  BY <1>1, <1>2, <1>3, <1>5 DEF n

\* So the log of its stream gains the entry, and stays in order if the entry is due.
LEMMA StreamLogged ==
  ASSUME StoreInv, LinesLogged, NEW s \in Streams, NEW n \in Nat, <<s, n>> \in Texts,
         Log(Logs, <<s, n>>),
         \A m \in LogOf(s) : m # Warning /\ (n = Warning \/ m < n)
  PROVE  /\ \A t \in Streams : LogOf(t)' = LogOf(t) \cup (IF t = s THEN {n} ELSE {})
         /\ \A t \in Streams : \A i, j \in From(t)' : i < j =>
              /\ ServiceLog'[i].text[2] # Warning
              /\ \/ ServiceLog'[j].text[2] = Warning
                 \/ ServiceLog'[i].text[2] < ServiceLog'[j].text[2]
<1> DEFINE len == Len(ServiceLog)
<1>1. /\ len \in Nat /\ DOMAIN ServiceLog = 1..len
      /\ ServiceLog'[len + 1].text = <<s, n>>
      /\ \A i \in 1..len : ServiceLog'[i] = ServiceLog[i]
      /\ \A t : From(t)' = From(t) \cup (IF s = t THEN {len + 1} ELSE {})
  BY EntryLogged
<1>2. \A t : \A i \in From(t) : i \in 1..len /\ i < len + 1 /\ i # len + 1
  BY <1>1 DEF From
<1>3. \A i, j : j \in 1..len /\ i = len + 1 => ~(i < j)
  BY <1>1
<1>4. ~(len + 1 < len + 1)
  BY <1>1
<1> HIDE DEF len
<1>5. ASSUME NEW t \in Streams
      PROVE  LogOf(t)' = LogOf(t) \cup (IF t = s THEN {n} ELSE {})
  <2>1. LogOf(t)' = {ServiceLog'[i].text[2] : i \in From(t)'}
    BY DEF LogOf
  <2>2. {ServiceLog'[i].text[2] : i \in From(t)} = LogOf(t)
    BY <1>1, <1>2 DEF LogOf
  <2> QED
    BY <1>1, <2>1, <2>2
<1>6. ASSUME NEW t \in Streams, NEW i \in From(t)', NEW j \in From(t)', i < j
      PROVE  /\ ServiceLog'[i].text[2] # Warning
             /\ \/ ServiceLog'[j].text[2] = Warning
                \/ ServiceLog'[i].text[2] < ServiceLog'[j].text[2]
  <2>1. i \in From(t)
    BY <1>1, <1>2, <1>3, <1>4, <1>6
  <2>2. ServiceLog'[i] = ServiceLog[i]
    BY <1>1, <1>2, <2>1
  <2>3. CASE j \in From(t)
    <3>1. ServiceLog'[j] = ServiceLog[j]
      BY <1>1, <1>2, <2>3
    <3> QED
      BY <1>6, <2>1, <2>2, <2>3, <3>1 DEF LinesLogged
  <2>4. CASE j = len + 1 /\ t = s
    <3>1. ServiceLog[i].text[2] \in LogOf(s)
      BY <2>1, <2>4 DEF LogOf
    <3> QED
      BY <1>1, <2>2, <2>4, <3>1
  <2> QED
    BY <1>1, <2>3, <2>4
<1> QED
  BY <1>5, <1>6

OutputIInv == OutputInv /\ ProgressInv /\ EndInv /\ level \in Levels

LEMMA StoreKeeps ==
  ASSUME StoreInv, NEW t \in Targets, NEW text \in Texts, Log(t, text)
  PROVE  StoreInv'
BY LogTypes, LogNumbers, LogKeepsLatest DEF StoreInv

LEMMA StoreStays ==
  ASSUME StoreInv, UNCHANGED storeVars
  PROVE  StoreInv' /\ ServiceLog' = ServiceLog
BY DEF storeVars, StoreInv, StoreTypeOK, Numbered, LatestKept, ServiceLog

\* Where the log of the service stays, and the readers log nothing, what it says does.
LEMMA LinesStay ==
  ASSUME LinesLogged, ServiceLog' = ServiceLog, level' = level,
         \A s \in Streams : /\ reader'[s] = "warned" /\ Enabled(Warn) <=>
                                 reader[s] = "warned" /\ Enabled(Warn)
                            /\ Enabled(Severity(s)) => got'[s] = got[s]
  PROVE  LinesLogged' /\ \A s : LogOf(s)' = LogOf(s)
<1>1. \A s : From(s)' = From(s) /\ LogOf(s)' = LogOf(s)
  BY DEF From, LogOf
<1>2. \A severity : Enabled(severity)' = Enabled(severity)
  BY DEF Enabled
<1>3. \A s : Enabled(Severity(s))' = Enabled(Severity(s))
  BY DEF Enabled, Severity
<1> QED
  BY <1>1, <1>2, <1>3 DEF LinesLogged

\* A line that is scanned, or an error that ends a scan, is logged if it may be.
LEMMA ScanLogged ==
  ASSUME OutputIInv, NEW s \in Streams, ScanLine(s), UNCHANGED level
  PROVE  StoreInv' /\ LinesLogged'
<1>0. /\ got \in [Streams -> Nat] /\ read \in [Streams -> Nat] /\ sent \in [Streams -> Nat]
      /\ StoreInv /\ LinesLogged
      /\ \A t \in Streams : got[t] <= read[t] /\ read[t] <= sent[t] /\ sent[t] <= Lines[t]
      /\ reader \in [Streams -> {"none", "scanning", "failed", "done", "warned"}]
      /\ reader[s] = "scanning" /\ got[s] < read[s]
  BY DEF OutputIInv, OutputInv, RunnerInv, RunnerTypeOK, ScanLine, Scan
<1>1. CASE got' = got
  <2>1. ServiceLog' = ServiceLog /\ StoreInv'
    BY <1>0, <1>1, StoreStays DEF ScanLine
  <2>2. \A t \in Streams : reader'[t] = "warned" <=> reader[t] = "warned"
    BY <1>0 DEF ScanLine, Scan
  <2> QED
    BY <1>0, <1>1, <2>1, <2>2, LinesStay
<1>2. CASE got' # got
  <2>1. got' = [got EXCEPT ![s] = @ + 1] /\ reader' = reader
    BY <1>2 DEF ScanLine, Scan, Scanned
  <2>2. CASE ~Enabled(Severity(s))
    <3>1. ServiceLog' = ServiceLog /\ StoreInv'
      BY <1>0, <1>2, <2>2, StoreStays DEF ScanLine, Record
    <3>2. \A t \in Streams : Enabled(Severity(t)) => got'[t] = got[t]
      BY <1>0, <2>1, <2>2
    <3> QED
      BY <1>0, <2>1, <3>1, <3>2, LinesStay
  <2>3. CASE Enabled(Severity(s))
    <3> DEFINE n == got[s] + 1
    <3>1. /\ n \in Nat /\ n # Warning /\ n \in 0..Lines[s] /\ got'[s] = n
          /\ 1..n = 1..got[s] \cup {n}
          /\ \A m \in 1..got[s] : m # Warning /\ m < n
      <4>1. /\ got[s] \in Nat /\ read[s] \in Nat /\ sent[s] \in Nat /\ Lines[s] \in Nat
            /\ got[s] < read[s] /\ read[s] <= sent[s] /\ sent[s] <= Lines[s] /\ got'[s] = n
        BY <1>0, <2>1, RunnerAssumption
      <4> QED
        BY <4>1 DEF Warning
    <3>2. Log(Logs, <<s, n>>)
      BY <1>2, <2>3, <3>1 DEF ScanLine, Record
    <3> HIDE DEF n
    <3>3. <<s, n>> \in Texts
      <4>1. <<s, n>> \in Printed
        BY <3>1 DEF Printed
      <4> QED
        BY <4>1, OutputAssumption
    <3>4. LogOf(s) = 1..got[s]
      BY <1>0, <2>3 DEF LinesLogged
    <3>5. /\ \A t \in Streams : LogOf(t)' = LogOf(t) \cup (IF t = s THEN {n} ELSE {})
          /\ \A t \in Streams : \A i, j \in From(t)' : i < j =>
               /\ ServiceLog'[i].text[2] # Warning
               /\ \/ ServiceLog'[j].text[2] = Warning
                  \/ ServiceLog'[i].text[2] < ServiceLog'[j].text[2]
      BY <1>0, <3>1, <3>2, <3>3, <3>4, StreamLogged
    <3>6. \A t \in Streams : LogOf(t)' =
             (IF Enabled(Severity(t)) THEN 1..got'[t] ELSE {})
               \cup (IF reader'[t] = "warned" /\ Enabled(Warn) THEN {Warning} ELSE {})
      <4> TAKE t \in Streams
      <4>1. CASE t = s
        BY <1>0, <2>1, <2>3, <3>1, <3>4, <3>5, <4>1
      <4>2. CASE t # s
        BY <1>0, <2>1, <3>5, <4>2 DEF LinesLogged
      <4> QED
        BY <4>1, <4>2
    <3>7. StoreInv'
      BY <1>0, <3>2, <3>3, StoreKeeps, OutputAssumption
    <3>8. \A severity : Enabled(severity)' = Enabled(severity)
      BY DEF Enabled
    <3>9. \A t : Enabled(Severity(t))' = Enabled(Severity(t))
      BY DEF Enabled, Severity
    <3> QED
      BY <3>5, <3>6, <3>7, <3>8, <3>9 DEF LinesLogged
  <2> QED
    BY <2>2, <2>3
<1> QED
  BY <1>1, <1>2

LEMMA WarnLogged ==
  ASSUME OutputIInv, NEW s \in Streams, WarnLine(s), UNCHANGED level
  PROVE  StoreInv' /\ LinesLogged'
<1>0. /\ got \in [Streams -> Nat] /\ StoreInv /\ LinesLogged
      /\ reader \in [Streams -> {"none", "scanning", "failed", "done", "warned"}]
      /\ reader[s] = "failed" /\ reader' = [reader EXCEPT ![s] = "warned"] /\ got' = got
  BY DEF OutputIInv, OutputInv, RunnerInv, RunnerTypeOK, WarnLine, Warns
<1>1. CASE ~Enabled(Warn)
  <2>1. ServiceLog' = ServiceLog /\ StoreInv'
    BY <1>0, <1>1, StoreStays DEF WarnLine, Record
  <2> QED
    BY <1>0, <1>1, <2>1, LinesStay
<1>2. CASE Enabled(Warn)
  <2>1. Log(Logs, <<s, Warning>>)
    BY <1>2 DEF WarnLine, Record
  <2>2. Warning \in Nat /\ <<s, Warning>> \in Texts
    <3>1. Warning \in 0..Lines[s]
      BY RunnerAssumption DEF Warning
    <3>2. <<s, Warning>> \in Printed
      BY <3>1 DEF Printed
    <3> QED
      BY <3>2, OutputAssumption DEF Warning
  <2>3. LogOf(s) = IF Enabled(Severity(s)) THEN 1..got[s] ELSE {}
    BY <1>0 DEF LinesLogged
  <2>4. \A m \in LogOf(s) : m # Warning
    BY <1>0, <2>3 DEF Warning
  <2>5. /\ \A t \in Streams : LogOf(t)' = LogOf(t) \cup (IF t = s THEN {Warning} ELSE {})
        /\ \A t \in Streams : \A i, j \in From(t)' : i < j =>
             /\ ServiceLog'[i].text[2] # Warning
             /\ \/ ServiceLog'[j].text[2] = Warning
                \/ ServiceLog'[i].text[2] < ServiceLog'[j].text[2]
    BY <1>0, <2>1, <2>2, <2>4, StreamLogged
  <2>6. \A t \in Streams : LogOf(t)' =
           (IF Enabled(Severity(t)) THEN 1..got'[t] ELSE {})
             \cup (IF reader'[t] = "warned" /\ Enabled(Warn) THEN {Warning} ELSE {})
    <3> TAKE t \in Streams
    <3>1. CASE t = s
      BY <1>0, <1>2, <2>3, <2>5, <3>1
    <3>2. CASE t # s
      BY <1>0, <2>5, <3>2 DEF LinesLogged
    <3> QED
      BY <3>1, <3>2
  <2>7. StoreInv'
    BY <1>0, <2>1, <2>2, StoreKeeps, OutputAssumption
  <2>8. \A severity : Enabled(severity)' = Enabled(severity)
    BY DEF Enabled
  <2>9. \A t : Enabled(Severity(t))' = Enabled(Severity(t))
    BY DEF Enabled, Severity
  <2> QED
    BY <2>5, <2>6, <2>7, <2>8, <2>9 DEF LinesLogged
<1> QED
  BY <1>1, <1>2

\* What every reachable state satisfies.
THEOREM OutputInvariantHolds == OutputSpec => []OutputIInv
<1>1. OutputInit => OutputIInv
  <2> SUFFICES ASSUME OutputInit PROVE OutputIInv
    OBVIOUS
  <2>1. /\ RunnerInv /\ ProgressInv /\ got = [s \in Streams |-> 0]
        /\ reader = [s \in Streams |-> "none"] /\ level \in Levels
    BY RunnerBegins DEF OutputInit, RunnerInit, RunnerIInv
  <2>2. StoreInv /\ ServiceLog = <<>>
    BY StoreAssumption, OutputAssumption
      DEF OutputInit, StoreInit, StoreInv, StoreTypeOK, Numbered, LatestKept, ServiceLog
  <2>3. \A s : From(s) = {} /\ LogOf(s) = {}
    BY <2>2 DEF From, LogOf
  <2>4. 1..0 = {}
    OBVIOUS
  <2>5. LinesLogged
    BY <2>1, <2>3, <2>4 DEF LinesLogged
  <2>6. EndInv
    BY <2>1 DEF EndInv
  <2> QED
    BY <2>1, <2>2, <2>5, <2>6 DEF OutputIInv, OutputInv
<1>2. OutputIInv /\ [OutputNext]_outputVars => OutputIInv'
  <2> SUFFICES ASSUME OutputIInv, [OutputNext]_outputVars PROVE OutputIInv'
    OBVIOUS
  <2>1. RunnerIInv /\ StoreInv /\ LinesLogged /\ EndInv /\ level \in Levels
    BY DEF OutputIInv, OutputInv, RunnerIInv
  <2>2. CASE QuietStep /\ UNCHANGED storeVars /\ UNCHANGED level
    <3>1. RunnerIInv' /\ EndInv'
      BY <2>1, <2>2, ProcessKeeps, StreamKeeps, EndsKept DEF QuietStep, ProcessStep
    <3>2. /\ got' = got
          /\ \A s \in Streams : reader'[s] = "warned" <=> reader[s] = "warned"
      <4>1. CASE Start
        BY <2>1, <4>1 DEF Start, RunnerIInv, RunnerInv, RunnerTypeOK, ProgressInv, EndInv,
          NewReaders
      <4>2. CASE ProcessStep \/ \E s \in Streams : Write(s) \/ Read(s) \/ ScanEnds(s)
        BY <2>1, <4>2 DEF ProcessStep, RunnerStep, WaitReturns, SetResult, CloseDone,
          RunReturns, CancelContext, Kill, Fork, ChildExits, LeaderExits, Write, Read,
          ScanEnds, streamVars, RunnerIInv, RunnerInv, RunnerTypeOK
      <4> QED
        BY <2>2, <4>1, <4>2 DEF QuietStep, ProcessStep
    <3>3. StoreInv' /\ ServiceLog' = ServiceLog
      BY <2>1, <2>2, StoreStays
    <3>4. LinesLogged'
      BY <2>1, <2>2, <3>2, <3>3, LinesStay
    <3> QED
      BY <2>1, <2>2, <3>1, <3>3, <3>4 DEF OutputIInv, OutputInv, RunnerIInv
  <2>3. ASSUME NEW s \in Streams, ScanLine(s) \/ WarnLine(s), UNCHANGED level
        PROVE  OutputIInv'
    <3>1. RunnerIInv' /\ EndInv'
      BY <2>1, <2>3, StreamKeeps, EndsKept DEF ScanLine, WarnLine
    <3>2. StoreInv' /\ LinesLogged'
      BY <2>3, ScanLogged, WarnLogged
    <3> QED
      BY <2>1, <2>3, <3>1, <3>2 DEF OutputIInv, OutputInv, RunnerIInv
  <2>4. ASSUME UNCHANGED vars, UNCHANGED level, StoreInv', ServiceLog' = ServiceLog
        PROVE  OutputIInv'
    <3>1. RunnerIInv' /\ EndInv'
      BY <2>1, <2>4 DEF vars, processVars, streamVars, RunnerIInv, RunnerInv, RunnerTypeOK,
        RunReportsExit, KilledEntirely, ProgressInv, ReadersDone, NewReaders, EndInv, Writing
    <3>2. got' = got /\ reader' = reader
      BY <2>4 DEF vars, streamVars
    <3>3. LinesLogged'
      BY <2>1, <2>4, <3>2, LinesStay
    <3> QED
      BY <2>1, <2>4, <3>1, <3>3 DEF OutputIInv, OutputInv, RunnerIInv
  <2>5. CASE LogEvent /\ UNCHANGED <<vars, level>>
    <3>1. PICK text \in EventTexts : Log(Events, text)
      BY <2>5 DEF LogEvent
    <3>2. text \in Texts /\ Events \in Targets /\ Logs \in Targets /\ Logs # Events
      BY OutputAssumption
    <3>3. StoreInv'
      BY <2>1, <3>1, <3>2, StoreKeeps
    <3>4. ServiceLog' = ServiceLog
      BY <2>1, <3>1, <3>2, LogEffect DEF ServiceLog
    <3> QED
      BY <2>4, <2>5, <3>3, <3>4
  <2>6. CASE UNCHANGED outputVars
    BY <2>1, <2>4, <2>6, StoreStays DEF outputVars
  <2> QED
    BY <2>2, <2>3, <2>5, <2>6 DEF OutputNext
<1> QED
  BY <1>1, <1>2, PTL DEF OutputSpec

\* Of each stream what is logged is what its reader scanned and then the error that ended
\* the scan, each once and in order, and Run reports how the command ended (OutputInv).
THEOREM OutputIsLogged == OutputSpec => []OutputInv
<1>1. OutputIInv => OutputInv
  BY DEF OutputIInv
<1> QED
  BY <1>1, OutputInvariantHolds, PTL

\* When Done is closed, every line written is in the log, or the error that lost it is
\* (LossReported).
THEOREM LossIsReported == OutputSpec => []LossReported
<1>1. OutputIInv => LossReported
  <2> SUFFICES ASSUME OutputIInv, runner = "done",
                      NEW s \in Streams, Enabled(Severity(s))
               PROVE  1..sent[s] \subseteq LogOf(s) \/ Warning \in LogOf(s)
    BY DEF LossReported
  <2>1. reader[s] \in {"done", "warned"} /\ level \in Int
    BY OutputAssumption DEF OutputIInv, ProgressInv, ReadersDone
  <2>2. CASE reader[s] = "done"
    BY <2>2 DEF OutputIInv, OutputInv, EndInv, LinesLogged
  <2>3. CASE reader[s] = "warned"
    <3>1. Enabled(Warn)
      BY <2>1 DEF Enabled, Severity, Info, Warn
    <3> QED
      BY <2>3, <3>1 DEF OutputIInv, OutputInv, LinesLogged
  <2> QED
    BY <2>1, <2>2, <2>3
<1> QED
  BY <1>1, OutputInvariantHolds, PTL

\* Nothing is logged of a command that Done was closed of (LoggedBeforeDone).
THEOREM NothingLoggedLate == OutputSpec => LoggedBeforeDone
<1>1. OutputIInv /\ OutputIInv' /\ [OutputNext]_outputVars
        => [runner = "done" => UNCHANGED <<got, ServiceLog>>]_outputVars
  <2> SUFFICES ASSUME OutputIInv, [OutputNext]_outputVars, runner = "done"
               PROVE  UNCHANGED <<got, ServiceLog>>
    OBVIOUS
  <2>0. StoreInv
    BY DEF OutputIInv, OutputInv
  <2>1. \A s \in Streams : reader[s] \notin {"scanning", "failed"}
    BY DEF OutputIInv, ProgressInv, ReadersDone
  <2>2. \A s \in Streams : ~ScanLine(s) /\ ~WarnLine(s)
    BY <2>1 DEF ScanLine, Scan, WarnLine, Warns
  <2>3. QuietStep => UNCHANGED got
    BY DEF QuietStep, Start, RunnerStep, WaitReturns, SetResult, CloseDone, RunReturns,
      CancelContext, Kill, Fork, ChildExits, LeaderExits, Write, Read, ScanEnds, streamVars
  <2>4. CASE LogEvent /\ UNCHANGED <<vars, level>>
    <3>1. PICK text \in EventTexts : Log(Events, text)
      BY <2>4 DEF LogEvent
    <3>2. text \in Texts /\ Events \in Targets /\ Logs \in Targets /\ Logs # Events
      BY OutputAssumption
    <3>3. ServiceLog' = ServiceLog
      BY <2>0, <3>1, <3>2, LogEffect DEF ServiceLog
    <3>4. got' = got
      BY <2>4 DEF vars, streamVars
    <3> QED
      BY <3>3, <3>4
  <2> QED
    BY <2>0, <2>2, <2>3, <2>4, StoreStays DEF OutputNext, outputVars, vars, streamVars
<1> QED
  BY <1>1, OutputInvariantHolds, PTL DEF OutputSpec, LoggedBeforeDone

=============================================================================
