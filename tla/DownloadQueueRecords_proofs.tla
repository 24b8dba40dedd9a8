-------------------- MODULE DownloadQueueRecords_proofs --------------------
(***************************************************************************)
(* Theorems about the records of DownloadQueue: no download has two of     *)
(* them, no background step undoes a cancellation, and, while nothing is   *)
(* resumed or reloaded, no task has two workers and no completed download  *)
(* that has its destination to itself is without its whole file.           *)
(***************************************************************************)
EXTENDS DownloadQueue_proofs

-----------------------------------------------------------------------------
(* What a step does to the list *)

Absent(list, id) == list[id].status = "Absent"

\* Nothing is copied, issued or renamed, and no record appears.
Elsewhere == UNCHANGED <<copies, origin, issued>>

Writes ==
    /\ Elsewhere
    /\ \A id \in TaskIds : Absent(tasks, id) => Absent(tasks', id)

Respects == \A id \in TaskIds : Status(id) = "Cancelled" => tasks'[id].status = "Cancelled"

LEMMA NothingWritten ==
    ASSUME TypeOK, Elsewhere, UNCHANGED tasks
    PROVE  Writes /\ Respects
  BY DEF Writes, Respects, Status

LEMMA UpdateStatusWrites ==
    ASSUME TypeOK, Elsewhere, NEW id \in TaskIds, NEW s \in Statuses, UpdateStatus(id, s)
    PROVE  Writes /\ ((Status(id) # "Cancelled" \/ s = "Cancelled") => Respects)
<1>2. OnlyAt(id) /\ tasks'[id].status \in {s, "Absent"}
  BY UpdateStatusEffect
<1>3. tasks' = WithNewStatus(id, s) /\ tasks[id] \in Task
  BY DEF UpdateStatus, TypeOK
<1>4. Absent(tasks, id) <=> Absent(tasks', id)
  BY <1>3 DEF Absent, WithNewStatus, Present, Status, TypeOK, Task, Statuses, Terminal, InFlight
<1>5. Status(id) = "Cancelled" /\ s = "Cancelled" => tasks'[id].status = "Cancelled"
  BY <1>2, <1>4 DEF Absent, Status
<1> QED BY <1>2, <1>4, <1>5 DEF Writes, Respects, OnlyAt, Absent, Status

\* The shape shared by mark_completed, mark_failed and retry_or_fail.
LEMMA DecisionWrites ==
    ASSUME TypeOK, Elsewhere, NEW id \in TaskIds, OnlyAt(id),
           Status(id) = "Absent" => tasks' = tasks,
           Status(id) = "Cancelled" => tasks'[id].status = "Cancelled"
    PROVE  Writes /\ Respects
  BY DEF Writes, Respects, OnlyAt, Absent, Status

LEMMA MarkCompletedWrites ==
    ASSUME TypeOK, Elsewhere, NEW id \in TaskIds, MarkCompleted(id)
    PROVE  Writes /\ Respects
<1>1. Status(id) = "Absent" => tasks' = tasks
  BY DEF MarkCompleted, Refuses, CompletedList, Present
<1> QED BY <1>1, MarkCompletedEffect, DecisionWrites

LEMMA MarkFailedWrites ==
    ASSUME TypeOK, Elsewhere, NEW id \in TaskIds, NEW u \in BOOLEAN, MarkFailed(id, u)
    PROVE  Writes /\ Respects
<1>1. Status(id) = "Absent" => tasks' = tasks
  BY DEF MarkFailed, Refuses, Present
<1> QED BY <1>1, MarkFailedEffect, DecisionWrites

LEMMA RetryOrFailWrites ==
    ASSUME TypeOK, Elsewhere, NEW id \in TaskIds, RetryOrFail(id)
    PROVE  Writes /\ Respects
<1>1. Status(id) = "Absent" => tasks' = tasks
  BY DEF RetryOrFail, Present
<1> QED BY <1>1, RetryOrFailEffect, DecisionWrites

LEMMA UpdateProgressWrites ==
    ASSUME TypeOK, Elsewhere, NEW w \in Workers, job[w] \in TaskIds, NEW s \in InFlight,
           UpdateProgress(w, s)
    PROVE  Writes /\ Respects
<1>1. /\ OnlyAt(job[w])
      /\ tasks'[job[w]].status \in {s, Status(job[w])}
      /\ Status(job[w]) \in Settled \cup {"Absent"} => tasks' = tasks
  BY UpdateProgressEffect
<1>2. tasks' = tasks \/ tasks'[job[w]].status = s
  BY DEF UpdateProgress, TypeOK, Task
<1> QED BY <1>1, <1>2 DEF Writes, Respects, OnlyAt, Absent, Status, Settled, InFlight

-----------------------------------------------------------------------------
(* The steps of the service loop and the workers *)

LEMMA TickWrites ==
    ASSUME TypeOK, TickSomeDue
    PROVE  Writes /\ Respects
<1>1. PICK due \in SUBSET WithStatus("Scheduled") : Tick(due)
  BY DEF TickSomeDue
<1>2. tasks' = [id \in TaskIds |->
           IF id \in due THEN [tasks[id] EXCEPT !.status = "Pending"] ELSE tasks[id]]
  BY <1>1 DEF Tick
<1>3. Elsewhere
  BY <1>1 DEF Elsewhere, Tick, fileVars, userVars
<1>4. \A id \in due : tasks[id].status = "Scheduled" /\ tasks[id] \in Task
  BY DEF WithStatus, Status, TypeOK
<1> QED BY <1>2, <1>3, <1>4 DEF Writes, Respects, Absent, Status, Task

LEMMA ClaimWrites ==
    ASSUME TypeOK, NEW w \in Workers, Claim(w)
    PROVE  Writes /\ Respects
<1>1. Elsewhere
  BY DEF Claim, Elsewhere, fileVars, userVars
<1>2. CASE UNCHANGED tasks
  BY <1>1, <1>2, NothingWritten
<1>3. CASE \E id \in MostUrgent : UpdateStatus(id, "Downloading")
  <2>1. PICK id \in TaskIds : UpdateStatus(id, "Downloading") /\ Status(id) = "Pending"
    BY <1>3 DEF MostUrgent, WithStatus
  <2>2. "Downloading" \in Statuses
    BY DEF Statuses, InFlight
  <2> QED BY <1>1, <2>1, <2>2, UpdateStatusWrites
<1> QED BY <1>2, <1>3 DEF Claim

\* Every other step of a worker, up to a recreation whose answer is used.
LEMMA TransferWrites ==
    ASSUME TypeOK, NEW w \in Workers,
           \/ Register(w) \/ Connect(w) \/ Start(w) \/ Halt(w) \/ Metadata(w) \/ Key(w)
           \/ Decrypt(w) \/ Acknowledge(w) \/ Interrupt(w) \/ Returned(w) \/ Unregister(w) \/ Chunk(w)
    PROVE  Writes /\ Respects
<1> USE DEF Elsewhere, queueVars, fileVars, userVars
<1>1. CASE Register(w) \/ Start(w) \/ Halt(w) \/ Interrupt(w) \/ Returned(w) \/ Unregister(w)
  BY <1>1, NothingWritten DEF Register, Start, Halt, Interrupt, Returned, Unregister
<1>2. CASE Connect(w)
  <2>1. job[w] \in TaskIds /\ Elsewhere
    BY <1>2, JobType DEF Connect
  <2> QED BY <1>2, <2>1, NothingWritten, MarkFailedWrites, RetryOrFailWrites DEF Connect
<1>3. CASE Metadata(w) \/ Key(w) \/ Decrypt(w) \/ Acknowledge(w) \/ Chunk(w)
  <2>1. job[w] \in TaskIds
    BY <1>3, JobType DEF Metadata, Key, Decrypt, Acknowledge, Chunk
  <2>2. Elsewhere
    BY <1>3 DEF Metadata, Key, Decrypt, Acknowledge, Chunk
  <2>3. UNCHANGED tasks \/ \E s \in InFlight : UpdateProgress(w, s)
    BY <1>3 DEF Metadata, Key, Decrypt, Acknowledge, Chunk, InFlight
  <2> QED BY <2>1, <2>2, <2>3, NothingWritten, UpdateProgressWrites
<1> QED BY <1>1, <1>2, <1>3

LEMMA OutcomeWrites ==
    ASSUME TypeOK, NEW w \in Workers, Cancel(w) \/ Discard(w) \/ Complete(w) \/ Fail(w)
    PROVE  Writes /\ Respects
<1> USE DEF Elsewhere, fileVars, userVars
<1>1. job[w] \in TaskIds
  BY JobType DEF Cancel, Discard, Complete, Fail
<1>2. Elsewhere
  BY DEF Cancel, Discard, Complete, Fail
<1>3. CASE Cancel(w) \/ Discard(w)
  <2>1. UNCHANGED tasks \/ UpdateStatus(job[w], "Cancelled")
    BY <1>3 DEF Cancel, Discard
  <2>2. "Cancelled" \in Statuses
    BY DEF Statuses, Terminal
  <2> QED BY <1>1, <1>2, <2>1, <2>2, NothingWritten, UpdateStatusWrites
<1>4. CASE Complete(w)
  BY <1>1, <1>2, <1>4, MarkCompletedWrites DEF Complete
<1>5. CASE Fail(w)
  <2>1. \/ UNCHANGED tasks
        \/ \E u \in BOOLEAN : MarkFailed(job[w], u)
        \/ RetryOrFail(job[w])
    BY <1>5 DEF Fail
  <2> QED BY <1>1, <1>2, <2>1, NothingWritten, MarkFailedWrites, RetryOrFailWrites
<1> QED BY <1>3, <1>4, <1>5

-----------------------------------------------------------------------------
(* The user's commands *)

LEMMA StartCmdWrites ==
    ASSUME TypeOK, StartCmd, ~Add
    PROVE  Writes
<1> USE DEF Elsewhere, queueVars, fileVars, userVars
<1>1. ASSUME NEW id \in TaskIds,
             \/ \E op \in {"pause", "resume", "cancel"} : Control(op, id)
             \/ Delete(id) \/ DeleteFiles(id)
      PROVE  Writes
  BY <1>1, NothingWritten DEF Control, Delete, DeleteFiles
<1>2. ASSUME NEW id \in TaskIds, Retry(id)
      PROVE  Writes
  <2>1. Elsewhere /\ Status(id) = "Failed"
    BY <1>2 DEF Retry
  <2>2. CASE UNCHANGED tasks
    BY <2>1, <2>2, NothingWritten
  <2>3. CASE tasks' = [tasks EXCEPT ![id].status = "Pending", ![id].retries = 0]
    BY <2>1, <2>3 DEF Writes, Absent, Status, TypeOK
  <2> QED BY <1>2, <2>2, <2>3 DEF Retry
<1>3. ASSUME NEW op \in DOMAIN Clears, NEW gone \in SUBSET TaskIds, RemoveRecords(op, gone)
      PROVE  Writes
  BY <1>3 DEF RemoveRecords, Writes, Absent, Blank
<1> QED BY <1>1, <1>2, <1>3 DEF StartCmd

LEMMA FinishCmdWrites ==
    ASSUME TypeOK, FinishCmd, ~RetryAnswer
    PROVE  Writes
<1> USE DEF Elsewhere, queueVars, fileVars
<1>1. cmd # NoCmd => cmd \in [op: AllOps, id: TaskIds, step: Steps]
  BY DEF TypeOK
<1>2. CASE ControlWrite
  <2>1. cmd.op \in {"pause", "resume", "cancel"}
    BY <1>2 DEF ControlWrite, Written
  <2>2. cmd.id \in TaskIds /\ Written[cmd.op] \in Statuses
    BY <1>1, <2>1 DEF NoCmd, Written, Statuses, Terminal
  <2> QED BY <1>2, <2>2, UpdateStatusWrites DEF ControlWrite
<1>3. CASE ControlSignal
  BY <1>3, NothingWritten DEF ControlSignal
<1>4. CASE DeleteRecord
  <2>1. cmd.id \in TaskIds /\ Elsewhere
    BY <1>1, <1>4 DEF DeleteRecord, NoCmd
  <2> QED BY <1>4, <2>1 DEF DeleteRecord, Writes, Absent, Blank, TypeOK
<1>5. CASE DeleteFilesRemove
  BY <1>5, NothingWritten DEF DeleteFilesRemove
<1>6. CASE DeleteFilesMark
  <2>1. cmd.id \in TaskIds /\ Elsewhere
    BY <1>1, <1>6 DEF DeleteFilesMark, NoCmd
  <2>2. CASE UNCHANGED tasks
    BY <2>1, <2>2, NothingWritten
  <2>3. CASE /\ Status(cmd.id) # "Absent"
             /\ tasks' = [tasks EXCEPT ![cmd.id].status = "Deleted",
                                       ![cmd.id].unclaimable = FALSE]
    BY <2>1, <2>3 DEF Writes, Absent, Status, TypeOK
  <2> QED BY <1>6, <2>2, <2>3 DEF DeleteFilesMark
<1> QED BY <1>2, <1>3, <1>4, <1>5, <1>6 DEF FinishCmd

-----------------------------------------------------------------------------
(* The invariant of the records *)

\* The records of a list are of different downloads, and of issued ones.
Unique(list) ==
    \A a, b \in TaskIds :
        ~Absent(list, a) /\ ~Absent(list, b) /\ origin[a] = origin[b] => a = b

Numbered(list) ==
    \A id \in TaskIds : ~Absent(list, id) => id \in issued /\ origin[id] \in issued

Sound(list) == Unique(list) /\ Numbered(list)

\* An identifier that has not been issued replaces none.
FreshOrigin == \A id \in TaskIds \ issued : origin[id] = id

\* A login takes any of the copies, so what holds of the list has to hold of each.
RecordsInv ==
    /\ TypeOK /\ FreshOrigin
    /\ Sound(tasks) /\ \A list \in copies : Sound(list)

LEMMA RecordsInit == Init => RecordsInv
<1> SUFFICES ASSUME Init PROVE RecordsInv
  OBVIOUS
<1>1. \A id \in TaskIds : Absent(NoTasks, id)
  BY DEF Absent, NoTasks, Blank
<1>2. Sound(NoTasks)
  BY <1>1 DEF Sound, Unique, Numbered
<1> QED BY <1>2, TypeInit DEF RecordsInv, Init, FreshOrigin

LEMMA CopiesStaySound ==
    ASSUME RecordsInv, UNCHANGED <<origin, issued>>
    PROVE  FreshOrigin' /\ \A list \in copies : Sound(list)'
  BY DEF RecordsInv, FreshOrigin, Sound, Unique, Numbered, Absent

LEMMA WritesKeepRecords ==
    ASSUME RecordsInv, TypeOK', Writes
    PROVE  RecordsInv'
<1>1. UNCHANGED <<copies, origin, issued>>
  BY DEF Writes, Elsewhere
<1>2. Sound(tasks)'
  BY <1>1 DEF RecordsInv, Writes, Sound, Unique, Numbered, Absent
<1> QED BY <1>1, <1>2, CopiesStaySound DEF RecordsInv

LEMMA AddKeepsRecords ==
    ASSUME RecordsInv, TypeOK', Add
    PROVE  RecordsInv'
<1>1. PICK id \in TaskIds \ issued, res \in BOOLEAN :
         /\ tasks' = [tasks EXCEPT ![id] = [Blank EXCEPT !.status = "Pending",
                                                        !.resumable = res]]
         /\ issued' = issued \cup {id}
  BY DEF Add
<1>2. UNCHANGED <<copies, origin>>
  BY DEF Add, fileVars
<1>3. \A other \in TaskIds : ~Absent(tasks', other) => other = id \/ ~Absent(tasks, other)
  BY <1>1 DEF RecordsInv, TypeOK, Absent
<1>4. origin[id] = id
  BY DEF RecordsInv, FreshOrigin
<1>5. Numbered(tasks)' /\ Unique(tasks)'
  BY <1>1, <1>2, <1>3, <1>4 DEF RecordsInv, Sound, Numbered, Unique, Absent
<1>6. FreshOrigin' /\ \A list \in copies : Sound(list)'
  BY <1>1, <1>2 DEF RecordsInv, FreshOrigin, Sound, Numbered, Unique, Absent
<1> QED BY <1>2, <1>5, <1>6 DEF RecordsInv, Sound

\* A recreation, by a worker or at the user's request: the new record takes the
\* download over from the old one. Its identifier is in no list yet, so that
\* tying it to the download disturbs none.
LEMMA ReplaceKeepsRecords ==
    ASSUME RecordsInv, TypeOK', NEW old \in TaskIds, NEW new \in TaskIds \ issued,
           NEW expected \in Statuses, Replace(old, new, expected), UNCHANGED copies
    PROVE  RecordsInv'
<1>1. /\ issued' = issued \cup {new} /\ origin'[new] = origin[old]
      /\ \A id \in TaskIds \ {new} : origin'[id] = origin[id]
  BY DEF Replace, RecordsInv, TypeOK
<1>2. \A list \in copies \cup {tasks} : Sound(list) /\ Absent(list, new)
  BY DEF RecordsInv, Sound, Numbered
<1>3. \A list \in copies \cup {tasks} :
         /\ \A id \in TaskIds : ~Absent(list, id) =>
               id \in issued' /\ origin'[id] = origin[id] /\ origin'[id] \in issued'
         /\ \A a, b \in TaskIds :
               ~Absent(list, a) /\ ~Absent(list, b) /\ origin'[a] = origin'[b] => a = b
  BY <1>1, <1>2 DEF Sound, Numbered, Unique
<1>4. FreshOrigin' /\ \A list \in copies : Sound(list)'
  BY <1>1, <1>3 DEF RecordsInv, FreshOrigin, Sound, Numbered, Unique, Absent
<1>5. CASE Status(old) # expected
  BY <1>3, <1>4, <1>5 DEF Replace, RecordsInv, Sound, Numbered, Unique, Absent
<1>6. CASE Status(old) = expected
  <2>1. PICK res \in BOOLEAN : tasks' = ReplacedList(old, new, res)
    BY <1>6 DEF Replace
  <2>2. ~Absent(tasks, old) /\ origin[old] \in issued /\ new # old
    BY <1>2, <1>6 DEF Sound, Numbered, Absent, Status, Statuses, Terminal, InFlight
  <2>3. \A id \in TaskIds : ~Absent(tasks', id) => id = new \/ (id # old /\ ~Absent(tasks, id))
    BY <2>1 DEF RecordsInv, TypeOK, ReplacedList, Absent, Blank
  <2>4. Numbered(tasks)'
    BY <1>1, <1>3, <2>2, <2>3 DEF Numbered, Absent
  <2>5. Unique(tasks)'
    BY <1>1, <1>2, <2>2, <2>3 DEF Sound, Unique, Absent
  <2> QED BY <1>4, <2>4, <2>5 DEF RecordsInv, Sound
<1> QED BY <1>5, <1>6

\* What a login takes over is one of the copies.
LEMMA SessionKeepsRecords ==
    ASSUME RecordsInv, TypeOK', Session
    PROVE  RecordsInv'
<1>1. UNCHANGED <<copies, origin, issued>>
  BY DEF Session, Logout, Login, Shutdown, Crash, fileVars
<1>2. PICK list \in copies \cup {tasks, NoTasks} : tasks' \in {list, Recovered(list)}
  BY DEF Session, Logout, Login, Shutdown, Crash
<1>3. Sound(list)
  BY DEF RecordsInv, Sound, Unique, Numbered, Absent, NoTasks, Blank
<1>4. \A id \in TaskIds : Absent(list, id) => Absent(tasks', id)
  BY <1>2 DEF Recovered, Absent
<1>5. Sound(tasks)'
  BY <1>1, <1>3, <1>4 DEF Sound, Unique, Numbered, Absent
<1> QED BY <1>1, <1>5, CopiesStaySound DEF RecordsInv

LEMMA SaveKeepsRecords ==
    ASSUME RecordsInv, TypeOK', Save
    PROVE  RecordsInv'
<1>1. UNCHANGED <<tasks, origin, issued>> /\ copies' = copies \cup {tasks}
  BY DEF Save, fileVars, userVars
<1> QED BY <1>1 DEF RecordsInv, FreshOrigin, Sound, Unique, Numbered, Absent

LEMMA RecordsNext == RecordsInv /\ [Next]_vars => RecordsInv'
<1> SUFFICES ASSUME RecordsInv, [Next]_vars PROVE RecordsInv'
  OBVIOUS
<1>1. TypeOK /\ TypeOK'
  BY TypeNext DEF RecordsInv
<1>2. CASE TickSomeDue
  BY <1>1, <1>2, TickWrites, WritesKeepRecords
<1>3. ASSUME NEW w \in Workers, Advance(w) \/ Chunk(w)
      PROVE  RecordsInv'
  <2>1. CASE Recreate(w)
    <3>1. job[w] \in TaskIds /\ UNCHANGED copies
      BY <1>1, <2>1, JobType DEF Recreate
    <3>2. CASE MarkFailed(job[w], TRUE) /\ UNCHANGED <<issued, origin>>
      BY <1>1, <3>1, <3>2, MarkFailedWrites, WritesKeepRecords DEF Elsewhere
    <3>3. CASE \E new \in TaskIds \ issued : Replace(job[w], new, "Downloading")
      BY <1>1, <3>1, <3>3, ReplaceKeepsRecords DEF Statuses, InFlight
    <3> QED BY <2>1, <3>2, <3>3 DEF Recreate
  <2> QED BY <1>1, <1>3, <2>1, ClaimWrites, TransferWrites, OutcomeWrites, WritesKeepRecords
          DEF Advance
<1>4. CASE StartCmd
  BY <1>1, <1>4, AddKeepsRecords, StartCmdWrites, WritesKeepRecords
<1>5. CASE FinishCmd
  <2>1. CASE RetryAnswer
    <3>1. cmd.id \in TaskIds
      BY <1>1, <2>1 DEF RetryAnswer, TypeOK, NoCmd
    <3>2. CASE UNCHANGED <<tasks, chunks, origin, issued>>
      BY <1>1, <2>1, <3>2, NothingWritten, WritesKeepRecords DEF RetryAnswer, Elsewhere
    <3>3. CASE \E new \in TaskIds \ issued : Replace(cmd.id, new, "Failed")
      BY <1>1, <2>1, <3>1, <3>3, ReplaceKeepsRecords DEF RetryAnswer, Statuses, Terminal
    <3> QED BY <2>1, <3>2, <3>3 DEF RetryAnswer
  <2> QED BY <1>1, <1>5, <2>1, FinishCmdWrites, WritesKeepRecords
<1>6. CASE Session \/ Save
  BY <1>1, <1>6, SessionKeepsRecords, SaveKeepsRecords
<1>7. CASE UNCHANGED vars
  BY <1>1, <1>7, NothingWritten, WritesKeepRecords
     DEF vars, queueVars, fileVars, userVars, Elsewhere
<1> QED BY <1>2, <1>3, <1>4, <1>5, <1>6, <1>7 DEF Next

LEMMA RecordsCorrect == Spec => []RecordsInv
  BY RecordsInit, RecordsNext, PTL DEF Spec

-----------------------------------------------------------------------------
(* The theorems *)

\* No download ever has two records, for any number of tasks and workers:
\* neither a recreation whose answer comes while the user retries brings a
\* second one about, nor a login that finds a list from before it.
THEOREM DownloadsHaveOneRecord == Spec => []OneRecordPerDownload
<1>1. RecordsInv => OneRecordPerDownload
  BY DEF RecordsInv, Sound, Unique, OneRecordPerDownload, Present, Status, Absent
<1> QED BY <1>1, RecordsCorrect, PTL

\* A command of the user is visible in cmd or in userActions.
LEMMA CommandsAreNotBackground ==
    ASSUME TypeOK, StartCmd \/ FinishCmd \/ Session
    PROVE  ~BackgroundStep
<1>1. userActions \in Nat /\ userActions + 1 # userActions
  BY QueueAssumption DEF TypeOK
<1>2. CASE StartCmd \/ Session
  <2>1. userActions' = userActions + 1
    BY <1>2 DEF StartCmd, Session, Add, Control, Retry, Delete, DeleteFiles, RemoveRecords,
                Logout, Login, Shutdown, Crash, UserAct
  <2> QED BY <1>1, <2>1 DEF BackgroundStep
<1>3. CASE FinishCmd
  BY <1>3 DEF FinishCmd, ControlWrite, ControlSignal, RetryAnswer, DeleteRecord,
              DeleteFilesRemove, DeleteFilesMark, Written, NoCmd, BackgroundStep, TypeOK
<1> QED BY <1>2, <1>3

LEMMA RespectsNext ==
    ASSUME RecordsInv, [Next]_vars, BackgroundStep
    PROVE  Respects
<1>1. TypeOK
  BY DEF RecordsInv
<1>2. CASE TickSomeDue
  BY <1>1, <1>2, TickWrites
<1>3. ASSUME NEW w \in Workers, Advance(w) \/ Chunk(w)
      PROVE  Respects
  <2>1. CASE Recreate(w)
    <3>1. job[w] \in TaskIds
      BY <1>1, <2>1, JobType DEF Recreate
    <3>2. CASE MarkFailed(job[w], TRUE)
      BY <1>1, <3>1, <3>2, MarkFailedEffect DEF Respects, OnlyAt, Status
    <3>3. CASE \E new \in TaskIds \ issued : Replace(job[w], new, "Downloading")
      <4>1. PICK new \in TaskIds \ issued : Replace(job[w], new, "Downloading")
        BY <3>3
      <4>2. Status(new) = "Absent"
        BY DEF RecordsInv, Sound, Numbered, Absent, Status
      <4> QED BY <1>1, <3>1, <4>1, <4>2, ReplaceEffect DEF Respects, Status
    <3> QED BY <2>1, <3>2, <3>3 DEF Recreate
  <2> QED BY <1>1, <1>3, <2>1, ClaimWrites, TransferWrites, OutcomeWrites DEF Advance
<1>4. CASE StartCmd \/ FinishCmd \/ Session
  BY <1>1, <1>4, CommandsAreNotBackground
<1>5. CASE Save \/ UNCHANGED vars
  BY <1>5 DEF Save, vars, queueVars, Respects, Status
<1> QED BY <1>2, <1>3, <1>4, <1>5 DEF Next

\* Once the user has cancelled a task, no worker and no tick brings it back:
\* every late progress report, completion, failure, retry or recreation finds
\* the cancellation and leaves it.
THEOREM CancellationsStand == Spec => CancelledIsRespected
<1>1. RecordsInv /\ [Next]_vars =>
        [BackgroundStep => \A id \in TaskIds :
            Status(id) = "Cancelled" => tasks'[id].status = "Cancelled"]_vars
  BY RespectsNext DEF Respects
<1> QED BY <1>1, RecordsCorrect, PTL DEF Spec, CancelledIsRespected
-----------------------------------------------------------------------------
(* Exclusive work, as long as nothing is resumed or reloaded *)

\* The commands that may bring a second worker to a task are not issued: resume
\* makes a task pending while its worker is still there, a login reloads it so.
NothingIsTakenUpAgain == UserOps \cap {"resume", "login"} = {}

\* A worker's task has been issued, and so has the download it belongs to.
WorkersNumbered ==
    \A w \in Workers : job[w] # NoId => job[w] \in issued /\ origin[job[w]] \in issued

OneWorkerPerDownload ==
    \A v, w \in Workers :
        Working(v) /\ Working(w) /\ origin[job[v]] = origin[job[w]] => v = w

\* The record of a worker's download, if there is one, is its task's.
WorkerOwnsRecord ==
    \A w \in Workers, id \in TaskIds :
        Working(w) /\ Present(id) /\ origin[id] = origin[job[w]] => id = job[w]

\* What no task is while a worker is at it: a tick, a claim, a retry or a removal
\* of files finds no worker there.
Unattended == {"Pending", "Scheduled", "Failed", "Completed", "Deleted"}

Attended == \A w \in Workers : Working(w) => Status(job[w]) \notin Unattended

\* A worker whose transfer has written the whole file.
HasWhole(w) == pc[w] \in {"ack", "completing"} \/ (pc[w] = "returned" /\ result[w] = "ok")

WholeIsWhole ==
    \A w \in Workers : HasWhole(w) /\ SoleDownload(job[w]) => output[File(job[w])] = "complete"

\* Only commands that may be issued are under way, and files are removed of a
\* completed task only.
CommandsInv ==
    /\ cmd # NoCmd => cmd.op \in UserOps
    /\ cmd.op = "delete_files" => Status(cmd.id) = "Completed"

\* ExclusiveWork and CompletedHasOutput speak of tasks; what is inductive speaks
\* of downloads, because a recreated task takes over the one of the task it
\* replaces.
ExclusiveInv ==
    /\ RecordsInv
    /\ WorkersNumbered /\ OneWorkerPerDownload /\ WorkerOwnsRecord
    /\ Attended /\ WholeIsWhole /\ CommandsInv /\ CompletedHasOutput

LEMMA ExclusiveImplies == ExclusiveInv => ExclusiveWork /\ CompletedHasOutput
  BY DEF ExclusiveInv, OneWorkerPerDownload, ExclusiveWork

LEMMA WorkingJob ==
    ASSUME TypeOK, NEW w \in Workers, Working(w) \/ HasWhole(w)
    PROVE  job[w] \in TaskIds /\ Working(w)
  BY JobType DEF Working, HasWhole

\* A download that has its file to itself shares it with no other ...
LEMMA SoleHasOwnFile ==
    ASSUME TypeOK, NEW a \in TaskIds, NEW b \in issued,
           SoleDownload(a), origin[a] # origin[b]
    PROVE  File(a) \in Files \ {File(b)}
  BY DEF TypeOK, SoleDownload, File

\* ... and had it to itself before other downloads were added or replaced.
LEMMA SoleStays ==
    ASSUME TypeOK, NEW a \in issued, issued \subseteq issued', UNCHANGED target,
           \A b \in issued : origin'[b] = origin[b]
    PROVE  (SoleDownload(a))' => SoleDownload(a) /\ (File(a))' = File(a)
  BY DEF TypeOK, SoleDownload, File

\* A step of a worker at its task: it writes the record of that task and the
\* file of that task, and nothing else.
AtItsFile(w) ==
    /\ Working(w) /\ job' = job /\ UNCHANGED <<origin, target, issued, cmd>>
    /\ \A v \in Workers \ {w} : pc'[v] = pc[v] /\ result'[v] = result[v]
    /\ OnlyAt(job[w])
    /\ Status(job[w]) = "Absent" => tasks'[job[w]].status = "Absent"
    /\ \A file \in Files \ {File(job[w])} : output'[file] = output[file]
    /\ Working(w)' => tasks'[job[w]].status \notin Unattended
    /\ (HasWhole(w)' \/ tasks'[job[w]].status = "Completed") /\ SoleDownload(job[w]) =>
          output'[File(job[w])] = "complete"

LEMMA AtItsFileKeeps ==
    ASSUME ExclusiveInv, RecordsInv', NEW w \in Workers, AtItsFile(w)
    PROVE  ExclusiveInv'
<1> DEFINE id == job[w]
<1>1. TypeOK /\ id \in TaskIds /\ id \in issued /\ Status(id) \notin Unattended
  BY WorkingJob, QueueAssumption DEF ExclusiveInv, RecordsInv, AtItsFile, WorkersNumbered, Attended
<1>2. ASSUME NEW v \in Workers \ {w}
      PROVE  /\ Working(v)' <=> Working(v)
             /\ HasWhole(v)' <=> HasWhole(v)
             /\ Working(v) => origin[job[v]] # origin[id] /\ job[v] # id
  BY <1>1 DEF AtItsFile, Working, HasWhole, ExclusiveInv, OneWorkerPerDownload
<1>3. \A other \in TaskIds : Present(other)' => Present(other)
  BY DEF AtItsFile, OnlyAt, Present, Status
<1>0. \A other \in TaskIds : /\ (SoleDownload(other))' <=> SoleDownload(other)
                             /\ (File(other))' = File(other)
  BY DEF AtItsFile, SoleDownload, File
<1>4. WorkersNumbered' /\ OneWorkerPerDownload' /\ WorkerOwnsRecord'
  BY <1>2, <1>3 DEF AtItsFile, ExclusiveInv, WorkersNumbered, OneWorkerPerDownload, WorkerOwnsRecord
<1>5. Attended'
  <2> SUFFICES ASSUME NEW v \in Workers, Working(v)'
               PROVE  tasks'[job[v]].status \notin Unattended
    BY DEF Attended, Status, AtItsFile
  <2>1. CASE v = w
    BY <2>1 DEF AtItsFile
  <2>2. CASE v # w
    <3>1. Working(v) /\ job[v] # id /\ job[v] \in TaskIds
      BY <1>1, <1>2, <2>2, WorkingJob
    <3> QED BY <3>1 DEF AtItsFile, OnlyAt, ExclusiveInv, Attended, Status
  <2> QED BY <2>1, <2>2
<1>6. WholeIsWhole'
  <2> SUFFICES ASSUME NEW v \in Workers, HasWhole(v)', SoleDownload(job[v])
               PROVE  output'[File(job[v])] = "complete"
    BY DEF WholeIsWhole, AtItsFile, SoleDownload, File
  <2>1. CASE v = w
    BY <2>1 DEF AtItsFile
  <2>2. CASE v # w
    <3>1. HasWhole(v) /\ File(job[v]) \in Files \ {File(id)}
      BY <1>1, <1>2, <2>2, WorkingJob, SoleHasOwnFile
    <3> QED BY <3>1 DEF AtItsFile, ExclusiveInv, WholeIsWhole
  <2> QED BY <2>1, <2>2
<1>7. CommandsInv'
  <2>1. CASE cmd.op = "delete_files"
    <3>1. Status(cmd.id) = "Completed" /\ cmd.id \in TaskIds
      BY <1>1, <2>1 DEF ExclusiveInv, CommandsInv, TypeOK, NoCmd
    <3>2. cmd.id # id
      BY <1>1, <3>1 DEF Unattended
    <3> QED BY <3>1, <3>2 DEF AtItsFile, OnlyAt, ExclusiveInv, CommandsInv, Status
  <2> QED BY <2>1 DEF AtItsFile, ExclusiveInv, CommandsInv
<1>8. CompletedHasOutput'
  <2> SUFFICES ASSUME NEW other \in TaskIds, tasks'[other].status = "Completed",
                      SoleDownload(other),
                      ~(cmd.id = other /\ cmd.op \in {"delete", "delete_files"})
               PROVE  output'[File(other)] = "complete"
    BY <1>0 DEF CompletedHasOutput, Status, AtItsFile
  <2>1. CASE other = id
    BY <2>1 DEF AtItsFile
  <2>2. CASE other # id
    <3>1. Status(other) = "Completed"
      BY <2>2 DEF AtItsFile, OnlyAt, Status
    <3>2. origin[other] # origin[id]
      BY <2>2, <3>1 DEF AtItsFile, ExclusiveInv, WorkerOwnsRecord, Present
    <3>3. File(other) \in Files \ {File(id)}
      BY <1>1, <3>2, SoleHasOwnFile
    <3> QED BY <3>1, <3>3 DEF AtItsFile, ExclusiveInv, CompletedHasOutput
  <2> QED BY <2>1, <2>2
<1> QED BY <1>4, <1>5, <1>6, <1>7, <1>8 DEF ExclusiveInv

\* What the outcomes leave in the record of their task.
LEMMA OutcomeStatus ==
    ASSUME TypeOK, NEW id \in TaskIds
    PROVE  /\ UpdateStatus(id, "Cancelled") =>
                 tasks'[id].status = (IF Present(id) THEN "Cancelled" ELSE "Absent")
           /\ MarkCompleted(id) => tasks'[id].status \in {Status(id), "Completed"}
           /\ \A u \in BOOLEAN :
                 MarkFailed(id, u) => tasks'[id].status \in {Status(id), "Failed"}
           /\ RetryOrFail(id) => tasks'[id].status \in {Status(id), "Failed", "Scheduled"}
           /\ ~Present(id) =>
                 /\ MarkCompleted(id) => tasks'[id].status = "Absent"
                 /\ \A u \in BOOLEAN : MarkFailed(id, u) => tasks'[id].status = "Absent"
                 /\ RetryOrFail(id) => tasks'[id].status = "Absent"
<1>1. tasks[id] \in Task /\ tasks \in [TaskIds -> Task]
  BY DEF TypeOK
<1>2. UpdateStatus(id, "Cancelled") =>
        tasks'[id].status = (IF Present(id) THEN "Cancelled" ELSE "Absent")
  BY <1>1 DEF UpdateStatus, WithNewStatus, Present, Status, Task
<1>3. MarkCompleted(id) => /\ tasks'[id].status \in {Status(id), "Completed"}
                           /\ ~Present(id) => tasks'[id].status = "Absent"
  BY <1>1 DEF MarkCompleted, CompletedList, Present, Status, Task
<1>4. ASSUME NEW u \in BOOLEAN, MarkFailed(id, u)
      PROVE  /\ tasks'[id].status \in {Status(id), "Failed"}
             /\ ~Present(id) => tasks'[id].status = "Absent"
  BY <1>1, <1>4 DEF MarkFailed, Present, Status, Task
<1>5. ASSUME RetryOrFail(id)
      PROVE  /\ tasks'[id].status \in {Status(id), "Failed", "Scheduled"}
             /\ ~Present(id) => tasks'[id].status = "Absent"
  <2>1. CASE Refuses(id) \/ ~Present(id)
    BY <1>5, <2>1 DEF RetryOrFail, Present, Status
  <2>2. CASE ~(Refuses(id) \/ ~Present(id))
    <3> DEFINE count == Bumped(tasks[id].retries)
               next == IF count > MaxRetries THEN "Failed" ELSE "Scheduled"
    <3>1. tasks' = [tasks EXCEPT ![id].retries = count, ![id].unclaimable = FALSE,
                                 ![id].status = next]
      BY <1>5, <2>2 DEF RetryOrFail
    <3>2. next \in {"Failed", "Scheduled"}
      OBVIOUS
    <3> HIDE DEF count, next
    <3> QED BY <1>1, <2>2, <3>1, <3>2 DEF Task
  <2> QED BY <2>1, <2>2
<1> QED BY <1>2, <1>3, <1>4, <1>5

\* The steps of a transfer publish a phase, which is not an outcome.
LEMMA TransferAtItsFile ==
    ASSUME ExclusiveInv, NEW w \in Workers,
           \/ Start(w) \/ Halt(w) \/ Metadata(w) \/ Chunk(w) \/ Key(w) \/ Decrypt(w)
           \/ Acknowledge(w) \/ Interrupt(w) \/ Returned(w)
    PROVE  AtItsFile(w)
<1> DEFINE id == job[w]
<1>1. Working(w)
  BY DEF Start, Halt, Metadata, Chunk, Key, Decrypt, Acknowledge, Interrupt, Returned, Working
<1>2. /\ TypeOK /\ id \in TaskIds /\ File(id) \in Files /\ Status(id) \notin Unattended
      /\ HasWhole(w) /\ SoleDownload(id) => output[File(id)] = "complete"
  BY <1>1, WorkingJob DEF ExclusiveInv, RecordsInv, TypeOK, Attended, WholeIsWhole, File
<1> USE DEF AtItsFile, HasWhole
<1>3. CASE Start(w) \/ Halt(w) \/ Interrupt(w) \/ Returned(w)
  <2>1. UNCHANGED <<tasks, job, origin, target, issued, cmd, output>>
    BY <1>3 DEF Start, Halt, Interrupt, Returned, queueVars, fileVars, userVars
  <2>2. \A v \in Workers \ {w} : pc'[v] = pc[v] /\ result'[v] = result[v]
    BY <1>2, <1>3 DEF Start, Halt, Interrupt, Returned, Finish, Goto, TypeOK
  <2>3. HasWhole(w)' => HasWhole(w)
    BY <1>2, <1>3 DEF Start, Halt, Interrupt, Returned, Finish, Goto, TypeOK
  <2> QED BY <1>1, <1>2, <2>1, <2>2, <2>3 DEF OnlyAt, Status, Unattended
<1>4. CASE Metadata(w) \/ Chunk(w) \/ Key(w) \/ Decrypt(w) \/ Acknowledge(w)
  <2>1. UNCHANGED tasks \/ \E s \in InFlight : UpdateProgress(w, s)
    BY <1>4 DEF Metadata, Chunk, Key, Decrypt, Acknowledge, InFlight
  <2>2. /\ OnlyAt(id) /\ tasks'[id].status \notin Unattended
        /\ Status(id) = "Absent" => tasks'[id].status = "Absent"
    BY <1>2, <2>1, UpdateProgressEffect DEF OnlyAt, Status, Unattended, InFlight
  <2>3. UNCHANGED <<job, origin, target, issued, cmd>>
    BY <1>4 DEF Metadata, Chunk, Key, Decrypt, Acknowledge, workerVars, fileVars, userVars
  <2>4. \A v \in Workers \ {w} : pc'[v] = pc[v] /\ result'[v] = result[v]
    BY <1>2, <1>4 DEF Metadata, Chunk, Key, Decrypt, Acknowledge, workerVars, Finish, Goto,
                      TypeOK
  <2>5. \A file \in Files \ {File(id)} : output'[file] = output[file]
    BY <1>2, <1>4 DEF Metadata, Chunk, Key, Decrypt, Acknowledge, fileVars, TypeOK
  <2>6. HasWhole(w)' /\ SoleDownload(id) => output'[File(id)] = "complete"
    BY <1>2, <1>4 DEF Metadata, Chunk, Key, Decrypt, Acknowledge, workerVars, fileVars, Finish,
                      Goto, Verified, Errors, TypeOK
  <2> QED BY <1>1, <2>2, <2>3, <2>4, <2>5, <2>6 DEF Unattended
<1> QED BY <1>3, <1>4

LEMMA OutcomeAtItsFile ==
    ASSUME ExclusiveInv, NEW w \in Workers,
           \/ Register(w) \/ Connect(w) \/ Cancel(w) \/ Discard(w) \/ Complete(w) \/ Fail(w)
           \/ (Recreate(w) /\ MarkFailed(job[w], TRUE) /\ UNCHANGED <<issued, origin>>)
    PROVE  AtItsFile(w)
<1> DEFINE id == job[w]
<1>1. Working(w)
  BY DEF Register, Connect, Cancel, Discard, Complete, Fail, Recreate, Working
<1>2. /\ TypeOK /\ id \in TaskIds /\ File(id) \in Files /\ Status(id) \notin Unattended
      /\ HasWhole(w) /\ SoleDownload(id) => output[File(id)] = "complete"
  BY <1>1, WorkingJob DEF ExclusiveInv, RecordsInv, TypeOK, Attended, WholeIsWhole, File
<1>3. /\ UNCHANGED <<job, origin, target, issued, cmd>>
      /\ \A v \in Workers \ {w} : pc'[v] = pc[v] /\ result'[v] = result[v]
  BY <1>2 DEF Register, Connect, Cancel, Discard, Complete, Fail, Recreate, Goto, fileVars,
              userVars, TypeOK
<1>4. /\ \A file \in Files \ {File(id)} : output'[file] = output[file]
      /\ ~Discard(w) => output' = output
  BY <1>2 DEF Register, Connect, Cancel, Discard, Complete, Fail, Recreate, fileVars, TypeOK
<1>5. OnlyAt(id) /\ (Status(id) = "Absent" => tasks'[id].status = "Absent")
  <2>1. \/ tasks' = tasks \/ UpdateStatus(id, "Cancelled") \/ MarkCompleted(id)
        \/ RetryOrFail(id) \/ \E u \in BOOLEAN : MarkFailed(id, u)
    BY DEF Register, Connect, Cancel, Discard, Complete, Fail, Recreate, queueVars
  <2>2. "Cancelled" \in Statuses
    BY DEF Statuses, Terminal
  <2> QED BY <1>2, <2>1, <2>2, OutcomeStatus, UpdateStatusEffect, MarkCompletedEffect,
             MarkFailedEffect, RetryOrFailEffect DEF OnlyAt, Present, Status
<1>6. Working(w)' => tasks'[id].status \notin Unattended
  BY <1>2 DEF Register, Connect, Cancel, Discard, Complete, Fail, Recreate, Goto, Working,
              queueVars, Status, TypeOK
<1>7. ~HasWhole(w)'
  BY <1>2 DEF Register, Connect, Cancel, Discard, Complete, Fail, Recreate, Goto, HasWhole, TypeOK
<1>8. tasks'[id].status = "Completed" /\ SoleDownload(id) => output'[File(id)] = "complete"
  <2>1. CASE Complete(w)
    BY <1>2, <1>4, <2>1 DEF Complete, HasWhole, Discard
  <2>2. CASE ~Complete(w)
    <3>1. \/ tasks' = tasks \/ UpdateStatus(id, "Cancelled")
          \/ RetryOrFail(id) \/ \E u \in BOOLEAN : MarkFailed(id, u)
      BY <2>2 DEF Register, Connect, Cancel, Discard, Fail, Recreate, queueVars
    <3> QED BY <1>2, <3>1, OutcomeStatus DEF Status, Unattended
  <2> QED BY <2>1, <2>2
<1> QED BY <1>1, <1>3, <1>4, <1>5, <1>6, <1>7, <1>8 DEF AtItsFile

\* A step that brings no worker to a task and no record to the list.
LEMMA NobodyStartsKeeps ==
    ASSUME ExclusiveInv, RecordsInv', UNCHANGED <<origin, target, issued>>,
           \A v \in Workers : /\ Working(v)' => Working(v)
                              /\ job'[v] \in {job[v], NoId}
                              /\ Working(v)' => job'[v] = job[v]
                              /\ HasWhole(v)' => HasWhole(v),
           \A id \in TaskIds : Present(id)' => Present(id),
           \A v \in Workers : Working(v)' => tasks'[job[v]].status \notin Unattended,
           \A v \in Workers : HasWhole(v)' /\ SoleDownload(job[v]) =>
                              output'[File(job[v])] = "complete",
           CommandsInv', CompletedHasOutput'
    PROVE  ExclusiveInv'
<1>1. \A v \in Workers : HasWhole(v)' => Working(v)'
  BY DEF HasWhole, Working
<1>2. WorkersNumbered' /\ OneWorkerPerDownload' /\ WorkerOwnsRecord'
  BY DEF ExclusiveInv, WorkersNumbered, OneWorkerPerDownload, WorkerOwnsRecord
<1>3. Attended' /\ WholeIsWhole'
  BY <1>1 DEF Attended, WholeIsWhole, Status, SoleDownload, File
<1> QED BY <1>2, <1>3 DEF ExclusiveInv

\* The same, where the files stay too and nothing becomes completed.
LEMMA QuietStepKeeps ==
    ASSUME ExclusiveInv, RecordsInv', UNCHANGED <<origin, target, issued, output>>,
           \A v \in Workers : /\ Working(v)' => Working(v)
                              /\ job'[v] \in {job[v], NoId}
                              /\ Working(v)' => job'[v] = job[v]
                              /\ HasWhole(v)' => HasWhole(v),
           \A id \in TaskIds : Present(id)' => Present(id),
           \A v \in Workers : Working(v) => tasks'[job[v]].status \notin Unattended,
           \A id \in TaskIds : Status(id)' = "Completed" =>
              /\ Status(id) = "Completed"
              /\ cmd.id = id /\ cmd.op \in {"delete", "delete_files"} =>
                    cmd'.id = id /\ cmd'.op \in {"delete", "delete_files"},
           CommandsInv'
    PROVE  ExclusiveInv'
<1>1. \A v \in Workers : HasWhole(v)' /\ SoleDownload(job[v]) =>
                            output'[File(job[v])] = "complete"
  BY DEF ExclusiveInv, WholeIsWhole
<1>2. CompletedHasOutput'
  BY DEF ExclusiveInv, CompletedHasOutput, Status, SoleDownload, File
<1> QED BY <1>1, <1>2, NobodyStartsKeeps

LEMMA TickKeeps ==
    ASSUME ExclusiveInv, RecordsInv', TickSomeDue
    PROVE  ExclusiveInv'
<1>1. PICK due \in SUBSET WithStatus("Scheduled") : Tick(due)
  BY DEF TickSomeDue
<1>2. TypeOK
  BY DEF ExclusiveInv, RecordsInv
<1>3. PICK spawned \in SUBSET {w \in Workers : pc[w] = "idle"} :
        pc' = [w \in Workers |-> IF w \in spawned THEN "ready" ELSE pc[w]]
  BY <1>1 DEF Tick
<1>4. UNCHANGED <<origin, target, issued, output, cmd, job, result>>
  BY <1>1 DEF Tick, fileVars, userVars
<1>5. \A id \in TaskIds : tasks'[id] = tasks[id]
                          \/ (Status(id) = "Scheduled" /\ tasks'[id].status = "Pending")
  <2>1. \A id \in due : Status(id) = "Scheduled" /\ tasks[id] \in Task
    BY <1>2 DEF WithStatus, TypeOK
  <2> QED BY <1>1, <1>2, <2>1 DEF Tick, Task
<1>6. \A v \in Workers : pc'[v] = pc[v] \/ (pc'[v] = "ready" /\ pc[v] = "idle")
  <2> SUFFICES ASSUME NEW v \in Workers
               PROVE  pc'[v] = pc[v] \/ (pc'[v] = "ready" /\ pc[v] = "idle")
    OBVIOUS
  <2>1. CASE v \in spawned
    BY <1>3, <2>1
  <2>2. CASE v \notin spawned
    BY <1>3, <2>2
  <2> QED BY <2>1, <2>2
<1>7. \A v \in Workers : /\ Working(v)' => Working(v)
                         /\ HasWhole(v)' => HasWhole(v)
  BY <1>4, <1>6 DEF Working, HasWhole
<1>8. \A v \in Workers : Working(v) => tasks'[job[v]].status \notin Unattended
  BY <1>2, <1>5, WorkingJob DEF ExclusiveInv, Attended, Unattended, Status
<1>9. CommandsInv'
  <2>1. cmd.op = "delete_files" => cmd.id \in TaskIds
    BY <1>2 DEF TypeOK, NoCmd
  <2> QED BY <1>4, <1>5, <2>1 DEF ExclusiveInv, CommandsInv, Status
<1>10. \A id \in TaskIds : /\ Present(id)' => Present(id)
                           /\ Status(id)' = "Completed" => Status(id) = "Completed"
  BY <1>5 DEF Present, Status
<1> QED BY <1>4, <1>7, <1>8, <1>9, <1>10, QuietStepKeeps

\* A worker claims a task that has none: its record is pending, and whoever is
\* at its file would be at that record.
LEMMA ClaimKeeps ==
    ASSUME ExclusiveInv, RecordsInv', NEW w \in Workers, Claim(w)
    PROVE  ExclusiveInv'
<1>1. TypeOK /\ UNCHANGED <<origin, target, issued, output, cmd, result>>
  BY DEF ExclusiveInv, RecordsInv, Claim, fileVars, userVars
<1>2. CASE UNCHANGED <<tasks, job>> /\ Goto(w, "idle")
  <2>1. \A v \in Workers : /\ Working(v)' => Working(v)
                           /\ HasWhole(v)' => HasWhole(v)
    BY <1>1, <1>2 DEF Goto, TypeOK, Working, HasWhole
  <2>2. \A v \in Workers : Working(v) => tasks'[job[v]].status \notin Unattended
    BY <1>2 DEF ExclusiveInv, Attended, Status
  <2> QED BY <1>1, <1>2, <2>1, <2>2, QuietStepKeeps
          DEF ExclusiveInv, CommandsInv, Present, Status
<1>3. CASE \E id \in MostUrgent : /\ UpdateStatus(id, "Downloading")
                                 /\ job' = [job EXCEPT ![w] = id]
                                 /\ Goto(w, "claimed")
  <2>1. PICK id \in TaskIds : /\ Status(id) = "Pending"
                              /\ UpdateStatus(id, "Downloading")
                              /\ job' = [job EXCEPT ![w] = id]
                              /\ Goto(w, "claimed")
    BY <1>3 DEF MostUrgent, WithStatus
  <2>2. OnlyAt(id) /\ tasks'[id].status \in {"Downloading", "Absent"}
    BY <1>1, <2>1, UpdateStatusEffect DEF Statuses, InFlight
  <2>3. /\ job'[w] = id /\ Working(w)' /\ ~HasWhole(w)'
        /\ \A v \in Workers \ {w} : /\ job'[v] = job[v]
                                    /\ Working(v)' <=> Working(v)
                                    /\ HasWhole(v)' <=> HasWhole(v)
    BY <1>1, <2>1 DEF Goto, TypeOK, Working, HasWhole
  <2>4. \A v \in Workers : Working(v) =>
           /\ job[v] \in TaskIds
           /\ origin[id] # origin[job[v]] /\ job[v] # id
    BY <1>1, <2>1, WorkingJob DEF ExclusiveInv, WorkerOwnsRecord, Attended, Unattended, Present
  <2>5. id \in issued /\ origin[id] \in issued
    BY <2>1 DEF ExclusiveInv, RecordsInv, Sound, Numbered, Absent, Status
  <2>6. \A other \in TaskIds : Present(other)' => Present(other)
    BY <2>1, <2>2 DEF OnlyAt, Present, Status
  <2>7. WorkersNumbered' /\ OneWorkerPerDownload'
    BY <1>1, <2>3, <2>4, <2>5 DEF ExclusiveInv, WorkersNumbered, OneWorkerPerDownload
  <2>8. WorkerOwnsRecord'
    <3> SUFFICES ASSUME NEW v \in Workers, NEW other \in TaskIds,
                        Working(v)', Present(other), origin[other] = origin[job'[v]]
                 PROVE  other = job'[v]
      BY <1>1, <2>6 DEF WorkerOwnsRecord
    <3>1. CASE v = w
      BY <2>1, <2>3, <3>1 DEF ExclusiveInv, RecordsInv, Sound, Unique, Absent, Present, Status
    <3>2. CASE v # w
      BY <2>3, <3>2 DEF ExclusiveInv, WorkerOwnsRecord
    <3> QED BY <3>1, <3>2
  <2>9. Attended' /\ WholeIsWhole'
    <3>1. ASSUME NEW v \in Workers, Working(v)'
          PROVE  tasks'[job'[v]].status \notin Unattended
      BY <2>2, <2>3, <2>4, <3>1 DEF ExclusiveInv, Attended, Unattended, OnlyAt, Status
    <3> QED BY <1>1, <2>3, <3>1 DEF ExclusiveInv, Attended, WholeIsWhole, Status, SoleDownload,
                                        File
  <2>10. CommandsInv' /\ CompletedHasOutput'
    <3>1. cmd.op = "delete_files" => cmd.id \in TaskIds \ {id}
      BY <1>1, <2>1 DEF ExclusiveInv, CommandsInv, TypeOK, NoCmd
    <3> QED BY <1>1, <2>2, <3>1
            DEF ExclusiveInv, CommandsInv, CompletedHasOutput, OnlyAt, Status, SoleDownload, File
  <2> QED BY <2>7, <2>8, <2>9, <2>10 DEF ExclusiveInv
<1> QED BY <1>2, <1>3 DEF Claim

LEMMA UnregisterKeeps ==
    ASSUME ExclusiveInv, RecordsInv', NEW w \in Workers, Unregister(w)
    PROVE  ExclusiveInv'
<1>1. TypeOK /\ UNCHANGED <<origin, target, issued, output, cmd, tasks>>
  BY DEF ExclusiveInv, RecordsInv, Unregister, queueVars, fileVars, userVars
<1>2. \A v \in Workers : /\ Working(v)' => Working(v)
                         /\ job'[v] \in {job[v], NoId}
                         /\ Working(v)' => job'[v] = job[v]
                         /\ HasWhole(v)' => HasWhole(v)
  BY <1>1 DEF Unregister, Goto, GoesOn, TypeOK, Working, HasWhole
<1>3. \A v \in Workers : Working(v) => tasks'[job[v]].status \notin Unattended
  BY <1>1 DEF ExclusiveInv, Attended, Status
<1> QED BY <1>1, <1>2, <1>3, QuietStepKeeps DEF ExclusiveInv, CommandsInv, Present, Status

\* The record moves to the new identifier and nobody is left at its file: the
\* worker that asked has let go of the task, and a failed task has none.
LEMMA ReplaceKeeps ==
    ASSUME ExclusiveInv, RecordsInv', NEW old \in TaskIds, NEW new \in TaskIds \ issued,
           NEW expected \in {"Downloading", "Failed"},
           Status(old) = expected, Replace(old, new, expected),
           UNCHANGED <<job, output, target>>,
           \A v \in Workers : /\ Working(v)' => Working(v) /\ origin[job[v]] # origin[old]
                              /\ HasWhole(v)' => HasWhole(v),
           cmd.op \in {"delete", "delete_files"} => cmd' = cmd,
           cmd' # NoCmd => cmd' = cmd
    PROVE  ExclusiveInv'
<1>1. PICK res \in BOOLEAN :
         /\ tasks' = ReplacedList(old, new, res)
         /\ origin' = [origin EXCEPT ![new] = origin[old]]
         /\ issued' = issued \cup {new}
  BY DEF Replace
<1>2. TypeOK /\ old # new /\ old \in issued /\ origin[old] \in issued
  BY DEF ExclusiveInv, RecordsInv, Sound, Numbered, Absent, Status
<1>3. /\ origin'[new] = origin[old]
      /\ \A id \in TaskIds \ {new} : origin'[id] = origin[id]
  BY <1>1, <1>2 DEF TypeOK
<1>4. /\ tasks'[new].status = "Pending" /\ tasks'[old].status = "Absent"
      /\ \A id \in TaskIds \ {old, new} : tasks'[id] = tasks[id]
  BY <1>1, <1>2 DEF TypeOK, ReplacedList, Blank
<1>5. \A v \in Workers : job[v] # NoId => job[v] \in TaskIds /\ job[v] # new
  BY <1>2 DEF ExclusiveInv, WorkersNumbered, TypeOK
<1>6. \A v \in Workers : Working(v)' =>
         /\ Working(v) /\ job[v] \in TaskIds \ {old, new}
         /\ origin'[job[v]] = origin[job[v]] /\ origin[job[v]] # origin[old]
  <2> SUFFICES ASSUME NEW v \in Workers, Working(v)'
               PROVE  /\ Working(v) /\ job[v] \in TaskIds \ {old, new}
                      /\ origin'[job[v]] = origin[job[v]] /\ origin[job[v]] # origin[old]
    OBVIOUS
  <2>1. Working(v) /\ job[v] \in TaskIds /\ origin[job[v]] # origin[old]
    BY <1>2, WorkingJob
  <2>2. job[v] # old /\ job[v] # new
    BY <1>5, <2>1, QueueAssumption
  <2> QED BY <1>3, <2>1, <2>2
<1>7. \A v \in Workers : HasWhole(v)' => Working(v)'
  BY DEF HasWhole, Working
<1>8. WorkersNumbered' /\ OneWorkerPerDownload'
  <2>1. WorkersNumbered'
    BY <1>1, <1>2, <1>3, <1>5 DEF ExclusiveInv, WorkersNumbered
  <2>2. OneWorkerPerDownload'
    BY <1>6 DEF ExclusiveInv, OneWorkerPerDownload
  <2> QED BY <2>1, <2>2
<1>9. WorkerOwnsRecord'
  <2> SUFFICES ASSUME NEW v \in Workers, NEW id \in TaskIds,
                      Working(v)', Present(id)', origin'[id] = origin'[job[v]]
               PROVE  id = job[v]
    BY DEF WorkerOwnsRecord
  <2>1. id # old /\ id # new
    BY <1>3, <1>4, <1>6 DEF Present, Status
  <2> QED BY <1>3, <1>4, <1>6, <2>1 DEF ExclusiveInv, WorkerOwnsRecord, Present, Status
<1>10. Attended' /\ WholeIsWhole'
  <2>1. Attended'
    BY <1>4, <1>6 DEF ExclusiveInv, Attended, Status
  <2> SUFFICES ASSUME NEW v \in Workers, HasWhole(v)', (SoleDownload(job[v]))'
               PROVE  output[(File(job[v]))'] = "complete"
    BY <2>1 DEF WholeIsWhole, File, SoleDownload
  <2>2. job[v] \in issued
    BY <1>6, <1>7, QueueAssumption DEF ExclusiveInv, WorkersNumbered
  <2>3. SoleDownload(job[v]) /\ (File(job[v]))' = File(job[v])
    BY <1>1, <1>2, <1>3, <2>2, SoleStays DEF TypeOK
  <2> QED BY <2>3 DEF ExclusiveInv, WholeIsWhole
<1>11. CommandsInv'
  <2>1. cmd.op = "delete_files" => cmd.id \in TaskIds \ {old, new}
    BY <1>2 DEF ExclusiveInv, RecordsInv, Sound, Numbered, Absent, CommandsInv, Status, TypeOK, NoCmd
  <2> QED BY <1>4, <2>1 DEF ExclusiveInv, CommandsInv, Status, NoCmd
<1>12. CompletedHasOutput'
  <2> SUFFICES ASSUME NEW id \in TaskIds, Status(id)' = "Completed", (SoleDownload(id))',
                      ~(cmd'.id = id /\ cmd'.op \in {"delete", "delete_files"})
               PROVE  output[(File(id))'] = "complete"
    BY DEF CompletedHasOutput
  <2>1. Status(id) = "Completed" /\ id \in issued
    BY <1>4 DEF ExclusiveInv, RecordsInv, Sound, Numbered, Absent, Status
  <2>2. SoleDownload(id) /\ (File(id))' = File(id)
    BY <1>1, <1>2, <1>3, <2>1, SoleStays DEF TypeOK
  <2> QED BY <2>1, <2>2 DEF ExclusiveInv, CompletedHasOutput
<1> QED BY <1>8, <1>9, <1>10, <1>11, <1>12 DEF ExclusiveInv

\* The server has issued an identifier nobody keeps.
LEMMA LostReplacementKeeps ==
    ASSUME ExclusiveInv, RecordsInv', UNCHANGED <<tasks, output, target, job>>,
           issued \subseteq issued', \A id \in issued : origin'[id] = origin[id],
           \A v \in Workers : /\ Working(v)' => Working(v)
                              /\ HasWhole(v)' => HasWhole(v),
           cmd.op \in {"delete", "delete_files"} => cmd' = cmd,
           cmd' # NoCmd => cmd' = cmd
    PROVE  ExclusiveInv'
<1>1. TypeOK /\ \A id \in TaskIds : Present(id) => id \in issued
  BY DEF ExclusiveInv, RecordsInv, Sound, Numbered, Absent, Present, Status
<1>2. \A v \in Workers : Working(v) \/ HasWhole(v) => job[v] \in issued
  BY <1>1, WorkingJob, QueueAssumption DEF ExclusiveInv, WorkersNumbered
<1>3. \A id \in issued : (SoleDownload(id))' => SoleDownload(id) /\ (File(id))' = File(id)
  BY <1>1, SoleStays
<1>4. WorkersNumbered' /\ OneWorkerPerDownload' /\ WorkerOwnsRecord'
  BY <1>1, <1>2 DEF ExclusiveInv, WorkersNumbered, OneWorkerPerDownload, WorkerOwnsRecord,
                    Present, Status
<1>5. Attended' /\ WholeIsWhole'
  BY <1>2, <1>3 DEF ExclusiveInv, Attended, WholeIsWhole, Status, SoleDownload, File
<1>6. CommandsInv' /\ CompletedHasOutput'
  <2>1. \A id \in TaskIds : Status(id) = "Completed" => id \in issued
    BY <1>1 DEF Present
  <2> QED BY <1>3, <2>1 DEF ExclusiveInv, CommandsInv, CompletedHasOutput, Status, NoCmd
<1> QED BY <1>4, <1>5, <1>6 DEF ExclusiveInv

LEMMA RecreateKeeps ==
    ASSUME ExclusiveInv, RecordsInv', NEW w \in Workers, Recreate(w)
    PROVE  ExclusiveInv'
<1>1. TypeOK /\ job[w] \in TaskIds /\ Working(w) /\ UNCHANGED <<output, target, job, cmd, result>>
  BY JobType DEF ExclusiveInv, RecordsInv, Recreate, Working
<1>2. CASE MarkFailed(job[w], TRUE) /\ UNCHANGED <<issued, origin>>
  BY <1>2, OutcomeAtItsFile, AtItsFileKeeps
<1>3. CASE \E new \in TaskIds \ issued :
              /\ Replace(job[w], new, "Downloading")
              /\ Goto(w, IF Status(job[w]) = "Downloading" THEN "looping" ELSE "leaving")
  <2>1. PICK new \in TaskIds \ issued : Replace(job[w], new, "Downloading")
    BY <1>3
  <2>2. /\ ~Working(w)' /\ ~HasWhole(w)'
        /\ \A v \in Workers \ {w} : /\ Working(v)' <=> Working(v)
                                    /\ HasWhole(v)' <=> HasWhole(v)
    BY <1>1, <1>3 DEF Goto, TypeOK, Working, HasWhole
  <2>3. \A v \in Workers : Working(v)' => Working(v) /\ origin[job[v]] # origin[job[w]]
    BY <1>1, <2>2 DEF ExclusiveInv, OneWorkerPerDownload
  <2>4. CASE Status(job[w]) = "Downloading"
    BY <1>1, <2>1, <2>2, <2>3, <2>4, ReplaceKeeps
  <2>5. CASE Status(job[w]) # "Downloading"
    BY <1>1, <2>1, <2>2, <2>3, <2>5, LostReplacementKeeps
       DEF Replace, TypeOK
  <2> QED BY <2>4, <2>5
<1> QED BY <1>2, <1>3 DEF Recreate

LEMMA RetryAnswerKeeps ==
    ASSUME ExclusiveInv, RecordsInv', RetryAnswer
    PROVE  ExclusiveInv'
<1>1. TypeOK /\ cmd.id \in TaskIds /\ cmd' = NoCmd /\ cmd.op = "retry"
  BY DEF ExclusiveInv, RecordsInv, RetryAnswer, TypeOK, NoCmd
<1>2. UNCHANGED <<output, target, job, pc, result>>
  BY DEF RetryAnswer, workerVars
<1>3. \A v \in Workers : /\ Working(v)' <=> Working(v)
                         /\ HasWhole(v)' <=> HasWhole(v)
  BY <1>2 DEF Working, HasWhole
<1>4. CASE UNCHANGED <<tasks, chunks, origin, issued>>
  BY <1>1, <1>2, <1>3, <1>4, LostReplacementKeeps
<1>5. CASE \E new \in TaskIds \ issued : Replace(cmd.id, new, "Failed")
  <2>1. PICK new \in TaskIds \ issued : Replace(cmd.id, new, "Failed")
    BY <1>5
  <2>2. CASE Status(cmd.id) = "Failed"
    <3>1. \A v \in Workers : Working(v) => origin[job[v]] # origin[cmd.id]
      BY <1>1, <2>2 DEF ExclusiveInv, WorkerOwnsRecord, Attended, Unattended, Present
    <3> QED BY <1>1, <1>2, <1>3, <2>1, <2>2, <3>1, ReplaceKeeps
  <2>3. CASE Status(cmd.id) # "Failed"
    BY <1>1, <1>2, <1>3, <2>1, <2>3, LostReplacementKeeps
       DEF Replace, TypeOK
  <2> QED BY <2>2, <2>3
<1> QED BY <1>4, <1>5 DEF RetryAnswer

-----------------------------------------------------------------------------
(* Exclusive work: the user's commands *)

\* A new download is nobody's: no worker is at it, whoever is at its file.
LEMMA AddKeeps ==
    ASSUME ExclusiveInv, RecordsInv', Add
    PROVE  ExclusiveInv'
<1>1. PICK new \in TaskIds \ issued, res \in BOOLEAN :
         /\ tasks' = [tasks EXCEPT ![new] = [Blank EXCEPT !.status = "Pending",
                                                         !.resumable = res]]
         /\ issued' = issued \cup {new}
  BY DEF Add
<1>2. TypeOK /\ UNCHANGED <<origin, target, output, pc, job, result, cmd>> /\ cmd = NoCmd
  BY DEF ExclusiveInv, RecordsInv, Add, UserAct, workerVars, fileVars
<1>3. /\ tasks'[new].status = "Pending"
      /\ \A id \in TaskIds \ {new} : tasks'[id] = tasks[id]
  BY <1>1, <1>2 DEF TypeOK, Blank
<1>4. origin[new] = new
  BY DEF ExclusiveInv, RecordsInv, FreshOrigin
<1>5. \A v \in Workers : /\ Working(v)' <=> Working(v)
                         /\ HasWhole(v)' <=> HasWhole(v)
                         /\ HasWhole(v) => Working(v)
  BY <1>2 DEF Working, HasWhole
<1>6. \A v \in Workers : Working(v) =>
         job[v] \in TaskIds \ {new} /\ job[v] \in issued /\ origin[job[v]] \in issued
  BY <1>2, WorkingJob, QueueAssumption DEF ExclusiveInv, WorkersNumbered
<1>7. WorkersNumbered' /\ OneWorkerPerDownload'
  BY <1>1, <1>2, <1>5 DEF ExclusiveInv, WorkersNumbered, OneWorkerPerDownload
<1>8. WorkerOwnsRecord'
  BY <1>2, <1>3, <1>4, <1>5, <1>6 DEF ExclusiveInv, WorkerOwnsRecord, Present, Status
<1>0. \A id \in issued : (SoleDownload(id))' => SoleDownload(id) /\ (File(id))' = File(id)
  BY <1>1, <1>2, SoleStays
<1>9. Attended' /\ WholeIsWhole'
  BY <1>0, <1>2, <1>3, <1>5, <1>6
     DEF ExclusiveInv, Attended, WholeIsWhole, Status, SoleDownload, File
<1>10. CommandsInv' /\ CompletedHasOutput'
  <2>1. \A id \in TaskIds : Status(id)' = "Completed" => Status(id) = "Completed" /\ id \in issued
    BY <1>3 DEF ExclusiveInv, RecordsInv, Sound, Numbered, Absent, Status
  <2> QED BY <1>0, <1>2, <1>3, <2>1
          DEF ExclusiveInv, CommandsInv, CompletedHasOutput, Status, NoCmd
<1> QED BY <1>7, <1>8, <1>9, <1>10 DEF ExclusiveInv

\* A command that only begins: it remembers the task it has read.
LEMMA BeginKeeps ==
    ASSUME ExclusiveInv, RecordsInv', NEW id \in TaskIds,
           (\E op \in {"pause", "resume", "cancel"} : Control(op, id)) \/ DeleteFiles(id)
    PROVE  ExclusiveInv'
<1>1. /\ UNCHANGED <<tasks, origin, target, issued, output, pc, job, result>> /\ cmd = NoCmd
      /\ cmd'.op \in UserOps
      /\ cmd'.op = "delete_files" => Status(cmd'.id) = "Completed"
  BY DEF Control, DeleteFiles, UserAct, Pending, queueVars, workerVars, fileVars
<1>2. \A v \in Workers : /\ Working(v)' <=> Working(v)
                         /\ HasWhole(v)' <=> HasWhole(v)
  BY <1>1 DEF Working, HasWhole
<1>3. CommandsInv'
  BY <1>1 DEF CommandsInv, Status
<1>4. \A v \in Workers : Working(v) => tasks'[job[v]].status \notin Unattended
  BY <1>1 DEF ExclusiveInv, Attended, Status
<1> QED BY <1>1, <1>2, <1>3, <1>4, QuietStepKeeps DEF Present, Status, NoCmd

\* A failed task, retried: no worker is at it.
LEMMA RetryKeeps ==
    ASSUME ExclusiveInv, RecordsInv', NEW id \in TaskIds, Retry(id)
    PROVE  ExclusiveInv'
<1>1. /\ UNCHANGED <<origin, target, issued, output, pc, job, result>> /\ cmd = NoCmd
      /\ cmd' # NoCmd => cmd'.op = "retry" /\ "retry" \in UserOps
      /\ Status(id) = "Failed" /\ TypeOK
  BY DEF ExclusiveInv, RecordsInv, Retry, UserAct, Pending, workerVars, fileVars
<1>2. \A v \in Workers : /\ Working(v)' <=> Working(v)
                         /\ HasWhole(v)' <=> HasWhole(v)
  BY <1>1 DEF Working, HasWhole
<1>3. CommandsInv'
  BY <1>1 DEF CommandsInv, NoCmd
<1>4. /\ \A other \in TaskIds \ {id} : tasks'[other] = tasks[other]
      /\ tasks'[id].status \in {"Failed", "Pending"}
  BY <1>1 DEF Retry, TypeOK, Task, Status
<1>5. \A v \in Workers : Working(v) => tasks'[job[v]].status \notin Unattended
  BY <1>1, <1>4, WorkingJob DEF ExclusiveInv, Attended, Unattended, Status
<1> QED BY <1>1, <1>2, <1>3, <1>4, <1>5, QuietStepKeeps DEF Present, Status, NoCmd

\* The file of a completed task goes first; of the downloads that have theirs to
\* themselves, no other owns it, and no worker is at it.
LEMMA DeleteKeeps ==
    ASSUME ExclusiveInv, RecordsInv', NEW id \in TaskIds, Delete(id)
    PROVE  ExclusiveInv'
<1>1. /\ UNCHANGED <<tasks, origin, target, issued, pc, job, result>>
      /\ cmd' = [op |-> "delete", id |-> id, step |-> "write"] /\ cmd = NoCmd
      /\ "delete" \in UserOps /\ TypeOK /\ Present(id)
  BY DEF ExclusiveInv, RecordsInv, Delete, UserAct, Pending, queueVars, workerVars
<1>2. \A v \in Workers : /\ Working(v)' <=> Working(v)
                         /\ HasWhole(v)' <=> HasWhole(v)
                         /\ HasWhole(v) => Working(v)
  BY <1>1 DEF Working, HasWhole
<1>3. /\ id \in issued
      /\ \A file \in Files : output'[file] = output[file]
                             \/ (file = File(id) /\ Status(id) = "Completed")
  BY <1>1 DEF Delete, TypeOK, ExclusiveInv, RecordsInv, Sound, Numbered, Absent, Present, Status
<1>4. \A v \in Workers : Working(v) => tasks'[job[v]].status \notin Unattended
  BY <1>1 DEF ExclusiveInv, Attended, Status
<1>5. ASSUME NEW v \in Workers, HasWhole(v), SoleDownload(job[v])
      PROVE  output'[File(job[v])] = "complete"
  <2>1. File(job[v]) \in Files /\ Working(v) /\ job[v] \in TaskIds
    BY <1>1, <1>5, WorkingJob DEF TypeOK, File
  <2>2. File(job[v]) = File(id) => Status(id) # "Completed"
    <3>1. origin[job[v]] = origin[id] => Status(id) # "Completed"
      BY <1>1, <2>1 DEF ExclusiveInv, WorkerOwnsRecord, Attended, Unattended
    <3> QED BY <1>1, <1>3, <1>5, <2>1, <3>1, SoleHasOwnFile
  <2> QED BY <1>3, <1>5, <2>1, <2>2 DEF ExclusiveInv, WholeIsWhole
<1>6. CommandsInv'
  BY <1>1 DEF CommandsInv, NoCmd
<1>7. CompletedHasOutput'
  <2> SUFFICES ASSUME NEW other \in TaskIds, Status(other) = "Completed", other # id,
                      SoleDownload(other)
               PROVE  output'[File(other)] = "complete"
    BY <1>1 DEF CompletedHasOutput, Status, SoleDownload, File
  <2>1. origin[other] # origin[id]
    BY <1>1 DEF ExclusiveInv, RecordsInv, Sound, Unique, Absent, Present, Status
  <2>2. File(other) \in Files \ {File(id)}
    BY <1>1, <1>3, <2>1, SoleHasOwnFile
  <2> QED BY <1>1, <1>3, <2>2 DEF ExclusiveInv, CompletedHasOutput, NoCmd
<1> QED BY <1>1, <1>2, <1>4, <1>5, <1>6, <1>7, NobodyStartsKeeps DEF Present, Status

LEMMA RemoveRecordsKeeps ==
    ASSUME ExclusiveInv, RecordsInv', NEW op \in DOMAIN Clears, NEW gone \in SUBSET TaskIds,
           RemoveRecords(op, gone)
    PROVE  ExclusiveInv'
<1>1. /\ UNCHANGED <<origin, target, issued, output, pc, job, result, cmd>> /\ cmd = NoCmd /\ TypeOK
      /\ tasks' = [id \in TaskIds |-> IF id \in gone THEN Blank ELSE tasks[id]]
  BY DEF ExclusiveInv, RecordsInv, RemoveRecords, UserAct, workerVars
<1>2. \A v \in Workers : /\ Working(v)' <=> Working(v)
                         /\ HasWhole(v)' <=> HasWhole(v)
  BY <1>1 DEF Working, HasWhole
<1>3. CommandsInv'
  BY <1>1 DEF CommandsInv, NoCmd
<1>4. \A id \in TaskIds : tasks'[id] = tasks[id] \/ tasks'[id].status = "Absent"
  BY <1>1 DEF Blank
<1>5. \A v \in Workers : Working(v) => tasks'[job[v]].status \notin Unattended
  BY <1>1, <1>4, WorkingJob DEF ExclusiveInv, Attended, Unattended, Status
<1> QED BY <1>1, <1>2, <1>3, <1>4, <1>5, QuietStepKeeps DEF Present, Status

LEMMA StartCmdKeeps ==
    ASSUME ExclusiveInv, RecordsInv', StartCmd
    PROVE  ExclusiveInv'
  BY AddKeeps, BeginKeeps, RetryKeeps, DeleteKeeps, RemoveRecordsKeeps DEF StartCmd

\* The second half of a pause or a cancellation writes no status a worker would
\* claim, and the command that would is not issued.
LEMMA ControlKeeps ==
    ASSUME ExclusiveInv, RecordsInv', NothingIsTakenUpAgain, ControlWrite \/ ControlSignal
    PROVE  ExclusiveInv'
<1>1. /\ TypeOK /\ UNCHANGED <<origin, target, issued, output, pc, job, result>>
      /\ cmd.op \in {"pause", "cancel"} /\ cmd.id \in TaskIds
      /\ cmd' = NoCmd \/ cmd' = [cmd EXCEPT !.step = "signal"]
  <2>1. cmd # NoCmd /\ cmd.op \in {"pause", "cancel", "resume"}
    BY DEF ControlWrite, ControlSignal, Written, NoCmd
  <2>2. TypeOK /\ cmd.op # "resume" /\ cmd.id \in TaskIds
    BY <2>1 DEF ExclusiveInv, RecordsInv, CommandsInv, NothingIsTakenUpAgain, TypeOK
  <2> QED BY <2>1, <2>2 DEF ControlWrite, ControlSignal, workerVars, fileVars
<1>2. \A v \in Workers : /\ Working(v)' <=> Working(v)
                         /\ HasWhole(v)' <=> HasWhole(v)
  BY <1>1 DEF Working, HasWhole
<1>3. CommandsInv'
  <2>1. CASE cmd' = NoCmd
    BY <2>1 DEF CommandsInv, NoCmd
  <2>2. CASE cmd' = [cmd EXCEPT !.step = "signal"]
    <3>1. cmd \in [op: AllOps, id: TaskIds, step: Steps]
      BY <1>1 DEF TypeOK, NoCmd
    <3>2. cmd'.op = cmd.op
      BY <2>2, <3>1
    <3> QED BY <1>1, <3>2 DEF ExclusiveInv, CommandsInv, NoCmd
  <2> QED BY <1>1, <2>1, <2>2
<1>4. /\ \A id \in TaskIds \ {cmd.id} : tasks'[id] = tasks[id]
      /\ tasks' = tasks
         \/ tasks'[cmd.id].status = (IF Present(cmd.id) THEN Written[cmd.op] ELSE "Absent")
  BY <1>1 DEF ControlWrite, ControlSignal, UpdateStatus, WithNewStatus, TypeOK, Task,
              Present, Status, queueVars
<1>5. Written[cmd.op] \in {"Paused", "Cancelled"}
  BY <1>1 DEF Written
<1>6. \A v \in Workers : Working(v) => tasks'[job[v]].status \notin Unattended
  BY <1>1, <1>4, <1>5, WorkingJob DEF ExclusiveInv, Attended, Unattended, Status
<1>7. \A id \in TaskIds : /\ Present(id)' => Present(id)
                          /\ Status(id)' = "Completed" => Status(id) = "Completed"
  BY <1>1, <1>4, <1>5 DEF Present, Status
<1> QED BY <1>1, <1>2, <1>3, <1>6, <1>7, QuietStepKeeps

LEMMA DeleteRecordKeeps ==
    ASSUME ExclusiveInv, RecordsInv', DeleteRecord
    PROVE  ExclusiveInv'
<1>1. /\ UNCHANGED <<origin, target, issued, output, pc, job, result>> /\ cmd' = NoCmd /\ TypeOK
      /\ cmd.id \in TaskIds
  BY DEF ExclusiveInv, RecordsInv, DeleteRecord, workerVars, fileVars, TypeOK, NoCmd
<1>2. \A v \in Workers : /\ Working(v)' <=> Working(v)
                         /\ HasWhole(v)' <=> HasWhole(v)
  BY <1>1 DEF Working, HasWhole
<1>3. CommandsInv'
  BY <1>1 DEF CommandsInv, NoCmd
<1>4. /\ \A id \in TaskIds \ {cmd.id} : tasks'[id] = tasks[id]
      /\ tasks'[cmd.id].status = "Absent"
  BY <1>1 DEF DeleteRecord, TypeOK, Blank, Present, Status
<1>5. \A v \in Workers : Working(v) => tasks'[job[v]].status \notin Unattended
  BY <1>1, <1>4, WorkingJob DEF ExclusiveInv, Attended, Unattended, Status
<1> QED BY <1>1, <1>2, <1>3, <1>4, <1>5, QuietStepKeeps DEF Present, Status

\* The task is still completed: nobody works on its download, and no other
\* record is of it.
LEMMA DeleteFilesKeeps ==
    ASSUME ExclusiveInv, RecordsInv', DeleteFilesRemove \/ DeleteFilesMark
    PROVE  ExclusiveInv'
<1>1. /\ TypeOK /\ UNCHANGED <<origin, target, issued, pc, job, result>>
      /\ cmd.op = "delete_files" /\ cmd.id \in TaskIds
      /\ cmd \in [op: AllOps, id: TaskIds, step: Steps]
      /\ Status(cmd.id) = "Completed" /\ cmd.id \in issued
  BY DEF ExclusiveInv, RecordsInv, Sound, Numbered, Absent, Status, CommandsInv,
         DeleteFilesRemove, DeleteFilesMark, workerVars, fileVars, TypeOK, NoCmd
<1>2. \A v \in Workers : /\ Working(v)' <=> Working(v)
                         /\ HasWhole(v)' <=> HasWhole(v)
                         /\ HasWhole(v) => Working(v)
  BY <1>1 DEF Working, HasWhole
<1>3. \A v \in Workers : Working(v) => job[v] \in TaskIds /\ origin[job[v]] # origin[cmd.id]
  BY <1>1, WorkingJob DEF ExclusiveInv, WorkerOwnsRecord, Attended, Unattended, Present
<1>4. CASE DeleteFilesRemove
  <2>1. /\ UNCHANGED tasks /\ cmd'.op = cmd.op /\ cmd'.id = cmd.id
        /\ output' = [output EXCEPT ![File(cmd.id)] = "none"]
    BY <1>1, <1>4 DEF DeleteFilesRemove, queueVars
  <2>2. \A v \in Workers : Working(v) => tasks'[job[v]].status \notin Unattended
    BY <2>1 DEF ExclusiveInv, Attended, Status
  <2>3. ASSUME NEW v \in Workers, HasWhole(v), SoleDownload(job[v])
        PROVE  output'[File(job[v])] = "complete"
    <3>1. File(job[v]) \in Files \ {File(cmd.id)}
      BY <1>1, <1>2, <1>3, <2>3, SoleHasOwnFile
    <3> QED BY <1>1, <2>1, <2>3, <3>1 DEF ExclusiveInv, WholeIsWhole, TypeOK
  <2>4. CommandsInv'
    BY <1>1, <2>1 DEF ExclusiveInv, CommandsInv, Status, NoCmd
  <2>5. CompletedHasOutput'
    <3> SUFFICES ASSUME NEW id \in TaskIds, Status(id) = "Completed", id # cmd.id,
                        SoleDownload(id)
                 PROVE  output'[File(id)] = "complete"
      BY <1>1, <2>1 DEF CompletedHasOutput, Status, SoleDownload, File
    <3>1. origin[id] # origin[cmd.id]
      BY <1>1 DEF ExclusiveInv, RecordsInv, Sound, Unique, Absent, Status
    <3>2. File(id) \in Files \ {File(cmd.id)}
      BY <1>1, <3>1, SoleHasOwnFile
    <3> QED BY <1>1, <2>1, <3>2 DEF ExclusiveInv, CompletedHasOutput, TypeOK
  <2> QED BY <1>1, <1>2, <2>1, <2>2, <2>3, <2>4, <2>5, NobodyStartsKeeps DEF Present, Status
<1>5. CASE DeleteFilesMark
  <2>1. /\ UNCHANGED output /\ cmd' = NoCmd
        /\ tasks'[cmd.id].status = "Deleted"
        /\ \A id \in TaskIds \ {cmd.id} : tasks'[id] = tasks[id]
    BY <1>1, <1>5 DEF DeleteFilesMark, fileVars, TypeOK, Task
  <2>2. \A v \in Workers : Working(v) => tasks'[job[v]].status \notin Unattended
    BY <1>3, <2>1 DEF ExclusiveInv, Attended, Status
  <2>3. CommandsInv'
    BY <2>1 DEF CommandsInv, NoCmd
  <2> QED BY <1>1, <1>2, <2>1, <2>2, <2>3, QuietStepKeeps DEF Present, Status
<1> QED BY <1>4, <1>5

LEMMA FinishCmdKeeps ==
    ASSUME ExclusiveInv, RecordsInv', NothingIsTakenUpAgain, FinishCmd
    PROVE  ExclusiveInv'
  BY ControlKeeps, RetryAnswerKeeps, DeleteRecordKeeps, DeleteFilesKeeps DEF FinishCmd

LEMMA SessionKeeps ==
    ASSUME ExclusiveInv, RecordsInv', NothingIsTakenUpAgain, Session
    PROVE  ExclusiveInv'
<1>1. Logout \/ Shutdown \/ Crash
  BY DEF Session, Login, UserAct, NothingIsTakenUpAgain
<1>2. UNCHANGED <<origin, target, issued, output>> /\ TypeOK
  BY <1>1 DEF ExclusiveInv, RecordsInv, Logout, Shutdown, Crash, fileVars
<1>3. \A v \in Workers : /\ Working(v)' => Working(v)
                         /\ job'[v] \in {job[v], NoId}
                         /\ Working(v)' => job'[v] = job[v]
                         /\ HasWhole(v)' => HasWhole(v)
  BY <1>1, <1>2 DEF Logout, Shutdown, Crash, workerVars, Working, HasWhole
<1>4. \A id \in TaskIds : tasks'[id] = tasks[id] \/ tasks'[id].status = "Absent"
  BY <1>1 DEF Logout, Shutdown, Crash, NoTasks, Blank
<1>5. \A v \in Workers : Working(v) => tasks'[job[v]].status \notin Unattended
  BY <1>2, <1>4, WorkingJob DEF ExclusiveInv, Attended, Unattended, Status
<1>6. cmd' = NoCmd \/ (cmd = NoCmd /\ cmd' = cmd)
  BY <1>1 DEF Logout, Shutdown, Crash, UserAct
<1>7. CommandsInv'
  BY <1>6 DEF CommandsInv, NoCmd
<1>8. \A id \in TaskIds : /\ Present(id)' => Present(id)
                          /\ Status(id)' = "Completed" => Status(id) = "Completed" /\ ~Crash
  BY <1>1, <1>4 DEF Present, Status, Crash, NoTasks, Blank
<1>9. ~Crash => cmd' = cmd
  BY <1>1 DEF Logout, Shutdown
<1> QED BY <1>2, <1>3, <1>5, <1>7, <1>8, <1>9, QuietStepKeeps

-----------------------------------------------------------------------------
(* Exclusive work: the theorems *)

LEMMA ExclusiveInit == Init => ExclusiveInv
<1> SUFFICES ASSUME Init PROVE ExclusiveInv
  OBVIOUS
<1>1. RecordsInv
  BY RecordsInit
<1>2. /\ \A v \in Workers : ~Working(v) /\ ~HasWhole(v) /\ job[v] = NoId
      /\ \A id \in TaskIds : Status(id) = "Absent"
      /\ cmd = NoCmd
  BY DEF Init, Working, HasWhole, Status, NoTasks, Blank
<1> QED BY <1>1, <1>2 DEF ExclusiveInv, WorkersNumbered, OneWorkerPerDownload, WorkerOwnsRecord,
           Attended, WholeIsWhole, CommandsInv, CompletedHasOutput, NoCmd

LEMMA ExclusiveNext ==
    ASSUME NothingIsTakenUpAgain, ExclusiveInv, [Next]_vars
    PROVE  ExclusiveInv'
<1>1. RecordsInv'
  BY RecordsNext DEF ExclusiveInv
<1>2. CASE TickSomeDue
  BY <1>1, <1>2, TickKeeps
<1>3. ASSUME NEW w \in Workers, Advance(w) \/ Chunk(w)
      PROVE  ExclusiveInv'
  <2>1. CASE Claim(w) \/ Unregister(w) \/ Recreate(w)
    BY <1>1, <2>1, ClaimKeeps, UnregisterKeeps, RecreateKeeps
  <2>2. CASE \/ Start(w) \/ Halt(w) \/ Metadata(w) \/ Chunk(w) \/ Key(w) \/ Decrypt(w)
             \/ Acknowledge(w) \/ Interrupt(w) \/ Returned(w)
    BY <1>1, <2>2, TransferAtItsFile, AtItsFileKeeps
  <2>3. CASE Register(w) \/ Connect(w) \/ Cancel(w) \/ Discard(w) \/ Complete(w) \/ Fail(w)
    BY <1>1, <2>3, OutcomeAtItsFile, AtItsFileKeeps
  <2> QED BY <1>3, <2>1, <2>2, <2>3 DEF Advance
<1>4. CASE StartCmd
  BY <1>1, <1>4, StartCmdKeeps
<1>5. CASE FinishCmd
  BY <1>1, <1>5, FinishCmdKeeps
<1>6. CASE Session
  BY <1>1, <1>6, SessionKeeps
<1>7. CASE Save \/ UNCHANGED vars
  <2>1. /\ UNCHANGED <<tasks, origin, target, issued, output, pc, job, result, cmd>>
    BY <1>7 DEF Save, vars, queueVars, workerVars, fileVars, userVars
  <2>2. \A v \in Workers : /\ Working(v)' <=> Working(v)
                           /\ HasWhole(v)' <=> HasWhole(v)
    BY <2>1 DEF Working, HasWhole
  <2> QED BY <1>1, <2>1, <2>2, LostReplacementKeeps
<1> QED BY <1>2, <1>3, <1>4, <1>5, <1>6, <1>7 DEF Next

\* No task has two workers, however ticks, recreations, retries, deletions,
\* logouts and crashes interleave, while nothing is resumed and no login reloads
\* the list. Without that hypothesis the queue relies on the interruption of the
\* older worker (OneLiveTransfer).
THEOREM WorkIsExclusive ==
    ASSUME NothingIsTakenUpAgain
    PROVE  Spec => []ExclusiveWork
<1>1. ExclusiveInv /\ [Next]_vars => ExclusiveInv'
  BY ExclusiveNext
<1> QED BY <1>1, ExclusiveInit, ExclusiveImplies, PTL DEF Spec

\* A download that says completed has its whole file, although the outcome is
\* published long after the file was written and other workers discard files in
\* between, provided no other download was given the same destination. That is
\* the user's doing: the code lets any number of downloads share one.
THEOREM CompletedFilesAreWhole ==
    ASSUME NothingIsTakenUpAgain
    PROVE  Spec => []CompletedHasOutput
<1>1. ExclusiveInv /\ [Next]_vars => ExclusiveInv'
  BY ExclusiveNext
<1> QED BY <1>1, ExclusiveInit, ExclusiveImplies, PTL DEF Spec
=============================================================================
