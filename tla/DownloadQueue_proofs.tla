------------------------ MODULE DownloadQueue_proofs ------------------------
(***************************************************************************)
(* Theorems about DownloadQueue, for any sets of tasks and workers, any    *)
(* concurrency limit and retry budget, and any number of user commands.    *)
(***************************************************************************)
EXTENDS DownloadQueue, TLAPS

-----------------------------------------------------------------------------
(* Lists of tasks *)

\* Writing one field of one record keeps a list well formed.
LEMMA FieldType ==
    ASSUME NEW list \in [TaskIds -> Task], NEW id \in TaskIds
    PROVE  /\ \A s \in Statuses : [list EXCEPT ![id].status = s] \in [TaskIds -> Task]
           /\ \A u \in BOOLEAN : [list EXCEPT ![id].unclaimable = u] \in [TaskIds -> Task]
           /\ \A n \in 0..(MaxRetries + 1) :
                 [list EXCEPT ![id].retries = n] \in [TaskIds -> Task]
  BY DEF Task

LEMMA RecordType ==
    ASSUME NEW t \in Task
    PROVE  /\ \A s \in Statuses : [t EXCEPT !.status = s] \in Task
           /\ \A r \in BOOLEAN : [t EXCEPT !.resumable = r] \in Task
  BY DEF Task

\* Writing one status keeps the list well formed.
LEMMA StatusType ==
    ASSUME TypeOK, NEW id \in TaskIds, NEW s \in Statuses
    PROVE  WithNewStatus(id, s) \in [TaskIds -> Task]
  BY DEF TypeOK, WithNewStatus, Task

LEMMA UpdateStatusType ==
    ASSUME TypeOK, NEW id \in TaskIds, NEW s \in Statuses, UpdateStatus(id, s)
    PROVE  tasks' \in [TaskIds -> Task]
  BY StatusType DEF UpdateStatus

LEMMA BlankType == Blank \in Task /\ NoTasks \in [TaskIds -> Task]
  BY QueueAssumption DEF Blank, Task, NoTasks

LEMMA MarkCompletedType ==
    ASSUME TypeOK, NEW id \in TaskIds, MarkCompleted(id)
    PROVE  tasks' \in [TaskIds -> Task]
<1>1. CompletedList(id) \in [TaskIds -> Task]
  <2>1. [tasks EXCEPT ![id].status = "Completed"] \in [TaskIds -> Task]
    BY FieldType DEF TypeOK, Statuses, Terminal
  <2> QED BY <2>1, FieldType DEF TypeOK, CompletedList
<1> QED BY <1>1 DEF MarkCompleted, TypeOK

LEMMA MarkFailedType ==
    ASSUME TypeOK, NEW id \in TaskIds, NEW u \in BOOLEAN, MarkFailed(id, u)
    PROVE  tasks' \in [TaskIds -> Task]
<1> DEFINE list == IF Present(id)
                   THEN [tasks EXCEPT ![id].status = "Failed", ![id].unclaimable = u]
                   ELSE tasks
<1>1. list \in [TaskIds -> Task]
  <2>1. [tasks EXCEPT ![id].status = "Failed"] \in [TaskIds -> Task]
    BY FieldType DEF TypeOK, Statuses, Terminal
  <2> QED BY <2>1, FieldType DEF TypeOK
<1> QED BY <1>1 DEF MarkFailed, TypeOK

LEMMA BumpedType ==
    ASSUME NEW n \in 0..(MaxRetries + 1)
    PROVE  Bumped(n) \in 0..(MaxRetries + 1)
  BY QueueAssumption DEF Bumped

LEMMA RetryOrFailType ==
    ASSUME TypeOK, NEW id \in TaskIds, RetryOrFail(id)
    PROVE  tasks' \in [TaskIds -> Task]
<1> DEFINE count == Bumped(tasks[id].retries)
           list == [tasks EXCEPT ![id].retries = count, ![id].unclaimable = FALSE,
                                 ![id].status = IF count > MaxRetries THEN "Failed"
                                                                      ELSE "Scheduled"]
<1>1. count \in 0..(MaxRetries + 1)
  BY BumpedType DEF TypeOK, Task
<1>2. list \in [TaskIds -> Task]
  <2> HIDE DEF count
  <2>1. [tasks EXCEPT ![id].retries = count] \in [TaskIds -> Task]
    BY <1>1, FieldType DEF TypeOK
  <2>2. [tasks EXCEPT ![id].retries = count, ![id].unclaimable = FALSE] \in [TaskIds -> Task]
    BY <2>1, FieldType
  <2> QED BY <2>2, FieldType DEF Statuses, Terminal
<1>3. CASE Refuses(id) \/ ~Present(id)
  BY <1>3 DEF RetryOrFail, TypeOK
<1>4. CASE ~(Refuses(id) \/ ~Present(id))
  <2>1. tasks' = list
    BY <1>4 DEF RetryOrFail
  <2> HIDE DEF list
  <2> QED BY <1>2, <2>1
<1> QED BY <1>3, <1>4

LEMMA UpdateProgressType ==
    ASSUME TypeOK, NEW w \in Workers, job[w] \in TaskIds, NEW s \in InFlight,
           UpdateProgress(w, s)
    PROVE  tasks' \in [TaskIds -> Task]
<1>1. [tasks EXCEPT ![job[w]].status = s] \in [TaskIds -> Task]
  BY FieldType DEF TypeOK, Statuses
<1> QED BY <1>1 DEF TypeOK, UpdateProgress

LEMMA ReplaceType ==
    ASSUME TypeOK, NEW old \in TaskIds, NEW new \in TaskIds, NEW expected,
           Replace(old, new, expected)
    PROVE  /\ tasks' \in [TaskIds -> Task]
           /\ chunks' \subseteq TaskIds
           /\ origin' \in [TaskIds -> TaskIds]
           /\ issued' \subseteq TaskIds
<1>1. issued' \subseteq TaskIds
  BY DEF Replace, TypeOK
<1>2. CASE Status(old) # expected
  BY <1>1, <1>2 DEF Replace, TypeOK
<1>3. CASE Status(old) = expected
  <2>1. PICK res \in BOOLEAN :
           /\ tasks' = ReplacedList(old, new, res)
           /\ chunks' = chunks \ {old}
           /\ origin' = [origin EXCEPT ![new] = origin[old]]
    BY <1>3 DEF Replace
  <2>2. ReplacedList(old, new, res) \in [TaskIds -> Task]
    BY BlankType DEF TypeOK, ReplacedList, Task, Statuses, Blank
  <2> QED BY <1>1, <2>1, <2>2 DEF TypeOK
<1> QED BY <1>2, <1>3

LEMMA RecoveredType ==
    ASSUME NEW list \in [TaskIds -> Task]
    PROVE  Recovered(list) \in [TaskIds -> Task]
  BY DEF Recovered, Task, Statuses
\* A worker that is neither idle nor about to claim is at a task.
LEMMA JobType ==
    ASSUME TypeOK, NEW w \in Workers, pc[w] \notin {"idle", "ready"}
    PROVE  job[w] \in TaskIds
  BY DEF TypeOK

-----------------------------------------------------------------------------
(* Type correctness *)

LEMMA TypeInit == Init => TypeOK
<1> SUFFICES ASSUME Init PROVE TypeOK
  OBVIOUS
<1>1. tasks \in [TaskIds -> Task] /\ copies \subseteq [TaskIds -> Task]
  BY BlankType DEF Init
<1> QED BY <1>1, QueueAssumption DEF Init, TypeOK, Points

\* The service loop.
LEMMA TypeTick ==
    ASSUME TypeOK, NEW due \in SUBSET TaskIds, Tick(due)
    PROVE  TypeOK'
<1> DEFINE promoted == [id \in TaskIds |->
              IF id \in due THEN [tasks[id] EXCEPT !.status = "Pending"] ELSE tasks[id]]
<1>1. promoted \in [TaskIds -> Task]
  <2>1. ASSUME NEW id \in TaskIds
        PROVE  tasks[id] \in Task /\ [tasks[id] EXCEPT !.status = "Pending"] \in Task
    <3>1. tasks[id] \in Task /\ "Pending" \in Statuses
      BY DEF TypeOK, Statuses
    <3> QED BY <3>1, RecordType
  <2> QED BY <2>1
<1>2. tasks' \in [TaskIds -> Task]
  <2>1. tasks' = promoted
    BY DEF Tick
  <2> HIDE DEF promoted
  <2> QED BY <1>1, <2>1 DEF TypeOK
<1>3. /\ pc' \in [Workers -> Points]
      /\ \A w \in Workers : job'[w] = NoId <=> pc'[w] \in {"idle", "ready"}
  BY DEF TypeOK, Tick, Points
<1> QED BY <1>2, <1>3 DEF TypeOK, Tick, fileVars, userVars

\* A worker's steps, and what each of them does to the list.
LEMMA TypeClaim ==
    ASSUME TypeOK, NEW w \in Workers, Claim(w)
    PROVE  TypeOK'
<1>1. CASE UNCHANGED <<tasks, job>> /\ Goto(w, "idle")
  BY <1>1 DEF TypeOK, Claim, Goto, Points, fileVars, userVars
<1>2. CASE \E id \in MostUrgent : /\ UpdateStatus(id, "Downloading")
                                 /\ job' = [job EXCEPT ![w] = id]
                                 /\ Goto(w, "claimed")
  <2>1. PICK id \in TaskIds : /\ UpdateStatus(id, "Downloading")
                              /\ job' = [job EXCEPT ![w] = id]
                              /\ Goto(w, "claimed")
    BY <1>2 DEF MostUrgent, WithStatus
  <2>2. tasks' \in [TaskIds -> Task]
    BY <2>1, UpdateStatusType DEF Statuses, InFlight
  <2>3. /\ pc' \in [Workers -> Points]
        /\ job' \in [Workers -> TaskIds \cup {NoId}]
        /\ \A v \in Workers : job'[v] = NoId <=> pc'[v] \in {"idle", "ready"}
    BY <2>1, QueueAssumption DEF TypeOK, Goto, Points
  <2> QED BY <2>2, <2>3 DEF TypeOK, Claim, fileVars, userVars
<1> QED BY <1>1, <1>2 DEF Claim

\* Moving a worker from one point of its work on a task to another.
LEMMA GotoType ==
    ASSUME TypeOK, NEW w \in Workers, pc[w] \notin {"idle", "ready"},
           NEW point \in Points \ {"idle", "ready"}, Goto(w, point), UNCHANGED job
    PROVE  /\ pc' \in [Workers -> Points]
           /\ job' \in [Workers -> TaskIds \cup {NoId}]
           /\ \A v \in Workers : job'[v] = NoId <=> pc'[v] \in {"idle", "ready"}
  BY DEF TypeOK, Goto

LEMMA DroppedType ==
    ASSUME TypeOK, NEW id \in TaskIds
    PROVE  Dropped(id) \in [Workers -> BOOLEAN]
  BY DEF TypeOK, Dropped

LEMMA TypeRegister ==
    ASSUME TypeOK, NEW w \in Workers, Register(w)
    PROVE  TypeOK'
<1>1. job[w] \in TaskIds
  BY JobType DEF Register
<1>2. /\ active' \in [TaskIds -> Workers \cup {NoWorker}]
      /\ closed' \in [Workers -> BOOLEAN] /\ cancelled' \in [Workers -> BOOLEAN]
  BY <1>1, DroppedType DEF Register, TypeOK
<1>3. /\ pc' \in [Workers -> Points]
      /\ \A v \in Workers : job'[v] = NoId <=> pc'[v] \in {"idle", "ready"}
  BY GotoType DEF Register, Points
<1> QED BY <1>2, <1>3 DEF TypeOK, Register, queueVars, fileVars, userVars

LEMMA TypeUnregister ==
    ASSUME TypeOK, NEW w \in Workers, Unregister(w)
    PROVE  TypeOK'
<1>1. job[w] \in TaskIds
  BY JobType DEF Unregister
<1>2. /\ active' \in [TaskIds -> Workers \cup {NoWorker}]
      /\ closed' \in [Workers -> BOOLEAN] /\ cancelled' \in [Workers -> BOOLEAN]
      /\ result' \in [Workers -> Errors \cup {"none", "ok"}]
      /\ keeps' \in [Workers -> BOOLEAN]
  BY <1>1, DroppedType DEF Unregister, EntryRemoved, TypeOK
<1>3. /\ pc' \in [Workers -> Points]
      /\ job' \in [Workers -> TaskIds \cup {NoId}]
      /\ \A v \in Workers : job'[v] = NoId <=> pc'[v] \in {"idle", "ready"}
  BY DEF Unregister, Goto, GoesOn, TypeOK, Points
<1> QED BY <1>2, <1>3 DEF TypeOK, Unregister, queueVars, fileVars, userVars

LEMMA TypeConnect ==
    ASSUME TypeOK, NEW w \in Workers, Connect(w)
    PROVE  TypeOK'
<1>1. job[w] \in TaskIds
  BY JobType DEF Connect
<1>2. tasks' \in [TaskIds -> Task]
  BY <1>1, RetryOrFailType, MarkFailedType DEF Connect, TypeOK
<1>3. /\ pc' \in [Workers -> Points]
      /\ \A v \in Workers : job'[v] = NoId <=> pc'[v] \in {"idle", "ready"}
  BY GotoType DEF Connect, Points
<1> QED BY <1>2, <1>3 DEF TypeOK, Connect, fileVars, userVars

LEMMA TypeStart ==
    ASSUME TypeOK, NEW w \in Workers, Start(w)
    PROVE  TypeOK'
<1>1. keeps' \in [Workers -> BOOLEAN]
  BY JobType DEF Start, TypeOK, Task
<1>2. /\ pc' \in [Workers -> Points]
      /\ \A v \in Workers : job'[v] = NoId <=> pc'[v] \in {"idle", "ready"}
  BY GotoType DEF Start, Points
<1> QED BY <1>1, <1>2 DEF TypeOK, Start, queueVars, fileVars, userVars

LEMMA TypeHalt ==
    ASSUME TypeOK, NEW w \in Workers, Halt(w)
    PROVE  TypeOK'
<1>1. /\ pc' \in [Workers -> Points]
      /\ \A v \in Workers : job'[v] = NoId <=> pc'[v] \in {"idle", "ready"}
  BY GotoType DEF Halt, Points
<1> QED BY <1>1 DEF TypeOK, Halt, queueVars, fileVars, userVars

LEMMA TypeCancel ==
    ASSUME TypeOK, NEW w \in Workers, Cancel(w)
    PROVE  TypeOK'
<1>1. tasks' \in [TaskIds -> Task]
  BY JobType, UpdateStatusType DEF Cancel, TypeOK, Statuses, Terminal
<1>2. /\ pc' \in [Workers -> Points]
      /\ \A v \in Workers : job'[v] = NoId <=> pc'[v] \in {"idle", "ready"}
  BY GotoType DEF Cancel, Points
<1> QED BY <1>1, <1>2 DEF TypeOK, Cancel, fileVars, userVars

LEMMA TypeMetadata ==
    ASSUME TypeOK, NEW w \in Workers, Metadata(w)
    PROVE  TypeOK'
<1>1. job[w] \in TaskIds
  BY JobType DEF Metadata
<1>2. tasks' \in [TaskIds -> Task]
  BY <1>1, UpdateProgressType DEF Metadata, TypeOK, InFlight
<1>3. /\ chunks' \subseteq TaskIds
      /\ output' \in [Files -> {"none", "partial", "complete"}]
      /\ result' \in [Workers -> Errors \cup {"none", "ok"}]
  BY <1>1 DEF Metadata, Finish, TypeOK
<1>4. /\ pc' \in [Workers -> Points]
      /\ \A v \in Workers : job'[v] = NoId <=> pc'[v] \in {"idle", "ready"}
  BY GotoType DEF Metadata, Finish, Points
<1> QED BY <1>2, <1>3, <1>4 DEF TypeOK, Metadata, userVars

LEMMA TypeChunk ==
    ASSUME TypeOK, NEW w \in Workers, Chunk(w)
    PROVE  TypeOK'
<1>1. tasks' \in [TaskIds -> Task]
  BY JobType, UpdateProgressType DEF Chunk, InFlight
<1> QED BY <1>1 DEF TypeOK, Chunk, workerVars, fileVars, userVars

LEMMA TypeKey ==
    ASSUME TypeOK, NEW w \in Workers, Key(w)
    PROVE  TypeOK'
<1>1. job[w] \in TaskIds
  BY JobType DEF Key
<1>2. tasks' \in [TaskIds -> Task]
  BY <1>1, UpdateProgressType DEF Key, TypeOK, InFlight
<1>3. /\ output' \in [Files -> {"none", "partial", "complete"}]
      /\ result' \in [Workers -> Errors \cup {"none", "ok"}]
  BY <1>1 DEF Key, Finish, TypeOK
<1>4. /\ pc' \in [Workers -> Points]
      /\ \A v \in Workers : job'[v] = NoId <=> pc'[v] \in {"idle", "ready"}
  BY GotoType DEF Key, Finish, Points
<1> QED BY <1>2, <1>3, <1>4 DEF TypeOK, Key, userVars

LEMMA TypeDecrypt ==
    ASSUME TypeOK, NEW w \in Workers, Decrypt(w)
    PROVE  TypeOK'
<1>1. job[w] \in TaskIds
  BY JobType DEF Decrypt
<1>2. tasks' \in [TaskIds -> Task]
  BY <1>1, UpdateProgressType DEF Decrypt, TypeOK, InFlight
<1>3. /\ output' \in [Files -> {"none", "partial", "complete"}]
      /\ result' \in [Workers -> Errors \cup {"none", "ok"}]
  BY <1>1 DEF Decrypt, Verified, Finish, Errors, TypeOK
<1>4. /\ pc' \in [Workers -> Points]
      /\ \A v \in Workers : job'[v] = NoId <=> pc'[v] \in {"idle", "ready"}
  BY GotoType DEF Decrypt, Finish, Points
<1> QED BY <1>2, <1>3, <1>4 DEF TypeOK, Decrypt, userVars

LEMMA TypeAcknowledge ==
    ASSUME TypeOK, NEW w \in Workers, Acknowledge(w)
    PROVE  TypeOK'
<1>1. job[w] \in TaskIds
  BY JobType DEF Acknowledge
<1>2. tasks' \in [TaskIds -> Task]
  BY <1>1, UpdateProgressType DEF Acknowledge, TypeOK, InFlight
<1>3. /\ chunks' \subseteq TaskIds
      /\ result' \in [Workers -> Errors \cup {"none", "ok"}]
  BY DEF Acknowledge, Finish, TypeOK
<1>4. /\ pc' \in [Workers -> Points]
      /\ \A v \in Workers : job'[v] = NoId <=> pc'[v] \in {"idle", "ready"}
  BY GotoType DEF Acknowledge, Finish, Points
<1> QED BY <1>2, <1>3, <1>4 DEF TypeOK, Acknowledge, userVars

LEMMA TypeInterrupt ==
    ASSUME TypeOK, NEW w \in Workers, Interrupt(w)
    PROVE  TypeOK'
<1>1. /\ pc' \in [Workers -> Points]
      /\ \A v \in Workers : job'[v] = NoId <=> pc'[v] \in {"idle", "ready"}
  BY GotoType DEF Interrupt, Finish, Points
<1> QED BY <1>1 DEF TypeOK, Interrupt, Finish, queueVars, fileVars, userVars

LEMMA TypeReturned ==
    ASSUME TypeOK, NEW w \in Workers, Returned(w)
    PROVE  TypeOK'
<1>1. /\ pc' \in [Workers -> Points]
      /\ \A v \in Workers : job'[v] = NoId <=> pc'[v] \in {"idle", "ready"}
  BY GotoType DEF Returned, Points
<1> QED BY <1>1 DEF TypeOK, Returned, queueVars, fileVars, userVars

LEMMA TypeDiscard ==
    ASSUME TypeOK, NEW w \in Workers, Discard(w)
    PROVE  TypeOK'
<1>1. job[w] \in TaskIds
  BY JobType DEF Discard
<1>2. tasks' \in [TaskIds -> Task]
  BY <1>1, UpdateStatusType DEF Discard, Statuses, Terminal
<1>3. /\ pc' \in [Workers -> Points]
      /\ \A v \in Workers : job'[v] = NoId <=> pc'[v] \in {"idle", "ready"}
  BY GotoType DEF Discard, Points
<1> QED BY <1>2, <1>3 DEF TypeOK, Discard, userVars

LEMMA TypeComplete ==
    ASSUME TypeOK, NEW w \in Workers, Complete(w)
    PROVE  TypeOK'
<1>1. tasks' \in [TaskIds -> Task]
  BY JobType, MarkCompletedType DEF Complete
<1>2. /\ pc' \in [Workers -> Points]
      /\ \A v \in Workers : job'[v] = NoId <=> pc'[v] \in {"idle", "ready"}
  BY GotoType DEF Complete, Points
<1> QED BY <1>1, <1>2 DEF TypeOK, Complete, fileVars, userVars

LEMMA TypeFail ==
    ASSUME TypeOK, NEW w \in Workers, Fail(w)
    PROVE  TypeOK'
<1>1. job[w] \in TaskIds
  BY JobType DEF Fail
<1>2. tasks' \in [TaskIds -> Task]
  BY <1>1, RetryOrFailType, MarkFailedType DEF Fail, TypeOK
<1>3. /\ pc' \in [Workers -> Points]
      /\ \A v \in Workers : job'[v] = NoId <=> pc'[v] \in {"idle", "ready"}
  BY GotoType DEF Fail, Points
<1>4. chunks' \subseteq TaskIds
  BY DEF Fail, TypeOK
<1> QED BY <1>2, <1>3, <1>4 DEF TypeOK, Fail, userVars

LEMMA TypeRecreate ==
    ASSUME TypeOK, NEW w \in Workers, Recreate(w)
    PROVE  TypeOK'
<1>1. job[w] \in TaskIds
  BY JobType DEF Recreate
<1>2. /\ tasks' \in [TaskIds -> Task]
      /\ chunks' \subseteq TaskIds
      /\ origin' \in [TaskIds -> TaskIds]
      /\ issued' \subseteq TaskIds
  <2>1. CASE \E new \in TaskIds \ issued : Replace(job[w], new, "Downloading")
    BY <1>1, <2>1, ReplaceType
  <2>2. CASE MarkFailed(job[w], TRUE) /\ UNCHANGED <<issued, chunks, origin>>
    BY <1>1, <2>2, MarkFailedType DEF TypeOK
  <2> QED BY <2>1, <2>2 DEF Recreate
<1>3. /\ pc' \in [Workers -> Points]
      /\ \A v \in Workers : job'[v] = NoId <=> pc'[v] \in {"idle", "ready"}
  BY GotoType DEF Recreate, Points
<1> QED BY <1>2, <1>3 DEF TypeOK, Recreate

\* The user's commands.
LEMMA TypeStartCmd ==
    ASSUME TypeOK, StartCmd
    PROVE  TypeOK'
<1> USE DEF UserAct
<1>1. \A op \in UserOps : op \in AllOps
  BY QueueAssumption
<1>2. userActions < MaxUserActions => userActions + 1 \in 0..MaxUserActions
  BY QueueAssumption DEF TypeOK
<1>3. CASE Add
  <2>1. PICK id \in TaskIds \ issued, res \in BOOLEAN :
           tasks' = [tasks EXCEPT ![id] = [Blank EXCEPT !.status = "Pending", !.resumable = res]]
    BY <1>3 DEF Add
  <2>2. [Blank EXCEPT !.status = "Pending", !.resumable = res] \in Task
    <3>1. [Blank EXCEPT !.status = "Pending"] \in Task
      BY BlankType, RecordType DEF Statuses
    <3> QED BY <3>1, RecordType
  <2>3. [tasks EXCEPT ![id] = [Blank EXCEPT !.status = "Pending", !.resumable = res]]
           \in [TaskIds -> Task]
    BY <2>2 DEF TypeOK
  <2>4. tasks' \in [TaskIds -> Task]
    BY <2>1, <2>3
  <2>5. issued' \subseteq TaskIds
    BY <1>3 DEF Add, TypeOK
  <2> QED BY <1>2, <1>3, <2>4, <2>5 DEF TypeOK, Add, workerVars, fileVars
<1>4. ASSUME NEW id \in TaskIds, NEW op \in {"pause", "resume", "cancel"}, Control(op, id)
      PROVE  TypeOK'
  <2>1. cmd' \in [op: AllOps, id: TaskIds, step: Steps]
    BY <1>4 DEF Control, Pending, AllOps, Steps
  <2> QED BY <1>2, <1>4, <2>1 DEF TypeOK, Control, queueVars, workerVars, fileVars
<1>5. ASSUME NEW id \in TaskIds, Retry(id)
      PROVE  TypeOK'
  <2>1. cmd' \in [op: AllOps, id: TaskIds, step: Steps] \cup {NoCmd}
    BY <1>5 DEF Retry, Pending, AllOps, Steps, TypeOK
  <2>2. tasks' \in [TaskIds -> Task]
    <3>1. CASE UNCHANGED tasks
      BY <3>1 DEF TypeOK
    <3>2. CASE tasks' = [tasks EXCEPT ![id].status = "Pending", ![id].retries = 0]
      <4>1. [tasks EXCEPT ![id].status = "Pending"] \in [TaskIds -> Task]
        BY FieldType DEF TypeOK, Statuses
      <4>2. [tasks EXCEPT ![id].status = "Pending", ![id].retries = 0] \in [TaskIds -> Task]
        <5>1. 0 \in 0..(MaxRetries + 1)
          BY QueueAssumption
        <5> QED BY <4>1, <5>1, FieldType
      <4> QED BY <3>2, <4>2
    <3> QED BY <1>5, <3>1, <3>2 DEF Retry
  <2> QED BY <1>2, <1>5, <2>1, <2>2 DEF TypeOK, Retry, workerVars, fileVars
<1>6. ASSUME NEW id \in TaskIds, Delete(id)
      PROVE  TypeOK'
  <2>1. cmd' \in [op: AllOps, id: TaskIds, step: Steps]
    BY <1>6 DEF Delete, Pending, AllOps, Steps
  <2>2. /\ output' \in [Files -> {"none", "partial", "complete"}]
        /\ chunks' \subseteq TaskIds
    BY <1>6 DEF Delete, TypeOK
  <2> QED BY <1>2, <1>6, <2>1, <2>2 DEF TypeOK, Delete, queueVars, workerVars
<1>7. ASSUME NEW id \in TaskIds, DeleteFiles(id)
      PROVE  TypeOK'
  <2>1. cmd' \in [op: AllOps, id: TaskIds, step: Steps]
    BY <1>7 DEF DeleteFiles, Pending, AllOps, Steps
  <2> QED BY <1>2, <1>7, <2>1 DEF TypeOK, DeleteFiles, queueVars, workerVars, fileVars
<1>8. ASSUME NEW op \in DOMAIN Clears, NEW gone \in SUBSET TaskIds, RemoveRecords(op, gone)
      PROVE  TypeOK'
  <2>1. [id \in TaskIds |-> IF id \in gone THEN Blank ELSE tasks[id]] \in [TaskIds -> Task]
    BY BlankType DEF TypeOK
  <2>2. tasks' \in [TaskIds -> Task]
    BY <1>8, <2>1 DEF RemoveRecords
  <2>3. chunks' \subseteq TaskIds
    BY <1>8 DEF RemoveRecords, TypeOK
  <2> QED BY <1>2, <1>8, <2>2, <2>3 DEF TypeOK, RemoveRecords, workerVars
<1> QED BY <1>3, <1>4, <1>5, <1>6, <1>7, <1>8 DEF StartCmd

LEMMA TypeFinishCmd ==
    ASSUME TypeOK, FinishCmd
    PROVE  TypeOK'
<1>1. cmd # NoCmd => cmd \in [op: AllOps, id: TaskIds, step: Steps]
  BY DEF TypeOK
<1>2. CASE ControlWrite
  <2>1. cmd.op \in {"pause", "resume", "cancel"}
    BY <1>2 DEF ControlWrite, Written
  <2>2. cmd.id \in TaskIds /\ Written[cmd.op] \in Statuses
    BY <1>1, <2>1 DEF NoCmd, Written, Statuses, Terminal
  <2>3. tasks' \in [TaskIds -> Task]
    BY <1>2, <2>2, UpdateStatusType DEF ControlWrite
  <2>4. cmd' \in [op: AllOps, id: TaskIds, step: Steps] \cup {NoCmd}
    BY <1>1, <1>2, <2>1 DEF ControlWrite, NoCmd, Steps
  <2> QED BY <1>2, <2>3, <2>4 DEF TypeOK, ControlWrite, workerVars, fileVars
<1>3. CASE ControlSignal
  <2>1. chunks' \subseteq TaskIds
    BY <1>3 DEF ControlSignal, TypeOK
  <2>2. cancelled' \in [Workers -> BOOLEAN]
    BY <1>3 DEF ControlSignal, TypeOK
  <2> QED BY <1>3, <2>1, <2>2 DEF TypeOK, ControlSignal, queueVars
<1>4. CASE RetryAnswer
  <2>1. cmd.id \in TaskIds
    BY <1>1, <1>4 DEF RetryAnswer, NoCmd
  <2>2. /\ tasks' \in [TaskIds -> Task]
        /\ chunks' \subseteq TaskIds
        /\ origin' \in [TaskIds -> TaskIds]
        /\ issued' \subseteq TaskIds
    <3>1. CASE \E new \in TaskIds \ issued : Replace(cmd.id, new, "Failed")
      BY <2>1, <3>1, ReplaceType
    <3>2. CASE UNCHANGED <<tasks, chunks, origin, issued>>
      BY <3>2 DEF TypeOK
    <3> QED BY <1>4, <3>1, <3>2 DEF RetryAnswer
  <2> QED BY <1>4, <2>2 DEF TypeOK, RetryAnswer, workerVars
<1>5. CASE DeleteRecord
  <2>1. cmd.id \in TaskIds
    BY <1>1, <1>5 DEF DeleteRecord, NoCmd
  <2>2. [tasks EXCEPT ![cmd.id] = Blank] \in [TaskIds -> Task]
    BY <2>1, BlankType DEF TypeOK
  <2>3. tasks' \in [TaskIds -> Task]
    BY <1>5, <2>2 DEF DeleteRecord, TypeOK
  <2> QED BY <1>5, <2>3 DEF TypeOK, DeleteRecord, workerVars, fileVars
<1>6. CASE DeleteFilesRemove
  <2>1. cmd' \in [op: AllOps, id: TaskIds, step: Steps]
    BY <1>1, <1>6 DEF DeleteFilesRemove, NoCmd, Steps
  <2>2. output' \in [Files -> {"none", "partial", "complete"}]
    BY <1>6 DEF DeleteFilesRemove, TypeOK
  <2> QED BY <1>6, <2>1, <2>2 DEF TypeOK, DeleteFilesRemove, queueVars, workerVars
<1>7. CASE DeleteFilesMark
  <2>1. cmd.id \in TaskIds
    BY <1>1, <1>7 DEF DeleteFilesMark, NoCmd
  <2>2. [tasks EXCEPT ![cmd.id].status = "Deleted"] \in [TaskIds -> Task]
    BY <2>1, FieldType DEF TypeOK, Statuses, Terminal
  <2>3. [tasks EXCEPT ![cmd.id].status = "Deleted", ![cmd.id].unclaimable = FALSE]
           \in [TaskIds -> Task]
    BY <2>1, <2>2, FieldType
  <2>4. tasks' \in [TaskIds -> Task]
    BY <1>7, <2>3 DEF DeleteFilesMark, TypeOK
  <2> QED BY <1>7, <2>4 DEF TypeOK, DeleteFilesMark, workerVars, fileVars
<1> QED BY <1>2, <1>3, <1>4, <1>5, <1>6, <1>7 DEF FinishCmd

LEMMA TypeSession ==
    ASSUME TypeOK, Session
    PROVE  TypeOK'
<1> USE DEF UserAct
<1>1. userActions < MaxUserActions => userActions + 1 \in 0..MaxUserActions
  BY QueueAssumption DEF TypeOK
<1>2. CASE Logout
  BY <1>1, <1>2, BlankType DEF TypeOK, Logout, workerVars, fileVars
<1>3. CASE Login
  <2>1. tasks' \in [TaskIds -> Task]
    BY <1>3, RecoveredType DEF Login, TypeOK
  <2> QED BY <1>1, <1>3, <2>1 DEF TypeOK, Login, workerVars, fileVars
<1>4. CASE Shutdown
  <2>1. cancelled' \in [Workers -> BOOLEAN]
    BY <1>4 DEF Shutdown, TypeOK
  <2> QED BY <1>1, <1>4, <2>1 DEF TypeOK, Shutdown, fileVars
<1>5. CASE Crash
  BY <1>1, <1>5, BlankType DEF TypeOK, Crash, fileVars, Points
<1> QED BY <1>2, <1>3, <1>4, <1>5 DEF Session

LEMMA TypeSave == TypeOK /\ Save => TypeOK'
  BY DEF TypeOK, Save, workerVars, fileVars, userVars

LEMMA TypeNext == TypeOK /\ [Next]_vars => TypeOK'
<1> SUFFICES ASSUME TypeOK, [Next]_vars PROVE TypeOK'
  OBVIOUS
<1>1. CASE TickSomeDue
  BY <1>1, TypeTick DEF TickSomeDue, WithStatus
<1>2. ASSUME NEW w \in Workers, Advance(w) \/ Chunk(w)
      PROVE  TypeOK'
  BY <1>2, TypeClaim, TypeRegister, TypeConnect, TypeStart, TypeHalt, TypeCancel, TypeMetadata,
     TypeKey, TypeDecrypt, TypeAcknowledge, TypeInterrupt, TypeReturned, TypeDiscard, TypeComplete,
     TypeFail, TypeRecreate, TypeUnregister, TypeChunk DEF Advance
<1>3. CASE StartCmd \/ FinishCmd \/ Save \/ Session
  BY <1>3, TypeStartCmd, TypeFinishCmd, TypeSave, TypeSession
<1>4. CASE UNCHANGED vars
  BY <1>4 DEF TypeOK, vars, queueVars, workerVars, fileVars, userVars
<1> QED BY <1>1, <1>2, <1>3, <1>4 DEF Next

\* Every variable keeps its type: in particular a worker holds a task exactly
\* while it is neither idle nor about to claim, across every early return of
\* download_worker and execute_download, and across a crash.
THEOREM TypeCorrect == Spec => []TypeOK
  BY TypeInit, TypeNext, PTL DEF Spec

-----------------------------------------------------------------------------
(* What the operators on lists do to statuses *)

Flying == {"Downloading", "Decrypting"}

\* Every task but id is as it was.
OnlyAt(id) == \A other \in TaskIds \ {id} : tasks'[other] = tasks[other]

LEMMA UpdateStatusEffect ==
    ASSUME TypeOK, NEW id \in TaskIds, NEW s \in Statuses, UpdateStatus(id, s)
    PROVE  OnlyAt(id) /\ tasks'[id].status \in {s, "Absent"}
  BY DEF TypeOK, UpdateStatus, WithNewStatus, OnlyAt, Present, Status, Task

LEMMA UpdateProgressEffect ==
    ASSUME TypeOK, NEW w \in Workers, job[w] \in TaskIds, NEW s \in InFlight,
           UpdateProgress(w, s)
    PROVE  /\ OnlyAt(job[w])
           /\ tasks'[job[w]].status \in {s, Status(job[w])}
           /\ Status(job[w]) \in Settled \cup {"Absent"} => tasks' = tasks
  BY DEF TypeOK, UpdateProgress, OnlyAt, Status, Task

LEMMA MarkCompletedEffect ==
    ASSUME TypeOK, NEW id \in TaskIds, MarkCompleted(id)
    PROVE  /\ OnlyAt(id) /\ tasks'[id].status \notin Flying
           /\ Status(id) = "Cancelled" => tasks'[id].status = "Cancelled"
<1>1. CASE Refuses(id)
  BY <1>1 DEF MarkCompleted, Refuses, OnlyAt, Status, Flying
<1>2. CASE ~Refuses(id)
  <2>1. tasks' = CompletedList(id) /\ tasks[id] \in Task
    BY <1>2 DEF MarkCompleted, TypeOK
  <2> QED BY <1>2, <2>1 DEF CompletedList, OnlyAt, Status, Present, Refuses, Flying, TypeOK, Task
<1> QED BY <1>1, <1>2

LEMMA MarkFailedEffect ==
    ASSUME TypeOK, NEW id \in TaskIds, NEW u \in BOOLEAN, MarkFailed(id, u)
    PROVE  /\ OnlyAt(id) /\ tasks'[id].status \notin Flying
           /\ Status(id) = "Cancelled" => tasks'[id].status = "Cancelled"
<1>1. CASE Refuses(id) \/ ~Present(id)
  BY <1>1 DEF MarkFailed, Refuses, Present, OnlyAt, Status, Flying
<1>2. CASE ~(Refuses(id) \/ ~Present(id))
  <2>1. /\ tasks' = [tasks EXCEPT ![id].status = "Failed", ![id].unclaimable = u]
        /\ tasks[id] \in Task
    BY <1>2 DEF MarkFailed, TypeOK
  <2> QED BY <1>2, <2>1 DEF OnlyAt, Status, Present, Refuses, Flying, TypeOK, Task
<1> QED BY <1>1, <1>2

LEMMA RetryOrFailEffect ==
    ASSUME TypeOK, NEW id \in TaskIds, RetryOrFail(id)
    PROVE  /\ OnlyAt(id) /\ tasks'[id].status \notin Flying
           /\ Status(id) = "Cancelled" => tasks'[id].status = "Cancelled"
<1>1. CASE Refuses(id) \/ ~Present(id)
  BY <1>1 DEF RetryOrFail, Refuses, Present, OnlyAt, Status, Flying
<1>2. CASE ~(Refuses(id) \/ ~Present(id))
  <2> DEFINE count == Bumped(tasks[id].retries)
             next == IF count > MaxRetries THEN "Failed" ELSE "Scheduled"
  <2>1. /\ tasks' = [tasks EXCEPT ![id].retries = count, ![id].unclaimable = FALSE,
                                  ![id].status = next]
        /\ tasks[id] \in Task
    BY <1>2 DEF RetryOrFail, TypeOK
  <2>2. next \in {"Failed", "Scheduled"}
    OBVIOUS
  <2> HIDE DEF count, next
  <2>3. tasks'[id].status = next /\ OnlyAt(id)
    BY <2>1 DEF OnlyAt, TypeOK, Task
  <2> QED BY <1>2, <2>2, <2>3 DEF Refuses, Status, Flying
<1> QED BY <1>1, <1>2

LEMMA ReplaceEffect ==
    ASSUME TypeOK, NEW old \in TaskIds, NEW new \in TaskIds, NEW expected,
           Replace(old, new, expected)
    PROVE  /\ Status(old) # expected => tasks' = tasks
           /\ Status(old) = expected => /\ new # old => tasks'[old] = Blank
                                        /\ tasks'[new].status = "Pending"
           /\ \A id \in TaskIds \ {old, new} : tasks'[id] = tasks[id]
<1>1. CASE Status(old) # expected
  BY <1>1 DEF Replace
<1>2. CASE Status(old) = expected
  <2>1. PICK res \in BOOLEAN : tasks' = ReplacedList(old, new, res)
    BY <1>2 DEF Replace
  <2> QED BY <1>2, <2>1 DEF ReplacedList, TypeOK, Blank
<1> QED BY <1>1, <1>2
=============================================================================
