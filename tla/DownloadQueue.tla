---------------------------- MODULE DownloadQueue ----------------------------
(***************************************************************************)
(* The background download queue (crates/service/.../download_queue.rs)    *)
(* and the Tauri commands that control it (commands/downloads.rs,          *)
(* commands/upload_tasks.rs).                                              *)
(*                                                                         *)
(* Three kinds of actors share two mutex-protected maps:                   *)
(*   - the service loop, whose tick promotes due retries and spawns        *)
(*     workers up to the concurrency limit;                                *)
(*   - the workers, which claim a pending task, register a cancellation    *)
(*     channel for it, run the transfer and publish its outcome;           *)
(*   - the user's commands, most of which read a task under the lock,      *)
(*     release it, and write the status they decided on afterwards.        *)
(*                                                                         *)
(* One action is one critical section (with the file operations next to    *)
(* it); everything between two critical sections can be interleaved.       *)
(* Saving is not part of the step that changes the list: a save clones the *)
(* list later, on its own, and writes that copy when it gets to it. All    *)
(* that is kept of it here is which copies there are, since a login may    *)
(* find any of them in the file; how overlapping saves, logouts and resets *)
(* decide which one it is, is the subject of QueuePersistence.             *)
(***************************************************************************)
EXTENDS Naturals, FiniteSets

CONSTANTS
    TaskIds,         \* the task identifiers the server may issue
    Workers,         \* identities for the spawned worker futures
    MaxConcurrent,   \* download_max_concurrent, already clamped
    MaxRetries,      \* max_retries of every task
    Files,           \* the destination files
    Urgency,         \* priority and age of a download, by its first identifier
    UserOps,         \* the commands the user issues
    MaxUserActions,  \* bound on the number of commands in a behaviour
    MaxCopies,       \* bound on the copies of the list that saves have made
    NoId, NoWorker

AllOps == {"add", "pause", "resume", "cancel", "retry", "delete", "delete_files",
           "clear_completed", "clear_failed", "remove_terminal",
           "logout", "login", "shutdown", "crash"}

ASSUME QueueAssumption ==
    /\ IsFiniteSet(TaskIds) /\ IsFiniteSet(Workers)
    /\ MaxConcurrent \in Nat \ {0}
    /\ MaxRetries \in Nat
    /\ Urgency \in [TaskIds -> Nat]
    /\ UserOps \subseteq AllOps
    /\ MaxUserActions \in Nat /\ MaxCopies \in Nat
    /\ NoId \notin TaskIds
    /\ NoWorker \notin Workers

VARIABLES
    tasks,       \* QueueState.tasks; status "Absent" stands for no entry
    copies,      \* lists a save has cloned; the user's file holds one of them
    persisting,  \* QueueState.persist_ctx is Some (set by load, reset by clear)
    running,     \* the service loop has not been shut down
    active,      \* ActiveRegistry.inner: whose channel is registered for a task
    pc, job,     \* control point of each worker and the task it claimed
    cancelled,   \* value of the worker's watch channel
    closed,      \* the sender of that channel has been dropped
    result,      \* what the transfer future returned
    keeps,       \* the worker's transfer writes the persistent chunk store
    chunks,      \* tasks with a chunk store file on disk
    origin,      \* identifier under which the download of a task was added
    target,      \* file_path of the download added under an identifier
    output,      \* state of each destination file
    cmd,         \* the command being executed, between its critical sections
    issued,      \* identifiers issued so far
    userActions  \* commands issued so far

queueVars  == <<tasks, copies, persisting, running>>
workerVars == <<active, pc, job, cancelled, closed, result, keeps>>
fileVars   == <<chunks, origin, target, output>>
userVars   == <<cmd, issued, userActions>>
vars       == <<queueVars, workerVars, fileVars, userVars>>

-----------------------------------------------------------------------------
(* Data *)

Terminal  == {"Completed", "Deleted", "Failed", "Cancelled"}
InFlight  == {"Downloading", "Decrypting", "Verifying"}
Statuses  == Terminal \cup InFlight \cup {"Pending", "Scheduled", "Paused"}

Task == [status: Statuses \cup {"Absent"}, resumable: BOOLEAN,
         retries: 0..(MaxRetries + 1), recreated: BOOLEAN, unclaimable: BOOLEAN]

Blank == [status |-> "Absent", resumable |-> FALSE, retries |-> 0,
          recreated |-> FALSE, unclaimable |-> FALSE]

NoTasks == [id \in TaskIds |-> Blank]

NoCmd == [op |-> "none", id |-> NoId, step |-> "none"]

Steps == {"write", "signal", "request", "remove"}

Points == {"idle", "ready", "claimed", "connecting", "starting", "halting",
           "cancelling", "request", "chunks", "decrypt", "ack", "returned", "discarding",
           "completing", "failing", "recreating", "leaving", "looping"}

Errors == {"transient", "permanent", "unclaimable"}

TypeOK ==
    /\ tasks \in [TaskIds -> Task]
    /\ copies \subseteq [TaskIds -> Task]
    /\ persisting \in BOOLEAN /\ running \in BOOLEAN
    /\ active \in [TaskIds -> Workers \cup {NoWorker}]
    /\ pc \in [Workers -> Points]
    /\ job \in [Workers -> TaskIds \cup {NoId}]
    /\ \A w \in Workers : job[w] = NoId <=> pc[w] \in {"idle", "ready"}
    /\ cancelled \in [Workers -> BOOLEAN] /\ closed \in [Workers -> BOOLEAN]
    /\ result \in [Workers -> Errors \cup {"none", "ok"}]
    /\ keeps \in [Workers -> BOOLEAN]
    /\ chunks \subseteq TaskIds
    /\ origin \in [TaskIds -> TaskIds]
    /\ target \in [TaskIds -> Files]
    /\ output \in [Files -> {"none", "partial", "complete"}]
    /\ cmd \in [op: AllOps, id: TaskIds, step: Steps] \cup {NoCmd}
    /\ issued \subseteq TaskIds
    /\ userActions \in 0..MaxUserActions

Status(id)  == tasks[id].status
Present(id) == Status(id) # "Absent"
WithStatus(s) == {id \in TaskIds : Status(id) = s}

\* The destination of a task: a replacement keeps the one of the download.
File(id) == target[origin[id]]

\* update_status: unconditional when the task exists.
WithNewStatus(id, s) ==
    IF Present(id) THEN [tasks EXCEPT ![id].status = s] ELSE tasks

UpdateStatus(id, s) == tasks' = WithNewStatus(id, s)

Settled == {"Cancelled", "Completed", "Deleted", "Failed", "Paused"}

\* update_progress overwrites the status. The callback looks at its channel
\* before that, without the lock: a signal may come in between.
UpdateProgress(w, s) ==
    \/ cancelled[w] /\ UNCHANGED tasks
    \/ tasks' = IF Status(job[w]) \in Settled \cup {"Absent"}
                THEN tasks ELSE [tasks EXCEPT ![job[w]].status = s]

\* Mutant: completion and failure give way to a pause only.
RefusesWhenPaused(id) == Status(id) = "Paused"

\* mark_completed and mark_failed give way to Paused and Cancelled only.
Refuses(id) == Status(id) \in {"Cancelled", "Paused"}

CompletedList(id) ==
    IF Present(id) THEN [tasks EXCEPT ![id].status = "Completed", ![id].unclaimable = FALSE]
                   ELSE tasks

MarkCompleted(id) == tasks' = IF Refuses(id) THEN tasks ELSE CompletedList(id)

MarkFailed(id, unclaimable) ==
    tasks' = IF Refuses(id) \/ ~Present(id)
             THEN tasks
             ELSE [tasks EXCEPT ![id].status = "Failed", ![id].unclaimable = unclaimable]

\* retry_or_fail: one more attempt is scheduled while the budget lasts. The
\* counter is only compared with max_retries, so it saturates just above it.
\* Mutant: the counter is not advanced.
SameCount(n) == n

Bumped(n) == IF n > MaxRetries THEN n ELSE n + 1

RetryOrFail(id) ==
    LET count == Bumped(tasks[id].retries)
    IN  tasks' = IF Refuses(id) \/ ~Present(id)
                 THEN tasks
                 ELSE [tasks EXCEPT ![id].retries = count, ![id].unclaimable = FALSE,
                                    ![id].status = IF count > MaxRetries THEN "Failed"
                                                                         ELSE "Scheduled"]

\* Mutant: the record of the old identifier stays in the list.
ReplacedListKeepingOld(old, new, res) ==
    [tasks EXCEPT ![new] = [Blank EXCEPT !.status = "Pending", !.resumable = res,
                                         !.recreated = TRUE]]

\* replace_server_task, once its checks on both identifiers have passed.
ReplacedList(old, new, res) ==
    [tasks EXCEPT ![old] = Blank,
                  ![new] = [Blank EXCEPT !.status = "Pending", !.resumable = res,
                                         !.recreated = TRUE]]

-----------------------------------------------------------------------------
(* The service loop *)

\* The worker counter of the registry: workers spawned and not finished.
WorkerCount == Cardinality({w \in Workers : pc[w] # "idle"})

Least(m, n) == IF m < n THEN m ELSE n

\* Mutant: the workers that are already running are not counted.
SlotsForPending(list) ==
    Least(Cardinality({id \in TaskIds : list[id].status = "Pending"}), MaxConcurrent)

Slots(list) ==
    LET pending == Cardinality({id \in TaskIds : list[id].status = "Pending"})
    IN  IF WorkerCount >= MaxConcurrent THEN 0
                                        ELSE Least(pending, MaxConcurrent - WorkerCount)

\* promote_scheduled for the tasks whose time has come, then one spawned
\* worker per free slot and pending task.
Tick(due) ==
    /\ running
    /\ LET promoted == [id \in TaskIds |->
              IF id \in due THEN [tasks[id] EXCEPT !.status = "Pending"] ELSE tasks[id]]
       IN  /\ tasks' = promoted
           /\ \E spawned \in SUBSET {w \in Workers : pc[w] = "idle"} :
                 /\ Cardinality(spawned) = Slots(promoted)
                 /\ pc' = [w \in Workers |-> IF w \in spawned THEN "ready" ELSE pc[w]]
    /\ UNCHANGED <<copies, persisting, running, active, job, cancelled, closed, result,
                   keeps, fileVars, userVars>>

TickSomeDue == \E due \in SUBSET WithStatus("Scheduled") : Tick(due)
TickAllDue  == Tick(WithStatus("Scheduled"))

-----------------------------------------------------------------------------
(* A worker: claiming and registering *)

Goto(w, point) == pc' = [pc EXCEPT ![w] = point]

\* Mutant: every active task is a candidate, not only the pending ones.
MostUrgentActive == {id \in TaskIds : Present(id) /\ Status(id) \notin Terminal}

MostUrgent ==
    {id \in WithStatus("Pending") :
        \A other \in WithStatus("Pending") : Urgency[origin[other]] <= Urgency[origin[id]]}

\* claim_next_pending: the record and its status change under one lock. The
\* worker ends when nothing is pending.
Claim(w) ==
    /\ pc[w] = "ready"
    /\ \/ /\ WithStatus("Pending") = {}
          /\ Goto(w, "idle")
          /\ UNCHANGED <<tasks, job>>
       \/ \E id \in MostUrgent :
             /\ UpdateStatus(id, "Downloading")
             /\ job' = [job EXCEPT ![w] = id]
             /\ Goto(w, "claimed")
    /\ UNCHANGED <<copies, persisting, running, active, cancelled, closed, result, keeps,
                   fileVars, userVars>>

\* Mutant: somebody still holds the sender of a replaced entry.
NotDropped(id) == closed

\* The registry entry of id disappears: its sender is dropped with it.
Dropped(id) ==
    IF active[id] = NoWorker THEN closed ELSE [closed EXCEPT ![active[id]] = TRUE]

\* register: a fresh channel, replacing whatever the map held for the task.
Register(w) ==
    /\ pc[w] = "claimed"
    /\ active' = [active EXCEPT ![job[w]] = w]
    /\ closed' = [Dropped(job[w]) EXCEPT ![w] = FALSE]
    /\ cancelled' = [cancelled EXCEPT ![w] = FALSE]
    /\ Goto(w, "connecting")
    /\ UNCHANGED <<queueVars, job, result, keeps, fileVars, userVars>>

Connect(w) ==
    /\ pc[w] = "connecting"
    /\ \/ Goto(w, "starting") /\ UNCHANGED tasks
       \/ Goto(w, "leaving") /\ RetryOrFail(job[w])
       \/ Goto(w, "leaving") /\ MarkFailed(job[w], FALSE)
    /\ UNCHANGED <<copies, persisting, running, active, job, cancelled, closed, result,
                   keeps, fileVars, userVars>>

\* Mutant: the entry is forgotten.
EntryKept(id) == active

\* unregister removes the entry of the task, whoever registered it ...
EntryRemoved(id) == [active EXCEPT ![id] = NoWorker]

\* Mutant: the worker's loop goes on without claiming a task.
GoesOnUnclaimed(w) == IF pc[w] = "looping" THEN "claimed" ELSE "idle"

\* ... and the worker claims again only if its connection can be reused.
GoesOn(w) == IF pc[w] = "looping" THEN "ready" ELSE "idle"

Unregister(w) ==
    /\ pc[w] \in {"leaving", "looping"}
    /\ active' = EntryRemoved(job[w])
    /\ closed' = [Dropped(job[w]) EXCEPT ![w] = FALSE]
    /\ cancelled' = [cancelled EXCEPT ![w] = FALSE]
    /\ result' = [result EXCEPT ![w] = "none"]
    /\ keeps' = [keeps EXCEPT ![w] = FALSE]
    /\ job' = [job EXCEPT ![w] = NoId]
    /\ Goto(w, GoesOn(w))
    /\ UNCHANGED <<queueVars, fileVars, userVars>>

-----------------------------------------------------------------------------
(* A worker: execute_download and the transfer it drives *)

\* The two checks before the transfer starts.
Start(w) ==
    /\ pc[w] = "starting"
    /\ IF cancelled[w] \/ Status(job[w]) = "Paused"
       THEN Goto(w, "halting") /\ UNCHANGED keeps
       ELSE Goto(w, "request") /\ keeps' = [keeps EXCEPT ![w] = tasks[job[w]].resumable]
    /\ UNCHANGED <<queueVars, active, job, cancelled, closed, result, fileVars, userVars>>

\* Interrupted before the transfer: the status is read again ...
Halt(w) ==
    /\ pc[w] = "halting"
    /\ Goto(w, IF Status(job[w]) = "Paused" THEN "leaving" ELSE "cancelling")
    /\ UNCHANGED <<queueVars, active, job, cancelled, closed, result, keeps, fileVars,
                   userVars>>

\* ... and what has been read decides, whatever the status is by now.
Cancel(w) ==
    /\ pc[w] = "cancelling"
    /\ UpdateStatus(job[w], "Cancelled")
    /\ Goto(w, "leaving")
    /\ UNCHANGED <<copies, persisting, running, active, job, cancelled, closed, result,
                   keeps, fileVars, userVars>>

Finish(w, outcome) ==
    /\ Goto(w, "returned")
    /\ result' = [result EXCEPT ![w] = outcome]

\* The metadata exchange. An unusable server task is reported only here.
Metadata(w) ==
    /\ pc[w] = "request"
    /\ \/ /\ Goto(w, "chunks")
          /\ chunks' = IF keeps[w] THEN chunks \cup {job[w]} ELSE chunks
          /\ UNCHANGED <<tasks, result, output>>
       \/ /\ Goto(w, "ack")                            \* an empty file
          /\ output' = [output EXCEPT ![File(job[w])] = "complete"]
          /\ UpdateProgress(w, "Verifying")
          /\ UNCHANGED <<result, chunks>>
       \/ /\ \E e \in Errors : Finish(w, e)
          /\ UNCHANGED <<tasks, chunks, output>>
    /\ UNCHANGED <<copies, persisting, running, active, job, cancelled, closed, keeps,
                   origin, target, userVars>>

\* A chunk arrives and its progress is published.
Chunk(w) ==
    /\ pc[w] = "chunks"
    /\ UpdateProgress(w, "Downloading")
    /\ UNCHANGED <<copies, persisting, running, workerVars, fileVars, userVars>>

\* All chunks are there and the key arrives, or the stream breaks.
Key(w) ==
    /\ pc[w] = "chunks"
    /\ \/ /\ Goto(w, "decrypt")
          /\ output' = [output EXCEPT ![File(job[w])] = "partial"]
          /\ UpdateProgress(w, "Decrypting")
          /\ UNCHANGED result
       \/ /\ \E e \in Errors \ {"unclaimable"} : Finish(w, e)
          /\ UNCHANGED <<tasks, output>>
    /\ UNCHANGED <<copies, persisting, running, active, job, cancelled, closed, keeps,
                   chunks, origin, target, userVars>>

\* Mutant: the size of what was written is not checked.
Unverified == {"complete", "partial"}

\* What size_matches lets through.
Verified == {"complete"}

\* Decryption runs in block_in_place: no interruption until it has ended. What
\* was written is verified (size_matches) before the server hears of it; a
\* chunk that does not decrypt ends the transfer before the verifying phase.
Decrypt(w) ==
    /\ pc[w] = "decrypt"
    /\ \/ /\ \E written \in Verified : output' = [output EXCEPT ![File(job[w])] = written]
          /\ Goto(w, "ack")
          /\ UpdateProgress(w, "Verifying")
          /\ UNCHANGED result
       \/ /\ Finish(w, "permanent")
          /\ UpdateProgress(w, "Verifying") \/ UNCHANGED tasks
          /\ UNCHANGED output
    /\ UNCHANGED <<copies, persisting, running, active, job, cancelled, closed, keeps,
                   chunks, origin, target, userVars>>

\* The server acknowledges and the chunk store is purged, or the answer is lost
\* or an error, and the store stays for a retry.
Acknowledge(w) ==
    /\ pc[w] = "ack"
    /\ \/ /\ Finish(w, "ok")
          /\ chunks' = IF keeps[w] THEN chunks \ {job[w]} ELSE chunks
          /\ UpdateProgress(w, "Verifying")
       \/ /\ \E e \in Errors : Finish(w, e)
          /\ UNCHANGED <<tasks, chunks>>
    /\ UNCHANGED <<copies, persisting, running, active, job, cancelled, closed, keeps,
                   origin, target, output, userVars>>

\* The other branch of select!: the watch channel became true, or its sender
\* was dropped, which ends wait_for as well.
Interrupt(w) ==
    /\ pc[w] \in {"request", "chunks", "ack"}
    /\ cancelled[w] \/ closed[w]
    /\ Finish(w, "none")
    /\ UNCHANGED <<queueVars, active, job, cancelled, closed, keeps, fileVars, userVars>>

-----------------------------------------------------------------------------
(* A worker: publishing the outcome *)

\* The checks after the transfer: interrupted, paused without a signal, or an
\* outcome to publish.
Returned(w) ==
    /\ pc[w] = "returned"
    /\ Goto(w, IF Status(job[w]) = "Paused" THEN "leaving"
               ELSE IF cancelled[w] \/ result[w] = "none" THEN "discarding"
               ELSE IF result[w] = "ok" THEN "completing" ELSE "failing")
    /\ UNCHANGED <<queueVars, active, job, cancelled, closed, result, keeps, fileVars,
                   userVars>>

\* The file and the chunk store go, and the task becomes Cancelled.
Discard(w) ==
    /\ pc[w] = "discarding"
    /\ output' = [output EXCEPT ![File(job[w])] = "none"]
    /\ chunks' = chunks \ {job[w]}
    /\ UpdateStatus(job[w], "Cancelled")
    /\ Goto(w, "leaving")
    /\ UNCHANGED <<copies, persisting, running, active, job, cancelled, closed, result,
                   keeps, origin, target, userVars>>

Complete(w) ==
    /\ pc[w] = "completing"
    /\ MarkCompleted(job[w])
    /\ Goto(w, "looping")
    /\ UNCHANGED <<copies, persisting, running, active, job, cancelled, closed, result,
                   keeps, fileVars, userVars>>

\* An error: the interruption is checked once more, then the server task is
\* recreated (at most once per download), the task fails, or it is retried.
MayRecreate(w) ==
    result[w] = "unclaimable" /\ Present(job[w]) /\ ~tasks[job[w]].recreated

Fail(w) ==
    /\ pc[w] = "failing"
    /\ \/ /\ cancelled[w]
          /\ Goto(w, IF Status(job[w]) = "Paused" THEN "leaving" ELSE "discarding")
          /\ UNCHANGED <<tasks, chunks>>
       \/ /\ ~cancelled[w] /\ MayRecreate(w)
          /\ chunks' = chunks \ {job[w]}
          /\ Goto(w, IF Status(job[w]) = "Downloading" THEN "recreating" ELSE "leaving")
          /\ UNCHANGED tasks
       \/ /\ ~cancelled[w] /\ ~MayRecreate(w) /\ result[w] # "transient"
          /\ chunks' = chunks \ {job[w]}
          /\ MarkFailed(job[w], result[w] = "unclaimable")
          /\ Goto(w, "leaving")
       \/ /\ ~cancelled[w] /\ result[w] = "transient"
          /\ RetryOrFail(job[w])
          /\ Goto(w, "leaving")
          /\ UNCHANGED chunks
    /\ UNCHANGED <<copies, persisting, running, active, job, cancelled, closed, result,
                   keeps, origin, target, output, userVars>>

\* The server has issued new for the download of old: the record moves to it,
\* unless the task changed while the request was in flight.
Replace(old, new, expected) ==
    /\ issued' = issued \cup {new}
    /\ origin' = [origin EXCEPT ![new] = origin[old]]
    /\ IF Status(old) # expected
       THEN UNCHANGED <<tasks, chunks>>
       ELSE /\ \E res \in BOOLEAN : tasks' = ReplacedList(old, new, res)
            /\ chunks' = chunks \ {old}

\* The answer to the worker's recreation request.
Recreate(w) ==
    /\ pc[w] = "recreating"
    /\ \/ /\ \E new \in TaskIds \ issued : Replace(job[w], new, "Downloading")
          /\ Goto(w, IF Status(job[w]) = "Downloading" THEN "looping" ELSE "leaving")
       \/ /\ MarkFailed(job[w], TRUE)
          /\ Goto(w, "leaving")
          /\ UNCHANGED <<issued, chunks, origin>>
    /\ UNCHANGED <<copies, persisting, running, active, job, cancelled, closed, result,
                   keeps, target, output, cmd, userActions>>

-----------------------------------------------------------------------------
(* The user's commands. Each begins with no other command between its       *)
(* critical sections: the bound on concurrent commands is one.              *)

UserAct(op) ==
    /\ op \in UserOps
    /\ cmd = NoCmd
    /\ userActions < MaxUserActions
    /\ userActions' = userActions + 1

Pending(op, id, step) == cmd' = [op |-> op, id |-> id, step |-> step]

\* add_download with the task the server has just issued: get_document answers
\* an authenticated client only, and the list is loaded right after login.
\* Nothing keeps the file of one download from being that of another.
Add ==
    /\ UserAct("add")
    /\ persisting
    /\ \E id \in TaskIds \ issued, res \in BOOLEAN :
          /\ tasks' = [tasks EXCEPT ![id] = [Blank EXCEPT !.status = "Pending",
                                                         !.resumable = res]]
          /\ issued' = issued \cup {id}
    /\ UNCHANGED <<copies, persisting, running, workerVars, fileVars, cmd>>

\* pause_task, resume_task and cancel_task: first the task is read ...
MayPause(id) ==
    \/ Status(id) \in {"Pending", "Scheduled"}
    \/ Status(id) = "Downloading" /\ tasks[id].resumable

MayCancel(id) == Present(id) /\ Status(id) \notin Terminal

Control(op, id) ==
    /\ UserAct(op)
    /\ \/ op = "pause" /\ MayPause(id)
       \/ op = "resume" /\ Status(id) = "Paused"
       \/ op = "cancel" /\ MayCancel(id)
    /\ Pending(op, id, "write")
    /\ UNCHANGED <<queueVars, workerVars, fileVars, issued>>

\* ... then its status is written ...
Written == [pause |-> "Paused", resume |-> "Pending", cancel |-> "Cancelled"]

ControlWrite ==
    /\ cmd.op \in DOMAIN Written /\ cmd.step = "write"
    /\ UpdateStatus(cmd.id, Written[cmd.op])
    /\ cmd' = IF cmd.op = "resume" THEN NoCmd ELSE [cmd EXCEPT !.step = "signal"]
    /\ UNCHANGED <<copies, persisting, running, workerVars, fileVars, issued, userActions>>

\* ... then the registered worker is signalled; cancelling removes the chunk
\* store after it.
ControlSignal ==
    /\ cmd.op \in {"pause", "cancel"} /\ cmd.step = "signal"
    /\ cancelled' = IF active[cmd.id] = NoWorker THEN cancelled
                    ELSE [cancelled EXCEPT ![active[cmd.id]] = TRUE]
    /\ chunks' = IF cmd.op = "cancel" THEN chunks \ {cmd.id} ELSE chunks
    /\ cmd' = NoCmd
    /\ UNCHANGED <<queueVars, active, pc, job, closed, result, keeps, origin, target,
                   output, issued, userActions>>

\* retry_download: a failed task is reset at once, or its server task is
\* requested again when the server no longer accepts it.
Retry(id) ==
    /\ UserAct("retry")
    /\ Status(id) = "Failed"
    /\ IF tasks[id].unclaimable
       THEN Pending("retry", id, "request") /\ UNCHANGED tasks
       ELSE /\ tasks' = [tasks EXCEPT ![id].status = "Pending", ![id].retries = 0]
            /\ UNCHANGED cmd
    /\ UNCHANGED <<copies, persisting, running, workerVars, fileVars, issued>>

RetryAnswer ==
    /\ cmd.op = "retry"
    /\ cmd' = NoCmd
    /\ \/ \E new \in TaskIds \ issued : Replace(cmd.id, new, "Failed")
       \/ UNCHANGED <<tasks, chunks, origin, issued>>
    /\ UNCHANGED <<copies, persisting, running, workerVars, target, output, userActions>>

\* delete_download: the files first, then the record; no worker is signalled.
Delete(id) ==
    /\ UserAct("delete")
    /\ Present(id)
    /\ Pending("delete", id, "write")
    /\ output' = IF Status(id) = "Completed" THEN [output EXCEPT ![File(id)] = "none"]
                 ELSE output
    /\ chunks' = chunks \ {id}
    /\ UNCHANGED <<queueVars, workerVars, origin, target, issued>>

DeleteRecord ==
    /\ cmd.op = "delete"
    /\ tasks' = [tasks EXCEPT ![cmd.id] = Blank]
    /\ cmd' = NoCmd
    /\ UNCHANGED <<copies, persisting, running, workerVars, fileVars, issued, userActions>>

\* delete_downloaded_files: the status is read, the file removed on a blocking
\* thread, and the record marked whatever it has become.
DeleteFiles(id) ==
    /\ UserAct("delete_files")
    /\ Status(id) = "Completed"
    /\ Pending("delete_files", id, "remove")
    /\ UNCHANGED <<queueVars, workerVars, fileVars, issued>>

DeleteFilesRemove ==
    /\ cmd.op = "delete_files" /\ cmd.step = "remove"
    /\ output' = [output EXCEPT ![File(cmd.id)] = "none"]
    /\ cmd' = [cmd EXCEPT !.step = "write"]
    /\ UNCHANGED <<queueVars, workerVars, chunks, origin, target, issued, userActions>>

DeleteFilesMark ==
    /\ cmd.op = "delete_files" /\ cmd.step = "write"
    /\ tasks' = IF Status(cmd.id) \in {"Absent", "Deleted"}
                THEN tasks
                ELSE [tasks EXCEPT ![cmd.id].status = "Deleted", ![cmd.id].unclaimable = FALSE]
    /\ cmd' = NoCmd
    /\ UNCHANGED <<copies, persisting, running, workerVars, fileVars, issued, userActions>>

\* clear_completed, clear_failed and remove_terminal: the records and their
\* chunk stores, in one critical section.
Clears == [clear_completed |-> {"Completed", "Deleted", "Cancelled"},
           clear_failed    |-> {"Failed", "Cancelled"},
           remove_terminal |-> Terminal]

RemoveRecords(op, gone) ==
    /\ UserAct(op)
    /\ gone # {}
    /\ \A id \in gone : Status(id) \in Clears[op]
    /\ op # "remove_terminal" => \A id \in TaskIds : Status(id) \in Clears[op] => id \in gone
    /\ tasks' = [id \in TaskIds |-> IF id \in gone THEN Blank ELSE tasks[id]]
    /\ chunks' = chunks \ gone
    /\ UNCHANGED <<copies, persisting, running, workerVars, origin, target, output, cmd,
                   issued>>

-----------------------------------------------------------------------------
(* Sessions, shutdown and crashes *)

\* save: the list of the moment is cloned, in a critical section of its own.
Save ==
    /\ persisting
    /\ tasks \notin copies
    /\ Cardinality(copies) <= MaxCopies
    /\ copies' = copies \cup {tasks}
    /\ UNCHANGED <<tasks, persisting, running, workerVars, fileVars, userVars>>

\* clear_auth_state and reset_preference_dek: the list and the persistence
\* context go, the workers stay.
Logout ==
    /\ UserAct("logout")
    /\ persisting
    /\ tasks' = NoTasks
    /\ persisting' = FALSE
    /\ UNCHANGED <<copies, running, workerVars, fileVars, cmd, issued>>

\* Mutant: the list comes back as it was saved.
AsSaved(list) == list

\* task_persistence::load: what was downloading or decrypting is pending again.
Recovered(list) ==
    [id \in TaskIds |->
        IF list[id].status \in {"Downloading", "Decrypting"}
        THEN [list[id] EXCEPT !.status = "Pending"] ELSE list[id]]

\* load_for_user, for the same account, with a readable file or none: whichever
\* of the copies was written last.
Login ==
    /\ UserAct("login")
    /\ \E list \in copies : tasks' = Recovered(list)
    /\ persisting' = TRUE
    /\ UNCHANGED <<copies, running, workerVars, fileVars, cmd, issued>>

\* ServiceManager::shutdown drops the sender: the service loop ends and signals
\* every registered worker; the value workers borrow before a claim stays false.
Shutdown ==
    /\ UserAct("shutdown")
    /\ running
    /\ running' = FALSE
    /\ cancelled' = [w \in Workers |-> cancelled[w] \/ \E id \in TaskIds : active[id] = w]
    /\ UNCHANGED <<tasks, copies, persisting, active, pc, job, closed, result, keeps,
                   fileVars, cmd, issued>>

\* The process dies, even between the critical sections of a command, and is
\* started again; only the files survive.
Crash ==
    /\ "crash" \in UserOps /\ userActions < MaxUserActions
    /\ userActions' = userActions + 1
    /\ tasks' = NoTasks /\ persisting' = FALSE /\ running' = TRUE
    /\ active' = [id \in TaskIds |-> NoWorker]
    /\ pc' = [w \in Workers |-> "idle"]
    /\ job' = [w \in Workers |-> NoId]
    /\ cancelled' = [w \in Workers |-> FALSE] /\ closed' = [w \in Workers |-> FALSE]
    /\ result' = [w \in Workers |-> "none"] /\ keeps' = [w \in Workers |-> FALSE]
    /\ cmd' = NoCmd
    /\ UNCHANGED <<copies, fileVars, issued>>

-----------------------------------------------------------------------------
Init ==
    /\ tasks = NoTasks /\ copies = {NoTasks}
    /\ persisting = TRUE /\ running = TRUE
    /\ active = [id \in TaskIds |-> NoWorker]
    /\ pc = [w \in Workers |-> "idle"]
    /\ job = [w \in Workers |-> NoId]
    /\ cancelled = [w \in Workers |-> FALSE] /\ closed = [w \in Workers |-> FALSE]
    /\ result = [w \in Workers |-> "none"] /\ keeps = [w \in Workers |-> FALSE]
    /\ chunks = {} /\ origin = [id \in TaskIds |-> id]
    /\ target \in [TaskIds -> Files]
    /\ output = [file \in Files |-> "none"]
    /\ cmd = NoCmd /\ issued = {} /\ userActions = 0

\* The steps that take a worker on; Chunk alone leaves it where it is.
Advance(w) ==
    \/ Claim(w) \/ Register(w) \/ Connect(w) \/ Start(w) \/ Halt(w) \/ Cancel(w)
    \/ Metadata(w) \/ Key(w) \/ Decrypt(w) \/ Acknowledge(w) \/ Interrupt(w) \/ Returned(w)
    \/ Discard(w) \/ Complete(w) \/ Fail(w) \/ Recreate(w) \/ Unregister(w)

FinishCmd ==
    \/ ControlWrite \/ ControlSignal \/ RetryAnswer \/ DeleteRecord
    \/ DeleteFilesRemove \/ DeleteFilesMark

StartCmd ==
    \/ Add
    \/ \E id \in TaskIds : \/ \E op \in {"pause", "resume", "cancel"} : Control(op, id)
                           \/ Retry(id) \/ Delete(id) \/ DeleteFiles(id)
    \/ \E op \in DOMAIN Clears, gone \in SUBSET TaskIds : RemoveRecords(op, gone)

Session == Logout \/ Login \/ Shutdown \/ Crash

Next ==
    \/ TickSomeDue
    \/ \E w \in Workers : Advance(w) \/ Chunk(w)
    \/ StartCmd \/ FinishCmd \/ Save \/ Session

Spec == Init /\ [][Next]_vars

\* The loop ticks every second and retry times come; the server answers or the
\* connection breaks; a command that has begun runs to its end. Nothing obliges
\* the user to act.
Fairness ==
    /\ WF_vars(TickAllDue)
    /\ \A w \in Workers : WF_vars(Advance(w))
    /\ WF_vars(FinishCmd)

FairSpec == Spec /\ Fairness

-----------------------------------------------------------------------------
(* Properties *)

\* A worker between its claim and the decision that ends its work on the task.
Working(w) == pc[w] \notin {"idle", "ready", "leaving", "looping"}

\* A worker whose channel has been registered and not removed by itself.
Registered(w) == pc[w] \notin {"idle", "ready", "claimed"}

\* A task shown as downloading or decrypting has a worker working on it: no
\* early return, retry, recreation or reload leaves one behind that nobody
\* would ever finish, claim or be able to pause.
InFlightHasWorker ==
    \A id \in TaskIds : Status(id) \in {"Downloading", "Decrypting"} =>
        \E w \in Workers : job[w] = id /\ Working(w)

\* A transfer can be reached through the registry unless it has already been
\* told to stop: pausing, cancelling or shutting down never misses one.
AlwaysInterruptible ==
    \A w \in Workers : Registered(w) => cancelled[w] \/ closed[w] \/ active[job[w]] = w

\* Two workers may be at the same task, after a pause and a resume or a new
\* login, but at most one of them has not been interrupted.
OneLiveTransfer ==
    \A v, w \in Workers :
        /\ Registered(v) /\ Registered(w) /\ job[v] = job[w]
        /\ ~(cancelled[v] \/ closed[v]) /\ ~(cancelled[w] \/ closed[w])
        => v = w

\* Never more workers than the configured limit.
WorkerLimit == Cardinality({w \in Workers : pc[w] # "idle"}) <= MaxConcurrent

\* A registry entry belongs to a worker that is busy with that very task.
RegistryIsAccurate ==
    \A id \in TaskIds : active[id] # NoWorker =>
        job[active[id]] = id /\ Registered(active[id])

\* Who is registered can be told, and who is told is at that task.
RegistryIsExact == AlwaysInterruptible /\ RegistryIsAccurate

\* A download has one record, not even a recreation that races a manual retry
\* gives it a second, nor a login that finds an old list.
OneRecordPerDownload ==
    \A a, b \in TaskIds : Present(a) /\ Present(b) /\ origin[a] = origin[b] => a = b

\* Steps of the service loop and the workers, as opposed to the user's commands.
BackgroundStep == cmd' = cmd /\ userActions' = userActions

\* No background step takes a cancelled task out of Cancelled: late progress,
\* a late completion, a retry and a recreation all give way.
CancelledIsRespected ==
    [][BackgroundStep => \A id \in TaskIds :
          Status(id) = "Cancelled" => tasks'[id].status = "Cancelled"]_vars

\* As long as nothing is resumed or reloaded, one worker at most is at a task.
ExclusiveWork ==
    \A v, w \in Workers :
        Working(v) /\ Working(w) /\ job[v] # NoId /\ job[v] = job[w] => v = w

\* No other download has the destination of this one.
SoleDownload(id) ==
    \A other \in issued : File(other) = File(id) => origin[other] = origin[id]

\* A completed download has its whole file, until the user removes it or
\* downloads something else to the same place.
CompletedHasOutput ==
    \A id \in TaskIds : Status(id) = "Completed" /\ SoleDownload(id) =>
        output[File(id)] = "complete" \/ (cmd.id = id /\ cmd.op \in {"delete", "delete_files"})

\* Once the user stops acting, the queue comes to rest: every task is finished
\* or paused and no worker is left. The one exception is a task that a server
\* refused when its transfer was complete, before it was ever recreated.
QueueDrains ==
    <>[](/\ \A id \in TaskIds :
               \/ Status(id) \in Terminal \cup {"Paused", "Absent"}
               \/ Status(id) = "Verifying" /\ ~tasks[id].recreated
         /\ \A w \in Workers : pc[w] = "idle")

\* A claim of the documentation that the code does not keep.

\* "Preserve the task state selected by pause_task" (execute_download): no
\* background step takes a paused task out of Paused.
PauseIsPreserved ==
    [][BackgroundStep => \A id \in TaskIds :
          Status(id) = "Paused" => tasks'[id].status = "Paused"]_vars
=============================================================================
