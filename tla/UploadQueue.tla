------------------------------ MODULE UploadQueue ------------------------------
(***************************************************************************)
(* The upload queue: the store of the web page (stores.svelte.ts), the     *)
(* buttons of the tasks page, the commands of the Rust side and the upload *)
(* workers they start.                                                     *)
(*                                                                         *)
(* The page decides which upload runs: it keeps the list it shows, the     *)
(* functions that start an upload (runners) and the set of running ones    *)
(* (activeRunners), all of it lost when the application is closed.  The    *)
(* Rust side keeps the saved records, and a registry through which a       *)
(* command reaches the worker of an upload.  The two halves are connected  *)
(* by calls and their replies and by progress events, and nothing orders a *)
(* reply with respect to an event.                                         *)
(*                                                                         *)
(* Left out: progress in bytes, names, messages and times (but for the     *)
(* order in which waiting uploads are started: any order, because          *)
(* created_at counts seconds and a batch is queued within one), sources    *)
(* that have disappeared, encryption and saving of the records (every      *)
(* change is saved before the call returns).                               *)
(***************************************************************************)
EXTENDS Integers, Sequences, FiniteSets

CONSTANTS
    Uploads,        \* the uploads, files and directories
    Directories,    \* those that are directories
    Files,          \* Files[u]: how many files upload u sends
    Toolbar,        \* the caller of list-wide commands (not an upload)
    Limits,         \* the values of "maximum concurrent uploads"
    MaxRetries,     \* MAX_BACKGROUND_RETRIES
    MaxDisturbances,\* bound: presses of a button, failures, skipped files and
                    \*   restarts of the application, taken together
    MaxVisits,      \* bound: visits to the tasks page
    MaxEvents       \* bound: progress events of an upload under way

ASSUME UploadsAssumption ==
    /\ IsFiniteSet(Uploads) /\ Directories \subseteq Uploads
    /\ Toolbar \notin Uploads
    /\ Files \in [Uploads -> Nat]
    /\ \A u \in Uploads \ Directories : Files[u] = 1
    /\ Limits \subseteq Nat \ {0} /\ Limits # {}
    /\ MaxRetries \in Nat

VARIABLES
    tasks,               \* the page: upload -> status shown, or "absent"
    runners,             \* the page: uploads it can start
    activeRunners,       \* the page: uploads that hold a slot
    completionCallbacks, \* the page: "none", "live", or "left" once the page
                         \*   that queued the upload is gone
    maxConcurrent,       \* the page: number of slots
    promise,             \* the page: what the run of an upload waits for
    view,                \* the page shown: "files" or "tasks"
    calls,               \* functions of the page that wait for a command
    events,              \* progress events under way, per upload
    records,             \* the Rust side: upload -> saved status, "absent"
                         \*   before it is queued, "removed" afterwards
    control,             \* the registry: "out" (no entry), "none", "paused",
                         \*   "cancelled"
    unseen,              \* changed() of the worker's watch has not returned yet
    worker,              \* upload -> its worker: pc, files dealt with, attempt
    outcome,             \* history: what the server did with files of u,
                         \*   a subset of {"stored", "skipped"}
    used                 \* how much of each bound is spent

pageVars    == <<tasks, runners, activeRunners, completionCallbacks,
                 maxConcurrent, promise>>
workerVars  == <<control, unseen, worker, outcome>>
vars == <<pageVars, view, calls, events, records, workerVars, used>>

Terminal == {"completed", "failed", "cancelled", "skipped"}
Status   == Terminal \cup {"pending", "uploading", "paused", "interrupted"}
Callers  == Uploads \cup {Toolbar}

Registered == {"creating", "looping", "paused", "waiting", "connecting",
               "backoff", "sending"}
NoCall     == [op |-> "none", stage |-> "none", ids |-> {}, at |-> Toolbar,
               ok |-> FALSE, list |-> [u \in Uploads |-> "absent"]]
Idle       == [pc |-> "idle", file |-> 0, attempt |-> 0]

Ops    == {"none", "enqueue", "pause", "resume", "cancel", "restart", "remove",
           "clear", "list"}
Stages == {"none", "asked", "status", "answered", "listing", "listed"}

TypeOK ==
    /\ tasks \in [Uploads -> Status \cup {"absent"}]
    /\ runners \subseteq Uploads
    /\ activeRunners \subseteq Uploads
    /\ completionCallbacks \in [Uploads -> {"none", "live", "left"}]
    /\ maxConcurrent \in Limits
    /\ promise \in [Uploads -> {"none", "called", "resolved", "rejected",
                                "after", "hangs"}]
    /\ view \in {"files", "tasks"}
    /\ calls \in [Callers ->
         [op : Ops, stage : Stages, ids : SUBSET Uploads, at : Callers,
          ok : BOOLEAN, list : [Uploads -> Status \cup {"absent"}]]]
    /\ events \in [Uploads -> Seq(Status)]
    /\ records \in [Uploads -> Status \cup {"absent", "removed"}]
    /\ control \in [Uploads -> {"out", "none", "paused", "cancelled"}]
    /\ unseen \in [Uploads -> BOOLEAN]
    /\ worker \in [Uploads -> [pc : Registered \cup {"idle", "between"},
                               file : Nat, attempt : Nat]]
    /\ outcome \in [Uploads -> SUBSET {"stored", "skipped"}]
    /\ used \in [disturbances : Nat, visits : Nat]

Init ==
    /\ tasks = [u \in Uploads |-> "absent"]
    /\ runners = {}
    /\ activeRunners = {}
    /\ completionCallbacks = [u \in Uploads |-> "none"]
    /\ maxConcurrent \in Limits
    /\ promise = [u \in Uploads |-> "none"]
    /\ view = "files"
    /\ calls = [c \in Callers |-> NoCall]
    /\ events = [u \in Uploads |-> <<>>]
    /\ records = [u \in Uploads |-> "absent"]
    /\ control = [u \in Uploads |-> "out"]
    /\ unseen = [u \in Uploads |-> FALSE]
    /\ worker = [u \in Uploads |-> Idle]
    /\ outcome = [u \in Uploads |-> {}]
    /\ used = [disturbances |-> 0, visits |-> 0]

Disturbance ==
    /\ used.disturbances < MaxDisturbances
    /\ used' = [used EXCEPT !.disturbances = @ + 1]

--------------------------------------------------------------------------------
(* The slots.                                                              *)

Waiting(shown, able, active) ==
    {u \in Uploads : shown[u] = "pending" /\ u \in able /\ u \notin active}

Free(active, limit) ==
    IF Cardinality(active) < limit THEN limit - Cardinality(active) ELSE 0

(* The sets of uploads processQueue may start.                             *)
Starts(shown, able, active, limit) ==
    {S \in SUBSET Waiting(shown, able, active) :
        /\ Cardinality(S) <= Free(active, limit)
        /\ \/ S = Waiting(shown, able, active)
           \/ Cardinality(S) = Free(active, limit)}

(* processQueue, run by the handler that has just made the page's list, its *)
(* runners, slots and runs what the arguments say, with startRunner for    *)
(* each upload it takes.                                                   *)
ProcessQueue(shown, able, active, runs, limit) ==
    /\ runners' = able
    /\ maxConcurrent' = limit
    /\ \E S \in Starts(shown, able, active, limit) :
         /\ tasks' = [u \in Uploads |-> IF u \in S THEN "uploading" ELSE shown[u]]
         /\ activeRunners' = active \cup S
         /\ promise' = [u \in Uploads |-> IF u \in S THEN "called" ELSE runs[u]]
         /\ worker' = [u \in Uploads |->
                         IF u \in S THEN [Idle EXCEPT !.pc = "between"] ELSE worker[u]]

(* The handler changes the list or the runners and leaves the slots alone. *)
ShowOnly(shown, able) ==
    /\ tasks' = shown
    /\ runners' = able
    /\ UNCHANGED <<activeRunners, maxConcurrent, promise, worker>>

Show(u, status) ==
    IF tasks[u] = "absent" THEN tasks ELSE [tasks EXCEPT ![u] = status]

Ends(c)         == calls' = [calls EXCEPT ![c] = NoCall]
GoesOn(c, stage) == calls' = [calls EXCEPT ![c].stage = stage]
Answer(c, ok)   == calls' = [calls EXCEPT ![c].stage = "answered", ![c].ok = ok]

BackendUnchanged == UNCHANGED <<events, records, control, unseen, outcome>>
PageUnchanged    == UNCHANGED <<pageVars, view>>
WorkerUnchanged  == UNCHANGED workerVars

--------------------------------------------------------------------------------
(* The page: queueing, the two pages, the buttons.                         *)

(* addQueued calls enqueue_upload and waits for its answer.                *)
Enqueue(u) ==
    /\ view = "files" /\ records[u] = "absent" /\ calls[u] = NoCall
    /\ calls' = [calls EXCEPT ![u].op = "enqueue", ![u].stage = "asked"]
    /\ PageUnchanged /\ BackendUnchanged /\ UNCHANGED <<worker, used>>

EnqueueRecord(u) ==
    /\ calls[u].op = "enqueue" /\ calls[u].stage = "asked"
    /\ records' = [records EXCEPT ![u] = "pending"]
    /\ Answer(u, TRUE)
    /\ PageUnchanged /\ WorkerUnchanged /\ UNCHANGED <<events, used>>

EnqueueReply(u) ==
    /\ calls[u].op = "enqueue" /\ calls[u].stage = "answered"
    /\ completionCallbacks' = [completionCallbacks EXCEPT ![u] =
                                 IF @ = "left" THEN "left" ELSE "live"]
    /\ ProcessQueue([tasks EXCEPT ![u] = "pending"], runners \cup {u},
                    activeRunners, promise, maxConcurrent)
    /\ Ends(u)
    /\ BackendUnchanged /\ UNCHANGED <<view, used>>

(* Going to the tasks page destroys the files page and refreshes the list. *)
OpenTasks ==
    /\ view = "files" /\ calls[Toolbar] = NoCall /\ used.visits < MaxVisits
    /\ view' = "tasks"
    /\ used' = [used EXCEPT !.visits = @ + 1]
    /\ completionCallbacks' = [u \in Uploads |->
         IF completionCallbacks[u] = "live" \/ calls[u].op = "enqueue"
         THEN "left" ELSE completionCallbacks[u]]
    /\ calls' = [calls EXCEPT ![Toolbar].op = "list", ![Toolbar].stage = "listing"]
    /\ BackendUnchanged
    /\ UNCHANGED <<tasks, runners, activeRunners, maxConcurrent, promise, worker>>

OpenFiles ==
    /\ view = "tasks"
    /\ view' = "files"
    /\ BackendUnchanged /\ UNCHANGED <<pageVars, calls, worker, used>>

(* uploadCapabilities: the buttons an upload has.                          *)
Offers(u) ==
    [pause   |-> {"pending", "uploading"}, resume |-> {"paused"},
     cancel  |-> {"pending", "uploading", "paused"},
     restart |-> {"interrupted", "failed"},
     remove  |-> Terminal]

(* A button whose function calls a command: the store asks the Rust side to *)
(* pause or to cancel only an upload it shows as uploading.                *)
Press(u) ==
    /\ view = "tasks" /\ calls[u] = NoCall /\ Disturbance
    /\ \E op \in {"pause", "resume", "cancel", "restart", "remove"} :
         /\ tasks[u] \in Offers(u)[op]
         /\ op \in {"pause", "cancel"} => tasks[u] = "uploading"
         /\ calls' = [calls EXCEPT ![u].op = op, ![u].stage = "asked", ![u].ids = {u}]
    /\ PageUnchanged /\ BackendUnchanged /\ UNCHANGED worker

(* Pausing or cancelling any other upload changes the page's list alone,   *)
(* and the page then asks for the saved list.                              *)
PressWaiting(u) ==
    /\ view = "tasks" /\ calls[u] = NoCall /\ Disturbance
    /\ \E op \in {"pause", "cancel"} :
         /\ tasks[u] \in Offers(u)[op] \ {"uploading"}
         /\ ShowOnly(Show(u, IF op = "pause" THEN "paused" ELSE "cancelled"), runners)
         /\ calls' = [calls EXCEPT ![u].op = op, ![u].stage = "listing"]
    /\ BackendUnchanged /\ UNCHANGED <<completionCallbacks, view>>

(* The action of a section, which no pending action holds back, and the    *)
(* refresh button.                                                         *)
PressToolbar ==
    /\ view = "tasks" /\ calls[Toolbar] = NoCall /\ Disturbance
    /\ \/ \E op \in {"pause", "resume", "clear"} :
            LET section == IF op = "pause" THEN {"uploading"}
                           ELSE IF op = "resume" THEN {"paused"}
                           ELSE Terminal \ {"failed"}
                ids == {u \in Uploads : tasks[u] \in section}
            IN  /\ ids # {}
                /\ calls' = [calls EXCEPT ![Toolbar].op = op,
                                          ![Toolbar].stage = "asked",
                                          ![Toolbar].ids = ids]
       \/ calls' = [calls EXCEPT ![Toolbar].op = "list", ![Toolbar].stage = "listing"]
    /\ PageUnchanged /\ BackendUnchanged /\ UNCHANGED worker

(* configureConcurrency.                                                   *)
SetLimit(n) ==
    /\ n # maxConcurrent /\ Disturbance
    /\ ProcessQueue(tasks, runners, activeRunners, promise, n)
    /\ BackendUnchanged /\ UNCHANGED <<completionCallbacks, view, calls>>

--------------------------------------------------------------------------------
(* The commands of the Rust side.  A command takes the registry's lock and *)
(* the records' lock one after the other.                                  *)

(* pause_upload, cancel_upload, resume_upload and control_transfer_tasks:  *)
(* the registry's part, for one upload.  An interruption replaces whatever *)
(* the worker had been told before; only a paused worker is resumed.       *)
CallRegistry(c) ==
    /\ calls[c].stage = "asked" /\ calls[c].op \in {"pause", "cancel", "resume"}
    /\ \E u \in calls[c].ids :
         LET told  == IF calls[c].op = "resume" THEN control[u] = "paused"
                      ELSE control[u] # "out"
             word  == IF calls[c].op = "resume" THEN "none"
                      ELSE IF calls[c].op = "pause" THEN "paused" ELSE "cancelled"
         IN  /\ control' = IF told THEN [control EXCEPT ![u] = word] ELSE control
             /\ unseen' = IF told THEN [unseen EXCEPT ![u] = TRUE] ELSE unseen
             /\ IF told /\ c # Toolbar
                THEN Answer(c, TRUE)
                ELSE calls' = [calls EXCEPT ![c].stage = "status", ![c].at = u]
    /\ PageUnchanged /\ UNCHANGED <<events, records, outcome, worker, used>>

(* set_status: refused for a record that is absent or terminal.            *)
CallStatus(c) ==
    /\ calls[c].stage = "status"
    /\ LET u == calls[c].at
           live == records[u] \in Status \ Terminal
           next == IF calls[c].op = "resume" THEN "pending"
                   ELSE IF calls[c].op = "pause" THEN "paused" ELSE "cancelled"
           rest == calls[c].ids \ {u}
       IN  /\ records' = IF live THEN [records EXCEPT ![u] = next] ELSE records
           /\ calls' = [calls EXCEPT ![c].stage = IF rest = {} THEN "answered" ELSE "asked",
                                     ![c].ids = rest, ![c].at = Toolbar,
                                     ![c].ok = live]
    /\ PageUnchanged /\ WorkerUnchanged /\ UNCHANGED <<events, used>>

(* retry_upload (mark_pending) and remove_transfer_records (remove_terminal). *)
CallRecords(c) ==
    /\ calls[c].stage = "asked" /\ calls[c].op \in {"restart", "remove", "clear"}
    /\ LET restartable == {u \in calls[c].ids : records[u] \in {"interrupted", "failed"}}
           finished    == {u \in calls[c].ids : records[u] \in Terminal}
       IN  IF calls[c].op = "restart"
           THEN /\ records' = [u \in Uploads |->
                                 IF u \in restartable THEN "pending" ELSE records[u]]
                /\ Answer(c, restartable # {})
           ELSE /\ records' = [u \in Uploads |->
                                 IF u \in finished THEN "removed" ELSE records[u]]
                /\ Answer(c, finished # {})
    /\ PageUnchanged /\ WorkerUnchanged /\ UNCHANGED <<events, used>>

(* Mutant: removed records are still listed.                               *)
CallListAll(c) ==
    /\ calls[c].stage = "listing"
    /\ calls' = [calls EXCEPT ![c].stage = "listed", ![c].list = records]
    /\ PageUnchanged /\ BackendUnchanged /\ UNCHANGED <<worker, used>>

(* get_upload_tasks.                                                       *)
CallList(c) ==
    /\ calls[c].stage = "listing"
    /\ calls' = [calls EXCEPT ![c].stage = "listed",
                   ![c].list = [u \in Uploads |->
                                  IF records[u] \in Status THEN records[u] ELSE "absent"]]
    /\ PageUnchanged /\ BackendUnchanged /\ UNCHANGED <<worker, used>>

--------------------------------------------------------------------------------
(* The page goes on with an answer.                                        *)

(* pause and cancel: the page writes the status itself when the Rust side  *)
(* did neither; then, and after a section's action, it asks for the list.  *)
ControlReply(c) ==
    /\ calls[c].stage = "answered"
    /\ calls[c].op \in {"pause", "cancel"} \/ c = Toolbar
    /\ ShowOnly(IF c # Toolbar /\ ~calls[c].ok
                THEN Show(c, IF calls[c].op = "pause" THEN "paused" ELSE "cancelled")
                ELSE tasks, runners)
    /\ GoesOn(c, "listing")
    /\ BackendUnchanged /\ UNCHANGED <<completionCallbacks, view, used>>

(* resume: the task it has read before the call is written back.           *)
ResumeReply(u) ==
    /\ calls[u].stage = "answered" /\ calls[u].op = "resume"
    /\ IF calls[u].ok
       THEN ProcessQueue([tasks EXCEPT ![u] = "pending"], runners, activeRunners,
                         promise, maxConcurrent)
       ELSE ShowOnly(tasks, runners)
    /\ GoesOn(u, "listing")
    /\ BackendUnchanged /\ UNCHANGED <<completionCallbacks, view, used>>

(* restart: registerRunner, unless the command has refused or the upload   *)
(* is no longer in the list.                                               *)
RestartReply(u) ==
    /\ calls[u].stage = "answered" /\ calls[u].op = "restart"
    /\ IF calls[u].ok /\ tasks[u] # "absent"
       THEN ProcessQueue([tasks EXCEPT ![u] = "pending"], runners \cup {u},
                         activeRunners, promise, maxConcurrent)
       ELSE ShowOnly(tasks, runners)
    /\ Ends(u)
    /\ BackendUnchanged /\ UNCHANGED <<completionCallbacks, view, used>>

(* remove.                                                                 *)
RemoveReply(u) ==
    /\ calls[u].stage = "answered" /\ calls[u].op = "remove"
    /\ IF calls[u].ok
       THEN /\ ShowOnly([tasks EXCEPT ![u] = "absent"], runners \ {u})
            /\ completionCallbacks' = [completionCallbacks EXCEPT ![u] = "none"]
       ELSE /\ ShowOnly(tasks, runners)
            /\ UNCHANGED completionCallbacks
    /\ Ends(u)
    /\ BackendUnchanged /\ UNCHANGED <<view, used>>

(* setAll: the list replaces the page's, and what belongs to an upload it  *)
(* does not name is dropped.  It starts nothing.  (The mark OpenTasks      *)
(* leaves for an upload still being queued is not an entry to be dropped.) *)
SetAll(c) ==
    /\ calls[c].stage = "listed"
    /\ LET list == calls[c].list
       IN  /\ ShowOnly(list, {u \in runners : list[u] # "absent"})
           /\ completionCallbacks' = [u \in Uploads |->
                IF list[u] = "absent" /\ calls[u].op # "enqueue"
                THEN "none" ELSE completionCallbacks[u]]
    /\ Ends(c)
    /\ BackendUnchanged /\ UNCHANGED <<view, used>>

(* applyProgress: an event is believed, whatever the page shows.           *)
ApplyProgress(u) ==
    /\ events[u] # <<>>
    /\ ShowOnly([tasks EXCEPT ![u] = Head(events[u])], runners)
    /\ events' = [events EXCEPT ![u] = Tail(@)]
    /\ UNCHANGED <<completionCallbacks, view, calls, records, control, unseen,
                   outcome, used>>

(* Mutant: the slot is given back, the queue is not looked at.             *)
FinallyStops(u, shown) ==
    /\ tasks' = shown
    /\ activeRunners' = activeRunners \ {u}
    /\ promise' = [promise EXCEPT ![u] = "none"]
    /\ UNCHANGED <<runners, maxConcurrent, worker>>

(* The end of startRunner's function: the slot is given back and used.     *)
Finally(u, shown) ==
    ProcessQueue(shown, runners, activeRunners \ {u},
                 [promise EXCEPT ![u] = "none"], maxConcurrent)

(* Mutant: the slot is given back before the reload has ended.             *)
RunnerResolvesEarly(u) ==
    /\ promise[u] = "resolved"
    /\ tasks' = IF tasks[u] = "uploading" THEN [tasks EXCEPT ![u] = "completed"] ELSE tasks
    /\ promise' = [promise EXCEPT ![u] = "after"]
    /\ activeRunners' = activeRunners \ {u}
    /\ UNCHANGED <<runners, maxConcurrent, worker>>
    /\ BackendUnchanged /\ UNCHANGED <<completionCallbacks, view, calls, used>>

(* startRunner after the command has returned: the upload is shown as      *)
(* complete unless events say otherwise, and the callback that reloads the *)
(* directory runs.  The reload waits for a snapshot which the sorter of a  *)
(* files page that is gone cannot publish any more, and which a page that  *)
(* is still there drops when the order changes meanwhile (DirectoryListing, *)
(* EarlySort).                                                             *)
RunnerResolves(u) ==
    /\ promise[u] = "resolved"
    /\ LET shown == IF tasks[u] = "uploading"
                    THEN [tasks EXCEPT ![u] = "completed"] ELSE tasks
       IN  IF completionCallbacks[u] # "none" /\ shown[u] \in {"completed", "skipped"}
           THEN /\ tasks' = shown
                /\ \E reload \in {"after", "hangs"} :
                     /\ reload = "after" => completionCallbacks[u] = "live"
                     /\ promise' = [promise EXCEPT ![u] = reload]
                /\ UNCHANGED <<runners, activeRunners, maxConcurrent, worker>>
           ELSE Finally(u, shown)
    /\ BackendUnchanged /\ UNCHANGED <<completionCallbacks, view, calls, used>>

(* The reload has ended.  One that hangs may still end: its request fails, *)
(* another reload overtakes it, or the order is changed once more.         *)
CallbackEnds(u) ==
    /\ promise[u] \in {"after", "hangs"}
    /\ Finally(u, tasks)
    /\ BackendUnchanged /\ UNCHANGED <<completionCallbacks, view, calls, used>>

(* Mutant: the early return of the catch block skips the finally block.    *)
RunnerRejectsLeaks(u) ==
    /\ promise[u] = "rejected"
    /\ IF tasks[u] \in {"absent", "paused", "cancelled", "failed"}
       THEN /\ promise' = [promise EXCEPT ![u] = "none"]
            /\ UNCHANGED <<tasks, runners, activeRunners, maxConcurrent, worker>>
       ELSE Finally(u, [tasks EXCEPT ![u] = "failed"])
    /\ BackendUnchanged /\ UNCHANGED <<completionCallbacks, view, calls, used>>

RunnerRejects(u) ==
    /\ promise[u] = "rejected"
    /\ Finally(u, IF tasks[u] \in {"absent", "paused", "cancelled", "failed"}
                  THEN tasks ELSE [tasks EXCEPT ![u] = "failed"])
    /\ BackendUnchanged /\ UNCHANGED <<completionCallbacks, view, calls, used>>

--------------------------------------------------------------------------------
(* The worker of an upload: upload_document_file or upload_directory, and  *)
(* upload_local_file for each file.                                        *)

(* emit_upload_progress: the record takes the status with no guard.        *)
Recorded(u, status) ==
    IF records[u] \in Status THEN [records EXCEPT ![u] = status] ELSE records

Emit(u, status) ==
    /\ records' = Recorded(u, status)
    /\ events' = [events EXCEPT ![u] = Append(@, status)]

Quietly == UNCHANGED <<records, events>>

To(u, pc) == worker' = [worker EXCEPT ![u].pc = pc]

KeepsSlot == UNCHANGED <<tasks, runners, activeRunners, completionCallbacks,
                         maxConcurrent, view, calls>>

(* The command returns: its answer is under way to the page.               *)
Returns(u, answer) ==
    /\ worker' = [worker EXCEPT ![u] = Idle]
    /\ promise' = [promise EXCEPT ![u] = answer]

Unregister(u) == control' = [control EXCEPT ![u] = "out"]

(* The upload of one file fails, and the command with it.                  *)
Fails(u) == Unregister(u) /\ Returns(u, "rejected") /\ UNCHANGED <<unseen, outcome>>

(* One file is dealt with; a directory goes on with the next.              *)
NextFile(u) ==
    /\ Unregister(u)
    /\ worker' = [worker EXCEPT ![u] = [Idle EXCEPT !.pc = "between",
                                                    !.file = worker[u].file + 1]]
    /\ UNCHANGED <<promise, unseen>>

At(u, pc) == worker[u].pc = pc /\ Len(events[u]) < MaxEvents

(* Before its first file, or between the files of a directory, an upload   *)
(* has no entry in the registry; an error here (a source that is no file,  *)
(* a directory the server refuses to create) reaches the page alone.       *)
FailsBetween(u) ==
    /\ At(u, "between") /\ Disturbance
    /\ u \in Directories \/ worker[u].file = 0
    /\ Returns(u, "rejected")
    /\ Quietly /\ UNCHANGED <<control, unseen, outcome>> /\ KeepsSlot

Register(u) ==
    /\ At(u, "between") /\ worker[u].file < Files[u]
    /\ control' = [control EXCEPT ![u] = "none"]
    /\ unseen' = [unseen EXCEPT ![u] = FALSE]
    /\ Emit(u, "uploading")
    /\ To(u, "creating")
    /\ UNCHANGED <<promise, outcome, used>> /\ KeepsSlot

(* create_document answers; it refuses, or the name exists already and the *)
(* user has chosen to skip such files.                                     *)
CreateDocument(u) ==
    /\ At(u, "creating")
    /\ To(u, "looping")
    /\ Quietly /\ UNCHANGED <<promise, control, unseen, outcome, used>> /\ KeepsSlot

(* Mutant: the entry in the registry is forgotten.                         *)
CreateFailsRegistered(u) ==
    /\ At(u, "creating") /\ Disturbance
    /\ Returns(u, "rejected")
    /\ Quietly /\ UNCHANGED <<control, unseen, outcome>> /\ KeepsSlot

CreateFails(u) ==
    /\ At(u, "creating") /\ Disturbance
    /\ Fails(u)
    /\ Quietly /\ KeepsSlot

Skip(u) ==
    /\ At(u, "creating") /\ Disturbance
    /\ Emit(u, "skipped")
    /\ outcome' = [outcome EXCEPT ![u] = @ \cup {"skipped"}]
    /\ NextFile(u) /\ KeepsSlot

(* The top of the transfer loop looks at the control without marking it as *)
(* seen.                                                                   *)
Attempt(u) ==
    /\ At(u, "looping") /\ control[u] = "none"
    /\ To(u, "connecting")
    /\ Quietly /\ UNCHANGED <<promise, control, unseen, outcome, used>> /\ KeepsSlot

PauseSeen(u) ==
    /\ At(u, "looping") /\ control[u] = "paused"
    /\ Emit(u, "paused")
    /\ To(u, "paused")
    /\ UNCHANGED <<promise, control, unseen, outcome, used>> /\ KeepsSlot

CancelSeen(u) ==
    /\ At(u, "looping") \/ At(u, "paused")
    /\ control[u] = "cancelled"
    /\ Emit(u, "cancelled")
    /\ Fails(u)
    /\ UNCHANGED used /\ KeepsSlot

(* Mutant: the change is marked as seen after an older look at it.         *)
StaysPausedMarked(u) ==
    /\ At(u, "paused") /\ control[u] # "cancelled"
    /\ unseen' = [unseen EXCEPT ![u] = FALSE]
    /\ To(u, "waiting")
    /\ Quietly /\ UNCHANGED <<promise, control, outcome, used>> /\ KeepsSlot

(* wait_for_upload_resume: look, wait for changed(), look again.           *)
StaysPaused(u) ==
    /\ At(u, "paused") /\ control[u] = "paused"
    /\ To(u, "waiting")
    /\ Quietly /\ UNCHANGED <<promise, control, unseen, outcome, used>> /\ KeepsSlot

WakesUp(u) ==
    /\ At(u, "waiting") /\ unseen[u]
    /\ unseen' = [unseen EXCEPT ![u] = FALSE]
    /\ To(u, "paused")
    /\ Quietly /\ UNCHANGED <<promise, control, outcome, used>> /\ KeepsSlot

Resumes(u) ==
    /\ At(u, "paused") /\ control[u] = "none"
    /\ Emit(u, "uploading")
    /\ worker' = [worker EXCEPT ![u].pc = "connecting", ![u].attempt = 0]
    /\ UNCHANGED <<promise, control, unseen, outcome, used>> /\ KeepsSlot

Connects(u) ==
    /\ At(u, "connecting")
    /\ To(u, "sending")
    /\ Quietly /\ UNCHANGED <<promise, control, unseen, outcome, used>> /\ KeepsSlot

(* upload_retry_delay: a transient error is tried again, MAX_UPLOAD_RETRIES *)
(* times in a row; any other error ends the upload.                        *)
RetriesOrFails(u) ==
    \/ /\ worker[u].attempt < MaxRetries
       /\ Emit(u, "uploading")
       /\ worker' = [worker EXCEPT ![u].pc = "backoff", ![u].attempt = @ + 1]
       /\ UNCHANGED <<promise, control, unseen, outcome>>
    \/ /\ Emit(u, "failed")
       /\ Fails(u)

ConnectFails(u) ==
    /\ At(u, "connecting") /\ Disturbance
    /\ RetriesOrFails(u) /\ KeepsSlot

BackoffEnds(u) ==
    /\ At(u, "backoff")
    /\ unseen' \in {unseen, [unseen EXCEPT ![u] = FALSE]}
    /\ To(u, "looping")
    /\ Quietly /\ UNCHANGED <<promise, control, outcome, used>> /\ KeepsSlot

(* The transfer ends well, although an interruption may be waiting to be   *)
(* seen; the end is announced and the upload leaves the registry.          *)
Completes(u) ==
    /\ At(u, "sending")
    /\ outcome' = [outcome EXCEPT ![u] = @ \cup {"stored"}]
    /\ Emit(u, "completed")
    /\ NextFile(u)
    /\ UNCHANGED used /\ KeepsSlot

(* Mutant: an interrupted transfer is taken for one that has ended.        *)
SeesChangeAsEnd(u) ==
    /\ At(u, "sending") /\ unseen[u]
    /\ Emit(u, "completed")
    /\ NextFile(u)
    /\ UNCHANGED <<outcome, used>> /\ KeepsSlot

(* Mutant: only a pause ends the transfer under way.                       *)
SeesPause(u) ==
    /\ At(u, "sending") /\ unseen[u] /\ control[u] = "paused"
    /\ unseen' = [unseen EXCEPT ![u] = FALSE]
    /\ To(u, "looping")
    /\ Quietly /\ UNCHANGED <<promise, control, outcome, used>> /\ KeepsSlot

(* changed() wins: with the interruption still there the loop starts over, *)
(* and an upload already resumed fails, since Cancelled is not transient.  *)
SeesChange(u) ==
    /\ At(u, "sending") /\ unseen[u]
    /\ unseen' = [unseen EXCEPT ![u] = FALSE]
    /\ IF control[u] # "none"
       THEN /\ To(u, "looping")
            /\ Quietly /\ UNCHANGED <<promise, control>>
       ELSE /\ Emit(u, "failed")
            /\ Unregister(u) /\ Returns(u, "rejected")
    /\ UNCHANGED <<outcome, used>> /\ KeepsSlot

(* The connection breaks, or an interruption closes it.                    *)
SendFails(u) ==
    /\ At(u, "sending")
    /\ IF unseen[u] THEN UNCHANGED used ELSE Disturbance
    /\ IF control[u] # "none"
       THEN /\ To(u, "looping")
            /\ Quietly /\ UNCHANGED <<promise, control, unseen, outcome>>
       ELSE RetriesOrFails(u)
    /\ KeepsSlot

(* The command has no more files; a directory's record is closed, and the  *)
(* page told, unless the record is gone or already in another final state. *)
Finishes(u) ==
    /\ At(u, "between") /\ worker[u].file = Files[u]
    /\ IF u \in Directories /\ records[u] \notin {"absent", "removed"}
                                              \cup (Terminal \ {"completed"})
       THEN Emit(u, "completed")
       ELSE Quietly
    /\ Returns(u, "resolved")
    /\ UNCHANGED <<control, unseen, outcome, used>> /\ KeepsSlot

(* What a worker does without waiting for the network ...                  *)
WorkerMoves(u) ==
    \/ Register(u) \/ Attempt(u) \/ PauseSeen(u) \/ CancelSeen(u)
    \/ StaysPaused(u) \/ WakesUp(u) \/ Resumes(u) \/ BackoffEnds(u)
    \/ SeesChange(u) \/ Finishes(u)

(* ... and what the network does.                                          *)
NetworkMoves(u) ==
    \/ FailsBetween(u) \/ CreateDocument(u) \/ CreateFails(u) \/ Skip(u)
    \/ Connects(u) \/ ConnectFails(u) \/ Completes(u) \/ SendFails(u)

--------------------------------------------------------------------------------
(* The application is closed or killed and started again: load keeps the   *)
(* records and turns every unfinished one into an interrupted one.         *)
Restart ==
    /\ Disturbance
    /\ tasks' = [u \in Uploads |-> "absent"]
    /\ runners' = {} /\ activeRunners' = {}
    /\ completionCallbacks' = [u \in Uploads |-> "none"]
    /\ maxConcurrent' = maxConcurrent
    /\ promise' = [u \in Uploads |-> "none"]
    /\ view' = "files"
    /\ calls' = [c \in Callers |-> NoCall]
    /\ events' = [u \in Uploads |-> <<>>]
    /\ records' = [u \in Uploads |->
         IF records[u] \in Status \ Terminal THEN "interrupted" ELSE records[u]]
    /\ control' = [u \in Uploads |-> "out"]
    /\ unseen' = [u \in Uploads |-> FALSE]
    /\ worker' = [u \in Uploads |-> Idle]
    /\ UNCHANGED outcome

UserMoves ==
    \/ \E u \in Uploads : Enqueue(u) \/ Press(u) \/ PressWaiting(u)
    \/ OpenTasks \/ OpenFiles \/ PressToolbar
    \/ \E n \in Limits : SetLimit(n)

CommandMoves(c) == CallRegistry(c) \/ CallStatus(c) \/ CallRecords(c) \/ CallList(c)

PageMoves(u) ==
    \/ EnqueueRecord(u) \/ EnqueueReply(u) \/ ResumeReply(u) \/ RestartReply(u)
    \/ RemoveReply(u) \/ ApplyProgress(u) \/ RunnerResolves(u) \/ RunnerRejects(u)
    \/ CallbackEnds(u)

ReplyMoves(c) == ControlReply(c) \/ SetAll(c)

Next ==
    \/ UserMoves
    \/ \E c \in Callers : CommandMoves(c) \/ ReplyMoves(c)
    \/ \E u \in Uploads : PageMoves(u) \/ WorkerMoves(u) \/ NetworkMoves(u)
    \/ Restart

Spec == Init /\ [][Next]_vars

(* No fairness for the user, the network and the commands.  Events that    *)
(* have been sent arrive, the end of a command is dealt with, the reload   *)
(* begun on a page still there ends, and a worker's own steps are taken.   *)
Fairness ==
    \A u \in Uploads :
        /\ WF_vars(ApplyProgress(u))
        /\ WF_vars(RunnerResolves(u) \/ RunnerRejects(u))
        /\ WF_vars(promise[u] = "after" /\ CallbackEnds(u))
        /\ WF_vars(WorkerMoves(u))

FairSpec == Spec /\ Fairness

--------------------------------------------------------------------------------
(* An upload runs at most once at a time: as long as its worker works, or  *)
(* its end has not been dealt with by startRunner, it holds its slot, and  *)
(* a slot is held for nothing else.                                        *)
OneRunPerUpload ==
    \A u \in Uploads :
        /\ promise[u] # "none" <=> u \in activeRunners
        /\ promise[u] = "called" <=> worker[u].pc # "idle"

(* Every one of the early returns of upload_local_file takes the upload    *)
(* out of the registry, and nothing else does: a command that finds an     *)
(* entry reaches a worker.                                                 *)
RegistryMatchesWorker ==
    \A u \in Uploads : control[u] # "out" <=> worker[u].pc \in Registered

(* A worker cannot miss what it is told: wherever it may go on working or  *)
(* waiting with an older answer, the change is still to be seen.           *)
NoLostWakeup ==
    \A u \in Uploads :
        /\ worker[u].pc \in {"connecting", "sending", "backoff"} /\ control[u] # "none"
             => unseen[u]
        /\ worker[u].pc = "waiting" /\ control[u] # "paused" => unseen[u]

(* A file shown or recorded as uploaded is on the server, whatever the     *)
(* order of events, lists and answers; the page may say so of a file that  *)
(* was skipped, until the event arrives that says which.                   *)
CompletedIsReal ==
    \A u \in Uploads \ Directories :
        /\ records[u] = "completed" => "stored" \in outcome[u]
        /\ tasks[u] = "completed" => outcome[u] # {}

(* processQueue takes no more slots than there are, even when the limit    *)
(* has been lowered under the running uploads, and a change of the slots   *)
(* leaves none free that a waiting upload could have.                      *)
SlotsAreFilled ==
    [][activeRunners' # activeRunners
         => /\ \/ activeRunners' \subseteq activeRunners
               \/ Cardinality(activeRunners') <= maxConcurrent'
            /\ \/ Waiting(tasks', runners', activeRunners') = {}
               \/ Cardinality(activeRunners') >= maxConcurrent']_vars

(* A cancelled worker ends, or is told something else, unless it waits for *)
(* the server at that moment.                                              *)
CancelEnds ==
    \A u \in Uploads :
        control[u] = "cancelled" /\ worker[u].pc \notin {"creating", "connecting"}
          ~> control[u] # "cancelled"

(* Once its command has returned, an upload gives its slot back, unless    *)
(* the reload that follows hangs.                                          *)
EndedRunFreesSlot ==
    \A u \in Uploads :
        promise[u] \in {"resolved", "rejected"}
          ~> u \notin activeRunners \/ promise[u] \in {"called", "hangs"}
================================================================================
