# A verification project for the CFMS client (Tauri, community edition)

This directory holds TLA+ models of the client's core, the TLC runs that check them, and
theorems about them that the TLA+ proof system proves. Paths below are relative to the
repository root; `download_queue.rs` stands for
`crates/service/src/services/download_queue.rs`, and likewise for the other files of that
directory; the files page is `src/routes/home/files/+page.svelte`, the tasks page
`src/routes/home/tasks/+page.svelte`.

How to run it, from this directory:

    tlc -workers 2 -config QueueSafety.cfg MCDownloadQueue.tla     # and the other .cfg files
    tlc -workers 2 -config Uploads.cfg MCUploadQueue.tla           # section 3: run -> module
    tlapm DownloadQueueWorkers_proofs.tla                          # and the other *_proofs.tla

## 1. The system

The client is a Tauri application: a Svelte page calls Rust commands, the commands act on
one `AppState`, and background services act on the same state. Everything runs on a
multi-threaded Tokio runtime. Data lives behind many separate locks, so the unit of
atomicity is one critical section, not one command.

| Component | State | Operations | Interacts with |
|---|---|---|---|
| Download queue (`download_queue.rs`, `commands/downloads.rs`, `commands/upload_tasks.rs`) | the task map, the persistence context, the registry of running downloads with one watch channel each, the worker counter | `tick`, `claim_next_pending`, `register`/`unregister`, `execute_download`, `mark_completed`, `mark_failed`, `retry_or_fail`, `replace_server_task`; `add`, `pause`, `resume`, `cancel`, `retry`, `delete`, `delete_downloaded_files`, the three clears | transfer protocol, persistence, session (login loads the list, logout clears it), shutdown, page (events) |
| Persistence of the list (`task_persistence.rs`, `task_reload.rs`) | one encrypted file per account and server | `save` (called after every mutation), `load`, `discard` (when the preference key is reset) | queue, preference key |
| Download protocol and chunk store (`crates/transfer/src/{download,chunks,verify,decrypt}.rs`) | a SQLite chunk store per task with its checkpoint, the output file | metadata, resume negotiation, chunks, key, decryption, verification, acknowledgement | multiplexed connection, queue (progress callback) |
| Upload queue (`src/lib/stores.svelte.ts`, tasks page, `upload_queue.rs`, `upload_task_persistence.rs`, `src-tauri/src/lib.rs`, `commands/{transfer_helpers,documents,upload_tasks}.rs`) | in the page: the list shown, the runners, the uploads that hold a slot, the completion callbacks; behind it: the records and their file, the active uploads with a control channel each | queue, pause, resume, cancel, restart, remove, clear; progress events; the worker of a file and of a directory | page (calls, replies, events, in no fixed order), connection, directory listing (its completion callback) |
| Directory listing (files page, `src/lib/files/{directory-load-controller,progressive-listing,sort-worker-client,file-sort.worker}.ts`) | generation, sort revision, phase, cursor, the table; an accumulator on the page's thread and one in the worker; a pending snapshot with its timer | load, load more, retry, change the order, leave | server (pages), web worker (messages), upload queue |
| Multiplexed connection (`crates/transport/src/{connector,stream,frame}.rs`) | the stream map, bounded per-stream queues, next stream identifier | open, send, receive loop, conclusion frames, close | everything that talks to the server |
| Primary connection and session (`connection.rs`, `token_refresh.rs`, `rpc.rs`, `retry.rs`, `crates/service/src/state.rs`, `commands/auth_connection.rs`) | connection, token, user, server address, connect attempts: each behind a lock of its own | connect, login, two-factor step, logout, reconnect, refresh | all services |
| Server push and lockdown (`server_push.rs`, `src/lib/auth-lockdown.ts`) | the lockdown flag | one task per pushed stream | session, page |
| Preference key and preferences (`crates/crypto/src/dek.rs`, `user_preferences.rs`, `commands/preferences.rs`) | the data key in memory, its wrapped form on the server | set up, unlock, change, reset (discards what the key protected) | both lists' files |
| Local data reset (`src-tauri/src/local_data_reset.rs`) | a marker file, the data directory | request, apply at the next start | everything on disk |
| Service manager (`crates/service/src/service/manager.rs`) | the running services and their shutdown channel | register, start, shutdown | all services |
| Extensions (`crates/service/src/com_ext/`, `extensions.rs`) | installed packages, their data files and the index | install, enable, data access | page |
| Settings database, favorites | SQLite tables | read, write, migrate | commands |
| Cryptography, proxy, TLS, framing | none | pure functions and handshakes | all |
| Browsing, documents, administration, schedules, avatars, passkeys | none between calls | requests forwarded to the server | connection |
| Updates, mobile integration, page state | platform and page state | installers, background scheduling, stores | commands, events |

### What makes each of them correct, and what makes that hard

- **Download queue.** A task is claimed by one worker, a download has one record, none is
  stuck in flight, and each keeps what the user decided. Hard because most commands read
  a task, release the lock and write the status they decided on; because a worker holds the
  queue's lock only for single mutations and decides on a value it read earlier; because the
  registry is keyed by task and not by worker; because logout leaves workers running;
  because of retries and recreated server tasks that race all of it; and because nothing keeps
  two downloads from having one destination.
- **Persistence.** The file restores what was decided, belongs to the account it is
  named after, and is not replaced by something poorer. Hard because a save begins after the
  change it is for, takes two locks one after the other, then writes in place from any thread,
  while logins, logouts and resets of the key go on; section 3 says where it fails.
- **Transfer protocol.** The chunk store holds a gap-free prefix that its checkpoint names;
  a resumed download asks from there; the store is purged only after the acknowledgement.
  Hard because of crashes between a chunk and its checkpoint, resumption with another chunk
  size, and a lost acknowledgement.
- **Upload queue.** An upload runs once at a time, holds a slot exactly while it runs, is
  shown as complete only when it is, and no pause or cancellation is lost. Hard because the
  page and the Rust side each keep a status, because replies and events cross, because a
  command takes the registry's lock and the records' lock one after the other, because the
  pause of a running upload is a message to a worker that may be anywhere, and because a slot
  is given back only after a callback of another page.
- **Directory listing.** The table shows the directory opened last and no other, in the order
  chosen last; it is declared complete when it is; loading ends. Hard because pages, snapshots
  of two threads, a timer, sort changes and navigation interleave, and each answer may be late.
- **Multiplexed connection.** Every stream is eventually closed, frames reach their own
  stream in order, no stream blocks the others for ever. Hard because streams are created
  concurrently with the end of the receive loop and queues are bounded.
- **Session.** Connection, token, user and address belong to one session; the newest connect
  attempt wins; a refresh never revives a session that is over. Hard because each field has
  its own lock and every step awaits the network.
- **Server push.** The lockdown shown is the newest one announced. Hard because each push is
  handled by a task of its own, and one value comes from the connect answer.
- **Preference key, local reset.** Nothing is left encrypted under a key nobody has; a
  requested reset happens although the process dies. Hard because several files and the
  server change one after the other.
- **The rest** keeps no state between calls or is a sequential store.

`PROJECT.json` lists each component with what is modelled of it, and under `hazards` the
places in this code where the above can go wrong.

## 2. Modules

| Module | Models |
|---|---|
| `DownloadQueue` | tasks, registry, service loop, workers with `execute_download`, the user's commands, logout, login, shutdown, crash |
| `QueuePersistence` | one save split into its critical sections and file operations, against logins, logouts, resets of the preference key, crashes and other saves |
| `ChunkTransfer` | one download inside `execute_download`: chunk store, checkpoint, resumption, decryption, verification, acknowledgement, crash, overlapping attempts |
| `UploadQueue` | the page's list, runners and slots, the records, the registry, the worker; calls, replies and events between them; restart |
| `DirectoryListing` | loading a directory page by page, sorting on two threads, fallback timer, failures, order changes, leaving |
| `StreamMux` | one connection: opening and reading streams, the receive loop, the locks of the stream map, bounded queues, the server's own streams, closing, the end of the connection |
| `DirectoryView` | abstract: what the user is promised about the table; `DirectoryListing` implements it |
| `TransferContract` | abstract: what the queue counts on of a transfer; `ChunkTransfer` implements it |
| `MC*` | constants of the TLC instances, symmetry |
| `DownloadQueue_proofs` | type correctness; lemmas on what each list operation does |
| `DownloadQueueWorkers_proofs` | registry, live transfers, tasks in flight, number of workers |
| `DownloadQueueRecords_proofs` | one record per download, cancellations; exclusive work and whole files |
| `QueuePersistence_proofs`, `UploadQueue_proofs`, `StreamMux_proofs` | types, invariants and action properties of those modules |
| `ChunkTransfer_proofs`, `DirectoryListing_proofs` | the same, and that each implements its abstract specification |

How they fit together: the worker of `DownloadQueue` sees a transfer as phases and outcomes;
`ChunkTransfer` opens that box and implements `TransferContract`, which is the outside of it;
it takes from `DownloadQueue` that attempts overlap only if the earlier ones were told to stop
(`OneLiveTransfer`). `DownloadQueue` knows of the
file only that it holds one of the lists that saves have cloned, and a login takes any of them;
`QueuePersistence` is about which one it is, and when it is the current one
(`QuietSaveIsCurrent`). `UploadQueue` has
the reload of a directory as a callback that may hang, and `DirectoryListing` says when it
does (`EarlySort`, and a page that was left). `StreamMux` is below all of them: that an answer or
the end of the connection arrives is what their fairness assumes, and `WaitingEnds` says how far
that is true.

### 2.1 DownloadQueue

One action is one critical section together with the file operations beside it. The
sequence of control points of a worker follows `download_worker` and `execute_download`:

    idle -> ready -> claimed -> connecting -> starting -> request -> chunks -> decrypt -> ack
                                                |            \________\_______(any)_______/
                                             halting                       returned
                                                |           _____________/   |    \
                                           cancelling   discarding     completing  failing -> recreating
                                                 \__________\______________ |  ________/________/
                                                              leaving | looping -> idle | ready

| Variable | Code |
|---|---|
| `tasks` | `QueueState.tasks`; "Absent" is a missing entry. Of a record, only status, `supports_resume`, `retry_count`, whether `server_task_recreate_count` is above zero, and whether `failure_kind` says the server task cannot be claimed, are kept: nothing else is read by a guard |
| `copies` | the lists that saves have cloned so far, the empty one of an absent file among them; the user's file decrypts to one of them, and nothing here says to which |
| `persisting` | `persist_ctx` is `Some` |
| `active` | `ActiveRegistry.inner`: the worker whose channel is registered for a task |
| `cancelled`, `closed` | the worker's watch channel: its value, and whether its sender is gone. `wait_for` ends on either; `*cancel_rx.borrow()` sees the first only. That difference is why a worker whose entry was replaced stops, and still does not think it was cancelled |
| `pc`, `job`, `result`, `keeps` | where a worker is, its task, what its transfer returned, whether the transfer writes the persistent chunk store |
| `chunks`, `output` | chunk store files; each destination file absent, partly written, or whole |
| `origin`, `target` | the identifier under which the download of a task was added (a recreated server task replaces it and keeps its `file_path`); the `file_path` of the download added under an identifier. Targets are arbitrary: `add_download`, `get_document` and `insert` compare identifiers only, so two downloads may have one file |
| `cmd` | the command between two of its critical sections |
| `issued`, `userActions` | identifiers the server has issued; commands so far (bounded by `MaxUserActions`) |

| Actions | Code |
|---|---|
| `Tick`, with `Slots` | `run` and `tick`: `promote_scheduled`, then one worker per free slot and pending task |
| `Claim`, `Register`, `Connect`, `Unregister` | the loop of `download_worker`: `claim_next_pending`, `register`, `create_transfer_connection` with its two error paths, `unregister`, and whether the loop continues |
| `Start`, `Halt`, `Cancel` | the two checks of `execute_download` before the transfer: the check, the read of the status, the write of Cancelled. They are three steps because the code holds no lock in between |
| `Metadata`, `Chunk`, `Key`, `Decrypt`, `Acknowledge`, `Interrupt` | `receive_file` / `receive_with_resume` as the queue sees them: phases, progress calls, chunk store, output file, errors; and the `wait_for` branch of `select!` |
| `Returned`, `Discard`, `Complete`, `Fail`, `Recreate` | the rest of `execute_download`, with `mark_completed`, `mark_failed_with_kind`, `retry_or_fail` and `recreate_server_task` |
| `Control`, `ControlWrite`, `ControlSignal` | `pause_task`, `resume_task`, `cancel_task`: read, write, signal |
| `Retry`, `RetryAnswer`, `Delete`, `DeleteRecord`, `DeleteFiles*`, `RemoveRecords`, `Add` | the other commands |
| `Save` | the clone of the list in `QueueState::save`, in a critical section of its own and in any thread |
| `Logout`, `Login`, `Shutdown`, `Crash` | `clear_auth_state` and `reset_preference_dek`, which both empty list and context; `load_for_user`; `ServiceManager::shutdown` with `cancel_all`; the end of the process |

Choices worth knowing:

- The progress callback tests its channel before `update_progress` takes the lock, so
  `UpdateProgress` may write although the signal has come in between.
- Reading the channel and the status in `Returned` is one step. The channel never goes back
  to false while the worker is registered, and the status decides only between leaving and
  discarding; the steps that write (`Discard`, `Cancel`) are separate.
- `Discard` removes the file, the chunk store and writes the status in one step.
- Scheduled times are nondeterministic: any scheduled task may come due at any tick. The
  retry counter is compared with `max_retries` only, so it saturates just above it.
- Errors are of three kinds, which is what the code distinguishes: transient (retried),
  permanent, and "the server task cannot be claimed" (recreated once, then failed). The
  acknowledgement can fail with any of the three: the server answers it with a code as well.
- Saving is not part of the step that changes the list. A login finds any copy, however old,
  so nothing proved of this module rests on the order of saves; that a logout can write an empty
  list over the file adds nothing, since the empty list is a copy. Old lists carry old identifiers
  and old statuses: that they harm no invariant is part of what is checked.
- Left out: events to the page, the transfer connection object in a registry entry (its
  reuse by the next task is the `looping` point), byte counts, errors' text, panics of a
  worker, a changed concurrency limit. One command runs at a time between its critical
  sections; commands interleave with all workers and the service loop.

### 2.2 QueuePersistence

| Variable | Code |
|---|---|
| `memory`, `ctx` | `QueueState.tasks`, as the version of each task; `persist_ctx`: an account, and whether it has a key |
| `file` | the task file of each account: absent, whole, truncated, a mix of two writers, or foreign (encrypted with a key that has been replaced) |
| `user`, `dek` | who is signed in, and whether the session holds the preference key |
| `session` | the reload, logout or reset in progress |
| `pc`, `saved`, `replaced` | each thread in its save, what it has cloned, and whether the key it has cloned was replaced since |

| Actions | Code |
|---|---|
| `Change` | any mutator, whether it changes anything or not |
| `CloneContext`, `CloneTasks`, `Open`, `Write` | the four points of `QueueState::save` and `task_persistence::save` where another thread can come in: the context's lock, the tasks' lock, `fs::write` truncating the file, `fs::write` writing it |
| `SignIn` | authentication, with the preference key (set up or recovered) or without: a session whose key cannot be unlocked has none |
| `SignOut`, `DropContext` | `clear`: the list, then the context |
| `Reload`, `DropContext`, `Read`, `SetContext`, `Fill` | `load_for_user` in its order: the context is set before the list is filled. Without a key nothing is decrypted and nothing is saved |
| `ResetKey`, `Discard`, `Empty`, `DropContext` | `reset_preference_dek`: a new key, the file discarded (an error before or after that ends the command), list and context cleared; the page then reloads the tasks |
| `Crash` | the process ends and starts again, signed out |

`overlapped` is set for good once a save has overlapped another one or a session change, a
crash included: what such an execution leaves in a file survives the process. `issued`,
`onFile`, `removed`, `overlapped`, `unreadable` are history variables for the properties; no
guard of a code step depends on them except that an identifier is issued once. `unreadable` are
the accounts whose file was damaged when a process ended, until a reset discards the file: the
one operation that removes it.

### 2.3 ChunkTransfer

A chunk is known by its index and by the chunk size it was cut with; sizes and offsets are
numbers, so the arithmetic of resuming is the code's own.

| Variable | Code |
|---|---|
| `stores`, `path` | every `chunks.db` created so far (checkpoint size, next chunk, rows), and the one that has the task's name. A store that was removed while an attempt has it open lives on, as POSIX has it |
| `dest` | the output file: which file has the name, who created it last, which bytes are right, how long it is |
| `acked` | the server has heard "complete"; it refuses the task afterwards |
| `at` | each attempt: control point, result, whether it was told to stop (`told`), whether it has been alone all along (`solo`), and the locals of `receive_with_resume` |
| `resumable` | `supports_resume` |

| Actions | Code |
|---|---|
| `Begin` | the head of `execute_download`: read the checkpoint, validate the prefix, remove an invalid store, ask for offset and chunk size |
| `Metadata`, `OpenStore`, `InitializeCheckpoint`, `ReceiveChunk`, `ReceiveKey`, `DecryptChunk`, `Verify`, `SendComplete`, `ReceiveCompletion`, `Purge` | the steps of `receive_with_resume` in order, each between two awaits or two file operations |
| `Fails`, `Interrupt` | an error at any of them; the `wait_for` branch of `select!`, only where the attempt awaits the connection |
| `Leave` | the rest of `execute_download`: what is removed and what is kept |
| `Stop`, `Crash` | the commands that signal an attempt, the ones that also remove the store; the end of the process |

`record_chunk` is one SQLite transaction with a primary key on the chunk's index: one step,
which fails if the row is there. Left out: the moment between removing the database and its
`-wal` file, the user deleting a finished output by hand, an empty file (which has no chunks;
it is in `DownloadQueue.Metadata`), the bytes themselves.

Two properties say exactly as much as is true. `CompletedIsWhole` speaks of the attempt that
created the output last: another attempt can re-create the file after this one has verified
it, and if that other one then dies, a partial file is left under an acknowledged download.
`ChunksAreKept` speaks of attempts that nobody disturbed: an attempt that was told to stop
removes whatever store has the task's name by then.

`TransferContract` has no chunks, offsets or checkpoints: of each attempt the phase, the signal
and the result, and of the disk whether a store has the task's name and whether the output is
absent, partial or complete. Its actions are the steps that a worker of `DownloadQueue` takes
at a transfer: `Begin` is `Start`; `Metadata`, `Key`, `Acknowledge` and `Interrupt` are the
actions of those names; `Write` and `Verify` are `Decrypt`; `Error` is in each of them;
`Leave` is `Returned` with `Discard`, `Complete` or `Fail`. `ImplementsContract` is its
specification under the mapping at the end of `ChunkTransfer`. It says more than those actions in two places. A file may be complete under an error that
comes after its last byte, where `DownloadQueue` leaves it partly written. And an attempt may
verify a file that is partial because another attempt has created it anew; `DownloadQueue`
decrypts and verifies in one step that makes the file whole, which is right where one worker is
at the file, and that is the case in which `CompletedHasOutput` is claimed.

### 2.4 UploadQueue

| Variable | Code |
|---|---|
| `tasks`, `runners`, `activeRunners`, `completionCallbacks`, `maxConcurrent` | `UploadStoreImpl` in `stores.svelte.ts`; all of it is gone after a restart |
| `promise` | what `startRunner` awaits: the command, or the callback ("after"; "hangs" for a reload that never ends) |
| `view` | files page or tasks page |
| `calls` | the functions of the page that wait for a command, one per upload and one for the toolbar, with the stage the command has reached and the reply |
| `events` | progress events under way, in order per upload |
| `records` | `UploadQueueState.tasks` |
| `control`, `unseen` | `ActiveUploads`: no entry, or the value of the watch channel; whether `changed()` has still to return |
| `worker` | control point, files dealt with and attempt of the worker |
| `outcome` | history: what the server did with the files |

| Actions | Code |
|---|---|
| `Enqueue` ... `EnqueueReply` | `scheduleUpload`, `enqueue_upload`, `addQueued` |
| `Press`, `PressWaiting`, `PressToolbar`, `SetLimit`, `OpenTasks`, `OpenFiles` | the buttons with the conditions under which they are offered |
| `CallRegistry`, `CallStatus`, `CallRecords`, `CallList` | the commands, one step per lock they take |
| `ControlReply`, `ResumeReply`, `RestartReply`, `RemoveReply`, `SetAll` | the store after each reply |
| `ApplyProgress`, `RunnerResolves`, `RunnerRejects`, `CallbackEnds`, with `ProcessQueue` | `applyProgress`, `startRunner`, its `finally`, and the start of waiting uploads |
| `Register` ... `Finishes` | `upload_local_file` and the two upload commands: registration, document, attempts, pause, backoff, transfer, the directory's next file |
| `Restart` | the application is closed or killed; `load` makes unfinished records interrupted |

Waiting uploads start in any order: `created_at` counts seconds and a batch is queued within
one. The bound `MaxDisturbances` counts presses, failures, skipped files and restarts together.

### 2.5 DirectoryListing

| Variable | Code |
|---|---|
| `generation`, `sortRevision`, `sort` | `directoryGeneration` (the loader's), `sortRevision`, the chosen order |
| `directory` | the pages of the directory each generation opened: the lengths of pages, not names |
| `view` | what the page shows: phase, spinner, number of entries, the order they are in, cursor, denied |
| `requests`, `awaiting` | page requests in flight, of any generation; the load that waits for its first snapshot |
| `client`, `pending`, `lastPublished` | `sort-worker-client.ts`: the accumulator on the page's thread, the snapshot kept for the timer, the last one published |
| `workerUp`, `inbox`, `outbox`, `worker` | the web worker and the messages to and from it |

`LoadDirectory`, `FirstPage`, `LaterPage`, `FirstPageFails`, `LaterPageFails`,
`LaterPageDenied`, `StaleAnswer`, `RetryDirectoryLoad`, `SetSort` and `Unmount` are the page
between two awaits; `WorkerStep` and `WorkerAnswer` are one message each; `FallbackTimer` is
the one-second timer, `WorkerError` the error events. A worker may also be absent, throw on a
message, or be silent. The field "pages" of a message is auxiliary: nothing reads it, the
proofs relate the two accumulators with it. `PageAssumption` says what the server sends:
pages of at most the size asked for, none empty in a directory of several.

`DirectoryView` is the promise without any of this machinery: the table is emptied when a
directory is opened, takes entries of that directory in the order of the moment, only grows
once it shows more than a first batch, and is complete when it shows everything. It leaves a
first batch free to shrink, because two threads publish it, and with it the table that was
emptied when access was denied free to take entries of its directory again: a late snapshot
does that (see section 3).
`ImplementsView` is its specification under the mapping in `DirectoryListing.Promise`.

### 2.6 StreamMux

| Variable | Code |
|---|---|
| `nextId`, `map`, `closed`, `accepting` | `next_stream_id`, `streams`, `closed`, `new_streams` of `Connection` |
| `number`, `queue` | `Stream.id` and the bounded channel of a stream |
| `at`, `read` | where the task that owns a stream is, and how many frames it has read |
| `loop` | the receive loop: before a frame, announcing a new stream, looking up, waiting for room, concluding, waiting for its own lock, after the loop |
| `listener` | the accept loop of `server_push.rs` "listens" on this connection, or has "left" it, or the last handle of the connection has been "dropped", and with it the receiver of new streams |
| `sinkOpen`, `wire`, `peer`, `server` | the sending half, frames on the way, the other side |

| Actions | Code |
|---|---|
| `CreateStream`, `Send`, `SendFinal`, `RemoveFinal` | `create_stream_with_capacity`; `send_raw`, whose removal takes the shard's lock |
| `Recv`, `GiveUp` | `recv` with what its callers do next; a future dropped by a `select!` |
| `NextFrame`, `Announce`, `Route`, `Deliver`, `Conclude`, `Drain`, `CloseSink` | `recv_loop` await by await, and the task around it |
| `Accept`, `ListenerLeaves`, `LastHandleDropped`, `Close` | `accept_loop`, which also ends when the connection is replaced; the end of `Connection`, after which `Announce` drops a new stream at once and leaves its entry in the map; `Connection::close` |
| `ServerSends`, `PeerEnds` | the server, as the calls count on it: one answer per request, one event per push, each concluded at once or afterwards |

A lock of the map is held across an await only in `Deliver`, so it is derived from the loop's
control point (`Held`). In "stuck" the loop waits for the lock it holds.

## 3. Runs

Passing runs:

| Run | Instance | Shows |
|---|---|---|
| `QueueSafety` | 1 task, 2 workers, no automatic retry, every command, 4 commands, 1 cloned list beside the empty one | `InFlightHasWorker`, `RegistryIsExact`, `OneLiveTransfer`, `CancelledIsRespected`, `TypeOK` (2.7 million states) |
| `QueueExclusive` | 2 identifiers, 2 files and every choice of targets, 2 workers, no automatic retry, 3 commands, everything but resume and login | `ExclusiveWork`, `CompletedHasOutput`, `OneRecordPerDownload` (1.3 million states) |
| `QueueDrains` | 2 tasks, 1 slot for 2 worker identities, 1 retry, 3 commands, fairness | `WorkerLimit`, and the liveness property `QueueDrains` (0.5 million states) |
| `Persistence` | 2 accounts with one task each, 2 threads, 2 versions, 3 logins, logouts, key resets or crashes | `DamagedFileIsKept`, `MemoryMatchesContext`, `QuietSaveIsCurrent`, `TypeOK` (0.9 million states) |
| `Transfer` | file of 5 bytes, chunk sizes 1 to 3 (the client asks for 2 or 3), 2 attempts, 2 starts, 1 crash | `StoreIsPrefix`, `CompletedIsWhole`, `ResumeIsAccepted`, `ChunksAreKept`, `TypeOK`, and the refinement `ImplementsContract` (0.36 million states) |
| `Uploads` | a file and an empty directory, 1 or 2 slots, 1 retry, 1 disturbance, 1 visit to the tasks page, 1 progress event | `OneRunPerUpload`, `CompletedIsReal`, `SlotsAreFilled`, `TypeOK` (1.4 million states) |
| `UploadsEnd` | a directory of two files, 1 slot, 2 disturbances, fairness | `RegistryMatchesWorker`, `NoLostWakeup`, and the liveness properties `CancelEnds`, `EndedRunFreesSlot` (0.4 million states) |
| `Listing` | an empty directory and one of three pages (1, 2 and 4 entries, page size 3), 2 loads, 2 orders with 1 change, 1 failure, fairness | the refinement `ImplementsView`; `ShownBelongsToDirectory`, `OnePageAtATime`, `TypeOK`; the liveness properties `LoadingEnds`, `ListingSettles`, `OrderReachesTable` (51 thousand states) |
| `Mux` | a request and a transfer, 4 identifiers in 2 shards, queues of 2 and 1, one stream not yet accepted, 3 frames, 1 on the way, 1 disturbance (a call given up, a close, an undecodable frame), the end of the connection; fairness | `FramesInOrder`, `EndComesLast`, `TypeOK`, the liveness property `WaitingEnds` (1 million states) |

Why the bounds are enough for what they are about:

- The races around the registry and the statuses are about one task and two workers at it:
  a second worker can come to a task only after a resume, a retry or a reload, and four
  commands allow add, pause, resume, pause, or add, logout, login, cancel. A login
  finds the empty list or the one that was cloned, at whatever point of the task's life. A third
  worker adds nothing the theorems of section 5 would miss: they hold for any number. The retry
  budget matters to what ends, and `QueueDrains` has it; here the manual retry stands for it.
- Recreation needs a second identifier; two identifiers and one recreation per download let
  a worker's recreation race a manual retry, and two downloads have one file or two.
  `QueueExclusive` excludes resume and login on purpose, see below; without a login no copy is
  ever read, so it makes none beyond the first.
- Liveness needs competition for a slot: two tasks, one slot. One retry reaches the budget.
- Two threads are what it takes for saves to overlap; three session changes allow a login, a
  crash that leaves the file damaged, and a login that finds it, or a login without the key, its
  reset, and a logout or crash beside the saves that follow; two versions tell an old list from
  a new one.

- A file of five bytes has a shorter last chunk for sizes 2 and 3 and none for 1; the client's
  bounds exclude the size 1 that the server may still choose. Two attempts overlap in every
  way; the second start is the resumption. Three starts with a file of three bytes (3.6
  million states) hold as well.
- Uploads: two uploads compete for one slot; one disturbance is one press, one failure or one
  restart, two of them are a pause and a resume, or a press racing a failure. An empty
  directory, a file and a directory of two files are the three shapes of a worker's loop.
- Listing: the second page does not reach the milestone at which a snapshot is built, the
  third is longer than the first batch, so a worker's answer, the pending snapshot and the
  fallback differ; two loads are what stale answers need.
- Mux: three frames are one more than the transfer's queue and the loop's hand hold, so the
  loop waits; the request and a pushed stream take a frame each meanwhile. One of the streams
  of the server shares a shard with each call. A request's queue has room for its answer and
  the conclusion after it: with one place less, a `send_final` could wait for the shard that the
  loop holds while the loop waits for room in the same stream, which 256 places rule out.
  Longer wires only delay the same frames.

`QueueSafety` leaves deadlock unchecked because the bound on identifiers and commands lets
the model come to rest after a shutdown; so do `QueueExclusive`, `Transfer`, the upload runs, `Listing` and `Mux`,
where the user may have nothing left to do (the page was left, the bounds are spent, the
file is there, the connection has ended). In `QueueDrains` there is always a tick, and in `Persistence` always
a further save.

Runs that refute a statement of the documentation or a comment (`findings` in
`PROJECT.json` quotes the lines):

- `QueuePauseOverwritten` / `PauseIsPreserved`. `execute_download` promises to preserve the
  state `pause_task` selected. It reads the status, releases the lock, and writes Cancelled
  unconditionally. Add, claim, pause, resume, pause again while the first worker is between
  its read and its write: the download ends as Cancelled although the user's last word was
  pause; where the transfer had begun (`Discard`), the partial file is gone too. A single
  pause followed by a quick resume already ends as Cancelled; it is the same missing guard
  and is not listed separately.
- `PersistLogout` / `SavedTasksSurvive`. `clear` is documented to empty what is in memory.
  It empties the list before it drops the context, and `save` clones the context before the
  list, so a worker's save beside a logout writes the empty list into the account's file.
  The same window, with a login to another account in it, writes the other account's list.
- `MuxSelfLock` / `ClosedStreamsEnd`. `Stream::recv` promises None once the stream has been
  concluded or the connection has dropped. The receive loop looks a stream up in the DashMap,
  and when the send fails because the reader has gone, removes the entry while the reference
  it looked up, a read lock on the shard, is still alive: it waits for itself, and so does
  everybody on that connection. In the run, the second frame of a pushed stream, of which only
  the first is read, keeps a request from its answer. A chunk on its way to a download that is
  paused does the same to the download's own connection, and to the thread it runs on.

Other things met while modelling, each beside what a property says, and that the properties
therefore step around:

- `load` resets Downloading and Decrypting and not Verifying: a list saved by another task's
  mutation while a task is verifying restores that task as verifying for ever; it is not
  claimed, cannot be paused, resumed or retried; only cancelling or deleting it helps
  (`Recovered`; `InFlightHasWorker` speaks of the other two).
- A task can stay Verifying without a restart, too. When the answer to the completion carries
  the code of an unusable server task, `execute_download` asks for a new server task in place of
  one that is Downloading; the transfer has reported Verifying by then, the replacement finds
  another status than it expects, and the worker leaves with "its state changed". Nothing
  decides the task any more. `Acknowledge` and `Recreate` do so, and `QueueDrains` excepts it:
  as long as the task was never recreated, since a second refusal is a failure.
- Two saves that overlap may write in the opposite order of the lists they have cloned: the
  worker that has cloned the older list writes last, and a decision is missing from the file
  until something else is saved. A crash then loses it. `QuietSaveIsCurrent` is the statement for
  saves that overlap nothing; without `~overlapped` TLC finds it violated.
- `add_download`, `get_document` and `insert` look at identifiers only. A second download of the
  same document truncates the file of the first, which still says completed, and cancelling or
  removing either removes the file of both.
- `startRunner` awaits the completion callback before its `finally` gives the slot back, and
  the callback awaits the reload of the directory, which never ends once the files page has
  been left: an upload that has ended keeps its slot. After as many such uploads as there are
  slots, nothing starts any more. `EndedRunFreesSlot` is the statement without that case.
- A frame that cannot be decoded ends the receive loop by `?`, past the line that empties the
  map, and a stream created after the map was emptied enters it all the same: both leave
  readers that nobody will ever tell. `WaitingEnds` excepts them. A frame that comes after the
  client's `send_final` looks like a new stream of the server. `accept_stream` never returns
  None, since the connection holds a sender of its own; the listener polls instead.
- Two saves that overlap inside `fs::write` may leave a mix of both that nothing decrypts
  (`Open`, `Write` of `QueuePersistence`), and so may a save that still holds the old key beside
  a reset of the key. `DamagedFileIsKept` shows the good side: a file that a later session finds
  damaged is not overwritten by it, since a login that cannot load sets no context, until the
  user resets the preference key, which discards it.
- An order changed while the first page is loading outdates the revision the load waits for;
  the spinner stays until the order is changed again. `LoadingEnds` excepts it (`EarlySort`).
- Access denied on a later page keeps the generation, so a late snapshot refills the table
  that was emptied. `ShownBelongsToDirectory` and `ImplementsView` allow it: what it shows are
  entries of the directory that was opened.
- An early error of an upload leaves its record "uploading"; a directory that fails between
  two files leaves its record completed; pausing or cancelling a waiting or paused upload in
  the page does not reach the record and the next refresh reverts it; a pause and a resume
  before the worker has looked fail the upload; a late reply to a resume makes a completed
  upload pending, and it runs again; a refresh drops an upload that was queued meanwhile; a
  paused upload keeps its slot; connecting cannot be interrupted.

Three statements are true only under restrictions, and the runs say so:

- `ExclusiveWork` and `CompletedHasOutput` hold while nothing is resumed or reloaded
  (`NothingIsTakenUpAgain`, the assumption under which they are proved as well). After a
  pause and a resume (or logout and login) two workers can be at one task until the first
  notices its signal, and they share chunk store and output file; the first may remove the
  file that the second has completed. What holds always is `OneLiveTransfer`: one of them at
  most has not been told to stop.
- `CompletedHasOutput` speaks besides of downloads that share their destination with no other
  (`SoleDownload`): for the others the code promises nothing and the statement is false.
  `ExclusiveWork` and `OneRecordPerDownload` hold for them as well; two workers may be at one
  file, through two downloads.
- `pause_task` writes Paused over whatever the task has become since it was read, a
  completion included. `CancelledIsRespected` and `PauseIsPreserved` therefore speak of
  background steps only.

A cancellation that comes between the claim and the registration signals nobody: the whole
file is then downloaded, and the event DownloadCompleted is sent for a task that stays
Cancelled. Events are not part of the model, so no property states it; the hazard is listed.

## 4. Fairness

`FairSpec` assumes weak fairness of

- `TickAllDue`: the service loop's interval fires every second, and time passes, so a
  scheduled task is eventually due at some tick. Without a shutdown the loop never ends;
- `Advance(w)` for each worker: the Tokio runtime polls a ready future, and what a worker
  waits for is answered or fails. The latter is an assumption on the server: a transfer has
  no timeout of its own, so a server that keeps the connection alive and stays silent holds
  a worker until the user interrupts it, and the receive loop only logs that nothing has
  arrived for 30 seconds. The arrival of one more chunk (`Chunk`) is not counted as
  progress: files are finite;
- `FinishCmd`: a command that has begun runs to its end.

Nothing obliges the user, a login, a crash or a shutdown to happen. `QueueDrains` is checked
without shutdown, logout and crash: each of them may leave pending tasks for the next start,
as intended.

The other modules:

- `DirectoryListing` assumes weak fairness of `Settle` (a request has a timeout of 30
  seconds) and of `FallbackTimer` (a timer of one second), and none of the worker and of the
  user: that the listing settles with a silent worker is the point of the timer.
- `UploadQueue.FairSpec` assumes it of `ApplyProgress` (an event that was sent is handled), of
  the end of a command being handled, of `CallbackEnds` for a reload on a page still there,
  and of the worker's steps that wait for nothing. None of the user, of commands, and of the
  network, so `CancelEnds` does not count on the server.
- `StreamMux` assumes that as long as some task of this process can go on, one of them does:
  less than weak fairness of each. It assumes nothing of the server, the network and the user.
- `QueuePersistence` and `ChunkTransfer` state safety only.

## 5. Theorems

The assumptions are those of the modules: `QueueAssumption` (finite sets of tasks and
workers, at least one slot, natural numbers, null values distinct; any targets), `PersistenceAssumption`
(tasks belong to accounts), `TransferAssumption` (a file that is not empty, chunk sizes at
least one), `StreamAssumption` (identifiers enough for the calls, even in
number, and queues with room for a frame), `UploadsAssumption` (finitely many uploads, a file is one file, slots at least
one), `PageAssumption` (above), `SortAssumption`, `BoundAssumption`. Every number of tasks,
workers, accounts, threads, bytes, chunk sizes, uploads, pages, retries, crashes and commands
is covered.

| Module | Theorem | Says | Argument |
|---|---|---|---|
| `DownloadQueue` | `TypeCorrect` | `[]TypeOK` | inductive as it stands; one lemma per action over one lemma per list operation |
| | `TransfersAreInterruptible`, `AtMostOneLiveTransfer` | `[]RegistryIsExact`, `[]OneLiveTransfer` | `RegistryInv` |
| | `FlightsHaveWorkers` | `[]InFlightHasWorker` | `FlightInv` |
| | `WorkersAreLimited` | `[]WorkerLimit` | only a tick wakes workers, and it counts them first; cardinalities |
| | `DownloadsHaveOneRecord` | `[]OneRecordPerDownload` | `RecordsInv` |
| | `CancellationsStand` | the action property `CancelledIsRespected` | `RecordsInv` and the case analysis of the background steps |
| | `WorkIsExclusive`, `CompletedFilesAreWhole` | `[]ExclusiveWork`, `[]CompletedHasOutput` if `NothingIsTakenUpAgain` | `ExclusiveInv` |
| `QueuePersistence` | `PersistenceTypes`, `DamagedFilesStay`, `ListsMatchTheirContext`, `QuietSavesAreCurrent` | the four invariants of the run | `IInv` there |
| `ChunkTransfer` | `TransferTypes`, `StoresArePrefixes`, `CompletionIsEarned`, `ResumeSucceeds`, `ChunksSurvive` | the four invariants and the action property of the run | `IInv` there, and lemmas on `\div` and `%` |
| | `TransferKeepsContract` | the refinement `ImplementsContract` | `IInv`, and a result only after the return |
| `UploadQueue` | `TypeCorrect`, `RunsOnce`, `RegistryIsExact`, `WakeupsArrive` | `[]TypeOK`, `[]OneRunPerUpload`, `[]RegistryMatchesWorker`, `[]NoLostWakeup` | types in four groups; `Safe` |
| | `SlotsAreUsed` | the action property `SlotsAreFilled` | `ProcessQueue` and cardinalities |
| | `CompletedMeansStored` | `[]CompletedIsReal` | `DoneInv` |
| `StreamMux` | `TypeCorrect`, `FramesAreInOrder`, `EndsComeLast` | its three invariants | `IInv` there |
| `DirectoryListing` | `TypeCorrect`, `TableShowsItsDirectory`, `CompleteIsWhole`, `RequestsAreSequential` | its three invariants, and `[]CompleteShowsEverything`, which the run checks as part of the refinement | `IInv` there |
| | `ListingImplementsView` | the refinement `ImplementsView` | `IInv` and `RInv` |

**RegistryInv** is `TypeOK` and the two parts of `RegistryIsExact`, `RegistryIsAccurate` and
`AlwaysInterruptible`; neither
of the last two is inductive alone. `unregister` deletes the entry of a task, not of a worker.
That the deleted worker is told (its sender is dropped) is `AlwaysInterruptible`; that the
entry deleted belongs to a worker at that task, and not to one that has gone on, is
`RegistryIsAccurate`. `OneLiveTransfer` follows: two uninterrupted workers would both be the
entry of their common task.

**FlightInv** strengthens `InFlightHasWorker`. A worker whose server task is refused does
nothing to a task that is Decrypting (`recreate_server_task` expects Downloading), so "some
worker is at the task" is not preserved: that worker leaves. The invariant therefore asks of
a Decrypting task that one of its workers is past the key exchange with a result other than
"unclaimable", and, to make that hold, that a worker has a result only after its transfer and
recreates only an unclaimable one (`ResultOfTransfer`).

**RecordsInv** says of the list and of every copy of it that its records are issued
(`Numbered`) and belong to different downloads (`Unique`), since a login makes any copy the list;
and that an identifier the server has not issued is its own origin (`FreshOrigin`), so the
record it is given later has no older sibling in any copy. What it is about is `Replace`: the
identifier of a recreated task inherits the origin of the one that goes, and the old one stays in
old copies. That is harmless only because a copy has the old identifier or the new one and never
both (`CopiesStaySound`, `SaveKeepsRecords`). The proof classifies every other step by what it
writes (`Writes`): no record appears, nothing is issued or copied.

**ExclusiveInv** is what `ExclusiveWork` and `CompletedHasOutput` need on top of `RecordsInv`.
It speaks of downloads where the properties speak of tasks, because a recreated download keeps
its origin under a new identifier: no two workers are at one download (`OneWorkerPerDownload`),
and the record of a worker's download is that worker's task (`WorkerOwnsRecord`). No task with a worker
is in a status from which a tick, a claim, a retry or a removal of files starts (`Attended`), so
whoever claims a task finds nobody at its download. A worker past decrypting has a whole file
(`WholeIsWhole`) if its download is the only one with that file: then no other worker can write
or remove it (`SoleHasOwnFile`), and a download that has company keeps it (`SoleStays`), since
nothing is ever taken out of `issued`. `CommandsInv` says what a command between
its read and its write may be. Resume and login break `Attended` at once: they make a
task pending that its worker has not left. The assumption is about the constant `UserOps`
alone, and the run has every command it allows.

**QueuePersistence.** `DamagedFileIsKept` is not inductive: it needs that nobody holds the key
of an account whose file is damaged, neither the context, nor a login about to set it, nor a
save that has cloned one (`KeysOpenFiles`). During a reset of the key the
context holds none (`KeyInv`); a damaged file stays damaged until the reset discards it, and is no
longer counted then. The two properties of undisturbed saves rest on
`CalmInv`: a save runs alone and beside no login, what it has cloned is what memory holds
(`SavesAlone`); memory is empty during a login and is filled from the file of its account
(`LoadsAlone`); every list, in a file too, holds its own account's tasks (`ListsOwned`).

**ChunkTransfer.** `StoresInv` says of every store what `StoreIsPrefix` says, and that a store
without checkpoint is empty. `AttemptsInv` says where each attempt is with respect to its
store, to the file it created (the bytes before its position are right as long as it is the
creator) and, while it is alone, to the checkpoint it resumes from. The arithmetic is apart:
`ChunksFit`, `ChunkSpan` (chunks of one size tile the file), `OffsetLeadsBack` (the offset of
a checkpoint is aligned and leads back to its chunk). The refinement of `TransferContract` takes
from them that a valid checkpoint is never removed (so beginning touches no store), that bytes
are only ever written where they belong (so a complete output stays complete, whoever writes),
and that whoever verifies a file it created itself has written all of it. An error, an
interruption and each step of the protocol maps to one action of the contract; requesting,
initializing and receiving chunks are stutters, and so is all decrypting but the last byte.

**UploadQueue.** `Safe` is `OneRunPerUpload`, `RegistryMatchesWorker` and `NoLostWakeup`: a slot
lives as long as its run, an entry as long as the worker is at a file, a change is unseen
until the worker has looked. `DoneInv` follows "completed" through every place it passes:
records, events, lists under way, the page, the end of the run.

**DirectoryListing.** `IInv` says of every snapshot, message and accumulator that it holds a
prefix of the directory its generation opened (`ClientInv`, `WorkerInv`), that the messages
to the worker follow one another (`Linked`) and take it to where the client is (`CatchesUp`),
and that a load has one request, or one snapshot it waits for, or one place where it was
interrupted, at the end of what the client holds (`LoadInv`).

That it implements `DirectoryView` needs three things more (`RInv`, which TLC checked on this
run's instance and on a larger one of five million states before it was proved). `SorterInv`:
snapshots and messages of the page's revision are in the page's order, and an append of that
revision finds the worker in it (`OrderBefore`), although the append itself brings no order.
`GrowInv`: answers of one load come in the order of their pages, and once more than a first
batch is shown, whatever may still be shown has as many. `StateInv`: what is under way for each
phase shown. One lemma per action (`...Refines`) names the action of `DirectoryView` it is, or
the stutter; everything that fills the table goes through `Fills` and `FilledMoves`. That more
pages have no fewer entries (`EntriesGrow`) would be an induction over data; it is proved from a
least counterexample instead, which the well-foundedness of the natural numbers gives.

**StreamMux.** `IInv` says that an identifier about to be taken was never used (`Numbered`, by
counting the calls that have started), that frames on the way are genuine and in order
(`WireInOrder`), and, as long as the loop reads the socket, that for a call that has its stream
exactly the frames it has not got are on their way (`NothingLost`): so the frame at hand is
the next one of its call, a call whose entry has left the map has got everything, and
no frame of a call ever finds its entry gone and opens a stream of the server instead.

Only model-checked is liveness (`QueueDrains`, `CancelEnds`, `EndedRunFreesSlot`, `WaitingEnds`,
`LoadingEnds`, `ListingSettles`, `OrderReachesTable`), which is out of the prover's reach.
Every other property of a passing run is a theorem.

## 6. Not modelled, and why

- The byte level: frames, encryption, chunk contents, JSON. Unit tests with vectors say more.
- Requests that keep no state (browsing, administration, and so on); installers; page layout.
- Of the files page: the errors of the sorting function itself, the anchor of the viewport,
  the reveal of an address, the table kept on an error, search, selection and dialogs; the
  sorting of lists elsewhere (`sortFileEntriesAsync`).
- Of the uploads: bytes, encryption and saving of the records, sign-out (which clears the
  records and not the page's list), sources that disappear and are chosen again, two toolbar
  commands at once.
- Of a download: message parsing, the SHA-256 helpers.
- Everything listed as planned below.

## 7. Plan

Done: the modules of section 2 with their runs, the refinements of `DirectoryView` and
`TransferContract`, the theorems above. Still to come, in this order:

1. `SessionState`: connect attempts, login, logout, reconnect, token refresh and pushed
   lockdown over separately locked fields. Properties: the newest attempt wins, token and
   user belong to one session, a refresh never revives an ended session. `retry.rs` as
   operators with bounds. Theorem: attempt identifiers.
2. `DataReset`: the marker, the steps of a reset, crashes between them, and the preference
   key with the files that depend on it.
3. `DownloadLifecycle`: the abstract life of one download as the page sees it, with
   `DownloadQueue` shown to implement it; its transfers already keep `TransferContract`.
