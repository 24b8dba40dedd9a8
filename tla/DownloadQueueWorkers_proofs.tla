-------------------- MODULE DownloadQueueWorkers_proofs --------------------
(***************************************************************************)
(* Theorems about the workers of DownloadQueue: every transfer can be      *)
(* interrupted, at most one transfer of a task is live, every task in      *)
(* flight has a worker, and there are never more workers than allowed.     *)
(***************************************************************************)
EXTENDS DownloadQueue_proofs, FiniteSetTheorems

-----------------------------------------------------------------------------
(* The registry: every transfer can be reached, and by nobody else's entry *)

RegistryInv == TypeOK /\ RegistryIsAccurate /\ AlwaysInterruptible

\* A step that moves one registered worker, or none, and leaves the registry
\* and the channels alone.
MovesOn(w) ==
    /\ Registered(w)
    /\ \E point \in Points \ {"idle", "ready", "claimed"} : Goto(w, point)
    /\ UNCHANGED <<active, job, cancelled, closed>>

LEMMA MovesOnActions ==
    ASSUME TypeOK, NEW w \in Workers,
           \/ Connect(w) \/ Start(w) \/ Halt(w) \/ Cancel(w) \/ Metadata(w) \/ Key(w)
           \/ Decrypt(w) \/ Acknowledge(w) \/ Interrupt(w) \/ Returned(w) \/ Discard(w)
           \/ Complete(w) \/ Fail(w) \/ Recreate(w)
    PROVE  MovesOn(w)
<1> USE DEF MovesOn, Registered, Points
<1>1. CASE Connect(w) \/ Start(w) \/ Halt(w) \/ Cancel(w)
  BY <1>1 DEF Connect, Start, Halt, Cancel
<1>2. CASE Metadata(w) \/ Key(w) \/ Decrypt(w) \/ Acknowledge(w) \/ Interrupt(w)
  BY <1>2 DEF Metadata, Key, Decrypt, Acknowledge, Interrupt, Finish
<1>3. CASE Returned(w) \/ Discard(w) \/ Complete(w)
  BY <1>3 DEF Returned, Discard, Complete
<1>4. CASE Fail(w) \/ Recreate(w)
  BY <1>4 DEF Fail, Recreate
<1> QED BY <1>1, <1>2, <1>3, <1>4

LEMMA MovesOnKeepsRegistry ==
    ASSUME RegistryInv, NEW w \in Workers, MovesOn(w)
    PROVE  RegistryIsAccurate' /\ AlwaysInterruptible'
<1>1. \A v \in Workers : Registered(v)' <=> Registered(v)
  BY DEF RegistryInv, TypeOK, MovesOn, Goto, Registered
<1> QED BY <1>1 DEF RegistryInv, RegistryIsAccurate, AlwaysInterruptible, MovesOn, TypeOK

LEMMA RegisterKeepsRegistry ==
    ASSUME RegistryInv, NEW w \in Workers, Register(w)
    PROVE  RegistryIsAccurate' /\ AlwaysInterruptible'
<1> DEFINE id == job[w]
<1>1. id \in TaskIds
  BY JobType DEF RegistryInv, Register
<1>2. /\ Registered(w)'
      /\ \A v \in Workers \ {w} : Registered(v)' <=> Registered(v)
  BY DEF RegistryInv, TypeOK, Register, Goto, Registered
<1>3. /\ job' = job
      /\ active' = [active EXCEPT ![id] = w]
      /\ \A v \in Workers \ {w} : /\ cancelled'[v] = cancelled[v]
                                  /\ closed[v] => closed'[v]
                                  /\ active[id] = v => closed'[v]
  BY <1>1, QueueAssumption DEF RegistryInv, TypeOK, Register, Dropped
<1>4. RegistryIsAccurate'
  <2> SUFFICES ASSUME NEW a \in TaskIds, active'[a] # NoWorker
               PROVE  /\ job'[active'[a]] = a
                      /\ pc'[active'[a]] \notin {"idle", "ready", "claimed"}
    BY DEF RegistryIsAccurate, Registered
  <2>1. CASE a = id
    BY <1>1, <1>2, <1>3, <2>1 DEF RegistryInv, TypeOK, Registered
  <2>2. CASE a # id
    <3>1. active'[a] = active[a] /\ active[a] \in Workers
      BY <1>3, <2>2 DEF RegistryInv, TypeOK
    <3>2. job[active[a]] = a /\ Registered(active[a]) /\ active[a] # w
      BY <2>2, <3>1 DEF RegistryInv, RegistryIsAccurate
    <3> QED BY <1>2, <1>3, <3>1, <3>2 DEF Registered
  <2> QED BY <2>1, <2>2
<1>5. AlwaysInterruptible'
  <2> SUFFICES ASSUME NEW v \in Workers, Registered(v)'
               PROVE  cancelled'[v] \/ closed'[v] \/ active'[job'[v]] = v
    BY DEF AlwaysInterruptible
  <2>1. CASE v = w
    BY <1>1, <1>3, <2>1 DEF RegistryInv, TypeOK
  <2>2. CASE v # w
    <3>1. Registered(v) /\ job[v] \in TaskIds
      BY <1>2, <2>2, JobType DEF RegistryInv, Registered
    <3>2. cancelled[v] \/ closed[v] \/ active[job[v]] = v
      BY <3>1 DEF RegistryInv, AlwaysInterruptible
    <3> QED BY <1>1, <1>3, <2>2, <3>1, <3>2 DEF RegistryInv, TypeOK
  <2> QED BY <2>1, <2>2
<1> QED BY <1>4, <1>5

LEMMA UnregisterKeepsRegistry ==
    ASSUME RegistryInv, NEW w \in Workers, Unregister(w)
    PROVE  RegistryIsAccurate' /\ AlwaysInterruptible'
<1> DEFINE id == job[w]
<1>1. id \in TaskIds /\ Registered(w)
  BY JobType DEF RegistryInv, Unregister, Registered
<1>2. /\ ~Registered(w)'
      /\ \A v \in Workers \ {w} : Registered(v)' <=> Registered(v)
  BY DEF RegistryInv, TypeOK, Unregister, Goto, GoesOn, Registered
<1>3. /\ active' = [active EXCEPT ![id] = NoWorker]
      /\ \A v \in Workers \ {w} : /\ job'[v] = job[v]
                                  /\ cancelled'[v] = cancelled[v]
                                  /\ closed[v] => closed'[v]
                                  /\ active[id] = v => closed'[v]
  BY <1>1, QueueAssumption DEF RegistryInv, TypeOK, Unregister, EntryRemoved, Dropped
<1>4. RegistryIsAccurate'
  <2> SUFFICES ASSUME NEW a \in TaskIds, active'[a] # NoWorker
               PROVE  /\ job'[active'[a]] = a
                      /\ pc'[active'[a]] \notin {"idle", "ready", "claimed"}
    BY DEF RegistryIsAccurate, Registered
  <2>1. a # id /\ active'[a] = active[a] /\ active[a] \in Workers
    BY <1>1, <1>3 DEF RegistryInv, TypeOK
  <2>2. job[active[a]] = a /\ Registered(active[a])
    BY <2>1 DEF RegistryInv, RegistryIsAccurate
  <2> QED BY <1>2, <1>3, <2>1, <2>2 DEF Registered
<1>5. AlwaysInterruptible'
  <2> SUFFICES ASSUME NEW v \in Workers, Registered(v)'
               PROVE  cancelled'[v] \/ closed'[v] \/ active'[job'[v]] = v
    BY DEF AlwaysInterruptible
  <2>1. v # w /\ Registered(v) /\ job[v] \in TaskIds
    BY <1>2, JobType DEF RegistryInv, Registered
  <2>2. cancelled[v] \/ closed[v] \/ active[job[v]] = v
    BY <2>1 DEF RegistryInv, AlwaysInterruptible
  <2> QED BY <1>1, <1>3, <2>1, <2>2 DEF RegistryInv, TypeOK
<1> QED BY <1>4, <1>5

\* Workers that are not registered, and channels that are told to stop.
LEMMA OthersKeepRegistry ==
    ASSUME RegistryInv,
           \/ TickSomeDue \/ StartCmd \/ FinishCmd \/ Save \/ Session \/ UNCHANGED vars
           \/ \E w \in Workers : Claim(w) \/ Chunk(w)
    PROVE  RegistryIsAccurate' /\ AlwaysInterruptible'
<1>1. ASSUME UNCHANGED <<active, closed>>,
             \A v \in Workers : /\ Registered(v)' <=> Registered(v)
                                /\ Registered(v) => job'[v] = job[v]
                                /\ cancelled[v] => cancelled'[v]
      PROVE  RegistryIsAccurate' /\ AlwaysInterruptible'
  BY <1>1 DEF RegistryInv, TypeOK, RegistryIsAccurate, AlwaysInterruptible
<1>2. CASE UNCHANGED workerVars
  BY <1>1, <1>2 DEF workerVars, Registered
<1>3. CASE TickSomeDue
  <2>1. \A v \in Workers : Registered(v)' <=> Registered(v)
    BY <1>3 DEF TickSomeDue, Tick, Registered, RegistryInv, TypeOK
  <2> QED BY <1>1, <1>3, <2>1 DEF TickSomeDue, Tick
<1>4. ASSUME NEW w \in Workers, Claim(w)
      PROVE  RegistryIsAccurate' /\ AlwaysInterruptible'
  <2>1. \A v \in Workers : /\ Registered(v)' <=> Registered(v)
                           /\ Registered(v) => job'[v] = job[v]
    BY <1>4 DEF Claim, Goto, Registered, RegistryInv, TypeOK
  <2> QED BY <1>1, <1>4, <2>1 DEF Claim
<1>5. CASE ControlSignal
  BY <1>1, <1>5 DEF ControlSignal, Registered, RegistryInv, TypeOK
<1>6. CASE Shutdown
  BY <1>1, <1>6 DEF Shutdown, Registered, RegistryInv, TypeOK
<1>7. CASE Crash
  BY <1>7 DEF Crash, RegistryIsAccurate, AlwaysInterruptible, Registered
<1>8. CASE StartCmd
  BY <1>2, <1>8 DEF StartCmd, Add, Control, Retry, Delete, DeleteFiles, RemoveRecords
<1>9. CASE FinishCmd
  BY <1>2, <1>5, <1>9 DEF FinishCmd, ControlWrite, RetryAnswer, DeleteRecord,
                          DeleteFilesRemove, DeleteFilesMark
<1>10. CASE Session
  BY <1>2, <1>6, <1>7, <1>10 DEF Session, Logout, Login
<1>11. CASE Save \/ UNCHANGED vars
  BY <1>2, <1>11 DEF Save, vars
<1>12. ASSUME NEW w \in Workers, Chunk(w)
       PROVE  RegistryIsAccurate' /\ AlwaysInterruptible'
  BY <1>2, <1>12 DEF Chunk
<1> QED BY <1>3, <1>4, <1>8, <1>9, <1>10, <1>11, <1>12

LEMMA RegistryNext == RegistryInv /\ [Next]_vars => RegistryInv'
<1> SUFFICES ASSUME RegistryInv, [Next]_vars PROVE RegistryInv'
  OBVIOUS
<1>1. TypeOK'
  BY TypeNext DEF RegistryInv
<1>2. RegistryIsAccurate' /\ AlwaysInterruptible'
  <2>1. ASSUME NEW w \in Workers, Advance(w)
        PROVE  RegistryIsAccurate' /\ AlwaysInterruptible'
    <3>1. TypeOK
      BY DEF RegistryInv
    <3>2. CASE Claim(w)
      BY <3>2, OthersKeepRegistry
    <3>3. CASE Register(w)
      BY <3>3, RegisterKeepsRegistry
    <3>4. CASE Unregister(w)
      BY <3>4, UnregisterKeepsRegistry
    <3>5. CASE ~(Claim(w) \/ Register(w) \/ Unregister(w))
      <4>1. MovesOn(w)
        BY <2>1, <3>1, <3>5, MovesOnActions DEF Advance
      <4> QED BY <4>1, MovesOnKeepsRegistry
    <3> QED BY <3>2, <3>3, <3>4, <3>5
  <2> QED BY <2>1, OthersKeepRegistry DEF Next
<1> QED BY <1>1, <1>2 DEF RegistryInv

THEOREM RegistryCorrect == Spec => []RegistryInv
<1>1. Init => RegistryInv
  BY TypeInit DEF Init, RegistryInv, RegistryIsAccurate, AlwaysInterruptible, Registered
<1> QED BY <1>1, RegistryNext, PTL DEF Spec

\* Pausing, cancelling and shutting down reach every transfer that has not
\* already been told to stop, although unregister removes whatever entry its
\* task has and a second worker may have replaced the channel of the first; and
\* the registry never points to a worker that has gone on to another task.
THEOREM TransfersAreInterruptible == Spec => []RegistryIsExact
  BY RegistryCorrect, PTL DEF RegistryInv, RegistryIsExact

\* Whatever is paused, resumed, cleared and reloaded, two workers at one task
\* are never both uninterrupted.
THEOREM AtMostOneLiveTransfer == Spec => []OneLiveTransfer
<1>1. RegistryInv => OneLiveTransfer
  <2> SUFFICES ASSUME RegistryInv, NEW v \in Workers, NEW w \in Workers,
                      Registered(v), Registered(w), job[v] = job[w],
                      ~(cancelled[v] \/ closed[v]), ~(cancelled[w] \/ closed[w])
               PROVE  v = w
    BY DEF OneLiveTransfer
  <2> QED BY DEF RegistryInv, AlwaysInterruptible
<1> QED BY <1>1, RegistryCorrect, PTL

-----------------------------------------------------------------------------
(* A task in flight has a worker *)

Decided == {"returned", "discarding", "completing", "failing"}

\* The transfer has a result only once it has ended; only a server task the
\* server no longer accepts is recreated.
ResultOfTransfer ==
    \A w \in Workers :
        /\ pc[w] \notin Decided \cup {"recreating", "leaving", "looping"} => result[w] = "none"
        /\ pc[w] = "recreating" => result[w] = "unclaimable"

HasDownloader(id) == \E w \in Workers : job[w] = id /\ Working(w)

\* A worker that will write another status over Decrypting: it publishes the
\* verifying phase after decrypting, or an outcome that is not a recreation, or
\* it has been told to stop and discards the download.
Decrypts(w) ==
    \/ pc[w] = "decrypt"
    \/ pc[w] \in Decided /\ result[w] # "unclaimable"
    \/ pc[w] \in Decided \cup {"ack"} /\ cancelled[w]

HasDecrypter(id) == \E w \in Workers : job[w] = id /\ Decrypts(w)

\* The inductive strengthening of InFlightHasWorker: a worker that finds its
\* server task unclaimable leaves a task that is Decrypting alone, so another
\* worker, one that has come further, must be there.
FlightInv ==
    /\ TypeOK
    /\ ResultOfTransfer
    /\ \A id \in TaskIds : Status(id) = "Downloading" => HasDownloader(id)
    /\ \A id \in TaskIds : Status(id) = "Decrypting" => HasDecrypter(id)

LEMMA FlightInvImplies == FlightInv => InFlightHasWorker
  BY DEF FlightInv, InFlightHasWorker, HasDownloader, HasDecrypter, Decrypts, Decided, Working

\* Whether a task is in flight is decided by the worker that takes a step at
\* it; nobody else is moved.
WorkerStep(w) ==
    /\ job[w] \in TaskIds /\ job' = job /\ cancelled' = cancelled
    /\ \A v \in Workers \ {w} : pc'[v] = pc[v] /\ result'[v] = result[v]
    /\ \A id \in TaskIds \ {job[w]} : tasks'[id].status \in Flying => tasks'[id] = tasks[id]
    /\ tasks'[job[w]].status = "Downloading" => Working(w)'
    /\ tasks'[job[w]].status = "Decrypting" =>
          \/ Decrypts(w)'
          \/ Status(job[w]) = "Decrypting" /\ ~Decrypts(w)

LEMMA WorkerStepKeepsFlights ==
    ASSUME FlightInv, NEW w \in Workers, WorkerStep(w)
    PROVE  /\ \A id \in TaskIds : Status(id)' = "Downloading" => HasDownloader(id)'
           /\ \A id \in TaskIds : Status(id)' = "Decrypting" => HasDecrypter(id)'
<1>1. ASSUME NEW v \in Workers \ {w}
      PROVE  /\ job'[v] = job[v]
             /\ Working(v) => Working(v)'
             /\ Decrypts(v) => Decrypts(v)'
  BY DEF WorkerStep, Working, Decrypts
<1>2. ASSUME NEW id \in TaskIds, Status(id)' = "Downloading"
      PROVE  HasDownloader(id)'
  <2>1. CASE id = job[w]
    BY <1>2, <2>1 DEF WorkerStep, HasDownloader, Status
  <2>2. CASE id # job[w]
    <3>1. HasDownloader(id)
      BY <1>2, <2>2 DEF WorkerStep, FlightInv, Status, Flying
    <3> QED BY <1>1, <2>2, <3>1 DEF HasDownloader
  <2> QED BY <2>1, <2>2
<1>3. ASSUME NEW id \in TaskIds, Status(id)' = "Decrypting"
      PROVE  HasDecrypter(id)'
  <2>1. CASE id = job[w] /\ Decrypts(w)'
    BY <2>1 DEF WorkerStep, HasDecrypter
  <2>2. CASE id = job[w] /\ Status(id) = "Decrypting" /\ ~Decrypts(w)
    BY <1>1, <2>2 DEF FlightInv, HasDecrypter
  <2>3. CASE id # job[w]
    <3>1. HasDecrypter(id)
      BY <1>3, <2>3 DEF WorkerStep, FlightInv, Status, Flying
    <3> QED BY <1>1, <2>3, <3>1 DEF HasDecrypter
  <2> QED BY <1>3, <2>1, <2>2, <2>3 DEF WorkerStep, Status
<1> QED BY <1>2, <1>3

\* The steps of a transfer publish their phase while the worker is at it.
LEMMA TransferStep ==
    ASSUME FlightInv, NEW w \in Workers,
           \/ Start(w) \/ Metadata(w) \/ Chunk(w) \/ Key(w) \/ Decrypt(w) \/ Acknowledge(w)
           \/ Interrupt(w)
    PROVE  WorkerStep(w) /\ ResultOfTransfer'
<1> USE DEF FlightInv, WorkerStep, ResultOfTransfer, Working, Decrypts, Decided
<1>1. job[w] \in TaskIds
  BY JobType DEF Start, Metadata, Chunk, Key, Decrypt, Acknowledge, Interrupt
<1>2. CASE Start(w) \/ Interrupt(w)
  BY <1>1, <1>2 DEF Start, Interrupt, Finish, Goto, queueVars, Status, TypeOK
<1>3. CASE Metadata(w)
  <2>1. UpdateProgress(w, "Verifying") \/ tasks' = tasks
    BY <1>3 DEF Metadata
  <2>2. OnlyAt(job[w]) /\ tasks'[job[w]].status \in {"Verifying", Status(job[w])}
    BY <1>1, <2>1, UpdateProgressEffect DEF InFlight, OnlyAt, Status
  <2>3. result[w] = "none" /\ pc[w] = "request"
    BY <1>3 DEF Metadata
  <2> QED BY <1>1, <1>3, <2>2, <2>3 DEF Metadata, Finish, Goto, OnlyAt, TypeOK
<1>4. CASE Chunk(w)
  <2>1. OnlyAt(job[w]) /\ tasks'[job[w]].status \in {"Downloading", Status(job[w])}
    BY <1>1, <1>4, UpdateProgressEffect DEF Chunk, InFlight
  <2> QED BY <1>1, <1>4, <2>1 DEF Chunk, workerVars, OnlyAt, TypeOK
<1>5. CASE Key(w)
  <2>1. \/ UpdateProgress(w, "Decrypting") /\ Goto(w, "decrypt") /\ UNCHANGED result
        \/ tasks' = tasks /\ \E e \in Errors \ {"unclaimable"} : Finish(w, e)
    BY <1>5, Zenon DEF Key
  <2>2. OnlyAt(job[w]) /\ tasks'[job[w]].status \in {"Decrypting", Status(job[w])}
    BY <1>1, <2>1, UpdateProgressEffect DEF InFlight, OnlyAt, Status
  <2>3. result[w] = "none" /\ pc[w] = "chunks"
    BY <1>5 DEF Key
  <2> QED BY <1>1, <1>5, <2>1, <2>2, <2>3 DEF Key, Finish, Goto, OnlyAt, Status, TypeOK
<1>6. CASE Decrypt(w)
  <2>1. UpdateProgress(w, "Verifying") \/ tasks' = tasks
    BY <1>6 DEF Decrypt
  <2>2. OnlyAt(job[w]) /\ tasks'[job[w]].status \in {"Verifying", Status(job[w])}
    BY <1>1, <2>1, UpdateProgressEffect DEF InFlight, OnlyAt, Status
  <2>3. result[w] = "none" /\ pc[w] = "decrypt" /\ UNCHANGED <<job, cancelled>>
    BY <1>6 DEF Decrypt
  <2>4. CASE Goto(w, "ack") /\ UpdateProgress(w, "Verifying") /\ UNCHANGED result
    <3>1. cancelled[w] \/ tasks'[job[w]].status # "Decrypting"
      <4>1. CASE tasks' = IF Status(job[w]) \in Settled \cup {"Absent"}
                         THEN tasks ELSE [tasks EXCEPT ![job[w]].status = "Verifying"]
        <5>1. tasks[job[w]] \in Task
          BY <1>1 DEF TypeOK
        <5> QED BY <1>1, <4>1, <5>1 DEF Settled, Status, Task, TypeOK
      <4> QED BY <2>4, <4>1 DEF UpdateProgress
    <3> QED BY <1>1, <2>2, <2>3, <2>4, <3>1 DEF Goto, OnlyAt, TypeOK
  <2>5. CASE Finish(w, "permanent")
    BY <1>1, <2>2, <2>3, <2>5 DEF Finish, Goto, OnlyAt, TypeOK
  <2> QED BY <1>6, <2>4, <2>5 DEF Decrypt
<1>7. CASE Acknowledge(w)
  <2>1. UpdateProgress(w, "Verifying") \/ tasks' = tasks
    BY <1>7 DEF Acknowledge
  <2>2. OnlyAt(job[w]) /\ tasks'[job[w]].status \in {"Verifying", Status(job[w])}
    BY <1>1, <2>1, UpdateProgressEffect DEF InFlight, OnlyAt, Status
  <2>3. result[w] = "none" /\ pc[w] = "ack"
    BY <1>7 DEF Acknowledge
  <2> QED BY <1>1, <1>7, <2>2, <2>3 DEF Acknowledge, Finish, Goto, OnlyAt, TypeOK
<1> QED BY <1>2, <1>3, <1>4, <1>5, <1>6, <1>7

\* The steps that publish an outcome: the worker leaves only a task that is not
\* in flight any more, or that another worker has taken further.
LEMMA OutcomeStep ==
    ASSUME FlightInv, NEW w \in Workers,
           \/ Connect(w) \/ Halt(w) \/ Cancel(w) \/ Returned(w) \/ Discard(w) \/ Complete(w)
           \/ Fail(w) \/ Recreate(w)
    PROVE  WorkerStep(w) /\ ResultOfTransfer'
<1> USE DEF FlightInv, WorkerStep, ResultOfTransfer, Working, Decrypts, Decided
<1>1. job[w] \in TaskIds
  BY JobType DEF Connect, Halt, Cancel, Returned, Discard, Complete, Fail, Recreate
<1>2. CASE Connect(w)
  <2>1. \/ tasks' = tasks /\ Goto(w, "starting")
        \/ Goto(w, "leaving") /\ OnlyAt(job[w]) /\ tasks'[job[w]].status \notin Flying
    BY <1>1, <1>2, RetryOrFailEffect, MarkFailedEffect DEF Connect
  <2> QED BY <1>1, <1>2, <2>1 DEF Connect, Goto, OnlyAt, Flying, Status, TypeOK
<1>3. CASE Cancel(w)
  <2>1. OnlyAt(job[w]) /\ tasks'[job[w]].status \notin Flying
    BY <1>1, <1>3, UpdateStatusEffect DEF Cancel, OnlyAt, Status, Flying, Statuses, Terminal
  <2> QED BY <1>1, <1>3, <2>1 DEF Cancel, Goto, OnlyAt, Flying, TypeOK
<1>4. CASE Halt(w) \/ Returned(w)
  <2>1. tasks' = tasks
    BY <1>4 DEF Halt, Returned, queueVars
  <2> QED BY <1>1, <1>4, <2>1 DEF Halt, Returned, Goto, Flying, Status, TypeOK
<1>5. CASE Discard(w)
  <2>1. OnlyAt(job[w]) /\ tasks'[job[w]].status \notin Flying
    BY <1>1, <1>5, UpdateStatusEffect DEF Discard, Flying, Statuses, Terminal
  <2> QED BY <1>1, <1>5, <2>1 DEF Discard, Goto, OnlyAt, Flying, TypeOK
<1>6. CASE Complete(w)
  <2>1. OnlyAt(job[w]) /\ tasks'[job[w]].status \notin Flying
    BY <1>1, <1>6, MarkCompletedEffect DEF Complete
  <2> QED BY <1>1, <1>6, <2>1 DEF Complete, Goto, OnlyAt, Flying, TypeOK
<1>7. CASE Fail(w)
  <2>1. \/ OnlyAt(job[w]) /\ tasks'[job[w]].status \notin Flying /\ Goto(w, "leaving")
        \/ tasks' = tasks /\ Status(job[w]) = "Paused" /\ Goto(w, "leaving")
        \/ tasks' = tasks /\ Goto(w, "discarding") /\ cancelled[w]
        \/ /\ tasks' = tasks /\ result[w] = "unclaimable" /\ ~cancelled[w]
           /\ \/ Goto(w, "recreating")
              \/ Goto(w, "leaving") /\ Status(job[w]) # "Downloading"
    BY <1>1, <1>7, MarkFailedEffect, RetryOrFailEffect DEF Fail, MayRecreate
  <2>2. pc[w] = "failing" /\ UNCHANGED <<job, result, cancelled>>
    BY <1>7 DEF Fail
  <2> QED BY <1>1, <2>1, <2>2 DEF Goto, OnlyAt, Flying, Status, TypeOK
<1>8. CASE Recreate(w)
  <2>1. /\ pc[w] = "recreating" /\ result[w] = "unclaimable"
        /\ UNCHANGED <<job, result, cancelled>>
    BY <1>8 DEF Recreate
  <2>2. CASE MarkFailed(job[w], TRUE) /\ Goto(w, "leaving")
    <3>1. OnlyAt(job[w]) /\ tasks'[job[w]].status \notin Flying
      BY <1>1, <2>2, MarkFailedEffect
    <3> QED BY <1>1, <2>1, <2>2, <3>1 DEF Goto, OnlyAt, Flying, TypeOK
  <2>3. CASE /\ \E new \in TaskIds \ issued : Replace(job[w], new, "Downloading")
             /\ Goto(w, IF Status(job[w]) = "Downloading" THEN "looping" ELSE "leaving")
    <3>1. PICK new \in TaskIds : Replace(job[w], new, "Downloading")
      BY <2>3
    <3>2. CASE Status(job[w]) # "Downloading"
      <4>1. tasks' = tasks
        BY <1>1, <3>1, <3>2, ReplaceEffect
      <4> QED BY <1>1, <2>1, <2>3, <3>2, <4>1 DEF Goto, Flying, Status, TypeOK
    <3>3. CASE Status(job[w]) = "Downloading"
      <4>1. /\ \A id \in TaskIds \ {job[w]} :
                  tasks'[id].status \in Flying => tasks'[id] = tasks[id]
            /\ tasks'[job[w]].status \notin Flying
        BY <1>1, <3>1, <3>3, ReplaceEffect DEF Flying, Blank
      <4> QED BY <1>1, <2>1, <2>3, <3>3, <4>1 DEF Goto, Flying, TypeOK
    <3> QED BY <3>2, <3>3
  <2> QED BY <1>8, <2>2, <2>3 DEF Recreate
<1> QED BY <1>2, <1>3, <1>4, <1>5, <1>6, <1>7, <1>8

LEMMA FlightInit == Init => FlightInv
<1> SUFFICES ASSUME Init PROVE FlightInv
  OBVIOUS
<1>1. ResultOfTransfer
  BY DEF Init, ResultOfTransfer
<1>2. \A id \in TaskIds : Status(id) = "Absent"
  BY DEF Init, Status, NoTasks, Blank
<1> QED BY <1>1, <1>2, TypeInit DEF FlightInv

\* Everybody else moves no worker at work, and puts no task in flight.
LEMMA OthersKeepFlights ==
    ASSUME FlightInv,
           \A w \in Workers : /\ job[w] # NoId => job'[w] = job[w]
                              /\ Working(w) => Working(w)' /\ (Decrypts(w) => Decrypts(w)'),
           \A id \in TaskIds : tasks'[id].status \in Flying => tasks'[id].status = tasks[id].status
    PROVE  /\ \A id \in TaskIds : Status(id)' = "Downloading" => HasDownloader(id)'
           /\ \A id \in TaskIds : Status(id)' = "Decrypting" => HasDecrypter(id)'
<1>1. \A w \in Workers : /\ Working(w) => job'[w] = job[w] /\ Working(w)'
                         /\ Decrypts(w) => job'[w] = job[w] /\ Decrypts(w)'
  BY QueueAssumption DEF FlightInv, TypeOK, Working, Decrypts, Decided
<1> QED BY <1>1 DEF FlightInv, Status, Flying, HasDownloader, HasDecrypter

\* What the commands write is never in flight.
Grounded == \A id \in TaskIds : tasks'[id].status \in Flying => tasks'[id] = tasks[id]

LEMMA GroundedCommands ==
    ASSUME TypeOK, StartCmd \/ FinishCmd
    PROVE  Grounded
<1> USE DEF Grounded, Flying
<1>1. CASE StartCmd
  <2>1. ASSUME tasks' = tasks PROVE Grounded
    BY <2>1
  <2>2. CASE Add
    BY <2>2 DEF Add, Blank, TypeOK, Task
  <2>3. ASSUME NEW id \in TaskIds, Retry(id) PROVE Grounded
    BY <2>1, <2>3 DEF Retry, TypeOK, Task
  <2>4. ASSUME NEW op \in DOMAIN Clears, NEW gone \in SUBSET TaskIds, RemoveRecords(op, gone)
        PROVE  Grounded
    BY <2>4 DEF RemoveRecords, Blank, TypeOK
  <2> QED BY <1>1, <2>1, <2>2, <2>3, <2>4 DEF StartCmd, Control, Delete, DeleteFiles, queueVars
<1>2. CASE FinishCmd
  <2>1. ASSUME tasks' = tasks PROVE Grounded
    BY <2>1
  <2>2. cmd # NoCmd => cmd.id \in TaskIds
    BY DEF TypeOK
  <2>3. CASE ControlWrite
    <3>1. cmd.op \in {"pause", "resume", "cancel"} /\ UpdateStatus(cmd.id, Written[cmd.op])
      BY <2>3 DEF ControlWrite, Written
    <3>2. cmd.id \in TaskIds /\ Written[cmd.op] \in {"Paused", "Pending", "Cancelled"}
      BY <2>2, <3>1 DEF NoCmd, Written
    <3>3. OnlyAt(cmd.id) /\ tasks'[cmd.id].status \in {"Paused", "Pending", "Cancelled", "Absent"}
      BY <3>1, <3>2, UpdateStatusEffect DEF Statuses, Terminal
    <3> QED BY <3>3 DEF OnlyAt
  <2>4. CASE RetryAnswer
    <3>1. cmd.id \in TaskIds
      BY <2>2, <2>4 DEF RetryAnswer, NoCmd
    <3>2. ASSUME NEW new \in TaskIds, Replace(cmd.id, new, "Failed") PROVE Grounded
      BY <2>1, <3>1, <3>2, ReplaceEffect DEF Blank
    <3> QED BY <2>1, <2>4, <3>2 DEF RetryAnswer
  <2>5. CASE DeleteRecord
    BY <2>1, <2>5 DEF DeleteRecord, Blank, TypeOK
  <2>6. CASE DeleteFilesMark
    BY <2>1, <2>6 DEF DeleteFilesMark, TypeOK, Task
  <2> QED BY <1>2, <2>1, <2>3, <2>4, <2>5, <2>6 DEF FinishCmd, ControlSignal, DeleteFilesRemove,
                                                  queueVars
<1> QED BY <1>1, <1>2

LEMMA FlightNext == FlightInv /\ [Next]_vars => FlightInv'
<1> SUFFICES ASSUME FlightInv, [Next]_vars PROVE FlightInv'
  OBVIOUS
<1> DEFINE Flights == /\ \A id \in TaskIds : Status(id) = "Downloading" => HasDownloader(id)
                      /\ \A id \in TaskIds : Status(id) = "Decrypting" => HasDecrypter(id)
<1>1. TypeOK /\ TypeOK'
  BY TypeNext DEF FlightInv
<1>2. ASSUME Grounded, UNCHANGED <<pc, job, result>>,
             \A w \in Workers : cancelled[w] => cancelled'[w]
      PROVE  ResultOfTransfer' /\ Flights'
  BY <1>2, OthersKeepFlights DEF Grounded, FlightInv, ResultOfTransfer, Working, Decrypts
<1>3. ASSUME TickSomeDue
      PROVE  ResultOfTransfer' /\ Flights'
  <2>1. PICK due \in SUBSET TaskIds : Tick(due)
    BY <1>3 DEF TickSomeDue, WithStatus
  <2>2. \A id \in TaskIds : tasks'[id].status \in Flying => tasks'[id].status = tasks[id].status
    BY <1>1, <2>1 DEF Tick, Flying, TypeOK, Task
  <2>3. \A w \in Workers : /\ (pc'[w] = pc[w] \/ (pc[w] = "idle" /\ pc'[w] = "ready"))
                           /\ job'[w] = job[w] /\ result'[w] = result[w]
                           /\ cancelled'[w] = cancelled[w]
    <3>1. PICK spawned \in SUBSET {w \in Workers : pc[w] = "idle"} :
             pc' = [w \in Workers |-> IF w \in spawned THEN "ready" ELSE pc[w]]
      BY <2>1 DEF Tick
    <3>2. job' = job /\ result' = result /\ cancelled' = cancelled
      BY <2>1 DEF Tick
    <3>3. ASSUME NEW w \in Workers
          PROVE  (pc'[w] = pc[w] \/ (pc[w] = "idle" /\ pc'[w] = "ready"))
      <4>1. CASE w \in spawned
        BY <3>1, <4>1
      <4>2. CASE w \notin spawned
        BY <3>1, <4>2
      <4> QED BY <4>1, <4>2
    <3> QED BY <3>2, <3>3
  <2>4. ResultOfTransfer'
    BY <2>3 DEF FlightInv, ResultOfTransfer, Decided
  <2>5. \A w \in Workers : /\ job[w] # NoId => job'[w] = job[w]
                           /\ Working(w) => Working(w)' /\ (Decrypts(w) => Decrypts(w)')
    <3> SUFFICES ASSUME NEW w \in Workers
                 PROVE  /\ job[w] # NoId => job'[w] = job[w]
                        /\ Working(w) => Working(w)' /\ (Decrypts(w) => Decrypts(w)')
      OBVIOUS
    <3>1. CASE pc'[w] = pc[w]
      BY <2>3, <3>1 DEF Working, Decrypts
    <3>2. CASE pc[w] = "idle"
      BY <2>3, <3>2 DEF Working, Decrypts, Decided
    <3> QED BY <2>3, <3>1, <3>2
  <2> QED BY <2>2, <2>4, <2>5, OthersKeepFlights
<1>4. ASSUME NEW w \in Workers, Advance(w) \/ Chunk(w)
      PROVE  ResultOfTransfer' /\ Flights'
  <2>1. CASE WorkerStep(w) /\ ResultOfTransfer'
    BY <2>1, WorkerStepKeepsFlights
  <2>2. CASE Claim(w)
    <3>1. ResultOfTransfer'
      BY <2>2 DEF Claim, Goto, FlightInv, TypeOK, ResultOfTransfer, Decided
    <3>2. CASE tasks' = tasks /\ job' = job
      <4>1. \A v \in Workers : Working(v) => Working(v)' /\ (Decrypts(v) => Decrypts(v)')
        BY <2>2 DEF Claim, Goto, FlightInv, TypeOK, Working, Decrypts, Decided
      <4>2. \A v \in Workers : Decrypts(v) => Working(v)
        BY DEF Working, Decrypts, Decided
      <4> QED BY <3>1, <3>2, <4>1, <4>2, OthersKeepFlights
    <3>3. CASE \E id \in MostUrgent : /\ UpdateStatus(id, "Downloading")
                                     /\ job' = [job EXCEPT ![w] = id]
                                     /\ Goto(w, "claimed")
      <4>1. PICK id \in TaskIds : /\ UpdateStatus(id, "Downloading")
                                  /\ job' = [job EXCEPT ![w] = id]
                                  /\ Goto(w, "claimed")
        BY <3>3 DEF MostUrgent, WithStatus
      <4>2. OnlyAt(id) /\ tasks'[id].status \in {"Downloading", "Absent"}
        BY <1>1, <4>1, UpdateStatusEffect DEF Statuses, InFlight
      <4>3. /\ job'[w] = id /\ Working(w)'
            /\ \A v \in Workers \ {w} : job'[v] = job[v] /\ (Working(v) => Working(v)')
                                        /\ (Decrypts(v) => Decrypts(v)')
            /\ ~Working(w) /\ ~Decrypts(w)
        BY <1>1, <2>2, <4>1 DEF Claim, Goto, TypeOK, Working, Decrypts, Decided
      <4> QED BY <3>1, <4>2, <4>3 DEF FlightInv, OnlyAt, Status, HasDownloader, HasDecrypter
    <3> QED BY <2>2, <3>2, <3>3 DEF Claim
  <2>3. CASE Register(w)
    <3>1. \A v \in Workers : /\ Working(v) => Working(v)' /\ (Decrypts(v) => Decrypts(v)')
                             /\ pc[v] # "claimed" => pc'[v] = pc[v]
      BY <1>1, <2>3 DEF Register, Goto, TypeOK, Working, Decrypts, Decided
    <3>2. ResultOfTransfer'
      BY <1>1, <2>3 DEF Register, Goto, TypeOK, FlightInv, ResultOfTransfer, Decided
    <3>3. tasks' = tasks /\ job' = job
      BY <2>3 DEF Register, queueVars
    <3>4. \A v \in Workers : Decrypts(v) => Working(v)
      BY DEF Working, Decrypts, Decided
    <3> QED BY <3>1, <3>2, <3>3, <3>4, OthersKeepFlights
  <2>4. CASE Unregister(w)
    <3>1. /\ \A v \in Workers \ {w} : /\ job'[v] = job[v] /\ pc'[v] = pc[v]
                                      /\ result'[v] = result[v] /\ cancelled'[v] = cancelled[v]
          /\ ~Working(w) /\ ~Decrypts(w) /\ result'[w] = "none" /\ pc'[w] \in {"idle", "ready"}
      BY <1>1, <2>4 DEF Unregister, Goto, GoesOn, TypeOK, Working, Decrypts, Decided
    <3>2. ResultOfTransfer'
      BY <3>1 DEF FlightInv, ResultOfTransfer
    <3>3. tasks' = tasks
      BY <2>4 DEF Unregister, queueVars
    <3>4. \A v \in Workers : /\ Working(v) => job'[v] = job[v] /\ Working(v)'
                             /\ Decrypts(v) => job'[v] = job[v] /\ Decrypts(v)'
      BY <3>1 DEF Working, Decrypts
    <3> QED BY <3>2, <3>3, <3>4 DEF FlightInv, Status, HasDownloader, HasDecrypter
  <2> QED BY <1>4, <2>1, <2>2, <2>3, <2>4, TransferStep, OutcomeStep DEF Advance
<1>5. ASSUME StartCmd \/ FinishCmd
      PROVE  ResultOfTransfer' /\ Flights'
  <2>1. UNCHANGED <<pc, job, result>> /\ \A w \in Workers : cancelled[w] => cancelled'[w]
    <3>1. CASE StartCmd
      BY <3>1 DEF StartCmd, Add, Control, Retry, Delete, DeleteFiles, RemoveRecords, workerVars
    <3>2. CASE FinishCmd
      BY <1>1, <3>2 DEF FinishCmd, ControlWrite, ControlSignal, RetryAnswer, DeleteRecord,
                        DeleteFilesRemove, DeleteFilesMark, workerVars, TypeOK
    <3> QED BY <1>5, <3>1, <3>2
  <2> QED BY <1>1, <1>2, <1>5, <2>1, GroundedCommands
<1>6. ASSUME Session
      PROVE  ResultOfTransfer' /\ Flights'
  <2>1. CASE Logout
    BY <1>2, <2>1 DEF Logout, workerVars, Grounded, NoTasks, Blank, Flying
  <2>2. CASE Login
    <3>1. PICK list \in copies : tasks' = Recovered(list)
      BY <2>2 DEF Login
    <3>2. \A id \in TaskIds : tasks'[id].status \notin Flying
      BY <1>1, <3>1 DEF Recovered, Flying, TypeOK, Task
    <3> QED BY <1>2, <2>2, <3>2 DEF Login, workerVars, Grounded
  <2>3. CASE Shutdown
    BY <1>1, <1>2, <2>3 DEF Shutdown, Grounded, TypeOK
  <2>4. CASE Crash
    <3>1. ResultOfTransfer'
      BY <2>4 DEF Crash, ResultOfTransfer
    <3>2. \A id \in TaskIds : Status(id)' = "Absent"
      BY <2>4 DEF Crash, Status, NoTasks, Blank
    <3> QED BY <3>1, <3>2
  <2> QED BY <1>6, <2>1, <2>2, <2>3, <2>4 DEF Session
<1>7. ASSUME Save
      PROVE  ResultOfTransfer' /\ Flights'
  BY <1>2, <1>7 DEF Save, workerVars, Grounded
<1>8. ASSUME UNCHANGED vars
      PROVE  ResultOfTransfer' /\ Flights'
  BY <1>2, <1>8 DEF vars, queueVars, workerVars, Grounded
<1>9. ResultOfTransfer' /\ Flights'
  BY <1>3, <1>4, <1>5, <1>6, <1>7, <1>8 DEF Next
<1> QED BY <1>1, <1>9 DEF FlightInv

\* Every task shown as downloading or decrypting has a worker that will still
\* publish an outcome for it, for any number of workers, retries, recreations,
\* pauses, reloads and crashes.
THEOREM FlightsHaveWorkers == Spec => []InFlightHasWorker
  BY FlightInit, FlightNext, FlightInvImplies, PTL DEF Spec
-----------------------------------------------------------------------------
(* The number of workers *)

Busy == {w \in Workers : pc[w] # "idle"}

\* Only the service loop's tick takes a worker out of its rest.
LEMMA OnlyTickWakes ==
    ASSUME TypeOK, [Next]_vars, ~TickSomeDue
    PROVE  Busy' \subseteq Busy
<1>1. ASSUME NEW w \in Workers, Advance(w) \/ Chunk(w) PROVE Busy' \subseteq Busy
  <2>1. pc[w] # "idle"
    BY <1>1 DEF Advance, Claim, Register, Connect, Start, Halt, Cancel, Metadata, Key, Decrypt,
                Acknowledge, Interrupt, Returned, Discard, Complete, Fail, Recreate, Unregister,
                Chunk, Finish, Working
  <2>2. \A v \in Workers \ {w} : pc'[v] = pc[v]
    <3>1. CASE Claim(w) \/ Register(w) \/ Unregister(w)
      <4>1. \E point : Goto(w, point)
        BY <3>1 DEF Claim, Register, Unregister
      <4> QED BY <4>1 DEF Goto, TypeOK
    <3>2. CASE Chunk(w)
      BY <3>2 DEF Chunk, workerVars
    <3>3. CASE ~(Claim(w) \/ Register(w) \/ Unregister(w) \/ Chunk(w))
      <4>1. MovesOn(w)
        BY <1>1, <3>3, MovesOnActions DEF Advance
      <4> QED BY <4>1 DEF MovesOn, Goto, TypeOK
    <3> QED BY <3>1, <3>2, <3>3
  <2> QED BY <2>1, <2>2 DEF Busy
<1>2. ASSUME StartCmd \/ FinishCmd \/ Save \/ Logout \/ Login \/ Shutdown \/ UNCHANGED vars
      PROVE  Busy' \subseteq Busy
  <2>1. UNCHANGED pc
    <3>1. CASE StartCmd
      BY <3>1 DEF StartCmd, Add, Control, Retry, Delete, DeleteFiles, RemoveRecords, workerVars
    <3>2. CASE FinishCmd
      BY <3>2 DEF FinishCmd, ControlWrite, ControlSignal, RetryAnswer, DeleteRecord,
                  DeleteFilesRemove, DeleteFilesMark, workerVars
    <3>3. CASE Save \/ Logout \/ Login \/ Shutdown \/ UNCHANGED vars
      BY <3>3 DEF Save, Logout, Login, Shutdown, vars, workerVars
    <3> QED BY <1>2, <3>1, <3>2, <3>3
  <2> QED BY <2>1 DEF Busy
<1>3. CASE Crash
  BY <1>3 DEF Crash, Busy
<1> QED BY <1>1, <1>2, <1>3 DEF Next, Session

\* A tick never starts more workers than the limit leaves room for.
LEMMA TickFits ==
    ASSUME WorkerLimit, TickSomeDue
    PROVE  WorkerLimit'
<1>1. PICK due \in SUBSET WithStatus("Scheduled") : Tick(due)
  BY DEF TickSomeDue
<1> DEFINE promoted == [id \in TaskIds |->
              IF id \in due THEN [tasks[id] EXCEPT !.status = "Pending"] ELSE tasks[id]]
           pending  == {id \in TaskIds : promoted[id].status = "Pending"}
<1>2. PICK spawned \in SUBSET {w \in Workers : pc[w] = "idle"} :
        /\ Cardinality(spawned) = Slots(promoted)
        /\ pc' = [w \in Workers |-> IF w \in spawned THEN "ready" ELSE pc[w]]
  BY <1>1 DEF Tick
<1> HIDE DEF promoted
<1>3. Busy' = Busy \cup spawned /\ Busy \cap spawned = {}
  BY <1>2 DEF Busy
<1>4. IsFiniteSet(Busy) /\ IsFiniteSet(spawned) /\ IsFiniteSet(pending)
  <2>1. Busy \subseteq Workers /\ spawned \subseteq Workers /\ pending \subseteq TaskIds
    BY DEF Busy
  <2> QED BY <2>1, QueueAssumption, FS_Subset
<1>5. Cardinality(Busy) \in Nat /\ Cardinality(spawned) \in Nat /\ Cardinality(pending) \in Nat
  BY <1>4, FS_CardinalityType
<1>6. Cardinality(Busy') = Cardinality(Busy) + Cardinality(spawned)
  <2>1. Cardinality(Busy \cap spawned) = 0
    BY <1>3, FS_EmptySet
  <2>2. Cardinality(Busy \cup spawned)
          = Cardinality(Busy) + Cardinality(spawned) - Cardinality(Busy \cap spawned)
    BY <1>4, FS_Union
  <2>3. Cardinality(Busy \cup spawned) = Cardinality(Busy) + Cardinality(spawned)
    BY <1>5, <2>1, <2>2
  <2> QED BY <1>3, <2>3
<1>7. Cardinality(Busy) <= MaxConcurrent
  BY DEF WorkerLimit, Busy
<1>8. Cardinality(Busy) + Cardinality(spawned) <= MaxConcurrent
  <2>1. Slots(promoted) = IF Cardinality(Busy) >= MaxConcurrent THEN 0
                          ELSE Least(Cardinality(pending), MaxConcurrent - Cardinality(Busy))
    BY DEF Slots, WorkerCount, Busy
  <2> QED BY <1>2, <1>5, <1>7, <2>1, QueueAssumption DEF Least
<1> QED BY <1>6, <1>8 DEF WorkerLimit, Busy

\* However many tasks are pending and however often the loop ticks, there are
\* never more workers than the configured limit.
THEOREM WorkersAreLimited == Spec => []WorkerLimit
<1>1. Init => WorkerLimit
  <2> SUFFICES ASSUME Init PROVE WorkerLimit
    OBVIOUS
  <2>1. {w \in Workers : pc[w] # "idle"} = {}
    BY DEF Init
  <2> QED BY <2>1, FS_EmptySet, QueueAssumption DEF WorkerLimit
<1>2. TypeOK /\ WorkerLimit /\ [Next]_vars => WorkerLimit'
  <2> SUFFICES ASSUME TypeOK, WorkerLimit, [Next]_vars PROVE WorkerLimit'
    OBVIOUS
  <2>1. CASE TickSomeDue
    BY <2>1, TickFits
  <2>2. CASE ~TickSomeDue
    <3>1. Busy' \subseteq Busy
      BY <2>2, OnlyTickWakes
    <3>2. IsFiniteSet(Busy)
      BY QueueAssumption, FS_Subset DEF Busy
    <3>3. Cardinality(Busy') <= Cardinality(Busy) /\ Cardinality(Busy) \in Nat
          /\ Cardinality(Busy') \in Nat
      BY <3>1, <3>2, FS_Subset, FS_CardinalityType
    <3> QED BY <3>3, QueueAssumption DEF WorkerLimit, Busy
  <2> QED BY <2>1, <2>2
<1> QED BY <1>1, <1>2, TypeCorrect, PTL DEF Spec
=============================================================================
