-------------------------- MODULE UploadQueue_proofs --------------------------
(***************************************************************************)
(* Theorems about the upload queue, for any finite set of uploads, any     *)
(* numbers of files, any limits on the slots and any bounds.               *)
(***************************************************************************)
EXTENDS UploadQueue, FiniteSetTheorems, TLAPS

--------------------------------------------------------------------------------
(* Types.  The type invariant is proved in four groups: what the page      *)
(* holds, its calls, the Rust side, and the workers.                       *)

ListType   == [Uploads -> Status \cup {"absent"}]
CallType   == [op : Ops, stage : Stages, ids : SUBSET Uploads, at : Callers,
               ok : BOOLEAN, list : ListType]
CallsType  == [Callers -> CallType]
WorkerType == [pc : Registered \cup {"idle", "between"}, file : Nat, attempt : Nat]
RunsType   == [Uploads -> {"none", "called", "resolved", "rejected", "after", "hangs"}]

PageTyped(shown, able, active, runs, limit) ==
    /\ shown \in ListType
    /\ able \subseteq Uploads
    /\ active \subseteq Uploads
    /\ runs \in RunsType
    /\ limit \in Limits

PageOK ==
    /\ PageTyped(tasks, runners, activeRunners, promise, maxConcurrent)
    /\ completionCallbacks \in [Uploads -> {"none", "live", "left"}]
    /\ view \in {"files", "tasks"}
    /\ used \in [disturbances : Nat, visits : Nat]

CallsOK == calls \in CallsType

BackendOK ==
    /\ events \in [Uploads -> Seq(Status)]
    /\ records \in [Uploads -> Status \cup {"absent", "removed"}]
    /\ control \in [Uploads -> {"out", "none", "paused", "cancelled"}]
    /\ unseen \in [Uploads -> BOOLEAN]
    /\ outcome \in [Uploads -> SUBSET {"stored", "skipped"}]

WorkerOK == worker \in [Uploads -> WorkerType]

LEMMA TypeSplits == /\ TypeOK <=> PageOK /\ CallsOK /\ BackendOK /\ WorkerOK
                    /\ TypeOK' <=> PageOK' /\ CallsOK' /\ BackendOK' /\ WorkerOK'
BY DEF TypeOK, PageOK, CallsOK, BackendOK, WorkerOK, PageTyped, ListType, CallType,
       CallsType, WorkerType, RunsType

LEMMA NoCallTyped == NoCall \in CallType
BY DEF NoCall, Ops, Stages, Callers, CallType, ListType

LEMMA InitTyped == Init => TypeOK
<1> SUFFICES ASSUME Init PROVE PageOK /\ CallsOK /\ BackendOK /\ WorkerOK
    BY TypeSplits
<1>1. PageOK
    BY UploadsAssumption DEF Init, PageOK, PageTyped, ListType, RunsType
<1>2. CallsOK
    BY NoCallTyped DEF Init, CallsOK, CallsType
<1>3. BackendOK
    BY DEF Init, BackendOK
<1>4. WorkerOK
    BY DEF Init, WorkerOK, WorkerType, Idle
<1> QED BY <1>1, <1>2, <1>3, <1>4

--------------------------------------------------------------------------------
(* The calls of the page.                                                  *)

\* One field of a call is replaced.
LEMMA FieldTyped ==
    ASSUME NEW k \in CallsType, NEW c \in Callers
    PROVE  /\ \A op \in Ops : [k EXCEPT ![c].op = op] \in CallsType
           /\ \A stage \in Stages : [k EXCEPT ![c].stage = stage] \in CallsType
           /\ \A ids \in SUBSET Uploads : [k EXCEPT ![c].ids = ids] \in CallsType
           /\ \A at \in Callers : [k EXCEPT ![c].at = at] \in CallsType
           /\ \A ok \in BOOLEAN : [k EXCEPT ![c].ok = ok] \in CallsType
           /\ \A list \in ListType : [k EXCEPT ![c].list = list] \in CallsType
<1>1. ASSUME NEW op \in Ops PROVE [k EXCEPT ![c].op = op] \in CallsType
    BY DEF CallsType, CallType
<1>2. ASSUME NEW stage \in Stages PROVE [k EXCEPT ![c].stage = stage] \in CallsType
    BY DEF CallsType, CallType
<1>3. ASSUME NEW ids \in SUBSET Uploads PROVE [k EXCEPT ![c].ids = ids] \in CallsType
    BY DEF CallsType, CallType
<1>4. ASSUME NEW at \in Callers PROVE [k EXCEPT ![c].at = at] \in CallsType
    BY DEF CallsType, CallType
<1>5. ASSUME NEW ok \in BOOLEAN PROVE [k EXCEPT ![c].ok = ok] \in CallsType
    BY DEF CallsType, CallType
<1>6. ASSUME NEW list \in ListType PROVE [k EXCEPT ![c].list = list] \in CallsType
    BY DEF CallsType, CallType
<1> QED BY <1>1, <1>2, <1>3, <1>4, <1>5, <1>6

\* The edits the actions make of the call of c.
LEMMA EditTyped ==
    ASSUME CallsOK, NEW c \in Callers
    PROVE  /\ [calls EXCEPT ![c] = NoCall] \in CallsType
           /\ \A stage \in Stages : [calls EXCEPT ![c].stage = stage] \in CallsType
           /\ \A op \in Ops, stage \in Stages :
                [calls EXCEPT ![c].op = op, ![c].stage = stage] \in CallsType
           /\ \A op \in Ops, stage \in Stages, ids \in SUBSET Uploads :
                [calls EXCEPT ![c].op = op, ![c].stage = stage, ![c].ids = ids] \in CallsType
           /\ \A stage \in Stages, ok \in BOOLEAN :
                [calls EXCEPT ![c].stage = stage, ![c].ok = ok] \in CallsType
           /\ \A stage \in Stages, at \in Callers :
                [calls EXCEPT ![c].stage = stage, ![c].at = at] \in CallsType
           /\ \A stage \in Stages, list \in ListType :
                [calls EXCEPT ![c].stage = stage, ![c].list = list] \in CallsType
           /\ \A stage \in Stages, ids \in SUBSET Uploads, at \in Callers, ok \in BOOLEAN :
                [calls EXCEPT ![c].stage = stage, ![c].ids = ids, ![c].at = at,
                              ![c].ok = ok] \in CallsType
<1>1. [calls EXCEPT ![c] = NoCall] \in CallsType
    BY NoCallTyped DEF CallsOK, CallsType
<1>2. ASSUME NEW stage \in Stages PROVE [calls EXCEPT ![c].stage = stage] \in CallsType
    BY FieldTyped DEF CallsOK
<1>3. ASSUME NEW op \in Ops, NEW stage \in Stages
      PROVE  [calls EXCEPT ![c].op = op, ![c].stage = stage] \in CallsType
  <2>1. [calls EXCEPT ![c].op = op] \in CallsType
      BY FieldTyped DEF CallsOK
  <2>2. [[calls EXCEPT ![c].op = op] EXCEPT ![c].stage = stage] \in CallsType
      BY <2>1, FieldTyped
  <2> QED BY <2>2
<1>4. ASSUME NEW op \in Ops, NEW stage \in Stages, NEW ids \in SUBSET Uploads
      PROVE  [calls EXCEPT ![c].op = op, ![c].stage = stage, ![c].ids = ids] \in CallsType
  <2>1. [[calls EXCEPT ![c].op = op, ![c].stage = stage] EXCEPT ![c].ids = ids] \in CallsType
      BY <1>3, FieldTyped
  <2> QED BY <2>1
<1>5. ASSUME NEW stage \in Stages, NEW ok \in BOOLEAN
      PROVE  [calls EXCEPT ![c].stage = stage, ![c].ok = ok] \in CallsType
  <2>1. [[calls EXCEPT ![c].stage = stage] EXCEPT ![c].ok = ok] \in CallsType
      BY <1>2, FieldTyped
  <2> QED BY <2>1
<1>6. ASSUME NEW stage \in Stages, NEW at \in Callers
      PROVE  [calls EXCEPT ![c].stage = stage, ![c].at = at] \in CallsType
  <2>1. [[calls EXCEPT ![c].stage = stage] EXCEPT ![c].at = at] \in CallsType
      BY <1>2, FieldTyped
  <2> QED BY <2>1
<1>7. ASSUME NEW stage \in Stages, NEW list \in ListType
      PROVE  [calls EXCEPT ![c].stage = stage, ![c].list = list] \in CallsType
  <2>1. [[calls EXCEPT ![c].stage = stage] EXCEPT ![c].list = list] \in CallsType
      BY <1>2, FieldTyped
  <2> QED BY <2>1
<1>8. ASSUME NEW stage \in Stages, NEW ids \in SUBSET Uploads, NEW at \in Callers,
             NEW ok \in BOOLEAN
      PROVE  [calls EXCEPT ![c].stage = stage, ![c].ids = ids, ![c].at = at,
                           ![c].ok = ok] \in CallsType
  <2>1. [[calls EXCEPT ![c].stage = stage] EXCEPT ![c].ids = ids] \in CallsType
      BY <1>2, FieldTyped
  <2>2. [[[calls EXCEPT ![c].stage = stage] EXCEPT ![c].ids = ids]
            EXCEPT ![c].at = at] \in CallsType
      BY <2>1, FieldTyped
  <2>3. [[[[calls EXCEPT ![c].stage = stage] EXCEPT ![c].ids = ids]
            EXCEPT ![c].at = at] EXCEPT ![c].ok = ok] \in CallsType
      BY <2>2, FieldTyped
  <2> QED BY <2>3
<1> QED BY Zenon, <1>1, <1>2, <1>3, <1>4, <1>5, <1>6, <1>7, <1>8

\* What a step of the worker of u can change: its own entries, and of the page
\* the promise it fulfils.
Touches(u) ==
    /\ KeepsSlot
    /\ Quietly \/ \E status \in Status : Emit(u, status)
    /\ \/ control' = control
       \/ \E word \in {"out", "none"} : control' = [control EXCEPT ![u] = word]
    /\ unseen' = unseen \/ unseen' = [unseen EXCEPT ![u] = FALSE]
    /\ \/ outcome' = outcome
       \/ \E end \in {"stored", "skipped"} :
            outcome' = [outcome EXCEPT ![u] = outcome[u] \cup {end}]
    /\ \/ promise' = promise
       \/ \E answer \in {"resolved", "rejected"} :
            promise' = [promise EXCEPT ![u] = answer]
    /\ used' = used \/ Disturbance

LEMMA WorkerTouches ==
    ASSUME NEW u \in Uploads, WorkerMoves(u) \/ NetworkMoves(u)
    PROVE  Touches(u)
<1> USE DEF Touches, Status, Terminal, Fails, Returns, Unregister, NextFile
<1>1. CASE Register(u)
    BY <1>1 DEF Register
<1>2. CASE Attempt(u)
    BY <1>2 DEF Attempt
<1>3. CASE PauseSeen(u)
    BY <1>3 DEF PauseSeen
<1>4. CASE CancelSeen(u)
    BY <1>4 DEF CancelSeen
<1>5. CASE StaysPaused(u)
    BY <1>5 DEF StaysPaused
<1>6. CASE WakesUp(u)
    BY <1>6 DEF WakesUp
<1>7. CASE Resumes(u)
    BY <1>7 DEF Resumes
<1>8. CASE BackoffEnds(u)
    BY <1>8 DEF BackoffEnds
<1>9. CASE SeesChange(u)
    BY <1>9 DEF SeesChange
<1>10. CASE Finishes(u)
    BY <1>10 DEF Finishes
<1>11. CASE FailsBetween(u)
    BY <1>11 DEF FailsBetween
<1>12. CASE CreateDocument(u)
    BY <1>12 DEF CreateDocument
<1>13. CASE CreateFails(u)
    BY <1>13 DEF CreateFails
<1>14. CASE Skip(u)
    BY <1>14 DEF Skip
<1>15. CASE Connects(u)
    BY <1>15 DEF Connects
<1>16. CASE ConnectFails(u)
    BY <1>16 DEF ConnectFails, RetriesOrFails
<1>17. CASE Completes(u)
    BY <1>17 DEF Completes
<1>18. CASE SendFails(u)
    BY <1>18 DEF SendFails, RetriesOrFails
<1> QED BY <1>1, <1>2, <1>3, <1>4, <1>5, <1>6, <1>7, <1>8, <1>9, <1>10, <1>11, <1>12,
           <1>13, <1>14, <1>15, <1>16, <1>17, <1>18 DEF WorkerMoves, NetworkMoves

LEMMA CallsTyped == TypeOK /\ Next => CallsOK'
<1> SUFFICES ASSUME TypeOK, Next PROVE CallsOK'
    OBVIOUS
<1>0. CallsOK /\ PageOK /\ BackendOK
    BY TypeSplits
<1>a. {"none", "enqueue", "pause", "resume", "cancel", "restart", "remove", "clear",
       "list"} = Ops
    BY DEF Ops
<1>b. {"none", "asked", "status", "answered", "listing", "listed"} = Stages
    BY DEF Stages
<1>c. Toolbar \in Callers /\ Uploads \subseteq Callers
    BY DEF Callers
<1>1. ASSUME NEW c \in Callers, NEW ok \in BOOLEAN, Answer(c, ok) PROVE CallsOK'
    BY Zenon, <1>0, <1>1, <1>b, EditTyped DEF Answer, CallsOK
<1>2. ASSUME NEW c \in Callers, Ends(c) PROVE CallsOK'
    BY Zenon, <1>0, <1>2, EditTyped DEF Ends, CallsOK
<1>3. ASSUME NEW c \in Callers, GoesOn(c, "listing") PROVE CallsOK'
    BY Zenon, <1>0, <1>3, <1>b, EditTyped DEF GoesOn, CallsOK
<1>4. ASSUME UNCHANGED calls PROVE CallsOK'
    BY <1>0, <1>4 DEF CallsOK
<1>5. CASE UserMoves
  <2>1. ASSUME NEW u \in Uploads, Enqueue(u) PROVE CallsOK'
      BY Zenon, <2>1, <1>0, <1>a, <1>b, <1>c, EditTyped DEF Enqueue, CallsOK
  <2>2. ASSUME NEW u \in Uploads, Press(u) PROVE CallsOK'
    <3>1. PICK op \in Ops : calls' = [calls EXCEPT ![u].op = op, ![u].stage = "asked",
                                                   ![u].ids = {u}]
        BY Zenon, <2>2, <1>a DEF Press
    <3>2. "asked" \in Stages /\ {u} \in SUBSET Uploads /\ u \in Callers
        BY <1>b, <1>c
    <3>3. [calls EXCEPT ![u].op = op, ![u].stage = "asked", ![u].ids = {u}] \in CallsType
        BY Zenon, <3>2, <1>0, EditTyped
    <3> QED BY <3>1, <3>3 DEF CallsOK
  <2>3. ASSUME NEW u \in Uploads, PressWaiting(u) PROVE CallsOK'
    <3>1. PICK op \in Ops : calls' = [calls EXCEPT ![u].op = op, ![u].stage = "listing"]
        BY Zenon, <2>3, <1>a DEF PressWaiting
    <3> QED BY Zenon, <3>1, <1>0, <1>b, <1>c, EditTyped DEF CallsOK
  <2>4. CASE OpenTasks
      BY Zenon, <2>4, <1>0, <1>a, <1>b, <1>c, EditTyped DEF OpenTasks, CallsOK
  <2>5. CASE PressToolbar
    <3>1. \/ calls' = [calls EXCEPT ![Toolbar].op = "list", ![Toolbar].stage = "listing"]
          \/ \E op \in Ops, ids \in SUBSET Uploads :
                calls' = [calls EXCEPT ![Toolbar].op = op, ![Toolbar].stage = "asked",
                                       ![Toolbar].ids = ids]
        BY Zenon, <2>5, <1>a DEF PressToolbar
    <3>2. {"asked", "listing"} \subseteq Stages /\ "list" \in Ops
        BY <1>a, <1>b
    <3>3. [calls EXCEPT ![Toolbar].op = "list", ![Toolbar].stage = "listing"] \in CallsType
        BY Zenon, <3>2, <1>0, <1>c, EditTyped
    <3>4. ASSUME NEW op \in Ops, NEW ids \in SUBSET Uploads
          PROVE  [calls EXCEPT ![Toolbar].op = op, ![Toolbar].stage = "asked",
                               ![Toolbar].ids = ids] \in CallsType
        BY Zenon, <3>2, <1>0, <1>c, EditTyped
    <3>5. CASE \E op \in Ops, ids \in SUBSET Uploads :
                  calls' = [calls EXCEPT ![Toolbar].op = op, ![Toolbar].stage = "asked",
                                         ![Toolbar].ids = ids]
      <4>1. PICK op \in Ops, ids \in SUBSET Uploads :
                  calls' = [calls EXCEPT ![Toolbar].op = op, ![Toolbar].stage = "asked",
                                         ![Toolbar].ids = ids]
          BY Zenon, <3>5
      <4> QED BY Zenon, <4>1, <3>4 DEF CallsOK
    <3> QED BY Zenon, <3>1, <3>3, <3>5 DEF CallsOK
  <2>6. CASE OpenFiles
      BY <2>6, <1>4 DEF OpenFiles
  <2>7. ASSUME NEW n \in Limits, SetLimit(n) PROVE CallsOK'
      BY <2>7, <1>4 DEF SetLimit
  <2> QED BY <1>5, <2>1, <2>2, <2>3, <2>4, <2>5, <2>6, <2>7 DEF UserMoves
<1>6. ASSUME NEW c \in Callers, CommandMoves(c) \/ ReplyMoves(c) PROVE CallsOK'
  <2>0. calls[c] \in CallType
      BY <1>0 DEF CallsOK, CallsType
  <2>1. CASE CallRegistry(c)
    <3>1. PICK u \in calls[c].ids :
             \/ Answer(c, TRUE)
             \/ calls' = [calls EXCEPT ![c].stage = "status", ![c].at = u]
        BY <2>1 DEF CallRegistry
    <3>2. u \in Callers
        BY <2>0, <3>1, <1>c DEF CallType
    <3>3. [calls EXCEPT ![c].stage = "status", ![c].at = u] \in CallsType
        BY Zenon, <3>2, <1>0, <1>b, EditTyped
    <3> QED BY <3>1, <3>3, <1>1 DEF CallsOK
  <2>2. CASE CallStatus(c)
    <3> DEFINE rest  == calls[c].ids \ {calls[c].at}
               stage == IF rest = {} THEN "answered" ELSE "asked"
               live  == records[calls[c].at] \in Status \ Terminal
    <3>1. calls' = [calls EXCEPT ![c].stage = stage, ![c].ids = rest,
                                 ![c].at = Toolbar, ![c].ok = live]
        BY Zenon, <2>2 DEF CallStatus
    <3>2. rest \in SUBSET Uploads /\ stage \in Stages /\ live \in BOOLEAN
        BY <2>0, <1>b DEF CallType
    <3> HIDE DEF rest, stage, live
    <3>3. [calls EXCEPT ![c].stage = stage, ![c].ids = rest, ![c].at = Toolbar,
                        ![c].ok = live] \in CallsType
        BY Zenon, <3>2, <1>0, <1>c, EditTyped
    <3> QED BY <3>1, <3>3 DEF CallsOK
  <2>3. CASE CallRecords(c)
      BY <2>3, <1>1 DEF CallRecords
  <2>4. CASE CallList(c)
    <3>1. [u \in Uploads |-> IF records[u] \in Status THEN records[u] ELSE "absent"]
            \in ListType
        BY DEF ListType
    <3> QED BY Zenon, <2>4, <3>1, <1>0, <1>b, EditTyped DEF CallList, CallsOK
  <2>5. CASE ControlReply(c)
      BY <2>5, <1>3 DEF ControlReply
  <2>6. CASE SetAll(c)
      BY <2>6, <1>2 DEF SetAll
  <2> QED BY <1>6, <2>1, <2>2, <2>3, <2>4, <2>5, <2>6 DEF CommandMoves, ReplyMoves
<1>7. ASSUME NEW u \in Uploads, PageMoves(u) PROVE CallsOK'
    BY <1>7, <1>1, <1>2, <1>3, <1>4, <1>c
       DEF PageMoves, EnqueueRecord, EnqueueReply, ResumeReply, RestartReply, RemoveReply,
           ApplyProgress, RunnerResolves, RunnerRejects, CallbackEnds
<1>8. ASSUME NEW u \in Uploads, WorkerMoves(u) \/ NetworkMoves(u) PROVE CallsOK'
    BY <1>8, <1>4, WorkerTouches DEF Touches, KeepsSlot
<1>9. CASE Restart
    BY <1>9, NoCallTyped DEF Restart, CallsOK, CallsType
<1> QED BY <1>5, <1>6, <1>7, <1>8, <1>9 DEF Next

--------------------------------------------------------------------------------
(* The Rust side.                                                          *)

LEMMA EmitTyped ==
    ASSUME BackendOK, NEW u \in Uploads, NEW status \in Status, Emit(u, status)
    PROVE  /\ events' \in [Uploads -> Seq(Status)]
           /\ records' \in [Uploads -> Status \cup {"absent", "removed"}]
<1>1. Append(events[u], status) \in Seq(Status)
    BY DEF BackendOK
<1> QED BY <1>1 DEF Emit, Recorded, BackendOK

LEMMA BackendTyped == TypeOK /\ Next => BackendOK'
<1> SUFFICES ASSUME TypeOK, Next PROVE BackendOK'
    OBVIOUS
<1>0. BackendOK /\ CallsOK
    BY TypeSplits
<1>1. ASSUME BackendUnchanged PROVE BackendOK'
    BY <1>0, <1>1 DEF BackendUnchanged, BackendOK
<1>2. CASE UserMoves
    BY Zenon, <1>1, <1>2 DEF UserMoves, Enqueue, Press, PressWaiting, OpenTasks, OpenFiles,
                      PressToolbar, SetLimit
<1>3. ASSUME NEW c \in Callers, CommandMoves(c) PROVE BackendOK'
  <2>0. calls[c].ids \subseteq Uploads
      BY <1>0 DEF CallsOK, CallsType, CallType
  <2>1. CASE CallRegistry(c)
    <3>1. PICK u \in calls[c].ids :
             /\ control' = control \/ \E word \in {"none", "paused", "cancelled"} :
                                         control' = [control EXCEPT ![u] = word]
             /\ unseen' = unseen \/ unseen' = [unseen EXCEPT ![u] = TRUE]
        BY <2>1 DEF CallRegistry
    <3>2. control' \in [Uploads -> {"out", "none", "paused", "cancelled"}]
        BY <1>0, <3>1 DEF BackendOK
    <3>3. unseen' \in [Uploads -> BOOLEAN]
        BY <1>0, <3>1 DEF BackendOK
    <3>4. UNCHANGED <<events, records, outcome>>
        BY <2>1 DEF CallRegistry
    <3> QED BY <1>0, <3>2, <3>3, <3>4 DEF BackendOK
  <2>2. CASE CallStatus(c)
    <3>1. \/ records' = records
          \/ \E next \in Status : records' = [records EXCEPT ![calls[c].at] = next]
        BY Zenon, <2>2 DEF CallStatus, Status, Terminal
    <3>2. UNCHANGED <<events, control, unseen, outcome>>
        BY Zenon, <2>2 DEF CallStatus, WorkerUnchanged, workerVars
    <3>3. records' \in [Uploads -> Status \cup {"absent", "removed"}]
        BY <1>0, <3>1 DEF BackendOK
    <3> QED BY <1>0, <3>2, <3>3 DEF BackendOK
  <2>3. CASE CallRecords(c)
    <3>1. records' \in [Uploads -> Status \cup {"absent", "removed"}]
        BY <1>0, <2>3 DEF CallRecords, BackendOK, Status
    <3> QED BY <1>0, <2>3, <3>1 DEF CallRecords, WorkerUnchanged, workerVars, BackendOK
  <2>4. CASE CallList(c)
      BY <2>4, <1>1 DEF CallList
  <2> QED BY <1>3, <2>1, <2>2, <2>3, <2>4 DEF CommandMoves
<1>4. ASSUME NEW c \in Callers, ReplyMoves(c) PROVE BackendOK'
    BY <1>1, <1>4 DEF ReplyMoves, ControlReply, SetAll
<1>5. ASSUME NEW u \in Uploads, PageMoves(u) PROVE BackendOK'
  <2>1. CASE EnqueueRecord(u)
      BY <1>0, <2>1 DEF EnqueueRecord, WorkerUnchanged, workerVars, BackendOK, Status
  <2>2. CASE ApplyProgress(u)
    <3>1. Tail(events[u]) \in Seq(Status)
        BY <1>0, <2>2 DEF ApplyProgress, BackendOK
    <3> QED BY <1>0, <2>2, <3>1 DEF ApplyProgress, BackendOK
  <2> QED BY <1>1, <1>5, <2>1, <2>2
          DEF PageMoves, EnqueueReply, ResumeReply, RestartReply, RemoveReply,
              RunnerResolves, RunnerRejects, CallbackEnds
<1>6. ASSUME NEW u \in Uploads, WorkerMoves(u) \/ NetworkMoves(u) PROVE BackendOK'
  <2>1. Touches(u)
      BY <1>6, WorkerTouches
  <2>2. /\ events' \in [Uploads -> Seq(Status)]
        /\ records' \in [Uploads -> Status \cup {"absent", "removed"}]
      BY <1>0, <2>1, EmitTyped DEF Touches, Quietly, BackendOK
  <2>3. control' \in [Uploads -> {"out", "none", "paused", "cancelled"}]
      BY <1>0, <2>1 DEF Touches, BackendOK
  <2>4. unseen' \in [Uploads -> BOOLEAN]
      BY <1>0, <2>1 DEF Touches, BackendOK
  <2>5. outcome' \in [Uploads -> SUBSET {"stored", "skipped"}]
    <3>1. ASSUME NEW end \in {"stored", "skipped"},
                 outcome' = [outcome EXCEPT ![u] = outcome[u] \cup {end}]
          PROVE  outcome' \in [Uploads -> SUBSET {"stored", "skipped"}]
      <4>1. outcome[u] \cup {end} \in SUBSET {"stored", "skipped"}
          BY <1>0 DEF BackendOK
      <4> QED BY <1>0, <3>1, <4>1 DEF BackendOK
    <3> QED BY <1>0, <2>1, <3>1 DEF Touches, BackendOK
  <2> QED BY <2>2, <2>3, <2>4, <2>5 DEF BackendOK
<1>7. CASE Restart
    BY <1>0, <1>7 DEF Restart, BackendOK, Status
<1> QED BY <1>2, <1>3, <1>4, <1>5, <1>6, <1>7 DEF Next

--------------------------------------------------------------------------------
(* The workers.                                                            *)

LEMMA LaunchTyped ==
    ASSUME WorkerOK,
           NEW shown, NEW able, NEW active, NEW runs, NEW limit,
           PageTyped(shown, able, active, runs, limit),
           ProcessQueue(shown, able, active, runs, limit)
    PROVE  /\ PageTyped(tasks, runners, activeRunners, promise, maxConcurrent)'
           /\ WorkerOK'
<1>1. PICK S \in SUBSET Uploads :
        /\ tasks' = [u \in Uploads |-> IF u \in S THEN "uploading" ELSE shown[u]]
        /\ activeRunners' = active \cup S
        /\ promise' = [u \in Uploads |-> IF u \in S THEN "called" ELSE runs[u]]
        /\ worker' = [u \in Uploads |->
                        IF u \in S THEN [Idle EXCEPT !.pc = "between"] ELSE worker[u]]
    BY DEF ProcessQueue, Starts, Waiting
<1>2. tasks' \in ListType
    BY <1>1 DEF PageTyped, ListType, Status
<1>3. activeRunners' \subseteq Uploads
    BY <1>1 DEF PageTyped
<1>4. promise' \in RunsType
    BY <1>1 DEF PageTyped, RunsType
<1>5. WorkerOK'
    BY <1>1 DEF WorkerOK, WorkerType, Idle
<1> QED BY <1>2, <1>3, <1>4, <1>5 DEF PageTyped, ProcessQueue

\* The edits the steps of the worker of u make of its state.
LEMMA StateTyped ==
    ASSUME WorkerOK, NEW u \in Uploads
    PROVE  /\ [worker EXCEPT ![u] = Idle] \in [Uploads -> WorkerType]
           /\ [worker EXCEPT ![u] = [Idle EXCEPT !.pc = "between",
                                                 !.file = worker[u].file + 1]]
                \in [Uploads -> WorkerType]
           /\ \A pc \in Registered : [worker EXCEPT ![u].pc = pc] \in [Uploads -> WorkerType]
           /\ [worker EXCEPT ![u].pc = "connecting", ![u].attempt = 0]
                \in [Uploads -> WorkerType]
           /\ [worker EXCEPT ![u].pc = "backoff", ![u].attempt = @ + 1]
                \in [Uploads -> WorkerType]
<1>1. worker[u] \in WorkerType
    BY DEF WorkerOK
<1>2. [worker EXCEPT ![u] = Idle] \in [Uploads -> WorkerType]
    BY DEF WorkerOK, WorkerType, Idle
<1>3. [worker EXCEPT ![u] = [Idle EXCEPT !.pc = "between", !.file = worker[u].file + 1]]
        \in [Uploads -> WorkerType]
  <2>1. worker[u].file + 1 \in Nat
      BY <1>1 DEF WorkerType
  <2>2. ASSUME NEW n \in Nat
        PROVE  [Idle EXCEPT !.pc = "between", !.file = n] \in WorkerType
      BY DEF WorkerType, Idle
  <2>3. [Idle EXCEPT !.pc = "between", !.file = worker[u].file + 1] \in WorkerType
      BY Zenon, <2>1, <2>2
  <2> QED BY <2>3 DEF WorkerOK
<1>4. ASSUME NEW pc \in Registered
      PROVE  [worker EXCEPT ![u].pc = pc] \in [Uploads -> WorkerType]
  <2>1. [worker[u] EXCEPT !.pc = pc] \in WorkerType
      BY <1>1 DEF WorkerType
  <2>2. [worker EXCEPT ![u] = [worker[u] EXCEPT !.pc = pc]] \in [Uploads -> WorkerType]
      BY <2>1 DEF WorkerOK
  <2> QED BY <2>2
<1>5. [worker EXCEPT ![u].pc = "connecting", ![u].attempt = 0] \in [Uploads -> WorkerType]
  <2> DEFINE moved == [worker EXCEPT ![u].pc = "connecting"]
  <2>1. moved \in [Uploads -> WorkerType]
      BY <1>4 DEF Registered
  <2>2. [moved[u] EXCEPT !.attempt = 0] \in WorkerType
      BY <2>1 DEF WorkerType
  <2>3. [moved EXCEPT ![u] = [moved[u] EXCEPT !.attempt = 0]] \in [Uploads -> WorkerType]
      BY <2>1, <2>2
  <2>4. [moved EXCEPT ![u].attempt = 0] \in [Uploads -> WorkerType]
      BY <2>3
  <2> QED BY <2>4
<1>6. [worker EXCEPT ![u].pc = "backoff", ![u].attempt = @ + 1] \in [Uploads -> WorkerType]
  <2> DEFINE moved == [worker EXCEPT ![u].pc = "backoff"]
  <2>1. moved \in [Uploads -> WorkerType]
      BY <1>4 DEF Registered
  <2>2. moved[u].attempt + 1 \in Nat
      BY <2>1 DEF WorkerType
  <2>5. ASSUME NEW n \in Nat PROVE [moved[u] EXCEPT !.attempt = n] \in WorkerType
      BY <2>1 DEF WorkerType
  <2>3. [moved EXCEPT ![u] = [moved[u] EXCEPT !.attempt = @ + 1]] \in [Uploads -> WorkerType]
      BY Zenon, <2>1, <2>2, <2>5
  <2>4. [moved EXCEPT ![u].attempt = @ + 1] \in [Uploads -> WorkerType]
      BY <2>3
  <2> QED BY <2>4
<1> QED BY <1>2, <1>3, <1>4, <1>5, <1>6

\* What the other steps can do to the slots: nothing, show something else, take
\* slots, give one back and take others, or run the callback of an upload.
PageShape ==
    \/ UNCHANGED <<tasks, runners, activeRunners, maxConcurrent, promise, worker>>
    \/ \E shown \in ListType, able \in SUBSET Uploads : ShowOnly(shown, able)
    \/ \E shown \in ListType, able \in SUBSET Uploads, limit \in Limits :
         ProcessQueue(shown, able, activeRunners, promise, limit)
    \/ \E u \in Uploads, shown \in ListType :
         promise[u] \in {"resolved", "rejected", "after", "hangs"} /\ Finally(u, shown)
    \/ \E u \in Uploads, shown \in ListType, next \in {"after", "hangs"} :
         /\ promise[u] = "resolved"
         /\ tasks' = shown
         /\ promise' = [promise EXCEPT ![u] = next]
         /\ UNCHANGED <<runners, activeRunners, maxConcurrent, worker>>

LEMMA ShownTyped ==
    ASSUME PageOK, NEW u \in Uploads, NEW status \in Status \cup {"absent"}
    PROVE  [tasks EXCEPT ![u] = status] \in ListType
BY DEF PageOK, PageTyped, ListType

LEMMA ShapeOfUser == TypeOK /\ UserMoves => PageShape
<1> SUFFICES ASSUME TypeOK, UserMoves PROVE PageShape
    OBVIOUS
<1>0. PageOK
    BY TypeSplits
<1>1. ASSUME PageUnchanged, UNCHANGED worker PROVE PageShape
    BY <1>1 DEF PageUnchanged, pageVars, PageShape
<1>2. ASSUME NEW u \in Uploads, Enqueue(u) \/ Press(u) PROVE PageShape
    BY <1>1, <1>2 DEF Enqueue, Press
<1>3. ASSUME NEW u \in Uploads, PressWaiting(u) PROVE PageShape
  <2>1. PICK status \in {"paused", "cancelled"} : ShowOnly(Show(u, status), runners)
      BY <1>3 DEF PressWaiting
  <2>2. Show(u, status) \in ListType
    <3>1. [tasks EXCEPT ![u] = status] \in ListType
        BY <1>0, ShownTyped DEF Status, Terminal
    <3> QED BY <3>1, <1>0 DEF Show, PageOK, PageTyped
  <2> QED BY <2>1, <2>2, <1>0 DEF PageShape, PageOK, PageTyped
<1>4. CASE OpenTasks
    BY <1>4 DEF OpenTasks, PageShape
<1>5. CASE OpenFiles
    BY <1>5 DEF OpenFiles, pageVars, PageShape
<1>6. CASE PressToolbar
    BY <1>1, <1>6 DEF PressToolbar
<1>7. ASSUME NEW n \in Limits, SetLimit(n) PROVE PageShape
  <2>1. ProcessQueue(tasks, runners, activeRunners, promise, n)
      BY <1>7 DEF SetLimit
  <2> QED BY <1>0, <2>1 DEF PageShape, PageOK, PageTyped
<1> QED BY <1>2, <1>3, <1>4, <1>5, <1>6, <1>7 DEF UserMoves

LEMMA ShapeOfCalls ==
    ASSUME TypeOK, NEW c \in Callers, CommandMoves(c) \/ ReplyMoves(c)
    PROVE  PageShape
<1>0. PageOK /\ CallsOK
    BY TypeSplits
<1>1. ASSUME PageUnchanged, UNCHANGED worker PROVE PageShape
    BY <1>1 DEF PageUnchanged, pageVars, PageShape
<1>2. ASSUME NEW shown \in ListType, NEW able \in SUBSET Uploads, ShowOnly(shown, able)
      PROVE  PageShape
    BY <1>2 DEF PageShape
<1>3. tasks \in ListType /\ runners \in SUBSET Uploads
    BY <1>0 DEF PageOK, PageTyped
<1>4. CASE CommandMoves(c)
    BY Zenon, <1>1, <1>4 DEF CommandMoves, CallRegistry, CallStatus, CallRecords, CallList,
                      WorkerUnchanged, workerVars
<1>5. CASE ControlReply(c)
  <2>1. PICK status \in {"paused", "cancelled"} :
          \/ ShowOnly(tasks, runners)
          \/ c \in Uploads /\ ShowOnly(Show(c, status), runners)
      BY <1>5 DEF ControlReply, Callers
  <2>2. ASSUME c \in Uploads PROVE Show(c, status) \in ListType
    <3>1. [tasks EXCEPT ![c] = status] \in ListType
        BY <1>0, <2>2, ShownTyped DEF Status, Terminal
    <3> QED BY <3>1, <1>3 DEF Show
  <2> QED BY <1>2, <1>3, <2>1, <2>2
<1>6. CASE SetAll(c)
  <2>1. calls[c].list \in ListType
      BY <1>0 DEF CallsOK, CallsType, CallType
  <2>2. {u \in runners : calls[c].list[u] # "absent"} \in SUBSET Uploads
      BY <1>3
  <2>3. ShowOnly(calls[c].list, {u \in runners : calls[c].list[u] # "absent"})
      BY <1>6 DEF SetAll
  <2> QED BY <2>1, <2>2, <2>3, <1>2
<1> QED BY <1>4, <1>5, <1>6 DEF ReplyMoves

LEMMA ShapeOfReplies ==
    ASSUME TypeOK, NEW u \in Uploads, PageMoves(u)
    PROVE  PageShape
<1>0. PageOK /\ BackendOK
    BY TypeSplits
<1>1. tasks \in ListType /\ runners \in SUBSET Uploads /\ maxConcurrent \in Limits
    BY <1>0 DEF PageOK, PageTyped
<1>2. ASSUME NEW shown \in ListType, NEW able \in SUBSET Uploads, ShowOnly(shown, able)
      PROVE  PageShape
    BY <1>2 DEF PageShape
<1>3. ASSUME NEW shown \in ListType, NEW able \in SUBSET Uploads,
             ProcessQueue(shown, able, activeRunners, promise, maxConcurrent)
      PROVE  PageShape
    BY <1>1, <1>3 DEF PageShape
<1>4. ASSUME NEW shown \in ListType, Finally(u, shown),
             promise[u] \in {"resolved", "rejected", "after", "hangs"}
      PROVE  PageShape
    BY <1>4 DEF PageShape
<1>5. \A status \in {"pending", "absent", "failed", "completed"} :
        [tasks EXCEPT ![u] = status] \in ListType
    BY <1>0, ShownTyped DEF Status, Terminal
<1>6. runners \cup {u} \in SUBSET Uploads /\ runners \ {u} \in SUBSET Uploads
    BY <1>1
<1>7. CASE EnqueueRecord(u)
    BY <1>7 DEF EnqueueRecord, PageUnchanged, WorkerUnchanged, pageVars, workerVars, PageShape
<1>8. CASE EnqueueReply(u)
    BY <1>3, <1>5, <1>6, <1>8 DEF EnqueueReply
<1>9. CASE ResumeReply(u)
    BY <1>1, <1>2, <1>3, <1>5, <1>9 DEF ResumeReply
<1>10. CASE RestartReply(u)
    BY <1>1, <1>2, <1>3, <1>5, <1>6, <1>10 DEF RestartReply
<1>11. CASE RemoveReply(u)
    BY <1>1, <1>2, <1>5, <1>6, <1>11 DEF RemoveReply
<1>12. CASE ApplyProgress(u)
  <2>1. Head(events[u]) \in Status
      BY <1>0, <1>12 DEF ApplyProgress, BackendOK
  <2>2. [tasks EXCEPT ![u] = Head(events[u])] \in ListType
      BY <1>0, <2>1, ShownTyped
  <2> QED BY <1>1, <1>2, <1>12, <2>2 DEF ApplyProgress
<1>13. CASE RunnerResolves(u)
  <2> DEFINE shown == IF tasks[u] = "uploading"
                      THEN [tasks EXCEPT ![u] = "completed"] ELSE tasks
  <2>1. shown \in ListType
      BY <1>1, <1>5
  <2>2. promise[u] = "resolved"
      BY <1>13 DEF RunnerResolves
  <2>3. \/ Finally(u, shown)
        \/ \E next \in {"after", "hangs"} :
             /\ tasks' = shown
             /\ promise' = [promise EXCEPT ![u] = next]
             /\ UNCHANGED <<runners, activeRunners, maxConcurrent, worker>>
      BY <1>13 DEF RunnerResolves
  <2> HIDE DEF shown
  <2> QED BY <1>4, <2>1, <2>2, <2>3 DEF PageShape
<1>14. CASE RunnerRejects(u)
  <2>1. PICK shown \in {tasks, [tasks EXCEPT ![u] = "failed"]} : Finally(u, shown)
      BY <1>14 DEF RunnerRejects
  <2> QED BY <1>1, <1>4, <1>5, <1>14, <2>1 DEF RunnerRejects
<1>15. CASE CallbackEnds(u)
    BY <1>1, <1>4, <1>15 DEF CallbackEnds
<1> QED BY <1>7, <1>8, <1>9, <1>10, <1>11, <1>12, <1>13, <1>14, <1>15 DEF PageMoves

LEMMA ShapeTyped ==
    ASSUME PageOK, WorkerOK, PageShape
    PROVE  /\ PageTyped(tasks, runners, activeRunners, promise, maxConcurrent)'
           /\ WorkerOK'
<1>0. PageTyped(tasks, runners, activeRunners, promise, maxConcurrent)
    BY DEF PageOK
<1>1. CASE UNCHANGED <<tasks, runners, activeRunners, maxConcurrent, promise, worker>>
    BY <1>0, <1>1 DEF PageTyped, WorkerOK
<1>2. ASSUME NEW shown \in ListType, NEW able \in SUBSET Uploads, ShowOnly(shown, able)
      PROVE  /\ PageTyped(tasks, runners, activeRunners, promise, maxConcurrent)'
             /\ WorkerOK'
    BY <1>0, <1>2 DEF ShowOnly, PageTyped, WorkerOK
<1>3. ASSUME NEW shown \in ListType, NEW able \in SUBSET Uploads, NEW limit \in Limits,
             ProcessQueue(shown, able, activeRunners, promise, limit)
      PROVE  /\ PageTyped(tasks, runners, activeRunners, promise, maxConcurrent)'
             /\ WorkerOK'
  <2>1. PageTyped(shown, able, activeRunners, promise, limit)
      BY <1>0 DEF PageTyped
  <2> QED BY <1>3, <2>1, LaunchTyped
<1>4. ASSUME NEW u \in Uploads, NEW shown \in ListType, Finally(u, shown)
      PROVE  /\ PageTyped(tasks, runners, activeRunners, promise, maxConcurrent)'
             /\ WorkerOK'
  <2>1. PageTyped(shown, runners, activeRunners \ {u}, [promise EXCEPT ![u] = "none"],
                  maxConcurrent)
      BY <1>0 DEF PageTyped, RunsType
  <2> QED BY <1>4, <2>1, LaunchTyped DEF Finally
<1>5. ASSUME NEW u \in Uploads, NEW shown \in ListType, NEW next \in {"after", "hangs"},
             tasks' = shown, promise' = [promise EXCEPT ![u] = next],
             UNCHANGED <<runners, activeRunners, maxConcurrent, worker>>
      PROVE  /\ PageTyped(tasks, runners, activeRunners, promise, maxConcurrent)'
             /\ WorkerOK'
  <2>1. promise' \in RunsType
      BY <1>0, <1>5 DEF PageTyped, RunsType
  <2> QED BY <1>0, <1>5, <2>1 DEF PageTyped, WorkerOK
<1> QED BY <1>1, <1>2, <1>3, <1>4, <1>5 DEF PageShape

LEMMA WorkerStepTyped ==
    ASSUME TypeOK, NEW u \in Uploads, WorkerMoves(u) \/ NetworkMoves(u)
    PROVE  WorkerOK'
<1>0. WorkerOK
    BY TypeSplits
<1> USE <1>0 DEF Fails, Returns
<1>1. ASSUME NEW pc \in Registered, To(u, pc) PROVE WorkerOK'
  <2>1. [worker EXCEPT ![u].pc = pc] \in [Uploads -> WorkerType]
      BY Zenon, StateTyped
  <2> QED BY <1>1, <2>1 DEF To, WorkerOK
<1>2. worker' = [worker EXCEPT ![u] = Idle] => WorkerOK'
    BY Zenon, StateTyped DEF WorkerOK
<1>3. ASSUME NextFile(u) PROVE WorkerOK'
  <2>1. [worker EXCEPT ![u] = [Idle EXCEPT !.pc = "between", !.file = worker[u].file + 1]]
          \in [Uploads -> WorkerType]
      BY Zenon, StateTyped
  <2> QED BY <1>3, <2>1 DEF NextFile, WorkerOK
<1>4. RetriesOrFails(u) => WorkerOK'
    BY Zenon, StateTyped, <1>2 DEF RetriesOrFails, WorkerOK
<1>5. Resumes(u) => WorkerOK'
    BY Zenon, StateTyped DEF Resumes, WorkerOK
<1>6. {"creating", "looping", "paused", "waiting", "connecting", "backoff", "sending"}
        \subseteq Registered
    BY DEF Registered
<1>7. ASSUME UNCHANGED worker PROVE WorkerOK'
    BY <1>7 DEF WorkerOK
<1>8. CASE WorkerMoves(u)
    BY <1>1, <1>2, <1>3, <1>5, <1>6, <1>8
       DEF WorkerMoves, Register, Attempt, PauseSeen, CancelSeen, StaysPaused, WakesUp,
           BackoffEnds, SeesChange, Finishes
<1>9. CASE NetworkMoves(u)
    BY <1>1, <1>2, <1>3, <1>4, <1>6, <1>9
       DEF NetworkMoves, FailsBetween, CreateDocument, CreateFails, Skip, Connects,
           ConnectFails, Completes, SendFails
<1> QED BY <1>8, <1>9

\* The rest of the page: the callbacks, the page shown, what is spent.
LEMMA RestTyped ==
    ASSUME TypeOK, Next
    PROVE  /\ completionCallbacks' \in [Uploads -> {"none", "live", "left"}]
           /\ view' \in {"files", "tasks"}
           /\ used' \in [disturbances : Nat, visits : Nat]
<1>0. /\ completionCallbacks \in [Uploads -> {"none", "live", "left"}]
      /\ view \in {"files", "tasks"}
      /\ used \in [disturbances : Nat, visits : Nat]
    BY DEF TypeOK
<1>1. ASSUME Disturbance PROVE used' \in [disturbances : Nat, visits : Nat]
  <2>1. used.disturbances + 1 \in Nat
      BY <1>0
  <2>2. used' = [used EXCEPT !.disturbances = used.disturbances + 1]
      BY <1>1 DEF Disturbance
  <2>3. ASSUME NEW n \in Nat
        PROVE  [used EXCEPT !.disturbances = n] \in [disturbances : Nat, visits : Nat]
      BY <1>0
  <2> QED BY <2>1, <2>2, <2>3
<1>2. CASE UserMoves
  <2>1. CASE OpenTasks
    <3>1. used.visits + 1 \in Nat
        BY <1>0
    <3>2. ASSUME NEW n \in Nat
          PROVE  [used EXCEPT !.visits = n] \in [disturbances : Nat, visits : Nat]
        BY <1>0
    <3>3. used' = [used EXCEPT !.visits = used.visits + 1]
        BY <2>1 DEF OpenTasks
    <3>4. used' \in [disturbances : Nat, visits : Nat]
        BY <3>1, <3>2, <3>3
    <3>5. completionCallbacks' \in [Uploads -> {"none", "live", "left"}]
        BY <1>0, <2>1 DEF OpenTasks
    <3> QED BY <2>1, <3>4, <3>5 DEF OpenTasks
  <2>2. CASE OpenFiles
      BY <1>0, <2>2 DEF OpenFiles, pageVars
  <2>3. ASSUME NEW u \in Uploads, Enqueue(u) \/ Press(u) \/ PressWaiting(u)
        PROVE  /\ completionCallbacks' = completionCallbacks
               /\ view' = view
               /\ used' = used \/ Disturbance
      BY <2>3 DEF Enqueue, Press, PressWaiting, PageUnchanged, pageVars
  <2>4. CASE PressToolbar
      BY <1>0, <1>1, <2>4 DEF PressToolbar, PageUnchanged, pageVars
  <2>5. ASSUME NEW n \in Limits, SetLimit(n)
        PROVE  /\ completionCallbacks' = completionCallbacks
               /\ view' = view
               /\ Disturbance
      BY <2>5 DEF SetLimit
  <2> QED BY <1>0, <1>1, <1>2, <2>1, <2>2, <2>3, <2>4, <2>5 DEF UserMoves
<1>3. ASSUME NEW c \in Callers, CommandMoves(c) \/ ReplyMoves(c)
      PROVE  /\ completionCallbacks' \in [Uploads -> {"none", "live", "left"}]
             /\ UNCHANGED <<view, used>>
  <2>1. CASE SetAll(c)
    <3>1. completionCallbacks' \in [Uploads -> {"none", "live", "left"}]
        BY <1>0, <2>1 DEF SetAll
    <3> QED BY <2>1, <3>1 DEF SetAll
  <2>2. CASE ControlReply(c)
      BY <1>0, <2>2 DEF ControlReply
  <2>3. CASE CommandMoves(c)
      BY Zenon, <1>0, <2>3 DEF CommandMoves, CallRegistry, CallStatus, CallRecords, CallList,
                        PageUnchanged, pageVars
  <2> QED BY <1>3, <2>1, <2>2, <2>3 DEF ReplyMoves
<1>4. ASSUME NEW u \in Uploads, PageMoves(u)
      PROVE  /\ completionCallbacks' \in [Uploads -> {"none", "live", "left"}]
             /\ UNCHANGED <<view, used>>
  <2>1. CASE EnqueueReply(u)
    <3>1. completionCallbacks' \in [Uploads -> {"none", "live", "left"}]
        BY <1>0, <2>1 DEF EnqueueReply
    <3> QED BY <2>1, <3>1 DEF EnqueueReply
  <2>2. CASE RemoveReply(u)
    <3>1. completionCallbacks' \in [Uploads -> {"none", "live", "left"}]
        BY <1>0, <2>2 DEF RemoveReply
    <3> QED BY <2>2, <3>1 DEF RemoveReply
  <2> QED BY <1>0, <1>4, <2>1, <2>2
          DEF PageMoves, EnqueueRecord, ResumeReply, RestartReply, ApplyProgress,
              RunnerResolves, RunnerRejects, CallbackEnds, PageUnchanged, pageVars
<1>5. ASSUME NEW u \in Uploads, WorkerMoves(u) \/ NetworkMoves(u)
      PROVE  UNCHANGED <<completionCallbacks, view>> /\ (used' = used \/ Disturbance)
    BY <1>5, WorkerTouches DEF Touches, KeepsSlot
<1>6. CASE Restart
    BY <1>1, <1>6 DEF Restart
<1> QED BY <1>0, <1>1, <1>2, <1>3, <1>4, <1>5, <1>6 DEF Next

LEMMA NextTyped == TypeOK /\ Next => TypeOK'
<1> SUFFICES ASSUME TypeOK, Next PROVE PageOK' /\ CallsOK' /\ BackendOK' /\ WorkerOK'
    BY TypeSplits
<1>0. PageOK /\ WorkerOK
    BY TypeSplits
<1> DEFINE Goal == /\ PageTyped(tasks, runners, activeRunners, promise, maxConcurrent)'
                   /\ WorkerOK'
<1>1. ASSUME UserMoves PROVE Goal
    BY <1>0, <1>1, ShapeOfUser, ShapeTyped
<1>2. ASSUME NEW c \in Callers, CommandMoves(c) \/ ReplyMoves(c) PROVE Goal
    BY <1>0, <1>2, ShapeOfCalls, ShapeTyped
<1>3. ASSUME NEW u \in Uploads, PageMoves(u) PROVE Goal
    BY <1>0, <1>3, ShapeOfReplies, ShapeTyped
<1>4. ASSUME NEW u \in Uploads, WorkerMoves(u) \/ NetworkMoves(u) PROVE Goal
  <2>1. Touches(u) /\ WorkerOK'
      BY <1>4, WorkerTouches, WorkerStepTyped
  <2>2. promise' \in RunsType
      BY <1>0, <2>1 DEF Touches, PageOK, PageTyped, RunsType
  <2> QED BY <1>0, <2>1, <2>2 DEF Touches, KeepsSlot, PageOK, PageTyped
<1>5. ASSUME Restart PROVE Goal
    BY <1>0, <1>5 DEF Restart, PageOK, PageTyped, ListType, RunsType, WorkerOK, WorkerType, Idle
<1>6. Goal
    BY <1>1, <1>2, <1>3, <1>4, <1>5 DEF Next
<1> QED BY <1>6, RestTyped, CallsTyped, BackendTyped DEF PageOK

LEMMA TypeInductive == TypeOK /\ [Next]_vars => TypeOK'
<1>1. CASE UNCHANGED vars
    BY <1>1 DEF TypeOK, vars, pageVars, workerVars
<1> QED BY <1>1, NextTyped

(* Every variable keeps its type, for any uploads, limits and bounds.       *)
THEOREM TypeCorrect == Spec => []TypeOK
BY InitTyped, TypeInductive, PTL DEF Spec

--------------------------------------------------------------------------------
(* Runs and slots, the registry and the watch.                             *)

\* One step of the worker of u, for the three invariants about it.
WorkerSafe(u) ==
    /\ promise[u] = "called" <=> worker[u].pc # "idle"
    /\ control[u] # "out" <=> worker[u].pc \in Registered
    /\ worker[u].pc \in {"connecting", "sending", "backoff"} /\ control[u] # "none"
         => unseen[u]
    /\ worker[u].pc = "waiting" /\ control[u] # "paused" => unseen[u]

LEMMA SafeIsInvariants ==
    /\ (\A u \in Uploads : (promise[u] # "none" <=> u \in activeRunners) /\ WorkerSafe(u))
         <=> OneRunPerUpload /\ RegistryMatchesWorker /\ NoLostWakeup
    /\ (\A u \in Uploads : (promise[u] # "none" <=> u \in activeRunners) /\ WorkerSafe(u))'
         <=> (OneRunPerUpload /\ RegistryMatchesWorker /\ NoLostWakeup)'
BY DEF WorkerSafe, OneRunPerUpload, RegistryMatchesWorker, NoLostWakeup

LEMMA WorkerStepSafe ==
    ASSUME TypeOK, NEW u \in Uploads, WorkerSafe(u), WorkerMoves(u) \/ NetworkMoves(u)
    PROVE  /\ WorkerSafe(u)'
           /\ promise[u] # "none" /\ promise'[u] # "none"
           /\ \A v \in Uploads \ {u} : /\ worker'[v] = worker[v]
                                       /\ promise'[v] = promise[v]
                                       /\ control'[v] = control[v]
                                       /\ unseen'[v] = unseen[v]
<1>0. /\ worker \in [Uploads -> WorkerType]
      /\ promise \in RunsType
      /\ control \in [Uploads -> {"out", "none", "paused", "cancelled"}]
      /\ unseen \in [Uploads -> BOOLEAN]
    BY TypeSplits DEF PageOK, PageTyped, BackendOK, WorkerOK
<1> DEFINE Goal == /\ WorkerSafe(u)'
                   /\ promise[u] # "none" /\ promise'[u] # "none"
                   /\ \A v \in Uploads \ {u} : /\ worker'[v] = worker[v]
                                               /\ promise'[v] = promise[v]
                                               /\ control'[v] = control[v]
                                               /\ unseen'[v] = unseen[v]
<1>a. RetriesOrFails(u) =>
        \/ /\ worker' = [worker EXCEPT ![u].pc = "backoff", ![u].attempt = @ + 1]
           /\ UNCHANGED <<promise, control, unseen>>
        \/ Fails(u)
    BY DEF RetriesOrFails
<1> USE <1>0 DEF WorkerSafe, WorkerType, RunsType, Registered, At, To, Idle
<1>1. ASSUME Register(u) PROVE Goal
    BY <1>1 DEF Register
<1>2. ASSUME Attempt(u) PROVE Goal
    BY <1>2 DEF Attempt
<1>3. ASSUME PauseSeen(u) PROVE Goal
    BY <1>3 DEF PauseSeen
<1>4. ASSUME CancelSeen(u) PROVE Goal
    BY <1>4 DEF CancelSeen, Fails, Unregister, Returns
<1>5. ASSUME StaysPaused(u) PROVE Goal
    BY <1>5 DEF StaysPaused
<1>6. ASSUME WakesUp(u) PROVE Goal
    BY <1>6 DEF WakesUp
<1>7. ASSUME Resumes(u) PROVE Goal
    BY <1>7 DEF Resumes
<1>8. ASSUME BackoffEnds(u) PROVE Goal
    BY <1>8 DEF BackoffEnds
<1>9. ASSUME SeesChange(u) PROVE Goal
    BY <1>9 DEF SeesChange, Unregister, Returns
<1>10. ASSUME Finishes(u) PROVE Goal
    BY <1>10 DEF Finishes, Returns
<1>11. ASSUME FailsBetween(u) PROVE Goal
    BY <1>11 DEF FailsBetween, Returns
<1>12. ASSUME CreateDocument(u) PROVE Goal
    BY <1>12 DEF CreateDocument
<1>13. ASSUME CreateFails(u) PROVE Goal
    BY <1>13 DEF CreateFails, Fails, Unregister, Returns
<1>14. ASSUME Skip(u) PROVE Goal
    BY <1>14 DEF Skip, NextFile, Unregister
<1>15. ASSUME Connects(u) PROVE Goal
    BY <1>15 DEF Connects
<1>16. ASSUME \/ worker[u].pc = "connecting"
              \/ worker[u].pc = "sending" /\ control[u] = "none",
              RetriesOrFails(u)
       PROVE Goal
  <2>1. CASE /\ worker' = [worker EXCEPT ![u].pc = "backoff", ![u].attempt = @ + 1]
             /\ UNCHANGED <<promise, control, unseen>>
    <3>1. worker'[u].pc = "backoff" /\ \A v \in Uploads \ {u} : worker'[v] = worker[v]
        BY <2>1
    <3> QED BY <1>16, <2>1, <3>1
  <2>2. CASE Fails(u)
      BY <2>2, <1>16 DEF Fails, Unregister, Returns
  <2> QED BY <1>a, <1>16, <2>1, <2>2
<1>17. ASSUME Completes(u) PROVE Goal
    BY <1>17 DEF Completes, NextFile, Unregister
<1>18. ASSUME SendFails(u) PROVE Goal
    BY <1>16, <1>18 DEF SendFails
<1> HIDE DEF Goal, WorkerSafe, WorkerType, RunsType, Registered, At, To, Idle
<1>19. ASSUME ConnectFails(u) PROVE Goal
  <2>1. worker[u].pc = "connecting" /\ RetriesOrFails(u)
      BY <1>19 DEF ConnectFails, At
  <2> QED BY <1>16, <2>1
<1> QED BY <1>1, <1>2, <1>3, <1>4, <1>5, <1>6, <1>7, <1>8, <1>9, <1>10, <1>11, <1>12,
           <1>13, <1>14, <1>15, <1>17, <1>18, <1>19
        DEF WorkerMoves, NetworkMoves, Goal

\* processQueue starts only what does not run.
LEMMA LaunchRuns ==
    ASSUME NEW shown, NEW able, NEW active \in SUBSET Uploads, NEW runs \in RunsType,
           NEW limit, WorkerOK,
           ProcessQueue(shown, able, active, runs, limit),
           \A u \in Uploads : /\ runs[u] # "none" <=> u \in active
                              /\ runs[u] = "called" <=> worker[u].pc # "idle"
    PROVE  /\ OneRunPerUpload'
           /\ \A u \in Uploads : \/ worker'[u] = worker[u]
                                 \/ worker[u].pc = "idle" /\ worker'[u].pc = "between"
<1>1. PICK S \in Starts(shown, able, active, limit) :
        /\ activeRunners' = active \cup S
        /\ promise' = [u \in Uploads |-> IF u \in S THEN "called" ELSE runs[u]]
        /\ worker' = [u \in Uploads |->
                        IF u \in S THEN [Idle EXCEPT !.pc = "between"] ELSE worker[u]]
    BY DEF ProcessQueue
<1>2. S \subseteq Uploads /\ S \cap active = {}
    BY <1>1 DEF Starts, Waiting
<1>3. [Idle EXCEPT !.pc = "between"].pc = "between"
    BY DEF Idle
<1>4. ASSUME NEW u \in Uploads
      PROVE  /\ promise'[u] # "none" <=> u \in activeRunners'
             /\ promise'[u] = "called" <=> worker'[u].pc # "idle"
             /\ \/ worker'[u] = worker[u]
                \/ worker[u].pc = "idle" /\ worker'[u].pc = "between"
    BY <1>1, <1>2, <1>3
<1> QED BY <1>4 DEF OneRunPerUpload

LEMMA ShapeSafe ==
    ASSUME TypeOK, OneRunPerUpload, PageShape
    PROVE  /\ OneRunPerUpload'
           /\ \A u \in Uploads : \/ worker'[u] = worker[u]
                                 \/ worker[u].pc = "idle" /\ worker'[u].pc = "between"
<1>0. WorkerOK /\ activeRunners \in SUBSET Uploads /\ promise \in RunsType
    BY TypeSplits DEF PageOK, PageTyped
<1> DEFINE Goal == /\ OneRunPerUpload'
                   /\ \A u \in Uploads : \/ worker'[u] = worker[u]
                                         \/ worker[u].pc = "idle" /\ worker'[u].pc = "between"
<1>1. ASSUME UNCHANGED <<activeRunners, promise, worker>> PROVE Goal
    BY <1>1 DEF OneRunPerUpload
<1>2. ASSUME NEW shown, NEW able, NEW limit,
             ProcessQueue(shown, able, activeRunners, promise, limit)
      PROVE  Goal
    BY <1>0, <1>2, LaunchRuns DEF OneRunPerUpload
<1>3. ASSUME NEW u \in Uploads, NEW shown, Finally(u, shown),
             promise[u] \in {"resolved", "rejected", "after", "hangs"}
      PROVE  Goal
  <2> DEFINE runs == [promise EXCEPT ![u] = "none"]
  <2>1. /\ runs \in RunsType
        /\ activeRunners \ {u} \in SUBSET Uploads
      BY <1>0 DEF RunsType
  <2>2. \A v \in Uploads : /\ runs[v] # "none" <=> v \in activeRunners \ {u}
                           /\ runs[v] = "called" <=> worker[v].pc # "idle"
      BY <1>0, <1>3 DEF OneRunPerUpload, RunsType
  <2>3. ProcessQueue(shown, runners, activeRunners \ {u}, runs, maxConcurrent)
      BY <1>3 DEF Finally
  <2> HIDE DEF runs
  <2> QED BY <1>0, <2>1, <2>2, <2>3, LaunchRuns
<1>4. ASSUME NEW u \in Uploads, NEW next \in {"after", "hangs"}, promise[u] = "resolved",
             promise' = [promise EXCEPT ![u] = next], UNCHANGED <<activeRunners, worker>>
      PROVE  Goal
    BY <1>0, <1>4 DEF OneRunPerUpload, RunsType
<1> QED BY <1>1, <1>2, <1>3, <1>4 DEF PageShape, ShowOnly

Safe == OneRunPerUpload /\ RegistryMatchesWorker /\ NoLostWakeup

\* Only commands and workers write to the registry.
LEMMA PageLeavesRegistry ==
    /\ UserMoves => UNCHANGED <<control, unseen>>
    /\ \A c \in Callers : ReplyMoves(c) => UNCHANGED <<control, unseen>>
    /\ \A u \in Uploads : PageMoves(u) => UNCHANGED <<control, unseen>>
<1>1. UserMoves => UNCHANGED <<control, unseen>>
    BY Zenon DEF UserMoves, Enqueue, Press, PressWaiting, OpenTasks, OpenFiles, PressToolbar,
           SetLimit, BackendUnchanged
<1>2. ASSUME NEW c \in Callers, ReplyMoves(c) PROVE UNCHANGED <<control, unseen>>
    BY <1>2 DEF ReplyMoves, ControlReply, SetAll, BackendUnchanged
<1>3. ASSUME NEW u \in Uploads, PageMoves(u) PROVE UNCHANGED <<control, unseen>>
    BY <1>3 DEF PageMoves, EnqueueRecord, EnqueueReply, ResumeReply, RestartReply, RemoveReply,
           ApplyProgress, RunnerResolves, RunnerRejects, CallbackEnds, BackendUnchanged,
           WorkerUnchanged, workerVars
<1> QED BY <1>1, <1>2, <1>3

LEMMA RegistryKeepsShape ==
    ASSUME TypeOK, Safe, PageShape, UNCHANGED <<control, unseen>>
    PROVE  Safe'
<1>1. /\ OneRunPerUpload'
      /\ \A u \in Uploads : \/ worker'[u] = worker[u]
                            \/ worker[u].pc = "idle" /\ worker'[u].pc = "between"
    BY ShapeSafe DEF Safe
<1>2. RegistryMatchesWorker'
    BY <1>1 DEF Safe, RegistryMatchesWorker, Registered
<1>3. NoLostWakeup'
    BY <1>1 DEF Safe, NoLostWakeup
<1> QED BY <1>1, <1>2, <1>3 DEF Safe

LEMMA CommandSafe ==
    ASSUME TypeOK, Safe, NEW c \in Callers, CommandMoves(c)
    PROVE  Safe'
<1>0. CallsOK /\ BackendOK
    BY TypeSplits
<1>1. UNCHANGED <<activeRunners, promise, worker>>
    BY Zenon DEF CommandMoves, CallRegistry, CallStatus, CallRecords, CallList, PageUnchanged,
           pageVars, WorkerUnchanged, workerVars
<1>2. CASE CallRegistry(c)
  <2>1. PICK u \in calls[c].ids :
          \/ UNCHANGED <<control, unseen>>
          \/ /\ control[u] # "out"
             /\ unseen' = [unseen EXCEPT ![u] = TRUE]
             /\ \E word \in {"none", "paused", "cancelled"} :
                  control' = [control EXCEPT ![u] = word]
      BY <1>2 DEF CallRegistry
  <2>2. u \in Uploads
      BY <1>0, <2>1 DEF CallsOK, CallsType, CallType, Callers
  <2>3. \A v \in Uploads : /\ control'[v] # "out" <=> control[v] # "out"
                           /\ \/ unseen'[v]
                              \/ control'[v] = control[v] /\ unseen'[v] = unseen[v]
      BY <1>0, <2>1, <2>2 DEF BackendOK
  <2> QED BY <1>1, <2>3 DEF Safe, OneRunPerUpload, RegistryMatchesWorker, NoLostWakeup
<1>3. CASE UNCHANGED <<control, unseen>>
    BY <1>1, <1>3 DEF Safe, OneRunPerUpload, RegistryMatchesWorker, NoLostWakeup
<1> QED BY Zenon, <1>2, <1>3 DEF CommandMoves, CallStatus, CallRecords, CallList, BackendUnchanged,
                          WorkerUnchanged, workerVars

LEMMA InitSafe == Init => Safe
BY DEF Init, Safe, OneRunPerUpload, RegistryMatchesWorker, NoLostWakeup, Idle, Registered

LEMMA NextSafe == TypeOK /\ Safe /\ [Next]_vars => Safe'
<1> SUFFICES ASSUME TypeOK, Safe, [Next]_vars PROVE Safe'
    OBVIOUS
<1>1. CASE UserMoves
    BY <1>1, ShapeOfUser, PageLeavesRegistry, RegistryKeepsShape
<1>2. ASSUME NEW c \in Callers, CommandMoves(c) PROVE Safe'
    BY <1>2, CommandSafe
<1>3. ASSUME NEW c \in Callers, ReplyMoves(c) PROVE Safe'
    BY <1>3, ShapeOfCalls, PageLeavesRegistry, RegistryKeepsShape
<1>4. ASSUME NEW u \in Uploads, PageMoves(u) PROVE Safe'
    BY <1>4, ShapeOfReplies, PageLeavesRegistry, RegistryKeepsShape
<1>5. ASSUME NEW u \in Uploads, WorkerMoves(u) \/ NetworkMoves(u) PROVE Safe'
  <2>1. activeRunners' = activeRunners
      BY <1>5, WorkerTouches DEF Touches, KeepsSlot
  <2>2. \A v \in Uploads : (promise[v] # "none" <=> v \in activeRunners) /\ WorkerSafe(v)
      BY SafeIsInvariants DEF Safe
  <2>3. /\ WorkerSafe(u)'
        /\ promise[u] # "none" /\ promise'[u] # "none"
        /\ \A v \in Uploads \ {u} : /\ worker'[v] = worker[v]
                                    /\ promise'[v] = promise[v]
                                    /\ control'[v] = control[v]
                                    /\ unseen'[v] = unseen[v]
      BY <1>5, <2>2, WorkerStepSafe
  <2>4. ASSUME NEW v \in Uploads \ {u} PROVE WorkerSafe(v)'
      BY <2>2, <2>3 DEF WorkerSafe
  <2>5. (\A v \in Uploads : (promise[v] # "none" <=> v \in activeRunners) /\ WorkerSafe(v))'
      BY <2>1, <2>2, <2>3, <2>4
  <2> QED BY <2>5, SafeIsInvariants DEF Safe
<1>6. CASE Restart
    BY <1>6 DEF Restart, Safe, OneRunPerUpload, RegistryMatchesWorker, NoLostWakeup, Idle,
                Registered
<1>7. CASE UNCHANGED vars
    BY <1>7 DEF vars, pageVars, workerVars, Safe, OneRunPerUpload, RegistryMatchesWorker,
                NoLostWakeup
<1> QED BY <1>1, <1>2, <1>3, <1>4, <1>5, <1>6, <1>7 DEF Next

LEMMA SafeAlways == Spec => []Safe
<1>1. Spec => []TypeOK
    BY TypeCorrect
<1> QED BY <1>1, InitSafe, NextSafe, PTL DEF Spec

(* startRunner and the commands keep step, for any uploads and limits: an  *)
(* upload has a slot from the moment its command is called until its end   *)
(* has been dealt with, and never two workers.                             *)
THEOREM RunsOnce == Spec => []OneRunPerUpload
<1>1. Safe => OneRunPerUpload
    BY DEF Safe
<1> QED BY <1>1, SafeAlways, PTL

(* An upload is in the registry exactly while it transfers a file, whatever *)
(* path its worker took out of the transfer.                               *)
THEOREM RegistryIsExact == Spec => []RegistryMatchesWorker
<1>1. Safe => RegistryMatchesWorker
    BY DEF Safe
<1> QED BY <1>1, SafeAlways, PTL

(* No command reaches the registry without the worker being told.          *)
THEOREM WakeupsArrive == Spec => []NoLostWakeup
<1>1. Safe => NoLostWakeup
    BY DEF Safe
<1> QED BY <1>1, SafeAlways, PTL

--------------------------------------------------------------------------------
(* The slots.                                                              *)

\* The two action properties, as formulas on one step.
TakesFree ==
    \/ activeRunners' \subseteq activeRunners
    \/ Cardinality(activeRunners') <= maxConcurrent'

UsesFreed ==
    activeRunners' # activeRunners
      => \/ Waiting(tasks', runners', activeRunners') = {}
         \/ Cardinality(activeRunners') >= maxConcurrent'

LEMMA LaunchSlots ==
    ASSUME NEW shown, NEW able, NEW active \in SUBSET activeRunners, NEW runs,
           NEW limit \in Limits, activeRunners \subseteq Uploads,
           ProcessQueue(shown, able, active, runs, limit)
    PROVE  TakesFree /\ UsesFreed
<1>1. PICK S \in Starts(shown, able, active, limit) :
        /\ tasks' = [u \in Uploads |-> IF u \in S THEN "uploading" ELSE shown[u]]
        /\ activeRunners' = active \cup S
    BY DEF ProcessQueue
<1>2. maxConcurrent' = limit /\ runners' = able
    BY DEF ProcessQueue
<1>3. S \subseteq Uploads /\ S \cap active = {}
    BY <1>1 DEF Starts, Waiting
<1>4. IsFiniteSet(active) /\ IsFiniteSet(S)
    BY <1>3, UploadsAssumption, FS_Subset
<1>5. Cardinality(active) \in Nat /\ Cardinality(S) \in Nat /\ limit \in Nat
    BY <1>4, UploadsAssumption, FS_CardinalityType
<1>6. Cardinality(active \cup S) = Cardinality(active) + Cardinality(S)
    BY <1>3, <1>4, <1>5, FS_Union, FS_EmptySet
<1>7. Cardinality(S) <= Free(active, limit)
    BY <1>1 DEF Starts
<1>8. TakesFree
  <2>1. CASE Cardinality(active) < limit
    <3>1. Cardinality(S) <= limit - Cardinality(active)
        BY <1>7, <2>1 DEF Free
    <3>2. Cardinality(active \cup S) <= limit
        BY <1>5, <1>6, <3>1
    <3> QED BY <1>1, <1>2, <3>2 DEF TakesFree
  <2>2. CASE ~(Cardinality(active) < limit)
    <3>1. Cardinality(S) <= 0
        BY <1>7, <2>2 DEF Free
    <3>2. S = {}
        BY <3>1, <1>4, <1>5, FS_EmptySet
    <3> QED BY <1>1, <3>2 DEF TakesFree
  <2> QED BY <2>1, <2>2
<1>9. UsesFreed
  <2>1. CASE S = Waiting(shown, able, active)
    <3>1. Waiting(tasks', runners', activeRunners') = {}
        BY <1>1, <1>2, <2>1 DEF Waiting
    <3> QED BY <3>1 DEF UsesFreed
  <2>2. CASE Cardinality(S) = Free(active, limit)
    <3>1. Cardinality(active \cup S) >= limit
        BY <1>5, <1>6, <2>2 DEF Free
    <3> QED BY <1>1, <1>2, <3>1 DEF UsesFreed
  <2> QED BY <1>1, <2>1, <2>2 DEF Starts
<1> QED BY <1>8, <1>9

LEMMA ShapeSlots ==
    ASSUME TypeOK, PageShape
    PROVE  TakesFree /\ UsesFreed
<1>0. activeRunners \subseteq Uploads /\ maxConcurrent \in Limits
    BY DEF TypeOK
<1>1. ASSUME UNCHANGED activeRunners PROVE TakesFree /\ UsesFreed
    BY <1>1 DEF TakesFree, UsesFreed
<1>2. ASSUME NEW shown, NEW able, NEW limit \in Limits,
             ProcessQueue(shown, able, activeRunners, promise, limit)
      PROVE  TakesFree /\ UsesFreed
    BY <1>0, <1>2, LaunchSlots
<1>3. ASSUME NEW u \in Uploads, NEW shown, Finally(u, shown) PROVE TakesFree /\ UsesFreed
  <2>1. activeRunners \ {u} \in SUBSET activeRunners
      OBVIOUS
  <2> QED BY <1>0, <1>3, <2>1, LaunchSlots DEF Finally
<1> QED BY <1>1, <1>2, <1>3 DEF PageShape, ShowOnly

LEMMA StepSlots ==
    ASSUME TypeOK, [Next]_vars
    PROVE  TakesFree /\ UsesFreed
<1>1. CASE UserMoves
    BY <1>1, ShapeOfUser, ShapeSlots
<1>2. ASSUME NEW c \in Callers, CommandMoves(c) \/ ReplyMoves(c)
      PROVE  TakesFree /\ UsesFreed
    BY <1>2, ShapeOfCalls, ShapeSlots
<1>3. ASSUME NEW u \in Uploads, PageMoves(u) PROVE TakesFree /\ UsesFreed
    BY <1>3, ShapeOfReplies, ShapeSlots
<1>4. ASSUME NEW u \in Uploads, WorkerMoves(u) \/ NetworkMoves(u)
      PROVE  TakesFree /\ UsesFreed
    BY <1>4, WorkerTouches DEF Touches, KeepsSlot, TakesFree, UsesFreed
<1>5. CASE Restart
  <2>1. Waiting(tasks', runners', activeRunners') = {}
      BY <1>5 DEF Restart, Waiting
  <2> QED BY <1>5, <2>1 DEF Restart, TakesFree, UsesFreed
<1>6. CASE UNCHANGED vars
    BY <1>6 DEF vars, pageVars, TakesFree, UsesFreed
<1> QED BY <1>1, <1>2, <1>3, <1>4, <1>5, <1>6 DEF Next

FillsSlots ==
    activeRunners' # activeRunners
         => /\ \/ activeRunners' \subseteq activeRunners
               \/ Cardinality(activeRunners') <= maxConcurrent'
            /\ \/ Waiting(tasks', runners', activeRunners') = {}
               \/ Cardinality(activeRunners') >= maxConcurrent'

(* processQueue never fills more slots than the limit in force, whatever   *)
(* the number of uploads and however the limit changes; and whenever the   *)
(* set of running uploads changes, what is free goes to those that wait.   *)
THEOREM SlotsAreUsed == Spec => SlotsAreFilled
<1>1. TypeOK /\ [Next]_vars => [FillsSlots]_vars
    BY StepSlots DEF TakesFree, UsesFreed, FillsSlots
<1>2. [][FillsSlots]_vars => SlotsAreFilled
    BY DEF FillsSlots, SlotsAreFilled
<1> QED BY <1>1, <1>2, TypeCorrect, PTL DEF Spec

--------------------------------------------------------------------------------
(* Completed means stored.  A file's status travels from the worker to the *)
(* record, to events and lists, and to the page: each of them is true.     *)

Single == Uploads \ Directories

TrueOf(u) ==
    /\ records[u] = "completed" => "stored" \in outcome[u]
    /\ \A i \in 1..Len(events[u]) : events[u][i] = "completed" => "stored" \in outcome[u]
    /\ \A c \in Callers : calls[c].list[u] = "completed" => "stored" \in outcome[u]
    /\ tasks[u] = "completed" => outcome[u] # {}
    /\ promise[u] = "resolved" => outcome[u] # {}
    /\ worker[u].pc = "between" /\ worker[u].file # 0 => outcome[u] # {}

DoneInv == \A u \in Single : TrueOf(u)

LEMMA InitDone == Init => DoneInv
BY DEF Init, DoneInv, TrueOf, Single, NoCall, Idle

\* What a worker reports of its file is so.
LEMMA WorkerReports ==
    ASSUME TypeOK, NEW u \in Uploads, WorkerMoves(u) \/ NetworkMoves(u),
           u \in Single => TrueOf(u)
    PROVE  /\ outcome[u] \subseteq outcome'[u]
           /\ \A v \in Uploads \ {u} : outcome'[v] = outcome[v]
           /\ u \in Single =>
                /\ \/ Quietly
                   \/ \E status \in Status :
                        /\ Emit(u, status)
                        /\ status = "completed" => "stored" \in outcome'[u]
                /\ promise'[u] = "resolved" => outcome'[u] # {}
                /\ worker'[u].pc = "between" /\ worker'[u].file # 0 => outcome'[u] # {}
<1>0. /\ worker \in [Uploads -> WorkerType]
      /\ promise \in RunsType
      /\ outcome \in [Uploads -> SUBSET {"stored", "skipped"}]
    BY TypeSplits DEF PageOK, PageTyped, BackendOK, WorkerOK
<1> DEFINE Monotone == /\ outcome[u] \subseteq outcome'[u]
                       /\ \A v \in Uploads \ {u} : outcome'[v] = outcome[v]
           Reports == \/ Quietly
                      \/ \E status \in Status :
                           /\ Emit(u, status)
                           /\ status = "completed" => "stored" \in outcome'[u]
           Concl == /\ promise'[u] = "resolved" => outcome'[u] # {}
                    /\ worker'[u].pc = "between" /\ worker'[u].file # 0 => outcome'[u] # {}
           Goal == Monotone /\ (u \in Single => Reports /\ Concl)
<1> USE <1>0 DEF TrueOf, WorkerType, RunsType, Status, Terminal, At, To, Idle
<1>1. ASSUME Register(u) PROVE Goal
    BY <1>1 DEF Register
<1>2. ASSUME Attempt(u) PROVE Goal
    BY <1>2 DEF Attempt
<1>3. ASSUME PauseSeen(u) PROVE Goal
    BY <1>3 DEF PauseSeen
<1>4. ASSUME CancelSeen(u) PROVE Goal
    BY <1>4 DEF CancelSeen, Fails, Returns
<1>5. ASSUME StaysPaused(u) PROVE Goal
    BY <1>5 DEF StaysPaused
<1>6. ASSUME WakesUp(u) PROVE Goal
    BY <1>6 DEF WakesUp
<1>7. ASSUME Resumes(u) PROVE Goal
    BY <1>7 DEF Resumes
<1>8. ASSUME BackoffEnds(u) PROVE Goal
    BY <1>8 DEF BackoffEnds
<1>9. ASSUME SeesChange(u) PROVE Goal
    BY <1>9 DEF SeesChange, Returns
<1>10. ASSUME Finishes(u) PROVE Goal
  <2>1. u \in Single => Files[u] = 1
      BY UploadsAssumption DEF Single
  <2> QED BY <1>10, <2>1 DEF Finishes, Returns, Single
<1>11. ASSUME FailsBetween(u) PROVE Goal
    BY <1>11 DEF FailsBetween, Returns
<1>12. ASSUME CreateDocument(u) PROVE Goal
    BY <1>12 DEF CreateDocument
<1>13. ASSUME CreateFails(u) PROVE Goal
    BY <1>13 DEF CreateFails, Fails, Returns
<1>14. ASSUME Skip(u) PROVE Goal
    BY <1>14 DEF Skip, NextFile
<1>15. ASSUME Connects(u) PROVE Goal
    BY <1>15 DEF Connects
<1>16. ASSUME RetriesOrFails(u) PROVE Goal
    BY <1>16 DEF RetriesOrFails, Fails, Returns
<1>17. ASSUME Completes(u) PROVE Goal
    BY <1>17 DEF Completes, NextFile
<1>18. ASSUME SendFails(u) PROVE Goal
    BY <1>16, <1>18 DEF SendFails
<1>19. ASSUME ConnectFails(u) PROVE Goal
    BY <1>16, <1>19 DEF ConnectFails
<1> HIDE DEF Goal, TrueOf, WorkerType, RunsType, Status, Terminal, At, To, Idle
<1>20. Goal
    BY <1>1, <1>2, <1>3, <1>4, <1>5, <1>6, <1>7, <1>8, <1>9, <1>10, <1>11, <1>12,
       <1>13, <1>14, <1>15, <1>17, <1>18, <1>19 DEF WorkerMoves, NetworkMoves
<1> QED BY <1>20 DEF Goal

LEMMA LaunchDone ==
    ASSUME NEW shown, NEW able, NEW active, NEW runs, NEW limit,
           ProcessQueue(shown, able, active, runs, limit), NEW u \in Uploads
    PROVE  /\ tasks'[u] \in {"uploading", shown[u]}
           /\ promise'[u] \in {"called", runs[u]}
           /\ worker'[u] = worker[u] \/ worker'[u].file = 0
BY DEF ProcessQueue, Idle

LEMMA ShapeDone ==
    ASSUME TypeOK, PageShape, NEW u \in Uploads
    PROVE  /\ promise'[u] = "resolved" => promise[u] = "resolved"
           /\ worker'[u] = worker[u] \/ worker'[u].file = 0
<1>0. promise \in RunsType
    BY TypeSplits DEF PageOK, PageTyped
<1> DEFINE Goal == /\ promise'[u] = "resolved" => promise[u] = "resolved"
                   /\ worker'[u] = worker[u] \/ worker'[u].file = 0
<1>1. ASSUME UNCHANGED <<promise, worker>> PROVE Goal
    BY <1>1
<1>2. ASSUME NEW shown, NEW able, NEW limit,
             ProcessQueue(shown, able, activeRunners, promise, limit)
      PROVE  Goal
    BY <1>2, LaunchDone
<1>3. ASSUME NEW v \in Uploads, NEW shown, Finally(v, shown) PROVE Goal
  <2>1. /\ promise'[u] \in {"called", [promise EXCEPT ![v] = "none"][u]}
        /\ worker'[u] = worker[u] \/ worker'[u].file = 0
      BY <1>3, LaunchDone DEF Finally
  <2> QED BY <1>0, <2>1 DEF RunsType
<1>4. ASSUME NEW v \in Uploads, NEW next \in {"after", "hangs"},
             promise' = [promise EXCEPT ![v] = next], UNCHANGED worker
      PROVE  Goal
    BY <1>0, <1>4 DEF RunsType
<1> QED BY <1>1, <1>2, <1>3, <1>4 DEF PageShape, ShowOnly

\* Where a "completed" the page shows comes from.
ShownFrom(u) ==
    \/ tasks[u] = "completed"
    \/ promise[u] = "resolved"
    \/ events[u] # <<>> /\ Head(events[u]) = "completed"
    \/ \E c \in Callers : calls[c].list[u] = "completed"

LEMMA ShownSource ==
    ASSUME TypeOK, NEW u \in Uploads, tasks'[u] = "completed",
           \/ UserMoves
           \/ \E c \in Callers : CommandMoves(c) \/ ReplyMoves(c)
           \/ \E v \in Uploads : PageMoves(v)
    PROVE  ShownFrom(u)
<1>0. tasks \in ListType
    BY TypeSplits DEF PageOK, PageTyped
<1>1. ASSUME UNCHANGED tasks PROVE ShownFrom(u)
    BY <1>1 DEF ShownFrom
<1>2. ASSUME NEW v \in Uploads, NEW status, NEW able,
             status # "completed",
             \/ ShowOnly([tasks EXCEPT ![v] = status], able)
             \/ ShowOnly(Show(v, status), able)
      PROVE  ShownFrom(u)
    BY <1>0, <1>2 DEF ShowOnly, Show, ShownFrom, ListType
<1>3. ASSUME NEW v \in Uploads, NEW status, NEW able, NEW active, NEW runs, NEW limit,
             status # "completed",
             ProcessQueue([tasks EXCEPT ![v] = status], able, active, runs, limit)
      PROVE  ShownFrom(u)
  <2>1. tasks'[u] \in {"uploading", [tasks EXCEPT ![v] = status][u]}
      BY Zenon, <1>3, LaunchDone
  <2> QED BY <1>0, <1>3, <2>1 DEF ShownFrom, ListType
<1>4. ASSUME NEW able, NEW active, NEW runs, NEW limit,
             ProcessQueue(tasks, able, active, runs, limit)
      PROVE  ShownFrom(u)
  <2>1. tasks'[u] \in {"uploading", tasks[u]}
      BY <1>4, LaunchDone
  <2> QED BY <2>1 DEF ShownFrom
<1>5. CASE UserMoves
  <2>1. ASSUME NEW v \in Uploads, PressWaiting(v) PROVE ShownFrom(u)
    <3>1. PICK status \in {"paused", "cancelled"} : ShowOnly(Show(v, status), runners)
        BY <2>1 DEF PressWaiting
    <3> QED BY Zenon, <3>1, <1>2
  <2>2. ASSUME NEW n \in Limits, SetLimit(n) PROVE ShownFrom(u)
      BY <2>2, <1>4 DEF SetLimit
  <2> QED BY Zenon, <1>1, <1>5, <2>1, <2>2 DEF UserMoves, Enqueue, Press, OpenTasks, OpenFiles,
                                        PressToolbar, PageUnchanged, pageVars
<1>6. ASSUME NEW c \in Callers, CommandMoves(c) \/ ReplyMoves(c) PROVE ShownFrom(u)
  <2>1. CASE CommandMoves(c)
      BY Zenon, <1>1, <2>1 DEF CommandMoves, CallRegistry, CallStatus, CallRecords, CallList,
                        PageUnchanged, pageVars
  <2>2. CASE ControlReply(c)
    <3>1. PICK status \in {"paused", "cancelled"} :
            \/ ShowOnly(tasks, runners)
            \/ c \in Uploads /\ ShowOnly(Show(c, status), runners)
        BY <2>2 DEF ControlReply, Callers
    <3> QED BY <3>1, <1>1, <1>2 DEF ShowOnly
  <2>3. CASE SetAll(c)
      BY <2>3 DEF SetAll, ShowOnly, ShownFrom
  <2> QED BY <1>6, <2>1, <2>2, <2>3 DEF ReplyMoves
<1>7. ASSUME NEW v \in Uploads, PageMoves(v) PROVE ShownFrom(u)
  <2>1. CASE EnqueueRecord(v)
      BY <1>1, <2>1 DEF EnqueueRecord, PageUnchanged, pageVars
  <2>2. CASE EnqueueReply(v)
      BY <1>3, <2>2 DEF EnqueueReply
  <2>3. CASE ResumeReply(v) \/ RestartReply(v) \/ RemoveReply(v)
    <3>1. \/ ShowOnly(tasks, runners)
          \/ ShowOnly([tasks EXCEPT ![v] = "absent"], runners \ {v})
          \/ \E able \in {runners, runners \cup {v}} :
               ProcessQueue([tasks EXCEPT ![v] = "pending"], able, activeRunners, promise,
                            maxConcurrent)
        BY <2>3 DEF ResumeReply, RestartReply, RemoveReply
    <3> QED BY <3>1, <1>1, <1>2, <1>3 DEF ShowOnly
  <2>4. CASE ApplyProgress(v)
      BY <1>0, <2>4 DEF ApplyProgress, ShowOnly, ShownFrom, ListType
  <2>5. CASE RunnerResolves(v)
    <3> DEFINE shown == IF tasks[v] = "uploading"
                        THEN [tasks EXCEPT ![v] = "completed"] ELSE tasks
    <3>1. promise[v] = "resolved" /\ (tasks' = shown \/ Finally(v, shown))
        BY <2>5 DEF RunnerResolves
    <3>2. tasks'[u] \in {"uploading", shown[u]}
        BY <3>1, LaunchDone DEF Finally
    <3>3. shown[u] = "completed" => tasks[u] = "completed" \/ u = v
        BY <1>0 DEF ListType
    <3> QED BY <3>1, <3>2, <3>3 DEF ShownFrom
  <2>6. CASE RunnerRejects(v)
    <3>1. \/ Finally(v, tasks)
          \/ Finally(v, [tasks EXCEPT ![v] = "failed"])
        BY <2>6 DEF RunnerRejects
    <3> QED BY <3>1, <1>3, <1>4 DEF Finally
  <2>7. CASE CallbackEnds(v)
      BY <1>4, <2>7 DEF CallbackEnds, Finally
  <2> QED BY <1>7, <2>1, <2>2, <2>3, <2>4, <2>5, <2>6, <2>7 DEF PageMoves
<1> QED BY <1>5, <1>6, <1>7

\* A list a call carries is an old one, or empty, or made of the records.
LEMMA ListSource ==
    ASSUME TypeOK, NEW u \in Uploads, NEW d \in Callers,
           \/ UserMoves
           \/ \E c \in Callers : CommandMoves(c) \/ ReplyMoves(c)
           \/ \E v \in Uploads : PageMoves(v)
    PROVE  calls'[d].list[u] \in {calls[d].list[u], "absent", records[u]}
<1>0. CallsOK /\ Toolbar \in Callers /\ Uploads \subseteq Callers
    BY TypeSplits DEF Callers
<1> DEFINE Goal == calls'[d].list[u] \in {calls[d].list[u], "absent", records[u]}
<1> USE <1>0 DEF CallsOK, CallsType, CallType
<1>1. ASSUME NEW c \in Callers, Ends(c) PROVE Goal
    BY <1>1 DEF Ends, NoCall
<1>2. ASSUME NEW c \in Callers, NEW ok, Answer(c, ok) PROVE Goal
    BY <1>2 DEF Answer
<1>3. ASSUME NEW c \in Callers, NEW stage, GoesOn(c, stage) PROVE Goal
    BY <1>3 DEF GoesOn
<1>4. ASSUME UNCHANGED calls PROVE Goal
    BY <1>4
<1>5. CASE UserMoves
  <2>1. ASSUME NEW v \in Uploads, Enqueue(v) \/ Press(v) \/ PressWaiting(v) PROVE Goal
      BY <2>1 DEF Enqueue, Press, PressWaiting
  <2>2. ASSUME OpenTasks \/ PressToolbar PROVE Goal
      BY <2>2 DEF OpenTasks, PressToolbar
  <2>3. ASSUME OpenFiles \/ \E n \in Limits : SetLimit(n) PROVE Goal
      BY <1>4, <2>3 DEF OpenFiles, SetLimit
  <2> QED BY <1>5, <2>1, <2>2, <2>3 DEF UserMoves
<1>6. ASSUME NEW c \in Callers, CommandMoves(c) \/ ReplyMoves(c) PROVE Goal
  <2>1. CASE CallRegistry(c)
    <3>1. CASE Answer(c, TRUE)
        BY <1>2, <3>1
    <3>2. ASSUME NEW at, calls' = [calls EXCEPT ![c].stage = "status", ![c].at = at]
          PROVE  Goal
        BY <3>2
    <3>3. \/ Answer(c, TRUE)
          \/ \E at : calls' = [calls EXCEPT ![c].stage = "status", ![c].at = at]
        BY Zenon, <2>1 DEF CallRegistry
    <3> QED BY <3>1, <3>2, <3>3
  <2>2. CASE CallStatus(c)
    <3>1. PICK stage, ids, ok : calls' = [calls EXCEPT ![c].stage = stage, ![c].ids = ids,
                                                       ![c].at = Toolbar, ![c].ok = ok]
        BY Zenon, <2>2 DEF CallStatus
    <3> QED BY <3>1
  <2>3. CASE CallRecords(c)
      BY <1>2, <2>3 DEF CallRecords
  <2>4. CASE CallList(c)
      BY <2>4 DEF CallList
  <2>5. CASE ControlReply(c) \/ SetAll(c)
      BY <1>1, <1>3, <2>5 DEF ControlReply, SetAll
  <2> QED BY <1>6, <2>1, <2>2, <2>3, <2>4, <2>5 DEF CommandMoves, ReplyMoves
<1>7. ASSUME NEW v \in Uploads, PageMoves(v) PROVE Goal
    BY Zenon, <1>1, <1>2, <1>3, <1>4, <1>7
       DEF PageMoves, EnqueueRecord, EnqueueReply, ResumeReply, RestartReply, RemoveReply,
           ApplyProgress, RunnerResolves, RunnerRejects, CallbackEnds
<1> QED BY <1>5, <1>6, <1>7

\* The records and the events, in a step of the page or of a command.
LEMMA BackendSource ==
    ASSUME TypeOK, NEW u \in Uploads,
           \/ UserMoves
           \/ \E c \in Callers : CommandMoves(c) \/ ReplyMoves(c)
           \/ \E v \in Uploads : PageMoves(v)
    PROVE  /\ outcome' = outcome
           /\ records'[u] = "completed" => records[u] = "completed"
           /\ \/ events'[u] = events[u]
              \/ events[u] # <<>> /\ events'[u] = Tail(events[u])
<1>0. BackendOK
    BY TypeSplits
<1> DEFINE Goal == /\ outcome' = outcome
                   /\ records'[u] = "completed" => records[u] = "completed"
                   /\ \/ events'[u] = events[u]
                      \/ events[u] # <<>> /\ events'[u] = Tail(events[u])
<1>1. ASSUME UNCHANGED <<outcome, records, events>> PROVE Goal
    BY <1>1
<1>2. ASSUME UserMoves PROVE Goal
    BY Zenon, <1>1, <1>2 DEF UserMoves, Enqueue, Press, PressWaiting, OpenTasks, OpenFiles,
                      PressToolbar, SetLimit, BackendUnchanged
<1>3. ASSUME NEW c \in Callers, CommandMoves(c) \/ ReplyMoves(c) PROVE Goal
  <2>1. CASE CallStatus(c)
    <3>1. \/ records' = records
          \/ \E next : next # "completed" /\ records' = [records EXCEPT ![calls[c].at] = next]
        BY Zenon, <2>1 DEF CallStatus
    <3>2. records'[u] = "completed" => records[u] = "completed"
        BY <1>0, <3>1 DEF BackendOK
    <3> QED BY Zenon, <2>1, <3>2 DEF CallStatus, WorkerUnchanged, workerVars
  <2>2. CASE CallRecords(c)
    <3>1. records'[u] \in {records[u], "pending", "removed"}
        BY <2>2 DEF CallRecords
    <3> QED BY <2>2, <3>1 DEF CallRecords, WorkerUnchanged, workerVars
  <2> QED BY <1>1, <1>3, <2>1, <2>2
          DEF CommandMoves, ReplyMoves, CallRegistry, CallList, ControlReply, SetAll,
              BackendUnchanged
<1>4. ASSUME NEW v \in Uploads, PageMoves(v) PROVE Goal
  <2>1. CASE EnqueueRecord(v)
      BY <1>0, <2>1 DEF EnqueueRecord, WorkerUnchanged, workerVars, BackendOK
  <2>2. CASE ApplyProgress(v)
      BY <1>0, <2>2 DEF ApplyProgress, BackendOK
  <2> QED BY <1>1, <1>4, <2>1, <2>2
          DEF PageMoves, EnqueueReply, ResumeReply, RestartReply, RemoveReply,
              RunnerResolves, RunnerRejects, CallbackEnds, BackendUnchanged
<1> QED BY <1>2, <1>3, <1>4

LEMMA PageStepDone ==
    ASSUME TypeOK, NEW u \in Uploads, TrueOf(u),
           \/ UserMoves
           \/ \E c \in Callers : CommandMoves(c) \/ ReplyMoves(c)
           \/ \E v \in Uploads : PageMoves(v)
    PROVE  TrueOf(u)'
<1>0. BackendOK
    BY TypeSplits
<1>1. /\ outcome' = outcome
      /\ records'[u] = "completed" => records[u] = "completed"
      /\ \/ events'[u] = events[u]
         \/ events[u] # <<>> /\ events'[u] = Tail(events[u])
    BY BackendSource
<1>2. PageShape
    BY ShapeOfUser, ShapeOfCalls, ShapeOfReplies
<1>3. /\ promise'[u] = "resolved" => promise[u] = "resolved"
      /\ worker'[u] = worker[u] \/ worker'[u].file = 0
    BY <1>2, ShapeDone
<1>4. \A d \in Callers : calls'[d].list[u] = "completed" => "stored" \in outcome'[u]
  <2>1. \A d \in Callers : calls'[d].list[u] \in {calls[d].list[u], "absent", records[u]}
      BY ListSource
  <2> QED BY <1>1, <2>1 DEF TrueOf
<1>5. \A i \in 1..Len(events'[u]) : events'[u][i] = "completed" => "stored" \in outcome'[u]
  <2>1. CASE events'[u] = events[u]
      BY <1>1, <2>1 DEF TrueOf
  <2>2. CASE events[u] # <<>> /\ events'[u] = Tail(events[u])
    <3>1. events[u] \in Seq(Status)
        BY <1>0 DEF BackendOK
    <3>2. ASSUME NEW i \in 1..Len(events'[u])
          PROVE  i + 1 \in 1..Len(events[u]) /\ events'[u][i] = events[u][i + 1]
        BY <2>2, <3>1
    <3> QED BY <1>1, <3>2 DEF TrueOf
  <2> QED BY <1>1, <2>1, <2>2
<1>6. tasks'[u] = "completed" => outcome'[u] # {}
  <2>1. SUFFICES ASSUME tasks'[u] = "completed" PROVE outcome[u] # {}
      BY <1>1
  <2>2. ShownFrom(u)
      BY <2>1, ShownSource
  <2>3. events[u] # <<>> => 1 \in 1..Len(events[u]) /\ Head(events[u]) = events[u][1]
      BY <1>0 DEF BackendOK
  <2> QED BY <2>2, <2>3 DEF ShownFrom, TrueOf
<1> QED BY <1>1, <1>3, <1>4, <1>5, <1>6 DEF TrueOf

LEMMA WorkerStepDone ==
    ASSUME TypeOK, NEW u \in Uploads, WorkerMoves(u) \/ NetworkMoves(u),
           WorkerSafe(u), NEW v \in Single, TrueOf(v)
    PROVE  TrueOf(v)'
<1>0. BackendOK /\ v \in Uploads
    BY TypeSplits DEF Single
<1>1. Touches(u)
    BY WorkerTouches
<1>2. CASE v # u
  <2>1. /\ worker'[v] = worker[v]
        /\ promise'[v] = promise[v]
      BY <1>0, <1>2, WorkerStepSafe
  <2>2. outcome'[v] = outcome[v]
      BY <1>0, <1>1, <1>2 DEF Touches, BackendOK
  <2>3. records'[v] = records[v] /\ events'[v] = events[v]
      BY <1>0, <1>1, <1>2 DEF Touches, Quietly, Emit, Recorded, BackendOK
  <2> QED BY <1>1, <2>1, <2>2, <2>3 DEF Touches, KeepsSlot, TrueOf
<1>3. CASE v = u
  <2>1. /\ outcome[u] \subseteq outcome'[u]
        /\ \/ Quietly
           \/ \E status \in Status :
                /\ Emit(u, status)
                /\ status = "completed" => "stored" \in outcome'[u]
        /\ promise'[u] = "resolved" => outcome'[u] # {}
        /\ worker'[u].pc = "between" /\ worker'[u].file # 0 => outcome'[u] # {}
      BY <1>3, WorkerReports
  <2>2. /\ records'[u] = "completed" => "stored" \in outcome'[u]
        /\ \A i \in 1..Len(events'[u]) :
             events'[u][i] = "completed" => "stored" \in outcome'[u]
    <3>1. CASE Quietly
        BY <1>3, <2>1, <3>1 DEF Quietly, TrueOf
    <3>2. ASSUME NEW status \in Status, Emit(u, status),
                 status = "completed" => "stored" \in outcome'[u]
          PROVE  /\ records'[u] = "completed" => "stored" \in outcome'[u]
                 /\ \A i \in 1..Len(events'[u]) :
                      events'[u][i] = "completed" => "stored" \in outcome'[u]
      <4>1. records'[u] \in {records[u], status}
          BY <1>0, <3>2 DEF Emit, Recorded, BackendOK
      <4>2. events[u] \in Seq(Status) /\ events'[u] = Append(events[u], status)
          BY <1>0, <3>2 DEF Emit, BackendOK
      <4>3. \A i \in 1..Len(events'[u]) :
              \/ events'[u][i] = status
              \/ i \in 1..Len(events[u]) /\ events'[u][i] = events[u][i]
          BY <4>2
      <4> QED BY <1>3, <2>1, <3>2, <4>1, <4>3 DEF TrueOf
    <3> QED BY <2>1, <3>1, <3>2
  <2>3. tasks' = tasks /\ calls' = calls
      BY <1>1 DEF Touches, KeepsSlot
  <2> QED BY <1>3, <2>1, <2>2, <2>3 DEF TrueOf
<1> QED BY <1>2, <1>3

LEMMA NextDone == TypeOK /\ Safe /\ DoneInv /\ [Next]_vars => DoneInv'
<1> SUFFICES ASSUME TypeOK, Safe, DoneInv, [Next]_vars, NEW v \in Single PROVE TrueOf(v)'
    BY DEF DoneInv
<1>0. v \in Uploads /\ TrueOf(v)
    BY DEF DoneInv, Single
<1>1. CASE \/ UserMoves
           \/ \E c \in Callers : CommandMoves(c) \/ ReplyMoves(c)
           \/ \E u \in Uploads : PageMoves(u)
    BY <1>0, <1>1, PageStepDone
<1>2. ASSUME NEW u \in Uploads, WorkerMoves(u) \/ NetworkMoves(u) PROVE TrueOf(v)'
  <2>1. WorkerSafe(u)
      BY SafeIsInvariants DEF Safe
  <2> QED BY <1>0, <1>2, <2>1, WorkerStepDone
<1>3. CASE Restart
    BY <1>0, <1>3 DEF Restart, TrueOf, NoCall, Idle
<1>4. CASE UNCHANGED vars
    BY <1>0, <1>4 DEF vars, pageVars, workerVars, TrueOf
<1> QED BY <1>1, <1>2, <1>3, <1>4 DEF Next

(* A file recorded as uploaded has been stored, and one shown as uploaded  *)
(* has been stored or skipped, however events, lists and answers cross.    *)
THEOREM CompletedMeansStored == Spec => []CompletedIsReal
<1>1. DoneInv => CompletedIsReal
    BY DEF DoneInv, TrueOf, Single, CompletedIsReal
<1> QED BY <1>1, InitDone, NextDone, TypeCorrect, SafeAlways, PTL DEF Spec
================================================================================
