------------------------ MODULE QueuePersistence_proofs ------------------------
(***************************************************************************)
(* Theorems about QueuePersistence, for any accounts, tasks and threads    *)
(* and any number of logins, logouts, key resets, crashes and saves.       *)
(***************************************************************************)
EXTENDS QueuePersistence, TLAPS

-----------------------------------------------------------------------------
(* The inductive invariant *)

\* A reload, a logout or a reset knows for whom it is, it reads with no context
\* set, and a list is filled in for the context that was set just before.
SessionInv ==
    /\ session.step = "none" => session = Resting
    /\ session.step \in {"read", "context", "fill", "discard", "empty"} => session.user \in Accounts
    /\ session.step \in {"read", "context"} => ctx = NoCtx
    /\ session.step = "fill" => ctx = [user |-> session.user, key |-> session.key]

\* Only the key of the session reaches the context, so a key is reset in a
\* session whose context holds none.
KeyInv ==
    /\ dek => user # NoAccount
    /\ session.key => dek
    /\ session.step = "none" /\ ctx.key => dek
    /\ session.step \in {"discard", "empty"} => ~ctx.key

\* Nobody holds the key of an account whose file a crash left unreadable: not the
\* context, not a reload about to set one, not a save that has cloned one.
KeysOpenFiles ==
    /\ ctx.key => ctx.user \notin unreadable
    /\ session.step \in {"context", "fill"} /\ session.key => session.user \notin unreadable
    /\ \A t \in Threads : saved[t].ctx.key => saved[t].ctx.user \notin unreadable

OwnedBy(list, a) == \A id \in TaskIds : list[id] > 0 => Owner[id] = a

\* Without overlaps a save runs alone, beside no session change, and what it has
\* cloned is still what memory holds and what the session uses.
SavesAlone ==
    /\ \A t, u \in Threads : pc[t] # "idle" /\ pc[u] # "idle" => t = u
    /\ \A t \in Threads :
          /\ pc[t] # "idle" => session = Resting
          /\ pc[t] \in {"snapshot", "open", "write"} => saved[t].ctx = ctx /\ t \notin replaced
          /\ pc[t] \in {"open", "write"} => saved[t].list = memory
          /\ pc[t] = "write" => file[ctx.user].state = "truncated"

\* Without overlaps memory stays empty until a reload fills it, and a reload
\* fills it with what the file of its account holds.
LoadsAlone ==
    /\ session.step \in {"clear", "read", "context", "fill"} => memory = NoTasks
    /\ session.step \in {"none", "discard", "empty"} /\ ctx # NoCtx => ctx.user = user
    /\ session.user # NoAccount => session.user = user
    /\ session.step \in {"context", "fill"} =>
          /\ OwnedBy(session.list, session.user)
          /\ session.key => Holds(session.user, session.list)

\* Without overlaps every list holds the tasks of its own account only.
ListsOwned ==
    /\ ctx # NoCtx => OwnedBy(memory, ctx.user)
    /\ \A a \in Accounts : OwnedBy(file[a].list, a)

CalmInv == ~overlapped => SavesAlone /\ LoadsAlone /\ ListsOwned

IInv ==
    /\ TypeOK /\ SessionInv /\ KeyInv /\ KeysOpenFiles
    /\ DamagedFileIsKept /\ CalmInv /\ QuietSaveIsCurrent

-----------------------------------------------------------------------------
(* Types *)

SessionState ==
    [step: SessionSteps, user: Accounts \cup {NoAccount}, key: BOOLEAN, list: List]

\* The lists, contexts and files the actions start from are well formed.
LEMMA Constants ==
    /\ NoTasks \in List
    /\ NoCtx \in Contexts /\ NoCtx.key = FALSE
    /\ Resting \in SessionState
    /\ Resting.step = "none" /\ Resting.key = FALSE /\ Resting.user = NoAccount
    /\ Nothing \in [ctx: Contexts, list: List] /\ Nothing.ctx = NoCtx
    /\ \A list \in List : Whole(list) \in Content
    /\ \A state \in Unreadable \cup {"absent"} : Without(state) \in Content
    /\ \A state \in Unreadable \cup {"absent"} :
          Without(state).state = state /\ Without(state).list = NoTasks
  BY PersistenceAssumption
  DEF NoTasks, List, NoCtx, Contexts, Resting, Nothing, Whole, Without, Content, SessionState,
      SessionSteps

LEMMA InitInv == Init => IInv
<1> SUFFICES ASSUME Init PROVE IInv
  OBVIOUS
<1>1. TypeOK
  <2>1. file \in [Accounts -> Content] /\ saved \in [Threads -> [ctx: Contexts, list: List]]
    BY Constants DEF Init
  <2>2. pc \in [Threads -> {"idle", "context", "snapshot", "open", "write"}]
        /\ \A t \in Threads : pc[t] = "idle"
    BY DEF Init
  <2>3. sessions \in 0..MaxSessions
    BY PersistenceAssumption DEF Init
  <2> QED BY <2>1, <2>2, <2>3, Constants DEF Init, TypeOK, SessionState
<1>2. SessionInv /\ KeyInv /\ KeysOpenFiles /\ DamagedFileIsKept
  BY Constants DEF Init, SessionInv, KeyInv, KeysOpenFiles, DamagedFileIsKept
<1>3. \A a \in Accounts : file[a].list = NoTasks /\ OwnedBy(NoTasks, a)
  <2>1. \A a \in Accounts : file[a].list = NoTasks
    BY Constants DEF Init
  <2>2. \A a \in Accounts : OwnedBy(NoTasks, a)
    BY DEF OwnedBy, NoTasks
  <2> QED BY <2>1, <2>2
<1>4. CalmInv
  BY <1>3, Constants DEF Init, CalmInv, SavesAlone, LoadsAlone, ListsOwned
<1>5. QuietSaveIsCurrent
  BY Constants DEF Init, QuietSaveIsCurrent
<1> QED BY <1>1, <1>2, <1>4, <1>5 DEF IInv

LEMMA ChangeType ==
    ASSUME TypeOK, NEW t \in Threads, NEW id \in TaskIds, Change(t, id)
    PROVE  TypeOK'
<1>1. PICK v \in Versions(id) :
        /\ memory' = [memory EXCEPT ![id] = v]
        /\ issued' = IF v > memory[id] THEN issued \cup {id} ELSE issued
        /\ removed' = IF v < memory[id] THEN removed \cup {id} ELSE removed
  BY DEF Change
<1>2. v \in 0..MaxVersion
  BY PersistenceAssumption DEF Versions, TypeOK, List
<1>3. memory' \in List /\ issued' \subseteq TaskIds /\ removed' \subseteq TaskIds
  BY <1>1, <1>2 DEF TypeOK, List
<1>4. pc' \in [Threads -> {"idle", "context", "snapshot", "open", "write"}]
      /\ \A u \in Threads : pc'[u] \in {"open", "write"} => saved'[u].ctx.key
  BY DEF Change, TypeOK
<1>5. overlapped' \in BOOLEAN
  BY DEF Change, TypeOK
<1> QED BY <1>3, <1>4, <1>5 DEF Change, TypeOK, account

LEMMA SaveType ==
    ASSUME TypeOK, NEW t \in Threads, Save(t)
    PROVE  TypeOK'
<1>1. CASE CloneContext(t)
  BY <1>1 DEF CloneContext, NothingToSave, TypeOK, queue, account, ghosts
<1>2. CASE CloneTasks(t)
  BY <1>2 DEF CloneTasks, MayWrite, TypeOK, queue, account, ghosts
<1>3. CASE Open(t)
  BY <1>3, Constants DEF Open, TypeOK, Unreadable, queue, account, ghosts
<1>4. CASE Write(t)
  <2>1. file' \in [Accounts -> Content]
    BY <1>4, Constants DEF Write, TypeOK, Unreadable
  <2>2. onFile' \subseteq TaskIds
    BY <1>4 DEF Write, TypeOK
  <2>3. pc' \in [Threads -> {"idle", "context", "snapshot", "open", "write"}]
        /\ saved' \in [Threads -> [ctx: Contexts, list: List]]
        /\ \A u \in Threads : pc'[u] \in {"open", "write"} => saved'[u].ctx.key
    BY <1>4, Constants DEF Write, TypeOK
  <2> QED BY <1>4, <2>1, <2>2, <2>3 DEF Write, TypeOK, queue, account
<1> QED BY <1>1, <1>2, <1>3, <1>4 DEF Save

LEMMA CountedType ==
    ASSUME TypeOK, Counted
    PROVE  sessions' \in 0..MaxSessions
<1>1. sessions \in 0..MaxSessions
  BY DEF TypeOK
<1>2. sessions < MaxSessions /\ sessions' = sessions + 1
  BY DEF Counted
<1> QED BY <1>1, <1>2, PersistenceAssumption

LEMMA LoginType ==
    ASSUME TypeOK, SessionInv, KeyInv,
           (\E to \in Accounts : SignIn(to)) \/ SignOut \/ Reload \/ DropContext
    PROVE  TypeOK' /\ SessionInv' /\ KeyInv'
<1>1. ASSUME NEW to \in Accounts, SignIn(to) PROVE TypeOK' /\ SessionInv' /\ KeyInv'
  <2>1. sessions' \in 0..MaxSessions
    BY <1>1, CountedType DEF SignIn
  <2>2. TypeOK'
    BY <1>1, <2>1 DEF SignIn, TypeOK, queue, saves, ghosts
  <2>3. SessionInv'
    BY <1>1 DEF SignIn, SessionInv, queue
  <2>4. ~ctx.key /\ user' # NoAccount /\ UNCHANGED <<ctx, session>> /\ session = Resting
    BY <1>1, Constants, PersistenceAssumption DEF SignIn, KeyInv, queue
  <2>5. KeyInv'
    BY <2>4, Constants DEF KeyInv
  <2> QED BY <2>2, <2>3, <2>5
<1>2. CASE SignOut
  <2>1. sessions' \in 0..MaxSessions /\ overlapped' \in BOOLEAN
    BY <1>2, CountedType DEF SignOut, Begins, TypeOK
  <2>2. session' \in SessionState /\ session'.step = "clear" /\ session'.key = FALSE
    BY <1>2, Constants DEF SignOut, Begins, SessionState, SessionSteps, Resting
  <2>3. TypeOK'
    BY <1>2, <2>1, <2>2, Constants DEF SignOut, Begins, TypeOK, ListAfterClear, SessionState
  <2>4. SessionInv' /\ KeyInv'
    BY <1>2, <2>2 DEF SignOut, SessionInv, KeyInv
  <2> QED BY <2>3, <2>4
<1>3. CASE Reload
  <2>1. overlapped' \in BOOLEAN /\ user \in Accounts /\ dek \in BOOLEAN
    BY <1>3 DEF Reload, Begins, TypeOK
  <2>2. session' \in SessionState /\ session'.step = "clear" /\ session'.key = dek
    BY <1>3, <2>1, Constants DEF Reload, Begins, SessionState, SessionSteps, Resting
  <2>3. TypeOK'
    BY <1>3, <2>1, <2>2, Constants
    DEF Reload, Begins, TypeOK, ListAfterClear, SessionState, account
  <2>4. SessionInv' /\ KeyInv'
    BY <1>3, <2>2 DEF Reload, SessionInv, KeyInv, account
  <2> QED BY <2>3, <2>4
<1>4. CASE DropContext
  <2>1. session' \in {Resting, [session EXCEPT !.step = "read"]} /\ session' \in SessionState
        /\ (session' = Resting \/ session.user # NoAccount)
    BY <1>4, Constants DEF DropContext, TypeOK, SessionState, SessionSteps
  <2>2. TypeOK'
    BY <1>4, <2>1, Constants
    DEF DropContext, TypeOK, ContextAfterClear, SessionState, account, saves, ghosts
  <2>3. SessionInv'
    BY <1>4, <2>1, Constants DEF DropContext, TypeOK, SessionInv, ContextAfterClear
  <2>4. KeyInv'
    BY <1>4, <2>1, Constants DEF DropContext, TypeOK, KeyInv, ContextAfterClear, account
  <2> QED BY <2>2, <2>3, <2>4
<1> QED BY <1>1, <1>2, <1>3, <1>4

LEMMA LoadType ==
    ASSUME TypeOK, SessionInv, KeyInv, Load
    PROVE  TypeOK' /\ SessionInv' /\ KeyInv'
<1>1. CASE Read
  <2>1. session.user \in Accounts /\ file[session.user].list \in List
    BY <1>1, Constants DEF Read, SessionInv, TypeOK, Content
  <2>2. session' = Resting
        \/ /\ session' \in SessionState
           /\ session'.step = "context"
           /\ session'.user = session.user /\ session'.key = session.key
    BY <1>1, <2>1, Constants DEF Read, TypeOK, SessionState, SessionSteps
  <2>3. session' \in SessionState
    BY <2>2, Constants
  <2>4. TypeOK'
    BY <1>1, <2>3 DEF Read, TypeOK, SessionState, queue, account, saves, ghosts
  <2>5. SessionInv'
    BY <1>1, <2>1, <2>2, Constants DEF Read, SessionInv, queue
  <2>6. KeyInv'
    BY <1>1, <2>2, Constants DEF Read, KeyInv, SessionInv, queue, account
  <2> QED BY <2>4, <2>5, <2>6
<1>2. CASE SetContext
  <2>1. session' \in SessionState /\ session'.step = "fill"
        /\ session'.user = session.user /\ session'.key = session.key
    BY <1>2, Constants DEF SetContext, TypeOK, SessionState, SessionSteps
  <2>2. ctx' = [user |-> session.user, key |-> session.key] /\ ctx' \in Contexts
    BY <1>2 DEF SetContext, TypeOK, SessionInv, Contexts
  <2>3. TypeOK'
    BY <1>2, <2>1, <2>2 DEF SetContext, TypeOK, SessionState, account, saves, ghosts
  <2>4. SessionInv' /\ KeyInv'
    BY <1>2, <2>1, <2>2 DEF SetContext, SessionInv, KeyInv, account
  <2> QED BY <2>3, <2>4
<1>3. CASE Fill
  <2>1. session.list \in List
    BY DEF TypeOK
  <2>2. TypeOK'
    BY <1>3, <2>1, Constants DEF Fill, TypeOK, SessionState, account, saves, ghosts
  <2>3. ctx.key => dek
    BY <1>3 DEF Fill, SessionInv, KeyInv
  <2>4. SessionInv' /\ KeyInv'
    BY <1>3, <2>3, Constants DEF Fill, SessionInv, KeyInv, account
  <2> QED BY <2>2, <2>4
<1> QED BY <1>1, <1>2, <1>3 DEF Load

LEMMA ResetType ==
    ASSUME TypeOK, SessionInv, KeyInv, Reset \/ Crash
    PROVE  TypeOK' /\ SessionInv' /\ KeyInv'
<1>1. CASE ResetKey
  <2>1. sessions' \in 0..MaxSessions /\ overlapped' \in BOOLEAN /\ user \in Accounts
    BY <1>1, CountedType DEF ResetKey, Begins, TypeOK
  <2>2. session' \in SessionState /\ session'.step = "discard" /\ session'.key = FALSE
        /\ session'.user = user
    BY <1>1, <2>1, Constants DEF ResetKey, Begins, SessionState, SessionSteps, Resting
  <2>3. file' \in [Accounts -> Content]
    BY <1>1, Constants DEF ResetKey, TypeOK, Unreadable
  <2>4. TypeOK'
    BY <1>1, <2>1, <2>2, <2>3 DEF ResetKey, Begins, TypeOK, SessionState
  <2>5. ~ctx.key
    BY <1>1, Constants DEF ResetKey, Begins, KeyInv
  <2>6. SessionInv' /\ KeyInv'
    BY <1>1, <2>1, <2>2, <2>5 DEF ResetKey, Begins, SessionInv, KeyInv
  <2> QED BY <2>4, <2>6
<1>2. CASE Discard
  <2>1. session.user \in Accounts /\ session' \in {Resting, [session EXCEPT !.step = "empty"]}
    BY <1>2 DEF Discard, SessionInv
  <2>2. session' \in SessionState
    BY <2>1, Constants DEF TypeOK, SessionState, SessionSteps
  <2>3. file' \in [Accounts -> Content]
        /\ pc' \in [Threads -> {"idle", "context", "snapshot", "open", "write"}]
        /\ removed' \subseteq TaskIds /\ unreadable' \subseteq Accounts
        /\ \A t \in Threads : pc'[t] \in {"open", "write"} => pc[t] \in {"open", "write"}
    BY <1>2, <2>1, Constants DEF Discard, TypeOK
  <2>4. TypeOK'
    BY <1>2, <2>2, <2>3 DEF Discard, TypeOK, SessionState, queue, account
  <2>5. SessionInv'
    BY <1>2, <2>1, Constants DEF Discard, TypeOK, SessionInv, queue
  <2>6. KeyInv'
    BY <1>2, <2>1, Constants DEF Discard, TypeOK, KeyInv, queue, account
  <2> QED BY <2>4, <2>5, <2>6
<1>3. CASE Empty
  <2>1. session' \in SessionState /\ session'.step = "clear" /\ session'.key = FALSE
    BY <1>3, Constants DEF Empty, SessionState, SessionSteps, Resting
  <2>2. TypeOK'
    BY <1>3, <2>1, Constants DEF Empty, TypeOK, ListAfterClear, SessionState, account, saves, ghosts
  <2>3. SessionInv' /\ KeyInv'
    BY <1>3, <2>1 DEF Empty, SessionInv, KeyInv, account
  <2> QED BY <2>2, <2>3
<1>4. CASE Crash
  <2>1. sessions' \in 0..MaxSessions
    BY <1>4, CountedType DEF Crash
  <2>2. pc' \in [Threads -> {"idle", "context", "snapshot", "open", "write"}]
        /\ saved' \in [Threads -> [ctx: Contexts, list: List]]
        /\ \A t \in Threads : pc'[t] = "idle"
    BY <1>4, Constants DEF Crash
  <2>3. TypeOK'
    BY <1>4, <2>1, <2>2, Constants DEF Crash, TypeOK, SessionState
  <2>4. SessionInv' /\ KeyInv'
    BY <1>4, Constants DEF Crash, SessionInv, KeyInv
  <2> QED BY <2>3, <2>4
<1> QED BY <1>1, <1>2, <1>3, <1>4 DEF Reset

LEMMA SessionUnmoved ==
    ASSUME SessionInv, KeyInv, UNCHANGED <<session, ctx, account>>
    PROVE  SessionInv' /\ KeyInv'
  BY DEF SessionInv, KeyInv, account

LEMMA TypeStep ==
    TypeOK /\ SessionInv /\ KeyInv /\ [Next]_vars => TypeOK' /\ SessionInv' /\ KeyInv'
<1> SUFFICES ASSUME TypeOK, SessionInv, KeyInv, [Next]_vars
             PROVE  TypeOK' /\ SessionInv' /\ KeyInv'
  OBVIOUS
<1>1. ASSUME NEW t \in Threads, Save(t) PROVE TypeOK' /\ SessionInv' /\ KeyInv'
  <2>1. UNCHANGED <<session, ctx, account>>
    BY <1>1 DEF Save, CloneContext, CloneTasks, Open, Write, queue
  <2> QED BY <1>1, <2>1, SaveType, SessionUnmoved
<1>2. ASSUME NEW t \in Threads, NEW id \in TaskIds, Change(t, id)
      PROVE  TypeOK' /\ SessionInv' /\ KeyInv'
  BY <1>2, ChangeType, SessionUnmoved DEF Change
<1>3. CASE UNCHANGED vars
  <2>1. TypeOK'
    BY <1>3 DEF vars, queue, account, saves, ghosts, TypeOK
  <2> QED BY <1>3, <2>1, SessionUnmoved DEF vars, queue
<1>4. CASE Session
  BY <1>4, LoginType, LoadType, ResetType DEF Session
<1> QED BY <1>1, <1>2, <1>3, <1>4 DEF Next

-----------------------------------------------------------------------------
(* Damaged files *)

LEMMA KeysStep ==
    TypeOK /\ SessionInv /\ KeyInv /\ KeysOpenFiles /\ DamagedFileIsKept /\ [Next]_vars
    => KeysOpenFiles'
<1> SUFFICES ASSUME TypeOK, SessionInv, KeyInv, KeysOpenFiles, DamagedFileIsKept, [Next]_vars
             PROVE  KeysOpenFiles'
  OBVIOUS
<1>1. ASSUME NEW t \in Threads, Save(t) PROVE KeysOpenFiles'
  <2>1. UNCHANGED <<ctx, session, unreadable>>
    BY <1>1 DEF Save, CloneContext, CloneTasks, Open, Write, queue, ghosts
  <2>2. \A u \in Threads : saved'[u].ctx \in {saved[u].ctx, ctx, NoCtx}
    BY <1>1 DEF Save, CloneContext, CloneTasks, Open, Write, Nothing, TypeOK
  <2> QED BY <2>1, <2>2, Constants DEF KeysOpenFiles
<1>2. ASSUME UNCHANGED <<ctx, saved>>, unreadable' \subseteq unreadable,
             session'.step \notin {"context", "fill"}
      PROVE  KeysOpenFiles'
  BY <1>2 DEF KeysOpenFiles
<1>3. ASSUME UNCHANGED <<ctx, session, saved, unreadable>> PROVE KeysOpenFiles'
  BY <1>3 DEF KeysOpenFiles
<1>4. ASSUME NEW t \in Threads, NEW id \in TaskIds, Change(t, id) PROVE KeysOpenFiles'
  BY <1>3, <1>4 DEF Change
<1>5. ASSUME NEW to \in Accounts, SignIn(to) PROVE KeysOpenFiles'
  BY <1>3, <1>5 DEF SignIn, queue, saves, ghosts
<1>6. CASE SignOut \/ Reload
  <2>1. session'.step = "clear"
    BY <1>6 DEF SignOut, Reload, Begins, Resting
  <2> QED BY <1>2, <1>6, <2>1 DEF SignOut, Reload, Begins
<1>7. CASE DropContext
  <2>1. session'.step \in {"none", "read"}
    BY <1>7, Constants DEF DropContext, TypeOK
  <2> QED BY <1>7, <2>1, Constants DEF DropContext, ContextAfterClear, KeysOpenFiles, saves, ghosts
<1>8. CASE Read
  <2>1. session.user \in Accounts
    BY <1>8 DEF Read, SessionInv
  <2>2. session' = Resting
        \/ /\ session'.user = session.user /\ session'.key = session.key
           /\ session.key => file[session.user].state \notin Unreadable
    BY <1>8 DEF Read, TypeOK
  <2>3. session'.step \in {"context", "fill"} /\ session'.key => session'.user \notin unreadable
    BY <2>1, <2>2, Constants DEF DamagedFileIsKept
  <2> QED BY <1>8, <2>3 DEF Read, KeysOpenFiles, queue, saves, ghosts
<1>9. CASE SetContext
  BY <1>9 DEF SetContext, KeysOpenFiles, saves, ghosts, TypeOK
<1>10. CASE Fill
  <2>1. session'.step = "none"
    BY <1>10, Constants DEF Fill
  <2> QED BY <1>2, <1>10, <2>1 DEF Fill, saves, ghosts
<1>11. CASE ResetKey \/ Empty
  <2>1. session'.step \in {"discard", "clear"}
    BY <1>11 DEF ResetKey, Begins, Empty, Resting
  <2> QED BY <1>2, <1>11, <2>1 DEF ResetKey, Begins, Empty, saves, ghosts
<1>12. CASE Discard
  <2>1. session'.step \in {"none", "empty"}
    BY <1>12, Constants DEF Discard, TypeOK
  <2> QED BY <1>2, <1>12, <2>1 DEF Discard, queue
<1>13. CASE Crash
  BY <1>13, Constants DEF Crash, KeysOpenFiles
<1>14. CASE UNCHANGED vars
  BY <1>3, <1>14 DEF vars, queue, saves, ghosts
<1> QED
  BY <1>1, <1>4, <1>5, <1>6, <1>7, <1>8, <1>9, <1>10, <1>11, <1>12, <1>13, <1>14
  DEF Next, Session, Load, Reset

LEMMA DamagedStep ==
    TypeOK /\ SessionInv /\ KeysOpenFiles /\ DamagedFileIsKept /\ [Next]_vars
    => DamagedFileIsKept'
<1> SUFFICES ASSUME TypeOK, SessionInv, KeysOpenFiles, DamagedFileIsKept, [Next]_vars
             PROVE  DamagedFileIsKept'
  OBVIOUS
<1>1. ASSUME NEW t \in Threads, Open(t) \/ Write(t) PROVE DamagedFileIsKept'
  <2>1. saved[t].ctx.user \notin unreadable
    BY <1>1 DEF Open, Write, TypeOK, KeysOpenFiles
  <2>2. unreadable' = unreadable
        /\ \A a \in Accounts : a # saved[t].ctx.user => file'[a] = file[a]
    BY <1>1 DEF Open, Write, ghosts, TypeOK
  <2> QED BY <2>1, <2>2 DEF DamagedFileIsKept, TypeOK
<1>2. CASE Crash
  BY <1>2 DEF Crash, DamagedFileIsKept
<1>3. CASE ResetKey
  <2>1. user \in Accounts /\ unreadable' = unreadable
    BY <1>3 DEF ResetKey, Begins, TypeOK
  <2>2. file' = [file EXCEPT ![user] = IF @.state = "absent" THEN @ ELSE Without("foreign")]
    BY <1>3 DEF ResetKey
  <2>3. \A a \in unreadable : file'[a] \in {file[a], Without("foreign")}
    BY <2>1, <2>2 DEF TypeOK
  <2> QED BY <2>1, <2>3, Constants DEF DamagedFileIsKept, Unreadable
<1>4. CASE Discard
  <2>1. unreadable' \subseteq unreadable
        /\ \A a \in unreadable' : file'[a] = file[a]
    BY <1>4 DEF Discard, TypeOK
  <2> QED BY <2>1 DEF DamagedFileIsKept
<1>5. ASSUME UNCHANGED <<file, unreadable>> PROVE DamagedFileIsKept'
  BY <1>5 DEF DamagedFileIsKept
<1>6. CASE SignOut \/ Reload
  BY <1>5, <1>6 DEF SignOut, Reload, Begins
<1>7. CASE DropContext \/ Load \/ Empty
  BY <1>5, <1>7 DEF DropContext, Load, Read, SetContext, Fill, Empty, ghosts
<1>8. ASSUME NEW to \in Accounts, SignIn(to) PROVE DamagedFileIsKept'
  BY <1>5, <1>8 DEF SignIn, ghosts
<1>9. ASSUME NEW t \in Threads, CloneContext(t) \/ CloneTasks(t) PROVE DamagedFileIsKept'
  BY <1>5, <1>9 DEF CloneContext, CloneTasks, ghosts
<1>10. ASSUME NEW t \in Threads, NEW id \in TaskIds, Change(t, id) PROVE DamagedFileIsKept'
  BY <1>5, <1>10 DEF Change
<1>11. CASE UNCHANGED vars
  BY <1>5, <1>11 DEF vars, ghosts
<1> QED
  BY <1>1, <1>2, <1>3, <1>4, <1>6, <1>7, <1>8, <1>9, <1>10, <1>11
  DEF Next, Session, Reset, Save

-----------------------------------------------------------------------------
(* Saves and sessions that do not overlap *)

LEMMA ChangeCalm ==
    ASSUME IInv, TypeOK', NEW t \in Threads, NEW id \in TaskIds, Change(t, id)
    PROVE  CalmInv' /\ QuietSaveIsCurrent'
<1> SUFFICES ASSUME ~overlapped' PROVE CalmInv' /\ QuietSaveIsCurrent'
  BY DEF CalmInv, QuietSaveIsCurrent
<1>1. ~overlapped /\ Quiet /\ session = Resting
      /\ SavesAlone /\ LoadsAlone /\ ListsOwned /\ UNCHANGED <<ctx, file, user, session, saved, replaced>>
  BY DEF IInv, CalmInv, Change, account
<1>2. PICK v \in Versions(id) : memory' = [memory EXCEPT ![id] = v]
  BY DEF Change
<1>3. pc'[t] = "context" /\ \A u \in Threads : u # t => pc'[u] = "idle"
  BY <1>1 DEF Change, Quiet, IInv, TypeOK
<1>4. SavesAlone'
  BY <1>1, <1>3 DEF SavesAlone
<1>5. LoadsAlone'
  BY <1>1, Constants DEF LoadsAlone, OwnedBy, Holds
<1>6. ListsOwned'
  <2> SUFFICES ASSUME ctx # NoCtx, NEW other \in TaskIds, memory'[other] > 0
               PROVE  Owner[other] = ctx.user
    BY <1>1 DEF ListsOwned, OwnedBy
  <2>1. CASE other # id \/ memory[id] > 0
    <3>1. memory[other] > 0
      BY <1>2, <2>1 DEF IInv, TypeOK, List
    <3> QED BY <1>1, <3>1 DEF ListsOwned, OwnedBy
  <2>2. CASE other = id /\ ~(memory[id] > 0)
    <3>1. memory[id] \in 0..MaxVersion /\ memory'[id] = v
      BY <1>2 DEF IInv, TypeOK, List
    <3>2. memory[id] = 0 /\ v > 0
      BY <2>2, <3>1, PersistenceAssumption
    <3>3. user = Owner[id]
      BY <3>2 DEF Versions
    <3> QED BY <1>1, <2>2, <3>3, Constants DEF LoadsAlone
  <2> QED BY <2>1, <2>2
<1> QED BY <1>3, <1>4, <1>5, <1>6 DEF CalmInv, QuietSaveIsCurrent, Quiet

\* Of all threads only the one that steps is saving.
LEMMA OthersIdle ==
    ASSUME SavesAlone, NEW t \in Threads, pc[t] # "idle"
    PROVE  session = Resting /\ \A u \in Threads : u # t => pc[u] = "idle"
  BY DEF SavesAlone

LEMMA SaveCalm ==
    ASSUME IInv, NEW t \in Threads, Save(t)
    PROVE  CalmInv' /\ QuietSaveIsCurrent'
<1> SUFFICES ASSUME ~overlapped' PROVE CalmInv' /\ QuietSaveIsCurrent'
  BY DEF CalmInv, QuietSaveIsCurrent
<1>1. ~overlapped /\ UNCHANGED <<memory, ctx, user, session>> /\ pc[t] # "idle"
  BY DEF Save, CloneContext, CloneTasks, Open, Write, queue, account, ghosts
<1>2. SavesAlone /\ LoadsAlone /\ ListsOwned
  BY <1>1 DEF IInv, CalmInv
<1>3. session = Resting /\ \A u \in Threads : u # t => pc[u] = "idle"
  BY <1>1, <1>2, OthersIdle
<1>4. \A u \in Threads : u # t => pc'[u] = "idle" /\ saved'[u] = saved[u]
  BY <1>3 DEF Save, CloneContext, CloneTasks, Open, Write, IInv, TypeOK
<1>5. LoadsAlone'
  BY <1>1, <1>2, <1>3, Constants DEF LoadsAlone, OwnedBy
<1>6. CASE CloneContext(t)
  <2>1. UNCHANGED file /\ saved'[t].ctx = ctx /\ t \notin replaced'
        /\ pc'[t] = IF ctx = NoCtx THEN "idle" ELSE "snapshot"
    BY <1>6 DEF CloneContext, NothingToSave, IInv, TypeOK
  <2>2. SavesAlone'
    BY <1>1, <1>3, <1>4, <2>1 DEF SavesAlone
  <2>3. QuietSaveIsCurrent'
    BY <1>1, <2>1, Constants DEF QuietSaveIsCurrent, Quiet
  <2> QED BY <1>1, <1>2, <1>5, <2>1, <2>2, <2>3 DEF CalmInv, ListsOwned, OwnedBy
<1>7. CASE CloneTasks(t)
  <2>1. saved[t].ctx = ctx /\ t \notin replaced
    BY <1>2, <1>7 DEF SavesAlone, CloneTasks
  <2>2. UNCHANGED <<file, replaced>> /\ saved'[t].ctx = ctx /\ saved'[t].list = memory
        /\ pc'[t] = IF ctx.key THEN "open" ELSE "idle"
    BY <1>7, <2>1 DEF CloneTasks, MayWrite, IInv, TypeOK
  <2>3. SavesAlone'
    BY <1>1, <1>3, <1>4, <2>1, <2>2 DEF SavesAlone
  <2>4. QuietSaveIsCurrent'
    BY <1>1, <2>2 DEF QuietSaveIsCurrent, Quiet
  <2> QED BY <1>1, <1>2, <1>5, <2>2, <2>3, <2>4 DEF CalmInv, ListsOwned, OwnedBy
<1>8. CASE Open(t)
  <2>1. saved[t].ctx = ctx /\ saved[t].list = memory /\ ctx.key /\ t \notin replaced
    BY <1>2, <1>8 DEF SavesAlone, Open, IInv, TypeOK
  <2>2. ctx.user \in Accounts
    BY <2>1, Constants DEF IInv, TypeOK, Contexts
  <2>3. file'[ctx.user] = Without("truncated") /\ pc'[t] = "write"
        /\ UNCHANGED <<saved, replaced>>
        /\ \A a \in Accounts : a # ctx.user => file'[a] = file[a]
    BY <1>8, <2>1, <2>2 DEF Open, IInv, TypeOK
  <2>4. SavesAlone'
    BY <1>1, <1>3, <1>4, <2>1, <2>3 DEF SavesAlone, Without
  <2>5. ListsOwned'
    BY <1>1, <1>2, <2>3 DEF ListsOwned, OwnedBy, Without, NoTasks
  <2>6. QuietSaveIsCurrent'
    BY <2>3 DEF QuietSaveIsCurrent, Quiet
  <2> QED BY <1>5, <2>4, <2>5, <2>6 DEF CalmInv
<1>9. CASE Write(t)
  <2>1. saved[t].ctx = ctx /\ saved[t].list = memory /\ ctx.key
        /\ file[ctx.user].state = "truncated" /\ t \notin replaced
    BY <1>2, <1>9 DEF SavesAlone, Write, IInv, TypeOK
  <2>2. ctx.user \in Accounts /\ ctx # NoCtx
    BY <2>1, Constants DEF IInv, TypeOK, Contexts
  <2>3. file'[ctx.user] = Whole(memory) /\ pc'[t] = "idle"
        /\ \A a \in Accounts : a # ctx.user => file'[a] = file[a]
    BY <1>9, <2>1, <2>2 DEF Write, IInv, TypeOK
  <2>4. SavesAlone'
    BY <1>1, <1>3, <1>4, <2>3 DEF SavesAlone
  <2>5. ListsOwned'
    BY <1>1, <1>2, <2>2, <2>3 DEF ListsOwned, OwnedBy, Whole
  <2>6. QuietSaveIsCurrent'
    BY <1>1, <2>3 DEF QuietSaveIsCurrent, Holds, Whole, Unreadable
  <2> QED BY <1>5, <2>4, <2>5, <2>6 DEF CalmInv
<1> QED BY <1>6, <1>7, <1>8, <1>9 DEF Save

\* The start of a session change that no save overlaps.
LEMMA BeginCalm ==
    ASSUME IInv, ~overlapped', NEW kind, Begins(kind), kind # Resting
    PROVE  /\ SavesAlone /\ LoadsAlone /\ ListsOwned
           /\ session = Resting /\ session' = kind
           /\ UNCHANGED ctx
           /\ SavesAlone' /\ QuietSaveIsCurrent'
<1>1. ~overlapped /\ Quiet /\ session = Resting /\ session' = kind /\ UNCHANGED <<ctx, pc>>
  BY DEF Begins
<1>2. SavesAlone'
  BY <1>1 DEF SavesAlone, Quiet
<1>3. QuietSaveIsCurrent'
  BY <1>1 DEF QuietSaveIsCurrent
<1> QED BY <1>1, <1>2, <1>3 DEF IInv, CalmInv

LEMMA LoginCalm ==
    ASSUME IInv, TypeOK', SignOut \/ Reload \/ DropContext \/ \E to \in Accounts : SignIn(to)
    PROVE  CalmInv' /\ QuietSaveIsCurrent'
<1> SUFFICES ASSUME ~overlapped' PROVE CalmInv' /\ QuietSaveIsCurrent'
  BY DEF CalmInv, QuietSaveIsCurrent
<1>1. ASSUME NEW to \in Accounts, SignIn(to) PROVE CalmInv' /\ QuietSaveIsCurrent'
  <2>1. UNCHANGED <<memory, ctx, file, session, pc, saved, replaced>> /\ session = Resting
        /\ user = NoAccount /\ SavesAlone /\ LoadsAlone /\ ListsOwned
    BY <1>1 DEF SignIn, queue, saves, ghosts, IInv, CalmInv
  <2>2. ctx = NoCtx
    BY <2>1, Constants, PersistenceAssumption DEF LoadsAlone, IInv, TypeOK, Contexts
  <2>3. SavesAlone' /\ LoadsAlone' /\ ListsOwned'
    BY <2>1, <2>2, Constants DEF SavesAlone, LoadsAlone, ListsOwned, OwnedBy
  <2> QED BY <2>2, <2>1, <2>3, Constants DEF CalmInv, QuietSaveIsCurrent
<1>2. CASE SignOut
  <2>1. SavesAlone' /\ QuietSaveIsCurrent' /\ ListsOwned
        /\ session' = [Resting EXCEPT !.step = "clear"] /\ UNCHANGED <<ctx, file>>
    BY <1>2, BeginCalm DEF SignOut, Resting
  <2>2. LoadsAlone' /\ ListsOwned'
    BY <1>2, <2>1 DEF SignOut, ListAfterClear, LoadsAlone, ListsOwned, OwnedBy, NoTasks, Resting
  <2> QED BY <2>1, <2>2 DEF CalmInv
<1>3. CASE Reload
  <2>1. SavesAlone' /\ QuietSaveIsCurrent' /\ ListsOwned /\ UNCHANGED <<ctx, file, user>>
        /\ session' = [Resting EXCEPT !.step = "clear", !.user = user, !.key = dek]
    BY <1>3, BeginCalm DEF Reload, Resting, account
  <2>2. LoadsAlone' /\ ListsOwned'
    BY <1>3, <2>1 DEF Reload, ListAfterClear, LoadsAlone, ListsOwned, OwnedBy, NoTasks, Resting
  <2> QED BY <2>1, <2>2 DEF CalmInv
<1>4. CASE DropContext
  <2>1. SavesAlone /\ LoadsAlone /\ ListsOwned /\ session # Resting /\ memory = NoTasks
        /\ UNCHANGED <<memory, file, pc, saved, replaced, user>> /\ ctx' = NoCtx
    BY <1>4, Constants
    DEF DropContext, account, saves, ghosts, ContextAfterClear, IInv, CalmInv, LoadsAlone
  <2>2. session' \in {Resting, [session EXCEPT !.step = "read"]}
    BY <1>4 DEF DropContext
  <2>3. SavesAlone'
    BY <2>1 DEF SavesAlone
  <2>4. LoadsAlone' /\ ListsOwned' /\ QuietSaveIsCurrent'
    BY <2>1, <2>2, Constants
    DEF LoadsAlone, ListsOwned, OwnedBy, QuietSaveIsCurrent, IInv, TypeOK
  <2> QED BY <2>3, <2>4 DEF CalmInv
<1> QED BY <1>1, <1>2, <1>3, <1>4

LEMMA LoadCalm ==
    ASSUME IInv, Load
    PROVE  CalmInv' /\ QuietSaveIsCurrent'
<1> SUFFICES ASSUME ~overlapped' PROVE CalmInv' /\ QuietSaveIsCurrent'
  BY DEF CalmInv, QuietSaveIsCurrent
<1>1. SavesAlone /\ LoadsAlone /\ ListsOwned /\ session # Resting /\ memory = NoTasks
      /\ UNCHANGED <<file, pc, saved, replaced, user>>
  BY Constants
  DEF Load, Read, SetContext, Fill, account, saves, ghosts, IInv, CalmInv, LoadsAlone
<1>2. SavesAlone' /\ Quiet
  BY <1>1 DEF SavesAlone, Quiet
<1>3. CASE Read
  <2>1. UNCHANGED <<memory, ctx>> /\ ctx = NoCtx /\ session.user \in Accounts
        /\ session.user = user
    BY <1>1, <1>3, PersistenceAssumption DEF Read, LoadsAlone, SessionInv, IInv, queue
  <2>2. CASE session' = Resting
    BY <1>1, <1>2, <2>1, <2>2, Constants
    DEF CalmInv, LoadsAlone, ListsOwned, OwnedBy, QuietSaveIsCurrent
  <2>3. CASE session' # Resting
    <3>1. session'.step = "context" /\ session'.user = session.user
          /\ session'.key = session.key
      BY <1>3, <2>3 DEF Read, IInv, TypeOK
    <3>2. OwnedBy(session'.list, session.user)
      <4>1. session'.list \in {file[session.user].list, NoTasks}
        BY <1>3, <2>3 DEF Read, IInv, TypeOK
      <4> QED BY <1>1, <2>1, <4>1 DEF ListsOwned, OwnedBy, NoTasks
    <3>3. session.key => Holds(session.user, session'.list)
      BY <1>3, <2>3 DEF Read, IInv, TypeOK, Holds
    <3>4. LoadsAlone'
      BY <1>1, <2>1, <3>1, <3>2, <3>3 DEF LoadsAlone, OwnedBy, Holds
    <3> QED
      BY <1>1, <1>2, <2>1, <2>3, <3>4 DEF CalmInv, ListsOwned, OwnedBy, QuietSaveIsCurrent
  <2> QED BY <2>2, <2>3
<1>4. CASE SetContext
  <2>1. UNCHANGED memory /\ ctx'.user = session.user
        /\ session.user \in Accounts /\ session.user = user
    BY <1>1, <1>4, PersistenceAssumption DEF SetContext, LoadsAlone, SessionInv, IInv
  <2>2. session'.step = "fill" /\ session'.user = session.user /\ session'.key = session.key
        /\ session'.list = session.list /\ session' # Resting
    BY <1>4, Constants DEF SetContext, IInv, TypeOK
  <2>3. LoadsAlone'
    BY <1>1, <1>4, <2>1, <2>2 DEF SetContext, LoadsAlone, OwnedBy, Holds
  <2>4. ListsOwned' /\ QuietSaveIsCurrent'
    BY <1>1, <2>1, <2>2 DEF ListsOwned, OwnedBy, NoTasks, QuietSaveIsCurrent
  <2> QED BY <1>2, <2>3, <2>4 DEF CalmInv
<1>5. CASE Fill
  <2>1. UNCHANGED ctx /\ session' = Resting /\ memory' = session.list
    BY <1>5 DEF Fill
  <2>2. ctx.user = session.user /\ ctx.key = session.key /\ session.user = user
        /\ OwnedBy(session.list, session.user)
        /\ (session.key => Holds(session.user, session.list))
    BY <1>1, <1>5, PersistenceAssumption DEF Fill, LoadsAlone, SessionInv, IInv
  <2>3. LoadsAlone' /\ ListsOwned' /\ QuietSaveIsCurrent'
    BY <1>1, <2>1, <2>2, Constants
    DEF LoadsAlone, ListsOwned, OwnedBy, QuietSaveIsCurrent, Holds
  <2> QED BY <1>2, <2>3 DEF CalmInv
<1> QED BY <1>3, <1>4, <1>5 DEF Load

LEMMA ResetCalm ==
    ASSUME IInv, TypeOK', Reset \/ Crash
    PROVE  CalmInv' /\ QuietSaveIsCurrent'
<1> SUFFICES ASSUME ~overlapped' PROVE CalmInv' /\ QuietSaveIsCurrent'
  BY DEF CalmInv, QuietSaveIsCurrent
<1>1. CASE ResetKey
  <2>1. SavesAlone' /\ QuietSaveIsCurrent' /\ LoadsAlone /\ ListsOwned /\ session = Resting
        /\ session' = [Resting EXCEPT !.step = "discard", !.user = user]
        /\ UNCHANGED <<ctx, memory, user>>
    BY <1>1, BeginCalm DEF ResetKey, Resting
  <2>2. \A a \in Accounts : file'[a].list \in {file[a].list, NoTasks}
    BY <1>1, Constants DEF ResetKey, IInv, TypeOK, Unreadable
  <2>3. LoadsAlone'
    BY <2>1 DEF LoadsAlone, Resting
  <2>4. ListsOwned'
    BY <2>1, <2>2 DEF ListsOwned, OwnedBy, NoTasks
  <2> QED BY <2>1, <2>3, <2>4 DEF CalmInv
<1>2. CASE Discard
  <2>1. SavesAlone /\ LoadsAlone /\ ListsOwned /\ session # Resting /\ ~ctx.key
        /\ UNCHANGED <<memory, ctx, saved, replaced, user>>
        /\ session' \in {Resting, [session EXCEPT !.step = "empty"]}
    BY <1>2, Constants DEF Discard, queue, account, IInv, CalmInv, KeyInv
  <2>2. \A t \in Threads : pc'[t] = "idle"
    BY <1>2, <2>1 DEF Discard, SavesAlone, IInv, TypeOK
  <2>3. \A a \in Accounts : file'[a].list \in {file[a].list, NoTasks}
    BY <1>2, Constants DEF Discard, IInv, TypeOK
  <2>4. SavesAlone' /\ QuietSaveIsCurrent'
    BY <2>1, <2>2 DEF SavesAlone, QuietSaveIsCurrent
  <2>5. LoadsAlone'
    BY <1>2, <2>1, Constants DEF Discard, LoadsAlone, IInv, TypeOK
  <2>6. ListsOwned'
    BY <2>1, <2>3 DEF ListsOwned, OwnedBy, NoTasks
  <2> QED BY <2>4, <2>5, <2>6 DEF CalmInv
<1>3. CASE Empty
  <2>1. SavesAlone /\ LoadsAlone /\ ListsOwned /\ session # Resting /\ memory' = NoTasks
        /\ UNCHANGED <<ctx, pc, saved, replaced, user, file>>
        /\ session' = [Resting EXCEPT !.step = "clear"]
    BY <1>3, Constants
    DEF Empty, account, saves, ghosts, IInv, CalmInv, ListAfterClear
  <2>2. SavesAlone' /\ QuietSaveIsCurrent'
    BY <2>1 DEF SavesAlone, QuietSaveIsCurrent, Resting
  <2>3. LoadsAlone' /\ ListsOwned'
    BY <2>1 DEF LoadsAlone, ListsOwned, OwnedBy, NoTasks, Resting
  <2> QED BY <2>2, <2>3 DEF CalmInv
<1>4. CASE Crash
  <2>1. memory' = NoTasks /\ ctx' = NoCtx /\ session' = Resting /\ UNCHANGED file
        /\ \A t \in Threads : pc'[t] = "idle"
    BY <1>4 DEF Crash
  <2>2. ListsOwned
    BY <1>4 DEF Crash, IInv, CalmInv
  <2> QED
    BY <2>1, <2>2, Constants
    DEF CalmInv, SavesAlone, LoadsAlone, ListsOwned, OwnedBy, QuietSaveIsCurrent
<1> QED BY <1>1, <1>2, <1>3, <1>4 DEF Reset

-----------------------------------------------------------------------------
(* Theorems *)

LEMMA InvStep == IInv /\ [Next]_vars => IInv'
<1> SUFFICES ASSUME IInv, [Next]_vars PROVE IInv'
  OBVIOUS
<1>1. TypeOK' /\ SessionInv' /\ KeyInv' /\ KeysOpenFiles' /\ DamagedFileIsKept'
  BY TypeStep, KeysStep, DamagedStep DEF IInv
<1>2. CalmInv' /\ QuietSaveIsCurrent'
  <2>1. CASE UNCHANGED vars
    BY <2>1
    DEF vars, queue, account, saves, ghosts, IInv, CalmInv, SavesAlone, LoadsAlone, ListsOwned,
        OwnedBy, QuietSaveIsCurrent, Quiet, Holds
  <2>2. CASE Session
    BY <1>1, <2>2, LoginCalm, LoadCalm, ResetCalm DEF Session
  <2> QED BY <1>1, <2>1, <2>2, ChangeCalm, SaveCalm DEF Next
<1> QED BY <1>1, <1>2 DEF IInv

LEMMA Invariant == Spec => []IInv
  BY InitInv, InvStep, PTL DEF Spec

\* Every variable keeps its type; a save that is about to write has a key.
THEOREM PersistenceTypes == Spec => []TypeOK
<1>1. IInv => TypeOK
  BY DEF IInv
<1> QED BY <1>1, Invariant, PTL

\* A file that a crash left unreadable stays as unreadable until its user resets
\* the key, however many accounts, threads, logins and further crashes there are.
THEOREM DamagedFilesStay == Spec => []DamagedFileIsKept
<1>1. IInv => DamagedFileIsKept
  BY DEF IInv
<1> QED BY <1>1, Invariant, PTL

\* Where no save overlaps a reload, a logout or a key reset, the list in memory
\* is the list of the account the next save would write it for.
THEOREM ListsMatchTheirContext == Spec => []MemoryMatchesContext
<1>1. IInv => MemoryMatchesContext
  BY DEF IInv, CalmInv, ListsOwned, OwnedBy, MemoryMatchesContext
<1> QED BY <1>1, Invariant, PTL

\* Where saves overlap nothing, a finished save leaves in the file what memory
\* holds, through any number of reloads, logouts and key resets.
THEOREM QuietSavesAreCurrent == Spec => []QuietSaveIsCurrent
<1>1. IInv => QuietSaveIsCurrent
  BY DEF IInv
<1> QED BY <1>1, Invariant, PTL
=============================================================================
