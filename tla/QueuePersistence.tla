--------------------------- MODULE QueuePersistence ---------------------------
(***************************************************************************)
(* How the download list reaches its file: QueueState (download_queue.rs)  *)
(* over task_persistence.rs, with every lock taken separately.             *)
(*                                                                         *)
(* A save clones the persistence context, releases its lock, clones the    *)
(* tasks, releases theirs, and then writes a file whose name and key come  *)
(* from the context. Workers, commands and the service loop save from      *)
(* several threads, while a login or a logout replaces context and tasks,  *)
(* or a reset of the preference key (commands/preferences.rs) removes the  *)
(* file and empties the list. What a login may find in the file is settled *)
(* here; DownloadQueue leaves it open.                                     *)
(***************************************************************************)
EXTENDS Naturals

CONSTANTS
    Accounts,     \* accounts that sign in on this machine
    TaskIds,
    Owner,        \* the account each task was issued to
    Threads,      \* threads that mutate and save
    MaxVersion,   \* bound on the versions of a task
    MaxSessions,  \* bound on logins, logouts, key resets and crashes
    NoAccount

ASSUME PersistenceAssumption ==
    /\ Owner \in [TaskIds -> Accounts]
    /\ MaxVersion \in Nat \ {0}
    /\ MaxSessions \in Nat
    /\ NoAccount \notin Accounts

VARIABLES
    memory,      \* QueueState.tasks: the version of each task, 0 for none
    ctx,         \* QueueState.persist_ctx
    file,        \* the task file of each account
    user,        \* the account whose commands reach the queue
    dek,         \* the session holds the preference key of its account
    session,     \* the reload, logout or key reset in progress
    pc,          \* control point of each thread in its save
    saved,       \* the context and the list each thread's save has cloned
    replaced,    \* threads whose cloned context holds a key replaced since
    sessions,    \* logins, logouts, key resets and crashes so far
    issued,      \* ghost: tasks the server has issued
    onFile,      \* ghost: tasks that have been written to their account's file
    removed,     \* ghost: tasks whose record somebody removed
    overlapped,  \* ghost: a save has overlapped another one or a session change
    unreadable   \* ghost: accounts whose file a crash left unreadable and
                 \*        nobody has discarded since

queue == <<memory, ctx>>
ghosts == <<issued, onFile, removed, overlapped, unreadable>>
account == <<user, dek>>
saves == <<pc, saved, replaced>>
vars == <<queue, file, account, session, saves, sessions, ghosts>>

List     == [TaskIds -> 0..MaxVersion]
NoTasks  == [id \in TaskIds |-> 0]
NoCtx    == [user |-> NoAccount, key |-> FALSE]
Contexts == [user: Accounts, key: BOOLEAN] \cup {NoCtx}

\* A file may be absent, whole, truncated by a writer that has not written yet,
\* a mix of two encrypted lists that nothing decrypts, or encrypted with a key
\* that has been replaced. Only an absent one reads as an empty list.
Unreadable == {"truncated", "mixed", "foreign"}
Content    == [state: {"whole"}, list: List]
              \cup [state: Unreadable \cup {"absent"}, list: {NoTasks}]
Whole(list)    == [state |-> "whole", list |-> list]
Without(state) == [state |-> state, list |-> NoTasks]

\* A reload of account's file would find list in it.
Holds(a, list) == file[a].state \notin Unreadable /\ file[a].list = list

Resting == [step |-> "none", user |-> NoAccount, key |-> FALSE, list |-> NoTasks]
Nothing == [ctx |-> NoCtx, list |-> NoTasks]

SessionSteps == {"none", "clear", "read", "context", "fill", "discard", "empty"}

TypeOK ==
    /\ memory \in List
    /\ ctx \in Contexts
    /\ file \in [Accounts -> Content]
    /\ user \in Accounts \cup {NoAccount} /\ dek \in BOOLEAN
    /\ session \in [step: SessionSteps,
                    user: Accounts \cup {NoAccount}, key: BOOLEAN, list: List]
    /\ pc \in [Threads -> {"idle", "context", "snapshot", "open", "write"}]
    /\ saved \in [Threads -> [ctx: Contexts, list: List]]
    /\ \A t \in Threads : pc[t] \in {"open", "write"} => saved[t].ctx.key
    /\ replaced \subseteq Threads
    /\ sessions \in 0..MaxSessions
    /\ issued \subseteq TaskIds /\ onFile \subseteq TaskIds /\ removed \subseteq TaskIds
    /\ overlapped \in BOOLEAN /\ unreadable \subseteq Accounts

Quiet == \A t \in Threads : pc[t] = "idle"

-----------------------------------------------------------------------------
(* Saving: every mutator ends with a call of save, changed or not. *)

Versions(id) ==
    {memory[id]}
    \cup {v \in {0, memory[id] + 1} : memory[id] > 0 /\ v <= MaxVersion}
    \cup {v \in {1} : id \notin issued /\ user = Owner[id] /\ session = Resting}

Change(t, id) ==
    /\ pc[t] = "idle"
    /\ \E v \in Versions(id) :
          /\ memory' = [memory EXCEPT ![id] = v]
          /\ issued' = IF v > memory[id] THEN issued \cup {id} ELSE issued
          /\ removed' = IF v < memory[id] THEN removed \cup {id} ELSE removed
    /\ pc' = [pc EXCEPT ![t] = "context"]
    /\ overlapped' = (overlapped \/ ~Quiet \/ session # Resting)
    /\ UNCHANGED <<ctx, file, account, session, saved, replaced, sessions, onFile, unreadable>>

\* Mutant: an empty list is not worth a file.
NoContextOrTasks(c) == c = NoCtx \/ memory = NoTasks

\* save: no context, nothing to do.
NothingToSave(c) == c = NoCtx

CloneContext(t) ==
    /\ pc[t] = "context"
    /\ saved' = [saved EXCEPT ![t].ctx = ctx]
    /\ replaced' = replaced \ {t}
    /\ pc' = [pc EXCEPT ![t] = IF NothingToSave(ctx) THEN "idle" ELSE "snapshot"]
    /\ UNCHANGED <<queue, file, account, session, sessions, ghosts>>

\* Mutant: a list is written in the clear when there is no key.
MayAlwaysWrite(c) == TRUE

\* task_persistence::save refuses a context without a key.
MayWrite(c) == c.key

CloneTasks(t) ==
    /\ pc[t] = "snapshot"
    /\ saved' = [saved EXCEPT ![t].list = memory]
    /\ pc' = [pc EXCEPT ![t] = IF MayWrite(saved[t].ctx) THEN "open" ELSE "idle"]
    /\ UNCHANGED <<queue, file, account, session, replaced, sessions, ghosts>>

\* fs::write truncates the file when it opens it ...
Open(t) ==
    /\ pc[t] = "open"
    /\ file' = [file EXCEPT ![saved[t].ctx.user] = Without("truncated")]
    /\ pc' = [pc EXCEPT ![t] = "write"]
    /\ UNCHANGED <<queue, account, session, saved, replaced, sessions, ghosts>>

\* ... and writes from its start: what another thread wrote in between stays
\* behind the new bytes if it was longer, and what it writes with a key that
\* has been replaced cannot be read again.
Write(t) ==
    /\ pc[t] = "write"
    /\ LET to == saved[t].ctx.user
       IN  \/ /\ t \notin replaced
              /\ file' = [file EXCEPT ![to] = Whole(saved[t].list)]
              /\ onFile' = onFile \cup {id \in TaskIds : Owner[id] = to /\ saved[t].list[id] > 0}
           \/ /\ UNCHANGED onFile
              /\ \/ /\ file[to].state # "truncated"
                    /\ file' = [file EXCEPT ![to] = Without("mixed")]
                 \/ /\ t \in replaced
                    /\ file' = [file EXCEPT ![to] = Without("foreign")]
    /\ pc' = [pc EXCEPT ![t] = "idle"]
    /\ saved' = [saved EXCEPT ![t] = Nothing]
    /\ UNCHANGED <<queue, account, session, replaced, sessions, issued, removed, overlapped,
                   unreadable>>

-----------------------------------------------------------------------------
(* Sessions: clear on logout, load_for_user after login *)

\* Mutant: the tasks of the previous account stay until the new list is there.
KeptOnClear == memory

\* clear empties the list ...
ListAfterClear == NoTasks

Begins(kind) ==
    /\ session = Resting
    /\ session' = kind
    /\ overlapped' = (overlapped \/ ~Quiet)
    /\ UNCHANGED <<ctx, pc, issued, onFile, removed, unreadable>>

Counted == sessions < MaxSessions /\ sessions' = sessions + 1

\* Authentication, and setup_preference_dek or recover_preference_dek with or
\* without success.
SignIn(to) ==
    /\ session = Resting /\ user = NoAccount
    /\ Counted
    /\ user' = to /\ dek' \in BOOLEAN
    /\ UNCHANGED <<queue, file, session, saves, ghosts>>

\* clear_auth_state.
SignOut ==
    /\ user # NoAccount
    /\ Begins([Resting EXCEPT !.step = "clear"])
    /\ Counted
    /\ memory' = ListAfterClear
    /\ user' = NoAccount /\ dek' = FALSE
    /\ UNCHANGED <<file, saved, replaced>>

\* reload_tasks_for_user: load_for_user begins with clear.
Reload ==
    /\ user # NoAccount
    /\ Begins([Resting EXCEPT !.step = "clear", !.user = user, !.key = dek])
    /\ memory' = ListAfterClear
    /\ UNCHANGED <<file, account, saved, replaced, sessions>>

\* Mutant: a login keeps the context of the account it signs in to.
ContextForUser == [user |-> session.user, key |-> session.user # NoAccount]

\* ... and then drops the context with its key.
ContextAfterClear == NoCtx

DropContext ==
    /\ session.step = "clear"
    /\ ctx' = ContextAfterClear
    /\ session' = IF session.user = NoAccount THEN Resting ELSE [session EXCEPT !.step = "read"]
    /\ UNCHANGED <<memory, file, account, saves, sessions, ghosts>>

\* task_persistence::load: an error ends the reload before a context is set;
\* without a key there is nothing to decrypt and the list is empty.
Read ==
    /\ session.step = "read"
    /\ session' = IF session.key /\ file[session.user].state \in Unreadable
                  THEN Resting
                  ELSE [session EXCEPT !.step = "context",
                           !.list = IF session.key THEN file[session.user].list ELSE NoTasks]
    /\ UNCHANGED <<queue, file, account, saves, sessions, ghosts>>

SetContext ==
    /\ session.step = "context"
    /\ ctx' = [user |-> session.user, key |-> session.key]
    /\ session' = [session EXCEPT !.step = "fill"]
    /\ UNCHANGED <<memory, file, account, saves, sessions, ghosts>>

Fill ==
    /\ session.step = "fill"
    /\ memory' = session.list
    /\ session' = Resting
    /\ UNCHANGED <<ctx, file, account, saves, sessions, ghosts>>

-----------------------------------------------------------------------------
(* reset_preference_dek, in a session without a key *)

\* A new key replaces the one that is lost: what was encrypted with it cannot be
\* read any more, and saves that still hold it write what cannot be read.
ResetKey ==
    /\ user # NoAccount /\ ~dek
    /\ Begins([Resting EXCEPT !.step = "discard", !.user = user])
    /\ Counted
    /\ dek' = TRUE
    /\ file' = [file EXCEPT ![user] = IF @.state = "absent" THEN @ ELSE Without("foreign")]
    /\ replaced' = replaced \cup {t \in Threads : saved[t].ctx.key /\ saved[t].ctx.user = user}
    /\ UNCHANGED <<memory, user, saved>>

\* The file is removed; who has it open goes on to write one that has no name any
\* more. An error before or after that, at a file of the preferences or the
\* uploads, ends the command.
Discard ==
    /\ session.step = "discard"
    /\ \/ session' = Resting /\ UNCHANGED <<file, pc, removed, unreadable>>
       \/ /\ session' \in {Resting, [session EXCEPT !.step = "empty"]}
          /\ file' = [file EXCEPT ![session.user] = Without("absent")]
          /\ pc' = [t \in Threads |-> IF pc[t] = "write" /\ saved[t].ctx.user = session.user
                                      THEN "idle" ELSE pc[t]]
          /\ removed' = removed \cup {id \in TaskIds : Owner[id] = session.user}
          /\ unreadable' = unreadable \ {session.user}
    /\ UNCHANGED <<queue, account, saved, replaced, sessions, issued, onFile, overlapped>>

\* The list and then the context are cleared, as on logout.
Empty ==
    /\ session.step = "empty"
    /\ session' = [Resting EXCEPT !.step = "clear"]
    /\ memory' = ListAfterClear
    /\ UNCHANGED <<ctx, file, account, saves, sessions, ghosts>>

\* The process dies at any point and starts again with its files.
Crash ==
    /\ Counted
    /\ memory' = NoTasks /\ ctx' = NoCtx /\ session' = Resting
    /\ user' = NoAccount /\ dek' = FALSE
    /\ pc' = [t \in Threads |-> "idle"]
    /\ saved' = [t \in Threads |-> Nothing]
    /\ replaced' = {}
    /\ unreadable' = {a \in Accounts : file[a].state \in Unreadable}
    /\ UNCHANGED <<file, issued, onFile, removed, overlapped>>

Init ==
    /\ memory = NoTasks /\ ctx = NoCtx
    /\ file = [a \in Accounts |-> Without("absent")]
    /\ user = NoAccount /\ dek = FALSE /\ session = Resting
    /\ pc = [t \in Threads |-> "idle"]
    /\ saved = [t \in Threads |-> Nothing] /\ replaced = {}
    /\ sessions = 0
    /\ issued = {} /\ onFile = {} /\ removed = {} /\ overlapped = FALSE /\ unreadable = {}

Save(t) == CloneContext(t) \/ CloneTasks(t) \/ Open(t) \/ Write(t)

Load == Read \/ SetContext \/ Fill

Reset == ResetKey \/ Discard \/ Empty

Session ==
    \/ \E to \in Accounts : SignIn(to)
    \/ SignOut \/ Reload \/ DropContext \/ Load \/ Reset \/ Crash

Next ==
    \/ \E t \in Threads : Save(t) \/ \E id \in TaskIds : Change(t, id)
    \/ Session

Spec == Init /\ [][Next]_vars

-----------------------------------------------------------------------------
(* Properties *)

\* A file that a crash left unreadable stays until the user discards it by
\* resetting the key: a reload that fails leaves no context behind, so neither an
\* empty list nor the tasks added in that session are written over it, whoever
\* signs in and whatever is saved.
DamagedFileIsKept == \A a \in unreadable : file[a].state \in Unreadable

\* The list in memory belongs to the account whose name and key the next save
\* will use, at every point of a reload, a logout or a key reset that no save
\* overlaps.
MemoryMatchesContext ==
    ~overlapped /\ ctx # NoCtx => \A id \in TaskIds : memory[id] > 0 => Owner[id] = ctx.user

\* Saves that overlap neither each other nor a session change leave the file
\* equal to the list, through reloads and key resets.
QuietSaveIsCurrent ==
    ~overlapped /\ Quiet /\ session = Resting /\ ctx.key => Holds(ctx.user, memory)

\* A claim of the documentation that the code does not keep.

\* clear empties "in-memory tasks" (QueueState::clear): a task leaves the file
\* only after somebody has removed its record.
SavedTasksSurvive ==
    \A id \in onFile \ removed :
        file[Owner[id]].state = "whole" => file[Owner[id]].list[id] > 0
=============================================================================
