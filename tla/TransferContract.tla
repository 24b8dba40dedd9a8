-------------------------- MODULE TransferContract --------------------------
(***************************************************************************)
(* What the download queue counts on when it hands a task to a transfer:   *)
(* the phases it reports, where it can be interrupted, and what it has     *)
(* left on disk when it returns - with no chunk, checkpoint, offset or     *)
(* position.  These are the steps a worker of DownloadQueue takes between  *)
(* its checks before the transfer and the publication of the outcome.      *)
(* ChunkTransfer implements it.                                            *)
(***************************************************************************)

CONSTANTS
  Attempts,   \* workers that may be at the task
  NoAttempt

VARIABLES
  phase,      \* of each attempt: idle, request, chunks, decrypt, ack, returned
  told,       \* it was told to stop
  result,     \* what it has returned
  resumable,  \* supports_resume of the task
  stored,     \* a chunk store has the task's name
  owner,      \* who created the destination file last
  output,     \* none, partial or complete
  heard       \* the server has heard that the download is complete

files == <<stored, owner, output>>
vars == <<phase, told, result, resumable, files, heard>>

Init ==
  /\ phase = [w \in Attempts |-> "idle"]
  /\ told = [w \in Attempts |-> FALSE]
  /\ result = [w \in Attempts |-> "none"]
  /\ resumable \in BOOLEAN
  /\ stored = FALSE /\ owner = NoAttempt /\ output = "none" /\ heard = FALSE

Enter(w, from, to) == phase[w] = from /\ phase' = [phase EXCEPT ![w] = to]

Returns(w, outcome) ==
  /\ phase' = [phase EXCEPT ![w] = "returned"]
  /\ result' = [result EXCEPT ![w] = outcome]
  /\ UNCHANGED <<told, resumable>>

\* Nothing on disk is touched before the server has answered.
Begin(w) ==
  /\ Enter(w, "idle", "request")
  /\ \A v \in Attempts : phase[v] # "idle" => told[v]
  /\ told' = [told EXCEPT ![w] = FALSE]
  /\ UNCHANGED <<result, resumable, files, heard>>

\* A resumable download has a store from then on.
Metadata(w) ==
  /\ Enter(w, "request", "chunks")
  /\ stored' = (stored \/ resumable)
  /\ UNCHANGED <<told, result, resumable, owner, output, heard>>

Key(w) ==
  /\ Enter(w, "chunks", "decrypt")
  /\ owner' = w /\ output' = "partial"
  /\ UNCHANGED <<told, result, resumable, stored, heard>>

\* Decrypting only ever adds to the file, whoever has created it.
Write(w) ==
  /\ phase[w] = "decrypt" /\ output = "partial"
  /\ output' = "complete"
  /\ UNCHANGED <<phase, told, result, resumable, stored, owner, heard>>

\* The file is whole before the server hears so, unless another attempt has
\* created it anew meanwhile.
Verify(w) ==
  /\ Enter(w, "decrypt", "ack")
  /\ output # "none" /\ (owner = w => output = "complete")
  /\ UNCHANGED <<told, result, resumable, files, heard>>

Tell(w) ==
  /\ phase[w] = "ack"
  /\ heard' = TRUE
  /\ UNCHANGED <<phase, told, result, resumable, files>>

\* The store goes only now: until then a retry finds it.
Acknowledge(w) ==
  /\ phase[w] = "ack" /\ heard
  /\ Returns(w, "ok")
  /\ stored' = (stored /\ ~resumable)
  /\ UNCHANGED <<owner, output, heard>>

\* The phases in which it waits for the server.
Waiting == {"request", "chunks", "ack"}

Error(w) ==
  /\ \/ phase[w] \in Waiting /\ Returns(w, "transient")
     \/ phase[w] \in Waiting \union {"decrypt"} /\ Returns(w, "permanent")
  /\ UNCHANGED <<files, heard>>

Interrupt(w) ==
  /\ phase[w] \in Waiting /\ told[w]
  /\ Returns(w, "none")
  /\ UNCHANGED <<files, heard>>

\* Told to stop, it leaves everything or nothing; on its own it leaves the file, and
\* the store unless the error was a permanent one.
Leave(w) ==
  /\ Enter(w, "returned", "idle")
  /\ told' = [told EXCEPT ![w] = FALSE]
  /\ result' = [result EXCEPT ![w] = "none"]
  /\ \/ UNCHANGED files
     \/ told[w] /\ stored' = FALSE /\ owner' = NoAttempt /\ output' = "none"
     \/ /\ ~told[w] /\ result[w] = "permanent"
        /\ stored' = FALSE /\ UNCHANGED <<owner, output>>
  /\ UNCHANGED <<resumable, heard>>

Stop ==
  /\ told' = [w \in Attempts |-> phase[w] # "idle"]
  /\ stored' \in {stored, FALSE}
  /\ UNCHANGED <<phase, result, resumable, owner, output, heard>>

Crash ==
  /\ phase' = [w \in Attempts |-> "idle"]
  /\ told' = [w \in Attempts |-> FALSE]
  /\ result' = [w \in Attempts |-> "none"]
  /\ UNCHANGED <<resumable, files, heard>>

Attempt(w) ==
  \/ Begin(w) \/ Metadata(w) \/ Key(w) \/ Write(w) \/ Verify(w) \/ Tell(w)
  \/ Acknowledge(w) \/ Error(w) \/ Interrupt(w) \/ Leave(w)

Next == (\E w \in Attempts : Attempt(w)) \/ Stop \/ Crash

Spec == Init /\ [][Next]_vars
=============================================================================
