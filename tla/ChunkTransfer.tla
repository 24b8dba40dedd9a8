---------------------------- MODULE ChunkTransfer ----------------------------
(***************************************************************************)
(* How one download gets its bytes (crates/transfer: download.rs and       *)
(* chunks.rs, driven by execute_download of download_queue.rs).  Chunks    *)
(* are committed, each with the checkpoint that counts them, to a store    *)
(* named after the task; when all are there the key arrives, the chunks    *)
(* are decrypted into the destination, its size is verified and the server *)
(* is told; its acknowledgement lets the store be deleted.  An attempt     *)
(* that ends before that leaves the store for the next one, which asks the *)
(* server for the rest.                                                    *)
(*                                                                         *)
(* Attempts may overlap: one that was told to stop, by a pause and a       *)
(* resume, say, ends only when it next waits for the server, and decrypts  *)
(* to the end first.  A file that is removed while it is open lives on     *)
(* for those who have it open, as POSIX has it.  A chunk is known by its   *)
(* index and by the chunk size it was cut with.                            *)
(***************************************************************************)
EXTENDS Integers, Sequences

CONSTANTS
  Attempts,       \* workers that may be at the task
  NoAttempt,
  FileSize,       \* of a file that is not empty
  MinChunkSize,   \* MIN_DOWNLOAD_CHUNK_SIZE
  MaxChunkSize,   \* MAX_DOWNLOAD_CHUNK_SIZE
  MaxStarts,      \* bound: attempts begun
  MaxCrashes      \* bound: crashes of the process

ASSUME TransferAssumption ==
  /\ NoAttempt \notin Attempts
  /\ FileSize \in Nat \ {0} /\ MinChunkSize \in Nat \ {0} /\ MaxChunkSize \in Nat
  /\ MinChunkSize <= MaxChunkSize
  /\ MaxStarts \in Nat /\ MaxCrashes \in Nat

VARIABLES
  stores,     \* every chunk store created so far
  path,       \* the one that has the task's name, 0 for none
  dest,       \* the destination file
  acked,      \* the server has heard that the download is complete
  at,         \* the attempts: see AttemptType
  resumable,  \* supports_resume of the task
  starts,     \* attempts begun so far
  crashes     \* crashes so far

files == <<stores, path, dest>>
counters == <<resumable, starts, crashes>>
vars == <<files, acked, at, counters>>

-----------------------------------------------------------------------------
(* Arithmetic: sizes and offsets in bytes, chunks counted from 0. *)

Smaller(m, n) == IF m < n THEN m ELSE n

\* file_size.div_ceil(chunk_size)
TotalChunks(size) == (FileSize + size - 1) \div size

\* expected_chunk_length: the last chunk may be shorter.
ChunkLength(size, index) == Smaller(FileSize - index * size, size)

\* Mutant: the offset is not capped at the end of a shorter last chunk.
ResumeOffsetUncapped(size, next) == next * size

\* TransferCheckpoint::resume_offset
ResumeOffset(size, next) == Smaller(next * size, FileSize)

Aligned(offset, size) ==
  /\ offset <= FileSize
  /\ offset = FileSize \/ offset % size = 0

\* Mutant: the end of the file is no exception.
StartChunkFloor(offset, size) == offset \div size

StartChunk(offset, size) ==
  IF offset = FileSize THEN TotalChunks(size) ELSE offset \div size

Clamp(n) == IF n < MinChunkSize THEN MinChunkSize ELSE Smaller(n, MaxChunkSize)

-----------------------------------------------------------------------------
(* The chunk store.  Size 0: there is no checkpoint yet. *)

EmptyStore == [size |-> 0, next |-> 0, rows |-> {}]

Row(index, size) == [index |-> index, cut |-> size]

\* validate_stored_prefix, for a checkpoint of that size at that chunk
ValidPrefix(rows, size, next) ==
  /\ next <= TotalChunks(size)
  /\ {r.index : r \in rows} = 0..(next - 1)
  /\ \A r \in rows : ChunkLength(r.cut, r.index) = ChunkLength(size, r.index)

\* initialize_checkpoint accepts the checkpoint the attempt starts from.
Initializes(s, size, next) ==
  /\ s.size # 0 => s.size = size /\ s.next = next
  /\ ValidPrefix(s.rows, size, next)

\* record_chunk: the chunk and the checkpoint in one transaction
Recorded(s, index) ==
  [s EXCEPT !.next = index + 1, !.rows = @ \union {Row(index, s.size)}]

\* Mutant: a chunk that is there already is replaced.
RecordsAgain(s, index) == index < TotalChunks(s.size)

Records(s, index) ==
  /\ index = s.next /\ index < TotalChunks(s.size)
  /\ \A r \in s.rows : r.index # index

-----------------------------------------------------------------------------
(* The destination: the file that has the name (0 for none; "made" numbers the     *)
(* files), who created it last, which bytes are right and how far it reaches.     *)

NoFile(made) ==
  [file |-> 0, made |-> made, creator |-> NoAttempt, right |-> {}, length |-> 0]

\* File::create truncates the file that is there, or makes one.
Created(w) ==
  LET made == IF dest.file = 0 THEN dest.made + 1 ELSE dest.made
      file == IF dest.file = 0 THEN made ELSE dest.file
  IN [NoFile(made) EXCEPT !.file = file, !.creator = w]

\* Bytes of the file written at a position: right if they belong there.
Written(position, from, n) ==
  LET end == position + n
      span == position..(end - 1)
  IN [dest EXCEPT !.right = IF position = from THEN @ \union span ELSE @ \ span,
                  !.length = IF @ < end THEN end ELSE @]

-----------------------------------------------------------------------------
(* Attempts *)

Idle ==
  [pc |-> "idle", result |-> "none", told |-> FALSE, solo |-> TRUE, offset |-> 0,
   limit |-> 0, size |-> 0, handle |-> 0, next |-> 0, file |-> 0, row |-> 0,
   position |-> 0]

Busy(w) == at[w].pc # "idle"

\* Mutant: decryption is dropped half way, too.
WaitingOrDecrypting == {"request", "ready", "chunks", "decrypt", "complete", "ack"}

\* The points where an attempt waits for the connection, and can be interrupted.
Waiting == {"request", "ready", "chunks", "complete", "ack"}

Goto(w, point) == at' = [at EXCEPT ![w].pc = point]

\* The transfer is over, by itself or dropped: its locals are gone.
Return(w, result) ==
  at' = [at EXCEPT ![w] = [Idle EXCEPT !.pc = "returned", !.result = result,
                                       !.told = at[w].told, !.solo = at[w].solo]]

Init ==
  /\ stores = <<>> /\ path = 0 /\ dest = NoFile(0) /\ acked = FALSE
  /\ at = [w \in Attempts |-> Idle]
  /\ resumable \in BOOLEAN
  /\ starts = 0 /\ crashes = 0

\* The head of execute_download: a valid checkpoint says from where to resume and
\* how large the chunks may be, an invalid one is removed.  The queue starts
\* another attempt only when the ones before it have been told to stop.
Begin(w) ==
  LET s == IF resumable /\ path # 0 THEN stores[path] ELSE EmptyStore
      hint == s.size # 0 /\ ValidPrefix(s.rows, s.size, s.next)
  IN /\ ~Busy(w)
     /\ \A v \in Attempts : Busy(v) => at[v].told
     /\ starts < MaxStarts
     /\ starts' = starts + 1
     /\ path' = IF s.size # 0 /\ ~hint THEN 0 ELSE path
     /\ \E preferred \in MinChunkSize..MaxChunkSize :
          at' = [v \in Attempts |->
                   IF v = w
                   THEN [Idle EXCEPT
                           !.pc = "request",
                           !.solo = \A u \in Attempts : ~Busy(u),
                           !.offset = IF hint THEN ResumeOffset(s.size, s.next) ELSE 0,
                           !.limit = IF hint THEN Clamp(s.size) ELSE preferred]
                   ELSE [at[v] EXCEPT !.solo = @ /\ ~Busy(v)]]
     /\ UNCHANGED <<stores, dest, acked, resumable, crashes>>

\* The server chooses the chunk size; after it has heard of the completion, and
\* whenever it likes, it refuses (see Fails).
Metadata(w) ==
  /\ at[w].pc = "request"
  /\ ~acked
  /\ \E size \in 1..at[w].limit :
       IF at[w].offset = 0 \/ Aligned(at[w].offset, size)
       THEN at' = [at EXCEPT ![w].pc = "ready", ![w].size = size]
       ELSE Return(w, "permanent")
  /\ UNCHANGED <<files, acked, counters>>

\* prepare_chunk_store and ChunkStore::open: an attempt from the start removes the
\* store that is there; one that cannot resume later uses a store of its own.
OpenStore(w) ==
  LET fresh == path = 0 \/ at[w].offset = 0 \/ ~resumable
      opened == IF fresh THEN Len(stores) + 1 ELSE path
  IN /\ at[w].pc = "ready"
     /\ stores' = IF fresh THEN Append(stores, EmptyStore) ELSE stores
     /\ path' = IF resumable THEN opened ELSE path
     /\ at' = [at EXCEPT ![w].pc = "opened", ![w].handle = opened]
     /\ UNCHANGED <<dest, acked, counters>>

InitializeCheckpoint(w) ==
  LET a == at[w]
      start == StartChunk(a.offset, a.size)
  IN /\ a.pc = "opened"
     /\ IF Initializes(stores[a.handle], a.size, start)
        THEN /\ stores' = [stores EXCEPT ![a.handle].size = a.size,
                                         ![a.handle].next = start]
             /\ at' = [at EXCEPT ![w].pc = "chunks", ![w].next = start,
                                  ![w].offset = 0, ![w].limit = 0]
        ELSE Return(w, "permanent") /\ UNCHANGED stores
     /\ UNCHANGED <<path, dest, acked, counters>>

ReceiveChunk(w) ==
  LET a == at[w]
  IN /\ a.pc = "chunks" /\ a.next < TotalChunks(a.size)
     /\ IF Records(stores[a.handle], a.next)
        THEN /\ stores' = [stores EXCEPT ![a.handle] = Recorded(@, a.next)]
             /\ at' = [at EXCEPT ![w].next = @ + 1]
        ELSE Return(w, "permanent") /\ UNCHANGED stores
     /\ UNCHANGED <<path, dest, acked, counters>>

HasAll(a) == a.next >= TotalChunks(a.size)

\* The key arrives and the destination is created.
ReceiveKey(w) ==
  /\ at[w].pc = "chunks" /\ HasAll(at[w])
  /\ dest' = Created(w)
  /\ at' = [at EXCEPT ![w].pc = "decrypt", ![w].file = dest'.file]
  /\ UNCHANGED <<stores, path, acked, counters>>

\* The chunks that are still to be written.
Remaining(w) == {r \in stores[at[w].handle].rows : r.index >= at[w].row}

\* for_each_ordered_chunk: the next chunk is written behind the one before.
DecryptChunk(w) ==
  /\ at[w].pc = "decrypt"
  /\ \E r \in Remaining(w) :
       LET n == ChunkLength(r.cut, r.index) IN
       /\ \A other \in Remaining(w) : r.index <= other.index
       /\ dest' = IF at[w].file = dest.file
                  THEN Written(at[w].position, r.index * r.cut, n) ELSE dest
       /\ at' = [at EXCEPT ![w].row = r.index + 1, ![w].position = @ + n]
  /\ UNCHANGED <<stores, path, acked, counters>>

\* Mutant: what is still to be written is verified too.
DecryptedFirst(w) == at[w].row > 0

Decrypted(w) == Remaining(w) = {}

\* size_matches looks at the file that has the name by then.
SizeMatches == dest.file # 0 /\ dest.length = FileSize

Verify(w) ==
  /\ at[w].pc = "decrypt" /\ Decrypted(w)
  /\ IF SizeMatches THEN Goto(w, "complete") ELSE Return(w, "permanent")
  /\ UNCHANGED <<files, acked, counters>>

SendComplete(w) ==
  /\ at[w].pc = "complete"
  /\ acked' = TRUE
  /\ Goto(w, "ack")
  /\ UNCHANGED <<files, counters>>

\* Mutant: the store goes before the server has answered.
PurgesAt == {"complete", "ack", "purge"}

PurgePoint == {"purge"}

ReceiveCompletion(w) ==
  /\ at[w].pc = "ack"
  /\ Goto(w, "purge")
  /\ UNCHANGED <<files, acked, counters>>

\* purge and cleanup: whatever store has the task's name goes.
Purge(w) ==
  /\ at[w].pc \in PurgePoint
  /\ path' = IF resumable THEN 0 ELSE path
  /\ Return(w, "ok")
  /\ UNCHANGED <<stores, dest, acked, counters>>

\* The connection breaks, the server refuses or sends something unexpected, a
\* chunk does not decrypt, or the disk fails.
Fails(w) ==
  /\ at[w].pc \notin {"idle", "returned"}
  /\ \/ at[w].pc \in Waiting /\ Return(w, "transient")
     \/ Return(w, "permanent")
  /\ UNCHANGED <<files, acked, counters>>

\* The other branch of select!
Interrupt(w) ==
  /\ at[w].pc \in Waiting /\ at[w].told
  /\ Return(w, "none")
  /\ UNCHANGED <<files, acked, counters>>

\* The rest of execute_download.  A task that is paused by now keeps everything;
\* told to stop, the attempt removes file and store otherwise; else a permanent
\* error removes the store, and a transient one keeps it for a retry.
Leave(w) ==
  /\ at[w].pc = "returned"
  /\ \/ at[w].told /\ UNCHANGED <<path, dest>>
     \/ at[w].told /\ path' = 0 /\ dest' = NoFile(dest.made)
     \/ /\ ~at[w].told
        /\ path' \in IF at[w].result = "permanent" THEN {0, path} ELSE {path}
        /\ UNCHANGED dest
  /\ at' = [at EXCEPT ![w] = Idle]
  /\ UNCHANGED <<stores, acked, counters>>

\* pause_task signals the attempt; cancel_task and the commands that delete or
\* clear records remove the store too.
Stop ==
  /\ at' = [w \in Attempts |-> [at[w] EXCEPT !.told = Busy(w)]]
  /\ path' \in {path, 0}
  /\ UNCHANGED <<stores, dest, acked, counters>>

\* The process dies: what was committed is durable, and nobody is at the task.
Crash ==
  /\ crashes < MaxCrashes
  /\ crashes' = crashes + 1
  /\ at' = [w \in Attempts |-> Idle]
  /\ UNCHANGED <<files, acked, resumable, starts>>

Advance(w) ==
  \/ Begin(w) \/ Metadata(w) \/ OpenStore(w) \/ InitializeCheckpoint(w)
  \/ ReceiveChunk(w) \/ ReceiveKey(w) \/ DecryptChunk(w) \/ Verify(w)
  \/ SendComplete(w) \/ ReceiveCompletion(w) \/ Purge(w)
  \/ Fails(w) \/ Interrupt(w) \/ Leave(w)

Next == (\E w \in Attempts : Advance(w)) \/ Stop \/ Crash

Spec == Init /\ [][Next]_vars

-----------------------------------------------------------------------------
(* Properties *)

Rows == [index : Nat, cut : Nat]

AttemptType ==
  [pc : Waiting \union {"idle", "opened", "decrypt", "purge", "returned"},
   result : {"none", "ok", "transient", "permanent"}, told : BOOLEAN, solo : BOOLEAN,
   offset : 0..FileSize, limit : 0..MaxChunkSize, size : 0..MaxChunkSize, handle : Nat,
   next : 0..FileSize, file : Nat, row : 0..FileSize, position : 0..FileSize]

\* Every variable has its type; an offset, a chunk number and a position in the
\* destination stay within the file.
TypeOK ==
  /\ stores \in Seq([size : Nat, next : Nat, rows : SUBSET Rows])
  /\ path \in 0..Len(stores)
  /\ dest \in [file : Nat, made : Nat, creator : Attempts \union {NoAttempt},
               right : SUBSET (0..(FileSize - 1)), length : 0..FileSize]
  /\ acked \in BOOLEAN
  /\ at \in [Attempts -> AttemptType]
  /\ \A w \in Attempts : at[w].handle <= Len(stores)
  /\ resumable \in BOOLEAN
  /\ starts \in 0..MaxStarts /\ crashes \in 0..MaxCrashes

\* A chunk store, the one a crash leaves included, holds exactly the chunks its
\* checkpoint counts, all cut with its chunk size, whoever else was writing to it.
StoreIsPrefix ==
  \A i \in 1..Len(stores) :
    LET s == stores[i] IN
    /\ s.rows = {Row(k, s.size) : k \in 0..(s.next - 1)}
    /\ s.size # 0 => s.next <= TotalChunks(s.size)

\* An attempt decrypts only what is complete, its own store with every chunk of the
\* file, cut with one chunk size; and the server hears of the completion from an
\* attempt whose destination holds every byte - unless another attempt has created
\* it anew meanwhile.
CompletedIsWhole ==
  \A w \in Attempts :
    /\ at[w].pc = "decrypt" =>
         LET s == stores[at[w].handle] IN
         s.size # 0 /\ s.rows = {Row(k, s.size) : k \in 0..(TotalChunks(s.size) - 1)}
    /\ at[w].pc \in {"complete", "ack", "purge"} /\ dest.creator = w =>
      dest.right = 0..(FileSize - 1) /\ dest.length = FileSize

\* An attempt that is alone and resumes at the chunk size it finds is never
\* refused by its own checks: the offset it asks for leads back to the chunk its
\* store ends with, at the end of the file too.
ResumeIsAccepted ==
  \A w \in Attempts :
    LET a == at[w]
        s == stores[path]
    IN a.solo /\ ~a.told /\ a.offset > 0 /\ a.pc \in {"request", "ready", "opened"} =>
         /\ path # 0
         /\ Aligned(a.offset, s.size)
         /\ StartChunk(a.offset, s.size) = s.next
         /\ a.pc = "opened" /\ a.size = s.size => Initializes(s, a.size, s.next)

HasChunks == path # 0 /\ stores[path].next > 0

\* An attempt that is alone and not told to stop gives up chunks that were stored
\* only when the server has heard of the completion, or on a permanent error.
ChunksAreKept ==
  [][\A w \in Attempts :
       /\ at'[w] # at[w]
       /\ at[w].solo /\ at'[w].solo /\ ~at[w].told /\ ~at'[w].told
       /\ HasChunks /\ path' # path
       => acked \/ at[w].result = "permanent"]_vars

\* The phases the queue knows.
Phase(a) ==
  CASE a.pc \in {"request", "ready"} -> "request"
    [] a.pc \in {"opened", "chunks"} -> "chunks"
    [] a.pc \in {"complete", "ack", "purge"} -> "ack"
    [] a.pc \in {"idle", "decrypt", "returned"} -> a.pc

PhasesSeen == [w \in Attempts |-> Phase(at[w])]
ToldSeen == [w \in Attempts |-> at[w].told]
ResultsSeen == [w \in Attempts |-> at[w].result]

OutputSeen ==
  IF dest.file = 0 THEN "none"
  ELSE IF dest.right = 0..(FileSize - 1) /\ dest.length = FileSize THEN "complete"
  ELSE "partial"

Contract == INSTANCE TransferContract WITH
  phase <- PhasesSeen, told <- ToldSeen, result <- ResultsSeen,
  stored <- (path # 0), owner <- dest.creator, output <- OutputSeen, heard <- acked

\* The queue, which sees phases and outcomes, is never surprised: whatever chunks,
\* sizes, resumptions, overlaps and crashes do, a transfer touches no store before
\* the server has answered, is dropped only where it waits, has the file whole
\* before the server hears so, and gives the store up only then.
ImplementsContract == Contract!Spec
=============================================================================
