------------------------- MODULE ChunkTransfer_proofs -------------------------
(***************************************************************************)
(* Theorems about the transfer of one download, for any file size, any     *)
(* bounds on the chunk size, any set of attempts and any number of starts  *)
(* and crashes.                                                            *)
(***************************************************************************)
EXTENDS ChunkTransfer, TLAPS

-----------------------------------------------------------------------------
(* Arithmetic of sizes and offsets *)

\* A file of a positive size has a chunk, and a chunk begins inside the file.
LEMMA ChunksFit ==
  ASSUME NEW size \in Nat \ {0}
  PROVE  /\ TotalChunks(size) \in 1..FileSize
         /\ \A k \in Nat : k < TotalChunks(size) <=> k * size < FileSize
<1>1. /\ TotalChunks(size) \in Nat
      /\ \A k \in Nat : k < TotalChunks(size) <=> k * size < FileSize
  BY TransferAssumption DEF TotalChunks
<1>2. 0 < TotalChunks(size)
  BY <1>1, TransferAssumption
<1>3. FileSize * size >= FileSize
  BY TransferAssumption
<1>4. ~(FileSize < TotalChunks(size))
  BY <1>1, <1>3, TransferAssumption
<1> QED BY <1>1, <1>2, <1>4, TransferAssumption

\* Chunk k lies between the offsets of k and of k + 1.
LEMMA ChunkSpan ==
  ASSUME NEW size \in Nat \ {0}, NEW k \in Nat
  PROVE  /\ ResumeOffset(size, k) \in 0..FileSize
         /\ k >= TotalChunks(size) => ResumeOffset(size, k) = FileSize
         /\ k < TotalChunks(size) =>
              /\ ResumeOffset(size, k) = k * size
              /\ ChunkLength(size, k) \in 1..FileSize
              /\ ResumeOffset(size, k + 1) = k * size + ChunkLength(size, k)
<1>1. k * size \in Nat /\ FileSize \in Nat \ {0}
  BY TransferAssumption
<1>2. (k + 1) * size = k * size + size
  OBVIOUS
<1>3. k < TotalChunks(size) <=> k * size < FileSize
  BY ChunksFit
<1>4. TotalChunks(size) \in Nat
  BY ChunksFit
<1> QED BY <1>1, <1>2, <1>3, <1>4 DEF ResumeOffset, ChunkLength, Smaller

\* The offset of a checkpoint leads back to the chunk after the stored ones.
LEMMA OffsetLeadsBack ==
  ASSUME NEW size \in Nat \ {0}, NEW k \in Nat, k <= TotalChunks(size)
  PROVE  /\ StartChunk(ResumeOffset(size, k), size) = k
         /\ Aligned(ResumeOffset(size, k), size)
         /\ k > 0 => ResumeOffset(size, k) > 0
<1>1. TotalChunks(size) \in 1..FileSize
  BY ChunksFit
<1>2. CASE k = TotalChunks(size)
  BY <1>1, <1>2, ChunkSpan, TransferAssumption DEF StartChunk, Aligned
<1>3. CASE k < TotalChunks(size)
  <2>1. ResumeOffset(size, k) = k * size /\ k * size < FileSize /\ k * size \in Nat
    BY <1>3, ChunkSpan, ChunksFit
  <2>2. (k * size) \div size = k /\ (k * size) % size = 0
    OBVIOUS
  <2>3. k > 0 => k * size > 0
    OBVIOUS
  <2> QED BY <2>1, <2>2, <2>3, TransferAssumption DEF StartChunk, Aligned
<1> QED BY <1>1, <1>2, <1>3

\* An offset of an attempt leads to a chunk of the file, or to its end.
LEMMA StartIsInFile ==
  ASSUME NEW size \in Nat \ {0}, NEW offset \in 0..FileSize
  PROVE  StartChunk(offset, size) \in 0..TotalChunks(size)
<1>1. CASE offset = FileSize
  BY <1>1, ChunksFit DEF StartChunk
<1>2. CASE offset < FileSize
  <2>1. offset \div size \in Nat /\ (offset \div size) * size <= offset
    OBVIOUS
  <2>2. (offset \div size) * size < FileSize
    BY <1>2, <2>1, TransferAssumption
  <2>3. offset \div size < TotalChunks(size)
    BY <2>1, <2>2, ChunksFit
  <2> QED BY <1>2, <2>1, <2>3, ChunksFit, TransferAssumption DEF StartChunk
<1> QED BY <1>1, <1>2, TransferAssumption
-----------------------------------------------------------------------------
(* The inductive invariant *)

IsPrefix(s) ==
  /\ s.rows = {Row(k, s.size) : k \in 0..(s.next - 1)}
  /\ s.size = 0 => s.next = 0
  /\ s.size # 0 => s.next <= TotalChunks(s.size)

StoresInv == \A i \in 1..Len(stores) : IsPrefix(stores[i])

\* Attempt a among stores ss: its store is cut as it expects and holds what it has
\* received; when it decrypts, everything is there and the chunks before its row
\* have been written.
AttemptOk(a, ss) ==
  /\ a.pc \in {"request", "ready", "opened", "chunks", "decrypt"} =>
       a.pc = "request" \/ a.size # 0
  /\ a.pc \in {"opened", "chunks", "decrypt"} => a.handle \in 1..Len(ss)
  /\ a.pc \in {"chunks", "decrypt"} =>
       ss[a.handle].size = a.size /\ a.next <= ss[a.handle].next
  /\ a.pc = "decrypt" =>
       /\ ss[a.handle].next = TotalChunks(a.size)
       /\ a.row <= TotalChunks(a.size)
       /\ a.position = ResumeOffset(a.size, a.row)
  /\ a.pc \in {"request", "ready", "opened", "chunks"} => a.row = 0 /\ a.position = 0

\* Attempt a of w and the file d: while w is the one who created the file last, all
\* it has written is right, and it has written everything before it says so.
FileOk(a, w, d) ==
  d.creator = w =>
    /\ a.pc = "decrypt" =>
         /\ a.file = d.file /\ d.file # 0
         /\ 0..(a.position - 1) \subseteq d.right /\ a.position <= d.length
    /\ a.pc \in {"complete", "ack", "purge"} =>
         d.right = 0..(FileSize - 1) /\ d.length = FileSize

\* An undisturbed attempt a finds the store it has read, and resumes at its end.
Undisturbed(a) == a.solo /\ ~a.told /\ a.pc \in {"request", "ready", "opened"}

SoloOk(a, p, ss) ==
  /\ Undisturbed(a) /\ a.offset > 0 =>
       /\ resumable /\ p # 0 /\ ss[p].size # 0
       /\ a.offset = ResumeOffset(ss[p].size, ss[p].next)
       /\ a.pc = "opened" => a.handle = p
  /\ Undisturbed(a) /\ a.pc # "opened" /\ a.offset = 0 /\ resumable =>
       p = 0 \/ ss[p].next = 0

AttemptInv(w) ==
  /\ AttemptOk(at[w], stores)
  /\ FileOk(at[w], w, dest)
  /\ SoloOk(at[w], path, stores)
  /\ at[w].pc \in {"ack", "purge"} => acked
  /\ at[w].pc = "returned" /\ ~at[w].told => at[w].result # "none"
  /\ Busy(w) /\ at[w].solo => \A v \in Attempts \ {w} : ~Busy(v)

AttemptsInv == \A w \in Attempts : AttemptInv(w)

IInv == TypeOK /\ StoresInv /\ AttemptsInv

\* The elements of a sequence.
LEMMA Elements ==
  ASSUME NEW S, NEW s \in Seq(S)
  PROVE  Len(s) \in Nat /\ \A i \in 1..Len(s) : s[i] \in S
OBVIOUS

Store == [size : Nat, next : Nat, rows : SUBSET Rows]

LEMMA StoresTyped ==
  TypeOK => Len(stores) \in Nat /\ \A i \in 1..Len(stores) : stores[i] \in Store
BY Elements DEF TypeOK, Store

\* Types of the parts of the state that the steps change.
LEMMA IdleTyped == Idle \in AttemptType /\ Idle.handle = 0
BY TransferAssumption DEF Idle, AttemptType, Waiting

LEMMA ReturnTyped ==
  ASSUME TypeOK, NEW w \in Attempts, NEW result \in {"none", "ok", "transient", "permanent"},
         Return(w, result)
  PROVE  /\ at' \in [Attempts -> AttemptType]
         /\ \A v \in Attempts : at'[v].handle <= Len(stores)
         /\ \A v \in Attempts \ {w} : at'[v] = at[v]
         /\ at'[w].pc = "returned" /\ at'[w].result = result
         /\ at'[w].told = at[w].told /\ at'[w].solo = at[w].solo
<1> DEFINE a == [Idle EXCEPT !.pc = "returned", !.result = result,
                             !.told = at[w].told, !.solo = at[w].solo]
<1>1. at \in [Attempts -> AttemptType] /\ at' = [at EXCEPT ![w] = a]
  BY DEF TypeOK, Return
<1>2. a \in AttemptType /\ a.handle = 0 /\ a.pc = "returned" /\ a.result = result
      /\ a.told = at[w].told /\ a.solo = at[w].solo
  <2>1. at[w].told \in BOOLEAN /\ at[w].solo \in BOOLEAN
    BY <1>1 DEF AttemptType
  <2>2. 0 \in 0..FileSize /\ 0 \in 0..MaxChunkSize /\ 0 \in Nat
    BY TransferAssumption
  <2> QED BY <2>1, <2>2 DEF Idle, AttemptType, Waiting
<1>3. Len(stores) \in Nat /\ \A v \in Attempts : at[v].handle <= Len(stores)
  BY StoresTyped DEF TypeOK
<1> HIDE DEF a
<1> QED BY <1>1, <1>2, <1>3

\* The initial states.
LEMMA InitOk == Init => IInv
<1> SUFFICES ASSUME Init PROVE IInv
  OBVIOUS
<1>1. TypeOK
  <2>1. stores \in Seq([size : Nat, next : Nat, rows : SUBSET Rows]) /\ Len(stores) = 0
    BY DEF Init
  <2>2. dest \in [file : Nat, made : Nat, creator : Attempts \union {NoAttempt},
                  right : SUBSET (0..(FileSize - 1)), length : 0..FileSize]
    BY TransferAssumption DEF Init, NoFile
  <2>3. at \in [Attempts -> AttemptType] /\ \A w \in Attempts : at[w].handle = 0
    BY IdleTyped DEF Init
  <2>4. path = 0 /\ starts \in 0..MaxStarts /\ crashes \in 0..MaxCrashes
    BY TransferAssumption DEF Init
  <2>5. acked \in BOOLEAN /\ resumable \in BOOLEAN
    BY DEF Init
  <2> HIDE DEF Init
  <2> QED BY <2>1, <2>2, <2>3, <2>4, <2>5 DEF TypeOK
<1>2. StoresInv
  BY DEF Init, StoresInv
<1>3. AttemptsInv
  BY DEF Init, AttemptsInv, AttemptInv, AttemptOk, FileOk, SoloOk, Undisturbed, Busy, Idle
<1> QED BY <1>1, <1>2, <1>3 DEF IInv

\* A step of attempt w, when stores only grow and the file changes for the better
\* or is another attempt's: what holds of the other attempts goes on to hold.
StoresGrow ==
  /\ Len(stores) <= Len(stores')
  /\ \A i \in 1..Len(stores) :
       /\ stores[i].size # 0 => stores'[i].size = stores[i].size
       /\ stores[i].next <= stores'[i].next

FileGrows(w) ==
  \/ dest'.creator \in {w, NoAttempt}
  \/ /\ dest'.creator = dest.creator /\ dest'.file = dest.file
     /\ dest.right \subseteq dest'.right /\ dest.length <= dest'.length

LEMMA OthersOk ==
  ASSUME IInv, TypeOK', StoresInv', NEW w \in Attempts, Busy(w),
         \A v \in Attempts \ {w} : at'[v] = at[v],
         StoresGrow, FileGrows(w), acked => acked'
  PROVE  \A v \in Attempts \ {w} : AttemptInv(v)'
<1> SUFFICES ASSUME NEW v \in Attempts \ {w} PROVE AttemptInv(v)'
  OBVIOUS
<1>1. AttemptInv(v) /\ at'[v] = at[v] /\ at[v] \in AttemptType
  BY DEF IInv, AttemptsInv, TypeOK
<1>2. Busy(v) => ~at[v].solo
  BY <1>1 DEF AttemptInv
<1>3. AttemptOk(at[v], stores)'
  <2>1. \A i \in 1..Len(stores') : stores'[i] \in Store
    <3>1. stores' \in Seq(Store)
      BY DEF TypeOK, Store
    <3> QED BY <3>1, Elements
  <2>2. \A i \in 1..Len(stores) : stores[i] \in Store
    BY StoresTyped DEF IInv
  <2>3. at[v].pc \in {"opened", "chunks", "decrypt"} =>
          /\ at[v].handle \in 1..Len(stores) /\ at[v].handle \in 1..Len(stores')
          /\ at[v].size # 0
    <3>1. Len(stores) \in Nat /\ Len(stores') \in Nat
      BY StoresTyped DEF IInv, TypeOK
    <3> QED BY <1>1, <3>1 DEF AttemptInv, AttemptOk, StoresGrow
  <2>4. at[v].pc \in {"chunks", "decrypt"} =>
          /\ stores'[at[v].handle].size = at[v].size
          /\ at[v].next <= stores'[at[v].handle].next
    BY <1>1, <2>1, <2>2, <2>3 DEF AttemptInv, AttemptOk, StoresGrow, AttemptType, Store
  <2>5. at[v].pc = "decrypt" => stores'[at[v].handle].next = TotalChunks(at[v].size)
    <3>1. SUFFICES ASSUME at[v].pc = "decrypt"
                   PROVE  stores'[at[v].handle].next = TotalChunks(at[v].size)
      OBVIOUS
    <3>2. stores'[at[v].handle].next <= TotalChunks(at[v].size)
      BY <3>1, <2>3, <2>4 DEF StoresInv, IsPrefix
    <3>3. stores[at[v].handle].next = TotalChunks(at[v].size)
      BY <3>1, <1>1 DEF AttemptInv, AttemptOk
    <3>4. stores[at[v].handle].next <= stores'[at[v].handle].next
      BY <3>1, <2>3 DEF StoresGrow
    <3>5. stores[at[v].handle].next \in Nat /\ stores'[at[v].handle].next \in Nat
      BY <3>1, <2>1, <2>2, <2>3 DEF Store
    <3> QED BY <3>2, <3>3, <3>4, <3>5
  <2> QED BY <1>1, <2>3, <2>4, <2>5 DEF AttemptInv, AttemptOk
<1>4. FileOk(at[v], v, dest)'
  <2>1. SUFFICES ASSUME dest'.creator = v PROVE FileOk(at[v], v, dest)'
    BY <1>1 DEF FileOk
  <2>2. /\ dest.creator = v /\ dest'.file = dest.file
        /\ dest.right \subseteq dest'.right /\ dest.length <= dest'.length
    BY <2>1, TransferAssumption DEF FileGrows
  <2>3. /\ dest.length \in 0..FileSize /\ dest'.length \in 0..FileSize
        /\ dest'.right \subseteq 0..(FileSize - 1) /\ at[v].position \in 0..FileSize
    BY <1>1 DEF IInv, TypeOK, AttemptType
  <2>4. FileOk(at[v], v, dest)
    BY <1>1 DEF AttemptInv
  <2>5. CASE at[v].pc = "decrypt"
    BY <1>1, <2>2, <2>3, <2>4, <2>5 DEF FileOk
  <2>6. CASE at[v].pc \in {"complete", "ack", "purge"}
    <3>1. dest.right = 0..(FileSize - 1) /\ dest.length = FileSize
      BY <2>2, <2>4, <2>6 DEF FileOk
    <3>2. dest'.right = 0..(FileSize - 1) /\ dest'.length = FileSize
      <4>1. dest'.right = 0..(FileSize - 1)
        BY <3>1, <2>2, <2>3
      <4>2. dest'.length = FileSize
        BY <3>1, <2>2, <2>3, TransferAssumption
      <4> QED BY <4>1, <4>2
    <3> QED BY <1>1, <3>2, <2>6 DEF FileOk
  <2> QED BY <1>1, <2>5, <2>6 DEF FileOk
<1>5. SoloOk(at[v], path, stores)'
  BY <1>1, <1>2 DEF SoloOk, Undisturbed, Busy
<1> QED BY <1>1, <1>2, <1>3, <1>4, <1>5 DEF AttemptInv, Busy

LEMMA StepOk ==
  ASSUME IInv, TypeOK', StoresInv', NEW w \in Attempts, Busy(w),
         \A v \in Attempts \ {w} : at'[v] = at[v],
         StoresGrow, FileGrows(w), acked => acked',
         at'[w].solo => at[w].solo,
         AttemptOk(at[w], stores)', FileOk(at[w], w, dest)', SoloOk(at[w], path, stores)',
         at'[w].pc \in {"ack", "purge"} => acked',
         at'[w].pc = "returned" /\ ~at'[w].told => at'[w].result # "none"
  PROVE  IInv'
<1>1. \A v \in Attempts \ {w} : AttemptInv(v)'
  BY OthersOk
<1>2. AttemptInv(w)'
  BY DEF AttemptInv, IInv, AttemptsInv, Busy
<1> QED BY <1>1, <1>2 DEF IInv, AttemptsInv

\* Returning takes an attempt out of every condition.
LEMMA ReturnOk ==
  ASSUME IInv, NEW w \in Attempts, Busy(w),
         NEW result \in {"none", "ok", "transient", "permanent"}, Return(w, result),
         result = "none" => at[w].told,
         UNCHANGED <<stores, dest, resumable, starts, crashes>>, path' \in {path, 0},
         acked' = acked
  PROVE  IInv'
<1>1. /\ at' \in [Attempts -> AttemptType]
      /\ \A v \in Attempts : at'[v].handle <= Len(stores)
      /\ \A v \in Attempts \ {w} : at'[v] = at[v]
      /\ at'[w].pc = "returned" /\ at'[w].result = result
      /\ at'[w].told = at[w].told /\ at'[w].solo = at[w].solo
  BY ReturnTyped DEF IInv
<1>2. TypeOK' /\ StoresInv'
  BY <1>1 DEF IInv, TypeOK, StoresInv, IsPrefix
<1>3. StoresGrow /\ FileGrows(w)
  <2>1. Len(stores) \in Nat /\ dest.length \in Nat
         /\ \A i \in 1..Len(stores) : stores[i].next \in Nat
    BY StoresTyped, TransferAssumption DEF IInv, TypeOK, Store
  <2> QED BY <2>1 DEF StoresGrow, FileGrows
<1>4. AttemptOk(at[w], stores)' /\ FileOk(at[w], w, dest)' /\ SoloOk(at[w], path, stores)'
  BY <1>1 DEF AttemptOk, FileOk, SoloOk, Undisturbed
<1> QED BY <1>1, <1>2, <1>3, <1>4, StepOk

-----------------------------------------------------------------------------
(* The steps of an attempt *)

\* A step that leaves the stores, the file and who is the file's alone.
LEMMA LocalStep ==
  ASSUME IInv, NEW w \in Attempts, Busy(w), at' = [at EXCEPT ![w] = at'[w]],
         at'[w] \in AttemptType, at'[w].handle = at[w].handle, at'[w].solo = at[w].solo,
         UNCHANGED <<stores, path, dest, counters>>,
         acked' \in BOOLEAN, acked => acked',
         AttemptOk(at[w], stores)', FileOk(at[w], w, dest)', SoloOk(at[w], path, stores)',
         at'[w].pc \in {"ack", "purge"} => acked', at'[w].pc # "returned"
  PROVE  IInv'
<1>1. \A v \in Attempts \ {w} : at'[v] = at[v]
  BY DEF IInv, TypeOK
<1>2. at' \in [Attempts -> AttemptType] /\ \A v \in Attempts : at'[v].handle <= Len(stores)
  BY <1>1 DEF IInv, TypeOK
<1>3. TypeOK'
  BY <1>2 DEF IInv, TypeOK, counters
<1>4. StoresInv'
  BY DEF IInv, StoresInv, IsPrefix
<1>5. StoresGrow /\ FileGrows(w)
  <2>1. Len(stores) \in Nat /\ dest.length \in Nat
         /\ \A i \in 1..Len(stores) : stores[i].next \in Nat
    BY StoresTyped, TransferAssumption DEF IInv, TypeOK, Store
  <2> QED BY <2>1 DEF StoresGrow, FileGrows
<1> QED BY <1>1, <1>3, <1>4, <1>5, StepOk

LEMMA AttemptTyped ==
  ASSUME IInv, NEW w \in Attempts
  PROVE  /\ at[w] \in AttemptType /\ at[w].handle <= Len(stores)
         /\ AttemptInv(w)
BY DEF IInv, TypeOK, AttemptsInv

LEMMA MetadataOk ==
  ASSUME IInv, NEW w \in Attempts, Metadata(w) PROVE IInv'
<1>1. PICK size \in 1..at[w].limit :
        IF at[w].offset = 0 \/ Aligned(at[w].offset, size)
        THEN at' = [at EXCEPT ![w].pc = "ready", ![w].size = size]
        ELSE Return(w, "permanent")
  BY DEF Metadata
<1>2. /\ at[w].pc = "request" /\ Busy(w)
      /\ UNCHANGED <<stores, path, dest, acked, resumable, starts, crashes>>
  BY DEF Metadata, files, counters, Busy
<1>3. CASE at' = [at EXCEPT ![w].pc = "ready", ![w].size = size]
  <2> DEFINE a == [at[w] EXCEPT !.pc = "ready", !.size = size]
  <2>1. at' = [at EXCEPT ![w] = a]
    BY <1>3
  <2>2. at[w] \in AttemptType /\ AttemptInv(w)
    BY AttemptTyped
  <2>3. size \in 0..MaxChunkSize /\ size # 0
    BY <2>2, TransferAssumption DEF AttemptType
  <2>4. at'[w] = a
    BY <2>1 DEF IInv, TypeOK
  <2>5. a \in AttemptType
    BY <2>2, <2>3 DEF AttemptType, Waiting
  <2>6. /\ a.handle = at[w].handle /\ a.solo = at[w].solo /\ a.pc = "ready"
        /\ a.told = at[w].told /\ a.offset = at[w].offset /\ a.size = size
        /\ a.row = at[w].row /\ a.position = at[w].position
    BY <2>2 DEF AttemptType
  <2> HIDE DEF a
  <2>7. AttemptOk(at[w], stores)' /\ FileOk(at[w], w, dest)'
    BY <1>2, <2>2, <2>3, <2>4, <2>6 DEF AttemptInv, AttemptOk, FileOk
  <2>8. SoloOk(at[w], path, stores)'
    BY <1>2, <2>2, <2>4, <2>6 DEF AttemptInv, SoloOk, Undisturbed
  <2>9. acked' \in BOOLEAN /\ (acked => acked') /\ UNCHANGED <<stores, path, dest, counters>>
    BY <1>2 DEF IInv, TypeOK, counters
  <2> QED BY <1>2, <2>1, <2>4, <2>5, <2>6, <2>7, <2>8, <2>9, LocalStep
<1>4. CASE Return(w, "permanent")
  BY <1>2, <1>4, ReturnOk
<1> QED BY <1>1, <1>3, <1>4

LEMMA VerifyOk ==
  ASSUME IInv, NEW w \in Attempts, Verify(w) PROVE IInv'
<1>1. /\ at[w].pc = "decrypt" /\ Busy(w) /\ Decrypted(w)
      /\ UNCHANGED <<stores, path, dest, acked, resumable, starts, crashes>>
  BY DEF Verify, files, counters, Busy
<1>2. CASE SizeMatches /\ Goto(w, "complete")
  <2> DEFINE a == [at[w] EXCEPT !.pc = "complete"]
             s == stores[at[w].handle]
  <2>1. at' = [at EXCEPT ![w] = a]
    BY <1>2 DEF Goto
  <2>2. at[w] \in AttemptType /\ at[w].handle <= Len(stores) /\ AttemptInv(w)
    BY AttemptTyped
  <2>3. at'[w] = a
    BY <2>1 DEF IInv, TypeOK
  <2>4. a \in AttemptType
    BY <2>2 DEF AttemptType, Waiting
  <2>5. dest.creator = w => dest.right = 0..(FileSize - 1) /\ dest.length = FileSize
    <3>1. /\ s.size = at[w].size /\ at[w].size \in Nat \ {0}
          /\ s.next = TotalChunks(at[w].size) /\ IsPrefix(s)
          /\ at[w].row \in Nat /\ at[w].row <= TotalChunks(at[w].size)
          /\ at[w].position = ResumeOffset(at[w].size, at[w].row)
      BY <1>1, <2>2, TransferAssumption
         DEF AttemptInv, AttemptOk, AttemptType, IInv, StoresInv
    <3>2. at[w].row = TotalChunks(at[w].size)
      <4>1. TotalChunks(at[w].size) \in Nat
        BY <3>1, ChunksFit
      <4>2. SUFFICES ASSUME at[w].row < TotalChunks(at[w].size) PROVE FALSE
        BY <3>1, <4>1
      <4>3. Row(at[w].row, s.size) \in s.rows
        BY <3>1, <4>1, <4>2 DEF IsPrefix
      <4>4. Row(at[w].row, s.size).index = at[w].row
        BY DEF Row
      <4> QED BY <1>1, <3>1, <4>3, <4>4 DEF Decrypted, Remaining
    <3>3. at[w].position = FileSize
      BY <3>1, <3>2, ChunkSpan
    <3>4. dest.right \subseteq 0..(FileSize - 1) /\ dest.length \in 0..FileSize
      BY DEF IInv, TypeOK
    <3>5. dest.creator = w => 0..(FileSize - 1) \subseteq dest.right
      BY <1>1, <2>2, <3>3 DEF AttemptInv, FileOk
    <3> QED BY <1>2, <3>4, <3>5 DEF SizeMatches
  <2>6. a.handle = at[w].handle /\ a.solo = at[w].solo /\ a.pc = "complete"
    BY <2>2 DEF AttemptType
  <2> HIDE DEF a
  <2>7. /\ AttemptOk(at[w], stores)' /\ FileOk(at[w], w, dest)'
        /\ SoloOk(at[w], path, stores)'
    BY <1>1, <2>3, <2>5, <2>6 DEF AttemptOk, FileOk, SoloOk, Undisturbed
  <2>8. acked' \in BOOLEAN /\ (acked => acked') /\ UNCHANGED <<stores, path, dest, counters>>
    BY <1>1 DEF IInv, TypeOK, counters
  <2> QED BY <1>1, <2>1, <2>3, <2>4, <2>6, <2>7, <2>8, LocalStep
<1>3. CASE Return(w, "permanent")
  BY <1>1, <1>3, ReturnOk
<1> QED BY <1>2, <1>3 DEF Verify

\* Telling the server, and hearing from it.
LEMMA CompletionOk ==
  ASSUME IInv, NEW w \in Attempts, SendComplete(w) \/ ReceiveCompletion(w) PROVE IInv'
<1>1. PICK point \in {"ack", "purge"} :
        /\ Goto(w, point) /\ acked'
        /\ at[w].pc \in {"complete", "ack"} /\ Busy(w)
        /\ UNCHANGED <<stores, path, dest, resumable, starts, crashes>>
  BY DEF SendComplete, ReceiveCompletion, files, counters, Busy, IInv, AttemptsInv, AttemptInv
<1> DEFINE a == [at[w] EXCEPT !.pc = point]
<1>2. at' = [at EXCEPT ![w] = a]
  BY <1>1 DEF Goto
<1>3. at[w] \in AttemptType /\ AttemptInv(w)
  BY AttemptTyped
<1>4. a \in AttemptType /\ a.pc = point /\ a.handle = at[w].handle /\ a.solo = at[w].solo
  BY <1>3 DEF AttemptType, Waiting
<1>5. at'[w] = a
  BY <1>2 DEF IInv, TypeOK
<1> HIDE DEF a
<1>6. AttemptOk(at[w], stores)' /\ FileOk(at[w], w, dest)' /\ SoloOk(at[w], path, stores)'
  BY <1>1, <1>3, <1>4, <1>5 DEF AttemptInv, AttemptOk, FileOk, SoloOk, Undisturbed
<1>7. acked' \in BOOLEAN
  BY DEF SendComplete, ReceiveCompletion, IInv, TypeOK
<1>8. UNCHANGED <<stores, path, dest, counters>> /\ Busy(w) /\ (acked => acked')
  BY <1>1 DEF counters
<1>9. (at'[w].pc \in {"ack", "purge"} => acked') /\ at'[w].pc # "returned"
  BY <1>1, <1>4, <1>5
<1> QED BY <1>2, <1>4, <1>5, <1>6, <1>7, <1>8, <1>9, LocalStep

\* The steps that end in a return.
LEMMA ReturnsOk ==
  ASSUME IInv, NEW w \in Attempts, Purge(w) \/ Fails(w) \/ Interrupt(w) PROVE IInv'
<1>1. /\ Busy(w) /\ path' \in {path, 0}
      /\ UNCHANGED <<stores, dest, acked, resumable, starts, crashes>>
  BY DEF Purge, Fails, Interrupt, PurgePoint, Waiting, files, counters, Busy
<1>2. \E result \in {"none", "ok", "transient", "permanent"} :
        Return(w, result) /\ (result = "none" => at[w].told)
  BY DEF Purge, Fails, Interrupt
<1> QED BY <1>1, <1>2, ReturnOk

\* One store changes for the better.
LEMMA StoreStep ==
  ASSUME IInv, NEW i \in 1..Len(stores), NEW s \in Store, stores' = [stores EXCEPT ![i] = s],
         IsPrefix(s), stores[i].size # 0 => s.size = stores[i].size,
         stores[i].next <= s.next
  PROVE  /\ stores' \in Seq([size : Nat, next : Nat, rows : SUBSET Rows])
         /\ Len(stores') = Len(stores) /\ stores'[i] = s
         /\ StoresInv' /\ StoresGrow
<1>1. stores \in Seq(Store) /\ Len(stores) \in Nat
      /\ \A j \in 1..Len(stores) : stores[j].next \in Nat
  BY StoresTyped DEF IInv, TypeOK, Store
<1>2. /\ stores' \in Seq(Store) /\ Len(stores') = Len(stores) /\ stores'[i] = s
      /\ \A j \in 1..Len(stores) : j # i => stores'[j] = stores[j]
  BY <1>1
<1>3. \A j \in 1..Len(stores') : IsPrefix(stores'[j])
  BY <1>2 DEF IInv, StoresInv
<1>4. StoresInv'
  BY <1>3 DEF StoresInv, IsPrefix
<1>5. StoresGrow
  BY <1>1, <1>2 DEF StoresGrow
<1> QED BY <1>2, <1>4, <1>5 DEF Store

LEMMA FileSame == ASSUME IInv, NEW w \in Attempts, dest' = dest PROVE FileGrows(w)
<1>1. dest.length \in Nat
  BY TransferAssumption DEF IInv, TypeOK
<1> QED BY <1>1 DEF FileGrows

\* What a store records.
LEMMA RecordedIs ==
  ASSUME NEW s \in Store, NEW k \in Nat
  PROVE  /\ Recorded(s, k) \in Store
         /\ Recorded(s, k).size = s.size /\ Recorded(s, k).next = k + 1
         /\ Recorded(s, k).rows = s.rows \union {Row(k, s.size)}
<1> DEFINE rows == s.rows \union {Row(k, s.size)}
<1>1. rows \in SUBSET Rows /\ k + 1 \in Nat
  BY DEF Store, Row, Rows
<1>2. Recorded(s, k) = [s EXCEPT !.next = k + 1, !.rows = rows]
  BY DEF Recorded
<1> HIDE DEF rows
<1>3. [s EXCEPT !.next = k + 1, !.rows = rows] \in Store
  BY <1>1 DEF Store
<1>4. Recorded(s, k).rows = rows
  BY <1>2 DEF Store
<1> QED BY <1>2, <1>3, <1>4 DEF Store, rows

LEMMA ReceiveChunkOk ==
  ASSUME IInv, NEW w \in Attempts, ReceiveChunk(w) PROVE IInv'
<1>1. /\ at[w].pc = "chunks" /\ Busy(w) /\ at[w].next < TotalChunks(at[w].size)
      /\ UNCHANGED <<path, dest, acked, resumable, starts, crashes>>
  BY DEF ReceiveChunk, counters, Busy
<1>2. at[w] \in AttemptType /\ AttemptInv(w)
  BY AttemptTyped
<1>3. CASE /\ Records(stores[at[w].handle], at[w].next)
           /\ stores' = [stores EXCEPT ![at[w].handle] = Recorded(@, at[w].next)]
           /\ at' = [at EXCEPT ![w].next = @ + 1]
  <2> DEFINE i == at[w].handle
             s == stores[i]
             t == Recorded(s, at[w].next)
             a == [at[w] EXCEPT !.next = @ + 1]
  <2>1. /\ i \in 1..Len(stores) /\ s \in Store /\ IsPrefix(s)
        /\ s.size = at[w].size /\ s.size \in Nat \ {0}
    BY <1>1, <1>2, StoresTyped DEF IInv, AttemptInv, AttemptOk, AttemptType, StoresInv, Store
  <2>2. s.next = at[w].next /\ s.next \in Nat /\ s.next < TotalChunks(s.size)
    BY <1>1, <1>3, <2>1 DEF Records, Store
  <2>3. /\ t \in Store /\ t.size = s.size /\ t.next = s.next + 1
        /\ t.rows = s.rows \union {Row(s.next, s.size)}
    BY <2>1, <2>2, RecordedIs
  <2>4. TotalChunks(s.size) \in 1..FileSize
    BY <2>1, ChunksFit
  <2>5. IsPrefix(t)
    <3>1. 0..(t.next - 1) = (0..(s.next - 1)) \union {s.next}
      BY <2>2, <2>3
    <3>2. s.rows = {Row(k, s.size) : k \in 0..(s.next - 1)}
      BY <2>1 DEF IsPrefix
    <3>3. t.rows = {Row(k, s.size) : k \in 0..(t.next - 1)}
      BY <2>3, <3>1, <3>2
    <3> HIDE DEF s, t
    <3> QED BY <2>1, <2>2, <2>3, <2>4, <3>3 DEF IsPrefix
  <2>6. /\ a \in AttemptType /\ a.handle = i /\ a.solo = at[w].solo /\ a.pc = "chunks"
        /\ a.size = at[w].size /\ a.next = s.next + 1
        /\ a.row = at[w].row /\ a.position = at[w].position
    BY <1>1, <1>2, <2>2, <2>4, TransferAssumption DEF AttemptType, Waiting
  <2>7. at' = [at EXCEPT ![w] = a] /\ stores' = [stores EXCEPT ![i] = t]
    BY <1>3
  <2>8. at'[w] = a /\ \A v \in Attempts \ {w} : at'[v] = at[v]
    BY <2>7 DEF IInv, TypeOK
  <2> HIDE DEF t, a
  <2>9. /\ stores' \in Seq([size : Nat, next : Nat, rows : SUBSET Rows])
        /\ Len(stores') = Len(stores) /\ stores'[i] = t /\ StoresInv' /\ StoresGrow
    <3>1. s.size # 0 => t.size = s.size
      BY <2>3
    <3>2. s.next <= t.next
      BY <2>2, <2>3
    <3> QED BY <2>1, <2>3, <2>5, <2>7, <3>1, <3>2, StoreStep
  <2>10. TypeOK'
    <3>1. at' \in [Attempts -> AttemptType]
      BY <2>6, <2>7 DEF IInv, TypeOK
    <3>2. \A v \in Attempts : at'[v].handle <= Len(stores')
      BY <2>6, <2>8, <2>9 DEF IInv, TypeOK
    <3> QED BY <1>1, <2>9, <3>1, <3>2 DEF IInv, TypeOK
  <2>11. /\ AttemptOk(at[w], stores)' /\ FileOk(at[w], w, dest)'
         /\ SoloOk(at[w], path, stores)'
    <3>1. at'[w].handle = i /\ i \in 1..Len(stores') /\ at'[w].next <= stores'[i].next
      BY <2>1, <2>3, <2>6, <2>8, <2>9 DEF Store
    <3> QED BY <1>1, <1>2, <2>1, <2>3, <2>6, <2>8, <2>9, <3>1
            DEF AttemptInv, AttemptOk, FileOk, SoloOk, Undisturbed
  <2> QED BY <1>1, <2>6, <2>8, <2>9, <2>10, <2>11, StepOk, FileSame
<1>4. CASE Return(w, "permanent") /\ UNCHANGED stores
  BY <1>1, <1>4, ReturnOk
<1> QED BY <1>3, <1>4 DEF ReceiveChunk

LEMMA ReceiveKeyOk ==
  ASSUME IInv, NEW w \in Attempts, ReceiveKey(w) PROVE IInv'
<1> DEFINE a == [at[w] EXCEPT !.pc = "decrypt", !.file = dest'.file]
<1>1. /\ at[w].pc = "chunks" /\ Busy(w) /\ HasAll(at[w]) /\ dest' = Created(w)
      /\ at' = [at EXCEPT ![w] = a]
      /\ UNCHANGED <<stores, path, acked, resumable, starts, crashes>>
  BY DEF ReceiveKey, counters, Busy
<1>2. at[w] \in AttemptType /\ AttemptInv(w)
  BY AttemptTyped
<1>3. /\ dest' \in [file : Nat, made : Nat, creator : Attempts \union {NoAttempt},
                    right : SUBSET (0..(FileSize - 1)), length : 0..FileSize]
      /\ dest'.creator = w /\ dest'.file # 0 /\ dest'.length \in Nat
  <2> DEFINE n == IF dest.file = 0 THEN dest.made + 1 ELSE dest.made
  <2>1. dest.file \in Nat /\ dest.made \in Nat /\ n \in Nat /\ (dest.file = 0 => n # 0)
    BY DEF IInv, TypeOK
  <2>2. dest' = [file |-> IF dest.file = 0 THEN n ELSE dest.file, made |-> n,
                 creator |-> w, right |-> {}, length |-> 0]
    BY <1>1 DEF Created, NoFile
  <2> HIDE DEF n
  <2> QED BY <2>1, <2>2, TransferAssumption
<1>4. /\ a \in AttemptType /\ a.handle = at[w].handle /\ a.solo = at[w].solo
      /\ a.pc = "decrypt" /\ a.size = at[w].size /\ a.next = at[w].next
      /\ a.row = at[w].row /\ a.position = at[w].position /\ a.file = dest'.file
  BY <1>2, <1>3 DEF AttemptType, Waiting
<1>5. at'[w] = a /\ \A v \in Attempts \ {w} : at'[v] = at[v]
  BY <1>1 DEF IInv, TypeOK
<1> HIDE DEF a
<1>6. StoresInv' /\ StoresGrow
  <2>1. Len(stores) \in Nat /\ \A i \in 1..Len(stores) : stores[i].next \in Nat
    BY StoresTyped DEF IInv, Store
  <2> QED BY <1>1, <2>1 DEF IInv, StoresInv, IsPrefix, StoresGrow
<1>7. TypeOK'
  <2>1. at' \in [Attempts -> AttemptType]
    BY <1>1, <1>4 DEF IInv, TypeOK
  <2>2. \A v \in Attempts : at'[v].handle <= Len(stores)
    BY <1>4, <1>5 DEF IInv, TypeOK
  <2> QED BY <1>1, <1>3, <2>1, <2>2 DEF IInv, TypeOK
<1>8. AttemptOk(at[w], stores)'
  <2> DEFINE s == stores[at[w].handle]
  <2>1. /\ at[w].handle \in 1..Len(stores) /\ s.size = at[w].size /\ s.size \in Nat \ {0}
        /\ at[w].next <= s.next /\ at[w].row = 0 /\ at[w].position = 0
        /\ IsPrefix(s) /\ s.next \in Nat /\ at[w].next \in Nat
    BY <1>1, <1>2, StoresTyped DEF AttemptInv, AttemptOk, AttemptType, IInv, StoresInv, Store
  <2>2. TotalChunks(s.size) \in Nat
    BY <2>1, ChunksFit
  <2>3. s.next = TotalChunks(s.size)
    BY <1>1, <2>1, <2>2 DEF HasAll, IsPrefix
  <2>4. ResumeOffset(s.size, 0) = 0
    BY <2>1, TransferAssumption DEF ResumeOffset, Smaller
  <2> QED BY <1>1, <1>4, <1>5, <2>1, <2>2, <2>3, <2>4 DEF AttemptOk
<1>9. FileOk(at[w], w, dest)' /\ SoloOk(at[w], path, stores)'
  <2>1. at[w].position = 0
    BY <1>1, <1>2 DEF AttemptInv, AttemptOk
  <2>2. 0..(0 - 1) = {}
    OBVIOUS
  <2> QED BY <1>3, <1>4, <1>5, <2>1, <2>2 DEF FileOk, SoloOk, Undisturbed
<1>10. FileGrows(w)
  BY <1>3 DEF FileGrows
<1> QED BY <1>1, <1>4, <1>5, <1>6, <1>7, <1>8, <1>9, <1>10, StepOk

\* What is decrypted next is the chunk after the ones written, at its place.
LEMMA DecryptInOrder ==
  ASSUME IInv, NEW w \in Attempts, at[w].pc = "decrypt", NEW r \in Remaining(w),
         \A other \in Remaining(w) : r.index <= other.index
  PROVE  /\ r = Row(at[w].row, at[w].size) /\ at[w].size \in Nat \ {0}
         /\ at[w].row \in Nat /\ at[w].row < TotalChunks(at[w].size)
<1> DEFINE s == stores[at[w].handle]
<1>1. /\ s.size = at[w].size /\ at[w].size \in Nat \ {0} /\ at[w].row \in Nat
      /\ s.next = TotalChunks(at[w].size) /\ IsPrefix(s) /\ s.next \in Nat
  BY AttemptTyped, StoresTyped DEF AttemptInv, AttemptOk, AttemptType, IInv, StoresInv, Store
<1>2. s.rows = {Row(k, s.size) : k \in 0..(s.next - 1)}
  BY <1>1 DEF IsPrefix
<1>3. r \in s.rows /\ r.index >= at[w].row
  BY DEF Remaining
<1>4. PICK k \in 0..(s.next - 1) : r = Row(k, s.size)
  BY <1>2, <1>3
<1>5. k >= at[w].row /\ r.index = k
  BY <1>3, <1>4 DEF Row
<1>6. at[w].row \in 0..(s.next - 1)
  BY <1>1, <1>5
<1>7. Row(at[w].row, s.size) \in Remaining(w)
  BY <1>1, <1>2, <1>6 DEF Remaining, Row
<1>8. k <= at[w].row
  BY <1>5, <1>7 DEF Row
<1> QED BY <1>1, <1>4, <1>5, <1>6, <1>8

\* What is written at its place.
File == [file : Nat, made : Nat, creator : Attempts \union {NoAttempt},
         right : SUBSET (0..(FileSize - 1)), length : 0..FileSize]

LEMMA WrittenIs ==
  ASSUME dest \in File, NEW p \in Nat, NEW n \in Nat, p + n \in 0..FileSize
  PROVE  LET d == Written(p, p, n) IN
         /\ d \in File /\ d.creator = dest.creator /\ d.file = dest.file
         /\ d.right = dest.right \union (p..((p + n) - 1))
         /\ d.length = IF dest.length < p + n THEN p + n ELSE dest.length
<1> DEFINE right == IF p = p THEN dest.right \union (p..((p + n) - 1))
                    ELSE dest.right \ (p..((p + n) - 1))
           length == IF dest.length < p + n THEN p + n ELSE dest.length
<1>1. Written(p, p, n) = [dest EXCEPT !.right = right, !.length = length]
  BY DEF Written
<1>2. right = dest.right \union (p..((p + n) - 1))
  OBVIOUS
<1>3. right \in SUBSET (0..(FileSize - 1))
  BY <1>2, TransferAssumption DEF File
<1>4. length \in 0..FileSize
  BY DEF File
<1>5. length = IF dest.length < p + n THEN p + n ELSE dest.length
  OBVIOUS
<1> HIDE DEF right, length
<1> QED BY <1>1, <1>2, <1>3, <1>4, <1>5 DEF File

LEMMA DecryptChunkOk ==
  ASSUME IInv, NEW w \in Attempts, DecryptChunk(w) PROVE IInv'
<1>1. /\ at[w].pc = "decrypt" /\ Busy(w)
      /\ UNCHANGED <<stores, path, acked, resumable, starts, crashes>>
  BY DEF DecryptChunk, counters, Busy
<1>2. PICK r \in Remaining(w) :
        LET n == ChunkLength(r.cut, r.index) IN
        /\ \A other \in Remaining(w) : r.index <= other.index
        /\ dest' = IF at[w].file = dest.file
                   THEN Written(at[w].position, r.index * r.cut, n) ELSE dest
        /\ at' = [at EXCEPT ![w].row = r.index + 1, ![w].position = @ + n]
  BY DEF DecryptChunk
<1>3. at[w] \in AttemptType /\ AttemptInv(w)
  BY AttemptTyped
<1> DEFINE size == at[w].size
           row == at[w].row
           n == ChunkLength(size, row)
           a == [at[w] EXCEPT !.row = row + 1, !.position = @ + n]
<1>4. r = Row(row, size) /\ size \in Nat \ {0} /\ row \in Nat /\ row < TotalChunks(size)
  BY <1>1, <1>2, DecryptInOrder
<1>5. r.index = row /\ r.cut = size
  BY <1>4 DEF Row
<1>6. /\ at[w].position = row * size /\ n \in 1..FileSize
      /\ ResumeOffset(size, row + 1) = row * size + n
      /\ ResumeOffset(size, row + 1) \in 0..FileSize
      /\ TotalChunks(size) \in 1..FileSize
  <2>1. at[w].position = ResumeOffset(size, row)
    BY <1>1, <1>3 DEF AttemptInv, AttemptOk
  <2> HIDE DEF row, size
  <2>2. row + 1 \in Nat
    BY <1>4
  <2> QED BY <1>4, <2>1, <2>2, ChunkSpan, ChunksFit
<1>7. /\ dest' = IF at[w].file = dest.file
                 THEN Written(at[w].position, at[w].position, n) ELSE dest
      /\ at' = [at EXCEPT ![w] = a]
  BY <1>2, <1>5, <1>6
<1>8. at[w].position \in Nat /\ at[w].position + n \in 0..FileSize /\ row + 1 \in 0..FileSize
  BY <1>3, <1>4, <1>6, TransferAssumption DEF AttemptType
<1>9. /\ a \in AttemptType /\ a.handle = at[w].handle /\ a.solo = at[w].solo
      /\ a.pc = "decrypt" /\ a.size = size /\ a.next = at[w].next
      /\ a.row = row + 1 /\ a.position = at[w].position + n /\ a.file = at[w].file
  BY <1>1, <1>3, <1>8 DEF AttemptType
<1>10. at'[w] = a /\ \A v \in Attempts \ {w} : at'[v] = at[v]
  BY <1>7 DEF IInv, TypeOK
<1>11. AttemptOk(at[w], stores)' /\ SoloOk(at[w], path, stores)'
  <2>1. a.row <= TotalChunks(size) /\ a.position = ResumeOffset(size, row + 1)
    BY <1>4, <1>6, <1>9
  <2> HIDE DEF a, size, row, n
  <2>2. size = at[w].size
    BY DEF size
  <2> QED BY <1>1, <1>3, <1>9, <1>10, <2>1, <2>2
          DEF AttemptInv, AttemptOk, SoloOk, Undisturbed
<1>12. /\ dest'.creator = dest.creator /\ dest'.file = dest.file
       /\ dest'.right = IF at[w].file = dest.file
                        THEN dest.right \union (at[w].position..((at[w].position + n) - 1))
                        ELSE dest.right
       /\ dest'.length = IF at[w].file = dest.file /\ dest.length < at[w].position + n
                         THEN at[w].position + n ELSE dest.length
       /\ dest' \in [file : Nat, made : Nat, creator : Attempts \union {NoAttempt},
                     right : SUBSET (0..(FileSize - 1)), length : 0..FileSize]
  <2> HIDE DEF n, a
  <2>1. dest \in [file : Nat, made : Nat, creator : Attempts \union {NoAttempt},
                  right : SUBSET (0..(FileSize - 1)), length : 0..FileSize]
    BY DEF IInv, TypeOK
  <2>2. CASE at[w].file # dest.file
    BY <1>7, <2>1, <2>2
  <2>3. CASE at[w].file = dest.file
    <3>1. dest' = Written(at[w].position, at[w].position, n)
      BY <1>7, <2>3
    <3>2. n \in Nat /\ dest \in File
      BY <1>6, <2>1, TransferAssumption DEF File
    <3> QED BY <1>8, <2>3, <3>1, <3>2, WrittenIs DEF File
  <2> QED BY <2>2, <2>3
<1>13. FileGrows(w)
  <2>1. dest.length \in Nat /\ at[w].position + n \in Nat
    BY <1>8, TransferAssumption DEF IInv, TypeOK
  <2> QED BY <1>12, <2>1 DEF FileGrows
<1>14. FileOk(at[w], w, dest)'
  <2>1. SUFFICES ASSUME dest'.creator = w
                 PROVE  /\ at'[w].file = dest'.file /\ dest'.file # 0
                        /\ 0..(at'[w].position - 1) \subseteq dest'.right
                        /\ at'[w].position <= dest'.length
    BY <1>9, <1>10 DEF FileOk
  <2>2. /\ at[w].file = dest.file /\ dest.file # 0
        /\ 0..(at[w].position - 1) \subseteq dest.right /\ at[w].position <= dest.length
    BY <1>1, <1>3, <1>12, <2>1 DEF AttemptInv, FileOk
  <2>3. at'[w].position = at[w].position + n /\ at'[w].file = at[w].file
    BY <1>9, <1>10
  <2>4. dest.length \in Nat
    BY TransferAssumption DEF IInv, TypeOK
  <2> HIDE DEF n, a
  <2>5. 0..((at[w].position + n) - 1)
          \subseteq (0..(at[w].position - 1)) \union (at[w].position..((at[w].position + n) - 1))
    BY <1>6, <1>8
  <2>6. 0..(at'[w].position - 1) \subseteq dest'.right
    <3>1. dest'.right = dest.right \union (at[w].position..((at[w].position + n) - 1))
      BY <1>12, <2>2
    <3>2. (0..(at[w].position - 1)) \union (at[w].position..((at[w].position + n) - 1))
            \subseteq dest'.right
      BY <2>2, <3>1
    <3> QED BY <2>3, <2>5, <3>2
  <2>7. at'[w].position <= dest'.length
    BY <1>8, <1>12, <2>2, <2>3, <2>4
  <2> QED BY <1>12, <2>2, <2>3, <2>6, <2>7
<1>15. StoresInv' /\ StoresGrow
  <2>1. Len(stores) \in Nat /\ \A i \in 1..Len(stores) : stores[i].next \in Nat
    BY StoresTyped DEF IInv, Store
  <2> QED BY <1>1, <2>1 DEF IInv, StoresInv, IsPrefix, StoresGrow
<1>16. TypeOK'
  <2> HIDE DEF a, n
  <2>1. at' \in [Attempts -> AttemptType]
    BY <1>7, <1>9 DEF IInv, TypeOK
  <2>2. \A v \in Attempts : at'[v].handle <= Len(stores)
    BY <1>9, <1>10 DEF IInv, TypeOK
  <2> QED BY <1>1, <1>12, <2>1, <2>2 DEF IInv, TypeOK
<1> HIDE DEF a, n
<1> QED BY <1>1, <1>9, <1>10, <1>11, <1>13, <1>14, <1>15, <1>16, StepOk

LEMMA OpenStoreOk ==
  ASSUME IInv, NEW w \in Attempts, OpenStore(w) PROVE IInv'
<1> DEFINE fresh == path = 0 \/ at[w].offset = 0 \/ ~resumable
           opened == IF fresh THEN Len(stores) + 1 ELSE path
           a == [at[w] EXCEPT !.pc = "opened", !.handle = opened]
<1>1. /\ at[w].pc = "ready" /\ Busy(w)
      /\ stores' = IF fresh THEN Append(stores, EmptyStore) ELSE stores
      /\ path' = IF resumable THEN opened ELSE path
      /\ at' = [at EXCEPT ![w] = a]
      /\ UNCHANGED <<dest, acked, resumable, starts, crashes>>
  BY DEF OpenStore, counters, Busy
<1>2. at[w] \in AttemptType /\ AttemptInv(w)
  BY AttemptTyped
<1>3. stores \in Seq(Store) /\ Len(stores) \in Nat /\ path \in 0..Len(stores)
      /\ \A i \in 1..Len(stores) : stores[i] \in Store
  BY StoresTyped DEF IInv, TypeOK, Store
<1>4. EmptyStore \in Store /\ IsPrefix(EmptyStore)
  BY DEF EmptyStore, Store, IsPrefix
<1>5. /\ stores' \in Seq(Store) /\ Len(stores') \in Nat /\ Len(stores) <= Len(stores')
      /\ opened \in 1..Len(stores')
      /\ \A i \in 1..Len(stores) : stores'[i] = stores[i]
      /\ \A i \in 1..Len(stores') : i \in 1..Len(stores) \/ stores'[i] = EmptyStore
  <2>1. CASE fresh
    BY <1>1, <1>3, <1>4, <2>1
  <2>2. CASE ~fresh
    BY <1>1, <1>3, <2>2
  <2> QED BY <2>1, <2>2
<1>6. /\ a \in AttemptType /\ a.handle = opened /\ a.solo = at[w].solo /\ a.pc = "opened"
      /\ a.size = at[w].size /\ a.offset = at[w].offset /\ a.told = at[w].told
      /\ a.row = at[w].row /\ a.position = at[w].position
  <2> HIDE DEF opened
  <2>1. opened \in Nat
    BY <1>5
  <2> QED BY <1>2, <2>1 DEF AttemptType, Waiting
<1>7. at'[w] = a /\ \A v \in Attempts \ {w} : at'[v] = at[v]
  BY <1>1 DEF IInv, TypeOK
<1>8. TypeOK'
  <2>1. \A v \in Attempts : at'[v].handle <= Len(stores')
    <3> HIDE DEF a, opened
    <3>1. \A v \in Attempts : at[v].handle \in Nat /\ at[v].handle <= Len(stores)
      BY DEF IInv, TypeOK, AttemptType
    <3> QED BY <1>3, <1>5, <1>6, <1>7, <3>1
  <2>2. at' \in [Attempts -> AttemptType]
    <3> HIDE DEF a
    <3> QED BY <1>1, <1>6 DEF IInv, TypeOK
  <2>3. path' \in 0..Len(stores')
    <3> HIDE DEF opened
    <3> QED BY <1>1, <1>3, <1>5
  <2> HIDE DEF a, opened, fresh
  <2> QED BY <1>1, <1>5, <2>1, <2>2, <2>3 DEF IInv, TypeOK, Store
<1>9. StoresInv' /\ StoresGrow
  <2>1. \A i \in 1..Len(stores') : IsPrefix(stores'[i])
    BY <1>4, <1>5 DEF IInv, StoresInv
  <2>2. StoresInv'
    BY <2>1 DEF StoresInv, IsPrefix
  <2>3. StoresGrow
    <3>1. \A i \in 1..Len(stores) : stores[i].next \in Nat
      BY <1>3 DEF Store
    <3> HIDE DEF opened, fresh
    <3> QED BY <1>3, <1>5, <3>1 DEF StoresGrow
  <2> QED BY <2>2, <2>3
<1>10. AttemptOk(at[w], stores)' /\ FileOk(at[w], w, dest)'
  <2> HIDE DEF a, opened, fresh
  <2> QED BY <1>1, <1>2, <1>5, <1>6, <1>7 DEF AttemptInv, AttemptOk, FileOk
<1>11. SoloOk(at[w], path, stores)'
  <2>1. SUFFICES ASSUME Undisturbed(at[w])', at'[w].offset > 0
                 PROVE  /\ resumable' /\ path' # 0 /\ stores'[path'].size # 0
                        /\ at'[w].offset = ResumeOffset(stores'[path'].size, stores'[path'].next)
                        /\ at'[w].handle = path'
    BY <1>6, <1>7 DEF SoloOk
  <2>2. /\ resumable /\ path # 0 /\ stores[path].size # 0
        /\ at[w].offset = ResumeOffset(stores[path].size, stores[path].next)
        /\ at[w].offset > 0
    BY <1>1, <1>2, <1>6, <1>7, <2>1 DEF AttemptInv, SoloOk, Undisturbed
  <2>3. ~fresh
    BY <2>2
  <2>4. path' = path /\ stores' = stores /\ opened = path
    BY <1>1, <2>2, <2>3
  <2> HIDE DEF a, opened, fresh
  <2> QED BY <1>1, <1>6, <1>7, <2>2, <2>4
<1> HIDE DEF a, opened, fresh
<1> QED BY <1>1, <1>6, <1>7, <1>8, <1>9, <1>10, <1>11, StepOk, FileSame

LEMMA InitializeCheckpointOk ==
  ASSUME IInv, NEW w \in Attempts, InitializeCheckpoint(w) PROVE IInv'
<1> DEFINE i == at[w].handle
           s == stores[i]
           start == StartChunk(at[w].offset, at[w].size)
           t == [s EXCEPT !.size = at[w].size, !.next = start]
           a == [at[w] EXCEPT !.pc = "chunks", !.next = start, !.offset = 0, !.limit = 0]
<1>1. /\ at[w].pc = "opened" /\ Busy(w)
      /\ UNCHANGED <<path, dest, acked, resumable, starts, crashes>>
  BY DEF InitializeCheckpoint, counters, Busy
<1>2. at[w] \in AttemptType /\ AttemptInv(w)
  BY AttemptTyped
<1>3. CASE /\ Initializes(s, at[w].size, start)
           /\ stores' = [stores EXCEPT ![i].size = at[w].size, ![i].next = start]
           /\ at' = [at EXCEPT ![w] = a]
  <2>1. /\ i \in 1..Len(stores) /\ s \in Store /\ IsPrefix(s)
        /\ at[w].size \in Nat \ {0} /\ at[w].offset \in 0..FileSize
    BY <1>1, <1>2, StoresTyped, TransferAssumption
       DEF IInv, AttemptInv, AttemptOk, AttemptType, StoresInv
  <2>2. start \in 0..TotalChunks(at[w].size) /\ TotalChunks(at[w].size) \in 1..FileSize
    BY <2>1, StartIsInFile, ChunksFit
  <2> HIDE DEF start
  <2>3. stores' = [stores EXCEPT ![i] = t]
    BY <1>3, <2>1, <1>1 DEF IInv, TypeOK
  <2>5. s.size # 0 => at[w].size = s.size /\ start = s.next
    BY <1>3 DEF Initializes
  <2>6. s.size = 0 => s.next = 0 /\ s.rows = {} /\ start = 0
    <3>1. SUFFICES ASSUME s.size = 0 PROVE s.next = 0 /\ s.rows = {} /\ start = 0
      OBVIOUS
    <3>2. s.next = 0 /\ s.rows = {}
      BY <2>1, <3>1 DEF IsPrefix
    <3>3. {r.index : r \in s.rows} = 0..(start - 1)
      BY <1>3 DEF Initializes, ValidPrefix
    <3>4. 0 \notin 0..(start - 1)
      <4> HIDE DEF s
      <4> QED BY <3>2, <3>3
    <3> QED BY <2>2, <3>2, <3>4
  <2>7. t \in Store /\ t.size = at[w].size /\ t.next = start /\ t.rows = s.rows
    <3>1. start \in Nat
      BY <2>2
    <3> HIDE DEF s
    <3> QED BY <2>1, <3>1 DEF Store
  <2> HIDE DEF t
  <2>8. IsPrefix(t)
    <3> HIDE DEF s
    <3>1. CASE s.size # 0
      BY <2>1, <2>2, <2>5, <2>7, <3>1 DEF IsPrefix
    <3>2. CASE s.size = 0
      <4>1. {Row(k, t.size) : k \in 0..(t.next - 1)} = {}
        BY <2>6, <2>7, <3>2
      <4> QED BY <2>1, <2>2, <2>6, <2>7, <3>2, <4>1 DEF IsPrefix
    <3> QED BY <3>1, <3>2
  <2>9. /\ stores' \in Seq([size : Nat, next : Nat, rows : SUBSET Rows])
        /\ Len(stores') = Len(stores) /\ stores'[i] = t /\ StoresInv' /\ StoresGrow
    <3>1. (s.size # 0 => t.size = s.size) /\ s.next <= t.next
      BY <2>1, <2>2, <2>5, <2>6, <2>7 DEF Store
    <3> QED BY <2>1, <2>3, <2>7, <2>8, <3>1, StoreStep
  <2>10. /\ a \in AttemptType /\ a.handle = i /\ a.solo = at[w].solo /\ a.pc = "chunks"
         /\ a.size = at[w].size /\ a.next = start
         /\ a.row = at[w].row /\ a.position = at[w].position
    <3>1. start \in 0..FileSize /\ 0 \in 0..FileSize /\ 0 \in 0..MaxChunkSize
      BY <2>2, TransferAssumption
    <3> QED BY <1>2, <3>1 DEF AttemptType, Waiting
  <2>11. at'[w] = a /\ \A v \in Attempts \ {w} : at'[v] = at[v]
    BY <1>3 DEF IInv, TypeOK
  <2> HIDE DEF a
  <2>12. TypeOK'
    <3>1. at' \in [Attempts -> AttemptType]
      BY <1>3, <2>10 DEF IInv, TypeOK
    <3>2. \A v \in Attempts : at'[v].handle <= Len(stores')
      BY <2>9, <2>10, <2>11 DEF IInv, TypeOK
    <3> QED BY <1>1, <2>9, <3>1, <3>2 DEF IInv, TypeOK
  <2>13. /\ AttemptOk(at[w], stores)' /\ FileOk(at[w], w, dest)'
         /\ SoloOk(at[w], path, stores)'
    <3>1. at'[w].handle = i /\ i \in 1..Len(stores') /\ at'[w].next <= stores'[i].next
      BY <2>1, <2>2, <2>7, <2>9, <2>10, <2>11
    <3> QED BY <1>1, <1>2, <2>1, <2>7, <2>9, <2>10, <2>11, <3>1
            DEF AttemptInv, AttemptOk, FileOk, SoloOk, Undisturbed
  <2> QED BY <1>1, <2>9, <2>10, <2>11, <2>12, <2>13, StepOk, FileSame
<1>4. CASE Return(w, "permanent") /\ UNCHANGED stores
  BY <1>1, <1>4, ReturnOk
<1> QED BY <1>3, <1>4 DEF InitializeCheckpoint

LEMMA LeaveOk ==
  ASSUME IInv, NEW w \in Attempts, Leave(w) PROVE IInv'
<1>1. /\ at[w].pc = "returned" /\ Busy(w) /\ path' \in {path, 0}
      /\ dest' = dest \/ dest' = NoFile(dest.made)
      /\ at' = [at EXCEPT ![w] = Idle]
      /\ UNCHANGED <<stores, acked, resumable, starts, crashes>>
  BY DEF Leave, counters, Busy
<1>2. at'[w] = Idle /\ \A v \in Attempts \ {w} : at'[v] = at[v]
  BY <1>1 DEF IInv, TypeOK
<1>3. Idle.pc = "idle" /\ Idle.solo = TRUE
  BY DEF Idle
<1>4. TypeOK'
  <2>1. at' \in [Attempts -> AttemptType]
    BY <1>1, IdleTyped DEF IInv, TypeOK
  <2>2. Len(stores) \in Nat
    BY StoresTyped DEF IInv
  <2>3. \A v \in Attempts : at'[v].handle <= Len(stores)
    BY <1>2, <2>2, IdleTyped DEF IInv, TypeOK
  <2>4. dest' \in File
    BY <1>1, TransferAssumption DEF IInv, TypeOK, NoFile, File
  <2>5. path' \in 0..Len(stores)
    BY <1>1, <2>2 DEF IInv, TypeOK
  <2> QED BY <1>1, <2>1, <2>3, <2>4, <2>5 DEF IInv, TypeOK, File
<1>5. StoresInv' /\ StoresGrow
  <2>1. Len(stores) \in Nat /\ \A i \in 1..Len(stores) : stores[i].next \in Nat
    BY StoresTyped DEF IInv, Store
  <2> QED BY <1>1, <2>1 DEF IInv, StoresInv, IsPrefix, StoresGrow
<1>6. FileGrows(w)
  <2>1. CASE dest' = dest
    BY <2>1, FileSame
  <2>2. CASE dest' = NoFile(dest.made)
    BY <2>2 DEF FileGrows, NoFile
  <2> QED BY <1>1, <2>1, <2>2
<1>7. \A v \in Attempts \ {w} : AttemptInv(v)'
  BY <1>1, <1>2, <1>4, <1>5, <1>6, OthersOk
<1>8. AttemptInv(w)'
  BY <1>2, <1>3 DEF AttemptInv, AttemptOk, FileOk, SoloOk, Undisturbed, Busy
<1> QED BY <1>4, <1>5, <1>7, <1>8 DEF IInv, AttemptsInv

\* An attempt that is told to stop, or learns that it is not alone, keeps the rest.
Alike(a, b) ==
  /\ a.pc = b.pc /\ a.result = b.result /\ a.offset = b.offset /\ a.size = b.size
  /\ a.handle = b.handle /\ a.next = b.next /\ a.file = b.file /\ a.row = b.row
  /\ a.position = b.position

\* The next attempt reads from the store with the task's name where to resume.
LEMMA BeginOk ==
  ASSUME IInv, NEW w \in Attempts, Begin(w) PROVE IInv'
<1> DEFINE s == IF resumable /\ path # 0 THEN stores[path] ELSE EmptyStore
           hint == s.size # 0 /\ ValidPrefix(s.rows, s.size, s.next)
           offset == IF hint THEN ResumeOffset(s.size, s.next) ELSE 0
           solo == \A u \in Attempts : ~Busy(u)
<1>1. /\ ~Busy(w) /\ starts < MaxStarts /\ starts' = starts + 1
      /\ \A v \in Attempts : Busy(v) => at[v].told
      /\ path' = IF s.size # 0 /\ ~hint THEN 0 ELSE path
      /\ UNCHANGED <<stores, dest, acked, resumable, crashes>>
  BY DEF Begin
<1>2. PICK preferred \in MinChunkSize..MaxChunkSize :
        at' = [v \in Attempts |->
                 IF v = w
                 THEN [Idle EXCEPT !.pc = "request", !.solo = solo, !.offset = offset,
                                   !.limit = IF hint THEN Clamp(s.size) ELSE preferred]
                 ELSE [at[v] EXCEPT !.solo = @ /\ ~Busy(v)]]
  BY DEF Begin
<1> DEFINE limit == IF hint THEN Clamp(s.size) ELSE preferred
           a == [Idle EXCEPT !.pc = "request", !.solo = solo, !.offset = offset,
                             !.limit = limit]
<1>3. s \in Store /\ IsPrefix(s)
  <2>1. EmptyStore \in Store /\ IsPrefix(EmptyStore)
    BY DEF EmptyStore, Store, IsPrefix
  <2>2. path # 0 => path \in 1..Len(stores)
    BY StoresTyped DEF IInv, TypeOK
  <2> QED BY <2>1, <2>2, StoresTyped DEF IInv, StoresInv
<1> HIDE DEF s
<1>4. /\ offset \in 0..FileSize
      /\ hint /\ offset = 0 => s.next = 0
      /\ hint => offset = ResumeOffset(s.size, s.next)
  <2>1. CASE hint
    <3>1. s.size \in Nat \ {0} /\ s.next \in Nat /\ s.next <= TotalChunks(s.size)
      BY <1>3, <2>1 DEF Store, IsPrefix
    <3> QED BY <2>1, <3>1, ChunkSpan, OffsetLeadsBack
  <2>2. CASE ~hint
    BY <2>2, TransferAssumption
  <2> QED BY <2>1, <2>2
<1>5. limit \in 0..MaxChunkSize
  BY <1>3, TransferAssumption DEF Clamp, Smaller, Store
<1>6. s.size = 0 => s.next = 0
  BY <1>3 DEF IsPrefix
<1> HIDE DEF hint, limit, offset, solo
<1>7. /\ a \in AttemptType /\ a.pc = "request" /\ a.solo = solo /\ a.offset = offset
      /\ a.handle = 0 /\ a.row = 0 /\ a.position = 0 /\ a.told = FALSE
  <2>1. solo \in BOOLEAN
    BY DEF solo
  <2> QED BY <1>4, <1>5, <2>1, IdleTyped, TransferAssumption DEF Idle, AttemptType, Waiting
<1>8. at'[w] = a
  BY <1>2 DEF limit
<1>9. \A v \in Attempts \ {w} :
        /\ at'[v] \in AttemptType /\ Alike(at[v], at'[v]) /\ at'[v].told = at[v].told
        /\ at'[v].solo => at[v].solo /\ ~Busy(v)
  <2> SUFFICES ASSUME NEW v \in Attempts \ {w}
               PROVE  /\ at'[v] \in AttemptType /\ Alike(at[v], at'[v])
                      /\ at'[v].told = at[v].told
                      /\ at'[v].solo => at[v].solo /\ ~Busy(v)
    OBVIOUS
  <2> DEFINE flag == at[v].solo /\ ~Busy(v)
  <2>1. at[v] \in AttemptType /\ flag \in BOOLEAN
    BY DEF IInv, TypeOK
  <2>2. at'[v] = [at[v] EXCEPT !.solo = flag]
    BY <1>2
  <2>3. flag => at[v].solo /\ ~Busy(v)
    OBVIOUS
  <2> HIDE DEF flag
  <2>4. /\ at'[v] \in AttemptType /\ Alike(at[v], at'[v]) /\ at'[v].told = at[v].told
        /\ at'[v].solo = flag
    BY <2>1, <2>2 DEF AttemptType, Alike
  <2> QED BY <2>3, <2>4
<1> HIDE DEF a
<1>11. TypeOK'
  <2>1. at' \in [Attempts -> AttemptType]
    <3>1. DOMAIN at' = Attempts /\ at' = [v \in Attempts |-> at'[v]]
      BY <1>2
    <3> QED BY <1>7, <1>8, <1>9, <3>1
  <2>2. Len(stores) \in Nat
    BY StoresTyped DEF IInv
  <2>3. \A v \in Attempts : at'[v].handle <= Len(stores)
    <3>1. \A v \in Attempts : at[v].handle <= Len(stores)
      BY DEF IInv, TypeOK
    <3> QED BY <1>7, <1>8, <1>9, <2>2, <3>1 DEF Alike
  <2>4. starts' \in 0..MaxStarts
    BY <1>1, TransferAssumption DEF IInv, TypeOK
  <2>5. path' \in 0..Len(stores)
    BY <1>1, <2>2 DEF IInv, TypeOK
  <2> QED BY <1>1, <2>1, <2>3, <2>4, <2>5 DEF IInv, TypeOK
<1>12. StoresInv'
  BY <1>1 DEF IInv, StoresInv, IsPrefix
<1>13. AttemptInv(w)'
  <2>1. SoloOk(at[w], path, stores)'
    <3>1. CASE hint
      <4>1. resumable /\ path # 0 /\ s = stores[path] /\ s.size # 0
        BY <3>1 DEF hint, s, EmptyStore
      <4>2. path' = path
        BY <1>1, <3>1
      <4> QED BY <1>1, <1>4, <1>7, <1>8, <3>1, <4>1, <4>2 DEF SoloOk, Undisturbed
    <3>2. CASE ~hint
      <4>1. offset = 0
        BY <3>2 DEF offset
      <4>2. resumable => path' = 0 \/ stores[path'].next = 0
        BY <1>1, <1>6, <3>2 DEF s
      <4> QED BY <1>1, <1>7, <1>8, <4>1, <4>2 DEF SoloOk, Undisturbed
    <3> QED BY <3>1, <3>2
  <2>2. at'[w].solo => \A v \in Attempts \ {w} : ~Busy(v)'
    <3>1. at'[w].solo = solo
      BY <1>7, <1>8
    <3>2. \A v \in Attempts \ {w} : at'[v].pc = at[v].pc
      BY <1>9 DEF Alike
    <3>3. solo => \A v \in Attempts : at[v].pc = "idle"
      BY DEF solo, Busy
    <3> QED BY <3>1, <3>2, <3>3 DEF Busy
  <2> QED BY <1>7, <1>8, <2>1, <2>2 DEF AttemptInv, AttemptOk, FileOk
<1>14. ASSUME NEW v \in Attempts \ {w} PROVE AttemptInv(v)'
  <2>1. AttemptInv(v)
    BY DEF IInv, AttemptsInv
  <2>2. ~(at'[v].solo /\ at'[v].pc # "idle")
    BY <1>9 DEF Alike, Busy
  <2>3. AttemptOk(at[v], stores)' /\ FileOk(at[v], v, dest)'
    BY <1>1, <1>9, <2>1 DEF AttemptInv, AttemptOk, FileOk, Alike
  <2>4. SoloOk(at[v], path, stores)'
    BY <2>2 DEF SoloOk, Undisturbed
  <2> QED BY <1>1, <1>9, <2>1, <2>2, <2>3, <2>4 DEF AttemptInv, Busy, Alike
<1> QED BY <1>11, <1>12, <1>13, <1>14 DEF IInv, AttemptsInv

LEMMA StopOk ==
  ASSUME IInv, Stop PROVE IInv'
<1>1. /\ at' = [w \in Attempts |-> [at[w] EXCEPT !.told = Busy(w)]]
      /\ path' \in {path, 0}
      /\ UNCHANGED <<stores, dest, acked, resumable, starts, crashes>>
  BY DEF Stop, counters
<1>2. \A v \in Attempts :
        /\ at'[v] \in AttemptType /\ Alike(at[v], at'[v]) /\ at'[v].solo = at[v].solo
        /\ Busy(v) => at'[v].told
  <2> SUFFICES ASSUME NEW v \in Attempts
               PROVE  /\ at'[v] \in AttemptType /\ Alike(at[v], at'[v])
                      /\ at'[v].solo = at[v].solo
                      /\ Busy(v) => at'[v].told
    OBVIOUS
  <2> DEFINE flag == Busy(v)
  <2>1. at[v] \in AttemptType /\ flag \in BOOLEAN
    BY DEF IInv, TypeOK, Busy
  <2>2. at'[v] = [at[v] EXCEPT !.told = flag]
    BY <1>1
  <2> HIDE DEF flag
  <2>3. /\ at'[v] \in AttemptType /\ Alike(at[v], at'[v]) /\ at'[v].solo = at[v].solo
        /\ at'[v].told = flag
    BY <2>1, <2>2 DEF AttemptType, Alike
  <2> QED BY <2>3 DEF flag
<1>3. TypeOK'
  <2>1. at' \in [Attempts -> AttemptType]
    BY <1>1, <1>2
  <2>2. Len(stores) \in Nat
    BY StoresTyped DEF IInv
  <2>3. \A v \in Attempts : at'[v].handle <= Len(stores)
    BY <1>2 DEF IInv, TypeOK, Alike
  <2>4. path' \in 0..Len(stores)
    BY <1>1, <2>2 DEF IInv, TypeOK
  <2> QED BY <1>1, <2>1, <2>3, <2>4 DEF IInv, TypeOK
<1>4. StoresInv'
  BY <1>1 DEF IInv, StoresInv, IsPrefix
<1>5. ASSUME NEW v \in Attempts PROVE AttemptInv(v)'
  <2>1. AttemptInv(v)
    BY DEF IInv, AttemptsInv
  <2>2. AttemptOk(at[v], stores)' /\ FileOk(at[v], v, dest)'
    BY <1>1, <1>2, <2>1 DEF AttemptInv, AttemptOk, FileOk, Alike
  <2>3. SoloOk(at[v], path, stores)'
    BY <1>2 DEF SoloOk, Undisturbed, Busy, Alike
  <2>4. at'[v].pc = "returned" => at'[v].told
    BY <1>2 DEF Busy, Alike
  <2>5. /\ at'[v].pc \in {"ack", "purge"} => acked'
        /\ at'[v].pc # "idle" /\ at'[v].solo => \A u \in Attempts \ {v} : at'[u].pc = "idle"
    BY <1>1, <1>2, <2>1 DEF AttemptInv, Busy, Alike
  <2> QED BY <2>2, <2>3, <2>4, <2>5 DEF AttemptInv, Busy
<1> QED BY <1>3, <1>4, <1>5 DEF IInv, AttemptsInv

LEMMA CrashOk ==
  ASSUME IInv, Crash PROVE IInv'
<1>1. /\ crashes < MaxCrashes /\ crashes' = crashes + 1
      /\ at' = [w \in Attempts |-> Idle]
      /\ UNCHANGED <<stores, path, dest, acked, resumable, starts>>
  BY DEF Crash, files
<1>2. TypeOK'
  <2>1. Len(stores) \in Nat
    BY StoresTyped DEF IInv
  <2>2. at' \in [Attempts -> AttemptType] /\ \A v \in Attempts : at'[v].handle <= Len(stores)
    BY <1>1, <2>1, IdleTyped
  <2>3. crashes' \in 0..MaxCrashes
    BY <1>1, TransferAssumption DEF IInv, TypeOK
  <2> QED BY <1>1, <2>2, <2>3 DEF IInv, TypeOK
<1>3. StoresInv'
  BY <1>1 DEF IInv, StoresInv, IsPrefix
<1>4. AttemptsInv'
  <2>1. \A v \in Attempts : at'[v].pc = "idle"
    BY <1>1 DEF Idle
  <2> QED BY <2>1 DEF AttemptsInv, AttemptInv, AttemptOk, FileOk, SoloOk, Undisturbed, Busy
<1> QED BY <1>2, <1>3, <1>4 DEF IInv

-----------------------------------------------------------------------------
(* The invariant and what follows from it *)

LEMMA NextOk == IInv /\ [Next]_vars => IInv'
<1> SUFFICES ASSUME IInv, [Next]_vars PROVE IInv'
  OBVIOUS
<1>1. ASSUME NEW w \in Attempts, Advance(w) PROVE IInv'
  BY <1>1, BeginOk, MetadataOk, OpenStoreOk, InitializeCheckpointOk, ReceiveChunkOk,
     ReceiveKeyOk, DecryptChunkOk, VerifyOk, CompletionOk, ReturnsOk, LeaveOk
     DEF Advance
<1>2. CASE Stop
  BY <1>2, StopOk
<1>3. CASE Crash
  BY <1>3, CrashOk
<1>4. CASE UNCHANGED vars
  <2>1. UNCHANGED <<stores, path, dest, acked, at, resumable, starts, crashes>>
    BY <1>4 DEF vars, files, counters
  <2>2. TypeOK'
    BY <2>1 DEF IInv, TypeOK
  <2>3. StoresInv'
    BY <2>1 DEF IInv, StoresInv, IsPrefix
  <2>4. ASSUME NEW w \in Attempts PROVE AttemptInv(w)'
    <3>1. AttemptInv(w)
      BY DEF IInv, AttemptsInv
    <3>2. AttemptOk(at[w], stores)' /\ FileOk(at[w], w, dest)'
      BY <2>1, <3>1 DEF AttemptInv, AttemptOk, FileOk
    <3>3. SoloOk(at[w], path, stores)'
      BY <2>1, <3>1 DEF AttemptInv, SoloOk, Undisturbed
    <3> QED BY <2>1, <3>1, <3>2, <3>3 DEF AttemptInv, Busy
  <2> QED BY <2>2, <2>3, <2>4 DEF IInv, AttemptsInv
<1> QED BY <1>1, <1>2, <1>3, <1>4 DEF Next

LEMMA Invariant == Spec => []IInv
BY InitOk, NextOk, PTL DEF Spec

\* The variables keep their types, and no offset, chunk number or position leaves the
\* file, whatever chunk sizes the server chooses and whichever attempts overlap.
THEOREM TransferTypes == Spec => []TypeOK
<1>1. IInv => TypeOK
  BY DEF IInv
<1> QED BY <1>1, Invariant, PTL

\* A store holds the chunks its checkpoint counts and no others, in every state: also
\* after a crash, and when two attempts write to it (record_chunk, initialize_checkpoint).
THEOREM StoresArePrefixes == Spec => []StoreIsPrefix
<1>1. IInv => StoreIsPrefix
  BY DEF IInv, StoresInv, IsPrefix, StoreIsPrefix
<1> QED BY <1>1, Invariant, PTL

\* Whoever decrypts (for_each_ordered_chunk) has the whole file in its store, and the
\* server is told that a download is complete (DownloadComplete) when the file that the
\* attempt created has every byte at its place.
THEOREM CompletionIsEarned == Spec => []CompletedIsWhole
<1>1. IInv => CompletedIsWhole
  <2> SUFFICES ASSUME IInv, NEW w \in Attempts
               PROVE  /\ at[w].pc = "decrypt" =>
                           LET s == stores[at[w].handle] IN
                           /\ s.size # 0
                           /\ s.rows = {Row(k, s.size) : k \in 0..(TotalChunks(s.size) - 1)}
                      /\ at[w].pc \in {"complete", "ack", "purge"} /\ dest.creator = w =>
                           dest.right = 0..(FileSize - 1) /\ dest.length = FileSize
    BY DEF CompletedIsWhole
  <2>1. AttemptOk(at[w], stores)
    BY DEF IInv, AttemptsInv, AttemptInv
  <2>2. ASSUME at[w].pc = "decrypt"
        PROVE  LET s == stores[at[w].handle] IN
               /\ s.size # 0
               /\ s.rows = {Row(k, s.size) : k \in 0..(TotalChunks(s.size) - 1)}
    <3>1. IsPrefix(stores[at[w].handle])
      BY <2>1, <2>2 DEF AttemptOk, IInv, StoresInv
    <3> QED BY <2>1, <2>2, <3>1 DEF AttemptOk, IsPrefix
  <2>3. at[w].pc \in {"complete", "ack", "purge"} /\ dest.creator = w =>
           dest.right = 0..(FileSize - 1) /\ dest.length = FileSize
    BY DEF IInv, AttemptsInv, AttemptInv, FileOk
  <2> QED BY <2>2, <2>3
<1> QED BY <1>1, Invariant, PTL

LEMMA PrefixIsValid ==
  ASSUME NEW s \in Store, IsPrefix(s), s.size # 0
  PROVE  ValidPrefix(s.rows, s.size, s.next)
<1>1. s.rows = {Row(k, s.size) : k \in 0..(s.next - 1)} /\ s.next <= TotalChunks(s.size)
  BY DEF IsPrefix
<1>2. \A k \in 0..(s.next - 1) : Row(k, s.size).index = k /\ Row(k, s.size).cut = s.size
  BY DEF Row
<1>3. {r.index : r \in s.rows} = 0..(s.next - 1)
  <2>1. ASSUME NEW k \in 0..(s.next - 1) PROVE k \in {r.index : r \in s.rows}
    <3>1. Row(k, s.size) \in s.rows
      BY <1>1
    <3> QED BY <1>2, <3>1
  <2>2. ASSUME NEW r \in s.rows PROVE r.index \in 0..(s.next - 1)
    BY <1>1, <1>2
  <2> QED BY <2>1, <2>2
<1>4. \A r \in s.rows : r.cut = s.size
  BY <1>1, <1>2
<1> QED BY <1>1, <1>3, <1>4 DEF ValidPrefix

\* The checkpoint an attempt resumes from passes every check on the way: the offset is
\* aligned for the server's chunk size, leads back to the next chunk, and the store opens.
THEOREM ResumeSucceeds == Spec => []ResumeIsAccepted
<1>1. IInv => ResumeIsAccepted
  <2> SUFFICES ASSUME IInv, NEW w \in Attempts, at[w].solo, ~at[w].told, at[w].offset > 0,
                      at[w].pc \in {"request", "ready", "opened"}
               PROVE  LET a == at[w]
                          s == stores[path]
                      IN /\ path # 0
                         /\ Aligned(a.offset, s.size)
                         /\ StartChunk(a.offset, s.size) = s.next
                         /\ a.pc = "opened" /\ a.size = s.size =>
                              Initializes(s, a.size, s.next)
    BY DEF ResumeIsAccepted
  <2>1. /\ path # 0 /\ stores[path].size # 0
        /\ at[w].offset = ResumeOffset(stores[path].size, stores[path].next)
    BY DEF IInv, AttemptsInv, AttemptInv, SoloOk, Undisturbed
  <2>2. path \in 1..Len(stores) /\ stores[path] \in Store /\ IsPrefix(stores[path])
    <3>1. path \in 1..Len(stores)
      BY <2>1, StoresTyped DEF IInv, TypeOK
    <3> QED BY <3>1, StoresTyped DEF IInv, StoresInv
  <2>3. /\ stores[path].size \in Nat \ {0} /\ stores[path].next \in Nat
        /\ stores[path].next <= TotalChunks(stores[path].size)
    BY <2>1, <2>2 DEF Store, IsPrefix
  <2>4. ValidPrefix(stores[path].rows, stores[path].size, stores[path].next)
    BY <2>1, <2>2, PrefixIsValid
  <2> QED BY <2>1, <2>3, <2>4, OffsetLeadsBack DEF Initializes
<1> QED BY <1>1, Invariant, PTL

\* What was downloaded is given up only after the server has heard of the completion or
\* on a permanent error, as long as nobody else is at the task (prepare_chunk_store, purge
\* and the error path of execute_download).
THEOREM ChunksSurvive == Spec => ChunksAreKept
<1> DEFINE Keeps(w) ==
      /\ at'[w] # at[w]
      /\ at[w].solo /\ at'[w].solo /\ ~at[w].told /\ ~at'[w].told
      /\ HasChunks /\ path' # path
      => acked \/ at[w].result = "permanent"
<1>1. IInv /\ [Next]_vars => [\A w \in Attempts : Keeps(w)]_vars
  <2> SUFFICES ASSUME IInv, Next, NEW w \in Attempts,
                      at'[w] # at[w], at[w].solo, at'[w].solo, ~at[w].told, ~at'[w].told,
                      HasChunks, path' # path
               PROVE  acked \/ at[w].result = "permanent"
    OBVIOUS
  <2>1. /\ path \in 1..Len(stores) /\ stores[path] \in Store /\ IsPrefix(stores[path])
        /\ stores[path].next > 0
    <3>1. path \in 1..Len(stores)
      BY StoresTyped DEF IInv, TypeOK, HasChunks
    <3> QED BY <3>1, StoresTyped DEF IInv, StoresInv, HasChunks
  <2>2. stores[path].size # 0 /\ stores[path].next # 0
    BY <2>1 DEF IsPrefix, Store
  <2>3. at[w] \in AttemptType /\ AttemptInv(w)
    BY AttemptTyped
  <2>4. ~Stop
    <3> SUFFICES ASSUME Stop PROVE FALSE
      OBVIOUS
    <3>1. at'[w] = [at[w] EXCEPT !.told = Busy(w)]
      BY DEF Stop
    <3>2. ~Busy(w)
      BY <2>3, <3>1 DEF AttemptType
    <3>3. at[w].told = FALSE /\ Busy(w) = FALSE
      BY <2>3, <3>2 DEF AttemptType, Busy
    <3>4. at'[w] = [at[w] EXCEPT !.told = FALSE]
      BY <3>1, <3>3
    <3> QED BY <2>3, <3>3, <3>4 DEF AttemptType
  <2>5. ~Crash
    BY DEF Crash, files
  <2>6. PICK u \in Attempts : Advance(u)
    BY <2>4, <2>5 DEF Next
  <2>7. u = w
    <3> SUFFICES ASSUME u # w PROVE FALSE
      OBVIOUS
    <3>1. ~Begin(u)
      <4> SUFFICES ASSUME Begin(u) PROVE FALSE
        OBVIOUS
      <4>1. at'[w] = [at[w] EXCEPT !.solo = at[w].solo /\ ~Busy(w)]
        BY DEF Begin
      <4>2. (at[w].solo /\ ~Busy(w)) = at[w].solo
        BY <2>3, <4>1 DEF AttemptType
      <4> QED BY <2>3, <4>1, <4>2 DEF AttemptType
    <3>2. Busy(u) /\ path' # path => at'[w] = at[w]
      BY <2>6, <3>1 DEF Advance, Metadata, OpenStore, InitializeCheckpoint, ReceiveChunk,
                        ReceiveKey, DecryptChunk, Verify, SendComplete, ReceiveCompletion,
                        Purge, Fails, Interrupt, Leave, Return, Goto, files, IInv, TypeOK
    <3>3. Busy(u)
      BY <2>6, <3>1 DEF Advance, Metadata, OpenStore, InitializeCheckpoint, ReceiveChunk,
                        ReceiveKey, DecryptChunk, Verify, SendComplete, ReceiveCompletion,
                        Purge, PurgePoint, Fails, Interrupt, Leave, Waiting, Busy
    <3> QED BY <3>2, <3>3
  <2>8. ~Begin(w)
    <3> SUFFICES ASSUME Begin(w) PROVE FALSE
      OBVIOUS
    <3>1. resumable => ValidPrefix(stores[path].rows, stores[path].size, stores[path].next)
      BY <2>1, <2>2, PrefixIsValid
    <3> QED BY <2>1, <2>2, <3>1 DEF Begin, EmptyStore
  <2>9. ~OpenStore(w)
    <3> SUFFICES ASSUME OpenStore(w) PROVE FALSE
      OBVIOUS
    <3>1. resumable /\ path # 0 /\ at[w].offset = 0 /\ at[w].pc = "ready"
      BY <2>1, <2>3 DEF OpenStore
    <3> QED BY <2>2, <2>3, <3>1 DEF AttemptInv, SoloOk, Undisturbed
  <2>10. Purge(w) \/ Leave(w)
    BY <2>6, <2>7, <2>8, <2>9
       DEF Advance, Metadata, InitializeCheckpoint, ReceiveChunk, ReceiveKey, DecryptChunk,
           Verify, SendComplete, ReceiveCompletion, Fails, Interrupt, files
  <2>11. CASE Purge(w)
    BY <2>3, <2>11 DEF Purge, PurgePoint, AttemptInv
  <2>12. CASE Leave(w)
    BY <2>12 DEF Leave
  <2> QED BY <2>10, <2>11, <2>12
<1> QED BY <1>1, Invariant, PTL DEF Spec, ChunksAreKept

-----------------------------------------------------------------------------
(* What the queue sees of a transfer *)

\* Only attempt w changes.
LEMMA SeenOf ==
  ASSUME IInv, NEW w \in Attempts, at' = [at EXCEPT ![w] = at'[w]]
  PROVE  /\ PhasesSeen' = [PhasesSeen EXCEPT ![w] = Phase(at'[w])]
         /\ ToldSeen' = [ToldSeen EXCEPT ![w] = at'[w].told]
         /\ ResultsSeen' = [ResultsSeen EXCEPT ![w] = at'[w].result]
<1>1. \A v \in Attempts : v # w => at'[v] = at[v]
  BY DEF IInv, TypeOK
<1> QED BY <1>1 DEF PhasesSeen, ToldSeen, ResultsSeen

LEMMA SeenAt ==
  ASSUME NEW w \in Attempts
  PROVE  /\ PhasesSeen[w] = Phase(at[w]) /\ ToldSeen[w] = at[w].told
         /\ ResultsSeen[w] = at[w].result
BY DEF PhasesSeen, ToldSeen, ResultsSeen

\* It only moves within a phase, or to another.
LEMMA SeenMove ==
  ASSUME IInv, NEW w \in Attempts, at' = [at EXCEPT ![w] = at'[w]],
         at'[w].told = at[w].told, at'[w].result = at[w].result
  PROVE  /\ PhasesSeen' = [PhasesSeen EXCEPT ![w] = Phase(at'[w])]
         /\ ToldSeen' = ToldSeen /\ ResultsSeen' = ResultsSeen
         /\ Phase(at'[w]) = Phase(at[w]) => PhasesSeen' = PhasesSeen
<1>1. /\ PhasesSeen' = [PhasesSeen EXCEPT ![w] = Phase(at'[w])]
      /\ ToldSeen' = [ToldSeen EXCEPT ![w] = ToldSeen[w]]
      /\ ResultsSeen' = [ResultsSeen EXCEPT ![w] = ResultsSeen[w]]
  BY SeenOf, SeenAt
<1>2. /\ PhasesSeen = [v \in Attempts |-> PhasesSeen[v]]
      /\ ToldSeen = [v \in Attempts |-> ToldSeen[v]]
      /\ ResultsSeen = [v \in Attempts |-> ResultsSeen[v]]
  BY DEF PhasesSeen, ToldSeen, ResultsSeen
<1> HIDE DEF PhasesSeen, ToldSeen, ResultsSeen
<1>3. ToldSeen' = ToldSeen /\ ResultsSeen' = ResultsSeen
  BY <1>1, <1>2
<1>4. Phase(at'[w]) = Phase(at[w]) => PhasesSeen' = PhasesSeen
  BY <1>1, <1>2, SeenAt
<1> QED BY <1>1, <1>3, <1>4

LEMMA ReturnSeen ==
  ASSUME IInv, NEW w \in Attempts, NEW result \in {"none", "ok", "transient", "permanent"},
         Return(w, result), resumable' = resumable
  PROVE  Contract!Returns(w, result)
<1>1. at'[w].pc = "returned" /\ at'[w].told = at[w].told /\ at'[w].result = result
  BY ReturnTyped DEF IInv
<1>2. at' = [at EXCEPT ![w] = at'[w]]
  BY DEF Return, IInv, TypeOK
<1>3. Phase(at'[w]) = "returned"
  BY <1>1 DEF Phase
<1>4. /\ PhasesSeen' = [PhasesSeen EXCEPT ![w] = "returned"]
      /\ ToldSeen' = [ToldSeen EXCEPT ![w] = ToldSeen[w]]
      /\ ResultsSeen' = [ResultsSeen EXCEPT ![w] = result]
  BY <1>1, <1>2, <1>3, SeenOf, SeenAt
<1>5. ToldSeen' = ToldSeen
  BY <1>4 DEF ToldSeen
<1> QED BY <1>4, <1>5 DEF Contract!Returns

\* What decides about the store and the output.
LEMMA FilesSeen ==
  ASSUME path' = path, dest' = dest
  PROVE  UNCHANGED Contract!files
BY DEF Contract!files, OutputSeen

LEMMA ErrorSeen ==
  ASSUME IInv, NEW w \in Attempts,
         \/ at[w].pc \in Waiting /\ Return(w, "transient")
         \/ at[w].pc \notin {"idle", "returned"} /\ Return(w, "permanent"),
         UNCHANGED <<path, dest, acked, resumable>>
  PROVE  Contract!Next
<1>1. at[w].pc \in Waiting \union {"idle", "opened", "decrypt", "purge", "returned"}
  BY AttemptTyped DEF AttemptType
<1>2. /\ at[w].pc \in Waiting => Phase(at[w]) \in {"request", "chunks", "ack"}
      /\ at[w].pc \notin {"idle", "returned"} =>
           Phase(at[w]) \in {"request", "chunks", "ack", "decrypt"}
  BY <1>1 DEF Phase, Waiting
<1>3. UNCHANGED Contract!files
  BY FilesSeen
<1>4. Contract!Error(w)
  BY <1>2, <1>3, SeenAt, ReturnSeen DEF Contract!Error, Contract!Waiting
<1> QED BY <1>4 DEF Contract!Next, Contract!Attempt

\* A step within a phase that leaves what the queue sees of the files.
LEMMA WithinPhase ==
  ASSUME IInv, NEW w \in Attempts, at' = [at EXCEPT ![w] = at'[w]],
         at'[w].told = at[w].told, at'[w].result = at[w].result,
         Phase(at'[w]) = Phase(at[w]),
         UNCHANGED <<path, dest, acked, resumable>>
  PROVE  UNCHANGED Contract!vars
<1>1. UNCHANGED <<PhasesSeen, ToldSeen, ResultsSeen>>
  BY SeenMove
<1> QED BY <1>1, FilesSeen DEF Contract!vars

LEMMA MetadataSeen ==
  ASSUME IInv, NEW w \in Attempts, Metadata(w)
  PROVE  [Contract!Next]_(Contract!vars)
<1>1. PICK size \in 1..at[w].limit :
        IF at[w].offset = 0 \/ Aligned(at[w].offset, size)
        THEN at' = [at EXCEPT ![w].pc = "ready", ![w].size = size]
        ELSE Return(w, "permanent")
  BY DEF Metadata
<1>2. at[w].pc = "request" /\ UNCHANGED <<path, dest, acked, resumable>>
  BY DEF Metadata, files, counters
<1>3. CASE at' = [at EXCEPT ![w].pc = "ready", ![w].size = size]
  <2>1. /\ at' = [at EXCEPT ![w] = at'[w]] /\ at'[w].pc = "ready"
        /\ at'[w].told = at[w].told /\ at'[w].result = at[w].result
    BY <1>3, AttemptTyped DEF IInv, TypeOK, AttemptType
  <2>2. Phase(at'[w]) = Phase(at[w])
    BY <1>2, <2>1 DEF Phase
  <2> QED BY <1>2, <2>1, <2>2, WithinPhase
<1>4. CASE Return(w, "permanent")
  BY <1>2, <1>4, ErrorSeen
<1> QED BY <1>1, <1>3, <1>4

LEMMA OpenStoreSeen ==
  ASSUME IInv, NEW w \in Attempts, OpenStore(w)
  PROVE  Contract!Next
<1>1. /\ at[w].pc = "ready" /\ UNCHANGED <<dest, acked, resumable>>
      /\ at' = [at EXCEPT ![w] = at'[w]] /\ at'[w].pc = "opened"
      /\ at'[w].told = at[w].told /\ at'[w].result = at[w].result
  BY AttemptTyped DEF OpenStore, counters, IInv, TypeOK, AttemptType
<1>2. (path' # 0) = (path # 0 \/ resumable)
  <2>1. Len(stores) \in Nat /\ resumable \in BOOLEAN
    BY StoresTyped DEF IInv, TypeOK
  <2>2. path' = IF ~resumable THEN path
                ELSE IF path = 0 \/ at[w].offset = 0 THEN Len(stores) + 1 ELSE path
    BY <2>1 DEF OpenStore
  <2> QED BY <2>1, <2>2
<1>3. Phase(at[w]) = "request" /\ Phase(at'[w]) = "chunks"
  BY <1>1 DEF Phase
<1>4. /\ PhasesSeen' = [PhasesSeen EXCEPT ![w] = "chunks"]
      /\ UNCHANGED <<ToldSeen, ResultsSeen>>
  BY <1>1, <1>3, SeenMove
<1>5. OutputSeen' = OutputSeen
  BY <1>1 DEF OutputSeen
<1>6. Contract!Metadata(w)
  BY <1>1, <1>2, <1>3, <1>4, <1>5, SeenAt DEF Contract!Metadata, Contract!Enter
<1> QED BY <1>6 DEF Contract!Next, Contract!Attempt

LEMMA InitializeCheckpointSeen ==
  ASSUME IInv, NEW w \in Attempts, InitializeCheckpoint(w)
  PROVE  [Contract!Next]_(Contract!vars)
<1> DEFINE start == StartChunk(at[w].offset, at[w].size)
<1>1. at[w].pc = "opened" /\ UNCHANGED <<path, dest, acked, resumable>>
  BY DEF InitializeCheckpoint, counters
<1>2. CASE at' = [at EXCEPT ![w].pc = "chunks", ![w].next = start,
                            ![w].offset = 0, ![w].limit = 0]
  <2> HIDE DEF start
  <2>1. /\ at' = [at EXCEPT ![w] = at'[w]] /\ at'[w].pc = "chunks"
        /\ at'[w].told = at[w].told /\ at'[w].result = at[w].result
    BY <1>2, AttemptTyped DEF IInv, TypeOK, AttemptType
  <2>2. Phase(at'[w]) = Phase(at[w])
    BY <1>1, <2>1 DEF Phase
  <2> QED BY <1>1, <2>1, <2>2, WithinPhase
<1>3. CASE Return(w, "permanent")
  BY <1>1, <1>3, ErrorSeen
<1> QED BY <1>2, <1>3 DEF InitializeCheckpoint

LEMMA ReceiveChunkSeen ==
  ASSUME IInv, NEW w \in Attempts, ReceiveChunk(w)
  PROVE  [Contract!Next]_(Contract!vars)
<1>1. at[w].pc = "chunks" /\ UNCHANGED <<path, dest, acked, resumable>>
  BY DEF ReceiveChunk, counters
<1>2. CASE at' = [at EXCEPT ![w].next = @ + 1]
  <2>1. /\ at' = [at EXCEPT ![w] = at'[w]] /\ at'[w].pc = "chunks"
        /\ at'[w].told = at[w].told /\ at'[w].result = at[w].result
    BY <1>1, <1>2, AttemptTyped DEF IInv, TypeOK, AttemptType
  <2>2. Phase(at'[w]) = Phase(at[w])
    BY <1>1, <2>1 DEF Phase
  <2> QED BY <1>1, <2>1, <2>2, WithinPhase
<1>3. CASE Return(w, "permanent")
  BY <1>1, <1>3, ErrorSeen
<1> QED BY <1>2, <1>3 DEF ReceiveChunk

LEMMA ReceiveKeySeen ==
  ASSUME IInv, NEW w \in Attempts, ReceiveKey(w)
  PROVE  Contract!Next
<1>1. /\ at[w].pc = "chunks" /\ UNCHANGED <<path, acked, resumable>> /\ dest' = Created(w)
      /\ at' = [at EXCEPT ![w] = at'[w]] /\ at'[w].pc = "decrypt"
      /\ at'[w].told = at[w].told /\ at'[w].result = at[w].result
  BY AttemptTyped DEF ReceiveKey, counters, IInv, TypeOK, AttemptType
<1>2. dest'.file # 0 /\ dest'.creator = w /\ dest'.length = 0
  <2> DEFINE n == IF dest.file = 0 THEN dest.made + 1 ELSE dest.made
  <2>1. dest.file \in Nat /\ dest.made \in Nat /\ (dest.file = 0 => n # 0)
    BY DEF IInv, TypeOK
  <2>2. dest' = [file |-> IF dest.file = 0 THEN n ELSE dest.file, made |-> n,
                 creator |-> w, right |-> {}, length |-> 0]
    BY <1>1 DEF Created, NoFile
  <2> HIDE DEF n
  <2> QED BY <2>1, <2>2
<1>3. OutputSeen' = "partial"
  BY <1>2, TransferAssumption DEF OutputSeen
<1>4. Phase(at[w]) = "chunks" /\ Phase(at'[w]) = "decrypt"
  BY <1>1 DEF Phase
<1>5. /\ PhasesSeen' = [PhasesSeen EXCEPT ![w] = "decrypt"]
      /\ UNCHANGED <<ToldSeen, ResultsSeen>>
  BY <1>1, <1>4, SeenMove
<1>6. Contract!Key(w)
  BY <1>1, <1>2, <1>3, <1>4, <1>5, SeenAt DEF Contract!Key, Contract!Enter
<1> QED BY <1>6 DEF Contract!Next, Contract!Attempt

\* The bytes decrypted next belong where they are written: a file that is complete
\* stays so, and one that is not has gained some.
LEMMA DecryptChunkSeen ==
  ASSUME IInv, NEW w \in Attempts, DecryptChunk(w)
  PROVE  [Contract!Next]_(Contract!vars)
<1> DEFINE size == at[w].size
           row == at[w].row
           n == ChunkLength(size, row)
<1>1. PICK r \in Remaining(w) :
        LET m == ChunkLength(r.cut, r.index) IN
        /\ \A other \in Remaining(w) : r.index <= other.index
        /\ dest' = IF at[w].file = dest.file
                   THEN Written(at[w].position, r.index * r.cut, m) ELSE dest
        /\ at' = [at EXCEPT ![w].row = r.index + 1, ![w].position = @ + m]
  BY DEF DecryptChunk
<1>2. at[w].pc = "decrypt" /\ UNCHANGED <<path, acked, resumable>>
  BY DEF DecryptChunk, counters
<1>3. /\ at' = [at EXCEPT ![w] = at'[w]] /\ at'[w].pc = "decrypt"
      /\ at'[w].told = at[w].told /\ at'[w].result = at[w].result
  BY <1>1, <1>2, AttemptTyped DEF IInv, TypeOK, AttemptType
<1>4. Phase(at[w]) = "decrypt" /\ Phase(at'[w]) = Phase(at[w])
  BY <1>2, <1>3 DEF Phase
<1>5. UNCHANGED <<PhasesSeen, ToldSeen, ResultsSeen>>
  BY <1>3, <1>4, SeenMove
<1>6. /\ dest'.creator = dest.creator
      /\ \/ OutputSeen' = OutputSeen
         \/ OutputSeen = "partial" /\ OutputSeen' = "complete"
  <2>1. CASE at[w].file # dest.file
    BY <1>1, <2>1 DEF OutputSeen
  <2>2. CASE at[w].file = dest.file
    <3>1. /\ r.index = row /\ r.cut = size /\ size \in Nat \ {0}
          /\ row \in Nat /\ row < TotalChunks(size)
      <4>1. r = Row(row, size) /\ size \in Nat \ {0} /\ row \in Nat /\ row < TotalChunks(size)
        BY <1>1, <1>2, DecryptInOrder
      <4> QED BY <4>1 DEF Row
    <3>2. at[w].position = ResumeOffset(size, row)
      BY <1>2, AttemptTyped DEF AttemptInv, AttemptOk
    <3>3. /\ at[w].position = row * size /\ n \in 1..FileSize
          /\ at[w].position + n \in 0..FileSize
      <4> HIDE DEF size, row
      <4>1. row + 1 \in Nat
        BY <3>1
      <4> QED BY <3>1, <3>2, <4>1, ChunkSpan
    <3>4. dest' = Written(at[w].position, at[w].position, n)
      <4>1. dest' = Written(at[w].position, r.index * r.cut, ChunkLength(r.cut, r.index))
        BY <1>1, <2>2
      <4> HIDE DEF size, row
      <4> QED BY <4>1, <3>1, <3>3
    <3> HIDE DEF n
    <3>5. dest \in File /\ at[w].position \in Nat /\ n \in Nat
      <4>1. at[w].position \in Nat
        BY AttemptTyped DEF AttemptType
      <4> QED BY <3>3, <4>1, TransferAssumption DEF IInv, TypeOK, File
    <3>6. /\ dest' \in File /\ dest'.creator = dest.creator /\ dest'.file = dest.file
          /\ dest.right \subseteq dest'.right
          /\ dest'.length \in Nat /\ dest.length \in Nat /\ dest.length <= dest'.length
      <4> DEFINE d == Written(at[w].position, at[w].position, n)
      <4>1. /\ d \in File /\ d.creator = dest.creator /\ d.file = dest.file
            /\ d.right = dest.right \union (at[w].position..((at[w].position + n) - 1))
            /\ d.length = IF dest.length < at[w].position + n
                          THEN at[w].position + n ELSE dest.length
        BY <3>3, <3>5, WrittenIs
      <4>2. dest' = d
        BY <3>4
      <4>3. dest.length \in Nat
        BY <3>5, TransferAssumption DEF File
      <4> HIDE DEF d
      <4> QED BY <3>3, <3>5, <4>1, <4>2, <4>3, TransferAssumption
    <3>7. dest'.right \subseteq 0..(FileSize - 1) /\ dest'.length <= FileSize
      BY <3>6, TransferAssumption DEF File
    <3>8. dest.right = 0..(FileSize - 1) => dest'.right = 0..(FileSize - 1)
      BY <3>6, <3>7
    <3>9. dest.length = FileSize => dest'.length = FileSize
      BY <3>6, <3>7, TransferAssumption
    <3> QED BY <3>6, <3>8, <3>9 DEF OutputSeen
  <2> QED BY <2>1, <2>2
<1>7. CASE OutputSeen' = OutputSeen
  BY <1>2, <1>5, <1>6, <1>7 DEF Contract!vars, Contract!files
<1>8. CASE OutputSeen = "partial" /\ OutputSeen' = "complete"
  <2>1. Contract!Write(w)
    BY <1>2, <1>4, <1>5, <1>6, <1>8, SeenAt DEF Contract!Write
  <2> QED BY <2>1 DEF Contract!Next, Contract!Attempt
<1> QED BY <1>6, <1>7, <1>8

LEMMA VerifySeen ==
  ASSUME IInv, IInv', NEW w \in Attempts, Verify(w)
  PROVE  Contract!Next
<1>1. at[w].pc = "decrypt" /\ UNCHANGED <<path, dest, acked, resumable>>
  BY DEF Verify, files, counters
<1>2. CASE SizeMatches /\ Goto(w, "complete")
  <2>1. /\ at' = [at EXCEPT ![w] = at'[w]] /\ at'[w].pc = "complete"
        /\ at'[w].told = at[w].told /\ at'[w].result = at[w].result
    BY <1>2, AttemptTyped DEF Goto, IInv, TypeOK, AttemptType
  <2>2. dest.creator = w => dest.right = 0..(FileSize - 1) /\ dest.length = FileSize
    BY <1>1, <2>1 DEF IInv, AttemptsInv, AttemptInv, FileOk
  <2>3. OutputSeen # "none" /\ (dest.creator = w => OutputSeen = "complete")
    BY <1>2, <2>2 DEF SizeMatches, OutputSeen
  <2>4. Phase(at[w]) = "decrypt" /\ Phase(at'[w]) = "ack"
    BY <1>1, <2>1 DEF Phase
  <2>5. /\ PhasesSeen' = [PhasesSeen EXCEPT ![w] = "ack"]
        /\ UNCHANGED <<ToldSeen, ResultsSeen>>
    BY <2>1, <2>4, SeenMove
  <2>6. Contract!Verify(w)
    BY <1>1, <2>3, <2>4, <2>5, FilesSeen, SeenAt DEF Contract!Verify, Contract!Enter
  <2> QED BY <2>6 DEF Contract!Next, Contract!Attempt
<1>3. CASE Return(w, "permanent")
  BY <1>1, <1>3, ErrorSeen
<1> QED BY <1>2, <1>3 DEF Verify

LEMMA CompletionSeen ==
  ASSUME IInv, NEW w \in Attempts, SendComplete(w) \/ ReceiveCompletion(w)
  PROVE  [Contract!Next]_(Contract!vars)
<1>1. PICK point \in {"ack", "purge"} :
        /\ Goto(w, point) /\ at[w].pc \in {"complete", "ack"}
        /\ acked' = TRUE \/ acked' = acked
        /\ UNCHANGED <<path, dest, resumable>>
  BY DEF SendComplete, ReceiveCompletion, files, counters
<1>2. /\ at' = [at EXCEPT ![w] = at'[w]] /\ at'[w].pc = point
      /\ at'[w].told = at[w].told /\ at'[w].result = at[w].result
  BY <1>1, AttemptTyped DEF Goto, IInv, TypeOK, AttemptType
<1>3. Phase(at[w]) = "ack" /\ Phase(at'[w]) = "ack"
  BY <1>1, <1>2 DEF Phase
<1>4. UNCHANGED <<PhasesSeen, ToldSeen, ResultsSeen>>
  BY <1>2, <1>3, SeenMove
<1>5. CASE acked' = TRUE
  <2>1. Contract!Tell(w)
    BY <1>1, <1>3, <1>4, <1>5, FilesSeen, SeenAt DEF Contract!Tell
  <2> QED BY <2>1 DEF Contract!Next, Contract!Attempt
<1>6. CASE acked' = acked
  BY <1>1, <1>4, <1>6, FilesSeen DEF Contract!vars
<1> QED BY <1>1, <1>5, <1>6

LEMMA PurgeSeen ==
  ASSUME IInv, NEW w \in Attempts, Purge(w)
  PROVE  Contract!Next
<1>1. /\ at[w].pc = "purge" /\ Return(w, "ok") /\ UNCHANGED <<dest, acked, resumable>>
      /\ path' = IF resumable THEN 0 ELSE path
  BY DEF Purge, PurgePoint, counters
<1>2. acked /\ resumable \in BOOLEAN
  BY <1>1, AttemptTyped DEF AttemptInv, IInv, TypeOK
<1>3. Phase(at[w]) = "ack"
  BY <1>1 DEF Phase
<1>4. (path' # 0) = (path # 0 /\ ~resumable)
  BY <1>1, <1>2
<1>5. OutputSeen' = OutputSeen
  BY <1>1 DEF OutputSeen
<1>6. Contract!Returns(w, "ok")
  BY <1>1, ReturnSeen
<1>7. Contract!Acknowledge(w)
  BY <1>1, <1>2, <1>3, <1>4, <1>5, <1>6, SeenAt DEF Contract!Acknowledge
<1> QED BY <1>7 DEF Contract!Next, Contract!Attempt

LEMMA FailsSeen ==
  ASSUME IInv, NEW w \in Attempts, Fails(w)
  PROVE  Contract!Next
BY ErrorSeen DEF Fails, files, counters

LEMMA InterruptSeen ==
  ASSUME IInv, NEW w \in Attempts, Interrupt(w)
  PROVE  Contract!Next
<1>1. /\ at[w].pc \in Waiting /\ at[w].told /\ Return(w, "none")
      /\ UNCHANGED <<path, dest, acked, resumable>>
  BY DEF Interrupt, files, counters
<1>2. Phase(at[w]) \in {"request", "chunks", "ack"}
  BY <1>1 DEF Phase, Waiting
<1>3. Contract!Interrupt(w)
  BY <1>1, <1>2, FilesSeen, ReturnSeen, SeenAt DEF Contract!Interrupt, Contract!Waiting
<1> QED BY <1>3 DEF Contract!Next, Contract!Attempt

\* Before an attempt has returned it has no result.
ResultInv == \A w \in Attempts : PhasesSeen[w] # "returned" => ResultsSeen[w] = "none"

\* A valid checkpoint is never removed, and no store is ever without one.
LEMMA BeginSeen ==
  ASSUME IInv, ResultInv, NEW w \in Attempts, Begin(w)
  PROVE  Contract!Next
<1> DEFINE s == IF resumable /\ path # 0 THEN stores[path] ELSE EmptyStore
           hint == s.size # 0 /\ ValidPrefix(s.rows, s.size, s.next)
           offset == IF hint THEN ResumeOffset(s.size, s.next) ELSE 0
           solo == \A u \in Attempts : ~Busy(u)
<1>1. /\ at[w].pc = "idle" /\ \A v \in Attempts : at[v].pc # "idle" => at[v].told
      /\ path' = IF s.size # 0 /\ ~hint THEN 0 ELSE path
      /\ UNCHANGED <<dest, acked, resumable>>
  BY DEF Begin, Busy
<1>2. PICK preferred \in MinChunkSize..MaxChunkSize :
        at' = [v \in Attempts |->
                 IF v = w
                 THEN [Idle EXCEPT !.pc = "request", !.solo = solo, !.offset = offset,
                                   !.limit = IF hint THEN Clamp(s.size) ELSE preferred]
                 ELSE [at[v] EXCEPT !.solo = @ /\ ~Busy(v)]]
  BY DEF Begin
<1>3. path' = path
  <2>1. s \in Store /\ IsPrefix(s)
    <3>1. EmptyStore \in Store /\ IsPrefix(EmptyStore)
      BY DEF EmptyStore, Store, IsPrefix
    <3>2. path # 0 => path \in 1..Len(stores)
      BY StoresTyped DEF IInv, TypeOK
    <3> QED BY <3>1, <3>2, StoresTyped DEF IInv, StoresInv
  <2> HIDE DEF s
  <2>2. s.size # 0 => hint
    BY <2>1, PrefixIsValid
  <2> QED BY <1>1, <2>2
<1> HIDE DEF s, hint, offset, solo
<1>4. at'[w].pc = "request" /\ at'[w].told = FALSE /\ at'[w].result = "none"
  BY <1>2 DEF Idle
<1>5. ASSUME NEW v \in Attempts \ {w}
      PROVE  at'[v].pc = at[v].pc /\ at'[v].told = at[v].told /\ at'[v].result = at[v].result
  <2> DEFINE flag == at[v].solo /\ ~Busy(v)
  <2>1. at'[v] = [at[v] EXCEPT !.solo = flag]
    BY <1>2
  <2> HIDE DEF flag
  <2> QED BY <2>1, AttemptTyped DEF AttemptType
<1>6. Phase(at[w]) = "idle" /\ Phase(at'[w]) = "request"
  BY <1>1, <1>4 DEF Phase
<1>7. \A v \in Attempts \ {w} : Phase(at'[v]) = Phase(at[v])
  BY <1>5 DEF Phase
<1>8. ResultsSeen[w] = "none"
  BY <1>6, SeenAt DEF ResultInv
<1>9. /\ PhasesSeen' = [PhasesSeen EXCEPT ![w] = "request"]
      /\ ToldSeen' = [ToldSeen EXCEPT ![w] = FALSE]
      /\ ResultsSeen' = ResultsSeen
  BY <1>4, <1>5, <1>6, <1>7, <1>8 DEF PhasesSeen, ToldSeen, ResultsSeen
<1>10. \A v \in Attempts : PhasesSeen[v] # "idle" => ToldSeen[v]
  <2>1. \A v \in Attempts : Phase(at[v]) # "idle" => at[v].pc # "idle"
    BY DEF Phase
  <2> QED BY <1>1, <2>1, SeenAt
<1>11. Contract!Begin(w)
  BY <1>1, <1>3, <1>6, <1>9, <1>10, FilesSeen, SeenAt DEF Contract!Begin, Contract!Enter
<1> QED BY <1>11 DEF Contract!Next, Contract!Attempt

LEMMA LeaveSeen ==
  ASSUME IInv, NEW w \in Attempts, Leave(w)
  PROVE  Contract!Next
<1>1. /\ at[w].pc = "returned" /\ UNCHANGED <<acked, resumable>>
      /\ at' = [at EXCEPT ![w] = at'[w]]
      /\ at'[w].pc = "idle" /\ at'[w].told = FALSE /\ at'[w].result = "none"
  BY DEF Leave, counters, Idle, IInv, TypeOK
<1>2. Phase(at[w]) = "returned" /\ Phase(at'[w]) = "idle"
  BY <1>1 DEF Phase
<1>3. /\ PhasesSeen' = [PhasesSeen EXCEPT ![w] = "idle"]
      /\ ToldSeen' = [ToldSeen EXCEPT ![w] = FALSE]
      /\ ResultsSeen' = [ResultsSeen EXCEPT ![w] = "none"]
  BY <1>1, <1>2, SeenOf
<1>4. \/ path' = path /\ dest' = dest
      \/ at[w].told /\ path' = 0 /\ dest' = NoFile(dest.made)
      \/ ~at[w].told /\ at[w].result = "permanent" /\ path' = 0 /\ dest' = dest
  BY DEF Leave
<1>5. \/ UNCHANGED Contract!files
      \/ at[w].told /\ path' = 0 /\ dest'.creator = NoAttempt /\ OutputSeen' = "none"
      \/ /\ ~at[w].told /\ at[w].result = "permanent"
         /\ path' = 0 /\ dest'.creator = dest.creator /\ OutputSeen' = OutputSeen
  <2>1. CASE path' = path /\ dest' = dest
    BY <2>1, FilesSeen
  <2>2. CASE at[w].told /\ path' = 0 /\ dest' = NoFile(dest.made)
    BY <2>2 DEF NoFile, OutputSeen
  <2>3. CASE ~at[w].told /\ at[w].result = "permanent" /\ path' = 0 /\ dest' = dest
    BY <2>3 DEF OutputSeen
  <2> QED BY <1>4, <2>1, <2>2, <2>3
<1>6. Contract!Leave(w)
  BY <1>1, <1>2, <1>3, <1>5, SeenAt DEF Contract!Leave, Contract!Enter
<1> QED BY <1>6 DEF Contract!Next, Contract!Attempt

LEMMA StopSeen == ASSUME IInv, Stop PROVE Contract!Next
<1>1. /\ at' = [w \in Attempts |-> [at[w] EXCEPT !.told = Busy(w)]]
      /\ path' \in {path, 0} /\ UNCHANGED <<dest, acked, resumable>>
  BY DEF Stop, counters
<1>2. ASSUME NEW v \in Attempts
      PROVE  /\ Phase(at'[v]) = Phase(at[v]) /\ at'[v].result = at[v].result
             /\ at'[v].told = (Phase(at[v]) # "idle")
  <2> DEFINE flag == Busy(v)
  <2>1. at'[v] = [at[v] EXCEPT !.told = flag]
    BY <1>1
  <2>2. flag = (Phase(at[v]) # "idle")
    BY AttemptTyped DEF Phase, Busy, AttemptType, Waiting
  <2> HIDE DEF flag
  <2>3. at'[v].pc = at[v].pc /\ at'[v].result = at[v].result /\ at'[v].told = flag
    BY <2>1, AttemptTyped DEF AttemptType
  <2>4. Phase(at'[v]) = Phase(at[v])
    BY <2>3 DEF Phase
  <2> QED BY <2>2, <2>3, <2>4
<1>3. /\ PhasesSeen' = PhasesSeen /\ ResultsSeen' = ResultsSeen
      /\ ToldSeen' = [v \in Attempts |-> PhasesSeen[v] # "idle"]
  BY <1>2 DEF PhasesSeen, ResultsSeen, ToldSeen
<1>4. (path' # 0) \in {path # 0, FALSE}
  BY <1>1
<1>5. OutputSeen' = OutputSeen
  BY <1>1 DEF OutputSeen
<1>6. Contract!Stop
  BY <1>1, <1>3, <1>4, <1>5 DEF Contract!Stop
<1> QED BY <1>6 DEF Contract!Next

LEMMA IdleSeen ==
  ASSUME NEW v \in Attempts, at[v] = Idle
  PROVE  Phase(at[v]) = "idle" /\ at[v].told = FALSE /\ at[v].result = "none"
BY DEF Idle, Phase

LEMMA CrashSeen == ASSUME Crash PROVE Contract!Next
<1>1. /\ \A v \in Attempts : at'[v] = Idle
      /\ UNCHANGED <<path, dest, acked, resumable>>
  BY DEF Crash, files
<1>2. Phase(Idle) = "idle" /\ Idle.told = FALSE /\ Idle.result = "none"
  BY DEF Idle, Phase
<1>3. /\ PhasesSeen' = [v \in Attempts |-> "idle"]
      /\ ToldSeen' = [v \in Attempts |-> FALSE]
      /\ ResultsSeen' = [v \in Attempts |-> "none"]
  BY <1>1, <1>2 DEF PhasesSeen, ToldSeen, ResultsSeen
<1>4. Contract!Crash
  BY <1>1, <1>3, FilesSeen DEF Contract!Crash
<1> QED BY <1>4 DEF Contract!Next

LEMMA InitSeen == Init => ResultInv /\ Contract!Init
<1> SUFFICES ASSUME Init PROVE ResultInv /\ Contract!Init
  OBVIOUS
<1>1. Phase(Idle) = "idle" /\ Idle.told = FALSE /\ Idle.result = "none"
  BY DEF Idle, Phase
<1>2. /\ PhasesSeen = [v \in Attempts |-> "idle"]
      /\ ToldSeen = [v \in Attempts |-> FALSE]
      /\ ResultsSeen = [v \in Attempts |-> "none"]
  BY <1>1 DEF Init, PhasesSeen, ToldSeen, ResultsSeen
<1>3. OutputSeen = "none" /\ dest.creator = NoAttempt /\ path = 0
  BY DEF Init, NoFile, OutputSeen
<1>4. acked = FALSE /\ resumable \in BOOLEAN
  BY DEF Init
<1> QED BY <1>2, <1>3, <1>4 DEF ResultInv, Contract!Init

LEMMA NextSeen ==
  IInv /\ ResultInv /\ [Next]_vars => [Contract!Next]_(Contract!vars)
<1> SUFFICES ASSUME IInv, ResultInv, [Next]_vars PROVE [Contract!Next]_(Contract!vars)
  OBVIOUS
<1>1. IInv'
  BY NextOk
<1>2. ASSUME NEW w \in Attempts, Advance(w) PROVE [Contract!Next]_(Contract!vars)
  BY <1>1, <1>2, BeginSeen, MetadataSeen, OpenStoreSeen, InitializeCheckpointSeen,
     ReceiveChunkSeen, ReceiveKeySeen, DecryptChunkSeen, VerifySeen, CompletionSeen,
     PurgeSeen, FailsSeen, InterruptSeen, LeaveSeen
     DEF Advance
<1>3. CASE UNCHANGED vars
  BY <1>3 DEF vars, files, counters, PhasesSeen, ToldSeen, ResultsSeen, OutputSeen,
              Contract!vars, Contract!files
<1> QED BY <1>2, <1>3, StopSeen, CrashSeen DEF Next

\* The queue's side of it: a result comes with the return, and goes with the attempt.
LEMMA ResultKept == ResultInv /\ [Contract!Next]_(Contract!vars) => ResultInv'
<1> SUFFICES ASSUME ResultInv, [Contract!Next]_(Contract!vars) PROVE ResultInv'
  OBVIOUS
<1>1. DOMAIN PhasesSeen = Attempts /\ DOMAIN ResultsSeen = Attempts
  BY DEF PhasesSeen, ResultsSeen
<1>2. ASSUME NEW w \in Attempts, Contract!Attempt(w) PROVE ResultInv'
  BY <1>1, <1>2 DEF ResultInv, Contract!Attempt, Contract!Begin, Contract!Metadata,
     Contract!Key, Contract!Write, Contract!Verify, Contract!Tell, Contract!Acknowledge,
     Contract!Error, Contract!Interrupt, Contract!Leave, Contract!Enter, Contract!Returns
<1>3. CASE Contract!Stop
  BY <1>3 DEF ResultInv, Contract!Stop
<1>4. CASE Contract!Crash
  BY <1>4 DEF ResultInv, Contract!Crash
<1>5. CASE UNCHANGED Contract!vars
  BY <1>5 DEF ResultInv, Contract!vars
<1> QED BY <1>2, <1>3, <1>4, <1>5 DEF Contract!Next

\* Whatever the server's chunk sizes, overlapping attempts, resumptions and crashes do, a
\* transfer (run_download_transfer) keeps what TransferContract promises the queue that
\* runs it (execute_download): no store before the server has answered, no drop but where
\* it waits, the file whole before the server hears so, the store until it has answered.
THEOREM TransferKeepsContract == Spec => ImplementsContract
<1>1. Init => IInv /\ ResultInv /\ Contract!Init
  BY InitOk, InitSeen
<1>2. IInv /\ ResultInv /\ [Next]_vars =>
        (IInv /\ ResultInv)' /\ [Contract!Next]_(Contract!vars)
  BY NextOk, NextSeen, ResultKept
<1> QED BY <1>1, <1>2, PTL DEF Spec, ImplementsContract, Contract!Spec
=============================================================================
