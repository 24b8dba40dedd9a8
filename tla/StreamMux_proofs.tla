--------------------------- MODULE StreamMux_proofs ---------------------------
(***************************************************************************)
(* Theorems about one connection, for any number of calls, frames, shards, *)
(* places in the queues and calls given up.                                *)
(***************************************************************************)
EXTENDS StreamMux, FiniteSetTheorems, TLAPS

-----------------------------------------------------------------------------
(* The inductive invariant *)

Started == {c \in Calls : at[c] # "start"}

\* Identifiers are odd, and those taken are below the next one.
Numbered ==
  /\ nextId = (2 * Cardinality(Started) + 1) % IdSpace
  /\ \A c \in Started : number[c] % 2 = 1 /\ number[c] < 2 * Cardinality(Started)
  /\ \A c, d \in Started : number[c] = number[d] => c = d
  /\ \A c \in Calls \ Started : queue[c] = <<>> /\ read[c] = 0
  /\ \A i \in Ids : map[i] \in Calls => map[i] \in Started /\ number[map[i]] = i
  /\ \A i \in Ids : i % 2 = 1 /\ server[i].state # "closed" => i < 2 * Cardinality(Started)
  /\ \A i \in Ids : server[i].state = "closed" => server[i].sent = 0

\* The loop holds a frame it has not handed over.
InHand(l) == l.pc \in {"announce", "route", "deliver", "stuck"}

\* What a frame says of its stream.
Genuine(srv, f) ==
  /\ f.place \in 1..srv[f.id].sent
  /\ f.kind = "conclusion" =>
       f.place = srv[f.id].sent /\ srv[f.id].state = "concluded"

\* Frames of a stream are on the way in the order they were sent.
WireInOrder ==
  /\ \A k \in 1..Len(wire) : Genuine(server, wire[k])
  /\ \A k, l \in 1..Len(wire) : k < l /\ wire[k].id = wire[l].id => wire[k].place < wire[l].place
  /\ InHand(loop) \/ loop.pc = "conclude" =>
       /\ Genuine(server, loop.frame)
       /\ \A k \in 1..Len(wire) : wire[k].id = loop.frame.id => loop.frame.place < wire[k].place

\* A stream of the server whose frame is at hand keeps its place in the map.
Announced == loop.pc = "announce" => map[loop.frame.id] \in Incoming

\* A frame is on its way to the queue of its stream.
Carried(l, w, i, p) ==
  \/ InHand(l) /\ l.frame.id = i /\ l.frame.place = p
  \/ \E k \in 1..Len(w) : w[k].id = i /\ w[k].place = p

\* The owner of a stream has it and may read it.
Live(c) == at[c] \notin {"start", "done", "none"}

Got(c) == read[c] + Len(queue[c])

\* What a call has not got is on its way; without its entry in the map there is
\* nothing left to come.
NothingLost(c) ==
  /\ Got(c) <= server[number[c]].sent
  /\ \A p \in Nat : Carried(loop, wire, number[c], p)
                      <=> p \in (Got(c) + 1)..server[number[c]].sent
  /\ map[number[c]] # c =>
       server[number[c]].state = "concluded" /\ Got(c) = server[number[c]].sent

\* As long as the loop reads the socket.
Kept == Running => WireInOrder /\ Announced /\ \A c \in Calls : Live(c) => NothingLost(c)

IInv ==
  /\ TypeOK
  /\ Numbered
  /\ Kept
  /\ FramesInOrder
  /\ EndComesLast

-----------------------------------------------------------------------------
(* Identifiers *)

LEMMA SmallRemainder ==
  ASSUME NEW n \in Nat \ {0}, NEW x \in 0..(n - 1)
  PROVE  x % n = x
OBVIOUS

LEMMA CallsStarted ==
  /\ Cardinality(Started) \in Nat /\ Cardinality(Started) <= Cardinality(Calls)
  /\ \A c \in Calls \ Started : Cardinality(Started) < Cardinality(Calls)
  /\ Cardinality(Calls) \in Nat
<1>1. IsFiniteSet(Calls) /\ Started \subseteq Calls
  BY StreamAssumption DEF Started
<1> QED BY <1>1, FS_Subset, FS_CardinalityType

\* An identifier about to be taken has never been used.
LEMMA NextIdIsNew ==
  ASSUME TypeOK, Numbered, NEW c \in Calls, at[c] = "start"
  PROVE  /\ nextId = 2 * Cardinality(Started) + 1
         /\ nextId \in Ids /\ nextId % 2 = 1
         /\ server[nextId].sent = 0 /\ server[nextId].state = "closed"
<1> DEFINE n == Cardinality(Started)
<1>1. n \in Nat /\ 2 * n + 2 <= 2 * Cardinality(Calls) /\ Cardinality(Calls) \in Nat
  BY CallsStarted DEF Started
<1>2. nextId = (2 * n + 1) % IdSpace
  BY DEF Numbered
<1> HIDE DEF n
<1>3. IdSpace \in Nat \ {0} /\ 2 * n + 1 \in 0..(IdSpace - 1)
  BY <1>1, StreamAssumption
<1>4. nextId = 2 * n + 1
  BY <1>2, <1>3, SmallRemainder
<1>5. nextId \in Ids /\ nextId % 2 = 1
  BY <1>1, <1>3, <1>4 DEF Ids
<1>6. server[nextId].state = "closed"
  BY <1>1, <1>4, <1>5 DEF Numbered, n
<1>7. nextId = 2 * Cardinality(Started) + 1
  BY <1>4 DEF n
<1> QED BY <1>5, <1>6, <1>7 DEF Numbered

-----------------------------------------------------------------------------
(* Types *)

MapTyped ==
  /\ nextId \in Ids
  /\ map \in [Ids -> Streams \union {NoStream}]
  /\ number \in [Streams -> Ids]

QueuesTyped ==
  /\ queue \in [Streams -> Seq(Frames)]
  /\ \A s \in Streams : Len(queue[s]) <= Buffer[s]
  /\ read \in [Streams -> Nat]

Places == {"start", "send", "read", "final", "remove", "done", "none", "unused", "announced"}

OwnersTyped ==
  /\ at \in [Streams -> Places]
  /\ accepting \in Seq(Incoming) /\ Len(accepting) <= AcceptBuffer

FlagsTyped ==
  /\ listener \in {"listens", "left", "dropped"}
  /\ {closed, sinkOpen} \subseteq BOOLEAN

LoopTyped ==
  loop \in [pc : {"next", "announce", "route", "deliver", "conclude", "stuck", "close",
                  "ended"},
            frame : Frames]

ServerTyped ==
  /\ wire \in Seq(Frames)
  /\ peer \in {"up", "gone"}
  /\ server \in [Ids -> [state : {"closed", "open", "concluded"}, sent : Nat]]

CountsTyped == sent \in 0..MaxFrames /\ disturbances \in 0..MaxDisturbances

LEMMA TypeSplits ==
  /\ TypeOK <=> /\ MapTyped /\ QueuesTyped /\ OwnersTyped /\ FlagsTyped /\ LoopTyped
                /\ ServerTyped /\ CountsTyped
  /\ TypeOK' <=> /\ MapTyped' /\ QueuesTyped' /\ OwnersTyped' /\ FlagsTyped' /\ LoopTyped'
                 /\ ServerTyped' /\ CountsTyped'
BY DEF TypeOK, MapTyped, QueuesTyped, OwnersTyped, FlagsTyped, LoopTyped, ServerTyped,
       CountsTyped, Places

LEMMA BoundsTyped ==
  /\ Buffer \in [Streams -> Nat \ {0}] /\ AcceptBuffer \in Nat \ {0}
  /\ MaxFrames \in Nat /\ MaxDisturbances \in Nat /\ IdSpace \in Nat \ {0}
BY StreamAssumption

LEMMA KindsTyped == Kinds \subseteq {"process", "conclusion", "bad"} /\ Listened \in BOOLEAN
BY StreamAssumption

LEMMA NoFrameTyped == NoFrame \in Frames
BY BoundsTyped DEF NoFrame, Frames, Ids

LEMMA InitTyped == Init => TypeOK
<1> SUFFICES ASSUME Init
             PROVE /\ MapTyped /\ QueuesTyped /\ OwnersTyped /\ FlagsTyped /\ LoopTyped
                   /\ ServerTyped /\ CountsTyped
  BY TypeSplits
<1>1. MapTyped
  <2>1. 0 \in Ids /\ 1 \in Ids
    BY StreamAssumption DEF Ids
  <2> QED BY <2>1 DEF Init, MapTyped
<1>2. QueuesTyped
  <2>1. <<>> \in Seq(Frames) /\ Len(<<>>) = 0
    OBVIOUS
  <2> QED BY <2>1, BoundsTyped DEF Init, QueuesTyped
<1>3. OwnersTyped
  BY BoundsTyped DEF Init, OwnersTyped, Places
<1>4. FlagsTyped
  BY KindsTyped DEF Init, FlagsTyped
<1>5. LoopTyped
  BY NoFrameTyped DEF Init, LoopTyped
<1>6. ServerTyped
  BY DEF Init, ServerTyped
<1>7. CountsTyped
  BY BoundsTyped DEF Init, CountsTyped
<1> QED BY <1>1, <1>2, <1>3, <1>4, <1>5, <1>6, <1>7

\* A stream that is dropped, and one that is given a frame or read.
LEMMA DropTyped ==
  ASSUME QueuesTyped, OwnersTyped, NEW s \in Streams, Drop(s), UNCHANGED accepting,
         read' \in [Streams -> Nat]
  PROVE  QueuesTyped' /\ OwnersTyped'
<1>1. <<>> \in Seq(Frames) /\ Len(<<>>) = 0
  OBVIOUS
<1>2. queue' = [queue EXCEPT ![s] = <<>>] /\ at' = [at EXCEPT ![s] = "done"]
  BY DEF Drop
<1>3. \A t \in Streams : Buffer[t] \in Nat
  BY BoundsTyped
<1>4. QueuesTyped'
  BY <1>1, <1>2, <1>3 DEF QueuesTyped
<1>5. OwnersTyped'
  BY <1>2 DEF OwnersTyped, Places
<1> QED BY <1>4, <1>5

LEMMA DisturbTyped == ASSUME CountsTyped, Disturb, sent' \in 0..MaxFrames PROVE CountsTyped'
<1>1. MaxDisturbances \in Nat
  BY BoundsTyped
<1> QED BY <1>1 DEF CountsTyped, Disturb

LEMMA QueueTyped ==
  ASSUME QueuesTyped, NEW s \in Streams, NEW q \in Seq(Frames), Len(q) <= Buffer[s],
         queue' = [queue EXCEPT ![s] = q], read' \in [Streams -> Nat]
  PROVE  QueuesTyped'
BY DEF QueuesTyped

\* The owner of a stream goes to its next place.
LEMMA OwnerTyped ==
  ASSUME OwnersTyped, NEW s \in Streams, NEW p \in Places, at' = [at EXCEPT ![s] = p],
         UNCHANGED accepting
  PROVE  OwnersTyped'
BY DEF OwnersTyped

LEMMA OwnersTypeStep == ASSUME TypeOK, NEW s \in Streams,
    \/ s \in Calls /\ (CallMoves(s) \/ GiveUp(s))
    \/ Recv(s)
  PROVE TypeOK'
<1> USE TypeSplits
<1>1. CASE s \in Calls /\ CreateStream(s)
  <2>1. MapTyped'
    <3>1. (nextId + 2) % IdSpace \in Ids
      BY BoundsTyped DEF Ids, MapTyped
    <3> QED BY <1>1, <3>1 DEF CreateStream, MapTyped
  <2>2. OwnersTyped'
    BY <1>1, OwnerTyped DEF CreateStream, Places
  <2>3. QueuesTyped' /\ FlagsTyped' /\ LoopTyped' /\ ServerTyped' /\ CountsTyped'
    BY <1>1 DEF CreateStream, serverVars, QueuesTyped, FlagsTyped, LoopTyped, ServerTyped,
                CountsTyped
  <2> QED BY <2>1, <2>2, <2>3
<1>2. CASE s \in Calls /\ Send(s)
  <2>1. QueuesTyped' /\ OwnersTyped' /\ closed' \in BOOLEAN
    <3>1. CASE sinkOpen /\ at' = [at EXCEPT ![s] = "read"] /\ UNCHANGED <<closed, queue>>
      BY <1>2, <3>1, OwnerTyped DEF Send, Places, QueuesTyped, FlagsTyped
    <3>2. CASE Drop(s) /\ closed' = TRUE
      BY <1>2, <3>2, DropTyped DEF Send, QueuesTyped
    <3> QED BY <1>2, <3>1, <3>2 DEF Send
  <2>2. ServerTyped'
    BY <1>2 DEF Send, ServerTyped
  <2>3. MapTyped' /\ FlagsTyped' /\ LoopTyped' /\ CountsTyped'
    BY <1>2, <2>1 DEF Send, MapTyped, FlagsTyped, LoopTyped, CountsTyped
  <2> QED BY <2>1, <2>2, <2>3
<1>3. CASE Recv(s)
  <2>1. QueuesTyped' /\ OwnersTyped'
    <3>1. read' \in [Streams -> Nat] /\ UNCHANGED accepting
      BY <1>3 DEF Recv, QueuesTyped
    <3>2. CASE queue[s] # <<>> /\ Drop(s)
      BY <3>1, <3>2, DropTyped
    <3>3. CASE queue[s] # <<>> /\ ~Drop(s)
      <4>1. PICK next \in GoesOn(s) : at' = [at EXCEPT ![s] = next]
        BY <1>3, <3>3 DEF Recv
      <4>2. next \in Places
        BY <4>1 DEF GoesOn, Places
      <4>3. queue' = [queue EXCEPT ![s] = Tail(queue[s])]
        BY <1>3, <3>3 DEF Recv
      <4>4. Tail(queue[s]) \in Seq(Frames) /\ Len(Tail(queue[s])) <= Buffer[s]
        <5>1. queue[s] \in Seq(Frames) /\ Len(queue[s]) <= Buffer[s] /\ Buffer[s] \in Nat
          BY BoundsTyped DEF QueuesTyped
        <5> QED BY <3>3, <5>1
      <4> QED BY <3>1, <4>1, <4>2, <4>3, <4>4, QueueTyped, OwnerTyped
    <3>4. CASE queue[s] = <<>>
      BY <1>3, <3>1, <3>4, OwnerTyped DEF Recv, Places, QueuesTyped
    <3> QED BY <3>2, <3>3, <3>4
  <2>2. MapTyped' /\ FlagsTyped' /\ LoopTyped' /\ ServerTyped' /\ CountsTyped'
    BY <1>3 DEF Recv, serverVars, MapTyped, FlagsTyped, LoopTyped, ServerTyped, CountsTyped
  <2> QED BY <2>1, <2>2
<1>4. CASE s \in Calls /\ SendFinal(s)
  <2>1. QueuesTyped' /\ OwnersTyped' /\ closed' \in BOOLEAN
    <3>1. CASE at' = [at EXCEPT ![s] = "remove"] /\ UNCHANGED <<closed, queue>>
      BY <1>4, <3>1, OwnerTyped DEF SendFinal, Places, QueuesTyped, FlagsTyped
    <3>2. CASE Drop(s) /\ closed' = TRUE
      BY <1>4, <3>2, DropTyped DEF SendFinal, QueuesTyped
    <3> QED BY <1>4, <3>1, <3>2 DEF SendFinal
  <2>2. MapTyped' /\ FlagsTyped' /\ LoopTyped' /\ ServerTyped' /\ CountsTyped'
    BY <1>4, <2>1 DEF SendFinal, serverVars, MapTyped, FlagsTyped, LoopTyped, ServerTyped,
                      CountsTyped
  <2> QED BY <2>1, <2>2
<1>5. CASE s \in Calls /\ RemoveFinal(s)
  <2>1. QueuesTyped' /\ OwnersTyped'
    BY <1>5, DropTyped DEF RemoveFinal, QueuesTyped
  <2>2. MapTyped' /\ FlagsTyped' /\ LoopTyped' /\ ServerTyped' /\ CountsTyped'
    BY <1>5 DEF RemoveFinal, serverVars, MapTyped, FlagsTyped, LoopTyped, ServerTyped,
                CountsTyped
  <2> QED BY <2>1, <2>2
<1>6. CASE s \in Calls /\ GiveUp(s)
  <2>1. QueuesTyped' /\ OwnersTyped'
    BY <1>6, DropTyped DEF GiveUp, QueuesTyped
  <2>2. CountsTyped'
    BY <1>6, DisturbTyped DEF GiveUp, serverVars, CountsTyped
  <2>3. MapTyped' /\ FlagsTyped' /\ LoopTyped' /\ ServerTyped'
    BY <1>6 DEF GiveUp, serverVars, MapTyped, FlagsTyped, LoopTyped, ServerTyped
  <2> QED BY <2>1, <2>2, <2>3
<1> QED BY <1>1, <1>2, <1>3, <1>4, <1>5, <1>6 DEF CallMoves

LEMMA LoopTypeStep == ASSUME TypeOK, Kept, LoopMoves PROVE TypeOK'
<1> USE TypeSplits
<1>1. CASE NextFrame
  <2>1. Head(wire) \in Frames /\ Tail(wire) \in Seq(Frames)
    BY <1>1 DEF ServerTyped, NextFrame
  <2>2. Head(wire).id \in Ids
    BY <2>1 DEF Frames
  <2>3. ServerTyped'
    BY <1>1, <2>1 DEF NextFrame, ServerTyped
  <2>4. LoopTyped'
    BY <1>1, <2>1 DEF NextFrame, LoopTyped
  <2>5. MapTyped' /\ QueuesTyped' /\ OwnersTyped'
    <3>1. CASE UNCHANGED <<map, streamVars>>
      BY <1>1, <3>1 DEF NextFrame, streamVars, MapTyped, QueuesTyped, OwnersTyped
    <3>2. CASE Head(wire).kind # "bad" /\ map[Head(wire).id] = NoStream
      <4>1. PICK s \in Incoming :
              /\ map' = [map EXCEPT ![Head(wire).id] = s]
              /\ number' = [number EXCEPT ![s] = Head(wire).id]
              /\ at' = [at EXCEPT ![s] = "announced"]
        BY <1>1, <3>2 DEF NextFrame
      <4>2. s \in Streams /\ UNCHANGED <<nextId, queue, read, accepting>>
        BY <1>1, <3>2 DEF NextFrame, Streams
      <4> QED BY <2>2, <4>1, <4>2, OwnerTyped DEF MapTyped, QueuesTyped, Places
    <3> QED BY <1>1, <3>1, <3>2 DEF NextFrame
  <2>6. FlagsTyped' /\ CountsTyped'
    BY <1>1 DEF NextFrame, FlagsTyped, CountsTyped
  <2> QED BY <2>3, <2>4, <2>5, <2>6
<1>2. CASE Announce
  <2>1. map[loop.frame.id] \in Incoming /\ Incoming \subseteq Streams
    BY <1>2 DEF Announce, Kept, Announced, Running, Streams
  <2>2. QueuesTyped' /\ OwnersTyped'
    <3>1. CASE listener = "dropped"
      <4>1. Drop(map[loop.frame.id]) /\ UNCHANGED <<accepting, read>>
        BY <1>2, <3>1 DEF Announce
      <4> QED BY <2>1, <4>1, DropTyped DEF QueuesTyped
    <3>2. CASE listener # "dropped"
      <4>1. AcceptBuffer \in Nat /\ accepting \in Seq(Incoming) /\ Len(accepting) < AcceptBuffer
        BY <1>2, <3>2, BoundsTyped DEF Announce, OwnersTyped
      <4>2. accepting' = Append(accepting, map[loop.frame.id]) /\ UNCHANGED <<at, queue, read>>
        BY <1>2, <3>2 DEF Announce
      <4>3. accepting' \in Seq(Incoming) /\ Len(accepting') <= AcceptBuffer
        BY <2>1, <4>1, <4>2
      <4> QED BY <4>2, <4>3 DEF OwnersTyped, QueuesTyped
    <3> QED BY <3>1, <3>2
  <2>3. LoopTyped'
    BY <1>2 DEF Announce, LoopAt, LoopTyped
  <2>4. MapTyped' /\ FlagsTyped' /\ ServerTyped' /\ CountsTyped'
    BY <1>2 DEF Announce, serverVars, MapTyped, FlagsTyped, ServerTyped, CountsTyped
  <2> QED BY <2>2, <2>3, <2>4
<1>3. CASE Route
  BY <1>3 DEF Route, LoopAt, LoopTyped, serverVars, streamVars, MapTyped, QueuesTyped,
              OwnersTyped, FlagsTyped, ServerTyped, CountsTyped
<1>4. CASE Deliver
  <2> DEFINE s == map[loop.frame.id]
  <2>1. QueuesTyped' /\ LoopTyped'
    <3>1. CASE s \in Streams /\ Put(s)
      <4>1. queue[s] \in Seq(Frames) /\ loop.frame \in Frames /\ Buffer[s] \in Nat
        BY <3>1, BoundsTyped DEF QueuesTyped, LoopTyped
      <4>2. /\ Append(queue[s], loop.frame) \in Seq(Frames)
            /\ Len(Append(queue[s], loop.frame)) <= Buffer[s]
        BY <3>1, <4>1 DEF Put
      <4>3. read' \in [Streams -> Nat]
        BY <1>4 DEF Deliver, QueuesTyped
      <4>4. queue' = [queue EXCEPT ![s] = Append(queue[s], loop.frame)]
        BY <3>1 DEF Put
      <4> QED BY <3>1, <4>2, <4>3, <4>4, QueueTyped DEF Put, LoopAt, LoopTyped
    <3>2. CASE s \notin Streams /\ Put(s)
      BY <1>4, <3>2 DEF Deliver, Put, LoopAt, QueuesTyped, LoopTyped
    <3>3. CASE LoopAt("stuck") /\ UNCHANGED queue
      BY <1>4, <3>3 DEF Deliver, LoopAt, QueuesTyped, LoopTyped
    <3> QED BY <1>4, <3>1, <3>2, <3>3 DEF Deliver
  <2>2. MapTyped' /\ OwnersTyped' /\ FlagsTyped' /\ ServerTyped' /\ CountsTyped'
    BY <1>4 DEF Deliver, serverVars, MapTyped, OwnersTyped, FlagsTyped, ServerTyped,
                CountsTyped
  <2> QED BY <2>1, <2>2
<1>5. CASE Conclude
  <2>1. MapTyped'
    BY <1>5 DEF Conclude, streamVars, MapTyped
  <2>2. LoopTyped'
    BY <1>5, NoFrameTyped DEF Conclude, LoopTyped
  <2>3. QueuesTyped' /\ OwnersTyped' /\ FlagsTyped' /\ ServerTyped' /\ CountsTyped'
    BY <1>5 DEF Conclude, serverVars, streamVars, QueuesTyped, OwnersTyped, FlagsTyped,
                ServerTyped, CountsTyped
  <2> QED BY <2>1, <2>2, <2>3
<1>6. CASE Drain
  BY <1>6 DEF Drain, LoopAt, LoopTyped, serverVars, streamVars, MapTyped, QueuesTyped,
              OwnersTyped, FlagsTyped, ServerTyped, CountsTyped
<1>7. CASE CloseSink
  BY <1>7 DEF CloseSink, LoopAt, LoopTyped, serverVars, streamVars, MapTyped, QueuesTyped,
              OwnersTyped, FlagsTyped, ServerTyped, CountsTyped
<1> QED BY <1>1, <1>2, <1>3, <1>4, <1>5, <1>6, <1>7 DEF LoopMoves

LEMMA OthersTypeStep == ASSUME TypeOK,
    \/ Close \/ Accept \/ ListenerLeaves \/ LastHandleDropped \/ PeerEnds
    \/ \E id \in Ids, kind \in Kinds : ServerSends(id, kind)
  PROVE TypeOK'
<1> USE TypeSplits
<1>1. CASE Close
  <2>1. CountsTyped'
    BY <1>1, DisturbTyped DEF Close, serverVars, CountsTyped
  <2> QED BY <1>1, <2>1 DEF Close, serverVars, streamVars, MapTyped, QueuesTyped,
                            OwnersTyped, FlagsTyped, LoopTyped, ServerTyped
<1>2. CASE Accept
  <2>1. OwnersTyped'
    <3>1. /\ accepting \in Seq(Incoming) /\ accepting # <<>>
          /\ Len(accepting) <= AcceptBuffer /\ AcceptBuffer \in Nat
      BY <1>2, BoundsTyped DEF Accept, OwnersTyped
    <3>2. Head(accepting) \in Incoming /\ Tail(accepting) \in Seq(Incoming)
          /\ Len(Tail(accepting)) <= AcceptBuffer
      BY <3>1
    <3>3. Head(accepting) \in Streams
      BY <3>2 DEF Streams
    <3> QED BY <1>2, <3>2, <3>3 DEF Accept, OwnersTyped, Places
  <2> QED BY <1>2, <2>1 DEF Accept, serverVars, MapTyped, QueuesTyped, FlagsTyped,
                            LoopTyped, ServerTyped, CountsTyped
<1>3. CASE ListenerLeaves
  <2>1. CountsTyped'
    BY <1>3, DisturbTyped DEF ListenerLeaves, serverVars, CountsTyped
  <2> QED BY <1>3, <2>1 DEF ListenerLeaves, serverVars, streamVars, MapTyped, QueuesTyped,
                            OwnersTyped, FlagsTyped, LoopTyped, ServerTyped
<1>4. CASE PeerEnds
  BY <1>4 DEF PeerEnds, streamVars, MapTyped, QueuesTyped, OwnersTyped, FlagsTyped,
              LoopTyped, ServerTyped, CountsTyped
<1>5. ASSUME NEW id \in Ids, NEW kind \in Kinds, ServerSends(id, kind) PROVE TypeOK'
  <2>1. server[id].sent \in Nat
    BY DEF ServerTyped
  <2>2. [id |-> id, place |-> server[id].sent + 1, kind |-> kind] \in Frames
    BY <2>1, KindsTyped DEF Frames
  <2>3. wire' \in Seq(Frames)
    BY <1>5, <2>2 DEF ServerSends, ServerTyped
  <2>4. server' \in [Ids -> [state : {"closed", "open", "concluded"}, sent : Nat]]
    <3>1. server[id] \in [state : {"closed", "open", "concluded"}, sent : Nat]
      BY DEF ServerTyped
    <3> QED BY <1>5, <2>1, <3>1 DEF ServerSends, ServerTyped
  <2>5. ServerTyped'
    BY <1>5, <2>3, <2>4 DEF ServerSends, ServerTyped
  <2>6. CountsTyped'
    BY <1>5, BoundsTyped DEF ServerSends, Disturb, CountsTyped
  <2> QED BY <1>5, <2>5, <2>6 DEF ServerSends, streamVars, MapTyped, QueuesTyped,
                                  OwnersTyped, FlagsTyped, LoopTyped
<1>6. CASE LastHandleDropped
  <2>1. <<>> \in Seq(Frames) /\ Len(<<>>) = 0 /\ <<>> \in Seq(Incoming)
    OBVIOUS
  <2>2. \A s \in Streams : Buffer[s] \in Nat
    BY BoundsTyped
  <2>3. QueuesTyped'
    BY <1>6, <2>1, <2>2 DEF LastHandleDropped, QueuesTyped
  <2>4. OwnersTyped'
    BY <1>6, <2>1, BoundsTyped DEF LastHandleDropped, OwnersTyped, Places
  <2> QED BY <1>6, <2>3, <2>4 DEF LastHandleDropped, serverVars, MapTyped, FlagsTyped,
                                  LoopTyped, ServerTyped, CountsTyped
<1> QED BY <1>1, <1>2, <1>3, <1>4, <1>5, <1>6

LEMMA TypeStep == ASSUME TypeOK, Kept, Next PROVE TypeOK'
BY OwnersTypeStep, LoopTypeStep, OthersTypeStep DEF Next, Streams

-----------------------------------------------------------------------------
(* The numbers of the calls *)

\* What every step but the creation of a stream leaves as it is.
NumbersKept ==
  /\ UNCHANGED nextId
  /\ \A c \in Calls : at'[c] = "start" <=> at[c] = "start"
  /\ \A c \in Calls : number'[c] = number[c]
  /\ \A c \in Calls \ Started : queue'[c] = queue[c] /\ read'[c] = read[c]
  /\ \A i \in Ids : map'[i] \in Calls => map'[i] = map[i]
  /\ \A i \in Ids : server'[i].state # "closed" =>
       server[i].state # "closed" \/ i % 2 = 0 \/ \E c \in Started : number[c] = i
  /\ \A i \in Ids : server'[i].state = "closed" => server'[i] = server[i]

LEMMA NumbersStay == ASSUME TypeOK, Numbered, NumbersKept PROVE Numbered'
<1>1. Started' = Started
  BY DEF Started, NumbersKept
<1>2. \A c \in Started : c \in Calls /\ number[c] % 2 = 1
                         /\ number[c] < 2 * Cardinality(Started)
  BY DEF Numbered, Started
<1>3. nextId' = (2 * Cardinality(Started) + 1) % IdSpace
  BY DEF Numbered, NumbersKept
<1>4. /\ \A c \in Started : number'[c] % 2 = 1 /\ number'[c] < 2 * Cardinality(Started)
      /\ \A c, d \in Started : number'[c] = number'[d] => c = d
  BY <1>2 DEF Numbered, NumbersKept
<1>5. \A c \in Calls \ Started : queue'[c] = <<>> /\ read'[c] = 0
  BY DEF Numbered, NumbersKept
<1>6. \A i \in Ids : map'[i] \in Calls => map'[i] \in Started /\ number'[map'[i]] = i
  BY DEF Numbered, NumbersKept
<1>7. ASSUME NEW i \in Ids, i % 2 = 1, server'[i].state # "closed"
      PROVE  i < 2 * Cardinality(Started)
  <2>1. CASE server[i].state # "closed"
    BY <1>7, <2>1 DEF Numbered
  <2>2. CASE \E c \in Started : number[c] = i
    BY <1>2, <2>2
  <2> QED BY <1>7, <2>1, <2>2 DEF NumbersKept
<1>8. \A i \in Ids : server'[i].state = "closed" => server'[i].sent = 0
  BY DEF Numbered, NumbersKept
<1> QED BY <1>1, <1>3, <1>4, <1>5, <1>6, <1>7, <1>8 DEF Numbered

LEMMA CreateKeepsNumbers ==
  ASSUME TypeOK, Numbered, NEW c \in Calls, CreateStream(c)
  PROVE  /\ Numbered'
         /\ Started' = Started \union {c} /\ c \notin Started
         /\ \A d \in Started : number[d] # nextId
<1> DEFINE n == Cardinality(Started)
<1>1. /\ n \in Nat /\ nextId = 2 * n + 1 /\ nextId \in Ids /\ nextId % 2 = 1
      /\ server[nextId].state = "closed"
  BY CallsStarted, NextIdIsNew DEF CreateStream
<1>2. Started' = Started \union {c} /\ c \notin Started
  BY DEF CreateStream, Started, TypeOK, Streams
<1>3. Cardinality(Started)' = n + 1
  <2>1. IsFiniteSet(Started)
    BY FS_Subset, StreamAssumption DEF Started
  <2> QED BY <1>2, <2>1, FS_AddElement
<1>4. nextId' = (2 * (n + 1) + 1) % IdSpace
  <2>1. nextId + 2 = 2 * (n + 1) + 1
    BY <1>1
  <2> QED BY <2>1 DEF CreateStream
<1>5. /\ number'[c] = nextId
      /\ \A d \in Streams : d # c => number'[d] = number[d]
      /\ \A d \in Started : number[d] % 2 = 1 /\ number[d] < 2 * n /\ number[d] \in Int
  <2>1. \A d \in Started : d \in Streams
    BY DEF Started, Streams
  <2>2. \A d \in Streams : number[d] \in Int
    BY DEF TypeOK, Ids
  <2>3. \A d \in Started : number[d] % 2 = 1 /\ number[d] < 2 * n
    BY DEF Numbered
  <2>4. number' = [number EXCEPT ![c] = nextId] /\ c \in Streams /\ number \in [Streams -> Ids]
    BY DEF CreateStream, Streams, TypeOK
  <2> QED BY <2>1, <2>2, <2>3, <2>4
<1>6. \A d \in Started : number[d] # nextId /\ d # c /\ d \in Streams
  <2> HIDE DEF n
  <2>1. \A d \in Started : number[d] # nextId
    BY <1>1, <1>5
  <2>2. \A d \in Started : d \in Streams
    BY DEF Started, Streams
  <2> QED BY <1>2, <2>1, <2>2
<1>7. \A d \in Started' : number'[d] % 2 = 1 /\ number'[d] < 2 * (n + 1)
  BY <1>1, <1>2, <1>5, <1>6
<1>8. \A d, e \in Started' : number'[d] = number'[e] => d = e
  BY <1>2, <1>5, <1>6 DEF Numbered
<1>9. \A d \in Calls \ Started' : queue'[d] = <<>> /\ read'[d] = 0
  BY <1>2 DEF CreateStream, Numbered
<1>10. \A i \in Ids : map'[i] \in Calls => map'[i] \in Started' /\ number'[map'[i]] = i
  <2> TAKE i \in Ids
  <2>1. CASE i = nextId
    BY <1>2, <1>5, <2>1 DEF CreateStream, TypeOK
  <2>2. CASE i # nextId
    BY <1>2, <1>5, <1>6, <2>2 DEF CreateStream, TypeOK, Numbered
  <2> QED BY <2>1, <2>2
<1>11. \A i \in Ids : i % 2 = 1 /\ server'[i].state # "closed" => i < 2 * (n + 1)
  <2>1. \A i \in Ids : i % 2 = 1 /\ server[i].state # "closed" => i < 2 * n
    BY DEF Numbered
  <2>2. UNCHANGED server /\ \A i \in Ids : i \in Int
    BY DEF CreateStream, serverVars, Ids
  <2> QED BY <1>1, <2>1, <2>2
<1>12. \A i \in Ids : server'[i].state = "closed" => server'[i].sent = 0
  BY DEF CreateStream, serverVars, Numbered
<1> HIDE DEF n
<1> QED
  BY <1>2, <1>3, <1>4, <1>6, <1>7, <1>8, <1>9, <1>10, <1>11, <1>12 DEF Numbered

\* The owner of a stream goes on; no other stream is touched.
LEMMA OwnersKeepNumbers ==
  ASSUME TypeOK, NEW s \in Streams, at[s] # "start",
         UNCHANGED <<nextId, number>>,
         \A i \in Ids : map'[i] = map[i] \/ map'[i] = NoStream,
         \A t \in Streams \ {s} : at'[t] = at[t] /\ queue'[t] = queue[t] /\ read'[t] = read[t],
         at'[s] # "start",
         s \in Calls => \A i \in Ids : server'[i] = server[i] \/ i = number[s],
         s \notin Calls => UNCHANGED server,
         \A i \in Ids : server'[i].state = "closed" => server'[i] = server[i]
  PROVE  NumbersKept
<1>1. NoStream \notin Calls /\ Calls \subseteq Streams
  BY StreamAssumption DEF Streams
<1>2. s \in Calls => s \in Started
  BY DEF Started
<1> QED BY <1>1, <1>2 DEF NumbersKept, Started

\* Only streams of the server are dropped with the last handle.
LEMMA CallsSpared ==
  ASSUME TypeOK, Kept, Announce \/ LastHandleDropped
  PROVE  /\ \A c \in Calls : at'[c] = at[c] /\ queue'[c] = queue[c]
         /\ UNCHANGED <<nextId, map, number, read, serverVars>>
<1>1. Calls \subseteq Streams /\ Calls \intersect Incoming = {}
  BY StreamAssumption DEF Streams
<1>2. CASE Announce
  <2>1. map[loop.frame.id] \in Incoming
    BY <1>2 DEF Announce, Kept, Announced, Running
  <2> QED BY <1>1, <1>2, <2>1 DEF Announce, Drop, TypeOK
<1>3. CASE LastHandleDropped
  <2>1. \A i \in 1..Len(accepting) : accepting[i] \in Incoming
    BY DEF TypeOK
  <2> QED BY <1>1, <1>3, <2>1 DEF LastHandleDropped
<1> QED BY <1>2, <1>3

LEMMA OthersKeepNumbers ==
  ASSUME TypeOK, Numbered, Kept, Next, ~\E c \in Calls : CreateStream(c)
  PROVE  NumbersKept
<1>1. Calls \subseteq Streams /\ Calls \intersect Incoming = {} /\ NoStream \notin Calls
      /\ Incoming \subseteq Streams
  BY StreamAssumption DEF Streams
<1>2. ASSUME NEW c \in Calls, Send(c) PROVE NumbersKept
  <2>1. at[c] # "start" /\ at'[c] # "start" /\ UNCHANGED <<nextId, number, map>>
    BY <1>1, <1>2 DEF Send, Drop, TypeOK
  <2>2. \A t \in Streams \ {c} : at'[t] = at[t] /\ queue'[t] = queue[t] /\ read'[t] = read[t]
    BY <1>2 DEF Send, Drop, TypeOK
  <2>3. \A i \in Ids : /\ server'[i] = server[i] \/ i = number[c]
                       /\ server'[i].state = "closed" => server'[i] = server[i]
    BY <1>2 DEF Send, TypeOK
  <2> QED BY <1>1, <2>1, <2>2, <2>3, OwnersKeepNumbers
<1>3. ASSUME NEW s \in Streams, Recv(s) PROVE NumbersKept
  <2>1. at[s] # "start" /\ at'[s] # "start" /\ UNCHANGED <<nextId, number, map, server>>
    BY <1>3 DEF Recv, Drop, TypeOK, GoesOn, serverVars
  <2>2. \A t \in Streams \ {s} : at'[t] = at[t] /\ queue'[t] = queue[t] /\ read'[t] = read[t]
    BY <1>3 DEF Recv, Drop, TypeOK
  <2> QED BY <2>1, <2>2, OwnersKeepNumbers
<1>4. ASSUME NEW c \in Calls, SendFinal(c) \/ RemoveFinal(c) \/ GiveUp(c) PROVE NumbersKept
  <2>1. /\ at[c] # "start" /\ at'[c] # "start" /\ UNCHANGED <<nextId, number, server>>
        /\ \A i \in Ids : map'[i] = map[i] \/ map'[i] = NoStream
    BY <1>1, <1>4 DEF SendFinal, RemoveFinal, GiveUp, Drop, TypeOK, serverVars
  <2>2. \A t \in Streams \ {c} : at'[t] = at[t] /\ queue'[t] = queue[t] /\ read'[t] = read[t]
    BY <1>4 DEF SendFinal, RemoveFinal, GiveUp, Drop, TypeOK
  <2> QED BY <1>1, <2>1, <2>2, OwnersKeepNumbers
<1>5. CASE Accept
  <2>1. Head(accepting) \in Incoming
    BY <1>5 DEF Accept, TypeOK
  <2> QED BY <1>1, <1>5, <2>1 DEF Accept, NumbersKept, TypeOK, serverVars
<1>6. CASE Close \/ ListenerLeaves \/ PeerEnds
  BY <1>6 DEF Close, ListenerLeaves, PeerEnds, NumbersKept, streamVars, serverVars
<1>7. CASE NextFrame
  <2>1. CASE UNCHANGED <<map, streamVars>>
    BY <1>7, <2>1 DEF NextFrame, NumbersKept, streamVars
  <2>2. CASE ~UNCHANGED <<map, streamVars>>
    <3>1. PICK s \in Incoming :
            /\ map' = [map EXCEPT ![Head(wire).id] = s]
            /\ number' = [number EXCEPT ![s] = Head(wire).id]
            /\ at' = [at EXCEPT ![s] = "announced"]
      BY <1>7, <2>2 DEF NextFrame
    <3>2. UNCHANGED <<nextId, queue, read, server>>
      BY <1>7, <2>2 DEF NextFrame
    <3>3. \A c \in Calls : c # s
      BY <1>1
    <3> QED BY <1>1, <3>1, <3>2, <3>3 DEF NumbersKept, TypeOK
  <2> QED BY <2>1, <2>2
<1>12. CASE Announce \/ LastHandleDropped
  BY <1>12, CallsSpared DEF NumbersKept, serverVars
<1>8. CASE Route \/ CloseSink
  BY <1>8 DEF Route, CloseSink, NumbersKept, streamVars, serverVars
<1>9. CASE Deliver
  <2>1. \A c \in Calls \ Started : queue'[c] = queue[c]
    <3>1. loop.frame.id \in Ids
      BY DEF TypeOK, Frames
    <3>2. \A c \in Calls \ Started : map[loop.frame.id] # c
      BY <3>1 DEF Numbered
    <3> QED BY <1>1, <1>9, <3>2 DEF Deliver, Put, TypeOK
  <2> QED BY <1>9, <2>1 DEF Deliver, NumbersKept, serverVars
<1>10. CASE Conclude \/ Drain
  BY <1>1, <1>10 DEF Conclude, Drain, NumbersKept, streamVars, serverVars, TypeOK
<1>11. ASSUME NEW id \in Ids, NEW kind \in Kinds, ServerSends(id, kind) PROVE NumbersKept
  <2>1. \A i \in Ids : /\ server'[i].state # "closed" => server[i].state # "closed" \/ i % 2 = 0
                       /\ server'[i].state = "closed" => server'[i] = server[i]
    BY <1>11 DEF ServerSends, TypeOK
  <2> QED BY <1>11, <2>1 DEF ServerSends, NumbersKept, streamVars
<1> QED BY <1>2, <1>3, <1>4, <1>5, <1>6, <1>7, <1>8, <1>9, <1>10, <1>11,
           <1>12
        DEF Next, CallMoves, LoopMoves

LEMMA NumberedStep == ASSUME TypeOK, Numbered, Kept, Next PROVE Numbered'
BY NumbersStay, OthersKeepNumbers, CreateKeepsNumbers

-----------------------------------------------------------------------------
(* Frames on the way *)

\* The server adds to a stream it has not concluded, and takes nothing back.
ServerGrows ==
  \A i \in Ids :
    \/ server'[i] = server[i]
    \/ server[i].state # "concluded" /\ server'[i].sent >= server[i].sent

LEMMA ServerStep == ASSUME TypeOK, Next PROVE ServerGrows
<1>1. \A i \in Ids : server[i].sent \in Nat
  BY DEF TypeOK
<1>2. ASSUME NEW c \in Calls, Send(c) PROVE ServerGrows
  <2>1. CASE UNCHANGED server
    BY <2>1 DEF ServerGrows
  <2>2. CASE /\ server[number[c]].state = "closed"
             /\ server' = [server EXCEPT ![number[c]].state = "open"]
    <3> DEFINE n == number[c]
    <3>1. server[n].state # "concluded" /\ n \in Ids
      BY <2>2 DEF TypeOK, Streams
    <3>2. \A i \in Ids : i # n => server'[i] = server[i]
      BY <2>2 DEF TypeOK
    <3>3. server'[n].sent = server[n].sent
      BY <2>2, <3>1 DEF TypeOK
    <3> HIDE DEF n
    <3> QED BY <1>1, <3>1, <3>2, <3>3 DEF ServerGrows
  <2> QED BY <1>2, <2>1, <2>2 DEF Send
<1>3. ASSUME NEW id \in Ids, NEW kind \in Kinds, ServerSends(id, kind) PROVE ServerGrows
  BY <1>1, <1>3 DEF ServerSends, ServerGrows, TypeOK
<1>4. UNCHANGED server => ServerGrows
  BY DEF ServerGrows
<1>5. ASSUME NEW c \in Calls, CallMoves(c) \/ GiveUp(c), ~Send(c) PROVE UNCHANGED server
  BY <1>5 DEF CallMoves, CreateStream, SendFinal, RemoveFinal, GiveUp, serverVars
<1>6. ASSUME (\E s \in Streams : Recv(s)) \/ Close \/ Accept \/ ListenerLeaves
             \/ LastHandleDropped \/ LoopMoves \/ PeerEnds
      PROVE  UNCHANGED server
  BY <1>6 DEF Recv, Close, Accept, ListenerLeaves, LastHandleDropped, LoopMoves, NextFrame,
              Announce, Route, Deliver, Conclude, Drain, CloseSink, PeerEnds, serverVars
<1> QED BY <1>2, <1>3, <1>4, <1>5, <1>6 DEF Next

LEMMA GenuineStays ==
  ASSUME TypeOK, TypeOK', ServerGrows, NEW f \in Frames, Genuine(server, f)
  PROVE  Genuine(server', f)
<1>1. f.id \in Ids /\ f.place \in Nat
  BY DEF Frames
<1>2. server[f.id].sent \in Nat /\ server'[f.id].sent \in Nat
  BY <1>1 DEF TypeOK
<1> QED BY <1>1, <1>2 DEF ServerGrows, Genuine

\* Once the loop has left the socket it does not come back to it.
LEMMA RunningBefore == ASSUME TypeOK, Next, Running' PROVE Running
<1>1. ASSUME LoopMoves PROVE Running
  BY <1>1 DEF LoopMoves, NextFrame, Announce, Route, Deliver, Conclude, Drain, CloseSink,
              LoopAt, Running, TypeOK
<1>2. ASSUME ~LoopMoves PROVE UNCHANGED loop
  BY <1>2 DEF Next, CallMoves, CreateStream, Send, SendFinal, RemoveFinal, GiveUp, Recv,
              Close, Accept, ListenerLeaves, LastHandleDropped, ServerSends, PeerEnds
<1> QED BY <1>1, <1>2 DEF Running

LEMMA WireTyped == ASSUME TypeOK PROVE
  /\ \A k \in 1..Len(wire) : wire[k] \in Frames
  /\ loop.frame \in Frames /\ Len(wire) \in Nat
BY DEF TypeOK

LEMMA WireStep == ASSUME TypeOK, TypeOK', Next, WireInOrder, Running' PROVE WireInOrder'
<1>1. \A f \in Frames : Genuine(server, f) => Genuine(server', f)
  BY ServerStep, GenuineStays
<1>2. \A k \in 1..Len(wire) : Genuine(server', wire[k])
  BY <1>1, WireTyped DEF WireInOrder
<1>3. InHand(loop) \/ loop.pc = "conclude" => Genuine(server', loop.frame)
  BY <1>1, WireTyped DEF WireInOrder
<1>4. CASE UNCHANGED wire /\ loop'.frame = loop.frame
           /\ (InHand(loop') \/ loop'.pc = "conclude" => InHand(loop) \/ loop.pc = "conclude")
  BY <1>2, <1>3, <1>4 DEF WireInOrder
<1>5. CASE NextFrame
  <2>1. /\ wire \in Seq(Frames) /\ wire # <<>> /\ wire' = Tail(wire)
        /\ loop'.frame = wire[1]
    <3>1. wire \in Seq(Frames) /\ wire # <<>> /\ loop'.frame = Head(wire)
      BY <1>5 DEF NextFrame, TypeOK
    <3>2. Head(wire).kind # "bad"
      BY <1>5 DEF NextFrame, Running
    <3> QED BY <1>5, <3>1, <3>2 DEF NextFrame
  <2>2. /\ Len(wire') = Len(wire) - 1 /\ Len(wire) \in Nat /\ 1 \in 1..Len(wire)
        /\ \A k \in 1..Len(wire') : wire'[k] = wire[k + 1] /\ k + 1 \in 1..Len(wire)
    BY <2>1
  <2>3. \A k \in 1..Len(wire') : Genuine(server', wire'[k])
    BY <1>2, <2>2
  <2>4. \A k, l \in 1..Len(wire') : k < l /\ wire'[k].id = wire'[l].id =>
          wire'[k].place < wire'[l].place
    BY <2>2 DEF WireInOrder
  <2>5. Genuine(server', loop'.frame)
    BY <1>2, <2>1, <2>2
  <2>6. \A k \in 1..Len(wire') : wire'[k].id = loop'.frame.id =>
          loop'.frame.place < wire'[k].place
    BY <2>1, <2>2 DEF WireInOrder
  <2> QED BY <2>3, <2>4, <2>5, <2>6 DEF WireInOrder
<1>6. CASE Announce \/ Route \/ Deliver
  BY <1>4, <1>6 DEF Announce, Route, Deliver, Put, LoopAt, TypeOK, InHand, serverVars
<1>7. CASE Conclude
  BY <1>2, <1>7 DEF Conclude, serverVars, InHand, WireInOrder
<1>8. CASE Drain \/ CloseSink
  BY <1>8 DEF Drain, CloseSink, LoopAt, Running, TypeOK
<1>9. ASSUME NEW id \in Ids, NEW kind \in Kinds, ServerSends(id, kind)
      PROVE  WireInOrder'
  <2> DEFINE f == [id |-> id, place |-> server[id].sent + 1, kind |-> kind]
  <2>1. /\ wire \in Seq(Frames) /\ wire' = Append(wire, f) /\ UNCHANGED loop
        /\ server[id].sent \in Nat
        /\ server'[id].sent = server[id].sent + 1
        /\ kind = "conclusion" => server'[id].state = "concluded"
    BY <1>9 DEF ServerSends, TypeOK
  <2>2. /\ Len(wire') = Len(wire) + 1 /\ Len(wire) \in Nat /\ wire'[Len(wire) + 1] = f
        /\ \A k \in 1..Len(wire) : wire'[k] = wire[k]
        /\ \A k \in 1..Len(wire') : k \in 1..Len(wire) \/ k = Len(wire) + 1
    BY <2>1
  <2>3. Genuine(server', f)
    BY <2>1 DEF Genuine
  <2>4. \A k \in 1..Len(wire') : Genuine(server', wire'[k])
    BY <1>2, <2>2, <2>3
  <2>5. \A g \in Frames : Genuine(server, g) /\ g.id = id => g.place < f.place
    BY <2>1 DEF Genuine, Frames
  <2>6. \A k \in 1..Len(wire) : wire[k].id = id => wire[k].place < f.place
    BY <2>5, WireTyped DEF WireInOrder
  <2>7. \A k, l \in 1..Len(wire') : k < l /\ wire'[k].id = wire'[l].id =>
          wire'[k].place < wire'[l].place
    <3> TAKE k, l \in 1..Len(wire')
    <3> HAVE k < l /\ wire'[k].id = wire'[l].id
    <3>1. k \in 1..Len(wire)
      BY <2>2
    <3>2. CASE l \in 1..Len(wire)
      BY <2>2, <3>1, <3>2 DEF WireInOrder
    <3>3. CASE l = Len(wire) + 1
      BY <2>2, <2>6, <3>1, <3>3
    <3> QED BY <2>2, <3>2, <3>3
  <2>8. ASSUME InHand(loop') \/ loop'.pc = "conclude"
        PROVE  /\ Genuine(server', loop'.frame)
               /\ \A k \in 1..Len(wire') : wire'[k].id = loop'.frame.id =>
                    loop'.frame.place < wire'[k].place
    <3>1. Genuine(server, loop.frame) /\ loop.frame \in Frames
      BY <2>1, <2>8, WireTyped DEF WireInOrder
    <3>2. loop.frame.id = id => loop.frame.place < f.place
      BY <2>5, <3>1
    <3> QED BY <1>3, <2>1, <2>2, <2>8, <3>2 DEF WireInOrder
  <2> QED BY <2>4, <2>7, <2>8 DEF WireInOrder
<1>10. ASSUME NEW c \in Calls, CallMoves(c) \/ GiveUp(c) PROVE WireInOrder'
  BY <1>4, <1>10 DEF CallMoves, CreateStream, Send, SendFinal, RemoveFinal, GiveUp, serverVars
<1>11. CASE \/ \E s \in Streams : Recv(s)
            \/ Close \/ Accept \/ ListenerLeaves \/ LastHandleDropped \/ PeerEnds
  BY <1>4, <1>11 DEF Recv, Close, Accept, ListenerLeaves, LastHandleDropped, PeerEnds,
                     serverVars
<1> QED BY <1>5, <1>6, <1>7, <1>8, <1>9, <1>10, <1>11 DEF Next, LoopMoves

-----------------------------------------------------------------------------
(* Nothing is lost *)

\* The counts of a call that has a stream.
LEMMA CallTyped == ASSUME TypeOK, NEW c \in Calls PROVE
  /\ c \in Streams /\ number[c] \in Ids
  /\ read[c] \in Nat /\ queue[c] \in Seq(Frames) /\ Len(queue[c]) \in Nat /\ Got(c) \in Nat
  /\ server[number[c]].sent \in Nat
<1>1. c \in Streams
  BY DEF Streams
<1> QED BY <1>1 DEF TypeOK, Got

\* A frame at hand for a call is the next one of that call.
LEMMA InHandIsNext ==
  ASSUME TypeOK, WireInOrder, NEW c \in Calls, NothingLost(c), InHand(loop),
         loop.frame.id = number[c]
  PROVE  /\ map[number[c]] = c
         /\ loop.frame.place = Got(c) + 1 /\ Got(c) + 1 <= server[number[c]].sent
<1>1. Got(c) \in Nat /\ server[number[c]].sent \in Nat /\ loop.frame.place \in Nat
  BY CallTyped, WireTyped DEF Frames
<1>2. Carried(loop, wire, number[c], loop.frame.place)
  BY DEF Carried
<1>3. loop.frame.place \in (Got(c) + 1)..server[number[c]].sent
  BY <1>1, <1>2 DEF NothingLost
<1>4. Carried(loop, wire, number[c], Got(c) + 1)
  BY <1>1, <1>3 DEF NothingLost
<1>5. CASE \E k \in 1..Len(wire) : wire[k].id = number[c] /\ wire[k].place = Got(c) + 1
  <2>1. loop.frame.place < Got(c) + 1
    BY <1>5 DEF WireInOrder
  <2> QED BY <1>1, <1>3, <2>1
<1>6. CASE loop.frame.place = Got(c) + 1
  BY <1>1, <1>3, <1>6 DEF NothingLost
<1> QED BY <1>4, <1>5, <1>6 DEF Carried

LEMMA AnnouncedStep ==
  ASSUME TypeOK, Numbered, Kept, Next, Running' PROVE Announced'
<1>1. /\ Running /\ WireInOrder /\ Announced
      /\ \A c \in Calls : Live(c) => NothingLost(c)
  BY RunningBefore DEF Kept
<1>2. loop.frame.id \in Ids /\ loop.frame \in Frames /\ loop.frame.place \in Nat
  BY DEF TypeOK, Frames
<1>3. CASE UNCHANGED <<loop, map>>
  BY <1>1, <1>3 DEF Announced
<1>4. ASSUME NEW c \in Calls, CreateStream(c) PROVE Announced'
  <2>1. ASSUME loop.pc = "announce" PROVE loop.frame.id # nextId
    <3>1. Genuine(server, loop.frame)
      BY <1>1, <2>1 DEF WireInOrder, InHand
    <3>2. server[nextId].sent = 0
      BY <1>4, NextIdIsNew DEF CreateStream
    <3> QED BY <1>2, <3>1, <3>2 DEF Genuine
  <2> QED BY <1>1, <1>4, <2>1 DEF CreateStream, Announced, TypeOK
<1>5. ASSUME NEW c \in Calls, RemoveFinal(c) PROVE Announced'
  <2>1. ASSUME loop.pc = "announce", loop.frame.id = number[c] PROVE FALSE
    <3>1. NothingLost(c) /\ c \in Streams
      BY <1>1, <1>5 DEF RemoveFinal, Live, Streams
    <3>2. map[number[c]] # c
      <4>1. map[loop.frame.id] \in Incoming /\ Calls \intersect Incoming = {}
        BY <1>1, <2>1, StreamAssumption DEF Announced
      <4> QED BY <2>1, <4>1
    <3> QED BY <1>1, <2>1, <3>1, <3>2, InHandIsNext DEF InHand
  <2> QED BY <1>1, <1>5, <2>1 DEF RemoveFinal, Announced, TypeOK
<1>6. CASE NextFrame
  <2>1. ASSUME loop'.pc = "announce" PROVE map'[loop'.frame.id] \in Incoming
    <3>1. PICK s \in Incoming : map' = [map EXCEPT ![Head(wire).id] = s]
      BY <1>6, <2>1 DEF NextFrame
    <3>2. loop'.frame = Head(wire) /\ Head(wire).id \in Ids
      <4>1. wire \in Seq(Frames) /\ wire # <<>>
        BY <1>6 DEF NextFrame, TypeOK
      <4>2. Head(wire) \in Frames
        BY <4>1
      <4> QED BY <1>6, <4>2 DEF NextFrame, Frames
    <3> QED BY <3>1, <3>2 DEF TypeOK
  <2> QED BY <2>1 DEF Announced
<1>7. CASE Announce \/ Route \/ Deliver \/ Conclude \/ Drain \/ CloseSink
  <2>1. loop'.pc # "announce"
    BY <1>7 DEF Announce, Route, Deliver, Put, Conclude, Drain, CloseSink, LoopAt, TypeOK
  <2> QED BY <2>1 DEF Announced
<1>8. ASSUME NEW c \in Calls, Send(c) \/ SendFinal(c) \/ GiveUp(c) PROVE Announced'
  BY <1>3, <1>8 DEF Send, SendFinal, GiveUp
<1>9. CASE \/ \E s \in Streams : Recv(s)
           \/ Close \/ Accept \/ ListenerLeaves \/ LastHandleDropped \/ PeerEnds
           \/ \E id \in Ids, kind \in Kinds : ServerSends(id, kind)
  BY <1>3, <1>9 DEF Recv, Close, Accept, ListenerLeaves, LastHandleDropped, PeerEnds, ServerSends
<1> QED BY <1>4, <1>5, <1>6, <1>7, <1>8, <1>9 DEF Next, CallMoves, LoopMoves

\* What a step leaves as it is for a call that it does not give a frame to.
Quiet(c) ==
  /\ number'[c] = number[c]
  /\ read'[c] + Len(queue'[c]) = read[c] + Len(queue[c])
  /\ map'[number[c]] = map[number[c]]
  /\ server'[number[c]].sent = server[number[c]].sent
  /\ server[number[c]].state = "concluded" => server'[number[c]].state = "concluded"
  /\ \A p \in Nat : Carried(loop', wire', number[c], p) <=> Carried(loop, wire, number[c], p)

LEMMA QuietKeeps == ASSUME NEW c \in Calls, NothingLost(c), Quiet(c) PROVE NothingLost(c)'
BY DEF NothingLost, Quiet, Got

LEMMA NumbersDiffer ==
  ASSUME Numbered, NEW c \in Calls, NEW d \in Calls, c # d, at[c] # "start", at[d] # "start"
  PROVE  number[c] # number[d]
BY DEF Numbered, Started

\* Other owners.
LEMMA OwnersAreQuiet ==
  ASSUME TypeOK, Numbered, NEW c \in Calls, Live(c), NEW d \in Calls, c # d,
         CallMoves(d) \/ GiveUp(d)
  PROVE  Quiet(c)
<1>1. c \in Streams /\ d \in Streams /\ number[c] \in Ids /\ number[d] \in Ids
  BY CallTyped
<1>2. UNCHANGED <<loop, wire>>
  BY DEF CallMoves, CreateStream, Send, SendFinal, RemoveFinal, GiveUp, serverVars
<1>3. \A p \in Nat : Carried(loop', wire', number[c], p) <=> Carried(loop, wire, number[c], p)
  BY <1>2
<1>4. read'[c] = read[c] /\ queue'[c] = queue[c]
  BY <1>1 DEF CallMoves, CreateStream, Send, SendFinal, RemoveFinal, GiveUp, Drop, TypeOK
<1>5. CASE CreateStream(d)
  <2>1. number[c] # nextId
    BY <1>5, CreateKeepsNumbers DEF Started, Live
  <2>2. number' = [number EXCEPT ![d] = nextId] /\ map' = [map EXCEPT ![nextId] = d]
        /\ UNCHANGED server
    BY <1>5 DEF CreateStream, serverVars
  <2> QED BY <1>1, <1>3, <1>4, <2>1, <2>2 DEF Quiet, TypeOK
<1>6. CASE Send(d)
  <2>1. number[c] # number[d]
    BY <1>6, NumbersDiffer DEF Send, Live
  <2>2. UNCHANGED <<number, map>> /\ server'[number[c]] = server[number[c]]
    BY <1>1, <1>6, <2>1 DEF Send, TypeOK
  <2> QED BY <1>3, <1>4, <2>2 DEF Quiet
<1>7. CASE RemoveFinal(d)
  <2>1. number[c] # number[d]
    BY <1>7, NumbersDiffer DEF RemoveFinal, Live
  <2>2. UNCHANGED <<number, server>> /\ map' = [map EXCEPT ![number[d]] = NoStream]
    BY <1>7 DEF RemoveFinal, serverVars
  <2>3. map'[number[c]] = map[number[c]]
    BY <1>1, <2>1, <2>2 DEF TypeOK
  <2> QED BY <1>3, <1>4, <2>2, <2>3 DEF Quiet
<1>8. CASE SendFinal(d) \/ GiveUp(d)
  <2>1. UNCHANGED <<number, map, server>>
    BY <1>8 DEF SendFinal, GiveUp, serverVars
  <2> QED BY <1>3, <1>4, <2>1 DEF Quiet
<1> QED BY <1>5, <1>6, <1>7, <1>8 DEF CallMoves

\* A new stream: nothing has been sent on its identifier.
LEMMA CreateLosesNothing ==
  ASSUME TypeOK, Numbered, WireInOrder, NEW c \in Calls, CreateStream(c)
  PROVE  NothingLost(c)'
<1>1. c \in Streams /\ c \in Calls \ Started
  BY CallTyped DEF CreateStream, Started
<1>2. nextId \in Ids /\ server[nextId].sent = 0
  BY NextIdIsNew DEF CreateStream
<1>3. \A f \in Frames : Genuine(server, f) => f.id # nextId
  BY <1>2 DEF Genuine, Frames
<1>4. \A p \in Nat : ~Carried(loop, wire, nextId, p)
  <2>1. \A k \in 1..Len(wire) : wire[k].id # nextId
    BY <1>3, WireTyped DEF WireInOrder
  <2>2. InHand(loop) => loop.frame.id # nextId
    BY <1>3, WireTyped DEF WireInOrder
  <2> QED BY <2>1, <2>2 DEF Carried
<1>5. number'[c] = nextId /\ map'[nextId] = c /\ UNCHANGED <<loop, wire, server>>
  BY <1>1, <1>2 DEF CreateStream, serverVars, TypeOK
<1>6. read'[c] = 0 /\ queue'[c] = <<>>
  BY <1>1 DEF CreateStream, Numbered
<1> QED BY <1>2, <1>4, <1>5, <1>6 DEF NothingLost, Got

\* The owner itself.
LEMMA OwnerLosesNothing ==
  ASSUME TypeOK, Numbered, NEW c \in Calls, Live(c)', NothingLost(c), Live(c),
         Send(c) \/ SendFinal(c) \/ RemoveFinal(c) \/ GiveUp(c) \/ Recv(c)
  PROVE  NothingLost(c)'
<1>1. c \in Streams /\ number[c] \in Ids
  BY CallTyped
<1>2. ~Drop(c)
  BY <1>1 DEF Drop, Live, TypeOK
<1>3. UNCHANGED <<loop, wire, number, map>>
  BY <1>2 DEF Send, SendFinal, RemoveFinal, GiveUp, Recv, serverVars
<1>4. \A p \in Nat : Carried(loop', wire', number[c], p) <=> Carried(loop, wire, number[c], p)
  BY <1>3
<1>5. CASE Send(c)
  <2>1. UNCHANGED <<queue, read>>
    BY <1>2, <1>5 DEF Send
  <2>2. server'[number[c]].sent = server[number[c]].sent
        /\ (server[number[c]].state = "concluded" => server'[number[c]].state = "concluded")
    BY <1>1, <1>2, <1>5 DEF Send, TypeOK
  <2> QED BY <1>3, <1>4, <2>1, <2>2, QuietKeeps DEF Quiet
<1>6. CASE SendFinal(c)
  BY <1>2, <1>3, <1>4, <1>6, QuietKeeps DEF Quiet, SendFinal, serverVars
<1>7. CASE RemoveFinal(c) \/ GiveUp(c)
  BY <1>2, <1>7 DEF RemoveFinal, GiveUp
<1>8. CASE Recv(c)
  <2>1. queue[c] # <<>>
    BY <1>1, <1>8 DEF Recv, Live, TypeOK
  <2>2. read' = [read EXCEPT ![c] = @ + 1] /\ queue' = [queue EXCEPT ![c] = Tail(@)]
    BY <1>2, <1>8, <2>1 DEF Recv
  <2>3. read'[c] = read[c] + 1 /\ queue'[c] = Tail(queue[c])
    BY <1>1, <2>2 DEF TypeOK
  <2>4. read[c] \in Nat /\ queue[c] \in Seq(Frames)
    BY CallTyped
  <2>5. Len(queue'[c]) = Len(queue[c]) - 1 /\ Len(queue[c]) \in Nat
    BY <2>1, <2>3, <2>4
  <2>6. read'[c] + Len(queue'[c]) = read[c] + Len(queue[c])
    BY <2>3, <2>4, <2>5
  <2> QED BY <1>3, <1>4, <1>8, <2>6, QuietKeeps DEF Quiet, Recv, serverVars
<1> QED BY <1>5, <1>6, <1>7, <1>8

\* The loop: it hands over a frame of the call, or lets it alone.
LEMMA LoopLosesNothing ==
  ASSUME TypeOK, Numbered, Kept, WireInOrder, NEW c \in Calls, NothingLost(c), Live(c),
         LoopMoves, Running'
  PROVE  NothingLost(c)'
<1>1. /\ c \in Streams /\ number[c] \in Ids
      /\ Got(c) \in Nat /\ server[number[c]].sent \in Nat
  BY CallTyped
<1>2. UNCHANGED server /\ read' = read
  BY DEF LoopMoves, NextFrame, Announce, Route, Deliver, Conclude, Drain, CloseSink,
         serverVars, streamVars
<1>3. CASE NextFrame
  <2>1. /\ wire \in Seq(Frames) /\ wire # <<>> /\ wire' = Tail(wire) /\ InHand(loop')
        /\ loop'.frame = wire[1] /\ loop.pc = "next"
    <3>1. wire \in Seq(Frames) /\ wire # <<>> /\ loop'.frame = Head(wire)
      BY <1>3 DEF NextFrame, TypeOK
    <3>2. Head(wire).kind # "bad"
      BY <1>3 DEF NextFrame, Running
    <3> QED BY <1>3, <3>1, <3>2 DEF NextFrame, InHand
  <2>2. /\ Len(wire) \in Nat /\ 1 \in 1..Len(wire) /\ Len(wire') = Len(wire) - 1
        /\ \A k \in 1..Len(wire') : wire'[k] = wire[k + 1] /\ k + 1 \in 1..Len(wire)
        /\ \A k \in 1..Len(wire) : k = 1 \/ (k - 1 \in 1..Len(wire') /\ wire[k] = wire'[k - 1])
    BY <2>1
  <2>3. ~InHand(loop)
    BY <2>1 DEF InHand
  <2>4. \A p \in Nat : Carried(loop', wire', number[c], p) <=> Carried(loop, wire, number[c], p)
    <3>1. ASSUME NEW p \in Nat, Carried(loop', wire', number[c], p)
          PROVE  Carried(loop, wire, number[c], p)
      BY <2>1, <2>2, <3>1 DEF Carried
    <3>2. ASSUME NEW p \in Nat, Carried(loop, wire, number[c], p)
          PROVE  Carried(loop', wire', number[c], p)
      <4>1. PICK k \in 1..Len(wire) : wire[k].id = number[c] /\ wire[k].place = p
        BY <2>3, <3>2 DEF Carried
      <4> QED BY <2>1, <2>2, <4>1 DEF Carried
    <3> QED BY <3>1, <3>2
  <2>5. map'[number[c]] = map[number[c]] /\ number'[c] = number[c] /\ UNCHANGED queue
    <3>1. CASE UNCHANGED <<map, streamVars>>
      BY <3>1 DEF streamVars
    <3>2. CASE map[wire[1].id] = NoStream /\ ~UNCHANGED <<map, streamVars>>
      <4>1. PICK s \in Incoming : /\ map' = [map EXCEPT ![wire[1].id] = s]
                                  /\ number' = [number EXCEPT ![s] = wire[1].id]
        BY <1>3, <2>1, <3>2 DEF NextFrame
      <4>2. s # c /\ c # NoStream
        BY <1>1, StreamAssumption
      <4>3. wire[1].id # number[c]
        <5>1. SUFFICES ASSUME wire[1].id = number[c] PROVE FALSE
          OBVIOUS
        <5>2. map[number[c]] # c
          BY <3>2, <4>2, <5>1
        <5>3. Carried(loop, wire, number[c], wire[1].place) /\ wire[1].place \in Nat
          BY <2>1, <2>2, <5>1, WireTyped DEF Carried, Frames
        <5> QED BY <1>1, <5>2, <5>3 DEF NothingLost
      <4> QED BY <1>1, <1>3, <3>2, <4>1, <4>2, <4>3 DEF NextFrame, TypeOK
    <3> QED BY <1>3, <2>1, <3>1, <3>2 DEF NextFrame
  <2> QED BY <1>2, <2>4, <2>5, QuietKeeps DEF Quiet
<1>4. CASE Announce
  <2>1. InHand(loop') /\ InHand(loop) /\ loop'.frame = loop.frame
    BY <1>4 DEF Announce, LoopAt, InHand, TypeOK
  <2>2. \A p \in Nat : Carried(loop', wire', number[c], p) <=> Carried(loop, wire, number[c], p)
    BY <1>4, <2>1 DEF Announce, serverVars, Carried
  <2> QED BY <1>2, <1>4, <2>2, CallsSpared, QuietKeeps DEF Quiet
<1>5. CASE Route
  <2>1. InHand(loop) /\ loop'.frame = loop.frame /\ UNCHANGED <<wire, map, streamVars>>
    BY <1>5 DEF Route, LoopAt, InHand, TypeOK, serverVars
  <2>2. InHand(loop') \/ loop.frame.id # number[c]
    <3>1. loop.frame.id = number[c] => map[loop.frame.id] = c
      BY <2>1, InHandIsNext
    <3>2. loop.frame.id = number[c] => map[loop.frame.id] # NoStream
      BY <1>1, <3>1, StreamAssumption
    <3> QED BY <1>5, <3>2 DEF Route, LoopAt, InHand, TypeOK
  <2>3. \A p \in Nat : Carried(loop', wire', number[c], p) <=> Carried(loop, wire, number[c], p)
    BY <2>1, <2>2 DEF Carried
  <2> QED BY <1>2, <2>1, <2>3, QuietKeeps DEF Quiet, streamVars
<1>6. CASE Deliver
  <2> DEFINE f == loop.frame
             s == map[f.id]
  <2>1. /\ InHand(loop) /\ loop'.frame = f /\ UNCHANGED <<wire, map, number>>
        /\ f.id \in Ids /\ f.place \in Nat
    BY <1>6 DEF Deliver, Put, LoopAt, InHand, TypeOK, serverVars, Frames
  <2>2. CASE LoopAt("stuck") /\ UNCHANGED queue
    <3>1. InHand(loop')
      BY <2>2 DEF LoopAt, InHand, TypeOK
    <3>2. \A p \in Nat : Carried(loop', wire', number[c], p) <=> Carried(loop, wire, number[c], p)
      BY <2>1, <3>1 DEF Carried
    <3> QED BY <1>2, <2>1, <2>2, <3>2, QuietKeeps DEF Quiet
  <2>3. CASE Put(s) /\ f.id # number[c]
    <3>1. s # c
      BY <2>1, <2>3 DEF Numbered
    <3>2. queue'[c] = queue[c]
      BY <1>1, <2>3, <3>1 DEF Put, TypeOK
    <3>3. \A p \in Nat : Carried(loop', wire', number[c], p) <=> Carried(loop, wire, number[c], p)
      BY <2>1, <2>3 DEF Carried
    <3> QED BY <1>2, <2>1, <3>2, <3>3, QuietKeeps DEF Quiet
  <2>4. CASE Put(s) /\ f.id = number[c]
    <3>1. s = c /\ f.place = Got(c) + 1 /\ Got(c) + 1 <= server[number[c]].sent
      BY <2>1, <2>4, InHandIsNext
    <3>2. queue'[c] = Append(queue[c], f) /\ loop'.pc = "conclude"
      BY <1>1, <2>4, <3>1 DEF Put, LoopAt, TypeOK
    <3>3. queue[c] \in Seq(Frames) /\ f \in Frames /\ read[c] \in Nat
      BY CallTyped, WireTyped
    <3>4. Len(queue'[c]) = Len(queue[c]) + 1 /\ Len(queue[c]) \in Nat
      BY <3>2, <3>3
    <3>5. Got(c)' = Got(c) + 1
      BY <1>2, <3>3, <3>4 DEF Got
    <3>6. ~InHand(loop')
      BY <3>2 DEF InHand
    <3>7. \A k \in 1..Len(wire) : wire[k].id = number[c] => Got(c) + 1 < wire[k].place
      BY <2>1, <2>4, <3>1 DEF WireInOrder
    <3>8. \A p \in Nat : Carried(loop', wire', number[c], p) <=>
                           Carried(loop, wire, number[c], p) /\ p # Got(c) + 1
      BY <1>1, <2>1, <2>4, <3>1, <3>6, <3>7 DEF Carried
    <3>9. \A p \in Nat : Carried(loop', wire', number[c], p)
                           <=> p \in (Got(c) + 2)..server[number[c]].sent
      BY <1>1, <3>8 DEF NothingLost
    <3> QED BY <1>1, <1>2, <2>1, <3>1, <3>5, <3>9 DEF NothingLost
  <2> QED BY <1>6, <2>2, <2>3, <2>4 DEF Deliver
<1>7. CASE Conclude
  <2>1. /\ ~InHand(loop) /\ ~InHand(loop') /\ UNCHANGED <<wire, streamVars>>
    BY <1>7 DEF Conclude, InHand, serverVars
  <2>2. \A p \in Nat : Carried(loop', wire', number[c], p) <=> Carried(loop, wire, number[c], p)
    BY <2>1 DEF Carried
  <2>3. CASE map'[number[c]] = map[number[c]]
    BY <1>2, <2>1, <2>2, <2>3, QuietKeeps DEF Quiet, streamVars
  <2>4. CASE Ends(loop.frame) /\ loop.frame.id = number[c]
    <3>1. /\ loop.frame.place = server[number[c]].sent
          /\ server[number[c]].state = "concluded"
      BY <1>7, <2>4 DEF Conclude, WireInOrder, Genuine, Ends
    <3>2. \A k \in 1..Len(wire) : wire[k].id = number[c] => server[number[c]].sent < wire[k].place
      BY <1>7, <2>4, <3>1 DEF Conclude, WireInOrder
    <3>3. Got(c) = server[number[c]].sent
      <4>1. SUFFICES ASSUME Got(c) < server[number[c]].sent PROVE FALSE
        BY <1>1 DEF NothingLost
      <4>2. Carried(loop, wire, number[c], server[number[c]].sent)
        BY <1>1, <4>1 DEF NothingLost
      <4> QED BY <1>1, <2>1, <3>2, <4>2 DEF Carried
    <3>4. NothingLost(c) /\ Got(c)' = Got(c) /\ number'[c] = number[c]
      BY <1>2, <2>1 DEF streamVars, Got
    <3> QED BY <1>2, <2>2, <3>1, <3>3, <3>4 DEF NothingLost
  <2> QED BY <1>1, <1>7, <2>3, <2>4 DEF Conclude, TypeOK
<1>8. CASE Drain \/ CloseSink
  BY <1>8 DEF Drain, CloseSink, LoopAt, Running, TypeOK
<1> QED BY <1>3, <1>4, <1>5, <1>6, <1>7, <1>8 DEF LoopMoves

\* The server sends one more frame.
LEMMA SendingLosesNothing ==
  ASSUME TypeOK, NEW c \in Calls, NothingLost(c),
         NEW id \in Ids, NEW kind \in Kinds, ServerSends(id, kind)
  PROVE  NothingLost(c)'
<1> DEFINE f == [id |-> id, place |-> server[id].sent + 1, kind |-> kind]
<1>1. /\ number[c] \in Ids
      /\ Got(c) \in Nat /\ server[number[c]].sent \in Nat
  BY CallTyped
<1>2. /\ wire \in Seq(Frames) /\ wire' = Append(wire, f)
      /\ UNCHANGED <<loop, map, number, queue, read>>
      /\ server[id].state # "concluded"
      /\ server'[id].sent = server[id].sent + 1
      /\ \A i \in Ids : i # id => server'[i] = server[i]
  BY <1>1 DEF ServerSends, TypeOK, streamVars
<1>3. /\ Len(wire') = Len(wire) + 1 /\ Len(wire) \in Nat /\ wire'[Len(wire) + 1] = f
      /\ \A k \in 1..Len(wire) : wire'[k] = wire[k] /\ k \in 1..Len(wire')
      /\ \A k \in 1..Len(wire') : k \in 1..Len(wire) \/ k = Len(wire) + 1
      /\ Len(wire) + 1 \in 1..Len(wire')
  BY <1>2
<1>4. \A p \in Nat : Carried(loop', wire', number[c], p) <=>
        Carried(loop, wire, number[c], p) \/ (id = number[c] /\ p = server[id].sent + 1)
  BY <1>2, <1>3 DEF Carried
<1>5. CASE id # number[c]
  BY <1>1, <1>2, <1>4, <1>5, QuietKeeps DEF Quiet
<1>6. CASE id = number[c]
  <2>1. Got(c)' = Got(c) /\ Got(c) <= server[id].sent /\ map'[number[c]] = c
        /\ number'[c] = number[c]
    BY <1>2, <1>6 DEF NothingLost, Got
  <2>2. \A p \in Nat : Carried(loop', wire', number[c], p)
                         <=> p \in (Got(c) + 1)..server'[id].sent
    <3>1. \A p \in Nat : Carried(loop, wire, number[c], p) <=> p \in (Got(c) + 1)..server[id].sent
      BY <1>6 DEF NothingLost
    <3>2. server'[id].sent = server[id].sent + 1 /\ server[id].sent \in Nat
      BY <1>1, <1>2, <1>6
    <3> QED BY <1>1, <1>4, <1>6, <2>1, <3>1, <3>2
  <2> QED BY <1>1, <1>2, <1>6, <2>1, <2>2 DEF NothingLost
<1> QED BY <1>5, <1>6

LEMMA NothingLostStep ==
  ASSUME TypeOK, Numbered, Kept, Next, Running', NEW c \in Calls, Live(c)'
  PROVE  NothingLost(c)'
<1>1. Running /\ WireInOrder /\ (Live(c) => NothingLost(c)) /\ c \in Streams
  BY RunningBefore, CallTyped DEF Kept
<1>2. CASE CreateStream(c)
  BY <1>1, <1>2, CreateLosesNothing
<1>3. CASE Send(c) \/ SendFinal(c) \/ RemoveFinal(c) \/ GiveUp(c) \/ Recv(c)
  <2>1. Live(c)
    BY <1>3 DEF Send, SendFinal, RemoveFinal, GiveUp, Recv, Live
  <2> QED BY <1>1, <1>3, <2>1, OwnerLosesNothing
<1>4. ASSUME NEW d \in Calls, d # c, CallMoves(d) \/ GiveUp(d) PROVE NothingLost(c)'
  <2>1. at'[c] = at[c]
    BY <1>1, <1>4 DEF CallMoves, CreateStream, Send, SendFinal, RemoveFinal, GiveUp, Drop,
                      TypeOK
  <2>2. Live(c)
    BY <2>1 DEF Live
  <2> QED BY <1>1, <1>4, <2>2, OwnersAreQuiet, QuietKeeps
<1>5. ASSUME NEW s \in Streams, s # c, Recv(s) PROVE NothingLost(c)'
  <2>1. at'[c] = at[c] /\ read'[c] = read[c] /\ queue'[c] = queue[c]
    BY <1>1, <1>5 DEF Recv, Drop, TypeOK
  <2>2. UNCHANGED <<loop, wire, number, map, server>>
    BY <1>5 DEF Recv, serverVars
  <2>3. Live(c) /\ Quiet(c)
    BY <2>1, <2>2 DEF Live, Quiet
  <2> QED BY <1>1, <2>3, QuietKeeps
<1>6. CASE LoopMoves
  <2>1. at'[c] = at[c]
    <3>1. CASE NextFrame
      <4>1. \A s \in Incoming : s # c
        BY StreamAssumption
      <4> QED BY <1>1, <3>1, <4>1 DEF NextFrame, TypeOK, streamVars
    <3>2. CASE ~NextFrame
      BY <1>6, <3>2, CallsSpared
                     DEF LoopMoves, Route, Deliver, Conclude, Drain, CloseSink,
                        streamVars
    <3> QED BY <3>1, <3>2
  <2>2. Live(c)
    BY <2>1 DEF Live
  <2> QED BY <1>1, <1>6, <2>2, LoopLosesNothing
<1>9. CASE LastHandleDropped
  <2>1. at'[c] = at[c] /\ queue'[c] = queue[c]
        /\ UNCHANGED <<loop, wire, number, map, server, read>>
    BY <1>9, CallsSpared DEF LastHandleDropped, serverVars
  <2>2. Live(c) /\ Quiet(c)
    BY <2>1 DEF Live, Quiet
  <2> QED BY <1>1, <2>2, QuietKeeps
<1>7. CASE Close \/ Accept \/ ListenerLeaves \/ PeerEnds
  <2>1. at'[c] = at[c]
    <3>1. CASE Accept
      <4>1. Head(accepting) # c
        BY <3>1, StreamAssumption DEF Accept, TypeOK
      <4> QED BY <1>1, <3>1, <4>1 DEF Accept, TypeOK
    <3> QED BY <1>7, <3>1 DEF Close, ListenerLeaves, PeerEnds, streamVars
  <2>2. UNCHANGED <<loop, wire, number, map, server, read, queue>>
    BY <1>7 DEF Close, Accept, ListenerLeaves, PeerEnds, serverVars, streamVars
  <2>3. Live(c) /\ Quiet(c)
    BY <2>1, <2>2 DEF Live, Quiet
  <2> QED BY <1>1, <2>3, QuietKeeps
<1>8. ASSUME NEW id \in Ids, NEW kind \in Kinds, ServerSends(id, kind) PROVE NothingLost(c)'
  <2>1. Live(c)
    BY <1>8 DEF ServerSends, Live, streamVars
  <2> QED BY <1>1, <1>8, <2>1, SendingLosesNothing
<1> QED BY <1>2, <1>3, <1>4, <1>5, <1>6, <1>7, <1>8, <1>9 DEF Next, CallMoves

LEMMA KeptStep == ASSUME TypeOK, TypeOK', Numbered, Kept, Next PROVE Kept'
<1> SUFFICES ASSUME Running'
             PROVE  WireInOrder' /\ Announced' /\ \A c \in Calls : Live(c)' => NothingLost(c)'
  BY DEF Kept
<1>1. WireInOrder
  BY RunningBefore DEF Kept
<1> QED BY <1>1, WireStep, AnnouncedStep, NothingLostStep

-----------------------------------------------------------------------------
(* What a call reads *)

LEMMA OrderStep ==
  ASSUME TypeOK, Numbered, Kept, Next, FramesInOrder PROVE FramesInOrder'
<1> SUFFICES ASSUME NEW c \in Calls
             PROVE  \A i \in 1..Len(queue'[c]) : /\ queue'[c][i].id = number'[c]
                                                 /\ queue'[c][i].place = read'[c] + i
  BY DEF FramesInOrder
<1>1. c \in Streams /\ read[c] \in Nat /\ queue[c] \in Seq(Frames) /\ number[c] \in Ids
  BY CallTyped
<1>2. \A i \in 1..Len(queue[c]) : queue[c][i].id = number[c] /\ queue[c][i].place = read[c] + i
  BY DEF FramesInOrder
<1>3. CASE queue'[c] = <<>>
  BY <1>3
<1>4. CASE queue'[c] = queue[c] /\ read'[c] = read[c] /\ number'[c] = number[c]
  BY <1>2, <1>4
<1>5. CASE CreateStream(c)
  <2>1. queue[c] = <<>>
    BY <1>5 DEF CreateStream, Numbered, Started
  <2> QED BY <1>3, <1>5, <2>1 DEF CreateStream
<1>6. CASE Recv(c)
  <2>1. CASE Drop(c)
    BY <1>1, <1>3, <2>1 DEF Drop, TypeOK
  <2>2. CASE queue[c] = <<>>
    BY <1>3, <1>6, <2>2 DEF Recv
  <2>3. CASE queue[c] # <<>> /\ ~Drop(c)
    <3>1. read' = [read EXCEPT ![c] = @ + 1] /\ queue' = [queue EXCEPT ![c] = Tail(@)]
          /\ UNCHANGED number
      BY <1>6, <2>3 DEF Recv
    <3>2. read'[c] = read[c] + 1 /\ queue'[c] = Tail(queue[c]) /\ number'[c] = number[c]
      BY <1>1, <3>1 DEF TypeOK
    <3>3. \A i \in 1..Len(queue'[c]) : queue'[c][i] = queue[c][i + 1] /\ i + 1 \in 1..Len(queue[c])
      BY <1>1, <2>3, <3>2
    <3> TAKE i \in 1..Len(queue'[c])
    <3>4. /\ queue[c][i + 1].id = number[c]
          /\ queue[c][i + 1].place = read[c] + (i + 1)
      BY <1>2, <3>3
    <3>5. i \in Int /\ read[c] + (i + 1) = (read[c] + 1) + i
      BY <1>1
    <3> QED BY <3>2, <3>3, <3>4, <3>5
  <2> QED BY <2>1, <2>2, <2>3
<1>7. CASE Send(c) \/ SendFinal(c) \/ RemoveFinal(c) \/ GiveUp(c)
  <2>1. CASE Drop(c)
    BY <1>1, <1>3, <2>1 DEF Drop, TypeOK
  <2>2. CASE ~Drop(c)
    BY <1>4, <1>7, <2>2 DEF Send, SendFinal, RemoveFinal, GiveUp
  <2> QED BY <2>1, <2>2
<1>8. ASSUME NEW s \in Streams, s # c, Recv(s) \/ (s \in Calls /\ (CallMoves(s) \/ GiveUp(s)))
      PROVE  queue'[c] = queue[c] /\ read'[c] = read[c] /\ number'[c] = number[c]
  BY <1>1, <1>8 DEF Recv, CallMoves, CreateStream, Send, SendFinal, RemoveFinal, GiveUp, Drop,
                    TypeOK
<1>9. CASE \/ Close \/ Accept \/ ListenerLeaves \/ PeerEnds
           \/ \E id \in Ids, kind \in Kinds : ServerSends(id, kind)
  BY <1>4, <1>9 DEF Close, Accept, ListenerLeaves, PeerEnds, ServerSends, streamVars
<1>10. CASE NextFrame
  <2>1. \A s \in Incoming : s # c
    BY StreamAssumption
  <2> QED BY <1>1, <1>4, <1>10, <2>1 DEF NextFrame, TypeOK, streamVars
<1>16. CASE Announce \/ LastHandleDropped
  BY <1>4, <1>16, CallsSpared
<1>11. CASE Route \/ Conclude \/ Drain \/ CloseSink
  BY <1>4, <1>11 DEF Route, Conclude, Drain, CloseSink, streamVars
<1>12. CASE Deliver
  <2> DEFINE s == map[loop.frame.id]
  <2>1. CASE s # c \/ UNCHANGED queue
    BY <1>1, <1>4, <1>12, <2>1 DEF Deliver, Put, TypeOK
  <2>2. CASE s = c /\ Put(c) /\ ~Dropped(c)
    <3>1. Running /\ InHand(loop) /\ loop.frame.id \in Ids
      BY <1>12 DEF Deliver, Running, InHand, TypeOK, Frames
    <3>2. c \in Started /\ number[c] = loop.frame.id
      BY <2>2, <3>1 DEF Numbered
    <3>3. WireInOrder /\ NothingLost(c)
      BY <2>2, <3>1, <3>2 DEF Kept, Live, Dropped, Started
    <3>4. loop.frame.place = read[c] + Len(queue[c]) + 1
      BY <3>1, <3>2, <3>3, InHandIsNext DEF Got
    <3>5. queue'[c] = Append(queue[c], loop.frame) /\ read'[c] = read[c] /\ number'[c] = number[c]
      BY <1>1, <1>12, <2>2 DEF Put, Deliver, TypeOK
    <3>6. loop.frame \in Frames
      BY WireTyped
    <3>7. /\ Len(queue'[c]) = Len(queue[c]) + 1 /\ Len(queue[c]) \in Nat
          /\ queue'[c][Len(queue[c]) + 1] = loop.frame
          /\ \A i \in 1..Len(queue[c]) : queue'[c][i] = queue[c][i]
      BY <1>1, <3>5, <3>6
    <3> TAKE i \in 1..Len(queue'[c])
    <3>8. CASE i \in 1..Len(queue[c])
      BY <1>2, <3>5, <3>7, <3>8
    <3>9. CASE i = Len(queue[c]) + 1
      BY <1>1, <3>2, <3>4, <3>5, <3>7, <3>9
    <3> QED BY <3>7, <3>8, <3>9
  <2> QED BY <1>12, <2>1, <2>2 DEF Deliver
<1>13. CASE \E d \in Calls : CallMoves(d) \/ GiveUp(d)
  <2>1. PICK d \in Calls : CallMoves(d) \/ GiveUp(d)
    BY <1>13
  <2>2. CASE d = c
    BY <1>5, <1>7, <2>1, <2>2 DEF CallMoves
  <2>3. CASE d # c
    <3>1. d \in Streams
      BY CallTyped
    <3> QED BY <1>4, <1>8, <2>1, <2>3, <3>1
  <2> QED BY <2>2, <2>3
<1>14. CASE \E s \in Streams : Recv(s)
  <2>1. PICK s \in Streams : Recv(s)
    BY <1>14
  <2>2. CASE s = c
    BY <1>6, <2>1, <2>2
  <2>3. CASE s # c
    BY <1>4, <1>8, <2>1, <2>3
  <2> QED BY <2>2, <2>3
<1>15. CASE LoopMoves
  BY <1>10, <1>11, <1>12, <1>15, <1>16 DEF LoopMoves
<1> QED BY <1>9, <1>13, <1>14, <1>15, <1>16 DEF Next

LEMMA EndStep ==
  ASSUME TypeOK, Numbered, Kept, Next, EndComesLast PROVE EndComesLast'
<1> SUFFICES ASSUME NEW c \in Calls, at'[c] = "none", Running'
             PROVE  /\ server'[number'[c]].state = "concluded"
                    /\ read'[c] = server'[number'[c]].sent
  BY DEF EndComesLast, Running
<1>1. /\ Running /\ c \in Streams /\ number[c] \in Ids /\ read[c] \in Nat
  BY RunningBefore, CallTyped
<1>2. CASE at[c] = "none"
  <2>1. server[number[c]].state = "concluded" /\ read[c] = server[number[c]].sent
    BY <1>1, <1>2 DEF EndComesLast, Running
  <2>2. read'[c] = read[c] /\ number'[c] = number[c]
    <3>1. ASSUME NEW s \in Streams, Recv(s) PROVE read'[c] = read[c] /\ UNCHANGED number
      BY <1>1, <1>2, <3>1 DEF Recv, TypeOK
    <3>2. ASSUME NEW d \in Calls, CallMoves(d) \/ GiveUp(d)
          PROVE  read' = read /\ number'[c] = number[c]
      BY <1>1, <1>2, <3>2 DEF CallMoves, CreateStream, Send, SendFinal, RemoveFinal, GiveUp,
                              TypeOK
    <3>3. CASE NextFrame
      <4>1. \A s \in Incoming : s # c
        BY StreamAssumption
      <4> QED BY <1>1, <3>3, <4>1 DEF NextFrame, TypeOK, streamVars
    <3>4. CASE \/ Close \/ Accept \/ ListenerLeaves \/ PeerEnds
               \/ Route \/ Deliver \/ Conclude \/ Drain \/ CloseSink
               \/ \E id \in Ids, kind \in Kinds : ServerSends(id, kind)
      BY <3>4 DEF Close, Accept, ListenerLeaves, PeerEnds, Route, Deliver, Conclude,
                  Drain, CloseSink, ServerSends, streamVars
    <3>5. CASE Announce \/ LastHandleDropped
      BY <3>5, CallsSpared
    <3> QED BY <3>1, <3>2, <3>3, <3>4, <3>5 DEF Next, LoopMoves
  <2>3. server'[number[c]] = server[number[c]]
    BY <1>1, <2>1, ServerStep DEF ServerGrows
  <2> QED BY <2>1, <2>2, <2>3
<1>3. CASE at[c] # "none"
  <2>1. Recv(c) /\ queue[c] = <<>> /\ NoSender(c)
    <3>1. ASSUME NEW s \in Streams, Recv(s) PROVE s = c /\ queue[c] = <<>> /\ NoSender(c)
      BY <1>1, <1>3, <3>1 DEF Recv, Drop, TypeOK, GoesOn
    <3>2. ASSUME NEW d \in Calls, CallMoves(d) \/ GiveUp(d) PROVE FALSE
      BY <1>1, <1>3, <3>2 DEF CallMoves, CreateStream, Send, SendFinal, RemoveFinal, GiveUp,
                              Drop, TypeOK, Streams
    <3>3. ASSUME NextFrame \/ Accept PROVE FALSE
      BY <1>1, <1>3, <3>3 DEF NextFrame, Accept, TypeOK, streamVars
    <3>4. ASSUME \/ Close \/ ListenerLeaves \/ PeerEnds
                 \/ Route \/ Deliver \/ Conclude \/ Drain \/ CloseSink
                 \/ \E id \in Ids, kind \in Kinds : ServerSends(id, kind)
          PROVE  FALSE
      BY <1>3, <3>4 DEF Close, ListenerLeaves, PeerEnds, Route, Deliver, Conclude,
                        Drain, CloseSink, ServerSends, streamVars
    <3>5. ASSUME Announce \/ LastHandleDropped PROVE FALSE
      BY <1>3, <3>5, CallsSpared
    <3> QED BY <3>1, <3>2, <3>3, <3>4, <3>5 DEF Next, LoopMoves
  <2>2. Live(c)
    BY <2>1 DEF Recv, Live
  <2>3. server[number[c]].state = "concluded" /\ read[c] + Len(queue[c]) = server[number[c]].sent
    BY <1>1, <2>1, <2>2 DEF Kept, NothingLost, Got, NoSender
  <2>4. UNCHANGED <<server, read, number>>
    BY <2>1 DEF Recv, serverVars
  <2>5. Len(queue[c]) = 0
    BY <2>1
  <2> QED BY <1>1, <2>3, <2>4, <2>5
<1> QED BY <1>2, <1>3

-----------------------------------------------------------------------------
(* The theorems *)

LEMMA InitHolds == Init => IInv
<1> SUFFICES ASSUME Init PROVE IInv
  OBVIOUS
<1>1. TypeOK
  BY InitTyped
<1>2. NoStream \notin Calls /\ Calls \subseteq Streams /\ \A c \in Calls : at[c] = "start"
  BY StreamAssumption DEF Init, Streams
<1>3. Numbered
  <2>1. Started = {} /\ Cardinality(Started) = 0
    BY <1>2, FS_EmptySet DEF Started
  <2>2. nextId = (2 * Cardinality(Started) + 1) % IdSpace
    <3>1. IdSpace \in Nat /\ IdSpace > 1
      BY BoundsTyped, StreamAssumption
    <3>2. 1 % IdSpace = 1
      BY <3>1, SmallRemainder
    <3> QED BY <2>1, <3>2 DEF Init
  <2> QED BY <1>2, <2>1, <2>2 DEF Init, Numbered
<1>4. Kept
  BY <1>2 DEF Init, Kept, WireInOrder, InHand, Announced, Live
<1>5. FramesInOrder /\ EndComesLast
  BY <1>2 DEF Init, FramesInOrder, EndComesLast
<1> QED BY <1>1, <1>3, <1>4, <1>5 DEF IInv

LEMMA NextKeeps == IInv /\ [Next]_vars => IInv'
<1> SUFFICES ASSUME IInv, [Next]_vars PROVE IInv'
  OBVIOUS
<1>1. CASE Next
  <2>1. TypeOK'
    BY <1>1, TypeStep DEF IInv
  <2> QED BY <1>1, <2>1, NumberedStep, KeptStep, OrderStep, EndStep DEF IInv
<1>2. CASE UNCHANGED vars
  <2>1. TypeOK'
    BY <1>2 DEF vars, streamVars, serverVars, IInv, TypeOK
  <2>2. Numbered'
    <3>1. NumbersKept
      BY <1>2 DEF vars, streamVars, serverVars, NumbersKept
    <3> QED BY <3>1, NumbersStay DEF IInv
  <2>3. Kept'
    BY <1>2 DEF vars, streamVars, serverVars, IInv, Kept, Running, WireInOrder, Announced,
                Live, NothingLost, Got
  <2>4. FramesInOrder' /\ EndComesLast'
    BY <1>2 DEF vars, streamVars, serverVars, IInv, FramesInOrder, EndComesLast
  <2> QED BY <2>1, <2>2, <2>3, <2>4 DEF IInv
<1> QED BY <1>1, <1>2

\* The inductive invariant: identifiers are fresh, frames keep their order, and what a
\* call has not got is on its way (connector.rs, create_stream and receive_loop).
THEOREM InductiveInvariant == Spec => []IInv
BY InitHolds, NextKeeps, PTL DEF Spec

\* Every variable keeps its type, and no queue outgrows the capacity it was made with
\* (connector.rs, create_stream_with_buffer and receive_loop).
THEOREM TypeCorrect == Spec => []TypeOK
<1>1. IInv => TypeOK
  BY DEF IInv
<1> QED BY <1>1, InductiveInvariant, PTL

\* A call is given the frames of its own stream, in the order they were sent and
\* without a gap, for any number of streams and any buffers (stream.rs, recv).
THEOREM FramesAreInOrder == Spec => []FramesInOrder
<1>1. IInv => FramesInOrder
  BY DEF IInv
<1> QED BY <1>1, InductiveInvariant, PTL

\* The end of a stream comes after all its frames, as long as the connection lasts.
THEOREM EndsComeLast == Spec => []EndComesLast
<1>1. IInv => EndComesLast
  BY DEF IInv
<1> QED BY <1>1, InductiveInvariant, PTL

=============================================================================
