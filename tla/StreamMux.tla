------------------------------ MODULE StreamMux ------------------------------
(***************************************************************************)
(* One connection to the server and the streams it carries (connector.rs,  *)
(* stream.rs): calls of this process open a stream each and wait for what  *)
(* comes on it, the receive loop hands each frame to the bounded queue of  *)
(* its stream, a listener accepts the streams the server opens.            *)
(*                                                                         *)
(* The map from identifiers to queues is a DashMap: locked shard by shard, *)
(* and a reference into it is a read lock.  The loop keeps such a          *)
(* reference while it waits for room in a queue, and while it removes the  *)
(* entry of a stream nobody reads any more - which waits for that lock.    *)
(*                                                                         *)
(* A frame carries its place among those of its stream instead of a        *)
(* payload.  Left out: pings and texts, which the loop ignores, the reason *)
(* of a close, and the waiting of a sender for the socket.  A thread of    *)
(* the runtime is taken to be free for whoever can go on.                  *)
(***************************************************************************)
EXTENDS Integers, Sequences, FiniteSets

CONSTANTS
  Requests,      \* calls with one answer: send_action_request and its like
  Transfers,     \* downloads and uploads: any number of frames
  NoStream,      \* not a stream
  IdSpace,       \* identifiers are counted modulo IdSpace: 2^32
  Shard,         \* the shard of the map an identifier is in
  Buffer,        \* the capacity of each queue: STREAM_BUFFER, DOWNLOAD_STREAM_BUFFER
  AcceptBuffer,  \* capacity of new_streams
  Kinds,         \* the kinds of frames that come: "bad" ones cannot be decoded
  Listened,      \* whether server_push.rs accepts the server's streams on this connection
  PeerMayEnd,    \* whether the server or the network may end the connection
  MaxFrames,     \* bound: frames the server sends
  MaxWire,       \* bound: frames on the way
  MaxDisturbances \* bound: calls given up, closes and frames that cannot be decoded

Ids == 0..(IdSpace - 1)
Calls == Requests \union Transfers

\* Each frame opens one stream at most.
Incoming == 1..MaxFrames
Streams == Calls \union Incoming

\* No identifier comes back while the connection lasts.
ASSUME StreamAssumption ==
  /\ IsFiniteSet(Calls) /\ Requests \intersect Transfers = {}
  /\ Calls \intersect Incoming = {} /\ NoStream \notin Streams
  /\ IdSpace \in Nat \ {0} /\ IdSpace % 2 = 0 /\ IdSpace >= 2 * Cardinality(Calls)
  /\ Shard \in [Ids -> Nat]
  /\ Buffer \in [Streams -> Nat \ {0}] /\ AcceptBuffer \in Nat \ {0}
  /\ Kinds \subseteq {"process", "conclusion", "bad"}
  /\ {Listened, PeerMayEnd} \subseteq BOOLEAN
  /\ {MaxFrames, MaxWire, MaxDisturbances} \subseteq Nat

VARIABLES
  nextId,      \* next_stream_id
  map,         \* streams: identifier -> the stream whose queue is in the map
  number,      \* Stream.id
  queue,       \* Stream.rx: frames delivered and not yet read
  read,        \* how many frames have been read from a stream
  at,          \* where the owner of a stream is
  accepting,   \* new_streams: opened by the server, not yet accepted
  listener,    \* server_push.rs "listens" on this connection or has "left" it, or
               \* the last handle has been "dropped", and new_streams with it
  loop,        \* the receive loop: control point and the frame at hand
  closed,      \* closed
  sinkOpen,    \* ws_tx has not been closed
  wire,        \* frames on the way
  peer,        \* "up", or "gone" once the connection has ended
  server,      \* the server's side of each stream, and how much it sent on it
  sent,        \* frames sent so far
  disturbances \* how many of them so far

streamVars == <<number, queue, read, at>>
serverVars == <<wire, peer, server, sent>>
vars == <<nextId, map, streamVars, accepting, listener, loop, closed, sinkOpen,
          serverVars, disturbances>>

NoFrame == [id |-> 0, place |-> 0, kind |-> "process"]

Init ==
  /\ nextId = 1
  /\ map = [i \in Ids |-> NoStream]
  /\ number = [s \in Streams |-> 0]
  /\ queue = [s \in Streams |-> <<>>]
  /\ read = [s \in Streams |-> 0]
  /\ at = [s \in Streams |-> IF s \in Calls THEN "start" ELSE "unused"]
  /\ accepting = <<>>
  /\ listener = IF Listened THEN "listens" ELSE "left"
  /\ loop = [pc |-> "next", frame |-> NoFrame]
  /\ closed = FALSE
  /\ sinkOpen = TRUE
  /\ wire = <<>>
  /\ peer = "up"
  /\ server = [i \in Ids |-> [state |-> "closed", sent |-> 0]]
  /\ sent = 0
  /\ disturbances = 0

-----------------------------------------------------------------------------
(* The map. *)

\* The loop reads the socket.
Running == loop.pc \notin {"close", "ended"}

\* The loop has a reference into the shard of an identifier.
Held(id) == loop.pc \in {"deliver", "stuck"} /\ Shard[loop.frame.id] = Shard[id]

\* The Stream has been dropped: its queue takes nothing more.
Dropped(s) == at[s] \in {"done", "none"}

\* Its sender has been dropped: nothing more will come.
NoSender(s) == map[number[s]] # s

-----------------------------------------------------------------------------
(* The calls of this process. *)

\* create_stream: an odd identifier is taken, and its queue enters the map whether
\* or not anybody still fills it.
CreateStream(c) ==
  /\ at[c] = "start" /\ listener # "dropped"
  /\ ~Held(nextId)
  /\ number' = [number EXCEPT ![c] = nextId]
  /\ map' = [map EXCEPT ![nextId] = c]
  /\ nextId' = (nextId + 2) % IdSpace
  /\ at' = [at EXCEPT ![c] = "send"]
  /\ UNCHANGED <<queue, read, accepting, listener, loop, closed, sinkOpen, serverVars,
                 disturbances>>

\* The owner has finished: the Stream is dropped, with what is in its queue.
Drop(s) ==
  /\ at' = [at EXCEPT ![s] = "done"]
  /\ queue' = [queue EXCEPT ![s] = <<>>]

SendFails == ~sinkOpen \/ peer = "gone"

\* send_raw with a frame that is not the last one.
Send(c) ==
  /\ at[c] = "send"
  /\ \/ /\ sinkOpen
        /\ at' = [at EXCEPT ![c] = "read"]
        /\ server' = IF server[number[c]].state = "closed"
                     THEN [server EXCEPT ![number[c]].state = "open"] ELSE server
        /\ UNCHANGED <<closed, queue>>
     \/ /\ SendFails
        /\ Drop(c)
        /\ closed' = TRUE
        /\ UNCHANGED server
  /\ UNCHANGED <<nextId, map, number, read, accepting, listener, loop, sinkOpen,
                 wire, peer, sent, disturbances>>

\* What the owner of a stream does with a frame: an answer is enough for a
\* request (set_passwd ends its stream politely) and for a pushed event; a
\* transfer goes on, answers or ends.
GoesOn(s) ==
  IF s \in Requests THEN {"final"} ELSE IF s \in Transfers THEN {"read", "send"} ELSE {}

\* recv: a frame, or None once the sender is gone and the queue empty.
Recv(s) ==
  /\ at[s] = "read"
  /\ \/ /\ queue[s] # <<>>
        /\ read' = [read EXCEPT ![s] = @ + 1]
        /\ \/ Drop(s)
           \/ /\ queue' = [queue EXCEPT ![s] = Tail(@)]
              /\ \E next \in GoesOn(s) : at' = [at EXCEPT ![s] = next]
     \/ /\ queue[s] = <<>> /\ NoSender(s)
        /\ at' = [at EXCEPT ![s] = "none"]
        /\ UNCHANGED <<queue, read>>
  /\ UNCHANGED <<nextId, map, number, accepting, listener, loop, closed, sinkOpen,
                 serverVars, disturbances>>

\* send_final: the last frame is sent ...
SendFinal(c) ==
  /\ at[c] = "final"
  /\ \/ /\ sinkOpen
        /\ at' = [at EXCEPT ![c] = "remove"]
        /\ UNCHANGED <<closed, queue>>
     \/ /\ SendFails
        /\ Drop(c)
        /\ closed' = TRUE
  /\ UNCHANGED <<nextId, map, number, read, accepting, listener, loop, sinkOpen,
                 serverVars, disturbances>>

\* ... and the entry removed.
RemoveFinal(c) ==
  /\ at[c] = "remove"
  /\ ~Held(number[c])
  /\ map' = [map EXCEPT ![number[c]] = NoStream]
  /\ Drop(c)
  /\ UNCHANGED <<nextId, number, read, accepting, listener, loop, closed, sinkOpen,
                 serverVars, disturbances>>

Disturb ==
  /\ disturbances < MaxDisturbances
  /\ disturbances' = disturbances + 1

\* A download is paused or cancelled, an attempt to connect superseded: the future
\* is dropped where it waits for a frame, and its Stream with it.
GiveUp(c) ==
  /\ at[c] = "read"
  /\ Disturb
  /\ Drop(c)
  /\ UNCHANGED <<nextId, map, number, read, accepting, listener, loop, closed,
                 sinkOpen, serverVars>>

\* Connection::close, by whoever has a handle.
Close ==
  /\ ~closed /\ listener # "dropped"
  /\ Disturb
  /\ closed' = TRUE
  /\ sinkOpen' = FALSE
  /\ UNCHANGED <<nextId, map, streamVars, accepting, listener, loop, serverVars>>

-----------------------------------------------------------------------------
(* The listener of server_push.rs; dispatch_stream is Recv. *)

Accept ==
  /\ listener = "listens"
  /\ accepting # <<>>
  /\ accepting' = Tail(accepting)
  /\ at' = [at EXCEPT ![Head(accepting)] = "read"]
  /\ UNCHANGED <<nextId, map, number, queue, read, listener, loop, closed, sinkOpen,
                 serverVars, disturbances>>

\* The connection has closed or been replaced, or the program shuts down.
ListenerLeaves ==
  /\ listener = "listens"
  /\ IF closed THEN UNCHANGED disturbances ELSE Disturb
  /\ listener' = "left"
  /\ UNCHANGED <<nextId, map, streamVars, accepting, loop, closed, sinkOpen, serverVars>>

\* Nobody has a handle of the connection any more: what has not been accepted
\* is dropped, while the loop reads on.
LastHandleDropped ==
  /\ listener = "left"
  /\ \A c \in Calls : at[c] \in {"start", "done", "none"}
  /\ listener' = "dropped"
  /\ accepting' = <<>>
  /\ LET lost == {accepting[i] : i \in 1..Len(accepting)} IN
     /\ at' = [s \in Streams |-> IF s \in lost THEN "done" ELSE at[s]]
     /\ queue' = [s \in Streams |-> IF s \in lost THEN <<>> ELSE queue[s]]
  /\ UNCHANGED <<nextId, map, number, read, loop, closed, sinkOpen, serverVars, disturbances>>

-----------------------------------------------------------------------------
(* The receive loop. *)

LoopAt(pc) == loop' = [loop EXCEPT !.pc = pc]

\* A frame comes; for an identifier that is not in the map a stream is made.
NextFrame ==
  /\ loop.pc = "next"
  /\ wire # <<>>
  /\ wire' = IF Head(wire).kind = "bad" THEN <<>> ELSE Tail(wire)
  /\ LET f == Head(wire) IN
     \/ /\ f.kind = "bad"
        /\ loop' = [pc |-> "close", frame |-> f]
        /\ UNCHANGED <<map, streamVars>>
     \/ /\ f.kind # "bad" /\ map[f.id] # NoStream
        /\ loop' = [pc |-> "route", frame |-> f]
        /\ UNCHANGED <<map, streamVars>>
     \/ /\ f.kind # "bad" /\ map[f.id] = NoStream
        /\ loop' = [pc |-> "announce", frame |-> f]
        /\ \E s \in Incoming :
             /\ at[s] = "unused" /\ \A t \in 1..(s - 1) : at[t] # "unused"
             /\ map' = [map EXCEPT ![f.id] = s]
             /\ number' = [number EXCEPT ![s] = f.id]
             /\ at' = [at EXCEPT ![s] = "announced"]
        /\ UNCHANGED <<queue, read>>
  /\ UNCHANGED <<nextId, accepting, listener, closed, sinkOpen, peer, server, sent, disturbances>>

\* The new stream waits for room among those not yet accepted. Without a receiver
\* it is dropped at once, and its entry stays in the map.
Announce ==
  /\ loop.pc = "announce"
  /\ \/ /\ listener # "dropped" /\ Len(accepting) < AcceptBuffer
        /\ accepting' = Append(accepting, map[loop.frame.id])
        /\ UNCHANGED <<at, queue>>
     \/ /\ listener = "dropped"
        /\ Drop(map[loop.frame.id])
        /\ UNCHANGED accepting
  /\ LoopAt("route")
  /\ UNCHANGED <<nextId, map, number, read, listener, closed, sinkOpen, serverVars, disturbances>>

\* streams.get: a reference, unless a send_final has removed the entry meanwhile.
Route ==
  /\ loop.pc = "route"
  /\ LoopAt(IF map[loop.frame.id] = NoStream THEN "conclude" ELSE "deliver")
  /\ UNCHANGED <<nextId, map, streamVars, accepting, listener, closed, sinkOpen,
                 serverVars, disturbances>>

\* Mutant: a frame that finds no room is thrown away.
DeliverOrDiscard(s) ==
  /\ queue' = IF Len(queue[s]) < Buffer[s]
              THEN [queue EXCEPT ![s] = Append(@, loop.frame)] ELSE queue
  /\ LoopAt("conclude")

\* Mutant: the queue of a stream has no limit.
PutAnyway(s) == queue' = [queue EXCEPT ![s] = Append(@, loop.frame)] /\ LoopAt("conclude")

\* The payload waits for room in the queue of its stream.
Put(s) ==
  /\ Len(queue[s]) < Buffer[s]
  /\ queue' = [queue EXCEPT ![s] = Append(@, loop.frame)]
  /\ LoopAt("conclude")

\* Nobody reads the stream any more: the entry is to be removed, while the loop's
\* own reference still locks it.
Deliver ==
  /\ loop.pc = "deliver"
  /\ LET s == map[loop.frame.id] IN
     \/ ~Dropped(s) /\ Put(s)
     \/ Dropped(s) /\ LoopAt("stuck") /\ UNCHANGED queue
  /\ UNCHANGED <<nextId, map, number, read, at, accepting, listener, closed, sinkOpen,
                 serverVars, disturbances>>

\* Mutant: each answer ends its stream.
EndsAnyway(f) == TRUE

Ends(f) == f.kind = "conclusion"

Conclude ==
  /\ loop.pc = "conclude"
  /\ map' = IF Ends(loop.frame) THEN [map EXCEPT ![loop.frame.id] = NoStream] ELSE map
  /\ loop' = [pc |-> "next", frame |-> NoFrame]
  /\ UNCHANGED <<nextId, streamVars, accepting, listener, closed, sinkOpen, serverVars,
                 disturbances>>

\* Mutant: the streams left are not told.
DrainForgets ==
  /\ loop.pc = "next"
  /\ wire = <<>> /\ peer = "gone"
  /\ closed' = TRUE
  /\ LoopAt("close")
  /\ UNCHANGED <<nextId, map, streamVars, accepting, listener, sinkOpen, serverVars,
                 disturbances>>

\* A close frame, an error or the end: the map is emptied.
Drain ==
  /\ loop.pc = "next"
  /\ wire = <<>> /\ peer = "gone"
  /\ map' = [i \in Ids |-> NoStream]
  /\ closed' = TRUE
  /\ LoopAt("close")
  /\ UNCHANGED <<nextId, streamVars, accepting, listener, sinkOpen, serverVars, disturbances>>

\* The task around the loop; a frame that cannot be decoded leads here directly.
CloseSink ==
  /\ loop.pc = "close"
  /\ closed' = TRUE
  /\ sinkOpen' = FALSE
  /\ LoopAt("ended")
  /\ UNCHANGED <<nextId, map, streamVars, accepting, listener, serverVars, disturbances>>

-----------------------------------------------------------------------------
(* The server and the network. *)

TransferOf(id) == \E c \in Transfers : at[c] # "start" /\ number[c] = id

\* A frame on a stream the server knows or, with an even identifier, opens.  A
\* request has one answer, and a push one event, concluded at once or afterwards.
ServerSends(id, kind) ==
  /\ peer = "up" /\ Running
  /\ sent < MaxFrames /\ Len(wire) < MaxWire
  /\ \/ server[id].state = "open"
     \/ /\ server[id].state = "closed" /\ id % 2 = 0
        /\ \A j \in Ids : j % 2 = 0 /\ j < id => server[j].state # "closed"
  /\ server[id].sent > 0 => kind = "conclusion" \/ TransferOf(id)
  /\ wire' = Append(wire, [id |-> id, place |-> server[id].sent + 1, kind |-> kind])
  /\ server' = [server EXCEPT ![id].state = IF kind = "conclusion" THEN "concluded"
                                            ELSE "open",
                              ![id].sent = @ + 1]
  /\ sent' = sent + 1
  /\ IF kind = "bad" THEN Disturb ELSE UNCHANGED disturbances
  /\ UNCHANGED <<nextId, map, streamVars, accepting, listener, loop, closed, sinkOpen,
                 peer>>

\* The connection ends.  A frame that was lost is one that was not sent.
PeerEnds ==
  /\ PeerMayEnd
  /\ peer = "up"
  /\ peer' = "gone"
  /\ UNCHANGED <<nextId, map, streamVars, accepting, listener, loop, closed, sinkOpen,
                 wire, server, sent, disturbances>>

-----------------------------------------------------------------------------

LoopMoves ==
  NextFrame \/ Announce \/ Route \/ Deliver \/ Conclude \/ Drain \/ CloseSink

CallMoves(c) ==
  CreateStream(c) \/ Send(c) \/ SendFinal(c) \/ RemoveFinal(c)

Next ==
  \/ \E c \in Calls : CallMoves(c) \/ GiveUp(c)
  \/ \E s \in Streams : Recv(s)
  \/ Close \/ Accept \/ ListenerLeaves \/ LastHandleDropped
  \/ LoopMoves
  \/ \E id \in Ids, kind \in Kinds : ServerSends(id, kind)
  \/ PeerEnds

Spec == Init /\ [][Next]_vars

\* As long as a task of this process can go on, some task does: the runtime polls
\* what is ready.  The server, the network and the user need do nothing.
Moves == LoopMoves \/ Accept \/ (\E c \in Calls : CallMoves(c)) \/ (\E s \in Streams : Recv(s))

Fairness == WF_vars(Moves)

FairSpec == Spec /\ Fairness

-----------------------------------------------------------------------------
(* Properties. *)

Frames == [id : Ids, place : Nat, kind : {"process", "conclusion", "bad"}]

\* Every variable has its type; no queue outgrows its capacity.
TypeOK ==
  /\ nextId \in Ids
  /\ map \in [Ids -> Streams \union {NoStream}]
  /\ number \in [Streams -> Ids]
  /\ queue \in [Streams -> Seq(Frames)]
  /\ \A s \in Streams : Len(queue[s]) <= Buffer[s]
  /\ read \in [Streams -> Nat]
  /\ at \in [Streams -> {"start", "send", "read", "final", "remove", "done",
                         "none", "unused", "announced"}]
  /\ accepting \in Seq(Incoming) /\ Len(accepting) <= AcceptBuffer
  /\ loop \in [pc : {"next", "announce", "route", "deliver", "conclude", "stuck",
                     "close", "ended"},
               frame : Frames]
  /\ listener \in {"listens", "left", "dropped"}
  /\ {closed, sinkOpen} \subseteq BOOLEAN
  /\ wire \in Seq(Frames)
  /\ peer \in {"up", "gone"}
  /\ server \in [Ids -> [state : {"closed", "open", "concluded"}, sent : Nat]]
  /\ sent \in 0..MaxFrames
  /\ disturbances \in 0..MaxDisturbances

\* A call is given the frames of its own stream, in the order they were sent and
\* without a gap, however full the queues are and whoever else waits.
FramesInOrder ==
  \A c \in Calls : \A i \in 1..Len(queue[c]) :
    queue[c][i].id = number[c] /\ queue[c][i].place = read[c] + i

\* As long as the connection lasts, a call that is told that its stream has ended
\* has been given everything: the last frame comes before the end.
EndComesLast ==
  \A c \in Calls : at[c] = "none" /\ loop.pc \notin {"close", "ended"} =>
    /\ server[number[c]].state = "concluded"
    /\ read[c] = server[number[c]].sent

Concluded(c) == peer = "gone" \/ server[number[c]].state = "concluded"

\* The loop does not go on: it waits for the lock it holds itself, a frame that
\* could not be decoded has ended it before the map was emptied, or nobody accepts
\* the streams of the server.
LoopFails ==
  \/ loop.pc = "stuck"
  \/ loop.frame.kind = "bad"
  \/ loop.pc = "announce" /\ listener = "left"

\* Who waits for an answer is not left waiting after the server has concluded the
\* stream or the connection has ended, unless the loop fails or had ended before.
WaitingEnds ==
  \A c \in Calls : (at[c] = "read" /\ Concluded(c) /\ Running) ~> (at[c] # "read" \/ LoopFails)

\* What Stream::recv promises: "Returns None when the stream has been closed (remote
\* sent a Conclusion or the connection was dropped)", so nobody waits for ever.
ClosedStreamsEnd ==
  \A c \in Calls : (at[c] = "read" /\ Concluded(c)) ~> at[c] # "read"
=============================================================================
