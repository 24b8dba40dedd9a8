---------------------- MODULE DirectoryListing_proofs ----------------------
(***************************************************************************)
(* Theorems about DirectoryListing, for any page size, any directories,    *)
(* sort orders and bounds: what the table shows is always a prefix of the  *)
(* directory opened last, complete means everything, and pages are fetched *)
(* one at a time.  With it, the page and its sorter implement              *)
(* DirectoryView.                                                          *)
(***************************************************************************)
EXTENDS DirectoryListing, WellFoundedInduction, TLAPS

-----------------------------------------------------------------------------
(* The inductive invariant. *)

\* An accumulator, or a snapshot, that holds the first pages of directory g of ds.
\* Before the first load there is no directory, and nothing is held.
HoldsPrefix(ds, a, g) ==
  IF g \in 1..Len(ds)
  THEN /\ a.pages <= Len(ds[g])
       /\ a.loadedCount = EntriesOf(ds[g], a.pages)
       /\ a.complete <=> (a.pages = Len(ds[g]))
  ELSE a.pages = 0 /\ a.loadedCount = 0 /\ ~a.complete

GenuineSnapshot(ds, s) ==
  s.generation \in 1..Len(ds) /\ HoldsPrefix(ds, s, s.generation)

\* A message to the worker tells the truth about the directory.
GenuineMessage(ds, m) ==
  /\ m.generation \in 1..Len(ds)
  /\ m.kind = "append" =>
       /\ m.pages \in 1..Len(ds[m.generation])
       /\ m.size = PageLength(ds[m.generation], m.pages)
       /\ m.complete <=> (m.pages = Len(ds[m.generation]))
  /\ m.kind = "reset" => m.pages = 0

\* Message m finds an accumulator of generation g with so many pages.
Follows(g, pages, m) ==
  \/ m.kind = "reset"
  \/ m.kind = "append" /\ m.generation = g /\ m.pages = pages + 1
  \/ m.kind = "resort" /\ m.generation = g /\ m.pages = pages

\* Each message of box finds what the one before, or worker wk, has left.
Linked(ds, box, wk) ==
  /\ \A i \in 1..Len(box) : GenuineMessage(ds, box[i])
  /\ \A i \in 2..Len(box) : Follows(box[i - 1].generation, box[i - 1].pages, box[i])
  /\ box # <<>> =>
       \/ box[1].kind = "reset"
       \/ wk # None /\ Follows(wk.generation, wk.acc.pages, box[1])

\* Once the worker has read its inbox, it has the pages client cl has.
CatchesUp(cl, box, wk) ==
  IF box = <<>>
  THEN /\ wk # None
       /\ wk.generation = cl.generation
       /\ wk.acc.pages = cl.acc.pages
  ELSE /\ box[Len(box)].generation = cl.generation
       /\ box[Len(box)].pages = cl.acc.pages

GenuineWorker(ds, wk) ==
  wk # None => wk.generation \in 1..Len(ds) /\ HoldsPrefix(ds, wk.acc, wk.generation)

WorkerInv ==
  /\ Linked(directory, inbox, worker)
  /\ (workerUp /\ client.generation > 0) => CatchesUp(client, inbox, worker)
  /\ GenuineWorker(directory, worker)
  /\ \A i \in 1..Len(outbox) : GenuineSnapshot(directory, outbox[i])
  /\ ~workerUp => inbox = <<>> /\ outbox = <<>> /\ worker = None

ClientInv ==
  /\ Len(directory) = IF mounted THEN generation ELSE generation - 1
  /\ mounted => /\ client.generation = generation
                /\ HoldsPrefix(directory, client.acc, generation)
  /\ pending # None => GenuineSnapshot(directory, pending)
  /\ ~mounted => ~workerUp /\ pending = None

\* The load of generation g with view v, waiting load w and requests rs: its
\* request, the snapshot it waits for, or the place where it was interrupted, is
\* where the accumulator of n pages ends.
LoadOk(ds, g, n, v, w, rs) ==
  /\ \A r \in rs : r.generation = g =>
       /\ \A q \in rs : q.generation = g => q = r
       /\ n = r.cursor - 1
       /\ r.cursor <= Len(ds[g])
       /\ r.cursor = 1 => v.cursor = 0
       /\ v.phase # "partial-error"
       /\ w = None \/ w.generation # g
  /\ (w # None /\ w.generation = g) =>
       /\ v.phase # "partial-error"
       /\ w.cursor # 0 => w.cursor > 1 /\ n = w.cursor - 1 /\ w.cursor <= Len(ds[g])
  /\ (v.phase = "partial-error" /\ v.cursor # 0) =>
       v.cursor > 1 /\ n = v.cursor - 1 /\ v.cursor <= Len(ds[g])

LoadInv ==
  /\ \A r \in requests : r.generation \in 1..Len(directory)
  /\ awaiting # None => awaiting.generation \in 1..Len(directory)
  /\ mounted => LoadOk(directory, generation, client.acc.pages, view, awaiting, requests)

\* What view v shows of directory g of ds.
ViewOk(ds, g, v) ==
  /\ v.pages > 0 => /\ v.from = g
                    /\ v.pages <= Len(ds[g])
                    /\ v.count = EntriesOf(ds[g], v.pages)
  /\ v.phase = "complete" => v.pages = Len(ds[g])

ViewInv == mounted => ViewOk(directory, generation, view)

IInv ==
  /\ TypeOK
  /\ WorkerInv
  /\ ClientInv
  /\ LoadInv
  /\ ViewInv

-----------------------------------------------------------------------------
(* Types *)

Requests == [generation : Nat, cursor : Nat \ {0}, revision : Nat]
Waits == [generation : Nat, cursor : Nat]
Clients == [generation : Nat, revision : Nat, sort : Sorts, acc : Accumulators]
Workers == [generation : Nat, sort : Sorts, acc : Accumulators]

LEMMA NoneIsNothing ==
  None \notin Snapshots /\ None \notin Waits /\ None \notin Workers
BY DEF None, Snapshots, Waits, Workers

LEMMA PageLengthType ==
  ASSUME NEW d \in Directories, NEW k \in 1..Len(d)
  PROVE  PageLength(d, k) \in Nat
BY PageAssumption

LEMMA EmptyType == EmptyAccumulator \in Accumulators /\ HasNothing(EmptyAccumulator)
BY PageAssumption DEF EmptyAccumulator, Accumulators, HasNothing

LEMMA AppendType ==
  ASSUME NEW a \in Accumulators, NEW size \in Nat, NEW c \in BOOLEAN
  PROVE  /\ AppendPage(a, size, c) \in Accumulators
         /\ AppendPage(a, size, c).pages = a.pages + 1
         /\ AppendPage(a, size, c).loadedCount = a.loadedCount + size
         /\ AppendPage(a, size, c).complete = c
<1>1. Publishes(a, a.loadedCount + size, c) \in BOOLEAN
  BY DEF Publishes, Accumulators
<1>2. NextMilestone(a.nextPublishAt, a.loadedCount + size) \in Nat
  BY DEF NextMilestone, Accumulators
<1> QED BY <1>1, <1>2 DEF AppendPage, Accumulators

LEMMA SnapshotType ==
  ASSUME NEW a \in Accumulators, NEW g \in Nat, NEW r \in Nat, NEW o \in Sorts
  PROVE  /\ SnapshotOf(a, g, r, o) \in Snapshots
         /\ SnapshotOf(a, g, r, o).generation = g
         /\ SnapshotOf(a, g, r, o).pages = a.pages
         /\ SnapshotOf(a, g, r, o).loadedCount = a.loadedCount
         /\ SnapshotOf(a, g, r, o).complete = a.complete
BY DEF SnapshotOf, Accumulators, Snapshots

LEMMA ShownType ==
  ASSUME NEW v \in Views, NEW s \in Snapshots, NEW k \in Nat
  PROVE  /\ Shown(v, s) \in Views
         /\ Continuing(v, k) \in Views
         /\ Denied(v) \in Views
BY DEF Shown, Continuing, Denied, Views, Snapshots, Phases

-----------------------------------------------------------------------------
(* What publishing a snapshot may do, and what posting a message may do. *)

LEMMA PublishCases ==
  ASSUME NEW s, NEW revision, NEW v, NEW w, NEW rs, Publish(s, revision, v, w, rs)
  PROVE  /\ lastPublished' \in {lastPublished, s}
         /\ lastPublished' = s => s # None \/ lastPublished' = lastPublished
         /\ \/ view' = v /\ awaiting' = w /\ requests' = rs
            \/ /\ s # None /\ s.generation = generation
               /\ view' = Shown(v, s)
               /\ awaiting' = w /\ requests' = rs
               /\ w = None \/ w.generation # generation
            \/ /\ s # None /\ s.generation = generation
               /\ view' = Shown(v, s)
               /\ awaiting' = None /\ requests' = rs
               /\ w # None /\ w.generation = generation /\ w.cursor = 0
            \/ /\ s # None /\ s.generation = generation
               /\ view' = Continuing(Shown(v, s), w.cursor)
               /\ awaiting' = None
               /\ requests' = rs \union {PageRequest(generation, w.cursor, 0)}
               /\ w # None /\ w.generation = generation /\ w.cursor # 0
BY DEF Publish, Applies, Repeated

LEMMA PublishType ==
  ASSUME NEW s \in {None} \union Snapshots, NEW revision,
         NEW v \in Views, NEW w \in {None} \union Waits, NEW rs \in SUBSET Requests,
         generation \in Nat, lastPublished \in {None} \union Snapshots,
         Publish(s, revision, v, w, rs)
  PROVE  /\ view' \in Views
         /\ awaiting' \in {None} \union Waits
         /\ requests' \in SUBSET Requests
         /\ lastPublished' \in {None} \union Snapshots
<1>1. s # None => s \in Snapshots
  OBVIOUS
<1>2. w # None => w \in Waits /\ w.cursor \in Nat
  BY DEF Waits
<1>3. s # None => Shown(v, s) \in Views
  BY <1>1, ShownType
<1>4. (s # None /\ w # None) => Continuing(Shown(v, s), w.cursor) \in Views
  BY <1>2, <1>3, <1>1, ShownType
<1>5. (w # None /\ w.cursor # 0) => PageRequest(generation, w.cursor, 0) \in Requests
  BY <1>2 DEF PageRequest, Requests
<1> QED BY <1>3, <1>4, <1>5, PublishCases

LEMMA PostType ==
  ASSUME NEW m \in Messages, Post(m), TypeOK
  PROVE  /\ workerUp' \in BOOLEAN
         /\ inbox' \in Seq(Messages) /\ outbox' \in Seq(Snapshots)
         /\ worker' \in {None} \union Workers
<1>1. /\ inbox \in Seq(Messages) /\ outbox \in Seq(Snapshots) /\ workerUp \in BOOLEAN
      /\ worker \in {None} \union Workers
  BY DEF TypeOK, Workers
<1>2. Append(inbox, m) \in Seq(Messages)
  BY <1>1
<1>3. << >> \in Seq(Messages) /\ << >> \in Seq(Snapshots)
  OBVIOUS
<1> QED BY <1>1, <1>2, <1>3 DEF Post, WorkerGone, workerVars

\* A message that follows from the last one keeps an inbox linked.
LEMMA LinkedAppend ==
  ASSUME NEW ds, NEW box \in Seq(Messages), NEW wk, NEW m \in Messages,
         Linked(ds, box, wk), GenuineMessage(ds, m),
         \/ m.kind = "reset"
         \/ box = <<>> /\ wk # None /\ Follows(wk.generation, wk.acc.pages, m)
         \/ box # <<>> /\ Follows(box[Len(box)].generation, box[Len(box)].pages, m)
  PROVE  Linked(ds, Append(box, m), wk)
<1> DEFINE b == Append(box, m)
<1>1. /\ Len(b) = Len(box) + 1 /\ Len(box) \in Nat /\ b[Len(box) + 1] = m
      /\ \A i \in 1..Len(box) : b[i] = box[i]
      /\ box # <<>> => Len(box) > 0
  OBVIOUS
<1>2. \A i \in 1..Len(b) : GenuineMessage(ds, b[i])
  BY <1>1 DEF Linked
<1>3. ASSUME NEW i \in 2..Len(b)
      PROVE  Follows(b[i - 1].generation, b[i - 1].pages, b[i])
  <2>1. CASE i = Len(box) + 1
    <3>1. box # <<>> /\ b[i] = m /\ b[i - 1] = box[Len(box)]
      BY <2>1, <1>1, <1>3
    <3> QED BY <3>1 DEF Follows
  <2>2. CASE i \in 2..Len(box)
    BY <2>2, <1>1 DEF Linked
  <2> QED BY <2>1, <2>2, <1>1
<1>4. b[1].kind = "reset" \/ (wk # None /\ Follows(wk.generation, wk.acc.pages, b[1]))
  BY <1>1 DEF Linked
<1> QED BY <1>2, <1>3, <1>4 DEF Linked

\* Reading the first message leaves the rest linked to what the worker becomes.
LEMMA LinkedTail ==
  ASSUME NEW ds, NEW box \in Seq(Messages), box # <<>>, NEW wk, NEW after,
         Linked(ds, box, wk), after # None,
         after.generation = box[1].generation, after.acc.pages = box[1].pages
  PROVE  Linked(ds, Tail(box), after)
<1> DEFINE b == Tail(box)
<1>1. /\ Len(b) = Len(box) - 1 /\ Len(box) \in Nat \ {0}
      /\ \A i \in 1..Len(b) : b[i] = box[i + 1]
      /\ b # <<>> => Len(box) > 1
  OBVIOUS
<1>2. \A i \in 1..Len(b) : GenuineMessage(ds, b[i])
  BY <1>1 DEF Linked
<1>3. ASSUME NEW i \in 2..Len(b)
      PROVE  Follows(b[i - 1].generation, b[i - 1].pages, b[i])
  <2>1. b[i] = box[i + 1] /\ b[i - 1] = box[i] /\ i + 1 \in 2..Len(box) /\ (i + 1) - 1 = i
    BY <1>1
  <2> QED BY <2>1 DEF Linked
<1>4. ASSUME b # <<>> PROVE Follows(after.generation, after.acc.pages, b[1])
  <2>1. b[1] = box[2] /\ 2 \in 2..Len(box) /\ 2 - 1 = 1
    BY <1>1, <1>4
  <2> QED BY <2>1 DEF Linked
<1> QED BY <1>2, <1>3, <1>4 DEF Linked

\* Posting a message that tells the truth and follows from what the client had
\* keeps the two sides of the sorter in step.
LEMMA PostKeepsWorker ==
  ASSUME TypeOK, WorkerInv, NEW m \in Messages, Post(m),
         Linked(directory', inbox, worker),
         GenuineWorker(directory', worker),
         \A i \in 1..Len(outbox) : GenuineSnapshot(directory', outbox[i]),
         GenuineMessage(directory', m),
         client'.generation = m.generation, client'.acc.pages = m.pages,
         \/ m.kind = "reset"
         \/ client.generation > 0 /\ Follows(client.generation, client.acc.pages, m)
  PROVE  WorkerInv'
<1>1. inbox \in Seq(Messages)
  BY DEF TypeOK
<1>2. CASE workerUp /\ inbox' = Append(inbox, m) /\ UNCHANGED <<workerUp, outbox, worker>>
  <2>1. \/ m.kind = "reset"
        \/ inbox = <<>> /\ worker # None
             /\ Follows(worker.generation, worker.acc.pages, m)
        \/ inbox # <<>> /\ Follows(inbox[Len(inbox)].generation,
                                   inbox[Len(inbox)].pages, m)
    BY <1>2 DEF WorkerInv, CatchesUp
  <2>2. Linked(directory', Append(inbox, m), worker)
    BY <1>1, <2>1, LinkedAppend
  <2>3. Append(inbox, m) # <<>> /\ Append(inbox, m)[Len(Append(inbox, m))] = m
    BY <1>1
  <2>4. CatchesUp(client, inbox, worker)'
    BY <1>2, <2>3 DEF CatchesUp
  <2> QED BY <1>2, <2>2, <2>4 DEF WorkerInv
<1>3. CASE WorkerGone
  <2>1. Linked(directory', <<>>, None) /\ GenuineWorker(directory', None)
    BY DEF Linked, GenuineWorker
  <2> QED BY <1>3, <2>1 DEF WorkerInv, WorkerGone
<1>4. CASE ~workerUp /\ UNCHANGED workerVars
  BY <1>4 DEF WorkerInv, workerVars
<1> QED BY <1>2, <1>3, <1>4 DEF Post

-----------------------------------------------------------------------------
(* A new directory does not change what is known of the earlier ones. *)

LEMMA MoreDirectories ==
  ASSUME NEW ds \in Seq(Directories), NEW d \in Directories
  PROVE  /\ Append(ds, d) \in Seq(Directories)
         /\ Len(Append(ds, d)) = Len(ds) + 1
         /\ \A s : GenuineSnapshot(ds, s) => GenuineSnapshot(Append(ds, d), s)
         /\ \A m : GenuineMessage(ds, m) => GenuineMessage(Append(ds, d), m)
         /\ \A wk : GenuineWorker(ds, wk) => GenuineWorker(Append(ds, d), wk)
         /\ \A box, wk : Linked(ds, box, wk) => Linked(Append(ds, d), box, wk)
<1> DEFINE e == Append(ds, d)
<1>1. e \in Seq(Directories) /\ Len(e) = Len(ds) + 1 /\ Len(ds) \in Nat
  OBVIOUS
<1>2. \A g \in 1..Len(ds) : e[g] = ds[g] /\ g \in 1..Len(e)
  OBVIOUS
<1>3. \A s : GenuineSnapshot(ds, s) => GenuineSnapshot(e, s)
  BY <1>2 DEF GenuineSnapshot, HoldsPrefix
<1>4. \A m : GenuineMessage(ds, m) => GenuineMessage(e, m)
  BY <1>2 DEF GenuineMessage
<1>5. \A wk : GenuineWorker(ds, wk) => GenuineWorker(e, wk)
  BY <1>2 DEF GenuineWorker, HoldsPrefix
<1>6. \A box, wk : Linked(ds, box, wk) => Linked(e, box, wk)
  BY <1>4 DEF Linked
<1> HIDE DEF e
<1> QED BY <1>1, <1>3, <1>4, <1>5, <1>6 DEF e

-----------------------------------------------------------------------------
(* The page and its load *)

\* The three variables of the load after a snapshot may have been published.
Published(v, w, rs) ==
  \/ view' = v /\ awaiting' = w /\ requests' = rs
  \/ \E s \in Snapshots :
       /\ GenuineSnapshot(directory, s) /\ s.generation = generation
       /\ \/ /\ view' = Shown(v, s) /\ awaiting' = w /\ requests' = rs
             /\ w = None \/ w.generation # generation
          \/ /\ view' = Shown(v, s) /\ awaiting' = None /\ requests' = rs
             /\ w # None /\ w.generation = generation /\ w.cursor = 0
          \/ /\ view' = Continuing(Shown(v, s), w.cursor) /\ awaiting' = None
             /\ requests' = rs \union {PageRequest(generation, w.cursor, 0)}
             /\ w # None /\ w.generation = generation /\ w.cursor # 0

LEMMA PublishGenuine ==
  ASSUME NEW s \in {None} \union Snapshots, NEW revision, NEW v, NEW w, NEW rs,
         s # None => GenuineSnapshot(directory, s),
         Publish(s, revision, v, w, rs)
  PROVE  Published(v, w, rs)
<1>1. CASE s = None
  BY <1>1, PublishCases DEF Published
<1>2. CASE s # None
  <2>1. s \in Snapshots
    BY <1>2
  <2> QED BY <2>1, PublishCases DEF Published
<1> QED BY <1>1, <1>2

LEMMA ShownFields ==
  ASSUME NEW v \in Views, NEW s \in Snapshots, NEW k \in Nat
  PROVE  /\ Shown(v, s).pages = s.pages
         /\ Shown(v, s).count = s.loadedCount
         /\ Shown(v, s).from = s.generation
         /\ Shown(v, s).cursor \in {0, v.cursor}
         /\ Shown(v, s).phase = "complete" <=> s.complete
         /\ Shown(v, s).phase = "partial-error" => v.phase = "partial-error"
         /\ Continuing(v, k).phase = "loading-more"
         /\ Continuing(v, k).cursor = k
         /\ Continuing(v, k).pages = v.pages
         /\ Continuing(v, k).count = v.count
         /\ Continuing(v, k).from = v.from
         /\ Denied(v).phase = "idle" /\ Denied(v).pages = 0
BY DEF Shown, Continuing, Denied, Views, Snapshots, Phases

\* A genuine snapshot leaves the table with a prefix of its directory.
LEMMA ShownOk ==
  ASSUME NEW v \in Views, NEW s \in Snapshots, GenuineSnapshot(directory, s),
         s.generation = generation, NEW k \in Nat
  PROVE  /\ ViewOk(directory, generation, Shown(v, s))
         /\ ViewOk(directory, generation, Continuing(Shown(v, s), k))
<1>1. Shown(v, s) \in Views
  BY ShownType
<1> QED BY <1>1, ShownFields DEF ViewOk, GenuineSnapshot, HoldsPrefix

\* Whatever is published, the load stays where its accumulator ends.
LEMMA PublishedKeeps ==
  ASSUME NEW v \in Views, NEW w \in {None} \union Waits, NEW rs \in SUBSET Requests,
         generation \in Nat, Published(v, w, rs), mounted,
         UNCHANGED <<generation, directory, mounted>>,
         \A r \in rs : r.generation \in 1..Len(directory),
         w # None => w.generation \in 1..Len(directory),
         LoadOk(directory, generation, client'.acc.pages, v, w, rs),
         ViewOk(directory, generation, v)
  PROVE  LoadInv' /\ ViewInv'
<1> DEFINE n == client'.acc.pages
<1>1. CASE view' = v /\ awaiting' = w /\ requests' = rs
  BY <1>1 DEF LoadInv, ViewInv
<1>2. CASE \E s \in Snapshots :
             /\ GenuineSnapshot(directory, s) /\ s.generation = generation
             /\ \/ /\ view' = Shown(v, s) /\ awaiting' = w /\ requests' = rs
                   /\ w = None \/ w.generation # generation
                \/ /\ view' = Shown(v, s) /\ awaiting' = None /\ requests' = rs
                   /\ w # None /\ w.generation = generation /\ w.cursor = 0
  <2> PICK s \in Snapshots :
             /\ GenuineSnapshot(directory, s) /\ s.generation = generation
             /\ view' = Shown(v, s) /\ requests' = rs
             /\ \/ awaiting' = w /\ (w = None \/ w.generation # generation)
                \/ awaiting' = None /\ w # None /\ w.generation = generation
    BY <1>2
  <2>1. /\ Shown(v, s).cursor \in {0, v.cursor}
        /\ Shown(v, s).phase = "partial-error" => v.phase = "partial-error"
    BY ShownFields
  <2>2. \A r \in rs : r.cursor \in Nat \ {0}
    BY DEF Requests
  <2>3. LoadOk(directory, generation, n, Shown(v, s), awaiting', rs)
    BY <2>1, <2>2 DEF LoadOk
  <2>4. awaiting' # None => awaiting'.generation \in 1..Len(directory)
    OBVIOUS
  <2>5. ViewOk(directory, generation, Shown(v, s))
    BY ShownOk
  <2> QED BY <2>3, <2>4, <2>5 DEF LoadInv, ViewInv
<1>3. CASE \E s \in Snapshots :
             /\ GenuineSnapshot(directory, s) /\ s.generation = generation
             /\ view' = Continuing(Shown(v, s), w.cursor) /\ awaiting' = None
             /\ requests' = rs \union {PageRequest(generation, w.cursor, 0)}
             /\ w # None /\ w.generation = generation /\ w.cursor # 0
  <2> PICK s \in Snapshots :
             /\ GenuineSnapshot(directory, s) /\ s.generation = generation
             /\ view' = Continuing(Shown(v, s), w.cursor) /\ awaiting' = None
             /\ requests' = rs \union {PageRequest(generation, w.cursor, 0)}
             /\ w # None /\ w.generation = generation /\ w.cursor # 0
    BY <1>3
  <2> DEFINE q == PageRequest(generation, w.cursor, 0)
             u == Continuing(Shown(v, s), w.cursor)
  <2>1. w.cursor \in Nat /\ w.generation \in 1..Len(directory)
    BY DEF Waits
  <2>2. Shown(v, s) \in Views
    BY ShownType
  <2>3. u.phase = "loading-more" /\ u.cursor = w.cursor
    BY <2>1, <2>2, ShownFields
  <2>4. q.generation = generation /\ q.cursor = w.cursor
    BY DEF PageRequest
  <2>5. w.cursor > 1 /\ n = w.cursor - 1 /\ w.cursor <= Len(directory[generation])
    BY DEF LoadOk
  <2>6. \A r \in rs : r.generation # generation
    BY DEF LoadOk
  <2>7. LoadOk(directory, generation, n, u, None, rs \union {q})
    <3>1. \A r \in rs \union {q} : r.generation = generation => r = q
      BY <2>6
    <3> HIDE DEF q, u
    <3> QED BY <3>1, <2>3, <2>4, <2>5 DEF LoadOk
  <2>8. \A r \in rs \union {q} : r.generation \in 1..Len(directory)
    BY <2>1, <2>4
  <2>9. ViewOk(directory, generation, u)
    BY <2>1, ShownOk
  <2> HIDE DEF q, u
  <2> QED BY <2>7, <2>8, <2>9 DEF LoadInv, ViewInv, q, u
<1> QED BY <1>1, <1>2, <1>3 DEF Published

-----------------------------------------------------------------------------
(* append and resort *)

\* A page appended where the accumulator ends leaves a longer prefix.
LEMMA AppendHoldsPrefix ==
  ASSUME NEW ds \in Seq(Directories), NEW g \in 1..Len(ds), NEW a \in Accumulators,
         HoldsPrefix(ds, a, g), NEW k \in 1..Len(ds[g]), a.pages = k - 1,
         NEW c \in BOOLEAN, c <=> (k = Len(ds[g]))
  PROVE  /\ AppendPage(a, PageLength(ds[g], k), c) \in Accumulators
         /\ AppendPage(a, PageLength(ds[g], k), c).pages = k
         /\ HoldsPrefix(ds, AppendPage(a, PageLength(ds[g], k), c), g)
<1>1. ds[g] \in Directories
  OBVIOUS
<1>2. PageLength(ds[g], k) \in Nat
  BY <1>1, PageLengthType
<1>3. ds[g] \in Seq(Nat)
  BY <1>1, PageAssumption
<1>4. EntriesOf(ds[g], k) \in Nat /\ EntriesOf(ds[g], k - 1) \in Nat
  BY <1>3 DEF EntriesOf
<1>5. a.loadedCount + PageLength(ds[g], k) = EntriesOf(ds[g], k)
  BY <1>4 DEF PageLength, HoldsPrefix
<1> DEFINE b == AppendPage(a, PageLength(ds[g], k), c)
<1>6. /\ b \in Accumulators /\ b.pages = a.pages + 1 /\ b.complete = c
      /\ b.loadedCount = a.loadedCount + PageLength(ds[g], k)
  BY <1>2, AppendType
<1> HIDE DEF b
<1>7. b.pages = k /\ k <= Len(ds[g])
  BY <1>6
<1>8. HoldsPrefix(ds, b, g)
  BY <1>5, <1>6, <1>7 DEF HoldsPrefix
<1> QED BY <1>6, <1>7, <1>8 DEF b

LEMMA PublishOrArmKeeps ==
  ASSUME TypeOK, ClientInv, NEW s \in {None} \union Snapshots, NEW atOnce \in BOOLEAN,
         NEW revision, NEW v \in Views, NEW w \in {None} \union Waits,
         NEW rs \in SUBSET Requests, s # None => GenuineSnapshot(directory, s),
         PublishOrArm(s, atOnce, revision, v, w, rs)
  PROVE  /\ pending' \in {None} \union Snapshots
         /\ pending' # None => GenuineSnapshot(directory, pending')
         /\ view' \in Views
         /\ awaiting' \in {None} \union Waits
         /\ requests' \in SUBSET Requests
         /\ lastPublished' \in {None} \union Snapshots
         /\ Published(v, w, rs)
<1> DEFINE t == IF ~workerUp' \/ atOnce THEN s ELSE None
<1>1. Publish(t, revision, v, w, rs) /\ t \in {None, s}
  BY DEF PublishOrArm
<1>2. generation \in Nat /\ {pending, lastPublished} \subseteq {None} \union Snapshots
  BY DEF TypeOK
<1>3. pending' \in {s, pending}
  BY DEF PublishOrArm
<1> HIDE DEF t
<1>4. t \in {None} \union Snapshots /\ (t # None => GenuineSnapshot(directory, t))
  BY <1>1
<1>5. Published(v, w, rs)
  BY <1>1, <1>4, PublishGenuine
<1>6. /\ view' \in Views
      /\ awaiting' \in {None} \union Waits
      /\ requests' \in SUBSET Requests
      /\ lastPublished' \in {None} \union Snapshots
  BY <1>1, <1>2, <1>4, PublishType
<1> QED BY <1>2, <1>3, <1>5, <1>6 DEF ClientInv

\* What append promises its caller.
LEMMA AppendKeeps ==
  ASSUME TypeOK, WorkerInv, ClientInv, mounted, NEW g \in 1..Len(directory),
         g = generation, NEW k \in 1..Len(directory[g]), client.acc.pages = k - 1,
         NEW c \in BOOLEAN, c <=> (k = Len(directory[g])),
         NEW revision \in Nat, NEW v \in Views, NEW w \in {None} \union Waits,
         NEW rs \in SUBSET Requests,
         UNCHANGED <<generation, directory, mounted>>,
         AppendToSorter(g, revision, PageLength(directory[g], k), c, v, w, rs)
  PROVE  /\ client' \in Clients /\ client'.generation = generation
         /\ client'.acc.pages = k
         /\ HoldsPrefix(directory, client'.acc, generation)
         /\ pending' \in {None} \union Snapshots
         /\ pending' # None => GenuineSnapshot(directory, pending')
         /\ view' \in Views
         /\ awaiting' \in {None} \union Waits
         /\ requests' \in SUBSET Requests
         /\ lastPublished' \in {None} \union Snapshots
         /\ inbox' \in Seq(Messages) /\ outbox' \in Seq(Snapshots)
         /\ workerUp' \in BOOLEAN
         /\ worker' \in {None} \union Workers
         /\ Published(v, w, rs)
         /\ WorkerInv'
<1> DEFINE size == PageLength(directory[g], k)
           acc == AppendPage(client.acc, size, c)
           s == IF Publishes(client.acc, acc.loadedCount, c)
                THEN SnapshotOf(acc, g, revision, client.sort) ELSE None
           m == [kind |-> "append", generation |-> g, revision |-> revision,
                 size |-> size, complete |-> c, pages |-> acc.pages]
<1>1. /\ client \in Clients /\ client.generation = generation
      /\ client.acc \in Accumulators /\ client.sort \in Sorts
      /\ HoldsPrefix(directory, client.acc, generation)
      /\ directory \in Seq(Directories)
      /\ generation \in Nat
  BY DEF TypeOK, ClientInv, Clients
<1>2. acc \in Accumulators /\ acc.pages = k /\ HoldsPrefix(directory, acc, g)
  BY <1>1, AppendHoldsPrefix
<1>3. size \in Nat
  BY <1>1, PageLengthType
<1>4. /\ client' = [client EXCEPT !.revision = revision, !.acc = acc]
      /\ Post(m)
      /\ PublishOrArm(s, acc.loadedCount <= PageSize, sortRevision, v, w, rs)
  BY <1>1 DEF AppendToSorter
<1> HIDE DEF acc, size
<1>5. client' \in Clients /\ client'.generation = generation /\ client'.acc = acc
  BY <1>1, <1>2, <1>4 DEF Clients
<1>6. /\ SnapshotOf(acc, g, revision, client.sort) \in Snapshots
      /\ GenuineSnapshot(directory, SnapshotOf(acc, g, revision, client.sort))
  <2> DEFINE t == SnapshotOf(acc, g, revision, client.sort)
  <2>1. /\ t \in Snapshots /\ t.generation = g /\ t.pages = acc.pages
        /\ t.loadedCount = acc.loadedCount /\ t.complete = acc.complete
    BY <1>1, <1>2, SnapshotType
  <2> HIDE DEF t
  <2>2. GenuineSnapshot(directory, t)
    BY <2>1, <1>2 DEF GenuineSnapshot, HoldsPrefix
  <2> QED BY <2>1, <2>2 DEF t
<1>7. s \in {None} \union Snapshots /\ (s # None => GenuineSnapshot(directory, s))
  BY <1>6
<1>8. m \in Messages
  <2>1. g \in Nat /\ acc.pages \in Nat
    BY <1>2
  <2> QED BY <2>1, <1>3 DEF Messages
<1>9. GenuineMessage(directory, m)
  BY <1>2 DEF GenuineMessage, size
<1>10. Follows(client.generation, client.acc.pages, m)
  BY <1>1, <1>2 DEF Follows
<1>11. m.generation = g /\ m.pages = acc.pages
  OBVIOUS
<1> HIDE DEF s, m
<1>12. WorkerInv'
  <2>1. /\ directory' = directory /\ client.generation > 0
        /\ client'.generation = m.generation /\ client'.acc.pages = m.pages
    BY <1>1, <1>5, <1>11
  <2>2. /\ Linked(directory', inbox, worker)
        /\ GenuineWorker(directory', worker)
        /\ \A i \in 1..Len(outbox) : GenuineSnapshot(directory', outbox[i])
        /\ GenuineMessage(directory', m)
    BY <2>1, <1>9 DEF WorkerInv
  <2> QED BY <1>4, <1>8, <1>10, <2>1, <2>2, PostKeepsWorker
<1>13. (acc.loadedCount <= PageSize) \in BOOLEAN
  OBVIOUS
<1>14. /\ workerUp' \in BOOLEAN
       /\ inbox' \in Seq(Messages) /\ outbox' \in Seq(Snapshots)
       /\ worker' \in {None} \union Workers
  BY <1>4, <1>8, PostType
<1>15. /\ pending' \in {None} \union Snapshots
       /\ pending' # None => GenuineSnapshot(directory, pending')
       /\ view' \in Views
       /\ awaiting' \in {None} \union Waits
       /\ requests' \in SUBSET Requests
       /\ lastPublished' \in {None} \union Snapshots
       /\ Published(v, w, rs)
  BY <1>4, <1>7, <1>13, PublishOrArmKeeps
<1> QED BY <1>1, <1>2, <1>5, <1>12, <1>14, <1>15

\* What resort promises its caller.
LEMMA ResortKeeps ==
  ASSUME TypeOK, WorkerInv, ClientInv, mounted, NEW revision \in Nat, NEW order \in Sorts,
         NEW v \in Views, NEW w \in {None} \union Waits, NEW rs \in SUBSET Requests,
         UNCHANGED <<generation, directory, mounted>>,
         ResortSorter(generation, revision, order, v, w, rs)
  PROVE  /\ client' \in Clients /\ client'.generation = generation
         /\ client'.acc = client.acc
         /\ pending' \in {None} \union Snapshots
         /\ pending' # None => GenuineSnapshot(directory, pending')
         /\ view' \in Views
         /\ awaiting' \in {None} \union Waits
         /\ requests' \in SUBSET Requests
         /\ lastPublished' \in {None} \union Snapshots
         /\ inbox' \in Seq(Messages) /\ outbox' \in Seq(Snapshots)
         /\ workerUp' \in BOOLEAN
         /\ worker' \in {None} \union Workers
         /\ Published(v, w, rs)
         /\ WorkerInv'
<1> DEFINE g == generation
           s == SnapshotOf(client.acc, g, revision, order)
           m == [kind |-> "resort", generation |-> g, revision |-> revision,
                 sort |-> order, pages |-> client.acc.pages]
<1>1. /\ client \in Clients /\ client.generation = generation
      /\ client.acc \in Accumulators
      /\ HoldsPrefix(directory, client.acc, generation)
      /\ Len(directory) = generation
      /\ generation \in Nat
      /\ inbox \in Seq(Messages) /\ outbox \in Seq(Snapshots) /\ workerUp \in BOOLEAN
      /\ worker \in {None} \union Workers
      /\ {pending, lastPublished} \subseteq {None} \union Snapshots
      /\ pending # None => GenuineSnapshot(directory, pending)
  BY DEF TypeOK, ClientInv, Clients, Workers
<1>2. client' = [client EXCEPT !.revision = revision, !.sort = order]
  BY DEF ResortSorter
<1>3. client' \in Clients /\ client'.generation = generation /\ client'.acc = client.acc
  BY <1>1, <1>2 DEF Clients
<1>4. CASE HasNothing(client.acc)
  <2>1. /\ view' = v /\ awaiting' = w /\ requests' = rs
        /\ UNCHANGED <<pending, lastPublished, workerVars>>
    BY <1>4 DEF ResortSorter
  <2>2. CatchesUp(client, inbox, worker) => CatchesUp(client', inbox, worker)
    BY <1>1, <1>3 DEF CatchesUp
  <2>3. WorkerInv'
    BY <2>1, <2>2, <1>1, <1>3 DEF WorkerInv, workerVars
  <2> QED BY <1>1, <1>3, <2>1, <2>3 DEF Published, workerVars
<1>5. CASE ~HasNothing(client.acc)
  <2>1. Post(m) /\ PublishOrArm(s, FALSE, revision, v, w, rs)
    BY <1>1, <1>5 DEF ResortSorter
  <2>2. generation \in 1..Len(directory)
    BY <1>1, <1>5 DEF HoldsPrefix, HasNothing
  <2>3. m \in Messages /\ m.generation = generation /\ m.pages = client.acc.pages
    BY <1>1 DEF Messages, Accumulators
  <2>4. GenuineMessage(directory, m) /\ Follows(client.generation, client.acc.pages, m)
    BY <1>1, <2>2 DEF GenuineMessage, Follows
  <2>5. /\ s \in Snapshots /\ s.generation = g /\ s.pages = client.acc.pages
        /\ s.loadedCount = client.acc.loadedCount /\ s.complete = client.acc.complete
    BY <1>1, SnapshotType
  <2> HIDE DEF s, m
  <2>6. GenuineSnapshot(directory, s)
    BY <2>2, <2>5, <1>1 DEF GenuineSnapshot, HoldsPrefix
  <2>7. WorkerInv'
    <3>1. /\ directory' = directory /\ client.generation > 0
          /\ client'.generation = m.generation /\ client'.acc.pages = m.pages
      BY <1>1, <1>3, <2>2, <2>3
    <3>2. /\ Linked(directory', inbox, worker)
          /\ GenuineWorker(directory', worker)
          /\ \A i \in 1..Len(outbox) : GenuineSnapshot(directory', outbox[i])
          /\ GenuineMessage(directory', m)
      BY <3>1, <2>4 DEF WorkerInv
    <3> QED BY <2>1, <2>3, <2>4, <3>1, <3>2, PostKeepsWorker
  <2>8. /\ workerUp' \in BOOLEAN
        /\ inbox' \in Seq(Messages) /\ outbox' \in Seq(Snapshots)
        /\ worker' \in {None} \union Workers
    BY <2>1, <2>3, PostType
  <2>9. /\ pending' \in {None} \union Snapshots
        /\ pending' # None => GenuineSnapshot(directory, pending')
        /\ view' \in Views
        /\ awaiting' \in {None} \union Waits
        /\ requests' \in SUBSET Requests
        /\ lastPublished' \in {None} \union Snapshots
        /\ Published(v, w, rs)
    BY <2>1, <2>5, <2>6, PublishOrArmKeeps
  <2> QED BY <1>3, <2>7, <2>8, <2>9
<1> QED BY <1>4, <1>5

-----------------------------------------------------------------------------
(* The actions *)

LEMMA InitInv == Init => IInv
<1> SUFFICES ASSUME Init PROVE IInv
  OBVIOUS
<1>1. TypeOK
  BY EmptyType, SortAssumption, BoundAssumption
     DEF Init, TypeOK, Views, Phases, Accumulators, Messages, Snapshots
<1>2. WorkerInv
  BY DEF Init, WorkerInv, Linked, GenuineWorker
<1>3. ClientInv
  BY DEF Init, ClientInv, HoldsPrefix, EmptyAccumulator
<1>4. LoadInv /\ ViewInv
  BY DEF Init, LoadInv, LoadOk, ViewInv, ViewOk
<1> QED BY <1>1, <1>2, <1>3, <1>4 DEF IInv

\* The request of a load that is current: the page is there.
LEMMA CurrentRequest ==
  ASSUME IInv, NEW r \in requests, IsCurrent(r.generation)
  PROVE  /\ mounted /\ r.generation = generation
         /\ generation \in 1..Len(directory)
         /\ r \in Requests /\ r.cursor \in 1..Len(directory[generation])
         /\ Len(directory[generation]) \in Nat
         /\ client.acc.pages = r.cursor - 1
         /\ \A q \in requests \ {r} : q.generation # generation
         /\ r.cursor = 1 => view.cursor = 0
         /\ view.phase # "partial-error"
         /\ awaiting = None \/ awaiting.generation # generation
<1>1. r \in Requests /\ generation \in Nat /\ r.generation = generation
  BY DEF IInv, TypeOK, Requests, IsCurrent
<1>2. generation \in 1..Len(directory) /\ mounted
  BY <1>1 DEF IInv, LoadInv, ClientInv
<1>3. directory[generation] \in Seq(Nat)
  BY <1>2, PageAssumption DEF IInv, TypeOK
<1>4. LoadOk(directory, generation, client.acc.pages, view, awaiting, requests)
  BY <1>2 DEF IInv, LoadInv
<1> QED BY <1>1, <1>2, <1>3, <1>4 DEF LoadOk, Requests

LEMMA FirstPageInv ==
  ASSUME IInv, NEW r \in requests, FirstPage(r)
  PROVE  IInv'
<1> DEFINE g == r.generation
           v == [view EXCEPT !.cursor = NextCursor(r)]
           w == [generation |-> g, cursor |-> NextCursor(r)]
           rs == requests \ {r}
<1>1. /\ mounted /\ g = generation /\ generation \in 1..Len(directory)
      /\ r \in Requests /\ r.cursor \in 1..Len(directory[generation]) /\ r.cursor = 1
      /\ Len(directory[generation]) \in Nat
      /\ client.acc.pages = r.cursor - 1
      /\ \A q \in requests \ {r} : q.generation # generation
      /\ view.phase # "partial-error"
  BY CurrentRequest DEF FirstPage
<1>2. /\ TypeOK /\ WorkerInv /\ ClientInv /\ LoadInv /\ ViewInv
      /\ view \in Views /\ requests \in SUBSET Requests
      /\ generation \in Nat /\ r.revision \in Nat
  BY <1>1 DEF IInv, TypeOK, Requests
<1>3. /\ HasMore(r) <=> 1 # Len(directory[g])
      /\ NextCursor(r) \in {0, 2}
      /\ NextCursor(r) = 2 => 2 <= Len(directory[g])
  <2> DEFINE n == Len(directory[g])
  <2>1. 1 <= n /\ n \in Nat /\ g = generation
    BY <1>1
  <2>2. HasMore(r) <=> 1 < n
    BY <1>1 DEF HasMore
  <2>3. /\ HasMore(r) => NextCursor(r) = 2
        /\ ~HasMore(r) => NextCursor(r) = 0
    BY <1>1 DEF NextCursor
  <2> HIDE DEF n
  <2>4. NextCursor(r) \in {0, 2}
    BY <2>3
  <2>5. HasMore(r) <=> 1 # n
    BY <2>1, <2>2
  <2>6. NextCursor(r) = 2 => 2 <= n
    BY <2>1, <2>2, <2>3
  <2> QED BY <2>4, <2>5, <2>6 DEF n
<1>4. v \in Views /\ w \in Waits /\ rs \in SUBSET Requests
      /\ v.phase = view.phase /\ v.pages = view.pages /\ v.count = view.count
      /\ v.from = view.from
  <2>1. NextCursor(r) \in Nat /\ g \in Nat
    BY <1>1, <1>2, <1>3
  <2>2. w \in Waits
    BY <2>1 DEF Waits
  <2> QED BY <1>2, <2>1, <2>2 DEF Views
<1>5. /\ w.generation = g /\ w.cursor = NextCursor(r) /\ w # None
  BY <1>4, NoneIsNothing
<1>6. UNCHANGED <<generation, directory, mounted, sortRevision, sort, counters>>
  BY DEF FirstPage
<1>7. AppendToSorter(g, r.revision, PageLength(directory[g], 1), ~HasMore(r), v, w, rs)
  BY <1>1 DEF FirstPage
<1> HIDE DEF v, w, rs
<1>8. /\ client' \in Clients /\ client'.generation = generation
      /\ client'.acc.pages = 1
      /\ HoldsPrefix(directory, client'.acc, generation)
      /\ pending' \in {None} \union Snapshots
      /\ pending' # None => GenuineSnapshot(directory, pending')
      /\ view' \in Views
      /\ awaiting' \in {None} \union Waits
      /\ requests' \in SUBSET Requests
      /\ lastPublished' \in {None} \union Snapshots
      /\ inbox' \in Seq(Messages) /\ outbox' \in Seq(Snapshots)
      /\ workerUp' \in BOOLEAN
      /\ worker' \in {None} \union Workers
      /\ Published(v, w, rs)
      /\ WorkerInv'
  <2>1. 1 \in 1..Len(directory[g]) /\ client.acc.pages = 1 - 1
    BY <1>1
  <2>2. ~HasMore(r) <=> (1 = Len(directory[g]))
    BY <1>3
  <2>3. (~HasMore(r)) \in BOOLEAN
    BY DEF HasMore
  <2> QED BY <1>1, <1>2, <1>4, <1>6, <1>7, <2>1, <2>2, <2>3, AppendKeeps
<1>9. TypeOK'
  BY <1>2, <1>6, <1>8 DEF TypeOK, Clients, Requests, Waits, Workers, counters
<1>10. ClientInv'
  BY <1>1, <1>2, <1>6, <1>8 DEF ClientInv
<1>11. LoadOk(directory, generation, client'.acc.pages, v, w, rs)
  BY <1>1, <1>3, <1>4, <1>5, <1>8 DEF LoadOk, rs
<1>12. ViewOk(directory, generation, v)
  BY <1>1, <1>2, <1>4 DEF ViewInv, ViewOk
<1>13. \A q \in rs : q.generation \in 1..Len(directory)
  BY <1>2 DEF LoadInv, rs
<1>14. LoadInv' /\ ViewInv'
  BY <1>1, <1>2, <1>4, <1>5, <1>6, <1>8, <1>11, <1>12, <1>13, PublishedKeeps
<1> QED BY <1>8, <1>9, <1>10, <1>14 DEF IInv

LEMMA LaterPageInv ==
  ASSUME IInv, NEW r \in requests, LaterPage(r)
  PROVE  IInv'
<1> DEFINE g == r.generation
           v == [view EXCEPT !.cursor = NextCursor(r)]
           q == PageRequest(g, r.cursor + 1, 0)
           rs == (requests \ {r}) \union (IF HasMore(r) THEN {q} ELSE {})
<1>1. /\ mounted /\ g = generation /\ generation \in 1..Len(directory)
      /\ r \in Requests /\ r.cursor \in 1..Len(directory[generation]) /\ r.cursor > 1
      /\ Len(directory[generation]) \in Nat
      /\ client.acc.pages = r.cursor - 1
      /\ \A x \in requests \ {r} : x.generation # generation
      /\ view.phase # "partial-error"
      /\ awaiting = None \/ awaiting.generation # generation
  BY CurrentRequest DEF LaterPage
<1>2. /\ TypeOK /\ WorkerInv /\ ClientInv /\ LoadInv /\ ViewInv
      /\ view \in Views /\ requests \in SUBSET Requests
      /\ awaiting \in {None} \union Waits
      /\ generation \in Nat /\ sortRevision \in Nat
  BY <1>1 DEF IInv, TypeOK, Requests, Waits
<1>3. /\ HasMore(r) <=> r.cursor # Len(directory[g])
      /\ HasMore(r) => r.cursor + 1 <= Len(directory[g])
      /\ NextCursor(r) \in Nat /\ r.cursor + 1 \in Nat \ {0, 1}
  BY <1>1 DEF HasMore, NextCursor
<1>4. /\ q \in Requests /\ q.generation = g /\ q.cursor = r.cursor + 1
  BY <1>1, <1>2, <1>3 DEF PageRequest, Requests
<1>5. v \in Views /\ rs \in SUBSET Requests
      /\ v.phase = view.phase /\ v.pages = view.pages /\ v.count = view.count
      /\ v.from = view.from
  BY <1>2, <1>3, <1>4 DEF Views
<1>6. UNCHANGED <<generation, directory, mounted, sortRevision, sort, counters>>
  BY DEF LaterPage
<1>7. AppendToSorter(g, sortRevision, PageLength(directory[g], r.cursor), ~HasMore(r),
                     v, awaiting, rs)
  BY DEF LaterPage
<1> HIDE DEF v, rs, q
<1>8. /\ client' \in Clients /\ client'.generation = generation
      /\ client'.acc.pages = r.cursor
      /\ HoldsPrefix(directory, client'.acc, generation)
      /\ pending' \in {None} \union Snapshots
      /\ pending' # None => GenuineSnapshot(directory, pending')
      /\ view' \in Views
      /\ awaiting' \in {None} \union Waits
      /\ requests' \in SUBSET Requests
      /\ lastPublished' \in {None} \union Snapshots
      /\ inbox' \in Seq(Messages) /\ outbox' \in Seq(Snapshots)
      /\ workerUp' \in BOOLEAN
      /\ worker' \in {None} \union Workers
      /\ Published(v, awaiting, rs)
      /\ WorkerInv'
  <2>1. ~HasMore(r) <=> (r.cursor = Len(directory[g]))
    BY <1>3
  <2>2. (~HasMore(r)) \in BOOLEAN
    BY DEF HasMore
  <2> QED BY <1>1, <1>2, <1>5, <1>6, <1>7, <2>1, <2>2, AppendKeeps
<1>9. TypeOK'
  BY <1>2, <1>6, <1>8 DEF TypeOK, Clients, Requests, Waits, Workers, counters
<1>10. ClientInv'
  BY <1>1, <1>2, <1>6, <1>8 DEF ClientInv
<1>11. LoadOk(directory, generation, client'.acc.pages, v, awaiting, rs)
  <2>1. \A x \in rs : x.generation = generation => x = q /\ HasMore(r)
    BY <1>1 DEF rs
  <2>2. client'.acc.pages = q.cursor - 1
    BY <1>1, <1>4, <1>8
  <2>3. HasMore(r) => q.cursor <= Len(directory[generation])
    BY <1>1, <1>3, <1>4
  <2>4. q.cursor # 1 /\ v.phase # "partial-error"
    BY <1>1, <1>3, <1>4, <1>5
  <2>5. awaiting = None \/ awaiting.generation # generation
    BY <1>1
  <2> QED BY <2>1, <2>2, <2>3, <2>4, <2>5 DEF LoadOk
<1>12. ViewOk(directory, generation, v)
  BY <1>1, <1>2, <1>5 DEF ViewInv, ViewOk
<1>13. \A x \in rs : x.generation \in 1..Len(directory)
  BY <1>1, <1>2, <1>4 DEF LoadInv, rs
<1>14. awaiting # None => awaiting.generation \in 1..Len(directory)
  BY <1>2 DEF LoadInv
<1>15. LoadInv' /\ ViewInv'
  BY <1>1, <1>2, <1>5, <1>6, <1>8, <1>11, <1>12, <1>13, <1>14, PublishedKeeps
<1> QED BY <1>8, <1>9, <1>10, <1>15 DEF IInv

LEMMA LaterPageFailsInv ==
  ASSUME IInv, NEW r \in requests, LaterPageFails(r)
  PROVE  IInv'
<1> DEFINE v == [view EXCEPT !.phase = "partial-error", !.cursor = r.cursor]
           rs == requests \ {r}
<1>1. /\ mounted /\ r.generation = generation /\ generation \in 1..Len(directory)
      /\ r \in Requests /\ r.cursor \in 1..Len(directory[generation]) /\ r.cursor > 1
      /\ Len(directory[generation]) \in Nat
      /\ client.acc.pages = r.cursor - 1
      /\ \A x \in requests \ {r} : x.generation # generation
      /\ awaiting = None \/ awaiting.generation # generation
  BY CurrentRequest DEF LaterPageFails
<1>2. /\ TypeOK /\ WorkerInv /\ ClientInv /\ LoadInv /\ ViewInv
      /\ view \in Views /\ requests \in SUBSET Requests
      /\ awaiting \in {None} \union Waits
      /\ generation \in Nat /\ sortRevision \in Nat /\ sort \in Sorts
  BY <1>1 DEF IInv, TypeOK, Requests, Waits
<1>3. /\ v \in Views /\ rs \in SUBSET Requests
      /\ v.phase = "partial-error" /\ v.cursor = r.cursor
      /\ v.pages = view.pages /\ v.count = view.count /\ v.from = view.from
  <2>1. r.cursor \in Nat
    BY <1>1
  <2>2. rs \in SUBSET Requests
    BY <1>2
  <2> QED BY <1>2, <2>1, <2>2 DEF Views, Phases
<1>4. UNCHANGED <<generation, directory, mounted, sortRevision, sort, sortChanges>>
      /\ failures < MaxFailures /\ failures' = failures + 1
  BY DEF LaterPageFails
<1>5. ResortSorter(generation, sortRevision, sort, v, awaiting, rs)
  BY <1>1 DEF LaterPageFails
<1> HIDE DEF v
<1>6. /\ client' \in Clients /\ client'.generation = generation
      /\ client'.acc = client.acc
      /\ pending' \in {None} \union Snapshots
      /\ pending' # None => GenuineSnapshot(directory, pending')
      /\ view' \in Views
      /\ awaiting' \in {None} \union Waits
      /\ requests' \in SUBSET Requests
      /\ lastPublished' \in {None} \union Snapshots
      /\ inbox' \in Seq(Messages) /\ outbox' \in Seq(Snapshots)
      /\ workerUp' \in BOOLEAN
      /\ worker' \in {None} \union Workers
      /\ Published(v, awaiting, rs)
      /\ WorkerInv'
  BY <1>1, <1>2, <1>3, <1>4, <1>5, ResortKeeps
<1>7. TypeOK'
  BY <1>2, <1>4, <1>6, BoundAssumption DEF TypeOK, Clients, Requests, Waits, Workers
<1>8. ClientInv'
  BY <1>1, <1>2, <1>4, <1>6 DEF ClientInv
<1>9. LoadOk(directory, generation, client'.acc.pages, v, awaiting, rs)
  BY <1>1, <1>3, <1>6 DEF LoadOk
<1>10. ViewOk(directory, generation, v)
  BY <1>1, <1>2, <1>3 DEF ViewInv, ViewOk
<1>11. /\ \A x \in rs : x.generation \in 1..Len(directory)
       /\ awaiting # None => awaiting.generation \in 1..Len(directory)
  BY <1>2 DEF LoadInv
<1>12. LoadInv' /\ ViewInv'
  BY <1>1, <1>2, <1>3, <1>4, <1>6, <1>9, <1>10, <1>11, PublishedKeeps
<1> QED BY <1>6, <1>7, <1>8, <1>12 DEF IInv

LEMMA SetSortInv ==
  ASSUME IInv, NEW order \in Sorts, SetSort(order)
  PROVE  IInv'
<1>1. /\ TypeOK /\ WorkerInv /\ ClientInv /\ LoadInv /\ ViewInv /\ mounted
      /\ view \in Views /\ requests \in SUBSET Requests
      /\ awaiting \in {None} \union Waits
      /\ generation \in Nat /\ sortRevision' \in Nat
  BY DEF IInv, TypeOK, Requests, Waits, SetSort
<1>2. /\ UNCHANGED <<generation, directory, mounted, failures>>
      /\ sort' = order /\ sortChanges < MaxSortChanges /\ sortChanges' = sortChanges + 1
      /\ ResortSorter(generation, sortRevision', order, view, awaiting, requests)
  BY DEF SetSort
<1>3. /\ client' \in Clients /\ client'.generation = generation
      /\ client'.acc = client.acc
      /\ pending' \in {None} \union Snapshots
      /\ pending' # None => GenuineSnapshot(directory, pending')
      /\ view' \in Views
      /\ awaiting' \in {None} \union Waits
      /\ requests' \in SUBSET Requests
      /\ lastPublished' \in {None} \union Snapshots
      /\ inbox' \in Seq(Messages) /\ outbox' \in Seq(Snapshots)
      /\ workerUp' \in BOOLEAN
      /\ worker' \in {None} \union Workers
      /\ Published(view, awaiting, requests)
      /\ WorkerInv'
  BY <1>1, <1>2, ResortKeeps
<1>4. TypeOK'
  BY <1>1, <1>2, <1>3, BoundAssumption DEF TypeOK, Clients, Requests, Waits, Workers
<1>5. ClientInv'
  BY <1>1, <1>2, <1>3 DEF ClientInv
<1>6. LoadOk(directory, generation, client'.acc.pages, view, awaiting, requests)
  BY <1>1, <1>3 DEF LoadInv
<1>7. /\ ViewOk(directory, generation, view)
      /\ \A x \in requests : x.generation \in 1..Len(directory)
      /\ awaiting # None => awaiting.generation \in 1..Len(directory)
  BY <1>1 DEF ViewInv, LoadInv
<1>8. LoadInv' /\ ViewInv'
  BY <1>1, <1>2, <1>3, <1>6, <1>7, PublishedKeeps
<1> QED BY <1>3, <1>4, <1>5, <1>8 DEF IInv

LEMMA LoadDirectoryInv ==
  ASSUME IInv, NEW d \in Directories, LoadDirectory(d)
  PROVE  IInv'
<1> DEFINE g == generation + 1
           m == [kind |-> "reset", generation |-> g, revision |-> sortRevision + 1,
                 sort |-> sort, pages |-> 0]
           q == PageRequest(g, 1, sortRevision + 1)
<1>1. /\ TypeOK /\ WorkerInv /\ ClientInv /\ LoadInv /\ ViewInv /\ mounted
      /\ view \in Views /\ requests \in SUBSET Requests
      /\ generation \in Nat /\ sortRevision \in Nat /\ sort \in Sorts
      /\ directory \in Seq(Directories) /\ Len(directory) = generation
      /\ awaiting \in {None} \union Waits
      /\ {pending, lastPublished} \subseteq {None} \union Snapshots
  BY DEF IInv, TypeOK, Requests, LoadDirectory, ClientInv, Waits
<1>2. /\ generation' = g /\ directory' = Append(directory, d)
      /\ sortRevision' = sortRevision + 1
      /\ view' = [view EXCEPT !.phase = "initial-loading", !.loading = TRUE,
                              !.pages = 0, !.count = 0, !.cursor = 0, !.denied = FALSE]
      /\ requests' = requests \union {q}
      /\ client' = [generation |-> g, revision |-> sortRevision + 1, sort |-> sort,
                    acc |-> EmptyAccumulator]
      /\ pending' = None
      /\ Post(m)
      /\ UNCHANGED <<sort, awaiting, lastPublished, mounted, counters>>
  BY DEF LoadDirectory, ResetSorter
<1>3. /\ directory' \in Seq(Directories) /\ Len(directory') = g
      /\ \A s : GenuineSnapshot(directory, s) => GenuineSnapshot(directory', s)
      /\ \A wk : GenuineWorker(directory, wk) => GenuineWorker(directory', wk)
      /\ \A box, wk : Linked(directory, box, wk) => Linked(directory', box, wk)
      /\ directory'[g] = d /\ g \in 1..g
  BY <1>1, <1>2, MoreDirectories
<1>4. Len(d) \in Nat /\ Len(d) > 0 /\ d \in Seq(Nat)
  BY PageAssumption
<1>5. view' \in Views /\ view'.pages = 0 /\ view'.phase = "initial-loading"
      /\ view'.cursor = 0
  BY <1>1, <1>2 DEF Views, Phases
<1>6. q \in Requests /\ q.generation = g /\ q.cursor = 1
  BY <1>1 DEF PageRequest, Requests
<1>7. m \in Messages /\ m.generation = g /\ m.pages = 0 /\ m.kind = "reset"
  BY <1>1 DEF Messages
<1>8. /\ client' \in Clients /\ client'.generation = g
      /\ client'.acc = EmptyAccumulator /\ EmptyAccumulator.pages = 0
      /\ EmptyAccumulator.loadedCount = 0 /\ EmptyAccumulator.complete = FALSE
  BY <1>1, <1>2, EmptyType DEF Clients, EmptyAccumulator
<1>9. GenuineMessage(directory', m)
  BY <1>3, <1>7 DEF GenuineMessage
<1> HIDE DEF m, q
<1>10. /\ workerUp' \in BOOLEAN
       /\ inbox' \in Seq(Messages) /\ outbox' \in Seq(Snapshots)
       /\ worker' \in {None} \union Workers
  BY <1>1, <1>2, <1>7, PostType
<1>11. WorkerInv'
  <2>1. /\ Linked(directory', inbox, worker)
        /\ GenuineWorker(directory', worker)
        /\ \A i \in 1..Len(outbox) : GenuineSnapshot(directory', outbox[i])
    BY <1>1, <1>3 DEF WorkerInv
  <2> QED BY <1>1, <1>2, <1>7, <1>8, <1>9, <2>1, PostKeepsWorker
<1>12. TypeOK'
  BY <1>1, <1>2, <1>3, <1>5, <1>6, <1>8, <1>10
     DEF TypeOK, Clients, Requests, Waits, Workers, counters
<1>13. ClientInv'
  <2>1. HoldsPrefix(directory', client'.acc, generation')
    BY <1>2, <1>3, <1>4, <1>8 DEF HoldsPrefix, EntriesOf
  <2> QED BY <1>1, <1>2, <1>3, <1>8, <2>1 DEF ClientInv
<1>14. /\ \A r \in requests : r.generation \in 1..generation
       /\ awaiting # None => awaiting.generation \in 1..generation
  BY <1>1 DEF LoadInv
<1>15. LoadOk(directory', g, 0, view', awaiting, requests \union {q})
  <2>1. \A r \in requests \union {q} : r.generation = g => r = q
    BY <1>1, <1>14
  <2> QED BY <1>1, <1>3, <1>4, <1>5, <1>6, <1>14, <2>1 DEF LoadOk
<1>16. LoadInv'
  BY <1>1, <1>2, <1>3, <1>6, <1>8, <1>14, <1>15 DEF LoadInv
<1>17. ViewInv'
  BY <1>5 DEF ViewInv, ViewOk
<1> QED BY <1>11, <1>12, <1>13, <1>16, <1>17 DEF IInv

\* Steps that touch neither the sorter nor what the load waits for.
LEMMA LoadOnlyInv ==
  ASSUME IInv, view' \in Views, requests' \in SUBSET Requests,
         failures' \in 0..MaxFailures,
         UNCHANGED <<generation, directory, sortRevision, sort, awaiting, sorterVars,
                     workerVars, mounted, sortChanges>>,
         \A r \in requests' : r.generation \in 1..Len(directory),
         mounted => /\ LoadOk(directory, generation, client.acc.pages, view', awaiting,
                             requests')
                    /\ ViewOk(directory, generation, view')
  PROVE  IInv'
<1>1. /\ TypeOK /\ WorkerInv /\ ClientInv /\ LoadInv /\ ViewInv
  BY DEF IInv
<1>2. TypeOK'
  BY <1>1 DEF TypeOK, sorterVars, workerVars, Requests
<1>3. WorkerInv' /\ ClientInv'
  BY <1>1 DEF WorkerInv, ClientInv, sorterVars, workerVars
<1>4. LoadInv' /\ ViewInv'
  BY <1>1 DEF LoadInv, ViewInv, sorterVars
<1> QED BY <1>2, <1>3, <1>4 DEF IInv

LEMMA StaleAnswerInv ==
  ASSUME IInv, NEW r \in requests, StaleAnswer(r)
  PROVE  IInv'
<1>1. /\ requests' \subseteq requests /\ view' = view /\ failures' = failures
      /\ UNCHANGED <<generation, directory, sortRevision, sort, awaiting, sorterVars,
                     workerVars, mounted, sortChanges>>
  BY DEF StaleAnswer, counters
<1>2. /\ view' \in Views /\ requests' \in SUBSET Requests /\ failures' \in 0..MaxFailures
  BY <1>1 DEF IInv, TypeOK, Requests
<1>3. mounted => /\ LoadOk(directory, generation, client.acc.pages, view', awaiting,
                          requests')
                 /\ ViewOk(directory, generation, view')
  BY <1>1 DEF IInv, LoadInv, LoadOk, ViewInv
<1>4. \A x \in requests' : x.generation \in 1..Len(directory)
  BY <1>1 DEF IInv, LoadInv
<1> QED BY <1>1, <1>2, <1>3, <1>4, LoadOnlyInv

LEMMA DeniedShowsNothing ==
  ASSUME NEW v \in Views
  PROVE  /\ Denied(v) \in Views /\ Denied(v).phase = "idle" /\ Denied(v).cursor = 0
         /\ ViewOk(directory, generation, Denied(v))
<1>1. Denied(v) \in Views
  BY DEF Denied, Views, Phases
<1>2. Denied(v).phase = "idle" /\ Denied(v).cursor = 0 /\ Denied(v).pages = 0
  BY DEF Denied, Views
<1> QED BY <1>1, <1>2 DEF ViewOk

\* A request that fails leaves its load without one.
LEMMA RequestFailsInv ==
  ASSUME IInv, NEW r \in requests, IsCurrent(r.generation), NEW v \in Views,
         view' = v, requests' = requests \ {r}, failures < MaxFailures,
         failures' = failures + 1,
         UNCHANGED <<generation, directory, sortRevision, sort, awaiting, sorterVars,
                     workerVars, mounted, sortChanges>>,
         v.phase = "partial-error" => v.cursor = 0,
         ViewOk(directory, generation, v)
  PROVE  IInv'
<1>1. /\ \A x \in requests \ {r} : x.generation # generation
      /\ awaiting = None \/ awaiting.generation # generation
  BY CurrentRequest
<1>2. /\ view' \in Views /\ requests' \in SUBSET Requests /\ failures' \in 0..MaxFailures
  BY BoundAssumption DEF IInv, TypeOK, Requests
<1>3. LoadOk(directory, generation, client.acc.pages, v, awaiting, requests')
  BY <1>1 DEF LoadOk
<1>4. \A x \in requests' : x.generation \in 1..Len(directory)
  BY DEF IInv, LoadInv
<1> QED BY <1>2, <1>3, <1>4, LoadOnlyInv

LEMMA FirstPageFailsInv ==
  ASSUME IInv, NEW r \in requests, NEW denied \in BOOLEAN, FirstPageFails(r, denied)
  PROVE  IInv'
<1> DEFINE v == IF denied THEN Denied(view)
                ELSE [view EXCEPT !.phase = "partial-error", !.loading = FALSE]
<1>1. /\ IsCurrent(r.generation) /\ view' = v /\ requests' = requests \ {r}
      /\ failures < MaxFailures /\ failures' = failures + 1
      /\ UNCHANGED <<generation, directory, sortRevision, sort, awaiting, sorterVars,
                     workerVars, mounted, sortChanges>>
  BY DEF FirstPageFails
<1>2. view.cursor = 0 /\ view \in Views /\ ViewOk(directory, generation, view)
  BY <1>1, CurrentRequest DEF FirstPageFails, IInv, TypeOK, ViewInv
<1>3. v \in Views
  BY <1>2, DeniedShowsNothing DEF Views, Phases
<1>4. v.phase = "partial-error" => v.cursor = 0
  BY <1>2, DeniedShowsNothing DEF Views
<1>5. ViewOk(directory, generation, v)
  BY <1>2, DeniedShowsNothing DEF ViewOk, Views
<1> HIDE DEF v
<1> QED BY <1>1, <1>3, <1>4, <1>5, RequestFailsInv

LEMMA LaterPageDeniedInv ==
  ASSUME IInv, NEW r \in requests, LaterPageDenied(r)
  PROVE  IInv'
<1>1. /\ IsCurrent(r.generation) /\ view' = Denied(view) /\ requests' = requests \ {r}
      /\ failures < MaxFailures /\ failures' = failures + 1
      /\ UNCHANGED <<generation, directory, sortRevision, sort, awaiting, sorterVars,
                     workerVars, mounted, sortChanges>>
  BY DEF LaterPageDenied
<1>2. view \in Views
  BY DEF IInv, TypeOK
<1>3. /\ Denied(view) \in Views /\ Denied(view).phase = "idle"
      /\ ViewOk(directory, generation, Denied(view))
  BY <1>2, DeniedShowsNothing
<1> QED BY <1>1, <1>3, RequestFailsInv

LEMMA RetryInv ==
  ASSUME IInv, RetryDirectoryLoad
  PROVE  IInv'
<1> DEFINE q == PageRequest(generation, view.cursor, 0)
           v == Continuing(view, view.cursor)
<1>1. /\ mounted /\ view.phase = "partial-error" /\ view.cursor # 0
      /\ view' = v /\ requests' = requests \union {q} /\ failures' = failures
      /\ UNCHANGED <<generation, directory, sortRevision, sort, awaiting, sorterVars,
                     workerVars, mounted, sortChanges>>
  BY DEF RetryDirectoryLoad, counters
<1>2. /\ view \in Views /\ view.cursor \in Nat \ {0} /\ generation \in Nat
      /\ requests \in SUBSET Requests /\ failures \in 0..MaxFailures
      /\ Len(directory) = generation
      /\ ViewOk(directory, generation, view)
      /\ LoadOk(directory, generation, client.acc.pages, view, awaiting, requests)
  BY <1>1 DEF IInv, TypeOK, Views, Requests, ClientInv, ViewInv, LoadInv
<1>3. /\ v \in Views /\ v.phase = "loading-more" /\ v.cursor = view.cursor
      /\ v.pages = view.pages /\ v.count = view.count /\ v.from = view.from
  BY <1>2 DEF Continuing, Views, Phases
<1>4. q \in Requests /\ q.generation = generation /\ q.cursor = view.cursor
  BY <1>2 DEF PageRequest, Requests
<1>5. /\ \A x \in requests : x.generation # generation
      /\ awaiting = None \/ awaiting.generation # generation
      /\ client.acc.pages = view.cursor - 1 /\ view.cursor > 1
      /\ view.cursor <= Len(directory[generation])
  BY <1>1, <1>2 DEF LoadOk
<1> HIDE DEF q, v
<1>6. LoadOk(directory, generation, client.acc.pages, v, awaiting, requests \union {q})
  <2>1. \A x \in requests \union {q} : x.generation = generation => x = q
    BY <1>5
  <2> QED BY <2>1, <1>2, <1>3, <1>4, <1>5 DEF LoadOk
<1>7. ViewOk(directory, generation, v)
  BY <1>2, <1>3 DEF ViewOk
<1>8. generation \in 1..Len(directory)
  <2>1. CASE generation = 0
    <3>1. HoldsPrefix(directory, client.acc, 0) /\ Len(directory) = 0
      BY <1>1, <1>2, <2>1 DEF IInv, ClientInv
    <3>2. client.acc.pages = 0
      BY <3>1 DEF HoldsPrefix
    <3> QED BY <3>2, <1>2, <1>5
  <2> QED BY <2>1, <1>2
<1>9. \A x \in requests \union {q} : x.generation \in 1..Len(directory)
  BY <1>4, <1>8 DEF IInv, LoadInv
<1> QED BY <1>1, <1>2, <1>3, <1>4, <1>6, <1>7, <1>9, LoadOnlyInv

LEMMA UnmountInv ==
  ASSUME IInv, Unmount
  PROVE  IInv'
<1>1. /\ TypeOK /\ WorkerInv /\ ClientInv /\ LoadInv
  BY DEF IInv
<1>2. client \in Clients /\ client.generation \in Nat
  BY <1>1 DEF TypeOK, Clients
<1>3. client' \in Clients
  BY <1>2 DEF Unmount, Clients
<1>4. TypeOK'
  <2>1. /\ generation' = generation + 1 /\ mounted' = FALSE /\ workerUp' = FALSE
        /\ awaiting' = None /\ pending' = None /\ worker' = None
        /\ inbox' = <<>> /\ outbox' = <<>>
        /\ UNCHANGED <<directory, sortRevision, sort, view, requests, lastPublished,
                       failures, sortChanges>>
    BY DEF Unmount, WorkerGone, counters
  <2>2. inbox' \in Seq(Messages) /\ outbox' \in Seq(Snapshots)
    BY <2>1
  <2>3. /\ generation' \in Nat /\ awaiting' \in {None} \union Waits
        /\ {pending', lastPublished'} \subseteq {None} \union Snapshots
        /\ worker' \in {None} \union Workers
        /\ workerUp' \in BOOLEAN /\ mounted' \in BOOLEAN
    <3>1. generation \in Nat /\ lastPublished \in {None} \union Snapshots
      BY <1>1 DEF TypeOK
    <3>2. generation' \in Nat
      BY <2>1, <3>1
    <3> QED BY <2>1, <3>1, <3>2
  <2> QED BY <1>1, <1>3, <2>1, <2>2, <2>3 DEF TypeOK, Clients, Waits, Workers
<1>5. WorkerInv'
  BY DEF Unmount, WorkerGone, WorkerInv, Linked, GenuineWorker
<1>6. ClientInv'
  BY <1>1 DEF ClientInv, Unmount, WorkerGone, TypeOK
<1>7. LoadInv' /\ ViewInv'
  BY <1>1 DEF LoadInv, ViewInv, Unmount
<1> QED BY <1>4, <1>5, <1>6, <1>7 DEF IInv

\* Steps of the worker alone.
LEMMA WorkerStepInv ==
  ASSUME IInv, WorkerStep
  PROVE  IInv'
<1> DEFINE m == Head(inbox)
<1>1. /\ TypeOK /\ WorkerInv /\ ClientInv /\ LoadInv /\ ViewInv
      /\ inbox \in Seq(Messages) /\ outbox \in Seq(Snapshots) /\ inbox # <<>>
      /\ worker \in {None} \union Workers
      /\ directory \in Seq(Directories)
  BY DEF IInv, TypeOK, Workers, WorkerStep
<1>2. /\ inbox' = Tail(inbox) /\ UNCHANGED <<pageVars, sorterVars, workerUp, mounted, counters>>
  BY DEF WorkerStep
<1>3. /\ m = inbox[1] /\ m \in Messages /\ inbox' \in Seq(Messages)
      /\ Len(inbox) \in Nat \ {0} /\ 1 \in 1..Len(inbox)
  BY <1>1, <1>2
<1>4. /\ GenuineMessage(directory, m)
      /\ m.kind # "reset" => worker # None /\ Follows(worker.generation, worker.acc.pages, m)
  BY <1>1, <1>3 DEF WorkerInv, Linked
<1>5. m.kind # "reset" => WorkerAccepts(m)
  BY <1>4 DEF WorkerAccepts, Follows
<1> HIDE DEF m
<1>6. /\ worker' \in Workers /\ worker'.generation = m.generation
      /\ worker'.acc.pages = m.pages
      /\ GenuineWorker(directory, worker')
      /\ outbox' \in Seq(Snapshots)
      /\ \A i \in 1..Len(outbox') : GenuineSnapshot(directory, outbox'[i])
  <2>0. /\ \A i \in 1..Len(outbox) : GenuineSnapshot(directory, outbox[i])
        /\ \A s \in Snapshots :
             /\ Append(outbox, s) \in Seq(Snapshots)
             /\ GenuineSnapshot(directory, s) =>
                  \A i \in 1..Len(Append(outbox, s)) :
                    GenuineSnapshot(directory, Append(outbox, s)[i])
    BY <1>1 DEF WorkerInv
  <2>1. CASE /\ m.kind = "reset"
             /\ worker' = [generation |-> m.generation, sort |-> m.sort,
                           acc |-> EmptyAccumulator]
             /\ UNCHANGED outbox
    <3>1. m.generation \in Nat /\ m.sort \in Sorts
      BY <1>3, <2>1 DEF Messages
    <3>2. worker' \in Workers /\ worker'.generation = m.generation
          /\ worker'.acc = EmptyAccumulator
      BY <2>1, <3>1, EmptyType DEF Workers
    <3>3. m.generation \in 1..Len(directory) /\ m.pages = 0
      BY <1>4, <2>1 DEF GenuineMessage
    <3>4. Len(directory[m.generation]) \in Nat \ {0}
      BY <1>1, <3>3, PageAssumption
    <3>5. HoldsPrefix(directory, EmptyAccumulator, m.generation)
          /\ EmptyAccumulator.pages = 0
      BY <3>3, <3>4 DEF HoldsPrefix, EmptyAccumulator, EntriesOf
    <3> QED BY <1>1, <2>0, <2>1, <3>2, <3>3, <3>5 DEF GenuineWorker
  <2>2. CASE /\ m.kind = "append" /\ WorkerAccepts(m)
             /\ LET acc == AppendPage(worker.acc, m.size, m.complete) IN
                /\ worker' = [worker EXCEPT !.acc = acc]
                /\ outbox' = IF Publishes(worker.acc, acc.loadedCount, m.complete)
                             THEN Append(outbox, SnapshotOf(acc, m.generation, m.revision,
                                                            worker.sort))
                             ELSE outbox
    <3> DEFINE acc == AppendPage(worker.acc, m.size, m.complete)
               g == m.generation
               t == SnapshotOf(acc, g, m.revision, worker.sort)
    <3>1. /\ worker \in Workers /\ worker.generation = g /\ worker.acc \in Accumulators
          /\ worker.sort \in Sorts /\ worker.acc.pages = m.pages - 1
          /\ HoldsPrefix(directory, worker.acc, g) /\ g \in 1..Len(directory)
      <4>1. worker # None /\ worker \in Workers
        BY <1>1, <1>4, <2>2
      <4>2. worker.generation \in 1..Len(directory)
            /\ HoldsPrefix(directory, worker.acc, worker.generation)
        BY <1>1, <4>1 DEF WorkerInv, GenuineWorker
      <4>3. worker.generation = g /\ m.pages = worker.acc.pages + 1
        BY <1>4, <2>2 DEF Follows
      <4>4. worker.acc \in Accumulators /\ worker.sort \in Sorts
            /\ worker.acc.pages \in Nat
        BY <4>1 DEF Workers, Accumulators
      <4> QED BY <4>1, <4>2, <4>3, <4>4
    <3>2. /\ m.pages \in 1..Len(directory[g]) /\ m.size = PageLength(directory[g], m.pages)
          /\ m.complete <=> (m.pages = Len(directory[g]))
      BY <1>4, <2>2 DEF GenuineMessage
    <3>3. m.complete \in BOOLEAN /\ m.revision \in Nat /\ g \in Nat
      BY <1>3, <2>2 DEF Messages
    <3>4. acc \in Accumulators /\ acc.pages = m.pages /\ HoldsPrefix(directory, acc, g)
      <4>1. acc = AppendPage(worker.acc, PageLength(directory[g], m.pages), m.complete)
        BY <3>2
      <4> HIDE DEF acc
      <4> QED BY <4>1, <1>1, <3>1, <3>2, <3>3, AppendHoldsPrefix
    <3> HIDE DEF acc
    <3>5. /\ t \in Snapshots /\ t.generation = g /\ t.pages = acc.pages
          /\ t.loadedCount = acc.loadedCount /\ t.complete = acc.complete
      BY <3>1, <3>3, <3>4, SnapshotType
    <3>6. /\ worker' = [worker EXCEPT !.acc = acc]
          /\ outbox' \in {outbox, Append(outbox, t)}
      BY <2>2 DEF acc
    <3>7. worker' \in Workers /\ worker'.generation = g /\ worker'.acc = acc
      BY <3>1, <3>4, <3>6 DEF Workers
    <3> HIDE DEF t
    <3>8. GenuineSnapshot(directory, t)
      BY <3>1, <3>4, <3>5 DEF GenuineSnapshot, HoldsPrefix
    <3> QED BY <1>1, <2>0, <3>1, <3>4, <3>5, <3>6, <3>7, <3>8 DEF GenuineWorker
  <2>3. CASE /\ m.kind = "resort" /\ WorkerAccepts(m)
             /\ worker' = [worker EXCEPT !.sort = m.sort]
             /\ outbox' = IF HasNothing(worker.acc) THEN outbox
                          ELSE Append(outbox, SnapshotOf(worker.acc, m.generation,
                                                         m.revision, m.sort))
    <3> DEFINE g == m.generation
               t == SnapshotOf(worker.acc, g, m.revision, m.sort)
    <3>1. m.revision \in Nat /\ g \in Nat /\ m.sort \in Sorts
      BY <1>3, <2>3 DEF Messages
    <3>2. /\ worker \in Workers /\ worker.generation = g /\ worker.acc \in Accumulators
          /\ worker.acc.pages = m.pages
          /\ HoldsPrefix(directory, worker.acc, g) /\ g \in 1..Len(directory)
      <4>1. worker # None /\ worker \in Workers
        BY <1>1, <1>4, <2>3
      <4>2. worker.generation \in 1..Len(directory)
            /\ HoldsPrefix(directory, worker.acc, worker.generation)
        BY <1>1, <4>1 DEF WorkerInv, GenuineWorker
      <4>3. worker.generation = g /\ m.pages = worker.acc.pages
        BY <1>4, <2>3 DEF Follows
      <4> QED BY <4>1, <4>2, <4>3 DEF Workers
    <3>3. /\ t \in Snapshots /\ t.generation = g /\ t.pages = worker.acc.pages
          /\ t.loadedCount = worker.acc.loadedCount /\ t.complete = worker.acc.complete
      BY <3>1, <3>2, SnapshotType
    <3>4. worker' \in Workers /\ worker'.generation = g /\ worker'.acc = worker.acc
      BY <2>3, <3>1, <3>2 DEF Workers
    <3>5. outbox' \in {outbox, Append(outbox, t)}
      BY <2>3
    <3> HIDE DEF t
    <3>6. GenuineSnapshot(directory, t)
      BY <3>2, <3>3 DEF GenuineSnapshot, HoldsPrefix
    <3> QED BY <1>1, <2>0, <3>2, <3>3, <3>4, <3>5, <3>6 DEF GenuineWorker
  <2> QED BY <1>5, <2>1, <2>2, <2>3 DEF WorkerStep, m
<1>7. worker' # None
  BY <1>6, NoneIsNothing
<1>8. Linked(directory, inbox', worker')
  BY <1>1, <1>2, <1>3, <1>6, <1>7, LinkedTail DEF WorkerInv
<1>9. (workerUp /\ client.generation > 0) => CatchesUp(client, inbox', worker')
  <2>1. SUFFICES ASSUME workerUp, client.generation > 0
                 PROVE  CatchesUp(client, inbox', worker')
    OBVIOUS
  <2>2. inbox[Len(inbox)].generation = client.generation
        /\ inbox[Len(inbox)].pages = client.acc.pages
    BY <1>1, <2>1 DEF WorkerInv, CatchesUp
  <2>3. inbox' = <<>> => Len(inbox) = 1
    <3>1. Len(Tail(inbox)) = Len(inbox) - 1 /\ Len(inbox) \in Nat
      BY <1>1
    <3>2. inbox' = <<>> => Len(Tail(inbox)) = 0
      <4>1. Len(<< >>) = 0
        OBVIOUS
      <4>2. inbox' = Tail(inbox)
        BY <1>2
      <4> QED BY <4>1, <4>2
    <3> QED BY <3>1, <3>2
  <2>4. inbox' # <<>> => inbox'[Len(inbox')] = inbox[Len(inbox)]
    BY <1>1, <1>2
  <2> QED BY <1>3, <1>6, <1>7, <2>2, <2>3, <2>4 DEF CatchesUp
<1>10. TypeOK'
  BY <1>1, <1>2, <1>3, <1>6 DEF TypeOK, Workers, pageVars, sorterVars, counters
<1>11. workerUp
  BY <1>1 DEF WorkerInv
<1>12. WorkerInv'
  BY <1>2, <1>6, <1>8, <1>9, <1>11 DEF WorkerInv, pageVars, sorterVars
<1>13. ClientInv' /\ LoadInv' /\ ViewInv'
  BY <1>1, <1>2 DEF ClientInv, LoadInv, ViewInv, pageVars, sorterVars
<1> QED BY <1>10, <1>12, <1>13 DEF IInv

\* Publishing a genuine snapshot outside append and resort.
LEMMA PublishInv ==
  ASSUME IInv, NEW s \in {None} \union Snapshots,
         s # None => GenuineSnapshot(directory, s), mounted,
         Publish(s, sortRevision, view, awaiting, requests),
         pending' \in {pending, None},
         UNCHANGED <<generation, directory, sortRevision, sort, client, mounted, counters>>,
         inbox' \in Seq(Messages), outbox' \in Seq(Snapshots), workerUp' \in BOOLEAN,
         worker' \in {None} \union Workers,
         WorkerInv'
  PROVE  IInv'
<1>1. /\ TypeOK /\ ClientInv /\ LoadInv /\ ViewInv
      /\ view \in Views /\ requests \in SUBSET Requests
      /\ awaiting \in {None} \union Waits /\ generation \in Nat
      /\ {pending, lastPublished} \subseteq {None} \union Snapshots
  BY DEF IInv, TypeOK, Requests, Waits
<1>2. Published(view, awaiting, requests)
  BY PublishGenuine
<1>3. /\ view' \in Views
      /\ awaiting' \in {None} \union Waits
      /\ requests' \in SUBSET Requests
      /\ lastPublished' \in {None} \union Snapshots
  BY <1>1, PublishType
<1>4. TypeOK'
  BY <1>1, <1>3 DEF TypeOK, Requests, Waits, Workers, counters
<1>5. ClientInv'
  BY <1>1 DEF ClientInv
<1>6. LoadInv' /\ ViewInv'
  BY <1>1, <1>2, PublishedKeeps DEF LoadInv, ViewInv
<1> QED BY <1>4, <1>5, <1>6 DEF IInv

LEMMA WorkerAnswerInv ==
  ASSUME IInv, WorkerAnswer
  PROVE  IInv'
<1> DEFINE s == Head(outbox)
<1>1. /\ outbox # <<>> /\ outbox' = Tail(outbox) /\ pending' \in {pending, None}
      /\ Publish(s, sortRevision, view, awaiting, requests)
      /\ UNCHANGED <<generation, directory, sortRevision, sort, client, workerUp, inbox,
                     worker, mounted, counters>>
  BY DEF WorkerAnswer
<1>2. /\ outbox \in Seq(Snapshots) /\ inbox \in Seq(Messages) /\ workerUp \in BOOLEAN
      /\ worker \in {None} \union Workers /\ WorkerInv /\ ClientInv
  BY DEF IInv, TypeOK, Workers
<1>3. /\ s \in Snapshots /\ s = outbox[1] /\ 1 \in 1..Len(outbox)
      /\ outbox' \in Seq(Snapshots) /\ Len(outbox') = Len(outbox) - 1
      /\ Len(outbox) \in Nat
      /\ \A i \in 1..Len(outbox') : outbox'[i] = outbox[i + 1]
  BY <1>1, <1>2
<1>4. /\ GenuineSnapshot(directory, s)
      /\ \A i \in 1..Len(outbox') : GenuineSnapshot(directory, outbox'[i])
  BY <1>2, <1>3 DEF WorkerInv
<1>5. workerUp /\ mounted
  BY <1>1, <1>2 DEF WorkerInv, ClientInv
<1>6. WorkerInv'
  BY <1>1, <1>2, <1>4, <1>5 DEF WorkerInv
<1> HIDE DEF s
<1>7. UNCHANGED <<generation, directory, sortRevision, sort, client, mounted, counters>>
      /\ inbox' \in Seq(Messages) /\ workerUp' \in BOOLEAN
      /\ worker' \in {None} \union Workers
  BY <1>1, <1>2
<1> QED BY <1>1, <1>3, <1>4, <1>5, <1>6, <1>7, PublishInv

\* A worker that is gone has nothing left to be wrong about.
LEMMA WorkerGoneInv ==
  ASSUME WorkerGone
  PROVE  /\ WorkerInv'
         /\ inbox' \in Seq(Messages) /\ outbox' \in Seq(Snapshots)
         /\ workerUp' \in BOOLEAN /\ worker' \in {None} \union Workers
<1>1. << >> \in Seq(Messages) /\ << >> \in Seq(Snapshots) /\ Len(<< >>) = 0
  OBVIOUS
<1>2. workerUp' = FALSE /\ inbox' = << >> /\ outbox' = << >> /\ worker' = None
  BY DEF WorkerGone
<1>3. Linked(directory', << >>, None) /\ GenuineWorker(directory', None)
  BY <1>1 DEF Linked, GenuineWorker
<1>4. \A i \in 1..Len(outbox') : GenuineSnapshot(directory', outbox'[i])
  BY <1>1, <1>2
<1>5. WorkerInv'
  BY <1>2, <1>3, <1>4 DEF WorkerInv
<1>6. inbox' \in Seq(Messages) /\ outbox' \in Seq(Snapshots)
  BY <1>1, <1>2
<1> QED BY <1>2, <1>5, <1>6

LEMMA FallbackTimerInv ==
  ASSUME IInv, FallbackTimer
  PROVE  IInv'
<1>1. /\ pending # None /\ pending' = None /\ WorkerGone /\ workerUp
      /\ Publish(pending, sortRevision, view, awaiting, requests)
      /\ UNCHANGED <<generation, directory, sortRevision, sort, client, mounted, counters>>
  BY DEF FallbackTimer
<1>2. pending \in {None} \union Snapshots /\ GenuineSnapshot(directory, pending) /\ mounted
  BY <1>1 DEF IInv, TypeOK, ClientInv
<1> QED BY <1>1, <1>2, WorkerGoneInv, PublishInv

LEMMA WorkerErrorInv ==
  ASSUME IInv, WorkerError
  PROVE  IInv'
<1>1. /\ pending' = None /\ WorkerGone /\ workerUp
      /\ Publish(SnapshotFallback, sortRevision, view, awaiting, requests)
      /\ UNCHANGED <<generation, directory, sortRevision, sort, client, mounted, counters>>
  BY DEF WorkerError
<1>2. /\ mounted /\ TypeOK /\ ClientInv
      /\ client \in Clients /\ client.acc \in Accumulators /\ client.sort \in Sorts
      /\ client.generation \in Nat /\ client.revision \in Nat /\ generation \in Nat
  BY <1>1 DEF IInv, TypeOK, ClientInv, Clients
<1> DEFINE t == SnapshotOf(client.acc, client.generation, client.revision, client.sort)
<1>3. SnapshotFallback \in {pending, None, t}
      /\ (SnapshotFallback = t => pending # None \/ ~HasNothing(client.acc) \/ t = None)
  BY DEF SnapshotFallback
<1>4. /\ t \in Snapshots /\ t.generation = client.generation /\ t.pages = client.acc.pages
      /\ t.loadedCount = client.acc.loadedCount /\ t.complete = client.acc.complete
  BY <1>2, SnapshotType
<1> HIDE DEF t
<1>5. ~HasNothing(client.acc) => GenuineSnapshot(directory, t)
  BY <1>2, <1>4 DEF ClientInv, HoldsPrefix, HasNothing, GenuineSnapshot
<1>6. /\ SnapshotFallback \in {None} \union Snapshots
      /\ SnapshotFallback # None => GenuineSnapshot(directory, SnapshotFallback)
  BY <1>2, <1>4, <1>5 DEF SnapshotFallback, TypeOK, ClientInv, t
<1> QED BY <1>1, <1>2, <1>6, WorkerGoneInv, PublishInv

LEMMA NextInv == IInv /\ [Next]_vars => IInv'
<1> SUFFICES ASSUME IInv, [Next]_vars PROVE IInv'
  OBVIOUS
<1>1. CASE Settle
  <2> PICK r \in requests :
        \/ StaleAnswer(r) \/ FirstPage(r) \/ LaterPage(r)
        \/ \E denied \in BOOLEAN : FirstPageFails(r, denied)
        \/ LaterPageFails(r) \/ LaterPageDenied(r)
    BY <1>1 DEF Settle
  <2> QED BY StaleAnswerInv, FirstPageInv, LaterPageInv, FirstPageFailsInv,
             LaterPageFailsInv, LaterPageDeniedInv
<1>2. CASE User
  BY <1>2, LoadDirectoryInv, RetryInv, SetSortInv, UnmountInv DEF User
<1>3. CASE WorkerStep
  BY <1>3, WorkerStepInv
<1>4. CASE WorkerAnswer
  BY <1>4, WorkerAnswerInv
<1>5. CASE FallbackTimer
  BY <1>5, FallbackTimerInv
<1>6. CASE WorkerError
  BY <1>6, WorkerErrorInv
<1>7. CASE UNCHANGED vars
  BY <1>7 DEF vars, pageVars, sorterVars, workerVars, counters, IInv, TypeOK, WorkerInv,
              ClientInv, LoadInv, ViewInv
<1> QED BY <1>1, <1>2, <1>3, <1>4, <1>5, <1>6, <1>7 DEF Next

LEMMA IInvImplies ==
  ASSUME IInv
  PROVE  ShownBelongsToDirectory /\ CompleteShowsEverything /\ OnePageAtATime
<1>1. ShownBelongsToDirectory /\ CompleteShowsEverything
  BY DEF IInv, ViewInv, ViewOk, ShownBelongsToDirectory, CompleteShowsEverything
<1>2. ASSUME NEW r \in requests, r.generation = generation
      PROVE  /\ \A q \in requests : q.generation = generation => q = r
             /\ client.generation = generation /\ client.acc.pages = r.cursor - 1
  <2>1. IsCurrent(r.generation)
    BY <1>2 DEF IsCurrent
  <2>2. client.generation = generation
    BY <2>1, CurrentRequest DEF IInv, ClientInv
  <2> QED BY <1>2, <2>1, <2>2, CurrentRequest
<1> QED BY <1>1, <1>2 DEF OnePageAtATime

-----------------------------------------------------------------------------
(* The theorems *)

\* Every variable of the listing has its type in every reachable state.
THEOREM TypeCorrect == Spec => []TypeOK
<1>1. IInv => TypeOK
  BY DEF IInv
<1> QED BY <1>1, InitInv, NextInv, PTL DEF Spec

\* What the table shows is a prefix of the directory opened last and of no other,
\* whatever the order in which the server, the two accumulators and the user act.
THEOREM TableShowsItsDirectory == Spec => []ShownBelongsToDirectory
<1>1. IInv => ShownBelongsToDirectory
  BY IInvImplies
<1> QED BY <1>1, InitInv, NextInv, PTL DEF Spec

\* A listing declared complete shows every page of its directory.
THEOREM CompleteIsWhole == Spec => []CompleteShowsEverything
<1>1. IInv => CompleteShowsEverything
  BY IInvImplies
<1> QED BY <1>1, InitInv, NextInv, PTL DEF Spec

\* A load has one request in flight at most, for the page after those it holds.
THEOREM RequestsAreSequential == Spec => []OnePageAtATime
<1>1. IInv => OnePageAtATime
  BY IInvImplies
<1> QED BY <1>1, InitInv, NextInv, PTL DEF Spec

-----------------------------------------------------------------------------
(* Refinement of DirectoryView: the entries of a directory *)

\* A set of natural numbers has a least element: induction in the form that needs
\* no operator as a parameter.
LEMMA LeastElement ==
  ASSUME NEW T \in SUBSET Nat, T # {}
  PROVE  \E x \in T : \A y \in T : x <= y
<1> DEFINE R == OpToRel(<, Nat)
<1>1. \E x \in T : \A y \in T : ~(<<y, x>> \in R)
  BY WFMin, NatLessThanWellFounded, Zenon
<1>2. \A x, y \in Nat : y < x => <<y, x>> \in R
  BY Zenon DEF OpToRel
<1>3. \E x \in T : \A y \in T : ~(y < x)
  BY <1>1, <1>2, Zenon
<1> QED BY <1>3

LEMMA EntriesType ==
  ASSUME NEW d \in Directories, NEW k \in 0..Len(d)
  PROVE  EntriesOf(d, k) \in Nat
BY PageAssumption DEF EntriesOf

\* More pages hold more entries, by induction on the number of pages.
LEMMA EntriesGrow ==
  ASSUME NEW d \in Directories, Len(d) > 1,
         NEW j \in 0..Len(d), NEW k \in 0..Len(d), j < k
  PROVE  EntriesOf(d, j) < EntriesOf(d, k)
<1>1. /\ Len(d) \in Nat
      /\ \A i \in 1..Len(d) : PageLength(d, i) > 0
  BY PageAssumption
<1>2. \A i \in 0..Len(d) : EntriesOf(d, i) \in Nat
  BY EntriesType
<1> DEFINE T == {i \in (j + 1)..Len(d) : ~(EntriesOf(d, j) < EntriesOf(d, i))}
<1>3. T \in SUBSET Nat
  BY <1>1
<1> SUFFICES ASSUME T # {} PROVE FALSE
  <2>1. k \in (j + 1)..Len(d)
    BY <1>1
  <2> QED BY <2>1
<1>4. PICK i \in T : \A y \in T : i <= y
  BY <1>3, LeastElement, Zenon
<1>5. /\ i \in (j + 1)..Len(d) /\ ~(EntriesOf(d, j) < EntriesOf(d, i))
      /\ i - 1 = j \/ EntriesOf(d, j) < EntriesOf(d, i - 1)
  BY <1>1, <1>4
<1> HIDE DEF T
<1>6. i \in 1..Len(d) /\ i - 1 \in 0..Len(d)
  BY <1>1, <1>5
<1>7. EntriesOf(d, i) - EntriesOf(d, i - 1) > 0
  BY <1>1, <1>6 DEF PageLength
<1>8. EntriesOf(d, i) \in Nat /\ EntriesOf(d, i - 1) \in Nat /\ EntriesOf(d, j) \in Nat
  BY <1>1, <1>2, <1>6
<1> QED BY <1>5, <1>7, <1>8

\* What DirectoryView compares of two prefixes of a directory.
LEMMA EntriesCompare ==
  ASSUME NEW d \in Directories, NEW j \in 0..Len(d), NEW k \in 0..Len(d)
  PROVE  /\ EntriesOf(d, j) \in Nat /\ EntriesOf(d, k) \in Nat
         /\ j <= k => EntriesOf(d, j) <= EntriesOf(d, k)
         /\ j > 0 => EntriesOf(d, j) > 0 \/ EntriesOf(d, Len(d)) = 0
         /\ j > 0 => (EntriesOf(d, j) = EntriesOf(d, Len(d)) <=> j = Len(d))
<1>1. Len(d) \in Nat /\ Len(d) > 0
  BY PageAssumption
<1>2. EntriesOf(d, j) \in Nat /\ EntriesOf(d, k) \in Nat /\ EntriesOf(d, Len(d)) \in Nat
  BY <1>1, EntriesType
<1>3. EntriesOf(d, 0) = 0
  BY DEF EntriesOf
<1>4. CASE Len(d) > 1
  <2>1. /\ j < k => EntriesOf(d, j) < EntriesOf(d, k)
        /\ j < Len(d) => EntriesOf(d, j) < EntriesOf(d, Len(d))
        /\ 0 < j => EntriesOf(d, 0) < EntriesOf(d, j)
    BY <1>1, <1>4, EntriesGrow
  <2> QED BY <1>1, <1>2, <1>3, <2>1
<1>5. CASE Len(d) = 1
  <2>1. j \in {0, 1} /\ k \in {0, 1}
    BY <1>5
  <2> QED BY <1>2, <1>3, <1>5, <2>1
<1>6. \A n \in Nat : n > 0 => n > 1 \/ n = 1
  OBVIOUS
<1> QED BY <1>1, <1>4, <1>5, <1>6

-----------------------------------------------------------------------------
(* Refinement of DirectoryView: what is under way in the sorter *)

\* What snapshots and messages are measured against: the load and the order of
\* the page, the pages appended so far and the revision the sorter was last told.
Now == [generation |-> generation, pages |-> client.acc.pages, told |-> client.revision,
        revision |-> sortRevision, sort |-> sort]

Contexts == [generation : Nat, pages : Nat, told : Nat, revision : Nat, sort : Sorts]

\* A snapshot of the page's revision is in the page's order; one of its load has
\* no more pages than were appended.
SnapshotFits(s, c) ==
  /\ s.pages > 0 /\ s.revision <= c.revision
  /\ s.revision = c.revision => s.sort = c.sort
  /\ s.generation = c.generation => s.pages <= c.pages /\ s.revision <= c.told

MessageFits(m, c) ==
  /\ m.revision <= c.revision
  /\ m.kind # "reset" =>
       m.pages > 0 /\ (m.generation = c.generation => m.pages <= c.pages /\ m.revision <= c.told)
  /\ (m.kind # "append" /\ m.revision = c.revision) => m.sort = c.sort

\* The order of worker wk, once it has read what comes in box before the i-th
\* message: an append brings the entries, not the order they are to be in.
OrderBefore(box, wk, i, o) ==
  \/ \E j \in 1..(i - 1) : /\ box[j].kind # "append" /\ box[j].sort = o
                           /\ \A k \in (j + 1)..(i - 1) : box[k].kind = "append"
  \/ wk # None /\ wk.sort = o /\ \A k \in 1..(i - 1) : box[k].kind = "append"

\* Messages that fit; an append of the page's revision finds the worker in the
\* page's order, and a reset belongs to a newer load than what comes before.
BoxFits(box, wk, c) ==
  /\ \A i \in 1..Len(box) :
       /\ MessageFits(box[i], c)
       /\ (box[i].kind = "append" /\ box[i].revision = c.revision) =>
            OrderBefore(box, wk, i, c.sort)
  /\ \A i \in 2..Len(box) : box[i].kind = "reset" => box[i - 1].generation < box[i].generation
  /\ (box # <<>> /\ wk # None /\ box[1].kind = "reset") => wk.generation < box[1].generation

OutFits(out, c) == \A i \in 1..Len(out) : SnapshotFits(out[i], c)

\* The next page of the load will be appended in the page's order. It is not when
\* the user has sorted before the first page came: setSort posts nothing then.
InStep ==
  \/ client.acc.pages > 0 /\ client.revision = sortRevision
  \/ \E r \in requests : r.generation = generation /\ r.cursor = 1 /\ r.revision = sortRevision

SorterInv ==
  /\ client.sort = sort /\ client.revision <= sortRevision
  /\ \A r \in requests : r.revision <= sortRevision
  /\ pending # None => SnapshotFits(pending, Now)
  /\ OutFits(outbox, Now)
  /\ BoxFits(inbox, worker, Now)
  /\ (workerUp /\ mounted /\ InStep) => OrderBefore(inbox, worker, Len(inbox) + 1, sort)

\* From context c to context e the order of a revision stays, and so does what
\* was appended to a load.
Later(c, e) ==
  /\ c.revision <= e.revision
  /\ c.revision = e.revision => e.sort = c.sort
  /\ e.generation = c.generation => c.pages <= e.pages /\ (c.pages = 0 \/ c.told <= e.told)

LEMMA SnapshotFitsLater ==
  ASSUME NEW c \in Contexts, NEW e \in Contexts, Later(c, e), NEW s \in Snapshots,
         SnapshotFits(s, c), e.generation # c.generation => s.generation # e.generation
  PROVE  SnapshotFits(s, e)
BY DEF Contexts, Snapshots, Later, SnapshotFits

LEMMA MessageFitsLater ==
  ASSUME NEW c \in Contexts, NEW e \in Contexts, Later(c, e), NEW m \in Messages,
         MessageFits(m, c), e.generation # c.generation => m.generation # e.generation
  PROVE  MessageFits(m, e)
<1>1. /\ m.revision \in Nat /\ m.pages \in Nat
      /\ c.revision \in Nat /\ c.pages \in Nat /\ c.told \in Nat
      /\ e.revision \in Nat /\ e.pages \in Nat /\ e.told \in Nat
  BY DEF Messages, Contexts
<1> QED BY <1>1 DEF Later, MessageFits

LEMMA BoxFitsLater ==
  ASSUME NEW c \in Contexts, NEW e \in Contexts, Later(c, e), NEW box \in Seq(Messages), NEW wk,
         BoxFits(box, wk, c),
         e.generation # c.generation => \A i \in 1..Len(box) : box[i].generation # e.generation
  PROVE  BoxFits(box, wk, e)
<1>1. ASSUME NEW i \in 1..Len(box)
      PROVE  MessageFits(box[i], e)
  <2>1. box[i] \in Messages /\ MessageFits(box[i], c)
    BY DEF BoxFits
  <2> QED BY <2>1, MessageFitsLater
<1>2. ASSUME NEW i \in 1..Len(box), box[i].kind = "append", box[i].revision = e.revision
      PROVE  OrderBefore(box, wk, i, e.sort)
  <2>1. box[i] \in Messages /\ box[i].revision <= c.revision
    BY DEF BoxFits, MessageFits
  <2>2. c.revision = e.revision /\ e.sort = c.sort
    BY <1>2, <2>1 DEF Later, Contexts, Messages
  <2> QED BY <1>2, <2>2 DEF BoxFits
<1> QED BY <1>1, <1>2 DEF BoxFits

LEMMA OutFitsLater ==
  ASSUME NEW c \in Contexts, NEW e \in Contexts, Later(c, e), NEW out \in Seq(Snapshots),
         OutFits(out, c),
         e.generation # c.generation => \A i \in 1..Len(out) : out[i].generation # e.generation
  PROVE  OutFits(out, e)
<1>1. ASSUME NEW i \in 1..Len(out)
      PROVE  SnapshotFits(out[i], e)
  <2>1. out[i] \in Snapshots /\ SnapshotFits(out[i], c)
    BY DEF OutFits
  <2> QED BY <2>1, SnapshotFitsLater
<1> QED BY <1>1 DEF OutFits

\* A message posted comes after all the others, in the order they leave.
LEMMA OrderAppend ==
  ASSUME NEW box \in Seq(Messages), NEW wk, NEW m \in Messages, NEW o
  PROVE  /\ \A i \in 1..(Len(box) + 1) :
              OrderBefore(box, wk, i, o) => OrderBefore(Append(box, m), wk, i, o)
         /\ (IF m.kind = "append" THEN OrderBefore(box, wk, Len(box) + 1, o)
                                  ELSE m.sort = o)
              => OrderBefore(Append(box, m), wk, Len(box) + 2, o)
<1> DEFINE b == Append(box, m)
           n == Len(box)
<1>1. /\ n \in Nat /\ Len(b) = n + 1 /\ b[n + 1] = m
      /\ \A i \in 1..n : b[i] = box[i]
  OBVIOUS
<1> HIDE DEF b, n
<1>2. ASSUME NEW i \in 1..(n + 1), OrderBefore(box, wk, i, o)
      PROVE  OrderBefore(b, wk, i, o)
  <2>1. \A k \in 1..(i - 1) : b[k] = box[k]
    BY <1>1
  <2> QED BY <1>1, <1>2, <2>1 DEF OrderBefore
<1>3. ASSUME m.kind # "append", m.sort = o
      PROVE  OrderBefore(b, wk, n + 2, o)
  <2>1. n + 1 \in 1..((n + 2) - 1) /\ \A k \in ((n + 1) + 1)..((n + 2) - 1) : FALSE
    BY <1>1
  <2> QED BY <1>1, <1>3, <2>1 DEF OrderBefore
<1>4. ASSUME m.kind = "append", OrderBefore(box, wk, n + 1, o)
      PROVE  OrderBefore(b, wk, n + 2, o)
  <2>1. OrderBefore(b, wk, n + 1, o)
    BY <1>1, <1>2, <1>4
  <2>2. CASE \E j \in 1..n : /\ b[j].kind # "append" /\ b[j].sort = o
                             /\ \A k \in (j + 1)..n : b[k].kind = "append"
    <3>1. PICK j \in 1..n : /\ b[j].kind # "append" /\ b[j].sort = o
                            /\ \A k \in (j + 1)..n : b[k].kind = "append"
      BY <2>2
    <3>2. \A k \in (j + 1)..(n + 1) : b[k].kind = "append"
      BY <1>1, <1>4, <3>1
    <3>3. j \in 1..((n + 2) - 1) /\ (n + 2) - 1 = n + 1
      BY <1>1, <3>1
    <3> QED BY <3>1, <3>2, <3>3 DEF OrderBefore
  <2>3. CASE wk # None /\ wk.sort = o /\ \A k \in 1..n : b[k].kind = "append"
    <3>1. (n + 2) - 1 = n + 1 /\ \A k \in 1..(n + 1) : b[k].kind = "append"
      BY <1>1, <1>4, <2>3
    <3> QED BY <2>3, <3>1 DEF OrderBefore
  <2>4. (n + 1) - 1 = n
    BY <1>1
  <2> QED BY <2>1, <2>2, <2>3, <2>4 DEF OrderBefore
<1>5. (IF m.kind = "append" THEN OrderBefore(box, wk, n + 1, o) ELSE m.sort = o)
        => OrderBefore(b, wk, n + 2, o)
  BY <1>3, <1>4
<1> QED BY <1>2, <1>5 DEF b, n

LEMMA BoxAppend ==
  ASSUME NEW box \in Seq(Messages), NEW wk, NEW m \in Messages, NEW c,
         BoxFits(box, wk, c), MessageFits(m, c),
         (m.kind = "append" /\ m.revision = c.revision) =>
           OrderBefore(box, wk, Len(box) + 1, c.sort),
         m.kind = "reset" =>
           /\ box # <<>> => box[Len(box)].generation < m.generation
           /\ (box = <<>> /\ wk # None) => wk.generation < m.generation
  PROVE  BoxFits(Append(box, m), wk, c)
<1> DEFINE b == Append(box, m)
           n == Len(box)
<1>1. /\ n \in Nat /\ Len(b) = n + 1 /\ b[n + 1] = m
      /\ \A i \in 1..n : b[i] = box[i]
  OBVIOUS
<1>0. box # <<>> <=> n > 0
  OBVIOUS
<1>2. \A i \in 1..(n + 1) : OrderBefore(box, wk, i, c.sort) => OrderBefore(b, wk, i, c.sort)
  BY OrderAppend
<1> HIDE DEF b
<1>3. ASSUME NEW i \in 1..(n + 1)
      PROVE  /\ MessageFits(b[i], c)
             /\ (b[i].kind = "append" /\ b[i].revision = c.revision) =>
                  OrderBefore(b, wk, i, c.sort)
  <2>1. CASE i = n + 1
    BY <1>1, <1>2, <2>1
  <2>2. CASE i \in 1..n
    BY <1>1, <1>2, <2>2 DEF BoxFits
  <2> QED BY <1>1, <2>1, <2>2
<1>4. ASSUME NEW i \in 2..(n + 1), b[i].kind = "reset"
      PROVE  b[i - 1].generation < b[i].generation
  <2>1. CASE i = n + 1
    <3>1. b[i] = m /\ b[i - 1] = box[n] /\ box # <<>>
      BY <1>0, <1>1, <2>1
    <3> QED BY <1>4, <3>1
  <2>2. CASE i \in 2..n
    <3>1. b[i] = box[i] /\ b[i - 1] = box[i - 1]
      BY <1>1, <2>2
    <3> QED BY <1>4, <2>2, <3>1 DEF BoxFits
  <2> QED BY <1>1, <2>1, <2>2
<1>5. (wk # None /\ b[1].kind = "reset") => wk.generation < b[1].generation
  <2>1. CASE n = 0
    BY <1>0, <1>1, <2>1
  <2>2. CASE n > 0
    BY <1>0, <1>1, <2>2 DEF BoxFits
  <2> QED BY <1>1, <2>1, <2>2
<1> QED BY <1>1, <1>3, <1>4, <1>5 DEF BoxFits, b

\* The worker has read a message: what was before the second is now the worker's.
LEMMA OrderTail ==
  ASSUME NEW box \in Seq(Messages), box # <<>>, NEW wk, NEW after, after # None,
         box[1].kind = "append" => wk # None /\ after.sort = wk.sort,
         box[1].kind # "append" => after.sort = box[1].sort,
         NEW i \in 1..Len(box), NEW o, OrderBefore(box, wk, i + 1, o)
  PROVE  OrderBefore(Tail(box), after, i, o)
<1> DEFINE b == Tail(box)
           n == Len(box)
<1>1. /\ n \in Nat /\ n > 0 /\ Len(b) = n - 1
      /\ \A k \in 1..(n - 1) : b[k] = box[k + 1]
  OBVIOUS
<1>2. i \in 1..n /\ (i + 1) - 1 = i
  OBVIOUS
<1> SUFFICES OrderBefore(b, after, i, o)
  OBVIOUS
<1> HIDE DEF b, n
<1>3. CASE \E j \in 1..i : /\ box[j].kind # "append" /\ box[j].sort = o
                           /\ \A k \in (j + 1)..i : box[k].kind = "append"
  <2>1. PICK j \in 1..i : /\ box[j].kind # "append" /\ box[j].sort = o
                          /\ \A k \in (j + 1)..i : box[k].kind = "append"
    BY <1>3
  <2>2. CASE j = 1
    <3>1. \A k \in 1..(i - 1) : b[k] = box[k + 1] /\ k + 1 \in (j + 1)..i
      BY <1>1, <1>2, <2>2
    <3>2. after.sort = o /\ \A k \in 1..(i - 1) : b[k].kind = "append"
      BY <2>1, <2>2, <3>1
    <3> QED BY <3>2 DEF OrderBefore
  <2>3. CASE j > 1
    <3>1. /\ j - 1 \in 1..(i - 1) /\ b[j - 1] = box[j]
          /\ \A k \in ((j - 1) + 1)..(i - 1) : b[k] = box[k + 1] /\ k + 1 \in (j + 1)..i
      BY <1>1, <1>2, <2>1, <2>3
    <3>2. /\ b[j - 1].kind # "append" /\ b[j - 1].sort = o
          /\ \A k \in ((j - 1) + 1)..(i - 1) : b[k].kind = "append"
      BY <2>1, <3>1
    <3> QED BY <3>1, <3>2 DEF OrderBefore
  <2> QED BY <1>2, <2>1, <2>2, <2>3
<1>4. CASE wk # None /\ wk.sort = o /\ \A k \in 1..i : box[k].kind = "append"
  <2>1. \A k \in 1..(i - 1) : b[k] = box[k + 1] /\ k + 1 \in 1..i
    BY <1>1, <1>2
  <2>2. 1 \in 1..i
    BY <1>1, <1>2
  <2>3. after.sort = o /\ \A k \in 1..(i - 1) : b[k].kind = "append"
    BY <1>4, <2>1, <2>2
  <2> QED BY <2>3 DEF OrderBefore
<1> QED BY <1>2, <1>3, <1>4 DEF OrderBefore

LEMMA BoxTail ==
  ASSUME NEW box \in Seq(Messages), box # <<>>, NEW wk, NEW after, after # None,
         box[1].kind = "append" => wk # None /\ after.sort = wk.sort,
         box[1].kind # "append" => after.sort = box[1].sort,
         after.generation = box[1].generation, NEW c, BoxFits(box, wk, c)
  PROVE  BoxFits(Tail(box), after, c)
<1> DEFINE b == Tail(box)
           n == Len(box)
<1>1. /\ n \in Nat /\ n > 0 /\ Len(b) = n - 1
      /\ \A k \in 1..(n - 1) : b[k] = box[k + 1]
  OBVIOUS
<1>2. b # <<>> => n > 1
  OBVIOUS
<1>3. ASSUME NEW i \in 1..(n - 1)
      PROVE  /\ MessageFits(b[i], c)
             /\ (b[i].kind = "append" /\ b[i].revision = c.revision) =>
                  OrderBefore(b, after, i, c.sort)
  <2>1. b[i] = box[i + 1] /\ i + 1 \in 1..n /\ i \in 1..n
    BY <1>1
  <2>2. OrderBefore(box, wk, i + 1, c.sort) => OrderBefore(b, after, i, c.sort)
    BY <2>1, OrderTail
  <2> HIDE DEF b
  <2> QED BY <2>1, <2>2 DEF BoxFits
<1> HIDE DEF b
<1>4. ASSUME NEW i \in 2..(n - 1), b[i].kind = "reset"
      PROVE  b[i - 1].generation < b[i].generation
  <2>1. b[i] = box[i + 1] /\ b[i - 1] = box[i] /\ i + 1 \in 2..n /\ (i + 1) - 1 = i
    BY <1>1
  <2> QED BY <1>4, <2>1 DEF BoxFits
<1>5. (b # <<>> /\ b[1].kind = "reset") => after.generation < b[1].generation
  <2>1. b # <<>> => b[1] = box[2] /\ 2 \in 2..n /\ 2 - 1 = 1
    BY <1>1, <1>2
  <2> QED BY <2>1 DEF BoxFits
<1> QED BY <1>1, <1>3, <1>4, <1>5 DEF BoxFits, b

\* A message posted, or the worker gone with all of them.
LEMMA PostFits ==
  ASSUME inbox \in Seq(Messages), outbox \in Seq(Snapshots), NEW m \in Messages, Post(m), NEW e,
         BoxFits(inbox, worker, e), OutFits(outbox, e), MessageFits(m, e),
         ~workerUp => inbox = <<>>,
         (workerUp /\ m.kind = "append" /\ m.revision = e.revision) =>
           OrderBefore(inbox, worker, Len(inbox) + 1, e.sort),
         m.kind = "reset" =>
           /\ inbox # <<>> => inbox[Len(inbox)].generation < m.generation
           /\ worker # None => worker.generation < m.generation
  PROVE  /\ BoxFits(inbox', worker', e) /\ OutFits(outbox', e)
         /\ workerUp' => workerUp /\ outbox' = outbox /\ worker' = worker
         /\ (workerUp' /\ (IF m.kind = "append"
                           THEN OrderBefore(inbox, worker, Len(inbox) + 1, e.sort)
                           ELSE m.sort = e.sort))
              => OrderBefore(inbox', worker', Len(inbox') + 1, e.sort)
<1>1. CASE workerUp /\ inbox' = Append(inbox, m) /\ UNCHANGED <<workerUp, outbox, worker>>
  <2>1. BoxFits(Append(inbox, m), worker, e)
    BY <1>1, BoxAppend
  <2>2. Len(inbox') + 1 = Len(inbox) + 2
    BY <1>1
  <2>3. (IF m.kind = "append" THEN OrderBefore(inbox, worker, Len(inbox) + 1, e.sort)
                              ELSE m.sort = e.sort)
          => OrderBefore(Append(inbox, m), worker, Len(inbox) + 2, e.sort)
    BY OrderAppend
  <2> QED BY <1>1, <2>1, <2>2, <2>3
<1>2. CASE WorkerGone
  <2>1. Len(<< >>) = 0
    OBVIOUS
  <2>2. BoxFits(<< >>, None, e) /\ OutFits(<< >>, e)
    BY <2>1 DEF BoxFits, OutFits
  <2> QED BY <1>2, <2>2 DEF WorkerGone
<1>3. CASE ~workerUp /\ UNCHANGED workerVars
  BY <1>3 DEF workerVars
<1> QED BY <1>1, <1>2, <1>3 DEF Post

-----------------------------------------------------------------------------
(* Refinement of DirectoryView: the table and its load *)

\* The worker has read at least n pages of the load under way.
WorkerHas(n) == worker # None /\ worker.generation = generation /\ n <= worker.acc.pages

\* Once more than a first batch is shown, whatever may still be shown has as much.
GrowInv ==
  /\ \A i \in 1..Len(outbox) : outbox[i].generation = generation =>
       /\ WorkerHas(outbox[i].pages)
       /\ view.count > PageSize => view.pages <= outbox[i].pages
       /\ \A j \in i..Len(outbox) :
            outbox[j].generation = generation => outbox[i].pages <= outbox[j].pages
  /\ (mounted /\ workerUp /\ view.count > PageSize) =>
       /\ WorkerHas(view.pages)
       /\ (pending # None /\ pending.generation = generation /\ pending.revision = sortRevision)
            => view.pages <= pending.pages

\* The phase view v is in, with waiting load w and requests rs, when n pages were
\* appended and the sorter was last told revision told of the order.
StateOk(v, w, rs, n, told, revision) ==
  /\ v.pages <= n /\ (v.pages = 0 => v.count = 0)
  /\ v.phase = "partial-error" =>
       /\ ~v.denied /\ n < Len(directory[generation])
       /\ v.cursor # 0 => told = revision
  /\ (v.phase = "idle" /\ ~v.denied) => directory = <<>>
  /\ \A r \in rs : r.generation = generation =>
       /\ ~v.denied
       /\ r.cursor = 1 => v.phase = "initial-loading"
       /\ r.cursor > 1 => v.phase = "loading-more" /\ told = revision
  /\ (w # None /\ w.generation = generation) => ~v.denied

StateInv ==
  mounted => StateOk(view, awaiting, requests, client.acc.pages, client.revision, sortRevision)

\* What refines DirectoryView, besides IInv.
RInv == SorterInv /\ GrowInv /\ StateInv

\* Only before its first page an accumulator has nothing.
LEMMA NothingHeld ==
  ASSUME NEW ds \in Seq(Directories), NEW g \in 1..Len(ds), NEW a \in Accumulators,
         HoldsPrefix(ds, a, g)
  PROVE  HasNothing(a) <=> a.pages = 0
<1> DEFINE d == ds[g]
<1>1. d \in Directories /\ a.pages \in Nat /\ a.pages <= Len(d) /\ Len(d) \in Nat /\ Len(d) > 0
  BY PageAssumption DEF HoldsPrefix, Accumulators
<1>2. a.loadedCount = EntriesOf(d, a.pages) /\ (a.complete <=> a.pages = Len(d))
  BY DEF HoldsPrefix
<1> HIDE DEF d
<1>3. a.pages \in 0..Len(d)
  BY <1>1
<1>4. a.pages > 0 => /\ EntriesOf(d, a.pages) > 0 \/ EntriesOf(d, Len(d)) = 0
                     /\ EntriesOf(d, a.pages) = EntriesOf(d, Len(d)) <=> a.pages = Len(d)
                     /\ EntriesOf(d, a.pages) \in Nat
  BY <1>1, <1>3, EntriesCompare
<1>5. ASSUME a.pages > 0, HasNothing(a) PROVE FALSE
  <2>1. EntriesOf(d, a.pages) = 0 /\ a.pages # Len(d)
    BY <1>2, <1>5 DEF HasNothing
  <2> QED BY <1>4, <1>5, <2>1
<1>6. ASSUME a.pages = 0 PROVE HasNothing(a)
  BY <1>1, <1>2, <1>6 DEF HasNothing, EntriesOf
<1> QED BY <1>1, <1>5, <1>6

\* A snapshot that may fill a table in state v.
Fills(s, v) ==
  /\ GenuineSnapshot(directory, s) /\ s.generation = generation
  /\ s.revision = sortRevision' /\ SnapshotFits(s, Now')
  /\ v.count > PageSize => v.pages <= s.pages

Filled(v, w, rs) ==
  \/ view' = v /\ awaiting' = w /\ requests' = rs
  \/ \E s \in Snapshots :
       /\ Fills(s, v)
       /\ \/ /\ view' = Shown(v, s) /\ awaiting' = w /\ requests' = rs
             /\ w = None \/ w.generation # generation
          \/ /\ view' = Shown(v, s) /\ awaiting' = None /\ requests' = rs
             /\ w # None /\ w.generation = generation /\ w.cursor = 0
          \/ /\ view' = Continuing(Shown(v, s), w.cursor) /\ awaiting' = None
             /\ requests' = rs \union {PageRequest(generation, w.cursor, 0)}
             /\ w # None /\ w.generation = generation /\ w.cursor # 0

LEMMA PublishFills ==
  ASSUME NEW s \in {None} \union Snapshots, NEW v \in Views, NEW w \in {None} \union Waits,
         NEW rs, generation \in Nat,
         s # None => /\ GenuineSnapshot(directory, s) /\ SnapshotFits(s, Now')
                     /\ (s.generation = generation /\ s.revision = sortRevision'
                           /\ v.count > PageSize) => v.pages <= s.pages,
         Publish(s, sortRevision', v, w, rs)
  PROVE  /\ Filled(v, w, rs)
         /\ \/ view'.pages = v.pages /\ view'.count = v.count
            \/ /\ s # None /\ s.generation = generation /\ s.revision = sortRevision'
               /\ view'.pages = s.pages /\ view'.count = s.loadedCount
<1>1. \/ view' = v /\ awaiting' = w /\ requests' = rs
      \/ /\ s \in Snapshots /\ s # None /\ Fills(s, v)
         /\ \/ /\ view' = Shown(v, s) /\ awaiting' = w /\ requests' = rs
               /\ w = None \/ w.generation # generation
            \/ /\ view' = Shown(v, s) /\ awaiting' = None /\ requests' = rs
               /\ w # None /\ w.generation = generation /\ w.cursor = 0
            \/ /\ view' = Continuing(Shown(v, s), w.cursor) /\ awaiting' = None
               /\ requests' = rs \union {PageRequest(generation, w.cursor, 0)}
               /\ w # None /\ w.generation = generation /\ w.cursor # 0
  BY DEF Publish, Applies, Fills
<1>2. Filled(v, w, rs)
  BY <1>1 DEF Filled
<1>3. CASE view' = v
  BY <1>2, <1>3
<1>4. CASE s \in Snapshots /\ s # None /\ Fills(s, v) /\ view' = Shown(v, s)
  <2>1. Shown(v, s).pages = s.pages /\ Shown(v, s).count = s.loadedCount
    BY <1>4, ShownFields
  <2> QED BY <1>2, <1>4, <2>1 DEF Fills
<1>5. CASE s \in Snapshots /\ s # None /\ Fills(s, v) /\ w # None
             /\ view' = Continuing(Shown(v, s), w.cursor)
  <2>1. Shown(v, s) \in Views /\ w.cursor \in Nat
    BY <1>5, ShownType DEF Waits
  <2>2. Shown(v, s).pages = s.pages /\ Shown(v, s).count = s.loadedCount
    BY <1>5, ShownFields
  <2>3. view'.pages = Shown(v, s).pages /\ view'.count = Shown(v, s).count
    BY <1>5, <2>1, ShownFields
  <2> QED BY <1>2, <1>5, <2>2, <2>3 DEF Fills
<1> QED BY <1>1, <1>3, <1>4, <1>5

\* What a mounted page with view v tells the user.
Seen(v) ==
  IF v.denied THEN "denied"
  ELSE IF v.phase = "initial-loading" THEN "loading"
  ELSE IF v.phase = "loading-more" THEN "filling"
  ELSE IF v.phase = "partial-error" THEN "interrupted"
  ELSE v.phase

LEMMA SeenNow ==
  ASSUME view \in Views, mounted \in BOOLEAN
  PROVE  StateSeen = IF mounted THEN Seen(view) ELSE "closed"
BY DEF StateSeen, Seen, Views, Phases

LEMMA SeenNext ==
  ASSUME view' \in Views, mounted' \in BOOLEAN
  PROVE  StateSeen' = IF mounted' THEN Seen(view') ELSE "closed"
BY DEF StateSeen, Seen, Views, Phases

\* The entries of the directory opened last: what DirectoryView calls total.
Total == IF directory = <<>> THEN 0
         ELSE EntriesOf(directory[Len(directory)], Len(directory[Len(directory)]))

\* View v takes entries of the directory, and becomes view'.
Takes(v) ==
  \E k \in 0..Total :
    /\ k > 0 \/ Total = 0
    /\ k >= v.count \/ v.count <= PageSize
    /\ view'.count = k
    /\ view'.sort = sort'
    /\ Seen(view') = IF Seen(v) \in {"denied", "interrupted"} THEN Seen(v)
                     ELSE IF k = Total THEN "complete" ELSE "filling"

LEMMA SnapshotCounts ==
  ASSUME directory \in Seq(Directories), generation = Len(directory),
         NEW v \in Views, ViewOk(directory, generation, v), v.pages = 0 => v.count = 0,
         NEW s \in Snapshots, GenuineSnapshot(directory, s), s.generation = generation,
         s.pages > 0, v.count > PageSize => v.pages <= s.pages
  PROVE  /\ s.loadedCount \in 0..Total
         /\ s.loadedCount > 0 \/ Total = 0
         /\ s.loadedCount >= v.count \/ v.count <= PageSize
         /\ s.complete <=> s.loadedCount = Total
<1> DEFINE d == directory[generation]
           n == Len(d)
<1>1. /\ generation \in 1..Len(directory) /\ directory # <<>>
      /\ s.pages <= n /\ s.loadedCount = EntriesOf(d, s.pages)
      /\ s.complete <=> s.pages = n
  BY DEF GenuineSnapshot, HoldsPrefix
<1>2. d \in Directories /\ n \in Nat /\ n > 0
  BY <1>1, PageAssumption
<1>3. Total = EntriesOf(d, n)
  BY <1>1 DEF Total
<1>4. v.pages \in Nat /\ v.count \in Nat /\ s.pages \in Nat /\ PageSize \in Nat
  BY PageAssumption DEF Views, Snapshots
<1>5. v.pages > 0 => v.pages <= n /\ v.count = EntriesOf(d, v.pages)
  BY DEF ViewOk
<1>0. n = Len(d)
  OBVIOUS
<1> HIDE DEF d, n
<1>6. s.pages \in 0..n /\ n \in 0..n
  BY <1>1, <1>2, <1>4
<1>7. /\ EntriesOf(d, s.pages) \in Nat /\ EntriesOf(d, n) \in Nat
      /\ EntriesOf(d, s.pages) <= EntriesOf(d, n)
      /\ EntriesOf(d, s.pages) > 0 \/ EntriesOf(d, n) = 0
      /\ EntriesOf(d, s.pages) = EntriesOf(d, n) <=> s.pages = n
  <2>1. /\ EntriesOf(d, s.pages) \in Nat /\ EntriesOf(d, n) \in Nat
        /\ s.pages <= n => EntriesOf(d, s.pages) <= EntriesOf(d, n)
        /\ s.pages > 0 => EntriesOf(d, s.pages) > 0 \/ EntriesOf(d, Len(d)) = 0
        /\ s.pages > 0 => (EntriesOf(d, s.pages) = EntriesOf(d, Len(d)) <=> s.pages = Len(d))
    BY <1>0, <1>2, <1>6, EntriesCompare
  <2> QED BY <1>0, <1>1, <2>1
<1>8. s.loadedCount >= v.count \/ v.count <= PageSize
  <2>1. CASE v.count <= PageSize
    BY <2>1
  <2>2. CASE v.pages = 0
    BY <1>4, <2>2
  <2>3. CASE v.count > PageSize /\ v.pages > 0
    <3>1. v.pages \in 0..n /\ v.pages <= s.pages
      BY <1>4, <1>5, <2>3
    <3>2. EntriesOf(d, v.pages) \in Nat /\ EntriesOf(d, v.pages) <= EntriesOf(d, s.pages)
      BY <1>0, <1>2, <1>6, <3>1, EntriesCompare
    <3> QED BY <1>1, <1>5, <1>7, <2>3, <3>2
  <2> QED BY <1>4, <2>1, <2>2, <2>3
<1> QED BY <1>1, <1>3, <1>7, <1>8

LEMMA ShownSeen ==
  ASSUME NEW v \in Views, NEW s \in Snapshots, NEW k \in Nat
  PROVE  /\ Shown(v, s).sort = s.sort /\ Shown(v, s).denied = v.denied
         /\ Shown(v, s).phase = IF s.complete THEN "complete"
                                ELSE IF v.phase = "partial-error" THEN "partial-error"
                                ELSE "loading-more"
         /\ Continuing(v, k).sort = v.sort /\ Continuing(v, k).denied = v.denied
         /\ Continuing(v, k).phase = "loading-more"
BY DEF Shown, Continuing, Views

\* Whatever is shown, the load stays in a phase that is right, and the table moves
\* as DirectoryView lets it.
LEMMA FilledMoves ==
  ASSUME directory \in Seq(Directories), generation = Len(directory), mounted,
         UNCHANGED <<generation, directory, mounted>>,
         NEW v \in Views, NEW w \in {None} \union Waits, NEW rs \in SUBSET Requests,
         client'.acc.pages \in Nat, client'.revision \in Nat, sortRevision' \in Nat,
         client'.revision <= sortRevision',
         LoadOk(directory, generation, client'.acc.pages, v, w, rs),
         ViewOk(directory, generation, v),
         StateOk(v, w, rs, client'.acc.pages, client'.revision, sortRevision'),
         Filled(v, w, rs)
  PROVE  /\ StateInv'
         /\ \A q \in requests' : q \in rs \/ (q.cursor > 1 /\ q.revision = 0)
         /\ \/ view'.count = v.count /\ view'.sort = v.sort /\ Seen(view') = Seen(v)
            \/ Seen(v) # "idle" /\ Takes(v)
<1> DEFINE n == client'.acc.pages
           L == Len(directory[generation])
<1>1. CASE view' = v /\ awaiting' = w /\ requests' = rs
  <2>1. StateInv'
    BY <1>1 DEF StateInv, StateOk
  <2> QED BY <1>1, <2>1
<1>2. ASSUME NEW s \in Snapshots, Fills(s, v)
      PROVE  /\ s.pages > 0 /\ s.pages <= n /\ s.pages <= L /\ L \in Nat /\ s.pages \in Nat
             /\ s.sort = sort' /\ client'.revision = sortRevision'
             /\ s.complete <=> s.pages = L
             /\ s.complete \in BOOLEAN
             /\ s.loadedCount \in 0..Total
             /\ s.loadedCount > 0 \/ Total = 0
             /\ s.loadedCount >= v.count \/ v.count <= PageSize
             /\ s.complete <=> s.loadedCount = Total
             /\ directory # <<>> /\ Seen(v) # "idle"
  <2>1. /\ GenuineSnapshot(directory, s) /\ s.generation = generation
        /\ s.revision = sortRevision' /\ SnapshotFits(s, Now')
        /\ v.count > PageSize => v.pages <= s.pages
    BY <1>2 DEF Fills
  <2>2. /\ s.pages > 0 /\ s.sort = sort' /\ s.pages <= n /\ s.revision <= client'.revision
    BY <2>1 DEF SnapshotFits, Now
  <2>3. client'.revision = sortRevision'
    BY <2>1, <2>2
  <2>4. generation \in 1..Len(directory) /\ s.pages <= L /\ (s.complete <=> s.pages = L)
    BY <2>1 DEF GenuineSnapshot, HoldsPrefix
  <2>5. L \in Nat
    BY <2>4, PageAssumption
  <2>6. v.pages = 0 => v.count = 0
    BY DEF StateOk
  <2>7. /\ s.loadedCount \in 0..Total
        /\ s.loadedCount > 0 \/ Total = 0
        /\ s.loadedCount >= v.count \/ v.count <= PageSize
        /\ s.complete <=> s.loadedCount = Total
    BY <2>1, <2>2, <2>6, SnapshotCounts
  <2>8. directory # <<>>
    BY <2>4
  <2>9. Seen(v) # "idle"
    BY <2>8 DEF Seen, StateOk
  <2>10. s.pages \in Nat /\ s.complete \in BOOLEAN
    BY DEF Snapshots
  <2> QED BY <2>2, <2>3, <2>4, <2>5, <2>7, <2>8, <2>9, <2>10
<1>3. ASSUME NEW s \in Snapshots, Fills(s, v), view' = Shown(v, s), requests' = rs,
             \/ awaiting' = w /\ (w = None \/ w.generation # generation)
             \/ awaiting' = None /\ w # None /\ w.generation = generation
      PROVE  /\ StateInv'
             /\ Seen(v) # "idle" /\ Takes(v)
  <2> DEFINE u == Shown(v, s)
  <2>1. /\ u.pages = s.pages /\ u.count = s.loadedCount /\ u.cursor \in {0, v.cursor}
        /\ u.sort = s.sort /\ u.denied = v.denied
        /\ u.phase = IF s.complete THEN "complete"
                     ELSE IF v.phase = "partial-error" THEN "partial-error"
                     ELSE "loading-more"
    BY ShownFields, ShownSeen
  <2> HIDE DEF u
  <2>2. \A r \in rs : r.generation = generation =>
           /\ r.cursor > 1 /\ ~s.complete /\ v.phase = "loading-more" /\ ~v.denied
    <3> SUFFICES ASSUME NEW r \in rs, r.generation = generation
                 PROVE  r.cursor > 1 /\ ~s.complete /\ v.phase = "loading-more" /\ ~v.denied
      OBVIOUS
    <3>1. n = r.cursor - 1 /\ r.cursor <= L /\ r.cursor \in Nat
      BY DEF LoadOk, Requests
    <3>2. r.cursor > 1 /\ ~s.complete
      BY <1>2, <1>3, <3>1
    <3> QED BY <3>2 DEF StateOk
  <2>3. v.phase = "partial-error" => ~s.complete /\ ~v.denied
    BY <1>2, <1>3 DEF StateOk
  <2>4. StateOk(u, awaiting', rs, n, client'.revision, sortRevision')
    <3>1. u.pages <= n /\ (u.pages = 0 => u.count = 0)
      BY <1>2, <1>3, <2>1
    <3>2. u.phase = "partial-error" =>
            /\ ~u.denied /\ n < L
            /\ u.cursor # 0 => client'.revision = sortRevision'
      BY <1>2, <1>3, <2>1 DEF StateOk
    <3>3. u.phase # "idle"
      BY <2>1
    <3>4. \A r \in rs : r.generation = generation =>
            ~u.denied /\ r.cursor # 1 /\ u.phase = "loading-more"
      BY <2>1, <2>2 DEF Requests
    <3>5. awaiting' # None => awaiting'.generation # generation
      BY <1>3
    <3> QED BY <1>2, <1>3, <3>1, <3>2, <3>3, <3>4, <3>5 DEF StateOk
  <2>5. StateInv'
    BY <1>3, <2>4 DEF StateInv, StateOk, u
  <2>6. Seen(u) = IF Seen(v) \in {"denied", "interrupted"} THEN Seen(v)
                  ELSE IF s.complete THEN "complete" ELSE "filling"
    BY <1>2, <1>3, <2>1, <2>3 DEF Seen, Views, Phases
  <2>7. Takes(v)
    <3>1. view' = u
      BY <1>3 DEF u
    <3> QED BY <1>2, <1>3, <2>1, <2>6, <3>1 DEF Takes
  <2> QED BY <1>2, <1>3, <2>5, <2>7
<1>4. ASSUME NEW s \in Snapshots, Fills(s, v),
             view' = Continuing(Shown(v, s), w.cursor), awaiting' = None,
             requests' = rs \union {PageRequest(generation, w.cursor, 0)},
             w # None, w.generation = generation, w.cursor # 0
      PROVE  /\ StateInv'
             /\ \A q \in requests' : q \in rs \/ (q.cursor > 1 /\ q.revision = 0)
             /\ Seen(v) # "idle" /\ Takes(v)
  <2> DEFINE u == Continuing(Shown(v, s), w.cursor)
             q == PageRequest(generation, w.cursor, 0)
  <2>1. w.cursor \in Nat /\ Shown(v, s) \in Views
    BY <1>4, ShownType DEF Waits
  <2>2. /\ u.pages = s.pages /\ u.count = s.loadedCount
        /\ u.sort = s.sort /\ u.denied = v.denied /\ u.phase = "loading-more"
    <3>1. /\ Shown(v, s).pages = s.pages /\ Shown(v, s).count = s.loadedCount
          /\ Shown(v, s).sort = s.sort /\ Shown(v, s).denied = v.denied
      BY ShownFields, ShownSeen
    <3> QED BY <2>1, <3>1, ShownFields, ShownSeen
  <2>3. q.generation = generation /\ q.cursor = w.cursor /\ q.revision = 0
    BY DEF PageRequest
  <2> HIDE DEF u, q
  <2>4. /\ w.cursor > 1 /\ n = w.cursor - 1 /\ w.cursor <= L /\ v.phase # "partial-error"
        /\ ~v.denied /\ \A r \in rs : r.generation # generation
    BY <1>4 DEF LoadOk, StateOk
  <2>5. ~s.complete
    BY <1>2, <1>4, <2>1, <2>4
  <2>6. StateOk(u, None, rs \union {q}, n, client'.revision, sortRevision')
    <3>1. u.pages <= n /\ (u.pages = 0 => u.count = 0)
      BY <1>2, <1>4, <2>2
    <3>2. \A r \in rs \union {q} : r.generation = generation => r.cursor > 1
      BY <2>3, <2>4
    <3>3. \A r \in rs \union {q} : r.generation = generation =>
            /\ ~u.denied
            /\ r.cursor = 1 => u.phase = "initial-loading"
            /\ r.cursor > 1 => u.phase = "loading-more" /\ client'.revision = sortRevision'
      BY <1>2, <1>4, <2>2, <2>4, <3>2
    <3> QED BY <2>2, <3>1, <3>3 DEF StateOk
  <2>7. StateInv'
    BY <1>4, <2>6 DEF StateInv, StateOk, u, q
  <2>8. Seen(u) = "filling" /\ Seen(v) \notin {"denied", "interrupted"}
    BY <2>2, <2>4 DEF Seen, Views, Phases
  <2>9. Takes(v)
    <3>1. view' = u
      BY <1>4 DEF u
    <3> QED BY <1>2, <1>4, <2>2, <2>5, <2>8, <3>1 DEF Takes
  <2>10. \A x \in requests' : x \in rs \/ (x.cursor > 1 /\ x.revision = 0)
    BY <1>4, <2>3, <2>4 DEF q
  <2> QED BY <1>2, <1>4, <2>7, <2>9, <2>10
<1> QED BY <1>1, <1>3, <1>4 DEF Filled

\* A step that leaves the worker alone, or is the end of it.
LEMMA GrowKeeps ==
  ASSUME GrowInv, WorkerInv', view \in Views, view' \in Views, PageSize \in Nat,
         UNCHANGED <<generation, mounted>>,
         workerUp' => /\ workerUp /\ outbox' = outbox /\ worker' = worker
                      /\ \/ view'.pages = view.pages /\ view'.count = view.count
                         \/ view'.count <= PageSize
                      /\ (pending' # None /\ pending'.generation = generation
                            /\ pending'.revision = sortRevision') =>
                           \/ pending' = pending /\ sortRevision' = sortRevision
                           \/ view.pages <= pending'.pages
  PROVE  GrowInv'
<1>1. CASE ~workerUp'
  <2>1. outbox' = <<>>
    BY <1>1 DEF WorkerInv
  <2> QED BY <1>1, <2>1 DEF GrowInv
<1>2. CASE workerUp' /\ view'.pages = view.pages /\ view'.count = view.count
  BY <1>2 DEF GrowInv, WorkerHas
<1>3. CASE workerUp' /\ view'.count <= PageSize
  <2>1. ~(view'.count > PageSize)
    BY <1>3 DEF Views
  <2> QED BY <1>3, <2>1 DEF GrowInv, WorkerHas
<1> QED BY <1>1, <1>2, <1>3

\* The end of append and of resort.
LEMMA ArmFills ==
  ASSUME GrowInv, TypeOK, WorkerInv', view' \in Views,
         UNCHANGED <<generation, directory, mounted>>,
         NEW s \in {None} \union Snapshots, NEW atOnce \in BOOLEAN,
         NEW v \in Views, NEW w \in {None} \union Waits, NEW rs \in SUBSET Requests,
         v.pages = view.pages, v.count = view.count,
         s # None => /\ GenuineSnapshot(directory, s) /\ SnapshotFits(s, Now')
                     /\ v.pages <= s.pages
                     /\ atOnce => s.loadedCount <= PageSize,
         s = None => sortRevision' = sortRevision,
         pending # None => SnapshotFits(pending, Now'),
         workerUp' => workerUp /\ outbox' = outbox /\ worker' = worker,
         PublishOrArm(s, atOnce, sortRevision', v, w, rs)
  PROVE  Filled(v, w, rs) /\ GrowInv' /\ (pending' # None => SnapshotFits(pending', Now'))
<1> DEFINE t == IF ~workerUp' \/ atOnce THEN s ELSE None
<1>1. /\ Publish(t, sortRevision', v, w, rs) /\ t \in {None, s}
      /\ pending' = IF workerUp' /\ s # None THEN s ELSE pending
      /\ (workerUp' /\ t # None) => atOnce
  BY DEF PublishOrArm
<1>2. generation \in Nat /\ view \in Views /\ PageSize \in Nat
  BY PageAssumption DEF TypeOK
<1> HIDE DEF t
<1>3. /\ Filled(v, w, rs)
      /\ \/ view'.pages = v.pages /\ view'.count = v.count
         \/ t # None /\ view'.pages = t.pages /\ view'.count = t.loadedCount
  BY <1>1, <1>2, PublishFills
<1>4. workerUp' => \/ view'.pages = view.pages /\ view'.count = view.count
                   \/ view'.count <= PageSize
  BY <1>1, <1>3
<1>5. GrowInv'
  BY <1>1, <1>2, <1>4, GrowKeeps
<1> QED BY <1>1, <1>3, <1>5

LEMMA ContextTypes ==
  ASSUME TypeOK, TypeOK'
  PROVE  Now \in Contexts /\ Now' \in Contexts
BY DEF TypeOK, Now, Contexts, Accumulators

\* The table keeps what it shows, or takes more.
Moves(v) ==
  \/ view'.count = v.count /\ view'.sort = v.sort /\ Seen(view') = Seen(v)
  \/ Seen(v) # "idle" /\ Takes(v)

LEMMA AppendRefines ==
  ASSUME IInv, IInv', RInv, mounted,
         NEW g \in 1..Len(directory), g = generation, NEW k \in 1..Len(directory[g]),
         client.acc.pages = k - 1, NEW c \in BOOLEAN, c <=> (k = Len(directory[g])),
         NEW revision \in Nat, NEW v \in Views, NEW w \in {None} \union Waits,
         NEW rs \in SUBSET Requests,
         UNCHANGED <<generation, directory, mounted, sortRevision, sort>>,
         revision <= sortRevision, revision = sortRevision => InStep,
         k > 1 => client.revision <= revision,
         v.pages = view.pages, v.count = view.count,
         LoadOk(directory, generation, k, v, w, rs), ViewOk(directory, generation, v),
         StateOk(v, w, rs, k, revision, sortRevision),
         \A q \in rs : q.revision <= sortRevision /\ (q.generation = generation => q.cursor # 1),
         AppendToSorter(g, revision, PageLength(directory[g], k), c, v, w, rs)
  PROVE  RInv' /\ Moves(v)
<1> DEFINE size == PageLength(directory[g], k)
           acc == AppendPage(client.acc, size, c)
           s == IF Publishes(client.acc, acc.loadedCount, c)
                THEN SnapshotOf(acc, g, revision, client.sort) ELSE None
           m == [kind |-> "append", generation |-> g, revision |-> revision,
                 size |-> size, complete |-> c, pages |-> acc.pages]
<1>1. /\ TypeOK /\ TypeOK' /\ WorkerInv /\ WorkerInv' /\ ClientInv
      /\ SorterInv /\ GrowInv /\ StateInv
  BY DEF IInv, RInv
<1>2. /\ client \in Clients /\ client.generation = generation
      /\ client.acc \in Accumulators /\ client.sort = sort /\ sort \in Sorts
      /\ HoldsPrefix(directory, client.acc, generation)
      /\ directory \in Seq(Directories) /\ Len(directory) = generation
      /\ generation \in Nat /\ sortRevision \in Nat
      /\ inbox \in Seq(Messages) /\ outbox \in Seq(Snapshots) /\ view' \in Views
      /\ pending \in {None} \union Snapshots
  BY <1>1 DEF TypeOK, ClientInv, Clients, SorterInv
<1>3. acc \in Accumulators /\ acc.pages = k /\ HoldsPrefix(directory, acc, g)
  BY <1>2, AppendHoldsPrefix
<1>4. size \in Nat
  BY <1>2, PageLengthType
<1>5. /\ client' = [client EXCEPT !.revision = revision, !.acc = acc]
      /\ Post(m)
      /\ PublishOrArm(s, acc.loadedCount <= PageSize, sortRevision, v, w, rs)
  BY <1>2 DEF AppendToSorter
<1> HIDE DEF acc, size
<1>6. client'.acc = acc /\ client'.revision = revision /\ client'.sort = sort
  BY <1>2, <1>5 DEF Clients
<1>7. /\ Now \in Contexts /\ Now' \in Contexts
      /\ Now'.generation = generation /\ Now'.pages = k /\ Now'.told = revision
      /\ Now'.revision = sortRevision /\ Now'.sort = sort
      /\ Now.generation = generation /\ Now.pages = k - 1 /\ Now.told = client.revision
      /\ Now.revision = sortRevision /\ Now.sort = sort
  <2>1. Now \in Contexts /\ Now' \in Contexts
    BY <1>1, ContextTypes
  <2> QED BY <2>1, <1>3, <1>6 DEF Now
<1>8. Later(Now, Now')
  <2>1. k - 1 = 0 \/ client.revision <= revision
    OBVIOUS
  <2> QED BY <1>2, <1>7, <2>1 DEF Later
<1>9. /\ m \in Messages /\ m.kind = "append" /\ m.generation = g /\ m.pages = k
      /\ m.revision = revision
  <2>1. g \in Nat /\ acc.pages \in Nat
    BY <1>3
  <2> QED BY <1>3, <1>4, <2>1 DEF Messages
<1>10. s # None =>
         /\ s \in Snapshots /\ s.generation = g /\ s.pages = k /\ s.revision = revision
         /\ s.sort = sort /\ s.loadedCount = acc.loadedCount /\ s.complete = acc.complete
  <2> DEFINE t == SnapshotOf(acc, g, revision, client.sort)
  <2>1. /\ t \in Snapshots /\ t.generation = g /\ t.pages = acc.pages
        /\ t.loadedCount = acc.loadedCount /\ t.complete = acc.complete
    BY <1>2, <1>3, SnapshotType
  <2>2. t.revision = revision /\ t.sort = client.sort
    BY DEF SnapshotOf
  <2> HIDE DEF t
  <2> QED BY <1>2, <1>3, <2>1, <2>2 DEF t
<1> HIDE DEF s, m
<1>11. s # None => GenuineSnapshot(directory, s) /\ SnapshotFits(s, Now') /\ v.pages <= s.pages
  <2>1. s # None => GenuineSnapshot(directory, s)
    BY <1>3, <1>10 DEF GenuineSnapshot, HoldsPrefix
  <2>2. s # None => SnapshotFits(s, Now')
    BY <1>7, <1>10 DEF SnapshotFits
  <2>3. v.pages <= k
    BY DEF StateOk
  <2> QED BY <1>10, <2>1, <2>2, <2>3
<1>12. /\ BoxFits(inbox, worker, Now') /\ OutFits(outbox, Now')
       /\ pending # None => SnapshotFits(pending, Now')
  <2>1. /\ BoxFits(inbox, worker, Now) /\ OutFits(outbox, Now)
        /\ pending # None => SnapshotFits(pending, Now)
    BY <1>1 DEF SorterInv
  <2>2. Now'.generation = Now.generation
    BY <1>7
  <2> HIDE DEF Now
  <2>3. BoxFits(inbox, worker, Now')
    BY <1>2, <1>7, <1>8, <2>1, <2>2, BoxFitsLater
  <2>4. OutFits(outbox, Now')
    BY <1>2, <1>7, <1>8, <2>1, <2>2, OutFitsLater
  <2>5. pending # None => SnapshotFits(pending, Now')
    BY <1>2, <1>7, <1>8, <2>1, <2>2, SnapshotFitsLater
  <2> QED BY <2>3, <2>4, <2>5
<1>13. MessageFits(m, Now')
  BY <1>7, <1>9 DEF MessageFits
<1>14. (workerUp /\ revision = sortRevision) => OrderBefore(inbox, worker, Len(inbox) + 1, sort)
  BY <1>1 DEF SorterInv
<1>15. /\ BoxFits(inbox', worker', Now') /\ OutFits(outbox', Now')
       /\ workerUp' => workerUp /\ outbox' = outbox /\ worker' = worker
       /\ (workerUp' /\ OrderBefore(inbox, worker, Len(inbox) + 1, sort))
            => OrderBefore(inbox', worker', Len(inbox') + 1, sort)
  <2>1. ~workerUp => inbox = <<>>
    BY <1>1 DEF WorkerInv
  <2>2. (workerUp /\ m.kind = "append" /\ m.revision = Now'.revision) =>
           OrderBefore(inbox, worker, Len(inbox) + 1, Now'.sort)
    BY <1>7, <1>9, <1>14
  <2>3. m.kind # "reset"
    BY <1>9
  <2> HIDE DEF Now
  <2>4. /\ BoxFits(inbox', worker', Now') /\ OutFits(outbox', Now')
        /\ workerUp' => workerUp /\ outbox' = outbox /\ worker' = worker
        /\ (workerUp' /\ (IF m.kind = "append"
                          THEN OrderBefore(inbox, worker, Len(inbox) + 1, Now'.sort)
                          ELSE m.sort = Now'.sort))
             => OrderBefore(inbox', worker', Len(inbox') + 1, Now'.sort)
    BY <1>2, <1>5, <1>9, <1>12, <1>13, <2>1, <2>2, <2>3, PostFits
  <2> QED BY <1>7, <1>9, <2>4
<1>16. Filled(v, w, rs) /\ GrowInv' /\ (pending' # None => SnapshotFits(pending', Now'))
  <2>1. s \in {None} \union Snapshots /\ (acc.loadedCount <= PageSize) \in BOOLEAN
    BY <1>10
  <2>2. (s # None /\ acc.loadedCount <= PageSize) => s.loadedCount <= PageSize
    BY <1>10
  <2>3. PublishOrArm(s, acc.loadedCount <= PageSize, sortRevision', v, w, rs)
    BY <1>5
  <2> QED BY <1>1, <1>2, <1>11, <1>12, <1>15, <2>1, <2>2, <2>3, ArmFills
<1>17. /\ StateInv'
       /\ \A q \in requests' : q \in rs \/ (q.cursor > 1 /\ q.revision = 0)
       /\ Moves(v)
  <2>1. /\ client'.acc.pages = k /\ client'.revision = revision /\ sortRevision' = sortRevision
    BY <1>3, <1>6
  <2>2. /\ LoadOk(directory, generation, client'.acc.pages, v, w, rs)
        /\ StateOk(v, w, rs, client'.acc.pages, client'.revision, sortRevision')
    BY <2>1
  <2>3. /\ client'.acc.pages \in Nat /\ client'.revision \in Nat /\ sortRevision' \in Nat
        /\ client'.revision <= sortRevision' /\ generation = Len(directory)
        /\ UNCHANGED <<generation, directory, mounted>>
    BY <1>2, <2>1
  <2>4. Filled(v, w, rs)
    BY <1>16
  <2> QED BY <1>2, <2>2, <2>3, <2>4, FilledMoves DEF Moves
<1>18. SorterInv'
  <2>1. \A q \in requests' : q.revision <= sortRevision /\ (q.generation = generation => q.cursor # 1)
    <3> SUFFICES ASSUME NEW q \in requests'
                 PROVE  q.revision <= sortRevision /\ (q.generation = generation => q.cursor # 1)
      OBVIOUS
    <3>1. q.cursor \in Nat
      BY <1>1 DEF TypeOK
    <3> QED BY <1>2, <1>17, <3>1
  <2>2. (workerUp' /\ InStep') => OrderBefore(inbox', worker', Len(inbox') + 1, sort)
    BY <1>6, <1>14, <1>15, <2>1 DEF InStep
  <2> QED BY <1>6, <1>15, <1>16, <2>1, <2>2 DEF SorterInv
<1> QED BY <1>16, <1>17, <1>18 DEF RInv

\* A step in which the table at most takes more is a Fill of DirectoryView.
LEMMA FillStep ==
  ASSUME mounted, mounted' = mounted, view \in Views, view' \in Views,
         UNCHANGED <<directory, sort>>,
         NEW v \in Views, v.count = view.count, v.sort = view.sort, Seen(v) = Seen(view),
         Moves(v)
  PROVE  [Promise!Next]_(Promise!vars)
<1>1. StateSeen = Seen(v) /\ StateSeen' = Seen(view')
  BY SeenNow, SeenNext
<1>2. CASE view'.count = v.count /\ view'.sort = v.sort /\ Seen(view') = Seen(v)
  BY <1>1, <1>2 DEF Promise!vars
<1>3. CASE Seen(v) # "idle" /\ Takes(v)
  <2>1. Seen(v) # "closed"
    BY DEF Seen, Views, Phases
  <2>2. Promise!FillFrom(StateSeen)
    BY <1>1, <1>3 DEF Takes, Promise!FillFrom, Total
  <2>3. Promise!Fill
    BY <1>1, <1>3, <2>1, <2>2 DEF Promise!Fill
  <2> QED BY <2>3 DEF Promise!Next
<1> QED BY <1>2, <1>3 DEF Moves

LEMMA FirstPageRefines ==
  ASSUME IInv, IInv', RInv, NEW r \in requests, FirstPage(r)
  PROVE  RInv' /\ [Promise!Next]_(Promise!vars)
<1> DEFINE g == r.generation
           v == [view EXCEPT !.cursor = NextCursor(r)]
           w == [generation |-> g, cursor |-> NextCursor(r)]
           rs == requests \ {r}
           L == Len(directory[g])
<1>1. /\ mounted /\ g = generation /\ generation \in 1..Len(directory)
      /\ r \in Requests /\ r.cursor \in 1..Len(directory[generation]) /\ r.cursor = 1
      /\ L \in Nat
      /\ client.acc.pages = 1 - 1
      /\ \A q \in requests \ {r} : q.generation # generation
      /\ view.phase # "partial-error"
  BY CurrentRequest DEF FirstPage
<1>2. /\ TypeOK /\ LoadInv /\ ViewInv /\ SorterInv /\ StateInv
      /\ view \in Views /\ view' \in Views /\ requests \in SUBSET Requests
      /\ r.revision \in Nat
      /\ UNCHANGED <<generation, directory, mounted, sortRevision, sort>>
  BY <1>1 DEF IInv, RInv, TypeOK, Requests, FirstPage
<1>3. /\ HasMore(r) <=> 1 # L
      /\ NextCursor(r) \in {0, 2}
      /\ NextCursor(r) = 2 => 2 <= L
      /\ 1 \in 1..L
  <2>1. /\ HasMore(r) <=> 1 < L
        /\ HasMore(r) => NextCursor(r) = 2
        /\ ~HasMore(r) => NextCursor(r) = 0
    BY <1>1 DEF HasMore, NextCursor
  <2>2. 1 <= L
    BY <1>1
  <2> HIDE DEF L
  <2> QED BY <1>1, <2>1, <2>2
<1>4. /\ v \in Views /\ w \in Waits /\ rs \in SUBSET Requests
      /\ v.phase = view.phase /\ v.pages = view.pages /\ v.count = view.count
      /\ v.from = view.from /\ v.denied = view.denied /\ v.sort = view.sort
  <2>1. NextCursor(r) \in Nat /\ g \in Nat
    BY <1>1, <1>3 DEF Requests
  <2>2. w \in Waits
    BY <2>1 DEF Waits
  <2> QED BY <1>2, <2>1, <2>2 DEF Views
<1>5. w.generation = g /\ w.cursor = NextCursor(r)
  OBVIOUS
<1>6. AppendToSorter(g, r.revision, PageLength(directory[g], 1), ~HasMore(r), v, w, rs)
  BY <1>1 DEF FirstPage
<1> HIDE DEF v, w, rs, L
<1>7. LoadOk(directory, generation, 1, v, w, rs)
  BY <1>1, <1>3, <1>4, <1>5 DEF LoadOk, rs, L
<1>8. ViewOk(directory, generation, v)
  BY <1>1, <1>2, <1>4 DEF ViewInv, ViewOk
<1>9. StateOk(v, w, rs, 1, r.revision, sortRevision)
  <2>1. /\ ~view.denied /\ view.phase = "initial-loading" /\ view.pages <= 0
        /\ view.pages = 0 => view.count = 0
    BY <1>1, <1>2 DEF StateInv, StateOk
  <2>2. view.pages <= 1
    BY <1>2, <2>1 DEF Views
  <2>3. \A q \in rs : q.generation # generation
    BY <1>1 DEF rs
  <2> QED BY <1>4, <2>1, <2>2, <2>3 DEF StateOk
<1>10. /\ r.revision <= sortRevision /\ (r.revision = sortRevision => InStep)
       /\ \A q \in rs : q.revision <= sortRevision /\ (q.generation = generation => q.cursor # 1)
  BY <1>1, <1>2 DEF SorterInv, InStep, rs
<1>11. RInv' /\ Moves(v)
  <2>1. (~HasMore(r)) \in BOOLEAN /\ (~HasMore(r) <=> 1 = Len(directory[g]))
    BY <1>3 DEF HasMore, L
  <2>2. 1 \in 1..Len(directory[g]) /\ ~(1 > 1)
    BY <1>3 DEF L
  <2>3. w \in {None} \union Waits
    BY <1>4
  <2> QED BY <1>1, <1>2, <1>4, <1>6, <1>7, <1>8, <1>9, <1>10, <2>1, <2>2, <2>3, AppendRefines
<1>12. Seen(v) = Seen(view)
  BY <1>4 DEF Seen
<1> QED BY <1>1, <1>2, <1>4, <1>11, <1>12, FillStep

LEMMA LaterPageRefines ==
  ASSUME IInv, IInv', RInv, NEW r \in requests, LaterPage(r)
  PROVE  RInv' /\ [Promise!Next]_(Promise!vars)
<1> DEFINE g == r.generation
           v == [view EXCEPT !.cursor = NextCursor(r)]
           q == PageRequest(g, r.cursor + 1, 0)
           rs == (requests \ {r}) \union (IF HasMore(r) THEN {q} ELSE {})
           L == Len(directory[g])
<1>1. /\ mounted /\ g = generation /\ generation \in 1..Len(directory)
      /\ r \in Requests /\ r.cursor \in 1..Len(directory[generation]) /\ r.cursor > 1
      /\ L \in Nat
      /\ client.acc.pages = r.cursor - 1
      /\ \A x \in requests \ {r} : x.generation # generation
      /\ view.phase # "partial-error"
      /\ awaiting = None \/ awaiting.generation # generation
  BY CurrentRequest DEF LaterPage
<1>2. /\ TypeOK /\ LoadInv /\ ViewInv /\ SorterInv /\ StateInv
      /\ view \in Views /\ view' \in Views /\ requests \in SUBSET Requests
      /\ awaiting \in {None} \union Waits
      /\ sortRevision \in Nat
      /\ UNCHANGED <<generation, directory, mounted, sortRevision, sort>>
  BY <1>1 DEF IInv, RInv, TypeOK, Requests, LaterPage, Waits
<1>3. /\ HasMore(r) <=> r.cursor # L
      /\ HasMore(r) => r.cursor + 1 <= L
      /\ NextCursor(r) \in Nat /\ r.cursor + 1 \in Nat \ {0, 1}
  BY <1>1 DEF HasMore, NextCursor
<1>4. q \in Requests /\ q.generation = g /\ q.cursor = r.cursor + 1 /\ q.revision = 0
  BY <1>1, <1>2, <1>3 DEF PageRequest, Requests
<1>5. /\ v \in Views /\ rs \in SUBSET Requests
      /\ v.phase = view.phase /\ v.pages = view.pages /\ v.count = view.count
      /\ v.from = view.from /\ v.denied = view.denied /\ v.sort = view.sort
  BY <1>2, <1>3, <1>4 DEF Views
<1>6. AppendToSorter(g, sortRevision, PageLength(directory[g], r.cursor), ~HasMore(r),
                     v, awaiting, rs)
  BY DEF LaterPage
<1> HIDE DEF v, rs, q, L
<1>7. \A x \in rs : x.generation = generation => x = q /\ HasMore(r)
  BY <1>1 DEF rs
<1>8. LoadOk(directory, generation, r.cursor, v, awaiting, rs)
  <2>1. r.cursor = q.cursor - 1 /\ q.cursor # 1
    BY <1>1, <1>3, <1>4
  <2>2. HasMore(r) => q.cursor <= Len(directory[generation])
    BY <1>1, <1>3, <1>4 DEF L
  <2> QED BY <1>1, <1>5, <1>7, <2>1, <2>2 DEF LoadOk
<1>9. ViewOk(directory, generation, v)
  BY <1>1, <1>2, <1>5 DEF ViewInv, ViewOk
<1>10. /\ ~view.denied /\ view.phase = "loading-more" /\ view.pages <= r.cursor - 1
       /\ view.pages = 0 => view.count = 0
       /\ client.revision = sortRevision
  BY <1>1, <1>2 DEF StateInv, StateOk
<1>11. StateOk(v, awaiting, rs, r.cursor, sortRevision, sortRevision)
  <2>1. view.pages <= r.cursor
    BY <1>1, <1>2, <1>10 DEF Views
  <2>2. q.cursor # 1
    BY <1>3, <1>4
  <2> QED BY <1>1, <1>5, <1>7, <1>10, <2>1, <2>2 DEF StateOk
<1>12. InStep
  <2>1. client.acc.pages > 0
    BY <1>1
  <2> QED BY <1>10, <2>1 DEF InStep
<1>13. \A x \in rs : x.revision <= sortRevision /\ (x.generation = generation => x.cursor # 1)
  <2>1. \A x \in rs : x \in requests \/ x = q
    BY DEF rs
  <2>2. \A x \in requests : x.revision <= sortRevision
    BY <1>2 DEF SorterInv
  <2>3. q.revision <= sortRevision /\ q.cursor # 1
    BY <1>2, <1>3, <1>4
  <2> QED BY <1>7, <2>1, <2>2, <2>3
<1>14. RInv' /\ Moves(v)
  <2>1. (~HasMore(r)) \in BOOLEAN /\ (~HasMore(r) <=> r.cursor = Len(directory[g]))
    BY <1>3 DEF HasMore, L
  <2>2. sortRevision <= sortRevision /\ client.revision <= sortRevision
    BY <1>2, <1>10
  <2> QED BY <1>1, <1>2, <1>5, <1>6, <1>8, <1>9, <1>11, <1>12, <1>13, <2>1, <2>2, AppendRefines
<1>15. Seen(v) = Seen(view)
  BY <1>5 DEF Seen
<1> QED BY <1>1, <1>2, <1>5, <1>14, <1>15, FillStep

LEMMA ResortRefines ==
  ASSUME IInv, IInv', RInv, mounted, UNCHANGED <<generation, directory, mounted>>,
         sortRevision <= sortRevision', sortRevision' = sortRevision => sort' = sort,
         NEW v \in Views, NEW w \in {None} \union Waits, NEW rs \in SUBSET Requests,
         v.pages = view.pages, v.count = view.count,
         LoadOk(directory, generation, client.acc.pages, v, w, rs),
         ViewOk(directory, generation, v),
         StateOk(v, w, rs, client.acc.pages, sortRevision', sortRevision'),
         \A q \in rs : /\ q.revision <= sortRevision'
                       /\ (q.generation = generation /\ q.cursor = 1) => q.revision # sortRevision',
         ResortSorter(generation, sortRevision', sort', v, w, rs)
  PROVE  RInv' /\ Moves(v)
<1> DEFINE g == generation
           s == SnapshotOf(client.acc, g, sortRevision', sort')
           m == [kind |-> "resort", generation |-> g, revision |-> sortRevision',
                 sort |-> sort', pages |-> client.acc.pages]
           n == client.acc.pages
<1>1. /\ TypeOK /\ TypeOK' /\ WorkerInv /\ WorkerInv' /\ ClientInv
      /\ SorterInv /\ GrowInv /\ StateInv
  BY DEF IInv, RInv
<1>2. /\ client \in Clients /\ client.generation = generation
      /\ client.acc \in Accumulators /\ sort' \in Sorts /\ client.revision \in Nat
      /\ HoldsPrefix(directory, client.acc, generation)
      /\ directory \in Seq(Directories) /\ Len(directory) = generation
      /\ generation \in Nat /\ sortRevision \in Nat /\ sortRevision' \in Nat
      /\ inbox \in Seq(Messages) /\ outbox \in Seq(Snapshots)
      /\ view \in Views /\ view' \in Views
      /\ pending \in {None} \union Snapshots /\ PageSize \in Nat
      /\ client.revision <= sortRevision /\ n \in Nat
  BY <1>1, PageAssumption DEF TypeOK, ClientInv, Clients, SorterInv, Accumulators
<1>3. HasNothing(client.acc) <=> n = 0
  <2>1. CASE generation = 0
    BY <1>2, <2>1 DEF HoldsPrefix, HasNothing
  <2>2. CASE generation \in 1..Len(directory)
    BY <1>2, <2>2, NothingHeld
  <2> QED BY <1>2, <2>1, <2>2
<1>4. client' = [client EXCEPT !.revision = sortRevision', !.sort = sort']
  BY DEF ResortSorter
<1>5. client'.acc = client.acc /\ client'.revision = sortRevision' /\ client'.sort = sort'
  BY <1>2, <1>4 DEF Clients
<1>6. /\ Now \in Contexts /\ Now' \in Contexts
      /\ Now'.generation = generation /\ Now'.pages = n /\ Now'.told = sortRevision'
      /\ Now'.revision = sortRevision' /\ Now'.sort = sort'
      /\ Now.generation = generation /\ Now.pages = n /\ Now.told = client.revision
      /\ Now.revision = sortRevision /\ Now.sort = sort
  <2>1. Now \in Contexts /\ Now' \in Contexts
    BY <1>1, ContextTypes
  <2> QED BY <2>1, <1>5 DEF Now
<1>7. Later(Now, Now')
  <2>1. client.revision <= sortRevision' /\ n <= n
    BY <1>2
  <2> QED BY <1>6, <2>1 DEF Later
<1>8. /\ BoxFits(inbox, worker, Now') /\ OutFits(outbox, Now')
      /\ pending # None => SnapshotFits(pending, Now')
  <2>1. /\ BoxFits(inbox, worker, Now) /\ OutFits(outbox, Now)
        /\ pending # None => SnapshotFits(pending, Now)
    BY <1>1 DEF SorterInv
  <2>2. Now'.generation = Now.generation
    BY <1>6
  <2> HIDE DEF Now
  <2>3. BoxFits(inbox, worker, Now')
    BY <1>2, <1>6, <1>7, <2>1, <2>2, BoxFitsLater
  <2>4. OutFits(outbox, Now')
    BY <1>2, <1>6, <1>7, <2>1, <2>2, OutFitsLater
  <2>5. pending # None => SnapshotFits(pending, Now')
    BY <1>2, <1>6, <1>7, <2>1, <2>2, SnapshotFitsLater
  <2> QED BY <2>3, <2>4, <2>5
<1>9. (pending # None /\ pending.revision = sortRevision') => sortRevision' = sortRevision
  <2>1. pending # None => pending.revision <= sortRevision /\ pending.revision \in Nat
    BY <1>1, <1>2, <1>6 DEF SorterInv, SnapshotFits, Snapshots
  <2> QED BY <1>2, <2>1
<1>10. ASSUME Filled(v, w, rs)
       PROVE  /\ StateInv' /\ Moves(v)
              /\ \A q \in requests' :
                   /\ q.revision <= sortRevision'
                   /\ (q.generation = generation /\ q.cursor = 1) => q.revision # sortRevision'
  <2>1. /\ LoadOk(directory, generation, client'.acc.pages, v, w, rs)
        /\ StateOk(v, w, rs, client'.acc.pages, client'.revision, sortRevision')
    BY <1>5
  <2>2. /\ client'.acc.pages \in Nat /\ client'.revision \in Nat /\ sortRevision' \in Nat
        /\ client'.revision <= sortRevision' /\ generation = Len(directory)
        /\ UNCHANGED <<generation, directory, mounted>>
    BY <1>2, <1>5
  <2>3. /\ StateInv' /\ Moves(v)
        /\ \A q \in requests' : q \in rs \/ (q.cursor > 1 /\ q.revision = 0)
    BY <1>2, <1>10, <2>1, <2>2, FilledMoves DEF Moves
  <2>4. ASSUME NEW q \in requests'
        PROVE  /\ q.revision <= sortRevision'
               /\ (q.generation = generation /\ q.cursor = 1) => q.revision # sortRevision'
    <3>1. q.cursor \in Nat
      BY <1>1 DEF TypeOK
    <3> QED BY <1>2, <2>3, <3>1
  <2> QED BY <2>3, <2>4
<1>11. ASSUME Filled(v, w, rs), GrowInv', pending' # None => SnapshotFits(pending', Now'),
              BoxFits(inbox', worker', Now'), OutFits(outbox', Now'),
              (workerUp' /\ n > 0) => OrderBefore(inbox', worker', Len(inbox') + 1, sort')
       PROVE  RInv' /\ Moves(v)
  <2>1. /\ StateInv' /\ Moves(v)
        /\ \A q \in requests' :
             /\ q.revision <= sortRevision'
             /\ (q.generation = generation /\ q.cursor = 1) => q.revision # sortRevision'
    BY <1>10, <1>11
  <2>2. InStep' => n > 0
    BY <1>5, <2>1 DEF InStep
  <2>3. client'.revision <= sortRevision'
    BY <1>2, <1>5
  <2>4. SorterInv'
    BY <1>5, <1>11, <2>1, <2>2, <2>3 DEF SorterInv
  <2> QED BY <1>11, <2>1, <2>4 DEF RInv
<1>12. CASE HasNothing(client.acc)
  <2>1. /\ view' = v /\ awaiting' = w /\ requests' = rs
        /\ UNCHANGED <<pending, lastPublished, workerVars>>
    BY <1>12 DEF ResortSorter
  <2>2. GrowInv'
    BY <1>1, <1>2, <1>9, <2>1, GrowKeeps DEF workerVars
  <2>3. Filled(v, w, rs)
    BY <2>1 DEF Filled
  <2> QED BY <1>3, <1>8, <1>11, <1>12, <2>1, <2>2, <2>3 DEF workerVars
<1>13. CASE ~HasNothing(client.acc)
  <2>1. Post(m) /\ PublishOrArm(s, FALSE, sortRevision', v, w, rs) /\ n > 0
    <3>1. Post(m) /\ PublishOrArm(s, FALSE, sortRevision', v, w, rs)
      BY <1>2, <1>13, Zenon DEF ResortSorter
    <3>2. n > 0
      BY <1>2, <1>3, <1>13
    <3> QED BY <3>1, <3>2, Zenon
  <2>2. generation \in 1..Len(directory)
    BY <1>2, <2>1 DEF HoldsPrefix
  <2>3. /\ m \in Messages /\ m.kind = "resort" /\ m.generation = g /\ m.pages = n
        /\ m.revision = sortRevision' /\ m.sort = sort'
    BY <1>2 DEF Messages
  <2>4. /\ s \in Snapshots /\ s.generation = g /\ s.pages = n
        /\ s.loadedCount = client.acc.loadedCount /\ s.complete = client.acc.complete
        /\ s.revision = sortRevision' /\ s.sort = sort'
    <3>1. s.revision = sortRevision' /\ s.sort = sort'
      BY DEF SnapshotOf
    <3> QED BY <1>2, <3>1, SnapshotType
  <2> HIDE DEF s, m
  <2>5. GenuineSnapshot(directory, s) /\ SnapshotFits(s, Now') /\ v.pages <= s.pages
    <3>1. GenuineSnapshot(directory, s)
      BY <1>2, <2>2, <2>4 DEF GenuineSnapshot, HoldsPrefix
    <3>2. SnapshotFits(s, Now')
      BY <1>2, <1>6, <2>1, <2>4 DEF SnapshotFits
    <3> QED BY <2>4, <3>1, <3>2 DEF StateOk
  <2>6. MessageFits(m, Now')
    BY <1>2, <1>6, <2>1, <2>3 DEF MessageFits
  <2>7. /\ BoxFits(inbox', worker', Now') /\ OutFits(outbox', Now')
        /\ workerUp' => workerUp /\ outbox' = outbox /\ worker' = worker
        /\ workerUp' => OrderBefore(inbox', worker', Len(inbox') + 1, sort')
    <3>1. ~workerUp => inbox = <<>>
      BY <1>1 DEF WorkerInv
    <3>2. m.kind # "append" /\ m.kind # "reset" /\ m.sort = Now'.sort
      BY <1>6, <2>3
    <3> HIDE DEF Now
    <3>3. /\ BoxFits(inbox', worker', Now') /\ OutFits(outbox', Now')
          /\ workerUp' => workerUp /\ outbox' = outbox /\ worker' = worker
          /\ (workerUp' /\ (IF m.kind = "append"
                            THEN OrderBefore(inbox, worker, Len(inbox) + 1, Now'.sort)
                            ELSE m.sort = Now'.sort))
               => OrderBefore(inbox', worker', Len(inbox') + 1, Now'.sort)
      BY <1>2, <1>8, <2>1, <2>3, <2>6, <3>1, <3>2, PostFits
    <3> QED BY <1>6, <3>2, <3>3
  <2>8. Filled(v, w, rs) /\ GrowInv' /\ (pending' # None => SnapshotFits(pending', Now'))
    <3>1. s \in {None} \union Snapshots /\ s # None
      BY <2>4, NoneIsNothing
    <3> QED BY <1>1, <1>2, <1>8, <2>1, <2>5, <2>7, <3>1, ArmFills
  <2> QED BY <1>11, <2>7, <2>8
<1> QED BY <1>12, <1>13

LEMMA SetSortRefines ==
  ASSUME IInv, IInv', RInv, NEW order \in Sorts, SetSort(order)
  PROVE  RInv' /\ [Promise!Next]_(Promise!vars)
<1>1. /\ mounted /\ UNCHANGED <<generation, directory, mounted>> /\ mounted' = mounted
      /\ sort' = order /\ sortRevision' = sortRevision + 1
      /\ ResortSorter(generation, sortRevision', sort', view, awaiting, requests)
  BY DEF SetSort
<1>2. /\ TypeOK /\ TypeOK' /\ LoadInv /\ ViewInv /\ SorterInv /\ StateInv
      /\ view \in Views /\ view' \in Views
      /\ requests \in SUBSET Requests /\ awaiting \in {None} \union Waits
      /\ sortRevision \in Nat /\ sort' \in Sorts
  BY DEF IInv, RInv, TypeOK, Requests, Waits
<1>3. sortRevision <= sortRevision' /\ sortRevision' # sortRevision
  BY <1>1, <1>2
<1>4. /\ LoadOk(directory, generation, client.acc.pages, view, awaiting, requests)
      /\ ViewOk(directory, generation, view)
      /\ StateOk(view, awaiting, requests, client.acc.pages, sortRevision', sortRevision')
  BY <1>1, <1>2 DEF LoadInv, ViewInv, StateInv, StateOk
<1>5. \A q \in requests : q.revision <= sortRevision' /\ q.revision # sortRevision'
  <2>1. \A q \in requests : q.revision <= sortRevision /\ q.revision \in Nat
    BY <1>2 DEF SorterInv, Requests
  <2> QED BY <1>1, <1>2, <2>1
<1>6. RInv' /\ Moves(view)
  BY <1>1, <1>2, <1>3, <1>4, <1>5, ResortRefines
<1>7. StateSeen = Seen(view) /\ StateSeen' = Seen(view') /\ Seen(view) # "closed"
  <2>1. Seen(view) # "closed"
    BY <1>2 DEF Seen, Views, Phases
  <2> QED BY <1>1, <1>2, <2>1, SeenNow, SeenNext
<1>8. CASE view'.count = view.count /\ view'.sort = view.sort /\ Seen(view') = Seen(view)
  <2>1. Promise!ChangeOrder
    BY <1>1, <1>2, <1>7, <1>8 DEF Promise!ChangeOrder, Promise!Keep
  <2> QED BY <1>6, <2>1 DEF Promise!Next
<1>9. CASE Seen(view) # "idle" /\ Takes(view)
  <2>1. Promise!FillFrom(StateSeen)
    BY <1>7, <1>9 DEF Takes, Promise!FillFrom, Total
  <2>2. Promise!ChangeOrder
    BY <1>1, <1>2, <1>7, <1>9, <2>1 DEF Promise!ChangeOrder
  <2> QED BY <1>6, <2>2 DEF Promise!Next
<1> QED BY <1>6, <1>8, <1>9 DEF Moves

LEMMA LaterPageFailsRefines ==
  ASSUME IInv, IInv', RInv, NEW r \in requests, LaterPageFails(r)
  PROVE  RInv' /\ [Promise!Next]_(Promise!vars)
<1> DEFINE v == [view EXCEPT !.phase = "partial-error", !.cursor = r.cursor]
           rs == requests \ {r}
<1>1. /\ mounted /\ r.generation = generation /\ generation \in 1..Len(directory)
      /\ r \in Requests /\ r.cursor \in 1..Len(directory[generation]) /\ r.cursor > 1
      /\ Len(directory[generation]) \in Nat
      /\ client.acc.pages = r.cursor - 1
      /\ \A x \in requests \ {r} : x.generation # generation
      /\ awaiting = None \/ awaiting.generation # generation
  BY CurrentRequest DEF LaterPageFails
<1>2. /\ TypeOK /\ LoadInv /\ ViewInv /\ SorterInv /\ StateInv
      /\ view \in Views /\ view' \in Views /\ requests \in SUBSET Requests
      /\ awaiting \in {None} \union Waits
      /\ sortRevision \in Nat
      /\ UNCHANGED <<generation, directory, mounted, sortRevision, sort>>
      /\ mounted' = mounted
  BY <1>1 DEF IInv, RInv, TypeOK, Requests, LaterPageFails, Waits
<1>3. /\ v \in Views /\ rs \in SUBSET Requests
      /\ v.phase = "partial-error" /\ v.cursor = r.cursor /\ v.denied = view.denied
      /\ v.pages = view.pages /\ v.count = view.count /\ v.from = view.from
      /\ v.sort = view.sort
  <2>1. r.cursor \in Nat
    BY <1>1
  <2>2. rs \in SUBSET Requests
    BY <1>2
  <2> QED BY <1>2, <2>1, <2>2 DEF Views, Phases
<1>4. ResortSorter(generation, sortRevision', sort', v, awaiting, rs)
  BY <1>1, <1>2 DEF LaterPageFails
<1> HIDE DEF v
<1>5. LoadOk(directory, generation, client.acc.pages, v, awaiting, rs)
  BY <1>1, <1>3 DEF LoadOk
<1>6. ViewOk(directory, generation, v)
  BY <1>1, <1>2, <1>3 DEF ViewInv, ViewOk
<1>7. /\ ~view.denied /\ view.phase = "loading-more" /\ view.pages <= client.acc.pages
      /\ view.pages = 0 => view.count = 0
  BY <1>1, <1>2 DEF StateInv, StateOk
<1>8. StateOk(v, awaiting, rs, client.acc.pages, sortRevision', sortRevision')
  <2>1. client.acc.pages < Len(directory[generation])
    BY <1>1
  <2> QED BY <1>1, <1>3, <1>7, <2>1 DEF StateOk
<1>9. \A q \in rs : q.revision <= sortRevision' /\ q.generation # generation
  BY <1>1, <1>2 DEF SorterInv
<1>10. sortRevision <= sortRevision'
  BY <1>2
<1>11. RInv' /\ Moves(v)
  BY <1>1, <1>2, <1>3, <1>4, <1>5, <1>6, <1>8, <1>9, <1>10, ResortRefines
<1>12. StateSeen = "filling" /\ StateSeen' = Seen(view') /\ Seen(v) = "interrupted"
  <2>1. Seen(view) = "filling" /\ Seen(v) = "interrupted"
    BY <1>3, <1>7 DEF Seen
  <2> QED BY <1>1, <1>2, <2>1, SeenNow, SeenNext
<1>13. CASE view'.count = v.count /\ view'.sort = v.sort /\ Seen(view') = Seen(v)
  <2>1. Promise!Interrupt
    BY <1>2, <1>3, <1>12, <1>13 DEF Promise!Interrupt, Promise!Keep
  <2> QED BY <1>11, <2>1 DEF Promise!Next
<1>14. CASE Takes(v)
  <2>1. Promise!FillFrom("interrupted")
    BY <1>3, <1>12, <1>14 DEF Takes, Promise!FillFrom, Total
  <2>2. Promise!Interrupt
    BY <1>2, <1>12, <2>1 DEF Promise!Interrupt
  <2> QED BY <1>11, <2>2 DEF Promise!Next
<1> QED BY <1>11, <1>13, <1>14 DEF Moves

\* Steps that touch neither the sorter nor what the load waits for.
LEMMA QuietRefines ==
  ASSUME IInv, IInv', RInv,
         UNCHANGED <<generation, directory, sortRevision, sort, awaiting, sorterVars,
                     workerVars, mounted>>,
         \/ view'.pages = view.pages /\ view'.count = view.count
         \/ view'.count <= PageSize,
         \A q \in requests' : q \in requests \/ (q.cursor > 1 /\ q.revision = 0),
         StateInv'
  PROVE  RInv'
<1>1. /\ TypeOK /\ TypeOK' /\ WorkerInv' /\ SorterInv /\ GrowInv
      /\ view \in Views /\ view' \in Views /\ PageSize \in Nat /\ sortRevision \in Nat
  BY PageAssumption DEF IInv, RInv, TypeOK
<1>2. GrowInv'
  BY <1>1, GrowKeeps DEF workerVars, sorterVars
<1>3. \A q \in requests' : q.revision <= sortRevision
  BY <1>1 DEF SorterInv
<1>4. InStep' => InStep
  BY DEF InStep, sorterVars
<1>5. SorterInv'
  <2>1. Now' = Now
    BY DEF Now, sorterVars
  <2> HIDE DEF Now
  <2> QED BY <1>1, <1>3, <1>4, <2>1 DEF SorterInv, sorterVars, workerVars
<1> QED BY <1>2, <1>5 DEF RInv

LEMMA StaleAnswerRefines ==
  ASSUME IInv, IInv', RInv, NEW r \in requests, StaleAnswer(r)
  PROVE  RInv' /\ [Promise!Next]_(Promise!vars)
<1>1. /\ requests' \subseteq requests /\ view' = view
      /\ UNCHANGED <<generation, directory, sortRevision, sort, awaiting, sorterVars,
                     workerVars, mounted>>
  BY DEF StaleAnswer
<1>2. StateInv'
  BY <1>1 DEF RInv, StateInv, StateOk, sorterVars
<1>3. RInv'
  BY <1>1, <1>2, QuietRefines
<1>4. StateSeen' = StateSeen
  BY <1>1 DEF StateSeen
<1> QED BY <1>1, <1>3, <1>4 DEF Promise!vars

\* The current request is gone, for the view of state v.
LEMMA LoadStops ==
  ASSUME IInv, IInv', RInv, NEW r \in requests, IsCurrent(r.generation), requests' = requests \ {r},
         NEW v \in Views, view' = v,
         UNCHANGED <<generation, directory, sortRevision, sort, awaiting, sorterVars,
                     workerVars, mounted>>,
         v.pages <= view.pages, v.pages = view.pages => v.count = view.count,
         v.pages # view.pages => v.pages = 0 /\ v.count = 0,
         v.phase = "partial-error" => ~v.denied /\ v.cursor = 0,
         v.phase = "idle" => v.denied
  PROVE  /\ RInv'
         /\ mounted /\ mounted' /\ ~view.denied
         /\ r.cursor = 1 => view.phase = "initial-loading"
         /\ r.cursor # 1 => view.phase = "loading-more"
<1>1. /\ mounted /\ r.generation = generation /\ r.cursor \in 1..Len(directory[generation])
      /\ Len(directory[generation]) \in Nat /\ client.acc.pages = r.cursor - 1
      /\ \A x \in requests \ {r} : x.generation # generation
      /\ awaiting = None \/ awaiting.generation # generation
  BY CurrentRequest
<1>2. /\ view \in Views /\ StateInv /\ PageSize \in Nat
  BY PageAssumption DEF IInv, RInv, TypeOK
<1>3. /\ ~view.denied
      /\ r.cursor = 1 => view.phase = "initial-loading"
      /\ r.cursor # 1 => view.phase = "loading-more"
      /\ view.pages <= client.acc.pages
      /\ view.pages = 0 => view.count = 0
  BY <1>1, <1>2 DEF StateInv, StateOk
<1>4. StateOk(v, awaiting, requests', client.acc.pages, client.revision, sortRevision)
  <2>1. v.pages <= client.acc.pages /\ (v.pages = 0 => v.count = 0)
    BY <1>1, <1>2, <1>3 DEF Views
  <2>2. client.acc.pages < Len(directory[generation])
    BY <1>1
  <2> QED BY <1>1, <2>1, <2>2 DEF StateOk
<1>5. StateInv'
  BY <1>4 DEF StateInv, StateOk, sorterVars
<1>6. RInv'
  <2>1. (v.pages = view.pages /\ v.count = view.count) \/ v.count <= PageSize
    BY <1>2
  <2> QED BY <1>5, <2>1, QuietRefines
<1> QED BY <1>1, <1>3, <1>6

LEMMA DeniedFields ==
  ASSUME NEW v \in Views
  PROVE  /\ Denied(v) \in Views /\ Denied(v).pages = 0 /\ Denied(v).count = 0
         /\ Denied(v).phase = "idle" /\ Denied(v).denied /\ Denied(v).sort = v.sort
BY DEF Denied, Views, Phases

\* The directory turns out not to be readable.
LEMMA DenyStep ==
  ASSUME IInv, IInv', RInv, NEW r \in requests, IsCurrent(r.generation), requests' = requests \ {r},
         view' = Denied(view),
         UNCHANGED <<generation, directory, sortRevision, sort, awaiting, sorterVars,
                     workerVars, mounted>>
  PROVE  RInv' /\ [Promise!Next]_(Promise!vars)
<1>1. view \in Views /\ view' \in Views
  BY DEF IInv, TypeOK
<1>2. /\ Denied(view) \in Views /\ Denied(view).pages = 0 /\ Denied(view).count = 0
      /\ Denied(view).phase = "idle" /\ Denied(view).denied /\ Denied(view).sort = view.sort
  BY <1>1, DeniedFields
<1>3. 0 <= view.pages /\ (view.pages = 0 => view.count = 0)
  <2>1. mounted /\ StateInv
    BY CurrentRequest DEF RInv
  <2> QED BY <1>1, <2>1 DEF StateInv, StateOk, Views
<1>4. /\ RInv' /\ mounted /\ mounted' /\ ~view.denied
      /\ view.phase \in {"initial-loading", "loading-more"}
  BY <1>1, <1>2, <1>3, LoadStops
<1>5. StateSeen \in {"loading", "filling"} /\ StateSeen' = "denied"
  <2>1. Seen(view) \in {"loading", "filling"} /\ Seen(view') = "denied"
    BY <1>2, <1>4 DEF Seen
  <2> QED BY <1>1, <1>4, <2>1, SeenNow, SeenNext
<1>6. Promise!Deny
  BY <1>2, <1>5 DEF Promise!Deny
<1> QED BY <1>4, <1>6 DEF Promise!Next

LEMMA FirstPageFailsRefines ==
  ASSUME IInv, IInv', RInv, NEW r \in requests, NEW denied \in BOOLEAN, FirstPageFails(r, denied)
  PROVE  RInv' /\ [Promise!Next]_(Promise!vars)
<1>1. /\ IsCurrent(r.generation) /\ requests' = requests \ {r} /\ r.cursor = 1
      /\ UNCHANGED <<generation, directory, sortRevision, sort, awaiting, sorterVars,
                     workerVars, mounted>>
  BY DEF FirstPageFails
<1>2. CASE denied
  BY <1>1, <1>2, DenyStep DEF FirstPageFails
<1>3. CASE ~denied
  <2> DEFINE v == [view EXCEPT !.phase = "partial-error", !.loading = FALSE]
  <2>1. view' = v
    BY <1>3 DEF FirstPageFails
  <2>2. /\ view \in Views /\ view' \in Views /\ mounted /\ view.cursor = 0 /\ StateInv
        /\ view.phase # "idle"
    <3>1. /\ view \in Views /\ view' \in Views /\ mounted /\ view.cursor = 0 /\ StateInv
          /\ r.generation = generation
      BY <1>1, CurrentRequest DEF IInv, RInv, TypeOK
    <3> QED BY <1>1, <3>1 DEF StateInv, StateOk
  <2>3. ~view.denied
    <3>1. r.generation = generation
      BY <1>1, CurrentRequest
    <3> QED BY <2>2, <3>1 DEF StateInv, StateOk
  <2>4. /\ v \in Views /\ v.phase = "partial-error" /\ v.denied = view.denied
        /\ v.cursor = view.cursor /\ v.pages = view.pages /\ v.count = view.count
        /\ v.sort = view.sort
    BY <2>1, <2>2 DEF Views
  <2> HIDE DEF v
  <2>5. view.pages <= view.pages
    BY <2>2 DEF Views
  <2>6. RInv' /\ mounted' /\ view.phase = "initial-loading"
    BY <1>1, <2>1, <2>2, <2>3, <2>4, <2>5, LoadStops
  <2>7. StateSeen = "loading" /\ StateSeen' = "interrupted"
    <3>1. Seen(view) = "loading" /\ Seen(v) = "interrupted"
      BY <2>3, <2>4, <2>6 DEF Seen
    <3> QED BY <2>1, <2>2, <2>6, <3>1, SeenNow, SeenNext
  <2>8. Promise!Interrupt
    BY <1>1, <2>1, <2>4, <2>7 DEF Promise!Interrupt, Promise!Keep
  <2> QED BY <2>6, <2>8 DEF Promise!Next
<1> QED BY <1>2, <1>3

LEMMA LaterPageDeniedRefines ==
  ASSUME IInv, IInv', RInv, NEW r \in requests, LaterPageDenied(r)
  PROVE  RInv' /\ [Promise!Next]_(Promise!vars)
BY DenyStep DEF LaterPageDenied

LEMMA RetryRefines ==
  ASSUME IInv, IInv', RInv, RetryDirectoryLoad
  PROVE  RInv' /\ [Promise!Next]_(Promise!vars)
<1> DEFINE q == PageRequest(generation, view.cursor, 0)
           v == Continuing(view, view.cursor)
<1>1. /\ mounted /\ view.phase = "partial-error" /\ view.cursor # 0 /\ view.count > 0
      /\ view' = v /\ requests' = requests \union {q} /\ mounted' = mounted
      /\ UNCHANGED <<generation, directory, sortRevision, sort, awaiting, sorterVars,
                     workerVars, mounted>>
  BY DEF RetryDirectoryLoad
<1>2. /\ view \in Views /\ view' \in Views /\ view.cursor \in Nat \ {0}
      /\ StateOk(view, awaiting, requests, client.acc.pages, client.revision, sortRevision)
      /\ LoadOk(directory, generation, client.acc.pages, view, awaiting, requests)
  BY <1>1 DEF IInv, RInv, TypeOK, Views, LoadInv, StateInv
<1>3. /\ v.phase = "loading-more" /\ v.denied = view.denied /\ v.sort = view.sort
      /\ v.pages = view.pages /\ v.count = view.count
  BY <1>2 DEF Continuing, Views
<1>4. q.generation = generation /\ q.cursor = view.cursor /\ q.revision = 0
  BY DEF PageRequest
<1> HIDE DEF q, v
<1>5. /\ \A x \in requests : x.generation # generation
      /\ view.cursor > 1 /\ ~view.denied /\ client.revision = sortRevision
      /\ view.pages <= client.acc.pages /\ (view.pages = 0 => view.count = 0)
  BY <1>1, <1>2 DEF LoadOk, StateOk
<1>6. StateInv'
  <2>1. \A x \in requests \union {q} : x.generation = generation => x.cursor > 1 /\ x.cursor # 1
    BY <1>2, <1>4, <1>5
  <2>2. StateOk(v, awaiting, requests \union {q}, client.acc.pages, client.revision, sortRevision)
    BY <1>3, <1>5, <2>1 DEF StateOk
  <2> QED BY <1>1, <2>2 DEF StateInv, StateOk, sorterVars
<1>7. RInv'
  <2>1. \A x \in requests' : x \in requests \/ (x.cursor > 1 /\ x.revision = 0)
    BY <1>1, <1>4, <1>5
  <2> QED BY <1>1, <1>3, <1>6, <2>1, QuietRefines
<1>8. StateSeen = "interrupted" /\ StateSeen' = "filling"
  <2>1. Seen(view) = "interrupted" /\ Seen(v) = "filling"
    BY <1>1, <1>3, <1>5 DEF Seen
  <2> QED BY <1>1, <1>2, <2>1, SeenNow, SeenNext
<1>9. Promise!Resume
  BY <1>1, <1>3, <1>8 DEF Promise!Resume, Promise!Keep
<1> QED BY <1>7, <1>9 DEF Promise!Next

\* A worker that is gone has posted nothing and has nothing to read.
LEMMA GoneFits ==
  ASSUME WorkerGone, NEW e
  PROVE  BoxFits(inbox', worker', e) /\ OutFits(outbox', e) /\ ~workerUp'
<1>1. Len(<< >>) = 0
  OBVIOUS
<1>2. BoxFits(<< >>, None, e) /\ OutFits(<< >>, e)
  BY <1>1 DEF BoxFits, OutFits
<1> QED BY <1>2 DEF WorkerGone

\* The snapshot the page keeps takes the place of the worker that is gone.
LEMMA GonePublishRefines ==
  ASSUME IInv, IInv', RInv, mounted, WorkerGone, pending' = None,
         NEW s \in {None} \union Snapshots,
         s # None => /\ GenuineSnapshot(directory, s) /\ SnapshotFits(s, Now)
                     /\ (s.generation = generation /\ s.revision = sortRevision
                           /\ view.count > PageSize) => view.pages <= s.pages,
         Publish(s, sortRevision, view, awaiting, requests),
         UNCHANGED <<generation, directory, sortRevision, sort, client, mounted>>
  PROVE  RInv' /\ [Promise!Next]_(Promise!vars)
<1>1. /\ TypeOK /\ TypeOK' /\ WorkerInv' /\ LoadInv /\ ViewInv /\ ClientInv
      /\ SorterInv /\ GrowInv /\ StateInv
      /\ view \in Views /\ view' \in Views /\ PageSize \in Nat
      /\ awaiting \in {None} \union Waits /\ requests \in SUBSET Requests
      /\ generation \in Nat /\ directory \in Seq(Directories) /\ sortRevision \in Nat
      /\ client.acc.pages \in Nat /\ client.revision \in Nat
  BY PageAssumption DEF IInv, RInv, TypeOK, Waits, Requests, Accumulators
<1>2. Now' = Now
  BY DEF Now
<1>3. Filled(view, awaiting, requests)
  <2>1. /\ Publish(s, sortRevision', view, awaiting, requests) /\ sortRevision' = sortRevision
    OBVIOUS
  <2> QED BY <1>1, <1>2, <2>1, PublishFills
<1>4. /\ StateInv' /\ Moves(view)
      /\ \A q \in requests' : q \in requests \/ (q.cursor > 1 /\ q.revision = 0)
  <2>1. /\ LoadOk(directory, generation, client'.acc.pages, view, awaiting, requests)
        /\ StateOk(view, awaiting, requests, client'.acc.pages, client'.revision, sortRevision')
        /\ ViewOk(directory, generation, view)
    BY <1>1 DEF LoadInv, StateInv, ViewInv
  <2>2. /\ client'.acc.pages \in Nat /\ client'.revision \in Nat /\ sortRevision' \in Nat
        /\ client'.revision <= sortRevision' /\ generation = Len(directory)
        /\ UNCHANGED <<generation, directory, mounted>>
    BY <1>1 DEF SorterInv, ClientInv
  <2> QED BY <1>1, <1>3, <2>1, <2>2, FilledMoves DEF Moves
<1>5. ~workerUp'
  BY GoneFits
<1>6. GrowInv'
  BY <1>1, <1>5, GrowKeeps
<1>7. SorterInv'
  <2>1. \A q \in requests' : q.revision <= sortRevision
    BY <1>1, <1>4 DEF SorterInv
  <2> QED BY <1>1, <1>5, <2>1, GoneFits DEF SorterInv
<1>8. [Promise!Next]_(Promise!vars)
  BY <1>1, <1>4, FillStep
<1> QED BY <1>4, <1>6, <1>7, <1>8 DEF RInv

LEMMA FallbackTimerRefines ==
  ASSUME IInv, IInv', RInv, FallbackTimer
  PROVE  RInv' /\ [Promise!Next]_(Promise!vars)
<1>1. /\ pending # None /\ pending' = None /\ WorkerGone /\ workerUp
      /\ Publish(pending, sortRevision, view, awaiting, requests)
      /\ UNCHANGED <<generation, directory, sortRevision, sort, client, mounted>>
  BY DEF FallbackTimer
<1>2. /\ mounted /\ pending \in {None} \union Snapshots
      /\ GenuineSnapshot(directory, pending) /\ SnapshotFits(pending, Now)
  BY <1>1 DEF IInv, RInv, TypeOK, ClientInv, SorterInv
<1>3. (pending.generation = generation /\ pending.revision = sortRevision
         /\ view.count > PageSize) => view.pages <= pending.pages
  BY <1>1, <1>2 DEF RInv, GrowInv
<1> QED BY <1>1, <1>2, <1>3, GonePublishRefines

LEMMA WorkerErrorRefines ==
  ASSUME IInv, IInv', RInv, WorkerError
  PROVE  RInv' /\ [Promise!Next]_(Promise!vars)
<1> DEFINE t == SnapshotOf(client.acc, client.generation, client.revision, client.sort)
<1>1. /\ pending' = None /\ WorkerGone /\ workerUp
      /\ Publish(SnapshotFallback, sortRevision, view, awaiting, requests)
      /\ UNCHANGED <<generation, directory, sortRevision, sort, client, mounted>>
  BY DEF WorkerError
<1>2. /\ mounted /\ TypeOK /\ ClientInv /\ SorterInv /\ GrowInv /\ StateInv
      /\ client \in Clients /\ client.acc \in Accumulators /\ client.sort \in Sorts
      /\ client.generation = generation /\ client.revision \in Nat /\ generation \in Nat
      /\ HoldsPrefix(directory, client.acc, generation)
      /\ directory \in Seq(Directories) /\ client.sort = sort
      /\ client.revision <= sortRevision /\ client.acc.pages \in Nat
      /\ pending \in {None} \union Snapshots
  BY <1>1 DEF IInv, RInv, TypeOK, ClientInv, Clients, SorterInv, Accumulators
<1>3. \/ SnapshotFallback = None
      \/ pending # None /\ SnapshotFallback = pending
      \/ ~HasNothing(client.acc) /\ SnapshotFallback = t
  BY DEF SnapshotFallback
<1>4. CASE SnapshotFallback = None
  BY <1>1, <1>2, <1>4, GonePublishRefines
<1>5. CASE pending # None /\ SnapshotFallback = pending
  <2>1. GenuineSnapshot(directory, pending) /\ SnapshotFits(pending, Now)
    BY <1>2, <1>5 DEF ClientInv, SorterInv
  <2>2. (pending.generation = generation /\ pending.revision = sortRevision
           /\ view.count > PageSize) => view.pages <= pending.pages
    BY <1>1, <1>2, <1>5 DEF GrowInv
  <2> QED BY <1>1, <1>2, <1>5, <2>1, <2>2, GonePublishRefines
<1>6. CASE ~HasNothing(client.acc) /\ SnapshotFallback = t
  <2>1. /\ t \in Snapshots /\ t.generation = generation /\ t.pages = client.acc.pages
        /\ t.loadedCount = client.acc.loadedCount /\ t.complete = client.acc.complete
        /\ t.revision = client.revision /\ t.sort = sort
    <3>1. t.revision = client.revision /\ t.sort = client.sort
      BY DEF SnapshotOf
    <3> QED BY <1>2, <3>1, SnapshotType
  <2> HIDE DEF t
  <2>2. generation \in 1..Len(directory)
    BY <1>2, <1>6 DEF HoldsPrefix, HasNothing
  <2>3. client.acc.pages > 0
    <3>1. client.acc.pages # 0
      BY <1>2, <1>6, <2>2, NothingHeld
    <3> QED BY <1>2, <3>1
  <2>4. GenuineSnapshot(directory, t)
    BY <1>2, <2>1, <2>2 DEF HoldsPrefix, GenuineSnapshot
  <2>5. SnapshotFits(t, Now)
    BY <1>2, <2>1, <2>3 DEF SnapshotFits, Now
  <2>6. view.pages <= t.pages
    BY <1>2, <2>1 DEF StateInv, StateOk
  <2> QED BY <1>1, <1>2, <1>6, <2>1, <2>4, <2>5, <2>6, GonePublishRefines
<1> QED BY <1>3, <1>4, <1>5, <1>6

LEMMA UnmountRefines ==
  ASSUME IInv, IInv', RInv, Unmount
  PROVE  RInv' /\ [Promise!Next]_(Promise!vars)
<1>1. /\ mounted /\ ~mounted' /\ generation' = generation + 1 /\ pending' = None
      /\ WorkerGone /\ client' = [client EXCEPT !.generation = @ + 1]
      /\ UNCHANGED <<directory, sortRevision, sort, view, requests>>
  BY DEF Unmount
<1>2. /\ SorterInv /\ client \in Clients /\ view \in Views /\ mounted \in BOOLEAN
      /\ mounted' \in BOOLEAN /\ WorkerInv'
  BY DEF IInv, RInv, TypeOK, Clients
<1>3. client'.sort = client.sort /\ client'.revision = client.revision
  BY <1>1, <1>2 DEF Clients
<1>4. SorterInv'
  BY <1>1, <1>2, <1>3, GoneFits DEF SorterInv
<1>5. GrowInv' /\ StateInv'
  <2>1. outbox' = <<>> /\ ~mounted'
    BY <1>1 DEF WorkerGone
  <2> QED BY <2>1 DEF GrowInv, StateInv
<1>6. Promise!Close
  <2>1. StateSeen = Seen(view) /\ StateSeen' = "closed"
    BY <1>1, <1>2, SeenNow, SeenNext
  <2>2. Seen(view) # "closed"
    BY <1>2 DEF Seen, Views, Phases
  <2> QED BY <1>1, <2>1, <2>2 DEF Promise!Close, Promise!Keep
<1> QED BY <1>4, <1>5, <1>6 DEF RInv, Promise!Next

LEMMA LoadDirectoryRefines ==
  ASSUME IInv, IInv', RInv, NEW d \in Directories, LoadDirectory(d)
  PROVE  RInv' /\ [Promise!Next]_(Promise!vars)
<1> DEFINE g == generation + 1
           m == [kind |-> "reset", generation |-> g, revision |-> sortRevision + 1,
                 sort |-> sort, pages |-> 0]
           q == PageRequest(g, 1, sortRevision + 1)
<1>1. /\ TypeOK /\ TypeOK' /\ WorkerInv /\ WorkerInv' /\ ClientInv /\ LoadInv
      /\ SorterInv /\ mounted /\ mounted' = mounted
      /\ view \in Views /\ view' \in Views /\ requests \in SUBSET Requests
      /\ generation \in Nat /\ sortRevision \in Nat /\ sort \in Sorts
      /\ directory \in Seq(Directories) /\ Len(directory) = generation
      /\ inbox \in Seq(Messages) /\ outbox \in Seq(Snapshots) /\ PageSize \in Nat
      /\ worker \in {None} \union Workers /\ awaiting \in {None} \union Waits
  BY PageAssumption
     DEF IInv, RInv, TypeOK, Requests, LoadDirectory, ClientInv, Workers, Waits
<1>2. /\ generation' = g /\ directory' = Append(directory, d)
      /\ sortRevision' = sortRevision + 1 /\ sort' = sort
      /\ view' = [view EXCEPT !.phase = "initial-loading", !.loading = TRUE,
                              !.pages = 0, !.count = 0, !.cursor = 0, !.denied = FALSE]
      /\ requests' = requests \union {q}
      /\ client' = [generation |-> g, revision |-> sortRevision + 1, sort |-> sort,
                    acc |-> EmptyAccumulator]
      /\ pending' = None /\ awaiting' = awaiting
      /\ Post(m)
  BY DEF LoadDirectory, ResetSorter
<1>3. /\ view'.pages = 0 /\ view'.count = 0 /\ view'.phase = "initial-loading"
      /\ view'.denied = FALSE /\ view'.sort = view.sort
  BY <1>1, <1>2 DEF Views
<1>4. /\ client'.acc.pages = 0 /\ client'.revision = sortRevision + 1 /\ client'.sort = sort
  BY <1>2 DEF EmptyAccumulator
<1>5. /\ q.generation = g /\ q.cursor = 1 /\ q.revision = sortRevision + 1
  BY DEF PageRequest
<1>6. /\ m \in Messages /\ m.generation = g /\ m.kind = "reset" /\ m.revision = sortRevision + 1
      /\ m.sort = sort
  BY <1>1 DEF Messages
<1> HIDE DEF m, q
<1>7. /\ Now \in Contexts /\ Now' \in Contexts
      /\ Now'.generation = g /\ Now'.pages = 0 /\ Now'.told = sortRevision + 1
      /\ Now'.revision = sortRevision + 1 /\ Now'.sort = sort
      /\ Now.generation = generation /\ Now.revision = sortRevision
  <2>1. Now \in Contexts /\ Now' \in Contexts
    BY <1>1, ContextTypes
  <2> QED BY <2>1, <1>2, <1>4 DEF Now
<1>8. Later(Now, Now')
  BY <1>1, <1>7 DEF Later
<1>9. /\ \A i \in 1..Len(inbox) : inbox[i].generation \in 1..generation
      /\ \A i \in 1..Len(outbox) : outbox[i].generation \in 1..generation
      /\ worker # None => worker.generation \in 1..generation
      /\ \A r \in requests : r.generation \in 1..generation
      /\ awaiting # None => awaiting.generation \in 1..generation
  BY <1>1 DEF WorkerInv, Linked, GenuineMessage, GenuineSnapshot, GenuineWorker, LoadInv
<1>10. BoxFits(inbox, worker, Now') /\ OutFits(outbox, Now')
  <2>1. BoxFits(inbox, worker, Now) /\ OutFits(outbox, Now)
    BY <1>1 DEF SorterInv
  <2>2. /\ \A i \in 1..Len(inbox) : inbox[i].generation # Now'.generation
        /\ \A i \in 1..Len(outbox) : outbox[i].generation # Now'.generation
    BY <1>1, <1>7, <1>9
  <2> HIDE DEF Now
  <2>3. BoxFits(inbox, worker, Now')
    BY <1>1, <1>7, <1>8, <2>1, <2>2, BoxFitsLater
  <2> QED BY <1>1, <1>7, <1>8, <2>1, <2>2, <2>3, OutFitsLater
<1>11. MessageFits(m, Now')
  BY <1>1, <1>6, <1>7 DEF MessageFits
<1>12. /\ BoxFits(inbox', worker', Now') /\ OutFits(outbox', Now')
       /\ workerUp' => workerUp /\ outbox' = outbox /\ worker' = worker
       /\ workerUp' => OrderBefore(inbox', worker', Len(inbox') + 1, sort)
  <2>1. /\ ~workerUp => inbox = <<>>
        /\ m.kind # "append" /\ m.sort = Now'.sort
    BY <1>1, <1>6, <1>7 DEF WorkerInv
  <2>2. /\ inbox # <<>> => inbox[Len(inbox)].generation < m.generation
        /\ worker # None => worker.generation < m.generation
    <3>1. inbox # <<>> => Len(inbox) \in 1..Len(inbox)
      BY <1>1
    <3> QED BY <1>1, <1>6, <1>9, <3>1
  <2> HIDE DEF Now
  <2>3. /\ BoxFits(inbox', worker', Now') /\ OutFits(outbox', Now')
        /\ workerUp' => workerUp /\ outbox' = outbox /\ worker' = worker
        /\ (workerUp' /\ (IF m.kind = "append"
                          THEN OrderBefore(inbox, worker, Len(inbox) + 1, Now'.sort)
                          ELSE m.sort = Now'.sort))
             => OrderBefore(inbox', worker', Len(inbox') + 1, Now'.sort)
    BY <1>1, <1>2, <1>6, <1>10, <1>11, <2>1, <2>2, PostFits
  <2> QED BY <1>7, <2>1, <2>3
<1>13. SorterInv'
  <2>1. \A r \in requests' : r.revision <= sortRevision + 1
    <3>1. \A r \in requests : r.revision <= sortRevision /\ r.revision \in Nat
      BY <1>1 DEF SorterInv, Requests
    <3> QED BY <1>1, <1>2, <1>5, <3>1
  <2>2. client'.revision <= sortRevision'
    BY <1>1, <1>2, <1>4
  <2> QED BY <1>2, <1>4, <1>12, <2>1, <2>2 DEF SorterInv
<1>14. GrowInv'
  <2>1. ~(view'.count > PageSize)
    BY <1>1, <1>3
  <2>2. workerUp' => outbox' = outbox
    BY <1>12
  <2>3. ~workerUp' => outbox' = <<>>
    BY <1>1 DEF WorkerInv
  <2>4. \A i \in 1..Len(outbox') : outbox'[i].generation # generation'
    BY <1>1, <1>2, <1>9, <2>2, <2>3
  <2> QED BY <2>1, <2>4 DEF GrowInv
<1>15. StateInv'
  <2>1. \A r \in requests' : r.generation = generation' => r.cursor = 1
    BY <1>1, <1>2, <1>5, <1>9
  <2>2. awaiting' # None => awaiting'.generation # generation'
    BY <1>1, <1>2, <1>9
  <2> QED BY <1>3, <1>4, <2>1, <2>2 DEF StateInv, StateOk
<1>16. Promise!Open
  <2>1. StateSeen = Seen(view) /\ StateSeen' = "loading" /\ Seen(view) # "closed"
    <3>1. Seen(view) # "closed" /\ Seen(view') = "loading"
      BY <1>1, <1>3 DEF Seen, Views, Phases
    <3> QED BY <1>1, <3>1, SeenNow, SeenNext
  <2>2. /\ directory' # <<>> /\ Len(directory') = Len(directory) + 1
        /\ directory'[Len(directory')] = d
    BY <1>1, <1>2
  <2> QED BY <1>2, <1>3, <2>1, <2>2 DEF Promise!Open
<1> QED BY <1>13, <1>14, <1>15, <1>16 DEF RInv, Promise!Next

\* What reading a message does: the worker has what the message says, and may post
\* a snapshot of it.
LEMMA WorkerReads ==
  ASSUME IInv, WorkerStep, NEW m, m = inbox[1]
  PROVE  /\ inbox # <<>> /\ inbox' = Tail(inbox) /\ m \in Messages /\ workerUp /\ mounted
         /\ m.generation \in 1..Len(directory)
         /\ worker' # None /\ worker'.generation = m.generation
         /\ m.kind # "reset" =>
              /\ worker # None /\ worker \in Workers /\ worker.generation = m.generation
              /\ worker.acc.pages <= m.pages /\ worker'.acc.pages = m.pages
         /\ m.kind = "append" => worker # None /\ worker'.sort = worker.sort
         /\ m.kind # "append" => worker'.sort = m.sort
         /\ \/ outbox' = outbox
            \/ m.kind # "reset" /\ \E t \in Snapshots :
                 /\ outbox' = Append(outbox, t)
                 /\ t.generation = m.generation /\ t.revision = m.revision
                 /\ t.pages = m.pages /\ t.sort = worker'.sort
<1>1. /\ TypeOK /\ WorkerInv /\ ClientInv /\ inbox \in Seq(Messages) /\ inbox # <<>>
      /\ worker \in {None} \union Workers
  BY DEF IInv, TypeOK, Workers, WorkerStep
<1>2. m = Head(inbox) /\ m \in Messages /\ 1 \in 1..Len(inbox)
  BY <1>1
<1>3. inbox' = Tail(inbox) /\ workerUp /\ mounted
  BY <1>1 DEF WorkerStep, WorkerInv, ClientInv
<1>4. /\ m.generation \in 1..Len(directory)
      /\ m.kind # "reset" => worker # None /\ Follows(worker.generation, worker.acc.pages, m)
  BY <1>1, <1>2 DEF WorkerInv, Linked, GenuineMessage
<1>5. m.kind # "reset" => WorkerAccepts(m)
  BY <1>4 DEF WorkerAccepts, Follows
<1>6. m.generation \in Nat /\ m.revision \in Nat
  BY <1>2 DEF Messages
<1>7. CASE /\ m.kind = "reset"
           /\ worker' = [generation |-> m.generation, sort |-> m.sort, acc |-> EmptyAccumulator]
           /\ UNCHANGED outbox
  <2>1. worker' \in Workers
    BY <1>2, <1>6, <1>7, EmptyType DEF Workers, Messages
  <2>2. worker' # None
    BY <2>1, NoneIsNothing
  <2> QED BY <1>1, <1>2, <1>3, <1>4, <1>7, <2>2
<1>8. ASSUME m.kind # "reset"
      PROVE  /\ worker \in Workers /\ worker.generation = m.generation
             /\ worker.acc \in Accumulators /\ worker.sort \in Sorts /\ worker.acc.pages \in Nat
             /\ worker # None
  BY <1>1, <1>4, <1>8 DEF Workers, Follows, Accumulators
<1>9. CASE /\ m.kind = "append" /\ WorkerAccepts(m)
           /\ LET acc == AppendPage(worker.acc, m.size, m.complete) IN
              /\ worker' = [worker EXCEPT !.acc = acc]
              /\ outbox' = IF Publishes(worker.acc, acc.loadedCount, m.complete)
                           THEN Append(outbox, SnapshotOf(acc, m.generation, m.revision,
                                                          worker.sort))
                           ELSE outbox
  <2> DEFINE acc == AppendPage(worker.acc, m.size, m.complete)
             t == SnapshotOf(acc, m.generation, m.revision, worker.sort)
  <2>1. m.size \in Nat /\ m.complete \in BOOLEAN /\ m.pages = worker.acc.pages + 1
    BY <1>2, <1>4, <1>9 DEF Messages, Follows
  <2>2. acc \in Accumulators /\ acc.pages = m.pages
    BY <1>8, <1>9, <2>1, AppendType
  <2> HIDE DEF acc
  <2>3. worker' = [worker EXCEPT !.acc = acc] /\ outbox' \in {outbox, Append(outbox, t)}
    BY <1>9 DEF acc
  <2>4. /\ worker' \in Workers /\ worker'.generation = m.generation /\ worker'.acc = acc
        /\ worker'.sort = worker.sort
    BY <1>8, <1>9, <2>2, <2>3 DEF Workers
  <2>5. /\ t \in Snapshots /\ t.generation = m.generation /\ t.pages = m.pages
        /\ t.revision = m.revision /\ t.sort = worker.sort
    <3>1. t.revision = m.revision /\ t.sort = worker.sort
      BY DEF SnapshotOf
    <3> QED BY <1>6, <1>8, <1>9, <2>2, <3>1, SnapshotType
  <2> HIDE DEF t
  <2>6. worker' # None /\ worker.acc.pages <= m.pages
    BY <1>8, <1>9, <2>1, <2>4, NoneIsNothing
  <2> QED BY <1>1, <1>2, <1>3, <1>4, <1>8, <1>9, <2>2, <2>3, <2>4, <2>5, <2>6
<1>10. CASE /\ m.kind = "resort" /\ WorkerAccepts(m)
            /\ worker' = [worker EXCEPT !.sort = m.sort]
            /\ outbox' = IF HasNothing(worker.acc) THEN outbox
                         ELSE Append(outbox, SnapshotOf(worker.acc, m.generation,
                                                        m.revision, m.sort))
  <2> DEFINE t == SnapshotOf(worker.acc, m.generation, m.revision, m.sort)
  <2>1. m.sort \in Sorts /\ m.pages = worker.acc.pages
    BY <1>2, <1>4, <1>10 DEF Messages, Follows
  <2>2. /\ worker' \in Workers /\ worker'.generation = m.generation
        /\ worker'.acc = worker.acc /\ worker'.sort = m.sort
    BY <1>8, <1>10, <2>1 DEF Workers
  <2>3. outbox' \in {outbox, Append(outbox, t)}
    BY <1>10
  <2>4. /\ t \in Snapshots /\ t.generation = m.generation /\ t.pages = m.pages
        /\ t.revision = m.revision /\ t.sort = m.sort
    <3>1. t.revision = m.revision /\ t.sort = m.sort
      BY DEF SnapshotOf
    <3> QED BY <1>6, <1>8, <1>10, <2>1, <3>1, SnapshotType
  <2> HIDE DEF t
  <2>5. worker' # None /\ worker.acc.pages <= m.pages
    BY <1>8, <1>10, <2>1, <2>2, NoneIsNothing
  <2> QED BY <1>1, <1>2, <1>3, <1>4, <1>8, <1>10, <2>1, <2>2, <2>3, <2>4, <2>5
<1> QED BY <1>2, <1>5, <1>7, <1>9, <1>10 DEF WorkerStep

LEMMA WorkerStepRefines ==
  ASSUME IInv, IInv', RInv, WorkerStep
  PROVE  RInv' /\ [Promise!Next]_(Promise!vars)
<1> DEFINE m == inbox[1]
           n == Len(inbox)
           k == Len(outbox)
           Has(p) == worker' # None /\ worker'.generation = generation
                       /\ p <= worker'.acc.pages
<1>1. /\ TypeOK /\ ClientInv /\ SorterInv /\ GrowInv /\ StateInv
      /\ UNCHANGED <<pageVars, sorterVars, workerUp, mounted>>
      /\ inbox \in Seq(Messages) /\ outbox \in Seq(Snapshots)
      /\ view \in Views /\ PageSize \in Nat
      /\ generation \in Nat /\ sortRevision \in Nat
  BY PageAssumption DEF IInv, RInv, TypeOK, WorkerStep
<1>2. /\ inbox # <<>> /\ inbox' = Tail(inbox) /\ m \in Messages /\ workerUp /\ mounted
      /\ m.generation \in 1..Len(directory)
      /\ worker' # None /\ worker'.generation = m.generation
      /\ m.kind # "reset" =>
           /\ worker # None /\ worker \in Workers /\ worker.generation = m.generation
           /\ worker.acc.pages <= m.pages /\ worker'.acc.pages = m.pages
      /\ m.kind = "append" => worker # None /\ worker'.sort = worker.sort
      /\ m.kind # "append" => worker'.sort = m.sort
      /\ \/ outbox' = outbox
         \/ m.kind # "reset" /\ \E t \in Snapshots :
              /\ outbox' = Append(outbox, t)
              /\ t.generation = m.generation /\ t.revision = m.revision
              /\ t.pages = m.pages /\ t.sort = worker'.sort
  BY WorkerReads
<1>3. /\ n \in Nat /\ n > 0 /\ 1 \in 1..n /\ n \in 1..n /\ Len(inbox') + 1 = n /\ k \in Nat
      /\ \A t : /\ Len(Append(outbox, t)) = k + 1 /\ Append(outbox, t)[k + 1] = t
                /\ \A i \in 1..k : Append(outbox, t)[i] = outbox[i]
  BY <1>1, <1>2
<1>4. Now' = Now /\ Now.revision = sortRevision /\ Now.sort = sort
      /\ Now.generation = generation
  BY <1>1 DEF Now, pageVars, sorterVars
<1>5. BoxFits(inbox, worker, Now) /\ OutFits(outbox, Now) /\ MessageFits(m, Now)
  BY <1>1, <1>3 DEF SorterInv, BoxFits
<1>6. generation = Len(directory)
  BY <1>1, <1>2 DEF ClientInv
<1> HIDE DEF m, n, k, Now
<1>7. BoxFits(inbox', worker', Now')
  <2>1. BoxFits(Tail(inbox), worker', Now)
    BY <1>1, <1>2, <1>5, BoxTail DEF m
  <2> QED BY <1>2, <1>4, <2>1
<1>8. ASSUME NEW t \in Snapshots, m.kind # "reset", t.revision = m.revision, t.pages = m.pages,
             t.generation = m.generation, t.sort = worker'.sort
      PROVE  SnapshotFits(t, Now)
  <2>1. (m.kind = "append" /\ m.revision = sortRevision) => worker'.sort = sort
    <3>1. (m.kind = "append" /\ m.revision = sortRevision) => OrderBefore(inbox, worker, 1, sort)
      BY <1>3, <1>4, <1>5 DEF BoxFits, m, n
    <3>2. OrderBefore(inbox, worker, 1, sort) => worker.sort = sort
      BY DEF OrderBefore
    <3> QED BY <1>2, <3>1, <3>2
  <2> QED BY <1>2, <1>4, <1>5, <1>8, <2>1 DEF MessageFits, SnapshotFits
<1>9. OutFits(outbox', Now')
  <2>1. ASSUME NEW t \in Snapshots, SnapshotFits(t, Now)
        PROVE  OutFits(Append(outbox, t), Now)
    <3>1. \A i \in 1..(k + 1) : i = k + 1 \/ i \in 1..k
      BY <1>3
    <3>2. \A i \in 1..k : SnapshotFits(outbox[i], Now)
      BY <1>5 DEF OutFits, k
    <3> QED BY <1>3, <2>1, <3>1, <3>2 DEF OutFits
  <2>2. CASE outbox' = outbox
    BY <1>4, <1>5, <2>2
  <2>3. CASE m.kind # "reset" /\ \E t \in Snapshots :
              /\ outbox' = Append(outbox, t)
              /\ t.generation = m.generation /\ t.revision = m.revision
              /\ t.pages = m.pages /\ t.sort = worker'.sort
    BY <1>4, <1>8, <2>1, <2>3
  <2> QED BY <1>2, <2>2, <2>3
<1>10. SorterInv'
  <2>1. InStep' => InStep
    BY <1>1 DEF InStep, pageVars, sorterVars
  <2>2. InStep => OrderBefore(inbox', worker', Len(inbox') + 1, sort)
    <3>1. InStep => OrderBefore(inbox, worker, n + 1, sort)
      BY <1>1, <1>2 DEF SorterInv, n
    <3>2. OrderBefore(inbox, worker, n + 1, sort) => OrderBefore(Tail(inbox), worker', n, sort)
      BY <1>1, <1>2, <1>3, OrderTail DEF m, n
    <3> QED BY <1>2, <1>3, <3>1, <3>2
  <2> QED BY <1>1, <1>4, <1>7, <1>9, <2>1, <2>2 DEF SorterInv, pageVars, sorterVars
<1>11. StateInv'
  BY <1>1 DEF StateInv, StateOk, pageVars, sorterVars
\* A worker that has read of the load under way is not reset: there is no newer one.
<1>12. (m.kind = "reset" /\ worker # None) => worker.generation # generation
  <2>1. (m.kind = "reset" /\ worker # None) => worker.generation < m.generation
    BY <1>2, <1>5 DEF BoxFits, m
  <2>2. worker # None => worker.generation \in Nat
    BY <1>1 DEF TypeOK
  <2> QED BY <1>2, <1>6, <2>1, <2>2
<1>13. /\ m.pages \in Nat
       /\ worker # None => worker.acc.pages \in Nat
       /\ \A i \in 1..k : outbox[i].pages \in Nat
       /\ view.pages \in Nat
  <2>1. m.pages \in Nat
    BY <1>2 DEF Messages
  <2>2. worker # None => worker.acc.pages \in Nat
    BY <1>1 DEF TypeOK, Accumulators
  <2>3. \A i \in 1..k : outbox[i] \in Snapshots
    BY <1>1 DEF k
  <2>4. \A i \in 1..k : outbox[i].pages \in Nat
    BY <2>3 DEF Snapshots
  <2>5. view.pages \in Nat
    BY <1>1 DEF Views
  <2> QED BY <2>1, <2>2, <2>4, <2>5
<1>14. \A p \in Nat : WorkerHas(p) => /\ Has(p)
                                      /\ m.kind # "reset" /\ m.generation = generation
                                      /\ p <= m.pages
  BY <1>1, <1>2, <1>12, <1>13 DEF WorkerHas, pageVars
<1>17. \A p : Has(p) => WorkerHas(p)'
  BY <1>1 DEF WorkerHas, pageVars
<1> HIDE DEF Has
<1>15. GrowInv'
  <2>1. /\ \A i \in 1..k : outbox[i].generation = generation =>
             /\ Has(outbox[i].pages)
             /\ m.kind # "reset" /\ m.generation = generation /\ outbox[i].pages <= m.pages
             /\ view.count > PageSize => view.pages <= outbox[i].pages
             /\ \A j \in i..k :
                  outbox[j].generation = generation => outbox[i].pages <= outbox[j].pages
    <3> SUFFICES ASSUME NEW i \in 1..k, outbox[i].generation = generation
                 PROVE  /\ Has(outbox[i].pages)
                        /\ m.kind # "reset" /\ m.generation = generation
                        /\ outbox[i].pages <= m.pages
                        /\ view.count > PageSize => view.pages <= outbox[i].pages
                        /\ \A j \in i..k :
                             outbox[j].generation = generation => outbox[i].pages <= outbox[j].pages
      OBVIOUS
    <3>1. /\ WorkerHas(outbox[i].pages)
          /\ view.count > PageSize => view.pages <= outbox[i].pages
          /\ \A j \in i..k :
               outbox[j].generation = generation => outbox[i].pages <= outbox[j].pages
      BY <1>1 DEF GrowInv, k
    <3>2. outbox[i].pages \in Nat
      BY <1>13
    <3>3. /\ Has(outbox[i].pages)
          /\ m.kind # "reset" /\ m.generation = generation /\ outbox[i].pages <= m.pages
      BY <1>14, <3>1, <3>2
    <3> QED BY <3>1, <3>3
  <2>2. /\ view.count > PageSize =>
             /\ Has(view.pages)
             /\ m.generation = generation /\ view.pages <= m.pages
             /\ (pending # None /\ pending.generation = generation
                   /\ pending.revision = sortRevision) => view.pages <= pending.pages
    <3>1. view.count > PageSize => WorkerHas(view.pages)
      BY <1>1, <1>2 DEF GrowInv
    <3>2. view.count > PageSize =>
            Has(view.pages) /\ m.generation = generation /\ view.pages <= m.pages
      BY <1>13, <1>14, <3>1
    <3> QED BY <1>1, <1>2, <3>2 DEF GrowInv
  <2>3. /\ view' = view /\ pending' = pending /\ generation' = generation
        /\ sortRevision' = sortRevision /\ mounted' = mounted /\ workerUp' = workerUp
    BY <1>1 DEF pageVars, sorterVars
  <2>4. CASE outbox' = outbox
    <3> QED BY <1>17, <2>1, <2>2, <2>3, <2>4 DEF GrowInv, k
  <2>5. ASSUME NEW t \in Snapshots, outbox' = Append(outbox, t), m.kind # "reset",
               t.generation = m.generation, t.pages = m.pages
        PROVE  GrowInv'
    <3>1. /\ Len(outbox') = k + 1 /\ outbox'[k + 1] = t
          /\ \A i \in 1..k : outbox'[i] = outbox[i]
          /\ \A i \in 1..(k + 1) : i = k + 1 \/ i \in 1..k
          /\ \A i \in 1..k : \A j \in i..(k + 1) : j = k + 1 \/ (j \in i..k /\ j \in 1..k)
      BY <1>3, <2>5
    <3>2. t.generation = generation => Has(t.pages)
      BY <1>2, <1>13, <2>3, <2>5 DEF Has
    <3>3. ASSUME NEW i \in 1..k, outbox[i].generation = generation
          PROVE  /\ Has(outbox[i].pages)
                 /\ view.count > PageSize => view.pages <= outbox[i].pages
                 /\ \A j \in i..(k + 1) :
                      outbox'[j].generation = generation => outbox[i].pages <= outbox'[j].pages
      <4>1. /\ Has(outbox[i].pages)
            /\ outbox[i].pages <= t.pages
            /\ view.count > PageSize => view.pages <= outbox[i].pages
            /\ \A j \in i..k :
                 outbox[j].generation = generation => outbox[i].pages <= outbox[j].pages
        BY <2>1, <2>5, <3>3
      <4> QED BY <3>1, <4>1
    <3>4. ASSUME t.generation = generation
          PROVE  /\ Has(t.pages)
                 /\ view.count > PageSize => view.pages <= t.pages
                 /\ \A j \in (k + 1)..(k + 1) : t.pages <= outbox'[j].pages
      <4>1. \A j \in (k + 1)..(k + 1) : outbox'[j] = t
        BY <1>3, <3>1
      <4>2. t.pages <= t.pages
        BY <1>13, <2>5
      <4> QED BY <2>2, <2>5, <3>2, <3>4, <4>1, <4>2
    <3>5. \A i \in 1..Len(outbox') : outbox'[i].generation = generation =>
            /\ Has(outbox'[i].pages)
            /\ view.count > PageSize => view.pages <= outbox'[i].pages
            /\ \A j \in i..Len(outbox') :
                 outbox'[j].generation = generation => outbox'[i].pages <= outbox'[j].pages
      <4> SUFFICES ASSUME NEW i \in 1..Len(outbox'), outbox'[i].generation = generation
                   PROVE  /\ Has(outbox'[i].pages)
                          /\ view.count > PageSize => view.pages <= outbox'[i].pages
                          /\ \A j \in i..Len(outbox') :
                               outbox'[j].generation = generation
                                 => outbox'[i].pages <= outbox'[j].pages
        OBVIOUS
      <4>1. CASE i = k + 1
        BY <2>3, <3>1, <3>4, <4>1
      <4>2. CASE i \in 1..k
        BY <2>3, <3>1, <3>3, <4>2
      <4> QED BY <3>1, <4>1, <4>2
    <3>6. \A i \in 1..Len(outbox') : Has(outbox'[i].pages) => WorkerHas(outbox[i].pages)'
      BY <1>17
    <3>7. Has(view.pages) => WorkerHas(view.pages)'
      BY <1>17, <2>3
    <3> QED BY <2>2, <2>3, <3>5, <3>6, <3>7 DEF GrowInv
  <2> QED BY <1>2, <2>4, <2>5
<1>16. UNCHANGED Promise!vars
  BY <1>1 DEF Promise!vars, StateSeen, pageVars
<1> QED BY <1>10, <1>11, <1>15, <1>16 DEF RInv

LEMMA WorkerAnswerRefines ==
  ASSUME IInv, IInv', RInv, WorkerAnswer
  PROVE  RInv' /\ [Promise!Next]_(Promise!vars)
<1> DEFINE s == outbox[1]
           k == Len(outbox')
<1>1. /\ outbox # <<>> /\ outbox' = Tail(outbox)
      /\ pending' = IF Answers(Head(outbox)) THEN None ELSE pending
      /\ Publish(Head(outbox), sortRevision, view, awaiting, requests)
      /\ UNCHANGED <<generation, directory, sortRevision, sort, client, workerUp, inbox,
                     worker, mounted>>
  BY DEF WorkerAnswer
<1>2. /\ TypeOK /\ TypeOK' /\ WorkerInv /\ WorkerInv' /\ LoadInv /\ ViewInv /\ ClientInv
      /\ SorterInv /\ GrowInv /\ StateInv
      /\ view \in Views /\ view' \in Views /\ PageSize \in Nat
      /\ awaiting \in {None} \union Waits /\ requests \in SUBSET Requests
      /\ generation \in Nat /\ directory \in Seq(Directories) /\ sortRevision \in Nat
      /\ client.acc.pages \in Nat /\ client.revision \in Nat
      /\ outbox \in Seq(Snapshots) /\ pending \in {None} \union Snapshots
  BY PageAssumption DEF IInv, RInv, TypeOK, Waits, Requests, Accumulators
<1>3. /\ s = Head(outbox) /\ s \in Snapshots /\ 1 \in 1..Len(outbox)
      /\ k \in Nat /\ Len(outbox) = k + 1
      /\ \A i \in 1..k : outbox'[i] = outbox[i + 1] /\ i + 1 \in 1..Len(outbox)
      /\ \A i \in 1..k : outbox'[i] \in Snapshots
  BY <1>1, <1>2
<1>4. /\ Publish(s, sortRevision', view, awaiting, requests)
      /\ pending' = IF Answers(s) THEN None ELSE pending
  BY <1>1, <1>3
<1> HIDE DEF s, k
<1>5. workerUp /\ mounted /\ s # None
  BY <1>1, <1>2, <1>3, NoneIsNothing DEF WorkerInv, ClientInv
<1>6. Now' = Now
  BY <1>1 DEF Now
<1>7. GenuineSnapshot(directory, s) /\ SnapshotFits(s, Now)
  BY <1>2, <1>3 DEF WorkerInv, SorterInv, OutFits, s
<1>8. s.generation = generation =>
        /\ WorkerHas(s.pages)
        /\ view.count > PageSize => view.pages <= s.pages
        /\ \A j \in 1..Len(outbox) : outbox[j].generation = generation => s.pages <= outbox[j].pages
  BY <1>2, <1>3 DEF GrowInv, s
<1>9. /\ Filled(view, awaiting, requests)
      /\ \/ view'.pages = view.pages /\ view'.count = view.count
         \/ s.generation = generation /\ s.revision = sortRevision /\ view'.pages = s.pages
  <2>1. sortRevision' = sortRevision /\ s \in {None} \union Snapshots
    BY <1>1, <1>3
  <2> QED BY <1>2, <1>4, <1>6, <1>7, <1>8, <2>1, PublishFills
<1>10. /\ StateInv' /\ Moves(view)
       /\ \A q \in requests' : q \in requests \/ (q.cursor > 1 /\ q.revision = 0)
  <2>1. /\ LoadOk(directory, generation, client'.acc.pages, view, awaiting, requests)
        /\ StateOk(view, awaiting, requests, client'.acc.pages, client'.revision, sortRevision')
        /\ ViewOk(directory, generation, view)
    BY <1>1, <1>2, <1>5 DEF LoadInv, StateInv, ViewInv
  <2>2. /\ client'.acc.pages \in Nat /\ client'.revision \in Nat /\ sortRevision' \in Nat
        /\ client'.revision <= sortRevision' /\ generation = Len(directory)
        /\ UNCHANGED <<generation, directory, mounted>>
    BY <1>1, <1>2, <1>5 DEF SorterInv, ClientInv
  <2> QED BY <1>2, <1>5, <1>9, <2>1, <2>2, FilledMoves DEF Moves
\* A snapshot that still waits has more than the worker has sent.
<1>11. (/\ pending' # None /\ pending'.generation = generation
        /\ pending'.revision = sortRevision)
          => /\ pending' = pending
             /\ (s.generation = generation /\ s.revision = sortRevision) => s.pages <= pending.pages
  <2> SUFFICES ASSUME pending' # None, pending'.generation = generation,
                      pending'.revision = sortRevision
               PROVE  /\ pending' = pending
                      /\ (s.generation = generation /\ s.revision = sortRevision)
                           => s.pages <= pending.pages
    OBVIOUS
  <2>1. ~Answers(s) /\ pending' = pending /\ pending # None /\ pending \in Snapshots
    BY <1>2, <1>4
  <2>2. SUFFICES ASSUME s.generation = generation, s.revision = sortRevision
                 PROVE  s.pages <= pending.pages
    BY <2>1
  <2>3. ~(s.loadedCount >= pending.loadedCount)
    BY <2>1, <2>2 DEF Answers
  <2> DEFINE d == directory[generation]
  <2>4. GenuineSnapshot(directory, pending)
    BY <1>2, <2>1 DEF ClientInv
  <2>5. /\ generation \in 1..Len(directory)
        /\ s.pages <= Len(d) /\ s.loadedCount = EntriesOf(d, s.pages)
        /\ pending.pages <= Len(d) /\ pending.loadedCount = EntriesOf(d, pending.pages)
    BY <1>7, <2>1, <2>2, <2>4 DEF GenuineSnapshot, HoldsPrefix
  <2>6. d \in Directories /\ Len(d) \in Nat
    BY <1>2, <2>5, PageAssumption
  <2> HIDE DEF d
  <2>7. s.pages \in 0..Len(d) /\ pending.pages \in 0..Len(d)
    BY <1>3, <2>1, <2>5, <2>6 DEF Snapshots
  <2>8. /\ EntriesOf(d, pending.pages) \in Nat /\ EntriesOf(d, s.pages) \in Nat
        /\ pending.pages <= s.pages => EntriesOf(d, pending.pages) <= EntriesOf(d, s.pages)
    BY <2>6, <2>7, EntriesCompare
  <2> QED BY <2>3, <2>5, <2>7, <2>8
<1>12. GrowInv'
  <2> DEFINE Has(p) == worker # None /\ worker.generation = generation /\ p <= worker.acc.pages
  <2>1. /\ \A p : Has(p) => WorkerHas(p)'
        /\ \A p : WorkerHas(p) <=> Has(p)
    BY <1>1 DEF WorkerHas
  <2> HIDE DEF Has
  <2>2. ASSUME NEW i \in 1..k, outbox'[i].generation = generation
        PROVE  /\ Has(outbox'[i].pages)
               /\ view'.count > PageSize => view'.pages <= outbox'[i].pages
               /\ \A j \in i..k :
                    outbox'[j].generation = generation => outbox'[i].pages <= outbox'[j].pages
    <3>1. /\ outbox'[i] = outbox[i + 1] /\ i + 1 \in 1..Len(outbox)
          /\ \A j \in i..k : outbox'[j] = outbox[j + 1] /\ j + 1 \in (i + 1)..Len(outbox)
      BY <1>3
    <3>2. /\ WorkerHas(outbox[i + 1].pages)
          /\ view.count > PageSize => view.pages <= outbox[i + 1].pages
          /\ \A j \in (i + 1)..Len(outbox) :
               outbox[j].generation = generation => outbox[i + 1].pages <= outbox[j].pages
      BY <1>2, <2>2, <3>1 DEF GrowInv
    <3>3. view'.count > PageSize => view'.pages <= outbox'[i].pages
      <4>1. s.generation = generation => s.pages <= outbox'[i].pages
        BY <1>8, <2>2, <3>1
      <4> QED BY <1>9, <3>1, <3>2, <4>1
    <3>4. Has(outbox'[i].pages)
      BY <2>1, <3>1, <3>2
    <3> QED BY <3>1, <3>2, <3>3, <3>4
  <2>3. view'.count > PageSize => Has(view'.pages)
    <3>1. view.count > PageSize => WorkerHas(view.pages)
      BY <1>2, <1>5 DEF GrowInv
    <3>2. CASE view'.pages = view.pages /\ view'.count = view.count
      BY <2>1, <3>1, <3>2
    <3>3. CASE s.generation = generation /\ view'.pages = s.pages
      BY <1>8, <2>1, <3>3
    <3> QED BY <1>9, <3>2, <3>3
  <2>4. (/\ view'.count > PageSize /\ pending' # None /\ pending'.generation = generation
         /\ pending'.revision = sortRevision) => view'.pages <= pending'.pages
    <3>1. (/\ view.count > PageSize /\ pending # None /\ pending.generation = generation
           /\ pending.revision = sortRevision) => view.pages <= pending.pages
      BY <1>2, <1>5 DEF GrowInv
    <3> QED BY <1>9, <1>11, <3>1
  <2>5. /\ generation' = generation /\ sortRevision' = sortRevision
        /\ \A i \in 1..k : Has(outbox'[i].pages) => WorkerHas(outbox[i].pages)'
        /\ Has(view'.pages) => WorkerHas(view.pages)'
    BY <1>1, <2>1
  <2> QED BY <2>2, <2>3, <2>4, <2>5 DEF GrowInv, k
<1>13. SorterInv'
  <2>1. OutFits(outbox', Now)
    BY <1>2, <1>3 DEF SorterInv, OutFits, k
  <2>2. pending' # None => SnapshotFits(pending', Now)
    BY <1>2, <1>4 DEF SorterInv
  <2>3. \A q \in requests' : q.revision <= sortRevision
    BY <1>2, <1>10 DEF SorterInv
  <2>4. InStep' => InStep
    BY <1>1, <1>10 DEF InStep
  <2> QED BY <1>1, <1>2, <1>5, <1>6, <2>1, <2>2, <2>3, <2>4 DEF SorterInv
<1>14. [Promise!Next]_(Promise!vars)
  BY <1>1, <1>2, <1>5, <1>10, FillStep
<1> QED BY <1>10, <1>12, <1>13, <1>14 DEF RInv

LEMMA InitRefines ==
  ASSUME Init
  PROVE  RInv /\ Promise!Init
<1>1. /\ Len(<< >>) = 0 /\ sort \in Sorts /\ view \in Views /\ mounted
      /\ view.phase = "idle" /\ ~view.denied /\ view.pages = 0 /\ view.count = 0
      /\ view.sort = sort /\ PageSize \in Nat
  BY PageAssumption DEF Init, Views, Phases
<1>2. SorterInv
  BY <1>1 DEF Init, SorterInv, OutFits, BoxFits, InStep, EmptyAccumulator
<1>3. GrowInv
  BY <1>1 DEF Init, GrowInv
<1>4. StateInv
  BY <1>1 DEF Init, StateInv, StateOk, EmptyAccumulator
<1>5. StateSeen = "idle"
  BY <1>1, SeenNow DEF Seen, Init
<1>6. Promise!Init
  BY <1>1, <1>5 DEF Init, Promise!Init
<1> QED BY <1>2, <1>3, <1>4, <1>6 DEF RInv

\* Every step of the page, of the sorter and of the worker is a step of the promise,
\* or none.
LEMMA NextRefines ==
  IInv /\ RInv /\ [Next]_vars => RInv' /\ [Promise!Next]_(Promise!vars)
<1> SUFFICES ASSUME IInv, RInv, [Next]_vars
             PROVE  RInv' /\ [Promise!Next]_(Promise!vars)
  OBVIOUS
<1>1. IInv'
  BY NextInv
<1>2. CASE Settle
  <2> PICK r \in requests :
        \/ StaleAnswer(r) \/ FirstPage(r) \/ LaterPage(r)
        \/ \E denied \in BOOLEAN : FirstPageFails(r, denied)
        \/ LaterPageFails(r) \/ LaterPageDenied(r)
    BY <1>2 DEF Settle
  <2> QED BY <1>1, StaleAnswerRefines, FirstPageRefines, LaterPageRefines,
             FirstPageFailsRefines, LaterPageFailsRefines, LaterPageDeniedRefines
<1>3. CASE User
  BY <1>1, <1>3, LoadDirectoryRefines, RetryRefines, SetSortRefines, UnmountRefines DEF User
<1>4. CASE WorkerStep
  BY <1>1, <1>4, WorkerStepRefines
<1>5. CASE WorkerAnswer
  BY <1>1, <1>5, WorkerAnswerRefines
<1>6. CASE FallbackTimer
  BY <1>1, <1>6, FallbackTimerRefines
<1>7. CASE WorkerError
  BY <1>1, <1>7, WorkerErrorRefines
<1>8. CASE UNCHANGED vars
  <2>1. RInv'
    BY <1>8 DEF vars, pageVars, sorterVars, workerVars, RInv, SorterInv, OutFits, BoxFits, InStep,
                Now, GrowInv, WorkerHas, StateInv, StateOk, OrderBefore
  <2>2. UNCHANGED Promise!vars
    BY <1>8 DEF vars, pageVars, Promise!vars, StateSeen
  <2> QED BY <2>1, <2>2
<1> QED BY <1>2, <1>3, <1>4, <1>5, <1>6, <1>7, <1>8 DEF Next

\* Whatever the requests, the sorter, its worker and its timer do, and in whatever order
\* their answers come, the user sees DirectoryView: a table of the directory opened last,
\* in the order of the moment, that grows until it shows everything, and says so.
THEOREM ListingImplementsView == Spec => ImplementsView
<1>1. Init => IInv /\ RInv /\ Promise!Init
  BY InitInv, InitRefines
<1>2. IInv /\ RInv /\ [Next]_vars => (IInv /\ RInv)' /\ [Promise!Next]_(Promise!vars)
  BY NextInv, NextRefines
<1> QED BY <1>1, <1>2, PTL DEF Spec, ImplementsView, Promise!Spec
=============================================================================
