-------------------------- MODULE DirectoryListing --------------------------
(***************************************************************************)
(* The listing of one directory on the files page: pages of entries are    *)
(* fetched one after the other, appended to two accumulators (one on the   *)
(* page's thread, one in a Web Worker that sorts), and shown as snapshots  *)
(* that carry the generation of the load and the revision of the sort      *)
(* order they belong to.  The user navigates, refreshes, changes the sort  *)
(* order and retries at any moment; requests fail or time out; the worker  *)
(* may be slow, silent, dead or absent.                                    *)
(*                                                                         *)
(* Entries are counted, not named: a directory is a sequence, d[k] being   *)
(* the number of entries in its first k pages, and a cursor is the number  *)
(* of the next page.  What counts as shown is what the load under way has  *)
(* shown (directoryLoadedCount): entries of before, which stay on the      *)
(* screen when a first page fails with preserveOnError, are left out.      *)
(***************************************************************************)
EXTENDS Integers, Sequences, FiniteSets

CONSTANTS
  PageSize,         \* DIRECTORY_PAGE_SIZE, 128 in the code
  Directories,      \* the page sequences a directory may have when it is loaded
  Sorts,            \* the sort orders: a field and a direction
  MaxGenerations,   \* bound: loads started
  MaxSortChanges,   \* bound: clicks on the sort buttons
  MaxFailures       \* bound: page requests that fail or time out

\* The entries in the first k pages of a directory, and those of page k.
EntriesOf(d, k) == IF k = 0 THEN 0 ELSE d[k]
PageLength(d, k) == EntriesOf(d, k) - EntriesOf(d, k - 1)

\* A page is never longer than was asked for, and only an empty directory has an
\* empty page: the server does not announce more entries where there are none.
ASSUME PageAssumption ==
  /\ PageSize \in Nat \ {0}
  /\ \A d \in Directories :
       /\ d \in Seq(Nat)
       /\ Len(d) > 0
       /\ \A k \in 1..Len(d) : /\ PageLength(d, k) \in 0..PageSize
                               /\ Len(d) > 1 => PageLength(d, k) > 0
ASSUME SortAssumption == Sorts # {}
ASSUME BoundAssumption ==
  {MaxGenerations, MaxSortChanges, MaxFailures} \subseteq Nat

VARIABLES
  generation,     \* directoryGeneration = directoryLoader.generation
  directory,      \* the pages of the directory each generation loads
  sortRevision,   \* sortRevision
  sort,           \* sortField and sortDirection
  view,           \* what the page shows: see ViewType
  requests,       \* page requests in flight, of any generation
  awaiting,       \* firstSnapshot: the load that waits for its first snapshot
  client,         \* fallbackGeneration, fallbackRevision, fallback sort, accumulator
  pending,        \* pendingFallbackSnapshot; its timer runs while it is set
  lastPublished,  \* lastPublishedSnapshot
  workerUp,       \* progressiveWorker # null
  inbox,          \* messages posted to the worker
  outbox,         \* snapshots posted by the worker
  worker,         \* progressiveState and the worker's accumulator
  mounted,        \* the files page is displayed
  failures,       \* requests that failed so far
  sortChanges     \* sort changes so far

pageVars == <<generation, directory, sortRevision, sort, view, requests, awaiting>>
sorterVars == <<client, pending, lastPublished>>
workerVars == <<workerUp, inbox, outbox, worker>>
counters == <<failures, sortChanges>>
vars == <<pageVars, sorterVars, workerVars, mounted, counters>>

None == [none |-> TRUE]

-----------------------------------------------------------------------------
(* The accumulator of progressive-listing.ts, used on both threads. *)

EmptyAccumulator ==
  [pages |-> 0, loadedCount |-> 0, nextPublishAt |-> PageSize,
   complete |-> FALSE, published |-> FALSE]

\* The first of n, 2n, 4n, ... that is greater than count; a page adds at most
\* PageSize entries, so one doubling is enough once n has been passed.
NextMilestone(n, count) == IF n <= count THEN 2 * n ELSE n

\* A snapshot is built for the first page, at each milestone and at the end.
Publishes(acc, count, complete) ==
  complete \/ ~acc.published \/ count >= acc.nextPublishAt

AppendPage(acc, size, complete) ==
  LET count == acc.loadedCount + size
      publishes == Publishes(acc, count, complete)
  IN [pages |-> acc.pages + 1,
      loadedCount |-> count,
      nextPublishAt |-> IF publishes THEN NextMilestone(acc.nextPublishAt, count)
                                     ELSE acc.nextPublishAt,
      complete |-> complete,
      published |-> acc.published \/ publishes]

SnapshotOf(acc, g, revision, order) ==
  [generation |-> g, revision |-> revision, sort |-> order, pages |-> acc.pages,
   loadedCount |-> acc.loadedCount, complete |-> acc.complete]

HasNothing(acc) == acc.loadedCount = 0 /\ ~acc.complete

-----------------------------------------------------------------------------
(* What the page does with a snapshot, and with the load that waited for it. *)

IsCurrent(g) == g = generation

\* publishSnapshot drops a snapshot equal, but for its order, to the last one.
Repeated(s) ==
  /\ lastPublished # None
  /\ <<s.generation, s.revision, s.loadedCount, s.complete>>
       = <<lastPublished.generation, lastPublished.revision,
           lastPublished.loadedCount, lastPublished.complete>>

\* Mutant: every snapshot is shown.
AppliesAlways(s, revision) == TRUE

\* Mutant: the order a snapshot was sorted in is not compared.
AppliesInAnyOrder(s, revision) == s.generation = generation

\* The first guard of handleDirectorySnapshot.
Applies(s, revision) == s.generation = generation /\ s.revision = revision

Shown(v, s) ==
  [v EXCEPT !.pages = s.pages, !.count = s.loadedCount, !.sort = s.sort,
            !.from = s.generation, !.loading = FALSE,
            !.cursor = IF s.complete THEN 0 ELSE @,
            !.phase = IF s.complete THEN "complete"
                      ELSE IF @ = "partial-error" THEN @ ELSE "loading-more"]

\* continueDirectoryLoad up to its first await: the next page is requested.
Continuing(v, cursor) == [v EXCEPT !.phase = "loading-more", !.cursor = cursor]

PageRequest(g, cursor, revision) ==
  [generation |-> g, cursor |-> cursor, revision |-> revision]

\* publishSnapshot(s) with the page in state v, a load waiting as w and the
\* requests rs.  When the snapshot is the one the load waits for, the load goes
\* on before any other event is handled.
Publish(s, revision, v, w, rs) ==
  IF s = None \/ Repeated(s)
  THEN /\ view' = v /\ awaiting' = w /\ requests' = rs
       /\ UNCHANGED lastPublished
  ELSE /\ lastPublished' = s
       /\ IF ~Applies(s, revision)
          THEN view' = v /\ awaiting' = w /\ requests' = rs
          ELSE IF w # None /\ w.generation = s.generation
               THEN /\ awaiting' = None
                    /\ IF w.cursor = 0
                       THEN view' = Shown(v, s) /\ requests' = rs
                       ELSE /\ view' = Continuing(Shown(v, s), w.cursor)
                            /\ requests' = rs \union
                                 {PageRequest(s.generation, w.cursor, 0)}
               ELSE view' = Shown(v, s) /\ awaiting' = w /\ requests' = rs

-----------------------------------------------------------------------------
(* The client side of the sorter, sort-worker-client.ts. *)

\* disableWorker: the worker and every message to or from it are gone.
WorkerGone ==
  workerUp' = FALSE /\ inbox' = <<>> /\ outbox' = <<>> /\ worker' = None

\* Besides its content a message carries "pages", the pages the sender has so far:
\* nothing reads it, the proofs relate the two accumulators with it.

\* postMessage in a try: it reaches the worker, or throws and disables it.
\* The timer of the pending snapshot stops, the snapshot is only forgotten later.
Post(m) ==
  \/ workerUp /\ inbox' = Append(inbox, m)
     /\ UNCHANGED <<workerUp, outbox, worker>>
  \/ workerUp /\ WorkerGone
  \/ ~workerUp /\ UNCHANGED workerVars

\* reset
ResetSorter(g, revision) ==
  /\ client' = [generation |-> g, revision |-> revision, sort |-> sort,
                acc |-> EmptyAccumulator]
  /\ pending' = None
  /\ Post([kind |-> "reset", generation |-> g, revision |-> revision, sort |-> sort,
           pages |-> 0])

\* The end of append and of resort: without a worker the snapshot is published,
\* with one it waits for the worker's own; a first page does both.
PublishOrArm(s, atOnce, revision, v, w, rs) ==
  /\ pending' = IF workerUp' /\ s # None THEN s ELSE pending
  /\ Publish(IF ~workerUp' \/ atOnce THEN s ELSE None, revision, v, w, rs)

\* append
AppendToSorter(g, revision, size, complete, v, w, rs) ==
  LET acc == AppendPage(client.acc, size, complete)
      s == IF Publishes(client.acc, acc.loadedCount, complete)
           THEN SnapshotOf(acc, g, revision, client.sort) ELSE None
  IN IF g # client.generation
     THEN /\ view' = v /\ awaiting' = w /\ requests' = rs
          /\ UNCHANGED <<sorterVars, workerVars>>
     ELSE /\ client' = [client EXCEPT !.revision = revision, !.acc = acc]
          /\ Post([kind |-> "append", generation |-> g, revision |-> revision,
                   size |-> size, complete |-> complete, pages |-> acc.pages])
          /\ PublishOrArm(s, acc.loadedCount <= PageSize, sortRevision, v, w, rs)

\* resort, called with the page's new revision and order
ResortSorter(g, revision, order, v, w, rs) ==
  LET s == SnapshotOf(client.acc, g, revision, order)
  IN /\ client' = [client EXCEPT !.revision = revision, !.sort = order]
     /\ IF g # client.generation \/ HasNothing(client.acc)
        THEN /\ view' = v /\ awaiting' = w /\ requests' = rs
             /\ UNCHANGED <<pending, lastPublished, workerVars>>
        ELSE /\ Post([kind |-> "resort", generation |-> g, revision |-> revision,
                      sort |-> order, pages |-> client.acc.pages])
             /\ PublishOrArm(s, FALSE, revision, v, w, rs)

-----------------------------------------------------------------------------
(* The page: loading a directory. *)

Init ==
  /\ generation = 0
  /\ directory = << >>
  /\ sortRevision = 0
  /\ sort \in Sorts
  /\ view = [phase |-> "idle", loading |-> FALSE, pages |-> 0, count |-> 0,
             sort |-> sort, from |-> 0, cursor |-> 0, denied |-> FALSE]
  /\ requests = {}
  /\ awaiting = None
  /\ client = [generation |-> 0, revision |-> 0, sort |-> sort,
               acc |-> EmptyAccumulator]
  /\ pending = None
  /\ lastPublished = None
  /\ workerUp \in BOOLEAN
  /\ inbox = <<>>
  /\ outbox = <<>>
  /\ worker = None
  /\ mounted = TRUE
  /\ failures = 0
  /\ sortChanges = 0

\* loadDirectory up to its first await: by navigation, by refresh, after an
\* operation on files, or by retrying a load that failed on its first page.
LoadDirectory(d) ==
  /\ mounted
  /\ generation < MaxGenerations
  /\ generation' = generation + 1
  /\ directory' = Append(directory, d)
  /\ sortRevision' = sortRevision + 1
  /\ view' = [view EXCEPT !.phase = "initial-loading", !.loading = TRUE,
                          !.pages = 0, !.count = 0, !.cursor = 0, !.denied = FALSE]
  /\ requests' = requests \union {PageRequest(generation', 1, sortRevision')}
  /\ ResetSorter(generation', sortRevision')
  /\ UNCHANGED <<sort, awaiting, lastPublished, mounted, counters>>

HasMore(r) == r.cursor < Len(directory[r.generation])
NextCursor(r) == IF HasMore(r) THEN r.cursor + 1 ELSE 0

\* The answer of a request whose load is no longer current, or its failure.
StaleAnswer(r) ==
  /\ ~IsCurrent(r.generation)
  /\ requests' = requests \ {r}
  /\ UNCHANGED <<generation, directory, sortRevision, sort, view, awaiting,
                 sorterVars, workerVars, mounted, counters>>

\* loadDirectory after its first page: the page is appended with the revision
\* the load was started with, and the load waits for its first snapshot.
FirstPage(r) ==
  /\ IsCurrent(r.generation)
  /\ r.cursor = 1
  /\ AppendToSorter(r.generation, r.revision, PageLength(directory[r.generation], 1), ~HasMore(r),
                    [view EXCEPT !.cursor = NextCursor(r)],
                    [generation |-> r.generation, cursor |-> NextCursor(r)],
                    requests \ {r})
  /\ UNCHANGED <<generation, directory, sortRevision, sort, mounted, counters>>

\* Mutant: the cursor is not advanced.
LaterPageAgain(r) ==
  /\ IsCurrent(r.generation)
  /\ r.cursor > 1
  /\ AppendToSorter(r.generation, sortRevision, PageLength(directory[r.generation], r.cursor),
                    ~HasMore(r), [view EXCEPT !.cursor = NextCursor(r)], awaiting, requests)
  /\ UNCHANGED <<generation, directory, sortRevision, sort, mounted, counters>>

\* DirectoryLoadController.continue and its onPage: a later page is appended with
\* the revision of now, and the next page is requested.
LaterPage(r) ==
  /\ IsCurrent(r.generation)
  /\ r.cursor > 1
  /\ AppendToSorter(r.generation, sortRevision, PageLength(directory[r.generation], r.cursor),
                    ~HasMore(r), [view EXCEPT !.cursor = NextCursor(r)], awaiting,
                    (requests \ {r}) \union
                      (IF HasMore(r) THEN {PageRequest(r.generation, r.cursor + 1, 0)}
                                     ELSE {}))
  /\ UNCHANGED <<generation, directory, sortRevision, sort, mounted, counters>>

\* showDirectoryAccessDenied: the listing is emptied, the generation is kept.
Denied(v) == [v EXCEPT !.phase = "idle", !.loading = FALSE, !.pages = 0, !.count = 0,
                       !.cursor = 0, !.denied = TRUE]

\* Mutant: nobody takes the spinner away.
FirstPageFailsLoading(r, denied) ==
  /\ IsCurrent(r.generation)
  /\ r.cursor = 1
  /\ failures < MaxFailures
  /\ failures' = failures + 1
  /\ requests' = requests \ {r}
  /\ view' = IF denied THEN Denied(view) ELSE [view EXCEPT !.phase = "initial-loading"]
  /\ UNCHANGED <<generation, directory, sortRevision, sort, awaiting, sorterVars,
                 workerVars, mounted, sortChanges>>

\* A request fails or times out: the first one, which leaves nothing to show.
FirstPageFails(r, denied) ==
  /\ IsCurrent(r.generation)
  /\ r.cursor = 1
  /\ failures < MaxFailures
  /\ failures' = failures + 1
  /\ requests' = requests \ {r}
  /\ view' = IF denied THEN Denied(view)
             ELSE [view EXCEPT !.phase = "partial-error", !.loading = FALSE]
  /\ UNCHANGED <<generation, directory, sortRevision, sort, awaiting, sorterVars,
                 workerVars, mounted, sortChanges>>

\* A later one, while access is still granted: what was loaded is shown in full.
LaterPageFails(r) ==
  /\ IsCurrent(r.generation)
  /\ r.cursor > 1
  /\ failures < MaxFailures
  /\ failures' = failures + 1
  /\ ResortSorter(r.generation, sortRevision, sort,
                  [view EXCEPT !.phase = "partial-error", !.cursor = r.cursor],
                  awaiting, requests \ {r})
  /\ UNCHANGED <<generation, directory, sortRevision, sort, mounted, sortChanges>>

LaterPageDenied(r) ==
  /\ IsCurrent(r.generation)
  /\ r.cursor > 1
  /\ failures < MaxFailures
  /\ failures' = failures + 1
  /\ requests' = requests \ {r}
  /\ view' = Denied(view)
  /\ UNCHANGED <<generation, directory, sortRevision, sort, awaiting, sorterVars,
                 workerVars, mounted, sortChanges>>

\* Mutant: a retry goes on from a cursor even where there is none.
RetryWithoutCursor ==
  /\ mounted
  /\ view.phase = "partial-error"
  /\ view' = Continuing(view, view.cursor)
  /\ requests' = requests \union {PageRequest(generation, view.cursor, 0)}
  /\ UNCHANGED <<generation, directory, sortRevision, sort, awaiting, sorterVars,
                 workerVars, mounted, counters>>

\* retryDirectoryLoad with something shown; without, it is a LoadDirectory.
RetryDirectoryLoad ==
  /\ mounted
  /\ view.phase = "partial-error"
  /\ view.cursor # 0
  /\ view.count > 0
  /\ view' = Continuing(view, view.cursor)
  /\ requests' = requests \union {PageRequest(generation, view.cursor, 0)}
  /\ UNCHANGED <<generation, directory, sortRevision, sort, awaiting, sorterVars,
                 workerVars, mounted, counters>>

\* setSort
SetSort(order) ==
  /\ mounted
  /\ sortChanges < MaxSortChanges
  /\ sortChanges' = sortChanges + 1
  /\ order # sort
  /\ sort' = order
  /\ sortRevision' = sortRevision + 1
  /\ ResortSorter(generation, sortRevision', order, view, awaiting, requests)
  /\ UNCHANGED <<generation, directory, mounted, failures>>

\* The function onMount returns: the page is left.
Unmount ==
  /\ mounted
  /\ mounted' = FALSE
  /\ generation' = generation + 1
  /\ awaiting' = None
  /\ pending' = None
  /\ WorkerGone
  /\ client' = [client EXCEPT !.generation = @ + 1]
  /\ UNCHANGED <<directory, sortRevision, sort, view, requests, lastPublished, counters>>

-----------------------------------------------------------------------------
(* The worker, file-sort.worker.ts, and the answers of the worker. *)

WorkerAccepts(m) == worker # None /\ worker.generation = m.generation

WorkerStep ==
  /\ inbox # <<>>
  /\ LET m == Head(inbox) IN
     /\ inbox' = Tail(inbox)
     /\ \/ /\ m.kind = "reset"
           /\ worker' = [generation |-> m.generation, sort |-> m.sort,
                         acc |-> EmptyAccumulator]
           /\ UNCHANGED outbox
        \/ /\ m.kind = "append" /\ WorkerAccepts(m)
           /\ LET acc == AppendPage(worker.acc, m.size, m.complete) IN
              /\ worker' = [worker EXCEPT !.acc = acc]
              /\ outbox' = IF Publishes(worker.acc, acc.loadedCount, m.complete)
                           THEN Append(outbox, SnapshotOf(acc, m.generation, m.revision,
                                                          worker.sort))
                           ELSE outbox
        \/ /\ m.kind = "resort" /\ WorkerAccepts(m)
           /\ worker' = [worker EXCEPT !.sort = m.sort]
           /\ outbox' = IF HasNothing(worker.acc) THEN outbox
                        ELSE Append(outbox, SnapshotOf(worker.acc, m.generation,
                                                       m.revision, m.sort))
        \/ /\ m.kind # "reset" /\ ~WorkerAccepts(m)
           /\ UNCHANGED <<worker, outbox>>
  /\ UNCHANGED <<pageVars, sorterVars, workerUp, mounted, counters>>

\* Mutant: any answer of the same load and order will do.
AnswersWithLess(s) ==
  /\ pending # None
  /\ s.generation = pending.generation
  /\ s.revision = pending.revision

\* Mutant: an answer in an older order will do.
AnswersInAnyOrder(s) ==
  /\ pending # None
  /\ s.generation = pending.generation
  /\ s.loadedCount >= pending.loadedCount

\* onmessage: the pending snapshot is no longer needed once the worker has sent
\* as much of the same load in the same order.
Answers(s) ==
  /\ pending # None
  /\ s.generation = pending.generation
  /\ s.revision = pending.revision
  /\ s.loadedCount >= pending.loadedCount

WorkerAnswer ==
  /\ outbox # <<>>
  /\ outbox' = Tail(outbox)
  /\ pending' = IF Answers(Head(outbox)) THEN None ELSE pending
  /\ Publish(Head(outbox), sortRevision, view, awaiting, requests)
  /\ UNCHANGED <<generation, directory, sortRevision, sort, client, workerUp, inbox,
                 worker, mounted, counters>>

\* publishPendingFallback, one second after the snapshot was armed
FallbackTimer ==
  /\ workerUp
  /\ pending # None
  /\ pending' = None
  /\ WorkerGone
  /\ Publish(pending, sortRevision, view, awaiting, requests)
  /\ UNCHANGED <<generation, directory, sortRevision, sort, client, mounted, counters>>

\* onerror and onmessageerror
SnapshotFallback ==
  IF pending # None THEN pending
  ELSE IF HasNothing(client.acc) THEN None
  ELSE SnapshotOf(client.acc, client.generation, client.revision, client.sort)

WorkerError ==
  /\ workerUp
  /\ pending' = None
  /\ WorkerGone
  /\ Publish(SnapshotFallback, sortRevision, view, awaiting, requests)
  /\ UNCHANGED <<generation, directory, sortRevision, sort, client, mounted, counters>>

-----------------------------------------------------------------------------

Settle ==
  \E r \in requests :
    \/ StaleAnswer(r)
    \/ FirstPage(r)
    \/ LaterPage(r)
    \/ \E denied \in BOOLEAN : FirstPageFails(r, denied)
    \/ LaterPageFails(r)
    \/ LaterPageDenied(r)

User ==
  \/ \E d \in Directories : LoadDirectory(d)
  \/ RetryDirectoryLoad
  \/ \E order \in Sorts : SetSort(order)
  \/ Unmount

Next == Settle \/ User \/ WorkerStep \/ WorkerAnswer \/ FallbackTimer \/ WorkerError

\* A request settles, by its timeout at the latest, and a timer fires; the worker
\* need not do anything and the user neither.
Spec == Init /\ [][Next]_vars /\ WF_vars(Settle) /\ WF_vars(FallbackTimer)

-----------------------------------------------------------------------------
(* Properties. *)

Phases == {"idle", "initial-loading", "loading-more", "complete", "partial-error"}

Views == [phase : Phases, loading : BOOLEAN, denied : BOOLEAN, sort : Sorts,
          pages : Nat, count : Nat, cursor : Nat, from : Nat]

Accumulators == [pages : Nat, loadedCount : Nat, nextPublishAt : Nat,
                 complete : BOOLEAN, published : BOOLEAN]

Snapshots == [generation : Nat, revision : Nat, sort : Sorts, pages : Nat,
              loadedCount : Nat, complete : BOOLEAN]

Messages ==
  [kind : {"reset", "resort"}, generation : Nat, revision : Nat, sort : Sorts,
   pages : Nat]
    \union
  [kind : {"append"}, generation : Nat, revision : Nat, size : Nat,
   complete : BOOLEAN, pages : Nat]

\* Every variable has its type.
TypeOK ==
  /\ generation \in Nat /\ sortRevision \in Nat /\ sort \in Sorts
  /\ directory \in Seq(Directories)
  /\ view \in Views
  /\ requests \subseteq [generation : Nat, cursor : Nat \ {0}, revision : Nat]
  /\ awaiting \in {None} \union [generation : Nat, cursor : Nat]
  /\ client \in [generation : Nat, revision : Nat, sort : Sorts, acc : Accumulators]
  /\ {pending, lastPublished} \subseteq {None} \union Snapshots
  /\ inbox \in Seq(Messages) /\ outbox \in Seq(Snapshots)
  /\ worker \in {None} \union [generation : Nat, sort : Sorts, acc : Accumulators]
  /\ workerUp \in BOOLEAN /\ mounted \in BOOLEAN
  /\ failures \in 0..MaxFailures /\ sortChanges \in 0..MaxSortChanges

\* What the page shows of a load is a prefix of that directory, and of no
\* directory left before: an answer of an earlier load never reaches the table.
ShownBelongsToDirectory ==
  (mounted /\ view.pages > 0) =>
    /\ view.from = generation
    /\ view.pages <= Len(directory[generation])
    /\ view.count = EntriesOf(directory[generation], view.pages)

\* The listing is declared complete only when it shows every page, once.
CompleteShowsEverything ==
  (mounted /\ view.phase = "complete") => view.pages = Len(directory[generation])

\* One load fetches one page at a time, and the accumulator of the page's
\* thread holds exactly the pages before the one asked for.
OnePageAtATime ==
  \A r \in requests : r.generation = generation =>
    /\ \A q \in requests : q.generation = generation => q = r
    /\ client.generation = generation /\ client.acc.pages = r.cursor - 1

\* What the phase of the load and the page tell the user.
StateSeen ==
  CASE ~mounted -> "closed"
    [] mounted /\ view.denied -> "denied"
    [] mounted /\ ~view.denied /\ view.phase = "initial-loading" -> "loading"
    [] mounted /\ ~view.denied /\ view.phase = "loading-more" -> "filling"
    [] mounted /\ ~view.denied /\ view.phase = "partial-error" -> "interrupted"
    [] OTHER -> view.phase

\* The promise of DirectoryView, seen through what the page displays.
Promise == INSTANCE DirectoryView WITH
  BatchSize <- PageSize,
  Totals <- {EntriesOf(d, Len(d)) : d \in Directories},
  opened <- Len(directory),
  total <- IF directory = <<>> THEN 0
           ELSE EntriesOf(directory[Len(directory)], Len(directory[Len(directory)])),
  state <- StateSeen,
  shown <- view.count,
  shownOrder <- view.sort,
  order <- sort

\* The table never shows another directory, an older order, fewer entries than
\* before, or a part of a directory as the whole: DirectoryListing implements
\* DirectoryView.
ImplementsView == Promise!Spec

EarlySort == awaiting # None /\ awaiting.generation = generation

\* The spinner of the first page goes away, even when the request never settles
\* by itself and the worker is silent - unless the user sorted before the page
\* came: setSort then outdates the revision the load waits for.
LoadingEnds == view.loading ~> (~view.loading \/ EarlySort \/ ~mounted)

\* A listing that has begun to load more ends complete, interrupted or denied,
\* with a silent worker too.
ListingSettles ==
  (view.phase = "loading-more") ~>
    (view.phase \in {"complete", "partial-error"} \/ view.denied \/ view.loading
       \/ ~mounted)

\* A change of the order reaches the table that shows something.
OrderReachesTable ==
  (view.count > 0 /\ view.sort # sort) ~>
    (view.sort = sort \/ view.loading \/ view.denied \/ ~mounted)
=============================================================================
