---------------------------- MODULE DirectoryView ----------------------------
(***************************************************************************)
(* What the user of the files page is promised about the table, with no    *)
(* request, worker, timer or accumulator: it shows entries of the          *)
(* directory opened last and of no other, in the order chosen last each    *)
(* time it is filled, past its first batch it only grows while the         *)
(* directory stays open, and it is declared complete exactly when it shows *)
(* everything.  Entries of before kept on the screen by a load that failed *)
(* at once do not count as shown. DirectoryListing implements it.          *)
(***************************************************************************)
EXTENDS Integers

CONSTANTS
  Sorts,      \* the sort orders
  Totals,     \* the numbers of entries a directory may have
  BatchSize   \* the entries shown at first, before anything is sorted

VARIABLES
  opened,      \* how many times a directory was opened
  total,       \* the entries of the directory opened last
  state,       \* idle, loading, filling, complete, interrupted, denied, closed
  shown,       \* how many entries the table shows
  shownOrder,  \* the order they are in
  order        \* the order chosen last

vars == <<opened, total, state, shown, shownOrder, order>>

Init ==
  /\ opened = 0 /\ total = 0 /\ state = "idle" /\ shown = 0
  /\ order \in Sorts /\ shownOrder = order

\* A directory is opened, or the same one again.
Open ==
  /\ state # "closed"
  /\ opened' = opened + 1
  /\ total' \in Totals
  /\ state' = "loading"
  /\ shown' = 0
  /\ UNCHANGED <<shownOrder, order>>

\* The table takes k entries, in the order of the moment.  While it shows no more
\* than a first batch it may take fewer, since two threads publish that batch, and
\* after access was denied it may take entries again; later it only grows.
FillFrom(before) ==
  \E k \in 0..total :
    /\ k > 0 \/ total = 0
    /\ k >= shown \/ shown <= BatchSize
    /\ shown' = k
    /\ shownOrder' = order'
    /\ state' = IF before \in {"denied", "interrupted"} THEN before
                ELSE IF k = total THEN "complete" ELSE "filling"

Keep(after) == state' = after /\ UNCHANGED <<shown, shownOrder>>

Fill ==
  /\ state \notin {"idle", "closed"}
  /\ FillFrom(state)
  /\ UNCHANGED <<opened, total, order>>

\* The order is changed; the table may follow at once.
ChangeOrder ==
  /\ state # "closed"
  /\ order' \in Sorts
  /\ Keep(state) \/ (state # "idle" /\ FillFrom(state))
  /\ UNCHANGED <<opened, total>>

\* Loading stops before the end; the table may show the rest of what came.
Interrupt ==
  /\ state \in {"loading", "filling"}
  /\ Keep("interrupted") \/ (state = "filling" /\ FillFrom("interrupted"))
  /\ UNCHANGED <<opened, total, order>>

\* An interrupted listing goes on from where it was.
Resume ==
  /\ state = "interrupted" /\ shown > 0
  /\ Keep("filling")
  /\ UNCHANGED <<opened, total, order>>

\* The directory turns out not to be readable: the table is emptied.
Deny ==
  /\ state \in {"loading", "filling"}
  /\ state' = "denied"
  /\ shown' = 0
  /\ UNCHANGED <<opened, total, shownOrder, order>>

Close ==
  /\ state # "closed"
  /\ Keep("closed")
  /\ UNCHANGED <<opened, total, order>>

Next == Open \/ Fill \/ ChangeOrder \/ Interrupt \/ Resume \/ Deny \/ Close

Spec == Init /\ [][Next]_vars
=============================================================================
