----------------------------- MODULE BatchStore -----------------------------
(***************************************************************************)
(* What the database client promises to the rest of the crawler.  Items    *)
(* are accepted in the order 1, 2, 3, ...; each goes into the batch of one *)
(* writer.  One transaction writes all the items of one batch, or the      *)
(* batch is lost as a whole.  A writer that does not learn that its        *)
(* transaction was committed keeps the batch as it is and may write it     *)
(* again, up to MaxWrites times.                                           *)
(***************************************************************************)
EXTENDS Naturals

CONSTANTS
  Writers,
  Items,       \* the items there may be, numbered from 1
  MaxWrites    \* how often a batch may be written

VARIABLES
  accepted,   \* number of items accepted so far
  batch,      \* for each writer, the items of its batch
  stored,     \* for each item, how often it has been written to the tables
  lost        \* items that will never be there

vars == <<accepted, batch, stored, lost>>

Init ==
  /\ accepted = 0
  /\ batch = [w \in Writers |-> {}]
  /\ stored = [n \in Items |-> 0]
  /\ lost = {}

Pending ==
  {n \in 1..accepted : /\ stored[n] = 0
                       /\ n \notin lost
                       /\ \A w \in Writers : n \notin batch[w]}

Unwritten(w) == {n \in batch[w] : stored[n] = 0}

Accept ==
  /\ accepted' = accepted + 1
  /\ UNCHANGED <<batch, stored, lost>>

\* A batch that has been written takes no more items.
Gather(w, n) ==
  /\ Unwritten(w) = batch[w]
  /\ batch' = [batch EXCEPT ![w] = batch[w] \cup {n}]
  /\ UNCHANGED <<accepted, stored, lost>>

\* An item that needs no query.
Skip(n) ==
  /\ lost' = lost \cup {n}
  /\ UNCHANGED <<accepted, batch, stored>>

StoreBatch(w) ==
  /\ \A n \in batch[w] : stored[n] < MaxWrites
  /\ stored' = [n \in Items |-> IF n \in batch[w] THEN stored[n] + 1 ELSE stored[n]]
  /\ batch' = [batch EXCEPT ![w] = {}] \/ batch' = batch
  /\ UNCHANGED <<accepted, lost>>

LoseBatch(w) ==
  /\ lost' = lost \cup Unwritten(w)
  /\ batch' = [batch EXCEPT ![w] = {}]
  /\ UNCHANGED <<accepted, stored>>

Next ==
  \/ Accept
  \/ \E n \in Pending : Skip(n) \/ \E w \in Writers : Gather(w, n)
  \/ \E w \in Writers : StoreBatch(w) \/ LoseBatch(w)

Spec == Init /\ [][Next]_vars

=============================================================================
