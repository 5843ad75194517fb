------------------------------ MODULE SalesLog ------------------------------
(***************************************************************************)
(* What the Session Log promises the backend (src/eventlog.h): one row per *)
(* closed session, numbered in the order they were filed with no hole and  *)
(* no number used twice, across resets; rows are never changed; and when   *)
(* the store is full it is the oldest rows that go.                        *)
(***************************************************************************)
EXTENDS Integers, Sequences, FiniteSets

CONSTANTS Capacity,   \* rows the store can hold
          Batch,      \* rows given up at a time to make room
          Depth,      \* closed sessions waiting to be filed
          MaxClosed   \* bound: sessions closed in a behaviour

(* The stores of which more can be said than that their types are right.   *)
StoreShape ==
    /\ Capacity \in Nat \ {0}
    /\ Batch \in 1..Capacity
    /\ Depth \in Nat
    /\ MaxClosed \in Nat

VARIABLES closed,    \* sessions closed so far; a session is known by its number
          pending,   \* closed sessions not filed yet
          rows,      \* rows[n] is the session filed n-th
          kept       \* the n whose rows can still be read

logVars == <<closed, pending, rows, kept>>

TypeOK ==
    /\ closed \in Nat
    /\ pending \in Seq(Nat)
    /\ rows \in Seq(Nat)
    /\ kept \subseteq 1..Len(rows)

Init ==
    /\ closed = 0
    /\ pending = <<>>
    /\ rows = <<>>
    /\ kept = {}

(* A session closes; it is lost if too many are waiting.                   *)
Close ==
    /\ closed < MaxClosed
    /\ closed' = closed + 1
    /\ pending' = IF Len(pending) < Depth THEN Append(pending, closed + 1)
                                          ELSE pending
    /\ UNCHANGED <<rows, kept>>

(* The oldest waiting session becomes the next row.                        *)
File ==
    /\ pending # <<>>
    /\ Cardinality(kept) < Capacity
    /\ rows' = Append(rows, Head(pending))
    /\ kept' = kept \cup {Len(rows) + 1}
    /\ pending' = Tail(pending)
    /\ UNCHANGED closed

(* A full store gives up its oldest rows.                                  *)
GiveUp ==
    /\ Cardinality(kept) = Capacity
    /\ kept' = {n \in kept : n > Len(rows) - Capacity + Batch}
    /\ UNCHANGED <<closed, pending, rows>>

(* A reset loses what was waiting and nothing that was filed.              *)
PowerCut ==
    /\ pending' = <<>>
    /\ UNCHANGED <<closed, rows, kept>>

Next == Close \/ File \/ GiveUp \/ PowerCut

Spec == Init /\ [][Next]_logVars

-----------------------------------------------------------------------------

(* What is kept is the newest rows, without a gap: a client whose cursor   *)
(* is in the window misses nothing (the rolling window of eventlog.h).     *)
KeptIsWindow ==
    \A n \in kept : \A m \in n..Len(rows) : m \in kept

(* Sessions are filed in the order they closed, none of them twice.        *)
FiledInOrder ==
    \A m, n \in 1..Len(rows) : m < n => rows[m] < rows[n]

=============================================================================
