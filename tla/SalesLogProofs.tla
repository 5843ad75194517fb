--------------------------- MODULE SalesLogProofs ---------------------------
(* Proofs about the promise of the Session Log, for every store and bound.  *)
EXTENDS SalesLog, TLAPS

(* Sessions wait in the order they closed, and behind every filed one.     *)
WaitInOrder ==
    /\ \A m \in 1..Len(rows), k \in 1..Len(pending) : rows[m] < pending[k]
    /\ \A j, k \in 1..Len(pending) : j < k => pending[j] < pending[k]
    /\ \A k \in 1..Len(pending) : pending[k] <= closed
    /\ \A m \in 1..Len(rows) : rows[m] <= closed

LogInv == TypeOK /\ WaitInOrder /\ KeptIsWindow /\ FiledInOrder

(* The store starts empty, with nothing waiting.                           *)
LEMMA LogInit == Init => LogInv
  BY DEF Init, LogInv, TypeOK, WaitInOrder, KeptIsWindow, FiledInOrder

(* No step of the log breaks the invariant.                                *)
LEMMA LogStep == ASSUME StoreShape PROVE LogInv /\ [Next]_logVars => LogInv'
  <1> SUFFICES ASSUME LogInv, [Next]_logVars PROVE LogInv'
    OBVIOUS
  <1> USE StoreShape DEF LogInv, TypeOK, StoreShape
  <1>1. CASE Close
    <2>1. CASE Len(pending) < Depth
      <3>1. /\ closed' = closed + 1
            /\ pending' = Append(pending, closed + 1)
            /\ rows' = rows /\ kept' = kept
        BY <1>1, <2>1 DEF Close
      <3>2. TypeOK'
        BY <3>1
      <3>3. /\ Len(pending') = Len(pending) + 1
            /\ \A k \in 1..Len(pending) : pending'[k] = pending[k]
            /\ pending'[Len(pending) + 1] = closed + 1
        BY <3>1
      <3>4. WaitInOrder'
        <4>1. \A k \in 1..Len(pending') :
                 \/ k \in 1..Len(pending) /\ pending'[k] = pending[k]
                 \/ k = Len(pending) + 1 /\ pending'[k] = closed + 1
          BY <3>3
        <4>2. \A m \in 1..Len(rows) : rows[m] \in Nat
          OBVIOUS
        <4>3. \A m \in 1..Len(rows'), k \in 1..Len(pending') :
                 rows'[m] < pending'[k]
          BY <3>1, <4>1, <4>2 DEF WaitInOrder
        <4>4. \A k \in 1..Len(pending) : pending[k] \in Nat
          OBVIOUS
        <4>5. \A j, k \in 1..Len(pending') : j < k => pending'[j] < pending'[k]
          <5> SUFFICES ASSUME NEW j \in 1..Len(pending'),
                              NEW k \in 1..Len(pending'), j < k
                       PROVE  pending'[j] < pending'[k]
            OBVIOUS
          <5>1. j \in 1..Len(pending) /\ pending'[j] = pending[j]
            BY <3>3, <4>1
          <5>2. pending[j] \in Nat /\ pending[j] <= closed
            BY <4>4, <5>1 DEF WaitInOrder
          <5>3. CASE k \in 1..Len(pending) /\ pending'[k] = pending[k]
            BY <5>1, <5>3 DEF WaitInOrder
          <5>4. CASE k = Len(pending) + 1 /\ pending'[k] = closed + 1
            BY <5>1, <5>2, <5>4
          <5> QED BY <4>1, <5>3, <5>4
        <4>6. \A k \in 1..Len(pending') : pending'[k] <= closed'
          BY <3>1, <4>1, <4>4 DEF WaitInOrder
        <4>7. \A m \in 1..Len(rows') : rows'[m] <= closed'
          BY <3>1, <4>2 DEF WaitInOrder
        <4> QED BY <4>3, <4>5, <4>6, <4>7 DEF WaitInOrder
      <3>5. KeptIsWindow' /\ FiledInOrder'
        BY <3>1 DEF KeptIsWindow, FiledInOrder
      <3> QED BY <3>2, <3>4, <3>5
    <2>2. CASE ~(Len(pending) < Depth)
      <3>1. closed' = closed + 1 /\ pending' = pending /\ rows' = rows /\ kept' = kept
        BY <1>1, <2>2 DEF Close
      <3> QED BY <3>1 DEF WaitInOrder, KeptIsWindow, FiledInOrder
    <2> QED BY <2>1, <2>2
  <1>2. CASE File
    <2>1. /\ pending # <<>>
          /\ rows' = Append(rows, Head(pending))
          /\ pending' = Tail(pending)
          /\ kept' = kept \cup {Len(rows) + 1}
          /\ closed' = closed
      BY <1>2 DEF File
    <2>2. /\ Head(pending) = pending[1]
          /\ Head(pending) \in Nat
          /\ Len(pending) \in Nat \ {0}
          /\ Len(pending') = Len(pending) - 1
          /\ \A k \in 1..Len(pending') : pending'[k] = pending[k + 1]
      BY <2>1
    <2>3. /\ Len(rows') = Len(rows) + 1
          /\ \A m \in 1..Len(rows) : rows'[m] = rows[m]
          /\ rows'[Len(rows) + 1] = pending[1]
      BY <2>1, <2>2
    <2>4. TypeOK'
      <3>1. rows' \in Seq(Nat) /\ pending' \in Seq(Nat)
        BY <2>1, <2>2
      <3>2. kept' \subseteq 1..Len(rows')
        <4> SUFFICES ASSUME NEW n \in kept' PROVE n \in 1..Len(rows')
          OBVIOUS
        <4>1. Len(rows) \in Nat
          OBVIOUS
        <4>2. CASE n \in kept
          <5>1. n \in 1..Len(rows)
            BY <4>2
          <5> QED BY <2>3, <4>1, <5>1
        <4>3. CASE n = Len(rows) + 1
          BY <2>3, <4>1, <4>3
        <4> QED BY <2>1, <4>2, <4>3
      <3> QED BY <2>1, <3>1, <3>2
    <2>5. WaitInOrder'
      BY <2>1, <2>2, <2>3 DEF WaitInOrder
    <2>6. KeptIsWindow'
      BY <2>1, <2>3 DEF KeptIsWindow
    <2>7. FiledInOrder'
      <3>1. \A m \in 1..Len(rows) : rows[m] < pending[1]
        BY <2>2 DEF WaitInOrder
      <3> SUFFICES ASSUME NEW m \in 1..Len(rows'), NEW n \in 1..Len(rows'), m < n
                   PROVE  rows'[m] < rows'[n]
        BY DEF FiledInOrder
      <3>2. m \in 1..Len(rows) /\ rows'[m] = rows[m]
        BY <2>3
      <3>3. CASE n \in 1..Len(rows)
        BY <2>3, <3>2, <3>3 DEF FiledInOrder
      <3>4. CASE n = Len(rows) + 1
        BY <2>3, <3>1, <3>2, <3>4
      <3> QED BY <2>3, <3>3, <3>4
    <2> QED BY <2>4, <2>5, <2>6, <2>7
  <1>3. CASE GiveUp
    <2>1. /\ kept' = {n \in kept : n > Len(rows) - Capacity + Batch}
          /\ closed' = closed /\ pending' = pending /\ rows' = rows
      BY <1>3 DEF GiveUp
    <2>2. KeptIsWindow'
      <3> SUFFICES ASSUME NEW n \in kept', NEW m \in n..Len(rows')
                   PROVE  m \in kept'
        BY DEF KeptIsWindow
      <3>1. n \in kept /\ n > Len(rows) - Capacity + Batch /\ n \in Nat
        BY <2>1
      <3>2. m \in kept
        BY <2>1, <3>1 DEF KeptIsWindow
      <3>3. m > Len(rows) - Capacity + Batch
        BY <2>1, <3>1
      <3> QED BY <2>1, <3>2, <3>3
    <2>3. TypeOK' /\ WaitInOrder' /\ FiledInOrder'
      BY <2>1 DEF WaitInOrder, FiledInOrder
    <2> QED BY <2>2, <2>3
  <1>4. CASE PowerCut
    <2>1. pending' = <<>> /\ closed' = closed /\ rows' = rows /\ kept' = kept
      BY <1>4 DEF PowerCut
    <2> QED BY <2>1 DEF WaitInOrder, KeptIsWindow, FiledInOrder
  <1>5. CASE UNCHANGED logVars
    BY <1>5 DEF logVars, WaitInOrder, KeptIsWindow, FiledInOrder
  <1> QED BY <1>1, <1>2, <1>3, <1>4, <1>5 DEF Next

(* The Session Log's rows stay in the order the sessions closed, none      *)
(* twice, and what can still be read is the newest rows without a gap:     *)
(* the promise of eventlog.h, for every capacity, batch and queue depth.   *)
THEOREM RollingWindow ==
    ASSUME StoreShape PROVE Spec => [](KeptIsWindow /\ FiledInOrder)
  <1>1. LogInv => KeptIsWindow /\ FiledInOrder
    BY DEF LogInv
  <1>2. LogInv /\ [Next]_logVars => LogInv'
    BY StoreShape, LogStep
  <1> QED BY LogInit, <1>1, <1>2, PTL DEF Spec

=============================================================================
