--------------------------- MODULE EventLogProofs ---------------------------
(***************************************************************************)
(* The ring keeps its promise, for partitions, pages and queues of any     *)
(* size and behaviours of any length.  What a page shows was filed,        *)
(* whatever the flash does (the first section); the rest is said of a      *)
(* flash that may refuse a write and may hold foreign data at the start,   *)
(* and of resets before the ring has turned over.                          *)
(***************************************************************************)
EXTENDS EventLog, FiniteSetTheorems, WellFoundedInduction, TLAPS

-----------------------------------------------------------------------------
(* Largest and smallest members *)

\* What Max and Min of the community modules return: the member that bounds the others
LEMMA MaxIs ==
    ASSUME NEW set \in SUBSET Int, NEW m \in set, \A y \in set : y <= m
    PROVE  Max(set) = m
  <1>1. \A x \in set : (\A y \in set : x >= y) => x = m
    <2> SUFFICES ASSUME NEW x \in set, \A y \in set : x >= y PROVE x = m
      OBVIOUS
    <2>1. x \in Int /\ m \in Int /\ x <= m /\ x >= m
      OBVIOUS
    <2>2. QED
      BY <2>1
  <1>2. \A y \in set : m >= y
    OBVIOUS
  <1>3. QED
    BY <1>1, <1>2 DEF Max

LEMMA MinIs ==
    ASSUME NEW set \in SUBSET Int, NEW m \in set, \A y \in set : m <= y
    PROVE  Min(set) = m
  <1>1. \A x \in set : (\A y \in set : x =< y) => x = m
    <2> SUFFICES ASSUME NEW x \in set, \A y \in set : x =< y PROVE x = m
      OBVIOUS
    <2>1. x \in Int /\ m \in Int /\ x <= m /\ x >= m
      OBVIOUS
    <2>2. QED
      BY <2>1
  <1>2. \A y \in set : m =< y
    OBVIOUS
  <1>3. QED
    BY <1>1, <1>2 DEF Min

\* A set of numbers up to a bound has a largest one: the one that is least far below it.
LEMMA BoundedHasMax ==
    ASSUME NEW b \in Nat, NEW set \in SUBSET (0 .. b), set # {}
    PROVE  Max(set) \in set /\ \A y \in set : y <= Max(set)
  <1> DEFINE below == {b - y : y \in set}
  <1>1. below \subseteq Nat /\ below # {}
    <2>1. \A y \in set : b - y \in Nat
      OBVIOUS
    <2>2. QED
      BY <2>1, Zenon
  <1>2. PICK x \in below : \A y \in below : ~(<<y, x>> \in OpToRel(<, Nat))
    BY <1>1, WFMin, NatLessThanWellFounded, Zenon
  <1>3. \A y \in below : ~(y < x)
    BY <1>1, <1>2 DEF OpToRel
  <1>4. PICK m \in set : x = b - m
    OBVIOUS
  <1>5. \A y \in set : y <= m
    <2> SUFFICES ASSUME NEW y \in set PROVE y <= m
      OBVIOUS
    <2>1. ~(b - y < b - m)
      BY <1>3, <1>4
    <2>2. y \in Int /\ m \in Int
      OBVIOUS
    <2>3. QED
      BY <2>1, <2>2
  <1>6. set \in SUBSET Int
    OBVIOUS
  <1>7. Max(set) = m
    BY <1>5, <1>6, MaxIs
  <1>8. QED
    BY <1>5, <1>7

\* And a smallest one.
LEMMA BoundedHasMin ==
    ASSUME NEW set \in SUBSET Nat, set # {}
    PROVE  Min(set) \in set /\ \A y \in set : Min(set) <= y
  <1>1. PICK m \in set : \A y \in set : ~(<<y, m>> \in OpToRel(<, Nat))
    BY WFMin, NatLessThanWellFounded, Zenon
  <1>2. \A y \in set : m <= y
    <2> SUFFICES ASSUME NEW y \in set PROVE m <= y
      OBVIOUS
    <2>1. y \in Nat /\ m \in Nat
      OBVIOUS
    <2>2. ~(y < m)
      BY <1>1, <2>1 DEF OpToRel
    <2>3. QED
      BY <2>1, <2>2
  <1>3. set \in SUBSET Int
    OBVIOUS
  <1>4. Min(set) = m
    BY <1>2, <1>3, MinIs
  <1>5. QED
    BY <1>2, <1>4

-----------------------------------------------------------------------------
(* What is read was filed *)

\* A record in the flash is one that was filed, under the number and with the row it has.
RecordsFiled ==
    \A s \in Slots : flash[s].kind = "record" =>
        \E k \in 1 .. Len(filed) : filed[k].seq = flash[s].seq /\ filed[k].row = flash[s].row

\* No number runs ahead of the rows that were filed.
NumbersBounded ==
    /\ \A k \in 1 .. Len(filed) : filed[k].seq <= FloorAtStart + Len(filed)
    /\ next <= FloorAtStart + Len(filed) + 1
    /\ floor <= FloorAtStart + Len(filed) /\ lastSeq <= FloorAtStart + Len(filed)

\* What the proofs need to know of the types
LogStateOK ==
    /\ flash \in [Slots -> SlotContents]
    /\ filed \in Seq([seq : Nat, row : Nat])
    /\ next \in Nat /\ oldest \in Nat /\ head \in Slots
    /\ floor \in Nat /\ lastSeq \in Nat
    /\ queue \in Seq(Nat) /\ closed \in Nat
    /\ mode \in {"boot", "ready", "write"}
    /\ mode = "write" => queue # <<>>

\* Nothing is in the flash that was not filed: inductive whatever the flash does
FiledInv == LogStateOK /\ NumbersBounded /\ RecordsFiled

\* There is a first slot, and what the module counts in is positive.
LEMMA CapacityPositive ==
    /\ Capacity \in Nat \ {0} /\ 0 \in Slots
    /\ \A n \in Int : n % Capacity \in Slots
  <1>1. \A a, b \in Nat \ {0} : a * b \in Nat \ {0}
    OBVIOUS
  <1>2. Capacity \in Nat \ {0}
    BY <1>1, EventLogAssumption, Zenon DEF Capacity
  <1>3. QED
    BY <1>2 DEF Slots

\* A filed row has a number and a session.
LEMMA FiledRows ==
    ASSUME LogStateOK
    PROVE  /\ Len(filed) \in Nat
           /\ \A k \in 1 .. Len(filed) : filed[k].seq \in Nat /\ filed[k].row \in Nat
  <1> DEFINE Row == [seq : Nat, row : Nat]
  <1>1. filed \in Seq(Row)
    BY DEF LogStateOK
  <1>2. Len(filed) \in Nat /\ \A k \in 1 .. Len(filed) : filed[k] \in Row
    <2> HIDE DEF Row
    <2>1. QED
      BY <1>1
  <1>3. \A r \in Row : r.seq \in Nat /\ r.row \in Nat
    OBVIOUS
  <1>4. QED
    BY <1>2, <1>3

\* The numbers in the flash are numbers of filed rows.
LEMMA NumbersInFlash ==
    ASSUME FiledInv, NEW slots \in SUBSET Slots
    PROVE  SeqsIn(flash, slots) \subseteq 0 .. FloorAtStart + Len(filed)
  <1> SUFFICES ASSUME NEW s \in slots, flash[s].kind = "record"
               PROVE  flash[s].seq \in 0 .. FloorAtStart + Len(filed)
    BY DEF SeqsIn, Valid
  <1>1. PICK k \in 1 .. Len(filed) : filed[k].seq = flash[s].seq
    BY DEF FiledInv, RecordsFiled
  <1>2. filed[k].seq \in Nat /\ filed[k].seq <= FloorAtStart + Len(filed)
    BY FiledRows DEF FiledInv, NumbersBounded
  <1>3. QED
    BY <1>1, <1>2

\* A fresh or foreign partition holds no record.
LEMMA FiledInit == Init => FiledInv
  <1> SUFFICES ASSUME Init PROVE FiledInv
    OBVIOUS
  <1>1. /\ flash \in [Slots -> SlotContents]
        /\ \A s \in Slots : flash[s].kind # "record"
    BY DEF Init, SlotContents, Erased, Garbage
  <1>2. /\ filed = <<>> /\ queue = <<>> /\ next = 1 /\ oldest = 0 /\ head = 0 /\ closed = 0
        /\ floor = FloorAtStart /\ lastSeq = FloorAtStart /\ mode = "boot"
    BY DEF Init
  <1>3. LogStateOK
    BY <1>1, <1>2, CapacityPositive, EventLogAssumption DEF LogStateOK
  <1>4. NumbersBounded
    BY <1>2, EventLogAssumption DEF NumbersBounded
  <1>5. QED
    BY <1>1, <1>3, <1>4 DEF FiledInv, RecordsFiled

\* A flash none of whose records is new
LEMMA OldRecords ==
    ASSUME FiledInv, filed' = filed,
           \A s \in Slots : flash'[s] = flash[s] \/ flash'[s].kind # "record"
    PROVE  RecordsFiled'
BY DEF FiledInv, RecordsFiled

\* Recovery erases, and numbers on from what it found and what the counters remember.
LEMMA FiledBoot == FiledInv /\ Boot => FiledInv'
  <1> SUFFICES ASSUME FiledInv, Boot PROVE FiledInv'
    OBVIOUS
  <1> DEFINE seqs == SeqsIn(flash', Slots)
             top  == FloorAtStart + Len(filed)
  <1>1. flash' = flash \/ flash' = [s \in Slots |-> Erased]
    BY DEF Boot
  <1>2. /\ UNCHANGED <<queue, lastSeq, floor, closed, filed>> /\ mode' = "ready"
        /\ oldest' = IF seqs = {} THEN 0 ELSE Min(seqs)
        /\ next' = Max({MaxOr(seqs, 0), floor}) + 1
        /\ head' = ScanHead(flash')
    BY DEF Boot, NextAfter
  <1>3. seqs \subseteq 0 .. top
    <2>1. CASE flash' = flash
      BY <2>1, NumbersInFlash
    <2>2. CASE flash' = [s \in Slots |-> Erased]
      BY <2>2 DEF SeqsIn, Valid, Erased
    <2>3. QED
      BY <1>1, <2>1, <2>2
  <1>4. top \in Nat /\ floor \in 0 .. top
    BY EventLogAssumption DEF FiledInv, LogStateOK, NumbersBounded
  <1>5. oldest' \in Nat
    <2>1. CASE seqs = {}
      BY <1>2, <2>1
    <2>2. CASE seqs # {}
      <3>1. seqs \in SUBSET Nat
        BY <1>3, <1>4
      <3>2. Min(seqs) \in Nat
        BY <2>2, <3>1, BoundedHasMin
      <3>3. QED
        BY <1>2, <2>2, <3>2
    <2>3. QED
      BY <2>1, <2>2
  <1>6. MaxOr(seqs, 0) \in 0 .. top
    <2>1. CASE seqs = {}
      BY <1>4, <2>1 DEF MaxOr
    <2>2. CASE seqs # {}
      BY <1>3, <1>4, <2>2, BoundedHasMax DEF MaxOr
    <2>3. QED
      BY <2>1, <2>2
  <1>7. next' \in Nat /\ next' <= top + 1
    <2> DEFINE pair == {MaxOr(seqs, 0), floor}
    <2>1. pair \in SUBSET (0 .. top) /\ pair # {}
      BY <1>4, <1>6
    <2>2. Max(pair) \in 0 .. top
      BY <1>4, <2>1, BoundedHasMax
    <2>3. QED
      BY <1>2, <1>4, <2>2
  <1>8. head' \in Slots
    <2>1. CASE Used(flash') = {}
      BY <1>2, <2>1, CapacityPositive DEF ScanHead, MaxOr
    <2>2. CASE Used(flash') # {}
      <3>1. Used(flash') \in SUBSET (0 .. Capacity - 1) /\ Capacity - 1 \in Nat
        BY CapacityPositive DEF Used, Slots
      <3>2. Max(Used(flash')) \in 0 .. Capacity - 1
        BY <2>2, <3>1, BoundedHasMax
      <3>3. head' = (Max(Used(flash')) + 1) % Capacity
        BY <1>2, <2>2 DEF ScanHead, MaxOr
      <3>4. QED
        BY <3>1, <3>2, <3>3, CapacityPositive
    <2>3. QED
      BY <2>1, <2>2
  <1> HIDE DEF seqs
  <1>9. flash' \in [Slots -> SlotContents]
    BY <1>1 DEF FiledInv, LogStateOK, SlotContents, Erased
  <1>10. LogStateOK'
    BY <1>2, <1>5, <1>7, <1>8, <1>9 DEF FiledInv, LogStateOK
  <1>11. NumbersBounded'
    BY <1>2, <1>7 DEF FiledInv, NumbersBounded
  <1>12. RecordsFiled'
    <2>1. \A s \in Slots : flash'[s] = flash[s] \/ flash'[s].kind # "record"
      BY <1>1 DEF Erased
    <2>2. QED
      BY <1>2, <2>1, OldRecords
  <1>13. QED
    BY <1>10, <1>11, <1>12 DEF FiledInv

\* Erasing a sector adds no record.
LEMMA FiledMakeRoom == FiledInv /\ MakeRoom => FiledInv'
  <1> SUFFICES ASSUME FiledInv, MakeRoom PROVE FiledInv'
    OBVIOUS
  <1>1. /\ UNCHANGED <<head, next, queue, lastSeq, floor, closed, filed>>
        /\ mode' = "write" /\ queue # <<>>
    BY DEF MakeRoom
  <1>2. CASE /\ oldest' = MaxOr(SeqsIn(flash, Valid(flash, Sector(head))), oldest - 1) + 1
             /\ flash' = [s \in Slots |-> IF s \in Sector(head) THEN Erased ELSE flash[s]]
    <2> DEFINE seqs == SeqsIn(flash, Valid(flash, Sector(head)))
    <2>1. seqs \subseteq 0 .. FloorAtStart + Len(filed) /\ FloorAtStart + Len(filed) \in Nat
      <3>1. Valid(flash, Sector(head)) \in SUBSET Slots
        BY DEF Valid, Sector
      <3>2. FloorAtStart + Len(filed) \in Nat
        BY FiledRows, EventLogAssumption DEF FiledInv
      <3>3. seqs \subseteq 0 .. FloorAtStart + Len(filed)
        BY <3>1, NumbersInFlash, Zenon
      <3>4. QED
        BY <3>2, <3>3
    <2>2. oldest' \in Nat
      <3>1. CASE seqs = {}
        BY <1>2, <3>1 DEF MaxOr, FiledInv, LogStateOK
      <3>2. CASE seqs # {}
        <4>1. Max(seqs) \in Nat
          <5>1. Max(seqs) \in seqs
            BY <2>1, <3>2, BoundedHasMax, Zenon
          <5>2. QED
            BY <2>1, <5>1
        <4>2. QED
          BY <1>2, <3>2, <4>1 DEF MaxOr
      <3>3. QED
        BY <3>1, <3>2
    <2>3. flash' \in [Slots -> SlotContents]
      BY <1>2 DEF FiledInv, LogStateOK, SlotContents, Erased
    <2>4. LogStateOK'
      BY <1>1, <2>2, <2>3 DEF FiledInv, LogStateOK
    <2>5. RecordsFiled'
      BY <1>1, <1>2, OldRecords DEF Erased
    <2>6. QED
      BY <1>1, <2>4, <2>5 DEF FiledInv, NumbersBounded
  <1>3. CASE UNCHANGED <<flash, oldest>>
    BY <1>1, <1>3 DEF FiledInv, LogStateOK, NumbersBounded, RecordsFiled
  <1>4. QED
    BY <1>2, <1>3 DEF MakeRoom

\* Programming a slot makes the record that is being filed, or one that nobody can read.
LEMMA FiledWriteRow == FiledInv /\ WriteRow => FiledInv'
  <1> SUFFICES ASSUME FiledInv, WriteRow PROVE FiledInv'
    OBVIOUS
  <1> DEFINE row == [seq |-> next, row |-> Head(queue)]
  <1>1. /\ flash' = [flash EXCEPT ![head] = Programmed(@, HeadRecord)]
        /\ oldest' = (IF oldest = 0 THEN next ELSE oldest)
        /\ lastSeq' = next /\ next' = next + 1 /\ head' = NextHead
        /\ queue' = Tail(queue) /\ filed' = Append(filed, row)
        /\ mode' = "ready" /\ UNCHANGED <<floor, closed>> /\ queue # <<>>
    BY DEF WriteRow, FiledInv, LogStateOK
  <1>2. /\ Head(queue) \in Nat /\ Tail(queue) \in Seq(Nat) /\ next \in Nat
        /\ head \in Slots /\ filed \in Seq([seq : Nat, row : Nat])
    BY <1>1 DEF FiledInv, LogStateOK
  <1>3. row \in [seq : Nat, row : Nat]
    BY <1>2
  <1>4. /\ filed' \in Seq([seq : Nat, row : Nat]) /\ Len(filed') = Len(filed) + 1
        /\ \A k \in 1 .. Len(filed) : filed'[k] = filed[k]
        /\ filed'[Len(filed) + 1] = row
    BY <1>1, <1>2, <1>3
  <1>5. Programmed(flash[head], HeadRecord) \in {HeadRecord, Garbage}
    BY DEF Programmed
  <1>6. HeadRecord \in SlotContents /\ Garbage \in SlotContents /\ Garbage.kind # "record"
        /\ HeadRecord.seq = next /\ HeadRecord.row = Head(queue)
    BY <1>2 DEF HeadRecord, Record, Garbage, SlotContents
  <1>7. flash' \in [Slots -> SlotContents]
    BY <1>1, <1>5, <1>6 DEF FiledInv, LogStateOK
  <1>8. head' \in Slots
    <2>1. head + 1 \in Nat
      BY <1>2, CapacityPositive DEF Slots
    <2>2. QED
      BY <1>1, <2>1, CapacityPositive DEF NextHead
  <1>9. LogStateOK'
    BY <1>1, <1>2, <1>4, <1>7, <1>8 DEF FiledInv, LogStateOK
  <1>10. NumbersBounded'
    <2>1. \A k \in 1 .. Len(filed') : filed'[k].seq <= FloorAtStart + Len(filed')
      <3> SUFFICES ASSUME NEW k \in 1 .. Len(filed')
                   PROVE  filed'[k].seq <= FloorAtStart + Len(filed')
        OBVIOUS
      <3>1. CASE k \in 1 .. Len(filed)
        <4>1. filed[k].seq \in Nat /\ filed[k].seq <= FloorAtStart + Len(filed)
          BY <3>1, FiledRows, Zenon DEF FiledInv, NumbersBounded
        <4>2. filed'[k].seq = filed[k].seq /\ Len(filed) \in Nat
          BY <1>4, <3>1, FiledRows, Zenon DEF FiledInv
        <4>3. QED
          BY <1>4, <4>1, <4>2, EventLogAssumption
      <3>2. CASE k = Len(filed) + 1
        BY <1>2, <1>4, <3>2, EventLogAssumption DEF FiledInv, NumbersBounded
      <3>3. QED
        BY <1>2, <1>4, <3>1, <3>2
    <2>2. QED
      BY <1>1, <1>2, <1>4, <2>1, EventLogAssumption DEF FiledInv, LogStateOK, NumbersBounded
  <1>11. RecordsFiled'
    <2> SUFFICES ASSUME NEW s \in Slots, flash'[s].kind = "record"
                 PROVE  \E k \in 1 .. Len(filed') : /\ filed'[k].seq = flash'[s].seq
                                                    /\ filed'[k].row = flash'[s].row
      BY DEF RecordsFiled
    <2>1. CASE flash'[s] = flash[s]
      <3>1. PICK k \in 1 .. Len(filed) : filed[k].seq = flash[s].seq /\ filed[k].row = flash[s].row
        BY <2>1 DEF FiledInv, RecordsFiled
      <3>2. k \in 1 .. Len(filed') /\ filed'[k] = filed[k]
        BY <1>2, <1>4
      <3>3. QED
        BY <2>1, <3>1, <3>2, Zenon
    <2>2. CASE s = head /\ flash'[s] = HeadRecord
      <3>1. Len(filed) + 1 \in 1 .. Len(filed')
        BY <1>2, <1>4
      <3>2. row.seq = next /\ row.row = Head(queue)
        OBVIOUS
      <3>3. QED
        BY <1>4, <1>6, <2>2, <3>1, <3>2, Zenon
    <2>3. QED
      BY <1>1, <1>5, <1>6, <2>1, <2>2 DEF FiledInv, LogStateOK
  <1>12. QED
    BY <1>9, <1>10, <1>11 DEF FiledInv

\* What a write leaves that failed, or in which the power went
LEMMA FiledInterrupted ==
    ASSUME FiledInv, filed' = filed,
           flash' = flash \/ flash' = [flash EXCEPT ![head] = Interrupted(@, HeadRecord)],
           mode = "write" \/ flash' = flash
    PROVE  flash' \in [Slots -> SlotContents] /\ RecordsFiled'
  <1>1. CASE flash' = flash
    BY <1>1, OldRecords DEF FiledInv, LogStateOK
  <1>2. CASE mode = "write" /\ flash' = [flash EXCEPT ![head] = Interrupted(@, HeadRecord)]
    <2>1. Head(queue) \in Nat /\ next \in Nat
      BY <1>2 DEF FiledInv, LogStateOK
    <2>2. /\ Interrupted(flash[head], HeadRecord) \in SlotContents
          /\ Interrupted(flash[head], HeadRecord).kind # "record"
      BY <2>1 DEF Interrupted, Torn, Garbage, HeadRecord, Record, SlotContents
    <2>3. QED
      BY <1>2, <2>2, OldRecords DEF FiledInv, LogStateOK
  <1>3. QED
    BY <1>1, <1>2

\* No step breaks the invariant.
LEMMA FiledStep == FiledInv /\ [Next]_ringVars => FiledInv'
  <1> SUFFICES ASSUME FiledInv, [Next]_ringVars PROVE FiledInv'
    OBVIOUS
  <1>1. CASE RecordSession
    <2>1. queue' \in Seq(Nat) /\ closed' \in Nat
      BY <1>1 DEF RecordSession, FiledInv, LogStateOK
    <2>2. mode = "write" => queue' # <<>>
      BY <1>1 DEF RecordSession, FiledInv, LogStateOK
    <2>3. UNCHANGED <<flash, head, next, oldest, mode, lastSeq, floor, filed>>
      BY <1>1 DEF RecordSession, anchors
    <2>4. QED
      BY <2>1, <2>2, <2>3 DEF FiledInv, LogStateOK, NumbersBounded, RecordsFiled
  <1>2. CASE WriteFails
    <2>1. UNCHANGED <<head, next, oldest, queue, lastSeq, floor, closed, filed>>
          /\ mode' = "ready" /\ mode = "write"
          /\ (flash' = flash \/ flash' = [flash EXCEPT ![head] = Interrupted(@, HeadRecord)])
      BY <1>2 DEF WriteFails, anchors
    <2>2. QED
      BY <2>1, FiledInterrupted DEF FiledInv, LogStateOK, NumbersBounded
  <1>3. CASE SaveLastSeq
    BY <1>3 DEF SaveLastSeq, anchors, FiledInv, LogStateOK, NumbersBounded, RecordsFiled
  <1>4. CASE PowerCut
    <2>1. /\ head' = 0 /\ next' = 1 /\ oldest' = 0 /\ queue' = <<>> /\ mode' = "boot"
          /\ lastSeq' = floor /\ UNCHANGED <<floor, closed, filed>>
          /\ (flash' = flash \/ flash' = [flash EXCEPT ![head] = Interrupted(@, HeadRecord)])
          /\ (mode = "write" \/ flash' = flash)
      BY <1>4 DEF PowerCut
    <2>2. LogStateOK'
      <3>1. flash' \in [Slots -> SlotContents]
        BY <2>1, FiledInterrupted, Zenon
      <3>2. <<>> \in Seq(Nat) /\ 0 \in Slots
        BY CapacityPositive
      <3>3. QED
        BY <2>1, <3>1, <3>2 DEF FiledInv, LogStateOK
    <2>3. NumbersBounded'
      BY <2>1, EventLogAssumption DEF FiledInv, LogStateOK, NumbersBounded
    <2>4. QED
      BY <2>1, <2>2, <2>3, FiledInterrupted DEF FiledInv
  <1>5. CASE UNCHANGED ringVars
    BY <1>5 DEF ringVars, anchors, FiledInv, LogStateOK, NumbersBounded, RecordsFiled
  <1>6. QED
    BY <1>1, <1>2, <1>3, <1>4, <1>5, FiledBoot, FiledMakeRoom, FiledWriteRow DEF Next

\* The page for a cursor, row by row: the numbers follow one another from the cursor or the
\* window's first on, and each row was found under its number.
From(after) == IF after + 1 < oldest THEN oldest ELSE after + 1

\* The rows of a page are the records at consecutive numbers that read back as asked for.
LEMMA PageRows ==
    ASSUME FiledInv, NEW after \in Nat
    PROVE  /\ From(after) \in Nat /\ From(after) > after
           /\ \A i \in 1 .. Len(Page(after).events) :
                 /\ From(after) + i - 1 \in Nat /\ Readable(From(after) + i - 1)
                 /\ Page(after).events[i] = flash[SlotOf(From(after) + i - 1)]
                 /\ SlotOf(From(after) + i - 1) \in Slots
  <1> DEFINE from == From(after)
             fits == {k \in 0 .. PageMax :
                         \A i \in 0 .. (k - 1) : from + i <= Last /\ Readable(from + i)}
             n    == Max(fits)
  <1>1. /\ oldest \in Nat /\ next \in Nat /\ head \in Int /\ PageMax \in Nat
        /\ Capacity \in Nat \ {0}
    BY CapacityPositive, EventLogAssumption DEF FiledInv, LogStateOK, Slots
  <1>2. from \in Nat /\ from > after
    BY <1>1 DEF From
  <1>3. n \in fits
    <2>1. fits \in SUBSET (0 .. PageMax) /\ 0 \in fits
      BY <1>1
    <2>2. QED
      BY <1>1, <2>1, BoundedHasMax
  <1>4. Page(after).events = <<>>
        \/ Page(after).events = [i \in 1 .. n |-> flash[SlotOf(from + i - 1)]]
    BY DEF Page, From
  <1>5. n \in 0 .. PageMax /\ \A i \in 0 .. (n - 1) : Readable(from + i)
    BY <1>3
  <1> HIDE DEF n, fits, from
  <1>6. ASSUME NEW i \in 1 .. n
        PROVE  /\ from + i - 1 \in Nat /\ Readable(from + i - 1)
               /\ SlotOf(from + i - 1) \in Slots
    <2>1. i - 1 \in 0 .. (n - 1) /\ from + (i - 1) = from + i - 1 /\ from + i - 1 \in Nat
      BY <1>2, <1>5
    <2>2. Readable(from + i - 1)
      BY <1>5, <2>1
    <2>3. head + Capacity - (next - (from + i - 1)) \in Int
      BY <1>1, <2>1
    <2>4. QED
      BY <2>1, <2>2, <2>3, CapacityPositive DEF SlotOf
  <1>7. CASE Page(after).events = <<>>
    BY <1>2, <1>7 DEF from
  <1>8. CASE Page(after).events = [i \in 1 .. n |-> flash[SlotOf(from + i - 1)]]
    <2>1. /\ Len(Page(after).events) = n
          /\ \A i \in 1 .. n : Page(after).events[i] = flash[SlotOf(from + i - 1)]
      BY <1>5, <1>8
    <2>2. QED
      BY <1>2, <1>6, <2>1, Zenon DEF from
  <1>9. QED
    BY <1>4, <1>7, <1>8 DEF from

\* No page carries a row that was not filed under the number it shows, nor rows out of order,
\* whatever the flash does: refused and torn writes, erases that do not erase, foreign data,
\* power cuts anywhere (eventlog_build_page: "a wrong page is wrong money").
THEOREM PagesAreTrue == Spec => []PagesTrue
  <1>1. FiledInv => PagesTrue
    <2> SUFFICES ASSUME FiledInv, NEW after \in Cursors,
                        NEW i \in 1 .. Len(Page(after).events)
                 PROVE  /\ \E k \in 1 .. Len(filed) :
                              /\ filed[k].seq = Page(after).events[i].seq
                              /\ filed[k].row = Page(after).events[i].row
                        /\ Page(after).events[i].seq > after
                        /\ i > 1 => Page(after).events[i].seq = Page(after).events[i-1].seq + 1
      BY DEF PagesTrue
    <2> DEFINE events == Page(after).events
               from   == From(after)
    <2>1. after \in Nat
      BY FiledRows, EventLogAssumption DEF Cursors, FiledInv
    <2>2. /\ from \in Nat /\ from > after
          /\ \A j \in 1 .. Len(events) : /\ from + j - 1 \in Nat /\ Readable(from + j - 1)
                                         /\ events[j] = flash[SlotOf(from + j - 1)]
                                         /\ SlotOf(from + j - 1) \in Slots
      BY <2>1, PageRows, Zenon
    <2> HIDE DEF events, from
    <2>3. \A j \in 1 .. Len(events) : events[j].kind = "record" /\ events[j].seq = from + j - 1
      BY <2>2 DEF Readable
    <2>4. i \in 1 .. Len(events) /\ i \in Int
      BY DEF events
    <2>5. \E k \in 1 .. Len(filed) : filed[k].seq = events[i].seq /\ filed[k].row = events[i].row
      <3>1. SlotOf(from + i - 1) \in Slots /\ flash[SlotOf(from + i - 1)].kind = "record"
            /\ events[i] = flash[SlotOf(from + i - 1)]
        BY <2>2, <2>3, <2>4
      <3>2. QED
        BY <3>1 DEF FiledInv, RecordsFiled
    <2>6. events[i].seq > after
      BY <2>1, <2>2, <2>3, <2>4
    <2>7. i > 1 => events[i].seq = events[i-1].seq + 1
      <3>1. i > 1 => i - 1 \in 1 .. Len(events)
        BY <2>4
      <3>2. i > 1 => events[i-1].seq = from + (i - 1) - 1
        BY <2>3, <3>1
      <3>3. QED
        BY <2>2, <2>3, <2>4, <3>2
    <2>8. QED
      BY <2>5, <2>6, <2>7 DEF events
  <1>2. QED
    BY <1>1, FiledInit, FiledStep, PTL DEF Spec

-----------------------------------------------------------------------------
(* The arithmetic of the ring *)

\* Quotient and remainder are the only numbers that make the sum,
LEMMA Quotient ==
    ASSUME NEW b \in Nat \ {0}, NEW q \in Int, NEW r \in Nat, NEW n, n = b * q + r, r < b
    PROVE  n \div b = q /\ n % b = r
OBVIOUS

\* and they make it.
LEMMA Division ==
    ASSUME NEW n \in Nat, NEW b \in Nat \ {0}
    PROVE  /\ n \div b \in Nat /\ n % b \in 0 .. b - 1
           /\ n = b * (n \div b) + (n % b)
OBVIOUS

\* Multiples that differ differ by one multiple.
LEMMA Multiples ==
    ASSUME NEW b \in Nat \ {0}, NEW x \in Int, NEW y \in Int, b * x < b * y
    PROVE  x < y /\ b * x + b <= b * y
  <1>1. ASSUME y <= x PROVE b * y <= b * x
    BY <1>1
  <1>2. b * x \in Int /\ b * y \in Int
    OBVIOUS
  <1>3. x < y
    BY <1>1, <1>2
  <1>4. b * (x + 1) <= b * y
    BY <1>3
  <1>5. QED
    BY <1>3, <1>4

\* The slot of the k-th row
Place(k) == (k - 1) % Capacity

\* So many whole sectors
Whole(n) == \E j \in 0 .. n : n = SlotsPerSector * j

\* Every row has a slot.
LEMMA PlaceInSlots == \A k \in Nat \ {0} : Place(k) \in Slots
BY CapacityPositive DEF Place

\* A row of the last lap is as far behind the head as it is behind the row to come.
LEMMA BehindHead ==
    ASSUME NEW rows \in Nat, NEW k \in 1 .. rows, rows - k < Capacity
    PROVE  /\ rows % Capacity \in 0 .. Capacity - 1
           /\ Place(k) = IF rows + 1 - k <= rows % Capacity
                         THEN (rows % Capacity) - (rows + 1 - k)
                         ELSE (rows % Capacity) + Capacity - (rows + 1 - k)
  <1> DEFINE C == Capacity
             q == rows \div C
             h == rows % C
             d == rows + 1 - k
  <1>1. C \in Nat \ {0}
    BY CapacityPositive
  <1> HIDE DEF C
  <1>2. q \in Nat /\ h \in 0 .. C - 1 /\ rows = C * q + h
    BY <1>1, Division, Zenon
  <1>3. d \in 1 .. C /\ d \in Int /\ k - 1 = rows - d
    BY <1>1 DEF C
  <1> HIDE DEF q, h, d
  <1>4. CASE d <= h
    <2>1. h - d \in Nat /\ h - d < C /\ k - 1 = C * q + (h - d)
      <3>1. C * q \in Int
        BY <1>1, <1>2
      <3>2. QED
        BY <1>1, <1>2, <1>3, <1>4, <3>1
    <2>2. q \in Int
      BY <1>2
    <2>3. (k - 1) % C = h - d
      BY <1>1, <2>1, <2>2, Quotient, Zenon
    <2>4. QED
      BY <1>2, <1>4, <2>3 DEF Place, C, h, d
  <1>5. CASE d > h
    <2>1. h + C - d \in Nat /\ h + C - d < C /\ k - 1 = C * (q - 1) + (h + C - d)
      <3>1. C * q \in Int /\ C * (q - 1) = C * q - C
        BY <1>1, <1>2
      <3>2. QED
        BY <1>1, <1>2, <1>3, <1>5, <3>1
    <2>2. q - 1 \in Int
      BY <1>2
    <2> DEFINE p == q - 1
               r == h + C - d
               n == k - 1
    <2>3. n % C = r
      <3>1. p \in Int /\ r \in Nat /\ r < C /\ n = C * p + r
        BY <2>1, <2>2
      <3> HIDE DEF p, r, n
      <3>2. QED
        BY <1>1, <3>1, Quotient, Zenon
    <2>4. ~(d <= h)
      BY <1>2, <1>3, <1>5
    <2>5. QED
      BY <1>2, <2>3, <2>4 DEF Place, C, h, d
  <1>6. d <= h \/ d > h
    BY <1>2, <1>3
  <1>7. QED
    BY <1>4, <1>5, <1>6

\* slot() of the page reader finds it there.
LEMMA SlotIsPlace ==
    ASSUME NEW rows \in Nat, NEW k \in 1 .. rows, rows - k < Capacity
    PROVE  ((rows % Capacity) + Capacity - (rows + 1 - k)) % Capacity = Place(k)
  <1> DEFINE C == Capacity
             h == rows % C
             d == rows + 1 - k
  <1>1. C \in Nat \ {0} /\ d \in 1 .. C
    BY CapacityPositive
  <1>2. h \in 0 .. C - 1 /\ Place(k) = IF d <= h THEN h - d ELSE h + C - d
    BY BehindHead
  <1> HIDE DEF C, h, d
  <1>3. CASE d <= h
    <2>1. h - d \in Nat /\ h - d < C /\ h + C - d = C * 1 + (h - d) /\ 1 \in Int
      BY <1>1, <1>2, <1>3
    <2>2. (h + C - d) % C = h - d
      BY <1>1, <2>1, Quotient, Zenon
    <2>3. QED
      BY <1>2, <1>3, <2>2 DEF C, h, d
  <1>4. CASE ~(d <= h)
    <2>1. /\ h + C - d \in Nat /\ h + C - d < C /\ h + C - d = C * 0 + (h + C - d)
          /\ 0 \in Int
      BY <1>1, <1>2, <1>4
    <2>2. (h + C - d) % C = h + C - d
      BY <1>1, <2>1, Quotient, Zenon
    <2>3. QED
      BY <1>2, <1>4, <2>2 DEF C, h, d
  <1>5. QED
    BY <1>3, <1>4

\* The head moves on as the rows do.
LEMMA HeadMoves ==
    ASSUME NEW rows \in Nat
    PROVE  ((rows % Capacity) + 1) % Capacity = (rows + 1) % Capacity
  <1> DEFINE C == Capacity
             q == rows \div C
             h == rows % C
  <1>1. C \in Nat \ {0}
    BY CapacityPositive
  <1> HIDE DEF C
  <1>2. q \in Nat /\ h \in 0 .. C - 1 /\ rows = C * q + h
    BY <1>1, Division, Zenon
  <1> HIDE DEF q, h
  <1>3. C * q \in Int /\ C * (q + 1) = C * q + C
    BY <1>1, <1>2
  <1>4. CASE h + 1 < C
    <2>1. /\ h + 1 \in Nat /\ h + 1 < C /\ h + 1 = C * 0 + (h + 1) /\ rows + 1 = C * q + (h + 1)
          /\ 0 \in Int /\ q \in Int
      BY <1>1, <1>2, <1>3, <1>4
    <2>2. (h + 1) % C = h + 1 /\ (rows + 1) % C = h + 1
      BY <1>1, <2>1, Quotient, Zenon
    <2>3. QED
      BY <2>2 DEF C, h
  <1>5. CASE h + 1 = C
    <2>1. /\ 0 \in Nat /\ 0 < C /\ h + 1 = C * 1 + 0 /\ rows + 1 = C * (q + 1) + 0
          /\ 1 \in Int /\ q + 1 \in Int
      BY <1>1, <1>2, <1>3, <1>5
    <2>2. (h + 1) % C = 0 /\ (rows + 1) % C = 0
      BY <1>1, <2>1, Quotient, Zenon
    <2>3. QED
      BY <2>2 DEF C, h
  <1>6. QED
    BY <1>1, <1>2, <1>4, <1>5

\* The head enters a sector when whole sectors have been filed, and then only.
LEMMA SectorTurns ==
    ASSUME NEW rows \in Nat
    PROVE  Whole(rows) <=> (rows % Capacity) % SlotsPerSector = 0
  <1> DEFINE b == SlotsPerSector
             q == rows \div Capacity
             h == rows % Capacity
  <1>1. b \in Nat \ {0} /\ Sectors \in Nat \ {0} /\ Capacity = Sectors * b /\ Capacity \in Nat \ {0}
    BY CapacityPositive, EventLogAssumption DEF Capacity
  <1>2. q \in Nat /\ h \in 0 .. Capacity - 1 /\ rows = Capacity * q + h
    BY <1>1, Division, Zenon
  <1> HIDE DEF q, h, b
  <1>3. Sectors * q \in Nat /\ Capacity * q = b * (Sectors * q)
    BY <1>1, <1>2
  <1>4. ASSUME NEW j \in 0 .. rows, rows = b * j PROVE h % b = 0
    <2>1. b * (j - Sectors * q) = b * j - b * (Sectors * q) /\ b * j \in Int
          /\ b * (Sectors * q) \in Int /\ j - Sectors * q \in Int
      BY <1>1, <1>3
    <2>2. h = b * (j - Sectors * q) + 0 /\ 0 \in Nat /\ 0 < b
      BY <1>1, <1>2, <1>3, <1>4, <2>1
    <2>3. QED
      BY <1>1, <2>1, <2>2, Quotient, Zenon
  <1>5. ASSUME h % b = 0 PROVE \E j \in 0 .. rows : rows = b * j
    <2>1. h \in Nat
      BY <1>2
    <2>2. h \div b \in Nat /\ h = b * (h \div b) + (h % b)
      BY <1>1, <2>1, Division, Zenon
    <2> DEFINE c == h \div b
               j == Sectors * q + c
    <2>3. c \in Nat /\ h = b * c
      <3>1. b * c \in Int
        BY <1>1, <2>2
      <3>2. QED
        BY <1>5, <2>2, <3>1
    <2> HIDE DEF c
    <2>4. b * j = b * (Sectors * q) + b * c /\ b * (Sectors * q) \in Int /\ b * c \in Int
      BY <1>1, <1>3, <2>3
    <2>5. rows = b * j
      BY <1>2, <1>3, <2>3, <2>4
    <2>6. j \in Nat
      BY <1>3, <2>3
    <2> HIDE DEF j
    <2>7. j <= b * j
      BY <1>1, <2>6
    <2>8. j \in 0 .. rows
      BY <2>5, <2>6, <2>7
    <2>9. QED
      BY <2>5, <2>8
  <1>6. QED
    BY <1>4, <1>5 DEF Whole, h, b

\* A sector lies within the partition.
LEMMA SectorAtHead ==
    ASSUME NEW h \in Slots, h % SlotsPerSector = 0
    PROVE  /\ h + SlotsPerSector <= Capacity
           /\ Sector(h) = h .. h + SlotsPerSector - 1
  <1> DEFINE b == SlotsPerSector
             c == h \div b
  <1>1. /\ b \in Nat \ {0} /\ Sectors \in Nat \ {0} /\ Capacity = b * Sectors
        /\ Capacity \in Nat \ {0} /\ h \in Nat /\ h < Capacity
    BY CapacityPositive, EventLogAssumption DEF Capacity, Slots
  <1>2. c \in Nat /\ h = b * c + (h % b)
    BY <1>1, Division, Zenon
  <1> HIDE DEF c, b
  <1>3. b * c \in Int
    BY <1>1, <1>2
  <1>4. h = b * c
    BY <1>2, <1>3 DEF b
  <1>5. b * c < b * Sectors /\ Sectors \in Int /\ c \in Int
    BY <1>1, <1>2, <1>4
  <1>6. h + b <= Capacity
    BY <1>1, <1>4, <1>5, Multiples
  <1>7. ASSUME NEW s \in Slots PROVE s \div b = c <=> s \in h .. h + b - 1
    <2>1. s \in Nat /\ s \div b \in Nat /\ s % b \in 0 .. b - 1
          /\ s = b * (s \div b) + (s % b)
      <3>1. s \in Nat
        BY <1>1 DEF Slots
      <3>2. QED
        BY <1>1, <3>1, Division, Zenon
    <2>2. CASE s \div b = c
      BY <1>1, <1>3, <1>4, <2>1, <2>2
    <2>3. CASE s \in h .. h + b - 1
      <3>1. s - h \in Nat /\ s - h < b /\ s = b * c + (s - h) /\ c \in Int
        BY <1>1, <1>2, <1>4, <2>1, <2>3
      <3> DEFINE r == s - h
      <3>2. s \div b = c
        <4>1. r \in Nat /\ r < b /\ s = b * c + r
          BY <3>1
        <4> HIDE DEF r
        <4>2. QED
          BY <1>1, <3>1, <4>1, Quotient, Zenon
      <3>3. QED
        BY <2>3, <3>2
    <2>4. QED
      BY <2>2, <2>3
  <1>8. h .. h + b - 1 \subseteq Slots
    BY <1>1, <1>6 DEF Slots
  <1>9. Sector(h) = {s \in Slots : s \div b = c}
    BY DEF Sector, b, c
  <1>10. Sector(h) = h .. h + b - 1
    BY <1>7, <1>8, <1>9, Zenon
  <1>11. QED
    BY <1>6, <1>10 DEF b

-----------------------------------------------------------------------------
(* The shape of the ring *)

\* What is assumed of the flash from here on: it may refuse a write, and it may hold foreign
\* data when the log is first used; an erase erases, and what was begun to be written is
\* written.  There are two sectors, so that an erase leaves the newest rows, and no reset
\* comes after the ring has turned over: the code loses the head then (scan_locked).
SoundFlash ==
    /\ Faults \subseteq {"write", "foreign"}
    /\ Sectors >= 2
    /\ LastReset <= Capacity

\* The rows after the first `low' are in the flash, each in its place, and nothing else is.
Laid(low) ==
    /\ \A k \in low + 1 .. Len(filed) :
          flash[Place(k)] = Record(FloorAtStart + k, filed[k].row)
    /\ \A s \in Slots : flash[s] = Erased \/ \E k \in low + 1 .. Len(filed) : s = Place(k)

\* What has been given up is whole sectors, and no more than made the room there is.
GivenUp(low) ==
    /\ Whole(low)
    /\ Len(filed) - low <= Capacity
    /\ low = 0 \/ low + Capacity <= Len(filed) + SlotsPerSector
    /\ mode = "write" => Len(filed) - low < Capacity

\* What loop() knows of it
Anchored(low) ==
    mode # "boot" =>
        /\ head = Len(filed) % Capacity
        /\ next = FloorAtStart + Len(filed) + 1
        /\ oldest = IF Len(filed) = 0 THEN 0 ELSE FloorAtStart + low + 1
        /\ count = Len(filed) - low

\* The ring without its first `low' rows
RingAt(low) == Laid(low) /\ GivenUp(low) /\ Anchored(low)

\* A partition that is still full of foreign data
ForeignRing == mode = "boot" /\ filed = <<>> /\ flash = [s \in Slots |-> Garbage]

\* The k-th row filed has the k-th number.
Numbered == \A k \in 1 .. Len(filed) : filed[k].seq = FloorAtStart + k

\* Between the first number and the last the counters remember some number, and a boot comes
\* before the ring has turned over.
RingInv ==
    /\ FiledInv /\ Numbered
    /\ FloorAtStart <= lastSeq /\ FloorAtStart <= floor
    /\ mode = "boot" => Len(filed) <= Capacity
    /\ ForeignRing \/ \E low \in 0 .. Len(filed) : RingAt(low)

\* The three contents of a slot
LEMMA SlotKinds ==
    /\ Erased.kind = "erased" /\ Garbage.kind = "dirty"
    /\ \A seq, row : /\ Record(seq, row).kind = "record" /\ Record(seq, row).seq = seq
                     /\ Record(seq, row).row = row
BY DEF Erased, Garbage, Record

\* The slots with a record, and the numbers in them
LEMMA LaidRecords ==
    ASSUME LogStateOK, NEW low \in 0 .. Len(filed), Laid(low), NEW slots \in SUBSET Slots
    PROVE  /\ Used(flash) = Valid(flash, Slots)
           /\ Valid(flash, slots) = {s \in slots : \E k \in low + 1 .. Len(filed) : s = Place(k)}
           /\ \A n : n \in SeqsIn(flash, slots)
                     <=> \E k \in low + 1 .. Len(filed) : Place(k) \in slots /\ n = FloorAtStart + k
  <1>1. \A k \in low + 1 .. Len(filed) : k \in Nat \ {0} /\ Place(k) \in Slots
    BY PlaceInSlots, FiledRows
  <1>2. \A k \in low + 1 .. Len(filed) : /\ flash[Place(k)].kind = "record"
                                         /\ flash[Place(k)].seq = FloorAtStart + k
    BY SlotKinds DEF Laid
  <1>3. \A s \in Slots : flash[s].kind # "erased" <=> \E k \in low + 1 .. Len(filed) : s = Place(k)
    BY <1>2, SlotKinds DEF Laid
  <1>4. \A s \in Slots : flash[s].kind = "record" <=> \E k \in low + 1 .. Len(filed) : s = Place(k)
    BY <1>2, SlotKinds DEF Laid
  <1>5. Used(flash) = Valid(flash, Slots)
    BY <1>3, <1>4, Zenon DEF Used, Valid
  <1>6. Valid(flash, slots) = {s \in slots : \E k \in low + 1 .. Len(filed) : s = Place(k)}
    BY <1>4 DEF Valid
  <1>7. SeqsIn(flash, slots) = {flash[s].seq : s \in Valid(flash, slots)}
    BY DEF SeqsIn
  <1>8. ASSUME NEW n
        PROVE  n \in SeqsIn(flash, slots)
               <=> \E k \in low + 1 .. Len(filed) : Place(k) \in slots /\ n = FloorAtStart + k
    BY <1>2, <1>6, <1>7, Zenon
  <1>9. QED
    BY <1>5, <1>6, <1>8

\* The numbers in the flash are those of the rows left.
LEMMA LaidNumbers ==
    \A low : LogStateOK /\ low \in 0 .. Len(filed) /\ Laid(low)
             => SeqsIn(flash, Slots) = FloorAtStart + low + 1 .. FloorAtStart + Len(filed)
  <1> SUFFICES ASSUME LogStateOK, NEW low \in 0 .. Len(filed), Laid(low)
               PROVE  SeqsIn(flash, Slots)
                         = FloorAtStart + low + 1 .. FloorAtStart + Len(filed)
    OBVIOUS
  <1> DEFINE rows == Len(filed)
  <1>1. /\ rows \in Nat /\ low \in 0 .. rows /\ FloorAtStart \in Nat
    BY FiledRows, EventLogAssumption
  <1>2. \A n : n \in SeqsIn(flash, Slots)
               <=> \E k \in low + 1 .. rows : Place(k) \in Slots /\ n = FloorAtStart + k
    BY LaidRecords
  <1>3. \A k \in low + 1 .. rows : Place(k) \in Slots
    BY <1>1, PlaceInSlots
  <1> HIDE DEF rows
  <1>4. ASSUME NEW n \in FloorAtStart + low + 1 .. FloorAtStart + rows
        PROVE  \E k \in low + 1 .. rows : n = FloorAtStart + k
    <2>1. n - FloorAtStart \in low + 1 .. rows /\ n = FloorAtStart + (n - FloorAtStart)
      BY <1>1
    <2>2. QED
      BY <2>1
  <1>5. ASSUME NEW k \in low + 1 .. rows
        PROVE  FloorAtStart + k \in FloorAtStart + low + 1 .. FloorAtStart + rows
    BY <1>1
  <1>6. ASSUME NEW n
        PROVE  n \in SeqsIn(flash, Slots) <=> n \in FloorAtStart + low + 1 .. FloorAtStart + rows
    <2>1. ASSUME n \in SeqsIn(flash, Slots)
          PROVE  n \in FloorAtStart + low + 1 .. FloorAtStart + rows
      <3>1. PICK k \in low + 1 .. rows : n = FloorAtStart + k
        BY <1>2, <2>1, Zenon
      <3>2. QED
        BY <1>5, <3>1
    <2>2. ASSUME n \in FloorAtStart + low + 1 .. FloorAtStart + rows
          PROVE  n \in SeqsIn(flash, Slots)
      <3>1. PICK k \in low + 1 .. rows : n = FloorAtStart + k
        BY <1>4, <2>2, Zenon
      <3>2. QED
        BY <1>2, <1>3, <3>1, Zenon
    <2>3. QED
      BY <2>1, <2>2
  <1>7. QED
    BY <1>6, Zenon DEF rows

\* The log starts with an empty ring, or with foreign data.
LEMMA RingInit == ASSUME SoundFlash PROVE Init => RingInv
  <1> SUFFICES ASSUME Init PROVE RingInv
    OBVIOUS
  <1>1. /\ filed = <<>> /\ mode = "boot" /\ lastSeq = FloorAtStart /\ floor = FloorAtStart
        /\ (flash = [s \in Slots |-> Erased] \/ flash = [s \in Slots |-> Garbage])
    BY DEF Init
  <1>2. Len(filed) = 0 /\ Len(filed) <= Capacity /\ FloorAtStart <= lastSeq
        /\ FloorAtStart <= floor
    BY <1>1, CapacityPositive, EventLogAssumption
  <1>3. CASE flash = [s \in Slots |-> Erased]
    <2>1. Laid(0)
      BY <1>2, <1>3 DEF Laid
    <2>2. GivenUp(0) /\ Anchored(0) /\ 0 \in 0 .. Len(filed)
      <3>1. Whole(0)
        BY EventLogAssumption DEF Whole
      <3>2. QED
        BY <1>1, <1>2, <3>1, CapacityPositive DEF GivenUp, Anchored
    <2>3. QED
      BY <1>1, <1>2, <2>1, <2>2, FiledInit DEF RingInv, RingAt, Numbered
  <1>4. CASE flash = [s \in Slots |-> Garbage]
    BY <1>1, <1>2, <1>4, FiledInit DEF RingInv, ForeignRing, Numbered
  <1>5. QED
    BY <1>1, <1>3, <1>4

\* A step that leaves flash and rows alone
LEMMA RingUnmoved ==
    ASSUME RingInv, FiledInv', UNCHANGED <<flash, filed>>,
           UNCHANGED <<head, next, oldest, count>> \/ mode' = "boot",
           mode' = mode \/ (mode # "boot" /\ mode' = "ready")
               \/ (mode' = "boot" /\ Len(filed) <= Capacity),
           lastSeq' \in {lastSeq, floor}, floor' \in {lastSeq, floor}
    PROVE  RingInv'
  <1>1. /\ Numbered' /\ FloorAtStart <= lastSeq' /\ FloorAtStart <= floor'
        /\ (mode' = "boot" => Len(filed') <= Capacity)
    BY DEF RingInv, Numbered
  <1>2. CASE ForeignRing
    BY <1>1, <1>2 DEF RingInv, ForeignRing
  <1>3. ASSUME NEW low \in 0 .. Len(filed), RingAt(low) PROVE RingAt(low)' /\ low \in 0 .. Len(filed')
    <2>1. Laid(low)' /\ low \in 0 .. Len(filed')
      BY <1>3 DEF RingAt, Laid
    <2>2. mode' = "write" => mode = "write"
      OBVIOUS
    <2>3. GivenUp(low)'
      BY <1>3, <2>2 DEF RingAt, GivenUp
    <2>4. Anchored(low)'
      BY <1>3 DEF RingAt, Anchored
    <2>5. QED
      BY <2>1, <2>3, <2>4 DEF RingAt
  <1>4. QED
    BY <1>1, <1>2, <1>3 DEF RingInv

\* Before the ring has turned over the k-th row is in slot k - 1.
LEMMA FirstLap ==
    ASSUME NEW k \in Nat \ {0}, k <= Capacity
    PROVE  Place(k) = k - 1
  <1>1. k - 1 \in Nat /\ k - 1 < Capacity /\ k - 1 = Capacity * 0 + (k - 1) /\ 0 \in Int
    BY CapacityPositive
  <1>2. QED
    BY <1>1, CapacityPositive, Quotient, Zenon DEF Place

\* A boot in the first lap finds the head behind the last row, the numbers of the rows that
\* are left, and as many of them.
LEMMA ScanFirstLap ==
    ASSUME SoundFlash, LogStateOK, NEW low \in 0 .. Len(filed), Laid(low), GivenUp(low),
           Len(filed) <= Capacity
    PROVE  /\ ScanHead(flash) = Len(filed) % Capacity
           /\ Cardinality(Valid(flash, Slots)) = Len(filed) - low
           /\ SeqsIn(flash, Slots) = FloorAtStart + low + 1 .. FloorAtStart + Len(filed)
           /\ low = Len(filed) => Len(filed) = 0
  <1> DEFINE rows == Len(filed)
             C    == Capacity
  <1>1. /\ rows \in Nat /\ low \in 0 .. rows /\ C \in Nat \ {0} /\ rows <= C
        /\ FloorAtStart \in Nat /\ Slots = 0 .. C - 1
    BY FiledRows, CapacityPositive, EventLogAssumption DEF Slots
  <1>2. low = rows => rows = 0
    <2>1. /\ SlotsPerSector \in Nat \ {0} /\ Sectors \in Nat /\ Sectors >= 2
          /\ C = Sectors * SlotsPerSector
      BY EventLogAssumption DEF SoundFlash, Capacity
    <2>2. 2 * SlotsPerSector <= C
      BY <2>1
    <2>3. low = 0 \/ low + C <= rows + SlotsPerSector
      BY DEF GivenUp
    <2> HIDE DEF C
    <2>4. QED
      BY <1>1, <2>1, <2>2, <2>3
  <1>3. \A k \in low + 1 .. rows : Place(k) = k - 1
    BY <1>1, FirstLap
  <1>4. Valid(flash, Slots) = low .. rows - 1
    <2>1. Valid(flash, Slots) = {s \in Slots : \E k \in low + 1 .. rows : s = Place(k)}
      BY LaidRecords
    <2> HIDE DEF rows, C
    <2>2. ASSUME NEW s \in low .. rows - 1
          PROVE  s \in Slots /\ \E k \in low + 1 .. rows : s = Place(k)
      <3>1. s + 1 \in low + 1 .. rows /\ (s + 1) - 1 = s /\ s \in 0 .. C - 1
        BY <1>1
      <3>2. Place(s + 1) = s
        BY <1>3, <3>1
      <3>3. QED
        BY <1>1, <3>1, <3>2
    <2>3. ASSUME NEW k \in low + 1 .. rows PROVE Place(k) \in low .. rows - 1
      BY <1>1, <1>3
    <2>4. QED
      BY <2>1, <2>2, <2>3
  <1>5. Cardinality(Valid(flash, Slots)) = rows - low
    <2>1. low \in Int /\ rows - 1 \in Int
      BY <1>1
    <2>2. Cardinality(low .. rows - 1) = IF low > rows - 1 THEN 0 ELSE (rows - 1) - low + 1
      BY <2>1, FS_Interval
    <2>3. QED
      BY <1>1, <1>4, <2>2
  <1>6. SeqsIn(flash, Slots) = FloorAtStart + low + 1 .. FloorAtStart + rows
    BY LaidNumbers
  <1>7. ScanHead(flash) = rows % C
    <2>1. Used(flash) = low .. rows - 1
      BY <1>4, LaidRecords
    <2>2. CASE rows = 0
      <3>1. Used(flash) = {}
        BY <1>1, <2>1, <2>2
      <3>2. QED
        BY <2>2, <3>1 DEF ScanHead, MaxOr
    <2>3. CASE rows # 0
      <3>1. /\ low .. rows - 1 \in SUBSET Int /\ rows - 1 \in low .. rows - 1
            /\ \A y \in low .. rows - 1 : y <= rows - 1
        BY <1>1, <1>2, <2>3
      <3>2. Max(low .. rows - 1) = rows - 1
        BY <3>1, MaxIs
      <3>3. ScanHead(flash) = ((rows - 1) + 1) % C
        BY <2>1, <3>1, <3>2 DEF ScanHead, MaxOr
      <3>4. (rows - 1) + 1 = rows
        BY <1>1
      <3>5. QED
        BY <3>3, <3>4
    <2>4. QED
      BY <2>2, <2>3
  <1>8. QED
    BY <1>2, <1>5, <1>6, <1>7

\* A boot before the ring has turned over finds head, numbers and window again.
LEMMA RingBoot == ASSUME SoundFlash PROVE RingInv /\ Boot => RingInv'
  <1> SUFFICES ASSUME RingInv, Boot PROVE RingInv'
    OBVIOUS
  <1>1. /\ UNCHANGED <<queue, lastSeq, floor, closed, filed, reboots>> /\ mode' = "ready"
        /\ mode = "boot" /\ Len(filed) <= Capacity /\ head' = ScanHead(flash')
        /\ next' = NextAfter(SeqsIn(flash', Slots))
        /\ count' = Cardinality(Valid(flash', Slots))
        /\ oldest' = IF SeqsIn(flash', Slots) = {} THEN 0 ELSE Min(SeqsIn(flash', Slots))
    BY DEF Boot, RingInv
  <1>2. FiledInv' /\ FiledInv
    BY FiledBoot DEF RingInv
  <1>3. /\ Len(filed) \in Nat /\ FloorAtStart \in Nat
        /\ floor \in FloorAtStart .. FloorAtStart + Len(filed)
    BY <1>2, FiledRows, EventLogAssumption DEF RingInv, FiledInv, LogStateOK, NumbersBounded
  \* Foreign data is erased: a ring without a row.
  <1>4. ASSUME ForeignRing
        PROVE  Len(filed) = 0 /\ flash' = [s \in Slots |-> Erased]
    <2>1. \A s \in Slots : flash[s] = Garbage
      BY <1>4 DEF ForeignRing
    <2>2. Used(flash) # {} /\ Valid(flash, Slots) = {}
      BY <2>1, SlotKinds, CapacityPositive DEF Used, Valid
    <2>3. ForeignData /\ "erase" \notin Faults
      BY <2>2 DEF ForeignData, SoundFlash
    <2>4. QED
      BY <1>4, <2>3 DEF Boot, ForeignRing
  \* And a ring with rows is left alone.
  <1>5. ASSUME NEW low \in 0 .. Len(filed), RingAt(low)
        PROVE  flash' = flash
    <2>1. Used(flash) = Valid(flash, Slots)
      BY <1>2, <1>5, LaidRecords DEF RingAt, FiledInv
    <2>2. QED
      BY <2>1 DEF Boot, ForeignData
  <1>6. /\ Numbered' /\ FloorAtStart <= lastSeq' /\ FloorAtStart <= floor'
        /\ mode' # "boot"
    BY <1>1 DEF RingInv, Numbered
  <1>7. CASE ForeignRing
    <2>1. SeqsIn(flash', Slots) = {} /\ Valid(flash', Slots) = {} /\ Used(flash') = {}
      BY <1>4, <1>7, SlotKinds DEF SeqsIn, Valid, Used
    <2>2. head' = 0 % Capacity
      BY <1>1, <2>1 DEF ScanHead, MaxOr
    <2>3. next' = FloorAtStart + 1
      <3>1. NextAfter({}) = Max({0, floor}) + 1 /\ floor = FloorAtStart
        BY <1>3, <1>4, <1>7 DEF NextAfter, MaxOr
      <3>2. {0, floor} \in SUBSET Int /\ floor \in {0, floor} /\ \A y \in {0, floor} : y <= floor
        BY <1>3, <3>1
      <3>3. Max({0, floor}) = floor
        BY <3>2, MaxIs
      <3>4. QED
        BY <1>1, <2>1, <3>1, <3>3
    <2>4. count' = 0 /\ oldest' = 0
      BY <1>1, <2>1, FS_EmptySet
    <2>5. Laid(0)'
      BY <1>1, <1>4, <1>7 DEF Laid
    <2>6. Whole(0)
      BY EventLogAssumption DEF Whole
    <2>7. GivenUp(0)' /\ Anchored(0)' /\ 0 \in 0 .. Len(filed')
      BY <1>1, <1>3, <1>4, <1>7, <2>2, <2>3, <2>4, <2>6, CapacityPositive DEF GivenUp, Anchored
    <2>8. QED
      BY <1>2, <1>6, <2>5, <2>7 DEF RingInv, RingAt
  <1>8. CASE \E low \in 0 .. Len(filed) : RingAt(low)
    <2>1. PICK low \in 0 .. Len(filed) : RingAt(low)
      BY <1>8
    <2> DEFINE seqs == SeqsIn(flash, Slots)
               top  == FloorAtStart + Len(filed)
    <2>2. flash' = flash /\ filed' = filed
      BY <1>1, <1>5, <2>1
    <2>3. /\ ScanHead(flash) = Len(filed) % Capacity
          /\ Cardinality(Valid(flash, Slots)) = Len(filed) - low
          /\ seqs = FloorAtStart + low + 1 .. top
          /\ low = Len(filed) => Len(filed) = 0
      BY <1>1, <1>2, <2>1, ScanFirstLap DEF FiledInv, RingAt
    <2>4. head' = Len(filed) % Capacity /\ count' = Len(filed) - low
      BY <1>1, <2>2, <2>3
    <2>5. low \in Nat /\ top \in Nat /\ seqs \in SUBSET Int
      BY <1>3, <2>3
    <2>6. /\ oldest' = IF Len(filed) = 0 THEN 0 ELSE FloorAtStart + low + 1
          /\ MaxOr(seqs, 0) \in 0 .. top /\ floor \in 0 .. top
          /\ (MaxOr(seqs, 0) = top \/ floor = top)
      <3>1. CASE Len(filed) = 0
        <4>1. seqs = {}
          BY <1>3, <2>3, <3>1
        <4>2. oldest' = 0 /\ MaxOr(seqs, 0) = 0
          BY <1>1, <2>2, <4>1 DEF MaxOr
        <4>3. QED
          BY <1>3, <2>5, <3>1, <4>2
      <3>2. CASE Len(filed) # 0
        <4>1. /\ top \in seqs /\ FloorAtStart + low + 1 \in seqs
              /\ \A y \in seqs : FloorAtStart + low + 1 <= y /\ y <= top
          BY <1>3, <2>3, <2>5, <3>2
        <4>2. Max(seqs) = top /\ Min(seqs) = FloorAtStart + low + 1
          BY <2>5, <4>1, MaxIs, MinIs
        <4>3. oldest' = FloorAtStart + low + 1 /\ MaxOr(seqs, 0) = top
          BY <1>1, <2>2, <4>1, <4>2 DEF MaxOr
        <4>4. QED
          BY <1>3, <2>5, <3>2, <4>3
      <3>3. QED
        BY <3>1, <3>2
    <2>7. next' = top + 1
      <3> DEFINE pair == {MaxOr(seqs, 0), floor}
      <3>1. pair \in SUBSET Int /\ top \in pair /\ \A y \in pair : y <= top
        BY <2>5, <2>6
      <3>2. Max(pair) = top
        BY <3>1, MaxIs
      <3>3. QED
        BY <1>1, <2>2, <3>2 DEF NextAfter
    <2>8. Laid(low)' /\ GivenUp(low)' /\ low \in 0 .. Len(filed')
      BY <1>1, <2>1, <2>2 DEF RingAt, Laid, GivenUp
    <2>9. Anchored(low)'
      BY <2>2, <2>4, <2>6, <2>7 DEF Anchored
    <2>10. QED
      BY <1>2, <1>6, <2>8, <2>9 DEF RingInv, RingAt
  <1>9. QED
    BY <1>7, <1>8 DEF RingInv

\* Where the head enters a sector there is either a whole lap of rows, the oldest of them in
\* that sector, or room for as many as the sector holds, and the sector is empty.
LEMMA RowsInSector ==
    ASSUME LogStateOK, NEW low \in 0 .. Len(filed), Laid(low), GivenUp(low),
           head = Len(filed) % Capacity, head % SlotsPerSector = 0
    PROVE  /\ Sector(head) \subseteq Slots
           /\ Whole(Len(filed))
           /\ Len(filed) - low = Capacity =>
                 /\ \A k \in low + 1 .. Len(filed) :
                       Place(k) \in Sector(head) <=> k <= low + SlotsPerSector
                 /\ Valid(flash, Sector(head)) = Sector(head)
                 /\ Cardinality(Sector(head)) = SlotsPerSector
           /\ Len(filed) - low # Capacity =>
                 /\ \A k \in low + 1 .. Len(filed) : Place(k) \notin Sector(head)
                 /\ Valid(flash, Sector(head)) = {}
                 /\ Len(filed) - low + SlotsPerSector <= Capacity
  <1> DEFINE rows == Len(filed)
             C    == Capacity
             b    == SlotsPerSector
  <1>1. /\ rows \in Nat /\ low \in 0 .. rows /\ C \in Nat \ {0} /\ b \in Nat \ {0}
        /\ Slots = 0 .. C - 1 /\ rows - low <= C /\ head \in Slots
    BY FiledRows, CapacityPositive, EventLogAssumption DEF Slots, GivenUp
  <1>2. head + b <= C /\ Sector(head) = head .. head + b - 1
    BY <1>1, SectorAtHead
  <1>3. Sector(head) \subseteq Slots
    BY DEF Sector
  <1>4. Whole(rows)
    BY <1>1, SectorTurns
  <1>5. \A k \in low + 1 .. rows :
           /\ k \in Nat
           /\ Place(k) = IF rows + 1 - k <= head THEN head - (rows + 1 - k)
                         ELSE head + C - (rows + 1 - k)
    BY <1>1, BehindHead
  <1>6. C = Sectors * b /\ Sectors \in Nat \ {0}
    BY EventLogAssumption DEF Capacity
  <1>7. Valid(flash, Sector(head)) =
           {s \in Sector(head) : \E k \in low + 1 .. rows : s = Place(k)}
    BY <1>3, LaidRecords
  <1>8. ASSUME rows - low # C
        PROVE  rows - low + b <= C
    <2>1. PICK x \in 0 .. rows : rows = b * x
      BY <1>4 DEF Whole
    <2>2. PICK y \in 0 .. low : low = b * y
      BY DEF GivenUp, Whole
    <2>3. b * (y + Sectors) = b * y + b * Sectors /\ b * Sectors = C
      BY <1>1, <1>6, <2>2
    <2>4. b * x < b * (y + Sectors)
      BY <1>1, <1>8, <2>1, <2>2, <2>3
    <2>5. b * x + b <= b * (y + Sectors)
      <3>1. x \in Int /\ y + Sectors \in Int
        BY <1>1, <1>6
      <3>2. QED
        BY <1>1, <2>4, <3>1, Multiples, Zenon
    <2> HIDE DEF C, b
    <2>6. QED
      BY <1>1, <2>1, <2>2, <2>3, <2>5
  <1> HIDE DEF rows, C, b
  <1>9. ASSUME rows - low # C
        PROVE  \A k \in low + 1 .. rows : Place(k) \notin Sector(head)
    BY <1>1, <1>2, <1>5, <1>8, <1>9
  <1>10. ASSUME rows - low = C
         PROVE  \A k \in low + 1 .. rows : Place(k) \in Sector(head) <=> k <= low + b
    <2> SUFFICES ASSUME NEW k \in low + 1 .. rows
                 PROVE  Place(k) \in head .. head + b - 1 <=> k <= low + b
      BY <1>2
    <2>1. /\ k \in Nat
          /\ Place(k) = IF rows + 1 - k <= head THEN head - (rows + 1 - k)
                        ELSE head + C - (rows + 1 - k)
      BY <1>5
    <2>2. CASE k <= low + b
      <3>1. Place(k) \in head .. head + b - 1
        BY <1>1, <1>2, <1>10, <2>1, <2>2
      <3>2. QED
        BY <2>2, <3>1
    <2>3. CASE ~(k <= low + b)
      <3>1. ~(Place(k) \in head .. head + b - 1)
        BY <1>1, <1>2, <1>10, <2>1, <2>3
      <3>2. QED
        BY <2>3, <3>1
    <2>4. QED
      BY <2>2, <2>3
  <1>11. ASSUME rows - low = C, NEW s \in Sector(head)
         PROVE  \E k \in low + 1 .. rows : s = Place(k)
    <2> DEFINE k == low + 1 + (s - head)
    <2>1. s \in Int /\ head <= s /\ s < C /\ s < head + b
      BY <1>1, <1>2, <1>11
    <2>2. k \in low + 1 .. rows /\ rows + 1 - k = C - (s - head)
      <3>1. head \in 0 .. C - 1 /\ C \in Int /\ b \in Int /\ rows \in Int /\ low \in Int
        BY <1>1
      <3>2. head + b <= C /\ rows - low = C
        BY <1>2, <1>11
      <3>3. k \in Int /\ low + 1 <= k /\ k <= rows
        BY <2>1, <3>1, <3>2
      <3>4. rows + 1 - k = C - (s - head)
        BY <2>1, <3>1, <3>2
      <3>5. QED
        BY <3>1, <3>3, <3>4
    <2> HIDE DEF k
    <2>3. Place(k) = IF rows + 1 - k <= head THEN head - (rows + 1 - k)
                     ELSE head + C - (rows + 1 - k)
      BY <1>5, <2>2
    <2>4. s = Place(k)
      BY <1>1, <2>1, <2>2, <2>3
    <2>5. QED
      BY <2>2, <2>4
  <1>12. Cardinality(Sector(head)) = b
    <2>1. head \in Int /\ head + b - 1 \in Int
      BY <1>1
    <2>2. Cardinality(head .. head + b - 1)
             = IF head > head + b - 1 THEN 0 ELSE (head + b - 1) - head + 1
      BY <2>1, FS_Interval
    <2>3. QED
      BY <1>1, <1>2, <2>2
  <1>13. rows - low = C => Valid(flash, Sector(head)) = Sector(head)
    BY <1>7, <1>11
  <1>14. rows - low # C => Valid(flash, Sector(head)) = {}
    BY <1>7, <1>9
  <1>15. QED
    BY <1>3, <1>4, <1>8, <1>9, <1>10, <1>12, <1>13, <1>14 DEF rows, C, b

\* The rows in the flash after an erase: what it gave up
Left(low) == IF Len(filed) - low = Capacity THEN low + SlotsPerSector ELSE low

\* An erase gives up the oldest sector of a full ring, and nothing of one that is not full.
LEMMA RoomMade ==
    ASSUME SoundFlash, RingInv, MakeRoom, NEW low \in 0 .. Len(filed), RingAt(low),
           NEW low2, low2 = Left(low)
    PROVE  /\ low2 \in 0 .. Len(filed) /\ RingAt(low2)'
           /\ Len(filed) - low = Capacity => Whole(Len(filed))
  <1> DEFINE rows == Len(filed)
             C    == Capacity
             b    == SlotsPerSector
  <1>1. /\ mode = "ready" /\ mode' = "write" /\ queue # <<>>
        /\ UNCHANGED <<head, next, queue, lastSeq, floor, closed, filed>>
    BY DEF MakeRoom
  <1>2. /\ head = rows % C /\ next = FloorAtStart + rows + 1 /\ count = rows - low
        /\ oldest = IF rows = 0 THEN 0 ELSE FloorAtStart + low + 1
        /\ Laid(low) /\ GivenUp(low)
    BY <1>1 DEF RingAt, Anchored
  <1>3. /\ rows \in Nat /\ low \in 0 .. rows /\ C \in Nat \ {0} /\ b \in Nat \ {0}
        /\ rows - low <= C /\ FloorAtStart \in Nat /\ LogStateOK /\ FiledInv'
        /\ 2 * b <= C
    <2>1. Sectors \in Nat /\ Sectors >= 2 /\ b \in Nat \ {0} /\ C = Sectors * b
      BY EventLogAssumption DEF SoundFlash, Capacity
    <2>2. 2 * b <= C
      BY <2>1
    <2>3. QED
      BY <1>2, <2>2, FiledRows, FiledMakeRoom, CapacityPositive, EventLogAssumption
         DEF RingInv, FiledInv, GivenUp
  <1>4. Len(filed) - low = Capacity => head % b = 0 /\ Whole(rows) /\ Whole(low + b)
    <2> SUFFICES ASSUME rows - low = C PROVE Whole(rows) /\ Whole(low + b)
      BY <1>2, <1>3, SectorTurns
    <2>1. PICK y \in 0 .. low : low = b * y
      BY <1>2 DEF GivenUp, Whole
    <2>2. C = b * Sectors /\ Sectors \in Nat
      BY EventLogAssumption DEF Capacity
    <2>3. /\ b * (y + Sectors) = b * y + b * Sectors
          /\ b * (y + 1) = b * y + b
      BY <1>3, <2>1, <2>2
    <2>4. rows = b * (y + Sectors) /\ low + b = b * (y + 1)
      <3> HIDE DEF rows, C, b
      <3>1. QED
        BY <1>3, <2>1, <2>2, <2>3
    <2>5. \A n \in Nat : n <= b * n
      BY <1>3
    <2>6. y + Sectors \in 0 .. rows /\ y + 1 \in 0 .. low + b
      BY <1>3, <2>2, <2>4, <2>5
    <2>7. QED
      BY <2>4, <2>6 DEF Whole
  <1>5. CASE head % b = 0
    <2>1. /\ flash' = [s \in Slots |-> IF s \in Sector(head) THEN Erased ELSE flash[s]]
          /\ oldest' = MaxOr(SeqsIn(flash, Valid(flash, Sector(head))), oldest - 1) + 1
          /\ count' = Max({count - Cardinality(Valid(flash, Sector(head))), 0})
      BY <1>5 DEF MakeRoom, SoundFlash
    <2>2. LogStateOK /\ Laid(low) /\ GivenUp(low) /\ head = rows % C /\ head % b = 0
      BY <1>2, <1>3, <1>5
    <2>3. CASE rows - low = C
      <3> DEFINE victims == Valid(flash, Sector(head))
                 seqs    == SeqsIn(flash, victims)
                 newest  == FloorAtStart + low + b
      <3>1. /\ Sector(head) \subseteq Slots /\ victims = Sector(head)
            /\ Cardinality(victims) = b
            /\ \A k \in low + 1 .. rows : Place(k) \in Sector(head) <=> k <= low + b
        BY <2>2, <2>3, RowsInSector
      <3>2. \A n : n \in seqs <=> \E k \in low + 1 .. rows : /\ k <= low + b
                                                            /\ n = FloorAtStart + k
        <4>1. \A n : n \in SeqsIn(flash, Sector(head))
                     <=> \E k \in low + 1 .. rows : /\ Place(k) \in Sector(head)
                                                    /\ n = FloorAtStart + k
          BY <2>2, <3>1, LaidRecords
        <4>2. QED
          BY <3>1, <4>1, Zenon
      <3>3. newest \in Int /\ oldest \in Int /\ low2 = low + b /\ low2 \in 0 .. rows
            /\ rows - low2 = C - b /\ rows # 0
        <4> HIDE DEF rows, C, b
        <4>1. QED
          BY <1>2, <1>3, <2>3 DEF Left, rows, C, b
      <3>4. newest \in seqs
        <4>1. low + b \in low + 1 .. rows /\ low + b <= low + b
              /\ newest = FloorAtStart + (low + b)
          BY <1>3, <2>3
        <4>2. QED
          BY <3>2, <4>1
      <3>5. seqs \in SUBSET Int /\ \A y \in seqs : y <= newest
        <4>1. \A y \in seqs : y \in Int /\ y <= newest
          BY <1>3, <3>2
        <4>2. QED
          BY <4>1
      <3>6. MaxOr(seqs, oldest - 1) = newest
        BY <3>4, <3>5, MaxIs DEF MaxOr
      <3>7. oldest' = FloorAtStart + low2 + 1
        BY <1>3, <2>1, <3>3, <3>6
      <3>8. count' = rows - low2
        <4>1. count - Cardinality(victims) = C - b
          BY <1>2, <2>3, <3>1
        <4>2. {C - b, 0} \in SUBSET Int /\ C - b \in {C - b, 0}
              /\ \A y \in {C - b, 0} : y <= C - b
          BY <1>3
        <4>3. Max({C - b, 0}) = C - b
          BY <4>2, MaxIs
        <4>4. QED
          BY <2>1, <3>3, <4>1, <4>3
      <3>9. Laid(low2)'
        <4>1. ASSUME NEW k \in low2 + 1 .. rows
              PROVE  flash'[Place(k)] = Record(FloorAtStart + k, filed[k].row)
          <5>1. k \in low + 1 .. rows /\ ~(k <= low + b) /\ k \in Nat \ {0}
            BY <1>3, <3>3, <4>1
          <5>2. Place(k) \in Slots /\ Place(k) \notin Sector(head)
            BY <3>1, <5>1, PlaceInSlots
          <5>3. QED
            BY <2>1, <2>2, <5>1, <5>2 DEF Laid
        <4>2. ASSUME NEW s \in Slots
              PROVE  flash'[s] = Erased \/ \E k \in low2 + 1 .. rows : s = Place(k)
          <5>1. CASE s \in Sector(head)
            BY <2>1, <5>1
          <5>2. CASE s \notin Sector(head) /\ flash[s] = Erased
            BY <2>1, <5>2
          <5>3. CASE s \notin Sector(head) /\ \E k \in low + 1 .. rows : s = Place(k)
            <6>1. PICK k \in low + 1 .. rows : s = Place(k)
              BY <5>3
            <6>2. ~(k <= low + b)
              BY <3>1, <5>3, <6>1
            <6>3. k \in low2 + 1 .. rows
              BY <1>3, <3>3, <6>2
            <6>4. QED
              BY <6>1, <6>3
          <5>4. QED
            BY <2>2, <5>1, <5>2, <5>3 DEF Laid
        <4>3. filed' = filed
          BY <1>1
        <4>4. QED
          BY <4>1, <4>2, <4>3 DEF Laid
      <3>10. GivenUp(low2)'
        <4>1. Whole(low2)
          BY <1>4, <2>3, <3>3
        <4>2. rows - low2 < C /\ low2 + C <= rows + b
          <5> HIDE DEF rows, C, b
          <5>1. QED
            BY <1>3, <2>3, <3>3
        <4>3. Len(filed') = rows /\ rows - low2 <= C /\ (low2 = 0 \/ low2 + C <= rows + b)
          BY <1>1, <1>3, <3>3, <4>2
        <4>4. QED
          BY <4>1, <4>2, <4>3 DEF GivenUp
      <3>11. Anchored(low2)'
        <4>1. /\ head' = Len(filed') % Capacity /\ next' = FloorAtStart + Len(filed') + 1
              /\ Len(filed') = rows
          BY <1>1, <1>2, Zenon
        <4>2. QED
          BY <3>3, <3>7, <3>8, <4>1 DEF Anchored
      <3>12. QED
        BY <1>4, <3>3, <3>9, <3>10, <3>11 DEF RingAt
    <2>4. CASE rows - low # C
      <3>1. /\ \A k \in low + 1 .. rows : Place(k) \notin Sector(head)
            /\ Valid(flash, Sector(head)) = {}
        BY <2>2, <2>4, RowsInSector
      <3>2. low2 = low
        BY <2>4 DEF Left
      <3>3. SeqsIn(flash, {}) = {} /\ Cardinality({}) = 0
        <4>1. SeqsIn(flash, {}) = {}
          BY DEF SeqsIn, Valid
        <4>2. QED
          BY <4>1, FS_EmptySet
      <3>4. oldest' = oldest
        <4>1. oldest' = (oldest - 1) + 1
          BY <2>1, <3>1, <3>3 DEF MaxOr
        <4>2. oldest \in Int
          BY <1>2, <1>3
        <4>3. QED
          BY <4>1, <4>2
      <3>5. count' = count
        <4>1. count \in Nat /\ count - 0 = count
          BY <1>2, <1>3
        <4>2. {count, 0} \in SUBSET Int /\ count \in {count, 0} /\ \A y \in {count, 0} : y <= count
          BY <4>1
        <4>3. Max({count, 0}) = count
          BY <4>2, MaxIs
        <4>4. QED
          BY <2>1, <3>1, <3>3, <4>1, <4>3
      <3>6. Laid(low)'
        <4>1. \A k \in low + 1 .. rows : Place(k) \in Slots
          BY <1>3, PlaceInSlots
        <4>2. \A s \in Slots : flash'[s] = Erased \/ flash'[s] = flash[s]
          BY <2>1
        <4>3. \A k \in low + 1 .. rows : flash'[Place(k)] = flash[Place(k)]
          BY <2>1, <3>1, <4>1
        <4>4. QED
          BY <1>1, <2>2, <4>2, <4>3 DEF Laid
      <3>7. GivenUp(low)'
        <4>1. rows - low < C
          BY <1>3, <2>4
        <4>2. QED
          BY <1>1, <2>2, <4>1 DEF GivenUp
      <3>8. Anchored(low)'
        <4>1. /\ head' = Len(filed') % Capacity /\ next' = FloorAtStart + Len(filed') + 1
              /\ Len(filed') = rows
          BY <1>1, <1>2, Zenon
        <4>2. QED
          BY <1>2, <3>4, <3>5, <4>1 DEF Anchored
      <3>9. QED
        BY <1>3, <1>4, <3>2, <3>6, <3>7, <3>8 DEF RingAt
    <2>5. QED
      BY <2>3, <2>4
  <1>6. CASE head % b # 0
    <2>1. UNCHANGED <<flash, oldest, count>> /\ rows - low # C
      BY <1>4, <1>6 DEF MakeRoom
    <2>2. low2 = low
      BY <2>1 DEF Left
    <2>3. Laid(low)'
      BY <1>1, <1>2, <2>1 DEF Laid
    <2>4. GivenUp(low)'
      <3>1. rows - low < C
        BY <1>3, <2>1
      <3>2. QED
        BY <1>1, <1>2, <3>1 DEF GivenUp
    <2>5. Anchored(low)'
      <3>1. /\ head' = Len(filed') % Capacity /\ next' = FloorAtStart + Len(filed') + 1
            /\ Len(filed') = rows
        BY <1>1, <1>2, Zenon
      <3>2. QED
        BY <1>2, <2>1, <3>1 DEF Anchored
    <2>6. QED
      BY <1>3, <1>4, <2>2, <2>3, <2>4, <2>5 DEF RingAt
  <1>7. QED
    BY <1>5, <1>6

\* Making room keeps the ring in shape.
LEMMA RingMakeRoom == ASSUME SoundFlash PROVE RingInv /\ MakeRoom => RingInv'
  <1> SUFFICES ASSUME RingInv, MakeRoom PROVE RingInv'
    OBVIOUS
  <1>1. UNCHANGED <<lastSeq, floor, filed>> /\ mode' = "write" /\ mode = "ready"
    BY DEF MakeRoom
  <1>2. PICK low \in 0 .. Len(filed) : RingAt(low)
    BY <1>1 DEF RingInv, ForeignRing
  <1>3. PICK low2 : low2 = Left(low)
    OBVIOUS
  <1>4. low2 \in 0 .. Len(filed') /\ RingAt(low2)'
    BY <1>1, <1>2, <1>3, RoomMade
  <1>5. FiledInv' /\ Numbered' /\ FloorAtStart <= lastSeq' /\ FloorAtStart <= floor'
    BY <1>1, FiledMakeRoom DEF RingInv, Numbered
  <1>6. QED
    BY <1>1, <1>4, <1>5 DEF RingInv

\* A row is written in the slot of its number, which is erased.
LEMMA RowWritten ==
    ASSUME RingInv, WriteRow, NEW low \in 0 .. Len(filed), RingAt(low)
    PROVE  /\ RingAt(low)' /\ low \in 0 .. Len(filed')
           /\ Numbered' /\ FloorAtStart <= lastSeq'
  <1> DEFINE rows == Len(filed)
             C    == Capacity
             row  == [seq |-> next, row |-> Head(queue)]
  <1>1. /\ flash' = [flash EXCEPT ![head] = Programmed(@, HeadRecord)]
        /\ oldest' = (IF oldest = 0 THEN next ELSE oldest)
        /\ count' = (IF count < Capacity THEN count + 1 ELSE count)
        /\ lastSeq' = next /\ next' = next + 1 /\ head' = NextHead
        /\ filed' = Append(filed, row) /\ mode' = "ready" /\ mode = "write"
    BY DEF WriteRow
  <1>2. /\ head = rows % C /\ next = FloorAtStart + rows + 1 /\ count = rows - low
        /\ oldest = IF rows = 0 THEN 0 ELSE FloorAtStart + low + 1
        /\ Laid(low) /\ GivenUp(low) /\ rows - low < C
    BY <1>1 DEF RingAt, Anchored, GivenUp
  <1>3. /\ rows \in Nat /\ low \in 0 .. rows /\ C \in Nat \ {0} /\ FloorAtStart \in Nat
        /\ filed \in Seq([seq : Nat, row : Nat]) /\ next \in Nat /\ Head(queue) \in Nat
        /\ head \in Slots /\ flash \in [Slots -> SlotContents]
    <2>1. /\ filed \in Seq([seq : Nat, row : Nat]) /\ next \in Nat
          /\ queue \in Seq(Nat) /\ queue # <<>>
          /\ head \in Slots /\ flash \in [Slots -> SlotContents] /\ LogStateOK
      BY <1>1 DEF RingInv, FiledInv, LogStateOK
    <2>2. Head(queue) \in Nat
      BY <2>1
    <2>3. QED
      BY <2>1, <2>2, FiledRows, CapacityPositive, EventLogAssumption
  <1>4. row \in [seq : Nat, row : Nat] /\ row.seq = FloorAtStart + (rows + 1)
        /\ row.row = Head(queue)
    BY <1>2, <1>3
  <1> HIDE DEF row
  <1>5. /\ Len(filed') = rows + 1
        /\ \A k \in 1 .. rows : filed'[k] = filed[k]
        /\ filed'[rows + 1] = row
    <2> DEFINE Row == [seq : Nat, row : Nat]
    <2>1. filed \in Seq(Row) /\ row \in Row
      BY <1>3, <1>4
    <2> HIDE DEF Row
    <2>2. QED
      BY <1>1, <2>1
  <1>6. /\ Place(rows + 1) = head
        /\ \A k \in low + 1 .. rows : Place(k) \in Slots /\ Place(k) # head
    <2>1. Place(rows + 1) = head
      <3>1. (rows + 1) - 1 = rows
        BY <1>3
      <3>2. QED
        BY <1>2, <3>1 DEF Place
    <2>2. ASSUME NEW k \in low + 1 .. rows PROVE Place(k) \in Slots /\ Place(k) # head
      <3>1. k \in 1 .. rows /\ rows - k < C /\ k \in Nat \ {0}
        BY <1>2, <1>3
      <3>2. head \in 0 .. C - 1
            /\ Place(k) = IF rows + 1 - k <= head THEN head - (rows + 1 - k)
                          ELSE head + C - (rows + 1 - k)
        BY <1>2, <1>3, <3>1, BehindHead
      <3>3. Place(k) # head
        <4> HIDE DEF rows, C
        <4>1. rows + 1 - k \in 1 .. C - 1
          BY <1>2, <1>3, <3>1
        <4>2. QED
          BY <1>3, <3>2, <4>1
      <3>4. QED
        BY <3>1, <3>3, PlaceInSlots
    <2>3. QED
      BY <2>1, <2>2
  <1>7. flash'[head] = Record(FloorAtStart + (rows + 1), row.row)
    <2>1. flash[head] = Erased
      BY <1>2, <1>3, <1>6 DEF Laid
    <2>2. HeadRecord = Record(FloorAtStart + (rows + 1), row.row)
      BY <1>2, <1>3, <1>4 DEF HeadRecord
    <2>3. QED
      BY <1>1, <1>3, <2>1, <2>2 DEF Programmed
  <1>8. \A k \in low + 1 .. rows + 1 : k = rows + 1 \/ k \in low + 1 .. rows
    BY <1>3
  <1>9. Laid(low)'
    <2>1. ASSUME NEW k \in low + 1 .. rows + 1
          PROVE  flash'[Place(k)] = Record(FloorAtStart + k, filed'[k].row)
      <3>1. CASE k = rows + 1
        BY <1>5, <1>6, <1>7, <3>1
      <3>2. CASE k \in low + 1 .. rows
        <4>1. flash'[Place(k)] = flash[Place(k)]
          BY <1>1, <1>3, <1>6, <3>2
        <4>2. k \in 1 .. rows
          BY <1>3, <3>2
        <4>3. QED
          BY <1>2, <1>5, <3>2, <4>1, <4>2 DEF Laid
      <3>3. QED
        BY <1>8, <3>1, <3>2
    <2>2. ASSUME NEW s \in Slots
          PROVE  flash'[s] = Erased \/ \E k \in low + 1 .. rows + 1 : s = Place(k)
      <3>1. CASE s = head
        <4>1. rows + 1 \in low + 1 .. rows + 1
          BY <1>3
        <4>2. QED
          BY <1>6, <3>1, <4>1
      <3>2. CASE s # head
        <4>1. flash'[s] = flash[s]
          BY <1>1, <1>3, <3>2
        <4>2. \A k \in low + 1 .. rows : k \in low + 1 .. rows + 1
          BY <1>3
        <4>3. QED
          BY <1>2, <4>1, <4>2 DEF Laid
      <3>3. QED
        BY <3>1, <3>2
    <2>3. QED
      BY <1>5, <2>1, <2>2 DEF Laid
  <1>10. GivenUp(low)'
    <2>1. Whole(low) /\ (low = 0 \/ low + C <= rows + SlotsPerSector)
      BY <1>2 DEF GivenUp
    <2>2. Len(filed') - low <= C /\ (low = 0 \/ low + C <= Len(filed') + SlotsPerSector)
      <3>1. SlotsPerSector \in Nat
        BY EventLogAssumption
      <3> HIDE DEF rows, C
      <3>2. QED
        BY <1>2, <1>3, <1>5, <2>1, <3>1
    <2>3. QED
      BY <1>1, <2>1, <2>2 DEF GivenUp
  <1>11. Anchored(low)'
    <2>1. head' = (rows + 1) % C
      BY <1>1, <1>2, <1>3, HeadMoves DEF NextHead
    <2>2. next' = FloorAtStart + (rows + 1) + 1
      BY <1>1, <1>2, <1>3
    <2>3. oldest' = FloorAtStart + low + 1
      <3> HIDE DEF rows, C
      <3>1. QED
        BY <1>1, <1>2, <1>3
    <2>4. count' = (rows + 1) - low
      <3> HIDE DEF rows
      <3>1. QED
        BY <1>1, <1>2, <1>3
    <2>5. rows + 1 # 0
      BY <1>3
    <2>6. QED
      BY <1>5, <2>1, <2>2, <2>3, <2>4, <2>5 DEF Anchored
  <1>12. Numbered'
    <2>1. \A k \in 1 .. rows + 1 : k = rows + 1 \/ k \in 1 .. rows
      BY <1>3
    <2>2. \A k \in 1 .. rows : filed'[k].seq = FloorAtStart + k
      BY <1>5 DEF RingInv, Numbered
    <2>3. filed'[rows + 1].seq = FloorAtStart + (rows + 1)
      BY <1>4, <1>5
    <2>4. \A k \in 1 .. Len(filed') : filed'[k].seq = FloorAtStart + k
      BY <1>5, <2>1, <2>2, <2>3
    <2>5. QED
      BY <2>4 DEF Numbered
  <1>13. FloorAtStart <= lastSeq' /\ low \in 0 .. Len(filed')
    <2>1. lastSeq' = FloorAtStart + rows + 1 /\ Len(filed') = rows + 1
      BY <1>1, <1>2, <1>5, Zenon
    <2> HIDE DEF rows
    <2>2. QED
      BY <1>3, <2>1
  <1>14. QED
    BY <1>9, <1>10, <1>11, <1>12, <1>13 DEF RingAt

\* No step takes the ring out of shape.
LEMMA RingStep == ASSUME SoundFlash PROVE RingInv /\ [Next]_ringVars => RingInv'
  <1> SUFFICES ASSUME RingInv, [Next]_ringVars PROVE RingInv'
    OBVIOUS
  <1>1. FiledInv'
    BY FiledStep DEF RingInv
  <1>2. CASE RecordSession
    BY <1>1, <1>2, RingUnmoved DEF RecordSession, anchors
  <1>3. CASE WriteRow
    <2>1. mode = "write" /\ mode' = "ready" /\ floor' = floor
      BY <1>3 DEF WriteRow
    <2>2. PICK low \in 0 .. Len(filed) : RingAt(low)
      BY <2>1 DEF RingInv, ForeignRing
    <2>3. /\ RingAt(low)' /\ low \in 0 .. Len(filed')
          /\ Numbered' /\ FloorAtStart <= lastSeq'
      BY <1>3, <2>2, RowWritten
    <2>4. QED
      BY <1>1, <2>1, <2>3 DEF RingInv
  <1>4. CASE WriteFails
    <2>1. /\ UNCHANGED <<flash, filed, head, next, oldest, count, lastSeq, floor>>
          /\ mode = "write" /\ mode' = "ready"
      BY <1>4 DEF WriteFails, anchors, SoundFlash
    <2>2. QED
      BY <1>1, <2>1, RingUnmoved
  <1>5. CASE SaveLastSeq
    <2>1. /\ UNCHANGED <<flash, filed, head, next, oldest, count, lastSeq, mode>>
          /\ floor' = lastSeq
      BY <1>5 DEF SaveLastSeq, anchors
    <2>2. QED
      BY <1>1, <2>1, RingUnmoved
  <1>6. CASE PowerCut
    <2>1. /\ UNCHANGED <<flash, filed, floor>> /\ mode' = "boot" /\ lastSeq' = floor
          /\ Len(filed) <= LastReset
      BY <1>6 DEF PowerCut, SoundFlash
    <2>2. Len(filed) <= Capacity
      BY <2>1, FiledRows, CapacityPositive, EventLogAssumption DEF SoundFlash, RingInv, FiledInv
    <2>3. QED
      BY <1>1, <2>1, <2>2, RingUnmoved
  <1>7. CASE UNCHANGED ringVars
    BY <1>1, <1>7, RingUnmoved DEF ringVars, anchors
  <1>8. QED
    BY <1>2, <1>3, <1>4, <1>5, <1>6, <1>7, RingBoot, RingMakeRoom DEF Next

\* Numbers are handed out without a hole and never twice, across resets and refused writes,
\* and the next one is decided before it is used (write_one_locked takes it from s_next_seq
\* only when the flash took the row; eventlog_init restores it from flash and counters).
THEOREM NumbersAreContiguous == ASSUME SoundFlash PROVE Spec => []NumbersContiguous
  <1>1. RingInv => NumbersContiguous
    BY DEF RingInv, RingAt, Numbered, Anchored, ForeignRing, NumbersContiguous
  <1>2. Init => RingInv
    BY RingInit
  <1>3. RingInv /\ [Next]_ringVars => RingInv'
    BY RingStep
  <1>4. QED
    BY <1>1, <1>2, <1>3, PTL DEF Spec

-----------------------------------------------------------------------------
(* Pages of a sound ring *)

\* The rows the window claims are there, each where the arithmetic looks for it.
LEMMA WindowReadable ==
    ASSUME RingInv, mode = "ready", NEW low \in 0 .. Len(filed), RingAt(low),
           NEW k \in low + 1 .. Len(filed)
    PROVE  Readable(FloorAtStart + k)
  <1>1. /\ Len(filed) \in Nat /\ FloorAtStart \in Nat /\ k \in 1 .. Len(filed)
        /\ Len(filed) - k < Capacity /\ head = Len(filed) % Capacity
        /\ next = FloorAtStart + Len(filed) + 1
        /\ flash[Place(k)] = Record(FloorAtStart + k, filed[k].row)
    <2>1. Len(filed) \in Nat /\ FloorAtStart \in Nat /\ Capacity \in Nat
      BY FiledRows, CapacityPositive, EventLogAssumption DEF RingInv, FiledInv
    <2>2. Len(filed) - low <= Capacity
      BY DEF RingAt, GivenUp
    <2>3. k \in 1 .. Len(filed) /\ Len(filed) - k < Capacity
      BY <2>1, <2>2
    <2>4. QED
      BY <2>1, <2>3 DEF RingAt, Anchored, Laid
  <1>2. next - (FloorAtStart + k) = Len(filed) + 1 - k
    BY <1>1
  <1>3. SlotOf(FloorAtStart + k) = Place(k)
    BY <1>1, <1>2, SlotIsPlace DEF SlotOf
  <1>4. QED
    BY <1>1, <1>3, SlotKinds DEF Readable

\* The numbers a phone that has all up to its cursor is still to be sent
Due(after) == {filed[k].seq : k \in {j \in Retained : filed[j].seq > after}}

\* What is due to a cursor is the end of the window.
LEMMA DueIsWindow ==
    ASSUME RingInv, mode = "ready", NEW low \in 0 .. Len(filed), RingAt(low), NEW after \in Nat
    PROVE  /\ FloorAtStart + Len(filed) = Last /\ Last \in Nat
           /\ count = 0 \/ after >= Last => Due(after) = {}
           /\ count # 0 /\ ~(after >= Last) =>
                 /\ Due(after) = From(after) .. Last /\ From(after) <= Last
                 /\ From(after) \in Nat /\ From(after) >= FloorAtStart + low + 1
  <1> DEFINE rows == Len(filed)
             F    == FloorAtStart
  <1>1. /\ rows \in Nat /\ F \in Nat /\ low \in 0 .. rows /\ next = F + rows + 1
        /\ oldest = (IF rows = 0 THEN 0 ELSE F + low + 1) /\ count = rows - low
    BY FiledRows, EventLogAssumption DEF RingInv, FiledInv, RingAt, Anchored
  <1>2. \A k \in 1 .. rows : filed[k].seq = F + k
    BY DEF RingInv, Numbered
  <1> HIDE DEF rows, F
  <1>3. F + rows = Last /\ Last \in Nat
    BY <1>1 DEF Last
  <1>4. Due(after) = {F + k : k \in {j \in 1 .. rows : F + j >= oldest /\ F + j > after}}
    <2>1. {j \in Retained : filed[j].seq > after}
             = {j \in 1 .. rows : F + j >= oldest /\ F + j > after}
      BY <1>2 DEF Retained, rows
    <2>2. QED
      BY <1>2, <2>1 DEF Due
  <1>5. \A n : n \in Due(after) <=> n \in Int /\ n >= oldest /\ n > after /\ n > F + low /\ n <= Last
    <2>1. ASSUME NEW k \in 1 .. rows, F + k >= oldest, F + k > after
          PROVE  F + k \in Int /\ F + k > F + low /\ F + k <= Last
      BY <1>1, <1>3, <2>1
    <2>2. ASSUME NEW n \in Int, n >= oldest, n > after, n > F + low, n <= Last
          PROVE  n - F \in 1 .. rows /\ F + (n - F) = n
      BY <1>1, <1>3, <2>2
    <2>3. ASSUME NEW n, n \in Due(after)
          PROVE  n \in Int /\ n >= oldest /\ n > after /\ n > F + low /\ n <= Last
      <3>1. PICK k \in 1 .. rows : n = F + k /\ F + k >= oldest /\ F + k > after
        BY <1>4, <2>3
      <3>2. QED
        BY <2>1, <3>1
    <2>4. ASSUME NEW n, n \in Int, n >= oldest, n > after, n > F + low, n <= Last
          PROVE  n \in Due(after)
      <3>1. n - F \in 1 .. rows /\ F + (n - F) = n
        BY <2>2, <2>4
      <3>2. QED
        BY <1>4, <2>4, <3>1
    <2>5. QED
      BY <2>3, <2>4
  <1>6. count = 0 \/ after >= Last => Due(after) = {}
    <2>1. ASSUME NEW n \in Due(after) PROVE ~(count = 0) /\ ~(after >= Last)
      BY <1>1, <1>3, <1>5
    <2>2. QED
      BY <2>1
  <1>7. ASSUME count # 0, ~(after >= Last)
        PROVE  /\ Due(after) = From(after) .. Last /\ From(after) <= Last
               /\ From(after) \in Nat /\ From(after) >= F + low + 1
    <2>1. rows # 0 /\ low < rows /\ oldest = F + low + 1
      BY <1>1, <1>7
    <2>2. From(after) = IF after + 1 < F + low + 1 THEN F + low + 1 ELSE after + 1
      BY <2>1 DEF From
    <2>3. From(after) <= Last /\ From(after) \in Nat /\ From(after) >= F + low + 1
      BY <1>1, <1>3, <1>7, <2>1, <2>2
    <2>4. ASSUME NEW n \in Int
          PROVE  n >= oldest /\ n > after /\ n > F + low <=> n >= From(after)
      BY <1>1, <2>1, <2>2
    <2>5. ASSUME NEW n
          PROVE  n \in Due(after) <=> n \in From(after) .. Last
      BY <1>3, <1>5, <2>3, <2>4
    <2>6. QED
      BY <2>3, <2>5, Zenon
  <1>8. QED
    BY <1>3, <1>6, <1>7 DEF rows, F

\* The page is as long as the rows that are due or as a page may be.
LEMMA PageLength ==
    ASSUME RingInv, mode = "ready", NEW low \in 0 .. Len(filed), RingAt(low), NEW after \in Nat,
           count # 0, ~(after >= Last),
           NEW n, n = IF PageMax <= Last - From(after) + 1 THEN PageMax
                      ELSE Last - From(after) + 1
    PROVE  /\ n \in Nat /\ n > 0
           /\ Page(after) = [events |-> [i \in 1 .. n |-> flash[SlotOf(From(after) + i - 1)]],
                             more |-> n > 0 /\ From(after) + n <= Last]
  <1> DEFINE from == From(after)
             fits == {k \in 0 .. PageMax :
                         \A i \in 0 .. (k - 1) : from + i <= Last /\ Readable(from + i)}
  <1>1. /\ FloorAtStart + Len(filed) = Last /\ Last \in Nat /\ from <= Last /\ from \in Nat
        /\ from >= FloorAtStart + low + 1
    BY DueIsWindow
  <1>2. PageMax \in Nat \ {0} /\ FloorAtStart \in Nat /\ Len(filed) \in Nat /\ low \in Nat
    BY FiledRows, EventLogAssumption DEF RingInv, FiledInv
  <1>3. Page(after) = [events |-> [i \in 1 .. Max(fits) |-> flash[SlotOf(from + i - 1)]],
                       more |-> Max(fits) > 0 /\ from + Max(fits) <= Last]
    BY DEF Page, From
  <1>4. n \in Nat /\ n > 0 /\ n <= PageMax /\ n <= Last - from + 1
        /\ (n = PageMax \/ n = Last - from + 1)
    BY <1>1, <1>2
  <1> HIDE DEF from
  <1>5. ASSUME NEW i \in 0 .. n - 1 PROVE from + i <= Last /\ Readable(from + i)
    <2>1. from + i <= Last /\ from + i - FloorAtStart \in low + 1 .. Len(filed)
          /\ FloorAtStart + (from + i - FloorAtStart) = from + i
      BY <1>1, <1>2, <1>4
    <2>2. Readable(FloorAtStart + (from + i - FloorAtStart))
      BY <2>1, WindowReadable
    <2>3. QED
      BY <2>1, <2>2
  <1>6. n \in fits
    BY <1>2, <1>4, <1>5
  <1>7. ASSUME NEW k \in fits PROVE k <= n
    <2>1. k \in 0 .. PageMax /\ \A i \in 0 .. (k - 1) : from + i <= Last
      OBVIOUS
    <2>2. CASE n = Last - from + 1
      <3>1. from + n > Last
        BY <1>1, <1>4, <2>2
      <3>2. n \notin 0 .. (k - 1)
        BY <1>1, <1>4, <2>1, <3>1
      <3>3. QED
        BY <1>2, <1>4, <2>1, <3>2
    <2>3. CASE n = PageMax
      BY <1>2, <2>1, <2>3
    <2>4. QED
      BY <1>4, <2>2, <2>3
  <1>8. Max(fits) = n
    <2>1. fits \in SUBSET Int
      BY <1>2
    <2> HIDE DEF fits
    <2>2. QED
      BY <1>6, <1>7, <2>1, MaxIs
  <1> HIDE DEF fits
  <1>9. QED
    BY <1>3, <1>4, <1>8 DEF from

\* A page serves the first PageMax rows that are due.
LEMMA PageComplete ==
    ASSUME RingInv, mode = "ready", NEW after \in Nat
    PROVE  LET got == {Page(after).events[i].seq : i \in 1 .. Len(Page(after).events)}
           IN  /\ got \subseteq Due(after)
               /\ Cardinality(got) = IF Cardinality(Due(after)) < PageMax
                                     THEN Cardinality(Due(after)) ELSE PageMax
               /\ \A d \in Due(after) \ got : \A g \in got : g < d
               /\ Page(after).more <=> Due(after) \ got # {}
  <1> DEFINE events == Page(after).events
             got    == {events[i].seq : i \in 1 .. Len(events)}
             due    == Due(after)
  <1>1. PICK low \in 0 .. Len(filed) : RingAt(low)
    BY DEF RingInv, ForeignRing
  <1>2. PageMax \in Nat \ {0}
    BY EventLogAssumption
  <1>3. CASE count = 0 \/ after >= Last
    <2>1. due = {}
      BY <1>1, <1>3, DueIsWindow
    <2>2. Page(after) = [events |-> <<>>, more |-> FALSE]
      BY <1>3 DEF Page
    <2>3. events = <<>> /\ ~Page(after).more
      BY <2>2
    <2>4. got = {}
      BY <2>3
    <2>5. Cardinality({}) = 0
      BY FS_EmptySet
    <2>6. /\ got \subseteq due
          /\ Cardinality(got) = IF Cardinality(due) < PageMax THEN Cardinality(due) ELSE PageMax
          /\ \A d \in due \ got : \A g \in got : g < d
      <3> HIDE DEF got, due
      <3>1. QED
        BY <1>2, <2>1, <2>4, <2>5
    <2>7. Page(after).more <=> due \ got # {}
      <3>1. due \ got = {}
        <4> HIDE DEF got, due
        <4>1. QED
          BY <2>1, <2>4
      <3>2. QED
        BY <2>3, <3>1, Zenon
    <2>8. QED
      BY <2>6, <2>7, Zenon DEF got, due, events
  <1>4. CASE ~(count = 0 \/ after >= Last)
    <2> DEFINE from == From(after)
    <2>1. PICK n : n = IF PageMax <= Last - from + 1 THEN PageMax ELSE Last - from + 1
      OBVIOUS
    <2>2. due = from .. Last /\ from <= Last /\ from \in Nat /\ Last \in Nat
      BY <1>1, <1>4, DueIsWindow
    <2>3. /\ n \in Nat /\ n > 0
          /\ Page(after) = [events |-> [i \in 1 .. n |-> flash[SlotOf(from + i - 1)]],
                            more |-> n > 0 /\ from + n <= Last]
      BY <1>1, <1>4, <2>1, PageLength, Zenon
    <2>4. events = [i \in 1 .. n |-> flash[SlotOf(from + i - 1)]]
      BY <2>3
    <2>5. Page(after).more <=> from + n <= Last
      <3> DEFINE left == n > 0 /\ from + n <= Last
      <3>1. Page(after) = [events |-> [i \in 1 .. n |-> flash[SlotOf(from + i - 1)]],
                           more |-> left]
        BY <2>3, Zenon
      <3>2. Page(after).more = left
        <4> HIDE DEF left, from
        <4>1. QED
          BY <3>1
      <3>3. QED
        BY <2>3, <3>2, Zenon DEF left
    <2>6. \A i \in 1 .. n : events[i].seq = from + i - 1
      <3>1. Len(events) = n
        BY <2>3, <2>4
      <3>2. \A i \in 1 .. n : Readable(from + i - 1) /\ events[i] = flash[SlotOf(from + i - 1)]
        BY <3>1, PageRows DEF RingInv
      <3>3. QED
        BY <3>2 DEF Readable
    <2>7. Len(events) = n
      BY <2>3, <2>4
    <2> HIDE DEF events, from
    <2>8. got = from .. from + n - 1
      <3>1. got = {events[i].seq : i \in 1 .. n}
        BY <2>7
      <3>2. ASSUME NEW x \in from .. from + n - 1
            PROVE  x - from + 1 \in 1 .. n /\ events[x - from + 1].seq = x
        <4>1. x - from + 1 \in 1 .. n /\ from + (x - from + 1) - 1 = x
          BY <2>2, <2>3
        <4>2. QED
          BY <2>6, <4>1
      <3>3. ASSUME NEW i \in 1 .. n PROVE events[i].seq \in from .. from + n - 1
        <4>1. from + i - 1 \in from .. from + n - 1
          BY <2>2, <2>3
        <4>2. QED
          BY <2>6, <4>1
      <3>4. QED
        BY <3>1, <3>2, <3>3
    <2> HIDE DEF got, due
    <2>9. n <= Last - from + 1 /\ n <= PageMax /\ (n = PageMax \/ n = Last - from + 1)
      BY <1>2, <2>1, <2>2
    <2>10. Cardinality(got) = n /\ Cardinality(due) = Last - from + 1
      <3>1. Cardinality(from .. from + n - 1)
               = IF from > from + n - 1 THEN 0 ELSE (from + n - 1) - from + 1
        <4>1. from \in Int /\ from + n - 1 \in Int
          BY <2>2, <2>3
        <4>2. QED
          BY <4>1, FS_Interval
      <3>2. Cardinality(from .. Last) = IF from > Last THEN 0 ELSE Last - from + 1
        <4>1. from \in Int /\ Last \in Int
          BY <2>2
        <4>2. QED
          BY <4>1, FS_Interval
      <3>3. QED
        BY <2>2, <2>3, <2>8, <3>1, <3>2
    <2>11. got \subseteq due
      BY <2>2, <2>3, <2>8, <2>9
    <2>12. Cardinality(got) = IF Cardinality(due) < PageMax THEN Cardinality(due) ELSE PageMax
      BY <1>2, <2>2, <2>3, <2>9, <2>10
    <2>13. \A d \in due \ got : \A g \in got : g < d
      BY <2>2, <2>3, <2>8
    <2>14. from + n <= Last <=> due \ got # {}
      <3>1. CASE from + n <= Last
        <4>1. from + n \in due \ got
          BY <2>2, <2>3, <2>8, <3>1
        <4>2. QED
          BY <3>1, <4>1
      <3>2. CASE ~(from + n <= Last)
        <4>1. due \ got = {}
          BY <2>2, <2>3, <2>8, <3>2
        <4>2. QED
          BY <3>2, <4>1
      <3>3. QED
        BY <3>1, <3>2
    <2>15. QED
      BY <2>5, <2>11, <2>12, <2>13, <2>14 DEF got, due, events
  <1>5. QED
    BY <1>3, <1>4

\* Every retained row newer than the cursor is served, page by page, and "more" says whether
\* some are left (eventlog_build_page, whose loop stops at the first row it cannot read:
\* in a sound ring there is none).
THEOREM PagesAreComplete == ASSUME SoundFlash PROVE Spec => []PagesComplete
  <1>1. RingInv => PagesComplete
    <2> SUFFICES ASSUME RingInv, mode = "ready", NEW after \in Cursors
                 PROVE  LET due  == Due(after)
                            page == Page(after)
                            got  == {page.events[i].seq : i \in 1 .. Len(page.events)}
                        IN  /\ got \subseteq due
                            /\ Cardinality(got) = IF Cardinality(due) < PageMax
                                                  THEN Cardinality(due) ELSE PageMax
                            /\ \A d \in due \ got : \A g \in got : g < d
                            /\ page.more <=> due \ got # {}
      BY Zenon DEF PagesComplete, Due
    <2>1. after \in Nat
      BY FiledRows, EventLogAssumption DEF Cursors, RingInv, FiledInv
    <2>2. QED
      BY <2>1, PageComplete, Zenon
  <1>2. Init => RingInv
    BY RingInit
  <1>3. RingInv /\ [Next]_ringVars => RingInv'
    BY RingStep
  <1>4. QED
    BY <1>1, <1>2, <1>3, PTL DEF Spec

-----------------------------------------------------------------------------
(* What a step does to the rows that are left *)

\* The rows left after the first `low', or none yet on a partition with foreign data
Holds(low) ==
    /\ SeqsIn(flash, Slots) = FloorAtStart + low + 1 .. FloorAtStart + Len(filed)
    /\ low \in 0 .. Len(filed)

\* The numbers in a ring in shape are those of the rows left.
RingHasNumbers == \A low : RingInv /\ low \in 0 .. Len(filed) /\ RingAt(low) => Holds(low)

LEMMA RingHolds == RingHasNumbers
BY LaidNumbers DEF RingInv, FiledInv, RingAt, Holds, RingHasNumbers

\* Foreign data hold no numbers.
LEMMA ForeignHolds == RingInv /\ ForeignRing => Holds(0)
  <1> SUFFICES ASSUME RingInv, ForeignRing PROVE Holds(0)
    OBVIOUS
  <1>1. \A s \in Slots : flash[s].kind # "record"
    BY SlotKinds DEF ForeignRing
  <1>2. SeqsIn(flash, Slots) = {}
    BY <1>1 DEF SeqsIn, Valid
  <1>3. Len(filed) = 0 /\ FloorAtStart \in Nat
    BY EventLogAssumption DEF ForeignRing
  <1>4. QED
    BY <1>2, <1>3 DEF Holds

\* A step leaves the rows in the flash alone, or erases a sector of a full ring, or adds the
\* next row to a ring that is not full.
LEMMA RowsStep ==
    ASSUME SoundFlash, RingInv, [Next]_ringVars
    PROVE  \E low, low2 :
              /\ Holds(low) /\ Holds(low2)'
              /\ \/ low2 = low /\ filed' = filed /\ ~WriteRow
                    /\ (MakeRoom => Len(filed) - low # Capacity)
                 \/ /\ MakeRoom /\ filed' = filed /\ Len(filed) - low = Capacity
                    /\ low2 = low + SlotsPerSector
                 \/ /\ WriteRow /\ low2 = low /\ Len(filed) - low < Capacity
  <1>1. CASE MakeRoom
    <2>1. mode # "boot" /\ mode = "ready" /\ filed' = filed
      BY <1>1 DEF MakeRoom
    <2>2. PICK low \in 0 .. Len(filed) : RingAt(low)
      BY <2>1 DEF RingInv, ForeignRing
    <2>3. PICK low2 : low2 = Left(low)
      OBVIOUS
    <2>4. low2 \in 0 .. Len(filed') /\ RingAt(low2)'
      BY <1>1, <2>1, <2>2, <2>3, RoomMade
    <2>5. Holds(low)
      BY <2>2, RingHolds DEF RingHasNumbers
    <2>6. RingInv'
      BY <1>1, RingMakeRoom
    <2>7. RingHasNumbers'
      BY RingHolds, PTL
    <2>8. Holds(low2)'
      BY <2>4, <2>6, <2>7 DEF RingHasNumbers
    <2>9. ~WriteRow
      BY <2>1 DEF WriteRow
    <2>10. QED
      BY <1>1, <2>1, <2>3, <2>5, <2>8, <2>9 DEF Left
  <1>2. CASE WriteRow
    <2>1. mode = "write"
      BY <1>2 DEF WriteRow
    <2>2. PICK low \in 0 .. Len(filed) : RingAt(low)
      BY <2>1 DEF RingInv, ForeignRing
    <2>3. RingAt(low)' /\ low \in 0 .. Len(filed') /\ RingInv'
      BY <1>2, <2>2, RowWritten, RingStep
    <2>4. RingHasNumbers'
      BY RingHolds, PTL
    <2>5. Holds(low) /\ Holds(low)'
      BY <2>2, <2>3, <2>4, RingHolds DEF RingHasNumbers
    <2>6. Len(filed) - low < Capacity
      BY <2>1, <2>2 DEF RingAt, GivenUp
    <2>7. QED
      BY <1>2, <2>5, <2>6
  <1>3. CASE ~MakeRoom /\ ~WriteRow
    <2>1. filed' = filed
      BY <1>3 DEF Next, Boot, RecordSession, WriteFails, SaveLastSeq, PowerCut, ringVars
    <2>2. \E low : Holds(low)
      BY RingHolds, ForeignHolds DEF RingInv, RingHasNumbers
    <2>3. CASE flash' = flash
      BY <1>3, <2>1, <2>2, <2>3 DEF Holds
    <2>4. CASE flash' # flash
      <3>1. Boot
        BY <1>3, <2>4 DEF Next, RecordSession, WriteFails, SaveLastSeq, PowerCut, ringVars,
                          SoundFlash
      <3>2. flash' = [s \in Slots |-> Erased] /\ ForeignData
        BY <2>4, <3>1 DEF Boot
      <3>3. SeqsIn(flash, Slots) = {} /\ SeqsIn(flash', Slots) = {}
        BY <3>2, SlotKinds DEF ForeignData, SeqsIn, Valid
      <3>4. QED
        BY <1>3, <2>1, <2>2, <3>3 DEF Holds
    <2>5. QED
      BY <2>3, <2>4
  <1>4. QED
    BY <1>1, <1>2, <1>3

\* An erase destroys the oldest rows only: whatever step, reset or refused write it follows.
THEOREM WrapOldestFirst == ASSUME SoundFlash PROVE Spec => WrapIsOldestFirst
  <1> DEFINE Oldest == \A gone \in SeqsIn(flash, Slots) \ SeqsIn(flash', Slots) :
                          \A left \in SeqsIn(flash', Slots) : gone < left
  <1>1. RingInv /\ [Next]_ringVars => [Oldest]_ringVars
    <2> SUFFICES ASSUME RingInv, [Next]_ringVars,
                        NEW gone \in SeqsIn(flash, Slots), gone \notin SeqsIn(flash', Slots),
                        NEW left \in SeqsIn(flash', Slots)
                 PROVE  gone < left
      OBVIOUS
    <2>1. PICK low, low2 :
              /\ Holds(low) /\ Holds(low2)'
              /\ \/ low2 = low /\ filed' = filed
                 \/ filed' = filed /\ low2 = low + SlotsPerSector
                 \/ WriteRow /\ low2 = low
      BY RowsStep
    <2>2. /\ SeqsIn(flash, Slots) = FloorAtStart + low + 1 .. FloorAtStart + Len(filed)
          /\ SeqsIn(flash', Slots) = FloorAtStart + low2 + 1 .. FloorAtStart + Len(filed')
          /\ Len(filed) \in Nat /\ FloorAtStart \in Nat /\ SlotsPerSector \in Nat
          /\ low \in 0 .. Len(filed)
      BY <2>1, FiledRows, EventLogAssumption DEF Holds, RingInv, FiledInv
    <2>3. low2 \in Nat /\ Len(filed') >= Len(filed) /\ Len(filed') \in Nat
      <3>1. CASE filed' = filed
        BY <2>1, <2>2, <3>1 DEF Holds
      <3>2. CASE WriteRow /\ low2 = low
        <4>1. filed' = Append(filed, [seq |-> next, row |-> Head(queue)])
          BY <3>2 DEF WriteRow
        <4>2. Len(filed') = Len(filed) + 1
          BY <4>1
        <4>3. QED
          BY <2>2, <3>2, <4>2
      <3>3. QED
        BY <2>1, <3>1, <3>2
    <2>4. QED
      BY <2>2, <2>3
  <1>2. Init => RingInv
    BY RingInit
  <1>3. RingInv /\ [Next]_ringVars => RingInv'
    BY RingStep
  <1> HIDE DEF Oldest
  <1>4. Spec => [][Oldest]_ringVars
    BY <1>1, <1>2, <1>3, PTL DEF Spec
  <1>5. QED
    BY <1>4 DEF Oldest, WrapIsOldestFirst

-----------------------------------------------------------------------------
(* The ring keeps the promise of SalesLog *)

\* The refinement mapping
Rows == [k \in 1 .. Len(filed) |-> filed[k].row]

Kept == {k \in 1 .. Len(filed) : filed[k].seq \in SeqsIn(flash, Slots)}

\* Of the rows, those after the first `low' are kept.
KeptAre == \A low : RingInv /\ Holds(low) => Kept = low + 1 .. Len(filed)

LEMMA KeptRows == KeptAre
  <1> SUFFICES ASSUME NEW low, RingInv, Holds(low)
               PROVE  Kept = low + 1 .. Len(filed)
    BY DEF KeptAre
  <1> DEFINE rows == Len(filed)
  <1>1. /\ rows \in Nat /\ low \in 0 .. rows /\ FloorAtStart \in Nat
        /\ SeqsIn(flash, Slots) = FloorAtStart + low + 1 .. FloorAtStart + rows
        /\ \A k \in 1 .. rows : filed[k].seq = FloorAtStart + k
    BY FiledRows, EventLogAssumption DEF RingInv, FiledInv, Numbered, Holds
  <1>2. Kept = {k \in 1 .. rows : filed[k].seq \in SeqsIn(flash, Slots)}
    BY DEF Kept
  <1> HIDE DEF rows
  <1>3. \A k \in 1 .. rows : FloorAtStart + k \in FloorAtStart + low + 1 .. FloorAtStart + rows
                             <=> k \in low + 1 .. rows
    BY <1>1
  <1>4. low + 1 .. rows \subseteq 1 .. rows
    BY <1>1
  <1>5. Kept = low + 1 .. rows
    BY <1>1, <1>2, <1>3, <1>4
  <1>6. QED
    BY <1>5 DEF rows

\* SalesLog counts rows as FiniteSets does.
LEMMA SameCount == Promise!Cardinality(Kept) = Cardinality(Kept)
BY DEF Promise!Cardinality, Cardinality, Promise!IsFiniteSet, IsFiniteSet

\* Every step of the ring is a step of the abstract log, or none: rows are filed, a full ring
\* gives up its oldest sector, a reset loses what was waiting, and nothing else happens.
LEMMA RingStepKeepsPromise ==
    ASSUME SoundFlash, RingInv, [Next]_ringVars
    PROVE  [Promise!Next]_<<closed, queue, Rows, Kept>>
  <1> DEFINE rows == Len(filed)
  <1>1. PICK low, low2 :
           /\ Holds(low) /\ Holds(low2)'
           /\ \/ low2 = low /\ filed' = filed /\ ~WriteRow
                 /\ (MakeRoom => Len(filed) - low # Capacity)
              \/ /\ MakeRoom /\ filed' = filed /\ Len(filed) - low = Capacity
                 /\ low2 = low + SlotsPerSector
              \/ /\ WriteRow /\ low2 = low /\ Len(filed) - low < Capacity
    BY RowsStep
  <1>2. RingInv' /\ KeptAre'
    BY RingStep, KeptRows, PTL
  <1>3. Kept = low + 1 .. Len(filed) /\ Kept' = low2 + 1 .. Len(filed')
    BY <1>1, <1>2, KeptRows DEF KeptAre
  <1>4. /\ rows \in Nat /\ low \in 0 .. rows /\ Capacity \in Nat \ {0}
        /\ SlotsPerSector \in Nat \ {0}
    BY <1>1, FiledRows, CapacityPositive, EventLogAssumption DEF RingInv, FiledInv, Holds
  <1>5. Cardinality(Kept) = rows - low
    <2>1. low + 1 \in Int /\ rows \in Int /\ low + 1 <= rows + 1
      BY <1>4
    <2>2. CASE low + 1 > rows
      <3>1. Kept = {} /\ rows - low = 0
        BY <1>3, <1>4, <2>2
      <3>2. QED
        BY <3>1, FS_EmptySet
    <2>3. CASE low + 1 <= rows
      <3>1. Cardinality(low + 1 .. rows) = rows - (low + 1) + 1
        BY <2>1, <2>3, FS_Interval
      <3>2. QED
        BY <1>3, <1>4, <3>1
    <2>4. QED
      BY <2>1, <2>2, <2>3
  <1>6. CASE low2 = low /\ filed' = filed /\ ~WriteRow /\ (MakeRoom => rows - low # Capacity)
    <2>1. Rows' = Rows /\ Kept' = Kept
      BY <1>3, <1>6 DEF Rows
    <2>2. CASE RecordSession
      <3>1. Promise!Close
        BY <2>1, <2>2, <1>6 DEF RecordSession, Promise!Close, Rows, Kept
      <3>2. QED
        BY <3>1 DEF Promise!Next
    <2>3. CASE PowerCut
      <3>1. Promise!PowerCut
        BY <2>1, <2>3, <1>6 DEF PowerCut, Promise!PowerCut, Rows, Kept
      <3>2. QED
        BY <3>1 DEF Promise!Next
    <2>4. CASE ~RecordSession /\ ~PowerCut
      <3>1. closed' = closed /\ queue' = queue
        BY <1>6, <2>4 DEF Next, Boot, MakeRoom, WriteFails, SaveLastSeq, ringVars
      <3>2. QED
        BY <2>1, <3>1
    <2>5. QED
      BY <2>2, <2>3, <2>4
  <1>7. CASE MakeRoom /\ filed' = filed /\ rows - low = Capacity /\ low2 = low + SlotsPerSector
    <2>1. closed' = closed /\ queue' = queue /\ Rows' = Rows
      BY <1>7 DEF MakeRoom, Rows
    <2>2. Cardinality(Kept) = Capacity
      BY <1>5, <1>7
    <2>3. Kept' = {n \in Kept : n > rows - Capacity + SlotsPerSector}
      <3>1. Kept = low + 1 .. rows /\ Kept' = low + SlotsPerSector + 1 .. rows
        BY <1>3, <1>7
      <3>2. rows - Capacity + SlotsPerSector = low + SlotsPerSector
        BY <1>4, <1>7
      <3> HIDE DEF rows
      <3>3. low + SlotsPerSector + 1 .. rows = {n \in low + 1 .. rows : n > low + SlotsPerSector}
        BY <1>4
      <3>4. QED
        BY <3>1, <3>2, <3>3
    <2>4. Len(Rows) = rows
      BY <1>4 DEF Rows
    <2>5. Kept' = {n \in Kept : n > Len(Rows) - Capacity + SlotsPerSector}
      BY <2>3, <2>4
    <2>6. UNCHANGED <<closed, queue, Rows>>
      BY <2>1
    <2>7. Promise!GiveUp
      BY <2>2, <2>5, <2>6, SameCount, Zenon DEF Promise!GiveUp, Rows, Kept
    <2>8. QED
      BY <2>7 DEF Promise!Next
  <1>8. CASE WriteRow /\ low2 = low /\ rows - low < Capacity
    <2> DEFINE row == [seq |-> next, row |-> Head(queue)]
    <2>1. /\ filed' = Append(filed, row) /\ queue' = Tail(queue) /\ closed' = closed
          /\ mode = "write"
      BY <1>8 DEF WriteRow
    <2>2. queue # <<>> /\ filed \in Seq([seq : Nat, row : Nat])
      BY <2>1 DEF RingInv, FiledInv, LogStateOK
    <2>3. Cardinality(Kept) < Capacity
      BY <1>5, <1>8
    <2>4. Len(filed') = rows + 1 /\ Len(Rows) = rows
      BY <1>4, <2>1, <2>2 DEF Rows
    <2>5. Kept' = Kept \cup {Len(Rows) + 1}
      BY <1>3, <1>4, <1>8, <2>4
    <2>6. Rows' = Append(Rows, Head(queue))
      BY <1>4, <2>1, <2>2, <2>4 DEF Rows
    <2>7. Promise!File
      BY <2>1, <2>2, <2>3, <2>5, <2>6, SameCount, Zenon DEF Promise!File, Rows, Kept
    <2>8. QED
      BY <2>7 DEF Promise!Next
  <1>9. QED
    BY <1>1, <1>6, <1>7, <1>8

\* The flash ring does what eventlog.h promises of the Session Log: it is an implementation
\* of SalesLog, whose promises SalesLogProofs proves.
THEOREM RingKeepsPromise == ASSUME SoundFlash PROVE Spec => ImplementsSalesLog
  <1>1. Init => Promise!Init
    <2> SUFFICES ASSUME Init PROVE Promise!Init
      OBVIOUS
    <2>1. filed = <<>> /\ closed = 0 /\ queue = <<>>
      BY DEF Init
    <2>2. Rows = <<>> /\ Kept = {}
      BY <2>1 DEF Rows, Kept
    <2>3. QED
      BY <2>1, <2>2 DEF Promise!Init, Rows, Kept
  <1>2. RingInv /\ [Next]_ringVars => [Promise!Next]_Promise!logVars
    BY RingStepKeepsPromise DEF Promise!logVars, Rows, Kept
  <1>3. Init => RingInv
    BY RingInit
  <1>4. RingInv /\ [Next]_ringVars => RingInv'
    BY RingStep
  <1>5. QED
    BY <1>1, <1>2, <1>3, <1>4, PTL DEF Spec, ImplementsSalesLog, Promise!Spec

(* The proofs about SalesLog, for the ring: a sector is given up at a time. *)
Window == INSTANCE SalesLogProofs
             WITH Capacity  <- Capacity,
                  Batch     <- SlotsPerSector,
                  Depth     <- QueueDepth,
                  MaxClosed <- MaxSessions,
                  pending   <- queue,
                  rows      <- [k \in 1..Len(filed) |-> filed[k].row],
                  kept      <- {k \in 1..Len(filed) :
                                  filed[k].seq \in SeqsIn(flash, Slots)}

\* So eventlog_get_records always finds the newest rows in the flash without a gap, as far
\* back as the ring reaches, and each session was filed once, in the order they closed,
\* through wraps, resets and refused programs (persist_record, prune_to_sector, seek_end).
THEOREM RingIsWindow ==
    ASSUME SoundFlash PROVE Spec => [](Window!KeptIsWindow /\ Window!FiledInOrder)
  <1>1. Window!StoreShape
    BY CapacityPositive, EventLogAssumption DEF Window!StoreShape, SoundFlash, Capacity
  <1>2. Window!Spec => [](Window!KeptIsWindow /\ Window!FiledInOrder)
    BY <1>1, Window!RollingWindow
  <1>3. ImplementsSalesLog => Window!Spec
    <2>1. Promise!Init <=> Window!Init
      BY DEF Promise!Init, Window!Init
    <2>2. Promise!Cardinality(Kept) = Window!Cardinality(Kept)
      BY DEF Promise!Cardinality, Window!Cardinality
    <2>3. [Promise!Next]_Promise!logVars => [Window!Next]_Window!logVars
      <3>1. Promise!Close => Window!Close
        BY DEF Promise!Close, Window!Close
      <3>2. Promise!PowerCut => Window!PowerCut
        BY DEF Promise!PowerCut, Window!PowerCut
      <3>3. Promise!File => Window!File
        BY <2>2 DEF Promise!File, Window!File, Kept
      <3>4. Promise!GiveUp => Window!GiveUp
        BY <2>2 DEF Promise!GiveUp, Window!GiveUp, Kept
      <3>5. QED
        BY <3>1, <3>2, <3>3, <3>4 DEF Promise!Next, Window!Next, Promise!logVars, Window!logVars
    <2>4. QED
      BY <2>1, <2>3, PTL DEF ImplementsSalesLog, Promise!Spec, Window!Spec
  <1>4. QED
    BY <1>2, <1>3, RingKeepsPromise, PTL
=============================================================================
