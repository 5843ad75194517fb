------------------------------ MODULE EventLog ------------------------------
(***************************************************************************)
(* src/eventlog.cpp: the flash ring behind the BLE Session Log.  The       *)
(* application task posts closed sessions to a queue; loop() writes them,  *)
(* one record per slot, erasing a sector whenever the head enters it; boot *)
(* recovers head, numbering and window from a scan.  A flash slot is       *)
(* erased, a good record, or dirty (programmed, with a bad checksum).      *)
(* Erase and program are two steps, so that the power can fail between     *)
(* them; the module lock makes each invisible to the page reader.          *)
(***************************************************************************)
EXTENDS Integers, Sequences, FiniteSets, FiniteSetsExt

CONSTANTS
    Sectors,          \* sectors of the partition
    SlotsPerSector,   \* SLOTS_PER_SECTOR
    PageMax,          \* EVENTLOG_PAGE_MAX_EVENTS
    QueueDepth,       \* EVENTLOG_QUEUE_DEPTH
    FloorAtStart,     \* counters_last_seq() when the log is first used
    Faults,           \* what the flash may do wrong: a subset of FlashFaults
    MaxSessions,      \* bound: sessions closed in a behaviour
    MaxReboots,       \* bound: resets in a behaviour
    LastReset         \* bound: rows filed when the last of them may happen

FlashFaults == {"write", "torn", "erase", "foreign"}

ASSUME EventLogAssumption ==
    /\ Sectors \in Nat \ {0}
    /\ SlotsPerSector \in Nat \ {0}
    /\ PageMax \in Nat \ {0}
    /\ QueueDepth \in Nat
    /\ FloorAtStart \in Nat
    /\ Faults \subseteq FlashFaults
    /\ MaxSessions \in Nat
    /\ MaxReboots \in Nat
    /\ LastReset \in Nat

Capacity == Sectors * SlotsPerSector

Slots == 0..(Capacity - 1)

VARIABLES
    flash,     \* the partition
    head,      \* s_head
    next,      \* s_next_seq
    oldest,    \* s_oldest_seq
    count,     \* s_count
    queue,     \* s_queue: the sessions waiting
    mode,      \* "boot", "ready", or "write": room is made, not yet written
    lastSeq,   \* s_c.last_seq of the counters, in RAM ...
    floor,     \* ... and as last saved in NVS
    closed,    \* history: sessions closed (bounded by MaxSessions)
    filed,     \* history: the records eventlog_service considered written
    reboots    \* resets so far (bounded by MaxReboots)

anchors == <<head, next, oldest, count>>
ringVars == <<flash, anchors, queue, mode, lastSeq, floor, closed, filed, reboots>>

Erased          == [kind |-> "erased", seq |-> 0, row |-> 0]
Record(seq, row) == [kind |-> "record", seq |-> seq, row |-> row]
Torn(r)         == [r EXCEPT !.kind = "dirty"]
Garbage         == [kind |-> "dirty", seq |-> 0, row |-> 0]

SlotContents == [kind : {"erased", "record", "dirty"}, seq : Nat, row : Nat]

LogTypeOK ==
    /\ flash \in [Slots -> SlotContents]
    /\ head \in Slots
    /\ next \in Nat /\ oldest \in Nat
    /\ count \in 0..Capacity
    /\ queue \in Seq(1..MaxSessions) /\ Len(queue) <= QueueDepth
    /\ mode \in {"boot", "ready", "write"}
    /\ lastSeq \in Nat /\ floor \in Nat
    /\ closed \in 0..MaxSessions
    /\ filed \in Seq([seq : Nat, row : 1..MaxSessions])
    /\ reboots \in 0..MaxReboots

(* A partition fresh from the factory, or holding what SPIFFS left there.  *)
Init ==
    /\ \/ flash = [s \in Slots |-> Erased]
       \/ "foreign" \in Faults /\ flash = [s \in Slots |-> Garbage]
    /\ head = 0 /\ next = 1 /\ oldest = 0 /\ count = 0
    /\ queue = <<>>
    /\ mode = "boot"
    /\ lastSeq = FloorAtStart
    /\ floor = FloorAtStart
    /\ closed = 0
    /\ filed = <<>>
    /\ reboots = 0

-----------------------------------------------------------------------------
(* Reading the flash.                                                      *)

Valid(f, slots) == {s \in slots : f[s].kind = "record"}
Used(f)         == {s \in Slots : f[s].kind # "erased"}
SeqsIn(f, slots) == {f[s].seq : s \in Valid(f, slots)}

MaxOr(set, default) == IF set = {} THEN default ELSE Max(set)

(* Slip: the head goes to the last slot in use.                            *)
ScanHeadAtLast(f) == MaxOr(Used(f), 0)

(* scan_locked: behind the newest record, or behind the last slot in use   *)
(* if that is further along the partition, and it always is: the newest    *)
(* record is in a slot in use.                                             *)
ScanHead(f) == (MaxOr(Used(f), -1) + 1) % Capacity

Sector(slot) == {s \in Slots : s \div SlotsPerSector = slot \div SlotsPerSector}

-----------------------------------------------------------------------------
(* Boot.                                                                   *)

(* A partition that holds something and no readable record.                *)
ForeignData == Used(flash) # {} /\ Valid(flash, Slots) = {}

(* The numbering never restarts below what the counters remember.          *)
NextAfter(seqs) == Max({MaxOr(seqs, 0), floor}) + 1

(* eventlog_init: erase foreign data, and scan.                            *)
Boot ==
    /\ mode = "boot"
    /\ \/ /\ ForeignData
          /\ flash' = [s \in Slots |-> Erased]
       \/ /\ ~ForeignData \/ "erase" \in Faults
          /\ UNCHANGED flash
    /\ LET seqs == SeqsIn(flash', Slots)
       IN  /\ count' = Cardinality(Valid(flash', Slots))
           /\ oldest' = IF seqs = {} THEN 0 ELSE Min(seqs)
           /\ next' = NextAfter(seqs)
    /\ head' = ScanHead(flash')
    /\ mode' = "ready"
    /\ UNCHANGED <<queue, lastSeq, floor, closed, filed, reboots>>

-----------------------------------------------------------------------------
(* Sessions come in.                                                       *)

(* Slip: a full queue loses its oldest session.                            *)
RecordSessionOverwriting ==
    /\ mode # "boot"
    /\ closed < MaxSessions
    /\ closed' = closed + 1
    /\ queue' = Append(IF Len(queue) < QueueDepth THEN queue ELSE Tail(queue),
                       closed + 1)
    /\ UNCHANGED <<flash, anchors, mode, lastSeq, floor, filed, reboots>>

(* eventlog_record_session: queued, or dropped when the queue is full.     *)
RecordSession ==
    /\ mode # "boot"
    /\ closed < MaxSessions
    /\ closed' = closed + 1
    /\ queue' = IF Len(queue) < QueueDepth THEN Append(queue, closed + 1)
                                           ELSE queue
    /\ UNCHANGED <<flash, anchors, mode, lastSeq, floor, filed, reboots>>

(* eventlog_service, first half: when the head enters a sector, erase it.  *)
MakeRoom ==
    /\ mode = "ready"
    /\ queue # <<>>
    /\ mode' = "write"
    /\ \/ /\ head % SlotsPerSector = 0
          /\ LET victims == Valid(flash, Sector(head))
             IN  /\ oldest' = MaxOr(SeqsIn(flash, victims), oldest - 1) + 1
                 /\ count' = Max({count - Cardinality(victims), 0})
          /\ flash' = [s \in Slots |-> IF s \in Sector(head) THEN Erased
                                                             ELSE flash[s]]
       \/ /\ head % SlotsPerSector # 0 \/ "erase" \in Faults
          /\ UNCHANGED <<flash, oldest, count>>
    /\ UNCHANGED <<head, next, queue, lastSeq, floor, closed, filed, reboots>>

(* Flash bits only clear: a record lands in an erased slot, or over an     *)
(* interrupted attempt at the very same record.                            *)
Programmed(old, r) == IF old \in {Erased, Torn(r)} THEN r ELSE Garbage

Interrupted(old, r) == IF old = Erased THEN Torn(r) ELSE Garbage

HeadRecord == Record(next, Head(queue))

NextHead == (head + 1) % Capacity

(* write_one_locked succeeds: only now is the number used, the head moved  *)
(* and the session taken off the queue.                                    *)
WriteRow ==
    /\ mode = "write"
    /\ flash' = [flash EXCEPT ![head] = Programmed(@, HeadRecord)]
    /\ oldest' = IF oldest = 0 THEN next ELSE oldest
    /\ count' = IF count < Capacity THEN count + 1 ELSE count
    /\ lastSeq' = next
    /\ next' = next + 1
    /\ head' = NextHead
    /\ queue' = Tail(queue)
    /\ filed' = Append(filed, [seq |-> next, row |-> Head(queue)])
    /\ mode' = "ready"
    /\ UNCHANGED <<floor, closed, reboots>>

(* Slip: a refused write uses up the number.                               *)
WriteFailsConsuming ==
    /\ mode = "write"
    /\ "write" \in Faults
    /\ next' = next + 1
    /\ mode' = "ready"
    /\ UNCHANGED <<flash, head, oldest, count, queue, lastSeq, floor, closed,
                   filed, reboots>>

(* The flash driver refuses: nothing is consumed, the next pass retries.   *)
WriteFails ==
    /\ mode = "write"
    /\ "write" \in Faults
    /\ \/ UNCHANGED flash
       \/ /\ "torn" \in Faults
          /\ flash' = [flash EXCEPT ![head] = Interrupted(@, HeadRecord)]
    /\ mode' = "ready"
    /\ UNCHANGED <<anchors, queue, lastSeq, floor, closed, filed, reboots>>

(* counters_service flushes last_seq with the other counters.              *)
SaveLastSeq ==
    /\ mode = "ready"
    /\ floor # lastSeq
    /\ floor' = lastSeq
    /\ UNCHANGED <<flash, anchors, queue, mode, lastSeq, closed, filed, reboots>>

(* The power fails, possibly while a record is being programmed.           *)
PowerCut ==
    /\ reboots < MaxReboots
    /\ Len(filed) <= LastReset
    /\ reboots' = reboots + 1
    /\ \/ UNCHANGED flash
       \/ /\ mode = "write"
          /\ "torn" \in Faults
          /\ flash' = [flash EXCEPT ![head] = Interrupted(@, HeadRecord)]
    /\ head' = 0 /\ next' = 1 /\ oldest' = 0 /\ count' = 0
    /\ queue' = <<>>
    /\ mode' = "boot"
    /\ lastSeq' = floor
    /\ UNCHANGED <<floor, closed, filed>>

Next == \/ Boot \/ RecordSession \/ MakeRoom \/ WriteRow \/ WriteFails
        \/ SaveLastSeq \/ PowerCut

Spec == Init /\ [][Next]_ringVars

-----------------------------------------------------------------------------
(* The page reader.                                                        *)

Last == next - 1

(* Slip: one slot too far.                                                 *)
SlotAfter(seq) == (head + Capacity - (next - seq) + 1) % Capacity

(* slot(seq) is arithmetic; capacity is a power of two on the board, so    *)
(* the unsigned wrap of the C expression agrees with % on negative values. *)
SlotOf(seq) == (head + Capacity - (next - seq)) % Capacity

(* Slip: what is read back is not looked at.                               *)
Unchecked(seq) == TRUE

(* What eventlog_build_page reads back for seq, if it is what it asked for. *)
Readable(seq) == LET r == flash[SlotOf(seq)] IN r.kind = "record" /\ r.seq = seq

(* eventlog_build_page: records from the cursor on, until the page is full *)
(* or one cannot be read.                                                  *)
Page(after) ==
    LET from == IF after + 1 < oldest THEN oldest ELSE after + 1
        n    == Max({k \in 0..PageMax :
                       \A i \in 0..(k - 1) :
                          from + i <= Last /\ Readable(from + i)})
    IN  IF count = 0 \/ after >= Last
        THEN [events |-> <<>>, more |-> FALSE]
        ELSE [events |-> [i \in 1..n |-> flash[SlotOf(from + i - 1)]],
              more |-> n > 0 /\ from + n <= Last]

Cursors == 0..(FloorAtStart + Len(filed) + 1)

-----------------------------------------------------------------------------
(* What holds.                                                             *)

(* No page ever carries a row that was not filed under the number it       *)
(* shows, nor rows out of order, whatever the flash does ("a wrong page is *)
(* wrong money").                                                          *)
PagesTrue ==
    mode = "ready" =>
        \A after \in Cursors :
            LET events == Page(after).events
            IN  \A i \in 1..Len(events) :
                    /\ \E k \in 1..Len(filed) :
                          /\ filed[k].seq = events[i].seq
                          /\ filed[k].row = events[i].row
                    /\ events[i].seq > after
                    /\ i > 1 => events[i].seq = events[i-1].seq + 1

Retained == {k \in 1..Len(filed) : filed[k].seq >= oldest}

(* Every retained row newer than the cursor is served, page by page: the   *)
(* page is the next PageMax of them and "more" tells whether some are left. *)
PagesComplete ==
    mode = "ready" =>
        \A after \in Cursors :
            LET due  == {filed[k].seq : k \in {j \in Retained : filed[j].seq > after}}
                page == Page(after)
                got  == {page.events[i].seq : i \in 1..Len(page.events)}
            IN  /\ got \subseteq due
                /\ Cardinality(got) = IF Cardinality(due) < PageMax
                                      THEN Cardinality(due) ELSE PageMax
                /\ \A d \in due \ got : \A g \in got : g < d
                /\ page.more <=> due \ got # {}

(* Numbers are handed out without a hole and never twice, across resets    *)
(* and failed writes, and the next one is already decided.                 *)
NumbersContiguous ==
    /\ \A k \in 1..Len(filed) : filed[k].seq = FloorAtStart + k
    /\ mode # "boot" => next = FloorAtStart + Len(filed) + 1

(* An erase destroys the oldest rows only ("Wrap is oldest-first").        *)
WrapIsOldestFirst ==
    [][\A gone \in SeqsIn(flash, Slots) \ SeqsIn(flash', Slots) :
          \A left \in SeqsIn(flash', Slots) : gone < left]_ringVars

-----------------------------------------------------------------------------
(* The ring implements the promise of SalesLog.                            *)

Promise == INSTANCE SalesLog
             WITH Batch     <- SlotsPerSector,
                  Depth     <- QueueDepth,
                  MaxClosed <- MaxSessions,
                  pending   <- queue,
                  rows      <- [k \in 1..Len(filed) |-> filed[k].row],
                  kept      <- {k \in 1..Len(filed) :
                                  filed[k].seq \in SeqsIn(flash, Slots)}

ImplementsSalesLog == Promise!Spec

=============================================================================
