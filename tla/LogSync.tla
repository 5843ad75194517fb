------------------------------ MODULE LogSync ------------------------------
(***************************************************************************)
(* The Session Log characteristic (src/ble_sessionlog.cpp) over the ring   *)
(* of EventLog, and the phones that pull it: write a cursor, read a page,  *)
(* go on from the last row received.  The callbacks of the BLE host task   *)
(* follow one another; the phones' requests come in any order, the value   *)
(* of the characteristic is shared, and a phone whose MTU is small         *)
(* collects a page in two reads.                                           *)
(***************************************************************************)
EXTENDS EventLog

CONSTANTS
    Phones,
    MaxConns,      \* CONFIG_BT_NIMBLE_MAX_CONNECTIONS: what the stack permits
    MaxCursors,    \* SESSIONLOG_MAX_CURSORS
    MaxLinks       \* bound: connections made in a behaviour

ASSUME LogSyncAssumption ==
    /\ MaxConns \in Nat \ {0} /\ MaxCursors \in Nat \ {0} /\ MaxLinks \in Nat
    \* "One per possible connection"
    /\ MaxConns <= MaxCursors

VARIABLES
    slots,    \* s_slots
    value,    \* the characteristic's value, one for all connections, as long as
              \* a long read may still collect from it
    phone,    \* what each phone does and has received
    links     \* connections so far

syncVars == <<slots, value, phone, links>>

NoConn == 0
Handles == 1..MaxConns
FreeSlot == [conn |-> NoConn, cursor |-> 0]

EmptyPage == [events |-> <<>>, more |-> FALSE]

(* publish_page: the page, or an empty one while a write holds the lock    *)
(* for longer than the page reader waits.                                  *)
PublishedPage(cursor) == IF mode = "ready" THEN Page(cursor) ELSE EmptyPage

(* A phone out of reach.  `after' and `have', the rows received, outlive a *)
(* connection; `mixed' tells that a long read of it was crossed, `upto'    *)
(* the number that this connection's last page reached.                    *)
Unlinked == [conn |-> NoConn, step |-> "off", after |-> 0, first |-> EmptyPage,
             have |-> {}, mixed |-> FALSE, upto |-> 0]

SyncInit ==
    /\ Init
    /\ slots = [i \in 1..MaxCursors |-> FreeSlot]
    /\ value = EmptyPage
    /\ phone = [p \in Phones |-> Unlinked]
    /\ links = 0

-----------------------------------------------------------------------------
(* The board.                                                              *)

(* Slip: the cursor belongs to the characteristic.                         *)
SlipSlotFor(conn) == 1

(* slot_for: the connection's own slot, the first free one, or the last.   *)
SlotFor(conn) ==
    LET own  == {i \in DOMAIN slots : slots[i].conn = conn}
        free == {i \in DOMAIN slots : slots[i].conn = NoConn}
    IN  IF own # {} THEN Min(own) ELSE IF free # {} THEN Min(free) ELSE MaxCursors

(* A slot that was free begins at 0, the oldest row.                       *)
Claimed(i, conn) == IF slots[i].conn = NoConn THEN [conn |-> conn, cursor |-> 0]
                                              ELSE slots[i]

(* What is published while another phone is between two reads of a page    *)
(* mixes the two.                                                          *)
Crossed(p) == [q \in Phones |->
                  [phone[q] EXCEPT !.mixed = @ \/ (q # p /\ phone[q].step = "tail")]]

(* A new value, and what the phones are in then.                           *)
Publish(page, phones) ==
    /\ phone' = phones
    /\ value' = IF \E q \in Phones : phones[q].step = "tail" THEN page ELSE EmptyPage

(* onWrite of a cursor.                                                    *)
WriteCursor(p) ==
    /\ phone[p].step \in {"idle", "current"} /\ mode # "boot"
    /\ LET i == SlotFor(phone[p].conn)
       IN  slots' = [slots EXCEPT ![i] = [Claimed(i, phone[p].conn)
                                             EXCEPT !.cursor = phone[p].after]]
    /\ Publish(PublishedPage(phone[p].after), [Crossed(p) EXCEPT ![p].step = "written"])
    /\ UNCHANGED <<ringVars, links>>

(* onWrite of anything shorter: ignored, after the stack has stored it.    *)
ShortWrite(p) ==
    /\ phone[p].step = "idle" /\ mode # "boot"
    /\ Publish(EmptyPage, Crossed(p))
    /\ UNCHANGED <<ringVars, slots, links>>

(* A page has arrived: the next cursor is the last number in it.           *)
Accept(ph, rows, more) ==
    [ph EXCEPT !.have = @ \cup {rows[i] : i \in DOMAIN rows},
               !.after = IF rows = <<>> THEN @ ELSE rows[Len(rows)].seq,
               !.first = EmptyPage,
               !.step = IF more THEN "idle" ELSE "current"]

(* Every row the window claims is where the arithmetic looks for it.       *)
RingSound == \A k \in Retained : Readable(filed[k].seq)

(* onRead, at the first read of a page: the page again, for the            *)
(* connection's cursor.  A phone may begin with a read, without a cursor.  *)
(* The stack does not call back for the rest of a long read.               *)
Read(p) ==
    /\ mode # "boot"
    /\ \/ phone[p].step = "written"
       \/ phone[p].step = "idle" /\ phone[p].after = 0
    /\ LET i    == SlotFor(phone[p].conn)
           page == PublishedPage(Claimed(i, phone[p].conn).cursor)
           ph   == [Crossed(p)[p] EXCEPT
                      !.upto = IF page.more \/ mode # "ready" \/ ~RingSound
                               THEN 0 ELSE Last]
       IN  /\ slots' = [slots EXCEPT ![i] = Claimed(i, phone[p].conn)]
           /\ \/ Publish(page, [Crossed(p) EXCEPT ![p] = Accept(ph, page.events, page.more)])
              \/ /\ Len(page.events) > 1
                 /\ Publish(page, [Crossed(p) EXCEPT
                                     ![p] = [ph EXCEPT !.step = "tail", !.first = page]])
    /\ UNCHANGED <<ringVars, links>>

(* The second read of a long one: the rest of what the value is by now, as *)
(* far as it reaches.                                                      *)
ReadRest(p) ==
    /\ phone[p].step = "tail" /\ mode # "boot"
    /\ LET page == phone[p].first
           n    == Len(page.events)
           rest == IF Len(value.events) >= n THEN n ELSE Len(value.events)
           rows == <<page.events[1]>> \o SubSeq(value.events, 2, rest)
       IN  Publish(value, [phone EXCEPT ![p] = Accept(phone[p], rows, page.more)])
    /\ UNCHANGED <<ringVars, slots, links>>

(* The stack links a phone up under the lowest handle that is free.        *)
Connect(p) ==
    /\ phone[p].conn = NoConn /\ mode # "boot" /\ links < MaxLinks
    /\ LET free == Handles \ {phone[q].conn : q \in Phones}
       IN  /\ free # {}
           /\ phone' = [phone EXCEPT ![p].conn = Min(free), ![p].step = "idle"]
    /\ links' = links + 1
    /\ UNCHANGED <<ringVars, slots, value>>

(* Slip: the slot outlives its connection.                                 *)
SlipReleased(conn) == slots

(* ble_sessionlog_on_disconnect.                                           *)
Released(conn) ==
    [i \in DOMAIN slots |-> IF slots[i].conn = conn THEN FreeSlot ELSE slots[i]]

Gone(ph) == [ph EXCEPT !.conn = NoConn, !.step = "off", !.first = EmptyPage, !.upto = 0]

Disconnect(p) ==
    /\ phone[p].conn # NoConn
    /\ slots' = Released(phone[p].conn)
    /\ Publish(value, [phone EXCEPT ![p] = Gone(phone[p])])
    /\ UNCHANGED <<ringVars, links>>

(* The ring goes on underneath.  A reset takes every connection with it.   *)
Ring ==
    /\ Boot \/ RecordSession \/ MakeRoom \/ WriteRow \/ WriteFails \/ SaveLastSeq
    /\ UNCHANGED syncVars

Cut ==
    /\ PowerCut
    /\ slots' = [i \in 1..MaxCursors |-> FreeSlot]
    /\ Publish(EmptyPage, [p \in Phones |-> Gone(phone[p])])
    /\ UNCHANGED links

SyncNext ==
    \/ Ring \/ Cut
    \/ \E p \in Phones : \/ Connect(p) \/ Disconnect(p)
                         \/ WriteCursor(p) \/ ShortWrite(p) \/ Read(p) \/ ReadRest(p)

SyncSpec == SyncInit /\ [][SyncNext]_<<ringVars, syncVars>>

-----------------------------------------------------------------------------
(* What holds.                                                             *)

(* A phone's copy of the log has no row that was never filed under its     *)
(* number and no hole: what is missing below its newest row had left the   *)
(* window.  Two phones that pull at once, a recycled handle, a first read  *)
(* without a cursor, a torn record or a reset between two pages do not     *)
(* change it ("two phones pulling at once silently corrupt each other's    *)
(* pagination", ble_sessionlog.h:25).  Exempt is a phone whose long read   *)
(* was crossed, the caveat of ble_sessionlog.h:33.                         *)
CopyIsTrue ==
    \A p \in Phones : ~phone[p].mixed =>
        LET seqs == {r.seq : r \in phone[p].have}
        IN  /\ \A r \in phone[p].have :
                  \E k \in 1..Len(filed) : filed[k].seq = r.seq /\ filed[k].row = r.row
            /\ mode = "ready" =>
                  \A k \in Retained : \A s \in seqs : filed[k].seq < s => filed[k].seq \in seqs

(* A phone that was told there is no more has every row of the window up   *)
(* to then, however its pages were spread over connections; an answer      *)
(* given while the log was locked, or after the flash lost a row, says     *)
(* nothing (eventlog.cpp:386, eventlog.cpp:403).                           *)
CopyIsComplete ==
    \A p \in Phones : ~phone[p].mixed /\ phone[p].step = "current" =>
        \A k \in 1..Len(filed) :
            filed[k].seq >= oldest /\ filed[k].seq <= phone[p].upto
                => \E r \in phone[p].have : r.seq = filed[k].seq

=============================================================================
