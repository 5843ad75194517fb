--------------------------- MODULE LogSyncProofs ---------------------------
(***************************************************************************)
(* What a phone has copied, for any number of phones, connections, slots   *)
(* and rows, pages of any size, and requests in any order.  That every row *)
(* it received was filed is proved for whatever the flash does; that       *)
(* nothing is missing, of a sound ring (see EventLogProofs).               *)
(***************************************************************************)
EXTENDS LogSync, EventLogProofs

\* The pages of the protocol, the slots, and the phones
Pages == [events : Seq(SlotContents), more : BOOLEAN]
Cells == [conn : 0 .. MaxConns, cursor : Nat]
Steps == {"off", "idle", "written", "tail", "current"}
Copies == [conn : 0 .. MaxConns, step : Steps, after : Nat, first : Pages,
           have : SUBSET SlotContents, mixed : BOOLEAN, upto : Int]

SyncTypeOK ==
    /\ slots \in [1 .. MaxCursors -> Cells]
    /\ value \in Pages
    /\ phone \in [Phones -> Copies]

\* A row is in the log under the number it shows.
FiledIn(log, r) == \E k \in 1 .. Len(log) : log[k].seq = r.seq /\ log[k].row = r.row

PageFiledIn(log, events) == \A i \in 1 .. Len(events) : FiledIn(log, events[i])

\* What a phone has received, and the page of which it has received a part
PhoneFiled(log, ph) ==
    /\ PageFiledIn(log, ph.first.events)
    /\ \A r \in ph.have : FiledIn(log, r)
    /\ ph.step = "tail" => ph.first.events # <<>>

\* What is on the air, and what has arrived, was filed.
RowsWereFiled ==
    /\ PageFiledIn(filed, value.events)
    /\ \A p \in Phones : PhoneFiled(filed, phone[p])

\* A connection is one phone's, a slot is one connection's, and no slot outlives its
\* connection.
SlotsAreOwned ==
    /\ \A p \in Phones : phone[p].step = "off" <=> phone[p].conn = NoConn
    /\ \A p, q \in Phones : phone[p].conn = phone[q].conn => p = q \/ phone[p].conn = NoConn
    /\ \A i, j \in 1 .. MaxCursors :
          slots[i].conn = slots[j].conn => i = j \/ slots[i].conn = NoConn
    /\ \A i \in 1 .. MaxCursors :
          slots[i].conn # NoConn => \E p \in Phones : phone[p].conn = slots[i].conn
    /\ mode = "boot" => \A p \in Phones : phone[p].step = "off"

\* A phone's slot is never ahead of it, and is where it wrote it.
CursorIsOwn(cells, ph) ==
    /\ \A i \in 1 .. MaxCursors : cells[i].conn = ph.conn /\ ph.conn # NoConn =>
          cells[i].cursor <= ph.after /\ (ph.step = "written" => cells[i].cursor = ph.after)
    /\ ph.step = "written" => \E i \in 1 .. MaxCursors : cells[i].conn = ph.conn

\* The numbers that can be read, the last one filed, and the last one of a page
InFlash == SeqsIn(flash, Slots)
Newest  == FloorAtStart + Len(filed)
Top(after, events) == IF events = <<>> THEN after ELSE events[Len(events)].seq

\* A page goes on where the cursor is, leaves nothing out that can be read, and reaches as
\* far as the phone will be told that it does.
Serves(left, newest, after, events, upto) ==
    /\ after <= Top(after, events) /\ Top(after, events) <= newest
    /\ \A i \in 1 .. Len(events) : events[i].seq <= Top(after, events)
    /\ \A n \in left : n > after /\ n <= Top(after, events) =>
          \E i \in 1 .. Len(events) : events[i].seq = n
    /\ \A n \in left : n <= upto => n <= Top(after, events)

\* A phone has every row that can be read up to its cursor, and none beyond it.
HasAll(left, newest, ph) ==
    /\ ph.after <= newest
    /\ \A r \in ph.have : r.seq <= ph.after
    /\ \A n \in left : n <= ph.after => \E r \in ph.have : r.seq = n

Copied(left, newest, page, ph) ==
    /\ HasAll(left, newest, ph)
    /\ ph.upto <= newest
    /\ ph.step = "current" => \A n \in left : n <= ph.upto => n <= ph.after
    /\ ph.step = "tail" => /\ page = ph.first
                           /\ Serves(left, newest, ph.after, ph.first.events, ph.upto)

CopiesInOrder ==
    \A p \in Phones : ~phone[p].mixed =>
        CursorIsOwn(slots, phone[p]) /\ Copied(InFlash, Newest, value, phone[p])

-----------------------------------------------------------------------------
(* What the requests do to a phone and to the value *)

\* A phone with something else about it
LEMMA PhoneWith ==
    ASSUME NEW ph \in Copies
    PROVE  /\ \A m \in BOOLEAN : [ph EXCEPT !.mixed = m] \in Copies
           /\ \A s \in Steps : [ph EXCEPT !.step = s] \in Copies
           /\ \A u \in Int : [ph EXCEPT !.upto = u] \in Copies
           /\ \A c \in 0 .. MaxConns : [ph EXCEPT !.conn = c, !.step = "idle"] \in Copies
           /\ \A page \in Pages : [ph EXCEPT !.step = "tail", !.first = page] \in Copies
BY DEF Copies, Steps

LEMMA EmptyIsPage == EmptyPage \in Pages /\ EmptyPage.events = <<>> /\ Len(<<>>) = 0
BY DEF EmptyPage, Pages

\* The phone goes on as it was, but a long read of it may have been crossed.
Stands(ph, ph2) ==
    /\ ph2.conn = ph.conn /\ ph2.step = ph.step /\ ph2.after = ph.after
    /\ ph2.first = ph.first /\ ph2.have = ph.have /\ ph2.upto = ph.upto
    /\ ph.mixed => ph2.mixed

LEMMA MixedStands ==
    ASSUME NEW ph \in Copies, NEW m \in BOOLEAN, ph.mixed => m
    PROVE  Stands(ph, [ph EXCEPT !.mixed = m]) /\ [ph EXCEPT !.mixed = m].mixed = m
BY DEF Copies, Stands

LEMMA CrossedIs ==
    ASSUME phone \in [Phones -> Copies], NEW p \in Phones
    PROVE  /\ Crossed(p) \in [Phones -> Copies]
           /\ \A q \in Phones : /\ Stands(phone[q], Crossed(p)[q])
                                /\ q # p /\ phone[q].step = "tail" => Crossed(p)[q].mixed
           /\ Crossed(p)[p].mixed = phone[p].mixed
  <1> DEFINE m(q) == phone[q].mixed \/ (q # p /\ phone[q].step = "tail")
  <1>1. Crossed(p) = [q \in Phones |-> [phone[q] EXCEPT !.mixed = m(q)]]
    BY DEF Crossed
  <1>2. \A q \in Phones : /\ phone[q] \in Copies /\ m(q) \in BOOLEAN
                          /\ phone[q].mixed => m(q)
                          /\ q # p /\ phone[q].step = "tail" => m(q)
    BY DEF Copies
  <1>3. m(p) = phone[p].mixed
    BY <1>2 DEF Copies
  <1> HIDE DEF m
  <1>4. ASSUME NEW q \in Phones
        PROVE  /\ [phone[q] EXCEPT !.mixed = m(q)] \in Copies
               /\ Stands(phone[q], [phone[q] EXCEPT !.mixed = m(q)])
               /\ [phone[q] EXCEPT !.mixed = m(q)].mixed = m(q)
    <2>1. phone[q] \in Copies /\ m(q) \in BOOLEAN /\ (phone[q].mixed => m(q))
      BY <1>2
    <2>2. [phone[q] EXCEPT !.mixed = m(q)] \in Copies
      BY <2>1, PhoneWith, Zenon
    <2>3. QED
      BY <2>1, <2>2, MixedStands, Zenon
  <1>5. QED
    BY <1>1, <1>2, <1>3, <1>4

\* A page arrives.
LEMMA AcceptIs ==
    ASSUME NEW ph \in Copies, NEW rows \in Seq(SlotContents), NEW more \in BOOLEAN
    PROVE  LET ph2 == Accept(ph, rows, more)
           IN  /\ ph2 \in Copies
               /\ ph2.conn = ph.conn /\ ph2.mixed = ph.mixed /\ ph2.upto = ph.upto
               /\ ph2.after = Top(ph.after, rows) /\ ph2.first = EmptyPage
               /\ ph2.have = ph.have \cup {rows[i] : i \in 1 .. Len(rows)}
               /\ ph2.step = IF more THEN "idle" ELSE "current"
  <1> DEFINE h == ph.have \cup {rows[i] : i \in 1 .. Len(rows)}
             a == Top(ph.after, rows)
             s == IF more THEN "idle" ELSE "current"
  <1>1. h \in SUBSET SlotContents
    BY DEF Copies
  <1>2. a \in Nat
    <2>1. CASE rows = <<>>
      BY <2>1 DEF Top, Copies
    <2>2. CASE rows # <<>>
      <3>1. rows[Len(rows)] \in SlotContents
        BY <2>2
      <3>2. QED
        BY <2>2, <3>1 DEF Top, SlotContents
    <2>3. QED
      BY <2>1, <2>2
  <1>3. s \in Steps /\ EmptyPage \in Pages
    BY EmptyIsPage DEF Steps
  <1>4. Accept(ph, rows, more) = [ph EXCEPT !.have = h, !.after = a, !.first = EmptyPage,
                                            !.step = s]
    <2>1. DOMAIN rows = 1 .. Len(rows)
      OBVIOUS
    <2>2. QED
      BY <2>1, Zenon DEF Accept, Top
  <1>5. s = IF more THEN "idle" ELSE "current"
    OBVIOUS
  <1> HIDE DEF h, a, s
  <1>6. LET ph2 == [ph EXCEPT !.have = h, !.after = a, !.first = EmptyPage, !.step = s]
        IN  /\ ph2 \in Copies
            /\ ph2.conn = ph.conn /\ ph2.mixed = ph.mixed /\ ph2.upto = ph.upto
            /\ ph2.after = a /\ ph2.first = EmptyPage
            /\ ph2.have = h /\ ph2.step = s
    BY <1>1, <1>2, <1>3 DEF Copies
  <1>7. QED
    BY <1>4, <1>5, <1>6 DEF h, a

\* A phone is out of reach.
LEMMA GoneIs ==
    ASSUME NEW ph \in Copies
    PROVE  /\ Gone(ph) \in Copies
           /\ Gone(ph).conn = NoConn /\ Gone(ph).step = "off" /\ Gone(ph).first = EmptyPage
           /\ Gone(ph).upto = 0 /\ Gone(ph).after = ph.after /\ Gone(ph).have = ph.have
           /\ Gone(ph).mixed = ph.mixed
  <1>1. EmptyPage \in Pages /\ NoConn \in 0 .. MaxConns /\ "off" \in Steps /\ 0 \in Nat
    BY EmptyIsPage, LogSyncAssumption DEF NoConn, Steps
  <1> DEFINE c == NoConn
             s == "off"
             e == EmptyPage
             u == 0
  <1>2. Gone(ph) = [ph EXCEPT !.conn = c, !.step = s, !.first = e, !.upto = u]
    BY DEF Gone
  <1>3. c \in 0 .. MaxConns /\ s \in Steps /\ e \in Pages /\ u \in Int
    BY <1>1
  <1>4. c = NoConn /\ s = "off" /\ e = EmptyPage /\ u = 0
    OBVIOUS
  <1> HIDE DEF c, s, e, u
  <1>5. LET ph2 == [ph EXCEPT !.conn = c, !.step = s, !.first = e, !.upto = u]
        IN  /\ ph2 \in Copies
            /\ ph2.conn = c /\ ph2.step = s /\ ph2.first = e /\ ph2.upto = u
            /\ ph2.after = ph.after /\ ph2.have = ph.have /\ ph2.mixed = ph.mixed
    BY <1>3 DEF Copies
  <1>6. QED
    BY <1>2, <1>4, <1>5

\* A filed page is added to rows that were filed.
LEMMA AcceptFiled ==
    ASSUME NEW ph \in Copies, NEW rows \in Seq(SlotContents), NEW more \in BOOLEAN,
           NEW log, PageFiledIn(log, rows), \A r \in ph.have : FiledIn(log, r)
    PROVE  LET ph2 == Accept(ph, rows, more)
           IN  ph2 \in Copies /\ PhoneFiled(log, ph2)
  <1> DEFINE ph2 == Accept(ph, rows, more)
  <1>1. /\ ph2 \in Copies /\ ph2.first = EmptyPage
        /\ ph2.have = ph.have \cup {rows[i] : i \in 1 .. Len(rows)}
        /\ ph2.step \in {"idle", "current"}
    BY AcceptIs
  <1> HIDE DEF ph2
  <1>2. QED
    BY <1>1, EmptyIsPage DEF PhoneFiled, PageFiledIn, ph2

LEMMA FreeIsCell == FreeSlot \in Cells /\ FreeSlot.conn = NoConn
BY LogSyncAssumption DEF FreeSlot, Cells, NoConn

\* The connection's own slot, or one that is free, or the last.
LEMMA SlotForIs ==
    ASSUME slots \in [1 .. MaxCursors -> Cells], NEW conn
    PROVE  /\ SlotFor(conn) \in 1 .. MaxCursors
           /\ (\E i \in 1 .. MaxCursors : slots[i].conn = conn) => slots[SlotFor(conn)].conn = conn
           /\ (\A i \in 1 .. MaxCursors : slots[i].conn # conn)
                 /\ (\E i \in 1 .. MaxCursors : slots[i].conn = NoConn)
              => slots[SlotFor(conn)].conn = NoConn
  <1> DEFINE own  == {i \in 1 .. MaxCursors : slots[i].conn = conn}
             free == {i \in 1 .. MaxCursors : slots[i].conn = NoConn}
  <1>1. DOMAIN slots = 1 .. MaxCursors
    OBVIOUS
  <1>2. SlotFor(conn) = IF own # {} THEN Min(own) ELSE IF free # {} THEN Min(free) ELSE MaxCursors
    BY <1>1 DEF SlotFor
  <1>3. own \in SUBSET Nat /\ free \in SUBSET Nat
    OBVIOUS
  <1>4. (own # {} => Min(own) \in own) /\ (free # {} => Min(free) \in free)
    BY <1>3, BoundedHasMin
  <1>5. MaxCursors \in 1 .. MaxCursors
    BY LogSyncAssumption
  <1> DEFINE i0 == SlotFor(conn)
  <1>6. i0 \in own \/ (own = {} /\ i0 \in free) \/ (own = {} /\ free = {} /\ i0 = MaxCursors)
    BY <1>2, <1>4, Zenon
  <1> HIDE DEF i0
  <1>7. QED
    BY <1>5, <1>6 DEF i0

\* The page reader returns a page of rows that were filed.
LEMMA PublishedIs ==
    ASSUME FiledInv, NEW after \in Nat
    PROVE  PublishedPage(after) \in Pages /\ PageFiledIn(filed, PublishedPage(after).events)
  <1> DEFINE from == From(after)
             fits == {k \in 0 .. PageMax :
                         \A i \in 0 .. (k - 1) : from + i <= Last /\ Readable(from + i)}
             n    == Max(fits)
             ev   == Page(after).events
  <1>1. CASE PublishedPage(after) = EmptyPage
    BY <1>1, EmptyIsPage DEF PageFiledIn
  <1>2. CASE PublishedPage(after) = Page(after)
    <2>1. n \in Nat
      <3>1. PageMax \in Nat
        BY EventLogAssumption
      <3>2. fits \in SUBSET (0 .. PageMax) /\ 0 \in fits
        BY <3>1
      <3>3. n \in fits
        BY <3>1, <3>2, BoundedHasMax
      <3>4. QED
        BY <3>1, <3>3
    <2>2. \/ Page(after) = EmptyPage
          \/ Page(after) = [events |-> [i \in 1 .. n |-> flash[SlotOf(from + i - 1)]],
                            more |-> n > 0 /\ from + n <= Last]
      BY DEF Page, From, EmptyPage
    <2> HIDE DEF n, fits, from
    <2>3. \A i \in 1 .. Len(ev) :
             /\ Readable(From(after) + i - 1)
             /\ ev[i] = flash[SlotOf(From(after) + i - 1)]
             /\ SlotOf(From(after) + i - 1) \in Slots
      BY PageRows
    <2>4. \A i \in 1 .. Len(ev) : ev[i] \in SlotContents /\ FiledIn(filed, ev[i])
      BY <2>3 DEF Readable, FiledInv, LogStateOK, RecordsFiled, FiledIn
    <2>5. Page(after) \in Pages
      <3>1. CASE Page(after) = EmptyPage
        BY <3>1, EmptyIsPage
      <3>2. CASE Page(after) = [events |-> [i \in 1 .. n |-> flash[SlotOf(from + i - 1)]],
                                more |-> n > 0 /\ from + n <= Last]
        <4>1. ev = [i \in 1 .. n |-> flash[SlotOf(from + i - 1)]] /\ Len(ev) = n
          BY <2>1, <3>2
        <4>2. ev \in Seq(SlotContents)
          BY <2>1, <2>4, <4>1
        <4>3. (n > 0 /\ from + n <= Last) \in BOOLEAN
          OBVIOUS
        <4>4. QED
          BY <3>2, <4>1, <4>2, <4>3 DEF Pages
      <3>3. QED
        BY <2>2, <3>1, <3>2
    <2>6. QED
      BY <1>2, <2>4, <2>5 DEF PageFiledIn
  <1>3. QED
    BY <1>1, <1>2 DEF PublishedPage

-----------------------------------------------------------------------------
(* Types and rows, whatever the flash does                                *)

FiledSync == FiledInv /\ SyncTypeOK /\ RowsWereFiled

LEMMA FiledSyncInit == SyncInit => FiledSync
  <1> SUFFICES ASSUME SyncInit PROVE FiledSync
    OBVIOUS
  <1>1. FiledInv
    BY FiledInit DEF SyncInit
  <1>2. FreeSlot \in Cells
    BY LogSyncAssumption DEF FreeSlot, Cells, NoConn
  <1>3. Unlinked \in Copies /\ Unlinked.first = EmptyPage /\ Unlinked.have = {}
        /\ Unlinked.step = "off"
    BY EmptyIsPage, LogSyncAssumption DEF Unlinked, Copies, Steps, NoConn
  <1>4. SyncTypeOK
    BY <1>2, <1>3, EmptyIsPage DEF SyncInit, SyncTypeOK
  <1>5. RowsWereFiled
    BY <1>3, EmptyIsPage DEF SyncInit, RowsWereFiled, PhoneFiled, PageFiledIn
  <1>6. QED
    BY <1>1, <1>4, <1>5 DEF FiledSync

\* The log only grows.
LEMMA StillFiled ==
    ASSUME FiledInv, [Next]_ringVars
    PROVE  \A r : FiledIn(filed, r) => FiledIn(filed', r)
  <1>1. CASE filed' = filed
    BY <1>1
  <1>2. CASE WriteRow
    <2>1. filed' = Append(filed, [seq |-> next, row |-> Head(queue)])
      BY <1>2 DEF WriteRow
    <2>2. filed \in Seq([seq : Nat, row : Nat])
      BY DEF FiledInv, LogStateOK
    <2>3. /\ Len(filed) \in Nat /\ Len(filed') = Len(filed) + 1
          /\ \A k \in 1 .. Len(filed) : filed'[k] = filed[k]
      BY <2>1, <2>2
    <2>4. QED
      BY <2>3 DEF FiledIn
  <1>3. QED
    BY <1>1, <1>2 DEF Next, Boot, RecordSession, MakeRoom, WriteFails, SaveLastSeq, PowerCut,
                      ringVars

\* What a request publishes, and what it leaves the phones with
LEMMA RowsStay ==
    ASSUME FiledSync, ringVars' = ringVars,
           slots' \in [1 .. MaxCursors -> Cells],
           NEW page \in Pages, PageFiledIn(filed, page.events),
           NEW phones \in [Phones -> Copies], Publish(page, phones),
           \A q \in Phones : PhoneFiled(filed, phones[q])
    PROVE  FiledSync'
  <1>1. FiledInv'
    BY FiledStep DEF FiledSync
  <1>2. filed' = filed /\ phone' = phones /\ (value' = page \/ value' = EmptyPage)
    BY DEF ringVars, Publish
  <1>3. SyncTypeOK'
    BY <1>2, EmptyIsPage DEF SyncTypeOK
  <1>4. PageFiledIn(filed, EmptyPage.events)
    BY EmptyIsPage DEF PageFiledIn
  <1>5. RowsWereFiled'
    BY <1>2, <1>4 DEF RowsWereFiled
  <1>6. QED
    BY <1>1, <1>3, <1>5 DEF FiledSync

\* A row of a filed page, and the page with which a long read began
LEMMA PhonesAreFiled ==
    ASSUME FiledSync, NEW p \in Phones
    PROVE  /\ phone[p] \in Copies /\ Crossed(p) \in [Phones -> Copies]
           /\ \A q \in Phones : PhoneFiled(filed, Crossed(p)[q])
  <1>1. phone \in [Phones -> Copies]
    BY DEF FiledSync, SyncTypeOK
  <1>2. Crossed(p) \in [Phones -> Copies] /\ \A q \in Phones : Stands(phone[q], Crossed(p)[q])
    BY <1>1, CrossedIs
  <1>3. QED
    BY <1>1, <1>2 DEF Stands, FiledSync, RowsWereFiled, PhoneFiled

LEMMA ClaimedIs ==
    ASSUME slots \in [1 .. MaxCursors -> Cells], NEW conn \in 0 .. MaxConns,
           NEW i \in 1 .. MaxCursors
    PROVE  /\ Claimed(i, conn) \in Cells
           /\ \A c \in Nat : [Claimed(i, conn) EXCEPT !.cursor = c] \in Cells
  <1>1. slots[i] \in Cells /\ [conn |-> conn, cursor |-> 0] \in Cells
    BY DEF Cells
  <1>2. Claimed(i, conn) \in Cells
    BY <1>1 DEF Claimed
  <1>3. QED
    BY <1>2 DEF Cells

\* One phone takes a step.
LEMMA OneSteps ==
    ASSUME FiledSync, NEW p \in Phones, NEW base \in {phone, Crossed(p)}, NEW ph \in Copies,
           PhoneFiled(filed, ph)
    PROVE  LET phones == [base EXCEPT ![p] = ph]
           IN  /\ phones \in [Phones -> Copies]
               /\ \A q \in Phones : PhoneFiled(filed, phones[q])
  <1>1. /\ base \in [Phones -> Copies]
        /\ \A q \in Phones : PhoneFiled(filed, base[q])
    <2>1. CASE base = phone
      BY <2>1 DEF FiledSync, SyncTypeOK, RowsWereFiled
    <2>2. CASE base = Crossed(p)
      BY <2>2, PhonesAreFiled
    <2>3. QED
      BY <2>1, <2>2
  <1>2. QED
    BY <1>1

LEMMA FiledWriteCursor ==
    ASSUME FiledSync, NEW p \in Phones, WriteCursor(p)
    PROVE  FiledSync'
  <1> DEFINE i    == SlotFor(phone[p].conn)
             cell == [Claimed(i, phone[p].conn) EXCEPT !.cursor = phone[p].after]
             w    == [Crossed(p)[p] EXCEPT !.step = "written"]
             page == PublishedPage(phone[p].after)
  <1>1. /\ phone[p] \in Copies /\ Crossed(p) \in [Phones -> Copies]
        /\ PhoneFiled(filed, Crossed(p)[p])
    BY PhonesAreFiled
  <1>2. phone[p].conn \in 0 .. MaxConns /\ phone[p].after \in Nat
    BY <1>1 DEF Copies
  <1>3. i \in 1 .. MaxCursors
    BY SlotForIs DEF FiledSync, SyncTypeOK
  <1>4. /\ slots' = [slots EXCEPT ![i] = cell]
        /\ Publish(page, [Crossed(p) EXCEPT ![p] = w]) /\ ringVars' = ringVars
    BY DEF WriteCursor
  <1>5. slots \in [1 .. MaxCursors -> Cells]
    BY DEF FiledSync, SyncTypeOK
  <1>6. cell \in Cells
    BY <1>2, <1>3, <1>5, ClaimedIs
  <1>7. w \in Copies /\ w.first = Crossed(p)[p].first /\ w.have = Crossed(p)[p].have
        /\ w.step = "written"
    <2>1. Crossed(p)[p] \in Copies /\ "written" \in Steps
      BY <1>1 DEF Steps
    <2>2. w \in Copies
      BY <2>1, PhoneWith, Zenon
    <2>3. QED
      BY <2>1, <2>2 DEF Copies
  <1>8. page \in Pages /\ PageFiledIn(filed, page.events)
    BY <1>2, PublishedIs DEF FiledSync
  <1> HIDE DEF w, i, cell, page
  <1>9. slots' \in [1 .. MaxCursors -> Cells]
    BY <1>3, <1>4, <1>5, <1>6
  <1>10. PhoneFiled(filed, w)
    BY <1>1, <1>7 DEF PhoneFiled
  <1>11. QED
    BY <1>4, <1>7, <1>8, <1>9, <1>10, OneSteps, RowsStay

LEMMA FiledShortWrite ==
    ASSUME FiledSync, NEW p \in Phones, ShortWrite(p)
    PROVE  FiledSync'
  <1>1. /\ Crossed(p) \in [Phones -> Copies]
        /\ \A q \in Phones : PhoneFiled(filed, Crossed(p)[q])
    BY PhonesAreFiled
  <1>2. Publish(EmptyPage, Crossed(p)) /\ ringVars' = ringVars /\ slots' = slots
    BY DEF ShortWrite
  <1>3. slots' \in [1 .. MaxCursors -> Cells]
    BY <1>2 DEF FiledSync, SyncTypeOK
  <1>4. PageFiledIn(filed, EmptyPage.events)
    BY EmptyIsPage DEF PageFiledIn
  <1>5. QED
    BY <1>1, <1>2, <1>3, <1>4, EmptyIsPage, RowsStay

\* What a read may leave a phone with: the page received, or its first part
LEMMA ReadIs ==
    ASSUME NEW p \in Phones, Read(p)
    PROVE  LET i    == SlotFor(phone[p].conn)
               page == PublishedPage(Claimed(i, phone[p].conn).cursor)
               ph   == [Crossed(p)[p] EXCEPT
                          !.upto = IF page.more \/ mode # "ready" \/ ~RingSound
                                   THEN 0 ELSE Last]
           IN  /\ mode # "boot" /\ ringVars' = ringVars
               /\ phone[p].step = "written" \/ (phone[p].step = "idle" /\ phone[p].after = 0)
               /\ slots' = [slots EXCEPT ![i] = Claimed(i, phone[p].conn)]
               /\ \E ph2 : /\ Publish(page, [Crossed(p) EXCEPT ![p] = ph2])
                           /\ \/ ph2 = Accept(ph, page.events, page.more)
                              \/ /\ Len(page.events) > 1
                                 /\ ph2 = [ph EXCEPT !.step = "tail", !.first = page]
BY DEF Read

LEMMA FiledRead ==
    ASSUME FiledSync, NEW p \in Phones, Read(p)
    PROVE  FiledSync'
  <1> DEFINE i    == SlotFor(phone[p].conn)
             cell == Claimed(i, phone[p].conn)
             page == PublishedPage(cell.cursor)
             u    == IF page.more \/ mode # "ready" \/ ~RingSound THEN 0 ELSE Last
             ph   == [Crossed(p)[p] EXCEPT !.upto = u]
  <1>1. /\ slots' = [slots EXCEPT ![i] = cell] /\ ringVars' = ringVars
        /\ \E ph2 : /\ Publish(page, [Crossed(p) EXCEPT ![p] = ph2])
                    /\ \/ ph2 = Accept(ph, page.events, page.more)
                       \/ /\ Len(page.events) > 1
                          /\ ph2 = [ph EXCEPT !.step = "tail", !.first = page]
    BY ReadIs
  <1>2. slots \in [1 .. MaxCursors -> Cells] /\ phone[p].conn \in 0 .. MaxConns
        /\ mode # "boot"
    BY PhonesAreFiled, ReadIs DEF FiledSync, SyncTypeOK, Copies
  <1>3. i \in 1 .. MaxCursors
    BY <1>2, SlotForIs
  <1>4. cell \in Cells /\ cell.cursor \in Nat
    BY <1>2, <1>3, ClaimedIs DEF Cells
  <1> HIDE DEF i, cell
  <1>5. page \in Pages /\ PageFiledIn(filed, page.events)
    BY <1>4, PublishedIs DEF FiledSync
  <1> HIDE DEF page
  <1>6. u \in Int
    BY DEF FiledSync, FiledInv, LogStateOK, Last
  <1> HIDE DEF u
  <1>7. Crossed(p)[p] \in Copies /\ PhoneFiled(filed, Crossed(p)[p])
    BY PhonesAreFiled
  <1>8. ph \in Copies
    BY <1>6, <1>7, PhoneWith, Zenon
  <1>9. ph.first = Crossed(p)[p].first /\ ph.have = Crossed(p)[p].have
    BY <1>7 DEF Copies
  <1> HIDE DEF ph
  <1>10. PICK ph2 : /\ Publish(page, [Crossed(p) EXCEPT ![p] = ph2])
                    /\ \/ ph2 = Accept(ph, page.events, page.more)
                       \/ /\ Len(page.events) > 1
                          /\ ph2 = [ph EXCEPT !.step = "tail", !.first = page]
    BY <1>1
  <1>11. ph2 \in Copies /\ PhoneFiled(filed, ph2)
    <2>1. CASE ph2 = Accept(ph, page.events, page.more)
      <3>1. page.events \in Seq(SlotContents) /\ page.more \in BOOLEAN
        BY <1>5 DEF Pages
      <3>2. \A r \in ph.have : FiledIn(filed, r)
        BY <1>7, <1>9 DEF PhoneFiled
      <3>3. QED
        BY <1>5, <1>8, <2>1, <3>1, <3>2, AcceptFiled
    <2>2. CASE /\ Len(page.events) > 1
               /\ ph2 = [ph EXCEPT !.step = "tail", !.first = page]
      <3>1. ph2 \in Copies
        BY <1>5, <1>8, <2>2, PhoneWith, Zenon
      <3>2. ph2.first = page /\ ph2.have = ph.have
        BY <1>8, <2>2 DEF Copies
      <3>3. page.events # <<>>
        BY <1>5, <2>2, EmptyIsPage DEF Pages
      <3>4. QED
        BY <1>5, <1>7, <1>9, <3>1, <3>2, <3>3 DEF PhoneFiled
    <2>3. QED
      BY <1>10, <2>1, <2>2
  <1>12. slots' \in [1 .. MaxCursors -> Cells]
    BY <1>1, <1>2, <1>3, <1>4
  <1>13. ringVars' = ringVars
    BY <1>1
  <1> DEFINE phones == [Crossed(p) EXCEPT ![p] = ph2]
  <1>14. phones \in [Phones -> Copies] /\ \A q \in Phones : PhoneFiled(filed, phones[q])
    BY <1>11, OneSteps, Zenon
  <1>15. Publish(page, phones)
    BY <1>10
  <1> HIDE DEF phones
  <1>16. QED
    BY <1>5, <1>12, <1>13, <1>14, <1>15, RowsStay

\* The first row of one page, and those from the second on of another
PageStarts(row, events, m) ==
    LET rows == <<row>> \o SubSeq(events, 2, m)
    IN  /\ rows \in Seq(SlotContents)
        /\ Len(rows) = IF m > 1 THEN m ELSE 1
        /\ \A i \in 1 .. Len(rows) :
              rows[i] = row \/ (i \in 1 .. Len(events) /\ rows[i] = events[i])
        /\ rows[1] = row
        /\ \A i \in 2 .. Len(rows) : i \in 1 .. Len(events) /\ rows[i] = events[i]

LEMMA TailRows ==
    ASSUME NEW row \in SlotContents, NEW events \in Seq(SlotContents), NEW m \in Nat,
           m <= Len(events)
    PROVE  PageStarts(row, events, m)
  <1> DEFINE tail == SubSeq(events, 2, m)
             rows == <<row>> \o tail
             len  == IF m > 1 THEN m - 1 ELSE 0
  <1>1. /\ tail \in Seq(SlotContents) /\ Len(tail) = len
        /\ \A i \in 1 .. len : tail[i] = events[i + 1]
    OBVIOUS
  <1>2. len \in Nat /\ len + 1 = IF m > 1 THEN m ELSE 1
    OBVIOUS
  <1>3. len > 0 => len + 1 <= Len(events)
    OBVIOUS
  <1> HIDE DEF tail, len
  <1>4. /\ rows \in Seq(SlotContents) /\ Len(rows) = len + 1 /\ rows[1] = row
        /\ \A i \in 2 .. len + 1 : rows[i] = tail[i - 1]
    BY <1>1, <1>2
  <1> HIDE DEF rows
  <1>5. \A i \in 2 .. len + 1 : i \in 1 .. Len(events) /\ rows[i] = events[i]
    <2> SUFFICES ASSUME NEW i \in 2 .. len + 1
                 PROVE  i \in 1 .. Len(events) /\ rows[i] = events[i]
      OBVIOUS
    <2>1. i - 1 \in 1 .. len /\ i - 1 + 1 = i /\ i \in 1 .. Len(events)
      BY <1>2, <1>3
    <2>2. QED
      BY <1>1, <1>4, <2>1
  <1>6. QED
    BY <1>2, <1>4, <1>5 DEF PageStarts, rows, tail

\* The rest of a page that has not changed makes it whole.
LEMMA RestIs ==
    ASSUME FiledSync, NEW p \in Phones, ReadRest(p)
    PROVE  \E rows \in Seq(SlotContents) :
              /\ Publish(value, [phone EXCEPT ![p] = Accept(phone[p], rows, phone[p].first.more)])
              /\ PageFiledIn(filed, rows)
              /\ value = phone[p].first => rows = phone[p].first.events
  <1> DEFINE page == phone[p].first
             n    == Len(page.events)
             rest == IF Len(value.events) >= n THEN n ELSE Len(value.events)
             rows == <<page.events[1]>> \o SubSeq(value.events, 2, rest)
  <1>1. /\ Publish(value, [phone EXCEPT ![p] = Accept(phone[p], rows, page.more)])
        /\ phone[p].step = "tail"
    BY DEF ReadRest
  <1>2. /\ page.events \in Seq(SlotContents) /\ value.events \in Seq(SlotContents)
        /\ PageFiledIn(filed, page.events) /\ PageFiledIn(filed, value.events)
        /\ page.events # <<>>
    BY <1>1 DEF FiledSync, SyncTypeOK, RowsWereFiled, PhoneFiled, Copies, Pages
  <1>3. n \in Nat /\ n > 0 /\ rest \in Nat /\ rest <= Len(value.events)
    BY <1>2
  <1>4. PageStarts(page.events[1], value.events, rest)
    BY <1>2, <1>3, TailRows
  <1>5. page.events[1] \in SlotContents /\ FiledIn(filed, page.events[1])
    BY <1>2, <1>3 DEF PageFiledIn
  <1>6. value = page => rest = n
    BY <1>3
  <1> HIDE DEF rest
  <1>7. rows \in Seq(SlotContents) /\ PageFiledIn(filed, rows)
    <2> HIDE DEF n
    <2>1. QED
      BY <1>2, <1>3, <1>4, <1>5 DEF PageStarts, PageFiledIn
  <1>8. ASSUME value = page PROVE rows = page.events
    <2>1. /\ rows \in Seq(SlotContents) /\ Len(rows) = n /\ rows[1] = page.events[1]
          /\ \A i \in 2 .. n : rows[i] = page.events[i]
      BY <1>3, <1>4, <1>6, <1>8 DEF PageStarts
    <2> HIDE DEF rows
    <2>2. \A i \in 1 .. n : rows[i] = page.events[i]
      BY <1>3, <2>1
    <2>3. QED
      BY <1>2, <2>1, <2>2
  <1>9. QED
    BY <1>1, <1>7, <1>8

LEMMA FiledReadRest ==
    ASSUME FiledSync, NEW p \in Phones, ReadRest(p)
    PROVE  FiledSync'
  <1> DEFINE more == phone[p].first.more
  <1>1. PICK rows \in Seq(SlotContents) :
           /\ Publish(value, [phone EXCEPT ![p] = Accept(phone[p], rows, more)])
           /\ PageFiledIn(filed, rows)
    BY RestIs
  <1>2. /\ phone[p] \in Copies /\ value \in Pages /\ more \in BOOLEAN
        /\ PageFiledIn(filed, value.events)
        /\ \A r \in phone[p].have : FiledIn(filed, r)
        /\ slots \in [1 .. MaxCursors -> Cells]
    BY DEF FiledSync, SyncTypeOK, RowsWereFiled, PhoneFiled, Copies, Pages
  <1>3. ringVars' = ringVars /\ slots' \in [1 .. MaxCursors -> Cells]
    BY <1>2 DEF ReadRest
  <1> DEFINE ph2    == Accept(phone[p], rows, more)
             phones == [phone EXCEPT ![p] = ph2]
  <1>4. ph2 \in Copies /\ PhoneFiled(filed, ph2)
    BY <1>1, <1>2, AcceptFiled
  <1> HIDE DEF ph2
  <1>5. phones \in [Phones -> Copies] /\ \A q \in Phones : PhoneFiled(filed, phones[q])
    BY <1>4, OneSteps, Zenon
  <1>6. Publish(value, phones)
    BY <1>1 DEF ph2
  <1> HIDE DEF phones
  <1>7. QED
    BY <1>2, <1>3, <1>5, <1>6, RowsStay

LEMMA FiledConnect ==
    ASSUME FiledSync, NEW p \in Phones, Connect(p)
    PROVE  FiledSync'
  <1> DEFINE free == Handles \ {phone[q].conn : q \in Phones}
             ph2  == [phone[p] EXCEPT !.conn = Min(free), !.step = "idle"]
  <1>1. /\ free # {} /\ phone' = [phone EXCEPT ![p] = ph2]
        /\ ringVars' = ringVars /\ UNCHANGED <<slots, value>>
    BY DEF Connect
  <1>2. Min(free) \in free
    <2>1. free \in SUBSET Nat
      BY DEF Handles
    <2>2. QED
      BY <1>1, <2>1, BoundedHasMin
  <1>3. Min(free) \in 0 .. MaxConns /\ phone[p] \in Copies /\ phone \in [Phones -> Copies]
    BY <1>2 DEF Handles, FiledSync, SyncTypeOK
  <1>4. ph2 \in Copies
    BY <1>3, PhoneWith, Zenon
  <1>5. ph2.first = phone[p].first /\ ph2.have = phone[p].have /\ ph2.step = "idle"
    BY <1>3 DEF Copies
  <1> HIDE DEF ph2
  <1>6. SyncTypeOK'
    BY <1>1, <1>3, <1>4 DEF FiledSync, SyncTypeOK
  <1>7. \A q \in Phones : /\ phone'[q].first = phone[q].first /\ phone'[q].have = phone[q].have
                          /\ phone'[q].step = "idle" \/ phone'[q].step = phone[q].step
    BY <1>1, <1>3, <1>5
  <1>8. filed' = filed /\ value' = value
    BY <1>1 DEF ringVars
  <1>9. RowsWereFiled'
    BY <1>7, <1>8 DEF FiledSync, RowsWereFiled, PhoneFiled
  <1>10. QED
    BY <1>1, <1>6, <1>9, FiledStep DEF FiledSync

LEMMA FiledDisconnect ==
    ASSUME FiledSync, NEW p \in Phones, Disconnect(p)
    PROVE  FiledSync'
  <1>1. /\ slots' = Released(phone[p].conn) /\ ringVars' = ringVars
        /\ Publish(value, [phone EXCEPT ![p] = Gone(phone[p])])
    BY DEF Disconnect
  <1>2. /\ phone[p] \in Copies /\ value \in Pages /\ PageFiledIn(filed, value.events)
        /\ PhoneFiled(filed, phone[p])
    BY DEF FiledSync, SyncTypeOK, RowsWereFiled
  <1>3. Gone(phone[p]) \in Copies /\ PhoneFiled(filed, Gone(phone[p]))
    BY <1>2, GoneIs, EmptyIsPage DEF PhoneFiled, PageFiledIn
  <1>4. slots' \in [1 .. MaxCursors -> Cells]
    BY <1>1, FreeIsCell DEF Released, FiledSync, SyncTypeOK
  <1> DEFINE phones == [phone EXCEPT ![p] = Gone(phone[p])]
  <1>5. /\ phones \in [Phones -> Copies]
        /\ \A q \in Phones : PhoneFiled(filed, phones[q])
    BY <1>3, OneSteps, Zenon
  <1>6. Publish(value, phones)
    BY <1>1
  <1> HIDE DEF phones
  <1>7. QED
    BY <1>1, <1>2, <1>4, <1>5, <1>6, RowsStay

LEMMA FiledCut ==
    ASSUME FiledSync, Cut
    PROVE  FiledSync'
  <1>1. /\ PowerCut /\ slots' = [i \in 1 .. MaxCursors |-> FreeSlot]
        /\ Publish(EmptyPage, [p \in Phones |-> Gone(phone[p])])
    BY DEF Cut
  <1>2. filed' = filed
    BY <1>1 DEF PowerCut
  <1>3. FiledInv'
    BY <1>1, FiledStep DEF FiledSync, Next
  <1>4. value' = EmptyPage /\ phone' = [p \in Phones |-> Gone(phone[p])]
    BY <1>1 DEF Publish
  <1>5. \A p \in Phones : /\ Gone(phone[p]) \in Copies /\ Gone(phone[p]).first = EmptyPage
                          /\ Gone(phone[p]).step = "off"
                          /\ Gone(phone[p]).have = phone[p].have
    BY GoneIs DEF FiledSync, SyncTypeOK
  <1>6. SyncTypeOK'
    BY <1>1, <1>4, <1>5, FreeIsCell, EmptyIsPage DEF SyncTypeOK
  <1>7. PageFiledIn(filed, EmptyPage.events)
    BY EmptyIsPage DEF PageFiledIn
  <1>8. RowsWereFiled'
    BY <1>2, <1>4, <1>5, <1>7 DEF FiledSync, RowsWereFiled, PhoneFiled
  <1>9. QED
    BY <1>3, <1>6, <1>8 DEF FiledSync

LEMMA RingIsNext == ASSUME Ring PROVE Next /\ syncVars' = syncVars
BY DEF Ring, Next

LEMMA FiledRing ==
    ASSUME FiledSync, [Next]_ringVars, syncVars' = syncVars
    PROVE  FiledSync'
  <1>1. FiledInv'
    BY FiledStep DEF FiledSync
  <1>2. \A r : FiledIn(filed, r) => FiledIn(filed', r)
    BY StillFiled DEF FiledSync
  <1>3. slots' = slots /\ value' = value /\ phone' = phone
    BY DEF syncVars
  <1>4. SyncTypeOK' /\ RowsWereFiled'
    BY <1>2, <1>3 DEF FiledSync, SyncTypeOK, RowsWereFiled, PhoneFiled, PageFiledIn
  <1>5. QED
    BY <1>1, <1>4 DEF FiledSync

LEMMA FiledSyncStep ==
    ASSUME FiledSync, [SyncNext]_<<ringVars, syncVars>>
    PROVE  FiledSync'
  <1>1. CASE Ring
    BY <1>1, RingIsNext, FiledRing
  <1>2. CASE UNCHANGED <<ringVars, syncVars>>
    BY <1>2, FiledRing
  <1>3. QED
    BY <1>1, <1>2, FiledCut, FiledConnect, FiledDisconnect, FiledWriteCursor, FiledShortWrite,
       FiledRead, FiledReadRest DEF SyncNext

\* What a phone has was filed.
HasWhatWasFiled == \A p \in Phones : ~phone[p].mixed => \A r \in phone[p].have : FiledIn(filed, r)

\* No phone receives a row that was not filed under the number it shows, whatever the flash
\* does and in whatever order the phones' requests come, unless a long read of it was crossed
\* (SessionLogCallbacks over eventlog_build_page).
THEOREM CopiesWereFiled == SyncSpec => []HasWhatWasFiled
  <1>1. FiledSync => HasWhatWasFiled
    BY DEF FiledSync, RowsWereFiled, PhoneFiled, HasWhatWasFiled
  <1>2. FiledSync /\ [SyncNext]_<<ringVars, syncVars>> => FiledSync'
    BY FiledSyncStep
  <1>3. QED
    BY FiledSyncInit, <1>1, <1>2, PTL DEF SyncSpec

-----------------------------------------------------------------------------
(* Slots *)

OwnedInv == FiledSync /\ SlotsAreOwned

\* A connected phone finds its slot, or a free one that it makes its own: there is one per
\* possible connection.
LEMMA OwnSlot ==
    ASSUME OwnedInv, NEW p \in Phones, phone[p].conn # NoConn
    PROVE  LET i == SlotFor(phone[p].conn)
           IN  /\ i \in 1 .. MaxCursors
               /\ Claimed(i, phone[p].conn).conn = phone[p].conn
               /\ \/ slots[i].conn = phone[p].conn /\ Claimed(i, phone[p].conn) = slots[i]
                  \/ /\ slots[i].conn = NoConn /\ Claimed(i, phone[p].conn).cursor = 0
                     /\ \A j \in 1 .. MaxCursors : slots[j].conn # phone[p].conn
  <1> DEFINE h == phone[p].conn
             i == SlotFor(h)
             own  == \E j \in 1 .. MaxCursors : slots[j].conn = h
             free == \E j \in 1 .. MaxCursors : slots[j].conn = NoConn
  <1>1. /\ slots \in [1 .. MaxCursors -> Cells] /\ h \in 1 .. MaxConns
        /\ \A j \in 1 .. MaxCursors : slots[j].conn \in 0 .. MaxConns
    BY DEF OwnedInv, FiledSync, SyncTypeOK, Copies, Cells, NoConn
  <1>2. /\ i \in 1 .. MaxCursors
        /\ own => slots[i].conn = h
        /\ ~own /\ free => slots[i].conn = NoConn
    BY <1>1, SlotForIs
  <1>3. own \/ free
    <2> SUFFICES ASSUME ~own, ~free PROVE FALSE
      OBVIOUS
    <2> DEFINE S == 1 .. MaxCursors
               T == (1 .. MaxConns) \ {h}
               f == [j \in S |-> slots[j].conn]
    <2>1. MaxCursors \in Nat /\ MaxConns \in Nat /\ MaxConns <= MaxCursors /\ MaxConns > 0
      BY LogSyncAssumption
    <2>2. IsFiniteSet(S) /\ Cardinality(S) = MaxCursors
      BY <2>1, FS_Interval
    <2>3. IsFiniteSet(1 .. MaxConns) /\ Cardinality(1 .. MaxConns) = MaxConns
      BY <2>1, FS_Interval
    <2>4. IsFiniteSet(T) /\ Cardinality(T) = MaxConns - 1
      BY <1>1, <2>3, FS_RemoveElement
    <2>5. \A j \in S : slots[j].conn \in T
      BY <1>1 DEF NoConn
    <2>6. f \in [S -> T] /\ \A j \in S : f[j] = slots[j].conn /\ f[j] \in T
      BY <2>5
    <2>7. NoConn \notin T
      BY DEF NoConn
    <2> HIDE DEF f, S, T
    <2>8. Cardinality(T) < Cardinality(S)
      BY <2>1, <2>2, <2>4
    <2>9. \E x, y \in S : x # y /\ f[x] = f[y]
      <3>1. IsFiniteSet(S)
        BY <2>2
      <3>2. IsFiniteSet(T)
        BY <2>4
      <3>3. f \in [S -> T]
        BY <2>6
      <3>4. QED
        BY <3>1, <3>2, <3>3, <2>8, FS_PigeonHole
    <2>10. QED
      BY <2>6, <2>7, <2>9 DEF OwnedInv, SlotsAreOwned, S
  <1> HIDE DEF i
  <1>4. CASE own
    BY <1>1, <1>2, <1>4 DEF Claimed, NoConn, i
  <1>5. CASE ~own
    BY <1>1, <1>2, <1>3, <1>5 DEF Claimed, NoConn, i
  <1>6. QED
    BY <1>4, <1>5

\* A request leaves the connections alone, and a slot is taken at most by its own.
LEMMA OwnedMove ==
    ASSUME SlotsAreOwned, mode' = mode,
           \A q \in Phones : /\ phone'[q].conn = phone[q].conn
                             /\ phone'[q].step = "off" <=> phone[q].step = "off",
           \/ \A j \in 1 .. MaxCursors : slots'[j].conn = slots[j].conn
           \/ \E p \in Phones, i \in 1 .. MaxCursors :
                 /\ slots'[i].conn = phone[p].conn
                 /\ \/ slots[i].conn = phone[p].conn
                    \/ \A j \in 1 .. MaxCursors : slots[j].conn # phone[p].conn
                 /\ \A j \in (1 .. MaxCursors) \ {i} : slots'[j].conn = slots[j].conn
    PROVE  SlotsAreOwned'
  <1>1. /\ \A q \in Phones : phone'[q].step = "off" <=> phone'[q].conn = NoConn
        /\ \A p, q \in Phones : phone'[p].conn = phone'[q].conn => p = q \/ phone'[p].conn = NoConn
        /\ mode' = "boot" => \A q \in Phones : phone'[q].step = "off"
    BY DEF SlotsAreOwned
  <1>2. /\ \A i, j \in 1 .. MaxCursors :
              slots'[i].conn = slots'[j].conn => i = j \/ slots'[i].conn = NoConn
        /\ \A i \in 1 .. MaxCursors :
              slots'[i].conn # NoConn => \E p \in Phones : phone'[p].conn = slots'[i].conn
    <2>1. CASE \A j \in 1 .. MaxCursors : slots'[j].conn = slots[j].conn
      BY <2>1 DEF SlotsAreOwned
    <2>2. ASSUME NEW p \in Phones, NEW i \in 1 .. MaxCursors,
                 slots'[i].conn = phone[p].conn,
                 \/ slots[i].conn = phone[p].conn
                 \/ \A j \in 1 .. MaxCursors : slots[j].conn # phone[p].conn,
                 \A j \in (1 .. MaxCursors) \ {i} : slots'[j].conn = slots[j].conn
          PROVE  /\ \A k, j \in 1 .. MaxCursors :
                       slots'[k].conn = slots'[j].conn => k = j \/ slots'[k].conn = NoConn
                 /\ \A k \in 1 .. MaxCursors :
                       slots'[k].conn # NoConn => \E q \in Phones : phone'[q].conn = slots'[k].conn
      BY <2>2 DEF SlotsAreOwned
    <2>3. QED
      BY <2>1, <2>2
  <1>3. QED
    BY <1>1, <1>2 DEF SlotsAreOwned

\* What a request leaves of the others: they may have been crossed, and one that was not
\* still finds its page in the value.
OthersStand(p) ==
    \A q \in Phones \ {p} :
        /\ Stands(phone[q], phone'[q])
        /\ phone'[q].step = "tail" /\ ~phone'[q].mixed => value' = value

LEMMA PublishCrossed ==
    ASSUME FiledSync, NEW p \in Phones, NEW page, NEW ph,
           Publish(page, [Crossed(p) EXCEPT ![p] = ph])
    PROVE  /\ OthersStand(p) /\ phone'[p] = ph
           /\ ph.step = "tail" => value' = page
  <1>1. /\ Crossed(p) \in [Phones -> Copies]
        /\ \A q \in Phones : /\ Stands(phone[q], Crossed(p)[q])
                             /\ q # p /\ phone[q].step = "tail" => Crossed(p)[q].mixed
    BY CrossedIs DEF FiledSync, SyncTypeOK
  <1>2. phone' = [Crossed(p) EXCEPT ![p] = ph]
    BY DEF Publish
  <1>3. phone'[p] = ph /\ \A q \in Phones \ {p} : phone'[q] = Crossed(p)[q]
    BY <1>1, <1>2
  <1>4. OthersStand(p)
    BY <1>1, <1>3 DEF OthersStand, Stands
  <1>5. ph.step = "tail" => value' = page
    BY <1>2, <1>3 DEF Publish
  <1>6. QED
    BY <1>3, <1>4, <1>5

LEMMA PublishSame ==
    ASSUME FiledSync, NEW p \in Phones, NEW ph, Publish(value, [phone EXCEPT ![p] = ph])
    PROVE  OthersStand(p) /\ phone'[p] = ph
  <1>1. phone \in [Phones -> Copies] /\ phone' = [phone EXCEPT ![p] = ph]
    BY DEF FiledSync, SyncTypeOK, Publish
  <1>2. phone'[p] = ph /\ \A q \in Phones \ {p} : phone'[q] = phone[q]
    BY <1>1
  <1>3. ASSUME NEW q \in Phones \ {p}, phone'[q].step = "tail" PROVE value' = value
    BY <1>1, <1>3 DEF Publish
  <1>4. QED
    BY <1>2, <1>3 DEF OthersStand, Stands

\* The slot of the phone that asks, and no other
LEMMA SlotTaken ==
    ASSUME OwnedInv, NEW p \in Phones, phone[p].conn # NoConn, NEW cell,
           cell.conn = phone[p].conn, slots' = [slots EXCEPT ![SlotFor(phone[p].conn)] = cell]
    PROVE  \E i \in 1 .. MaxCursors :
              /\ slots'[i].conn = phone[p].conn /\ slots'[i] = cell
              /\ \/ slots[i].conn = phone[p].conn
                 \/ \A j \in 1 .. MaxCursors : slots[j].conn # phone[p].conn
              /\ \A j \in (1 .. MaxCursors) \ {i} : slots'[j] = slots[j]
  <1> DEFINE i == SlotFor(phone[p].conn)
  <1>1. /\ i \in 1 .. MaxCursors
        /\ \/ slots[i].conn = phone[p].conn
           \/ \A j \in 1 .. MaxCursors : slots[j].conn # phone[p].conn
    BY OwnSlot
  <1>2. slots \in [1 .. MaxCursors -> Cells] /\ slots' = [slots EXCEPT ![i] = cell]
    BY DEF OwnedInv, FiledSync, SyncTypeOK
  <1> HIDE DEF i
  <1>3. slots'[i] = cell /\ \A j \in (1 .. MaxCursors) \ {i} : slots'[j] = slots[j]
    BY <1>1, <1>2
  <1>4. QED
    BY <1>1, <1>3

\* A phone that asks is connected, and stays so.
LEMMA OwnedAsk ==
    ASSUME OwnedInv, NEW p \in Phones, ringVars' = ringVars, OthersStand(p),
           phone[p].step # "off", phone'[p].conn = phone[p].conn, phone'[p].step # "off",
           \/ slots' = slots
           \/ \E cell : /\ cell.conn = phone[p].conn
                        /\ slots' = [slots EXCEPT ![SlotFor(phone[p].conn)] = cell]
    PROVE  SlotsAreOwned'
  <1>1. mode' = mode
    BY DEF ringVars
  <1>2. \A q \in Phones : /\ phone'[q].conn = phone[q].conn
                          /\ phone'[q].step = "off" <=> phone[q].step = "off"
    BY DEF OthersStand, Stands
  <1>3. phone[p].conn # NoConn
    BY DEF OwnedInv, SlotsAreOwned
  <1>4. \/ \A j \in 1 .. MaxCursors : slots'[j].conn = slots[j].conn
        \/ \E i \in 1 .. MaxCursors :
              /\ slots'[i].conn = phone[p].conn
              /\ \/ slots[i].conn = phone[p].conn
                 \/ \A j \in 1 .. MaxCursors : slots[j].conn # phone[p].conn
              /\ \A j \in (1 .. MaxCursors) \ {i} : slots'[j].conn = slots[j].conn
    <2>1. CASE slots' = slots
      BY <2>1
    <2>2. ASSUME NEW cell, cell.conn = phone[p].conn,
                 slots' = [slots EXCEPT ![SlotFor(phone[p].conn)] = cell]
          PROVE  \E i \in 1 .. MaxCursors :
                    /\ slots'[i].conn = phone[p].conn
                    /\ \/ slots[i].conn = phone[p].conn
                       \/ \A j \in 1 .. MaxCursors : slots[j].conn # phone[p].conn
                    /\ \A j \in (1 .. MaxCursors) \ {i} : slots'[j].conn = slots[j].conn
      <3>1. PICK i \in 1 .. MaxCursors :
               /\ slots'[i].conn = phone[p].conn /\ slots'[i] = cell
               /\ \/ slots[i].conn = phone[p].conn
                  \/ \A j \in 1 .. MaxCursors : slots[j].conn # phone[p].conn
               /\ \A j \in (1 .. MaxCursors) \ {i} : slots'[j] = slots[j]
        BY <1>3, <2>2, SlotTaken
      <3>2. QED
        BY <3>1
    <2>3. QED
      BY <2>1, <2>2
  <1>5. QED
    BY <1>1, <1>2, <1>4, OwnedMove DEF OwnedInv

\* What each request leaves the asking phone and its slot with
LEMMA AskIs ==
    ASSUME OwnedInv, NEW p \in Phones,
           WriteCursor(p) \/ ShortWrite(p) \/ Read(p) \/ ReadRest(p)
    PROVE  /\ ringVars' = ringVars /\ OthersStand(p) /\ mode # "boot"
           /\ phone[p].step # "off" /\ phone[p].conn # NoConn
           /\ phone'[p].conn = phone[p].conn /\ phone'[p].step # "off"
           /\ \/ slots' = slots
              \/ \E cell : /\ cell.conn = phone[p].conn
                           /\ slots' = [slots EXCEPT ![SlotFor(phone[p].conn)] = cell]
  <1>1. phone[p].step # "off" /\ phone[p].conn # NoConn /\ mode # "boot" /\ ringVars' = ringVars
    BY DEF WriteCursor, ShortWrite, Read, ReadRest, OwnedInv, SlotsAreOwned
  <1>2. /\ Crossed(p) \in [Phones -> Copies] /\ phone \in [Phones -> Copies]
        /\ \A q \in Phones : Stands(phone[q], Crossed(p)[q])
        /\ Crossed(p)[p] \in Copies /\ Crossed(p)[p].conn = phone[p].conn
    BY CrossedIs DEF OwnedInv, FiledSync, SyncTypeOK, Stands
  <1> DEFINE i == SlotFor(phone[p].conn)
             cell == Claimed(i, phone[p].conn)
  <1>3. /\ i \in 1 .. MaxCursors /\ cell.conn = phone[p].conn
    BY <1>1, OwnSlot
  <1>4. cell \in Cells
    BY <1>3, ClaimedIs DEF OwnedInv, FiledSync, SyncTypeOK, Copies
  <1>5. CASE WriteCursor(p)
    <2> DEFINE w  == [Crossed(p)[p] EXCEPT !.step = "written"]
               c2 == [cell EXCEPT !.cursor = phone[p].after]
    <2>1. /\ slots' = [slots EXCEPT ![i] = c2]
          /\ Publish(PublishedPage(phone[p].after), [Crossed(p) EXCEPT ![p] = w])
      BY <1>5 DEF WriteCursor
    <2>2. w.conn = phone[p].conn /\ w.step # "off"
      BY <1>2 DEF Copies
    <2>3. c2.conn = phone[p].conn
      BY <1>3, <1>4 DEF Cells
    <2> HIDE DEF w, c2, i, cell
    <2>4. OthersStand(p) /\ phone'[p] = w
      BY <2>1, PublishCrossed DEF OwnedInv
    <2>5. QED
      BY <1>1, <2>1, <2>2, <2>3, <2>4 DEF i
  <1>6. CASE ShortWrite(p)
    <2>1. Publish(EmptyPage, Crossed(p)) /\ slots' = slots
      BY <1>6 DEF ShortWrite
    <2>2. Crossed(p) = [Crossed(p) EXCEPT ![p] = Crossed(p)[p]]
      BY <1>2
    <2>3. OthersStand(p) /\ phone'[p] = Crossed(p)[p]
      BY <2>1, <2>2, PublishCrossed DEF OwnedInv
    <2>4. QED
      BY <1>1, <1>2, <2>1, <2>3 DEF Stands
  <1>7. CASE Read(p)
    <2> DEFINE page == PublishedPage(cell.cursor)
               u    == IF page.more \/ mode # "ready" \/ ~RingSound THEN 0 ELSE Last
               ph   == [Crossed(p)[p] EXCEPT !.upto = u]
    <2>1. /\ slots' = [slots EXCEPT ![i] = cell]
          /\ \E ph2 : /\ Publish(page, [Crossed(p) EXCEPT ![p] = ph2])
                      /\ \/ ph2 = Accept(ph, page.events, page.more)
                         \/ ph2 = [ph EXCEPT !.step = "tail", !.first = page]
      BY <1>7, ReadIs
    <2>2. u \in Int
      BY DEF OwnedInv, FiledSync, FiledInv, LogStateOK, Last
    <2>3. page \in Pages
      BY <1>4, PublishedIs DEF OwnedInv, FiledSync, Cells
    <2>4. page.events \in Seq(SlotContents) /\ page.more \in BOOLEAN
      BY <2>3 DEF Pages
    <2> HIDE DEF u, page
    <2>5. ph \in Copies
      BY <1>2, <2>2, PhoneWith, Zenon
    <2>6. ph.conn = phone[p].conn
      BY <1>2 DEF Copies
    <2> HIDE DEF ph
    <2>7. PICK ph2 : /\ Publish(page, [Crossed(p) EXCEPT ![p] = ph2])
                     /\ \/ ph2 = Accept(ph, page.events, page.more)
                        \/ ph2 = [ph EXCEPT !.step = "tail", !.first = page]
      BY <2>1
    <2>8. ph2.conn = phone[p].conn /\ ph2.step # "off"
      <3>1. CASE ph2 = Accept(ph, page.events, page.more)
        <4>1. ph2.conn = ph.conn /\ ph2.step = IF page.more THEN "idle" ELSE "current"
          BY <2>4, <2>5, <3>1, AcceptIs, Zenon
        <4>2. QED
          BY <2>6, <4>1
      <3>2. CASE ph2 = [ph EXCEPT !.step = "tail", !.first = page]
        BY <2>5, <2>6, <3>2 DEF Copies
      <3>3. QED
        BY <2>7, <3>1, <3>2
    <2> HIDE DEF cell, i
    <2>9. OthersStand(p) /\ phone'[p] = ph2
      BY <2>7, PublishCrossed DEF OwnedInv
    <2>10. QED
      BY <1>1, <1>3, <2>1, <2>8, <2>9 DEF i
  <1>8. CASE ReadRest(p)
    <2>1. slots' = slots /\ phone[p].first.more \in BOOLEAN
      BY <1>2, <1>8 DEF ReadRest, Copies, Pages
    <2>2. \E rows \in Seq(SlotContents) :
             Publish(value, [phone EXCEPT ![p] = Accept(phone[p], rows, phone[p].first.more)])
      BY <1>8, RestIs DEF OwnedInv
    <2>3. PICK rows \in Seq(SlotContents) :
             Publish(value, [phone EXCEPT ![p] = Accept(phone[p], rows, phone[p].first.more)])
      BY <2>2
    <2> DEFINE ph2 == Accept(phone[p], rows, phone[p].first.more)
    <2>4. ph2.conn = phone[p].conn /\ ph2.step = IF phone[p].first.more THEN "idle" ELSE "current"
      BY <1>2, <2>1, AcceptIs, Zenon
    <2> HIDE DEF ph2
    <2>5. OthersStand(p) /\ phone'[p] = ph2
      BY <2>3, PublishSame DEF OwnedInv, ph2
    <2>6. QED
      BY <1>1, <2>1, <2>4, <2>5
  <1>9. QED
    BY <1>5, <1>6, <1>7, <1>8

LEMMA OwnedInit == SyncInit => OwnedInv
  <1> SUFFICES ASSUME SyncInit PROVE OwnedInv
    OBVIOUS
  <1>1. \A p \in Phones : phone[p].step = "off" /\ phone[p].conn = NoConn
    BY DEF SyncInit, Unlinked
  <1>2. \A i \in 1 .. MaxCursors : slots[i].conn = NoConn
    BY DEF SyncInit, FreeSlot
  <1>3. SlotsAreOwned
    BY <1>1, <1>2 DEF SlotsAreOwned
  <1>4. QED
    BY <1>3, FiledSyncInit DEF OwnedInv

\* The handle that a new connection gets is nobody's, and no slot is kept for it.
LEMMA ConnectIs ==
    ASSUME OwnedInv, NEW p \in Phones, Connect(p)
    PROVE  /\ ringVars' = ringVars /\ slots' = slots /\ value' = value /\ mode # "boot"
           /\ phone[p].step = "off" /\ phone[p].conn = NoConn
           /\ \A q \in Phones \ {p} : phone'[q] = phone[q] /\ phone'[q].conn # phone'[p].conn
           /\ phone'[p].conn # NoConn /\ phone'[p].step = "idle"
           /\ phone'[p].after = phone[p].after /\ phone'[p].have = phone[p].have
           /\ phone'[p].upto = phone[p].upto /\ phone'[p].mixed = phone[p].mixed
           /\ \A i \in 1 .. MaxCursors : slots[i].conn # phone'[p].conn
  <1> DEFINE taken == {phone[q].conn : q \in Phones}
             c     == Min(Handles \ taken)
             s     == "idle"
             ph2   == [phone[p] EXCEPT !.conn = c, !.step = s]
  <1>1. /\ Handles \ taken # {} /\ phone' = [phone EXCEPT ![p] = ph2]
        /\ ringVars' = ringVars /\ slots' = slots /\ value' = value /\ mode # "boot"
        /\ phone[p].conn = NoConn
    BY DEF Connect
  <1>2. c \in Handles \ taken
    <2> DEFINE free == Handles \ taken
    <2>1. free \in SUBSET Nat /\ free # {}
      BY <1>1 DEF Handles
    <2> HIDE DEF free
    <2>2. Min(free) \in free
      BY <2>1, BoundedHasMin
    <2>3. QED
      BY <2>2 DEF free
  <1>3. c # NoConn /\ \A q \in Phones : phone[q].conn # c
    <2> HIDE DEF c
    <2>1. c \in 1 .. MaxConns
      BY <1>2 DEF Handles
    <2>2. c # NoConn
      BY <2>1 DEF NoConn
    <2>3. \A q \in Phones : phone[q].conn # c
      BY <1>2, Zenon
    <2>4. QED
      BY <2>2, <2>3
  <1>4. phone[p] \in Copies /\ phone \in [Phones -> Copies]
    BY DEF OwnedInv, FiledSync, SyncTypeOK
  <1>5. s = "idle"
    OBVIOUS
  <1> HIDE DEF c, s
  <1>6. /\ ph2.conn = c /\ ph2.step = s /\ ph2.after = phone[p].after
        /\ ph2.have = phone[p].have /\ ph2.upto = phone[p].upto /\ ph2.mixed = phone[p].mixed
    BY <1>4 DEF Copies
  <1> HIDE DEF ph2
  <1>7. phone'[p] = ph2 /\ \A q \in Phones \ {p} : phone'[q] = phone[q]
    BY <1>1, <1>4
  <1>8. \A i \in 1 .. MaxCursors : slots[i].conn # c
    BY <1>3 DEF OwnedInv, SlotsAreOwned
  <1>9. phone[p].step = "off"
    BY <1>1 DEF OwnedInv, SlotsAreOwned
  <1>10. QED
    BY <1>1, <1>3, <1>5, <1>6, <1>7, <1>8, <1>9

LEMMA OwnedConnect ==
    ASSUME OwnedInv, NEW p \in Phones, Connect(p)
    PROVE  SlotsAreOwned'
  <1>1. /\ slots' = slots /\ mode' = mode /\ mode # "boot"
        /\ phone[p].step = "off" /\ phone[p].conn = NoConn
        /\ \A q \in Phones \ {p} : phone'[q] = phone[q] /\ phone'[q].conn # phone'[p].conn
        /\ phone'[p].conn # NoConn /\ phone'[p].step = "idle"
        /\ \A i \in 1 .. MaxCursors : slots[i].conn # phone'[p].conn
    BY ConnectIs DEF ringVars
  <1>2. /\ \A q \in Phones : phone'[q].step = "off" <=> phone'[q].conn = NoConn
        /\ mode' # "boot"
    BY <1>1 DEF OwnedInv, SlotsAreOwned
  <1>3. ASSUME NEW q \in Phones, NEW r \in Phones, phone'[q].conn = phone'[r].conn
        PROVE  q = r \/ phone'[q].conn = NoConn
    BY <1>1, <1>3 DEF OwnedInv, SlotsAreOwned
  <1>4. /\ \A i, j \in 1 .. MaxCursors :
              slots'[i].conn = slots'[j].conn => i = j \/ slots'[i].conn = NoConn
        /\ \A i \in 1 .. MaxCursors :
              slots'[i].conn # NoConn => \E q \in Phones : phone'[q].conn = slots'[i].conn
    BY <1>1 DEF OwnedInv, SlotsAreOwned
  <1>5. QED
    BY <1>2, <1>3, <1>4 DEF SlotsAreOwned

\* A phone that leaves takes its slot with it, and no other.
LEMMA DisconnectIs ==
    ASSUME OwnedInv, NEW p \in Phones, Disconnect(p)
    PROVE  /\ ringVars' = ringVars /\ OthersStand(p) /\ phone'[p] = Gone(phone[p])
           /\ phone[p].conn # NoConn
           /\ \A i \in 1 .. MaxCursors :
                 IF slots[i].conn = phone[p].conn THEN slots'[i].conn = NoConn
                                                  ELSE slots'[i] = slots[i]
  <1>1. /\ slots' = Released(phone[p].conn) /\ ringVars' = ringVars /\ phone[p].conn # NoConn
        /\ Publish(value, [phone EXCEPT ![p] = Gone(phone[p])])
    BY DEF Disconnect
  <1>2. OthersStand(p) /\ phone'[p] = Gone(phone[p])
    BY <1>1, PublishSame DEF OwnedInv
  <1>3. \A i \in 1 .. MaxCursors :
           slots'[i] = IF slots[i].conn = phone[p].conn THEN FreeSlot ELSE slots[i]
    BY <1>1 DEF Released, OwnedInv, FiledSync, SyncTypeOK
  <1>4. QED
    BY <1>1, <1>2, <1>3, FreeIsCell

LEMMA OwnedDisconnect ==
    ASSUME OwnedInv, NEW p \in Phones, Disconnect(p)
    PROVE  SlotsAreOwned'
  <1>1. /\ mode' = mode /\ OthersStand(p) /\ phone'[p] = Gone(phone[p])
        /\ phone[p].conn # NoConn
        /\ \A i \in 1 .. MaxCursors :
              IF slots[i].conn = phone[p].conn THEN slots'[i].conn = NoConn
                                               ELSE slots'[i] = slots[i]
    BY DisconnectIs DEF ringVars
  <1>2. phone'[p].conn = NoConn /\ phone'[p].step = "off"
    BY <1>1, GoneIs DEF OwnedInv, FiledSync, SyncTypeOK
  <1>3. \A q \in Phones \ {p} : phone'[q].conn = phone[q].conn /\ phone'[q].step = phone[q].step
    BY <1>1 DEF OthersStand, Stands
  <1>4. /\ \A q \in Phones : phone'[q].step = "off" <=> phone'[q].conn = NoConn
        /\ mode' = "boot" => \A q \in Phones : phone'[q].step = "off"
    BY <1>1, <1>2, <1>3 DEF OwnedInv, SlotsAreOwned
  <1>5. ASSUME NEW q \in Phones, NEW r \in Phones, phone'[q].conn = phone'[r].conn
        PROVE  q = r \/ phone'[q].conn = NoConn
    BY <1>2, <1>3, <1>5 DEF OwnedInv, SlotsAreOwned
  <1>6. ASSUME NEW i \in 1 .. MaxCursors, NEW j \in 1 .. MaxCursors,
               slots'[i].conn = slots'[j].conn
        PROVE  i = j \/ slots'[i].conn = NoConn
    BY <1>1, <1>6 DEF OwnedInv, SlotsAreOwned
  <1>7. ASSUME NEW i \in 1 .. MaxCursors, slots'[i].conn # NoConn
        PROVE  \E q \in Phones : phone'[q].conn = slots'[i].conn
    <2>1. slots'[i] = slots[i] /\ slots[i].conn # phone[p].conn
      BY <1>1, <1>7
    <2>2. PICK q \in Phones : phone[q].conn = slots[i].conn
      BY <1>7, <2>1 DEF OwnedInv, SlotsAreOwned
    <2>3. QED
      BY <1>3, <2>1, <2>2
  <1>8. QED
    BY <1>4, <1>5, <1>6, <1>7 DEF SlotsAreOwned

\* A reset takes every connection and every slot.
LEMMA CutIs ==
    ASSUME OwnedInv, Cut
    PROVE  /\ PowerCut /\ \A q \in Phones : phone'[q] = Gone(phone[q])
           /\ \A q \in Phones : phone'[q].conn = NoConn /\ phone'[q].step = "off"
           /\ \A i \in 1 .. MaxCursors : slots'[i].conn = NoConn
  <1>1. /\ PowerCut /\ slots' = [i \in 1 .. MaxCursors |-> FreeSlot]
        /\ phone' = [p \in Phones |-> Gone(phone[p])]
    BY DEF Cut, Publish
  <1>2. \A q \in Phones : Gone(phone[q]).conn = NoConn /\ Gone(phone[q]).step = "off"
    BY GoneIs DEF OwnedInv, FiledSync, SyncTypeOK
  <1>3. QED
    BY <1>1, <1>2, FreeIsCell

LEMMA OwnedCut == ASSUME OwnedInv, Cut PROVE SlotsAreOwned'
  <1>1. /\ \A q \in Phones : phone'[q].conn = NoConn /\ phone'[q].step = "off"
        /\ \A i \in 1 .. MaxCursors : slots'[i].conn = NoConn
    BY CutIs
  <1>2. QED
    BY <1>1 DEF SlotsAreOwned

LEMMA OwnedRing ==
    ASSUME OwnedInv, Ring \/ UNCHANGED <<ringVars, syncVars>>
    PROVE  SlotsAreOwned'
  <1>1. slots' = slots /\ phone' = phone
    BY DEF Ring, syncVars
  <1>2. mode' = "boot" => mode = "boot"
    BY DEF Ring, Boot, RecordSession, MakeRoom, WriteRow, WriteFails, SaveLastSeq, ringVars
  <1>3. QED
    BY <1>1, <1>2 DEF OwnedInv, SlotsAreOwned

LEMMA OwnedStep ==
    ASSUME OwnedInv, [SyncNext]_<<ringVars, syncVars>>
    PROVE  OwnedInv'
  <1>1. FiledSync'
    BY FiledSyncStep DEF OwnedInv
  <1>2. ASSUME NEW p \in Phones, WriteCursor(p) \/ ShortWrite(p) \/ Read(p) \/ ReadRest(p)
        PROVE  SlotsAreOwned'
    BY <1>2, AskIs, OwnedAsk
  <1>3. SlotsAreOwned'
    BY <1>2, OwnedConnect, OwnedDisconnect, OwnedCut, OwnedRing DEF SyncNext
  <1>4. QED
    BY <1>1, <1>3 DEF OwnedInv

-----------------------------------------------------------------------------
(* The ring goes on under the copies                                       *)

\* What can be read has a number that was given out.
LEMMA InFlashIs ==
    ASSUME RingInv
    PROVE  Newest \in Nat /\ InFlash \in SUBSET (1 .. Newest)
  <1>1. \E low : Holds(low)
    BY RingHolds, ForeignHolds DEF RingInv, RingHasNumbers
  <1>2. PICK low : Holds(low)
    BY <1>1
  <1>3. FloorAtStart \in Nat /\ Len(filed) \in Nat /\ low \in 0 .. Len(filed)
        /\ InFlash = FloorAtStart + low + 1 .. FloorAtStart + Len(filed)
    BY <1>2, FiledRows, EventLogAssumption DEF RingInv, FiledInv, Holds, InFlash
  <1>4. QED
    BY <1>3 DEF Newest

\* What can be read later could be read before, or is newer than all there was.
Grows(left, newest, left2, newest2) ==
    /\ newest \in Nat /\ newest2 \in Nat /\ newest <= newest2
    /\ left \in SUBSET Nat /\ left2 \in SUBSET Nat
    /\ \A n \in left2 : n \in left \/ n > newest

LEMMA RingGrows ==
    ASSUME SoundFlash, RingInv, [Next]_ringVars
    PROVE  Grows(InFlash, Newest, InFlash', Newest')
  <1>1. PICK low, low2 :
            /\ Holds(low) /\ Holds(low2)'
            /\ \/ low2 = low /\ filed' = filed
               \/ filed' = filed /\ low2 = low + SlotsPerSector
               \/ WriteRow /\ low2 = low
    BY RowsStep
  <1>2. /\ InFlash = FloorAtStart + low + 1 .. FloorAtStart + Len(filed)
        /\ InFlash' = FloorAtStart + low2 + 1 .. FloorAtStart + Len(filed')
        /\ Len(filed) \in Nat /\ FloorAtStart \in Nat /\ SlotsPerSector \in Nat
        /\ low \in 0 .. Len(filed)
    BY <1>1, FiledRows, EventLogAssumption DEF Holds, RingInv, FiledInv, InFlash
  <1>3. low2 \in Nat /\ low2 >= low /\ Len(filed') >= Len(filed) /\ Len(filed') \in Nat
    <2>1. CASE filed' = filed
      BY <1>1, <1>2, <2>1 DEF Holds
    <2>2. CASE WriteRow /\ low2 = low
      <3>1. filed' = Append(filed, [seq |-> next, row |-> Head(queue)])
        BY <2>2 DEF WriteRow
      <3>2. Len(filed') = Len(filed) + 1
        BY <3>1
      <3>3. QED
        BY <1>2, <2>2, <3>2
    <2>3. QED
      BY <1>1, <2>1, <2>2
  <1> DEFINE F == FloorAtStart
             a == Len(filed)
             b == Len(filed')
             l == InFlash
             m == InFlash'
  <1>4. Newest = F + a /\ Newest' = F + b
    BY DEF Newest
  <1>5. /\ F \in Nat /\ a \in Nat /\ b \in Nat /\ a <= b /\ low \in Nat /\ low2 \in Nat
        /\ low <= low2 /\ l = F + low + 1 .. F + a /\ m = F + low2 + 1 .. F + b
    BY <1>2, <1>3
  <1> HIDE DEF F, a, b, l, m
  <1>6. Grows(l, F + a, m, F + b)
    BY <1>5 DEF Grows
  <1>7. QED
    BY <1>4, <1>6 DEF l, m

LEMMA TopIsNat ==
    ASSUME NEW after \in Nat, NEW events \in Seq(SlotContents)
    PROVE  Top(after, events) \in Nat
  <1>1. CASE events = <<>>
    BY <1>1 DEF Top
  <1>2. CASE events # <<>>
    <2>1. events[Len(events)] \in SlotContents
      BY <1>2
    <2>2. QED
      BY <1>2, <2>1 DEF Top, SlotContents
  <1>3. QED
    BY <1>1, <1>2

\* A copy stays as good as it was.
LEMMA CopyStays ==
    ASSUME NEW left, NEW newest, NEW left2, NEW newest2, Grows(left, newest, left2, newest2),
           NEW page, NEW ph \in Copies, Copied(left, newest, page, ph)
    PROVE  Copied(left2, newest2, page, ph)
  <1>1. /\ ph.after \in Nat /\ ph.upto \in Int /\ ph.first.events \in Seq(SlotContents)
    BY DEF Copies, Pages
  <1>2. HasAll(left2, newest2, ph)
    BY <1>1 DEF Copied, HasAll, Grows
  <1>3. /\ ph.upto <= newest2
        /\ ph.step = "current" => \A n \in left2 : n <= ph.upto => n <= ph.after
    BY <1>1 DEF Copied, Grows
  <1>4. ASSUME ph.step = "tail"
        PROVE  /\ page = ph.first
               /\ Serves(left2, newest2, ph.after, ph.first.events, ph.upto)
    <2> DEFINE top == Top(ph.after, ph.first.events)
    <2>1. top \in Nat
      BY <1>1, TopIsNat
    <2>2. page = ph.first /\ Serves(left, newest, ph.after, ph.first.events, ph.upto)
      BY <1>4 DEF Copied
    <2>3. ph.upto <= newest
      BY DEF Copied
    <2>4. /\ ph.after <= top /\ top <= newest
          /\ \A i \in 1 .. Len(ph.first.events) : ph.first.events[i].seq <= top
          /\ \A n \in left : n > ph.after /\ n <= top =>
                \E i \in 1 .. Len(ph.first.events) : ph.first.events[i].seq = n
          /\ \A n \in left : n <= ph.upto => n <= top
      BY <2>2 DEF Serves
    <2> HIDE DEF top
    <2>5. top <= newest2
      BY <2>1, <2>4 DEF Grows
    <2>6. ASSUME NEW n \in left2, n <= top \/ n <= ph.upto
          PROVE  n \in left
      BY <1>1, <2>1, <2>3, <2>4, <2>6 DEF Grows
    <2>7. QED
      BY <2>2, <2>4, <2>5, <2>6 DEF Serves, top
  <1>5. QED
    BY <1>2, <1>3, <1>4 DEF Copied

-----------------------------------------------------------------------------
(* A page goes on from the cursor                                          *)

\* What a page that holds anything consists of
LEMMA PageIs ==
    ASSUME RingInv, mode = "ready", NEW low \in 0 .. Len(filed), RingAt(low), NEW after \in Nat,
           ~(count = 0 \/ after >= Last)
    PROVE  \E n \in Nat \ {0} :
              LET from == From(after)
              IN  /\ from \in Nat /\ after < from /\ from + n - 1 <= Last
                  /\ \A k \in FloorAtStart + low + 1 .. Last : k > after => k >= from
                  /\ Len(Page(after).events) = n
                  /\ \A i \in 1 .. n : Page(after).events[i].seq = from + i - 1
                  /\ Page(after).more \/ from + n - 1 = Last
  <1> DEFINE from   == From(after)
             events == Page(after).events
  <1>1. PICK n : n = IF PageMax <= Last - from + 1 THEN PageMax ELSE Last - from + 1
    OBVIOUS
  <1>2. from <= Last /\ from \in Nat /\ Last \in Nat /\ from >= FloorAtStart + low + 1
    BY DueIsWindow
  <1>3. /\ n \in Nat /\ n > 0
        /\ Page(after) = [events |-> [i \in 1 .. n |-> flash[SlotOf(from + i - 1)]],
                          more |-> n > 0 /\ from + n <= Last]
    BY <1>1, PageLength, Zenon
  <1>4. events = [i \in 1 .. n |-> flash[SlotOf(from + i - 1)]]
    BY <1>3
  <1>5. Page(after).more \/ ~(from + n <= Last)
    <2> DEFINE left == n > 0 /\ from + n <= Last
    <2>1. Page(after) = [events |-> [i \in 1 .. n |-> flash[SlotOf(from + i - 1)]],
                         more |-> left]
      BY <1>3, Zenon
    <2>2. Page(after).more = left
      <3> HIDE DEF left, from
      <3>1. QED
        BY <2>1
    <2>3. QED
      BY <1>3, <2>2, Zenon DEF left
  <1>6. Len(events) = n
    BY <1>3, <1>4
  <1>7. \A i \in 1 .. n : events[i].seq = from + i - 1
    <2>1. \A i \in 1 .. n : Readable(from + i - 1) /\ events[i] = flash[SlotOf(from + i - 1)]
      BY <1>6, PageRows DEF RingInv
    <2>2. QED
      BY <2>1 DEF Readable
  <1>8. /\ from = IF after + 1 < oldest THEN oldest ELSE after + 1
        /\ oldest \in Nat /\ FloorAtStart \in Nat /\ Len(filed) \in Nat
        /\ oldest = FloorAtStart + low + 1
    <2>1. count = Len(filed) - low /\ low \in 0 .. Len(filed) /\ Len(filed) \in Nat
          /\ oldest = IF Len(filed) = 0 THEN 0 ELSE FloorAtStart + low + 1
      BY FiledRows DEF RingInv, FiledInv, RingAt, Anchored
    <2>2. Len(filed) # 0 /\ FloorAtStart \in Nat
      BY <2>1, EventLogAssumption
    <2>3. QED
      BY <2>1, <2>2 DEF From
  <1>9. PageMax \in Nat \ {0}
    BY EventLogAssumption
  <1> HIDE DEF from, events
  <1>10. after < from /\ from + n - 1 <= Last
         /\ \A k \in FloorAtStart + low + 1 .. Last : k > after => k >= from
    BY <1>1, <1>2, <1>8, <1>9
  <1>11. ~(from + n <= Last) => from + n - 1 = Last
    BY <1>2, <1>3, <1>10
  <1>12. Page(after).more \/ from + n - 1 = Last
    BY <1>5, <1>11, Zenon
  <1>13. n \in Nat \ {0}
    BY <1>3
  <1>14. QED
    BY <1>2, <1>6, <1>7, <1>10, <1>12, <1>13, Zenon DEF from, events

\* What the board publishes for a cursor goes on from there, and with no "more" it reaches the
\* newest row (eventlog_build_page); the answer while the log is locked promises nothing.
LEMMA ServedPage ==
    ASSUME RingInv, mode # "boot", NEW after \in Nat, after <= Newest,
           NEW page, page = PublishedPage(after),
           NEW u, u = IF page.more \/ mode # "ready" \/ ~RingSound THEN 0 ELSE Last
    PROVE  Serves(InFlash, Newest, after, page.events, u) /\ u <= Newest
  <1>1. Newest \in Nat /\ InFlash \in SUBSET (1 .. Newest)
    BY InFlashIs
  <1>2. u = 0 \/ (u = Last /\ ~page.more /\ mode = "ready")
    OBVIOUS
  <1>3. ASSUME page.events = <<>>, u = 0
        PROVE  Serves(InFlash, Newest, after, page.events, u) /\ u <= Newest
    BY <1>1, <1>3, EmptyIsPage DEF Serves, Top
  <1>4. CASE mode # "ready"
    <2>1. page.events = <<>>
      BY <1>4, EmptyIsPage DEF PublishedPage
    <2>2. QED
      BY <1>2, <1>3, <1>4, <2>1
  <1>5. CASE mode = "ready"
    <2>1. PICK low \in 0 .. Len(filed) : RingAt(low)
      BY DEF RingInv, ForeignRing
    <2>2. Last = Newest
      BY <1>5, <2>1, DueIsWindow DEF Newest
    <2>3. InFlash = FloorAtStart + low + 1 .. Newest
      BY <2>1, RingHolds DEF RingHasNumbers, Holds, InFlash, Newest
    <2>4. page = Page(after)
      BY <1>5 DEF PublishedPage
    <2>5. CASE count = 0 \/ after >= Last
      <3>1. page = [events |-> <<>>, more |-> FALSE]
        BY <2>4, <2>5 DEF Page
      <3>2. page.events = <<>>
        BY <3>1
      <3>3. \A k \in InFlash : k <= after
        <4>1. CASE count = 0
          <5>1. Len(filed) = low /\ low \in Nat /\ FloorAtStart \in Nat
            BY <1>5, <2>1, <4>1, FiledRows, EventLogAssumption
               DEF RingInv, FiledInv, RingAt, Anchored
          <5>2. InFlash = {}
            BY <2>3, <5>1 DEF Newest
          <5>3. QED
            BY <5>2
        <4>2. CASE after >= Last
          BY <1>1, <2>2, <4>2
        <4>3. QED
          BY <2>5, <4>1, <4>2
      <3>4. u <= Newest
        BY <1>1, <1>2, <2>2
      <3>5. QED
        BY <1>1, <3>2, <3>3, <3>4, EmptyIsPage DEF Serves, Top
    <2>6. CASE ~(count = 0 \/ after >= Last)
      <3> DEFINE from == From(after)
                 ev   == page.events
      <3>1. PICK n \in Nat \ {0} :
               /\ from \in Nat /\ after < from /\ from + n - 1 <= Last
               /\ \A k \in FloorAtStart + low + 1 .. Last : k > after => k >= from
               /\ Len(ev) = n
               /\ \A i \in 1 .. n : ev[i].seq = from + i - 1
               /\ page.more \/ from + n - 1 = Last
        BY <1>5, <2>1, <2>4, <2>6, PageIs
      <3> HIDE DEF from
      <3>2. ev # <<>> /\ n \in 1 .. n
        <4>1. Len(ev) # 0
          BY <3>1
        <4>2. QED
          BY <4>1, EmptyIsPage
      <3>3. Top(after, ev) = from + n - 1
        BY <3>1, <3>2 DEF Top
      <3>4. after <= from + n - 1 /\ \A i \in 1 .. n : ev[i].seq <= from + n - 1
        <4> HIDE DEF ev
        <4>1. QED
          BY <3>1
      <3>5. ASSUME NEW k \in InFlash, k > after, k <= from + n - 1
            PROVE  \E i \in 1 .. n : ev[i].seq = k
        <4>1. k \in Nat /\ k \in FloorAtStart + low + 1 .. Last
          BY <1>1, <2>2, <2>3
        <4>2. k >= from
          BY <3>1, <3>5, <4>1
        <4>3. k - from + 1 \in 1 .. n /\ from + (k - from + 1) - 1 = k
          BY <3>1, <3>5, <4>1, <4>2
        <4>4. QED
          BY <3>1, <4>3
      <3>6. ASSUME NEW k \in InFlash, k <= u PROVE k <= from + n - 1
        <4>1. k \in Nat /\ k > 0
          BY <1>1
        <4>2. u = Newest /\ ~page.more
          BY <1>2, <2>2, <3>6, <4>1
        <4>3. QED
          BY <2>2, <3>1, <3>6, <4>2
      <3>7. u <= Newest
        BY <1>1, <1>2, <2>2
      <3>8. QED
        BY <2>2, <3>1, <3>3, <3>4, <3>5, <3>6, <3>7 DEF Serves
    <2>7. QED
      BY <2>5, <2>6
  <1>6. QED
    BY <1>4, <1>5

\* A page that serves the phone's cursor is added to what it has.
LEMMA AcceptKeeps ==
    ASSUME NEW left \in SUBSET Nat, NEW newest, NEW ph \in Copies, NEW page,
           NEW rows \in Seq(SlotContents), NEW more \in BOOLEAN, HasAll(left, newest, ph), ph.upto <= newest,
           Serves(left, newest, ph.after, rows, ph.upto)
    PROVE  Copied(left, newest, page, Accept(ph, rows, more))
  <1> DEFINE ph2 == Accept(ph, rows, more)
             top == Top(ph.after, rows)
  <1>1. /\ ph2.upto = ph.upto /\ ph2.after = top /\ ph2.step \in {"idle", "current"}
        /\ ph2.have = ph.have \cup {rows[i] : i \in 1 .. Len(rows)}
    BY AcceptIs
  <1>2. top \in Nat /\ ph.after \in Nat /\ \A r \in ph.have : r.seq \in Nat
    BY TopIsNat DEF Copies, SlotContents
  <1>3. /\ ph.after <= top /\ top <= newest
        /\ \A i \in 1 .. Len(rows) : rows[i].seq <= top
        /\ \A n \in left : n > ph.after /\ n <= top => \E i \in 1 .. Len(rows) : rows[i].seq = n
        /\ \A n \in left : n <= ph.upto => n <= top
    BY DEF Serves
  <1> HIDE DEF ph2, top
  <1>4. \A r \in ph2.have : r.seq <= top
    <2>1. ASSUME NEW r \in ph.have PROVE r.seq <= top
      BY <1>2, <1>3 DEF HasAll
    <2>2. QED
      BY <1>1, <1>3, <2>1
  <1>5. ASSUME NEW n \in left, n <= top
        PROVE  \E r \in ph2.have : r.seq = n
    <2>1. CASE n <= ph.after
      BY <1>1, <2>1 DEF HasAll
    <2>2. CASE n > ph.after
      BY <1>1, <1>3, <1>5, <2>2
    <2>3. n \in Nat
      OBVIOUS
    <2>4. n <= ph.after \/ n > ph.after
      BY <1>2, <2>3
    <2>5. QED
      BY <2>1, <2>2, <2>4
  <1>6. HasAll(left, newest, ph2)
    BY <1>1, <1>3, <1>4, <1>5 DEF HasAll
  <1>7. QED
    BY <1>1, <1>3, <1>6 DEF Copied, ph2

-----------------------------------------------------------------------------
(* What a step leaves of the copies                                        *)

\* The other connections keep their slots.
SlotsStand(p) ==
    \A q \in Phones \ {p} : \A j \in 1 .. MaxCursors :
        /\ phone[q].conn # NoConn
        /\ slots'[j].conn = phone[q].conn \/ slots[j].conn = phone[q].conn
        => slots'[j] = slots[j]

LEMMA SlotsOfOthers ==
    ASSUME OwnedInv, NEW p \in Phones, phone[p].conn # NoConn, NEW cell,
           cell.conn = phone[p].conn, slots' = [slots EXCEPT ![SlotFor(phone[p].conn)] = cell]
    PROVE  /\ SlotsStand(p)
           /\ slots'[SlotFor(phone[p].conn)] = cell /\ SlotFor(phone[p].conn) \in 1 .. MaxCursors
  <1> DEFINE i == SlotFor(phone[p].conn)
  <1>1. /\ i \in 1 .. MaxCursors
        /\ slots[i].conn = phone[p].conn \/ slots[i].conn = NoConn
    BY OwnSlot
  <1>2. slots \in [1 .. MaxCursors -> Cells] /\ slots' = [slots EXCEPT ![i] = cell]
    BY DEF OwnedInv, FiledSync, SyncTypeOK
  <1> HIDE DEF i
  <1>3. slots'[i] = cell /\ \A j \in (1 .. MaxCursors) \ {i} : slots'[j] = slots[j]
    BY <1>1, <1>2
  <1>4. SlotsStand(p)
    <2> SUFFICES ASSUME NEW q \in Phones \ {p}, NEW j \in 1 .. MaxCursors, phone[q].conn # NoConn,
                        slots'[j].conn = phone[q].conn \/ slots[j].conn = phone[q].conn
                 PROVE  slots'[j] = slots[j]
      BY DEF SlotsStand
    <2>1. phone[q].conn # phone[p].conn
      BY DEF OwnedInv, SlotsAreOwned
    <2>2. j # i
      BY <1>1, <1>3, <2>1
    <2>3. QED
      BY <1>3, <2>2
  <1>5. QED
    BY <1>1, <1>3, <1>4 DEF i

LEMMA AskSlots ==
    ASSUME OwnedInv, NEW p \in Phones,
           WriteCursor(p) \/ ShortWrite(p) \/ Read(p) \/ ReadRest(p)
    PROVE  SlotsStand(p)
  <1>1. /\ phone[p].conn # NoConn
        /\ \/ slots' = slots
           \/ \E cell : /\ cell.conn = phone[p].conn
                        /\ slots' = [slots EXCEPT ![SlotFor(phone[p].conn)] = cell]
    BY AskIs
  <1>2. CASE slots' = slots
    BY <1>2 DEF SlotsStand
  <1>3. CASE \E cell : /\ cell.conn = phone[p].conn
                       /\ slots' = [slots EXCEPT ![SlotFor(phone[p].conn)] = cell]
    BY <1>1, <1>3, SlotsOfOthers
  <1>4. QED
    BY <1>1, <1>2, <1>3

\* A copy, its phone and its slot, as they were or as they are now
CopyOK(cells, left, newest, page, ph) ==
    ~ph.mixed => CursorIsOwn(cells, ph) /\ Copied(left, newest, page, ph)

\* The copies of the phones that did not ask
LEMMA OthersKeep ==
    ASSUME NEW p \in Phones, OthersStand(p), SlotsStand(p), ringVars' = ringVars,
           OwnedInv, CopiesInOrder, NEW q \in Phones \ {p}
    PROVE  CopyOK(slots', InFlash, Newest, value', phone'[q])
  <1> SUFFICES ASSUME ~phone'[q].mixed
               PROVE  /\ CursorIsOwn(slots', phone'[q])
                      /\ Copied(InFlash, Newest, value', phone'[q])
    BY DEF CopyOK
  <1>1. /\ Stands(phone[q], phone'[q]) /\ (phone'[q].step = "tail" => value' = value)
        /\ ~phone[q].mixed
    BY DEF OthersStand, Stands
  <1>2. CursorIsOwn(slots, phone[q]) /\ Copied(InFlash, Newest, value, phone[q])
    BY <1>1 DEF CopiesInOrder
  <1>3. \A j \in 1 .. MaxCursors :
           /\ phone[q].conn # NoConn
           /\ slots'[j].conn = phone[q].conn \/ slots[j].conn = phone[q].conn
           => slots'[j] = slots[j]
    BY DEF SlotsStand
  <1>4. CursorIsOwn(slots', phone'[q])
    <2>1. /\ phone'[q].conn = phone[q].conn /\ phone'[q].step = phone[q].step
          /\ phone'[q].after = phone[q].after
      BY <1>1 DEF Stands
    <2>2. ASSUME NEW i \in 1 .. MaxCursors, slots'[i].conn = phone'[q].conn, phone'[q].conn # NoConn
          PROVE  /\ slots'[i].cursor <= phone'[q].after
                 /\ phone'[q].step = "written" => slots'[i].cursor = phone'[q].after
      BY <1>2, <1>3, <2>1, <2>2 DEF CursorIsOwn
    <2>3. ASSUME phone'[q].step = "written", phone[q].conn # NoConn
          PROVE  \E i \in 1 .. MaxCursors : slots'[i].conn = phone'[q].conn
      BY <1>2, <1>3, <2>1, <2>3 DEF CursorIsOwn
    <2>4. ASSUME phone'[q].step = "written", phone[q].conn = NoConn
          PROVE  FALSE
      BY <2>1, <2>4 DEF OwnedInv, SlotsAreOwned
    <2>5. QED
      BY <2>2, <2>3, <2>4 DEF CursorIsOwn
  <1>5. Copied(InFlash, Newest, value', phone'[q])
    BY <1>1, <1>2 DEF Stands, Copied, HasAll
  <1>6. QED
    BY <1>4, <1>5

\* The phone that has just been given its slot
LEMMA OwnCursor ==
    ASSUME SlotsAreOwned', NEW ph, NEW i \in 1 .. MaxCursors, slots'[i].conn = ph.conn,
           slots'[i].cursor <= ph.after, ph.step = "written" => slots'[i].cursor = ph.after
    PROVE  CursorIsOwn(slots', ph)
  <1>1. ASSUME NEW j \in 1 .. MaxCursors, slots'[j].conn = ph.conn, ph.conn # NoConn
        PROVE  j = i
    BY <1>1 DEF SlotsAreOwned
  <1>2. QED
    BY <1>1 DEF CursorIsOwn

LEMMA WriteCursorKeeps ==
    ASSUME OwnedInv, CopiesInOrder, NEW p \in Phones, WriteCursor(p), OwnedInv'
    PROVE  CopyOK(slots', InFlash, Newest, value', phone'[p])
  <1> DEFINE h  == phone[p].conn
             i  == SlotFor(h)
             c2 == [Claimed(i, h) EXCEPT !.cursor = phone[p].after]
             w  == [Crossed(p)[p] EXCEPT !.step = "written"]
  <1>1. /\ slots' = [slots EXCEPT ![i] = c2]
        /\ Publish(PublishedPage(phone[p].after), [Crossed(p) EXCEPT ![p] = w])
    BY DEF WriteCursor
  <1>2. /\ Crossed(p)[p] \in Copies /\ Stands(phone[p], Crossed(p)[p])
        /\ Crossed(p)[p].mixed = phone[p].mixed
    BY CrossedIs DEF OwnedInv, FiledSync, SyncTypeOK
  <1>3. h # NoConn /\ h \in 0 .. MaxConns /\ phone[p].after \in Nat
    BY AskIs DEF OwnedInv, FiledSync, SyncTypeOK, Copies
  <1>4. i \in 1 .. MaxCursors /\ Claimed(i, h).conn = h /\ Claimed(i, h) \in Cells
    BY <1>3, OwnSlot, ClaimedIs DEF OwnedInv, FiledSync, SyncTypeOK
  <1>5. c2.conn = h /\ c2.cursor = phone[p].after
    BY <1>4 DEF Cells
  <1>6. /\ w.step = "written" /\ w.conn = h /\ w.after = phone[p].after
        /\ w.have = phone[p].have /\ w.upto = phone[p].upto /\ w.mixed = phone[p].mixed
    BY <1>2 DEF Copies, Stands
  <1> HIDE DEF w, c2
  <1>7. phone'[p] = w
    BY <1>1, PublishCrossed DEF OwnedInv
  <1>8. slots'[i] = c2
    BY <1>1, <1>3, <1>5, SlotsOfOthers
  <1>9. CursorIsOwn(slots', w)
    BY <1>3, <1>4, <1>5, <1>6, <1>8, OwnCursor DEF OwnedInv
  <1>10. ASSUME ~w.mixed PROVE Copied(InFlash, Newest, value', w)
    <2>1. HasAll(InFlash, Newest, phone[p]) /\ phone[p].upto <= Newest
      BY <1>6, <1>10 DEF CopiesInOrder, Copied
    <2>2. QED
      BY <1>6, <2>1 DEF Copied, HasAll
  <1>11. QED
    BY <1>7, <1>9, <1>10 DEF CopyOK

LEMMA ShortWriteKeeps ==
    ASSUME OwnedInv, CopiesInOrder, NEW p \in Phones, ShortWrite(p)
    PROVE  CopyOK(slots', InFlash, Newest, value', phone'[p])
  <1>1. Publish(EmptyPage, Crossed(p)) /\ slots' = slots /\ phone[p].step = "idle"
    BY DEF ShortWrite
  <1>2. Stands(phone[p], Crossed(p)[p]) /\ phone'[p] = Crossed(p)[p]
    BY <1>1, CrossedIs DEF OwnedInv, FiledSync, SyncTypeOK, Publish
  <1>3. /\ phone'[p].conn = phone[p].conn /\ phone'[p].step = "idle"
        /\ phone'[p].after = phone[p].after /\ phone'[p].have = phone[p].have
        /\ phone'[p].upto = phone[p].upto
    BY <1>1, <1>2 DEF Stands
  <1>4. ASSUME ~phone'[p].mixed
        PROVE  CursorIsOwn(slots, phone[p]) /\ HasAll(InFlash, Newest, phone[p])
               /\ phone[p].upto <= Newest
    BY <1>2, <1>4 DEF CopiesInOrder, Copied, Stands
  <1>5. ASSUME ~phone'[p].mixed PROVE CursorIsOwn(slots', phone'[p])
    BY <1>1, <1>3, <1>4, <1>5 DEF CursorIsOwn
  <1>6. ASSUME ~phone'[p].mixed PROVE Copied(InFlash, Newest, value', phone'[p])
    BY <1>3, <1>4, <1>6 DEF Copied, HasAll
  <1>7. QED
    BY <1>5, <1>6 DEF CopyOK

\* A first read finds the cursor where the phone wrote it, or at the oldest row, where a
\* phone that has nothing yet begins.
LEMMA ReadAtCursor ==
    ASSUME OwnedInv, NEW p \in Phones, Read(p), CursorIsOwn(slots, phone[p])
    PROVE  LET i == SlotFor(phone[p].conn)
           IN  /\ i \in 1 .. MaxCursors /\ Claimed(i, phone[p].conn).conn = phone[p].conn
               /\ Claimed(i, phone[p].conn).cursor = phone[p].after
  <1> DEFINE i    == SlotFor(phone[p].conn)
             cell == Claimed(i, phone[p].conn)
  <1>1. phone[p].conn # NoConn
    BY AskIs
  <1>2. /\ i \in 1 .. MaxCursors /\ cell.conn = phone[p].conn
        /\ \/ slots[i].conn = phone[p].conn /\ cell = slots[i]
           \/ /\ slots[i].conn = NoConn /\ cell.cursor = 0
              /\ \A j \in 1 .. MaxCursors : slots[j].conn # phone[p].conn
    BY <1>1, OwnSlot
  <1>3. slots[i] \in Cells /\ phone[p].after \in Nat
    BY <1>2 DEF OwnedInv, FiledSync, SyncTypeOK, Copies
  <1>4. phone[p].step = "written" \/ (phone[p].step = "idle" /\ phone[p].after = 0)
    BY ReadIs
  <1> HIDE DEF cell, i
  <1>5. cell.cursor = phone[p].after
    <2>1. CASE phone[p].step = "written"
      BY <1>1, <1>2, <2>1 DEF CursorIsOwn
    <2>2. CASE phone[p].step = "idle" /\ phone[p].after = 0
      <3>1. CASE slots[i].conn = phone[p].conn /\ cell = slots[i]
        <4>1. cell.cursor <= 0 /\ cell.cursor \in Nat
          BY <1>1, <1>2, <1>3, <2>2, <3>1 DEF CursorIsOwn, Cells
        <4>2. QED
          BY <2>2, <4>1
      <3>2. CASE cell.cursor = 0
        BY <2>2, <3>2
      <3>3. QED
        BY <1>2, <3>1, <3>2
    <2>3. QED
      BY <1>4, <2>1, <2>2
  <1>6. QED
    BY <1>2, <1>5 DEF cell, i

LEMMA ReadKeeps ==
    ASSUME OwnedInv, RingInv, CopiesInOrder, NEW p \in Phones, Read(p), OwnedInv'
    PROVE  CopyOK(slots', InFlash, Newest, value', phone'[p])
  <1> DEFINE i    == SlotFor(phone[p].conn)
             cell == Claimed(i, phone[p].conn)
             page == PublishedPage(cell.cursor)
             u    == IF page.more \/ mode # "ready" \/ ~RingSound THEN 0 ELSE Last
             ph   == [Crossed(p)[p] EXCEPT !.upto = u]
  <1>1. /\ slots' = [slots EXCEPT ![i] = cell] /\ mode # "boot"
        /\ \E ph2 : /\ Publish(page, [Crossed(p) EXCEPT ![p] = ph2])
                    /\ \/ ph2 = Accept(ph, page.events, page.more)
                       \/ ph2 = [ph EXCEPT !.step = "tail", !.first = page]
    BY ReadIs
  <1>2. /\ Crossed(p)[p] \in Copies /\ Stands(phone[p], Crossed(p)[p])
        /\ Crossed(p)[p].mixed = phone[p].mixed /\ phone[p].after \in Nat
    BY CrossedIs DEF OwnedInv, FiledSync, SyncTypeOK, Copies
  <1>3. phone[p].conn # NoConn
    BY AskIs
  <1>4. u \in Int
    BY DEF OwnedInv, FiledSync, FiledInv, LogStateOK, Last
  <1>5. cell.cursor \in Nat /\ i \in 1 .. MaxCursors /\ cell.conn = phone[p].conn
    <2>1. i \in 1 .. MaxCursors /\ cell.conn = phone[p].conn
      BY <1>3, OwnSlot
    <2>2. cell \in Cells
      BY <2>1, ClaimedIs DEF OwnedInv, FiledSync, SyncTypeOK, Copies
    <2>3. QED
      BY <2>1, <2>2 DEF Cells
  <1>6. page \in Pages
    BY <1>5, PublishedIs DEF OwnedInv, FiledSync
  <1>7. page.events \in Seq(SlotContents) /\ page.more \in BOOLEAN
    BY <1>6 DEF Pages
  <1>8. slots'[i] = cell
    BY <1>1, <1>3, <1>5, SlotsOfOthers
  <1>9. ASSUME ~phone[p].mixed
        PROVE  /\ cell.cursor = phone[p].after
               /\ Serves(InFlash, Newest, phone[p].after, page.events, u) /\ u <= Newest
               /\ HasAll(InFlash, Newest, phone[p])
    <2>1. CursorIsOwn(slots, phone[p]) /\ HasAll(InFlash, Newest, phone[p])
      BY <1>9 DEF CopiesInOrder, Copied
    <2>2. cell.cursor = phone[p].after
      BY <2>1, ReadAtCursor
    <2>3. phone[p].after <= Newest
      BY <2>1 DEF HasAll
    <2>4. page = PublishedPage(phone[p].after)
      BY <2>2
    <2>5. u = IF page.more \/ mode # "ready" \/ ~RingSound THEN 0 ELSE Last
      OBVIOUS
    <2> HIDE DEF u, page, cell
    <2>6. Serves(InFlash, Newest, phone[p].after, page.events, u) /\ u <= Newest
      BY <1>1, <1>2, <2>3, <2>4, <2>5, ServedPage
    <2>7. QED
      BY <2>1, <2>2, <2>6
  <1> HIDE DEF u, page, cell, i
  <1>10. ph \in Copies
    BY <1>2, <1>4, PhoneWith, Zenon
  <1>11. /\ ph.upto = u /\ ph.conn = phone[p].conn /\ ph.after = phone[p].after
         /\ ph.have = phone[p].have /\ ph.mixed = phone[p].mixed
    BY <1>2 DEF Copies, Stands
  <1> HIDE DEF ph
  <1>12. PICK ph2 : /\ Publish(page, [Crossed(p) EXCEPT ![p] = ph2])
                    /\ \/ ph2 = Accept(ph, page.events, page.more)
                       \/ ph2 = [ph EXCEPT !.step = "tail", !.first = page]
    BY <1>1
  <1>13. phone'[p] = ph2 /\ (ph2.step = "tail" => value' = page)
    BY <1>12, PublishCrossed DEF OwnedInv
  <1>14. ASSUME ~phone[p].mixed
         PROVE  HasAll(InFlash, Newest, ph) /\ ph.upto <= Newest
                /\ Serves(InFlash, Newest, ph.after, page.events, ph.upto)
    BY <1>9, <1>11, <1>14 DEF HasAll
  <1>15. CASE ph2 = Accept(ph, page.events, page.more)
    <2>1. /\ ph2.conn = ph.conn /\ ph2.mixed = ph.mixed
          /\ ph2.after = Top(ph.after, page.events)
          /\ ph2.step = IF page.more THEN "idle" ELSE "current"
      BY <1>7, <1>10, <1>15, AcceptIs, Zenon
    <2>2. ASSUME ~ph2.mixed
          PROVE  CursorIsOwn(slots', ph2) /\ Copied(InFlash, Newest, value', ph2)
      <3>1. ~phone[p].mixed
        BY <1>11, <2>1, <2>2
      <3>2. slots'[i].cursor <= ph2.after
        BY <1>8, <1>9, <1>11, <1>14, <2>1, <3>1 DEF Serves
      <3>3. ph2.step # "written"
        BY <2>1
      <3>4. CursorIsOwn(slots', ph2)
        BY <1>5, <1>8, <1>11, <2>1, <3>2, <3>3, OwnCursor DEF OwnedInv
      <3>5. InFlash \in SUBSET Nat
        BY InFlashIs
      <3>6. Copied(InFlash, Newest, value', ph2)
        BY <1>7, <1>10, <1>14, <1>15, <3>1, <3>5, AcceptKeeps
      <3>7. QED
        BY <3>4, <3>6
    <2>3. QED
      BY <1>13, <2>2 DEF CopyOK
  <1>16. CASE ph2 = [ph EXCEPT !.step = "tail", !.first = page]
    <2>1. /\ ph2.step = "tail" /\ ph2.first = page /\ ph2.conn = ph.conn /\ ph2.mixed = ph.mixed
          /\ ph2.after = ph.after /\ ph2.have = ph.have /\ ph2.upto = ph.upto
      BY <1>10, <1>16 DEF Copies
    <2>2. ASSUME ~ph2.mixed
          PROVE  CursorIsOwn(slots', ph2) /\ Copied(InFlash, Newest, value', ph2)
      <3>1. ~phone[p].mixed
        BY <1>11, <2>1, <2>2
      <3>2. slots'[i].cursor <= ph2.after
        BY <1>2, <1>8, <1>9, <1>11, <2>1, <3>1
      <3>3. CursorIsOwn(slots', ph2)
        BY <1>5, <1>8, <1>11, <2>1, <3>2, OwnCursor DEF OwnedInv
      <3>4. Copied(InFlash, Newest, value', ph2)
        BY <1>13, <1>14, <2>1, <3>1 DEF Copied, HasAll
      <3>5. QED
        BY <3>3, <3>4
    <2>3. QED
      BY <1>13, <2>2 DEF CopyOK
  <1>17. QED
    BY <1>12, <1>15, <1>16

LEMMA ReadRestKeeps ==
    ASSUME OwnedInv, RingInv, CopiesInOrder, NEW p \in Phones, ReadRest(p)
    PROVE  CopyOK(slots', InFlash, Newest, value', phone'[p])
  <1> DEFINE ph   == phone[p]
             more == ph.first.more
  <1>1. ph.step = "tail" /\ slots' = slots
    BY DEF ReadRest
  <1>2. ph \in Copies /\ more \in BOOLEAN /\ ph.after \in Nat
    BY DEF OwnedInv, FiledSync, SyncTypeOK, Copies, Pages
  <1>3. PICK rows \in Seq(SlotContents) :
           /\ Publish(value, [phone EXCEPT ![p] = Accept(ph, rows, more)])
           /\ value = ph.first => rows = ph.first.events
    BY RestIs DEF OwnedInv
  <1> DEFINE ph2 == Accept(ph, rows, more)
  <1>4. phone'[p] = ph2
    BY <1>3, PublishSame DEF OwnedInv
  <1>5. /\ ph2.conn = ph.conn /\ ph2.mixed = ph.mixed /\ ph2.after = Top(ph.after, rows)
        /\ ph2.step = IF more THEN "idle" ELSE "current"
    BY <1>2, AcceptIs, Zenon
  <1> HIDE DEF ph2, more
  <1>6. ASSUME ~ph2.mixed
        PROVE  CursorIsOwn(slots', ph2) /\ Copied(InFlash, Newest, value', ph2)
    <2>1. /\ CursorIsOwn(slots, ph) /\ HasAll(InFlash, Newest, ph) /\ ph.upto <= Newest
          /\ value = ph.first /\ Serves(InFlash, Newest, ph.after, ph.first.events, ph.upto)
      BY <1>1, <1>5, <1>6 DEF CopiesInOrder, Copied
    <2>2. Serves(InFlash, Newest, ph.after, rows, ph.upto)
      BY <1>3, <2>1
    <2>3. InFlash \in SUBSET Nat
      BY InFlashIs
    <2>4. Copied(InFlash, Newest, value', ph2)
      BY <1>2, <2>1, <2>2, <2>3, AcceptKeeps DEF ph2
    <2>5. ph.after <= ph2.after /\ ph2.after \in Nat
      BY <1>2, <1>5, <2>2, TopIsNat DEF Serves
    <2>6. ASSUME NEW j \in 1 .. MaxCursors, slots[j].conn = ph.conn, ph.conn # NoConn
          PROVE  slots[j].cursor <= ph2.after
      <3>1. slots[j].cursor <= ph.after
        BY <2>1, <2>6 DEF CursorIsOwn
      <3>2. slots[j].cursor \in Nat
        BY DEF OwnedInv, FiledSync, SyncTypeOK, Cells
      <3>3. QED
        BY <1>2, <2>5, <3>1, <3>2
    <2>7. ph2.step # "written"
      BY <1>5
    <2>8. CursorIsOwn(slots', ph2)
      BY <1>1, <1>5, <2>6, <2>7 DEF CursorIsOwn
    <2>9. QED
      BY <2>4, <2>8
  <1>7. QED
    BY <1>4, <1>6 DEF CopyOK

\* A request leaves every copy in order.
LEMMA AskKeeps ==
    ASSUME OwnedInv, RingInv, CopiesInOrder, OwnedInv', NEW p \in Phones,
           WriteCursor(p) \/ ShortWrite(p) \/ Read(p) \/ ReadRest(p)
    PROVE  CopiesInOrder'
  <1>1. ringVars' = ringVars /\ OthersStand(p) /\ SlotsStand(p)
    BY AskIs, AskSlots
  <1>2. CopyOK(slots', InFlash, Newest, value', phone'[p])
    BY WriteCursorKeeps, ShortWriteKeeps, ReadKeeps, ReadRestKeeps
  <1>3. \A q \in Phones : CopyOK(slots', InFlash, Newest, value', phone'[q])
    BY <1>1, <1>2, OthersKeep
  <1>4. InFlash' = InFlash /\ Newest' = Newest
    BY <1>1 DEF ringVars, InFlash, Newest, SeqsIn, Valid
  <1>5. QED
    BY <1>3, <1>4 DEF CopiesInOrder, CopyOK

LEMMA ConnectKeeps ==
    ASSUME OwnedInv, CopiesInOrder, NEW p \in Phones, Connect(p)
    PROVE  CopiesInOrder'
  <1>1. /\ ringVars' = ringVars /\ slots' = slots /\ value' = value
        /\ \A q \in Phones \ {p} : phone'[q] = phone[q]
        /\ phone'[p].step = "idle"
        /\ phone'[p].after = phone[p].after /\ phone'[p].have = phone[p].have
        /\ phone'[p].upto = phone[p].upto /\ phone'[p].mixed = phone[p].mixed
        /\ \A i \in 1 .. MaxCursors : slots[i].conn # phone'[p].conn
    BY ConnectIs
  <1>2. InFlash' = InFlash /\ Newest' = Newest
    BY <1>1 DEF ringVars, InFlash, Newest, SeqsIn, Valid
  <1>3. CursorIsOwn(slots', phone'[p])
    BY <1>1 DEF CursorIsOwn
  <1>4. ASSUME ~phone'[p].mixed PROVE Copied(InFlash, Newest, value', phone'[p])
    BY <1>1, <1>4 DEF CopiesInOrder, Copied, HasAll
  <1>5. \A q \in Phones : CopyOK(slots', InFlash, Newest, value', phone'[q])
    BY <1>1, <1>3, <1>4 DEF CopiesInOrder, CopyOK
  <1>6. QED
    BY <1>2, <1>5 DEF CopiesInOrder, CopyOK

\* A phone out of reach keeps what it has.
LEMMA GoneKeeps ==
    ASSUME NEW ph \in Copies, NEW left, NEW newest \in Nat, NEW page, NEW page2,
           Copied(left, newest, page, ph)
    PROVE  Copied(left, newest, page2, Gone(ph))
  <1>1. /\ Gone(ph).upto = 0 /\ Gone(ph).step = "off" /\ Gone(ph).after = ph.after
        /\ Gone(ph).have = ph.have
    BY GoneIs
  <1>2. QED
    BY <1>1 DEF Copied, HasAll

LEMMA DisconnectKeeps ==
    ASSUME OwnedInv, RingInv, CopiesInOrder, NEW p \in Phones, Disconnect(p)
    PROVE  CopiesInOrder'
  <1>1. /\ ringVars' = ringVars /\ OthersStand(p) /\ phone'[p] = Gone(phone[p])
        /\ phone[p].conn # NoConn
        /\ \A i \in 1 .. MaxCursors :
              IF slots[i].conn = phone[p].conn THEN slots'[i].conn = NoConn
                                               ELSE slots'[i] = slots[i]
    BY DisconnectIs
  <1>2. SlotsStand(p)
    <2> SUFFICES ASSUME NEW q \in Phones \ {p}, NEW j \in 1 .. MaxCursors, phone[q].conn # NoConn,
                        slots'[j].conn = phone[q].conn \/ slots[j].conn = phone[q].conn
                 PROVE  slots'[j] = slots[j]
      BY DEF SlotsStand
    <2>1. phone[q].conn # phone[p].conn
      BY DEF OwnedInv, SlotsAreOwned
    <2>2. QED
      BY <1>1, <2>1
  <1>3. phone[p] \in Copies
    BY DEF OwnedInv, FiledSync, SyncTypeOK
  <1>4. Gone(phone[p]).conn = NoConn /\ Gone(phone[p]).step = "off"
        /\ Gone(phone[p]).mixed = phone[p].mixed
    BY <1>3, GoneIs
  <1>5. CursorIsOwn(slots', Gone(phone[p]))
    BY <1>4 DEF CursorIsOwn
  <1>6. Newest \in Nat
    BY InFlashIs
  <1>7. ASSUME ~phone[p].mixed PROVE Copied(InFlash, Newest, value', Gone(phone[p]))
    BY <1>3, <1>6, <1>7, GoneKeeps DEF CopiesInOrder
  <1>8. CopyOK(slots', InFlash, Newest, value', phone'[p])
    BY <1>1, <1>4, <1>5, <1>7 DEF CopyOK
  <1>9. \A q \in Phones : CopyOK(slots', InFlash, Newest, value', phone'[q])
    BY <1>1, <1>2, <1>8, OthersKeep
  <1>10. InFlash' = InFlash /\ Newest' = Newest
    BY <1>1 DEF ringVars, InFlash, Newest, SeqsIn, Valid
  <1>11. QED
    BY <1>9, <1>10 DEF CopiesInOrder, CopyOK

LEMMA CutKeeps ==
    ASSUME SoundFlash, OwnedInv, RingInv, CopiesInOrder, Cut
    PROVE  CopiesInOrder'
  <1>1. /\ PowerCut /\ \A q \in Phones : phone'[q] = Gone(phone[q])
        /\ \A q \in Phones : phone'[q].conn = NoConn /\ phone'[q].step = "off"
    BY CutIs
  <1>2. Grows(InFlash, Newest, InFlash', Newest')
    BY <1>1, RingGrows DEF Next
  <1>3. \A q \in Phones : /\ phone[q] \in Copies /\ phone'[q] \in Copies
                          /\ phone'[q].mixed = phone[q].mixed
    BY <1>1, GoneIs DEF OwnedInv, FiledSync, SyncTypeOK
  <1>4. ASSUME NEW q \in Phones, ~phone'[q].mixed
        PROVE  CursorIsOwn(slots', phone'[q]) /\ Copied(InFlash', Newest', value', phone'[q])
    <2>1. CursorIsOwn(slots', phone'[q])
      BY <1>1 DEF CursorIsOwn
    <2>2. Copied(InFlash, Newest, value, phone[q])
      BY <1>3, <1>4 DEF CopiesInOrder
    <2>3. Newest \in Nat
      BY InFlashIs
    <2>4. Copied(InFlash, Newest, value', phone'[q])
      BY <1>1, <1>3, <2>2, <2>3, GoneKeeps
    <2>5. QED
      BY <1>2, <1>3, <2>1, <2>4, CopyStays
  <1>5. QED
    BY <1>4 DEF CopiesInOrder

LEMMA RingKeeps ==
    ASSUME SoundFlash, OwnedInv, RingInv, CopiesInOrder, [Next]_ringVars, syncVars' = syncVars
    PROVE  CopiesInOrder'
  <1>1. slots' = slots /\ value' = value /\ phone' = phone
    BY DEF syncVars
  <1>2. Grows(InFlash, Newest, InFlash', Newest')
    BY RingGrows
  <1>3. ASSUME NEW q \in Phones, ~phone[q].mixed
        PROVE  CursorIsOwn(slots, phone[q]) /\ Copied(InFlash', Newest', value, phone[q])
    <2>1. /\ CursorIsOwn(slots, phone[q]) /\ Copied(InFlash, Newest, value, phone[q])
          /\ phone[q] \in Copies
      BY <1>3 DEF CopiesInOrder, OwnedInv, FiledSync, SyncTypeOK
    <2>2. QED
      BY <1>2, <2>1, CopyStays
  <1>4. QED
    BY <1>1, <1>3 DEF CopiesInOrder

-----------------------------------------------------------------------------
(* The copies of a sound ring                                              *)

SyncInv == OwnedInv /\ RingInv /\ CopiesInOrder

LEMMA SyncStarts == ASSUME SoundFlash PROVE SyncInit => SyncInv
  <1> SUFFICES ASSUME SyncInit PROVE SyncInv
    OBVIOUS
  <1>1. OwnedInv /\ RingInv
    BY OwnedInit, RingInit DEF SyncInit
  <1>2. \A p \in Phones : /\ phone[p].step = "off" /\ phone[p].conn = NoConn
                          /\ phone[p].after = 0 /\ phone[p].upto = 0 /\ phone[p].have = {}
    BY DEF SyncInit, Unlinked
  <1>3. Newest \in Nat /\ InFlash \in SUBSET (1 .. Newest)
    BY <1>1, InFlashIs
  <1>4. \A p \in Phones : CursorIsOwn(slots, phone[p])
    BY <1>2 DEF CursorIsOwn
  <1>5. ASSUME NEW p \in Phones PROVE Copied(InFlash, Newest, value, phone[p])
    <2>1. \A n \in InFlash : ~(n <= 0)
      BY <1>3
    <2>2. QED
      BY <1>2, <1>3, <2>1 DEF Copied, HasAll
  <1>6. QED
    BY <1>1, <1>4, <1>5 DEF SyncInv, CopiesInOrder

LEMMA SyncStep ==
    ASSUME SoundFlash, SyncInv, [SyncNext]_<<ringVars, syncVars>>
    PROVE  SyncInv'
  <1>1. OwnedInv /\ RingInv /\ CopiesInOrder
    BY DEF SyncInv
  <1>2. OwnedInv'
    BY <1>1, OwnedStep
  <1>3. CASE Ring
    <2>1. [Next]_ringVars /\ syncVars' = syncVars
      BY <1>3, RingIsNext
    <2>2. QED
      BY <1>1, <1>2, <2>1, RingStep, RingKeeps DEF SyncInv
  <1>4. CASE UNCHANGED <<ringVars, syncVars>>
    BY <1>1, <1>2, <1>4, RingStep, RingKeeps DEF SyncInv
  <1>5. CASE Cut
    <2>1. [Next]_ringVars
      BY <1>1, <1>5, CutIs DEF Next
    <2>2. QED
      BY <1>1, <1>2, <1>5, <2>1, RingStep, CutKeeps DEF SyncInv
  <1>6. ASSUME NEW p \in Phones,
               \/ Connect(p) \/ Disconnect(p)
               \/ WriteCursor(p) \/ ShortWrite(p) \/ Read(p) \/ ReadRest(p)
        PROVE  SyncInv'
    <2>1. ringVars' = ringVars
      BY <1>1, <1>6, AskIs, ConnectIs, DisconnectIs
    <2>2. RingInv'
      BY <1>1, <2>1, RingStep
    <2>3. CopiesInOrder'
      BY <1>1, <1>2, <1>6, AskKeeps, ConnectKeeps, DisconnectKeeps
    <2>4. QED
      BY <1>2, <2>2, <2>3 DEF SyncInv
  <1>7. QED
    BY <1>3, <1>4, <1>5, <1>6 DEF SyncNext

\* What the window claims can be read.
LEMMA WindowInFlash ==
    ASSUME RingInv, mode # "boot", NEW k \in 1 .. Len(filed), filed[k].seq >= oldest
    PROVE  filed[k].seq \in InFlash /\ filed[k].seq \in Nat
  <1>1. PICK low \in 0 .. Len(filed) : RingAt(low)
    BY DEF RingInv, ForeignRing
  <1>2. InFlash = FloorAtStart + low + 1 .. FloorAtStart + Len(filed)
    BY <1>1, RingHolds DEF RingHasNumbers, Holds, InFlash
  <1>3. /\ Len(filed) \in Nat /\ FloorAtStart \in Nat /\ filed[k].seq = FloorAtStart + k
        /\ oldest = IF Len(filed) = 0 THEN 0 ELSE FloorAtStart + low + 1
    BY <1>1, FiledRows, EventLogAssumption DEF RingInv, FiledInv, Numbered, RingAt, Anchored
  <1>4. QED
    BY <1>2, <1>3

\* A phone's copy has no row that was never filed and no hole, however its requests and
\* those of the others were interleaved, and whatever connections and resets came between
\* (ble_sessionlog.h: "two phones pulling at once silently corrupt each other's pagination").
THEOREM CopiesAreTrue == ASSUME SoundFlash PROVE SyncSpec => []CopyIsTrue
  <1>1. SyncInv => CopyIsTrue
    <2> SUFFICES ASSUME SyncInv, NEW p \in Phones, ~phone[p].mixed
                 PROVE  LET seqs == {r.seq : r \in phone[p].have}
                        IN  /\ \A r \in phone[p].have :
                                  \E k \in 1..Len(filed) :
                                     filed[k].seq = r.seq /\ filed[k].row = r.row
                            /\ mode = "ready" =>
                                  \A k \in Retained : \A s \in seqs :
                                     filed[k].seq < s => filed[k].seq \in seqs
      BY Zenon DEF CopyIsTrue
    <2> DEFINE seqs == {r.seq : r \in phone[p].have}
    <2>1. OwnedInv /\ RingInv /\ HasAll(InFlash, Newest, phone[p])
      BY DEF SyncInv, CopiesInOrder, Copied
    <2>2. \A r \in phone[p].have :
             \E k \in 1..Len(filed) : filed[k].seq = r.seq /\ filed[k].row = r.row
      BY <2>1 DEF OwnedInv, FiledSync, RowsWereFiled, PhoneFiled, FiledIn
    <2>3. ASSUME mode = "ready", NEW k \in Retained, NEW s \in seqs, filed[k].seq < s
          PROVE  filed[k].seq \in seqs
      <3>1. filed[k].seq \in InFlash /\ filed[k].seq \in Nat
        BY <2>1, <2>3, WindowInFlash DEF Retained
      <3>2. PICK r \in phone[p].have : s = r.seq
        OBVIOUS
      <3>3. s <= phone[p].after /\ s \in Nat /\ phone[p].after \in Nat
        BY <2>1, <3>2 DEF HasAll, OwnedInv, FiledSync, SyncTypeOK, Copies, SlotContents
      <3>4. filed[k].seq <= phone[p].after
        BY <2>3, <3>1, <3>3
      <3>5. \E t \in phone[p].have : t.seq = filed[k].seq
        BY <2>1, <3>1, <3>4 DEF HasAll
      <3>6. QED
        BY <3>5
    <2>4. QED
      BY <2>2, <2>3
  <1>2. SyncInit => SyncInv
    BY SyncStarts
  <1>3. SyncInv /\ [SyncNext]_<<ringVars, syncVars>> => SyncInv'
    BY SyncStep
  <1>4. QED
    BY <1>1, <1>2, <1>3, PTL DEF SyncSpec

\* A phone that was told there is no more has every row that there was then and that the
\* window still claims (eventlog_build_page: "more").
THEOREM CopiesAreComplete == ASSUME SoundFlash PROVE SyncSpec => []CopyIsComplete
  <1>1. SyncInv => CopyIsComplete
    <2> SUFFICES ASSUME SyncInv, NEW p \in Phones, ~phone[p].mixed, phone[p].step = "current",
                        NEW k \in 1 .. Len(filed),
                        filed[k].seq >= oldest, filed[k].seq <= phone[p].upto
                 PROVE  \E r \in phone[p].have : r.seq = filed[k].seq
      BY DEF CopyIsComplete
    <2>1. OwnedInv /\ RingInv /\ Copied(InFlash, Newest, value, phone[p])
      BY DEF SyncInv, CopiesInOrder
    <2>2. mode # "boot"
      BY <2>1 DEF OwnedInv, SlotsAreOwned
    <2>3. filed[k].seq \in InFlash
      BY <2>1, <2>2, WindowInFlash
    <2>4. filed[k].seq <= phone[p].after
      BY <2>1, <2>3 DEF Copied
    <2>5. QED
      BY <2>1, <2>3, <2>4 DEF Copied, HasAll
  <1>2. SyncInit => SyncInv
    BY SyncStarts
  <1>3. SyncInv /\ [SyncNext]_<<ringVars, syncVars>> => SyncInv'
    BY SyncStep
  <1>4. QED
    BY <1>1, <1>2, <1>3, PTL DEF SyncSpec

=============================================================================
