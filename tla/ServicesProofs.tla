--------------------------- MODULE ServicesProofs ---------------------------
(***************************************************************************)
(* What the services beside the vend task keep, one section each: the      *)
(* operator's figures and the money in them (Counters), the clock chip and *)
(* the system clock (RtcChip), the fault mailbox (Faults) and the time a   *)
(* session grants (Countdown).  The four share no state: each section has  *)
(* its inductive invariant, a lemma for every action, and its theorems.    *)
(***************************************************************************)
EXTENDS Counters, RtcChip, Faults, Countdown, TLAPS

-----------------------------------------------------------------------------
(* Counters. *)

\* What the figures are made of
FiguresTypeOK ==
    /\ now \in 0 .. MaxTime
    /\ cnt \in Counts /\ nvs \in Counts
    /\ unsaved \in BOOLEAN /\ disturbed \in BOOLEAN
    /\ takings \in [Days -> Nat]

\* A figure read back after a reset is no larger than what its day took.
StoredNotAhead == nvs.amount <= takings[nvs.day]

\* As long as nothing disturbed the day, the days after it have taken nothing.
FutureIsEmpty ==
    ~disturbed => /\ cnt.day <= Today
                  /\ \A d \in Days : d > cnt.day => takings[d] = 0

\* Both properties, and what they rest on: today's figure is exact because the days to come
\* have taken nothing, and the store's because a stored figure is one the day once had.
CountersInv ==
    FiguresTypeOK /\ TodayExact /\ MoneyIsFlushed /\ StoredNotAhead /\ FutureIsEmpty

-----------------------------------------------------------------------------
(* Days, turns of the day, saves                                           *)

\* Division keeps the order.
LEMMA QuotientMonotone ==
    ASSUME NEW x \in Nat, NEW y \in Nat, x <= y, NEW n \in Nat \ {0}
    PROVE  x \div n \in Nat /\ x \div n <= y \div n
  <1> DEFINE p == x \div n
             q == y \div n
  <1>1. p \in Nat /\ p * n <= x
    OBVIOUS
  <1>2. q \in Nat /\ y < q * n + n
    OBVIOUS
  <1> HIDE DEF p, q
  <1>3. ASSUME p >= q + 1 PROVE FALSE
    <2>1. p * n >= (q + 1) * n
      BY <1>1, <1>2, <1>3
    <2>2. (q + 1) * n = q * n + n
      BY <1>2
    <2>3. p * n \in Int /\ q * n \in Int
      BY <1>1, <1>2
    <2>4. QED
      BY <1>1, <1>2, <2>1, <2>2, <2>3
  <1>4. p \in Nat /\ p <= q
    BY <1>1, <1>2, <1>3
  <1>5. QED
    BY <1>4 DEF p, q

\* Later is never an earlier day, and every day within the bound has its takings.
LEMMA DayMonotone ==
    ASSUME NEW s \in 0 .. MaxTime, NEW t \in 0 .. MaxTime, s <= t
    PROVE  /\ BusinessDay(s) \in Days /\ BusinessDay(t) \in Days
           /\ BusinessDay(s) <= BusinessDay(t)
  <1> DEFINE D(e) == (e + TzOffset) \div UnitsPerDay + 1
  <1>1. \A a, b \in Nat : a <= b => D(a) \in Nat /\ D(a) >= 1 /\ D(a) <= D(b)
    <2> SUFFICES ASSUME NEW a \in Nat, NEW b \in Nat, a <= b
                 PROVE  D(a) \in Nat /\ D(a) >= 1 /\ D(a) <= D(b)
      OBVIOUS
    <2>1. /\ a + TzOffset \in Nat /\ b + TzOffset \in Nat /\ a + TzOffset <= b + TzOffset
          /\ UnitsPerDay \in Nat \ {0}
      BY CountersAssumption
    <2>2. /\ (a + TzOffset) \div UnitsPerDay \in Nat
          /\ (a + TzOffset) \div UnitsPerDay <= (b + TzOffset) \div UnitsPerDay
      BY <2>1, QuotientMonotone
    <2>3. (b + TzOffset) \div UnitsPerDay \in Nat
      BY <2>1, QuotientMonotone
    <2>4. QED
      BY <2>2, <2>3
  <1>2. MaxTime \in Nat
    BY CountersAssumption
  <1>3. /\ D(s) \in Nat /\ D(t) \in Nat /\ D(MaxTime + 1) \in Nat
        /\ D(s) >= 1 /\ D(t) >= 1
        /\ D(s) <= D(t) /\ D(s) <= D(MaxTime + 1) /\ D(t) <= D(MaxTime + 1)
    <2>1. s \in Nat /\ t \in Nat /\ MaxTime + 1 \in Nat /\ s <= MaxTime + 1 /\ t <= MaxTime + 1
      BY <1>2
    <2> HIDE DEF D
    <2>2. QED
      BY <1>1, <2>1
  <1>4. /\ BusinessDay(s) = IF s = 0 THEN 0 ELSE D(s)
        /\ BusinessDay(t) = IF t = 0 THEN 0 ELSE D(t)
        /\ BusinessDay(MaxTime + 1) = D(MaxTime + 1)
    BY <1>2 DEF BusinessDay, DayUnknown
  <1> HIDE DEF D
  <1>5. QED
    BY <1>2, <1>3, <1>4 DEF Days

\* A new day begins with nothing and keeps the totals.
LEMMA NewDayFields ==
    ASSUME NEW c \in Counts, NEW day \in Days
    PROVE  /\ NewDay(c, day) \in Counts
           /\ NewDay(c, day).day = day /\ NewDay(c, day).amount = 0
           /\ NewDay(c, day).lifetime = c.lifetime /\ NewDay(c, day).seq = c.seq
  <1>1. 0 \in 0 .. Ceiling /\ 0 \in 0 .. SessionCeiling
    BY CountersAssumption
  <1>2. QED
    BY <1>1 DEF NewDay, Counts

\* What counters_roll_day_locked leaves: the figures of the day asked for, the totals as
\* they were, and a store that was written with them or not at all.
LEMMA RolledFields ==
    ASSUME NEW c \in Counts, NEW n \in Counts, NEW u \in BOOLEAN, NEW day \in Days,
           NEW r \in Rolled(c, n, u, day)
    PROVE  /\ r.cnt \in Counts /\ r.nvs \in Counts /\ r.unsaved \in BOOLEAN
           /\ r.cnt.day = day
           /\ day = c.day => r.cnt.amount = c.amount
           /\ day # c.day => r.cnt.amount = 0
           /\ r.cnt.lifetime = c.lifetime /\ r.cnt.seq = c.seq
           /\ r.nvs = n \/ r.nvs = r.cnt
           /\ ~r.unsaved => r.nvs = r.cnt \/ (r.nvs = n /\ ~u)
  <1>1. CASE day = c.day
    <2>1. r = [cnt |-> c, nvs |-> n, unsaved |-> u, news |-> FALSE]
      BY <1>1 DEF Rolled
    <2>2. QED
      BY <1>1, <2>1 DEF Counts
  <1>2. CASE day # c.day
    <2>1. PICK s \in Saves(NewDay(c, day), n, u) :
             r = [cnt |-> NewDay(c, day), nvs |-> s.nvs, unsaved |-> s.unsaved, news |-> TRUE]
      BY <1>2 DEF Rolled
    <2>2. \/ s = [nvs |-> NewDay(c, day), unsaved |-> FALSE]
          \/ s = [nvs |-> n, unsaved |-> u]
      BY <2>1 DEF Saves
    <2>3. /\ r.cnt = NewDay(c, day) /\ r.nvs = s.nvs /\ r.unsaved = s.unsaved
      BY <2>1
    <2>4. \/ r.nvs = n /\ r.unsaved = u
          \/ r.nvs = r.cnt /\ r.unsaved = FALSE
      BY <2>2, <2>3
    <2>5. /\ r.cnt \in Counts /\ r.cnt.day = day /\ r.cnt.amount = 0
          /\ r.cnt.lifetime = c.lifetime /\ r.cnt.seq = c.seq
      BY <2>3, NewDayFields
    <2>6. r.nvs \in Counts /\ r.unsaved \in BOOLEAN
      BY <2>4, <2>5
    <2>7. QED
      BY <1>2, <2>4, <2>5, <2>6
  <1>3. QED
    BY <1>1, <1>2

\* A total that sticks at its ceiling
LEMMA PlusSticks ==
    ASSUME NEW total \in 0 .. Ceiling, NEW cents \in CoinCents
    PROVE  /\ cents \in Nat
           /\ Plus(total, cents) \in 0 .. Ceiling
           /\ total <= Plus(total, cents)
           /\ Plus(total, cents) <= total + cents
           /\ \A taken \in Nat :
                 total = (IF taken < Ceiling THEN taken ELSE Ceiling)
                 => Plus(total, cents) = IF taken + cents < Ceiling THEN taken + cents
                                         ELSE Ceiling
BY CountersAssumption DEF Plus

-----------------------------------------------------------------------------
(* The invariant, action by action                                         *)

\* The clock stands in one of the days the takings are counted by.
LEMMA TodayIsDay ==
    ASSUME FiguresTypeOK
    PROVE  Today \in Days
BY DayMonotone DEF FiguresTypeOK, Today

\* The counters start in order ...
LEMMA CountersInvInit == Init => CountersInv
  <1> SUFFICES ASSUME Init PROVE CountersInv
    OBVIOUS
  <1>1. now \in 0 .. MaxTime
    BY CountersAssumption DEF Init
  <1>2. BusinessDay(now) \in Days /\ 0 \in Days
    <2>1. 0 \in 0 .. MaxTime /\ BusinessDay(0) = 0
      BY CountersAssumption DEF BusinessDay, DayUnknown
    <2>2. QED
      BY <1>1, <2>1, DayMonotone
  <1>3. nvs \in Counts /\ nvs.amount = 0 /\ nvs.day = 0 /\ nvs.lifetime = 0 /\ nvs.seq = 0
    BY <1>2, CountersAssumption DEF Init, NoHistory, Counts, DayUnknown
  <1>4. /\ cnt \in Counts /\ cnt.amount = 0 /\ cnt.day = BusinessDay(now)
        /\ cnt.lifetime = 0 /\ cnt.seq = 0
    BY <1>2, CountersAssumption DEF Init, NoHistory, Counts, DayUnknown
  <1>5. /\ takings \in [Days -> Nat] /\ \A d \in Days : takings[d] = 0
        /\ unsaved = FALSE /\ disturbed = FALSE
    BY DEF Init
  <1>6. FiguresTypeOK
    BY <1>1, <1>3, <1>4, <1>5 DEF FiguresTypeOK
  <1>7. BusinessDay(now) \in Int
    BY <1>2 DEF Days
  <1>8. takings[cnt.day] = 0 /\ takings[nvs.day] = 0
    BY <1>2, <1>3, <1>4, <1>5
  <1>9. TodayExact /\ MoneyIsFlushed /\ StoredNotAhead
    BY <1>3, <1>4, <1>5, <1>8, CountersAssumption
       DEF TodayExact, MoneyIsFlushed, StoredNotAhead
  <1>10. FutureIsEmpty
    BY <1>2, <1>4, <1>5, <1>7 DEF FutureIsEmpty, Today
  <1>11. QED
    BY <1>6, <1>9, <1>10 DEF CountersInv

\* What leaves the figures, the clock and the takings alone
LEMMA FiguresUnmoved ==
    ASSUME CountersInv, UNCHANGED <<now, cnt, nvs, unsaved, takings, disturbed>>
    PROVE  CountersInv'
BY DEF CountersInv, FiguresTypeOK, TodayExact, MoneyIsFlushed, StoredNotAhead, FutureIsEmpty,
       Today

\* The clock moves on, or back with the day disturbed.
LEMMA ClockMoves ==
    ASSUME CountersInv, UNCHANGED <<cnt, nvs, unsaved, takings>>,
           now' \in 0 .. MaxTime, disturbed' \in BOOLEAN,
           ~disturbed' => ~disturbed /\ now <= now'
    PROVE  CountersInv'
  <1>1. FiguresTypeOK'
    BY DEF CountersInv, FiguresTypeOK
  <1>2. TodayExact' /\ MoneyIsFlushed' /\ StoredNotAhead'
    BY DEF CountersInv, TodayExact, MoneyIsFlushed, StoredNotAhead
  <1>3. FutureIsEmpty'
    <2>1. ASSUME ~disturbed' PROVE Today <= Today' /\ Today \in Int /\ Today' \in Int
      <3>1. now \in 0 .. MaxTime /\ now <= now'
        BY <2>1 DEF CountersInv, FiguresTypeOK
      <3>2. QED
        BY <3>1, DayMonotone DEF Today, Days
    <2>2. cnt.day \in Int
      BY DEF CountersInv, FiguresTypeOK, Counts, Days
    <2>3. QED
      BY <2>1, <2>2 DEF CountersInv, FutureIsEmpty
  <1>4. QED
    BY <1>1, <1>2, <1>3 DEF CountersInv

\* A turn of the day, if one is due: what it establishes about the figures it leaves.
LEMMA RollKeeps ==
    ASSUME CountersInv, NEW r \in Rolled(cnt, nvs, unsaved, Today)
    PROVE  /\ r.cnt \in Counts /\ r.nvs \in Counts /\ r.unsaved \in BOOLEAN
           /\ r.cnt.day = Today
           /\ r.cnt.amount <= takings[Today]
           /\ ~disturbed => /\ r.cnt.amount = IF takings[Today] < Ceiling
                                              THEN takings[Today] ELSE Ceiling
                            /\ \A d \in Days : d > Today => takings[d] = 0
           /\ r.nvs.amount <= takings[r.nvs.day]
           /\ r.nvs.lifetime <= r.cnt.lifetime /\ r.nvs.seq <= r.cnt.seq
           /\ ~r.unsaved => r.nvs.lifetime = r.cnt.lifetime /\ r.nvs.seq = r.cnt.seq
  <1>1. /\ cnt \in Counts /\ nvs \in Counts /\ unsaved \in BOOLEAN /\ Today \in Days
        /\ takings \in [Days -> Nat] /\ cnt.day \in Days /\ (\A d \in Days : d \in Int)
        /\ Ceiling \in Nat
    BY TodayIsDay, CountersAssumption DEF CountersInv, FiguresTypeOK, Counts, Days
  <1>2. /\ r.cnt \in Counts /\ r.nvs \in Counts /\ r.unsaved \in BOOLEAN
        /\ r.cnt.day = Today
        /\ Today = cnt.day => r.cnt.amount = cnt.amount
        /\ Today # cnt.day => r.cnt.amount = 0
        /\ r.cnt.lifetime = cnt.lifetime /\ r.cnt.seq = cnt.seq
        /\ r.nvs = nvs \/ r.nvs = r.cnt
        /\ ~r.unsaved => r.nvs = r.cnt \/ (r.nvs = nvs /\ ~unsaved)
    BY <1>1, RolledFields
  <1>3. takings[Today] \in Nat /\ r.cnt.amount <= takings[Today]
    BY <1>1, <1>2 DEF CountersInv, TodayExact
  <1>4. ASSUME ~disturbed
        PROVE  /\ r.cnt.amount = IF takings[Today] < Ceiling
                                 THEN takings[Today] ELSE Ceiling
               /\ \A d \in Days : d > Today => takings[d] = 0
    <2>1. cnt.day <= Today /\ \A d \in Days : d > cnt.day => takings[d] = 0
      BY <1>4 DEF CountersInv, FutureIsEmpty
    <2>2. \A d \in Days : d > Today => takings[d] = 0
      <3>1. \A d \in Days : d > Today => d > cnt.day
        BY <1>1, <2>1
      <3>2. QED
        BY <2>1, <3>1
    <2>3. CASE Today = cnt.day
      BY <1>2, <1>4, <2>2, <2>3 DEF CountersInv, TodayExact
    <2>4. CASE Today # cnt.day
      <3>1. takings[Today] = 0
        BY <1>1, <2>1, <2>4
      <3>2. QED
        BY <1>1, <1>2, <2>2, <2>4, <3>1
    <2>5. QED
      BY <2>3, <2>4
  <1>5. r.nvs.amount <= takings[r.nvs.day]
    BY <1>2, <1>3 DEF CountersInv, StoredNotAhead
  <1>6. /\ r.nvs.lifetime <= r.cnt.lifetime /\ r.nvs.seq <= r.cnt.seq
        /\ ~r.unsaved => r.nvs.lifetime = r.cnt.lifetime /\ r.nvs.seq = r.cnt.seq
    <2>1. r.cnt.lifetime \in Int /\ r.cnt.seq \in Int
      BY <1>2 DEF Counts
    <2>2. QED
      BY <1>2, <2>1 DEF CountersInv, MoneyIsFlushed
  <1>7. QED
    BY <1>2, <1>3, <1>4, <1>5, <1>6

\* Centavos added to a day are in its takings and in no other's.
LEMMA TakingsGrow ==
    ASSUME CountersInv, NEW cents \in Nat,
           takings' = [takings EXCEPT ![Today] = @ + cents]
    PROVE  /\ takings' \in [Days -> Nat]
           /\ takings'[Today] = takings[Today] + cents
           /\ \A d \in Days : /\ takings[d] <= takings'[d]
                              /\ d # Today => takings'[d] = takings[d]
  <1>1. takings \in [Days -> Nat] /\ Today \in Days
    BY TodayIsDay DEF CountersInv, FiguresTypeOK
  <1>2. QED
    BY <1>1

\* ... and stay so when a coin is counted,
LEMMA InvRecordCoin == CountersInv /\ RecordCoin => CountersInv'
  <1> SUFFICES ASSUME CountersInv, RecordCoin PROVE CountersInv'
    OBVIOUS
  <1>1. PICK cents, r :
           /\ cents \in CoinCents /\ r \in Rolled(cnt, nvs, unsaved, Today)
           /\ cnt' = [r.cnt EXCEPT !.amount   = Plus(@, cents),
                                   !.lifetime = Plus(@, cents)]
           /\ nvs' = r.nvs
           /\ takings' = [takings EXCEPT ![Today] = @ + cents]
    BY DEF RecordCoin
  <1>2. unsaved' = TRUE /\ now' = now /\ disturbed' = disturbed /\ Today' = Today
    BY DEF RecordCoin, Today
  <1>3. /\ r.cnt \in Counts /\ r.nvs \in Counts
        /\ r.cnt.day = Today
        /\ r.cnt.amount <= takings[Today]
        /\ ~disturbed => /\ r.cnt.amount = IF takings[Today] < Ceiling
                                           THEN takings[Today] ELSE Ceiling
                         /\ \A d \in Days : d > Today => takings[d] = 0
        /\ r.nvs.amount <= takings[r.nvs.day]
        /\ r.nvs.lifetime <= r.cnt.lifetime /\ r.nvs.seq <= r.cnt.seq
    BY <1>1, RollKeeps
  <1>4. /\ r.cnt.amount \in 0 .. Ceiling /\ r.cnt.lifetime \in 0 .. Ceiling
        /\ r.nvs.lifetime \in Int /\ r.nvs.amount \in Int /\ r.nvs.day \in Days
        /\ Today \in Days /\ (\A d \in Days : d \in Int)
        /\ takings \in [Days -> Nat]
    <2>1. /\ r.cnt.amount \in 0 .. Ceiling /\ r.cnt.lifetime \in 0 .. Ceiling
          /\ r.nvs.lifetime \in 0 .. Ceiling /\ r.nvs.amount \in 0 .. Ceiling
          /\ r.nvs.day \in Days
      BY <1>3 DEF Counts
    <2>2. \A d \in Days : d \in Int
      BY DEF Days
    <2>3. Today \in Days /\ takings \in [Days -> Nat]
      BY TodayIsDay DEF CountersInv, FiguresTypeOK
    <2>4. QED
      BY <2>1, <2>2, <2>3
  <1>5. /\ cents \in Nat
        /\ Plus(r.cnt.amount, cents) \in 0 .. Ceiling
        /\ Plus(r.cnt.amount, cents) <= r.cnt.amount + cents
        /\ \A taken \in Nat :
              r.cnt.amount = (IF taken < Ceiling THEN taken ELSE Ceiling)
              => Plus(r.cnt.amount, cents)
                 = IF taken + cents < Ceiling THEN taken + cents ELSE Ceiling
        /\ Plus(r.cnt.lifetime, cents) \in 0 .. Ceiling
        /\ r.cnt.lifetime <= Plus(r.cnt.lifetime, cents)
    BY <1>1, <1>4, PlusSticks
  <1>6. /\ cnt' \in Counts /\ cnt'.day = Today /\ cnt'.seq = r.cnt.seq
        /\ cnt'.amount = Plus(r.cnt.amount, cents)
        /\ cnt'.lifetime = Plus(r.cnt.lifetime, cents)
    BY <1>1, <1>3, <1>5 DEF Counts
  <1>7. /\ takings' \in [Days -> Nat]
        /\ takings'[Today] = takings[Today] + cents
        /\ \A d \in Days : /\ takings[d] <= takings'[d]
                           /\ d # Today => takings'[d] = takings[d]
    BY <1>1, <1>5, TakingsGrow
  <1>8. FiguresTypeOK'
    BY <1>1, <1>2, <1>3, <1>6, <1>7 DEF CountersInv, FiguresTypeOK
  <1>9. TodayExact'
    <2>1. takings[Today] \in Nat
      BY <1>4
    <2>2. cnt'.amount <= takings'[Today]
      BY <1>3, <1>4, <1>5, <1>6, <1>7, <2>1
    <2>3. ~disturbed => cnt'.amount = IF takings'[Today] < Ceiling
                                      THEN takings'[Today] ELSE Ceiling
      BY <1>3, <1>5, <1>6, <1>7, <2>1
    <2>4. QED
      BY <1>2, <1>6, <2>2, <2>3 DEF TodayExact
  <1>10. MoneyIsFlushed'
    BY <1>1, <1>2, <1>3, <1>4, <1>5, <1>6 DEF MoneyIsFlushed
  <1>11. StoredNotAhead'
    <2>1. takings[r.nvs.day] \in Nat /\ takings'[r.nvs.day] \in Nat
          /\ takings[r.nvs.day] <= takings'[r.nvs.day]
      BY <1>4, <1>7
    <2>2. QED
      BY <1>1, <1>3, <1>4, <2>1 DEF StoredNotAhead
  <1>12. FutureIsEmpty'
    <2>1. ASSUME ~disturbed, NEW d \in Days, d > Today PROVE takings'[d] = 0
      <3>1. d # Today /\ takings[d] = 0
        BY <1>3, <1>4, <2>1
      <3>2. QED
        BY <1>7, <3>1
    <2>2. QED
      BY <1>2, <1>4, <1>6, <2>1 DEF FutureIsEmpty
  <1>13. QED
    BY <1>8, <1>9, <1>10, <1>11, <1>12 DEF CountersInv

\* a coin is missed,
LEMMA InvMissCoin == CountersInv /\ MissCoin => CountersInv'
  <1> SUFFICES ASSUME CountersInv, MissCoin PROVE CountersInv'
    OBVIOUS
  <1>1. PICK cents \in CoinCents : takings' = [takings EXCEPT ![Today] = @ + cents]
    BY DEF MissCoin
  <1>2. UNCHANGED <<now, cnt, nvs, unsaved>> /\ disturbed' = TRUE /\ cents \in Nat
    BY <1>1, CountersAssumption DEF MissCoin, countVars
  <1>3. /\ takings' \in [Days -> Nat]
        /\ \A d \in Days : takings[d] <= takings'[d]
    BY <1>1, <1>2, TakingsGrow
  <1>4. FiguresTypeOK'
    BY <1>2, <1>3 DEF CountersInv, FiguresTypeOK
  <1>5. /\ cnt.day \in Days /\ nvs.day \in Days /\ cnt.amount \in Int /\ nvs.amount \in Int
        /\ takings \in [Days -> Nat]
    BY DEF CountersInv, FiguresTypeOK, Counts
  <1>6. TodayExact' /\ StoredNotAhead'
    <2>1. /\ takings[cnt.day] \in Nat /\ takings'[cnt.day] \in Nat
          /\ takings[nvs.day] \in Nat /\ takings'[nvs.day] \in Nat
          /\ takings[cnt.day] <= takings'[cnt.day] /\ takings[nvs.day] <= takings'[nvs.day]
      BY <1>3, <1>5
    <2>2. QED
      BY <1>2, <1>5, <2>1 DEF CountersInv, TodayExact, StoredNotAhead
  <1>7. MoneyIsFlushed' /\ FutureIsEmpty'
    BY <1>2 DEF CountersInv, MoneyIsFlushed, FutureIsEmpty
  <1>8. QED
    BY <1>4, <1>6, <1>7 DEF CountersInv

\* a session is counted,
LEMMA InvRecordSession == CountersInv /\ RecordSession => CountersInv'
  <1> SUFFICES ASSUME CountersInv, RecordSession PROVE CountersInv'
    OBVIOUS
  <1>1. PICK r \in Rolled(cnt, nvs, unsaved, Today) :
           /\ cnt' = [r.cnt EXCEPT !.sessions = IF @ < SessionCeiling THEN @ + 1 ELSE @]
           /\ nvs' = r.nvs
    BY DEF RecordSession
  <1>2. /\ unsaved' = TRUE /\ Today' = Today
        /\ UNCHANGED <<now, takings, disturbed>>
    BY DEF RecordSession, Today, auditVars
  <1>3. /\ r.cnt \in Counts /\ r.nvs \in Counts
        /\ r.cnt.day = Today
        /\ r.cnt.amount <= takings[Today]
        /\ ~disturbed => /\ r.cnt.amount = IF takings[Today] < Ceiling
                                           THEN takings[Today] ELSE Ceiling
                         /\ \A d \in Days : d > Today => takings[d] = 0
        /\ r.nvs.amount <= takings[r.nvs.day]
        /\ r.nvs.lifetime <= r.cnt.lifetime /\ r.nvs.seq <= r.cnt.seq
    BY <1>1, RollKeeps
  <1>4. /\ cnt' \in Counts /\ cnt'.day = Today /\ cnt'.seq = r.cnt.seq
        /\ cnt'.amount = r.cnt.amount /\ cnt'.lifetime = r.cnt.lifetime
    BY <1>1, <1>3, CountersAssumption DEF Counts
  <1>5. Today \in Int
    BY TodayIsDay DEF CountersInv, Days
  <1>6. FiguresTypeOK'
    BY <1>1, <1>2, <1>3, <1>4 DEF CountersInv, FiguresTypeOK
  <1>7. TodayExact' /\ MoneyIsFlushed' /\ StoredNotAhead' /\ FutureIsEmpty'
    BY <1>1, <1>2, <1>3, <1>4, <1>5
       DEF TodayExact, MoneyIsFlushed, StoredNotAhead, FutureIsEmpty
  <1>8. QED
    BY <1>6, <1>7 DEF CountersInv

\* or a record number is remembered;
LEMMA InvSetLastSeq == CountersInv /\ SetLastSeq => CountersInv'
  <1> SUFFICES ASSUME CountersInv, SetLastSeq PROVE CountersInv'
    OBVIOUS
  <1>1. /\ cnt' = [cnt EXCEPT !.seq = @ + 1] /\ unsaved' = TRUE
        /\ UNCHANGED <<now, nvs, takings, disturbed>>
    BY DEF SetLastSeq, auditVars
  <1>2. cnt \in Counts /\ nvs \in Counts
    BY DEF CountersInv, FiguresTypeOK
  <1>3. /\ cnt' \in Counts /\ cnt'.day = cnt.day /\ cnt'.amount = cnt.amount
        /\ cnt'.lifetime = cnt.lifetime /\ cnt'.seq = cnt.seq + 1
        /\ cnt.seq \in Nat /\ nvs.seq \in Nat
    BY <1>1, <1>2 DEF Counts
  <1>4. FiguresTypeOK'
    BY <1>1, <1>3 DEF CountersInv, FiguresTypeOK
  <1>5. TodayExact' /\ MoneyIsFlushed' /\ StoredNotAhead' /\ FutureIsEmpty'
    BY <1>1, <1>3
       DEF CountersInv, TodayExact, MoneyIsFlushed, StoredNotAhead, FutureIsEmpty, Today
  <1>6. QED
    BY <1>4, <1>5 DEF CountersInv

\* counters_service: the turn of the day, and then the flush or not.
LEMMA InvService == CountersInv /\ Service => CountersInv'
  <1> SUFFICES ASSUME CountersInv, Service PROVE CountersInv'
    OBVIOUS
  <1>1. PICK r \in Rolled(cnt, nvs, unsaved, Today) :
           /\ cnt' = r.cnt
           /\ \/ nvs' = r.nvs /\ unsaved' = r.unsaved
              \/ /\ r.unsaved
                 /\ \E s \in Saves(r.cnt, r.nvs, r.unsaved) :
                       nvs' = s.nvs /\ unsaved' = s.unsaved
    BY DEF Service
  <1>2. UNCHANGED <<now, takings, disturbed>> /\ Today' = Today
    BY DEF Service, Today, auditVars
  <1>3. \/ nvs' = r.nvs /\ unsaved' = r.unsaved
        \/ nvs' = r.cnt /\ unsaved' = FALSE
    BY <1>1 DEF Saves
  <1>4. /\ r.cnt \in Counts /\ r.nvs \in Counts /\ r.unsaved \in BOOLEAN
        /\ r.cnt.day = Today
        /\ r.cnt.amount <= takings[Today]
        /\ ~disturbed => /\ r.cnt.amount = IF takings[Today] < Ceiling
                                           THEN takings[Today] ELSE Ceiling
                         /\ \A d \in Days : d > Today => takings[d] = 0
        /\ r.nvs.amount <= takings[r.nvs.day]
        /\ r.nvs.lifetime <= r.cnt.lifetime /\ r.nvs.seq <= r.cnt.seq
        /\ ~r.unsaved => r.nvs.lifetime = r.cnt.lifetime /\ r.nvs.seq = r.cnt.seq
    BY RollKeeps
  <1>5. Today \in Int /\ r.cnt.lifetime \in Int /\ r.cnt.seq \in Int
    BY <1>4, TodayIsDay DEF CountersInv, Days, Counts
  <1>6. FiguresTypeOK'
    BY <1>1, <1>2, <1>3, <1>4 DEF CountersInv, FiguresTypeOK
  <1>7. TodayExact' /\ FutureIsEmpty'
    BY <1>1, <1>2, <1>4, <1>5 DEF TodayExact, FutureIsEmpty
  <1>8. MoneyIsFlushed' /\ StoredNotAhead'
    BY <1>1, <1>2, <1>3, <1>4, <1>5 DEF MoneyIsFlushed, StoredNotAhead
  <1>9. QED
    BY <1>6, <1>7, <1>8 DEF CountersInv

\* counters_init reads back figures that are not ahead of their day.
LEMMA InvReset == CountersInv /\ Reset => CountersInv'
  <1> SUFFICES ASSUME CountersInv, Reset PROVE CountersInv'
    OBVIOUS
  <1>1. PICK u, r :
           /\ u \in BOOLEAN /\ r \in Rolled(nvs, nvs, u, BusinessDay(now'))
           /\ cnt' = r.cnt /\ nvs' = r.nvs /\ unsaved' = r.unsaved
    BY Zenon DEF Reset
  <1>2. disturbed' = TRUE /\ takings' = takings /\ now' \in 0 .. MaxTime
    BY CountersAssumption DEF Reset
  <1>3. BusinessDay(now') \in Days /\ nvs \in Counts /\ takings \in [Days -> Nat]
    BY <1>2, DayMonotone DEF CountersInv, FiguresTypeOK
  <1>4. /\ r.cnt \in Counts /\ r.nvs \in Counts /\ r.unsaved \in BOOLEAN
        /\ r.cnt.day = BusinessDay(now')
        /\ BusinessDay(now') = nvs.day => r.cnt.amount = nvs.amount
        /\ BusinessDay(now') # nvs.day => r.cnt.amount = 0
        /\ r.cnt.lifetime = nvs.lifetime /\ r.cnt.seq = nvs.seq
        /\ r.nvs = nvs \/ r.nvs = r.cnt
    BY <1>1, <1>3, RolledFields
  <1>5. r.cnt.amount <= takings[r.cnt.day]
    BY <1>3, <1>4 DEF CountersInv, StoredNotAhead
  <1>6. FiguresTypeOK'
    BY <1>1, <1>2, <1>4 DEF CountersInv, FiguresTypeOK
  <1>7. TodayExact' /\ FutureIsEmpty' /\ StoredNotAhead'
    BY <1>1, <1>2, <1>4, <1>5 DEF CountersInv, TodayExact, FutureIsEmpty, StoredNotAhead
  <1>8. MoneyIsFlushed'
    <2>1. r.cnt.lifetime \in Int /\ r.cnt.seq \in Int
      BY <1>4 DEF Counts
    <2>2. QED
      BY <1>1, <1>4, <2>1 DEF MoneyIsFlushed
  <1>9. QED
    BY <1>6, <1>7, <1>8 DEF CountersInv

\* no step breaks the invariant.
LEMMA CountersInvStep == CountersInv /\ [Next]_vars => CountersInv'
  <1> SUFFICES ASSUME CountersInv, [Next]_vars PROVE CountersInv'
    OBVIOUS
  <1>1. CASE Tick
    <2>1. UNCHANGED <<cnt, nvs, unsaved, takings, disturbed>> /\ now' = now + 1
      BY <1>1 DEF Tick, countVars, auditVars
    <2>2. now' \in 0 .. MaxTime /\ now <= now'
      BY <1>1, CountersAssumption DEF Tick, CountersInv, FiguresTypeOK
    <2>3. QED
      BY <2>1, <2>2, ClockMoves DEF CountersInv, FiguresTypeOK
  <1>2. CASE TimeSync
    <2>1. PICK epoch \in Syncs : /\ epoch < EpochMax
                                 /\ now' = epoch
                                 /\ disturbed' = (disturbed \/ epoch < now)
      BY <1>2 DEF TimeSync
    <2>2. UNCHANGED <<cnt, nvs, unsaved, takings>>
      BY <1>2 DEF TimeSync, countVars
    <2>3. now' \in 0 .. MaxTime /\ now \in Int /\ epoch \in Int
      BY <2>1, CountersAssumption DEF CountersInv, FiguresTypeOK
    <2>4. ~disturbed' => ~disturbed /\ ~(epoch < now)
      BY <2>1
    <2>5. disturbed' \in BOOLEAN
      BY <2>1
    <2>6. ~disturbed' => ~disturbed /\ now <= now'
      BY <2>1, <2>3, <2>4
    <2>7. QED
      BY <2>2, <2>3, <2>5, <2>6, ClockMoves
  <1>3. CASE RecordTestCoin \/ ResetTestAmount \/ TakeDirty
    BY <1>3, FiguresUnmoved DEF RecordTestCoin, ResetTestAmount, TakeDirty, auditVars
  <1>4. CASE Build \/ SetValue \/ Notify \/ ReadBuild \/ ReadSetValue \/ ReadAnswer
    BY <1>4, FiguresUnmoved
       DEF Build, SetValue, Notify, ReadBuild, ReadSetValue, ReadAnswer, auditVars, countVars
  <1>5. CASE UNCHANGED vars
    BY <1>5, FiguresUnmoved DEF vars, auditVars, countVars
  <1>6. QED
    BY <1>1, <1>2, <1>3, <1>4, <1>5, InvRecordCoin, InvMissCoin, InvRecordSession,
       InvSetLastSeq, InvService, InvReset DEF Next

\* The amount held is no more than its business day took, and all of it (as far as UINT32_MAX)
\* unless the day was disturbed: whatever the order of coins, sessions, flushes, settings of
\* the clock and resets (counters.cpp, counters_roll_day_locked and counters_record_coin).
THEOREM TodayIsExact == Spec => []TodayExact
  <1>1. CountersInv => TodayExact
    BY DEF CountersInv
  <1>2. QED
    BY <1>1, CountersInvInit, CountersInvStep, PTL DEF Spec

\* The figures in NVS lag behind those in memory only while a flush is still to come
\* (s_unsaved), and the lifetime total and the sequence number never run ahead of them:
\* also after a write that failed and a reset in between (counters_service, save_locked).
THEOREM MoneyFlushed == Spec => []MoneyIsFlushed
  <1>1. CountersInv => MoneyIsFlushed
    BY DEF CountersInv
  <1>2. QED
    BY <1>1, CountersInvInit, CountersInvStep, PTL DEF Spec

-----------------------------------------------------------------------------
(* RtcChip. *)

\* What the registers hold, and the times they can show
Digit == 0 .. Base - 1
\* What the three time registers can hold, and the seconds they stand for
Registers == [sec : Digit, mid : Digit, top : Digit]
Century == 0 .. Base * Base * Base - 1

\* What a task may be in: an operation, the register it is at, the time it writes, the
\* attempts of a read, and what that read has got
Jobs == [op : {"none", "set", "service", "read", "valid", "seed"}, at : 0 .. 5, t : Int,
         try : Nat, turned : BOOLEAN, got : Registers]

\* A job that writes the chip, and one that reads it
Writes(j) == j.op \in {"set", "service"}
Reads(j)  == j.op \in {"read", "valid", "seed"}

\* The errors at which a clock comes to the end of a behaviour before it comes to the end
\* of its digits
Reach == {e \in Int : LastSecond + e < Base * Base * Base}

\* What the clocks and the tasks are made of
ChipTypeOK ==
    /\ chip \in [regs : Registers, ch : BOOLEAN]
    /\ sys \in [set : BOOLEAN, t : Int]
    /\ job \in [ClockTasks -> Jobs]
    /\ true \in Int /\ true >= RtcMin
    /\ told \subseteq Reach /\ left \subseteq Reach /\ believed \subseteq left
    /\ stale \in BOOLEAN

\* Whoever is at the chip holds the lock; a boot is at it from the start.
LockHeld ==
    \A p \in ClockTasks : /\ job[p].at >= 1 => lock = p
                          /\ job[p].op \in {"valid", "seed"} => p = "boot" /\ job[p].at >= 1
                          /\ job[p].op = "service" => p = "loop"

\* The clock is halted from the first register of a write to the last, and what has been
\* written is written.
WriterOK(j) ==
    Writes(j) =>
        /\ j.t \in Window
        /\ j.op = "set" => j.t - true \in Errors
        /\ j.op = "service" \/ j.at = 5 => j.t - true \in told \cup believed
        /\ j.at \in 2 .. 4 => chip.ch
        /\ j.at >= 3 => chip.regs.mid = Digits(j.t).mid
        /\ j.at >= 4 => chip.regs.top = Digits(j.t).top
        /\ j.at = 5 => ~chip.ch /\ chip.regs = Digits(j.t)

\* What a read has got is in the registers if the seconds have not turned; and they have,
\* if a second passed.
ReaderOK(j) ==
    Reads(j) =>
        /\ j.at <= 4
        /\ j.at >= 2 /\ ~j.turned => j.got.sec = chip.regs.sec
        /\ j.at >= 2 /\ j.got.sec = chip.regs.sec =>
              /\ j.at >= 3 => j.got.mid = chip.regs.mid
              /\ j.at >= 4 => j.got.top = chip.regs.top

\* A running chip shows a time somebody set, or what a flat cell left in it.
RunningChipTrue == ~chip.ch => Epoch(chip.regs) - true \in told \cup left

\* Task p has begun to write the registers.
AtWork(p) == Writing(p) /\ job[p].at >= 2

\* ClocksAgree, for every state in which no register is being written
Agreed ==
    sys.set /\ ~stale /\ (\A p \in ClockTasks : ~AtWork(p))
    => ~chip.ch /\ Epoch(chip.regs) = sys.t

\* A writeback has the time of the system clock, unless a set came between.
WritebackCurrent ==
    job["loop"].op = "service" /\ ~stale => sys.set /\ job["loop"].t = sys.t

\* No writeback begins before the boot is over.
BootAlone == job["boot"].op \in {"valid", "seed"} => job["loop"].op # "service"

\* A boot reads a chip again whose time it has believed.
SeedBelieved ==
    job["boot"].op = "seed" => ~chip.ch /\ Epoch(chip.regs) - true \in told \cup believed

\* Both properties rest on the registers: a clock that runs shows a time somebody set or the
\* garbage of a flat cell, which takes that a writer halts it first; and a boot believes it
\* only within the window, which takes that a read is retried when the seconds turned.
ChipInv ==
    /\ ChipTypeOK /\ LockHeld /\ BootAlone /\ SeedBelieved
    /\ \A p \in ClockTasks : WriterOK(job[p]) /\ ReaderOK(job[p])
    /\ RunningChipTrue /\ NoTimeThatNeverWas
    /\ Agreed /\ WritebackCurrent

-----------------------------------------------------------------------------
(* Digits *)

\* A product keeps the order.
LEMMA Product ==
    ASSUME NEW b \in Nat, NEW x \in Int, NEW y \in Int, x <= y
    PROVE  b * x \in Int /\ b * y \in Int /\ b * x <= b * y
OBVIOUS

\* Quotient and remainder are the only numbers that make the sum,
LEMMA Quotient ==
    ASSUME NEW b \in Nat \ {0}, NEW q \in Nat, NEW r \in Nat, NEW n, n = b * q + r, r < b
    PROVE  n \div b = q /\ n % b = r
OBVIOUS

\* and they make it.
LEMMA Division ==
    ASSUME NEW n \in Nat, NEW b \in Nat \ {0}
    PROVE  /\ n \div b \in Nat /\ n % b \in 0 .. b - 1
           /\ n = b * (n \div b) + (n % b)
OBVIOUS

\* The digits of a time of the century are digits, and are the time.
LEMMA DigitsOfTime ==
    ASSUME NEW t \in Century
    PROVE  Digits(t) \in Registers /\ Epoch(Digits(t)) = t
  <1> DEFINE u   == t \div Base
             sec == t % Base
             top == u \div Base
             mid == u % Base
             B2  == Base * Base
  <1>1. Base \in Nat \ {0} /\ Base >= 2 /\ B2 \in Nat \ {0} /\ t \in Nat /\ t < Base * Base * Base
    BY RtcAssumption DEF Century
  <1>2. u \in Nat /\ sec \in Digit /\ t = Base * u + sec
    BY <1>1, Division, Zenon DEF Digit
  <1>3. top \in Nat /\ mid \in Digit /\ u = Base * top + mid
    <2> HIDE DEF u
    <2>1. QED
      BY <1>1, <1>2, Division, Zenon DEF Digit
  <1> HIDE DEF u, sec, top, mid
  <1>4. t = B2 * top + (Base * mid + sec) /\ B2 * top \in Nat
    <2>1. Base * u = Base * (Base * top) + Base * mid
      BY <1>1, <1>2, <1>3 DEF Digit
    <2>2. Base * (Base * top) = B2 * top /\ B2 * top \in Nat
      BY <1>1, <1>3
    <2>3. Base * mid \in Int
      BY <1>1, <1>3 DEF Digit
    <2> HIDE DEF B2
    <2>4. QED
      BY <1>1, <1>2, <1>3, <2>1, <2>2, <2>3 DEF Digit
  <1>5. Base * mid + sec \in Nat /\ Base * mid + sec < B2
    <2>1. mid \in Int /\ 0 <= mid /\ mid <= Base - 1 /\ sec \in Int /\ 0 <= sec /\ sec <= Base - 1
      BY <1>1, <1>2, <1>3 DEF Digit
    <2>2. Base * mid <= Base * (Base - 1) /\ Base * mid \in Int /\ Base * 0 <= Base * mid
      BY <1>1, <2>1, Product
    <2>3. Base * (Base - 1) = B2 - Base /\ Base * 0 = 0
      BY <1>1
    <2> HIDE DEF B2
    <2>4. QED
      BY <1>1, <2>1, <2>2, <2>3
  <1>6. t \div B2 = top
    <2> HIDE DEF B2
    <2> DEFINE r == Base * mid + sec
    <2>1. t = B2 * top + r /\ r \in Nat /\ r < B2
      BY <1>4, <1>5
    <2> HIDE DEF r
    <2>2. QED
      BY <1>1, <1>3, <2>1, Quotient
  <1>7. top \in Digit
    <2>1. ASSUME top >= Base PROVE FALSE
      <3>1. B2 * Base <= B2 * top
        BY <1>1, <1>3, <2>1, Product
      <3>2. B2 * Base = Base * Base * Base
        BY <1>1
      <3> HIDE DEF B2
      <3>3. Base * Base * Base \in Int
        BY <1>1
      <3>4. QED
        BY <1>1, <1>4, <1>5, <3>1, <3>2, <3>3
    <2>2. QED
      BY <1>1, <1>3, <2>1 DEF Digit
  <1>8. Digits(t) = [sec |-> sec, mid |-> mid, top |-> top]
    BY <1>6 DEF Digits, sec, mid, u
  <1>9. Digits(t) \in Registers
    BY <1>2, <1>3, <1>7, <1>8 DEF Registers
  <1>10. Epoch(Digits(t)) = sec + Base * mid + B2 * top
    BY <1>8 DEF Epoch
  <1>11. Base * mid \in Int /\ sec \in Int
    BY <1>1, <1>2, <1>3 DEF Digit
  <1>12. QED
    <2> HIDE DEF B2
    <2>1. QED
      BY <1>4, <1>9, <1>10, <1>11

\* Registers are a time of the century; a second later its seconds have turned.
LEMMA TimeOfDigits ==
    ASSUME NEW d \in Registers
    PROVE  /\ Epoch(d) \in Century
           /\ Digits(Epoch(d)) = d
           /\ Epoch(d) + 1 \in Century => Digits(Epoch(d) + 1).sec # d.sec
  <1> DEFINE B2 == Base * Base
             u  == Base * d.top + d.mid
  <1>1. /\ Base \in Nat \ {0} /\ Base \in Nat /\ Base >= 2 /\ B2 \in Nat
        /\ d.sec \in 0 .. Base - 1 /\ d.mid \in 0 .. Base - 1 /\ d.top \in 0 .. Base - 1
    BY RtcAssumption DEF Registers, Digit
  <1>2. /\ u \in Nat /\ Base * u \in Nat
        /\ Base * d.top \in Nat /\ Base * d.mid \in Nat /\ B2 * d.top \in Nat
    BY <1>1
  <1>3. Epoch(d) = Base * u + d.sec
    <2>1. Base * u = Base * (Base * d.top) + Base * d.mid
      BY <1>1, <1>2
    <2>2. Base * (Base * d.top) = B2 * d.top
      BY <1>1
    <2>3. Epoch(d) = d.sec + Base * d.mid + B2 * d.top
      BY DEF Epoch
    <2> HIDE DEF B2, u
    <2>4. QED
      BY <1>1, <1>2, <2>1, <2>2, <2>3
  <1>0. Base * B2 \in Int
    BY <1>1
  <1>4. u < B2 /\ Base * u + Base <= Base * B2 /\ Base * B2 = Base * Base * Base
    <2>1. Base * d.top <= Base * (Base - 1)
      BY <1>1, Product
    <2>2. Base * (Base - 1) = B2 - Base
      BY <1>1
    <2>3. u < B2
      BY <1>1, <1>2, <2>1, <2>2
    <2>4. Base * (u + 1) <= Base * B2
      BY <1>1, <1>2, <2>3, Product
    <2>5. Base * (u + 1) = Base * u + Base
      BY <1>1, <1>2
    <2>6. QED
      BY <1>1, <2>3, <2>4, <2>5
  <1>5. Epoch(d) \in Century
    <2> HIDE DEF u
    <2>1. Base * Base * Base \in Int /\ Base * B2 \in Int
      BY <1>1
    <2> HIDE DEF B2
    <2>2. QED
      BY <1>1, <1>2, <1>3, <1>4, <2>1 DEF Century
  <1>6. Epoch(d) % Base = d.sec /\ Epoch(d) \div Base = u
    <2>1. d.sec \in Nat /\ d.sec < Base
      BY <1>1
    <2> HIDE DEF u
    <2>2. QED
      BY <1>1, <1>2, <1>3, <2>1, Quotient, Zenon
  <1>7. u \div Base = d.top /\ u % Base = d.mid
    <2>1. u = Base * d.top + d.mid
      OBVIOUS
    <2>2. d.mid \in Nat /\ d.mid < Base /\ d.top \in Nat
      BY <1>1
    <2> HIDE DEF u
    <2>3. QED
      BY <1>1, <2>1, <2>2, Quotient, Zenon
  <1>8. Epoch(d) \div B2 = d.top
    <2> DEFINE r == Base * d.mid + d.sec
    <2>1. Epoch(d) = B2 * d.top + r
      <3>1. Epoch(d) = d.sec + Base * d.mid + B2 * d.top
        BY DEF Epoch
      <3>2. QED
        BY <1>1, <1>2, <3>1
    <2>2. r \in Nat /\ r < B2
      <3>1. Base * d.mid <= Base * (Base - 1)
        BY <1>1, Product
      <3>2. Base * (Base - 1) = B2 - Base
        BY <1>1
      <3>3. QED
        BY <1>1, <1>2, <3>1, <3>2
    <2>3. B2 \in Nat \ {0} /\ d.top \in Nat
      BY <1>1, <2>2
    <2> HIDE DEF B2, r
    <2>4. QED
      BY <2>1, <2>2, <2>3, Quotient
  <1>9. Digits(Epoch(d)) = d
    <2>1. Digits(Epoch(d)) = [sec |-> d.sec, mid |-> d.mid, top |-> d.top]
      BY <1>6, <1>7, <1>8 DEF Digits
    <2>2. d = [sec |-> d.sec, mid |-> d.mid, top |-> d.top]
      BY DEF Registers
    <2>3. QED
      BY <2>1, <2>2
  <1>10. (Epoch(d) + 1) % Base # d.sec
    <2> HIDE DEF u
    <2>1. CASE d.sec + 1 < Base
      <3> DEFINE s == d.sec + 1
      <3>1. Epoch(d) + 1 = Base * u + s /\ s \in Nat /\ s < Base
        BY <1>1, <1>2, <1>3, <2>1
      <3> HIDE DEF s
      <3>2. (Epoch(d) + 1) % Base = s
        BY <1>1, <1>2, <3>1, Quotient
      <3>3. QED
        BY <1>1, <3>2 DEF s
    <2>2. CASE d.sec + 1 = Base
      <3>1. Epoch(d) + 1 = Base * (u + 1) + 0
        <4>1. Base * (u + 1) = Base * u + Base
          BY <1>1, <1>2
        <4>2. QED
          BY <1>1, <1>2, <1>3, <2>2, <4>1
      <3>2. (Epoch(d) + 1) % Base = 0
        <4>1. u + 1 \in Nat /\ 0 \in Nat /\ 0 < Base
          BY <1>1, <1>2
        <4>2. QED
          BY <1>1, <3>1, <4>1, Quotient, Zenon
      <3>3. QED
        BY <1>1, <2>2, <3>2
    <2>3. QED
      BY <1>1, <2>1, <2>2
  <1>11. Digits(Epoch(d) + 1).sec = (Epoch(d) + 1) % Base
    BY DEF Digits
  <1>12. QED
    BY <1>5, <1>9, <1>10, <1>11

-----------------------------------------------------------------------------
(* The steps *)

\* The chip has the digits for every time a setter takes,
LEMMA WindowInCentury == \A t \in Window : t \in Century /\ t \in Int
BY RtcAssumption DEF Window, Century

\* and they do not come to an end before the behaviour does, whoever set it,
LEMMA ErrorsInReach == Errors \cup {0} \subseteq Reach
BY RtcAssumption DEF Reach

\* whatever was left in it.
LEMMA GarbageInReach ==
    ASSUME NEW g \in Garbage, true \in Int, true >= RtcMin
    PROVE  /\ Digits(g) \in Registers /\ Epoch(Digits(g)) = g
           /\ g - true \in Reach
  <1>1. g \in Century /\ g \in Int
    BY RtcAssumption DEF Century
  <1>2. g - true \in Reach
    <2>1. /\ g - RtcMin + LastSecond < Base * Base * Base
          /\ RtcMin \in Int /\ LastSecond \in Int /\ Base * Base * Base \in Int
      BY RtcAssumption
    <2>2. g - true \in Int /\ LastSecond + (g - true) <= g - RtcMin + LastSecond
      BY <1>1, <2>1
    <2>3. QED
      BY <1>1, <2>1, <2>2 DEF Reach
  <1>3. QED
    BY <1>1, <1>2, DigitsOfTime

\* A task with no job is no writer and no reader.
LEMMA NothingFields ==
    /\ Nothing \in Jobs /\ Nothing.op = "none" /\ Nothing.at = 0
    /\ ~Writes(Nothing) /\ ~Reads(Nothing)
    /\ WriterOK(Nothing) /\ ReaderOK(Nothing)
  <1>1. Digits(0) \in Registers
    <2>1. 0 \in Century
      BY RtcAssumption DEF Century
    <2>2. QED
      BY <2>1, DigitsOfTime
  <1>2. Nothing \in Jobs
    BY <1>1 DEF Nothing, Jobs
  <1>3. Nothing.op = "none" /\ Nothing.at = 0
    BY DEF Nothing
  <1>4. QED
    BY <1>2, <1>3 DEF Writes, Reads, WriterOK, ReaderOK

\* One task moves.
LEMMA JobMoves ==
    ASSUME ChipTypeOK, NEW p \in ClockTasks, NEW j \in Jobs, job' = [job EXCEPT ![p] = j]
    PROVE  /\ job' \in [ClockTasks -> Jobs]
           /\ \A q \in ClockTasks : job'[q] = IF q = p THEN j ELSE job[q]
BY DEF ChipTypeOK

\* Of two tasks at the chip one is the other.
LEMMA OneAtTheChip ==
    ASSUME LockHeld, NEW p \in ClockTasks, NEW q \in ClockTasks,
           job[p].at >= 1, job[q].at >= 1
    PROVE  p = q
BY DEF LockHeld

\* A second later on both sides is as far apart.
LEMMA Shift ==
    ASSUME NEW a \in Int, NEW b \in Int
    PROVE  (a + 1) - (b + 1) = a - b
OBVIOUS

\* The tasks at the clock
LEMMA TaskNames == "loop" \in ClockTasks /\ "host" \in ClockTasks /\ "boot" \in ClockTasks
BY DEF ClockTasks

\* Task p may go on to j without anything else being moved but the lock.
Begins(p, j) ==
    /\ WriterOK(j) /\ ReaderOK(j)
    /\ ~AtWork(p) /\ (Writes(j) => j.at <= 1)
    /\ j.at >= 1 => lock' = p
    /\ \A q \in ClockTasks \ {p} : job[q].at >= 1 => lock' = q
    /\ j.op \in {"valid", "seed"} =>
          p = "boot" /\ j.at >= 1 /\ job["loop"].op # "service"
    /\ j.op = "seed" => ~chip.ch /\ Epoch(chip.regs) - true \in told \cup believed'
    /\ j.op = "service" =>
          /\ p = "loop" /\ job["boot"].op \notin {"valid", "seed"}
          /\ ~stale => sys.set /\ j.t = sys.t

\* A boot may believe what it read, and nothing is believed any less.
Believes == left' = left /\ believed \subseteq believed' /\ believed' \subseteq left

\* Most steps believe nothing new.
LEMMA NoneBelieved ==
    ASSUME ChipInv, UNCHANGED cellVars
    PROVE  Believes /\ left' = left /\ believed' = believed
BY DEF ChipInv, ChipTypeOK, cellVars, Believes

\* A step that leaves the chip, the system clock and the time alone
LEMMA Moved ==
    ASSUME ChipInv, NEW p \in ClockTasks, NEW j \in Jobs, job' = [job EXCEPT ![p] = j],
           UNCHANGED <<chip, sys, true, told, stale>>, Believes,
           Begins(p, j)
    PROVE  ChipInv'
  <1> USE DEF Begins, Believes
  <1>1. /\ job' \in [ClockTasks -> Jobs]
        /\ \A q \in ClockTasks : job'[q] = IF q = p THEN j ELSE job[q]
    BY JobMoves DEF ChipInv
  <1>2. ChipTypeOK'
    BY <1>1 DEF ChipInv, ChipTypeOK
  <1>3. LockHeld'
    BY <1>1 DEF ChipInv, LockHeld
  <1>4. \A q \in ClockTasks : WriterOK(job[q])' /\ ReaderOK(job[q])'
    BY <1>1 DEF ChipInv, WriterOK, ReaderOK
  <1>5. RunningChipTrue' /\ NoTimeThatNeverWas'
    BY DEF ChipInv, RunningChipTrue, NoTimeThatNeverWas
  <1>6. Agreed'
    <2>1. \A q \in ClockTasks : ~AtWork(q)' => ~AtWork(q)
      BY <1>1 DEF AtWork, Writing
    <2>2. QED
      BY <2>1 DEF ChipInv, Agreed
  <1>7. WritebackCurrent'
    BY <1>1, TaskNames DEF ChipInv, WritebackCurrent
  <1>8. BootAlone' /\ SeedBelieved'
    BY <1>1, TaskNames DEF ChipInv, BootAlone, SeedBelieved
  <1>9. QED
    BY <1>2, <1>3, <1>4, <1>5, <1>6, <1>7, <1>8 DEF ChipInv

\* Setting the clock begins with a chip in order.
LEMMA InvBeginSet ==
    ASSUME ChipInv, NEW p \in {"loop", "host"}, NEW e \in Errors, BeginSet(p, true + e)
    PROVE  ChipInv'
  <1> DEFINE j == [Nothing EXCEPT !.op = "set", !.t = true + e]
  <1>1. p \in ClockTasks /\ job[p] = Nothing /\ true + e \in Window /\ true \in Int /\ e \in Int
    BY RtcAssumption DEF BeginSet, ClockTasks, ChipInv, ChipTypeOK
  <1>2. /\ j \in Jobs /\ j.op = "set" /\ j.at = 0 /\ j.t = true + e
    BY <1>1, WindowInCentury, NothingFields DEF Jobs, Nothing
  <1>3. job' = [job EXCEPT ![p] = j] /\ UNCHANGED <<chip, sys, lock, true, told, cellVars, stale>>
    BY DEF BeginSet
  <1> HIDE DEF j
  <1>4. WriterOK(j) /\ ReaderOK(j) /\ Writes(j)
    <2>1. j.t - true \in Errors
      BY <1>1, <1>2
    <2>2. j.t \in Window /\ ~(j.at \in 2 .. 5) /\ ~(j.at >= 3)
      BY <1>1, <1>2
    <2>3. QED
      BY <1>2, <2>1, <2>2 DEF WriterOK, ReaderOK, Writes, Reads
  <1>5. ~AtWork(p)
    BY <1>1, NothingFields DEF AtWork, Writing, Writes
  <1>6. \A q \in ClockTasks : job[q].at >= 1 => lock' = q
    BY <1>3 DEF ChipInv, LockHeld
  <1>7. Begins(p, j)
    BY <1>2, <1>4, <1>5, <1>6 DEF Begins
  <1>8. QED
    BY <1>1, <1>2, <1>3, <1>7, NoneBelieved, Moved, Zenon

\* At the start of a writeback the system clock shows a time somebody set.
LEMMA InvBeginService == ChipInv /\ BeginService => ChipInv'
  <1> SUFFICES ASSUME ChipInv, BeginService PROVE ChipInv'
    OBVIOUS
  <1> DEFINE j == [Nothing EXCEPT !.op = "service", !.t = sys.t]
             p == "loop"
  <1>1. /\ p \in ClockTasks /\ job[p] = Nothing /\ sys.t \in Window /\ sys.set
        /\ job["boot"].op = "none"
    BY NothingFields DEF BeginService, ClockTasks
  <1>2. /\ j \in Jobs /\ j.op = "service" /\ j.at = 0 /\ j.t = sys.t
    BY <1>1, WindowInCentury, NothingFields DEF Jobs, Nothing
  <1>3. job' = [job EXCEPT ![p] = j] /\ UNCHANGED <<chip, sys, lock, true, told, cellVars, stale>>
    BY DEF BeginService
  <1> HIDE DEF j
  <1>4. sys.t - true \in told \cup believed
    BY <1>1 DEF ChipInv, NoTimeThatNeverWas
  <1>5. WriterOK(j) /\ ReaderOK(j) /\ Writes(j)
    BY <1>1, <1>2, <1>4 DEF WriterOK, ReaderOK, Writes, Reads
  <1>6. ~AtWork(p)
    BY <1>1, NothingFields DEF AtWork, Writing, Writes
  <1>7. \A q \in ClockTasks : job[q].at >= 1 => lock' = q
    BY <1>3 DEF ChipInv, LockHeld
  <1>8. Begins(p, j)
    BY <1>1, <1>2, <1>5, <1>6, <1>7 DEF Begins
  <1>9. QED
    BY <1>1, <1>2, <1>3, <1>8, NoneBelieved, Moved, Zenon

\* Reading it begins, and leaves the chip alone.
LEMMA InvBeginRead == ChipInv /\ BeginRead => ChipInv'
  <1> SUFFICES ASSUME ChipInv, BeginRead PROVE ChipInv'
    OBVIOUS
  <1> DEFINE j == [Nothing EXCEPT !.op = "read"]
             p == "loop"
  <1>1. p \in ClockTasks /\ job[p] = Nothing
    BY DEF BeginRead, ClockTasks
  <1>2. /\ j \in Jobs /\ j.op = "read" /\ j.at = 0
    BY <1>1, NothingFields DEF Jobs, Nothing
  <1>3. job' = [job EXCEPT ![p] = j] /\ UNCHANGED <<chip, sys, lock, true, told, cellVars, stale>>
    BY DEF BeginRead
  <1> HIDE DEF j
  <1>4. WriterOK(j) /\ ReaderOK(j) /\ ~Writes(j)
    BY <1>2 DEF WriterOK, ReaderOK, Writes, Reads
  <1>5. ~AtWork(p)
    BY <1>1, NothingFields DEF AtWork, Writing, Writes
  <1>6. \A q \in ClockTasks : job[q].at >= 1 => lock' = q
    BY <1>3 DEF ChipInv, LockHeld
  <1>7. Begins(p, j)
    BY <1>2, <1>4, <1>5, <1>6 DEF Begins
  <1>8. QED
    BY <1>1, <1>2, <1>3, <1>7, NoneBelieved, Moved, Zenon

\* The bus is taken.
LEMMA InvTakeLock ==
    ASSUME ChipInv, NEW p \in ClockTasks, TakeLock(p)
    PROVE  ChipInv'
  <1>1. /\ UNCHANGED <<chip, sys, true, told, cellVars, stale>>
        /\ job[p] \in Jobs /\ job[p].at = 0 /\ WriterOK(job[p]) /\ ReaderOK(job[p])
        /\ job[p].op \notin {"valid", "seed"}
        /\ job[p].op = "service" => /\ p = "loop" /\ (~stale => sys.set /\ job[p].t = sys.t)
                                   /\ job["boot"].op \notin {"valid", "seed"}
    <2>1. job[p] \in Jobs /\ job[p].at = 0 /\ UNCHANGED <<chip, sys, true, told, cellVars, stale>>
      BY DEF TakeLock, ChipInv, ChipTypeOK
    <2>2. WriterOK(job[p]) /\ ReaderOK(job[p])
      BY DEF ChipInv
    <2>3. /\ job[p].op \in {"valid", "seed"} => job[p].at >= 1
          /\ job[p].op = "service" => p = "loop"
      BY DEF ChipInv, LockHeld
    <2>4. job[p].op = "service" => /\ p = "loop" /\ (~stale => sys.set /\ job[p].t = sys.t)
                                   /\ job["boot"].op \notin {"valid", "seed"}
      BY <2>3 DEF ChipInv, WritebackCurrent, BootAlone
    <2>5. QED
      BY <2>1, <2>2, <2>3, <2>4
  <1>2. ~AtWork(p)
    <2>1. job[p].at = 0
      BY <1>1
    <2>2. QED
      BY <2>1 DEF AtWork, Writing
  <1>3. CASE lock = "free" /\ lock' = p /\ job' = [job EXCEPT ![p].at = 1]
    <2> DEFINE j == [job[p] EXCEPT !.at = 1]
    <2>1. job' = [job EXCEPT ![p] = j]
      BY <1>3
    <2>2. j \in Jobs /\ j.at = 1 /\ j.op = job[p].op /\ j.t = job[p].t
      BY <1>1 DEF Jobs
    <2> HIDE DEF j
    <2>3. WriterOK(j) /\ ReaderOK(j)
      BY <1>1, <2>2 DEF WriterOK, ReaderOK, Writes, Reads
    <2>4. \A q \in ClockTasks : job[q].at < 1
      <3>1. \A q \in ClockTasks : job[q].at \in 0 .. 5 /\ (job[q].at >= 1 => lock = q)
        BY DEF ChipInv, ChipTypeOK, Jobs, LockHeld
      <3>2. \A q \in ClockTasks : q # "free"
        BY DEF ClockTasks
      <3>3. QED
        BY <1>3, <3>1, <3>2
    <2>5. \A q \in ClockTasks : ~(job[q].at >= 1)
      <3>1. \A q \in ClockTasks : job[q].at \in 0 .. 5
        BY DEF ChipInv, ChipTypeOK, Jobs
      <3>2. QED
        BY <2>4, <3>1
    <2>6. Begins(p, j)
      BY <1>1, <1>2, <1>3, <2>2, <2>3, <2>5 DEF Begins
    <2>7. QED
      BY <1>1, <2>1, <2>2, <2>6, NoneBelieved, Moved, Zenon
  <1>4. CASE UNCHANGED lock /\ job' = [job EXCEPT ![p] = Nothing]
    <2>1. \A q \in ClockTasks : job[q].at >= 1 => lock' = q
      BY <1>4 DEF ChipInv, LockHeld
    <2>2. Begins(p, Nothing)
      BY <1>2, <2>1, NothingFields DEF Begins
    <2>3. QED
      BY <1>1, <1>4, <2>2, NothingFields, NoneBelieved, Moved, Zenon
  <1>5. QED
    BY <1>3, <1>4 DEF TakeLock

\* While somebody is at the chip, nobody else is.
LEMMA OthersWait ==
    ASSUME ChipInv, NEW p \in ClockTasks, job[p].at >= 1
    PROVE  lock = p /\ \A q \in ClockTasks \ {p} : job[q].at = 0
  <1>1. \A q \in ClockTasks : job[q].at \in 0 .. 5 /\ (job[q].at >= 1 => lock = q)
    BY DEF ChipInv, ChipTypeOK, Jobs, LockHeld
  <1>2. QED
    BY <1>1

\* What has been got of an unturned read is what the registers show, register by register.
LEMMA InvReadRegister ==
    ASSUME ChipInv, NEW p \in ClockTasks, ReadRegister(p)
    PROVE  ChipInv'
  <1>1. /\ Reads(job[p]) /\ job[p].at \in 1 .. 3 /\ job[p] \in Jobs
        /\ ReaderOK(job[p]) /\ UNCHANGED <<chip, sys, lock, true, told, cellVars, stale>>
        /\ chip \in [regs : Registers, ch : BOOLEAN]
        /\ job[p].op \in {"valid", "seed"} => p = "boot" /\ job["loop"].op # "service"
        /\ job[p].op = "seed" => ~chip.ch /\ Epoch(chip.regs) - true \in told \cup believed
    BY DEF ReadRegister, Reading, Reads, ChipInv, ChipTypeOK, LockHeld, BootAlone, SeedBelieved
  <1>2. lock = p /\ \A q \in ClockTasks \ {p} : job[q].at = 0
    BY <1>1, OthersWait
  <1>3. ASSUME NEW j \in Jobs, job' = [job EXCEPT ![p] = j],
               j.op = job[p].op, j.at = job[p].at + 1, ReaderOK(j)
        PROVE  ChipInv'
    <2>1. WriterOK(j) /\ ~Writes(j) /\ ~AtWork(p) /\ j.op # "service"
      BY <1>1, <1>3 DEF WriterOK, Writes, Reads, AtWork, Writing
    <2>2. j.at >= 1 /\ \A q \in ClockTasks \ {p} : ~(job[q].at >= 1)
      BY <1>1, <1>2, <1>3
    <2>3. Begins(p, j) /\ Believes
      BY <1>1, <1>2, <1>3, <2>1, <2>2, NoneBelieved DEF Begins
    <2>4. QED
      BY <1>1, <1>3, <2>3, Moved, Zenon
  <1> DEFINE got == Get(job[p].at, job[p].got)
             j   == [job[p] EXCEPT !.at = @ + 1, !.got = Get(job[p].at, @)]
  <1>4. /\ got \in Registers
        /\ job[p].at = 1 => got.sec = chip.regs.sec
        /\ job[p].at = 2 => got.sec = job[p].got.sec /\ got.mid = chip.regs.mid
        /\ job[p].at = 3 => /\ got.sec = job[p].got.sec /\ got.mid = job[p].got.mid
                            /\ got.top = chip.regs.top
    <2>1. /\ job[p].at = 1 => got = [job[p].got EXCEPT !.sec = chip.regs.sec]
          /\ job[p].at = 2 => got = [job[p].got EXCEPT !.mid = chip.regs.mid]
          /\ job[p].at = 3 => got = [job[p].got EXCEPT !.top = chip.regs.top]
      BY DEF Get
    <2> HIDE DEF got
    <2>2. job[p].got \in Registers /\ chip.regs \in Registers
      BY <1>1 DEF Jobs
    <2>3. QED
      BY <1>1, <2>1, <2>2 DEF Registers
  <1>5. job' = [job EXCEPT ![p] = j]
    <2> HIDE DEF got
    <2>1. job \in [ClockTasks -> Jobs]
      BY DEF ChipInv, ChipTypeOK
    <2>2. job' = [job EXCEPT ![p].at = @ + 1, ![p].got = Get(job[p].at, @)]
      BY DEF ReadRegister
    <2>3. QED
      BY <2>1, <2>2 DEF Jobs
  <1>6. /\ j \in Jobs /\ j.op = job[p].op /\ j.at = job[p].at + 1
        /\ j.turned = job[p].turned /\ j.got = got
    <2>1. j = [job[p] EXCEPT !.at = job[p].at + 1, !.got = got]
      BY <1>1 DEF Jobs
    <2> HIDE DEF got, j
    <2>2. j.op = job[p].op /\ j.at = job[p].at + 1 /\ j.turned = job[p].turned /\ j.got = got
      BY <1>1, <2>1 DEF Jobs
    <2>3. j \in Jobs
      <3>1. job[p].at + 1 \in 0 .. 5 /\ got \in Registers /\ job[p] \in Jobs
        BY <1>1, <1>4
      <3>2. QED
        BY <2>1, <3>1 DEF Jobs
    <2>4. QED
      BY <2>2, <2>3
  <1> HIDE DEF got
  <1> HIDE DEF j
  <1>7. ReaderOK(j)
    BY <1>1, <1>4, <1>6 DEF ReaderOK, Reads
  <1>8. QED
    BY <1>3, <1>5, <1>6, <1>7

\* A read whose last seconds are its first has what the registers show.
LEMMA CoherentRead ==
    ASSUME ChipInv, NEW p \in ClockTasks, ReadOver(p), Reread(p)
    PROVE  job[p].got = chip.regs
  <1>1. /\ Reads(job[p]) /\ job[p].at = 4 /\ job[p].got.sec = chip.regs.sec
        /\ ReaderOK(job[p]) /\ job[p].got \in Registers /\ chip.regs \in Registers
    BY DEF ReadOver, Reread, Reading, Reads, ChipInv, ChipTypeOK, Jobs
  <1>2. job[p].got.mid = chip.regs.mid /\ job[p].got.top = chip.regs.top
    BY <1>1 DEF ReaderOK
  <1>3. QED
    BY <1>1, <1>2 DEF Registers

\* A torn reading is begun again, twice at most.
LEMMA InvRetryRead ==
    ASSUME ChipInv, NEW p \in ClockTasks, RetryRead(p)
    PROVE  ChipInv'
  <1>1. /\ Reads(job[p]) /\ job[p].at = 4 /\ job[p] \in Jobs
        /\ ReaderOK(job[p]) /\ UNCHANGED <<chip, sys, lock, true, told, cellVars, stale>>
        /\ job[p].op \in {"valid", "seed"} => p = "boot" /\ job["loop"].op # "service"
        /\ job[p].op = "seed" => ~chip.ch /\ Epoch(chip.regs) - true \in told \cup believed
    BY DEF RetryRead, Reading, Reads, ChipInv, ChipTypeOK, LockHeld, BootAlone, SeedBelieved
  <1>2. lock = p /\ \A q \in ClockTasks \ {p} : job[q].at = 0
    BY <1>1, OthersWait
  <1> DEFINE j == [job[p] EXCEPT !.at = 1, !.try = @ + 1, !.turned = FALSE]
  <1>3. job' = [job EXCEPT ![p] = j]
    <2>1. job \in [ClockTasks -> Jobs]
      BY DEF ChipInv, ChipTypeOK
    <2>2. job' = [job EXCEPT ![p].at = 1, ![p].try = @ + 1, ![p].turned = FALSE]
      BY DEF RetryRead
    <2>3. QED
      BY <2>1, <2>2 DEF Jobs
  <1>4. j.op = job[p].op /\ j.at = 1 /\ j \in Jobs
    <2>1. job[p] \in Jobs /\ 1 \in 0 .. 5
      BY <1>1
    <2>2. job[p].try + 1 \in Nat
      BY <2>1 DEF Jobs
    <2>3. QED
      BY <2>1, <2>2 DEF Jobs
  <1> HIDE DEF j
  <1>5. /\ WriterOK(j) /\ ~Writes(j) /\ ReaderOK(j) /\ j.op # "service"
    BY <1>1, <1>4 DEF WriterOK, ReaderOK, Writes, Reads
  <1>6. ~AtWork(p)
    BY <1>1 DEF AtWork, Writing, Reads
  <1>7. Begins(p, j) /\ Believes
    BY <1>1, <1>2, <1>4, <1>5, <1>6, NoneBelieved DEF Begins
  <1>8. QED
    BY <1>1, <1>3, <1>4, <1>7, Moved, Zenon

\* A boot that found the clock valid has read a time somebody set, or garbage within the
\* window, which it believes from now on.  It reads it again.
LEMMA InvReadAgain ==
    ASSUME ChipInv, NEW p \in ClockTasks, ReadAgain(p)
    PROVE  ChipInv'
  <1>1. /\ job[p].op = "valid" /\ job[p].at = 4 /\ ~chip.ch
        /\ UNCHANGED <<chip, sys, lock, true, told, left, stale>>
        /\ ReadOver(p) /\ Reread(p) /\ Epoch(job[p].got) \in Window
        /\ believed' = believed \cup
              {e \in left : true + e = Epoch(chip.regs) /\ true + e \in Window}
    BY DEF ReadAgain, ReadOver, Validated
  <1>2. p = "boot" /\ job["loop"].op # "service"
    BY <1>1 DEF ChipInv, LockHeld, BootAlone
  <1>3. lock = p /\ \A q \in ClockTasks \ {p} : job[q].at = 0
    BY <1>1, OthersWait
  <1> DEFINE j == [Nothing EXCEPT !.op = "seed", !.at = 1]
  <1>4. job' = [job EXCEPT ![p] = j]
    BY DEF ReadAgain
  <1>5. j \in Jobs /\ j.op = "seed" /\ j.at = 1
    <2>1. Nothing \in Jobs /\ 1 \in 0 .. 5
      BY NothingFields
    <2>2. QED
      BY <2>1 DEF Jobs
  <1> HIDE DEF j
  <1>6. /\ WriterOK(j) /\ ~Writes(j) /\ ReaderOK(j)
    BY <1>5 DEF WriterOK, ReaderOK, Writes, Reads
  <1>7. ~AtWork(p)
    BY <1>1 DEF AtWork, Writing
  <1>8. Epoch(chip.regs) - true \in told \cup believed'
    <2>1. Epoch(chip.regs) \in Window
      BY <1>1, CoherentRead
    <2>2. PICK e : e = Epoch(chip.regs) - true
      OBVIOUS
    <2>3. e \in told \cup left /\ true \in Int
      BY <1>1, <2>2 DEF ChipInv, ChipTypeOK, RunningChipTrue
    <2>4. true + e = Epoch(chip.regs)
      <3>1. Epoch(chip.regs) \in Int
        BY <2>1, WindowInCentury
      <3>2. QED
        BY <2>2, <2>3, <3>1
    <2>5. e \in told \cup believed'
      BY <1>1, <2>1, <2>3, <2>4
    <2>6. QED
      BY <2>2, <2>5
  <1>9. Begins(p, j)
    BY <1>1, <1>2, <1>3, <1>5, <1>6, <1>7, <1>8 DEF Begins
  <1>10. Believes
    BY <1>1 DEF Believes, ChipInv, ChipTypeOK
  <1>11. QED
    BY <1>1, <1>4, <1>5, <1>9, <1>10, Moved, Zenon

\* A task gives up the lock and the system clock is as it was.
LEMMA Leaves ==
    ASSUME ChipInv, NEW p \in ClockTasks, job[p].at >= 1, ~Writing(p),
           job' = [job EXCEPT ![p] = Nothing],
           UNCHANGED <<chip, sys, true, told, cellVars, stale>>
    PROVE  ChipInv'
  <1>1. \A q \in ClockTasks \ {p} : job[q].at = 0
    BY OthersWait
  <1>2. ~AtWork(p)
    BY DEF AtWork
  <1>3. Begins(p, Nothing)
    BY <1>1, <1>2, NothingFields DEF Begins
  <1>4. QED
    BY <1>3, NothingFields, NoneBelieved, Moved, Zenon

\* What a step that ends an operation at the chip leaves of the rest
LEMMA OneLess ==
    ASSUME ChipInv, NEW p \in ClockTasks, job[p].at >= 1, job' = [job EXCEPT ![p] = Nothing]
    PROVE  /\ job' \in [ClockTasks -> Jobs]
           /\ \A q \in ClockTasks : job'[q] = IF q = p THEN Nothing ELSE job[q]
           /\ \A q \in ClockTasks : job'[q].at = 0
           /\ \A q \in ClockTasks : ~AtWork(q)'
           /\ LockHeld'
  <1>1. /\ job' \in [ClockTasks -> Jobs]
        /\ \A q \in ClockTasks : job'[q] = IF q = p THEN Nothing ELSE job[q]
    BY JobMoves, NothingFields DEF ChipInv
  <1>2. \A q \in ClockTasks \ {p} : job[q].at = 0
    BY OthersWait
  <1>3. \A q \in ClockTasks : job'[q].at = 0
    BY <1>1, <1>2, NothingFields
  <1>4. \A q \in ClockTasks : ~AtWork(q)'
    BY <1>3 DEF AtWork
  <1>5. LockHeld'
    BY <1>1, <1>3, NothingFields DEF ChipInv, LockHeld
  <1>6. QED
    BY <1>1, <1>3, <1>4, <1>5

\* The second read at boot seeds the system clock with what the running chip shows.
LEMMA InvReadDone ==
    ASSUME ChipInv, NEW p \in ClockTasks, ReadDone(p)
    PROVE  ChipInv'
  <1>1. /\ Reads(job[p]) /\ ~Writing(p) /\ job[p].at = 4 /\ ReadOver(p)
        /\ job' = [job EXCEPT ![p] = Nothing]
        /\ UNCHANGED <<chip, true, told, cellVars, stale>>
    BY DEF ReadDone, ReadOver, Reading, Reads, Writing
  <1>0. job[p].at >= 1
    <2>1. job[p].at = 4
      BY <1>1
    <2>2. QED
      BY <2>1
  <1>2. CASE job[p].op = "seed" /\ Reread(p)
    <2>1. sys' = [set |-> TRUE, t |-> Epoch(chip.regs)]
      BY <1>1, <1>2, CoherentRead DEF ReadDone
    <2>2. /\ ~chip.ch /\ Epoch(chip.regs) - true \in told \cup believed /\ p = "boot"
          /\ left' = left /\ believed' = believed
      BY <1>1, <1>2, NoneBelieved DEF ChipInv, SeedBelieved, LockHeld
    <2>3. /\ job' \in [ClockTasks -> Jobs]
          /\ \A q \in ClockTasks : job'[q] = IF q = p THEN Nothing ELSE job[q]
          /\ \A q \in ClockTasks : job'[q].at = 0
          /\ \A q \in ClockTasks : ~AtWork(q)'
          /\ LockHeld'
      BY <1>0, <1>1, OneLess, Zenon
    <2>4. chip.regs \in Registers /\ Epoch(chip.regs) \in Int
      BY TimeOfDigits DEF ChipInv, ChipTypeOK, Century
    <2>5. ChipTypeOK'
      BY <1>1, <2>1, <2>2, <2>3, <2>4 DEF ChipInv, ChipTypeOK
    <2>6. \A q \in ClockTasks : WriterOK(job[q])' /\ ReaderOK(job[q])'
      BY <1>1, <2>2, <2>3, NothingFields DEF ChipInv, WriterOK, ReaderOK
    <2>7. RunningChipTrue' /\ NoTimeThatNeverWas' /\ Agreed'
      BY <1>1, <2>1, <2>2 DEF ChipInv, RunningChipTrue, NoTimeThatNeverWas, Agreed
    <2>8. WritebackCurrent'
      <3>1. job["loop"].op # "service"
        BY <1>2, <2>2 DEF ChipInv, BootAlone
      <3>2. QED
        BY <2>3, <3>1, TaskNames, NothingFields DEF WritebackCurrent
    <2>9. BootAlone' /\ SeedBelieved'
      BY <2>2, <2>3, TaskNames, NothingFields DEF BootAlone, SeedBelieved
    <2>10. QED
      BY <2>3, <2>5, <2>6, <2>7, <2>8, <2>9 DEF ChipInv
  <1>3. CASE ~(job[p].op = "seed" /\ Reread(p))
    <2>1. sys' = sys
      BY <1>3 DEF ReadDone
    <2>2. QED
      BY <1>0, <1>1, <2>1, Leaves, Zenon
  <1>4. QED
    BY <1>2, <1>3

\* A register is written.  Nobody else is at the chip.
LEMMA InvWriteRegister ==
    ASSUME ChipInv, NEW p \in ClockTasks, WriteRegister(p)
    PROVE  ChipInv'
  <1> DEFINE w == job[p]
             j == [job[p] EXCEPT !.at = @ + 1]
  <1>1. /\ Writes(w) /\ w.at \in 1 .. 4 /\ w \in Jobs /\ WriterOK(w)
        /\ w.op = "service" => p = "loop"
        /\ chip \in [regs : Registers, ch : BOOLEAN]
        /\ UNCHANGED <<sys, lock, true, stale>> /\ left' = left /\ believed' = believed
    BY NoneBelieved DEF WriteRegister, Writing, Writes, ChipInv, ChipTypeOK, LockHeld
  <1>2. lock = p /\ \A q \in ClockTasks \ {p} : job[q].at = 0
    BY <1>1, OthersWait
  <1>3. job' = [job EXCEPT ![p] = j]
    <2>1. job \in [ClockTasks -> Jobs]
      BY DEF ChipInv, ChipTypeOK
    <2>2. job' = [job EXCEPT ![p].at = @ + 1]
      BY DEF WriteRegister
    <2>3. QED
      BY <2>1, <2>2 DEF Jobs
  <1>4. j.op = w.op /\ j.at = w.at + 1 /\ j.t = w.t /\ j \in Jobs
    <2>1. w \in Jobs /\ w.at + 1 \in 0 .. 5
      BY <1>1
    <2>2. QED
      BY <2>1 DEF Jobs
  <1>5. /\ job' \in [ClockTasks -> Jobs]
        /\ \A q \in ClockTasks : job'[q] = IF q = p THEN j ELSE job[q]
    BY <1>3, <1>4, JobMoves DEF ChipInv
  <1>6. w.t \in Window /\ w.t \in Century /\ w.t \in Int
    BY <1>1, WindowInCentury DEF WriterOK
  <1>7. Digits(w.t) \in Registers /\ Epoch(Digits(w.t)) = w.t
    BY <1>6, DigitsOfTime
  <1>8. /\ w.at = 1 => chip' = [regs |-> [chip.regs EXCEPT !.sec = Digits(w.t).sec], ch |-> TRUE]
        /\ w.at = 2 => chip' = [chip EXCEPT !.regs.mid = Digits(w.t).mid]
        /\ w.at = 3 => chip' = [chip EXCEPT !.regs.top = Digits(w.t).top]
        /\ w.at = 4 => chip' = [regs |-> [chip.regs EXCEPT !.sec = Digits(w.t).sec], ch |-> FALSE]
    <2>1. chip' = Put(w.at, w.t)
      BY DEF WriteRegister
    <2> HIDE DEF w
    <2>2. w.at = 1 => chip' = Put(1, w.t)
      BY <2>1
    <2>3. w.at = 2 => chip' = Put(2, w.t)
      BY <2>1
    <2>4. w.at = 3 => chip' = Put(3, w.t)
      BY <2>1
    <2>5. w.at = 4 => chip' = Put(4, w.t)
      BY <2>1
    <2>6. /\ Put(1, w.t) = [regs |-> [chip.regs EXCEPT !.sec = Digits(w.t).sec], ch |-> TRUE]
          /\ Put(2, w.t) = [chip EXCEPT !.regs.mid = Digits(w.t).mid]
          /\ Put(3, w.t) = [chip EXCEPT !.regs.top = Digits(w.t).top]
          /\ Put(4, w.t) = [regs |-> [chip.regs EXCEPT !.sec = Digits(w.t).sec], ch |-> FALSE]
      BY DEF Put
    <2>7. QED
      BY <2>2, <2>3, <2>4, <2>5, <2>6
  <1> HIDE DEF w, j
  <1>9. /\ chip' \in [regs : Registers, ch : BOOLEAN]
        /\ w.at \in 1 .. 3 => chip'.ch
        /\ w.at = 4 => ~chip'.ch
        /\ w.at >= 2 => chip'.regs.mid = Digits(w.t).mid
        /\ w.at >= 3 => chip'.regs.top = Digits(w.t).top
        /\ w.at = 4 => chip'.regs.sec = Digits(w.t).sec
    <2> DEFINE d == Digits(w.t)
    <2>1. d \in Registers /\ chip.regs \in Registers
      BY <1>1, <1>7
    <2>2. /\ w.at \in 2 .. 4 => chip.ch
          /\ w.at >= 3 => chip.regs.mid = d.mid
          /\ w.at >= 4 => chip.regs.top = d.top
      BY <1>1 DEF WriterOK
    <2>3. CASE w.at = 1
      <3>1. chip' = [regs |-> [chip.regs EXCEPT !.sec = d.sec], ch |-> TRUE]
        BY <1>8, <2>3
      <3> HIDE DEF d
      <3>2. chip' \in [regs : Registers, ch : BOOLEAN] /\ chip'.ch
        BY <2>1, <3>1 DEF Registers
      <3>3. QED
        BY <2>3, <3>2
    <2>4. CASE w.at = 2
      <3>1. chip' = [chip EXCEPT !.regs.mid = d.mid]
        BY <1>8, <2>4
      <3> HIDE DEF d
      <3>2. /\ chip' \in [regs : Registers, ch : BOOLEAN] /\ chip'.ch
            /\ chip'.regs.mid = d.mid
        BY <1>1, <2>1, <2>2, <2>4, <3>1 DEF Registers
      <3>3. QED
        BY <2>4, <3>2 DEF d
    <2>5. CASE w.at = 3
      <3>1. chip' = [chip EXCEPT !.regs.top = d.top]
        BY <1>8, <2>5
      <3> HIDE DEF d
      <3>2. /\ chip' \in [regs : Registers, ch : BOOLEAN] /\ chip'.ch
            /\ chip'.regs.mid = d.mid /\ chip'.regs.top = d.top
        BY <1>1, <2>1, <2>2, <2>5, <3>1 DEF Registers
      <3>3. QED
        BY <2>5, <3>2 DEF d
    <2>6. CASE w.at = 4
      <3>1. chip' = [regs |-> [chip.regs EXCEPT !.sec = d.sec], ch |-> FALSE]
        BY <1>8, <2>6
      <3> HIDE DEF d
      <3>2. /\ chip' \in [regs : Registers, ch : BOOLEAN] /\ ~chip'.ch
            /\ chip'.regs.mid = d.mid /\ chip'.regs.top = d.top /\ chip'.regs.sec = d.sec
        BY <2>1, <2>2, <2>6, <3>1 DEF Registers
      <3>3. QED
        BY <2>6, <3>2 DEF d
    <2>7. QED
      BY <1>1, <2>3, <2>4, <2>5, <2>6
  <1>10. w.at = 4 => chip'.regs = Digits(w.t)
    BY <1>7, <1>9 DEF Registers
  <1>11. /\ told \subseteq told' /\ told' \subseteq Reach
         /\ w.at = 4 => w.t - true \in told' \cup believed
         /\ w.op = "service" => w.t - true \in told \cup believed
    <2>1. told' = IF w.op = "set" /\ w.at = 4 THEN told \cup {w.t - true} ELSE told
      BY DEF WriteRegister, w
    <2>2. w.op = "set" => w.t - true \in Reach
      BY <1>1, ErrorsInReach DEF WriterOK
    <2>3. w.op = "service" => w.t - true \in told \cup believed
      BY <1>1 DEF WriterOK
    <2>4. w.op \in {"set", "service"} /\ told \subseteq Reach
      BY <1>1 DEF Writes, ChipInv, ChipTypeOK
    <2>5. QED
      BY <2>1, <2>2, <2>3, <2>4
  <1>12. ChipTypeOK'
    BY <1>1, <1>5, <1>9, <1>11 DEF ChipInv, ChipTypeOK
  <1>13. LockHeld' /\ BootAlone' /\ SeedBelieved'
    <2>1. j.op \in {"set", "service"}
      BY <1>1, <1>4 DEF Writes
    <2>2. LockHeld'
      <3>1. ASSUME NEW q \in ClockTasks
            PROVE  /\ job'[q].at >= 1 => lock' = q
                   /\ job'[q].op \in {"valid", "seed"} => q = "boot" /\ job'[q].at >= 1
                   /\ job'[q].op = "service" => q = "loop"
        <4>1. CASE q = p
          BY <1>1, <1>2, <1>4, <1>5, <2>1, <4>1
        <4>2. CASE q # p
          BY <1>1, <1>5, <4>2 DEF ChipInv, LockHeld
        <4>3. QED
          BY <4>1, <4>2
      <3>2. QED
        BY <3>1 DEF LockHeld
    <2>3. BootAlone' /\ SeedBelieved'
      <3>1. CASE p = "boot"
        BY <1>5, <2>1, <3>1, TaskNames DEF BootAlone, SeedBelieved
      <3>2. CASE p # "boot"
        <4>1. job["boot"].op \in {"valid", "seed"} => job["boot"].at >= 1
          BY TaskNames DEF ChipInv, LockHeld
        <4>2. job["boot"].at = 0
          BY <1>2, <3>2, TaskNames
        <4>3. job'["boot"].op \notin {"valid", "seed"}
          BY <1>5, <3>2, <4>1, <4>2, TaskNames
        <4>4. QED
          BY <4>3 DEF BootAlone, SeedBelieved
      <3>3. QED
        BY <3>1, <3>2
    <2>4. QED
      BY <2>2, <2>3
  <1>14. ASSUME NEW q \in ClockTasks PROVE WriterOK(job[q])' /\ ReaderOK(job[q])'
    <2>1. CASE q = p
      <3>1. job'[q] = j
        BY <1>5, <2>1
      <3>2. WriterOK(job[q])'
        BY <1>1, <1>4, <1>6, <1>9, <1>10, <1>11, <3>1 DEF WriterOK, Writes
      <3>3. ReaderOK(job[q])'
        BY <1>1, <1>4, <3>1 DEF ReaderOK, Reads, Writes
      <3>4. QED
        BY <3>2, <3>3
    <2>2. CASE q # p
      <3>1. job'[q] = job[q] /\ job[q].at = 0
        BY <1>2, <1>5, <2>2
      <3>2. WriterOK(job[q]) /\ job[q].op # "seed"
        BY <3>1 DEF ChipInv, LockHeld
      <3>3. WriterOK(job[q])'
        BY <1>1, <1>11, <3>1, <3>2 DEF WriterOK, Writes
      <3>4. ReaderOK(job[q])'
        BY <3>1, <3>2 DEF ReaderOK
      <3>5. QED
        BY <3>3, <3>4
    <2>3. QED
      BY <2>1, <2>2
  <1>15. RunningChipTrue'
    <2>1. CASE w.at = 4
      BY <1>1, <1>7, <1>10, <1>11, <2>1 DEF RunningChipTrue, ChipInv, ChipTypeOK
    <2>2. CASE w.at # 4
      BY <1>1, <1>9, <2>2 DEF RunningChipTrue
    <2>3. QED
      BY <2>1, <2>2
  <1>16. NoTimeThatNeverWas'
    BY <1>1, <1>11 DEF ChipInv, NoTimeThatNeverWas
  <1>17. Agreed'
    <2>1. job'[p].at >= 2 /\ Writes(job'[p])
      BY <1>1, <1>4, <1>5 DEF Writes
    <2>2. AtWork(p)'
      BY <2>1 DEF AtWork, Writing, Writes
    <2>3. QED
      BY <2>2 DEF Agreed
  <1>18. WritebackCurrent'
    <2>1. job'["loop"].op = job["loop"].op /\ job'["loop"].t = job["loop"].t
      BY <1>4, <1>5, TaskNames DEF w
    <2>2. QED
      BY <1>1, <2>1 DEF ChipInv, WritebackCurrent
  <1>19. QED
    BY <1>12, <1>13, <1>14, <1>15, <1>16, <1>17, <1>18 DEF ChipInv

\* The end of a write: the chip shows the time written, and after a set so does the system
\* clock.
LEMMA InvWritten ==
    ASSUME ChipInv, NEW p \in ClockTasks, Written(p)
    PROVE  ChipInv'
  <1> DEFINE w == job[p]
  <1>1. /\ Writes(w) /\ w.at = 5 /\ w \in Jobs /\ WriterOK(w)
        /\ w.op = "service" => p = "loop"
        /\ job' = [job EXCEPT ![p] = Nothing]
        /\ UNCHANGED <<chip, true, told>> /\ left' = left /\ believed' = believed
    BY NoneBelieved DEF Written, Writing, Writes, ChipInv, ChipTypeOK, LockHeld
  <1>2. /\ ~chip.ch /\ chip.regs = Digits(w.t) /\ w.t - true \in told \cup believed
        /\ w.t \in Window /\ w.op \in {"set", "service"}
    BY <1>1 DEF WriterOK, Writes
  <1>3. w.t \in Int /\ Epoch(chip.regs) = w.t
    BY <1>2, WindowInCentury, DigitsOfTime
  <1>4. job[p].at >= 1
    <2>1. job[p].at = 5
      BY <1>1
    <2>2. QED
      BY <2>1
  <1>5. /\ job' \in [ClockTasks -> Jobs]
        /\ \A q \in ClockTasks : job'[q] = IF q = p THEN Nothing ELSE job[q]
        /\ \A q \in ClockTasks : job'[q].at = 0
        /\ \A q \in ClockTasks : ~AtWork(q)'
        /\ LockHeld'
    BY <1>1, <1>4, OneLess, Zenon
  <1>6. \/ /\ w.op = "set" /\ sys' = [set |-> TRUE, t |-> w.t]
           /\ stale' \in BOOLEAN
           /\ ~stale' => (job["loop"].op = "service" => job["loop"].t = w.t)
        \/ w.op = "service" /\ sys' = sys /\ stale' = stale
    <2>1. CASE w.op = "set"
      <3>1. stale' = (job["loop"].op = "service" /\ job["loop"].t # w.t)
        BY <2>1 DEF Written
      <3>2. stale' \in BOOLEAN /\ (~stale' => (job["loop"].op = "service" => job["loop"].t = w.t))
        BY <3>1
      <3>3. sys' = [set |-> TRUE, t |-> w.t]
        BY <2>1 DEF Written
      <3>4. QED
        BY <2>1, <3>2, <3>3
    <2>2. CASE w.op # "set"
      BY <1>2, <2>2 DEF Written
    <2>3. QED
      BY <2>1, <2>2
  <1>7. ChipTypeOK'
    <2>1. sys \in [set : BOOLEAN, t : Int] /\ stale \in BOOLEAN
      BY DEF ChipInv, ChipTypeOK
    <2>2. sys' \in [set : BOOLEAN, t : Int]
      <3>1. sys' = [set |-> TRUE, t |-> w.t] \/ sys' = sys
        BY <1>6, Zenon
      <3>2. w.t \in Int
        BY <1>3, Zenon
      <3> HIDE DEF w
      <3>3. [set |-> TRUE, t |-> w.t] \in [set : BOOLEAN, t : Int]
        BY <3>2
      <3>4. QED
        BY <2>1, <3>1, <3>3, Zenon
    <2>3. stale' \in BOOLEAN
      BY <1>6, <2>1, Zenon
    <2>4. QED
      BY <1>1, <1>5, <2>2, <2>3 DEF ChipInv, ChipTypeOK
  <1>8. ASSUME NEW q \in ClockTasks PROVE WriterOK(job[q])' /\ ReaderOK(job[q])'
    BY <1>1, <1>5, NothingFields DEF ChipInv, WriterOK, ReaderOK, Writes, Reads
  <1>9. RunningChipTrue' /\ NoTimeThatNeverWas'
    BY <1>1, <1>2, <1>6 DEF ChipInv, RunningChipTrue, NoTimeThatNeverWas
  <1>10. Agreed'
    <2>1. CASE w.op = "set"
      BY <1>1, <1>2, <1>3, <1>6, <2>1 DEF Agreed
    <2>2. CASE w.op = "service"
      <3>1. p = "loop" /\ sys' = sys /\ stale' = stale
        BY <1>1, <1>6, <2>2
      <3>2. sys.set /\ ~stale => sys.t = w.t
        BY <2>2, <3>1 DEF ChipInv, WritebackCurrent
      <3>3. QED
        BY <1>1, <1>2, <1>3, <3>1, <3>2 DEF Agreed
    <2>3. QED
      BY <1>2, <2>1, <2>2
  <1>11. WritebackCurrent'
    <2>1. CASE p = "loop"
      BY <1>5, <2>1, NothingFields, TaskNames DEF WritebackCurrent
    <2>2. CASE p # "loop"
      BY <1>1, <1>5, <1>6, <2>2, TaskNames DEF WritebackCurrent
    <2>3. QED
      BY <2>1, <2>2
  <1>12. BootAlone' /\ SeedBelieved'
    BY <1>1, <1>5, NothingFields, TaskNames DEF ChipInv, BootAlone, SeedBelieved
  <1>13. QED
    BY <1>5, <1>7, <1>8, <1>9, <1>10, <1>11, <1>12 DEF ChipInv

\* A second passes for the chip, the system clock and the truth alike, before the chip's
\* digits have come to an end.
LEMMA InvSecond == ChipInv /\ Second => ChipInv'
  <1> SUFFICES ASSUME ChipInv, Second PROVE ChipInv'
    OBVIOUS
  <1> DEFINE E == Epoch(chip.regs)
  <1>1. /\ true' = true + 1 /\ true < LastSecond /\ true \in Int
        /\ UNCHANGED <<lock, told, stale>> /\ left' = left /\ believed' = believed
        /\ chip \in [regs : Registers, ch : BOOLEAN] /\ sys \in [set : BOOLEAN, t : Int]
        /\ job \in [ClockTasks -> Jobs]
    BY NoneBelieved DEF Second, ChipInv, ChipTypeOK
  <1>2. \A q \in ClockTasks : ~Writes(job[q]) /\ ~job[q].turned
    BY DEF Second, Writing, Writes
  <1>3. ASSUME NEW q \in ClockTasks
        PROVE  /\ job'[q] \in Jobs
               /\ job'[q].op = job[q].op /\ job'[q].at = job[q].at /\ job'[q].got = job[q].got
               /\ Reads(job[q]) /\ job[q].at >= 2 => job'[q].turned
    <2>1. job'[q] = [job[q] EXCEPT !.turned = Reading(q) /\ job[q].at > 1]
      BY DEF Second
    <2>2. job[q] \in Jobs /\ job[q].at \in Int
      BY <1>1 DEF Jobs
    <2> DEFINE b == Reading(q) /\ job[q].at > 1
    <2>3. b \in BOOLEAN
      OBVIOUS
    <2>4. Reads(job[q]) /\ job[q].at >= 2 => b
      BY <2>2 DEF Reading, Reads
    <2>5. job'[q] = [job[q] EXCEPT !.turned = b]
      BY <2>1
    <2> HIDE DEF b
    <2>6. job'[q] \in Jobs /\ job'[q].turned = b
      BY <2>2, <2>3, <2>5 DEF Jobs
    <2>7. job'[q].op = job[q].op /\ job'[q].at = job[q].at /\ job'[q].got = job[q].got
      BY <2>2, <2>5 DEF Jobs
    <2>8. QED
      BY <2>4, <2>6, <2>7
  <1>4. E \in Century /\ chip.regs \in Registers
    BY <1>1, TimeOfDigits
  <1>13. E \in Int /\ Epoch(chip.regs) = E
    BY <1>4 DEF Century
  <1>5. /\ sys' \in [set : BOOLEAN, t : Int] /\ sys'.set = sys.set
        /\ sys.set => sys'.t = sys.t + 1
    BY <1>1 DEF Second
  <1>6. ASSUME ~chip.ch
        PROVE  /\ chip' = [chip EXCEPT !.regs = Digits(E + 1)]
               /\ E + 1 \in Century /\ Digits(E + 1) \in Registers
               /\ Epoch(Digits(E + 1)) = E + 1
               /\ Digits(E + 1).sec # chip.regs.sec
    <2>1. E - true \in told \cup left /\ E \in Nat
      BY <1>4, <1>6 DEF ChipInv, RunningChipTrue, Century
    <2>2. E + 1 \in Nat
      BY <2>1
    <2>3. E + 1 \in Century
      <3>1. E - true \in Reach
        BY <2>1 DEF ChipInv, ChipTypeOK
      <3>2. LastSecond + (E - true) < Base * Base * Base
        BY <3>1 DEF Reach
      <3>3. Base * Base * Base \in Int /\ LastSecond \in Int
        BY RtcAssumption
      <3> HIDE DEF E
      <3>4. QED
        BY <1>1, <2>1, <3>2, <3>3 DEF Century
    <2>4. (E + 1) % (Base * Base * Base) = E + 1
      <3>1. Base * Base * Base \in Nat \ {0} /\ E + 1 \in Nat /\ E + 1 < Base * Base * Base
        BY <2>2, <2>3, RtcAssumption DEF Century
      <3> DEFINE M == Base * Base * Base
                 x == E + 1
      <3> HIDE DEF M, x
      <3>2. x % M = x
        BY <3>1 DEF M, x
      <3>3. QED
        BY <3>2 DEF M, x
    <2>5. chip' = [chip EXCEPT !.regs = Digits((E + 1) % (Base * Base * Base))]
      BY <1>1, <1>6 DEF Second
    <2>6. QED
      BY <1>4, <2>3, <2>4, <2>5, DigitsOfTime, TimeOfDigits
  <1>7. chip.ch => chip' = chip
    BY DEF Second
  <1> HIDE DEF E
  <1>8. chip' \in [regs : Registers, ch : BOOLEAN] /\ chip'.ch = chip.ch
    BY <1>1, <1>6, <1>7
  <1>9. ~chip.ch => chip'.regs = Digits(E + 1)
    BY <1>1, <1>6
  <1>10. ChipTypeOK'
    <2>1. job' \in [ClockTasks -> Jobs]
      <3>1. job' = [q \in ClockTasks |-> job'[q]]
        BY DEF Second
      <3>2. QED
        BY <1>3, <3>1
    <2>2. true' \in Int /\ true' >= RtcMin
      BY <1>1, RtcAssumption DEF ChipInv, ChipTypeOK
    <2>3. QED
      BY <1>1, <1>5, <1>8, <2>1, <2>2 DEF ChipInv, ChipTypeOK
  <1>11. LockHeld' /\ BootAlone'
    BY <1>1, <1>3, TaskNames DEF ChipInv, LockHeld, BootAlone
  <1>12. ASSUME NEW q \in ClockTasks PROVE WriterOK(job[q])' /\ ReaderOK(job[q])'
    <2>1. WriterOK(job[q])'
      BY <1>2, <1>3 DEF WriterOK, Writes
    <2>2. ReaderOK(job[q])
      BY DEF ChipInv
    <2>3. CASE ~Reads(job[q])
      <3>1. job'[q].op = job[q].op /\ job[q].op \notin {"read", "valid", "seed"}
        BY <1>3, <2>3 DEF Reads
      <3>2. QED
        BY <2>1, <3>1 DEF ReaderOK, Reads
    <2>4. CASE Reads(job[q])
      <3>1. Reads(job[q])' /\ job'[q].at <= 4
        BY <1>3, <1>8, <2>2, <2>4 DEF ReaderOK, Reads
      <3>2. job'[q].at >= 2 => job'[q].turned
        BY <1>3, <2>4
      <3>3. job[q].at >= 2 => job[q].got.sec = chip.regs.sec
        BY <1>2, <2>2, <2>4 DEF ReaderOK
      <3>4. chip.ch => /\ job'[q].at >= 3 => job'[q].got.mid = chip'.regs.mid
                       /\ job'[q].at >= 4 => job'[q].got.top = chip'.regs.top
        <4>1. job[q].at \in 0 .. 5
          BY <1>1 DEF Jobs
        <4>2. /\ job[q].at >= 3 => job[q].got.mid = chip.regs.mid
              /\ job[q].at >= 4 => job[q].got.top = chip.regs.top
          BY <2>2, <2>4, <3>3, <4>1 DEF ReaderOK
        <4>3. QED
          BY <1>3, <1>7, <4>2
      <3>5. ~chip.ch /\ job'[q].at >= 2 => job'[q].got.sec # chip'.regs.sec
        <4>1. job'[q].got = job[q].got /\ job'[q].at = job[q].at
          BY <1>3, Zenon
        <4>2. ~chip.ch => chip'.regs.sec # chip.regs.sec
          BY <1>6, <1>9
        <4>3. QED
          BY <3>3, <4>1, <4>2
      <3>6. QED
        BY <2>1, <3>1, <3>2, <3>4, <3>5, Zenon DEF ReaderOK
    <2>5. QED
      BY <2>1, <2>3, <2>4
  <1>14. RunningChipTrue' /\ SeedBelieved'
    <2>1. ~chip.ch => chip'.regs = Digits(E + 1) /\ Epoch(chip'.regs) - true' = E - true
      BY <1>1, <1>6, <1>9, <1>13, Shift
    <2>2. ~chip.ch => E - true \in told \cup left
      BY <1>13 DEF ChipInv, RunningChipTrue
    <2>3. job["boot"].op = "seed" => ~chip.ch /\ E - true \in told \cup believed
      BY <1>13 DEF ChipInv, SeedBelieved
    <2>4. job'["boot"].op = job["boot"].op
      BY <1>3, TaskNames
    <2>5. QED
      BY <1>1, <1>8, <2>1, <2>2, <2>3, <2>4 DEF RunningChipTrue, SeedBelieved
  <1>15. NoTimeThatNeverWas'
    <2>1. ASSUME sys.set PROVE (sys.t + 1) - (true + 1) \in told \cup believed
      <3>1. (sys.t + 1) - (true + 1) = sys.t - true
        BY <1>1
      <3>2. QED
        BY <2>1, <3>1 DEF ChipInv, NoTimeThatNeverWas
    <2>2. QED
      BY <1>1, <1>5, <2>1 DEF NoTimeThatNeverWas
  <1>16. Agreed'
    <2>1. \A q \in ClockTasks : ~AtWork(q)
      BY <1>2 DEF AtWork, Writing, Writes
    <2>2. sys.set /\ ~stale => ~chip.ch /\ E = sys.t
      BY <1>13, <2>1 DEF ChipInv, Agreed
    <2>3. QED
      BY <1>1, <1>5, <1>6, <1>8, <1>9, <2>2 DEF Agreed
  <1>17. WritebackCurrent'
    BY <1>2, <1>3, TaskNames DEF WritebackCurrent, Writes
  <1>18. QED
    BY <1>10, <1>11, <1>12, <1>14, <1>15, <1>16, <1>17 DEF ChipInv

\* A boot begins with the first register of rtc_init.
LEMMA BootingFields ==
    /\ Booting \in [ClockTasks -> Jobs]
    /\ \A q \in ClockTasks : q # "boot" => Booting[q] = Nothing
    /\ Booting["boot"].op = "valid" /\ Booting["boot"].at = 1
  <1>1. [Nothing EXCEPT !.op = "valid", !.at = 1] \in Jobs
    <2>1. Nothing \in Jobs /\ 1 \in 0 .. 5
      BY NothingFields
    <2>2. QED
      BY <2>1 DEF Jobs
  <1>2. QED
    BY <1>1, NothingFields, TaskNames DEF Booting, Nothing

\* What a boot needs: a chip that is halted, or shows a time somebody set or what a flat
\* cell left.
BootState ==
    ChipTypeOK /\ job = Booting /\ lock = "boot" /\ sys.set = FALSE /\ RunningChipTrue

\* It holds the lock, and no other task has begun.
LEMMA BootKeeps == BootState => ChipInv
  <1> SUFFICES ASSUME BootState PROVE ChipInv
    OBVIOUS
  <1> USE DEF BootState
  <1>1. LockHeld /\ BootAlone /\ SeedBelieved
    BY BootingFields, NothingFields, TaskNames DEF LockHeld, BootAlone, SeedBelieved
  <1>2. ASSUME NEW q \in ClockTasks PROVE WriterOK(job[q]) /\ ReaderOK(job[q])
    <2>1. CASE q = "boot"
      BY <2>1, BootingFields DEF WriterOK, ReaderOK, Writes, Reads
    <2>2. CASE q # "boot"
      BY <2>2, BootingFields, NothingFields
    <2>3. QED
      BY <2>1, <2>2
  <1>3. NoTimeThatNeverWas /\ Agreed
    BY DEF NoTimeThatNeverWas, Agreed
  <1>4. WritebackCurrent
    BY BootingFields, NothingFields, TaskNames DEF WritebackCurrent
  <1>5. QED
    BY <1>1, <1>2, <1>3, <1>4 DEF ChipInv

\* Power goes: what was on the bus is over, and the next boot begins.
LEMMA InvPowerCut ==
    ASSUME ChipInv, NEW flat \in BOOLEAN, PowerCut(flat)
    PROVE  ChipInv'
  <1>1. /\ sys' = [set |-> FALSE, t |-> 0] /\ lock' = "boot" /\ job' = Booting
        /\ stale' = FALSE /\ true' = true
    BY DEF PowerCut
  <1>2. /\ true \in Int /\ true >= RtcMin /\ chip \in [regs : Registers, ch : BOOLEAN]
    BY DEF ChipInv, ChipTypeOK
  <1>3. sys' \in [set : BOOLEAN, t : Int] /\ stale' \in BOOLEAN /\ job' \in [ClockTasks -> Jobs]
    <2>1. [set |-> FALSE, t |-> 0] \in [set : BOOLEAN, t : Int]
      OBVIOUS
    <2>2. QED
      BY <1>1, <2>1, BootingFields, Zenon
  <1>4. /\ chip' \in [regs : Registers, ch : BOOLEAN]
        /\ told' \subseteq Reach /\ left' \subseteq Reach /\ believed' \subseteq left'
        /\ RunningChipTrue'
    <2>1. CASE ~flat
      <3>1. chip' = chip /\ told' = told /\ left' = left /\ believed' = believed
        BY <2>1, NoneBelieved DEF PowerCut
      <3>2. QED
        BY <1>1, <1>2, <3>1 DEF ChipInv, ChipTypeOK, RunningChipTrue
    <2>2. CASE flat
      <3>1. /\ chip' \in Uncelled /\ told' = {} /\ believed' = {}
            /\ left' = IF chip'.ch THEN {} ELSE {Epoch(chip'.regs) - true}
        BY <2>2 DEF PowerCut
      <3>2. CASE chip' = [chip EXCEPT !.ch = TRUE]
        <4>1. chip' \in [regs : Registers, ch : BOOLEAN] /\ chip'.ch
          BY <1>2, <3>2
        <4>2. QED
          BY <3>1, <4>1 DEF RunningChipTrue
      <3>3. ASSUME NEW g \in Garbage, NEW b \in BOOLEAN, chip' = [regs |-> Digits(g), ch |-> b]
            PROVE  /\ chip' \in [regs : Registers, ch : BOOLEAN]
                   /\ left' \subseteq Reach /\ RunningChipTrue'
        <4>1. Digits(g) \in Registers /\ Epoch(Digits(g)) = g /\ g - true \in Reach
          BY <1>2, GarbageInReach
        <4>2. chip'.regs = Digits(g) /\ chip' \in [regs : Registers, ch : BOOLEAN]
          BY <3>3, <4>1
        <4>3. left' = IF chip'.ch THEN {} ELSE {g - true}
          BY <3>1, <4>1, <4>2
        <4>4. QED
          BY <1>1, <4>1, <4>2, <4>3 DEF RunningChipTrue
      <3>4. QED
        BY <3>1, <3>2, <3>3 DEF Uncelled
    <2>3. QED
      BY <2>1, <2>2
  <1>5. BootState'
    BY <1>1, <1>2, <1>3, <1>4 DEF BootState, ChipTypeOK
  <1>6. QED
    BY <1>5, BootKeeps, PTL

\* The board comes up with nothing on the bus.
LEMMA ChipInvInit == ClockInit => ChipInv
  <1> SUFFICES ASSUME ClockInit PROVE ChipInv
    OBVIOUS
  <1>1. /\ true \in Window /\ chip = [regs |-> Digits(true), ch |-> FALSE]
        /\ sys = [set |-> FALSE, t |-> 0] /\ lock = "boot" /\ job = Booting
        /\ told = {0} /\ left = {} /\ believed = {} /\ stale = FALSE
    BY DEF ClockInit
  <1>2. /\ true \in Int /\ Digits(true) \in Registers /\ Epoch(Digits(true)) = true
    <2>1. true \in Int /\ true \in Century
      BY <1>1, WindowInCentury, Zenon
    <2>2. QED
      BY <2>1, DigitsOfTime
  <1>3. ChipTypeOK
    <2>1. chip \in [regs : Registers, ch : BOOLEAN]
      BY <1>1, <1>2
    <2>2. sys \in [set : BOOLEAN, t : Int]
      <3>1. sys = [set |-> FALSE, t |-> 0]
        BY <1>1, Zenon
      <3>2. QED
        BY <3>1
    <2>3. /\ stale \in BOOLEAN /\ told \subseteq Reach /\ left \subseteq Reach
          /\ believed \subseteq left
      BY <1>1, ErrorsInReach
    <2>4. true >= RtcMin
      BY <1>1, RtcAssumption DEF Window
    <2>5. QED
      BY <1>1, <1>2, <2>1, <2>2, <2>3, <2>4, BootingFields DEF ChipTypeOK
  <1>4. RunningChipTrue
    <2>0. chip = [regs |-> Digits(true), ch |-> FALSE] /\ told = {0}
      BY <1>1, Zenon
    <2>1. chip.regs = Digits(true) /\ told = {0}
      BY <2>0
    <2>2. true - true = 0
      <3>1. true \in Int
        BY <1>2, Zenon
      <3>2. QED
        BY <3>1
    <2>3. QED
      BY <1>2, <2>1, <2>2 DEF RunningChipTrue
  <1>5. QED
    BY <1>1, <1>3, <1>4, BootKeeps DEF BootState

\* No step breaks the invariant.
LEMMA ChipInvStep == ChipInv /\ [ClockNext]_clockVars => ChipInv'
  <1> SUFFICES ASSUME ChipInv, [ClockNext]_clockVars PROVE ChipInv'
    OBVIOUS
  <1>1. CASE \E p \in {"loop", "host"}, e \in Errors : BeginSet(p, true + e)
    BY <1>1, InvBeginSet
  <1>2. CASE \E p \in ClockTasks : TakeLock(p) \/ WriteRegister(p) \/ Written(p)
    BY <1>2, InvTakeLock, InvWriteRegister, InvWritten
  <1>3. CASE \E p \in ClockTasks : ReadRegister(p) \/ RetryRead(p) \/ ReadAgain(p) \/ ReadDone(p)
    BY <1>3, InvReadRegister, InvRetryRead, InvReadAgain, InvReadDone
  <1>4. CASE \E flat \in BOOLEAN : PowerCut(flat)
    BY <1>4, InvPowerCut
  <1>5. CASE UNCHANGED clockVars
    BY <1>5 DEF clockVars, cellVars, ChipInv, ChipTypeOK, LockHeld, BootAlone, WriterOK,
                ReaderOK, SeedBelieved,
                RunningChipTrue, NoTimeThatNeverWas, Agreed, AtWork, Writing, WritebackCurrent
  <1>6. QED
    BY <1>1, <1>2, <1>3, <1>4, <1>5, InvSecond, InvBeginService, InvBeginRead DEF ClockNext

\* The system clock, once set, is as far from the true time as somebody's clock that set it:
\* no torn write, no power cut between two registers, no carry in the middle of a read and
\* no flat cell makes up a time (rtc_write_raw_locked, rtc_read_raw_locked,
\* rtc_valid_locked), unless the cell left the chip running with a time within the window.
THEOREM ClockNeverInvents == ClockSpec => []NoTimeThatNeverWas
  <1>1. ChipInv => NoTimeThatNeverWas
    BY DEF ChipInv
  <1>2. QED
    BY <1>1, ChipInvInit, ChipInvStep, PTL DEF ClockSpec

\* With nobody at work the chip runs and shows the system clock's time, unless a writeback
\* had read that clock before the last set (rtc_set_epoch, rtc_service).
THEOREM ChipAndClockAgree == ClockSpec => []ClocksAgree
  <1>1. ChipInv => ClocksAgree
    <2> SUFFICES ASSUME ChipInv, sys.set, ~stale, \A p \in ClockTasks : job[p] = Nothing
                 PROVE  ~chip.ch /\ Epoch(chip.regs) = sys.t
      BY DEF ClocksAgree
    <2>1. \A p \in ClockTasks : ~AtWork(p)
      BY NothingFields DEF AtWork, Writing, Writes
    <2>2. QED
      BY <2>1 DEF ChipInv, Agreed
  <1>2. QED
    BY <1>1, ChipInvInit, ChipInvStep, PTL DEF ClockSpec

-----------------------------------------------------------------------------
(* Faults. *)

\* The lines and the tasks of the fault masks
Lines == [asserted : BOOLEAN, ticks : Nat, emptied : BOOLEAN]
TaskStates == [step : {"idle", "loaded", "stored"}, code : Codes \cup {"none"},
               reg : SUBSET Codes]

\* The code of a stuck line is the coin task's own.
OwnCode(t, code) == code \in Codes /\ (code = "coin" => t = "coin")

\* What the proofs need to know of the types
MaskTypeOK ==
    /\ raised \in SUBSET Codes
    /\ overlap \in BOOLEAN
    /\ at \in [Tasks -> TaskStates]
    /\ \A t \in Tasks : IF at[t].step = "loaded" THEN OwnCode(t, at[t].code)
                       ELSE at[t].code = "none"

\* What a task has loaded is still the mask, unless an overlap is on record.
LoadedIsCurrent ==
    ~overlap => \A t \in Tasks : at[t].step = "loaded" => at[t].reg = raised

\* The two halves of FaultsKept
NothingLost == ~overlap => raised = kept

StuckLineRaised ==
    ~overlap /\ line.ticks = StuckTicks /\ ~line.emptied /\ at["coin"].code # "coin"
    => "coin" \in raised

\* The inductive invariant of the fault masks
FaultsInv ==
    MaskTypeOK /\ line \in Lines /\ LoadedIsCurrent /\ NothingLost /\ StuckLineRaised

\* It says that no fault is lost.
LEMMA InvKeeps == FaultsInv => FaultsKept
BY DEF FaultsInv, NothingLost, StuckLineRaised, FaultsKept

\* The coin detector is one of the tasks that raise faults.
LEMMA CoinIsTask == "coin" \in Tasks
BY DEF Tasks

\* An update moves one task only.
LEMMA AtMoves ==
    ASSUME MaskTypeOK, NEW t \in Tasks, NEW new \in TaskStates,
           at' = [at EXCEPT ![t] = new]
    PROVE  /\ at' \in [Tasks -> TaskStates]
           /\ \A u \in Tasks : at'[u] = IF u = t THEN new ELSE at[u]
BY DEF MaskTypeOK

-----------------------------------------------------------------------------
(* The steps of an update                                                  *)

\* A load: what is loaded is the mask.  The line moves only with its own code.
LEMMA LoadKeeps ==
    ASSUME FaultsInv, NEW t \in Tasks, NEW code, OwnCode(t, code), RaiseLoad(t, code),
           line' \in Lines, code = "coin" \/ line' = line
    PROVE  FaultsInv'
  <1> DEFINE new == [step |-> "loaded", code |-> code, reg |-> raised]
  <1>1. new \in TaskStates /\ new.step = "loaded" /\ new.code = code /\ new.reg = raised
    BY DEF OwnCode, FaultsInv, MaskTypeOK, TaskStates
  <1>2. at' = [at EXCEPT ![t] = new]
    BY DEF RaiseLoad
  <1> HIDE DEF new
  <1>3. /\ at' \in [Tasks -> TaskStates]
        /\ \A u \in Tasks : at'[u] = IF u = t THEN new ELSE at[u]
    BY <1>1, <1>2, AtMoves DEF FaultsInv
  <1>4. raised' = raised /\ kept' = kept /\ overlap' = overlap /\ at[t].code = "none"
    BY DEF RaiseLoad, Rest
  <1>5. MaskTypeOK'
    BY <1>1, <1>3, <1>4 DEF FaultsInv, MaskTypeOK, OwnCode
  <1>6. LoadedIsCurrent'
    BY <1>1, <1>3, <1>4 DEF FaultsInv, LoadedIsCurrent
  <1>7. NothingLost'
    BY <1>4 DEF FaultsInv, NothingLost
  <1>8. StuckLineRaised'
    BY <1>1, <1>3, <1>4, CoinIsTask DEF FaultsInv, StuckLineRaised, OwnCode
  <1>9. QED
    BY <1>5, <1>6, <1>7, <1>8 DEF FaultsInv

\* A store puts back what was loaded, with one more.  Another task that has loaded by then
\* makes it an overlap.
LEMMA StoreKeeps ==
    ASSUME FaultsInv, NEW t \in Tasks, RaiseStore(t), line' = line
    PROVE  FaultsInv'
  <1> DEFINE new == [Rest EXCEPT !.step = "stored"]
  <1>1. new \in TaskStates /\ new.step = "stored" /\ new.code = "none"
    BY DEF TaskStates, Rest
  <1>2. at' = [at EXCEPT ![t] = new]
    BY DEF RaiseStore
  <1> HIDE DEF new
  <1>3. /\ at' \in [Tasks -> TaskStates]
        /\ \A u \in Tasks : at'[u] = IF u = t THEN new ELSE at[u]
    BY <1>1, <1>2, AtMoves DEF FaultsInv
  <1>4. at[t].step = "loaded" /\ OwnCode(t, at[t].code) /\ at[t].reg \in SUBSET Codes
    BY DEF RaiseStore, FaultsInv, MaskTypeOK, TaskStates
  <1>5. /\ raised' = at[t].reg \cup {at[t].code}
        /\ kept' = kept \cup {at[t].code}
        /\ overlap' = (overlap \/ Updating # {t})
    BY DEF RaiseStore, WithCode
  <1>6. MaskTypeOK'
    <2>1. overlap' \in BOOLEAN
      BY <1>5
    <2>2. raised' \in SUBSET Codes
      BY <1>4, <1>5 DEF OwnCode
    <2>3. \A u \in Tasks : IF at'[u].step = "loaded" THEN OwnCode(u, at'[u].code)
                            ELSE at'[u].code = "none"
      BY <1>1, <1>3 DEF FaultsInv, MaskTypeOK
    <2>4. QED
      BY <1>3, <2>1, <2>2, <2>3 DEF MaskTypeOK, OwnCode
  <1>7. ASSUME ~overlap'
        PROVE  ~overlap /\ at[t].reg = raised
               /\ \A u \in Tasks : at'[u].step # "loaded"
    <2>1. ~overlap /\ Updating = {t}
      BY <1>5, <1>7
    <2>2. at[t].reg = raised
      BY <1>4, <2>1 DEF FaultsInv, LoadedIsCurrent
    <2>3. \A u \in Tasks : at'[u].step # "loaded"
      BY <1>1, <1>3, <2>1 DEF Updating
    <2>4. QED
      BY <2>1, <2>2, <2>3
  <1>8. LoadedIsCurrent'
    BY <1>7 DEF LoadedIsCurrent
  <1>9. NothingLost'
    BY <1>5, <1>7 DEF FaultsInv, NothingLost
  <1>10. StuckLineRaised'
    <2>1. CASE at[t].code = "coin"
      BY <1>5, <2>1 DEF StuckLineRaised
    <2>2. CASE at[t].code # "coin"
      BY <1>3, <1>5, <1>7, <2>2, CoinIsTask DEF FaultsInv, StuckLineRaised
    <2>3. QED
      BY <2>1, <2>2
  <1>11. QED
    BY <1>6, <1>8, <1>9, <1>10 DEF FaultsInv

\* The flag ends an update and leaves the mask alone.
LEMMA NewsKeeps ==
    ASSUME FaultsInv, NEW t \in Tasks, RaiseNews(t), line' = line
    PROVE  FaultsInv'
  <1>1. Rest \in TaskStates /\ Rest.step = "idle" /\ Rest.code = "none"
    BY DEF TaskStates, Rest
  <1>2. /\ at' \in [Tasks -> TaskStates]
        /\ \A u \in Tasks : at'[u] = IF u = t THEN Rest ELSE at[u]
    BY <1>1, AtMoves DEF RaiseNews, FaultsInv
  <1>3. at[t].step = "stored" /\ raised' = raised /\ kept' = kept /\ overlap' = overlap
    BY DEF RaiseNews
  <1>4. MaskTypeOK'
    BY <1>1, <1>2, <1>3 DEF FaultsInv, MaskTypeOK, OwnCode
  <1>5. LoadedIsCurrent'
    BY <1>1, <1>2, <1>3 DEF FaultsInv, LoadedIsCurrent
  <1>6. NothingLost'
    BY <1>3 DEF FaultsInv, NothingLost
  <1>7. StuckLineRaised'
    BY <1>2, <1>3, CoinIsTask DEF FaultsInv, MaskTypeOK, StuckLineRaised
  <1>8. QED
    BY <1>4, <1>5, <1>6, <1>7 DEF FaultsInv

\* clear_errors, in loop(): a load that is under way makes it an overlap.
LEMMA ClearKeeps ==
    ASSUME FaultsInv, ClearAll, line' = [line EXCEPT !.emptied = TRUE]
    PROVE  FaultsInv'
  <1> DEFINE new == [Rest EXCEPT !.step = "stored"]
  <1>1. new \in TaskStates /\ new.step = "stored" /\ new.code = "none" /\ "loop" \in Tasks
    BY DEF TaskStates, Rest, Tasks
  <1>2. at' = [at EXCEPT !["loop"] = new]
    BY DEF ClearAll
  <1> HIDE DEF new
  <1>3. /\ at' \in [Tasks -> TaskStates]
        /\ \A u \in Tasks : at'[u] = IF u = "loop" THEN new ELSE at[u]
    BY <1>1, <1>2, AtMoves DEF FaultsInv
  <1>4. raised' = {} /\ kept' = {} /\ overlap' = (overlap \/ Updating # {})
    BY DEF ClearAll
  <1>5. MaskTypeOK'
    <2>1. overlap' \in BOOLEAN
      BY <1>4
    <2>2. \A u \in Tasks : IF at'[u].step = "loaded" THEN OwnCode(u, at'[u].code)
                            ELSE at'[u].code = "none"
      BY <1>1, <1>3 DEF FaultsInv, MaskTypeOK
    <2>3. QED
      BY <1>3, <1>4, <2>1, <2>2 DEF MaskTypeOK, OwnCode
  <1>6. LoadedIsCurrent'
    <2>1. ASSUME ~overlap' PROVE \A u \in Tasks : at'[u].step # "loaded"
      BY <1>1, <1>3, <1>4, <2>1 DEF Updating
    <2>2. QED
      BY <2>1 DEF LoadedIsCurrent
  <1>7. NothingLost'
    BY <1>4 DEF NothingLost
  <1>8. line' \in Lines /\ line'.emptied
    BY DEF FaultsInv, Lines
  <1>9. StuckLineRaised'
    BY <1>8 DEF StuckLineRaised
  <1>10. QED
    BY <1>5, <1>6, <1>7, <1>8, <1>9 DEF FaultsInv

\* What leaves the mask and the line alone
LEMMA Unmoved ==
    ASSUME FaultsInv, UNCHANGED <<raised, at, kept, overlap, line>>
    PROVE  FaultsInv'
BY DEF FaultsInv, MaskTypeOK, OwnCode, LoadedIsCurrent, NothingLost, StuckLineRaised

-----------------------------------------------------------------------------
(* The invariant, action by action                                         *)

\* No fault is known at the start.
LEMMA FaultsInvInit == FaultsInit => FaultsInv
  <1> SUFFICES ASSUME FaultsInit PROVE FaultsInv
    OBVIOUS
  <1>1. /\ raised \in SUBSET Codes /\ kept = raised /\ overlap = FALSE
        /\ at = [t \in Tasks |-> Rest]
        /\ line = [asserted |-> FALSE, ticks |-> 0, emptied |-> FALSE]
    BY DEF FaultsInit, Codes
  <1>2. Rest \in TaskStates /\ Rest.step = "idle" /\ Rest.code = "none"
    BY DEF TaskStates, Rest
  <1>3. MaskTypeOK
    BY <1>1, <1>2 DEF MaskTypeOK
  <1>4. LoadedIsCurrent /\ NothingLost
    BY <1>1, <1>2 DEF LoadedIsCurrent, NothingLost
  <1>5. line \in Lines /\ line.ticks # StuckTicks
    BY <1>1, FaultsAssumption DEF Lines
  <1>6. QED
    BY <1>3, <1>4, <1>5 DEF FaultsInv, StuckLineRaised

\* A line changes.
LEMMA InvLineTurns == FaultsInv /\ LineTurns => FaultsInv'
  <1> SUFFICES ASSUME FaultsInv, LineTurns PROVE FaultsInv'
    OBVIOUS
  <1>1. UNCHANGED <<raised, at, kept, overlap>>
    BY DEF LineTurns, maskVars
  <1>2. line' \in Lines /\ line'.ticks # StuckTicks
    BY FaultsAssumption DEF LineTurns, FaultsInv, Lines
  <1>3. QED
    BY <1>1, <1>2
       DEF FaultsInv, MaskTypeOK, OwnCode, LoadedIsCurrent, NothingLost, StuckLineRaised

\* The line is stuck in the step in which the coin task loads the mask, or its fault was
\* in the mask.
LEMMA InvCoinTick == FaultsInv /\ CoinTick => FaultsInv'
  <1> SUFFICES ASSUME FaultsInv, CoinTick PROVE FaultsInv'
    OBVIOUS
  <1>1. line' \in Lines /\ line'.ticks = line.ticks + 1
    BY DEF CoinTick, FaultsInv, Lines
  <1>2. CASE line.ticks + 1 = StuckTicks /\ "coin" \notin raised
    <2>1. RaiseLoad("coin", "coin") /\ OwnCode("coin", "coin")
      BY <1>2 DEF CoinTick, OwnCode, Codes
    <2>2. QED
      BY <1>1, <2>1, LoadKeeps, CoinIsTask
  <1>3. CASE ~(line.ticks + 1 = StuckTicks /\ "coin" \notin raised)
    <2>1. UNCHANGED <<raised, at, kept, overlap>>
      BY <1>3 DEF CoinTick, maskVars
    <2>2. line'.ticks # StuckTicks \/ "coin" \in raised
      BY <1>1, <1>3
    <2>3. QED
      BY <1>1, <2>1, <2>2
         DEF FaultsInv, MaskTypeOK, OwnCode, LoadedIsCurrent, NothingLost, StuckLineRaised
  <1>4. QED
    BY <1>2, <1>3

\* A task loads the mask, or stores it.
LEMMA InvRaiseStep ==
    ASSUME FaultsInv, NEW t \in Tasks, RaiseStep(t)
    PROVE  FaultsInv'
  <1>1. line' = line
    BY DEF RaiseStep
  <1>2. CASE RaiseStore(t)
    BY <1>1, <1>2, StoreKeeps
  <1>3. CASE RaiseNews(t)
    BY <1>1, <1>3, NewsKeeps
  <1>4. QED
    BY <1>2, <1>3 DEF RaiseStep

\* A flash write fails.
LEMMA InvWriteFails ==
    ASSUME FaultsInv, NEW t \in {"coin", "app", "host"}, WriteFails(t)
    PROVE  FaultsInv'
  <1>1. RaiseLoad(t, "nvs") /\ line' = line
    BY DEF WriteFails
  <1>2. t \in Tasks /\ OwnCode(t, "nvs")
    BY DEF Tasks, OwnCode, Codes
  <1>3. QED
    BY <1>1, <1>2, LoadKeeps DEF FaultsInv

\* loop() looks at the lines.
LEMMA InvLoopStep == FaultsInv /\ LoopStep => FaultsInv'
  <1> SUFFICES ASSUME FaultsInv, LoopStep PROVE FaultsInv'
    OBVIOUS
  <1>1. "loop" \in Tasks /\ OwnCode("loop", "nvs") /\ OwnCode("loop", "rtc")
    BY DEF Tasks, OwnCode, Codes
  <1>2. CASE RaiseStep("loop")
    BY <1>1, <1>2, InvRaiseStep
  <1>3. CASE LoopSaves
    <2>1. line' = line
      BY <1>3 DEF LoopSaves
    <2>2. CASE RaiseLoad("loop", "nvs")
      BY <1>1, <2>1, <2>2, LoadKeeps DEF FaultsInv
    <2>3. CASE UNCHANGED maskVars
      BY <2>1, <2>3, Unmoved DEF maskVars
    <2>4. QED
      BY <1>3, <2>2, <2>3 DEF LoopSaves
  <1>4. CASE DiagService
    <2>1. line' = line
      BY <1>4 DEF DiagService
    <2>2. CASE RaiseLoad("loop", "rtc")
      BY <1>1, <2>1, <2>2, LoadKeeps DEF FaultsInv
    <2>3. CASE UNCHANGED maskVars
      BY <2>1, <2>3, Unmoved DEF maskVars
    <2>4. QED
      BY <1>4, <2>2, <2>3 DEF DiagService
  <1>5. CASE LoadNews \/ TakeNews \/ Publish
    BY <1>5, Unmoved DEF LoadNews, TakeNews, Publish, maskVars
  <1>6. CASE RunCommand
    <2>1. CASE ClearAll /\ line' = [line EXCEPT !.emptied = TRUE]
      BY <2>1, ClearKeeps
    <2>2. CASE UNCHANGED <<maskVars, line>>
      BY <2>2, Unmoved DEF maskVars
    <2>3. QED
      BY <1>6, <2>1, <2>2 DEF RunCommand
  <1>7. QED
    BY <1>2, <1>3, <1>4, <1>5, <1>6 DEF LoopStep

\* No step breaks the invariant.
LEMMA FaultsInvStep == FaultsInv /\ [FaultsNext]_faultVars => FaultsInv'
  <1> SUFFICES ASSUME FaultsInv, [FaultsNext]_faultVars PROVE FaultsInv'
    OBVIOUS
  <1>1. CASE LineTurns
    BY <1>1, InvLineTurns
  <1>2. CASE CoinTick
    BY <1>2, InvCoinTick
  <1>3. CASE SetClock \/ AskClear \/ Read \/ Answer
    BY <1>3, Unmoved DEF SetClock, AskClear, Read, Answer, maskVars
  <1>4. CASE \E t \in {"coin", "app", "host"} : WriteFails(t)
    BY <1>4, InvWriteFails
  <1>5. CASE \E t \in {"coin", "app", "host"} : RaiseStep(t)
    BY <1>5, InvRaiseStep DEF Tasks
  <1>6. CASE LoopStep
    BY <1>6, InvLoopStep
  <1>7. CASE UNCHANGED faultVars
    BY <1>7, Unmoved DEF faultVars, maskVars
  <1>8. QED
    BY <1>1, <1>2, <1>3, <1>4, <1>5, <1>6, <1>7 DEF FaultsNext

\* The list holds what was raised since it was last emptied, a line stuck since then
\* included (diag.h:14, diag.cpp:17), in any interleaving without an overlap of updates.
THEOREM FaultsSafe == FaultsSpec => []FaultsKept
  <1>1. QED
    BY FaultsInvInit, FaultsInvStep, InvKeeps, PTL DEF FaultsSpec

-----------------------------------------------------------------------------
(* Countdown. *)

\* PaidTimeKept speaks of the time elapsed; the code has two words, whose difference is
\* that time as long as the deadline leaves room for one more delay.
CountdownTypeOK ==
    /\ running \in BOOLEAN /\ wide \in BOOLEAN
    /\ ticks \in 0 .. TicksCap
    /\ start \in Word /\ counter \in Word
    /\ bought \in Nat /\ elapsed \in Nat /\ buys \in Nat

\* The inductive invariant of the countdown
CountdownInv ==
    /\ CountdownTypeOK
    /\ running => elapsed < WordSize /\ WordMinus(counter, start) = elapsed
    /\ PaidTimeKept

-----------------------------------------------------------------------------
(* Arithmetic *)

\* Division undoes multiplication.
LEMMA Undone ==
    ASSUME NEW a \in Nat, NEW t \in Nat \ {0}
    PROVE  (a * t) \div t = a
OBVIOUS

\* A quotient is below what its dividend is below.
LEMMA QuotientBound ==
    ASSUME NEW x \in Nat, NEW t \in Nat \ {0}, NEW c \in Nat, x < (c + 1) * t
    PROVE  x \div t \in 0 .. c
  <1>1. x \div t \in Nat /\ (x \div t) * t <= x
    OBVIOUS
  <1>2. ASSUME x \div t >= c + 1 PROVE FALSE
    <2> DEFINE q == x \div t
    <2>1. q \in Nat /\ q >= c + 1 /\ q * t <= x
      BY <1>1, <1>2
    <2> HIDE DEF q
    <2>2. q * t >= (c + 1) * t
      BY <2>1
    <2>3. QED
      BY <2>1, <2>2
  <1>3. QED
    BY <1>1, <1>2

\* What a word holds is not changed by the width.
LEMMA Narrow ==
    ASSUME NEW x \in Nat, NEW w \in Nat \ {0}
    PROVE  x % w \in 0 .. w - 1 /\ (x < w => x % w = x)
OBVIOUS

\* pdMS_TO_TICKS never leaves what the cap leaves room for, and is exact if the product
\* fits.
LEMMA TicksOfCredits ==
    ASSUME NEW blocks \in Credits
    PROVE  /\ Paid(blocks) \in Nat
           /\ ToTicks(BlockMs(blocks)) \in 0 .. TicksCap
           /\ Fits(blocks) => ToTicks(BlockMs(blocks)) = Paid(blocks)
  <1> DEFINE paid == blocks * RelayMs
             ms   == paid % WordSize
             p    == ms * TickRate
  <1>1. paid \in Nat
    BY CountdownAssumption
  <1>2. ms \in Nat /\ (paid < WordSize => ms = paid)
    <2> HIDE DEF paid
    <2>1. QED
      BY <1>1, Narrow, CountdownAssumption
  <1>3. p \in Nat
    BY <1>2, CountdownAssumption
  <1>4. p % WordSize \in 0 .. WordSize - 1 /\ (p < WordSize => p % WordSize = p)
    BY <1>3, Narrow, CountdownAssumption
  <1>5. (p % WordSize) \div TickRate \in 0 .. TicksCap
    <2>1. p % WordSize \in Nat /\ p % WordSize < (TicksCap + 1) * TickRate
      BY <1>4, CountdownAssumption
    <2>2. QED
      BY <2>1, QuotientBound, CountdownAssumption
  <1>6. ASSUME paid * TickRate < WordSize PROVE (p % WordSize) \div TickRate = paid
    <2>1. paid <= paid * TickRate
      BY <1>1, CountdownAssumption
    <2>2. paid < WordSize
      BY <1>1, <1>6, <2>1, CountdownAssumption
    <2>3. ms = paid
      BY <1>2, <2>2
    <2>4. p % WordSize = paid * TickRate
      BY <1>4, <1>6, <2>3
    <2>5. QED
      BY <1>1, <2>4, Undone, CountdownAssumption
  <1>7. QED
    BY <1>1, <1>5, <1>6 DEF Paid, ToTicks, BlockMs, Fits

-----------------------------------------------------------------------------
(* The invariant *)

\* The countdown starts idle.
LEMMA CountdownInvInit == CountdownInit => CountdownInv
  <1> SUFFICES ASSUME CountdownInit PROVE CountdownInv
    OBVIOUS
  <1>1. CountdownTypeOK
    <2>1. running \in BOOLEAN /\ wide \in BOOLEAN
      BY DEF CountdownInit
    <2>2. 0 \in 0 .. TicksCap
      BY CountdownAssumption
    <2>3. 0 \in Word
      BY CountdownAssumption DEF Word
    <2>4. QED
      BY <2>1, <2>2, <2>3 DEF CountdownInit, CountdownTypeOK
  <1>2. PaidTimeKept
    BY DEF CountdownInit, PaidTimeKept
  <1>3. QED
    BY <1>1, <1>2 DEF CountdownInit, CountdownInv

\* A session begins with what was paid for, and nothing elapsed.
LEMMA InvBegin ==
    ASSUME CountdownInv, NEW blocks \in Credits, Begin(blocks)
    PROVE  CountdownInv'
  <1>1. /\ Paid(blocks) \in Nat
        /\ ToTicks(BlockMs(blocks)) \in 0 .. TicksCap
        /\ Fits(blocks) => ToTicks(BlockMs(blocks)) = Paid(blocks)
    BY TicksOfCredits
  <1>2. CountdownTypeOK'
    <2>1. wide' \in BOOLEAN
      BY DEF Begin, Fits
    <2>2. QED
      BY <1>1, <2>1 DEF Begin, CountdownInv, CountdownTypeOK
  <1>3. WordMinus(counter, start)' = 0
    BY DEF Begin, CountdownInv, CountdownTypeOK, WordMinus, Word
  <1>4. PaidTimeKept'
    <2>1. ~wide' => ticks' = bought'
      BY <1>1 DEF Begin
    <2>2. running' /\ elapsed' < ticks' + MaxDelay
      BY <1>1, CountdownAssumption DEF Begin
    <2>3. QED
      BY <2>1, <2>2 DEF PaidTimeKept
  <1>5. QED
    BY <1>2, <1>3, <1>4, CountdownAssumption DEF Begin, CountdownInv

\* An extension moves the deadline out, up to the cap, and wraps nothing.
LEMMA InvExtend ==
    ASSUME CountdownInv, NEW blocks \in Credits, Extend(blocks)
    PROVE  CountdownInv'
  <1> DEFINE more == ToTicks(BlockMs(blocks))
  <1>1. /\ Paid(blocks) \in Nat
        /\ more \in 0 .. TicksCap
        /\ Fits(blocks) => more = Paid(blocks)
    BY TicksOfCredits
  <1> HIDE DEF more
  <1>2. ticks' = IF ticks + more > TicksCap THEN TicksCap ELSE ticks + more
    BY <1>1, CountdownAssumption
       DEF Extend, Extended, WordPlus, Capped, CountdownInv, CountdownTypeOK, more
  <1>3. bought' = IF bought + Paid(blocks) > TicksCap THEN TicksCap ELSE bought + Paid(blocks)
    BY DEF Extend, Capped
  <1>4. CountdownTypeOK'
    <2>1. wide' \in BOOLEAN
      BY DEF Extend, Fits
    <2>2. QED
      BY <1>1, <1>2, <1>3, <2>1, CountdownAssumption
         DEF Extend, CountdownInv, CountdownTypeOK
  <1>5. ticks' >= ticks
    BY <1>1, <1>2, CountdownAssumption DEF CountdownInv, CountdownTypeOK
  <1>6. PaidTimeKept'
    <2>1. ASSUME ~wide' PROVE ticks' = bought'
      <3>1. ~wide /\ Fits(blocks)
        BY <2>1 DEF Extend
      <3>2. ticks = bought /\ more = Paid(blocks)
        BY <1>1, <3>1 DEF CountdownInv, PaidTimeKept
      <3>3. QED
        BY <1>2, <1>3, <3>2
    <2>2. running' /\ elapsed' = elapsed /\ elapsed < ticks + MaxDelay
      BY DEF Extend, CountdownInv, PaidTimeKept
    <2>3. elapsed' < ticks' + MaxDelay
      BY <1>2, <1>5, <2>2, CountdownAssumption DEF CountdownInv, CountdownTypeOK
    <2>4. QED
      BY <2>1, <2>2, <2>3 DEF PaidTimeKept
  <1>7. QED
    BY <1>4, <1>6 DEF Extend, CountdownInv, WordMinus

\* A delay of a running session begins before the deadline, so that what has elapsed
\* after it still fits a word.
LEMMA InvDelay ==
    ASSUME CountdownInv, NEW d \in 1 .. MaxDelay, Delay(d)
    PROVE  CountdownInv'
  <1>1. CountdownTypeOK'
    BY CountdownAssumption
       DEF Delay, CountdownInv, CountdownTypeOK, WordPlus, Word
  <1>2. CASE running
    <2>1. elapsed < ticks
      BY <1>2 DEF Delay, TimeLeft, CountdownInv
    <2>2. elapsed' = elapsed + d /\ elapsed + d < WordSize
      BY <1>2, <2>1, CountdownAssumption DEF Delay, CountdownInv, CountdownTypeOK
    <2>3. WordMinus(counter, start)' = elapsed + d
      BY <1>2, <2>2, CountdownAssumption
         DEF Delay, CountdownInv, CountdownTypeOK, WordPlus, WordMinus, Word
    <2>4. PaidTimeKept'
      BY <1>2, <2>1, <2>2, CountdownAssumption
         DEF Delay, CountdownInv, CountdownTypeOK, PaidTimeKept
    <2>5. QED
      BY <1>1, <1>2, <2>2, <2>3, <2>4 DEF Delay, CountdownInv
  <1>3. CASE ~running
    BY <1>1, <1>3 DEF Delay, CountdownInv, PaidTimeKept
  <1>4. QED
    BY <1>2, <1>3

\* The loop ends when the time is up, not before.
LEMMA InvFinish ==
    ASSUME CountdownInv, Finish
    PROVE  CountdownInv'
  <1>1. elapsed >= ticks
    BY DEF Finish, TimeLeft, CountdownInv, CountdownTypeOK
  <1>2. QED
    BY <1>1 DEF Finish, CountdownInv, CountdownTypeOK, PaidTimeKept

\* No step breaks the invariant.
LEMMA CountdownInvStep == CountdownInv /\ [CountdownNext]_countdownVars => CountdownInv'
  <1> SUFFICES ASSUME CountdownInv, [CountdownNext]_countdownVars PROVE CountdownInv'
    OBVIOUS
  <1>1. CASE \E blocks \in Credits : Begin(blocks) \/ Extend(blocks)
    BY <1>1, InvBegin, InvExtend
  <1>2. CASE \E d \in 1 .. MaxDelay : Delay(d)
    BY <1>2, InvDelay
  <1>3. CASE Finish
    BY <1>3, InvFinish
  <1>4. CASE UNCHANGED countdownVars
    BY <1>4 DEF countdownVars, CountdownInv, CountdownTypeOK, PaidTimeKept, WordMinus
  <1>5. QED
    BY <1>1, <1>2, <1>3, <1>4 DEF CountdownNext

\* A session lasts as long as was paid for, or as the cap, wherever the tick counter wraps
\* (session.cpp:163, session.cpp:64); the exception is a purchase that does not fit
\* pdMS_TO_TICKS.
THEOREM PaidTimeSafe == CountdownSpec => []PaidTimeKept
  <1>1. CountdownInv => PaidTimeKept
    BY DEF CountdownInv
  <1>2. QED
    BY <1>1, CountdownInvInit, CountdownInvStep, PTL DEF CountdownSpec

=============================================================================
