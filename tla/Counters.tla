------------------------------ MODULE Counters ------------------------------
(***************************************************************************)
(* The operator's figures (src/counters.cpp) against the clock that says   *)
(* which business day they belong to (src/rtc.cpp), the store they are     *)
(* flushed to, and the phone they are reported to                          *)
(* (src/ble_livecounters.cpp).  Coins come from the coin task, sessions    *)
(* from the application task, the flush and the notification from loop(),  *)
(* the time from the BLE host task; the mutex makes each call one step,    *)
(* and a caller that waits 100 ms for it in vain does nothing.             *)
(*                                                                         *)
(* Time goes by in units of eight hours, the offset of Manila to UTC.      *)
(***************************************************************************)
EXTENDS Integers

CONSTANTS
    UnitsPerDay, TzOffset,      \* a day, and COUNTERS_TZ_OFFSET_MIN, in units
    EpochMin, EpochMax,         \* RTC_EPOCH_MIN, RTC_EPOCH_MAX
    Syncs,                      \* the times a phone or the console sends
    CoinCents,                  \* what a pulse may be worth
    CentsPerPeso,
    Ceiling, SessionCeiling,    \* UINT32_MAX, UINT16_MAX
    NvsMayRefuse,               \* can a write to NVS fail?
    LockMayFail,                \* can the mutex be out of reach for 100 ms?
    MaxTime, MaxEvents   \* bounds

ASSUME CountersAssumption ==
    /\ UnitsPerDay \in Nat \ {0} /\ TzOffset \in Nat
    /\ EpochMin \in Nat \ {0} /\ EpochMax \in Nat
    /\ Syncs \subseteq Nat
    /\ CoinCents \subseteq Nat
    /\ CentsPerPeso \in Nat \ {0}
    /\ Ceiling \in Nat /\ SessionCeiling \in Nat
    /\ \A cents \in CoinCents : cents <= Ceiling
    /\ NvsMayRefuse \in BOOLEAN /\ LockMayFail \in BOOLEAN
    /\ MaxTime \in Nat /\ MaxEvents \in Nat
    /\ EpochMin <= MaxTime
    /\ \A epoch \in Syncs : epoch < EpochMax => epoch <= MaxTime

VARIABLES
    now,         \* rtc_now(): 0 while the time was never established
    cnt,         \* s_c
    nvs,         \* the blob in NVS
    test,        \* s_test_amount_cents
    dirty,       \* s_dirty
    unsaved,     \* s_unsaved
    notifier,    \* loop() publishing: its stage and the frame it built
    reader,      \* the BLE host task answering a read: the same
    value,       \* the value of the characteristic
    frame,       \* the Live Counters frame the phone has
    crossed,     \* history: a read overlapped the last publication
    takings,     \* history: centavos recorded on each business day
    disturbed,   \* history: a coin was missed, or the day went back
    events       \* coins, sessions, reads, time syncs and resets so far

countVars  == <<cnt, nvs, test, dirty, unsaved>>
phoneVars  == <<notifier, reader, value, frame, crossed>>
auditVars  == <<takings, disturbed>>
vars == <<now, countVars, phoneVars, auditVars, events>>

DayUnknown == 0

(* counters_business_day.                                                  *)
BusinessDay(epoch) ==
    IF epoch = 0 THEN DayUnknown ELSE (epoch + TzOffset) \div UnitsPerDay + 1

Days == 0..BusinessDay(MaxTime + 1)

(* counters_serialize: pesos on the wire.                                  *)
Wire(c, t) == [amount   |-> c.amount \div CentsPerPeso,
               sessions |-> c.sessions,
               lifetime |-> c.lifetime \div CentsPerPeso,
               seq      |-> c.seq,
               test     |-> t \div CentsPerPeso]

Counts == [day : Days, amount : 0..Ceiling, sessions : 0..SessionCeiling,
           lifetime : 0..Ceiling, seq : Nat]

NoHistory == [day |-> DayUnknown, amount |-> 0, sessions |-> 0, lifetime |-> 0,
              seq |-> 0]

CountersTypeOK ==
    /\ now \in 0..MaxTime
    /\ cnt \in Counts /\ nvs \in Counts
    /\ test \in 0..Ceiling
    /\ dirty \in BOOLEAN /\ unsaved \in BOOLEAN
    /\ notifier.stage \in {"idle", "taken", "built", "set"}
    /\ reader.stage \in {"idle", "built", "set"}
    /\ crossed \in BOOLEAN
    /\ takings \in [Days -> Nat]
    /\ disturbed \in BOOLEAN

Idle == [stage |-> "idle"]

(* A new board: nothing stored, and a chip that was set or never was.      *)
Init ==
    /\ now \in {0, EpochMin}
    /\ nvs = NoHistory
    /\ cnt = [NoHistory EXCEPT !.day = BusinessDay(now)]
    /\ test = 0
    /\ dirty = FALSE /\ unsaved = FALSE
    /\ value = Wire(cnt, test) /\ frame = value
    /\ notifier = Idle /\ reader = Idle
    /\ crossed = FALSE
    /\ takings = [d \in Days |-> 0]
    /\ disturbed = FALSE
    /\ events = 0

Event ==
    /\ events < MaxEvents
    /\ events' = events + 1

-----------------------------------------------------------------------------
(* The clock.                                                              *)

(* The processor's clock and the chip's run together: rtc_service's hourly *)
(* write back keeps them closer than a unit.                               *)
Tick ==
    /\ now # 0 /\ now < MaxTime
    /\ now' = now + 1
    /\ UNCHANGED <<countVars, phoneVars, auditVars, events>>

(* rtc_set_epoch, from BLE or the console: chip and clock, or neither when *)
(* the epoch is outside the window.                                        *)
TimeSync ==
    /\ Event
    /\ \E epoch \in Syncs :
          /\ epoch >= EpochMin /\ epoch < EpochMax
          /\ now' = epoch
          /\ disturbed' = (disturbed \/ epoch < now)
    /\ UNCHANGED <<countVars, phoneVars, takings>>

-----------------------------------------------------------------------------
(* Recording.                                                              *)

(* Slip: what a refused write leaves counts as saved.                      *)
SavesRegardless(c, n, u) ==
    {[nvs |-> c, unsaved |-> FALSE]}
        \cup (IF NvsMayRefuse THEN {[nvs |-> n, unsaved |-> FALSE]} ELSE {})

(* counters_save_locked on figures c: stored and no longer unsaved, or     *)
(* refused and left as it was.                                             *)
Saves(c, n, u) ==
    {[nvs |-> c, unsaved |-> FALSE]}
        \cup (IF NvsMayRefuse THEN {[nvs |-> n, unsaved |-> u]} ELSE {})

NewDay(c, day) == [c EXCEPT !.day = day, !.amount = 0, !.sessions = 0]

(* Slip: the new day is not news.                                          *)
RolledSilently(c, n, u, day) ==
    IF day = c.day
    THEN {[cnt |-> c, nvs |-> n, unsaved |-> u, news |-> FALSE]}
    ELSE {[cnt |-> NewDay(c, day), nvs |-> s.nvs, unsaved |-> s.unsaved,
           news |-> FALSE] : s \in Saves(NewDay(c, day), n, u)}

(* counters_roll_day_locked: the figures of another day make room, and the *)
(* turn of the day is saved at once if the store takes it.                 *)
Rolled(c, n, u, day) ==
    IF day = c.day
    THEN {[cnt |-> c, nvs |-> n, unsaved |-> u, news |-> FALSE]}
    ELSE {[cnt |-> NewDay(c, day), nvs |-> s.nvs, unsaved |-> s.unsaved,
           news |-> TRUE] : s \in Saves(NewDay(c, day), n, u)}

Today == BusinessDay(now)

(* Totals stick at the ceiling of their width.                             *)
Plus(total, cents) == IF total > Ceiling - cents THEN Ceiling ELSE total + cents

(* Slip: the turn of the day is left to the next counters_service.         *)
RecordCoinUnrolled ==
    /\ Event
    /\ \E cents \in CoinCents :
          /\ cnt' = [cnt EXCEPT !.amount   = Plus(@, cents),
                                !.lifetime = Plus(@, cents)]
          /\ takings' = [takings EXCEPT ![Today] = @ + cents]
    /\ dirty' = TRUE /\ unsaved' = TRUE
    /\ UNCHANGED <<now, nvs, test, phoneVars, disturbed>>

(* counters_record_coin.                                                   *)
RecordCoin ==
    /\ Event
    /\ \E cents \in CoinCents, r \in Rolled(cnt, nvs, unsaved, Today) :
          /\ cnt' = [r.cnt EXCEPT !.amount   = Plus(@, cents),
                                  !.lifetime = Plus(@, cents)]
          /\ nvs' = r.nvs
          /\ takings' = [takings EXCEPT ![Today] = @ + cents]
    /\ dirty' = TRUE /\ unsaved' = TRUE
    /\ UNCHANGED <<now, test, phoneVars, disturbed>>

(* The mutex cannot be had: the coin is not recorded.                      *)
MissCoin ==
    /\ LockMayFail
    /\ Event
    /\ \E cents \in CoinCents : takings' = [takings EXCEPT ![Today] = @ + cents]
    /\ disturbed' = TRUE
    /\ UNCHANGED <<now, countVars, phoneVars>>

(* counters_record_session.                                                *)
RecordSession ==
    /\ Event
    /\ \E r \in Rolled(cnt, nvs, unsaved, Today) :
          /\ cnt' = [r.cnt EXCEPT !.sessions = IF @ < SessionCeiling THEN @ + 1 ELSE @]
          /\ nvs' = r.nvs
    /\ dirty' = TRUE /\ unsaved' = TRUE
    /\ UNCHANGED <<now, test, phoneVars, auditVars>>

(* counters_set_last_seq, from the Session Log.                            *)
SetLastSeq ==
    /\ Event
    /\ cnt' = [cnt EXCEPT !.seq = @ + 1]
    /\ dirty' = TRUE /\ unsaved' = TRUE
    /\ UNCHANGED <<now, nvs, test, phoneVars, auditVars>>

(* counters_record_test_coin: news, but nothing to save.                   *)
RecordTestCoin ==
    /\ Event
    /\ \E cents \in CoinCents : test' = Plus(test, cents)
    /\ dirty' = TRUE
    /\ UNCHANGED <<now, cnt, nvs, unsaved, phoneVars, auditVars>>

(* counters_reset_test_amount.                                             *)
ResetTestAmount ==
    /\ test # 0
    /\ test' = 0
    /\ dirty' = TRUE
    /\ UNCHANGED <<now, cnt, nvs, unsaved, phoneVars, auditVars, events>>

-----------------------------------------------------------------------------
(* loop() and the phone.                                                   *)

(* counters_service: the turn of the day, and the flush when the figures   *)
(* have been quiet for long enough.                                        *)
Service ==
    /\ \E r \in Rolled(cnt, nvs, unsaved, Today) :
          /\ cnt' = r.cnt
          /\ dirty' = (dirty \/ r.news)
          /\ \/ nvs' = r.nvs /\ unsaved' = r.unsaved
             \/ /\ r.unsaved
                /\ \E s \in Saves(r.cnt, r.nvs, r.unsaved) :
                      nvs' = s.nvs /\ unsaved' = s.unsaved
    /\ UNCHANGED <<now, test, phoneVars, auditVars, events>>

(* counters_take_dirty.                                                    *)
TakeDirty ==
    /\ dirty /\ notifier = Idle
    /\ dirty' = FALSE
    /\ notifier' = [stage |-> "taken"]
    /\ crossed' = (reader # Idle)
    /\ UNCHANGED <<now, cnt, nvs, test, unsaved, reader, value, frame,
                   auditVars, events>>

(* ble_livecounters_service goes on: republish() serialises the figures,   *)
(* then sets the value; notify() sends what the value is by then.          *)
Build ==
    /\ notifier.stage = "taken"
    /\ notifier' = [stage |-> "built", buf |-> Wire(cnt, test)]
    /\ UNCHANGED <<now, countVars, reader, value, frame, crossed, auditVars, events>>

SetValue ==
    /\ notifier.stage = "built"
    /\ value' = notifier.buf
    /\ notifier' = [stage |-> "set"]
    /\ UNCHANGED <<now, countVars, reader, frame, crossed, auditVars, events>>

Notify ==
    /\ notifier.stage = "set"
    /\ frame' = value
    /\ notifier' = Idle
    /\ UNCHANGED <<now, countVars, reader, value, crossed, auditVars, events>>

(* onRead, on the other core: republish() too, then the stack answers with *)
(* the value.  The dirty flag stays.                                       *)
ReadBuild ==
    /\ reader = Idle
    /\ Event
    /\ reader' = [stage |-> "built", buf |-> Wire(cnt, test)]
    /\ crossed' = (crossed \/ notifier # Idle)
    /\ UNCHANGED <<now, countVars, notifier, value, frame, auditVars>>

ReadSetValue ==
    /\ reader.stage = "built"
    /\ value' = reader.buf
    /\ reader' = [stage |-> "set"]
    /\ UNCHANGED <<now, countVars, notifier, frame, crossed, auditVars, events>>

ReadAnswer ==
    /\ reader.stage = "set"
    /\ frame' = value
    /\ reader' = Idle
    /\ UNCHANGED <<now, countVars, notifier, value, crossed, auditVars, events>>

(* A power cut and a reset.  rtc_init takes the time from the chip, if it  *)
(* kept it: seconds short of the lost clock, or any time later.  Then      *)
(* counters_init: load, and settle the day.                                *)
Reset ==
    /\ Event
    /\ now' \in {0} \cup {t \in EpochMin..MaxTime : now # 0 /\ t >= now - 1}
    /\ \E r \in Rolled(nvs, nvs, FALSE, BusinessDay(now')) :
          /\ cnt' = r.cnt
          /\ nvs' = r.nvs
          /\ unsaved' = r.unsaved
          /\ dirty' = r.news
    /\ test' = 0
    /\ value' = Wire(cnt', test') /\ frame' = value'
    /\ notifier' = Idle /\ reader' = Idle
    /\ crossed' = FALSE
    /\ disturbed' = TRUE
    /\ UNCHANGED <<takings>>

Next ==
    \/ Tick \/ TimeSync
    \/ RecordCoin \/ MissCoin \/ RecordSession \/ SetLastSeq
    \/ RecordTestCoin \/ ResetTestAmount
    \/ Service \/ TakeDirty \/ Build \/ SetValue \/ Notify
    \/ ReadBuild \/ ReadSetValue \/ ReadAnswer
    \/ Reset

(* loop() goes on for ever, and a read begun is answered.                  *)
Fairness ==
    /\ WF_vars(Service /\ cnt' # cnt)
    /\ WF_vars(TakeDirty \/ Build \/ SetValue \/ Notify)
    /\ WF_vars(ReadSetValue \/ ReadAnswer)

Spec == Init /\ [][Next]_vars /\ Fairness

-----------------------------------------------------------------------------
(* What holds.                                                             *)

(* Today's figure holds no coin of another business day, at whatever       *)
(* moment midnight in Manila or a time sync falls between two calls; and   *)
(* it holds every coin of its day as long as none was missed, the day      *)
(* never went back and no reset intervened.                                *)
TodayExact ==
    /\ cnt.amount <= takings[cnt.day]
    /\ disturbed \/ cnt.amount = IF takings[cnt.day] < Ceiling
                                 THEN takings[cnt.day] ELSE Ceiling

(* The lifetime takings and the log's number in NVS lag behind only while  *)
(* a flush is still to come, refused writes and turns of the day included  *)
(* (counters.cpp, counters_save_locked: "stay dirty; retry"), and they     *)
(* never run ahead.                                                        *)
MoneyIsFlushed ==
    /\ nvs.lifetime <= cnt.lifetime /\ nvs.seq <= cnt.seq
    /\ unsaved \/ (nvs.lifetime = cnt.lifetime /\ nvs.seq = cnt.seq)

(* The phone is told of every change (ble_livecounters.cpp: "a coin        *)
(* produces exactly one frame"), one that lands between taking the flag    *)
(* and serialising included.  The exception: the BLE host task builds its  *)
(* answer to a read on the other core, and an answer that crosses a        *)
(* notification may put the older figures back until the next change.      *)
PhoneCatchesUp == frame # Wire(cnt, test) ~> (frame = Wire(cnt, test) \/ crossed)

=============================================================================
