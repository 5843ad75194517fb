# VendoS1: a verification development

TLA+ models of the VendoS1 vending-machine firmware (ESP32, FreeRTOS, NimBLE), the TLC runs that
check them on small instances, and TLAPS proofs of what matters most for every instance. Paths are
relative to the repository; `app.cpp` is `src/app.cpp` there.

Run inside this directory: `tlc -config <run>.cfg <Module>` for a row of the table of runs,
`tlapm <Module>.tla` for a module whose name ends in `Proofs`. `PROJECT.json` maps every
definition to the source lines it stands for, lists the hazards with the properties that cover
them, and gives for each property a plausible slip of the code that breaks it. Those slips are in
the modules, each with a comment that starts with "Slip:"; no specification uses them.

## 1. The system

### Who runs when

| Task | Priority, core | Does |
|---|---|---|
| watchdog | 6, core 1 | pets the external watchdog |
| coin | 4, core 1 | every 5 ms: debounce the acceptor's line, bank or capture a pulse |
| app | 3, core 1 | every 20 ms: the vend state machine; sleeps in `vTaskDelay` |
| display | 2, core 1 | draws what it is sent |
| `loop()` | 1, core 1 | clock, counters, log, faults, BLE notifications, bench commands, console |
| NimBLE host | core 0 | GATT callbacks, truly parallel to all of the above |

On core 1 the scheduling is strictly by priority. So the coin task can run between any two
statements of the application task, and `loop()` runs only while the application task sleeps.
The models use exactly this: `Vend` cuts the application task's code where it touches what the coin
task touches, and lets `loop()` act only at the places where the code sleeps (`Yielded`).

### Components

For each: the state it keeps, its operations, whom it meets, what makes it hard, what makes it right.

* **Vend state machine** (`app.cpp`). State: the `AppState`, the credits of the paid period, test
  mode and its requests, the running `AppConfig`. Operations: the eight states. Meets the coin path
  (shared total), the log (billed money, closed sessions), the counters, the bench (flags set by
  `loop()`). Hard: money read, multiplied and taken while the coin task adds to it; credits owed
  across several relay blocks; requests that arrive for a state that has passed. Right: money is
  neither made nor lost; every credit billed is dispensed or owed; a paid period is one session.
* **Session countdown** (`session.cpp`). State: deadline, elapsed ticks, pause. Operation: one loop
  that ticks, pauses, extends, and stops on a sensor. Hard: two billing points around the delay, a
  top-up in the last tick, a pause at the end. Right: the time paid for is granted, the relay
  follows the countdown, and the loop ends.
* **Coin path** (`periph.cpp`). State: pulses, the money inserted, price of a pulse, capture flag,
  slot. Operations: accept a pulse, consume money, inhibit. Hard: a coin is a train of pulses that
  goes on after the slot is inhibited. Right: every pulse goes to exactly one account.
* **Buttons** (`periph.cpp`, the loops of `app.cpp` and `session.cpp` that poll them). State: three
  recognisers, START with three one-shot flags. Operations: one sample; take a flag; flush. Hard: a
  recogniser is advanced by whoever polls it and stands still between two loops; contacts bounce.
  Right: a gesture acts once, in the state it was meant for; a save does not edit what it saves.
* **Earnings counters** (`counters.cpp`). State: today's and lifetime takings, sessions, the log's
  last number, a blob in NVS. Operations: record, turn the day, flush when quiet, report. Callers:
  three tasks under a mutex that may time out. Hard: midnight between two calls, refused writes,
  resets before the flush. Right: today's figure is of today; the meter never lies unnoticed.
* **Real-time clock** (`rtc.cpp`). State: the chip's registers, the system clock, one lock.
  Operations: seed at boot, set (BLE, console), hourly writeback, read. Hard: registers are read one
  by one while a second turns, written one by one while the power may go; the writeback reads its
  time before it has the lock. Right: no time is taken for real that was never anybody's.
* **Session log store** (`eventlog.cpp`). State: a ring of records in flash, head, next number,
  queue of closed sessions, money of the open session. Operations: account, close, write, erase,
  boot scan, build a page. Hard: resets and torn writes at any point; recovery from what the slots
  hold; modular arithmetic. Right: a page never shows a wrong row; numbers have no hole; the oldest
  rows go first.
* **Session log over BLE** (`ble_sessionlog.cpp`). State: a cursor per connection, one value of the
  characteristic for all. Operations: cursor write, read, disconnect, each a callback of the BLE
  host. Hard: two phones pull at once; a page is fetched in several reads; the ring moves on
  underneath. Right: a phone that goes on from the last row it holds ends with every row, once.
* **Bench commands** (`ble_command.cpp`, `AT+TEST`). State: a mailbox. Operations: gate, then act;
  most acts are requests to the application task, one drives the relay from `loop()`. Hard: the
  gate is stale by the time of the act; two owners of the relay pin. Right: nothing from the bench
  disturbs a paid period; the relay is never left on.
* **Configuration** (`config.cpp`, `ble_config.cpp`, console setters, LCD menu). One NVS blob, four
  writers that each start from another copy. Right: what runs is what is stored, or the operator
  knows why not; the terms never change under a customer.
* **Live counters over BLE** (`ble_livecounters.cpp`). Notifier over a dirty flag, in `loop()`, and
  a read callback on the other core, over one characteristic value.
* **Faults** (`diag.cpp`, `ble_diagnostics.cpp`). State: a mask, a dirty flag. Operations: raise (four
  tasks), clear, notify, read. Hard: both words are loaded and stored apart, with no lock. Right:
  what was raised stays until the list is emptied; a machine with no clock says so.
* **Display** (`display.cpp`, `lcd.cpp`). State: a queue of frames, what is on the panel, the state of
  the I2C bus. Operations: post (drops when full), draw, heartbeat after five quiet seconds, recover.
  Hard: throttle, heartbeat, recovery and a dropped frame each leave a screen that somebody else
  must put right. Right: sooner or later the panel shows what the application task is doing.
* **Watchdog** (`wdt.cpp`), **identity** (`identity.cpp`, `ble_deviceinfo.cpp`), **console parsing**
  (`cli.cpp`), **boot** (`main.cpp`).

## 2. The modules

```
Coins <-- Vend <-- Bench        SalesLog <== EventLog <-- LogSync
           ^   (Bench => Vend)     ^ (refinement)
      VendProofs              SalesLogProofs
           ^
      PaidPeriodProofs <-- BenchProofs --> Bench
EventLog <-- EventLogProofs <-- LogSyncProofs --> LogSync

PanelProofs    : Settings, Buttons, Display
ServicesProofs : Counters, RtcChip, Faults, Countdown

MCPanel    : Settings, Buttons, Display              (the front of the machine)
MCServices : Counters, RtcChip, Faults, Countdown    (what loop() and the BLE host look after)
```

An arrow is EXTENDS: the module at its tail adds actors and steps to the state at its head.

| Module | Models | Its state, against the code |
|---|---|---|
| `Coins` | coin path, lifetime counter and its flush, test amount | `value` is `s_coin_value_cents`, `tally` the pulse the coin task has banked but not yet recorded, `train` what is still to come from the acceptor, `lifetime`/`saved` the counter in RAM and in NVS. `banked` and `captured` are histories of whose coins went where. |
| `Vend` | application task, countdown, session accounting, reset | `pc` is where the task is, `pub` what `app_publish_state` last said, `run` the locals of `session_run`, `books` the open session, the queue and the rows of `eventlog.cpp`. One action per branch of each state; a stretch of code is one action unless the coin task can see into it. |
| `Bench` | mailbox, gates, acts of BLE and console commands | `cmds` is the mailbox, `job` the command `loop()` is in and whether its gate has been passed. Each act is one of the requests `Vend` already allows at any delay. |
| `SalesLog` | nothing in particular: what the Session Log promises | rows filed in order, kept as a window |
| `EventLog` | the flash ring, boot scan, erase, write, page | `flash` maps slots to erased, record, torn or garbage; `head`, `next`, `oldest`, `count` are the statics; `filed` is a history of what was ever written under which number. |
| `Settings` | the stored configuration and its four writers | `stored` is the blob, `cfg` the application task's copy, `livePrice`/`livePolarity` what the coin path was told, `draft` the menu's copy, `cli` a setter between its read and its save. |
| `LogSync` | the Session Log characteristic and the phones, over `EventLog` | `slots` is `s_slots`, `value` the characteristic's one value; `phone` is what each phone does and holds. The ring's own steps go on in between. |
| `Buttons` | recognisers and the loops that poll them | `start`, `combo`, `btn` are `s_sb_*`, `s_btn12_*`, `s_btn1`/`s_btn2`; `screen` is which loop polls; a contact is any level at any sample. `press`, `both`, `hands` are histories of what the operator did. |
| `Display` | frames, queue, display task, bus | `queue` is `s_disp_queue`, `memo` what the heartbeat redraws, `lcd` the flags of `display.cpp` and the panel itself; `task` is which loop of `app.cpp` or `session.cpp` posts, and how long it has been in a beep. `overslept` is a history of a heartbeat that drew in a beep longer than itself. |
| `Counters` | business day, records, flush, notifier and read | `cnt` is `s_c`, `nvs` the blob, `notifier` and `reader` the two users of the characteristic, each with the frame it has built. |
| `RtcChip` | the clock chip behind `rtc.cpp` | `chip` is its registers, `sys` the system clock, `lock` the mutex, `job` what each of the three tasks is in, register by register. Histories: `told` is every clock the board was set by since its cell was last flat, `left` what a flat cell left in a chip that runs on, `believed` whether a boot found that within the window. |
| `Faults` | mask, dirty flag, notifier, read | `raised` and `news` are `s_raised` and `s_dirty`, `at` where each task is between its load and its store, `heard` what the phone was told. |
| `Countdown` | the arithmetic of `session_run` | `ticks`, `start` are its locals, `counter` the tick counter, all words; `bought` and `elapsed` are histories in unbounded numbers. |

What is abstracted: time (in `Vend` a timeout is an action that may be taken once its clock runs and
a countdown keeps its ticks; `Countdown` has the ticks in words, `Counters` a clock in thirds of a
day, `Display` and `RtcChip` seconds, `Buttons` samples), the debounce of the coin line (a pulse is
accepted or not yet there), texts, sounds, most configuration fields (one stands for those that
behave alike), the calendar, the record's layout and checksum (a record is valid, torn or garbage).
Integers are unbounded in `Vend` and in words in `Countdown`; in `Counters` the totals stick at
`Ceiling`, as in the code.

`Bench` and `LogSync` are compositions: each EXTENDS the machine it works on, adds its own actors,
and lets the machine's steps happen in between. Each step of `Bench` is checked to be a step of
`Vend` (`ImplementsVend`), so what holds of `Vend` under every request at every delay holds of the
board with its real command path. `EventLog` is checked, and for a sound flash proved, to implement
`SalesLog` with the refinement mapping at the end of the module.

`MCPanel` and `MCServices` put parts side by side that share no state and no step: the variable
`part` says which of them a behaviour is of, the others keep their first state. So one run asks the
questions of several small components, and its state space is the sum of theirs.

## 3. The runs

| Run | Question | Bounds, and why they are enough |
|---|---|---|
| `vend_sessions` | Is every centavo and every credit accounted for, the time granted, each paid period one row, for every mode, gating, accumulation and sensor setting? | Three coins of one or two pulses at two pulses a credit: enough for a remainder, a top-up while running and while waiting, and a second credit. Cap of 5 ticks: one extension reaches it. A queue of one session fills. |
| `vend_world` | With bench requests and relay writes at every delay, a reset anywhere and a lock that times out: slot, capture, meter, money? | One coin of two pulses, so a train can straddle entry and exit of test mode; one reset. |
| `vend_live` | Do countdowns end, owed credits go out, ready machines start, rows reach flash, test mode end? | Two coins of two pulses, a credit each: one is owed while the other runs; an automatic machine and a gated one with inactivity timeout. |
| `bench` | Does the real command path do only what `Vend` allows, is the relay ever orphaned, is every command finished? | Two commands, a mailbox of one (overflow happens), a reset, a plain and a pausing gated machine. |
| `log_ring` | Does the ring serve exactly its window with contiguous numbers, and implement `SalesLog`? | Three sectors of two, ten sessions: it turns over and erases a sector again. `LastReset` = 6: resets while the ring first fills, as later ones break `WrapIsOldestFirst` (run `log_wrap`). |
| `log_sync` | Two phones pull the log at once over a ring that is torn, refuses erases and holds foreign data: is a wrong row, a hole or a false end ever taken? | Three sectors of one record, so every write erases; four sessions, a reset, two connections at once and two in a behaviour, so that one is made after another has gone. Pages of two rows, and a page in two reads. Phones are symmetric. |
| `panel` | *Settings*: menu, console, phone, blank store: can the running terms leave the stored ones unnoticed, or change under a customer? *Buttons*: does a gesture act once and where it was meant? *Display*: does the panel follow the application task? | Two writes, two edits, one reset, relay times off the menu's grid. Every level of the contacts at every sample, for an operator who uses START and the pair in turn and one whose two fingers come and go; two samples of debounce and three more to a hold. A queue of one frame, so that frames are dropped; one disturbance of the bus; a heartbeat of three seconds, which the beep at the start of a session outlasts and the one at its end with the pause does not. |
| `services` | *Counters*: does today's figure mix days, does NVS lag unnoticed, does the phone catch up? *Clock*: can the boot take a torn or a turning time, or what a flat cell left, does a set reach the chip? *Faults*: is one lost? *Countdown*: is the time paid for the time granted? | Thirds of a day and a time sync to either side of a midnight, with three events (coins, sessions, syncs, resets, reads) and any number of services, flushes, refusals and notifications. Three digits in base 3, the highest of which turns within the window; a phone that is right and one that is fast; a flat cell that leaves the chip running before the window, so that it runs into it, or beyond it. Four tasks, three of which may fail a write, three events. Words of 6 bits, so the tick counter starts everywhere and wraps; purchases that overflow the macro, and single ones that reach the cap without. |
| `log_wrap`, `overflow`, `bench_relay`, `settings_menu` | What the documentation promises and the code does not do: see section 5. | Smallest instances that show it. |

Deadlock is checked in every run but the three of the log (`log_ring`, `log_sync`, `log_wrap`), where
all sessions are written and all links used up in the end and nothing is left to do.

### What the properties say

* *Money.* `MoneyConserved`: banked = unbilled + billed + lost in a reset. `BillingCovered`: a
  billing step finds the money it counted, so the floor at zero in `coin_consume_value_cents` never
  forgives anything. `MeterMatchesTakings`: the lifetime counter, what the mutex made it miss and
  what resets took before a flush are together all that was banked.
* *Service.* `EveryCreditAccounted`: in a paid period the money billed is the price of the credits
  on the clock and those owed. `PaidTimeGranted`: a countdown that ends by itself has run the paid
  ticks, up to the cap. `RelayFollowsCountdown`. `NeverAbandonsVend`: neither test mode nor menu
  opens over a paid period. `BooksBalance`: one row of the log per paid period, with its money.
  `PaidTimeKept`: the same in machine words, wherever the tick counter wraps.
* *Test mode.* `SlotDiscipline`: capture is on exactly while a test is in progress, so never before
  the slot is closed at the entry, always while it is open in the test, and off before it opens for
  customers again; and the slot is closed and open where each state wants it.
  `TestModeMovesNoMoney`: for all of a test.
* *Bench.* `RelayHasOwner`: outside a countdown the relay is on only inside a pulse that will end.
* *Log.* `PagesTrue`, `PagesComplete`, `NumbersContiguous`, `WrapIsOldestFirst`,
  `ImplementsSalesLog`. At the phone: `CopyIsTrue` (every row it holds is one that was filed, under
  its number) and `CopyIsComplete` (told that there is no more, over a sound ring, it has them all).
* *Settings.* `PageApplies` (the pages skip correctly whatever is edited on the way),
  `DivergenceIsKnown`, `TermsHold`.
* *Buttons.* `OneGestureOneMeaning`: no hold is two commands. `SavesWhatWasShown`: a save by a clean
  hold saves the page as it was before the fingers came down.
* *Display.* `PanelFollowsApp`: with the bus sound, no frame lost and nothing in the queue, the panel
  shows a session, a waiting credit or test mode while there is one; excepted is the screen a
  heartbeat draws in a beep that outlasts it.
* *Counters.* `TodayExact`, `MoneyIsFlushed`, `PhoneCatchesUp`.
* *Clock.* `NoTimeThatNeverWas`: the system clock differs from the true time only by what some
  phone's clock did, or by garbage of a flat cell that lies within the window. `ClocksAgree`: at rest the chip keeps the time of the system clock.
* *Faults.* `FaultsKept`: what was raised since the list was emptied is in it. `UnsetClockReported`.

### Fairness

`FairSpec` of `Vend`: the scheduler runs a ready task, so weak fairness for the application task
(but not for its configuration menu, which waits for a person for ever) and for the coin task;
`loop()` gets the processor at every sleep of the application task, which come again and again, so
strong fairness for `WriteRow`; and a timeout the code polls for on every iteration is taken in the
end if its clock runs again and again (`AutoStart`, `InactivityStart`, `NextCreditTimeout`,
`TestExit`). For `TestExit` this assumes a technician who does not poke the board for ever.
`Bench` adds strong fairness for `loop()`'s steps but not for new commands. `EventLog`,
`Settings`, `Buttons`, `Display`, `RtcChip` and `Countdown` state none: their properties are safety.
`Counters`: `loop()` and the BLE host
go on. The flush itself is not assumed to succeed. `Faults`: the same two, and every task that is
between the load and the store of the mask stores.

## 4. The proofs

| Theorem | Says |
|---|---|
| `VendProofs!TypeCorrect` | `Spec => []VendTypeOK` |
| `VendProofs!MoneySafe` | `Spec => []MoneyConserved` |
| `VendProofs!BillingSafe` | `Spec => []BillingCovered` |
| `VendProofs!MeterSafe` | `Spec => []MeterMatchesTakings` |
| `PaidPeriodProofs!CreditsSafe` | `Spec => []EveryCreditAccounted` |
| `PaidPeriodProofs!TimeSafe` | `Spec => []PaidTimeGranted` |
| `PaidPeriodProofs!RelaySafe` | `Spec => []RelayFollowsCountdown` |
| `PaidPeriodProofs!SlotSafe` | `Spec => []SlotDiscipline` |
| `PaidPeriodProofs!NothingAbandoned` | `Spec => []NeverAbandonsVend` |
| `PaidPeriodProofs!TestModeSafe` | `Spec => TestModeMovesNoMoney` |
| `BenchProofs!BoardIsVend` | `BenchSpec => ImplementsVend` |
| `BenchProofs!BoardKeepsBooks` | `BenchSpec => []` of eight: `MoneyConserved`, `BillingCovered`, `MeterMatchesTakings`, `EveryCreditAccounted`, `BooksBalance`, `PaidTimeGranted`, `SlotDiscipline`, `NeverAbandonsVend` |
| `BenchProofs!RelayOwned` | `BenchSpec => []RelayHasOwner` |
| `PaidPeriodProofs!BooksSafe` | `Spec => []BooksBalance` |
| `PanelProofs!RunningIsStored` | `Spec => []DivergenceIsKnown` (`Settings`) |
| `PanelProofs!PagesApply` | `Spec => []PageApplies` |
| `PanelProofs!TermsAreKept` | `Spec => TermsHold` |
| `PanelProofs!OneGestureSafe` | `ButtonsSpec => []OneGestureOneMeaning` |
| `PanelProofs!HoldCommitsWhatWasShown` | `ButtonsSpec => SavesWhatWasShown` |
| `PanelProofs!PanelFollows` | `DisplaySpec => []PanelFollowsApp` |
| `ServicesProofs!TodayIsExact` | `Spec => []TodayExact` (`Counters`) |
| `ServicesProofs!MoneyFlushed` | `Spec => []MoneyIsFlushed` |
| `ServicesProofs!ClockNeverInvents` | `ClockSpec => []NoTimeThatNeverWas` |
| `ServicesProofs!ChipAndClockAgree` | `ClockSpec => []ClocksAgree` |
| `ServicesProofs!FaultsSafe` | `FaultsSpec => []FaultsKept` |
| `ServicesProofs!PaidTimeSafe` | `CountdownSpec => []PaidTimeKept` |
| `EventLogProofs!PagesAreTrue` | `Spec => []PagesTrue`, whatever the flash does |
| `EventLogProofs!NumbersAreContiguous` | `Spec => []NumbersContiguous`, for a sound flash |
| `EventLogProofs!PagesAreComplete` | `Spec => []PagesComplete`, for a sound flash |
| `EventLogProofs!WrapOldestFirst` | `Spec => WrapIsOldestFirst`, for a sound flash |
| `EventLogProofs!RingKeepsPromise` | `Spec => ImplementsSalesLog`, for a sound flash |
| `EventLogProofs!RingIsWindow` | `RollingWindow` carried to the ring: the rows in flash are the newest without a gap, filed once each, in order, for a sound flash |
| `LogSyncProofs!CopiesWereFiled` | `SyncSpec => []HasWhatWasFiled`, the first half of `CopyIsTrue`, whatever the flash does |
| `LogSyncProofs!CopiesAreTrue` | `SyncSpec => []CopyIsTrue`, for a sound flash |
| `LogSyncProofs!CopiesAreComplete` | `SyncSpec => []CopyIsComplete`, for a sound flash |
| `SalesLogProofs!RollingWindow` | for a store of any shape, the rows kept are the newest without a gap, filed once each, in order |

So every invariant and every action property that a passing run checks is proved. What remains with
TLC alone is said at the end of this section.

They hold for every set of configurations, price, train length, queue, cap, number of resets and
requests; the assumptions are `CoinsAssumption` and `VendAssumption`, which say no more than the
kinds of the constants, `StoreShape` for the log (at least one row, a batch that fits), and
`CountdownAssumption`: twice the cap and a delay fit a word, and what the macro can return is below
the cap, as 7 days and 32 bits do. `BenchAssumption` says that the requests `Vend` allows are those
the commands make, and that the bench may drive the relay; `SettingsAssumption` that the limits and
steps of the menu are in order and the defaults have a relay time. `CountersAssumption` and
`RtcAssumption` bound a behaviour by the arithmetic of the code (no time sync beyond the epoch that
the calendar takes, no second beyond the digits of the chip, for whatever it was set to or a flat cell
left in it), `DisplayAssumption` has a queue that holds a frame and a heartbeat longer than the splash
and says nothing of the beeps, `LogSyncAssumption` has a slot for every connection the stack permits.

A *sound flash* (`SoundFlash`) may refuse any write, and may hold foreign data when the log is first
used. It does not tear a record, it erases when told to, there are two sectors or more, and no reset
comes after the ring has turned over (`LastReset <= Capacity`). The last is what the code needs: with a
later reset `WrapIsOldestFirst` is false (run `log_wrap`, section 5). Torn records and refused
erases leave holes among the rows that can be read (section 5); what holds in spite of them (`PagesTrue`,
`CopiesWereFiled`) is proved without the assumption, and `log_sync` checks the rest with them.

*Vend.* `MoneyConserved` alone is not inductive: `coin_consume_value_cents` stops at zero, so a
billing step that asked for more than is there would make money disappear. `MoneyInv` therefore
joins it with the types and with `BillingCovered`: between the application task's read of the money
and its consume, only the coin task can run, and it only adds. The division lemma `WholeCredits` (a
whole number of credits never costs more than the money they were counted from) closes the read;
`Consumed` closes the consume. `Inv` adds the meter, with one lemma per action that moves it. The
step lemmas go action by action; a frame lemma per part dismisses the actions that leave it alone.

*A paid period.* `PeriodInv` adds to `Inv` what is true place by place between the first coin billed and
the end of the session. `SlotInv` has the places that lead to those `SlotDiscipline` is about: nothing
closes the slot from IDLE to the start of the countdown or from its end back; and capture is on
exactly from the step after `TEST_CAPTURE` to the one before `TEST_REOPEN`, whatever the requests. `CreditShape` says
which of the credit counters are in use at a place: outside a paid period none is, so nothing can be
abandoned there; at the start of a countdown that is gated, one credit is on the clock. With it each
billing adds the same number to the price billed and to the credits owed or on the clock, and each
other step moves a credit between the two. `TimeInv` is about the deadline instead of the time
elapsed: it is worth what was bought, or is the cap, after every extension; the end of the loop gives
`PaidTimeGranted`. `TestModeSafe` follows from `SlotInv`: while a test is in progress capture is on, and
neither a step of the application task from there nor one of the coin task touches a customer's account.

*Bench.* `StepImplements` goes through the steps of `Bench`: a command that acts is a `RaiseRequest`, an
edge of the pulse is a `DriveRelay`, and taking, gating and dropping a command touch nothing of the
machine. So the theorems of `Vend` hold of the board (`BoardKeepsBooks`). For `RelayOwned` the
invariant says that `loop()` holds the pulse whenever the relay is on outside a countdown: the steps
of the application task that leave a countdown turn it off, and `loop()` takes no other command
before the pulse ends.

*Settings.* `SettingsInv` has three parts. Every copy of the configuration (stored, running, read by a
setter, drafted) is whole with a relay time above zero; the menu's steps keep it so because the step
is no larger than the smallest limit. What runs is what is stored from one boot to the next, in the
menu too, unless a write is pending or a fault is up. The page shown fits the draft: a page that
depends on mode or sensor does not edit them.

*SalesLog.* `LogInv` joins the window and the order with `WaitInOrder`: what waits is newer than
what was filed and in order. `RingIsWindow` instantiates the promise with the ring's state and joins
this with `RingKeepsPromise`: it is the rolling window the backend's delta sync relies on.

*The books.* What is in the hand-off queue is a sum over a sequence, which `Vend` writes as a recursive
function (`CentsIn`). The library's induction theorems cannot be used, so `SumsExist` and `SumsUnique` go by
least counterexample (`LeastOf`): a sum that is wrong would be wrong at a least index, and there it
is not. With that, an appended row adds its cents and a written one takes them away
(`CentsAppend`, `CentsTail`). `BooksBalance` needs one thing more: a paid
period that ends has put a credit on the clock (`Dispensing`), so its row is never the empty one that
`eventlog_session_closed` leaves out.

*The ring.* `FiledInv` holds whatever the flash does: a valid record in the flash is a row that was
filed, under the number it has. A page carries only records that read back under the number asked for;
with it `PagesTrue` follows. For a sound flash `RingInv` adds the shape: for some `low`, the rows
after the first `low` are in the flash, the k-th row in slot `(k - 1) % Capacity` and nothing else is
anywhere (`Laid`); what has been given up is whole sectors and no more than made the room there is
(`GivenUp`); `head`, `next`, `oldest` and `count` are what follows from that (`Anchored`). `RingBoot`
shows that a scan finds these values again in the first lap, `RoomMade` that an erase at the head
takes a whole sector of the oldest rows, `RowWritten` that the next row falls into an erased slot. The
reader's slot arithmetic is the same modulus (`SlotIsPlace`), so each row of the window is readable
and a page is the start of what is due (`PageLength`). For the refinement, a step that leaves the rows
(`RowsStep`) is a step of `SalesLog` by its queue: a close, a drop, a loss in a reset, or a stutter.

*The phones.* `CopyIsTrue` says nothing about how a phone comes by its rows. The invariant follows a pull:
a slot is one connection's, no slot outlives its connection and a connected phone finds its own
(`SlotsAreOwned`; there are enough slots, by the pigeonhole principle); the cursor in it is never ahead
of the phone and is where the phone wrote it (`CursorIsOwn`); a phone has every row that can be read up
to its cursor and none beyond (`HasAll`); and between two reads of a page the value is the page
with which the first began, and goes on from the cursor without a gap (`Serves`), unless another phone's
page was published in between, which marks it `mixed`. `ServedPage` says that what the
board publishes serves the cursor, `AcceptKeeps` that taking it keeps `HasAll`; `RingGrows`, from
`RowsStep`, that the ring only ever makes rows unreadable or adds newer ones, which no copy minds.

*Countdown.* `PaidTimeKept` speaks of the time elapsed, of which the code has only the difference of
two words. `CountdownInv` adds that this difference is the time elapsed, which no longer than a word
lasts: a delay begins before the deadline, the deadline is under the cap, and the cap leaves room
for one delay more. `TicksOfCredits` is the arithmetic of `pdMS_TO_TICKS`: always under the cap, and
exact when the product fits.

*Faults.* The mask is loaded, changed and stored without a lock. `FaultsInv` adds to `FaultsKept` that
what a task has loaded is still the mask, unless an overlap is on record; a store then changes the
mask and its history alike.

*Counters.* `TodayExact` compares today's figure with a history of what each business day took.
`CountersInv` adds that a stored figure is one its day once had (a reset reads it back) and that, as long as
nothing disturbed the day, the days to come have taken nothing: so the turn of the day may start at zero.

*Clock.* Both properties rest on the registers. A writer halts the clock with the first register it
writes and starts it with the last, so a clock that runs shows a time somebody set
(`RunningChipTrue`), however the power cuts the write, unless a flat cell left it running with a time
of nobody's; what it shows then goes on to be as wrong as it was left (`left`), and the boot seeds from
it only if it finds it within the window (`SeedBelieved`). A reader has, at each register, either what
the chip still shows or a second that turned, on which it tries again (`ReaderOK`). For
`ClocksAgree` a writeback that is under way has the time of the system clock unless a set is on record
(`WritebackCurrent`).

*Buttons.* `OneGestureOneMeaning` counts what a press or a hold has done, which no recogniser
remembers. `StartInv` and `ComboInv` say how the history shows in the recogniser: one that takes the
contact for closed has seen it closed; a clean press that has acted and is still down is past the
debounce that acts; in the menu, where a press acts when it is released or long, one still down has
not acted; a clean hold that has acted is in the last state until it is over. A lemma for each
recogniser says what one sample can raise, one for the history what one sample can change, and the
actions follow from the two. For `SavesWhatWasShown`, `HandsInv` counts samples: a button that rested
before and has been down alone for less than the debounce time has not fired, and no button edits
while the other is down; so an edit after that falls between two closures of the pair, which is no
clean hold.

*Display.* `PanelFollowsApp` is about an empty queue. `DisplayInv` says what leads there: as long as
no frame was lost since the last end of a session, the last frame in the queue is the one posted last
and a session's first second comes after something that clears the throttle (`QueueInOrder`); when it
is drawn, the panel shows it, the second that the throttle would skip is the one on the panel, and
what the heartbeat would redraw is the same screen (`PanelInOrder`). `Punctual` is why the heartbeat
does not fire where it would redraw the wrong screen: outside a beep the task posts its next frame
before the five seconds are over. In a beep it may not; the draw is then on record (`overslept`), and
`PanelInOrder` holds again from the next frame that draws.

Only model-checked: all liveness, which is out of the prover's reach (`SessionEnds`,
`OwedCreditsDispensed`, `ReadyMoneyServed`, `RowsReachFlash`, `TestModeEnds`, `CommandsFinish`,
`PhoneCatchesUp`, `UnsetClockReported`); and the log and its copies over a flash that tears records or
refuses an erase, but for `PagesTrue` and `CopiesWereFiled`.

## 5. What the models show against the documentation

Checked as runs that must fail:

1. **`log_wrap`** (`eventlog.cpp:166` against `eventlog.h:94`, "Wrap is oldest-first"). Once the ring
   has turned over, the boot scan puts the head behind the last slot in use of the partition and
   not behind the newest record. The next write then erases newer rows before older ones. With a
   second reset before the counters are flushed a number can be given twice (`eventlog.h:121`).
2. **`overflow`** (`session.cpp:152` and `:65` against `session.h:19`, "Total relay ON time = blocks *
   cfg->relay_on_ms"). `pdMS_TO_TICKS` multiplies by the tick rate in 32 bits before it divides;
   `session.cpp:28` avoids that for the cap only. Two credits at the longest relay time, 7 200 000 ms,
   run for 2 905 032 ms. The cap is not applied to the first purchase at all.
3. **`bench_relay`** (`ble_command.cpp:154` against `ble_command.h:38`). The relay pulse of the bench
   is gated at its start only; a session that starts during it loses its relay when it ends.
4. **`settings_menu`** (`app.cpp:787` against `README.md:113` and `cli.cpp:470`). A menu save writes
   back the whole configuration of the last boot, with the pages' values in it, over what console or
   phone have stored since, including the coin polarity, which was already live.

Seen while modelling, with no run of their own:

* A torn record shifts the head of the next boot against the numbering; pages come up empty from
  then on until the ring has turned over, and a phone that is behind does not advance
  (`eventlog.cpp:166`; `eventlog.cpp:406` expects "a slow sync"). `CopyIsComplete` is about a ring
  that is sound (`RingSound`).
* `eventlog.h` speaks of a page cached per connection; the code has one value for all, as
  `ble_sessionlog.h:33` concedes. Two phones that pull at once can mix a long read; `CopyIsComplete`
  excepts such a read by name (`mixed`).
* SHORT is raised on the first open sample, before the release is debounced, and the press goes on
  (`periph.cpp:564`): a contact that flickers while held turns a page of the menu and then cancels it,
  against "a single press cannot mean two things" (`periph.cpp:517`).
  `PressMeansOneThing` in `Buttons` says what does not hold.
* The READY screen does not reset what the throttle of the session screen remembers, and does not
  bring back a panel that was given up. A queue that is full drops the newest frame and keeps the
  older ones. A bus that could not be freed stays ended (`Wire.end`) until the next attempt.
* The beeps of session start and end block the application task; they may be configured up to
  10 x (5000 + 5000) ms (`ble_config.cpp:174`). With beeps of more than five seconds the heartbeat
  draws the idle screen over the session, or over "COMPLETE!". `PanelFollowsApp` excepts it by name
  (`overslept`), from that draw to the next frame with anything new to show.
* A chip that a flat cell left running with a date within the window is believed, and seeds a
  confident wrong time; `rtc.h:105` names the case and has the window against it, which is 24 years
  wide. `NoTimeThatNeverWas` excepts it by name (`believed`).
* `display.cpp:346` multiplies blocks and relay time in 32 bits, like the countdown.
* The hourly writeback reads the system clock before it has the lock (`rtc.cpp:324`): a set in
  between is overwritten in the chip with the older time, though a set is to "write BOTH" (`rtc.h:31`). `SetWritesBoth` in `RtcChip` says what does not hold, and `ClocksAgree`
  excepts it by name (`stale`).
* `clear_errors` empties the whole list, faults raised since the phone last read it included; a coin
  line that is stuck is not raised again until it turns; `rtc_valid` is false when the clock's lock
  times out, which raises a fault of its own.
* A lamp request is served in two states only and waits in all others (`app.cpp:558`); the menu has no
  timeout and keeps the machine out of service (`app.cpp:160`).
* A coin is a train of pulses and capture is read at each: one that straddles the entry to or the
  exit from test mode is split between test money and credit (`app.cpp:770` against `app.h:128`).
* A gate reads the last published state: a test-mode entry accepted as a session starts stays
  pending and opens test mode after it (`app.cpp:600`); a lamp request is replayed after the session
  and not lost (`app.h:82`); a slot request that comes as test mode ends opens the slot of the next
  one (`app.h:122`, `app.h:149`).
* A record programmed over a sector that refused its erase uses up a number and cannot be read
  (`eventlog.h:107`). The hand-off queue holds 24, a comment says 32 (`eventlog.h:137`).
* A read answered by the BLE host task while `loop()` notifies may leave the phone with the older
  figures until the next change: `PhoneCatchesUp` excepts it by name (`crossed`).
* The turn of the day is saved at once; if the write is refused, nothing retries it before the next
  coin, as `s_unsaved` was clear (`counters.cpp:86` says "stay dirty").
* The menu's relay page steps from an off-grid time out of its own range: 1001 ms down becomes 1 ms
  (page 4 of `config_menu_run`); console and phone may store such times.
* `counters.h:26` relies on a whole number of pesos per pulse; console and phone accept any centavos.
* `blocks * relay_on_ms` is 32 bits wide before the cap is applied (`session.cpp:108`).
* `AT+EEPROM_RESET` stores the default polarity but does not apply it, where `AT+COIN_POLARITY` does.

## 6. What is not modelled, and the plan

Not modelled, with the reason:

* the watchdog's pulse train, the three-wire frames of the clock chip and the clock pulses that free
  the I2C bus: real time on a pin, no state that meets other state;
* identity and device information: written once, read only;
* console parsing, BCD and the calendar, the frames' byte layout, the wording of screens: pure
  conversions that no property here is about;
* the trickle charger and the repair of a chip in 12-hour mode, and the probing of LCD addresses:
  done once at boot, before anything runs beside it;
* sensor bits, uptime and boot time of the diagnostics frame: read when the frame is built, kept nowhere;
* the lamps, the buzzer and AT+TEST's pure output tests.

The plan has been carried out as far as the models go: `Coins` and `Vend`, `Bench` over `Vend`,
`EventLog` implementing `SalesLog`, `LogSync` over `EventLog`, `Settings`, `Buttons`, `Display`,
`Counters`, `RtcChip`, `Faults`, `Countdown`. Every safety property the
passing runs check is proved. What is left is to prove `CopyIsTrue` over a flash that tears records,
where the rows of a sector are still in the order of their numbers though no longer in their places.
