-------------------------------- MODULE Vend --------------------------------
(***************************************************************************)
(* The vend state machine: the application task of src/app.cpp with the    *)
(* session countdown of src/session.cpp, running against the coin path of  *)
(* module Coins and the session accounting of src/eventlog.cpp.            *)
(*                                                                         *)
(* pc is the place the application task has reached.  Between two vTaskDelay *)
(* calls only the coin task can preempt it, so a stretch of code is cut    *)
(* into steps exactly where it touches what the coin task also touches     *)
(* (value, capture, the slot); loop() and the BLE requests it carries run  *)
(* only at the delays (Yielded).  Money is in centavos; timers are         *)
(* nondeterministic: what the code does when a timeout has elapsed is an   *)
(* action that may be taken from then on.                                  *)
(***************************************************************************)
EXTENDS Coins, Sequences

CONSTANTS
    Configs,      \* the AppConfig records that may be stored (see ConfigShape)
    Requests,     \* bench requests loop() may raise: a subset of BenchRequests
    BenchRelay,   \* may loop() drive the relay pin (BLE test_relay)?
    QueueDepth,   \* EVENTLOG_QUEUE_DEPTH: closed sessions loop() has not written
    TicksCap,     \* SESSION_TICKS_CAP: ceiling of an extended countdown
    MaxResets     \* bound: resets in a behaviour

Modes == {"press", "auto", "pause"}

(* price is coins_required * 100, unit is price_per_credit_cents (what one *)
(* pulse banks), relayTicks is relay_on_ms in SESSION_TICK_MS ticks,       *)
(* inactivity is inactivity_timeout_s > 0.                                 *)
ConfigShape == [mode : Modes, perCredit : BOOLEAN, accumulation : BOOLEAN,
                sensorStop : BOOLEAN, inactivity : BOOLEAN,
                price : Nat \ {0}, unit : Nat, relayTicks : Nat \ {0}]

BenchRequests == {"enter", "leave", "enable", "inhibit", "led"}

ASSUME VendAssumption ==
    /\ Configs \subseteq ConfigShape /\ Configs # {}
    /\ Requests \subseteq BenchRequests
    /\ BenchRelay \in BOOLEAN
    /\ QueueDepth \in Nat
    /\ TicksCap \in Nat
    /\ MaxResets \in Nat

VARIABLES
    pc,          \* where the application task is
    pub,         \* s_published_state
    cfg,         \* the task's AppConfig
    relay,       \* level of PIN_RELAY
    req,         \* s_test_mode_req, s_test_slot_req, s_user_led_test_req
    entered,     \* test_mode_entered
    due,         \* whole credits in the money the task has last read
    session,     \* session_credits
    remaining,   \* remaining_credits
    extra,       \* extra_credits of the running session_run
    run,         \* session_run's countdown
    books,       \* eventlog.cpp: the open session, the queue, what flash has
    sessions,    \* today_sessions
    dispensed,   \* history: credits put on the clock in this paid period
    spent,       \* history: centavos billed
    lost,        \* history: unbilled centavos lost to a reset
    resets       \* resets so far (bounded by MaxResets)

creditVars == <<due, session, remaining, extra, run>>
benchVars  == <<req, entered>>
ledgerVars == <<books, sessions, dispensed, spent, lost, resets>>
vendVars   == <<pc, pub, cfg, relay, creditVars, benchVars, ledgerVars>>
vars       == <<coinVars, vendVars>>

Published == {"INIT", "IDLE", "CONFIG_MODE", "TEST_MODE", "COIN_VALIDATE",
              "SESSION_ACTIVE", "WAIT_NEXT_CREDIT", "SESSION_END"}

SessionLoop == {"LOOP", "BILL_BEFORE", "SENSOR", "TICK", "BILL_AFTER"}

TestSteps == {"TEST_CAPTURE", "TEST_SERVICE", "TEST_BLINK", "TEST_EXITS",
              "TEST_REOPEN"}

Places == Published \cup SessionLoop \cup TestSteps \cup
          {"IDLE_DECIDE", "IDLE_BLINK", "CONFIG_MENU", "BILL_FIRST",
           "SESSION_START", "SESSION_DONE", "BILL_WAITING", "WAIT_DECIDE"}

NoRequest == [mode |-> "none", slot |-> "none", led |-> FALSE]

Requested == [mode : {"none", "leave", "enter"},
              slot : {"none", "inhibit", "enable"}, led : BOOLEAN]

Countdowns == [deadline : Nat, elapsed : Nat, fired : BOOLEAN, engaged : BOOLEAN]

Books == [open : Nat, queue : Seq(Nat), rows : Nat, written : Nat,
          droppedRows : Nat, dropped : Nat]

ControlTypeOK ==
    /\ pc \in Places
    /\ pub \in Published
    /\ cfg \in Configs
    /\ relay \in BOOLEAN
    /\ req \in Requested
    /\ entered \in BOOLEAN

CreditTypeOK ==
    /\ due \in Nat
    /\ session \in Nat
    /\ remaining \in Nat
    /\ extra \in Nat
    /\ run \in Countdowns

LedgerTypeOK ==
    /\ books \in Books
    /\ sessions \in Nat
    /\ dispensed \in Nat
    /\ spent \in Nat
    /\ lost \in Nat
    /\ resets \in Nat

VendTypeOK == CoinsTypeOK /\ ControlTypeOK /\ CreditTypeOK /\ LedgerTypeOK

NoRun == [deadline |-> 0, elapsed |-> 0, fired |-> FALSE, engaged |-> FALSE]

VendInit ==
    /\ CoinsInit
    /\ pc = "INIT"
    /\ pub = "INIT"
    /\ cfg \in Configs
    /\ relay = FALSE
    /\ req = NoRequest
    /\ entered = FALSE
    /\ due = 0
    /\ session = 0
    /\ remaining = 0
    /\ extra = 0
    /\ run = NoRun
    /\ books = [open |-> 0, queue |-> <<>>, rows |-> 0, written |-> 0,
                droppedRows |-> 0, dropped |-> 0]
    /\ sessions = 0
    /\ dispensed = 0
    /\ spent = 0
    /\ lost = 0
    /\ resets = 0

-----------------------------------------------------------------------------
(* Helpers.                                                                *)

(* Press To Start and Pause/Resume: the modes with an inactivity timeout   *)
(* and with per-credit gating.                                             *)
ButtonMode == cfg.mode \in {"press", "pause"}
Gated      == ButtonMode /\ cfg.perCredit

(* Slip: part of a credit counts as one.                                   *)
ReadMoneyRoundedUp == due' = (value + cfg.price - 1) \div cfg.price

(* The one place where a money total becomes credits: integer division.    *)
ReadMoney == due' = value \div cfg.price

(* coin_consume_value_cents with the eventlog_note_billed inside it.       *)
BillDue ==
    /\ ConsumeValue(due * cfg.price)
    /\ spent' = spent + due * cfg.price
    /\ books' = [books EXCEPT !.open = @ + due * cfg.price]
    /\ UNCHANGED <<slotOn, capture, acceptorVars, unitPrice, banked, captured,
                   meterVars, sessions, lost, resets>>

(* The application task sits in a vTaskDelay: IDLE's own trailing delay,   *)
(* the 600 ms of a denial, the boot splash, and the delays named here.     *)
(* The ends of the other states run straight into the next one.            *)
Yielded ==
    \/ pc = "IDLE" /\ pub \in {"IDLE", "INIT", "COIN_VALIDATE"}
    \/ pc \in {"COIN_VALIDATE", "CONFIG_MODE"} /\ pub = "IDLE"
    \/ pc = "TEST_MODE" /\ pub = "TEST_MODE"
    \/ pc = "WAIT_NEXT_CREDIT" /\ pub = "WAIT_NEXT_CREDIT"
    \/ pc = "SESSION_ACTIVE" /\ pub = "WAIT_NEXT_CREDIT"
    \/ pc \in {"IDLE_BLINK", "TEST_BLINK", "CONFIG_MENU",
               "SESSION_START", "TICK", "SESSION_DONE"}

-----------------------------------------------------------------------------
(* INIT and IDLE.                                                          *)

(* APP_STATE_INIT: load the configuration, open the slot, set the price.   *)
PowerOn ==
    /\ pc = "INIT"
    /\ cfg' \in Configs
    /\ slotOn' = TRUE
    /\ unitPrice' = cfg'.unit
    /\ relay' = FALSE
    /\ pub' = "INIT"
    /\ pc' = "IDLE"
    /\ UNCHANGED <<capture, acceptorVars, value, banked, captured, meterVars,
                   creditVars, benchVars, ledgerVars>>

(* One IDLE iteration begins: publish, read the money, and blink the lamp  *)
(* for a second if the bench asked for it.                                 *)
IdlePoll ==
    /\ pc = "IDLE"
    /\ pub' = "IDLE"
    /\ ReadMoney
    /\ req' = [req EXCEPT !.led = FALSE]
    /\ pc' = IF req.led THEN "IDLE_BLINK" ELSE "IDLE_DECIDE"
    /\ UNCHANGED <<coinVars, cfg, relay, session, remaining, extra, run,
                   entered, ledgerVars>>

Decide(place) ==
    /\ pc \in {"IDLE_DECIDE", "IDLE_BLINK"}
    /\ req' = [req EXCEPT !.mode = "none"]   \* a stray "leave" is dropped too
    /\ pc' = place
    /\ UNCHANGED <<coinVars, pub, cfg, relay, creditVars, entered, ledgerVars>>

EnterTestMode == req.mode = "enter" /\ Decide("TEST_MODE")

EnterConfig == req.mode # "enter" /\ Decide("CONFIG_MODE")

PressStart == req.mode # "enter" /\ Decide("COIN_VALIDATE")

(* Slip: a single credit never starts by itself.                           *)
AutoStartAboveOne ==
    /\ req.mode # "enter"
    /\ cfg.mode = "auto"
    /\ due > 1
    /\ Decide("COIN_VALIDATE")

(* Auto Start once the deposit has settled.                                *)
AutoStart ==
    /\ req.mode # "enter"
    /\ cfg.mode = "auto"
    /\ due >= 1
    /\ Decide("COIN_VALIDATE")

(* The customer walked away from a ready machine.                          *)
InactivityStart ==
    /\ req.mode # "enter"
    /\ ButtonMode
    /\ cfg.inactivity
    /\ due >= 1
    /\ Decide("COIN_VALIDATE")

StayIdle == req.mode # "enter" /\ Decide("IDLE")

-----------------------------------------------------------------------------
(* CONFIG_MODE: the slot is inhibited for the whole menu.                  *)

ConfigEnter ==
    /\ pc = "CONFIG_MODE"
    /\ pub' = "CONFIG_MODE"
    /\ slotOn' = FALSE
    /\ pc' = "CONFIG_MENU"
    /\ UNCHANGED <<capture, acceptorVars, bankVars, meterVars, cfg, relay,
                   creditVars, benchVars, ledgerVars>>

(* The menu returns: saved with any configuration, or cancelled.           *)
ConfigLeave ==
    /\ pc = "CONFIG_MENU"
    /\ \/ cfg' \in Configs /\ unitPrice' = cfg'.unit
       \/ UNCHANGED <<cfg, unitPrice>>
    /\ slotOn' = TRUE
    /\ pc' = "IDLE"
    /\ UNCHANGED <<capture, acceptorVars, value, banked, captured, meterVars,
                   pub, relay, creditVars, benchVars, ledgerVars>>

-----------------------------------------------------------------------------
(* TEST_MODE.                                                              *)

(* First iteration: relay off, slot inhibited ...                          *)
TestEnter ==
    /\ pc = "TEST_MODE"
    /\ ~entered
    /\ entered' = TRUE
    /\ pub' = "TEST_MODE"
    /\ relay' = FALSE
    /\ slotOn' = FALSE
    /\ pc' = "TEST_CAPTURE"
    /\ UNCHANGED <<capture, acceptorVars, bankVars, meterVars, cfg, creditVars,
                   req, ledgerVars>>

(* Slip: nobody turns capture on.                                          *)
TestCaptureForgotten ==
    /\ pc = "TEST_CAPTURE"
    /\ ResetTestAmount
    /\ pc' = "TEST_SERVICE"
    /\ UNCHANGED <<slotOn, capture, acceptorVars, bankVars, tally, lifetime,
                   saved, unmetered, pub, cfg, relay, creditVars, benchVars,
                   ledgerVars>>

(* ... and only then capture on.                                           *)
TestCapture ==
    /\ pc = "TEST_CAPTURE"
    /\ capture' = TRUE
    /\ ResetTestAmount
    /\ pc' = "TEST_SERVICE"
    /\ UNCHANGED <<slotOn, acceptorVars, bankVars, tally, lifetime, saved,
                   unmetered, pub, cfg, relay, creditVars, benchVars, ledgerVars>>

(* The coin-slot and lamp requests of one iteration.                       *)
TestService ==
    /\ \/ pc = "TEST_SERVICE"
       \/ pc = "TEST_MODE" /\ entered
    /\ pub' = "TEST_MODE"
    /\ \/ /\ req.slot = "enable"
          /\ ResetTestAmount
          /\ slotOn' = TRUE
       \/ /\ req.slot = "inhibit"
          /\ slotOn' = FALSE
          /\ UNCHANGED testCents
       \/ /\ req.slot = "none"
          /\ UNCHANGED <<slotOn, testCents>>
    /\ req' = [req EXCEPT !.slot = "none", !.led = FALSE]
    /\ pc' = IF req.led THEN "TEST_BLINK" ELSE "TEST_EXITS"
    /\ UNCHANGED <<capture, acceptorVars, bankVars, tally, lifetime, saved,
                   unmetered, cfg, relay, creditVars, entered, ledgerVars>>

TestStay ==
    /\ pc \in {"TEST_EXITS", "TEST_BLINK"}
    /\ req.mode # "leave"
    /\ pc' = "TEST_MODE"
    /\ UNCHANGED <<coinVars, pub, cfg, relay, creditVars, benchVars, ledgerVars>>

(* Slip: the slot opens first and capture would go off after it.           *)
TestExitOpensFirst ==
    /\ pc \in {"TEST_EXITS", "TEST_BLINK"}
    /\ req' = [req EXCEPT !.mode = "none", !.slot = "none"]
    /\ entered' = FALSE
    /\ relay' = FALSE
    /\ slotOn' = TRUE
    /\ pc' = "TEST_REOPEN"
    /\ UNCHANGED <<capture, acceptorVars, bankVars, meterVars, pub, cfg,
                   creditVars, ledgerVars>>

(* The three exits: the command, BTN1+BTN2, and the idle timeout.  Requests *)
(* still pending are dropped; capture goes off ...                         *)
TestExit ==
    /\ pc \in {"TEST_EXITS", "TEST_BLINK"}
    /\ req' = [req EXCEPT !.mode = "none", !.slot = "none"]
    /\ entered' = FALSE
    /\ relay' = FALSE
    /\ capture' = FALSE
    /\ pc' = "TEST_REOPEN"
    /\ UNCHANGED <<slotOn, acceptorVars, bankVars, meterVars, pub, cfg,
                   creditVars, ledgerVars>>

(* Slip: the slot stays as the technician left it.                         *)
TestReopenForgotten ==
    /\ pc = "TEST_REOPEN"
    /\ ResetTestAmount
    /\ pc' = "IDLE"
    /\ UNCHANGED <<slotOn, capture, acceptorVars, bankVars, tally, lifetime,
                   saved, unmetered, pub, cfg, relay, creditVars, benchVars,
                   ledgerVars>>

(* ... strictly before the slot opens for customers again.                 *)
TestReopen ==
    /\ pc = "TEST_REOPEN"
    /\ ResetTestAmount
    /\ slotOn' = TRUE
    /\ pc' = "IDLE"
    /\ UNCHANGED <<capture, acceptorVars, bankVars, tally, lifetime, saved,
                   unmetered, pub, cfg, relay, creditVars, benchVars, ledgerVars>>

-----------------------------------------------------------------------------
(* COIN_VALIDATE.                                                          *)

CoinValidate ==
    /\ pc = "COIN_VALIDATE"
    /\ pub' = "COIN_VALIDATE"
    /\ ReadMoney
    /\ \/ /\ due' >= 1
          /\ pc' = "BILL_FIRST"
          /\ UNCHANGED session
       \/ /\ due' = 0
          /\ session' = 0
          /\ pc' = "IDLE"
    /\ UNCHANGED <<coinVars, cfg, relay, remaining, extra, run, benchVars,
                   ledgerVars>>

(* Bill the whole credits; per-credit gating dispenses the first of them   *)
(* and owes the rest.                                                      *)
BillFirst ==
    /\ pc = "BILL_FIRST"
    /\ BillDue
    /\ remaining' = IF Gated THEN due ELSE 0
    /\ session' = IF Gated THEN 1 ELSE due
    /\ pc' = "SESSION_ACTIVE"
    /\ UNCHANGED <<pub, cfg, relay, due, extra, run, benchVars, dispensed>>

-----------------------------------------------------------------------------
(* SESSION_ACTIVE: session_run and what app.cpp does with its result.      *)

SessionEnter ==
    /\ pc = "SESSION_ACTIVE"
    /\ pub' = "SESSION_ACTIVE"
    /\ extra' = 0
    /\ pc' = "SESSION_START"
    /\ UNCHANGED <<coinVars, cfg, relay, due, session, remaining, run,
                   benchVars, ledgerVars>>

(* Relay on; the slot is inhibited unless the session accumulates.         *)
SessionStart ==
    /\ pc = "SESSION_START"
    /\ relay' = TRUE
    /\ slotOn' = (slotOn /\ cfg.accumulation)
    /\ run' = [deadline |-> session * cfg.relayTicks, elapsed |-> 0,
               fired |-> FALSE, engaged |-> TRUE]
    /\ dispensed' = dispensed + session
    /\ pc' = "LOOP"
    /\ UNCHANGED <<capture, acceptorVars, bankVars, meterVars, pub, cfg, due,
                   session, remaining, extra, benchVars, books, sessions,
                   spent, lost, resets>>

CountingDown == ~run.fired /\ run.elapsed < run.deadline

(* Head of the countdown loop: the Pause/Resume toggle, then accumulation  *)
(* reads the money before the delay.                                       *)
SessionIterate ==
    /\ pc = "LOOP"
    /\ CountingDown
    /\ \/ UNCHANGED <<run, relay>>
       \/ /\ cfg.mode = "pause"
          /\ run' = [run EXCEPT !.engaged = ~@]
          /\ relay' = ~run.engaged
    /\ IF cfg.accumulation THEN ReadMoney ELSE due' = 0
    /\ pc' = IF due' >= 1 THEN "BILL_BEFORE" ELSE "SENSOR"
    /\ UNCHANGED <<coinVars, pub, cfg, session, remaining, extra, benchVars,
                   ledgerVars>>

(* Slip: the countdown waits for ever.                                     *)
SessionSenseFrozen ==
    /\ pc = "SENSOR"
    /\ \E fires \in BOOLEAN :
          /\ fires => cfg.sensorStop
          /\ run' = [run EXCEPT !.fired = fires]
    /\ pc' = "TICK"
    /\ UNCHANGED <<coinVars, pub, cfg, relay, due, session, remaining, extra,
                   benchVars, ledgerVars>>

(* Sensor Stop, then one tick passes in vTaskDelay.                        *)
SessionSense ==
    /\ pc = "SENSOR"
    /\ \E fires \in BOOLEAN :
          /\ fires => cfg.sensorStop
          /\ run' = [run EXCEPT !.fired = fires, !.elapsed = @ + 1]
    /\ pc' = "TICK"
    /\ UNCHANGED <<coinVars, pub, cfg, relay, due, session, remaining, extra,
                   benchVars, ledgerVars>>

(* Accumulation reads the money once more after the delay.                 *)
SessionTick ==
    /\ pc = "TICK"
    /\ IF cfg.accumulation THEN ReadMoney ELSE due' = 0
    /\ pc' = IF due' >= 1 THEN "BILL_AFTER" ELSE "LOOP"
    /\ UNCHANGED <<coinVars, pub, cfg, relay, session, remaining, extra, run,
                   benchVars, ledgerVars>>

(* Slip: a top-up restarts the countdown instead of extending it.          *)
Restarted(deadline) == due * cfg.relayTicks

Extended(deadline) ==
    LET longer == deadline + due * cfg.relayTicks
    IN  IF longer > TicksCap THEN TicksCap ELSE longer

(* session_apply_accumulation: bill, then queue the credits (gated) or     *)
(* extend the countdown.                                                   *)
BillRunning ==
    /\ pc \in {"BILL_BEFORE", "BILL_AFTER"}
    /\ BillDue
    /\ \/ /\ Gated
          /\ extra' = extra + due
          /\ UNCHANGED <<run, dispensed>>
       \/ /\ ~Gated
          /\ run' = [run EXCEPT !.deadline = Extended(@)]
          /\ dispensed' = dispensed + due
          /\ UNCHANGED extra
    /\ pc' = IF pc = "BILL_BEFORE" THEN "SENSOR" ELSE "LOOP"
    /\ UNCHANGED <<pub, cfg, relay, due, session, remaining, benchVars>>

(* Slip: the relay is left as Pause/Resume had it.                         *)
SessionStopLatched ==
    /\ pc = "LOOP"
    /\ ~CountingDown
    /\ slotOn' = TRUE
    /\ pc' = "SESSION_DONE"
    /\ UNCHANGED <<capture, acceptorVars, bankVars, meterVars, pub, cfg, relay,
                   creditVars, benchVars, ledgerVars>>

SessionStop ==
    /\ pc = "LOOP"
    /\ ~CountingDown
    /\ relay' = FALSE
    /\ slotOn' = TRUE
    /\ pc' = "SESSION_DONE"
    /\ UNCHANGED <<capture, acceptorVars, bankVars, meterVars, pub, cfg,
                   creditVars, benchVars, ledgerVars>>

(* Slip: the decrement has lost its guard.                                 *)
SessionReturnUnguarded ==
    /\ pc = "SESSION_DONE"
    /\ LET owed == remaining + extra IN
          /\ remaining' = owed - 1
          /\ pc' = IF owed > 1 THEN "WAIT_NEXT_CREDIT" ELSE "SESSION_END"
    /\ UNCHANGED <<coinVars, pub, cfg, relay, due, session, extra, run,
                   benchVars, ledgerVars>>

(* Back in app.cpp: credits queued while running join the owed ones, the   *)
(* one just dispensed leaves them.                                         *)
SessionReturn ==
    /\ pc = "SESSION_DONE"
    /\ LET owed == remaining + extra IN
          /\ remaining' = IF owed > 0 THEN owed - 1 ELSE 0
          /\ pc' = IF owed > 1 THEN "WAIT_NEXT_CREDIT" ELSE "SESSION_END"
    /\ UNCHANGED <<coinVars, pub, cfg, relay, due, session, extra, run,
                   benchVars, ledgerVars>>

-----------------------------------------------------------------------------
(* WAIT_NEXT_CREDIT.                                                       *)

WaitPoll ==
    /\ pc = "WAIT_NEXT_CREDIT"
    /\ pub' = "WAIT_NEXT_CREDIT"
    /\ IF cfg.accumulation THEN ReadMoney ELSE due' = 0
    /\ pc' = IF due' >= 1 THEN "BILL_WAITING" ELSE "WAIT_DECIDE"
    /\ UNCHANGED <<coinVars, cfg, relay, session, remaining, extra, run,
                   benchVars, ledgerVars>>

(* Slip: the credits just billed replace the ones still owed.              *)
BillWaitingReplacing ==
    /\ pc = "BILL_WAITING"
    /\ BillDue
    /\ remaining' = due
    /\ pc' = "WAIT_DECIDE"
    /\ UNCHANGED <<pub, cfg, relay, due, session, extra, run, benchVars,
                   dispensed>>

BillWaiting ==
    /\ pc = "BILL_WAITING"
    /\ BillDue
    /\ remaining' = remaining + due
    /\ pc' = "WAIT_DECIDE"
    /\ UNCHANGED <<pub, cfg, relay, due, session, extra, run, benchVars,
                   dispensed>>

DecideWait(place, credits) ==
    /\ pc = "WAIT_DECIDE"
    /\ pc' = place
    /\ session' = credits
    /\ UNCHANGED <<coinVars, pub, cfg, relay, due, remaining, extra, run,
                   benchVars, ledgerVars>>

NextCreditPressed == DecideWait("SESSION_ACTIVE", 1)

(* Slip: the timeout is left out of Press To Start.                        *)
NextCreditTimeoutPauseOnly ==
    cfg.mode = "pause" /\ cfg.inactivity /\ DecideWait("SESSION_ACTIVE", 1)

NextCreditTimeout == cfg.inactivity /\ DecideWait("SESSION_ACTIVE", 1)

(* Slip: test mode is entered from the wait between credits, too.          *)
KeepWaitingOrTest ==
    DecideWait(IF req.mode = "enter" THEN "TEST_MODE" ELSE "WAIT_NEXT_CREDIT",
               session)

KeepWaiting == DecideWait("WAIT_NEXT_CREDIT", session)

-----------------------------------------------------------------------------
(* SESSION_END.                                                            *)

(* Slip: the open session is not cleared, its money is reported again.     *)
CloseBooksUncleared ==
    books' = IF Len(books.queue) < QueueDepth
             THEN [books EXCEPT !.queue = Append(@, books.open)]
             ELSE [books EXCEPT !.droppedRows = @ + 1,
                                !.dropped = @ + books.open]

(* eventlog_record_session: one row for the whole paid period, dropped     *)
(* when loop() has let the queue fill.                                     *)
CloseBooks ==
    books' = IF books.open = 0 THEN books
             ELSE IF Len(books.queue) < QueueDepth
             THEN [books EXCEPT !.queue = Append(@, books.open), !.open = 0]
             ELSE [books EXCEPT !.droppedRows = @ + 1,
                                !.dropped = @ + books.open, !.open = 0]

SessionEnd ==
    /\ pc = "SESSION_END"
    /\ pub' = "SESSION_END"
    /\ relay' = FALSE
    /\ \/ tally = NoTally /\ sessions' = sessions + 1 /\ MayRollDay
       \/ FALSE \in LockOutcomes /\ UNCHANGED <<sessions, saved>>
    /\ CloseBooks
    /\ session' = 0
    /\ remaining' = 0
    /\ dispensed' = 0
    /\ pc' = "IDLE"
    /\ UNCHANGED <<slotOn, capture, acceptorVars, bankVars, tally, lifetime,
                   testCents, unmetered, cfg, due, extra, run, benchVars, spent,
                   lost, resets>>

-----------------------------------------------------------------------------
(* Around the application task.                                            *)

(* Slip: the last one in the queue is left there.                          *)
WriteRowButLast ==
    /\ Yielded
    /\ Len(books.queue) > 1
    /\ books' = [books EXCEPT !.queue = Tail(@), !.rows = @ + 1,
                              !.written = @ + Head(books.queue)]
    /\ UNCHANGED <<coinVars, pc, pub, cfg, relay, creditVars, benchVars,
                   sessions, dispensed, spent, lost, resets>>

(* eventlog_service in loop(): the oldest closed session goes to flash and *)
(* only then leaves the queue.                                             *)
WriteRow ==
    /\ Yielded
    /\ books.queue # <<>>
    /\ books' = [books EXCEPT !.queue = Tail(@), !.rows = @ + 1,
                              !.written = @ + Head(books.queue)]
    /\ UNCHANGED <<coinVars, pc, pub, cfg, relay, creditVars, benchVars,
                   sessions, dispensed, spent, lost, resets>>

(* loop() raises a bench request.  Which of them the BLE and CLI gates let *)
(* through, and when, is module Bench; here any may arrive at any time.    *)
RaiseRequest ==
    /\ Yielded
    /\ \E r \in Requests :
          req' = CASE r = "enter"   -> [req EXCEPT !.mode = "enter"]
                   [] r = "leave"   -> [req EXCEPT !.mode = "leave"]
                   [] r = "enable"  -> [req EXCEPT !.slot = "enable"]
                   [] r = "inhibit" -> [req EXCEPT !.slot = "inhibit"]
                   [] OTHER         -> [req EXCEPT !.led = TRUE]
    /\ UNCHANGED <<coinVars, pc, pub, cfg, relay, creditVars, entered, ledgerVars>>

(* loop() drives the relay pin for a test_relay pulse.                     *)
DriveRelay ==
    /\ BenchRelay
    /\ Yielded
    /\ relay' \in BOOLEAN
    /\ UNCHANGED <<coinVars, pc, pub, cfg, creditVars, benchVars, ledgerVars>>

(* A coin goes in: the technician's in test mode, a customer's otherwise.  *)
InsertCoin ==
    /\ DropCoin(IF entered THEN "technician" ELSE "customer")
    /\ UNCHANGED vendVars

(* While the board boots, before the coin task exists, pulses go unseen.   *)
MissPulse ==
    /\ pc = "INIT"
    /\ train > 0
    /\ train' = train - 1
    /\ UNCHANGED <<slotOn, capture, trainBy, coins, bankVars, meterVars, vendVars>>

(* loop() flushes the counters; it runs only while the application yields. *)
LoopFlush == Yielded /\ FlushCounters /\ UNCHANGED vendVars

CoinTask == (AcceptPulse \/ RecordTally) /\ UNCHANGED vendVars

(* Power cycle, watchdog or AT+RESET: everything in RAM is gone and the    *)
(* relay falls.                                                            *)
Reset ==
    /\ resets < MaxResets
    /\ resets' = resets + 1
    /\ CoinsReset
    /\ lost' = lost + value
    /\ books' = [books EXCEPT !.open = 0, !.queue = <<>>]
    /\ sessions' \in 0..sessions
    /\ pc' = "INIT"
    /\ pub' = "INIT"
    /\ relay' = FALSE
    /\ req' = NoRequest
    /\ entered' = FALSE
    /\ due' = 0
    /\ session' = 0
    /\ remaining' = 0
    /\ extra' = 0
    /\ run' = NoRun
    /\ dispensed' = 0
    /\ UNCHANGED <<cfg, spent>>

-----------------------------------------------------------------------------

IdleNext == \/ IdlePoll \/ EnterTestMode \/ EnterConfig \/ PressStart
            \/ AutoStart \/ InactivityStart \/ StayIdle

ConfigNext == ConfigEnter \/ ConfigLeave

TestNext == \/ TestEnter \/ TestCapture \/ TestService \/ TestStay
            \/ TestExit \/ TestReopen

SessionNext == \/ CoinValidate \/ BillFirst \/ SessionEnter \/ SessionStart
               \/ SessionIterate \/ SessionSense \/ SessionTick \/ BillRunning
               \/ SessionStop \/ SessionReturn

WaitNext == \/ WaitPoll \/ BillWaiting \/ NextCreditPressed
            \/ NextCreditTimeout \/ KeepWaiting

AppNext == PowerOn \/ IdleNext \/ ConfigNext \/ TestNext \/ SessionNext
           \/ WaitNext \/ SessionEnd

EnvNext == InsertCoin \/ MissPulse \/ CoinTask \/ LoopFlush \/ WriteRow
           \/ RaiseRequest \/ DriveRelay \/ Reset

Next == AppNext \/ EnvNext

Spec == VendInit /\ [][Next]_vars

-----------------------------------------------------------------------------
(* Safety.                                                                 *)

Billing == pc \in {"BILL_FIRST", "BILL_BEFORE", "BILL_AFTER", "BILL_WAITING"}

(* The coin task adds to the total between the read that counts the whole  *)
(* credits (coin_get_value_cents) and the consume that bills them, and may *)
(* do so anywhere else: still every centavo banked is unbilled, billed, or *)
(* was in RAM at a reset.  coin_consume_value_cents' floor at zero, which  *)
(* would forgive a debt silently, is never what makes this true.           *)
MoneyConserved == TotalBanked = value + spent + lost

BillingCovered == Billing => due * cfg.price <= value

CentsIn(queue) ==
    LET sum[n \in 0..Len(queue)] == IF n = 0 THEN 0 ELSE sum[n-1] + queue[n]
    IN  sum[Len(queue)]

(* Until a reset, every centavo billed is in the open session, in the      *)
(* hand-off queue, in a row on flash, or counted as dropped                *)
(* (eventlog_note_billed, eventlog_record_session, eventlog_service); and  *)
(* a paid period is one row of the log and one of today_sessions, however  *)
(* many credits, pauses and top-ups it had (app.cpp, SESSION_END: "the two *)
(* now agree on what a session is"), unless the counters' lock timed out.  *)
BooksBalance ==
    resets = 0 =>
        /\ spent = books.open + CentsIn(books.queue) + books.written + books.dropped
        /\ LockOutcomes = {TRUE} =>
               sessions = Len(books.queue) + books.rows + books.droppedRows

(* Credits paid for and not yet on the clock.                              *)
Owed ==
    CASE pc \in {"SESSION_ACTIVE", "SESSION_START"} ->
            (IF Gated THEN remaining ELSE session)
      [] pc \in SessionLoop \cup {"SESSION_DONE"} ->
            (IF Gated THEN remaining + extra - 1 ELSE 0)
      [] pc \in {"WAIT_NEXT_CREDIT", "BILL_WAITING", "WAIT_DECIDE"} -> remaining
      [] OTHER -> 0

(* At every point of a paid period the money billed for it is the price of *)
(* the credits already on the clock and of those still owed, through the   *)
(* per-credit gate, the top-ups while running and while waiting, and the   *)
(* decrement after each block; outside a paid period nothing is billed.    *)
EveryCreditAccounted == books.open = cfg.price * (dispensed + Owed)

(* The countdown of one session_run ends early only for the sensor: all of *)
(* the time bought, top-ups included, up to the cap, has passed by then.   *)
PaidTimeGranted ==
    pc = "SESSION_DONE" /\ ~run.fired =>
        LET blocks == IF Gated THEN 1 ELSE dispensed
            bought == blocks * cfg.relayTicks
        IN  run.elapsed >= bought \/ run.elapsed >= TicksCap

(* The relay is on only inside a countdown, and there it is what the       *)
(* Pause/Resume toggle says, in every mode (when loop() leaves it alone).  *)
RelayFollowsCountdown ==
    ~BenchRelay =>
        IF pc \in SessionLoop THEN relay = run.engaged ELSE ~relay

(* Test mode from capture on to capture off.                               *)
TestInProgress ==
    \/ pc \in {"TEST_SERVICE", "TEST_BLINK", "TEST_EXITS"}
    \/ pc = "TEST_MODE" /\ entered

(* Who may insert a coin, and whether it would be a test coin.  Capture is *)
(* on for all of a test, so that the technician's coins are never banked,  *)
(* and at no other place: not before the slot is closed at the entry, and  *)
(* off again before the slot opens for customers (app.cpp, "capture OFF    *)
(* strictly BEFORE the slot re-opens").  The slot is closed until capture  *)
(* is on at the entry, in the menu, and in a session that does not         *)
(* accumulate; an idle or waiting machine takes money.                     *)
SlotDiscipline ==
    /\ capture <=> TestInProgress
    /\ pc \in {"TEST_CAPTURE", "CONFIG_MENU"} => ~slotOn
    /\ pc \in SessionLoop => (slotOn <=> cfg.accumulation)
    /\ pc \in {"IDLE", "IDLE_DECIDE", "IDLE_BLINK", "WAIT_DECIDE"} => slotOn

(* Neither test mode nor the menu ever opens over a paid period: app.cpp,  *)
(* IDLE, "it can never abandon a session a customer has paid for".         *)
NeverAbandonsVend ==
    pc \in TestSteps \cup {"TEST_MODE", "CONFIG_MODE", "CONFIG_MENU"} =>
        books.open = 0 /\ remaining = 0 /\ ~(relay /\ ~BenchRelay)

(* For all of a test, whatever the technician inserts and wherever the     *)
(* coin task preempts it, nothing is banked, billed or put on the clock,   *)
(* short of a reset (the capture flag of periph.cpp's coin task).          *)
TestModeMovesNoMoney ==
    [][TestInProgress /\ resets' = resets =>
          UNCHANGED <<value, spent, dispensed, sessions>>]_vars

-----------------------------------------------------------------------------
(* Liveness.  The scheduler runs a ready task: the application task makes  *)
(* progress except in the menu, which waits for the operator for ever; the *)
(* coin task handles its pulses; loop() gets the CPU when the application  *)
(* yields; and a timeout the code polls for is honoured in the end.        *)

AppProgress == AppNext /\ pc # "CONFIG_MENU"

Fairness ==
    /\ WF_vars(AppProgress)
    /\ WF_vars(CoinTask)
    /\ SF_vars(WriteRow)
    /\ SF_vars(AutoStart)
    /\ SF_vars(InactivityStart)
    /\ SF_vars(NextCreditTimeout)
    /\ SF_vars(TestExit)

FairSpec == Spec /\ Fairness

(* A countdown comes to its end, whatever is inserted meanwhile.           *)
SessionEnds == pub = "SESSION_ACTIVE" ~> pub # "SESSION_ACTIVE"

(* "Limit Between Credits": with an inactivity timeout set, credits owed   *)
(* under per-credit gating are all dispensed and the period is closed,     *)
(* with no button press.                                                   *)
OwedCreditsDispensed ==
    pub = "WAIT_NEXT_CREDIT" /\ cfg.inactivity ~> books.open = 0

(* An idle machine that can start by itself and holds the price of a       *)
(* credit starts, unless the operator opens the menu or test mode.         *)
SelfStarting == cfg.mode = "auto" \/ (ButtonMode /\ cfg.inactivity)

ReadyMoneyServed ==
    pc = "IDLE" /\ value >= cfg.price /\ SelfStarting
        ~> books.open > 0 \/ pc = "CONFIG_MENU" \/ pub = "TEST_MODE"

(* A closed session reaches flash.                                         *)
RowsReachFlash == books.queue # <<>> ~> books.queue = <<>>

(* Test mode gives the machine back to customers: slot open, coins real.   *)
TestModeEnds == pub = "TEST_MODE" ~> pub = "IDLE" /\ slotOn /\ ~capture

=============================================================================
