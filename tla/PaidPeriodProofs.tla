--------------------------- MODULE PaidPeriodProofs ---------------------------
(***************************************************************************)
(* Theorems about a paid period, for every set of configurations and every *)
(* bound: each credit billed is put on the clock or owed, none is          *)
(* abandoned; the time bought is granted; the relay follows the countdown; *)
(* and the slot is open and its coins real where they ought to be.         *)
(***************************************************************************)
EXTENDS VendProofs, WellFoundedInduction

Waiting == {"WAIT_NEXT_CREDIT", "BILL_WAITING", "WAIT_DECIDE"}
Starting == {"SESSION_ACTIVE", "SESSION_START"}
InSession == SessionLoop \cup {"SESSION_DONE"}
PaidPeriod == Starting \cup InSession \cup Waiting \cup {"SESSION_END"}

-----------------------------------------------------------------------------
(* The coin slot.                                                          *)

(* The places between which nothing closes the slot.                       *)
OpenPlaces == {"IDLE", "IDLE_DECIDE", "IDLE_BLINK", "COIN_VALIDATE", "BILL_FIRST",
               "SESSION_DONE", "SESSION_END"} \cup Starting \cup Waiting

(* SlotDiscipline, with the places that lead to those it is about.         *)
SlotInv ==
    /\ capture <=> TestInProgress
    /\ entered <=> pc = "TEST_CAPTURE" \/ TestInProgress
    /\ pc \in {"TEST_CAPTURE", "CONFIG_MENU"} => ~slotOn
    /\ pc \in SessionLoop => slotOn = cfg.accumulation
    /\ pc \in OpenPlaces => slotOn

LEMMA SlotFrame ==
    ASSUME SlotInv, UNCHANGED <<pc, slotOn, capture, cfg, entered>>
    PROVE  SlotInv'
BY DEF SlotInv, TestInProgress

(* A step between two open places, or one inside a countdown.              *)
LEMMA SlotStays ==
    ASSUME SlotInv, UNCHANGED <<slotOn, capture, cfg, entered>>,
           \/ pc \in OpenPlaces /\ pc' \in OpenPlaces \cup {"CONFIG_MODE", "TEST_MODE"}
           \/ pc \in SessionLoop /\ pc' \in SessionLoop
    PROVE  SlotInv'
BY DEF SlotInv, TestInProgress, OpenPlaces, Starting, Waiting, SessionLoop

LEMMA SlotStep ==
    ASSUME VendTypeOK, SlotInv, Next
    PROVE  SlotInv'
  <1>1. CASE InsertCoin \/ MissPulse \/ CoinTask \/ LoopFlush \/ WriteRow
             \/ RaiseRequest \/ DriveRelay
    BY <1>1, SlotFrame DEF InsertCoin, DropCoin, MissPulse, CoinTask,
       AcceptPulse, RecordTally, LoopFlush, FlushCounters, WriteRow,
       RaiseRequest, DriveRelay, coinVars, vendVars, benchVars
  <1>2. CASE Reset
    BY <1>2 DEF Reset, CoinsReset, benchVars, SlotInv, TestInProgress,
       OpenPlaces, Starting, Waiting, SessionLoop
  <1>3. CASE PowerOn
    BY <1>3 DEF PowerOn, benchVars, SlotInv, TestInProgress, OpenPlaces,
       Starting, Waiting, SessionLoop
  <1>4. CASE IdleNext
    BY <1>4, SlotStays DEF IdleNext, IdlePoll, EnterTestMode, EnterConfig,
       PressStart, AutoStart, InactivityStart, StayIdle, Decide, coinVars,
       benchVars, OpenPlaces
  <1>5. CASE ConfigNext
    BY <1>5 DEF ConfigNext, ConfigEnter, ConfigLeave, benchVars, SlotInv,
       TestInProgress, OpenPlaces, Starting, Waiting, SessionLoop
  <1>6. CASE TestEnter \/ TestCapture \/ TestExit \/ TestReopen
    BY <1>6 DEF TestEnter, TestCapture, TestExit, TestReopen, benchVars,
       SlotInv, TestInProgress, OpenPlaces, Starting, Waiting, SessionLoop
  <1>7. CASE TestService
    BY <1>7 DEF TestService, benchVars, SlotInv, TestInProgress, OpenPlaces,
       Starting, Waiting, SessionLoop
  <1>8. CASE TestStay
    BY <1>8 DEF TestStay, coinVars, benchVars, SlotInv, TestInProgress,
       OpenPlaces, Starting, Waiting, SessionLoop
  <1>9. CASE CoinValidate \/ SessionEnter \/ SessionReturn \/ WaitNext
    BY <1>9, SlotStays DEF CoinValidate, SessionEnter, SessionReturn, WaitNext,
       WaitPoll, BillWaiting, BillDue, NextCreditPressed, NextCreditTimeout,
       KeepWaiting, DecideWait, coinVars, benchVars, OpenPlaces, Starting,
       Waiting
  <1>10. CASE BillFirst \/ SessionEnd
    BY <1>10, SlotStays DEF BillFirst, BillDue, SessionEnd, benchVars,
       OpenPlaces, Starting
  <1>11. CASE SessionStart
    <2>1. slotOn = TRUE /\ ~capture
      BY <1>11 DEF SessionStart, benchVars, SlotInv, TestInProgress, OpenPlaces,
         Starting, Waiting, SessionLoop, VendTypeOK, CoinsTypeOK
    <2>2. cfg.accumulation \in BOOLEAN /\ slotOn' = (slotOn /\ cfg.accumulation)
      BY <1>11, VendAssumption DEF SessionStart, ConfigShape, VendTypeOK,
         ControlTypeOK
    <2>3. slotOn' = cfg.accumulation
      BY <2>1, <2>2, Zenon
    <2>4. pc' = "LOOP" /\ UNCHANGED <<cfg, capture, entered>>
      BY <1>11 DEF SessionStart, benchVars
    <2> QED
      BY <2>1, <2>3, <2>4 DEF SlotInv, TestInProgress, OpenPlaces, Starting,
         Waiting, SessionLoop
  <1>13. CASE SessionStop
    BY <1>13 DEF SessionStop, benchVars, SlotInv, TestInProgress, OpenPlaces,
       Starting, Waiting, SessionLoop
  <1>12. CASE SessionIterate \/ SessionSense \/ SessionTick \/ BillRunning
    BY <1>12, SlotStays DEF SessionIterate, SessionSense, SessionTick,
       BillRunning, BillDue, coinVars, benchVars, SessionLoop
  <1> QED
    BY <1>1, <1>2, <1>3, <1>4, <1>5, <1>6, <1>7, <1>8, <1>9, <1>10, <1>11,
       <1>12,
       <1>13
       DEF Next, AppNext, EnvNext, TestNext, SessionNext

-----------------------------------------------------------------------------
(* The relay.                                                              *)

LEMMA RelayFrame ==
    ASSUME RelayFollowsCountdown, UNCHANGED <<relay, run>>,
           pc \in SessionLoop <=> pc' \in SessionLoop
    PROVE  RelayFollowsCountdown'
BY DEF RelayFollowsCountdown

LEMMA RelayOff ==
    ASSUME relay' = FALSE, pc' \notin SessionLoop
    PROVE  RelayFollowsCountdown'
BY DEF RelayFollowsCountdown

LEMMA RelayStep ==
    ASSUME VendTypeOK, RelayFollowsCountdown, Next
    PROVE  RelayFollowsCountdown'
  <1>1. CASE InsertCoin \/ MissPulse \/ CoinTask \/ LoopFlush \/ WriteRow
             \/ RaiseRequest
    BY <1>1, RelayFrame DEF InsertCoin, MissPulse, CoinTask, LoopFlush, WriteRow,
       RaiseRequest, vendVars, creditVars
  <1>2. CASE DriveRelay
    BY <1>2 DEF DriveRelay, RelayFollowsCountdown
  <1>3. CASE Reset \/ PowerOn \/ TestEnter \/ TestExit \/ SessionStop \/ SessionEnd
    BY <1>3, RelayOff DEF Reset, PowerOn, TestEnter, TestExit, SessionStop,
       SessionEnd, SessionLoop
  <1>4. CASE IdleNext
    BY <1>4, RelayFrame DEF IdleNext, IdlePoll, EnterTestMode, EnterConfig,
       PressStart, AutoStart, InactivityStart, StayIdle, Decide, creditVars,
       SessionLoop
  <1>5. CASE ConfigNext \/ TestCapture \/ TestService \/ TestStay \/ TestReopen
    BY <1>5, RelayFrame DEF ConfigNext, ConfigEnter, ConfigLeave, TestCapture,
       TestService, TestStay, TestReopen, creditVars, SessionLoop
  <1>6. CASE CoinValidate \/ BillFirst \/ SessionEnter \/ SessionReturn \/ WaitNext
    BY <1>6, RelayFrame DEF CoinValidate, BillFirst, SessionEnter, SessionReturn,
       WaitNext, WaitPoll, BillWaiting, NextCreditPressed, NextCreditTimeout,
       KeepWaiting, DecideWait, SessionLoop
  <1>7. CASE SessionStart
    BY <1>7 DEF SessionStart, RelayFollowsCountdown, SessionLoop
  <1>8. CASE SessionIterate
    <2>1. pc \in SessionLoop /\ pc' \in SessionLoop
      BY <1>8 DEF SessionIterate, SessionLoop
    <2>2. CASE UNCHANGED <<run, relay>>
      BY <2>1, <2>2, RelayFrame
    <2>3. CASE run' = [run EXCEPT !.engaged = ~@] /\ relay' = ~run.engaged
      <3>1. run'.engaged = ~run.engaged
        BY <2>3 DEF VendTypeOK, CreditTypeOK, Countdowns
      <3> QED
        BY <2>1, <2>3, <3>1 DEF RelayFollowsCountdown
    <2> QED
      BY <1>8, <2>2, <2>3 DEF SessionIterate
  <1>9. CASE SessionSense \/ SessionTick \/ BillRunning
    <2>1. pc \in SessionLoop /\ pc' \in SessionLoop /\ relay' = relay
      BY <1>9 DEF SessionSense, SessionTick, BillRunning, SessionLoop
    <2>2. run'.engaged = run.engaged
      BY <1>9 DEF SessionSense, SessionTick, BillRunning, VendTypeOK,
         CreditTypeOK, Countdowns
    <2> QED
      BY <2>1, <2>2 DEF RelayFollowsCountdown
  <1> QED
    BY <1>1, <1>2, <1>3, <1>4, <1>5, <1>6, <1>7, <1>8, <1>9
       DEF Next, AppNext, EnvNext, TestNext, SessionNext

-----------------------------------------------------------------------------
(* The credits.                                                            *)

(* What a paid period looks like at each place of the application task:    *)
(* outside of one nothing is owed; under per-credit gating one credit at a *)
(* time is started and the one that is running is still among the owed.    *)
CreditShape ==
    /\ pc \notin PaidPeriod => dispensed = 0 /\ remaining = 0
    /\ pc = "BILL_FIRST" => due > 0
    /\ pc \in Starting => IF Gated THEN session = 1 /\ remaining > 0
                          ELSE dispensed = 0 /\ remaining = 0
    /\ pc = "SESSION_START" => extra = 0
    /\ pc \in InSession => IF Gated THEN remaining > 0 ELSE remaining = 0 /\ extra = 0
    /\ pc \in Waiting => Gated /\ remaining > 0
    /\ pc = "SESSION_END" => remaining = 0

CreditInv == CreditShape /\ EveryCreditAccounted

(* Owed, place by place. *)
LEMMA OwedAt ==
    /\ pc \in Starting => Owed = IF Gated THEN remaining ELSE session
    /\ pc \in InSession => Owed = IF Gated THEN remaining + extra - 1 ELSE 0
    /\ pc \in Waiting => Owed = remaining
    /\ pc \notin Starting \cup InSession \cup Waiting => Owed = 0
BY DEF Owed, Starting, InSession, Waiting, SessionLoop

LEMMA OwedThen ==
    /\ pc' \in Starting => Owed' = IF Gated' THEN remaining' ELSE session'
    /\ pc' \in InSession => Owed' = IF Gated' THEN remaining' + extra' - 1 ELSE 0
    /\ pc' \in Waiting => Owed' = remaining'
    /\ pc' \notin Starting \cup InSession \cup Waiting => Owed' = 0
BY DEF Owed, Starting, InSession, Waiting, SessionLoop

LEMMA GatedStays ==
    ASSUME cfg' = cfg
    PROVE  Gated' = Gated
BY DEF Gated, ButtonMode

LEMMA CreditNumbers ==
    ASSUME VendTypeOK
    PROVE  /\ due \in Nat /\ session \in Nat /\ remaining \in Nat /\ extra \in Nat
           /\ dispensed \in Nat /\ books.open \in Nat
           /\ cfg.price \in Nat /\ cfg.relayTicks \in Nat
BY ConfigNumbers DEF VendTypeOK, ControlTypeOK, CreditTypeOK, LedgerTypeOK, Books

LEMMA Distributes ==
    ASSUME NEW p \in Nat, NEW n \in Int, NEW k \in Nat
    PROVE  p * (n + k) = p * n + k * p
OBVIOUS

(* Credits go from owed to dispensed, or are billed and become owed.       *)
LEMMA CreditsMove ==
    ASSUME VendTypeOK, EveryCreditAccounted, cfg' = cfg, dispensed + Owed \in Int,
           \/ books'.open = books.open /\ dispensed' + Owed' = dispensed + Owed
           \/ BillDue /\ dispensed' + Owed' = dispensed + Owed + due
    PROVE  EveryCreditAccounted'
  <1> DEFINE credits == dispensed + Owed
  <1>1. books.open = cfg.price * credits
    BY DEF EveryCreditAccounted
  <1>2. credits \in Int /\ cfg.price \in Nat /\ due \in Nat
    BY CreditNumbers
  <1>3. EveryCreditAccounted' <=> books'.open = cfg.price * credits'
    BY DEF EveryCreditAccounted
  <1>4. CASE books'.open = books.open /\ credits' = credits
    BY <1>1, <1>3, <1>4
  <1>5. CASE BillDue /\ credits' = credits + due
    <2>1. books'.open = books.open + due * cfg.price
      BY <1>5 DEF BillDue, VendTypeOK, LedgerTypeOK, Books
    <2>2. cfg.price * (credits + due) = cfg.price * credits + due * cfg.price
      <3> HIDE DEF credits
      <3> QED
        BY <1>2, Distributes
    <2> QED
      BY <1>1, <1>3, <1>5, <2>1, <2>2
  <1> QED
    BY <1>4, <1>5

(* Outside a paid period nothing is billed.                                *)
LEMMA NothingOpen ==
    ASSUME VendTypeOK, CreditInv, pc \notin PaidPeriod
    PROVE  books.open = 0 /\ remaining = 0 /\ dispensed = 0
  <1>1. dispensed = 0 /\ remaining = 0 /\ Owed = 0
    BY OwedAt DEF CreditInv, CreditShape, PaidPeriod
  <1>2. books.open = cfg.price * 0
    BY <1>1 DEF CreditInv, EveryCreditAccounted
  <1> QED
    BY <1>1, <1>2, CreditNumbers

LEMMA OutsidePeriod ==
    ASSUME cfg' \in Configs, pc' \notin PaidPeriod,
           dispensed' = 0, remaining' = 0, books'.open = 0,
           pc' = "BILL_FIRST" => due' > 0
    PROVE  CreditInv'
  <1>1. Owed' = 0
    BY OwedThen DEF PaidPeriod
  <1>2. cfg'.price * 0 = 0
    BY ConfigNumbers
  <1>3. EveryCreditAccounted'
    BY <1>1, <1>2 DEF EveryCreditAccounted
  <1>4. CreditShape'
    BY DEF CreditShape, PaidPeriod, Starting
  <1> QED
    BY <1>3, <1>4 DEF CreditInv

LEMMA CreditFrameInv ==
    ASSUME CreditInv, books'.open = books.open,
           UNCHANGED <<pc, cfg, due, session, remaining, extra, dispensed>>
    PROVE  CreditInv'
BY DEF CreditInv, CreditShape, EveryCreditAccounted, Owed, Gated, ButtonMode

LEMMA CreditIdle ==
    ASSUME VendTypeOK, CreditInv, PowerOn \/ IdleNext \/ ConfigNext \/ TestNext
    PROVE  CreditInv'
  <1>1. pc \notin PaidPeriod /\ pc' \notin PaidPeriod /\ pc' # "BILL_FIRST"
    BY DEF PowerOn, IdleNext, IdlePoll, EnterTestMode, EnterConfig, PressStart,
       AutoStart, InactivityStart, StayIdle, Decide, ConfigNext, ConfigEnter,
       ConfigLeave, TestNext, TestEnter, TestCapture, TestService, TestStay,
       TestExit, TestReopen, PaidPeriod, Starting, InSession, SessionLoop, Waiting
  <1>2. UNCHANGED <<dispensed, remaining, books>>
    BY DEF PowerOn, IdleNext, IdlePoll, EnterTestMode, EnterConfig, PressStart,
       AutoStart, InactivityStart, StayIdle, Decide, ConfigNext, ConfigEnter,
       ConfigLeave, TestNext, TestEnter, TestCapture, TestService, TestStay,
       TestExit, TestReopen, creditVars, ledgerVars
  <1>3. cfg' \in Configs
    BY DEF PowerOn, IdleNext, IdlePoll, EnterTestMode, EnterConfig, PressStart,
       AutoStart, InactivityStart, StayIdle, Decide, ConfigNext, ConfigEnter,
       ConfigLeave, TestNext, TestEnter, TestCapture, TestService, TestStay,
       TestExit, TestReopen, VendTypeOK, ControlTypeOK
  <1> QED
    BY <1>1, <1>2, <1>3, NothingOpen, OutsidePeriod

LEMMA CreditStep ==
    ASSUME VendTypeOK, CreditInv, Next
    PROVE  CreditInv'
  <1> USE CreditNumbers, OwedAt, OwedThen
  <1>1. CASE InsertCoin \/ MissPulse \/ CoinTask \/ LoopFlush \/ RaiseRequest
             \/ DriveRelay
    BY <1>1, CreditFrameInv DEF InsertCoin, MissPulse, CoinTask, LoopFlush,
       RaiseRequest, DriveRelay, vendVars, creditVars, ledgerVars
  <1>2. CASE WriteRow
    <2>1. books'.open = books.open
      BY <1>2 DEF WriteRow, VendTypeOK, LedgerTypeOK, Books
    <2> QED
      BY <1>2, <2>1, CreditFrameInv DEF WriteRow, creditVars
  <1>3. CASE Reset
    <2>1. books'.open = 0 /\ cfg' \in Configs
      BY <1>3 DEF Reset, VendTypeOK, ControlTypeOK, LedgerTypeOK, Books
    <2>2. pc' \notin PaidPeriod /\ pc' = "INIT" /\ dispensed' = 0 /\ remaining' = 0
      BY <1>3 DEF Reset, PaidPeriod, Starting, InSession, SessionLoop, Waiting
    <2> QED
      BY <2>1, <2>2, OutsidePeriod
  <1>4. CASE PowerOn \/ IdleNext \/ ConfigNext \/ TestNext
    BY <1>4, CreditIdle
  <1>5. CASE CoinValidate
    <2>1. pc \notin PaidPeriod /\ pc' \notin PaidPeriod /\ (pc' = "BILL_FIRST" => due' > 0)
      BY <1>5, MoneyRead DEF CoinValidate, PaidPeriod, Starting, InSession,
         SessionLoop, Waiting
    <2>2. cfg' \in Configs /\ UNCHANGED <<dispensed, remaining, books>>
      BY <1>5 DEF CoinValidate, ledgerVars, VendTypeOK, ControlTypeOK
    <2> QED
      BY <2>1, <2>2, NothingOpen, OutsidePeriod
  <1>6. CASE SessionEnd
    <2>1. books'.open = 0
      BY <1>6 DEF SessionEnd, CloseBooks, VendTypeOK, LedgerTypeOK, Books
    <2>2. /\ pc' = "IDLE" /\ pc' \notin PaidPeriod /\ dispensed' = 0 /\ remaining' = 0
          /\ cfg' \in Configs
      BY <1>6 DEF SessionEnd, PaidPeriod, Starting, InSession, SessionLoop, Waiting,
         VendTypeOK, ControlTypeOK
    <2> QED
      BY <2>1, <2>2, OutsidePeriod
  <1>7. CASE BillFirst
    <2>1. /\ BillDue /\ cfg' = cfg /\ dispensed' = dispensed
          /\ pc = "BILL_FIRST" /\ pc' = "SESSION_ACTIVE"
          /\ remaining' = IF Gated THEN due ELSE 0
          /\ session' = IF Gated THEN 1 ELSE due
      BY <1>7 DEF BillFirst
    <2>2. Gated' = Gated
      BY <2>1, GatedStays
    <2>3. dispensed = 0 /\ Owed = 0 /\ due > 0
      BY <2>1 DEF CreditInv, CreditShape, PaidPeriod, Starting, InSession,
         SessionLoop, Waiting
    <2>4. Owed' = due
      BY <2>1, <2>2 DEF Starting
    <2>5. EveryCreditAccounted'
      BY <2>1, <2>3, <2>4, CreditsMove DEF CreditInv
    <2>6. CreditShape'
      BY <2>1, <2>2, <2>3 DEF CreditShape, PaidPeriod, Starting, InSession,
         SessionLoop, Waiting
    <2> QED
      BY <2>5, <2>6 DEF CreditInv
  <1>8. CASE SessionEnter
    <2>1. /\ cfg' = cfg /\ UNCHANGED <<dispensed, books, session, remaining>>
          /\ pc = "SESSION_ACTIVE" /\ pc' = "SESSION_START" /\ extra' = 0
      BY <1>8 DEF SessionEnter, ledgerVars
    <2>2. Gated' = Gated
      BY <2>1, GatedStays
    <2>3. Owed' = Owed /\ Owed \in Int
      BY <2>1, <2>2 DEF Starting
    <2>4. EveryCreditAccounted'
      BY <2>1, <2>3, CreditsMove DEF CreditInv
    <2>5. CreditShape'
      BY <2>1, <2>2 DEF CreditInv, CreditShape, PaidPeriod, Starting, InSession,
         SessionLoop, Waiting
    <2> QED
      BY <2>4, <2>5 DEF CreditInv
  <1>9. CASE SessionStart
    <2>1. /\ cfg' = cfg /\ UNCHANGED <<books, session, remaining, extra>>
          /\ pc = "SESSION_START" /\ pc' = "LOOP" /\ dispensed' = dispensed + session
      BY <1>9 DEF SessionStart
    <2>2. Gated' = Gated
      BY <2>1, GatedStays
    <2>3. /\ extra = 0
          /\ IF Gated THEN session = 1 /\ remaining > 0 ELSE dispensed = 0 /\ remaining = 0
      BY <2>1 DEF CreditInv, CreditShape, Starting
    <2>4. Owed \in Int /\ dispensed' + Owed' = dispensed + Owed
      BY <2>1, <2>2, <2>3 DEF Starting, InSession, SessionLoop
    <2>5. EveryCreditAccounted'
      BY <2>1, <2>4, CreditsMove DEF CreditInv
    <2>6. CreditShape'
      BY <2>1, <2>2, <2>3 DEF CreditShape, PaidPeriod, Starting, InSession,
         SessionLoop, Waiting
    <2> QED
      BY <2>5, <2>6 DEF CreditInv
  <1>10. CASE SessionIterate \/ SessionSense \/ SessionTick \/ SessionStop
    <2>1. /\ cfg' = cfg /\ UNCHANGED <<books, remaining, extra, dispensed>>
          /\ pc \in InSession /\ pc' \in InSession
      BY <1>10 DEF SessionIterate, SessionSense, SessionTick, SessionStop, ledgerVars,
         creditVars, InSession, SessionLoop
    <2>2. Gated' = Gated
      BY <2>1, GatedStays
    <2>3. Owed' = Owed /\ Owed \in Int
      BY <2>1, <2>2
    <2>4. EveryCreditAccounted'
      BY <2>1, <2>3, CreditsMove DEF CreditInv
    <2>5. CreditShape'
      BY <2>1, <2>2 DEF CreditInv, CreditShape, PaidPeriod, Starting, InSession,
         SessionLoop, Waiting
    <2> QED
      BY <2>4, <2>5 DEF CreditInv
  <1>11. CASE BillRunning
    <2>1. /\ BillDue /\ cfg' = cfg /\ remaining' = remaining
          /\ pc \in InSession /\ pc' \in InSession
          /\ \/ Gated /\ extra' = extra + due /\ dispensed' = dispensed
             \/ ~Gated /\ dispensed' = dispensed + due /\ extra' = extra
      BY <1>11 DEF BillRunning, InSession, SessionLoop
    <2>2. Gated' = Gated
      BY <2>1, GatedStays
    <2>3. Owed \in Int /\ dispensed' + Owed' = dispensed + Owed + due
      BY <2>1, <2>2
    <2>4. EveryCreditAccounted'
      BY <2>1, <2>3, CreditsMove DEF CreditInv
    <2>5. CreditShape'
      BY <2>1, <2>2 DEF CreditInv, CreditShape, PaidPeriod, Starting, InSession,
         SessionLoop, Waiting
    <2> QED
      BY <2>4, <2>5 DEF CreditInv
  <1>12. CASE SessionReturn
    <2> DEFINE owed == remaining + extra
    <2>1. /\ cfg' = cfg /\ UNCHANGED <<books, dispensed>>
          /\ pc = "SESSION_DONE"
          /\ remaining' = IF owed > 0 THEN owed - 1 ELSE 0
          /\ pc' = IF owed > 1 THEN "WAIT_NEXT_CREDIT" ELSE "SESSION_END"
      BY <1>12 DEF SessionReturn, ledgerVars
    <2>2. IF Gated THEN remaining > 0 ELSE remaining = 0 /\ extra = 0
      BY <2>1 DEF CreditInv, CreditShape, InSession
    <2>3. Owed = (IF Gated THEN owed - 1 ELSE 0) /\ owed \in Nat
      BY <2>1 DEF InSession
    <2>4. CASE owed > 1
      <3>1. pc' = "WAIT_NEXT_CREDIT" /\ remaining' = owed - 1 /\ Gated /\ Gated'
        BY <2>1, <2>2, <2>4, GatedStays
      <3>2. Owed' = Owed /\ Owed \in Int
        BY <2>3, <3>1 DEF Waiting
      <3>3. EveryCreditAccounted'
        BY <2>1, <3>2, CreditsMove DEF CreditInv
      <3>4. CreditShape'
        BY <2>3, <2>4, <3>1 DEF CreditShape, PaidPeriod, Starting, InSession,
           SessionLoop, Waiting
      <3> QED
        BY <3>3, <3>4 DEF CreditInv
    <2>5. CASE ~(owed > 1)
      <3>1. pc' = "SESSION_END" /\ remaining' = 0 /\ Owed = 0
        BY <2>1, <2>2, <2>3, <2>5
      <3>2. Owed' = Owed
        BY <3>1 DEF Waiting, Starting, InSession, SessionLoop
      <3>3. EveryCreditAccounted'
        BY <2>1, <3>1, <3>2, CreditsMove DEF CreditInv
      <3>4. CreditShape'
        BY <3>1 DEF CreditShape, PaidPeriod, Starting, InSession, SessionLoop, Waiting
      <3> QED
        BY <3>3, <3>4 DEF CreditInv
    <2> QED
      BY <2>4, <2>5
  <1>13. CASE WaitPoll \/ BillWaiting
    <2>1. /\ cfg' = cfg /\ dispensed' = dispensed /\ pc \in Waiting /\ pc' \in Waiting
          /\ \/ remaining' = remaining /\ books' = books
             \/ remaining' = remaining + due /\ BillDue
      BY <1>13 DEF WaitPoll, BillWaiting, ledgerVars, Waiting
    <2>2. Gated' = Gated /\ Gated /\ remaining > 0
      BY <2>1, GatedStays DEF CreditInv, CreditShape
    <2>3. Owed = remaining /\ Owed' = remaining'
      BY <2>1
    <2>4. EveryCreditAccounted'
      BY <2>1, <2>3, CreditsMove DEF CreditInv
    <2>5. CreditShape'
      BY <2>1, <2>2 DEF CreditShape, PaidPeriod, Starting, InSession, SessionLoop, Waiting
    <2> QED
      BY <2>4, <2>5 DEF CreditInv
  <1>14. CASE NextCreditPressed \/ NextCreditTimeout \/ KeepWaiting
    <2>1. /\ cfg' = cfg /\ UNCHANGED <<dispensed, remaining, books>> /\ pc \in Waiting
          /\ \/ pc' = "SESSION_ACTIVE" /\ session' = 1
             \/ pc' = "WAIT_NEXT_CREDIT"
      BY <1>14 DEF NextCreditPressed, NextCreditTimeout, KeepWaiting, DecideWait,
         ledgerVars, Waiting
    <2>2. Gated' = Gated /\ Gated /\ remaining > 0
      BY <2>1, GatedStays DEF CreditInv, CreditShape
    <2>3. Owed = remaining /\ Owed' = remaining'
      BY <2>1, <2>2 DEF Starting, Waiting
    <2>4. EveryCreditAccounted'
      BY <2>1, <2>3, CreditsMove DEF CreditInv
    <2>5. CreditShape'
      BY <2>1, <2>2 DEF CreditShape, PaidPeriod, Starting, InSession, SessionLoop, Waiting
    <2> QED
      BY <2>4, <2>5 DEF CreditInv
  <1> QED
    BY <1>1, <1>2, <1>3, <1>4, <1>5, <1>6, <1>7, <1>8, <1>9, <1>10, <1>11, <1>12,
       <1>13, <1>14 DEF Next, AppNext, EnvNext, SessionNext, WaitNext

-----------------------------------------------------------------------------
(* The time.                                                               *)

(* What a deadline is worth while the countdown runs: the time of all the  *)
(* credits it is for, or the cap; and the only ends of a countdown.        *)
Bought == (IF Gated THEN 1 ELSE dispensed) * cfg.relayTicks

TimeInv ==
    /\ pc \in InSession => run.deadline >= Bought \/ run.deadline >= TicksCap
    /\ pc = "SESSION_DONE" => run.fired \/ run.elapsed >= run.deadline

LEMMA TimeFrame ==
    ASSUME TimeInv, cfg' = cfg, dispensed' = dispensed, pc \in InSession,
           run'.deadline = run.deadline, pc' # "SESSION_DONE"
    PROVE  TimeInv'
BY DEF TimeInv, Bought, Gated, ButtonMode

LEMMA NoCountdown ==
    ASSUME pc' \notin InSession
    PROVE  TimeInv'
BY DEF TimeInv, InSession

(* A top-up buys its credits' worth of ticks, up to the cap.               *)
LEMMA TopUpBuys ==
    ASSUME NEW old \in Nat, NEW n \in Nat, NEW k \in Nat, NEW ticks \in Nat,
           NEW cap \in Nat, old >= n * ticks \/ old >= cap
    PROVE  LET longer == old + k * ticks
               new    == IF longer > cap THEN cap ELSE longer
           IN  new >= (n + k) * ticks \/ new >= cap
  <1> DEFINE a == n * ticks
             b == k * ticks
  <1>1. a \in Nat /\ b \in Nat
    BY NatProduct
  <1>2. (n + k) * ticks = a + b
    OBVIOUS
  <1>3. old >= a \/ old >= cap
    OBVIOUS
  <1> DEFINE longer == old + b
             new == IF longer > cap THEN cap ELSE longer
  <1> HIDE DEF a, b
  <1>4. new >= a + b \/ new >= cap
    BY <1>1, <1>3
  <1> QED
    BY <1>2, <1>4 DEF a, b

LEMMA TimeStep ==
    ASSUME VendTypeOK, CreditInv, TimeInv, Next
    PROVE  TimeInv'
  <1> USE CreditNumbers
  <1>1. CASE InsertCoin \/ MissPulse \/ CoinTask \/ LoopFlush \/ RaiseRequest
             \/ DriveRelay \/ WriteRow
    <2>1. UNCHANGED <<pc, cfg, dispensed, run>>
      BY <1>1 DEF InsertCoin, MissPulse, CoinTask, LoopFlush, RaiseRequest,
         DriveRelay, WriteRow, vendVars, creditVars, ledgerVars
    <2> QED
      BY <2>1 DEF TimeInv, Bought, Gated, ButtonMode
  <1>2. CASE Reset \/ PowerOn \/ IdleNext \/ ConfigNext \/ TestNext \/ SessionEnd
    <2>1. pc' \notin InSession
      BY <1>2 DEF Reset, PowerOn, IdleNext, IdlePoll, EnterTestMode, EnterConfig,
         PressStart, AutoStart, InactivityStart, StayIdle, Decide, ConfigNext,
         ConfigEnter, ConfigLeave, TestNext, TestEnter, TestCapture, TestService,
         TestStay, TestExit, TestReopen, SessionEnd, InSession, SessionLoop
    <2> QED
      BY <2>1, NoCountdown
  <1>3. CASE CoinValidate \/ BillFirst \/ SessionEnter \/ SessionReturn \/ WaitNext
    <2>1. pc' \notin InSession
      BY <1>3 DEF CoinValidate, BillFirst, SessionEnter, SessionReturn, WaitNext,
         WaitPoll, BillWaiting, NextCreditPressed, NextCreditTimeout, KeepWaiting,
         DecideWait, InSession, SessionLoop
    <2> QED
      BY <2>1, NoCountdown
  <1>4. CASE SessionStart
    <2>1. /\ cfg' = cfg /\ pc = "SESSION_START" /\ pc' = "LOOP"
          /\ dispensed' = dispensed + session
          /\ run'.deadline = session * cfg.relayTicks
      BY <1>4 DEF SessionStart
    <2>2. Gated' = Gated
      BY <2>1, GatedStays
    <2>3. IF Gated THEN session = 1 ELSE dispensed = 0
      BY <2>1 DEF CreditInv, CreditShape, Starting
    <2>4. (IF Gated' THEN 1 ELSE dispensed') = session
      BY <2>1, <2>2, <2>3
    <2>5. run'.deadline = Bought'
      BY <2>1, <2>4 DEF Bought
    <2>6. run'.deadline \in Nat
      BY <2>1, NatProduct
    <2> QED
      BY <2>1, <2>5, <2>6 DEF TimeInv
  <1>5. CASE SessionIterate \/ SessionSense \/ SessionTick
    <2>1. /\ cfg' = cfg /\ dispensed' = dispensed /\ pc \in InSession
          /\ pc' # "SESSION_DONE"
      BY <1>5 DEF SessionIterate, SessionSense, SessionTick, ledgerVars, InSession,
         SessionLoop
    <2>2. run'.deadline = run.deadline
      BY <1>5 DEF SessionIterate, SessionSense, SessionTick, VendTypeOK, CreditTypeOK,
         Countdowns
    <2> QED
      BY <2>1, <2>2, TimeFrame
  <1>6. CASE BillRunning
    <2>1. /\ cfg' = cfg /\ pc \in InSession /\ pc' # "SESSION_DONE" /\ pc' \in InSession
          /\ \/ Gated /\ run' = run
             \/ /\ ~Gated /\ dispensed' = dispensed + due
                /\ run' = [run EXCEPT !.deadline = Extended(@)]
      BY <1>6 DEF BillRunning, InSession, SessionLoop
    <2>2. Gated' = Gated
      BY <2>1, GatedStays
    <2>3. CASE Gated
      BY <2>1, <2>2, <2>3 DEF TimeInv, Bought
    <2>4. CASE ~Gated
      <3>1. run'.deadline = Extended(run.deadline) /\ run.deadline \in Nat
        BY <2>1, <2>4 DEF VendTypeOK, CreditTypeOK, Countdowns
      <3>2. run.deadline >= dispensed * cfg.relayTicks \/ run.deadline >= TicksCap
        BY <2>1, <2>4 DEF TimeInv, Bought
      <3>3. \/ Extended(run.deadline) >= (dispensed + due) * cfg.relayTicks
            \/ Extended(run.deadline) >= TicksCap
        BY <3>1, <3>2, TopUpBuys, VendAssumption DEF Extended
      <3>4. Bought' = (dispensed + due) * cfg.relayTicks
        BY <2>1, <2>2, <2>4 DEF Bought
      <3> QED
        BY <2>1, <3>1, <3>3, <3>4 DEF TimeInv
    <2> QED
      BY <2>3, <2>4
  <1>7. CASE SessionStop
    <2>1. /\ cfg' = cfg /\ dispensed' = dispensed /\ run' = run /\ pc \in InSession
          /\ ~CountingDown
      BY <1>7 DEF SessionStop, ledgerVars, creditVars, InSession, SessionLoop
    <2>2. run.fired \/ run.elapsed >= run.deadline
      BY <2>1 DEF CountingDown, VendTypeOK, CreditTypeOK, Countdowns
    <2>3. Bought' = Bought
      BY <2>1 DEF Bought, Gated, ButtonMode
    <2> QED
      BY <2>1, <2>2, <2>3 DEF TimeInv
  <1> QED
    BY <1>1, <1>2, <1>3, <1>4, <1>5, <1>6, <1>7
       DEF Next, AppNext, EnvNext, SessionNext

-----------------------------------------------------------------------------
(* The inductive invariant and the theorems.                               *)

PeriodInv == Inv /\ SlotInv /\ RelayFollowsCountdown /\ CreditInv /\ TimeInv

LEMMA InitPeriod ==
    VendInit => PeriodInv
  <1> SUFFICES ASSUME VendInit PROVE PeriodInv
    OBVIOUS
  <1>1. Inv
    BY InitInv
  <1>2. /\ pc = "INIT" /\ ~relay /\ ~capture /\ ~entered /\ dispensed = 0 /\ remaining = 0
        /\ books.open = 0 /\ cfg \in Configs
    BY DEF VendInit, CoinsInit
  <1>3. /\ pc \notin PaidPeriod /\ pc \notin InSession /\ pc \notin Starting
        /\ pc \notin Waiting /\ pc \notin SessionLoop /\ pc \notin OpenPlaces
    BY <1>2 DEF PaidPeriod, Starting, InSession, SessionLoop, Waiting, OpenPlaces
  <1>4. SlotInv /\ RelayFollowsCountdown /\ TimeInv
    BY <1>2, <1>3 DEF SlotInv, TestInProgress, RelayFollowsCountdown, TimeInv
  <1>5. CreditShape
    BY <1>2, <1>3 DEF CreditShape
  <1>6. Owed = 0 /\ cfg.price * 0 = 0
    BY <1>2, <1>3, OwedAt, ConfigNumbers
  <1>7. EveryCreditAccounted
    BY <1>2, <1>6 DEF EveryCreditAccounted
  <1> QED
    BY <1>1, <1>4, <1>5, <1>7 DEF PeriodInv, CreditInv

LEMMA StepPeriod ==
    PeriodInv /\ [Next]_vars => PeriodInv'
  <1> SUFFICES ASSUME PeriodInv, [Next]_vars PROVE PeriodInv'
    OBVIOUS
  <1>1. Inv'
    BY StepInv DEF PeriodInv
  <1>2. VendTypeOK
    BY DEF PeriodInv, Inv, MoneyInv
  <1>3. CASE Next
    BY <1>1, <1>2, <1>3, SlotStep, RelayStep, CreditStep, TimeStep DEF PeriodInv
  <1>4. CASE UNCHANGED vars
    <2>1. UNCHANGED <<pc, cfg, relay, slotOn, capture, entered, due, session, remaining,
                      extra, run, books, dispensed>>
      BY <1>4 DEF vars, coinVars, vendVars, creditVars, benchVars, ledgerVars
    <2>2. SlotInv' /\ RelayFollowsCountdown' /\ CreditInv'
      BY <2>1, SlotFrame, RelayFrame, CreditFrameInv DEF PeriodInv
    <2>3. TimeInv'
      BY <2>1 DEF PeriodInv, TimeInv, Bought, Gated, ButtonMode
    <2> QED
      BY <1>1, <2>2, <2>3 DEF PeriodInv
  <1> QED
    BY <1>3, <1>4

LEMMA PeriodAlways == Spec => []PeriodInv
BY InitPeriod, StepPeriod, PTL DEF Spec

(* Every centavo billed in a paid period is the price of a credit that is  *)
(* on the clock or still owed, in every mode, with the top-ups of the coin *)
(* task's pulses at any point (SESSION_ACTIVE, WAIT_NEXT_CREDIT of app.cpp *)
(* and session_apply_accumulation).                                        *)
THEOREM CreditsSafe == Spec => []EveryCreditAccounted
  <1>1. PeriodInv => EveryCreditAccounted
    BY DEF PeriodInv, CreditInv
  <1> QED
    BY <1>1, PeriodAlways, PTL

(* A countdown that the sensor does not end lasts for the time bought, or  *)
(* for the cap (session_run).                                              *)
THEOREM TimeSafe == Spec => []PaidTimeGranted
  <1>1. PeriodInv => PaidTimeGranted
    <2> SUFFICES ASSUME PeriodInv, pc = "SESSION_DONE", ~run.fired
                 PROVE  run.elapsed >= Bought \/ run.elapsed >= TicksCap
      BY DEF PaidTimeGranted, Bought
    <2>1. run.elapsed \in Nat /\ run.deadline \in Nat /\ TicksCap \in Nat
      BY VendAssumption DEF PeriodInv, Inv, MoneyInv, VendTypeOK, CreditTypeOK, Countdowns
    <2>2. Bought \in Nat
      <3>1. (IF Gated THEN 1 ELSE dispensed) \in Nat /\ cfg.relayTicks \in Nat
        BY CreditNumbers DEF PeriodInv, Inv, MoneyInv
      <3> QED
        BY <3>1, NatProduct DEF Bought
    <2>3. /\ run.elapsed >= run.deadline
          /\ run.deadline >= Bought \/ run.deadline >= TicksCap
      BY DEF PeriodInv, TimeInv, InSession
    <2> QED
      BY <2>1, <2>2, <2>3
  <1> QED
    BY <1>1, PeriodAlways, PTL

(* The relay is on only in a countdown, and there as the pause toggle says *)
(* (session_run and the safety writes of app.cpp).                         *)
THEOREM RelaySafe == Spec => []RelayFollowsCountdown
  <1>1. PeriodInv => RelayFollowsCountdown
    BY DEF PeriodInv
  <1> QED
    BY <1>1, PeriodAlways, PTL

(* Pulses are captured from the closing of the slot that enters test mode  *)
(* to just before the opening that leaves it, and at no other time, and    *)
(* the slot is open or closed where the state says, for every set of       *)
(* configurations and in every interleaving (coin_slot_enable and          *)
(* coin_set_test_capture as app.cpp calls them).                           *)
THEOREM SlotSafe == Spec => []SlotDiscipline
  <1>1. PeriodInv => SlotDiscipline
    <2> SUFFICES ASSUME PeriodInv PROVE SlotDiscipline
      OBVIOUS
    <2>1. SlotInv /\ VendTypeOK
      BY DEF PeriodInv, Inv, MoneyInv
    <2>2. slotOn \in BOOLEAN /\ cfg.accumulation \in BOOLEAN
      BY <2>1, VendAssumption DEF VendTypeOK, CoinsTypeOK, ControlTypeOK, ConfigShape
    <2>3. pc \in SessionLoop => (slotOn <=> cfg.accumulation)
      BY <2>1, <2>2 DEF SlotInv
    <2>4. pc \in {"IDLE", "IDLE_DECIDE", "IDLE_BLINK", "WAIT_DECIDE"} => slotOn
      BY <2>1 DEF SlotInv, OpenPlaces, Waiting
    <2> QED
      BY <2>1, <2>3, <2>4 DEF SlotDiscipline, SlotInv
  <1> QED
    BY <1>1, PeriodAlways, PTL

(* Neither the menu nor test mode is ever opened over a paid period, in    *)
(* any order of the requests, presses and timeouts (APP_STATE_IDLE).       *)
THEOREM NothingAbandoned == Spec => []NeverAbandonsVend
  <1>1. PeriodInv => NeverAbandonsVend
    <2> SUFFICES ASSUME PeriodInv,
                        pc \in TestSteps \cup {"TEST_MODE", "CONFIG_MODE", "CONFIG_MENU"}
                 PROVE  books.open = 0 /\ remaining = 0 /\ ~(relay /\ ~BenchRelay)
      BY DEF NeverAbandonsVend
    <2>1. pc \notin PaidPeriod /\ pc \notin SessionLoop
      BY DEF TestSteps, PaidPeriod, Starting, InSession, SessionLoop, Waiting
    <2>2. VendTypeOK /\ CreditInv /\ RelayFollowsCountdown
      BY DEF PeriodInv, Inv, MoneyInv
    <2>3. books.open = 0 /\ remaining = 0
      BY <2>1, <2>2, NothingOpen
    <2> QED
      BY <2>1, <2>2, <2>3 DEF RelayFollowsCountdown
  <1> QED
    BY <1>1, PeriodAlways, PTL

(* While a test is in progress no customer's money, no credit and no       *)
(* session moves, in any interleaving of the coin task, loop() and the     *)
(* states of app.cpp (TEST_MODE and the capture flag of periph.cpp).       *)
THEOREM TestModeSafe == Spec => TestModeMovesNoMoney
  <1>1. ASSUME PeriodInv, [Next]_vars, TestInProgress, resets' = resets
        PROVE  UNCHANGED <<value, spent, dispensed, sessions>>
    <2>1. capture /\ pc \in TestSteps \cup {"TEST_MODE"}
      BY <1>1 DEF PeriodInv, SlotInv, TestInProgress, TestSteps
    <2>2. CASE InsertCoin \/ MissPulse \/ CoinTask \/ LoopFlush
      BY <2>1, <2>2 DEF InsertCoin, DropCoin, MissPulse, CoinTask, AcceptPulse,
         RecordTally, LoopFlush, FlushCounters, bankVars, vendVars, ledgerVars
    <2>3. CASE WriteRow \/ RaiseRequest \/ DriveRelay
      BY <2>3 DEF WriteRow, RaiseRequest, DriveRelay, coinVars, bankVars, ledgerVars
    <2>4. CASE Reset
      <3>1. resets \in Nat /\ resets' = resets + 1
        BY <1>1, <2>4 DEF Reset, PeriodInv, Inv, MoneyInv, VendTypeOK, LedgerTypeOK
      <3> QED
        BY <1>1, <3>1
    <2>5. CASE TestNext
      BY <2>5 DEF TestNext, TestEnter, TestCapture, TestService, TestStay, TestExit,
         TestReopen, coinVars, bankVars, ledgerVars
    <2>6. ~(PowerOn \/ IdleNext \/ ConfigNext \/ SessionEnd)
      BY <2>1 DEF PowerOn, IdleNext, IdlePoll, EnterTestMode, EnterConfig, PressStart,
         AutoStart, InactivityStart, StayIdle, Decide, ConfigNext, ConfigEnter,
         ConfigLeave, SessionEnd, TestSteps
    <2>7. ~SessionNext
      <3>1. SessionNext => pc \in PaidPeriod \cup {"COIN_VALIDATE", "BILL_FIRST"}
        <4>1. CoinValidate => pc = "COIN_VALIDATE"
          BY Zenon DEF CoinValidate
        <4>2. BillFirst => pc = "BILL_FIRST"
          BY Zenon DEF BillFirst
        <4>3. SessionEnter \/ SessionStart => pc \in Starting
          BY DEF SessionEnter, SessionStart, Starting
        <4>4. SessionIterate \/ SessionStop => pc = "LOOP"
          BY Zenon DEF SessionIterate, SessionStop
        <4>5. SessionSense \/ SessionTick \/ BillRunning => pc \in SessionLoop
          BY Zenon DEF SessionSense, SessionTick, BillRunning, SessionLoop
        <4>6. SessionReturn => pc = "SESSION_DONE"
          BY Zenon DEF SessionReturn
        <4> QED
          BY <4>1, <4>2, <4>3, <4>4, <4>5, <4>6
             DEF SessionNext, PaidPeriod, InSession, SessionLoop
      <3> QED
        BY <2>1, <3>1 DEF PaidPeriod, Starting, InSession, SessionLoop, Waiting, TestSteps
    <2>8. ~WaitNext
      BY <2>1 DEF WaitNext, WaitPoll, BillWaiting, NextCreditPressed,
         NextCreditTimeout, KeepWaiting, DecideWait, TestSteps
    <2>9. CASE UNCHANGED vars
      BY <2>9 DEF vars, coinVars, bankVars, vendVars, ledgerVars
    <2> QED
      BY <1>1, <2>2, <2>3, <2>4, <2>5, <2>6, <2>7, <2>8, <2>9
         DEF Next, AppNext, EnvNext
  <1>2. PeriodInv /\ [Next]_vars
        => [TestInProgress /\ resets' = resets
            => UNCHANGED <<value, spent, dispensed, sessions>>]_vars
    BY <1>1
  <1> QED
    BY <1>2, PeriodAlways, PTL DEF Spec, TestModeMovesNoMoney

-----------------------------------------------------------------------------
(* What the hand-off queue adds up to.                                     *)

(* A set of naturals has a least member. *)
LEMMA LeastOf ==
    ASSUME NEW set \in SUBSET Nat, set # {}
    PROVE  \E m \in set : \A n \in set : m <= n
  <1>1. PICK m \in set : \A y \in set : ~(<<y, m>> \in OpToRel(<, Nat))
    BY WFMin, NatLessThanWellFounded, Zenon
  <1>2. \A y \in set : m <= y
    <2> SUFFICES ASSUME NEW y \in set PROVE m <= y
      OBVIOUS
    <2>1. y \in Nat /\ m \in Nat
      OBVIOUS
    <2>2. ~(y < m)
      BY <1>1, <2>1 DEF OpToRel
    <2> QED
      BY <2>1, <2>2
  <1> QED
    BY <1>2

(* f has the sums of the first n entries of a queue. *)
SumsTo(f, n, queue) == f[0] = 0 /\ \A k \in 1 .. n : f[k] = f[k - 1] + queue[k]

LEMMA SumsExist ==
    ASSUME NEW queue \in Seq(Nat)
    PROVE  \E f \in [0 .. Len(queue) -> Nat] : SumsTo(f, Len(queue), queue)
  <1> DEFINE Good(n) == \E f \in [0 .. n -> Nat] : SumsTo(f, n, queue)
             bad     == {n \in 0 .. Len(queue) : ~Good(n)}
  <1>1. Good(0)
    <2> DEFINE f == [k \in 0 .. 0 |-> 0]
    <2>1. f \in [0 .. 0 -> Nat] /\ SumsTo(f, 0, queue)
      BY DEF SumsTo
    <2> HIDE DEF f
    <2> QED
      BY <2>1
  <1>2. ASSUME NEW n \in 1 .. Len(queue), Good(n - 1)
        PROVE  Good(n)
    <2>1. PICK f \in [0 .. n - 1 -> Nat] : SumsTo(f, n - 1, queue)
      BY <1>2
    <2> DEFINE g == [k \in 0 .. n |-> IF k < n THEN f[k] ELSE f[n - 1] + queue[n]]
    <2>2. n \in Nat /\ n - 1 \in 0 .. n - 1 /\ queue[n] \in Nat /\ f[n - 1] \in Nat
      OBVIOUS
    <2>3. g \in [0 .. n -> Nat]
      BY <2>2
    <2>4. g[0] = 0
      BY <2>1, <2>2 DEF SumsTo
    <2>5. \A k \in 1 .. n : g[k] = g[k - 1] + queue[k]
      BY <2>1, <2>2 DEF SumsTo
    <2> HIDE DEF g
    <2> QED
      BY <2>3, <2>4, <2>5 DEF SumsTo
  <1> HIDE DEF Good
  <1>3. bad = {}
    <2> SUFFICES ASSUME bad # {} PROVE FALSE
      OBVIOUS
    <2>1. bad \in SUBSET Nat
      OBVIOUS
    <2>2. PICK n \in bad : \A m \in bad : n <= m
      BY <2>1, LeastOf, Zenon
    <2>3. n # 0 /\ n \in 0 .. Len(queue) /\ ~Good(n)
      BY <1>1
    <2>4. n \in 1 .. Len(queue) /\ n - 1 \in 0 .. Len(queue) /\ n - 1 < n
      BY <2>3
    <2>5. Good(n - 1)
      BY <2>2, <2>4
    <2> QED
      BY <1>2, <2>3, <2>4, <2>5, Zenon
  <1>4. Len(queue) \in 0 .. Len(queue)
    OBVIOUS
  <1>5. Good(Len(queue))
    BY <1>3, <1>4
  <1> QED
    BY <1>5 DEF Good

LEMMA SumsUnique ==
    ASSUME NEW queue \in Seq(Nat),
           NEW f, SumsTo(f, Len(queue), queue), NEW g, SumsTo(g, Len(queue), queue)
    PROVE  \A n \in 0 .. Len(queue) : f[n] = g[n]
  <1> DEFINE bad == {n \in 0 .. Len(queue) : f[n] # g[n]}
  <1> SUFFICES ASSUME bad # {} PROVE FALSE
    OBVIOUS
  <1>1. bad \in SUBSET Nat
    OBVIOUS
  <1>2. PICK n \in bad : \A m \in bad : n <= m
    BY <1>1, LeastOf, Zenon
  <1>3. n # 0 /\ n \in 0 .. Len(queue) /\ f[n] # g[n]
    BY DEF SumsTo
  <1>4. n \in 1 .. Len(queue) /\ n - 1 \in 0 .. Len(queue) /\ n - 1 < n
    BY <1>3
  <1>5. f[n - 1] = g[n - 1]
    BY <1>2, <1>4
  <1> QED
    BY <1>3, <1>4, <1>5 DEF SumsTo

(* What the recursion of CentsIn computes. *)
LEMMA CentsAre ==
    ASSUME NEW queue \in Seq(Nat), NEW f, SumsTo(f, Len(queue), queue)
    PROVE  CentsIn(queue) = f[Len(queue)]
  <1> DEFINE IsSum(sum) == sum = [n \in 0 .. Len(queue) |->
                                     IF n = 0 THEN 0 ELSE sum[n - 1] + queue[n]]
             total == CHOOSE sum : IsSum(sum)
  <1>1. PICK g \in [0 .. Len(queue) -> Nat] : SumsTo(g, Len(queue), queue)
    BY SumsExist
  <1>2. IsSum(g)
    <2>1. \A n \in 0 .. Len(queue) : g[n] = IF n = 0 THEN 0 ELSE g[n - 1] + queue[n]
      BY <1>1 DEF SumsTo
    <2> QED
      BY <2>1
  <1>3. IsSum(total)
    <2> HIDE DEF IsSum
    <2> QED
      BY <1>2
  <1>4. SumsTo(total, Len(queue), queue)
    <2> HIDE DEF total
    <2>1. \A n \in 0 .. Len(queue) : total[n] = IF n = 0 THEN 0 ELSE total[n - 1] + queue[n]
      BY <1>3, Zenon
    <2>2. Len(queue) \in Nat
      OBVIOUS
    <2> HIDE DEF IsSum
    <2>3. total[0] = 0
      BY <2>1, <2>2
    <2>4. ASSUME NEW k \in 1 .. Len(queue)
          PROVE  total[k] = total[k - 1] + queue[k]
      BY <2>1, <2>2
    <2> QED
      BY <2>3, <2>4, Zenon DEF SumsTo
  <1>5. CentsIn(queue) = total[Len(queue)]
    BY DEF CentsIn
  <1> HIDE DEF total
  <1> QED
    BY <1>4, <1>5, SumsUnique

LEMMA NoCents == CentsIn(<<>>) = 0
  <1>1. <<>> \in Seq(Nat) /\ Len(<<>>) = 0
    OBVIOUS
  <1>2. PICK f \in [0 .. Len(<<>>) -> Nat] : SumsTo(f, Len(<<>>), <<>>)
    BY <1>1, SumsExist
  <1> QED
    BY <1>1, <1>2, CentsAre DEF SumsTo

LEMMA CentsNat ==
    ASSUME NEW queue \in Seq(Nat)
    PROVE  CentsIn(queue) \in Nat
  <1>1. PICK f \in [0 .. Len(queue) -> Nat] : SumsTo(f, Len(queue), queue)
    BY SumsExist
  <1>2. CentsIn(queue) = f[Len(queue)]
    BY <1>1, CentsAre
  <1> QED
    BY <1>2

LEMMA CentsAppend ==
    ASSUME NEW queue \in Seq(Nat), NEW c \in Nat
    PROVE  CentsIn(Append(queue, c)) = CentsIn(queue) + c
  <1> DEFINE longer == Append(queue, c)
             L      == Len(queue)
  <1>1. PICK f \in [0 .. L -> Nat] : SumsTo(f, L, queue)
    BY SumsExist
  <1>2. CentsIn(queue) = f[L]
    BY <1>1, CentsAre
  <1>3. /\ L \in Nat /\ longer \in Seq(Nat) /\ Len(longer) = L + 1 /\ longer[L + 1] = c
        /\ \A k \in 1 .. L : longer[k] = queue[k]
    OBVIOUS
  <1> DEFINE g == [k \in 0 .. L + 1 |-> IF k <= L THEN f[k] ELSE f[L] + c]
  <1> HIDE DEF longer, L
  <1>4. SumsTo(g, L + 1, longer)
    <2>1. \A k \in 0 .. L : g[k] = f[k]
      BY <1>3
    <2>2. g[L + 1] = f[L] + c
      BY <1>3
    <2> HIDE DEF g
    <2>3. ASSUME NEW k \in 1 .. L + 1
          PROVE  g[k] = g[k - 1] + longer[k]
      <3>1. CASE k = L + 1
        <4>1. k - 1 = L /\ L \in 0 .. L
          BY <1>3, <3>1
        <4> QED
          BY <1>3, <2>1, <2>2, <3>1, <4>1
      <3>2. CASE k # L + 1
        <4>1. k \in 1 .. L /\ k \in 0 .. L /\ k - 1 \in 0 .. L
          BY <1>3, <3>2
        <4>2. f[k] = f[k - 1] + queue[k]
          BY <1>1, <4>1, Zenon DEF SumsTo
        <4> QED
          BY <1>3, <2>1, <4>1, <4>2
      <3> QED
        BY <3>1, <3>2
    <2>4. g[0] = 0
      BY <1>1, <1>3, <2>1 DEF SumsTo
    <2> QED
      BY <2>3, <2>4, Zenon DEF SumsTo
  <1>5. g[L + 1] = f[L] + c
    BY <1>3
  <1> HIDE DEF g
  <1>6. CentsIn(longer) = g[L + 1]
    BY <1>3, <1>4, CentsAre
  <1> QED
    BY <1>2, <1>5, <1>6 DEF longer

LEMMA CentsTail ==
    ASSUME NEW queue \in Seq(Nat), queue # <<>>
    PROVE  CentsIn(queue) = Head(queue) + CentsIn(Tail(queue))
  <1> DEFINE rest == Tail(queue)
             L    == Len(queue)
  <1>1. PICK f \in [0 .. L -> Nat] : SumsTo(f, L, queue)
    BY SumsExist
  <1>2. CentsIn(queue) = f[L]
    BY <1>1, CentsAre
  <1>3. /\ L \in Nat \ {0} /\ rest \in Seq(Nat) /\ Len(rest) = L - 1 /\ queue[1] \in Nat
        /\ \A k \in 1 .. L - 1 : rest[k] = queue[k + 1]
        /\ Head(queue) = queue[1]
    OBVIOUS
  <1> DEFINE g == [k \in 0 .. L - 1 |-> f[k + 1] - queue[1]]
  <1> HIDE DEF rest, L
  <1>4. SumsTo(g, L - 1, rest)
    <2>1. f[1] = queue[1]
      BY <1>1, <1>3 DEF SumsTo
    <2>2. \A k \in 1 .. L - 1 : f[k + 1] = f[k] + queue[k + 1]
      BY <1>1, <1>3 DEF SumsTo
    <2>3. \A k \in 0 .. L - 1 : g[k] = f[k + 1] - queue[1] /\ f[k + 1] \in Nat
      BY <1>3
    <2> HIDE DEF g
    <2>4. ASSUME NEW k \in 1 .. L - 1
          PROVE  g[k] = g[k - 1] + rest[k]
      <3>1. k \in 0 .. L - 1 /\ k - 1 \in 0 .. L - 1 /\ (k - 1) + 1 = k
        BY <1>3
      <3>2. g[k] = f[k + 1] - queue[1] /\ g[k - 1] = f[k] - queue[1] /\ f[k] \in Nat
        BY <2>3, <3>1
      <3>3. f[k + 1] = f[k] + rest[k]
        BY <1>3, <2>2
      <3>4. k \in 1 .. Len(rest)
        BY <1>3
      <3>5. rest \in Seq(Nat) /\ queue[1] \in Nat
        BY <1>3, Zenon
      <3>6. rest[k] \in Nat
        BY <3>4, <3>5
      <3> QED
        BY <3>2, <3>3, <3>5, <3>6
    <2>5. g[0] = 0
      BY <1>3, <2>1, <2>3
    <2> QED
      BY <2>4, <2>5, Zenon DEF SumsTo
  <1>5. g[L - 1] = f[L] - queue[1] /\ f[L] \in Nat
    BY <1>3
  <1> HIDE DEF g
  <1>6. CentsIn(rest) = g[L - 1]
    BY <1>3, <1>4, CentsAre
  <1> QED
    BY <1>2, <1>3, <1>5, <1>6 DEF rest

-----------------------------------------------------------------------------
(* The books.                                                              *)

(* A paid period has put a credit on the clock, or is about to: so its row *)
(* is never empty, and is never left out of the log.                       *)
Dispensing ==
    /\ pc \in Starting => session > 0
    /\ pc \in InSession \cup Waiting \cup {"SESSION_END"} => dispensed > 0

BooksInv == Dispensing /\ BooksBalance

LEMMA DispensingFrame ==
    ASSUME Dispensing, UNCHANGED <<pc, session, dispensed>>
    PROVE  Dispensing'
BY DEF Dispensing

LEMMA DispensingStep ==
    ASSUME VendTypeOK, CreditShape, Dispensing, Next
    PROVE  Dispensing'
  <1> USE CreditNumbers
  <1>1. CASE PowerOn \/ IdleNext \/ ConfigNext \/ TestNext \/ CoinValidate \/ SessionEnd \/ Reset
    <2>1. pc' \notin PaidPeriod
      BY <1>1
         DEF PowerOn, IdleNext, IdlePoll, EnterTestMode, EnterConfig, PressStart,
         AutoStart, InactivityStart, StayIdle, Decide, ConfigNext, ConfigEnter,
         ConfigLeave, TestNext, TestEnter, TestCapture, TestService, TestStay,
         TestExit, TestReopen, CoinValidate, SessionEnd, Reset, PaidPeriod, Starting,
         InSession, SessionLoop, Waiting
    <2> QED
      BY <2>1 DEF Dispensing, PaidPeriod
  <1>2. CASE InsertCoin \/ MissPulse \/ CoinTask \/ LoopFlush \/ WriteRow \/ RaiseRequest
             \/ DriveRelay
    <2>1. UNCHANGED <<pc, session, dispensed>>
      BY <1>2 DEF InsertCoin, MissPulse, CoinTask, LoopFlush, WriteRow, RaiseRequest,
         DriveRelay, vendVars, creditVars, ledgerVars
    <2> QED
      BY <2>1, DispensingFrame
  <1>3. CASE BillFirst
    <2>1. pc = "BILL_FIRST" /\ pc' = "SESSION_ACTIVE" /\ session' = (IF Gated THEN 1 ELSE due)
      BY <1>3 DEF BillFirst
    <2>2. due > 0
      BY <2>1 DEF CreditShape
    <2> QED
      BY <2>1, <2>2 DEF Dispensing, InSession, SessionLoop, Waiting
  <1>4. CASE SessionEnter
    BY <1>4 DEF SessionEnter, Dispensing, Starting, InSession, SessionLoop, Waiting
  <1>5. CASE SessionStart
    <2>1. pc \in Starting /\ pc' = "LOOP" /\ dispensed' = dispensed + session
      BY <1>5 DEF SessionStart, Starting
    <2>2. dispensed' > 0
      BY <2>1 DEF Dispensing
    <2> QED
      BY <2>1, <2>2 DEF Dispensing, Starting
  <1>6. CASE SessionIterate \/ SessionSense \/ SessionTick \/ SessionStop \/ SessionReturn
             \/ WaitPoll \/ BillWaiting \/ KeepWaiting
    <2>1. /\ pc \in InSession \cup Waiting /\ dispensed' = dispensed
          /\ pc' \in InSession \cup Waiting \cup {"SESSION_END"}
      BY <1>6 DEF SessionIterate, SessionSense, SessionTick, SessionStop, SessionReturn,
         WaitPoll, BillWaiting, KeepWaiting, DecideWait, ledgerVars, InSession,
         SessionLoop, Waiting
    <2>2. pc' \notin Starting
      BY <2>1 DEF Starting, InSession, SessionLoop, Waiting
    <2> QED
      BY <2>1, <2>2 DEF Dispensing
  <1>7. CASE BillRunning
    <2>1. /\ pc \in InSession /\ pc' \in InSession
          /\ dispensed' = dispensed \/ dispensed' = dispensed + due
      BY <1>7 DEF BillRunning, InSession, SessionLoop
    <2>2. pc' \notin Starting
      BY <2>1 DEF Starting, InSession, SessionLoop
    <2>3. dispensed > 0
      BY <2>1 DEF Dispensing
    <2>4. dispensed' > 0
      BY <2>1, <2>3
    <2> QED
      BY <2>2, <2>4 DEF Dispensing
  <1>8. CASE NextCreditPressed \/ NextCreditTimeout
    <2>1. pc' = "SESSION_ACTIVE" /\ session' = 1
      BY <1>8 DEF NextCreditPressed, NextCreditTimeout, DecideWait
    <2> QED
      BY <2>1 DEF Dispensing, InSession, SessionLoop, Waiting
  <1> QED
    BY <1>1, <1>2, <1>3, <1>4, <1>5, <1>6, <1>7, <1>8
       DEF Next, AppNext, EnvNext, SessionNext, WaitNext

(* At the end of a paid period its money is in the open session.           *)
LEMMA PeriodHasMoney ==
    ASSUME VendTypeOK, EveryCreditAccounted, Dispensing, pc = "SESSION_END"
    PROVE  books.open > 0
  <1>1. dispensed > 0 /\ Owed = 0
    BY OwedAt DEF Dispensing, Starting, InSession, SessionLoop, Waiting
  <1>2. books.open = cfg.price * dispensed
    BY <1>1, CreditNumbers DEF EveryCreditAccounted
  <1>3. cfg.price \in Nat \ {0} /\ dispensed \in Nat \ {0}
    BY <1>1, ConfigNumbers, CreditNumbers DEF VendTypeOK, ControlTypeOK
  <1>4. \A a, b \in Nat \ {0} : a * b > 0
    OBVIOUS
  <1> QED
    BY <1>2, <1>3, <1>4

(* The two halves of BooksBalance *)
MoneyBalance == spent = books.open + CentsIn(books.queue) + books.written + books.dropped

RowsBalance == sessions = Len(books.queue) + books.rows + books.droppedRows

LockHolds == LockOutcomes = {TRUE}

LEMMA BalanceParts ==
    ASSUME BooksBalance, resets' = resets, MoneyBalance => MoneyBalance',
           LockHolds /\ RowsBalance => RowsBalance'
    PROVE  BooksBalance'
BY Zenon DEF BooksBalance, MoneyBalance, RowsBalance, LockHolds

LEMMA BooksFrame ==
    ASSUME BooksBalance, UNCHANGED <<books, spent, sessions, resets>>
    PROVE  BooksBalance'
BY DEF BooksBalance

LEMMA BookNumbers ==
    ASSUME VendTypeOK
    PROVE  /\ books \in Books /\ books.queue \in Seq(Nat) /\ CentsIn(books.queue) \in Nat
           /\ books.open \in Nat /\ books.written \in Nat /\ books.dropped \in Nat
           /\ books.rows \in Nat /\ books.droppedRows \in Nat /\ Len(books.queue) \in Nat
           /\ spent \in Nat /\ sessions \in Nat /\ resets \in Nat
BY CentsNat DEF VendTypeOK, LedgerTypeOK, Books

LEMMA Balances ==
    ASSUME VendTypeOK
    PROVE  /\ CentsIn(books.queue) \in Nat /\ Len(books.queue) \in Nat
           /\ books.open \in Nat /\ books.written \in Nat /\ books.dropped \in Nat
           /\ books.rows \in Nat /\ books.droppedRows \in Nat
           /\ spent \in Nat /\ sessions \in Nat
BY BookNumbers, Zenon

(* A closed session moves from the open one to the queue, or is counted as *)
(* dropped, and is one more of the day's sessions.                         *)
LEMMA BooksClose ==
    ASSUME VendTypeOK, BooksBalance, books.open > 0, SessionEnd
    PROVE  BooksBalance'
  <1>1. resets' = resets /\ spent' = spent /\ CloseBooks
    BY DEF SessionEnd
  <1>2. LockHolds => sessions' = sessions + 1
    BY DEF SessionEnd, LockHolds
  <1>3. /\ Len(books.queue) \in Nat /\ books.rows \in Nat /\ books.droppedRows \in Nat
        /\ sessions \in Nat
    BY Balances, Zenon
  <1>4. CASE Len(books.queue) < QueueDepth
    <2>1. books' = [books EXCEPT !.queue = Append(books.queue, books.open), !.open = 0]
      BY <1>1, <1>4, BookNumbers DEF CloseBooks
    <2>2. /\ books'.queue = Append(books.queue, books.open) /\ books'.open = 0
          /\ books'.written = books.written /\ books'.dropped = books.dropped
          /\ books'.rows = books.rows /\ books'.droppedRows = books.droppedRows
      BY <2>1, BookNumbers DEF Books
    <2>3. /\ CentsIn(Append(books.queue, books.open)) = CentsIn(books.queue) + books.open
          /\ Len(Append(books.queue, books.open)) = Len(books.queue) + 1
      <3>1. books.queue \in Seq(Nat) /\ books.open \in Nat
        BY BookNumbers
      <3> QED
        BY <3>1, CentsAppend
    <2>4. /\ CentsIn(books'.queue) = CentsIn(books.queue) + books.open
          /\ Len(books'.queue) = Len(books.queue) + 1
      BY <2>2, <2>3, Zenon
    <2>5. MoneyBalance => MoneyBalance'
      BY <1>1, <2>2, <2>4, Balances DEF MoneyBalance
    <2>6. ASSUME LockHolds, RowsBalance PROVE RowsBalance'
      <3>1. sessions' = sessions + 1
        BY <1>2, <2>6
      <3> QED
        BY <2>2, <2>4, <2>6, <3>1, Balances DEF RowsBalance
    <2> QED
      BY <1>1, <2>5, <2>6, BalanceParts
  <1>5. CASE ~(Len(books.queue) < QueueDepth)
    <2>1. books' = [books EXCEPT !.droppedRows = books.droppedRows + 1,
                                 !.dropped = books.dropped + books.open, !.open = 0]
      BY <1>1, <1>5, BookNumbers DEF CloseBooks
    <2>2. /\ books'.queue = books.queue /\ books'.open = 0
          /\ books'.written = books.written /\ books'.dropped = books.dropped + books.open
          /\ books'.rows = books.rows /\ books'.droppedRows = books.droppedRows + 1
      BY <2>1, BookNumbers DEF Books
    <2>3. CentsIn(books'.queue) = CentsIn(books.queue) /\ Len(books'.queue) = Len(books.queue)
      BY <2>2, Zenon
    <2>4. MoneyBalance => MoneyBalance'
      BY <1>1, <2>2, <2>3, Balances DEF MoneyBalance
    <2>5. ASSUME LockHolds, RowsBalance PROVE RowsBalance'
      <3>1. sessions' = sessions + 1
        BY <1>2, <2>5
      <3> QED
        BY <2>2, <2>3, <2>5, <3>1, <1>3 DEF RowsBalance
    <2> QED
      BY <1>1, <2>4, <2>5, BalanceParts
  <1> QED
    BY <1>4, <1>5

(* A row goes from the queue to flash.                                     *)
LEMMA BooksWritten ==
    ASSUME VendTypeOK, BooksBalance, WriteRow
    PROVE  BooksBalance'
  <1>1. /\ books.queue # <<>> /\ UNCHANGED <<spent, sessions, resets>>
        /\ books' = [books EXCEPT !.queue = Tail(books.queue), !.rows = books.rows + 1,
                                  !.written = books.written + Head(books.queue)]
    BY DEF WriteRow
  <1>2. /\ books'.queue = Tail(books.queue) /\ books'.open = books.open
        /\ books'.written = books.written + Head(books.queue)
        /\ books'.dropped = books.dropped /\ books'.rows = books.rows + 1
        /\ books'.droppedRows = books.droppedRows
    BY <1>1, BookNumbers DEF Books
  <1>3. /\ CentsIn(books.queue) = Head(books.queue) + CentsIn(books'.queue)
        /\ Len(books'.queue) = Len(books.queue) - 1 /\ Head(books.queue) \in Nat
        /\ CentsIn(books'.queue) \in Nat
    <2>1. Tail(books.queue) \in Seq(Nat) /\ Head(books.queue) \in Nat
          /\ Len(Tail(books.queue)) = Len(books.queue) - 1
      BY <1>1, BookNumbers
    <2>2. CentsIn(Tail(books.queue)) \in Nat
      BY <2>1, CentsNat
    <2> QED
      BY <1>1, <1>2, <2>1, <2>2, BookNumbers, CentsTail
  <1>4. spent' = spent /\ sessions' = sessions
    BY <1>1
  <1>5. MoneyBalance => MoneyBalance'
    <2>1. /\ books.open \in Nat /\ books.written \in Nat /\ books.dropped \in Nat
          /\ spent \in Nat
      BY Balances, Zenon
    <2> QED
      BY <1>2, <1>3, <1>4, <2>1 DEF MoneyBalance
  <1>6. RowsBalance => RowsBalance'
    BY <1>2, <1>3, <1>4, Balances DEF RowsBalance
  <1> QED
    BY <1>1, <1>5, <1>6, BalanceParts

LEMMA BooksStep ==
    ASSUME VendTypeOK, EveryCreditAccounted, Dispensing, BooksBalance, Next
    PROVE  BooksBalance'
  <1>1. CASE PowerOn \/ IdleNext \/ ConfigNext \/ TestNext \/ CoinValidate \/ SessionEnter
             \/ SessionStart \/ SessionIterate \/ SessionSense \/ SessionTick \/ SessionStop
             \/ SessionReturn \/ WaitPoll \/ NextCreditPressed \/ NextCreditTimeout
             \/ KeepWaiting \/ InsertCoin \/ MissPulse \/ CoinTask \/ LoopFlush
             \/ RaiseRequest \/ DriveRelay
    <2>1. UNCHANGED <<books, spent, sessions, resets>>
      BY <1>1 DEF PowerOn, IdleNext, IdlePoll, EnterTestMode, EnterConfig, PressStart,
         AutoStart, InactivityStart, StayIdle, Decide, ConfigNext, ConfigEnter,
         ConfigLeave, TestNext, TestEnter, TestCapture, TestService, TestStay,
         TestExit, TestReopen, CoinValidate, SessionEnter, SessionStart, SessionIterate,
         SessionSense, SessionTick, SessionStop, SessionReturn, WaitPoll, DecideWait,
         NextCreditPressed, NextCreditTimeout, KeepWaiting, InsertCoin, MissPulse,
         CoinTask, LoopFlush, RaiseRequest, DriveRelay, vendVars, ledgerVars
    <2> QED
      BY <2>1, BooksFrame
  <1>2. CASE BillFirst \/ BillRunning \/ BillWaiting
    <2>1. BillDue
      BY <1>2 DEF BillFirst, BillRunning, BillWaiting
    <2> DEFINE cost == due * cfg.price
    <2>2. cost \in Nat /\ spent' = spent + cost /\ UNCHANGED <<sessions, resets>>
      BY <2>1, Billed
    <2>3. books' = [books EXCEPT !.open = books.open + cost]
      BY <2>1 DEF BillDue
    <2> HIDE DEF cost
    <2>4. /\ books'.queue = books.queue /\ books'.open = books.open + cost
          /\ books'.written = books.written /\ books'.dropped = books.dropped
          /\ books'.rows = books.rows /\ books'.droppedRows = books.droppedRows
      BY <2>3, BookNumbers DEF Books
    <2>5. CentsIn(books'.queue) = CentsIn(books.queue) /\ Len(books'.queue) = Len(books.queue)
      BY <2>4, Zenon
    <2>6. MoneyBalance => MoneyBalance'
      <3>1. /\ books.open \in Nat /\ books.written \in Nat /\ books.dropped \in Nat
            /\ CentsIn(books.queue) \in Nat /\ spent \in Nat
        BY Balances, Zenon
      <3>2. cost \in Nat /\ spent' = spent + cost
        BY <2>2
      <3> QED
        BY <2>4, <2>5, <3>1, <3>2 DEF MoneyBalance
    <2>7. RowsBalance => RowsBalance'
      BY <2>2, <2>4, <2>5, Balances DEF RowsBalance
    <2> QED
      BY <2>2, <2>6, <2>7, BalanceParts
  <1>3. CASE SessionEnd
    BY <1>3, PeriodHasMoney, BooksClose DEF SessionEnd
  <1>4. CASE WriteRow
    BY <1>4, BooksWritten
  <1>5. CASE Reset
    <2>1. resets' # 0
      BY <1>5, BookNumbers DEF Reset
    <2> QED
      BY <2>1 DEF BooksBalance
  <1> QED
    BY <1>1, <1>2, <1>3, <1>4, <1>5 DEF Next, AppNext, EnvNext, SessionNext, WaitNext

(* Until a reset every centavo billed is in the open session, in the queue *)
(* for flash, in a row, or counted as dropped; and every paid period is    *)
(* one row and one of today's sessions, whatever the queue does meanwhile  *)
(* (eventlog_note_billed, eventlog_record_session, eventlog_service).      *)
THEOREM BooksSafe == Spec => []BooksBalance
  <1>1. VendInit => PeriodInv /\ BooksInv
    <2> SUFFICES ASSUME VendInit PROVE BooksInv
      BY InitPeriod
    <2>1. Dispensing
      BY DEF VendInit, Dispensing, Starting, InSession, SessionLoop, Waiting
    <2>2. /\ books.open = 0 /\ books.queue = <<>> /\ books.written = 0 /\ books.dropped = 0
          /\ books.rows = 0 /\ books.droppedRows = 0 /\ spent = 0 /\ sessions = 0
      BY DEF VendInit
    <2>3. BooksBalance
      BY <2>2, NoCents DEF BooksBalance
    <2> QED
      BY <2>1, <2>3 DEF BooksInv
  <1>2. PeriodInv /\ BooksInv /\ [Next]_vars => PeriodInv' /\ BooksInv'
    <2> SUFFICES ASSUME PeriodInv, BooksInv, [Next]_vars PROVE BooksInv'
      BY StepPeriod
    <2>1. CASE Next
      BY <2>1, DispensingStep, BooksStep DEF PeriodInv, Inv, MoneyInv, CreditInv, BooksInv
    <2>2. CASE UNCHANGED vars
      BY <2>2, DispensingFrame, BooksFrame
         DEF BooksInv, vars, vendVars, creditVars, ledgerVars
    <2> QED
      BY <2>1, <2>2
  <1>3. BooksInv => BooksBalance
    BY DEF BooksInv
  <1> QED
    BY <1>1, <1>2, <1>3, PTL DEF Spec
==============================================================================
