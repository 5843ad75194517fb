----------------------------- MODULE VendProofs -----------------------------
(***************************************************************************)
(* Theorems about the vend state machine for every set of configurations,  *)
(* every train length and every bound: the variables keep their types, and *)
(* money is conserved although the coin task interleaves with the billing. *)
(***************************************************************************)
EXTENDS Vend, TLAPS

(* Conservation is inductive only together with the fact that a billing    *)
(* step always finds the money it counted: otherwise the floor at zero in  *)
(* coin_consume_value_cents could forgive part of it.                      *)
MoneyInv == VendTypeOK /\ MoneyConserved /\ BillingCovered

-----------------------------------------------------------------------------
(* Arithmetic and configuration facts.                                     *)

(* Whole credits in a sum of money never cost more than the sum: the       *)
(* integer division of COIN_VALIDATE and of the accumulation.              *)
LEMMA WholeCredits ==
    ASSUME NEW v \in Nat, NEW p \in Nat \ {0}
    PROVE  v \div p \in Nat /\ (v \div p) * p \in Nat /\ (v \div p) * p <= v
OBVIOUS

(* A product of naturals is a natural.                                     *)
LEMMA NatProduct ==
    ASSUME NEW a \in Nat, NEW b \in Nat
    PROVE  a * b \in Nat
OBVIOUS

(* The numbers of a stored configuration.                                  *)
LEMMA ConfigNumbers ==
    ASSUME NEW c \in Configs
    PROVE  c.price \in Nat \ {0} /\ c.unit \in Nat /\ c.relayTicks \in Nat \ {0}
BY VendAssumption DEF ConfigShape

(* coin_consume_value_cents: exact whenever the money is there.            *)
LEMMA Consumed ==
    ASSUME value \in Nat, NEW c \in Nat, ConsumeValue(c)
    PROVE  value' \in Nat /\ (c <= value => value' = value - c)
BY DEF ConsumeValue

-----------------------------------------------------------------------------
(* Frames: a part of the state that a step leaves alone keeps its type.    *)

LEMMA CoinsFrame ==
    ASSUME CoinsTypeOK, UNCHANGED coinVars
    PROVE  CoinsTypeOK'
BY DEF CoinsTypeOK, coinVars, acceptorVars, bankVars, meterVars

LEMMA CreditFrame ==
    ASSUME CreditTypeOK, UNCHANGED creditVars
    PROVE  CreditTypeOK'
BY DEF CreditTypeOK, creditVars

LEMMA LedgerFrame ==
    ASSUME LedgerTypeOK, UNCHANGED ledgerVars
    PROVE  LedgerTypeOK'
BY DEF LedgerTypeOK, ledgerVars

LEMMA VendFrame ==
    ASSUME ControlTypeOK, CreditTypeOK, LedgerTypeOK, UNCHANGED vendVars
    PROVE  ControlTypeOK' /\ CreditTypeOK' /\ LedgerTypeOK'
BY DEF ControlTypeOK, CreditTypeOK, LedgerTypeOK, vendVars, creditVars,
       benchVars, ledgerVars

(* counters_reset_test_amount keeps the test total a natural.              *)
LEMMA TestAmountTyped ==
    ASSUME testCents \in Nat, ResetTestAmount
    PROVE  testCents' \in Nat
  <1>1. 0 \in Nat
    OBVIOUS
  <1> QED
    BY <1>1, Zenon DEF ResetTestAmount

(* Whole credits read from the money are a natural they cover.             *)
LEMMA MoneyRead ==
    ASSUME VendTypeOK, ReadMoney
    PROVE  due' \in Nat /\ due' * cfg.price \in Nat /\ due' * cfg.price <= value
  <1>1. value \in Nat /\ cfg.price \in Nat \ {0}
    BY ConfigNumbers DEF VendTypeOK, CoinsTypeOK, ControlTypeOK
  <1> QED
    BY <1>1, WholeCredits DEF ReadMoney

(* One billing step: the price of what is due is typed, leaves the total   *)
(* and enters the open session.                                            *)
LEMMA Billed ==
    ASSUME VendTypeOK, BillDue
    PROVE  /\ due * cfg.price \in Nat
           /\ CoinsTypeOK'
           /\ spent' = spent + due * cfg.price
           /\ spent' \in Nat
           /\ books' \in Books
           /\ UNCHANGED <<sessions, lost, resets, banked>>
           /\ due * cfg.price <= value => value' = value - due * cfg.price
  <1> DEFINE cost == due * cfg.price
  <1>1. cost \in Nat
    BY ConfigNumbers, NatProduct DEF VendTypeOK, ControlTypeOK, CreditTypeOK
  <1>2. /\ ConsumeValue(cost)
        /\ spent' = spent + cost
        /\ books' = [books EXCEPT !.open = @ + cost]
    BY DEF BillDue
  <1> HIDE DEF cost
  <1>3. value' \in Nat /\ (cost <= value => value' = value - cost)
    BY <1>1, <1>2, Consumed DEF VendTypeOK, CoinsTypeOK
  <1>4. CoinsTypeOK'
    BY <1>3 DEF BillDue, VendTypeOK, CoinsTypeOK, acceptorVars, meterVars
  <1>5. spent \in Nat /\ books \in Books /\ books.open \in Nat
    BY DEF VendTypeOK, LedgerTypeOK, Books
  <1>6. spent' \in Nat /\ books.open + cost \in Nat
    BY <1>1, <1>2, <1>5
  <1>7. books' \in Books
    BY <1>2, <1>5, <1>6 DEF Books
  <1>8. UNCHANGED <<sessions, lost, resets, banked>>
    BY DEF BillDue
  <1> QED
    BY <1>1, <1>2, <1>3, <1>4, <1>6, <1>7, <1>8 DEF cost

(* The countdown after a top-up stays a natural number of ticks.           *)
LEMMA ExtendedTyped ==
    ASSUME VendTypeOK
    PROVE  Extended(run.deadline) \in Nat
  <1> DEFINE ticks == due * cfg.relayTicks
  <1>1. ticks \in Nat
    BY ConfigNumbers, NatProduct DEF VendTypeOK, ControlTypeOK, CreditTypeOK
  <1>2. run.deadline \in Nat
    BY DEF VendTypeOK, CreditTypeOK, Countdowns
  <1>3. Extended(run.deadline) = IF run.deadline + ticks > TicksCap
                                 THEN TicksCap ELSE run.deadline + ticks
    BY DEF Extended
  <1> HIDE DEF ticks
  <1> QED
    BY <1>1, <1>2, <1>3, VendAssumption

(* What the end of a session does to the coin path: it may save the meter. *)
LEMMA SessionEndMeter ==
    ASSUME SessionEnd
    PROVE  /\ saved' \in {saved, lifetime}
           /\ UNCHANGED <<slotOn, capture, acceptorVars, bankVars, tally,
                          lifetime, testCents, unmetered>>
  <1>1. saved' \in {saved, lifetime}
    BY Zenon DEF SessionEnd, MayRollDay
  <1>2. UNCHANGED <<slotOn, capture, acceptorVars, bankVars, tally,
                    lifetime, testCents, unmetered>>
    BY DEF SessionEnd
  <1> QED
    BY <1>1, <1>2

(* The coin path keeps its types; the meter is never behind NVS, so what a  *)
(* reset takes off it is a natural.                                      *)
LEMMA CoinsTyped ==
    ASSUME VendTypeOK, MeterMatchesTakings, Next
    PROVE  CoinsTypeOK'
  <1>1. CASE IdlePoll \/ EnterTestMode \/ EnterConfig \/ PressStart \/
            AutoStart \/ InactivityStart \/ StayIdle \/
            TestStay \/ CoinValidate \/ SessionEnter \/
            SessionIterate \/ SessionSense \/ SessionTick \/
            SessionReturn \/ WaitPoll \/ NextCreditPressed
            \/ NextCreditTimeout \/ KeepWaiting \/
            WriteRow \/ RaiseRequest \/ DriveRelay
    <2>1. UNCHANGED coinVars
      BY <1>1 DEF IdlePoll, EnterTestMode, Decide, EnterConfig,
         PressStart, AutoStart, InactivityStart, StayIdle, TestStay,
         CoinValidate, SessionEnter, SessionIterate, SessionSense,
         SessionTick, SessionReturn, WaitPoll, NextCreditPressed,
         DecideWait, NextCreditTimeout, KeepWaiting,
         WriteRow, RaiseRequest, DriveRelay
    <2> QED
      BY <2>1, CoinsFrame DEF VendTypeOK
  <1>2. CASE PowerOn
    BY <1>2, ConfigNumbers DEF PowerOn, acceptorVars, meterVars,
       VendTypeOK, CoinsTypeOK
  <1>3. CASE ConfigEnter
    BY <1>3 DEF ConfigEnter, acceptorVars, bankVars, meterVars,
       VendTypeOK, CoinsTypeOK
  <1>4. CASE ConfigLeave
    BY <1>4, ConfigNumbers DEF ConfigLeave, acceptorVars, meterVars,
       VendTypeOK, CoinsTypeOK
  <1>5. CASE TestEnter
    BY <1>5 DEF TestEnter, acceptorVars, bankVars, meterVars,
       VendTypeOK, CoinsTypeOK
  <1>6. CASE TestCapture
    BY <1>6, TestAmountTyped DEF VendTypeOK, CoinsTypeOK, TestCapture,
       acceptorVars, bankVars
  <1>7. CASE TestService
    BY <1>7, TestAmountTyped DEF VendTypeOK, CoinsTypeOK, TestService,
       acceptorVars, bankVars
  <1>8. CASE TestExit
    BY <1>8 DEF TestExit, acceptorVars, bankVars, meterVars,
       VendTypeOK, CoinsTypeOK
  <1>9. CASE TestReopen
    BY <1>9, TestAmountTyped DEF VendTypeOK, CoinsTypeOK, TestReopen,
       acceptorVars, bankVars
  <1>10. CASE BillFirst
    BY <1>10, Billed DEF BillFirst
  <1>11. CASE SessionStart
    BY <1>11 DEF SessionStart, acceptorVars, bankVars, meterVars,
       VendTypeOK, CoinsTypeOK
  <1>12. CASE BillRunning
    BY <1>12, Billed DEF BillRunning
  <1>13. CASE SessionStop
    BY <1>13 DEF SessionStop, acceptorVars, bankVars, meterVars,
       VendTypeOK, CoinsTypeOK
  <1>14. CASE BillWaiting
    BY <1>14, Billed DEF BillWaiting
  <1>15. CASE InsertCoin
    BY <1>15, CoinsAssumption DEF InsertCoin, DropCoin, Owners,
       bankVars, meterVars, VendTypeOK, CoinsTypeOK
  <1>16. CASE MissPulse
    BY <1>16 DEF MissPulse, bankVars, meterVars, VendTypeOK,
       CoinsTypeOK
  <1>17. CASE CoinTask
    BY <1>17 DEF CoinTask, AcceptPulse, RecordTally, MayRollDay, NoTally,
       acceptorVars, bankVars, VendTypeOK, CoinsTypeOK, Tallies
  <1>18. CASE LoopFlush
    BY <1>18 DEF LoopFlush, FlushCounters, acceptorVars, bankVars,
       VendTypeOK, CoinsTypeOK
  <1>19. CASE Reset
    <2>1. unmetered' \in Nat
      BY <1>19 DEF VendTypeOK, CoinsTypeOK, MeterMatchesTakings, Reset,
         CoinsReset, Tallies
    <2>2. tally' \in Tallies
      BY <1>19 DEF Reset, CoinsReset, Tallies, NoTally
    <2> QED
      BY <1>19, <2>1, <2>2 DEF VendTypeOK, CoinsTypeOK, Reset, CoinsReset
  <1>20. CASE SessionEnd
    <2>1. saved' \in {saved, lifetime}
      BY <1>20, SessionEndMeter
    <2> QED
      BY <1>20, <2>1, SessionEndMeter DEF acceptorVars, bankVars, VendTypeOK,
         CoinsTypeOK
  <1> QED
    BY <1>1, <1>2, <1>3, <1>4, <1>5, <1>6, <1>7, <1>8, <1>9,
       <1>10, <1>11, <1>12, <1>13, <1>14, <1>15, <1>16, <1>17, <1>18,
       <1>19, <1>20
       DEF Next, AppNext, EnvNext, IdleNext, ConfigNext, TestNext,
       SessionNext, WaitNext

(* Control state and requests keep their types.                          *)
LEMMA ControlTyped ==
    ASSUME VendTypeOK, Next
    PROVE  ControlTypeOK'
  <1>1. CASE InsertCoin \/ MissPulse \/ CoinTask \/ LoopFlush
    <2>1. UNCHANGED vendVars
      BY <1>1 DEF InsertCoin, MissPulse, CoinTask, LoopFlush
    <2> QED
      BY <2>1, VendFrame DEF VendTypeOK
  <1>2. CASE PowerOn
    BY <1>2 DEF PowerOn, benchVars, VendTypeOK, ControlTypeOK, Places,
       Published, SessionLoop, TestSteps
  <1>3. CASE IdlePoll
    BY <1>3 DEF IdlePoll, VendTypeOK, ControlTypeOK, Places,
       Published, SessionLoop, TestSteps, Requested
  <1>4. CASE EnterTestMode
    BY <1>4 DEF EnterTestMode, Decide, VendTypeOK, ControlTypeOK,
       Places, Published, SessionLoop, TestSteps, Requested
  <1>5. CASE EnterConfig
    BY <1>5 DEF EnterConfig, Decide, VendTypeOK, ControlTypeOK,
       Places, Published, SessionLoop, TestSteps, Requested
  <1>6. CASE PressStart
    BY <1>6 DEF PressStart, Decide, VendTypeOK, ControlTypeOK, Places,
       Published, SessionLoop, TestSteps, Requested
  <1>7. CASE AutoStart
    BY <1>7 DEF AutoStart, Decide, VendTypeOK, ControlTypeOK, Places,
       Published, SessionLoop, TestSteps, Requested
  <1>8. CASE InactivityStart
    BY <1>8 DEF InactivityStart, Decide, VendTypeOK, ControlTypeOK,
       Places, Published, SessionLoop, TestSteps, Requested
  <1>9. CASE StayIdle
    BY <1>9 DEF StayIdle, Decide, VendTypeOK, ControlTypeOK, Places,
       Published, SessionLoop, TestSteps, Requested
  <1>10. CASE ConfigEnter
    BY <1>10 DEF ConfigEnter, benchVars, VendTypeOK, ControlTypeOK,
       Places, Published, SessionLoop, TestSteps
  <1>11. CASE ConfigLeave
    BY <1>11 DEF ConfigLeave, benchVars, VendTypeOK, ControlTypeOK,
       Places, Published, SessionLoop, TestSteps
  <1>12. CASE TestEnter
    BY <1>12 DEF TestEnter, VendTypeOK, ControlTypeOK, Places,
       Published, SessionLoop, TestSteps
  <1>13. CASE TestCapture
    BY <1>13 DEF TestCapture, benchVars, VendTypeOK, ControlTypeOK,
       Places, Published, SessionLoop, TestSteps
  <1>14. CASE TestService
    BY <1>14 DEF TestService, VendTypeOK, ControlTypeOK, Places,
       Published, SessionLoop, TestSteps, Requested
  <1>15. CASE TestStay
    BY <1>15 DEF TestStay, benchVars, VendTypeOK, ControlTypeOK,
       Places, Published, SessionLoop, TestSteps
  <1>16. CASE TestExit
    BY <1>16 DEF TestExit, VendTypeOK, ControlTypeOK, Places,
       Published, SessionLoop, TestSteps, Requested
  <1>17. CASE TestReopen
    BY <1>17 DEF TestReopen, benchVars, VendTypeOK, ControlTypeOK,
       Places, Published, SessionLoop, TestSteps
  <1>18. CASE CoinValidate
    BY <1>18 DEF CoinValidate, benchVars, VendTypeOK, ControlTypeOK,
       Places, Published, SessionLoop, TestSteps
  <1>19. CASE BillFirst
    BY <1>19 DEF BillFirst, benchVars, VendTypeOK, ControlTypeOK,
       Places, Published, SessionLoop, TestSteps
  <1>20. CASE SessionEnter
    BY <1>20 DEF SessionEnter, benchVars, VendTypeOK, ControlTypeOK,
       Places, Published, SessionLoop, TestSteps
  <1>21. CASE SessionStart
    BY <1>21 DEF SessionStart, benchVars, VendTypeOK, ControlTypeOK,
       Places, Published, SessionLoop, TestSteps
  <1>22. CASE SessionIterate
    BY <1>22 DEF SessionIterate, benchVars, VendTypeOK, ControlTypeOK,
       Places, Published, SessionLoop, TestSteps
  <1>23. CASE SessionSense
    BY <1>23 DEF SessionSense, benchVars, VendTypeOK, ControlTypeOK,
       Places, Published, SessionLoop, TestSteps
  <1>24. CASE SessionTick
    BY <1>24 DEF SessionTick, benchVars, VendTypeOK, ControlTypeOK,
       Places, Published, SessionLoop, TestSteps
  <1>25. CASE BillRunning
    BY <1>25 DEF BillRunning, benchVars, VendTypeOK, ControlTypeOK,
       Places, Published, SessionLoop, TestSteps
  <1>26. CASE SessionStop
    BY <1>26 DEF SessionStop, benchVars, VendTypeOK, ControlTypeOK,
       Places, Published, SessionLoop, TestSteps
  <1>27. CASE SessionReturn
    BY <1>27 DEF SessionReturn, benchVars, VendTypeOK, ControlTypeOK,
       Places, Published, SessionLoop, TestSteps
  <1>28. CASE WaitPoll
    BY <1>28 DEF WaitPoll, benchVars, VendTypeOK, ControlTypeOK,
       Places, Published, SessionLoop, TestSteps
  <1>29. CASE BillWaiting
    BY <1>29 DEF BillWaiting, benchVars, VendTypeOK, ControlTypeOK,
       Places, Published, SessionLoop, TestSteps
  <1>30. CASE NextCreditPressed
    BY <1>30 DEF NextCreditPressed, DecideWait, benchVars, VendTypeOK,
       ControlTypeOK, Places, Published, SessionLoop, TestSteps
  <1>31. CASE NextCreditTimeout
    BY <1>31 DEF NextCreditTimeout, DecideWait, benchVars, VendTypeOK,
       ControlTypeOK, Places, Published, SessionLoop, TestSteps
  <1>32. CASE KeepWaiting
    BY <1>32 DEF KeepWaiting, DecideWait, benchVars, VendTypeOK,
       ControlTypeOK, Places, Published, SessionLoop, TestSteps
  <1>33. CASE SessionEnd
    BY <1>33 DEF SessionEnd, benchVars, VendTypeOK, ControlTypeOK,
       Places, Published, SessionLoop, TestSteps
  <1>34. CASE WriteRow
    BY <1>34 DEF WriteRow, benchVars, VendTypeOK, ControlTypeOK,
       Places, Published, SessionLoop, TestSteps
  <1>35. CASE RaiseRequest
    <2>1. req' \in Requested
      BY <1>35 DEF VendTypeOK, ControlTypeOK, RaiseRequest, Requested
    <2> QED
      BY <1>35, <2>1 DEF VendTypeOK, ControlTypeOK, RaiseRequest
  <1>36. CASE DriveRelay
    BY <1>36 DEF DriveRelay, benchVars, VendTypeOK, ControlTypeOK,
       Places, Published, SessionLoop, TestSteps
  <1>37. CASE Reset
    BY <1>37 DEF Reset, NoRequest, VendTypeOK, ControlTypeOK, Places,
       Published, SessionLoop, TestSteps, Requested
  <1> QED
    BY <1>1, <1>2, <1>3, <1>4, <1>5, <1>6, <1>7, <1>8, <1>9,
       <1>10, <1>11, <1>12, <1>13, <1>14, <1>15, <1>16, <1>17, <1>18,
       <1>19, <1>20, <1>21, <1>22, <1>23, <1>24, <1>25, <1>26, <1>27,
       <1>28, <1>29, <1>30, <1>31, <1>32, <1>33, <1>34, <1>35, <1>36,
       <1>37
       DEF Next, AppNext, EnvNext, IdleNext, ConfigNext, TestNext,
       SessionNext, WaitNext

(* The credit counters and the countdown keep their types.               *)
LEMMA CreditTyped ==
    ASSUME VendTypeOK, Next
    PROVE  CreditTypeOK'
  <1>1. CASE PowerOn \/ EnterTestMode \/ EnterConfig \/ PressStart \/
            AutoStart \/ InactivityStart \/ StayIdle \/
            ConfigEnter \/ ConfigLeave \/ TestEnter \/
            TestCapture \/ TestService \/ TestStay \/
            TestExit \/ TestReopen \/ SessionStop \/
            InsertCoin \/ MissPulse \/ CoinTask \/ LoopFlush
            \/ WriteRow \/ RaiseRequest \/ DriveRelay
    <2>1. UNCHANGED creditVars
      BY <1>1 DEF PowerOn, EnterTestMode, Decide, EnterConfig,
         PressStart, AutoStart, InactivityStart, StayIdle, ConfigEnter,
         ConfigLeave, TestEnter, TestCapture, TestService, TestStay,
         TestExit, TestReopen, SessionStop, InsertCoin, MissPulse,
         CoinTask, LoopFlush, WriteRow, RaiseRequest, DriveRelay,
         vendVars, creditVars
    <2> QED
      BY <2>1, CreditFrame DEF VendTypeOK
  <1>2. CASE IdlePoll
    BY <1>2, MoneyRead DEF VendTypeOK, CreditTypeOK, IdlePoll
  <1>3. CASE CoinValidate
    BY <1>3, MoneyRead DEF VendTypeOK, CreditTypeOK, CoinValidate
  <1>4. CASE BillFirst
    BY <1>4 DEF BillFirst, VendTypeOK, CreditTypeOK
  <1>5. CASE SessionEnter
    BY <1>5 DEF SessionEnter, VendTypeOK, CreditTypeOK
  <1>6. CASE SessionStart
    <2>1. session * cfg.relayTicks \in Nat
      BY ConfigNumbers, NatProduct
         DEF VendTypeOK, ControlTypeOK, CreditTypeOK
    <2>2. run' \in Countdowns
      BY <1>6, <2>1 DEF SessionStart, Countdowns
    <2> QED
      BY <1>6, <2>2 DEF VendTypeOK, CreditTypeOK, SessionStart
  <1>7. CASE SessionIterate
    <2>1. due' \in Nat
      BY <1>7, MoneyRead DEF SessionIterate
    <2>2. run' \in Countdowns
      BY <1>7 DEF VendTypeOK, CreditTypeOK, SessionIterate, Countdowns
    <2> QED
      BY <1>7, <2>1, <2>2 DEF VendTypeOK, CreditTypeOK, SessionIterate
  <1>8. CASE SessionSense
    <2>1. PICK fires \in BOOLEAN :
             run' = [run EXCEPT !.fired = fires, !.elapsed = @ + 1]
      BY <1>8 DEF SessionSense
    <2>2. run \in Countdowns /\ run.elapsed + 1 \in Nat
      BY DEF VendTypeOK, CreditTypeOK, Countdowns
    <2>3. run' \in Countdowns
      BY <2>1, <2>2 DEF Countdowns
    <2> QED
      BY <1>8, <2>3 DEF VendTypeOK, CreditTypeOK, SessionSense
  <1>9. CASE SessionTick
    BY <1>9, MoneyRead DEF VendTypeOK, CreditTypeOK, SessionTick
  <1>10. CASE BillRunning
    <2>1. run' \in Countdowns
      BY <1>10, ExtendedTyped
         DEF VendTypeOK, CreditTypeOK, BillRunning, Countdowns
    <2> QED
      BY <1>10, <2>1 DEF VendTypeOK, CreditTypeOK, BillRunning
  <1>11. CASE SessionReturn
    BY <1>11 DEF SessionReturn, VendTypeOK, CreditTypeOK
  <1>12. CASE WaitPoll
    BY <1>12, MoneyRead DEF VendTypeOK, CreditTypeOK, WaitPoll
  <1>13. CASE BillWaiting
    BY <1>13 DEF BillWaiting, VendTypeOK, CreditTypeOK
  <1>14. CASE NextCreditPressed
    BY <1>14 DEF NextCreditPressed, DecideWait, VendTypeOK,
       CreditTypeOK
  <1>15. CASE NextCreditTimeout
    BY <1>15 DEF NextCreditTimeout, DecideWait, VendTypeOK,
       CreditTypeOK
  <1>16. CASE KeepWaiting
    BY <1>16 DEF KeepWaiting, DecideWait, VendTypeOK, CreditTypeOK
  <1>17. CASE SessionEnd
    BY <1>17 DEF SessionEnd, CloseBooks, VendTypeOK, CreditTypeOK
  <1>18. CASE Reset
    BY <1>18 DEF Reset, NoRun, VendTypeOK, CreditTypeOK, Countdowns
  <1> QED
    BY <1>1, <1>2, <1>3, <1>4, <1>5, <1>6, <1>7, <1>8, <1>9,
       <1>10, <1>11, <1>12, <1>13, <1>14, <1>15, <1>16, <1>17, <1>18
       DEF Next, AppNext, EnvNext, IdleNext, ConfigNext, TestNext,
       SessionNext, WaitNext

(* The accounts keep their types.                                        *)
LEMMA LedgerTyped ==
    ASSUME VendTypeOK, Next
    PROVE  LedgerTypeOK'
  <1>1. CASE PowerOn \/ IdlePoll \/ EnterTestMode \/ EnterConfig \/
            PressStart \/ AutoStart \/ InactivityStart \/
            StayIdle \/ ConfigEnter \/ ConfigLeave \/
            TestEnter \/ TestCapture \/ TestService \/
            TestStay \/ TestExit \/ TestReopen \/
            CoinValidate \/ SessionEnter \/ SessionIterate
            \/ SessionSense \/ SessionTick \/ SessionStop \/
            SessionReturn \/ WaitPoll \/ NextCreditPressed
            \/ NextCreditTimeout \/ KeepWaiting \/
            InsertCoin \/ MissPulse \/ CoinTask \/ LoopFlush
            \/ RaiseRequest \/ DriveRelay
    <2>1. UNCHANGED ledgerVars
      BY <1>1 DEF PowerOn, IdlePoll, EnterTestMode, Decide, EnterConfig,
         PressStart, AutoStart, InactivityStart, StayIdle, ConfigEnter,
         ConfigLeave, TestEnter, TestCapture, TestService, TestStay,
         TestExit, TestReopen, CoinValidate, SessionEnter,
         SessionIterate, SessionSense, SessionTick, SessionStop,
         SessionReturn, WaitPoll, NextCreditPressed, DecideWait,
         NextCreditTimeout, KeepWaiting, InsertCoin, MissPulse,
         CoinTask, LoopFlush, RaiseRequest, DriveRelay, vendVars
    <2> QED
      BY <2>1, LedgerFrame DEF VendTypeOK
  <1>2. CASE BillFirst
    BY <1>2, Billed DEF VendTypeOK, LedgerTypeOK, BillFirst
  <1>3. CASE SessionStart
    BY <1>3 DEF SessionStart, VendTypeOK, CreditTypeOK, LedgerTypeOK
  <1>4. CASE BillRunning
    BY <1>4, Billed DEF VendTypeOK, CreditTypeOK, LedgerTypeOK,
       BillRunning, BillDue
  <1>5. CASE BillWaiting
    BY <1>5, Billed DEF VendTypeOK, LedgerTypeOK, BillWaiting
  <1>6. CASE SessionEnd
    <2>1. /\ books \in Books
          /\ books.queue \in Seq(Nat)
          /\ books.open \in Nat
      BY DEF VendTypeOK, LedgerTypeOK, Books
    <2>2. Append(books.queue, books.open) \in Seq(Nat)
      BY <2>1
    <2>3. /\ books.droppedRows + 1 \in Nat
          /\ books.dropped + books.open \in Nat
      BY <2>1 DEF Books
    <2>4. [books EXCEPT !.queue = Append(@, books.open), !.open = 0]
             \in Books
      BY <2>1, <2>2 DEF Books
    <2>5. [books EXCEPT !.droppedRows = @ + 1,
                        !.dropped = @ + books.open, !.open = 0] \in Books
      BY <2>1, <2>3 DEF Books
    <2>6. books' \in Books
      BY <1>6, <2>1, <2>4, <2>5 DEF CloseBooks, SessionEnd
    <2>7. sessions + 1 \in Nat
      BY DEF VendTypeOK, LedgerTypeOK
    <2>8. sessions' \in Nat
      BY <1>6, <2>7, Zenon DEF VendTypeOK, LedgerTypeOK, SessionEnd
    <2> QED
      BY <1>6, <2>6, <2>8 DEF VendTypeOK, LedgerTypeOK, SessionEnd
  <1>7. CASE WriteRow
    <2>1. books.queue \in Seq(Nat) /\ books.queue # <<>>
      BY <1>7 DEF VendTypeOK, LedgerTypeOK, Books, WriteRow
    <2>2. Tail(books.queue) \in Seq(Nat) /\ Head(books.queue) \in Nat
      BY <2>1
    <2>3. /\ books \in Books
          /\ books.rows + 1 \in Nat
          /\ books.written + Head(books.queue) \in Nat
      BY <2>2 DEF VendTypeOK, LedgerTypeOK, Books
    <2>4. books' = [books EXCEPT
             !.queue = Tail(books.queue), !.rows = books.rows + 1,
             !.written = books.written + Head(books.queue)]
      BY <1>7 DEF WriteRow
    <2>5. books' \in Books
      BY <2>2, <2>3, <2>4 DEF Books
    <2> QED
      BY <1>7, <2>5 DEF VendTypeOK, LedgerTypeOK, WriteRow
  <1>8. CASE Reset
    <2>1. <<>> \in Seq(Nat)
      OBVIOUS
    <2>2. books' \in Books
      BY <1>8, <2>1 DEF VendTypeOK, LedgerTypeOK, Books, Reset
    <2> QED
      BY <1>8, <2>2 DEF VendTypeOK, CoinsTypeOK, LedgerTypeOK, Reset
  <1> QED
    BY <1>1, <1>2, <1>3, <1>4, <1>5, <1>6, <1>7, <1>8
       DEF Next, AppNext, EnvNext, IdleNext, ConfigNext, TestNext,
       SessionNext, WaitNext

-----------------------------------------------------------------------------
(* Money.                                                                  *)

(* A step that moves neither the total, nor what was billed or lost, nor   *)
(* what was banked.                                                        *)
LEMMA MoneyFrame ==
    ASSUME MoneyConserved, UNCHANGED <<value, spent, lost, banked>>
    PROVE  MoneyConserved'
BY DEF MoneyConserved, TotalBanked

(* Money is conserved by every step.                                       *)
LEMMA MoneyStep ==
    ASSUME MoneyInv, Next
    PROVE  MoneyConserved'
  <1> USE DEF MoneyInv
  <1>1. CASE UNCHANGED <<value, spent, lost, banked>>
    BY <1>1, MoneyFrame
  <1>2. CASE AcceptPulse /\ UNCHANGED vendVars
    <2>1. CASE capture
      BY <1>2, <2>1, MoneyFrame DEF AcceptPulse, vendVars, ledgerVars
    <2>2. CASE ~capture
      <3>1. value' = value + unitPrice /\ spent' = spent /\ lost' = lost
        BY <1>2, <2>2 DEF AcceptPulse, vendVars, ledgerVars
      <3>2. TotalBanked' = TotalBanked + unitPrice
        BY <1>2, <2>2
           DEF AcceptPulse, TotalBanked, VendTypeOK, CoinsTypeOK, Owners
      <3> QED
        BY <3>1, <3>2
           DEF MoneyConserved, VendTypeOK, CoinsTypeOK, LedgerTypeOK
    <2> QED
      BY <2>1, <2>2
  <1>3. CASE BillFirst \/ BillRunning \/ BillWaiting
    <2> DEFINE cost == due * cfg.price
    <2>1. BillDue /\ cost <= value
      BY <1>3 DEF BillFirst, BillRunning, BillWaiting, BillingCovered, Billing
    <2>2. /\ cost \in Nat
          /\ value' = value - cost
          /\ spent' = spent + cost
          /\ UNCHANGED <<lost, banked>>
      BY <2>1, Billed
    <2> HIDE DEF cost
    <2> QED
      BY <2>2 DEF MoneyConserved, TotalBanked, VendTypeOK, CoinsTypeOK,
         LedgerTypeOK
  <1>4. CASE Reset
    BY <1>4 DEF Reset, CoinsReset, MoneyConserved, TotalBanked, VendTypeOK,
       CoinsTypeOK, LedgerTypeOK
  <1>5. CASE InsertCoin \/ MissPulse \/ (RecordTally /\ UNCHANGED vendVars)
             \/ LoopFlush
    BY <1>5, MoneyFrame DEF InsertCoin, DropCoin, MissPulse, RecordTally,
       LoopFlush, FlushCounters, bankVars, vendVars, ledgerVars
  <1>6. CASE WriteRow \/ RaiseRequest \/ DriveRelay \/ IdleNext \/ PowerOn
    BY <1>6, MoneyFrame DEF WriteRow, RaiseRequest, DriveRelay, IdleNext,
       PowerOn, IdlePoll, EnterTestMode, EnterConfig, PressStart, AutoStart,
       InactivityStart, StayIdle, Decide, coinVars, bankVars, ledgerVars
  <1>7. CASE ConfigNext \/ TestNext \/ SessionEnd
    BY <1>7, SessionEndMeter, MoneyFrame DEF ConfigNext, ConfigEnter,
       ConfigLeave, TestNext, TestEnter, TestCapture, TestService, TestStay,
       TestExit, TestReopen, SessionEnd, coinVars, bankVars, ledgerVars
  <1>8. CASE CoinValidate \/ SessionEnter \/ SessionStart \/ SessionIterate
             \/ SessionSense \/ SessionTick \/ SessionStop \/ SessionReturn
    BY <1>8, MoneyFrame DEF CoinValidate, SessionEnter, SessionStart,
       SessionIterate, SessionSense, SessionTick, SessionStop, SessionReturn,
       coinVars, bankVars, ledgerVars
  <1>9. CASE WaitPoll \/ NextCreditPressed \/ NextCreditTimeout \/ KeepWaiting
    BY <1>9, MoneyFrame DEF WaitPoll, NextCreditPressed, NextCreditTimeout,
       KeepWaiting, DecideWait, coinVars, bankVars, ledgerVars
  <1> QED
    BY <1>2, <1>3, <1>4, <1>5, <1>6, <1>7, <1>8, <1>9
       DEF Next, AppNext, EnvNext, SessionNext, WaitNext, CoinTask

(* A step that leaves the application task where it is, between the read   *)
(* of the money and its billing, never takes money away from it.           *)
LEMMA CoverFrame ==
    ASSUME VendTypeOK, BillingCovered, UNCHANGED <<pc, due, cfg>>,
           value' \in Nat, value <= value'
    PROVE  BillingCovered'
  <1> DEFINE cost == due * cfg.price
  <1>1. cost \in Nat /\ value \in Nat
    BY ConfigNumbers, NatProduct
       DEF VendTypeOK, CoinsTypeOK, ControlTypeOK, CreditTypeOK
  <1>2. cost' = cost
    OBVIOUS
  <1>3. Billing => cost <= value
    BY DEF BillingCovered
  <1> HIDE DEF cost
  <1>4. Billing => cost' <= value'
    BY <1>1, <1>2, <1>3
  <1> QED
    BY <1>4 DEF BillingCovered, Billing, cost

(* What is about to be billed is always there to be taken: the only steps  *)
(* that reach a billing place have just counted the credits, and until the *)
(* bill only the coin task can move the total, upwards.                    *)
LEMMA CoverStep ==
    ASSUME MoneyInv, Next
    PROVE  BillingCovered'
  <1> USE DEF MoneyInv
  <1>1. CASE CoinValidate \/ SessionIterate \/ SessionTick \/ WaitPoll
    <2>1. cfg' = cfg /\ value' = value
      BY <1>1 DEF CoinValidate, SessionIterate, SessionTick, WaitPoll,
         coinVars, bankVars
    <2>2. Billing' => ReadMoney
      BY <1>1 DEF CoinValidate, SessionIterate, SessionTick, WaitPoll, Billing
    <2> QED
      BY <2>1, <2>2, MoneyRead DEF BillingCovered
  <1>2. CASE CoinTask
    <2>1. value' \in Nat /\ value <= value'
      BY <1>2 DEF CoinTask, AcceptPulse, RecordTally, bankVars, VendTypeOK,
         CoinsTypeOK
    <2> QED
      BY <1>2, <2>1, CoverFrame DEF CoinTask, vendVars, creditVars
  <1>3. CASE InsertCoin \/ MissPulse \/ LoopFlush \/ WriteRow \/ RaiseRequest
             \/ DriveRelay
    <2>1. value' = value /\ value \in Nat /\ UNCHANGED <<pc, due, cfg>>
      BY <1>3 DEF InsertCoin, DropCoin, MissPulse, LoopFlush, FlushCounters,
         WriteRow, RaiseRequest, DriveRelay, coinVars, bankVars, vendVars,
         creditVars, VendTypeOK, CoinsTypeOK
    <2> QED
      BY <2>1, CoverFrame
  <1>4. CASE PowerOn \/ IdleNext \/ ConfigNext \/ TestNext \/ SessionEnd
             \/ Reset
    <2>1. ~Billing'
      BY <1>4 DEF PowerOn, IdleNext, IdlePoll, EnterTestMode, EnterConfig,
         PressStart, AutoStart, InactivityStart, StayIdle, Decide, ConfigNext,
         ConfigEnter, ConfigLeave, TestNext, TestEnter, TestCapture,
         TestService, TestStay, TestExit, TestReopen, SessionEnd, Reset,
         Billing
    <2> QED
      BY <2>1 DEF BillingCovered
  <1>5. CASE BillFirst \/ SessionEnter \/ SessionStart \/ SessionSense
             \/ BillRunning \/ SessionStop \/ SessionReturn \/ BillWaiting
             \/ NextCreditPressed \/ NextCreditTimeout \/ KeepWaiting
    <2>1. ~Billing'
      BY <1>5 DEF BillFirst, SessionEnter, SessionStart, SessionSense,
         BillRunning, SessionStop, SessionReturn, BillWaiting,
         NextCreditPressed, NextCreditTimeout, KeepWaiting, DecideWait,
         Billing
    <2> QED
      BY <2>1 DEF BillingCovered
  <1> QED
    BY <1>1, <1>2, <1>3, <1>4, <1>5
       DEF Next, AppNext, EnvNext, SessionNext, WaitNext

(* A step that leaves the meter's variables and the banked totals alone.   *)
LEMMA MeterFrame ==
    ASSUME MeterMatchesTakings, UNCHANGED <<banked, tally, lifetime, saved, unmetered>>
    PROVE  MeterMatchesTakings'
BY DEF MeterMatchesTakings, TotalBanked

(* The meter's ledger survives every step, a lock timeout and a reset      *)
(* between the pulse and its record included.                              *)
LEMMA MeterStep ==
    ASSUME VendTypeOK, MeterMatchesTakings, Next
    PROVE  MeterMatchesTakings'
  <1>1. CASE AcceptPulse /\ UNCHANGED vendVars
    <2>1. CASE capture
      BY <1>1, <2>1 DEF AcceptPulse, NoTally, MeterMatchesTakings, TotalBanked
    <2>2. CASE ~capture
      <3>1. TotalBanked' = TotalBanked + unitPrice
        BY <1>1, <2>2
           DEF AcceptPulse, TotalBanked, VendTypeOK, CoinsTypeOK, Owners
      <3>2. /\ tally = NoTally
            /\ tally' = [kind |-> "coin", cents |-> unitPrice]
            /\ UNCHANGED <<lifetime, saved, unmetered>>
        BY <1>1, <2>2 DEF AcceptPulse
      <3> QED
        BY <3>1, <3>2 DEF MeterMatchesTakings, NoTally, VendTypeOK, CoinsTypeOK
    <2> QED
      BY <2>1, <2>2
  <1>2. CASE RecordTally /\ UNCHANGED vendVars
    <2>1. PICK held \in LockOutcomes :
             /\ lifetime' = lifetime
                    + (IF held /\ tally.kind = "coin" THEN tally.cents ELSE 0)
             /\ unmetered' = unmetered
                    + (IF ~held /\ tally.kind = "coin" THEN tally.cents ELSE 0)
      BY <1>2 DEF RecordTally
    <2>2. held \in BOOLEAN /\ tally.cents \in Nat
      BY CoinsAssumption DEF VendTypeOK, CoinsTypeOK, Tallies
    <2>3. tally' = NoTally /\ UNCHANGED banked /\ saved' \in {saved, lifetime}
      BY <1>2 DEF RecordTally, MayRollDay, bankVars
    <2>4. CASE tally.kind = "coin" /\ held
      BY <2>1, <2>2, <2>3, <2>4 DEF MeterMatchesTakings, TotalBanked, NoTally,
         VendTypeOK, CoinsTypeOK
    <2>5. CASE tally.kind = "coin" /\ ~held
      BY <2>1, <2>2, <2>3, <2>5 DEF MeterMatchesTakings, TotalBanked, NoTally,
         VendTypeOK, CoinsTypeOK
    <2>6. CASE tally.kind # "coin"
      BY <2>1, <2>3, <2>6 DEF MeterMatchesTakings, TotalBanked, NoTally,
         VendTypeOK, CoinsTypeOK
    <2> QED
      BY <2>2, <2>4, <2>5, <2>6
  <1>3. CASE LoopFlush
    BY <1>3 DEF LoopFlush, FlushCounters, bankVars, MeterMatchesTakings,
       TotalBanked, VendTypeOK, CoinsTypeOK
  <1>4. CASE Reset
    BY <1>4 DEF Reset, CoinsReset, NoTally, MeterMatchesTakings, TotalBanked,
       VendTypeOK, CoinsTypeOK, Tallies
  <1>5. CASE InsertCoin \/ MissPulse \/ WriteRow \/ RaiseRequest \/ DriveRelay
             \/ IdleNext \/ PowerOn
    BY <1>5, MeterFrame DEF InsertCoin, DropCoin, MissPulse, WriteRow,
       RaiseRequest, DriveRelay, IdleNext, PowerOn, IdlePoll, EnterTestMode,
       EnterConfig, PressStart, AutoStart, InactivityStart, StayIdle, Decide,
       coinVars, bankVars, meterVars
  <1>6. CASE ConfigNext \/ TestNext
    BY <1>6, MeterFrame DEF ConfigNext, ConfigEnter, ConfigLeave, TestNext,
       TestEnter, TestCapture, TestService, TestStay, TestExit, TestReopen,
       coinVars, bankVars, meterVars
  <1>7. CASE SessionNext
    BY <1>7, MeterFrame DEF SessionNext, CoinValidate, BillFirst, BillDue,
       SessionEnter, SessionStart, SessionIterate, SessionSense, SessionTick,
       BillRunning, SessionStop, SessionReturn, coinVars, bankVars, meterVars
  <1>8. CASE WaitNext
    BY <1>8, MeterFrame DEF WaitNext, WaitPoll, BillWaiting, BillDue,
       NextCreditPressed, NextCreditTimeout, KeepWaiting, DecideWait, coinVars,
       bankVars, meterVars
  <1>9. CASE SessionEnd
    BY <1>9, SessionEndMeter DEF bankVars, MeterMatchesTakings, TotalBanked,
       VendTypeOK, CoinsTypeOK
  <1> QED
    BY <1>1, <1>2, <1>3, <1>4, <1>5, <1>6, <1>7, <1>8, <1>9
       DEF Next, AppNext, EnvNext, CoinTask

-----------------------------------------------------------------------------
(* The inductive invariant and the theorems.                               *)

Inv == MoneyInv /\ MeterMatchesTakings

(* The invariant holds at power-on.                                        *)
LEMMA InitInv ==
    VendInit => Inv
  <1> SUFFICES ASSUME VendInit PROVE Inv
    OBVIOUS
  <1>1. banked \in [Owners -> Nat] /\ captured \in [Owners -> Nat]
    BY DEF VendInit, CoinsInit
  <1>2. tally \in Tallies /\ trainBy \in Owners
    BY DEF VendInit, CoinsInit, NoTally, Tallies, Owners
  <1>3. CoinsTypeOK
    BY <1>1, <1>2 DEF VendInit, CoinsInit, CoinsTypeOK
  <1>4. ControlTypeOK
    BY DEF VendInit, ControlTypeOK, Places, Published, NoRequest, Requested
  <1>5. CreditTypeOK
    BY DEF VendInit, CreditTypeOK, NoRun, Countdowns
  <1>6. LedgerTypeOK
    BY DEF VendInit, LedgerTypeOK, Books
  <1>7. TotalBanked = 0
    BY DEF VendInit, CoinsInit, TotalBanked, Owners
  <1>8. MoneyConserved /\ MeterMatchesTakings
    BY <1>7 DEF VendInit, CoinsInit, NoTally, MoneyConserved,
       MeterMatchesTakings
  <1>9. BillingCovered
    BY DEF VendInit, BillingCovered, Billing
  <1> QED
    BY <1>3, <1>4, <1>5, <1>6, <1>8, <1>9 DEF Inv, MoneyInv, VendTypeOK

(* Every step, and every stutter, preserves it.                            *)
LEMMA StepInv ==
    Inv /\ [Next]_vars => Inv'
  <1> SUFFICES ASSUME Inv, [Next]_vars PROVE Inv'
    OBVIOUS
  <1>1. CASE Next
    BY <1>1, CoinsTyped, ControlTyped, CreditTyped, LedgerTyped, MoneyStep,
       CoverStep, MeterStep DEF Inv, MoneyInv, VendTypeOK
  <1>2. CASE UNCHANGED vars
    <2>1. UNCHANGED coinVars /\ UNCHANGED vendVars
      BY <1>2 DEF vars
    <2>2. VendTypeOK'
      BY <2>1, CoinsFrame, VendFrame DEF Inv, MoneyInv, VendTypeOK
    <2>3. UNCHANGED <<pc, due, cfg, value, spent, lost, banked, tally,
                      lifetime, saved, unmetered>>
      BY <2>1 DEF coinVars, bankVars, meterVars, vendVars, creditVars,
         ledgerVars
    <2>4. BillingCovered'
      BY <2>3 DEF Inv, MoneyInv, BillingCovered, Billing
    <2> QED
      BY <2>2, <2>3, <2>4, MoneyFrame, MeterFrame DEF Inv, MoneyInv
  <1> QED
    BY <1>1, <1>2

(* Every variable of the vend machine keeps its type.                      *)
THEOREM TypeCorrect == Spec => []VendTypeOK
  <1>1. Inv => VendTypeOK
    BY DEF Inv, MoneyInv
  <1> QED
    BY <1>1, InitInv, StepInv, PTL DEF Spec

(* No centavo is created, forgotten or billed twice, in any interleaving   *)
(* of the coin task with the billing, for any configurations, any trains   *)
(* of pulses, any lock timeouts and any resets.                            *)
THEOREM MoneySafe == Spec => []MoneyConserved
  <1>1. Inv => MoneyConserved
    BY DEF Inv, MoneyInv
  <1> QED
    BY <1>1, InitInv, StepInv, PTL DEF Spec

(* The money counted at a read is still there when it is billed.           *)
THEOREM BillingSafe == Spec => []BillingCovered
  <1>1. Inv => BillingCovered
    BY DEF Inv, MoneyInv
  <1> QED
    BY <1>1, InitInv, StepInv, PTL DEF Spec

(* The operator's meter plus what it is known to have lost is the takings. *)
THEOREM MeterSafe == Spec => []MeterMatchesTakings
  <1>1. Inv => MeterMatchesTakings
    BY DEF Inv
  <1> QED
    BY <1>1, InitInv, StepInv, PTL DEF Spec

=============================================================================
