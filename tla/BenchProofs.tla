----------------------------- MODULE BenchProofs -----------------------------
(***************************************************************************)
(* The board with its real command path is a vend machine under requests   *)
(* at any delay, so what is proved of the machine holds of the board; and  *)
(* the relay that both may drive is never left on without an owner.  For   *)
(* every set of commands, mailbox and configurations.                      *)
(***************************************************************************)
EXTENDS Bench, PaidPeriodProofs

-----------------------------------------------------------------------------
(* Every step of the board is a step of the machine, or none.              *)

(* A request made by loop() is one that the machine takes from anywhere.   *)
LEMMA ActIsRequest == ActRequest => RaiseRequest
  <1> SUFFICES ASSUME ActRequest PROVE RaiseRequest
    OBVIOUS
  <1> DEFINE r == IF job.op \in {"enter", "leave", "enable", "inhibit"} THEN job.op
                  ELSE "led"
  <1>1. r \in Requests
    BY BenchAssumption DEF BenchRequests
  <1>2. req' = CASE r = "enter"   -> [req EXCEPT !.mode = "enter"]
                 [] r = "leave"   -> [req EXCEPT !.mode = "leave"]
                 [] r = "enable"  -> [req EXCEPT !.slot = "enable"]
                 [] r = "inhibit" -> [req EXCEPT !.slot = "inhibit"]
                 [] OTHER         -> [req EXCEPT !.led = TRUE]
    BY DEF ActRequest, Raised
  <1>3. /\ Yielded
        /\ UNCHANGED <<coinVars, pc, pub, cfg, relay, creditVars, entered, ledgerVars>>
    BY DEF ActRequest
  <1> HIDE DEF r
  <1> QED
    BY <1>1, <1>2, <1>3 DEF RaiseRequest

(* A pulse of the relay test is the machine's relay driven by another.     *)
LEMMA PulseIsDrive == PulseOn \/ PulseOff => DriveRelay
BY BenchAssumption DEF PulseOn, PulseOff, DriveRelay

LEMMA StepImplements == [BenchNext]_allVars => [Next]_vars
  <1> SUFFICES ASSUME [BenchNext]_allVars PROVE [Next]_vars
    OBVIOUS
  <1>1. CASE BleWrite \/ TakeCommand \/ CliCommand \/ CheckGate
    BY <1>1 DEF BleWrite, TakeCommand, CliCommand, CheckGate
  <1>2. CASE ActRequest \/ PulseOn \/ PulseOff
    BY <1>2, ActIsRequest, PulseIsDrive DEF Next, EnvNext
  <1>3. CASE AppStep \/ CoinStep \/ LoopChores \/ ResetAll
    BY <1>3 DEF AppStep, CoinStep, LoopChores, ResetAll, Next, EnvNext
  <1>4. CASE UNCHANGED allVars
    BY <1>4 DEF allVars
  <1> QED
    BY <1>1, <1>2, <1>3, <1>4 DEF BenchNext, LoopNext

(* What the application task sees of the commands of ble_command.cpp and   *)
(* of AT+TEST is a request or a relay write, at any delay: the board       *)
(* implements the vend machine.                                            *)
THEOREM BoardIsVend == BenchSpec => ImplementsVend
  <1>1. BenchInit => VendInit
    BY DEF BenchInit
  <1> QED
    BY <1>1, StepImplements, PTL DEF BenchSpec, ImplementsVend, Spec

(* The board keeps its books: with commands of ble_command.cpp and AT+TEST *)
(* at any moment money is conserved and billed once, every credit and row  *)
(* accounted for, the paid time granted, the slot open or closed as the    *)
(* state says and no paid period abandoned.                                *)
THEOREM BoardKeepsBooks ==
    BenchSpec => [](/\ MoneyConserved /\ BillingCovered /\ MeterMatchesTakings
                    /\ EveryCreditAccounted /\ BooksBalance /\ PaidTimeGranted
                    /\ SlotDiscipline /\ NeverAbandonsVend)
BY BoardIsVend, MoneySafe, BillingSafe, MeterSafe, CreditsSafe, BooksSafe, TimeSafe,
   SlotSafe, NothingAbandoned, PTL DEF ImplementsVend

-----------------------------------------------------------------------------
(* The relay and its two owners.                                           *)

Jobs == [op : Ops \cup {"none"}, at : {"done", "gate", "act", "pulse"}]

OwnerInv ==
    /\ cmds \in Seq(Ops)
    /\ job \in Jobs
    /\ RelayHasOwner

(* The application task alone never leaves the relay on outside a          *)
(* countdown: it turns it on as it enters one, and off as it leaves.       *)
LEMMA AppReleases ==
    ASSUME AppNext, relay', pc' \notin SessionLoop
    PROVE  relay /\ pc \notin SessionLoop
  <1>1. CASE PowerOn \/ TestEnter \/ TestExit \/ SessionStop \/ SessionEnd
    BY <1>1 DEF PowerOn, TestEnter, TestExit, SessionStop, SessionEnd
  <1>2. CASE IdleNext
    BY <1>2 DEF IdleNext, IdlePoll, EnterTestMode, EnterConfig, PressStart,
       AutoStart, InactivityStart, StayIdle, Decide, SessionLoop
  <1>3. CASE ConfigNext \/ TestCapture \/ TestService \/ TestStay \/ TestReopen
    BY <1>3 DEF ConfigNext, ConfigEnter, ConfigLeave, TestCapture, TestService,
       TestStay, TestReopen, SessionLoop
  <1>4. CASE CoinValidate \/ BillFirst \/ SessionEnter \/ SessionReturn \/ WaitNext
    BY <1>4 DEF CoinValidate, BillFirst, SessionEnter, SessionReturn, WaitNext,
       WaitPoll, BillWaiting, NextCreditPressed, NextCreditTimeout, KeepWaiting,
       DecideWait, SessionLoop
  <1>5. CASE SessionStart \/ SessionIterate \/ SessionSense \/ SessionTick \/ BillRunning
    BY <1>5 DEF SessionStart, SessionIterate, SessionSense, SessionTick, BillRunning,
       SessionLoop
  <1> QED
    BY <1>1, <1>2, <1>3, <1>4, <1>5 DEF AppNext, TestNext, SessionNext

LEMMA OwnerStep ==
    ASSUME OwnerInv, [BenchNext]_allVars
    PROVE  OwnerInv'
  <1> USE DEF OwnerInv
  <1>1. CASE BleWrite
    <2>1. cmds' \in Seq(Ops)
      BY <1>1 DEF BleWrite
    <2> QED
      BY <1>1, <2>1 DEF BleWrite, vars, vendVars, RelayHasOwner
  <1>2. CASE TakeCommand
    <2>1. cmds' \in Seq(Ops) /\ Head(cmds) \in Ops
      BY <1>2 DEF TakeCommand
    <2>2. job' \in Jobs /\ job.at # "pulse"
      BY <1>2, <2>1 DEF TakeCommand, LoopFree, NoJob, Jobs
    <2> QED
      BY <1>2, <2>1, <2>2 DEF TakeCommand, vars, vendVars, RelayHasOwner
  <1>3. CASE CliCommand
    <2>1. job' \in Jobs /\ job.at # "pulse" /\ cmds' = cmds
      BY <1>3 DEF CliCommand, LoopFree, NoJob, Jobs
    <2> QED
      BY <1>3, <2>1 DEF CliCommand, vars, vendVars, RelayHasOwner
  <1>4. CASE CheckGate
    <2>1. job' \in Jobs /\ job.at # "pulse" /\ cmds' = cmds
      BY <1>4 DEF CheckGate, NoJob, Jobs
    <2> QED
      BY <1>4, <2>1 DEF CheckGate, vars, vendVars, RelayHasOwner
  <1>5. CASE ActRequest
    <2>1. job' \in Jobs /\ job.at # "pulse" /\ UNCHANGED <<cmds, relay, pc>>
      BY <1>5 DEF ActRequest, NoJob, Jobs
    <2> QED
      BY <2>1 DEF RelayHasOwner
  <1>6. CASE PulseOn
    <2>1. job' \in Jobs /\ job'.at = "pulse" /\ cmds' = cmds
      BY <1>6 DEF PulseOn, Jobs
    <2> QED
      BY <2>1 DEF RelayHasOwner
  <1>7. CASE PulseOff
    <2>1. job' \in Jobs /\ ~relay' /\ cmds' = cmds
      BY <1>7 DEF PulseOff, NoJob, Jobs
    <2> QED
      BY <2>1 DEF RelayHasOwner
  <1>8. CASE AppStep
    BY <1>8, AppReleases DEF AppStep, RelayHasOwner
  <1>9. CASE CoinStep \/ LoopChores
    <2>1. UNCHANGED <<cmds, job, relay, pc>>
      BY <1>9 DEF CoinStep, LoopChores, InsertCoin, MissPulse, CoinTask, LoopFlush,
         WriteRow, cmdVars, vendVars
    <2> QED
      BY <2>1 DEF RelayHasOwner
  <1>10. CASE ResetAll
    <2>1. cmds' \in Seq(Ops) /\ job' \in Jobs /\ ~relay'
      BY <1>10 DEF ResetAll, Reset, NoJob, Jobs
    <2> QED
      BY <2>1 DEF RelayHasOwner
  <1>11. CASE UNCHANGED allVars
    BY <1>11 DEF allVars, cmdVars, vars, vendVars, RelayHasOwner
  <1> QED
    BY <1>1, <1>2, <1>3, <1>4, <1>5, <1>6, <1>7, <1>8, <1>9, <1>10, <1>11
       DEF BenchNext, LoopNext

(* The relay is on outside a countdown only while loop() is inside the     *)
(* pulse that will turn it off, whatever the two do in between             *)
(* (ble_command.h, "two owners on one GPIO").                              *)
THEOREM RelayOwned == BenchSpec => []RelayHasOwner
  <1>1. BenchInit => OwnerInv
    BY DEF BenchInit, VendInit, NoJob, Jobs, OwnerInv, RelayHasOwner
  <1>2. OwnerInv /\ [BenchNext]_allVars => OwnerInv'
    BY OwnerStep
  <1>3. OwnerInv => RelayHasOwner
    BY DEF OwnerInv
  <1> QED
    BY <1>1, <1>2, <1>3, PTL DEF BenchSpec

=============================================================================
