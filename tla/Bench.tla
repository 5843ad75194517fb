------------------------------- MODULE Bench -------------------------------
(***************************************************************************)
(* The bench commands of BLE characteristic f007 (src/ble_command.cpp) and *)
(* of AT+TEST (src/cli.cpp) on top of the vend machine.  The GATT callback *)
(* only queues; loop() takes one command per pass, looks at the state the  *)
(* application last published, and then acts.  Looking and acting are two  *)
(* steps: the application task has the higher priority and runs between    *)
(* them whenever its delay expires.  loop() is one thread: while it is in  *)
(* the 500 ms of a relay pulse it neither flushes nor writes rows.         *)
(***************************************************************************)
EXTENDS Vend

CONSTANTS
    Ops,           \* the commands in play: a subset of AllOps
    CmdDepth,      \* CMD_QUEUE_DEPTH
    MaxCommands    \* bound: commands sent in a behaviour

AllOps == {"relay", "led", "enter", "leave", "enable", "inhibit"}

ASSUME BenchAssumption ==
    /\ Ops \subseteq AllOps
    /\ CmdDepth \in Nat
    /\ MaxCommands \in Nat
    /\ Requests = BenchRequests
    /\ BenchRelay = TRUE

VARIABLES
    cmds,      \* the mailbox between the GATT callback and loop()
    job,       \* the command loop() is executing and how far it is
    sent       \* commands sent so far (bounded by MaxCommands)

cmdVars   == <<cmds, job, sent>>
allVars   == <<vars, cmdVars>>

NoJob == [op |-> "none", at |-> "done"]

BenchTypeOK ==
    /\ VendTypeOK
    /\ cmds \in Seq(Ops) /\ Len(cmds) <= CmdDepth
    /\ job \in [op : Ops \cup {"none"}, at : {"done", "gate", "act", "pulse"}]
    /\ sent \in 0..MaxCommands

BenchInit ==
    /\ VendInit
    /\ cmds = <<>>
    /\ job = NoJob
    /\ sent = 0

-----------------------------------------------------------------------------

(* CommandCallbacks::onWrite, on the BLE host task: queue it or drop it.   *)
BleWrite ==
    /\ sent < MaxCommands
    /\ sent' = sent + 1
    /\ \E op \in Ops :
          cmds' = IF Len(cmds) < CmdDepth THEN Append(cmds, op) ELSE cmds
    /\ UNCHANGED <<vars, job>>

(* loop() is free and gets the processor.                                  *)
LoopFree == Yielded /\ job = NoJob

(* ble_command_service: one command per pass of loop().                    *)
TakeCommand ==
    /\ LoopFree
    /\ cmds # <<>>
    /\ job' = [op |-> Head(cmds), at |-> "gate"]
    /\ cmds' = Tail(cmds)
    /\ UNCHANGED <<vars, sent>>

(* AT+TEST: the same requests, typed at the console loop() reads.          *)
CliCommand ==
    /\ LoopFree
    /\ sent < MaxCommands
    /\ sent' = sent + 1
    /\ \E op \in Ops \ {"relay", "led"} : job' = [op |-> op, at |-> "gate"]
    /\ UNCHANGED <<vars, cmds>>

(* app_test_mode_engaged.                                                  *)
Engaged == pub = "TEST_MODE" \/ req.mode = "enter"

(* app_state_allows_physical_op and the gates of the ops that have their   *)
(* own.                                                                    *)
GateOpen(op) ==
    CASE op \in {"relay", "led"}      -> pub \in {"IDLE", "TEST_MODE"}
      [] op = "enter"                 -> pub = "IDLE"
      [] op \in {"enable", "inhibit"} -> Engaged
      [] OTHER                        -> TRUE

(* Slip: a refused command waits for its gate.                             *)
CheckGateDeferring ==
    /\ Yielded
    /\ job.at = "gate"
    /\ GateOpen(job.op)
    /\ job' = [job EXCEPT !.at = "act"]
    /\ UNCHANGED <<vars, cmds, sent>>

(* The gate is read; a refused command is dropped.                         *)
CheckGate ==
    /\ Yielded
    /\ job.at = "gate"
    /\ job' = IF GateOpen(job.op) THEN [job EXCEPT !.at = "act"] ELSE NoJob
    /\ UNCHANGED <<vars, cmds, sent>>

(* The requests with the one of op made.                                   *)
Raised(op) ==
    CASE op = "enter"   -> [req EXCEPT !.mode = "enter"]
      [] op = "leave"   -> [req EXCEPT !.mode = "leave"]
      [] op = "enable"  -> [req EXCEPT !.slot = "enable"]
      [] op = "inhibit" -> [req EXCEPT !.slot = "inhibit"]
      [] OTHER          -> [req EXCEPT !.led = TRUE]

(* Slip: the coin slot is switched from loop() instead of being requested. *)
ActRequestDirect ==
    /\ Yielded
    /\ job.at = "act"
    /\ job.op # "relay"
    /\ IF job.op \in {"enable", "inhibit"}
       THEN slotOn' = (job.op = "enable") /\ UNCHANGED req
       ELSE req' = Raised(job.op) /\ UNCHANGED slotOn
    /\ job' = NoJob
    /\ UNCHANGED <<capture, acceptorVars, bankVars, meterVars, pc, pub, cfg,
                   relay, creditVars, entered, ledgerVars, cmds, sent>>

(* app_request_test_mode, app_request_test_coin_slot,                      *)
(* app_request_user_led_test: one word set for the application task.       *)
ActRequest ==
    /\ Yielded
    /\ job.at = "act"
    /\ job.op # "relay"
    /\ req' = Raised(job.op)
    /\ job' = NoJob
    /\ UNCHANGED <<coinVars, pc, pub, cfg, relay, creditVars, entered,
                   ledgerVars, cmds, sent>>

(* test_relay: on ...                                                      *)
PulseOn ==
    /\ Yielded
    /\ job.at = "act"
    /\ job.op = "relay"
    /\ relay' = TRUE
    /\ job' = [job EXCEPT !.at = "pulse"]
    /\ UNCHANGED <<coinVars, pc, pub, cfg, creditVars, benchVars, ledgerVars,
                   cmds, sent>>

(* Slip: the end of the pulse respects a board that is no longer idle.     *)
PulseOffIfIdle ==
    /\ Yielded
    /\ job.at = "pulse"
    /\ relay' = (relay /\ pub \notin {"IDLE", "TEST_MODE"})
    /\ job' = NoJob
    /\ UNCHANGED <<coinVars, pc, pub, cfg, creditVars, benchVars, ledgerVars,
                   cmds, sent>>

(* ... and off after CMD_RELAY_TEST_MS, whatever the application does now. *)
PulseOff ==
    /\ Yielded
    /\ job.at = "pulse"
    /\ relay' = FALSE
    /\ job' = NoJob
    /\ UNCHANGED <<coinVars, pc, pub, cfg, creditVars, benchVars, ledgerVars,
                   cmds, sent>>

-----------------------------------------------------------------------------

LoopNext == TakeCommand \/ CliCommand \/ CheckGate \/ ActRequest
            \/ PulseOn \/ PulseOff

(* The application task and the coin path.                                 *)
AppStep ==
    /\ AppNext
    /\ UNCHANGED <<cmds, job, sent>>

CoinStep == (InsertCoin \/ MissPulse \/ CoinTask) /\ UNCHANGED cmdVars

LoopChores == job = NoJob /\ (LoopFlush \/ WriteRow) /\ UNCHANGED cmdVars

ResetAll == /\ Reset
            /\ cmds' = <<>>
            /\ job' = NoJob
            /\ UNCHANGED sent

BenchNext == BleWrite \/ LoopNext \/ AppStep \/ CoinStep \/ LoopChores
             \/ ResetAll

BenchSpec == BenchInit /\ [][BenchNext]_allVars

-----------------------------------------------------------------------------
(* What holds.                                                             *)

(* Seen from the application task the commands are nothing but the         *)
(* requests and the relay writes Vend allows for at any delay: Spec holds  *)
(* of every behaviour, with all that it implies.                           *)
ImplementsVend == Spec

(* The relay is never latched on with nobody responsible for turning it    *)
(* off (ble_command.h, "two owners on one GPIO"): outside a countdown it   *)
(* is on only while loop() is inside the pulse it will end.                *)
RelayHasOwner == relay /\ pc \notin SessionLoop => job.at = "pulse"

(* Every command is taken and finished: loop() is fair, and the pulse of a *)
(* test_relay ends.                                                        *)
BenchFairness ==
    /\ WF_allVars(AppStep /\ pc # "CONFIG_MENU")
    /\ WF_allVars(CoinStep /\ CoinTask)
    /\ SF_allVars(LoopNext /\ UNCHANGED sent)

FairBenchSpec == BenchSpec /\ BenchFairness

CommandsFinish == cmds # <<>> \/ job # NoJob ~> cmds = <<>> /\ job = NoJob

-----------------------------------------------------------------------------
(* What the documentation says and the interleavings refute.               *)

(* ble_command.h: "EVERY PHYSICAL OP IS GATED ON 'IS THIS BOARD            *)
(* VENDING?'": a paid countdown has the relay to itself.                   *)
PaidRelayUndisturbed == pc \in SessionLoop => relay = run.engaged

=============================================================================
