------------------------------- MODULE Coins -------------------------------
(***************************************************************************)
(* The money path of the board: the coin acceptor on COIN_IN, the coin     *)
(* slot inhibit line, the coin task that turns debounced pulses into       *)
(* centavos (src/periph.cpp), and the operator's meter that it records     *)
(* them into (src/counters.cpp).  The state machine that spends the money  *)
(* is module Vend, which extends this one.                                 *)
(*                                                                         *)
(* One physical coin is a TRAIN of pulses: the acceptor keeps emitting     *)
(* the rest of a train it has begun whatever happens to the inhibit line.  *)
(* A pulse is one step: the coin task has the highest priority of the      *)
(* tasks that touch these variables, reads s_coin_test_capture once, and   *)
(* the coin mutex covers the rest.  The call to the counters that follows  *)
(* is a step of its own, because the task blocks there while loop() holds  *)
(* the counters lock over a flash write.                                   *)
(***************************************************************************)
EXTENDS Integers

CONSTANTS
    TrainLengths,   \* pulses one physical coin may emit
    MaxCoins,       \* bound: physical coins inserted in a behaviour
    LockOutcomes    \* {TRUE}, or BOOLEAN when the 100 ms counters lock may time out

ASSUME CoinsAssumption ==
    /\ TrainLengths \subseteq Nat \ {0}
    /\ MaxCoins \in Nat
    /\ LockOutcomes \subseteq BOOLEAN
    /\ TRUE \in LockOutcomes

Owners == {"customer", "technician"}

VARIABLES
    slotOn,      \* s_coin_slot_on and the level of COIN_EN
    capture,     \* s_coin_test_capture
    unitPrice,   \* s_price_per_credit_cents: what one pulse is worth
    value,       \* s_coin_value_cents: money inserted and not yet billed
    train,       \* pulses the acceptor has still to emit for the coin in it
    trainBy,     \* whose coin that is
    coins,       \* physical coins inserted so far (bounded by MaxCoins)
    tally,       \* the pulse accepted but not yet recorded in the counters
    lifetime,    \* s_c.lifetime_amount in RAM
    saved,       \* the lifetime_amount last written to NVS
    testCents,   \* s_test_amount_cents
    banked,      \* history: centavos added to value, per owner of the coin
    captured,    \* history: centavos counted as test money, per owner
    unmetered    \* history: banked centavos the lifetime meter has lost

acceptorVars == <<train, trainBy, coins>>
bankVars     == <<unitPrice, value, banked, captured>>
meterVars    == <<tally, lifetime, saved, testCents, unmetered>>
coinVars     == <<slotOn, capture, acceptorVars, bankVars, meterVars>>

NoTally == [kind |-> "none", cents |-> 0]

Tallies == [kind : {"none", "coin", "test"}, cents : Nat]

CoinsTypeOK ==
    /\ slotOn \in BOOLEAN
    /\ capture \in BOOLEAN
    /\ unitPrice \in Nat
    /\ value \in Nat
    /\ train \in Nat
    /\ trainBy \in Owners
    /\ coins \in Nat
    /\ tally \in Tallies
    /\ lifetime \in Nat
    /\ saved \in Nat
    /\ testCents \in Nat
    /\ banked \in [Owners -> Nat]
    /\ captured \in [Owners -> Nat]
    /\ unmetered \in Nat

(* Power-on: the slot flag is initialised TRUE, every pulse is worth       *)
(* nothing until the application sets the price.                           *)
CoinsInit ==
    /\ slotOn = TRUE
    /\ capture = FALSE
    /\ unitPrice = 0
    /\ value = 0
    /\ train = 0
    /\ trainBy = "customer"
    /\ coins = 0
    /\ tally = NoTally
    /\ lifetime = 0
    /\ saved = 0
    /\ testCents = 0
    /\ banked = [o \in Owners |-> 0]
    /\ captured = [o \in Owners |-> 0]
    /\ unmetered = 0

-----------------------------------------------------------------------------
(* The acceptor and the coin task.                                         *)

(* A coin goes in.  The acceptor takes it only while it is not inhibited.  *)
DropCoin(who) ==
    /\ slotOn
    /\ train = 0
    /\ coins < MaxCoins
    /\ coins' = coins + 1
    /\ train' \in TrainLengths
    /\ trainBy' = who
    /\ UNCHANGED <<slotOn, capture, bankVars, meterVars>>

(* A debounced pulse: banked, or counted as a test pulse.                  *)
AcceptPulse ==
    /\ train > 0
    /\ tally = NoTally
    /\ train' = train - 1
    /\ \/ /\ ~capture
          /\ value' = value + unitPrice
          /\ banked' = [banked EXCEPT ![trainBy] = @ + unitPrice]
          /\ tally' = [kind |-> "coin", cents |-> unitPrice]
          /\ UNCHANGED captured
       \/ /\ capture
          /\ captured' = [captured EXCEPT ![trainBy] = @ + unitPrice]
          /\ tally' = [kind |-> "test", cents |-> unitPrice]
          /\ UNCHANGED <<value, banked>>
    /\ UNCHANGED <<slotOn, capture, trainBy, coins, unitPrice,
                   lifetime, saved, testCents, unmetered>>

(* counters_roll_day_locked: a new business day saves the meter at once.   *)
MayRollDay == saved' \in {saved, lifetime}

(* counters_record_coin, which rolls the day before it adds, and           *)
(* counters_record_test_coin: both return without a trace when the lock    *)
(* cannot be had in time.                                                  *)
RecordTally ==
    /\ tally # NoTally
    /\ tally' = NoTally
    /\ \E held \in LockOutcomes :
          /\ IF held /\ tally.kind = "coin" THEN MayRollDay ELSE UNCHANGED saved
          /\ lifetime' = lifetime
                 + (IF held /\ tally.kind = "coin" THEN tally.cents ELSE 0)
          /\ testCents' = testCents
                 + (IF held /\ tally.kind = "test" THEN tally.cents ELSE 0)
          /\ unmetered' = unmetered
                 + (IF ~held /\ tally.kind = "coin" THEN tally.cents ELSE 0)
    /\ UNCHANGED <<slotOn, capture, acceptorVars, bankVars>>

(* counters_service: loop() flushes the meter once it has been quiet.      *)
FlushCounters ==
    /\ saved # lifetime
    /\ saved' = lifetime
    /\ UNCHANGED <<slotOn, capture, acceptorVars, bankVars,
                   tally, lifetime, testCents, unmetered>>

-----------------------------------------------------------------------------
(* What the application does to the coin path.                             *)

(* Slip: the balance is cleared instead of reduced.                        *)
ConsumeAll(cents) == value' = 0

(* coin_consume_value_cents: never below zero.                             *)
ConsumeValue(cents) == value' = IF value > cents THEN value - cents ELSE 0

(* counters_reset_test_amount from the app task: the coin task, if it is   *)
(* waiting for the same lock, has priority and goes first.                 *)
ResetTestAmount ==
    \/ tally = NoTally /\ testCents' = 0
    \/ FALSE \in LockOutcomes /\ testCents' = testCents

(* Slip: the meter restarts from zero.                                     *)
CoinsResetForgetful ==
    /\ slotOn' = TRUE
    /\ capture' = FALSE
    /\ unitPrice' = 0
    /\ value' = 0
    /\ train' = 0
    /\ tally' = NoTally
    /\ lifetime' = 0
    /\ testCents' = 0
    /\ unmetered' = unmetered + (lifetime - saved)
           + (IF tally.kind = "coin" THEN tally.cents ELSE 0)
    /\ UNCHANGED <<trainBy, coins, saved, banked, captured>>

(* A reset of the board: RAM is gone, the meter restarts from NVS.         *)
CoinsReset ==
    /\ slotOn' = TRUE
    /\ capture' = FALSE
    /\ unitPrice' = 0
    /\ value' = 0
    /\ train' = 0
    /\ tally' = NoTally
    /\ lifetime' = saved
    /\ testCents' = 0
    /\ unmetered' = unmetered + (lifetime - saved)
           + (IF tally.kind = "coin" THEN tally.cents ELSE 0)
    /\ UNCHANGED <<trainBy, coins, saved, banked, captured>>

-----------------------------------------------------------------------------

TotalBanked == banked["customer"] + banked["technician"]

(* The operator's meter, as the BLE Live Counters report it, plus what is  *)
(* on its way to it and what a lock timeout or a reset has lost, is every  *)
(* centavo the machine ever banked, and NVS never runs ahead of RAM: the   *)
(* meter can lag behind the cash box and never exceeds it                  *)
(* (counters_record_coin, periph.cpp's coin task).                         *)
MeterMatchesTakings ==
    /\ TotalBanked = lifetime + unmetered
           + (IF tally.kind = "coin" THEN tally.cents ELSE 0)
    /\ saved <= lifetime

=============================================================================
