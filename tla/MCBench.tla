------------------------------ MODULE MCBench ------------------------------
(* Values of Bench's constants for TLC: one gated and one plain machine.    *)
EXTENDS Bench

Machine(mode, perCredit) ==
    [mode |-> mode, perCredit |-> perCredit, accumulation |-> FALSE,
     sensorStop |-> FALSE, inactivity |-> FALSE,
     price |-> 1, unit |-> 1, relayTicks |-> 1]

PlainMachine == {Machine("press", FALSE)}
Machines     == {Machine("press", FALSE), Machine("pause", TRUE)}

=============================================================================
