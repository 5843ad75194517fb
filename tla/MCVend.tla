------------------------------- MODULE MCVend -------------------------------
(* Values of Vend's constants for TLC: every shape of AppConfig at a price  *)
(* of two pulses per credit, and smaller families of them.                  *)
EXTENDS Vend

Config(mode, perCredit, accumulation, sensorStop, inactivity) ==
    [mode |-> mode, perCredit |-> perCredit, accumulation |-> accumulation,
     sensorStop |-> sensorStop, inactivity |-> inactivity,
     price |-> 2, unit |-> 1, relayTicks |-> 2]

(* With the inactivity timeout set the machine can do all it does without. *)
AllConfigs ==
    {Config(m, p, a, s, TRUE) : m \in Modes, p \in BOOLEAN, a \in BOOLEAN,
                                s \in BOOLEAN}

(* The smallest machines: one pulse a credit, one tick a credit.  A gated  *)
(* one that takes coins in a session and between credits, a plain one that *)
(* does not.                                                               *)
Small(c) == [c EXCEPT !.price = 1, !.relayTicks = 1]

GatedConfig == Small(Config("press", TRUE, TRUE, FALSE, FALSE))
PlainConfig == Small(Config("press", FALSE, FALSE, FALSE, FALSE))

BenchConfigs == {GatedConfig, PlainConfig}

(* An Auto Start machine, and a gated one with the inactivity timeout.     *)
LiveConfigs == {Config("auto", FALSE, TRUE, FALSE, FALSE),
                Config("press", TRUE, TRUE, FALSE, TRUE)}

=============================================================================
