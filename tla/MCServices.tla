---------------------------- MODULE MCServices ----------------------------
(* The operator's figures, the clock chip, the fault mailbox and the       *)
(* arithmetic of the countdown, one at a time: a behaviour is one of one   *)
(* part, and the others stand still.  No state and no step is common to    *)
(* two of them.                                                            *)
EXTENDS Counters, RtcChip, Faults, Countdown

VARIABLE part   \* the part this behaviour is of

servicesVars == <<part, vars, clockVars, faultVars, countdownVars>>

ServicesInit ==
    /\ part \in {"counters", "chip", "faults", "countdown"}
    /\ Init          /\ (part # "counters"  => now = 0)
    /\ ClockInit     /\ (part # "chip"      => true = RtcMin)
    /\ FaultsInit    /\ (part # "faults"    => clockSet /\ raised = {})
    /\ CountdownInit /\ (part # "countdown" => counter = 0)

ServicesNext ==
    /\ \/ part = "counters"  /\ Next      /\ UNCHANGED <<clockVars, faultVars, countdownVars>>
       \/ part = "chip"      /\ ClockNext /\ UNCHANGED <<vars, faultVars, countdownVars>>
       \/ part = "faults"    /\ FaultsNext /\ UNCHANGED <<vars, clockVars, countdownVars>>
       \/ part = "countdown" /\ CountdownNext /\ UNCHANGED <<vars, clockVars, faultVars>>
    /\ UNCHANGED part

(* The fairness of Counters and of Faults, each where its part moves.      *)
ServicesFairness ==
    /\ WF_vars(part = "counters" /\ Service /\ cnt' # cnt)
    /\ WF_vars(part = "counters" /\ (TakeDirty \/ Build \/ SetValue \/ Notify))
    /\ WF_vars(part = "counters" /\ (ReadSetValue \/ ReadAnswer))
    /\ WF_faultVars(part = "faults" /\ LoopStep)
    /\ \A t \in {"coin", "app", "host"} : WF_faultVars(part = "faults" /\ RaiseStep(t))
    /\ WF_faultVars(part = "faults" /\ Answer)

ServicesSpec == ServicesInit /\ [][ServicesNext]_servicesVars /\ ServicesFairness

=============================================================================
