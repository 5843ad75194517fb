------------------------------ MODULE MCPanel ------------------------------
(* The three parts of the machine's front, one at a time: the stored       *)
(* configuration with its menu, the buttons, and the screen.  A behaviour  *)
(* is one of one part, and the others stand still: no state and no step    *)
(* is common to two of them.                                               *)
EXTENDS MCSettings, Buttons, Display

(* One operator uses START and the two buttons of the menu in turn, one    *)
(* lets the fingers on these two come and go at any time.                  *)
Operators == {{{}, {"START"}, {"BTN1", "BTN2"}},
              {{}, {"BTN1"}, {"BTN2"}, {"BTN1", "BTN2"}}}

VARIABLE part   \* the part this behaviour is of

panelVars == <<part, vars, gestureVars, displayVars>>

PanelInit ==
    /\ part \in {"settings", "buttons", "display"}
    /\ Init /\ (part # "settings" => stored = Blank)
    /\ ButtonsInit /\ (part # "buttons" => {"START"} \in contacts)
    /\ DisplayInit

PanelNext ==
    /\ \/ part = "settings" /\ Next        /\ UNCHANGED <<gestureVars, displayVars>>
       \/ part = "buttons"  /\ ButtonsNext /\ UNCHANGED <<vars, displayVars>>
       \/ part = "display"  /\ DisplayNext /\ UNCHANGED <<vars, gestureVars>>
    /\ UNCHANGED part

PanelSpec == PanelInit /\ [][PanelNext]_panelVars

=============================================================================
