------------------------------ MODULE Buttons ------------------------------
(***************************************************************************)
(* The gesture recognisers of periph.cpp (START, BTN1, BTN2 and the hold   *)
(* of BTN1 and BTN2 together) and the loops of app.cpp that poll them.     *)
(*                                                                         *)
(* A recogniser is advanced by whoever polls it and stands still for as    *)
(* long as nobody does: START in a session, BTN1 and BTN2 outside the      *)
(* menu.  A contact is a level per sample: any level at any sample, so a   *)
(* bounce or a glitch of any length is a behaviour of this model.          *)
(***************************************************************************)
EXTENDS Naturals

CONSTANTS DbThresh,      \* BTN_DB_THRESH, samples
          LongTicks,     \* BTN_LONG_TICKS, samples of a long press
          RepeatDelay,   \* BTN_REPEAT_DELAY_TICKS
          RepeatAccel,   \* BTN_REPEAT_ACCEL_TICKS
          SlowCadence,   \* BTN_REPEAT_SLOW_TICKS
          FastCadence,   \* BTN_REPEAT_FAST_TICKS
          HoldRange,     \* values of the uint16_t hold counter of BTN1/BTN2
          Hands          \* what an operator may do: sets of sets of contacts closed at once

ASSUME ButtonsAssumption ==
    /\ DbThresh \in Nat \ {0, 1}
    /\ LongTicks \in Nat \ {0}
    /\ {RepeatDelay, RepeatAccel, SlowCadence, FastCadence} \subseteq Nat
    /\ HoldRange \in Nat \ {0}
    /\ Hands \subseteq SUBSET SUBSET {"START", "BTN1", "BTN2"}

VARIABLES start,    \* s_sb_*: the recogniser of START with its three one-shot flags
          combo,    \* s_btn12_*
          btn,      \* s_btn1, s_btn2
          screen,   \* which loop polls: "idle", "session" (START only),
                    \* "menu", "test", or "away" (none)
          press,    \* history of the press of START that is seen now
          both,     \* history of the hold of both buttons that is seen now
          hands,    \* history of BTN1 and BTN2 since both were last at rest
          contacts  \* the operator: the sets of contacts this one closes at once

gestureVars == <<start, combo, btn, screen, press, both, hands, contacts>>

-----------------------------------------------------------------------------
(* The recognisers.  A counter that is set before it is read again (db     *)
(* outside the debounces, hold outside a hold) is kept at zero.            *)

StartIdle == [state |-> "idle", db |-> 0, hold |-> 0,
              press |-> FALSE, short |-> FALSE, long |-> FALSE]
ComboIdle == [state |-> "idle", db |-> 0, hold |-> 0, long |-> FALSE]
BtnIdle   == [state |-> "idle", db |-> 0, hold |-> 0, rep |-> 0]

\* Slip: START auto-repeats like BTN1 and BTN2, so that a held button is pressed again.
SlipStartUpdate(m, low) ==
    CASE m.state = "held" /\ low ->
           [m EXCEPT !.state = "long_held", !.long = TRUE, !.press = TRUE]
      [] m.state = "debounce" /\ low /\ m.db + 1 >= DbThresh ->
           [m EXCEPT !.state = "held", !.db = 0, !.press = TRUE]
      [] m.state \in {"idle", "debounce"} /\ low ->
           [m EXCEPT !.state = "debounce", !.db = @ + 1]
      [] OTHER -> [m EXCEPT !.state = "idle", !.db = 0]

\* start_btn_update with one sample of the line
StartUpdate(m, low) ==
    CASE m.state = "idle" ->
           IF low THEN [m EXCEPT !.state = "debounce", !.db = 1] ELSE m
      [] m.state = "debounce" /\ low ->
           IF m.db + 1 >= DbThresh
           THEN [m EXCEPT !.state = "held", !.db = 0, !.press = TRUE]
           ELSE [m EXCEPT !.db = @ + 1]
      [] m.state = "debounce" /\ ~low -> [m EXCEPT !.state = "idle", !.db = 0]
      [] m.state = "held" /\ low ->
           IF m.hold + 1 >= LongTicks
           THEN [m EXCEPT !.state = "long_held", !.hold = 0, !.long = TRUE]
           ELSE [m EXCEPT !.hold = @ + 1]
      [] m.state = "held" /\ ~low ->
           [m EXCEPT !.state = "release", !.short = TRUE]
      [] m.state = "long_held" -> IF low THEN m ELSE [m EXCEPT !.state = "idle"]
      [] m.state = "release" /\ ~low ->
           IF m.db + 1 >= DbThresh
           THEN [m EXCEPT !.state = "idle", !.db = 0, !.hold = 0]
           ELSE [m EXCEPT !.db = @ + 1]
      [] m.state = "release" /\ low -> [m EXCEPT !.state = "held", !.db = 0]

\* start_button_flush
Flushed(m) == [m EXCEPT !.press = FALSE, !.short = FALSE, !.long = FALSE]

\* btn12_update with one sample of both lines
ComboUpdate(m, bothLow) ==
    CASE m.state = "idle" ->
           IF bothLow THEN [m EXCEPT !.state = "debounce", !.db = 1] ELSE m
      [] m.state = "debounce" /\ bothLow ->
           IF m.db + 1 >= DbThresh
           THEN [m EXCEPT !.state = "held", !.db = 0]
           ELSE [m EXCEPT !.db = @ + 1]
      [] m.state = "debounce" /\ ~bothLow -> [m EXCEPT !.state = "idle", !.db = 0]
      [] m.state = "held" /\ bothLow ->
           IF m.hold + 1 >= LongTicks
           THEN [m EXCEPT !.state = "long_held", !.hold = 0, !.long = TRUE]
           ELSE [m EXCEPT !.hold = @ + 1]
      [] m.state \in {"held", "long_held"} /\ ~bothLow -> ComboIdle
      [] m.state = "long_held" /\ bothLow -> m

\* The hold counter and the cadence of btn_simple_poll's auto-repeat
Held(m) == (m.hold + 1) % HoldRange
Cadence(m) ==
    IF Held(m) >= RepeatDelay + RepeatAccel THEN FastCadence ELSE SlowCadence
Repeats(m) == Held(m) >= RepeatDelay /\ m.rep + 1 >= Cadence(m)

\* btn_simple_poll(pin, b, true) with one sample of the line: the recogniser ...
BtnUpdate(m, low) ==
    CASE m.state = "idle" ->
           IF low THEN [m EXCEPT !.state = "debounce", !.db = 1] ELSE m
      [] m.state = "debounce" /\ low ->
           IF m.db + 1 >= DbThresh
           THEN [BtnIdle EXCEPT !.state = "held"]
           ELSE [m EXCEPT !.db = @ + 1]
      [] m.state = "debounce" /\ ~low -> [m EXCEPT !.state = "idle", !.db = 0]
      [] m.state = "held" /\ low ->
           [m EXCEPT !.hold = Held(m),
                     !.rep = IF Repeats(m) THEN 0
                             ELSE IF Held(m) >= RepeatDelay THEN @ + 1 ELSE @]
      [] m.state = "held" /\ ~low -> [m EXCEPT !.state = "release", !.db = 0]
      [] m.state = "release" /\ ~low ->
           IF m.db + 1 >= DbThresh THEN BtnIdle ELSE [m EXCEPT !.db = @ + 1]
      [] m.state = "release" /\ low -> [m EXCEPT !.state = "held", !.db = 0]

\* ... and whether it fired
BtnFired(m, low) ==
    /\ low
    /\ \/ m.state = "debounce" /\ m.db + 1 >= DbThresh
       \/ m.state = "held" /\ Repeats(m)

\* Slip: the check of the other button is left out.
SlipEdits(b, closed) == BtnFired(btn[b], b \in closed)

\* btn_b1_pressed / btn_b2_pressed: suppressed while the other button is down
Edits(b, closed) ==
    LET other == IF b = "BTN1" THEN "BTN2" ELSE "BTN1"
    IN  BtnFired(btn[b], b \in closed) /\ other \notin closed

-----------------------------------------------------------------------------
(* Histories.  A gesture is over when its contact has been open for as     *)
(* long as the release debounce takes: the sample that starts it and       *)
(* DbThresh more.  It is clean if it was never open for less than that.    *)

Quiet == DbThresh + 1
NoGesture  == [open |-> Quiet, clean |-> TRUE, acts |-> 0]
NewGesture == [open |-> 0, clean |-> TRUE, acts |-> 0]

Seen(g, closed) ==
    IF ~closed
    THEN [g EXCEPT !.open = IF @ < Quiet THEN @ + 1 ELSE @]
    ELSE IF g.open = Quiet THEN NewGesture
         ELSE [g EXCEPT !.open = 0, !.clean = @ /\ g.open = 0]

\* The gesture does something.  What nobody does at all counts twice.
Acts(g) == [g EXCEPT !.acts = IF g.open = Quiet \/ @ > 0 THEN 2 ELSE 1]

\* While nobody looks a gesture may be exchanged for another; one that ended unseen is
\* over when its contact has been seen open.
Unseen(g) == {g, NewGesture}

\* `lead' is the number of samples at which one button was down without the other.
AtRest  == [open |-> Quiet, lead |-> 0, edited |-> FALSE]
Unknown == [open |-> 0, lead |-> DbThresh, edited |-> FALSE]
SeenHands(closed, edited) ==
    LET down == {"BTN1", "BTN2"} \cap closed
        from == IF hands.open = Quiet THEN AtRest
                ELSE IF hands.open > 0 THEN Unknown ELSE hands
    IN  IF down = {}
        THEN [hands EXCEPT !.open = IF @ < Quiet THEN @ + 1 ELSE @]
        ELSE [open   |-> 0,
              lead   |-> IF down = {"BTN1", "BTN2"} \/ from.lead = DbThresh
                         THEN from.lead ELSE from.lead + 1,
              edited |-> from.edited \/ edited]

-----------------------------------------------------------------------------
(* The loops that poll.  `closed' is the set of contacts closed at the     *)
(* sample of this iteration.                                               *)

BothClosed(closed) == {"BTN1", "BTN2"} \subseteq closed

ButtonsInit ==
    /\ start = StartIdle
    /\ combo = ComboIdle
    /\ btn = [b \in {"BTN1", "BTN2"} |-> BtnIdle]
    /\ screen = "idle"
    /\ press = NoGesture
    /\ both = NoGesture
    /\ hands = AtRest
    /\ contacts \in Hands

\* btn_b1_b2_long_pressed: the sample is taken, the flag consumed
PollCombo(closed) == combo' = [ComboUpdate(combo, BothClosed(closed)) EXCEPT !.long = FALSE]
ComboFires(closed) == ComboUpdate(combo, BothClosed(closed)).long

\* The menu opens: config_menu_run discards what START has pending.  A press or a hold
\* that is still down counts from here on for the menu.
OpenMenu(closed) ==
    /\ screen' = "menu"
    /\ start' = Flushed(start)
    /\ \E g \in Unseen(press) : press' = [g EXCEPT !.acts = 0]
    /\ \E g \in Unseen(Acts(Seen(both, BothClosed(closed)))) : both' = g
    /\ hands' = Unknown

\* app_task_run, APP_STATE_IDLE: the combo first, START only if it did not fire; a session
\* may also start without a press
IdleCombo(closed) ==
    /\ screen = "idle" /\ ComboFires(closed)
    /\ PollCombo(closed)
    /\ OpenMenu(closed)
    /\ UNCHANGED btn

IdlePass(closed) ==
    LET s == StartUpdate(start, "START" \in closed)
        p == Seen(press, "START" \in closed)
    IN  /\ screen = "idle" /\ ~ComboFires(closed)
        /\ PollCombo(closed)
        /\ start' = [s EXCEPT !.press = FALSE]
        /\ both' = Seen(both, BothClosed(closed))
        /\ \/ /\ s.press
              /\ \E g \in Unseen(Acts(p)) : press' = g
              /\ screen' = "away"
           \/ /\ ~s.press
              /\ \E g \in Unseen(p) : press' = g
              /\ screen' = "away"
           \/ /\ ~s.press
              /\ press' = p
              /\ UNCHANGED screen
        /\ UNCHANGED <<btn, hands>>

\* A request to enter test mode, taken in IDLE: flags and a combo in the making are
\* discarded
EnterTest(closed) ==
    /\ screen = "idle"
    /\ screen' = "test"
    /\ start' = Flushed(start)
    /\ PollCombo(closed)
    /\ press' = [press EXCEPT !.acts = 0]
    /\ both' = Seen(both, BothClosed(closed))
    /\ UNCHANGED <<btn, hands>>

\* session_run in OP_PAUSE_RESUME, and APP_STATE_WAIT_NEXT_CREDIT: a press pauses, resumes
\* or goes on
SessionPass(closed) ==
    LET s == StartUpdate(start, "START" \in closed)
        p == Seen(press, "START" \in closed)
    IN  /\ screen = "session"
        /\ start' = [s EXCEPT !.press = FALSE]
        /\ press' = IF s.press THEN Acts(p) ELSE p
        /\ screen' \in {"session", "away"}
        /\ UNCHANGED <<combo, btn, both, hands>>

\* The task is back in a loop that polls.
Resume ==
    /\ screen = "away"
    /\ screen' \in {"idle", "session"}
    /\ \E g \in Unseen(press) : press' = g
    /\ \E g \in Unseen(both) : both' = g
    /\ UNCHANGED <<start, combo, btn, hands>>

\* APP_STATE_TEST_MODE: a press is counted, a combo or anything else may end it
TestPass(closed, over) ==
    LET s == StartUpdate(start, "START" \in closed)
        p == Seen(press, "START" \in closed)
        b == Seen(both, BothClosed(closed))
        exit == over \/ ComboFires(closed)
    IN  /\ screen = "test"
        /\ PollCombo(closed)
        /\ start' = IF exit THEN Flushed(s) ELSE [s EXCEPT !.press = FALSE]
        /\ press' = IF s.press THEN Acts(p) ELSE p
        /\ both' = IF ComboFires(closed) THEN Acts(b) ELSE b
        /\ screen' = IF exit THEN "idle" ELSE "test"
        /\ UNCHANGED <<btn, hands>>

\* What every iteration of config_menu_run begins with: the page's two buttons
EditPoll(closed) ==
    /\ screen = "menu"
    /\ btn' = [b \in {"BTN1", "BTN2"} |-> BtnUpdate(btn[b], b \in closed)]
    /\ hands' = SeenHands(closed, Edits("BTN1", closed) \/ Edits("BTN2", closed))
    /\ PollCombo(closed)

\* The combo saves and leaves; START has not been polled.
MenuSave(closed) ==
    /\ EditPoll(closed)
    /\ ComboFires(closed)
    /\ both' = Acts(Seen(both, BothClosed(closed)))
    /\ start' = Flushed(start)
    /\ screen' = "away"
    /\ UNCHANGED press

\* START held: cancel and leave.  START released: the next page.  Each of the two polls
\* advances the recogniser if a tick has passed since the last one, so that one iteration
\* may take a second sample, of its own level.
MenuPass(closed, again) ==
    LET s1 == StartUpdate(start, "START" \in closed)
        p1 == Seen(press, "START" \in closed)
        cancel == s1.long
        s2 == IF cancel \/ again = {} THEN s1 ELSE StartUpdate(s1, "START" \in again)
        p2 == IF cancel \/ again = {} THEN p1 ELSE Seen(p1, "START" \in again)
    IN  /\ EditPoll(closed)
        /\ ~ComboFires(closed)
        /\ both' = Seen(both, BothClosed(closed))
        /\ start' = IF cancel THEN Flushed(s2) ELSE [s2 EXCEPT !.short = FALSE]
        /\ press' = IF cancel \/ s2.short THEN Acts(p2) ELSE p2
        /\ screen' = IF cancel THEN "away" ELSE "menu"

\* A second sample within one iteration: of a closed contact, of an open one, or none
Samples == {{"START"}, {"none"}, {}}

ButtonsNext ==
    /\ \/ \E closed \in contacts :
             \/ IdleCombo(closed) \/ IdlePass(closed) \/ EnterTest(closed)
             \/ SessionPass(closed) \/ MenuSave(closed)
             \/ \E over \in BOOLEAN : TestPass(closed, over)
             \/ \E again \in Samples : MenuPass(closed, again)
       \/ Resume
    /\ UNCHANGED contacts

ButtonsSpec == ButtonsInit /\ [][ButtonsNext]_gestureVars

-----------------------------------------------------------------------------
(* Properties *)

\* One press of START, and one hold of both buttons, does one thing: however long it is
\* held, whatever loop it began in and whichever loop polls next, it does not start,
\* count, turn a page and cancel in turn, and no flag left over from an earlier press
\* acts once the contact is quiet (periph.cpp:517, app.cpp:191, app.cpp:383).  The
\* contact must not have flickered: see PressMeansOneThing.
OneGestureOneMeaning ==
    /\ press.clean => press.acts <= 1
    /\ both.clean => both.acts <= 1

\* The hold that saves commits the values that were on the page when the fingers came
\* down, if they came down within the debounce time of each other and rested before
\* (periph.cpp:459, "part of the combo and must not touch the value").
SavesWhatWasShown ==
    [][\A closed \in contacts :
         MenuSave(closed) /\ both.clean /\ hands.lead < DbThresh => ~hands'.edited]_gestureVars

\* "One machine serving all three is what guarantees a single press cannot mean two
\* things" (periph.cpp:517).  It does not: SHORT is raised by the first open sample of a
\* release, before the release is debounced, and the press then goes on counting.
PressMeansOneThing == press.acts <= 1

=============================================================================
