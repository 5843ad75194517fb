------------------------------ MODULE Display ------------------------------
(***************************************************************************)
(* The screen: the frames app.cpp and session.cpp post, the bounded queue  *)
(* that drops what does not fit, and the display task of display.cpp with  *)
(* its heartbeat, its throttle and its recovery of the I2C bus.            *)
(*                                                                         *)
(* A frame is its type and one value (money, seconds or a count); layout   *)
(* is left out.  Time passes in seconds.                                   *)
(***************************************************************************)
EXTENDS Integers, Sequences

CONSTANTS QueueDepth,   \* xQueueCreate(8, ...)
          Heartbeat,    \* seconds of silence after which the display task redraws
          StartBeep,    \* seconds buzzer_beep_session_start blocks the application task
          EndBeep,      \* seconds buzzer_beep_session_end blocks it
          DoneHold,     \* the pause after "COMPLETE!", 3 s
          Telling,      \* the types of the frames whose value is modelled
          Values,       \* what such a frame may tell, a set of natural numbers
          IdleTypes,    \* the idle screens in use: "idle", "ready", "idle_auto"
          MaxFaults     \* bound: disturbances of the bus

ASSUME DisplayAssumption ==
    /\ QueueDepth \in Nat \ {0}
    /\ Heartbeat \in Nat /\ Heartbeat > 2
    /\ IdleTypes \subseteq {"idle", "ready", "idle_auto"}
    /\ {StartBeep, EndBeep, DoneHold, MaxFaults} \subseteq Nat
    /\ Values \subseteq Nat

VARIABLES task,    \* where the application task is, seconds since it entered or last posted
                   \* there, and seconds in a beep or its pause since it last posted anywhere
          queue,   \* s_disp_queue
          wanted,  \* history: the frame posted last
          lost,    \* history: a frame found the queue full since a session was last ended
          busy,    \* the display task is not waiting for a frame (a slow or stalled bus)
          waited,  \* seconds it has waited in xQueueReceive
          lcd,     \* s_lcd_*, s_session_last_secs, the bus and what is on the panel
          memo,    \* s_idle_*, s_test_*: what the heartbeat redraws
          overslept,  \* history: a beep outlasted the heartbeat, which drew, and no frame
                      \* but the second drawn last came after it
          faults   \* disturbances so far

displayVars == <<task, queue, wanted, lost, busy, waited, lcd, memo, overslept, faults>>

Frame(type, value) == [type |-> type, value |-> value]
BlankPanel == Frame("blank", 0)
Garbled    == Frame("garbled", 0)
NoSecond   == -1     \* UINT32_MAX in s_session_last_secs

\* lcd_render_ready is lcd_render_idle.
Look(f) == IF f.type = "ready" THEN [f EXCEPT !.type = "idle"] ELSE f

-----------------------------------------------------------------------------
(* The panel and the bus, as functions of the record lcd.                  *)

\* The drawing routines and lcd_send under them: a write with the bus down or held is
\* refused and counted; a controller out of step shows garbage.
Render(l, f) ==
    IF ~l.wire \/ l.stuck THEN [l EXCEPT !.nak = TRUE]
    ELSE [l EXCEPT !.shows = IF l.sync THEN Look(f) ELSE Garbled]

\* lcd_reinit: back in step, and cleared
Reinit(l) ==
    IF ~l.wire \/ l.stuck THEN [l EXCEPT !.nak = TRUE]
    ELSE [l EXCEPT !.sync = TRUE, !.shows = BlankPanel]

\* lcd_hw_init with lcd_init: the panel answers unless the bus is held
HwInit(l) ==
    LET up == [l EXCEPT !.wire = TRUE, !.ok = ~l.stuck, !.nak = FALSE,
                        !.last = NoSecond, !.fails = 0]
    IN  IF l.stuck THEN up ELSE Reinit(up)

\* i2c_bus_unlock: Wire is ended; the clock pulses free a held line, or they do not
Unlock(l, freed) == [l EXCEPT !.wire = FALSE, !.stuck = @ /\ ~freed]

\* i2c_needs_recovery
NeedsRecovery(l) == l.stuck \/ l.nak

\* i2c_recover_and_reinit: a failure leaves Wire ended
Recover(l, freed) ==
    LET u == Unlock(l, freed)
    IN  IF u.stuck
        THEN [u EXCEPT !.fails = @ + 1, !.ok = @ /\ l.fails + 1 < 3]
        ELSE HwInit(u)

\* lcd_health_check
HealthCheck(l, freed) ==
    IF l.ok /\ NeedsRecovery(l)
    THEN Recover(IF l.stuck THEN l ELSE [l EXCEPT !.nak = FALSE], freed)
    ELSE l

\* lcd_render_session: the same second is not drawn again
RenderSession(l, f) ==
    IF f.value = l.last THEN l ELSE Render([l EXCEPT !.last = f.value], f)

\* Slip: the redraw after a recovery is not forced.
SlipSessionRecover(l, freed) ==
    Reinit([Unlock(l, freed) EXCEPT !.wire = TRUE, !.nak = FALSE])

\* i2c_session_recover, lcd_reinit and the forced redraw of the session path
SessionRecover(l, freed) ==
    Reinit([Unlock(l, freed) EXCEPT !.wire = TRUE, !.nak = FALSE, !.last = NoSecond])

-----------------------------------------------------------------------------
(* The application task's side *)

DisplayInit ==
    /\ task = [at |-> "boot", since |-> 0, beeped |-> 0]
    /\ queue = <<Frame("boot", 0)>>
    /\ wanted = Frame("boot", 0)
    /\ lost = FALSE
    /\ busy = FALSE
    /\ waited = 0
    /\ lcd = [ok |-> FALSE, started |-> FALSE, fails |-> 0, last |-> NoSecond,
              wire |-> FALSE, nak |-> FALSE, stuck |-> FALSE, sync |-> TRUE,
              shows |-> BlankPanel]
    /\ memo = [idle |-> Frame("idle", 0), test |-> FALSE, banner |-> BlankPanel]
    /\ overslept = FALSE
    /\ faults = 0

\* The screens after which a session draws its header again
EndsSession == {"idle", "idle_auto", "done", "denied", "next_credit"}

\* disp_post: dropped if the queue is full
Post(f) ==
    /\ wanted' = f
    /\ lost' = (Len(queue) = QueueDepth \/ (lost /\ f.type \notin EndsSession))
    /\ queue' = IF Len(queue) = QueueDepth THEN queue ELSE Append(queue, f)

Go(at) == task' = [at |-> at, since |-> 0, beeped |-> 0]

FramesOf(types) == [type : types \cap Telling, value : Values]
                 \cup [type : types \ Telling, value : {0}]

\* The states of app.cpp and session.cpp by the frames they post: what a state posts when
\* it is entered, and again within a second or whenever its value changes
Shows(at) ==
    CASE at = "boot"     -> {"boot"}
      [] at = "idle"     -> IdleTypes
      [] at = "denied"   -> {"denied"}
      [] at \in {"starting", "running"} -> {"session"}
      [] at = "ended"    -> {"done"}
      [] at = "waiting"  -> {"next_credit"}
      [] at = "menu"     -> {"config"}
      [] at = "test"     -> {"test"}

Follows ==
    [boot |-> {"idle"}, idle |-> {"denied", "starting", "menu", "test"},
     denied |-> {"idle"}, starting |-> {"running"}, running |-> {"ended"},
     ended |-> {"waiting", "idle"}, waiting |-> {"starting"},
     menu |-> {"idle"}, test |-> {"idle"}]

\* On to the next state, with its first frame.  The countdown begins without one.
Enter(at) ==
    /\ at \in Follows[task.at]
    /\ IF at = "running"
       THEN task' = [task EXCEPT !.at = at, !.since = 0] /\ UNCHANGED <<queue, wanted, lost>>
       ELSE Go(at) /\ \E f \in FramesOf(Shows(at)) : Post(f)
    /\ UNCHANGED <<busy, waited, lcd, memo, overslept, faults>>

\* A new value, or the repost of the menu, of WAIT_NEXT_CREDIT and of the countdown
Repost ==
    /\ task.at \in {"idle", "running", "waiting", "menu", "test"}
    /\ Go(task.at)
    /\ \E f \in FramesOf(Shows(task.at)) : Post(f)
    /\ UNCHANGED <<busy, waited, lcd, memo, overslept, faults>>

\* Where a beep, or the pause after it, blocks the application task: up to ten times a beep
\* and a gap of five seconds each (ble_config.cpp:177)
Beeping == {"starting", "ended"}

\* IDLE and test mode post on a change only.  How long any other state may go without a
\* frame: the splash, the beeps, the pause after "COMPLETE!", the repost.
OnChange == {"idle", "test"}
Patience(at) ==
    CASE at = "boot" -> 2
      [] at = "starting" -> StartBeep
      [] at = "ended" -> EndBeep + DoneHold
      [] at \in {"denied", "running", "waiting", "menu"} -> 1

\* A second passes.  A display task that waits takes a frame at once.
Second ==
    /\ task.at \notin OnChange => task.since < Patience(task.at)
    /\ busy \/ (queue = <<>> /\ waited < Heartbeat)
    /\ task' = [task EXCEPT !.since = IF task.at \in OnChange THEN 0 ELSE @ + 1,
                            !.beeped = IF task.at \in Beeping THEN @ + 1 ELSE @]
    /\ waited' = IF busy THEN 0 ELSE waited + 1
    /\ UNCHANGED <<queue, wanted, lost, busy, lcd, memo, overslept, faults>>

-----------------------------------------------------------------------------
(* The display task *)

\* What the heartbeat will redraw: test mode is remembered of every frame, an idle screen
\* only when it has been drawn
Remembered(f, drawn) ==
    [idle   |-> IF drawn /\ f.type \in IdleTypes THEN f ELSE memo.idle,
     test   |-> f.type = "test",
     banner |-> IF f.type = "test" THEN f ELSE BlankPanel]   \* not drawn any more

\* display_task_run, a frame received: the lazy initialisation, then the session path, or
\* recovery (of a disabled panel on an idle frame), health check and drawing
TakeFrame(freed) ==
    LET f  == Head(queue)
        l0 == IF lcd.started THEN lcd ELSE HwInit([lcd EXCEPT !.started = TRUE])
        l1 == IF f.type \in EndsSession THEN [l0 EXCEPT !.last = NoSecond] ELSE l0
        l2 == IF f.type \in {"idle", "idle_auto"} /\ ~l1.ok
              THEN Recover([l1 EXCEPT !.fails = 0], freed) ELSE l1
        l3 == HealthCheck(l2, freed)
        l4 == IF f.type = "done" THEN Reinit(l3) ELSE l3
    IN  /\ ~busy /\ queue # <<>>
        /\ queue' = Tail(queue)
        /\ \/ /\ f.type = "session"
              /\ lcd' = IF ~l1.ok THEN l1
                        ELSE RenderSession(IF NeedsRecovery(l1)
                                           THEN SessionRecover(l1, freed) ELSE l1, f)
              /\ memo' = Remembered(f, FALSE)
           \/ /\ f.type # "session"
              /\ lcd' = IF l3.ok THEN Render(l4, f) ELSE l3
              /\ memo' = Remembered(f, l3.ok)
        /\ waited' = 0
        /\ busy' \in BOOLEAN
        /\ overslept' = (overslept /\ f = Frame("session", lcd.last))
        /\ UNCHANGED <<task, wanted, lost, faults>>

\* A slow draw is over.
Finish ==
    /\ busy /\ busy' = FALSE
    /\ waited' = 0
    /\ UNCHANGED <<task, queue, wanted, lost, lcd, memo, overslept, faults>>

\* Five seconds without a frame: resync and redraw
HeartbeatDraw ==
    /\ ~busy /\ queue = <<>> /\ waited = Heartbeat
    /\ lcd' = IF lcd.ok /\ lcd.started
              THEN Render(Reinit(lcd), IF memo.test THEN memo.banner ELSE memo.idle)
              ELSE lcd
    /\ overslept' = (overslept \/ task.beeped + 1 >= Heartbeat)
    /\ waited' = 0
    /\ UNCHANGED <<task, queue, wanted, lost, busy, memo, faults>>

\* Motor noise (external): a line held by the backpack, a lost acknowledge, or a controller
\* knocked out of step with nothing to tell of it; a held line may come free by itself
Noise ==
    /\ \/ /\ faults < MaxFaults /\ faults' = faults + 1
          /\ \/ lcd' = [lcd EXCEPT !.stuck = TRUE]
             \/ lcd' = [lcd EXCEPT !.nak = TRUE, !.shows = Garbled]
             \/ lcd' = [lcd EXCEPT !.sync = FALSE, !.shows = Garbled]
       \/ /\ lcd.stuck /\ lcd' = [lcd EXCEPT !.stuck = FALSE]
          /\ UNCHANGED faults
    /\ UNCHANGED <<task, queue, wanted, lost, busy, waited, memo, overslept>>

DisplayNext ==
    \/ \E at \in DOMAIN Follows : Enter(at)
    \/ Repost \/ Second \/ Noise
    \/ \E freed \in BOOLEAN : TakeFrame(freed)
    \/ Finish \/ HeartbeatDraw

DisplaySpec == DisplayInit /\ [][DisplayNext]_displayVars

-----------------------------------------------------------------------------
(* Properties *)

\* When the display task has nothing left to draw and the panel answers, the panel shows
\* the last frame the application posted, unless a frame was lost to a full queue since the
\* screen that ended the last session: the heartbeat never draws IDLE over a running
\* countdown, a menu, a waiting credit or test mode, and the once-a-second throttle never
\* leaves an old screen, whatever was recovered in between (display.cpp:641,
\* display.cpp:95, app.cpp:418).  The heartbeat does draw IDLE over a session or over
\* "COMPLETE!" when the beep there outlasts it: that is excepted, by name and from that
\* draw to the next frame with anything new to show.
PanelFollowsApp ==
    /\ ~busy /\ queue = <<>> /\ ~lost /\ ~overslept
    /\ lcd.ok /\ lcd.wire /\ lcd.sync /\ ~lcd.stuck /\ ~lcd.nak
    => lcd.shows = Look(wanted)

=============================================================================
