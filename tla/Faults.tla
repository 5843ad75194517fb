------------------------------ MODULE Faults ------------------------------
(***************************************************************************)
(* The fault mailbox (src/diag.cpp) and its BLE characteristic             *)
(* (src/ble_diagnostics.cpp).  Four tasks raise faults in one mask without *)
(* a lock, each by loading it, and storing it back with one more; loop()   *)
(* clears it when a phone has uploaded it, and notifies the phone of every *)
(* change; the BLE host task answers reads on the other core.              *)
(*                                                                         *)
(* Nothing here survives a reset, so a behaviour is one boot.  Uptime,     *)
(* boot time and the sensor bits are left out.                             *)
(***************************************************************************)
EXTENDS Naturals

CONSTANTS StuckTicks,   \* COIN_STUCK_TICKS, samples of an asserted coin line
          MaxFaultEvents  \* bound: failed writes, changes of the line, reads and commands

ASSUME FaultsAssumption == StuckTicks \in Nat \ {0} /\ MaxFaultEvents \in Nat

VARIABLES raised,    \* s_raised
          news,      \* s_dirty
          at,        \* where each task is in diag_raise or diag_clear_all
          pass,      \* where loop() is, and what it holds there
          answer,    \* the read the BLE host task answers, and what it holds
          shown,     \* the value of the characteristic
          heard,     \* the fault list the phone has
          line,      \* the coin line, stuck_ticks, and whether the list has been emptied
                     \* since the line last turned
          clockSet,  \* rtc_valid
          asked,     \* a clear_errors is in the command queue
          kept,      \* history: what was raised since the list was last emptied
          overlap,   \* history: an update of the mask fell into another one
          overtaken, \* history: a read crossed the last notification
          missed,    \* history: news came between the load and the store of its flag
          happened   \* events so far

maskVars  == <<raised, news, at, kept, overlap>>
frameVars == <<shown, heard, overtaken>>
faultVars == <<maskVars, frameVars, pass, answer, line, clockSet, asked, missed, happened>>

Tasks == {"coin", "app", "host", "loop"}
Codes == {"coin", "rtc", "nvs", "wdt"}
Rest  == [step |-> "idle", code |-> "none", reg |-> {}]
Quiet == [step |-> "idle", buf |-> {}]

\* diag_init: the reset reason and the clock
FaultsInit ==
    /\ clockSet \in BOOLEAN
    /\ \E wdt \in BOOLEAN : raised = (IF wdt THEN {"wdt"} ELSE {})
                                     \cup (IF clockSet THEN {} ELSE {"rtc"})
    /\ news = (raised # {})
    /\ at = [t \in Tasks |-> Rest]
    /\ pass = [stage |-> "save", step |-> "idle", buf |-> {}]
    /\ answer = Quiet
    /\ shown = raised /\ heard = raised
    /\ line = [asserted |-> FALSE, ticks |-> 0, emptied |-> FALSE]
    /\ asked = FALSE
    /\ kept = raised
    /\ overlap = FALSE /\ overtaken = FALSE /\ missed = FALSE
    /\ happened = 0

FaultEvent ==
    /\ happened < MaxFaultEvents
    /\ happened' = happened + 1

-----------------------------------------------------------------------------
(* The mask                                                                *)

Updating == {t \in Tasks : at[t].step = "loaded"}

\* diag_raise, the test: a code that is already raised is not news.
RaiseLoad(t, code) ==
    /\ at[t] = Rest /\ code \notin raised
    /\ at' = [at EXCEPT ![t] = [step |-> "loaded", code |-> code, reg |-> raised]]
    /\ UNCHANGED <<raised, news, kept, overlap>>

\* Slip: the list is a picture of the last fault.
SlipWithCode(reg, code) == {code}

\* s_raised |= b, on what was loaded
WithCode(reg, code) == reg \cup {code}

RaiseStore(t) ==
    /\ at[t].step = "loaded"
    /\ raised' = WithCode(at[t].reg, at[t].code)
    /\ kept' = kept \cup {at[t].code}
    /\ overlap' = (overlap \/ Updating # {t})
    /\ at' = [at EXCEPT ![t] = [Rest EXCEPT !.step = "stored"]]
    /\ UNCHANGED news

\* diag_clear_all, by loop()
ClearAll ==
    /\ raised # {}
    /\ raised' = {} /\ kept' = {}
    /\ overlap' = (overlap \/ Updating # {})
    /\ at' = [at EXCEPT !["loop"] = [Rest EXCEPT !.step = "stored"]]
    /\ UNCHANGED news

\* s_dirty = true, which ends both
RaiseNews(t) ==
    /\ at[t].step = "stored"
    /\ news' = TRUE
    /\ at' = [at EXCEPT ![t] = Rest]
    /\ UNCHANGED <<raised, kept, overlap>>

-----------------------------------------------------------------------------
(* The coin task: a line asserted for long is a fault, once                *)

LineTurns ==
    /\ FaultEvent
    /\ line' = [asserted |-> ~line.asserted, ticks |-> 0, emptied |-> FALSE]
    /\ at["coin"] = Rest
    /\ UNCHANGED <<maskVars, frameVars, pass, answer, clockSet, asked, missed>>

CoinTick ==
    /\ line.asserted /\ line.ticks < StuckTicks /\ at["coin"] = Rest
    /\ line' = [line EXCEPT !.ticks = @ + 1]
    /\ IF line.ticks + 1 = StuckTicks /\ "coin" \notin raised
       THEN RaiseLoad("coin", "coin") ELSE UNCHANGED maskVars
    /\ UNCHANGED <<frameVars, pass, answer, clockSet, asked, missed, happened>>

\* A write to NVS fails: the coin task's when the pulse it has just accepted is the first
\* of a new business day (counters_roll_day_locked), the application's when it counts a
\* session or saves the menu, the BLE host's when a phone stores a setting.
WriteFails(t) ==
    /\ FaultEvent
    /\ t = "coin" => line.asserted /\ line.ticks = 0
    /\ t = "host" => answer = Quiet
    /\ RaiseLoad(t, "nvs")
    /\ UNCHANGED <<frameVars, pass, answer, line, clockSet, asked, missed>>

\* diag_raise goes on in whatever task.
RaiseStep(t) ==
    /\ RaiseStore(t) \/ RaiseNews(t)
    /\ UNCHANGED <<frameVars, pass, answer, line, clockSet, asked, missed, happened>>

\* A phone or the console sets the clock.
SetClock ==
    /\ ~clockSet /\ clockSet' = TRUE
    /\ UNCHANGED <<maskVars, frameVars, pass, answer, line, asked, missed, happened>>

-----------------------------------------------------------------------------
(* loop(), once round: the writes, diag_service, ble_diagnostics_service,  *)
(* ble_command_service                                                     *)

At(stage) == pass.stage = stage /\ at["loop"] = Rest
On(stage) == pass' = [stage |-> stage, step |-> "idle", buf |-> {}]

LoopSaves ==
    /\ At("save") /\ On("diag")
    /\ \/ UNCHANGED <<maskVars, happened>>
       \/ FaultEvent /\ RaiseLoad("loop", "nvs")
    /\ UNCHANGED <<frameVars, answer, line, clockSet, asked, missed>>

\* Slip: the unset clock is reported at boot only.
SlipDiagService ==
    /\ At("diag") /\ On("flag")
    /\ UNCHANGED <<maskVars, frameVars, answer, line, clockSet, asked, missed, happened>>

\* diag_service: an unset clock is a present condition.
DiagService ==
    /\ At("diag") /\ On("flag")
    /\ IF ~clockSet /\ "rtc" \notin raised THEN RaiseLoad("loop", "rtc")
                                           ELSE UNCHANGED maskVars
    /\ UNCHANGED <<frameVars, answer, line, clockSet, asked, missed, happened>>

\* diag_take_dirty loads the flag and then puts it down, unconditionally.
LoadNews ==
    /\ At("flag") /\ pass.step = "idle"
    /\ pass' = [pass EXCEPT !.step = IF news THEN "news" ELSE "none"]
    /\ UNCHANGED <<maskVars, frameVars, answer, line, clockSet, asked, missed, happened>>

TakeNews ==
    /\ pass.step \in {"news", "none"}
    /\ news' = FALSE
    /\ \/ /\ pass.step = "news"
          /\ pass' = [pass EXCEPT !.step = "taken"]
          /\ missed' = FALSE
          /\ overtaken' = (answer # Quiet)
       \/ /\ pass.step = "none" /\ On("command")
          /\ missed' = (missed \/ news)
          /\ UNCHANGED overtaken
    /\ UNCHANGED <<raised, at, kept, overlap, shown, heard, answer, line, clockSet, asked,
                   happened>>

\* republish() serialises and sets the value; notify() sends what it is by then.
Publish ==
    /\ pass.step \in {"taken", "built", "set"}
    /\ \/ /\ pass.step = "taken"
          /\ pass' = [pass EXCEPT !.step = "built", !.buf = raised]
          /\ UNCHANGED <<shown, heard>>
       \/ /\ pass.step = "built"
          /\ shown' = pass.buf
          /\ pass' = [pass EXCEPT !.step = "set", !.buf = {}]
          /\ UNCHANGED heard
       \/ /\ pass.step = "set"
          /\ heard' = shown
          /\ On("command")
          /\ UNCHANGED shown
    /\ UNCHANGED <<maskVars, overtaken, answer, line, clockSet, asked, missed, happened>>

\* clear_errors, if one is queued
RunCommand ==
    /\ At("command") /\ On("save")
    /\ asked' = FALSE
    /\ \/ asked /\ ClearAll /\ line' = [line EXCEPT !.emptied = TRUE]
       \/ (~asked \/ raised = {}) /\ UNCHANGED <<maskVars, line>>
    /\ UNCHANGED <<frameVars, answer, clockSet, missed, happened>>

LoopStep ==
    \/ RaiseStep("loop") \/ LoopSaves \/ DiagService \/ LoadNews \/ TakeNews \/ Publish
    \/ RunCommand

-----------------------------------------------------------------------------
(* The phone                                                               *)

\* It has uploaded the list, and says so.
AskClear ==
    /\ FaultEvent
    /\ ~asked /\ asked' = TRUE
    /\ at["host"] = Rest /\ answer = Quiet
    /\ UNCHANGED <<maskVars, frameVars, pass, answer, line, clockSet, missed>>

\* onRead: the same two calls, then the answer
Read ==
    /\ FaultEvent
    /\ at["host"] = Rest /\ answer = Quiet
    /\ answer' = [step |-> "built", buf |-> raised]
    /\ overtaken' = (overtaken \/ pass.step \in {"taken", "built", "set"})
    /\ UNCHANGED <<maskVars, shown, heard, pass, line, clockSet, asked, missed>>

Answer ==
    /\ answer # Quiet
    /\ \/ /\ answer.step = "built"
          /\ shown' = answer.buf
          /\ answer' = [step |-> "set", buf |-> {}]
          /\ UNCHANGED heard
       \/ /\ answer.step = "set"
          /\ heard' = shown
          /\ answer' = Quiet
          /\ UNCHANGED shown
    /\ UNCHANGED <<maskVars, overtaken, pass, line, clockSet, asked, missed, happened>>

FaultsNext ==
    \/ LineTurns \/ CoinTick \/ SetClock \/ AskClear \/ Read \/ Answer
    \/ \E t \in {"coin", "app", "host"} : WriteFails(t)
    \/ \E t \in {"coin", "app", "host"} : RaiseStep(t)
    \/ LoopStep

\* Every task is scheduled.
FaultsFairness ==
    /\ WF_faultVars(LoopStep)
    /\ \A t \in {"coin", "app", "host"} : WF_faultVars(RaiseStep(t))
    /\ WF_faultVars(Answer)

FaultsSpec == FaultsInit /\ [][FaultsNext]_faultVars /\ FaultsFairness

-----------------------------------------------------------------------------
(* Properties *)

\* The list is "cumulative until acknowledged" (diag.h:14): it holds what was raised since
\* it was last emptied, a line stuck since then included once the coin task has stored it, and nothing that was emptied comes
\* back by itself; unless one update of the mask fell into another, in which case either may
\* happen (diag.cpp:17).
FaultsKept ==
    ~overlap =>
        /\ raised = kept
        /\ line.ticks = StuckTicks /\ ~line.emptied /\ at["coin"].code # "coin"
              => "coin" \in raised

\* As long as the clock is unset the phone is told so again, however often it acknowledges
\* the fault, and even when the mask lost it in a race (diag.cpp:33); not told only if the
\* news fell between the load and the store of the flag (diag.cpp:115), or a read crossed
\* the notification.
UnsetClockReported ==
    ~clockSet ~> (clockSet \/ "rtc" \in heard \/ missed \/ overtaken)

=============================================================================
