------------------------------ MODULE RtcChip ------------------------------
(***************************************************************************)
(* The clock chip behind rtc.cpp, register by register: the system clock   *)
(* seeded from it at boot, the setter of BLE and console that writes both, *)
(* the hourly writeback of loop(), a mutex that may time out, and a power  *)
(* cut between any two registers.                                          *)
(*                                                                         *)
(* A time is a number of seconds; the seven registers are three digits in  *)
(* base Base: seconds, the next field, all that is above it.  An operation *)
(* is short against a second except where a register is read: there the    *)
(* second may turn between any two.                                        *)
(***************************************************************************)
EXTENDS Integers

CONSTANTS Base,            \* 60: the digits of the seconds and of the next field
          RtcMin, RtcMax,  \* RTC_EPOCH_MIN, RTC_EPOCH_MAX
          Errors,          \* by how much a phone's clock may be off
          Garbage,         \* what a flat cell may leave in the registers
          LastSecond       \* bound: the true time a behaviour ends at

ASSUME RtcAssumption ==
    /\ Base \in Nat \ {0, 1}
    /\ RtcMin \in Nat \ {0} /\ RtcMax \in Nat /\ RtcMax <= Base * Base * Base
    /\ Errors \subseteq Int
    /\ LastSecond \in Nat
    \* a behaviour ends before the chip's digits do, for whoever set it too
    /\ \A e \in Errors \cup {0} : LastSecond + e < Base * Base * Base
    \* or for whatever was left in it
    /\ Garbage \subseteq 0 .. Base * Base * Base - 1
    /\ \A g \in Garbage : g - RtcMin + LastSecond < Base * Base * Base

VARIABLES chip,    \* the registers, CH, which halts the clock
          sys,     \* the system clock, s_time_set; unset until somebody sets it
          lock,    \* s_lock: "free" or its holder
          job,     \* what loop(), the BLE host and the boot are in
          true,    \* the true time
          told,    \* history: the errors of all times the clock was set to since its
                   \* cell was last flat
          left,    \* history: the error at which that cell left the chip running, if so
          believed,  \* history: ... if a boot found it within the window
          stale    \* history: a writeback had read the system clock before a set
                   \* that came first

cellVars  == <<left, believed>>
clockVars == <<chip, sys, lock, job, true, told, cellVars, stale>>

Window == RtcMin .. RtcMax - 1
ClockTasks == {"loop", "host", "boot"}

\* rtc_epoch_to_time and rtc_time_to_epoch
Digits(t) == [sec |-> t % Base, mid |-> (t \div Base) % Base, top |-> t \div (Base * Base)]
Epoch(d) == d.sec + Base * d.mid + Base * Base * d.top

Nothing == [op |-> "none", at |-> 0, t |-> 0, try |-> 0, turned |-> FALSE,
            got |-> Digits(0)]
Writing(p) == job[p].op \in {"set", "service"}
Reading(p) == job[p].op \in {"read", "valid", "seed"}

\* rtc_init holds the lock while it reads.
Booting == [p \in ClockTasks |-> IF p = "boot" THEN [Nothing EXCEPT !.op = "valid", !.at = 1]
                                ELSE Nothing]

ClockInit ==
    /\ true \in Window
    /\ chip = [regs |-> Digits(true), ch |-> FALSE]
    /\ sys = [set |-> FALSE, t |-> 0]
    /\ lock = "boot"
    /\ job = Booting
    /\ told = {0}
    /\ left = {} /\ believed = {}
    /\ stale = FALSE

-----------------------------------------------------------------------------

\* A second passes.  A writer is never caught by it; a reader may be, once an attempt.
Second ==
    /\ true < LastSecond
    /\ \A p \in ClockTasks : ~Writing(p) /\ ~job[p].turned
    /\ true' = true + 1
    /\ job' = [p \in ClockTasks |-> [job[p] EXCEPT !.turned = Reading(p) /\ job[p].at > 1]]
    /\ sys' = IF sys.set THEN [sys EXCEPT !.t = @ + 1] ELSE sys
    /\ chip' = IF chip.ch THEN chip
               ELSE [chip EXCEPT !.regs = Digits((Epoch(@) + 1) % (Base * Base * Base))]
    /\ UNCHANGED <<lock, told, cellVars, stale>>

\* rtc_set_epoch, by a phone or the console: the clamp comes before the lock
BeginSet(p, t) ==
    /\ p \in {"loop", "host"} /\ job[p] = Nothing /\ job["boot"] = Nothing
    /\ t \in Window
    /\ job' = [job EXCEPT ![p] = [Nothing EXCEPT !.op = "set", !.t = t]]
    /\ UNCHANGED <<chip, sys, lock, true, told, cellVars, stale>>

\* rtc_service, an hour after the last writeback: the system clock is read first
BeginService ==
    /\ job["loop"] = Nothing /\ job["boot"] = Nothing
    /\ sys.set /\ sys.t \in Window
    /\ job' = [job EXCEPT !["loop"] = [Nothing EXCEPT !.op = "service", !.t = sys.t]]
    /\ UNCHANGED <<chip, sys, lock, true, told, cellVars, stale>>

\* rtc_read_raw for the console
BeginRead ==
    /\ job["loop"] = Nothing /\ job["boot"] = Nothing
    /\ job' = [job EXCEPT !["loop"] = [Nothing EXCEPT !.op = "read"]]
    /\ UNCHANGED <<chip, sys, lock, true, told, cellVars, stale>>

\* RtcLock: held within 100 ms, or the operation is given up
TakeLock(p) ==
    /\ job[p].op # "none" /\ job[p].at = 0
    /\ \/ /\ lock = "free" /\ lock' = p
          /\ job' = [job EXCEPT ![p].at = 1]
       \/ /\ lock \notin {"free", p} /\ UNCHANGED lock
          /\ job' = [job EXCEPT ![p] = Nothing]
    /\ UNCHANGED <<chip, sys, true, told, cellVars, stale>>

\* rtc_write_raw_locked: seconds first with CH set, seconds last with CH clear
Put(at, t) ==
    CASE at = 1 -> [regs |-> [chip.regs EXCEPT !.sec = Digits(t).sec], ch |-> TRUE]
      [] at = 2 -> [chip EXCEPT !.regs.mid = Digits(t).mid]
      [] at = 3 -> [chip EXCEPT !.regs.top = Digits(t).top]
      [] at = 4 -> [regs |-> [chip.regs EXCEPT !.sec = Digits(t).sec], ch |-> FALSE]

WriteRegister(p) ==
    /\ Writing(p) /\ job[p].at \in 1 .. 4
    /\ chip' = Put(job[p].at, job[p].t)
    /\ job' = [job EXCEPT ![p].at = @ + 1]
    /\ told' = IF job[p].op = "set" /\ job[p].at = 4
               THEN told \cup {job[p].t - true} ELSE told
    /\ UNCHANGED <<sys, lock, true, cellVars, stale>>

\* The end of a write.  A set goes on to the system clock; a writeback that read the time
\* before then is out of date.
Written(p) ==
    /\ Writing(p) /\ job[p].at = 5
    /\ job' = [job EXCEPT ![p] = Nothing]
    /\ lock' = "free"
    /\ IF job[p].op = "set"
       THEN /\ sys' = [set |-> TRUE, t |-> job[p].t]
            /\ stale' = (job["loop"].op = "service" /\ job["loop"].t # job[p].t)
       ELSE UNCHANGED <<sys, stale>>
    /\ UNCHANGED <<chip, true, told, cellVars>>

\* Slip: the seconds are not read again.
SlipReread(p) == TRUE

\* The last frame of an attempt: the seconds have not turned
Reread(p) == chip.regs.sec = job[p].got.sec

\* rtc_read_raw_locked: the register that is next goes to the bytes got so far
Get(at, got) ==
    CASE at = 1 -> [got EXCEPT !.sec = chip.regs.sec]
      [] at = 2 -> [got EXCEPT !.mid = chip.regs.mid]
      [] at = 3 -> [got EXCEPT !.top = chip.regs.top]

ReadRegister(p) ==
    /\ Reading(p) /\ job[p].at \in 1 .. 3
    /\ job' = [job EXCEPT ![p].at = @ + 1, ![p].got = Get(job[p].at, @)]
    /\ UNCHANGED <<chip, sys, lock, true, told, cellVars, stale>>

RetryRead(p) ==
    /\ Reading(p) /\ job[p].at = 4 /\ ~Reread(p) /\ job[p].try < 2
    /\ job' = [job EXCEPT ![p].at = 1, ![p].try = @ + 1, ![p].turned = FALSE]
    /\ UNCHANGED <<chip, sys, lock, true, told, cellVars, stale>>

ReadOver(p) == Reading(p) /\ job[p].at = 4 /\ (Reread(p) \/ job[p].try = 2)

\* Slip: a running chip is believed, whatever it shows.
SlipValidated(p) == job[p].op = "valid" /\ ~chip.ch /\ Reread(p)

\* rtc_valid_locked: a running chip, a coherent read and a time within the window.  If so,
\* rtc_init reads it again.
Validated(p) ==
    /\ job[p].op = "valid"
    /\ ~chip.ch /\ Reread(p) /\ Epoch(job[p].got) \in Window

ReadAgain(p) ==
    /\ ReadOver(p) /\ Validated(p)
    /\ job' = [job EXCEPT ![p] = [Nothing EXCEPT !.op = "seed", !.at = 1]]
    /\ believed' = believed \cup {e \in left : true + e = Epoch(chip.regs) /\ true + e \in Window}
    /\ UNCHANGED <<chip, sys, lock, true, told, left, stale>>

\* The last read is over.  The second one of rtc_init seeds the system clock; it has not
\* looked at the window again.
ReadDone(p) ==
    /\ ReadOver(p) /\ ~Validated(p)
    /\ job' = [job EXCEPT ![p] = Nothing]
    /\ lock' = "free"
    /\ sys' = IF job[p].op = "seed" /\ Reread(p)
              THEN [set |-> TRUE, t |-> Epoch(job[p].got)] ELSE sys
    /\ UNCHANGED <<chip, true, told, cellVars, stale>>

\* What a chip may be after its cell was flat: halted, or running, confident, with registers
\* that are nobody's time (rtc.h:108).  Bytes that are no date at all are never believed
\* (bcd_ok), and are as good as a halt.
Uncelled ==
    {[chip EXCEPT !.ch = TRUE]} \cup [regs : {Digits(g) : g \in Garbage}, ch : BOOLEAN]

\* A power cut and the next boot.  Unless the cell is flat, too, the chip goes on.
PowerCut(flat) ==
    /\ sys' = [set |-> FALSE, t |-> 0]
    /\ lock' = "boot"
    /\ job' = Booting
    /\ stale' = FALSE
    /\ \/ ~flat /\ UNCHANGED <<chip, told, cellVars>>
       \/ /\ flat
          /\ chip' \in Uncelled
          /\ told' = {} /\ believed' = {}
          /\ left' = IF chip'.ch THEN {} ELSE {Epoch(chip'.regs) - true}
    /\ UNCHANGED true

ClockNext ==
    \/ Second
    \/ \E p \in {"loop", "host"}, e \in Errors : BeginSet(p, true + e)
    \/ BeginService \/ BeginRead
    \/ \E p \in ClockTasks :
          \/ TakeLock(p) \/ WriteRegister(p) \/ Written(p)
          \/ ReadRegister(p) \/ RetryRead(p) \/ ReadAgain(p) \/ ReadDone(p)
    \/ \E flat \in BOOLEAN : PowerCut(flat)

ClockSpec == ClockInit /\ [][ClockNext]_clockVars

-----------------------------------------------------------------------------
(* Properties *)

\* The system clock never shows a time that never was: wherever a power cut tears a write,
\* wherever the second turns in the read at boot, and whatever a flat cell leaves in a chip
\* that runs on, the clock is unset or as far from the truth as somebody set it since
\* (rtc.cpp:196, rtc.cpp:256, rtc.cpp:280).  The window is all the code has against garbage:
\* garbage a boot found within it is believed, and excepted.
NoTimeThatNeverWas == sys.set => sys.t - true \in told \cup believed

\* "On a set -> write BOTH the RTC and the system clock" (rtc.h:36): with nobody at work,
\* chip and system clock agree, unless a writeback had read the system clock before the
\* last set and wrote the old time over it.
ClocksAgree ==
    sys.set /\ ~stale /\ (\A p \in ClockTasks : job[p] = Nothing)
    => ~chip.ch /\ Epoch(chip.regs) = sys.t

\* The same without the exception, which rtc_service does not keep: it reads the time
\* before it takes the lock.
SetWritesBoth ==
    sys.set /\ (\A p \in ClockTasks : job[p] = Nothing) => Epoch(chip.regs) = sys.t

=============================================================================
