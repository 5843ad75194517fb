----------------------------- MODULE Countdown -----------------------------
(***************************************************************************)
(* The arithmetic of session_run (src/session.cpp): credits to             *)
(* milliseconds to ticks, the deadline that accumulation moves, and the    *)
(* comparison with a tick counter that wraps, all in unsigned words.  What *)
(* a session does meanwhile is in Vend; this module is about how long.     *)
(* A tick is a millisecond (the static_assert of session.cpp:18).          *)
(***************************************************************************)
EXTENDS Integers

CONSTANTS WordSize,     \* 2^32
          TickRate,     \* configTICK_RATE_HZ, 1000 on the board; 1000 ms in a second
          RelayMs,      \* cfg->relay_on_ms
          TicksCap,     \* SESSION_TICKS_CAP, 7 days
          MaxDelay,     \* SESSION_TICK_MS, and what the scheduler adds
          Credits,      \* how many credits may be billed at once
          MaxBuys       \* bound: extensions of a session

ASSUME CountdownAssumption ==
    /\ WordSize \in Nat \ {0} /\ TickRate \in Nat \ {0}
    /\ RelayMs \in Nat /\ MaxDelay \in Nat \ {0}
    /\ Credits \subseteq Nat \ {0}
    /\ TicksCap \in Nat
    /\ MaxBuys \in Nat
    \* Nothing that is added to a deadline or to a time under the cap wraps.
    /\ 2 * TicksCap + MaxDelay < WordSize
    \* What fits the macro is far below the cap.
    /\ WordSize <= (TicksCap + 1) * TickRate

VARIABLES running,
          ticks,     \* session_ticks
          start,     \* session_start
          counter,   \* xTaskGetTickCount()
          bought,    \* history: the time paid for, as far as the cap, in milliseconds
          elapsed,   \* history: the time since the relay went on
          wide,      \* history: a purchase did not fit the macro
          buys       \* extensions so far

countdownVars == <<running, ticks, start, counter, bought, elapsed, wide, buys>>

Word == 0 .. WordSize - 1

\* Addition and subtraction of two words
WordPlus(a, b)  == IF a + b < WordSize THEN a + b ELSE a + b - WordSize
WordMinus(a, b) == IF a >= b THEN a - b ELSE a - b + WordSize

\* pdMS_TO_TICKS (external): the product is a word before it is divided.
ToTicks(ms) == ((ms * TickRate) % WordSize) \div TickRate

\* blocks * cfg->relay_on_ms
BlockMs(blocks) == (blocks * RelayMs) % WordSize

Paid(blocks) == blocks * RelayMs
Fits(blocks) == Paid(blocks) * TickRate < WordSize
Capped(t) == IF t > TicksCap THEN TicksCap ELSE t

CountdownInit ==
    /\ running = FALSE
    /\ ticks = 0 /\ start = 0
    /\ counter \in Word
    /\ bought = 0 /\ elapsed = 0
    /\ wide = FALSE
    /\ buys = 0

\* session_run begins: the first block of credits, which no cap applies to
Begin(blocks) ==
    /\ ~running
    /\ running' = TRUE
    /\ ticks' = ToTicks(BlockMs(blocks))
    /\ start' = counter
    /\ bought' = Paid(blocks)
    /\ elapsed' = 0
    /\ wide' = ~Fits(blocks)
    /\ buys' = 0
    /\ UNCHANGED counter

\* Slip: an extension begins now, not where the time bought before ends.
SlipExtended(blocks) == WordPlus(WordMinus(counter, start), ToTicks(BlockMs(blocks)))

\* session_apply_accumulation: the new deadline, before the cap
Extended(blocks) == WordPlus(ticks, ToTicks(BlockMs(blocks)))

Extend(blocks) ==
    /\ running /\ buys < MaxBuys
    /\ ticks' = Capped(Extended(blocks))
    /\ bought' = Capped(bought + Paid(blocks))
    /\ wide' = (wide \/ ~Fits(blocks))
    /\ buys' = buys + 1
    /\ UNCHANGED <<running, start, counter, elapsed>>

\* The condition of the loop
TimeLeft == WordMinus(counter, start) < ticks

\* One delay of the loop, or time between sessions
Delay(d) ==
    /\ running => TimeLeft
    /\ counter' = WordPlus(counter, d)
    /\ elapsed' = IF running THEN elapsed + d ELSE elapsed
    /\ UNCHANGED <<running, ticks, start, bought, wide, buys>>

Finish ==
    /\ running /\ ~TimeLeft
    /\ running' = FALSE
    /\ UNCHANGED <<ticks, start, counter, bought, elapsed, wide, buys>>

CountdownNext ==
    \/ \E blocks \in Credits : Begin(blocks) \/ Extend(blocks)
    \/ \E d \in 1 .. MaxDelay : Delay(d)
    \/ Finish

CountdownSpec == CountdownInit /\ [][CountdownNext]_countdownVars

-----------------------------------------------------------------------------
(* Properties *)

\* A session that has run out lasted as long as was paid for, or as the cap, and no longer
\* than a delay of the loop more, wherever the tick counter wraps and however coins
\* came in (session.h:19).  The exception: one purchase whose milliseconds times the tick
\* rate leave the word, 71 minutes on the board.
PaidTimeKept ==
    /\ ~wide => ticks = bought
    /\ running => elapsed < ticks + MaxDelay
    /\ ~running => elapsed >= ticks

\* "Total relay ON time = blocks * cfg->relay_on_ms" (session.h:19), without the exception
PaidTimeAlways == running => ticks = bought

=============================================================================
