----------------------------- MODULE PanelProofs -----------------------------
(***************************************************************************)
(* The machine's front.  The configuration: what runs is what is stored,   *)
(* or there is a reason, and the menu shows only pages that apply and      *)
(* never leaves the positive relay times, for any limits and steps, any    *)
(* frames and commands, and any number of writes, edits and resets.        *)
(* The buttons: one gesture, one meaning, for any debounce, long press and *)
(* auto-repeat, any contacts at any sample, and any interleaving of the    *)
(* loops that poll the recognisers.  The screen: the panel follows the     *)
(* application task, for a queue of any length, any beeps and pauses       *)
(* shorter than the heartbeat, and any disturbance of the bus.             *)
(***************************************************************************)
EXTENDS Settings, Buttons, Display, TLAPS

-----------------------------------------------------------------------------
(* The configuration *)

(* A configuration as the proofs need it: whole, with a relay time.        *)
Whole(c, fields) ==
    /\ c = [f \in fields |-> c[f]]
    /\ c["relay"] \in Int /\ c["relay"] > 0

StoreInv ==
    /\ stored # Blank => Whole(stored, Fields)
    /\ Whole(cfg, Fields)
    /\ cli.at = "save" => /\ Whole(cli.base, Fields)
                          /\ cli.cmd.field = "relay"
                             => cli.cmd.value \in Int /\ cli.cmd.value > 0

(* Between boot and the next boot or save, in the menu too.                *)
RunsOnStored ==
    app \in {"idle", "vend", "menu"} =>
        \/ cfg = StoredOrDefaults /\ livePrice = cfg.price
        \/ pending
        \/ fault

MenuInv ==
    app = "menu" => /\ Whole(draft, MenuFields)
                    /\ page \in 0 .. (NumPages - 1)
                    /\ page \in {1, 2} => Timed(draft)
                    /\ page \in {7, 8} => draft.sensor

SettingsInv == StoreInv /\ RunsOnStored /\ MenuInv

-----------------------------------------------------------------------------
(* Configurations.                                                         *)

LEMMA Limits ==
    /\ MinRelay \in Int /\ MaxRelay \in Int /\ RelayStep \in Int /\ CliMinRelay \in Int
    /\ 1 <= RelayStep /\ RelayStep <= MinRelay /\ MinRelay <= MaxRelay
    /\ 1 <= CliMinRelay
BY SettingsAssumption

LEMMA RelayIsField == "relay" \in Fields /\ "relay" \in MenuFields
BY DEF Fields, MenuFields

LEMMA ConfigIsWhole ==
    ASSUME NEW c \in Config, c.relay > 0
    PROVE  Whole(c, Fields)
BY DEF Config, Fields, MenuFields, Whole

LEMMA DefaultsWhole == Whole(Defaults, Fields)
BY SettingsAssumption, ConfigIsWhole

LEMMA WholeNotBlank ==
    ASSUME NEW c, Whole(c, Fields)
    PROVE  c # Blank
  <1>1. DOMAIN c = Fields /\ DOMAIN Blank = {"blank"}
    BY DEF Whole, Blank
  <1> QED
    BY <1>1 DEF Fields, MenuFields

(* One field of a configuration set to a value that the menu, or a setter, *)
(* lets through.                                                           *)
LEMMA SetKeepsWhole ==
    ASSUME NEW S, "relay" \in S, NEW c, Whole(c, S), NEW f, NEW v,
           f = "relay" => v \in Int /\ v > 0
    PROVE  Whole([c EXCEPT ![f] = v], S)
BY DEF Whole

LEMMA StoredWhole ==
    ASSUME StoreInv
    PROVE  Whole(StoredOrDefaults, Fields)
BY DefaultsWhole DEF StoreInv, StoredOrDefaults

(* A write leaves a whole configuration in the store, or the store alone.  *)
LEMMA SaveKeepsWhole ==
    ASSUME StoreInv, NEW c, Whole(c, Fields), ConfigSave(c)
    PROVE  stored' # Blank => Whole(stored', Fields)
BY DEF ConfigSave, StoreInv

-----------------------------------------------------------------------------
(* The menu.                                                               *)

LEMMA RelayStepsPositive ==
    ASSUME NEW ms \in Int, ms > 0
    PROVE  /\ RelayUp(ms) \in Int /\ RelayUp(ms) > 0
           /\ RelayDown(ms) \in Int /\ RelayDown(ms) > 0
BY Limits DEF RelayUp, RelayDown

(* One edit: one field of the page's draft.                                *)
LEMMA AdjustedWhole ==
    ASSUME NEW d, Whole(d, MenuFields), NEW p \in 0 .. 9, NEW up \in BOOLEAN
    PROVE  /\ Whole(Adjusted(d, p, up), MenuFields)
           /\ p # 0 => Adjusted(d, p, up).mode = d.mode
           /\ p # 6 => Adjusted(d, p, up).sensor = d.sensor
  <1> DEFINE ms == IF up THEN RelayUp(d["relay"]) ELSE RelayDown(d["relay"])
  <1>1. ms \in Int /\ ms > 0
    BY RelayStepsPositive DEF Whole
  <1>2. PICK f, v :
           /\ f \in MenuFields
           /\ Adjusted(d, p, up) = [d EXCEPT ![f] = v]
           /\ f = "relay" => v = ms
           /\ f = "mode" => p = 0
           /\ f = "sensor" => p = 6
    <2>1. CASE p = 0
      <3> DEFINE mode == (d.mode + (IF up THEN 1 ELSE NumModes - 1)) % NumModes
      <3>1. Adjusted(d, p, up) = [d EXCEPT !["mode"] = mode]
        BY <2>1 DEF Adjusted
      <3> HIDE DEF ms, mode
      <3>2. "mode" \in MenuFields
        BY DEF MenuFields
      <3> QED
        BY <2>1, <3>1, <3>2
    <2>2. CASE p = 4
      <3>1. Adjusted(d, p, up) = [d EXCEPT !["relay"] = ms]
        BY <2>2 DEF Adjusted
      <3> HIDE DEF ms
      <3> QED
        BY <2>2, <3>1, RelayIsField
    <2>3. CASE p = 6
      <3>1. Adjusted(d, p, up) = [d EXCEPT !["sensor"] = up]
        BY <2>3 DEF Adjusted
      <3> HIDE DEF ms
      <3>2. "sensor" \in MenuFields
        BY DEF MenuFields
      <3> WITNESS "sensor", up
      <3> QED
        BY <2>3, <3>1, <3>2
    <2>4. CASE p = 9
      <3> DEFINE price ==
            IF up THEN IF d.price < MaxPrice - PriceStep THEN d.price + PriceStep
                                                         ELSE MaxPrice
                  ELSE IF d.price > PriceStep THEN d.price - PriceStep ELSE 0
      <3>1. Adjusted(d, p, up) = [d EXCEPT !["price"] = price]
        BY <2>4 DEF Adjusted
      <3> HIDE DEF ms, price
      <3>2. "price" \in MenuFields
        BY DEF MenuFields
      <3> QED
        BY <2>4, <3>1, <3>2
    <2>5. CASE p \notin {0, 4, 6, 9}
      <3> DEFINE bit == IF up THEN 1 ELSE 0
      <3>1. Adjusted(d, p, up) = [d EXCEPT !["other"] = bit]
        BY <2>5 DEF Adjusted
      <3> HIDE DEF ms, bit
      <3>2. "other" \in MenuFields
        BY DEF MenuFields
      <3> WITNESS "other", bit
      <3> QED
        BY <2>5, <3>1, <3>2
    <2> QED
      BY <2>1, <2>2, <2>3, <2>4, <2>5
  <1> HIDE DEF ms
  <1>3. Whole([d EXCEPT ![f] = v], MenuFields)
    BY <1>1, <1>2, RelayIsField, SetKeepsWhole
  <1>4. /\ p # 0 => [d EXCEPT ![f] = v].mode = d.mode
        /\ p # 6 => [d EXCEPT ![f] = v].sensor = d.sensor
    BY <1>2 DEF Whole, MenuFields
  <1> QED
    BY <1>2, <1>3, <1>4

(* A turn of the page skips what cannot apply.                             *)
LEMMA TurnApplies ==
    ASSUME NEW p \in 0 .. 9, NEW d, NEW next, next = NextPage(p, d)
    PROVE  /\ next \in 0 .. 9
           /\ next \in {1, 2} => Timed(d)
           /\ next \in {7, 8} => d.sensor
BY DEF NextPage, NumPages

-----------------------------------------------------------------------------
LEMMA SettingsInvInit == Init => SettingsInv
  <1> SUFFICES ASSUME Init PROVE SettingsInv
    OBVIOUS
  <1>1. /\ stored \in {Blank, Defaults} /\ cfg = Defaults /\ app = "boot"
        /\ cli = NoCommand
    BY DEF Init
  <1>2. cli.at # "save"
    BY <1>1 DEF NoCommand
  <1> QED
    BY <1>1, <1>2, DefaultsWhole DEF SettingsInv, StoreInv, RunsOnStored, MenuInv

(* The store, the running configuration and what a setter has read.        *)
LEMMA StoreStep ==
    ASSUME StoreInv, MenuInv, Next
    PROVE  StoreInv'
  <1>1. CASE Boot
    <2>1. Whole(cfg', Fields) /\ cli' = cli
      BY <1>1, StoredWhole DEF Boot
    <2>2. stored' # Blank => Whole(stored', Fields)
      BY <1>1, SaveKeepsWhole, DefaultsWhole DEF Boot, StoreInv
    <2> QED
      BY <2>1, <2>2 DEF StoreInv
  <1>2. CASE Serve \/ MenuOpen \/ MenuAdjust \/ MenuTurn \/ MenuCancel \/ BleApply
    <2>1. UNCHANGED <<stored, cfg, cli>>
      BY <1>2 DEF Serve, MenuOpen, MenuAdjust, MenuTurn, MenuCancel, BleApply, liveVars
    <2> QED
      BY <2>1 DEF StoreInv
  <1>3. CASE MenuAccept
    <2>1. cfg' = [f \in Fields |-> IF f \in MenuFields THEN draft[f] ELSE cfg[f]]
      BY <1>3 DEF MenuAccept
    <2>2. draft["relay"] \in Int /\ draft["relay"] > 0
      BY <1>3 DEF MenuAccept, MenuInv, Whole
    <2>3. Whole(cfg', Fields)
      BY <2>1, <2>2, RelayIsField DEF Whole
    <2>4. UNCHANGED <<stored, cli>>
      BY <1>3 DEF MenuAccept
    <2> QED
      BY <2>3, <2>4 DEF StoreInv
  <1>4. CASE MenuStore
    <2>1. ConfigSave(cfg) /\ UNCHANGED <<cfg, cli>>
      BY <1>4 DEF MenuStore
    <2>2. stored' # Blank => Whole(stored', Fields)
      BY <2>1, SaveKeepsWhole DEF StoreInv
    <2> QED
      BY <2>1, <2>2 DEF StoreInv
  <1>5. CASE CliRead
    <2>1. PICK c \in Commands :
             /\ InCliRange(c)
             /\ cli' = [at |-> "save", base |-> StoredOrDefaults, cmd |-> c]
      BY <1>5 DEF CliRead
    <2>2. c.field = "relay" => c.value \in Int /\ c.value > 0
      BY <2>1, Limits DEF InCliRange
    <2>3. UNCHANGED <<stored, cfg>>
      BY <1>5 DEF CliRead, liveVars
    <2> QED
      BY <2>1, <2>2, <2>3, StoredWhole DEF StoreInv
  <1>6. CASE CliSave
    <2> DEFINE new == [cli.base EXCEPT ![cli.cmd.field] = cli.cmd.value]
    <2>1. ConfigSave(new) /\ cfg' = cfg
      BY <1>6 DEF CliSave, liveVars
    <2>2. Whole(new, Fields)
      BY <1>6, RelayIsField, SetKeepsWhole DEF CliSave, StoreInv
    <2> HIDE DEF new
    <2>3. stored' # Blank => Whole(stored', Fields)
      BY <2>1, <2>2, SaveKeepsWhole
    <2>4. cli'.at # "save"
      <3>1. CASE cli.cmd.field = "polarity"
        <4>1. cli' = [cli EXCEPT !.at = "apply"]
          BY <1>6, <3>1 DEF CliSave
        <4> QED
          BY <4>1
      <3>2. CASE cli.cmd.field # "polarity"
        BY <1>6, <3>2 DEF CliSave, NoCommand
      <3> QED
        BY <3>1, <3>2
    <2> QED
      BY <2>1, <2>3, <2>4 DEF StoreInv
  <1>7. CASE CliApply
    <2>1. UNCHANGED <<stored, cfg>> /\ cli'.at # "save"
      BY <1>7 DEF CliApply, NoCommand
    <2> QED
      BY <2>1 DEF StoreInv
  <1>8. CASE CliFactory
    <2>1. ConfigSave(Defaults) /\ UNCHANGED <<cfg, cli>>
      BY <1>8 DEF CliFactory, liveVars
    <2> QED
      BY <2>1, SaveKeepsWhole, DefaultsWhole DEF StoreInv
  <1>9. CASE BleStore
    <2>1. PICK frame \in Frames : InContract(frame) /\ ConfigSave(frame)
      BY <1>9 DEF BleStore
    <2>2. Whole(frame, Fields)
      BY <2>1, Limits, SettingsAssumption, ConfigIsWhole DEF InContract
    <2>3. UNCHANGED <<cfg, cli>>
      BY <1>9 DEF BleStore, liveVars
    <2> QED
      BY <2>1, <2>2, <2>3, SaveKeepsWhole DEF StoreInv
  <1>10. CASE Reset
    <2>1. stored' = stored /\ cfg' = Defaults /\ cli'.at # "save"
      BY <1>10 DEF Reset, NoCommand
    <2> QED
      BY <2>1, DefaultsWhole DEF StoreInv
  <1> QED
    BY <1>1, <1>2, <1>3, <1>4, <1>5, <1>6, <1>7, <1>8, <1>9, <1>10 DEF Next

LEMMA RunsStep ==
    ASSUME StoreInv, RunsOnStored, Next
    PROVE  RunsOnStored'
  <1>1. CASE Boot
    <2>1. cfg' = StoredOrDefaults /\ livePrice' = cfg'.price
      BY <1>1 DEF Boot
    <2>2. CASE stored = Blank
      BY <1>1, <2>1, <2>2 DEF Boot, ConfigSave, StoredOrDefaults, RunsOnStored
    <2>3. CASE stored # Blank
      BY <1>1, <2>1, <2>3 DEF Boot, StoredOrDefaults, RunsOnStored
    <2> QED
      BY <2>2, <2>3
  <1>2. CASE MenuStore
    <2>1. cfg # Blank
      BY WholeNotBlank DEF StoreInv
    <2> QED
      BY <1>2, <2>1 DEF MenuStore, ConfigSave, StoredOrDefaults, RunsOnStored
  <1>3. CASE MenuAccept \/ Reset
    BY <1>3 DEF MenuAccept, Reset, RunsOnStored
  <1>4. CASE CliSave \/ CliFactory \/ BleStore
    BY <1>4 DEF CliSave, CliFactory, BleStore, RunsOnStored
  <1>5. CASE Serve \/ MenuOpen \/ MenuAdjust \/ MenuTurn \/ MenuCancel \/ CliRead
             \/ CliApply \/ BleApply
    <2>1. UNCHANGED <<stored, fault, cfg, livePrice, pending>>
      BY <1>5 DEF Serve, MenuOpen, MenuAdjust, MenuTurn, MenuCancel, CliRead,
         CliApply, BleApply, liveVars
    <2>2. app' \in {"idle", "vend", "menu"} => app \in {"idle", "vend", "menu"}
      BY <1>5 DEF Serve, MenuOpen, MenuAdjust, MenuTurn, MenuCancel, CliRead,
         CliApply, BleApply
    <2> QED
      BY <2>1, <2>2 DEF RunsOnStored, StoredOrDefaults
  <1> QED
    BY <1>1, <1>2, <1>3, <1>4, <1>5 DEF Next

LEMMA MenuStep ==
    ASSUME StoreInv, MenuInv, Next
    PROVE  MenuInv'
  <1>1. CASE MenuOpen
    <2>1. app' = "menu" /\ page' = 0 /\ draft' = [f \in MenuFields |-> cfg[f]]
      BY <1>1 DEF MenuOpen
    <2>2. Whole(draft', MenuFields)
      BY <2>1, RelayIsField DEF StoreInv, Whole
    <2> QED
      BY <2>1, <2>2 DEF MenuInv, NumPages
  <1>2. CASE MenuAdjust
    <2>1. PICK up \in BOOLEAN : draft' = Adjusted(draft, page, up)
      BY <1>2 DEF MenuAdjust
    <2>2. app = "menu" /\ page' = page
      BY <1>2 DEF MenuAdjust
    <2>3. /\ Whole(draft, MenuFields) /\ page \in 0 .. 9
          /\ page \in {1, 2} => Timed(draft)
          /\ page \in {7, 8} => draft.sensor
      BY <2>2 DEF MenuInv, NumPages
    <2>4. /\ Whole(draft', MenuFields)
          /\ page # 0 => draft'.mode = draft.mode
          /\ page # 6 => draft'.sensor = draft.sensor
      BY <2>1, <2>3, AdjustedWhole
    <2> QED
      BY <2>2, <2>3, <2>4 DEF MenuInv, NumPages, Timed
  <1>3. CASE MenuTurn
    <2>1. app = "menu" /\ draft' = draft /\ page' = NextPage(page, draft)
      BY <1>3 DEF MenuTurn
    <2>2. Whole(draft, MenuFields) /\ page \in 0 .. 9
      BY <2>1 DEF MenuInv, NumPages
    <2>3. /\ page' \in 0 .. 9
          /\ page' \in {1, 2} => Timed(draft)
          /\ page' \in {7, 8} => draft.sensor
      BY <2>1, <2>2, TurnApplies
    <2> QED
      BY <2>1, <2>2, <2>3 DEF MenuInv, NumPages, Timed
  <1>4. CASE Boot \/ Serve \/ MenuCancel \/ MenuAccept \/ MenuStore \/ Reset
    BY <1>4 DEF Boot, Serve, MenuCancel, MenuAccept, MenuStore, Reset, MenuInv
  <1>5. CASE CliRead \/ CliSave \/ CliApply \/ CliFactory \/ BleStore \/ BleApply
    BY <1>5 DEF CliRead, CliSave, CliApply, CliFactory, BleStore, BleApply, menuVars,
       MenuInv, Timed
  <1> QED
    BY <1>1, <1>2, <1>3, <1>4, <1>5 DEF Next

LEMMA SettingsInvStep ==
    ASSUME SettingsInv, [Next]_vars
    PROVE  SettingsInv'
  <1>1. CASE Next
    BY <1>1, StoreStep, RunsStep, MenuStep DEF SettingsInv
  <1>2. CASE UNCHANGED vars
    BY <1>2 DEF vars, liveVars, menuVars, SettingsInv, StoreInv, RunsOnStored, MenuInv,
       StoredOrDefaults, Timed
  <1> QED
    BY <1>1, <1>2

LEMMA SettingsAlways == Spec => []SettingsInv
BY SettingsInvInit, SettingsInvStep, PTL DEF Spec

(* The machine runs on what is stored, unless another writer has stored    *)
(* since and awaits a reset, or the fault of a refused write is showing:   *)
(* boot, menu, console and phone in any order (config_save's callers).     *)
THEOREM RunningIsStored == Spec => []DivergenceIsKnown
  <1>1. SettingsInv => DivergenceIsKnown
    BY DEF SettingsInv, RunsOnStored, DivergenceIsKnown
  <1> QED
    BY <1>1, SettingsAlways, PTL

(* No page is shown that cannot apply, and no relay time of zero is        *)
(* reached, from whatever was stored and in whatever order it is edited    *)
(* (config_menu_run).                                                      *)
THEOREM PagesApply == Spec => []PageApplies
  <1>1. SettingsInv => PageApplies
    BY DEF SettingsInv, MenuInv, Whole, PageApplies
  <1> QED
    BY <1>1, SettingsAlways, PTL

(* Neither the configuration nor the price changes under a customer or     *)
(* behind an open menu (README, "Config applies at IDLE").                 *)
THEOREM TermsAreKept == Spec => TermsHold
  <1>1. ASSUME [Next]_vars
        PROVE  LoopRuns /\ app' \notin {"saving", "boot"} => UNCHANGED <<cfg, livePrice>>
    <2>1. CASE Boot \/ MenuStore \/ MenuAccept \/ Reset
      BY <2>1 DEF Boot, MenuStore, MenuAccept, Reset, LoopRuns
    <2>2. CASE Serve \/ MenuOpen \/ MenuAdjust \/ MenuTurn \/ MenuCancel \/ CliRead
               \/ CliSave \/ CliApply \/ CliFactory \/ BleStore \/ BleApply
      BY <2>2 DEF Serve, MenuOpen, MenuAdjust, MenuTurn, MenuCancel, CliRead, CliSave,
         CliApply, CliFactory, BleStore, BleApply, liveVars
    <2>3. CASE UNCHANGED vars
      BY <2>3 DEF vars, liveVars
    <2> QED
      BY <1>1, <2>1, <2>2, <2>3 DEF Next
  <1> QED
    BY <1>1, PTL DEF Spec, TermsHold

-----------------------------------------------------------------------------
(* The buttons *)

StartStates == {"idle", "debounce", "held", "release", "long_held"}
ComboStates == {"idle", "debounce", "held", "long_held"}

Starts == [state : StartStates, db : Nat, hold : Nat,
           press : BOOLEAN, short : BOOLEAN, long : BOOLEAN]
Combos == [state : ComboStates, db : Nat, hold : Nat, long : BOOLEAN]
Gestures == [open : 0 .. Quiet, clean : BOOLEAN, acts : 0 .. 2]

\* A clean gesture that has done its one thing
Spent(g) == g.clean /\ g.acts > 0

\* A recogniser that takes the contact for closed has seen it closed; a clean press that
\* acted and is still down is past the debounce that acts.
Linked(m, g) ==
    /\ m.state \in {"debounce", "held", "long_held"} => g.open = 0
    /\ Spent(g) /\ g.open = 0 => m.state \in {"held", "long_held"}
    /\ g.clean => g.acts <= 1

\* In the menu a press acts when it is released or when it is long, so that one still down
\* has not acted yet.
MenuLinked(m, g) ==
    /\ Spent(g) => g.open > 0
    /\ ~m.short
    /\ m.long => m.state = "long_held"

StartInv ==
    /\ start \in Starts /\ press \in Gestures
    /\ Linked(start, press)
    /\ IF screen = "menu" THEN MenuLinked(start, press) ELSE ~start.press

\* A clean hold that acted is in the recogniser's last state until it is over.
ComboLinked(m, g) ==
    /\ Spent(g) => m.state = IF g.open = 0 THEN "long_held" ELSE "idle"
    /\ m.state \in {"debounce", "held", "long_held"} => g.open = 0
    /\ g.clean => g.acts <= 1

ComboInv ==
    /\ combo \in Combos /\ both \in Gestures
    /\ ~combo.long
    /\ ComboLinked(combo, both)

ButtonsInv == StartInv /\ ComboInv

-----------------------------------------------------------------------------
(* Gestures                                                                *)

LEMMA QuietNat == Quiet \in Nat /\ Quiet > 2
BY ButtonsAssumption DEF Quiet

LEMMA NewIsGesture == NewGesture \in Gestures /\ NoGesture \in Gestures
BY QuietNat DEF NewGesture, NoGesture, Gestures

\* What a sample does to a gesture
SeenMoves(g, low, h) ==
    /\ h \in Gestures
    /\ low => h.open = 0
    /\ ~low => /\ h.open = IF g.open < Quiet THEN g.open + 1 ELSE g.open
               /\ h.clean = g.clean /\ h.acts = g.acts
    /\ low /\ Spent(h) => g.open = 0 /\ Spent(g)
    /\ low /\ h.clean => h.acts = 0 \/ (g.clean /\ h.acts = g.acts)
    /\ low /\ h.clean => g.open = 0 \/ g.open = Quiet

LEMMA SeenGesture ==
    ASSUME NEW g \in Gestures, NEW low \in BOOLEAN
    PROVE  SeenMoves(g, low, Seen(g, low))
  <1>1. 0 \in 0 .. Quiet
    BY QuietNat
  <1>2. CASE ~low
    <2> DEFINE next == IF g.open < Quiet THEN g.open + 1 ELSE g.open
    <2>1. Seen(g, low) = [g EXCEPT !.open = next]
      BY <1>2 DEF Seen
    <2>2. next \in 0 .. Quiet
      BY QuietNat DEF Gestures
    <2>3. next = IF g.open < Quiet THEN g.open + 1 ELSE g.open
      OBVIOUS
    <2> HIDE DEF next
    <2>4. /\ [g EXCEPT !.open = next] \in Gestures
          /\ [g EXCEPT !.open = next].open = next
          /\ [g EXCEPT !.open = next].clean = g.clean
          /\ [g EXCEPT !.open = next].acts = g.acts
      BY <2>2 DEF Gestures
    <2>5. SeenMoves(g, low, [g EXCEPT !.open = next])
      BY <1>2, <2>3, <2>4 DEF SeenMoves
    <2>6. QED
      BY <2>1, <2>5
  <1>3. CASE low /\ g.open = Quiet
    <2>1. Seen(g, low) = NewGesture
      BY <1>3 DEF Seen
    <2>2. SeenMoves(g, low, NewGesture)
      BY <1>3, NewIsGesture DEF SeenMoves, NewGesture, Spent
    <2>3. QED
      BY <2>1, <2>2
  <1>4. CASE low /\ g.open # Quiet /\ g.clean /\ g.open = 0
    <2>1. Seen(g, low) = [g EXCEPT !.open = 0, !.clean = TRUE]
      BY <1>4 DEF Seen
    <2>2. SeenMoves(g, low, [g EXCEPT !.open = 0, !.clean = TRUE])
      BY <1>1, <1>4 DEF SeenMoves, Gestures, Spent
    <2>3. QED
      BY <2>1, <2>2
  <1>5. CASE low /\ g.open # Quiet /\ ~(g.clean /\ g.open = 0)
    <2>1. Seen(g, low) = [g EXCEPT !.open = 0, !.clean = FALSE]
      BY <1>5 DEF Seen
    <2>2. SeenMoves(g, low, [g EXCEPT !.open = 0, !.clean = FALSE])
      BY <1>1, <1>5 DEF SeenMoves, Gestures, Spent
    <2>3. QED
      BY <2>1, <2>2
  <1>6. QED
    BY <1>2, <1>3, <1>4, <1>5

\* A gesture that has not acted acts once.
LEMMA ActsOnce ==
    ASSUME NEW g \in Gestures, g.open # Quiet, g.clean => g.acts = 0
    PROVE  /\ Acts(g) \in Gestures
           /\ Acts(g).open = g.open /\ Acts(g).clean = g.clean
           /\ Acts(g).clean => Acts(g).acts = 1
  <1>1. CASE g.acts > 0
    BY <1>1 DEF Acts, Gestures
  <1>2. CASE g.acts = 0
    BY <1>2 DEF Acts, Gestures
  <1>3. QED
    BY <1>1, <1>2 DEF Gestures

-----------------------------------------------------------------------------
(* One sample                                                              *)

\* START from one sample to the next: what raises a flag, and what takes the contact for
\* closed
StartMoves(m, low, n) ==
    /\ n \in Starts
    /\ n.press => m.press \/ (low /\ m.state = "debounce" /\ n.state = "held")
    /\ n.short => m.short \/ (~low /\ m.state = "held" /\ n.state = "release")
    /\ n.long => m.long \/ (low /\ m.state = "held" /\ n.state = "long_held")
    /\ n.state \in {"debounce", "held", "long_held"} => low
    /\ low /\ m.state \in {"held", "long_held"} => n.state \in {"held", "long_held"}
    /\ low /\ m.state = "long_held" => n.state = "long_held"

LEMMA StartSample ==
    ASSUME NEW m \in Starts, NEW low \in BOOLEAN
    PROVE  StartMoves(m, low, StartUpdate(m, low))
  <1>1. CASE m.state = "idle"
    BY <1>1 DEF StartUpdate, StartMoves, Starts, StartStates
  <1>2. CASE m.state = "debounce"
    <2>1. CASE ~low
      <3>1. StartUpdate(m, low) = [m EXCEPT !.state = "idle", !.db = 0]
        BY <1>2, <2>1 DEF StartUpdate
      <3>2. StartMoves(m, low, [m EXCEPT !.state = "idle", !.db = 0])
        BY <1>2, <2>1 DEF StartMoves, Starts, StartStates
      <3>3. QED
        BY <3>1, <3>2
    <2>2. CASE low /\ m.db + 1 >= DbThresh
      <3>1. StartUpdate(m, low) = [m EXCEPT !.state = "held", !.db = 0, !.press = TRUE]
        BY <1>2, <2>2 DEF StartUpdate
      <3>2. StartMoves(m, low, [m EXCEPT !.state = "held", !.db = 0, !.press = TRUE])
        BY <1>2, <2>2 DEF StartMoves, Starts, StartStates
      <3>3. QED
        BY <3>1, <3>2
    <2>3. CASE low /\ ~(m.db + 1 >= DbThresh)
      <3> DEFINE k == m.db + 1
      <3>1. StartUpdate(m, low) = [m EXCEPT !.db = k]
        BY <1>2, <2>3 DEF StartUpdate
      <3>2. k \in Nat
        BY DEF Starts
      <3> HIDE DEF k
      <3>3. StartMoves(m, low, [m EXCEPT !.db = k])
        BY <1>2, <2>3, <3>2 DEF StartMoves, Starts, StartStates
      <3>4. QED
        BY <3>1, <3>3
    <2>4. QED
      BY <2>1, <2>2, <2>3
  <1>3. CASE m.state = "held"
    <2>1. CASE ~low
      <3>1. StartUpdate(m, low) = [m EXCEPT !.state = "release", !.short = TRUE]
        BY <1>3, <2>1 DEF StartUpdate
      <3>2. StartMoves(m, low, [m EXCEPT !.state = "release", !.short = TRUE])
        BY <1>3, <2>1 DEF StartMoves, Starts, StartStates
      <3>3. QED
        BY <3>1, <3>2
    <2>2. CASE low /\ m.hold + 1 >= LongTicks
      <3>1. StartUpdate(m, low) = [m EXCEPT !.state = "long_held", !.hold = 0, !.long = TRUE]
        BY <1>3, <2>2 DEF StartUpdate
      <3>2. StartMoves(m, low, [m EXCEPT !.state = "long_held", !.hold = 0, !.long = TRUE])
        BY <1>3, <2>2 DEF StartMoves, Starts, StartStates
      <3>3. QED
        BY <3>1, <3>2
    <2>3. CASE low /\ ~(m.hold + 1 >= LongTicks)
      <3> DEFINE k == m.hold + 1
      <3>1. StartUpdate(m, low) = [m EXCEPT !.hold = k]
        BY <1>3, <2>3 DEF StartUpdate
      <3>2. k \in Nat
        BY DEF Starts
      <3> HIDE DEF k
      <3>3. StartMoves(m, low, [m EXCEPT !.hold = k])
        BY <1>3, <2>3, <3>2 DEF StartMoves, Starts, StartStates
      <3>4. QED
        BY <3>1, <3>3
    <2>4. QED
      BY <2>1, <2>2, <2>3
  <1>4. CASE m.state = "long_held"
    BY <1>4 DEF StartUpdate, StartMoves, Starts, StartStates
  <1>5. CASE m.state = "release"
    <2>1. CASE low
      <3>1. StartUpdate(m, low) = [m EXCEPT !.state = "held", !.db = 0]
        BY <1>5, <2>1 DEF StartUpdate
      <3>2. StartMoves(m, low, [m EXCEPT !.state = "held", !.db = 0])
        BY <1>5, <2>1 DEF StartMoves, Starts, StartStates
      <3>3. QED
        BY <3>1, <3>2
    <2>2. CASE ~low /\ m.db + 1 >= DbThresh
      <3>1. StartUpdate(m, low) = [m EXCEPT !.state = "idle", !.db = 0, !.hold = 0]
        BY <1>5, <2>2 DEF StartUpdate
      <3>2. StartMoves(m, low, [m EXCEPT !.state = "idle", !.db = 0, !.hold = 0])
        BY <1>5, <2>2 DEF StartMoves, Starts, StartStates
      <3>3. QED
        BY <3>1, <3>2
    <2>3. CASE ~low /\ ~(m.db + 1 >= DbThresh)
      <3> DEFINE k == m.db + 1
      <3>1. StartUpdate(m, low) = [m EXCEPT !.db = k]
        BY <1>5, <2>3 DEF StartUpdate
      <3>2. k \in Nat
        BY DEF Starts
      <3> HIDE DEF k
      <3>3. StartMoves(m, low, [m EXCEPT !.db = k])
        BY <1>5, <2>3, <3>2 DEF StartMoves, Starts, StartStates
      <3>4. QED
        BY <3>1, <3>3
    <2>4. QED
      BY <2>1, <2>2, <2>3
  <1>6. QED
    BY <1>1, <1>2, <1>3, <1>4, <1>5 DEF Starts, StartStates

\* The pair of buttons
ComboMoves(m, low, n) ==
    /\ n \in Combos
    /\ n.long => low /\ m.state = "held" /\ n.state = "long_held"
    /\ ~low => n.state = "idle"
    /\ low /\ m.state = "long_held" => n.state = "long_held"

LEMMA ComboSample ==
    ASSUME NEW m \in Combos, ~m.long, NEW low \in BOOLEAN
    PROVE  ComboMoves(m, low, ComboUpdate(m, low))
  <1>1. CASE m.state = "debounce"
    <2>1. CASE ~low
      <3>1. ComboUpdate(m, low) = [m EXCEPT !.state = "idle", !.db = 0]
        BY <1>1, <2>1 DEF ComboUpdate
      <3>2. ComboMoves(m, low, [m EXCEPT !.state = "idle", !.db = 0])
        BY <1>1, <2>1 DEF ComboMoves, Combos, ComboStates, ComboIdle
      <3>3. QED
        BY <3>1, <3>2
    <2>2. CASE low /\ m.db + 1 >= DbThresh
      <3>1. ComboUpdate(m, low) = [m EXCEPT !.state = "held", !.db = 0]
        BY <1>1, <2>2 DEF ComboUpdate
      <3>2. ComboMoves(m, low, [m EXCEPT !.state = "held", !.db = 0])
        BY <1>1, <2>2 DEF ComboMoves, Combos, ComboStates, ComboIdle
      <3>3. QED
        BY <3>1, <3>2
    <2>3. CASE low /\ ~(m.db + 1 >= DbThresh)
      <3> DEFINE k == m.db + 1
      <3>1. ComboUpdate(m, low) = [m EXCEPT !.db = k]
        BY <1>1, <2>3 DEF ComboUpdate
      <3>2. k \in Nat
        BY DEF Combos
      <3> HIDE DEF k
      <3>3. ComboMoves(m, low, [m EXCEPT !.db = k])
        BY <1>1, <2>3, <3>2 DEF ComboMoves, Combos, ComboStates
      <3>4. QED
        BY <3>1, <3>3
    <2>4. QED
      BY <2>1, <2>2, <2>3
  <1>2. CASE m.state = "held"
    <2>1. CASE ~low
      <3>1. ComboUpdate(m, low) = ComboIdle
        BY <1>2, <2>1 DEF ComboUpdate
      <3>2. ComboMoves(m, low, ComboIdle)
        BY <1>2, <2>1 DEF ComboMoves, Combos, ComboStates, ComboIdle
      <3>3. QED
        BY <3>1, <3>2
    <2>2. CASE low /\ m.hold + 1 >= LongTicks
      <3>1. ComboUpdate(m, low) = [m EXCEPT !.state = "long_held", !.hold = 0, !.long = TRUE]
        BY <1>2, <2>2 DEF ComboUpdate
      <3>2. ComboMoves(m, low, [m EXCEPT !.state = "long_held", !.hold = 0, !.long = TRUE])
        BY <1>2, <2>2 DEF ComboMoves, Combos, ComboStates, ComboIdle
      <3>3. QED
        BY <3>1, <3>2
    <2>3. CASE low /\ ~(m.hold + 1 >= LongTicks)
      <3> DEFINE k == m.hold + 1
      <3>1. ComboUpdate(m, low) = [m EXCEPT !.hold = k]
        BY <1>2, <2>3 DEF ComboUpdate
      <3>2. k \in Nat
        BY DEF Combos
      <3> HIDE DEF k
      <3>3. ComboMoves(m, low, [m EXCEPT !.hold = k])
        BY <1>2, <2>3, <3>2 DEF ComboMoves, Combos, ComboStates
      <3>4. QED
        BY <3>1, <3>3
    <2>4. QED
      BY <2>1, <2>2, <2>3
  <1>3. CASE m.state = "idle"
    BY <1>3 DEF ComboUpdate, ComboMoves, Combos, ComboStates
  <1>4. CASE m.state = "long_held"
    BY <1>4 DEF ComboUpdate, ComboMoves, Combos, ComboStates, ComboIdle
  <1>5. QED
    BY <1>1, <1>2, <1>3, <1>4 DEF Combos, ComboStates

-----------------------------------------------------------------------------
(* The link between a recogniser and its gesture                           *)

\* It survives a sample that both see.
LEMMA LinkedStays ==
    ASSUME NEW m \in Starts, NEW g \in Gestures, NEW low \in BOOLEAN, NEW n, NEW h,
           StartMoves(m, low, n), SeenMoves(g, low, h), Linked(m, g)
    PROVE  Linked(n, h)
  <1>1. CASE low
    BY <1>1 DEF StartMoves, SeenMoves, Linked, Spent, Gestures
  <1>2. CASE ~low
    BY <1>2, QuietNat DEF StartMoves, SeenMoves, Linked, Spent, Gestures
  <1>3. QED
    BY <1>1, <1>2

\* It is about the state of the recogniser, not about its flags.
LEMMA LinkedState ==
    ASSUME NEW m, NEW n, NEW g, n.state = m.state, Linked(m, g)
    PROVE  Linked(n, g)
BY DEF Linked

\* A gesture that has not acted may be exchanged for another one.
LEMMA LinkedUnseen ==
    ASSUME NEW m, NEW g \in Gestures, Linked(m, g), NEW h \in Unseen(g)
    PROVE  h \in Gestures /\ Linked(m, h)
  <1>1. NewGesture \in Gestures /\ NewGesture.open = 0 /\ NewGesture.acts = 0
    BY NewIsGesture DEF NewGesture
  <1>2. Linked(m, NewGesture)
    BY <1>1 DEF Linked, Spent
  <1>3. QED
    BY <1>1, <1>2 DEF Unseen

\* It may act once, if the recogniser is past the debounce.
LEMMA LinkedActs ==
    ASSUME NEW m, NEW g \in Gestures, Linked(m, g), g.open # Quiet,
           g.clean => g.acts = 0,
           g.clean /\ g.open = 0 => m.state \in {"held", "long_held"}
    PROVE  /\ Acts(g) \in Gestures /\ Acts(g).open = g.open /\ Acts(g).clean = g.clean
           /\ Linked(m, Acts(g))
BY ActsOnce DEF Linked, Spent

\* A press is confirmed at a sample that saw it, and it had not acted before.
LEMMA PressIsFirst ==
    ASSUME NEW m \in Starts, NEW g \in Gestures, NEW low \in BOOLEAN, NEW n, NEW h,
           StartMoves(m, low, n), SeenMoves(g, low, h), Linked(m, g), ~m.press, n.press
    PROVE  h.open # Quiet /\ (h.clean => h.acts = 0) /\ n.state = "held"
  <1>1. low /\ m.state = "debounce" /\ n.state = "held"
    BY DEF StartMoves
  <1>2. h.open = 0 /\ g.open = 0
    BY <1>1 DEF SeenMoves, Linked
  <1>3. g.clean => g.acts = 0
    BY <1>1, <1>2 DEF Linked, Spent, Gestures
  <1>4. h.clean => h.acts = 0
    BY <1>1, <1>3 DEF SeenMoves
  <1>5. QED
    BY <1>1, <1>2, <1>4, QuietNat

\* One sample in a loop where a press counts: it acts, or nothing does.
LEMMA PressLoop ==
    ASSUME StartInv, screen # "menu", NEW low \in BOOLEAN, NEW s, NEW p,
           StartMoves(start, low, s), SeenMoves(press, low, p)
    PROVE  /\ s \in Starts /\ p \in Gestures /\ Linked(s, p)
           /\ s.press => Acts(p) \in Gestures /\ Linked(s, Acts(p))
  <1>1. start \in Starts /\ press \in Gestures /\ Linked(start, press) /\ ~start.press
    BY DEF StartInv
  <1>2. s \in Starts /\ p \in Gestures /\ Linked(s, p)
    BY <1>1, LinkedStays DEF StartMoves, SeenMoves
  <1>3. ASSUME s.press PROVE Acts(p) \in Gestures /\ Linked(s, Acts(p))
    BY <1>1, <1>2, <1>3, PressIsFirst, LinkedActs
  <1>4. QED
    BY <1>2, <1>3

\* The flags put down, in whatever way
LEMMA FlushedState ==
    ASSUME NEW m \in Starts
    PROVE  /\ Flushed(m) \in Starts /\ Flushed(m).state = m.state
           /\ ~Flushed(m).press /\ ~Flushed(m).short /\ ~Flushed(m).long
           /\ [m EXCEPT !.press = FALSE] \in Starts
           /\ [m EXCEPT !.press = FALSE].state = m.state
           /\ ~[m EXCEPT !.press = FALSE].press
BY DEF Flushed, Starts

-----------------------------------------------------------------------------
(* START, action by action                                                 *)

\* The recogniser and its history leave a loop in which a press counts.
LEMMA AfterPressLoop ==
    ASSUME NEW s \in Starts, NEW g \in Gestures, Linked(s, g), screen' # "menu",
           start' = [s EXCEPT !.press = FALSE] \/ start' = Flushed(s), press' = g
    PROVE  StartInv'
BY FlushedState, LinkedState DEF StartInv

LEMMA StartIdlePass ==
    ASSUME StartInv, NEW closed, IdlePass(closed)
    PROVE  StartInv'
  <1> DEFINE low == "START" \in closed
             s   == StartUpdate(start, low)
             p   == Seen(press, low)
  <1>1. low \in BOOLEAN
    OBVIOUS
  <1>2. /\ screen = "idle" /\ screen' \in {"idle", "away"}
        /\ start' = [s EXCEPT !.press = FALSE]
        /\ \/ s.press /\ press' \in Unseen(Acts(p))
           \/ press' \in Unseen(p)
           \/ press' = p
    BY DEF IdlePass
  <1> HIDE DEF low
  <1>3. StartMoves(start, low, s) /\ SeenMoves(press, low, p)
    BY <1>1, StartSample, SeenGesture DEF StartInv
  <1> HIDE DEF s, p
  <1>4. /\ s \in Starts /\ p \in Gestures /\ Linked(s, p)
        /\ s.press => Acts(p) \in Gestures /\ Linked(s, Acts(p))
    BY <1>1, <1>2, <1>3, PressLoop
  <1>5. press' \in Gestures /\ Linked(s, press')
    BY <1>2, <1>4, LinkedUnseen
  <1>6. QED
    BY <1>2, <1>4, <1>5, AfterPressLoop

LEMMA StartSessionPass ==
    ASSUME StartInv, NEW closed, SessionPass(closed)
    PROVE  StartInv'
  <1> DEFINE low == "START" \in closed
             s   == StartUpdate(start, low)
             p   == Seen(press, low)
  <1>1. low \in BOOLEAN
    OBVIOUS
  <1>2. /\ screen = "session" /\ screen' \in {"session", "away"}
        /\ start' = [s EXCEPT !.press = FALSE]
        /\ press' = IF s.press THEN Acts(p) ELSE p
    BY DEF SessionPass
  <1> HIDE DEF low
  <1>3. StartMoves(start, low, s) /\ SeenMoves(press, low, p)
    BY <1>1, StartSample, SeenGesture DEF StartInv
  <1> HIDE DEF s, p
  <1>4. s \in Starts /\ press' \in Gestures /\ Linked(s, press')
    BY <1>1, <1>2, <1>3, PressLoop
  <1>5. QED
    BY <1>2, <1>4, AfterPressLoop

LEMMA StartTestPass ==
    ASSUME StartInv, NEW closed, NEW over \in BOOLEAN, TestPass(closed, over)
    PROVE  StartInv'
  <1> DEFINE low == "START" \in closed
             s   == StartUpdate(start, low)
             p   == Seen(press, low)
  <1>1. low \in BOOLEAN
    OBVIOUS
  <1>2. /\ screen = "test" /\ screen' \in {"idle", "test"}
        /\ start' = Flushed(s) \/ start' = [s EXCEPT !.press = FALSE]
        /\ press' = IF s.press THEN Acts(p) ELSE p
    BY DEF TestPass
  <1> HIDE DEF low
  <1>3. StartMoves(start, low, s) /\ SeenMoves(press, low, p)
    BY <1>1, StartSample, SeenGesture DEF StartInv
  <1> HIDE DEF s, p
  <1>4. s \in Starts /\ press' \in Gestures /\ Linked(s, press')
    BY <1>1, <1>2, <1>3, PressLoop
  <1>5. QED
    BY <1>2, <1>4, AfterPressLoop

\* A press that is down when a loop is entered counts there from nothing.
LEMMA ActsReset ==
    ASSUME NEW m, NEW g \in Gestures, Linked(m, g)
    PROVE  LET h == [g EXCEPT !.acts = 0]
           IN  h \in Gestures /\ Linked(m, h) /\ ~Spent(h)
BY DEF Linked, Spent, Gestures

LEMMA StartEnterTest ==
    ASSUME StartInv, NEW closed, EnterTest(closed)
    PROVE  StartInv'
  <1>1. /\ screen' = "test" /\ start' = Flushed(start) /\ press' = [press EXCEPT !.acts = 0]
        /\ start \in Starts /\ press \in Gestures /\ Linked(start, press)
    BY DEF EnterTest, StartInv
  <1>2. QED
    BY <1>1, ActsReset, AfterPressLoop

LEMMA StartIdleCombo ==
    ASSUME StartInv, NEW closed, IdleCombo(closed)
    PROVE  StartInv'
  <1>1. /\ screen' = "menu" /\ start' = Flushed(start)
        /\ \E g \in Unseen(press) : press' = [g EXCEPT !.acts = 0]
    BY DEF IdleCombo, OpenMenu
  <1>2. PICK g \in Unseen(press) : press' = [g EXCEPT !.acts = 0]
    BY <1>1
  <1>3. start \in Starts /\ g \in Gestures /\ Linked(start, g)
    BY LinkedUnseen DEF StartInv
  <1>4. press' \in Gestures /\ Linked(start, press') /\ ~Spent(press')
    BY <1>2, <1>3, ActsReset
  <1>5. start' \in Starts /\ start'.state = start.state /\ ~start'.short /\ ~start'.long
    BY <1>1, <1>3, FlushedState
  <1>6. Linked(start', press')
    BY <1>4, <1>5, LinkedState
  <1>7. QED
    BY <1>1, <1>4, <1>5, <1>6 DEF StartInv, MenuLinked

LEMMA StartResume ==
    ASSUME StartInv, Resume
    PROVE  StartInv'
  <1>1. screen = "away" /\ screen' \in {"idle", "session"} /\ start' = start
        /\ press' \in Unseen(press)
    BY DEF Resume
  <1>2. QED
    BY <1>1, LinkedUnseen DEF StartInv

LEMMA StartMenuSave ==
    ASSUME StartInv, NEW closed, MenuSave(closed)
    PROVE  StartInv'
  <1>1. screen' = "away" /\ start' = Flushed(start) /\ press' = press
    BY DEF MenuSave
  <1>2. QED
    BY <1>1, AfterPressLoop DEF StartInv

-----------------------------------------------------------------------------
(* START in the menu                                                       *)

\* A long press that is taken in the menu has not acted.
LEMMA MenuLong ==
    ASSUME NEW m \in Starts, NEW g \in Gestures, NEW low \in BOOLEAN, NEW n, NEW h,
           StartMoves(m, low, n), SeenMoves(g, low, h), Linked(m, g),
           Spent(g) => g.open > 0, m.long => m.state = "long_held", n.long
    PROVE  h.open # Quiet /\ (h.clean => h.acts = 0) /\ (h.open = 0 => n.state = "long_held")
  <1>1. m.state \in {"held", "long_held"} /\ (low => n.state = "long_held")
    BY DEF StartMoves
  <1>2. g.open = 0 /\ (g.clean => g.acts = 0)
    BY <1>1 DEF Linked, Spent, Gestures
  <1>3. h.open = (IF low THEN 0 ELSE 1) /\ (h.clean => h.acts = 0)
    BY <1>2, QuietNat DEF SeenMoves
  <1>4. QED
    BY <1>1, <1>3, QuietNat

\* A press that is released in the menu has not acted.
LEMMA MenuShort ==
    ASSUME NEW m \in Starts, NEW g \in Gestures, NEW low \in BOOLEAN, NEW n, NEW h,
           StartMoves(m, low, n), SeenMoves(g, low, h), Linked(m, g),
           Spent(g) => g.open > 0, ~m.short, n.short
    PROVE  h.open = 1 /\ (h.clean => h.acts = 0)
  <1>1. m.state = "held" /\ ~low
    BY DEF StartMoves
  <1>2. g.open = 0 /\ (g.clean => g.acts = 0)
    BY <1>1 DEF Linked, Spent, Gestures
  <1>3. QED
    BY <1>1, <1>2, QuietNat DEF SeenMoves

\* A press that is still down in the menu has not acted.
LEMMA MenuSample ==
    ASSUME NEW m \in Starts, NEW g \in Gestures, NEW low \in BOOLEAN, NEW n, NEW h,
           StartMoves(m, low, n), SeenMoves(g, low, h), Linked(m, g),
           Spent(g) => g.open > 0
    PROVE  /\ n \in Starts /\ h \in Gestures /\ Linked(n, h)
           /\ Spent(h) => h.open > 0
  <1>1. n \in Starts /\ h \in Gestures /\ Linked(n, h)
    BY LinkedStays DEF StartMoves, SeenMoves
  <1>2. CASE low
    BY <1>1, <1>2 DEF SeenMoves
  <1>3. CASE ~low
    BY <1>1, <1>3, QuietNat DEF SeenMoves, Spent, Gestures
  <1>4. QED
    BY <1>2, <1>3

\* SHORT is put down when it has been taken.
LEMMA ShortDown ==
    ASSUME NEW m \in Starts
    PROVE  LET n == [m EXCEPT !.short = FALSE]
           IN  n \in Starts /\ n.state = m.state /\ n.long = m.long /\ ~n.short
BY DEF Starts

\* A page is turned by a press that is open when the second sample has been taken, or is
\* no longer clean; the press has not acted before.
LEMMA MenuReleased ==
    ASSUME NEW m \in Starts, NEW g \in Gestures, Linked(m, g), m.short,
           m.long => m.state = "long_held",
           g.open # Quiet, g.clean => g.acts = 0 /\ g.open # 0
    PROVE  LET n == [m EXCEPT !.short = FALSE]
           IN  /\ n \in Starts /\ Acts(g) \in Gestures
               /\ Linked(n, Acts(g)) /\ MenuLinked(n, Acts(g))
  <1> DEFINE n == [m EXCEPT !.short = FALSE]
  <1>1. n \in Starts /\ n.state = m.state /\ n.long = m.long /\ ~n.short
    BY ShortDown
  <1> HIDE DEF n
  <1>2. /\ Acts(g) \in Gestures /\ Linked(m, Acts(g))
        /\ Acts(g).open = g.open /\ Acts(g).clean = g.clean
    BY LinkedActs
  <1>3. Linked(n, Acts(g))
    BY <1>1, <1>2, LinkedState
  <1>4. Spent(Acts(g)) => Acts(g).open > 0
    BY <1>2 DEF Spent, Gestures
  <1>5. QED
    BY <1>1, <1>2, <1>3, <1>4 DEF MenuLinked, n

\* The menu goes on: nothing was released, or a page was turned.
LEMMA MenuGoesOn ==
    ASSUME NEW m \in Starts, NEW g \in Gestures, Linked(m, g),
           m.long => m.state = "long_held", Spent(g) => g.open > 0,
           m.short => g.open # Quiet /\ (g.clean => g.acts = 0 /\ g.open # 0),
           screen' = "menu", start' = [m EXCEPT !.short = FALSE],
           press' = IF m.short THEN Acts(g) ELSE g
    PROVE  StartInv'
  <1>1. CASE m.short
    BY <1>1, MenuReleased DEF StartInv
  <1>2. CASE ~m.short
    <2>1. start' \in Starts /\ start'.state = m.state /\ start'.long = m.long /\ ~start'.short
      BY ShortDown
    <2>2. Linked(start', g)
      BY <2>1, LinkedState
    <2>3. QED
      BY <1>2, <2>1, <2>2 DEF StartInv, MenuLinked
  <1>3. QED
    BY <1>1, <1>2

LEMMA StartMenuPass ==
    ASSUME StartInv, NEW closed, NEW again, MenuPass(closed, again)
    PROVE  StartInv'
  <1> DEFINE low1 == "START" \in closed
             low2 == "START" \in again
             s1   == StartUpdate(start, low1)
             p1   == Seen(press, low1)
             t    == StartUpdate(s1, low2)
             q    == Seen(p1, low2)
             s2   == IF s1.long \/ again = {} THEN s1 ELSE t
             p2   == IF s1.long \/ again = {} THEN p1 ELSE q
  <1>1. /\ screen = "menu" /\ screen' = IF s1.long THEN "away" ELSE "menu"
        /\ start' = IF s1.long THEN Flushed(s2) ELSE [s2 EXCEPT !.short = FALSE]
        /\ press' = IF s1.long \/ s2.short THEN Acts(p2) ELSE p2
    BY DEF MenuPass, EditPoll
  <1>2. low1 \in BOOLEAN /\ low2 \in BOOLEAN
    OBVIOUS
  <1>3. /\ start \in Starts /\ press \in Gestures /\ Linked(start, press)
        /\ MenuLinked(start, press)
    BY <1>1 DEF StartInv
  <1> HIDE DEF low1, low2
  <1>4. StartMoves(start, low1, s1) /\ SeenMoves(press, low1, p1)
    BY <1>2, <1>3, StartSample, SeenGesture
  <1>5. s1 \in Starts /\ p1 \in Gestures
    BY <1>4 DEF StartMoves, SeenMoves
  <1> HIDE DEF s1, p1
  <1>6. StartMoves(s1, low2, t) /\ SeenMoves(p1, low2, q)
    BY <1>2, <1>5, StartSample, SeenGesture
  <1> HIDE DEF t, q
  <1>7. /\ s1 \in Starts /\ p1 \in Gestures /\ Linked(s1, p1)
        /\ Spent(p1) => p1.open > 0
        /\ s1.long => /\ p1.open # Quiet /\ (p1.clean => p1.acts = 0)
                      /\ p1.open = 0 => s1.state = "long_held"
        /\ s1.short => p1.open = 1 /\ (p1.clean => p1.acts = 0)
    <2>1. /\ Spent(press) => press.open > 0
          /\ ~start.short /\ (start.long => start.state = "long_held")
      BY <1>3 DEF MenuLinked
    <2>2. /\ s1 \in Starts /\ p1 \in Gestures /\ Linked(s1, p1)
          /\ Spent(p1) => p1.open > 0
      BY <1>2, <1>3, <1>4, <2>1, MenuSample
    <2>3. ASSUME s1.long
          PROVE  /\ p1.open # Quiet /\ (p1.clean => p1.acts = 0)
                 /\ p1.open = 0 => s1.state = "long_held"
      BY <1>2, <1>3, <1>4, <2>1, <2>3, MenuLong
    <2>4. ASSUME s1.short PROVE p1.open = 1 /\ (p1.clean => p1.acts = 0)
      BY <1>2, <1>3, <1>4, <2>1, <2>4, MenuShort
    <2>5. QED
      BY <2>2, <2>3, <2>4
  <1>8. CASE s1.long
    <2>1. start' = Flushed(s1) /\ press' = Acts(p1) /\ screen' = "away"
      BY <1>1, <1>8
    <2>2. Linked(s1, Acts(p1)) /\ Acts(p1) \in Gestures
      BY <1>7, <1>8, LinkedActs
    <2>3. QED
      BY <1>7, <2>1, <2>2, AfterPressLoop
  <1>9. CASE ~s1.long /\ again = {}
    <2>1. /\ start' = [s1 EXCEPT !.short = FALSE] /\ screen' = "menu"
          /\ press' = IF s1.short THEN Acts(p1) ELSE p1
      BY <1>1, <1>9
    <2>2. s1.short => p1.open # Quiet /\ (p1.clean => p1.acts = 0 /\ p1.open # 0)
      BY <1>7, QuietNat
    <2>3. QED
      BY <1>7, <1>9, <2>1, <2>2, MenuGoesOn
  <1>10. CASE ~s1.long /\ again # {}
    <2>1. /\ start' = [t EXCEPT !.short = FALSE] /\ screen' = "menu"
          /\ press' = IF t.short THEN Acts(q) ELSE q
      BY <1>1, <1>10
    <2>2. /\ t \in Starts /\ q \in Gestures /\ Linked(t, q)
          /\ Spent(q) => q.open > 0
      BY <1>2, <1>6, <1>7, MenuSample
    <2>3. t.long => t.state = "long_held"
      BY <1>6, <1>10 DEF StartMoves
    <2>4. ASSUME t.short PROVE q.open # Quiet /\ (q.clean => q.acts = 0 /\ q.open # 0)
      <3>1. CASE ~s1.short
        <4>1. q.open = 1 /\ (q.clean => q.acts = 0)
          BY <1>2, <1>6, <1>7, <2>4, <3>1, MenuShort
        <4>2. QED
          BY <4>1, QuietNat
      <3>2. CASE s1.short /\ low2
        BY <1>6, <1>7, <3>2, QuietNat DEF SeenMoves
      <3>3. CASE s1.short /\ ~low2
        BY <1>6, <1>7, <3>3, QuietNat DEF SeenMoves
      <3>4. QED
        BY <3>1, <3>2, <3>3
    <2>5. QED
      BY <2>1, <2>2, <2>3, <2>4, MenuGoesOn
  <1>11. QED
    BY <1>8, <1>9, <1>10

-----------------------------------------------------------------------------
(* The hold of both buttons                                                *)

\* One sample: the hold goes on as it was, or it fires and has not acted before.
LEMMA ComboPass ==
    ASSUME ComboInv, NEW low \in BOOLEAN, NEW n, NEW h,
           ComboMoves(combo, low, n), SeenMoves(both, low, h)
    PROVE  LET m == [n EXCEPT !.long = FALSE]
           IN  /\ m \in Combos /\ ~m.long /\ h \in Gestures
               /\ ComboLinked(m, h)
               /\ n.long => Acts(h) \in Gestures /\ ComboLinked(m, Acts(h))
  <1> DEFINE m == [n EXCEPT !.long = FALSE]
  <1>1. n \in Combos /\ h \in Gestures
    BY DEF ComboMoves, SeenMoves
  <1>2. m \in Combos /\ m.state = n.state /\ ~m.long
    BY <1>1 DEF Combos
  <1>3. combo \in Combos /\ both \in Gestures /\ ComboLinked(combo, both)
    BY DEF ComboInv
  <1> HIDE DEF m
  <1>4. ComboLinked(m, h)
    <2>1. CASE low
      BY <1>2, <1>3, <2>1 DEF ComboLinked, ComboMoves, SeenMoves, Spent
    <2>2. CASE ~low
      BY <1>2, <1>3, <2>2, QuietNat DEF ComboLinked, ComboMoves, SeenMoves, Spent, Gestures
    <2>3. QED
      BY <2>1, <2>2
  <1>5. ASSUME n.long PROVE Acts(h) \in Gestures /\ ComboLinked(m, Acts(h))
    <2>1. low /\ combo.state = "held" /\ n.state = "long_held"
      BY <1>5 DEF ComboMoves
    <2>2. h.open = 0 /\ both.open = 0
      BY <1>3, <2>1 DEF SeenMoves, ComboLinked
    <2>3. ~Spent(both)
      BY <1>3, <2>1, <2>2 DEF ComboLinked
    <2>4. h.clean => h.acts = 0
      BY <1>3, <2>1, <2>3 DEF SeenMoves, Spent, Gestures
    <2>5. /\ Acts(h) \in Gestures /\ Acts(h).open = 0 /\ Acts(h).clean = h.clean
          /\ Acts(h).clean => Acts(h).acts = 1
      BY <1>1, <2>2, <2>4, ActsOnce, QuietNat
    <2>6. ComboLinked(m, Acts(h))
      BY <1>2, <2>1, <2>5 DEF ComboLinked, Spent
    <2>7. QED
      BY <2>5, <2>6
  <1>6. QED
    BY <1>1, <1>2, <1>4, <1>5 DEF m

\* What was held while nobody looked may be another hold.
LEMMA ComboUnseen ==
    ASSUME NEW m, NEW g \in Gestures, ComboLinked(m, g), NEW h \in Unseen(g)
    PROVE  h \in Gestures /\ ComboLinked(m, h)
  <1>1. NewGesture \in Gestures /\ NewGesture.open = 0 /\ NewGesture.acts = 0
    BY NewIsGesture DEF NewGesture
  <1>2. ComboLinked(m, NewGesture)
    BY <1>1 DEF ComboLinked, Spent
  <1>3. QED
    BY <1>1, <1>2 DEF Unseen

\* Every loop that polls the pair does one of three things with its hold.
LEMMA ComboPolled ==
    ASSUME ComboInv, NEW closed, PollCombo(closed),
           LET h == Seen(both, BothClosed(closed))
           IN  \/ both' = h
               \/ ComboFires(closed) /\ both' = Acts(h)
               \/ ComboFires(closed) /\ both' \in Unseen(Acts(h))
    PROVE  ComboInv'
  <1> DEFINE low == BothClosed(closed)
             n   == ComboUpdate(combo, low)
             h   == Seen(both, low)
  <1>1. low \in BOOLEAN
    BY DEF BothClosed
  <1>2. /\ combo' = [n EXCEPT !.long = FALSE]
        /\ \/ both' = h
           \/ n.long /\ both' = Acts(h)
           \/ n.long /\ both' \in Unseen(Acts(h))
    BY DEF PollCombo, ComboFires
  <1> HIDE DEF low
  <1>3. ComboMoves(combo, low, n) /\ SeenMoves(both, low, h)
    BY <1>1, ComboSample, SeenGesture DEF ComboInv
  <1> HIDE DEF n, h
  <1>4. /\ combo' \in Combos /\ ~combo'.long /\ h \in Gestures
        /\ ComboLinked(combo', h)
        /\ n.long => Acts(h) \in Gestures /\ ComboLinked(combo', Acts(h))
    BY <1>1, <1>2, <1>3, ComboPass
  <1>5. both' \in Gestures /\ ComboLinked(combo', both')
    BY <1>2, <1>4, ComboUnseen
  <1>6. QED
    BY <1>4, <1>5 DEF ComboInv

\* The loops in which the pair opens the menu, ends test mode or saves
LEMMA ComboNext ==
    ASSUME ComboInv, ButtonsNext
    PROVE  ComboInv'
  <1>1. ASSUME NEW closed, IdleCombo(closed) PROVE ComboInv'
    <2>1. /\ PollCombo(closed) /\ ComboFires(closed)
          /\ both' \in Unseen(Acts(Seen(both, BothClosed(closed))))
      BY <1>1 DEF IdleCombo, OpenMenu
    <2>2. QED
      BY <2>1, ComboPolled
  <1>2. ASSUME NEW closed, IdlePass(closed) PROVE ComboInv'
    <2>1. /\ PollCombo(closed) /\ ~ComboFires(closed)
          /\ both' = Seen(both, BothClosed(closed))
      BY <1>2 DEF IdlePass
    <2>2. QED
      BY <2>1, ComboPolled
  <1>3. ASSUME NEW closed, EnterTest(closed) PROVE ComboInv'
    <2>1. PollCombo(closed) /\ both' = Seen(both, BothClosed(closed))
      BY <1>3 DEF EnterTest
    <2>2. QED
      BY <2>1, ComboPolled
  <1>4. ASSUME NEW closed, SessionPass(closed) PROVE ComboInv'
    BY <1>4 DEF SessionPass, ComboInv
  <1>5. ASSUME NEW closed, MenuSave(closed) PROVE ComboInv'
    <2>1. /\ PollCombo(closed) /\ ComboFires(closed)
          /\ both' = Acts(Seen(both, BothClosed(closed)))
      BY <1>5 DEF MenuSave, EditPoll
    <2>2. QED
      BY <2>1, ComboPolled
  <1>6. ASSUME NEW closed, NEW over \in BOOLEAN, TestPass(closed, over) PROVE ComboInv'
    <2>1. /\ PollCombo(closed)
          /\ both' = IF ComboFires(closed) THEN Acts(Seen(both, BothClosed(closed)))
                     ELSE Seen(both, BothClosed(closed))
      BY <1>6 DEF TestPass
    <2>2. QED
      BY <2>1, ComboPolled
  <1>7. ASSUME NEW closed, NEW again, MenuPass(closed, again) PROVE ComboInv'
    <2>1. /\ PollCombo(closed) /\ ~ComboFires(closed)
          /\ both' = Seen(both, BothClosed(closed))
      BY <1>7 DEF MenuPass, EditPoll
    <2>2. QED
      BY <2>1, ComboPolled
  <1>8. ASSUME Resume PROVE ComboInv'
    <2>1. combo' = combo /\ both' \in Unseen(both)
      BY <1>8 DEF Resume
    <2>2. QED
      BY <2>1, ComboUnseen DEF ComboInv
  <1>9. QED
    BY <1>1, <1>2, <1>3, <1>4, <1>5, <1>6, <1>7, <1>8 DEF ButtonsNext

LEMMA StartNext ==
    ASSUME StartInv, ButtonsNext
    PROVE  StartInv'
  <1>1. \/ \E closed : \/ IdleCombo(closed) \/ IdlePass(closed) \/ EnterTest(closed)
                       \/ SessionPass(closed) \/ MenuSave(closed)
        \/ \E closed : \E over \in BOOLEAN : TestPass(closed, over)
        \/ \E closed, again : MenuPass(closed, again)
        \/ Resume
    BY DEF ButtonsNext
  <1>2. QED
    BY <1>1, StartIdleCombo, StartIdlePass, StartEnterTest, StartSessionPass, StartMenuSave,
       StartTestPass, StartMenuPass, StartResume

-----------------------------------------------------------------------------
LEMMA ButtonsInvInit == ButtonsInit => ButtonsInv
  <1> SUFFICES ASSUME ButtonsInit PROVE ButtonsInv
    OBVIOUS
  <1>1. /\ start = StartIdle /\ combo = ComboIdle /\ screen = "idle"
        /\ press = NoGesture /\ both = NoGesture
    BY DEF ButtonsInit
  <1>2. /\ StartIdle \in Starts /\ ~StartIdle.press /\ StartIdle.state = "idle"
        /\ ComboIdle \in Combos /\ ~ComboIdle.long /\ ComboIdle.state = "idle"
    BY DEF StartIdle, ComboIdle, Starts, StartStates, Combos, ComboStates
  <1>3. NoGesture \in Gestures /\ NoGesture.acts = 0
    BY NewIsGesture DEF NoGesture
  <1>4. Linked(StartIdle, NoGesture) /\ ComboLinked(ComboIdle, NoGesture)
    BY <1>2, <1>3 DEF Linked, ComboLinked, Spent
  <1>5. StartInv
    BY <1>1, <1>2, <1>3, <1>4 DEF StartInv
  <1>6. ComboInv
    BY <1>1, <1>2, <1>3, <1>4 DEF ComboInv
  <1>7. QED
    BY <1>5, <1>6 DEF ButtonsInv

LEMMA ButtonsInvStep ==
    ASSUME ButtonsInv, [ButtonsNext]_gestureVars
    PROVE  ButtonsInv'
  <1>1. CASE ButtonsNext
    BY <1>1, StartNext, ComboNext DEF ButtonsInv
  <1>2. CASE UNCHANGED gestureVars
    BY <1>2 DEF gestureVars, ButtonsInv, StartInv, ComboInv
  <1>3. QED
    BY <1>1, <1>2

\* One press of START, and one hold of both buttons, whose contact did not flicker does at
\* most one thing, for any debounce and long-press time: the recognisers of periph.cpp and
\* the loops of app.cpp that poll, skip and flush them.
THEOREM OneGestureSafe == ButtonsSpec => []OneGestureOneMeaning
  <1>1. ButtonsInv => OneGestureOneMeaning
    BY DEF ButtonsInv, StartInv, ComboInv, Linked, ComboLinked, OneGestureOneMeaning
  <1>2. ButtonsInv /\ [ButtonsNext]_gestureVars => ButtonsInv'
    BY ButtonsInvStep
  <1>3. QED
    BY ButtonsInvInit, <1>1, <1>2, PTL DEF ButtonsSpec

-----------------------------------------------------------------------------
(* What the hold that saves commits                                        *)

\* BTN1 and BTN2, and what has been seen of them
BtnStates == {"idle", "debounce", "held", "release"}
Btns == [state : BtnStates, db : Nat, hold : Nat, rep : Nat]
Pair == {"BTN1", "BTN2"}

\* After n samples at which neither was down a recogniser rests, or has counted them.
Resting(m, n) ==
    /\ m.state \in {"idle", "release"}
    /\ m.state = "release" => m.db + 1 >= n /\ m.db < DbThresh

\* A recogniser that has seen its button down for no more than n samples has not fired.
Fresh(m, n) == m.state \in {"idle", "debounce"} /\ m.db <= n

HandsTypeOK ==
    /\ btn \in [Pair -> Btns]
    /\ hands \in [open : 0 .. Quiet, lead : 0 .. DbThresh, edited : BOOLEAN]

\* Since both were at rest, with one down alone for fewer samples than the debounce takes:
\* no button has fired, or both have been down together, and a value edited after that was
\* edited between two closures of the pair, which is no clean hold.
HandsInOrder ==
    screen = "menu" /\ hands.open = 0 /\ hands.lead < DbThresh =>
        /\ (\A b \in Pair : Fresh(btn[b], hands.lead)) \/ both.open <= hands.lead
        /\ hands.edited => both.open <= hands.lead /\ (both.open = 0 => ~both.clean)

HandsInv ==
    /\ HandsTypeOK
    /\ \A b \in Pair : btn[b].state = "idle" => btn[b].db = 0
    /\ hands.open > 0 => \A b \in Pair : Resting(btn[b], hands.open)
    /\ HandsInOrder

\* BTN1 or BTN2 from one sample to the next
BtnMoves(m, low, n) ==
    /\ n \in Btns
    /\ n.state = "idle" => n.db = 0
    /\ ~low => n.state \in {"idle", "release"}
    /\ ~low /\ m.state \in {"idle", "debounce"} => n.state = "idle"
    /\ ~low /\ n.state = "release" =>
           \/ m.state = "release" /\ n.db = m.db + 1 /\ n.db < DbThresh
           \/ m.state = "held" /\ n.db = 0
    /\ low /\ m.state \in {"idle", "debounce"} /\ m.db + 1 < DbThresh =>
           n.state = "debounce" /\ n.db = m.db + 1

LEMMA BtnSample ==
    ASSUME NEW m \in Btns, NEW low \in BOOLEAN, m.state = "idle" => m.db = 0
    PROVE  BtnMoves(m, low, BtnUpdate(m, low))
  <1>1. /\ DbThresh \in Nat /\ DbThresh > 1 /\ 1 \in Nat
        /\ BtnIdle \in Btns /\ BtnIdle.state = "idle" /\ BtnIdle.db = 0
    BY ButtonsAssumption DEF BtnIdle, Btns, BtnStates
  <1>2. CASE m.state = "idle" /\ low
    <2>1. BtnUpdate(m, low) = [m EXCEPT !.state = "debounce", !.db = 1]
      BY <1>2 DEF BtnUpdate
    <2> DEFINE n == [m EXCEPT !.state = "debounce", !.db = 1]
    <2>2. n \in Btns /\ n.state = "debounce" /\ n.db = 1
      BY <1>1 DEF Btns, BtnStates
    <2> HIDE DEF n
    <2>3. n.db = m.db + 1
      BY <1>2, <2>2
    <2>4. BtnMoves(m, low, n)
      BY <1>2, <2>2, <2>3 DEF BtnMoves
    <2>5. QED
      BY <2>1, <2>4 DEF n
  <1>3. CASE m.state = "idle" /\ ~low
    <2>1. BtnUpdate(m, low) = m
      BY <1>3 DEF BtnUpdate
    <2>2. BtnMoves(m, low, m)
      BY <1>3 DEF BtnMoves
    <2>3. QED
      BY <2>1, <2>2
  <1>4. CASE m.state = "debounce" /\ low /\ m.db + 1 >= DbThresh
    <2>1. BtnUpdate(m, low) = [BtnIdle EXCEPT !.state = "held"]
      BY <1>4 DEF BtnUpdate
    <2>2. /\ [BtnIdle EXCEPT !.state = "held"] \in Btns
          /\ [BtnIdle EXCEPT !.state = "held"].state = "held"
      BY <1>1 DEF Btns, BtnStates
    <2>3. BtnMoves(m, low, [BtnIdle EXCEPT !.state = "held"])
      BY <1>1, <1>4, <2>2 DEF BtnMoves, Btns
    <2>4. QED
      BY <2>1, <2>3
  <1>5. CASE m.state = "debounce" /\ low /\ ~(m.db + 1 >= DbThresh)
    <2> DEFINE k == m.db + 1
    <2>1. BtnUpdate(m, low) = [m EXCEPT !.db = k]
      BY <1>5 DEF BtnUpdate
    <2>2. k \in Nat /\ k = m.db + 1
      BY DEF Btns
    <2> HIDE DEF k
    <2>3. BtnMoves(m, low, [m EXCEPT !.db = k])
      BY <1>5, <2>2 DEF BtnMoves, Btns, BtnStates
    <2>4. QED
      BY <2>1, <2>3
  <1>6. CASE m.state = "debounce" /\ ~low
    <2>1. BtnUpdate(m, low) = [m EXCEPT !.state = "idle", !.db = 0]
      BY <1>6 DEF BtnUpdate
    <2>2. BtnMoves(m, low, [m EXCEPT !.state = "idle", !.db = 0])
      BY <1>6 DEF BtnMoves, Btns, BtnStates
    <2>3. QED
      BY <2>1, <2>2
  <1>7. CASE m.state = "held" /\ low
    <2> DEFINE j == Held(m)
               r == IF Repeats(m) THEN 0
                    ELSE IF Held(m) >= RepeatDelay THEN m.rep + 1 ELSE m.rep
    <2>1. BtnUpdate(m, low) = [m EXCEPT !.hold = j, !.rep = r]
      BY <1>7 DEF BtnUpdate
    <2>2. j \in Nat
      BY ButtonsAssumption DEF Held, Btns
    <2>3. r \in Nat
      BY DEF Btns
    <2> HIDE DEF j, r
    <2>4. /\ [m EXCEPT !.hold = j, !.rep = r] \in Btns
          /\ [m EXCEPT !.hold = j, !.rep = r].state = "held"
      BY <1>7, <2>2, <2>3 DEF Btns, BtnStates
    <2>5. BtnMoves(m, low, [m EXCEPT !.hold = j, !.rep = r])
      BY <1>7, <2>4 DEF BtnMoves
    <2>6. QED
      BY <2>1, <2>5
  <1>8. CASE m.state = "held" /\ ~low
    <2>1. BtnUpdate(m, low) = [m EXCEPT !.state = "release", !.db = 0]
      BY <1>8 DEF BtnUpdate
    <2>2. BtnMoves(m, low, [m EXCEPT !.state = "release", !.db = 0])
      BY <1>8 DEF BtnMoves, Btns, BtnStates
    <2>3. QED
      BY <2>1, <2>2
  <1>9. CASE m.state = "release" /\ ~low /\ m.db + 1 >= DbThresh
    <2>1. BtnUpdate(m, low) = BtnIdle
      BY <1>9 DEF BtnUpdate
    <2>2. BtnMoves(m, low, BtnIdle)
      BY <1>1, <1>9 DEF BtnMoves
    <2>3. QED
      BY <2>1, <2>2
  <1>10. CASE m.state = "release" /\ ~low /\ ~(m.db + 1 >= DbThresh)
    <2> DEFINE k == m.db + 1
    <2>1. BtnUpdate(m, low) = [m EXCEPT !.db = k]
      BY <1>10 DEF BtnUpdate
    <2>2. k \in Nat /\ k = m.db + 1 /\ k < DbThresh
      BY <1>1, <1>10 DEF Btns
    <2> HIDE DEF k
    <2>3. BtnMoves(m, low, [m EXCEPT !.db = k])
      BY <1>10, <2>2 DEF BtnMoves, Btns, BtnStates
    <2>4. QED
      BY <2>1, <2>3
  <1>11. CASE m.state = "release" /\ low
    <2>1. BtnUpdate(m, low) = [m EXCEPT !.state = "held", !.db = 0]
      BY <1>11 DEF BtnUpdate
    <2>2. BtnMoves(m, low, [m EXCEPT !.state = "held", !.db = 0])
      BY <1>11 DEF BtnMoves, Btns, BtnStates
    <2>3. QED
      BY <2>1, <2>2
  <1>12. m.state \in BtnStates
    BY DEF Btns
  <1>13. QED
    BY <1>2, <1>3, <1>4, <1>5, <1>6, <1>7, <1>8, <1>9, <1>10, <1>11, <1>12 DEF BtnStates

\* A button at rest, and one that has not fired, does not fire at a sample below the debounce.
LEMMA FreshHolds ==
    ASSUME NEW m \in Btns, NEW low \in BOOLEAN, NEW k \in Nat, k + 1 < DbThresh,
           m.state = "idle" => m.db = 0, Fresh(m, k)
    PROVE  Fresh(BtnUpdate(m, low), k + 1) /\ ~BtnFired(m, low)
  <1> DEFINE n == BtnUpdate(m, low)
  <1>1. BtnMoves(m, low, n)
    BY BtnSample
  <1>2. DbThresh \in Nat /\ m.db \in Nat /\ m.db + 1 < DbThresh /\ m.db + 1 <= k + 1
    BY ButtonsAssumption DEF Btns, Fresh
  <1>3. ~BtnFired(m, low)
    BY <1>2 DEF BtnFired, Fresh
  <1> HIDE DEF n
  <1>4. Fresh(n, k + 1)
    <2>1. CASE low
      BY <1>1, <1>2, <2>1 DEF BtnMoves, Fresh
    <2>2. CASE ~low
      BY <1>1, <1>2, <2>2 DEF BtnMoves, Fresh
    <2>3. QED
      BY <2>1, <2>2
  <1>5. QED
    BY <1>3, <1>4 DEF n

\* A sample at which neither is down
LEMMA RestingHolds ==
    ASSUME NEW m \in Btns, NEW n, BtnMoves(m, FALSE, n), NEW k \in 0 .. Quiet,
           k > 0 => Resting(m, k)
    PROVE  Resting(n, IF k < Quiet THEN k + 1 ELSE k)
  <1>1. /\ DbThresh \in Nat /\ DbThresh > 1 /\ Quiet = DbThresh + 1
        /\ m.db \in Nat /\ n.db \in Nat /\ n.state \in {"idle", "release"}
    BY ButtonsAssumption DEF Quiet, Btns, BtnMoves
  <1>2. CASE n.state = "release"
    <2>1. \/ m.state = "release" /\ n.db = m.db + 1 /\ n.db < DbThresh
          \/ m.state = "held" /\ n.db = 0
      BY <1>2 DEF BtnMoves
    <2>2. k > 0 => m.state = "release" /\ m.db + 1 >= k /\ m.db < DbThresh
      BY <2>1 DEF Resting
    <2>3. k < Quiet
      BY <1>1, <2>2
    <2>4. QED
      BY <1>1, <1>2, <2>1, <2>2, <2>3 DEF Resting
  <1>3. QED
    BY <1>1, <1>2 DEF Resting

-----------------------------------------------------------------------------
(* One iteration of the menu                                               *)

LEMMA BtnsSampled ==
    ASSUME HandsInv, NEW closed, EditPoll(closed), NEW b \in Pair
    PROVE  /\ btn'[b] = BtnUpdate(btn[b], b \in closed)
           /\ btn[b] \in Btns /\ (btn[b].state = "idle" => btn[b].db = 0)
           /\ BtnMoves(btn[b], b \in closed, btn'[b])
  <1>1. btn'[b] = BtnUpdate(btn[b], b \in closed)
    BY DEF EditPoll, Pair
  <1>2. btn[b] \in Btns /\ (btn[b].state = "idle" => btn[b].db = 0)
    BY DEF HandsInv, HandsTypeOK
  <1>3. (b \in closed) \in BOOLEAN
    OBVIOUS
  <1>4. BtnMoves(btn[b], b \in closed, BtnUpdate(btn[b], b \in closed))
    BY <1>2, <1>3, BtnSample
  <1>5. QED
    BY <1>1, <1>2, <1>4

\* What the sample does to the history of the pair
HandsMove(from, down, edit) ==
    /\ from \in [open : 0 .. Quiet, lead : 0 .. DbThresh, edited : BOOLEAN]
    /\ hands.open = Quiet => from.lead = 0 /\ from.edited = FALSE
    /\ hands.open > 0 /\ hands.open < Quiet => from.lead = DbThresh /\ from.edited = FALSE
    /\ hands.open = 0 => from = hands
    /\ down = {} => hands' = [hands EXCEPT !.open = IF hands.open < Quiet
                                                    THEN hands.open + 1 ELSE hands.open]
    /\ down # {} =>
           /\ hands'.open = 0
           /\ hands'.lead = IF down = Pair \/ from.lead = DbThresh
                            THEN from.lead ELSE from.lead + 1
           /\ hands'.edited = (from.edited \/ edit)

LEMMA HandsMoves ==
    ASSUME HandsTypeOK, NEW closed, NEW edit \in BOOLEAN, hands' = SeenHands(closed, edit)
    PROVE  /\ hands' \in [open : 0 .. Quiet, lead : 0 .. DbThresh, edited : BOOLEAN]
           /\ \E from : HandsMove(from, Pair \cap closed, edit)
  <1> DEFINE HT   == [open : 0 .. Quiet, lead : 0 .. DbThresh, edited : BOOLEAN]
             down == Pair \cap closed
             from == IF hands.open = Quiet THEN AtRest
                     ELSE IF hands.open > 0 THEN Unknown ELSE hands
             l    == IF down = Pair \/ from.lead = DbThresh
                     THEN from.lead ELSE from.lead + 1
             e    == from.edited \/ edit
             o    == IF hands.open < Quiet THEN hands.open + 1 ELSE hands.open
  <1>1. /\ DbThresh \in Nat /\ DbThresh > 1 /\ Quiet \in Nat /\ Quiet = DbThresh + 1
        /\ hands \in HT /\ hands.open \in 0 .. Quiet
    BY ButtonsAssumption DEF Quiet, HandsTypeOK
  <1>2. /\ AtRest \in HT /\ AtRest.lead = 0 /\ AtRest.edited = FALSE
        /\ Unknown \in HT /\ Unknown.lead = DbThresh /\ Unknown.edited = FALSE
    BY <1>1 DEF AtRest, Unknown
  <1>3. /\ from \in HT
        /\ hands.open = Quiet => from.lead = 0 /\ from.edited = FALSE
        /\ hands.open > 0 /\ hands.open < Quiet => from.lead = DbThresh /\ from.edited = FALSE
        /\ hands.open = 0 => from = hands
    <2>1. CASE hands.open = Quiet
      BY <1>1, <1>2, <2>1
    <2>2. CASE hands.open # Quiet /\ hands.open > 0
      BY <1>1, <1>2, <2>2
    <2>3. CASE hands.open = 0
      BY <1>1, <1>2, <2>3
    <2>4. QED
      BY <1>1, <2>1, <2>2, <2>3
  <1>4. hands' = IF down = {} THEN [hands EXCEPT !.open = o]
                 ELSE [open |-> 0, lead |-> l, edited |-> e]
    BY DEF SeenHands, Pair
  <1> HIDE DEF from, down
  <1>5. l \in 0 .. DbThresh
    BY <1>1, <1>3
  <1>6. e \in BOOLEAN
    BY <1>3
  <1>7. o \in 0 .. Quiet /\ 0 \in 0 .. Quiet
    BY <1>1
  <1>8. /\ l = (IF down = Pair \/ from.lead = DbThresh THEN from.lead ELSE from.lead + 1)
        /\ e = (from.edited \/ edit)
        /\ o = (IF hands.open < Quiet THEN hands.open + 1 ELSE hands.open)
    OBVIOUS
  <1> HIDE DEF l, e, o
  <1>9. hands' \in HT
    <2>1. [hands EXCEPT !.open = o] \in HT
      BY <1>1, <1>7
    <2>2. [open |-> 0, lead |-> l, edited |-> e] \in HT
      BY <1>5, <1>6, <1>7
    <2>3. QED
      BY <1>4, <2>1, <2>2
  <1>10. HandsMove(from, down, edit)
    <2>1. CASE down = {}
      BY <1>3, <1>4, <1>8, <2>1 DEF HandsMove
    <2>2. CASE down # {}
      <3>1. hands'.open = 0 /\ hands'.lead = l /\ hands'.edited = e
        BY <1>4, <2>2
      <3>2. QED
        BY <1>3, <1>8, <2>2, <3>1 DEF HandsMove
    <2>3. QED
      BY <2>1, <2>2
  <1>11. QED
    BY <1>9, <1>10 DEF down

\* The recognisers and the time for which neither was down
LEMMA EditKeepsRest ==
    ASSUME HandsInv, NEW closed, EditPoll(closed)
    PROVE  /\ HandsTypeOK'
           /\ \A b \in Pair : btn'[b].state = "idle" => btn'[b].db = 0
           /\ hands'.open > 0 => \A b \in Pair : Resting(btn'[b], hands'.open)
  <1> DEFINE edit == Edits("BTN1", closed) \/ Edits("BTN2", closed)
             down == Pair \cap closed
  <1>1. /\ edit \in BOOLEAN
        /\ hands' = SeenHands(closed, edit)
    BY DEF EditPoll
  <1> HIDE DEF edit
  <1>2. /\ hands' \in [open : 0 .. Quiet, lead : 0 .. DbThresh, edited : BOOLEAN]
        /\ \E from : HandsMove(from, down, edit)
    BY <1>1, HandsMoves DEF HandsInv
  <1>3. \A b \in Pair : BtnMoves(btn[b], b \in closed, btn'[b])
    BY BtnsSampled
  <1>4. btn' \in [Pair -> Btns]
    <2>1. btn' = [b \in Pair |-> BtnUpdate(btn[b], b \in closed)]
      BY DEF EditPoll, Pair
    <2>2. \A b \in Pair : BtnUpdate(btn[b], b \in closed) \in Btns
      BY <1>3, BtnsSampled DEF BtnMoves
    <2>3. QED
      BY <2>1, <2>2
  <1>5. \A b \in Pair : btn'[b].state = "idle" => btn'[b].db = 0
    BY <1>3 DEF BtnMoves
  <1>6. ASSUME hands'.open > 0, NEW b \in Pair PROVE Resting(btn'[b], hands'.open)
    <2> DEFINE k == hands.open
    <2>1. down = {}
      BY <1>2, <1>6 DEF HandsMove
    <2>2. k \in 0 .. Quiet /\ hands'.open = IF k < Quiet THEN k + 1 ELSE k
      BY <1>2, <2>1 DEF HandsMove, HandsInv, HandsTypeOK
    <2>3. (b \in closed) = FALSE
      BY <1>6, <2>1
    <2>4. BtnMoves(btn[b], FALSE, btn'[b]) /\ btn[b] \in Btns
      BY <1>3, <1>6, <2>3 DEF HandsInv, HandsTypeOK
    <2>5. k > 0 => Resting(btn[b], k)
      BY <1>6 DEF HandsInv
    <2> HIDE DEF k
    <2>6. QED
      BY <2>2, <2>4, <2>5, RestingHolds
  <1>7. QED
    BY <1>2, <1>4, <1>5, <1>6 DEF HandsTypeOK

\* When both are down neither edits.
LEMMA PairEditsNothing ==
    ASSUME NEW closed, Pair \subseteq closed
    PROVE  ~Edits("BTN1", closed) /\ ~Edits("BTN2", closed)
BY DEF Edits, Pair

\* The hold of the pair at a sample at which both are down, and at one at which they are not
LEMMA PairSeen ==
    ASSUME NEW g \in Gestures
    PROVE  /\ Seen(g, TRUE).open = 0
           /\ g.open # Quiet => (Seen(g, TRUE).clean => g.clean /\ g.open = 0)
           /\ Seen(g, FALSE).open = IF g.open < Quiet THEN g.open + 1 ELSE g.open
  <1>1. SeenMoves(g, TRUE, Seen(g, TRUE)) /\ SeenMoves(g, FALSE, Seen(g, FALSE))
    BY SeenGesture
  <1>2. ASSUME g.open # Quiet
        PROVE  Seen(g, TRUE).clean = (g.clean /\ g.open = 0)
    BY <1>2 DEF Seen, Gestures
  <1>3. QED
    BY <1>1, <1>2 DEF SeenMoves

\* The menu goes on.
LEMMA EditKeepsOrder ==
    ASSUME HandsInv, both \in Gestures, screen = "menu", NEW closed, EditPoll(closed),
           both' = Seen(both, BothClosed(closed))
    PROVE  HandsInOrder'
  <1> DEFINE edit == Edits("BTN1", closed) \/ Edits("BTN2", closed)
             down == Pair \cap closed
             l    == hands.lead
             l1   == hands'.lead
  <1> SUFFICES ASSUME hands'.open = 0, l1 < DbThresh
               PROVE  /\ (\A b \in Pair : Fresh(btn'[b], l1)) \/ both'.open <= l1
                      /\ hands'.edited => both'.open <= l1 /\ (both'.open = 0 => ~both'.clean)
    BY DEF HandsInOrder
  <1>1. /\ edit \in BOOLEAN
        /\ hands' = SeenHands(closed, edit)
    BY DEF EditPoll
  <1> HIDE DEF edit
  <1>2. PICK from : HandsMove(from, down, edit)
    BY <1>1, HandsMoves DEF HandsInv
  <1>3. /\ DbThresh \in Nat /\ DbThresh > 1 /\ Quiet = DbThresh + 1
        /\ hands.open \in 0 .. Quiet /\ l \in 0 .. DbThresh /\ from.lead \in 0 .. DbThresh
        /\ both.open \in 0 .. Quiet
    BY <1>2, ButtonsAssumption DEF Quiet, HandsInv, HandsTypeOK, HandsMove, Gestures
  <1>4. down # {}
    <2>1. CASE down = {}
      <3>1. hands'.open = IF hands.open < Quiet THEN hands.open + 1 ELSE hands.open
        BY <1>2, <2>1 DEF HandsMove, HandsInv, HandsTypeOK
      <3>2. QED
        BY <1>3, <3>1
    <2>2. QED
      BY <2>1
  <1>5. /\ l1 = IF down = Pair \/ from.lead = DbThresh THEN from.lead ELSE from.lead + 1
        /\ hands'.edited = (from.edited \/ edit)
        /\ from.lead < DbThresh
    <2>1. /\ l1 = IF down = Pair \/ from.lead = DbThresh THEN from.lead ELSE from.lead + 1
          /\ hands'.edited = (from.edited \/ edit)
      BY <1>2, <1>4 DEF HandsMove
    <2>2. QED
      BY <1>3, <2>1
  <1>6. hands.open = Quiet \/ hands.open = 0
    BY <1>2, <1>3, <1>5 DEF HandsMove
  <1>7. \A b \in Pair : /\ btn'[b] = BtnUpdate(btn[b], b \in closed)
                        /\ btn[b] \in Btns /\ (btn[b].state = "idle" => btn[b].db = 0)
    BY BtnsSampled
  <1>8. CASE down = Pair
    <2>1. BothClosed(closed) = TRUE /\ Pair \subseteq closed
      BY <1>8 DEF BothClosed, Pair
    <2>2. /\ both'.open = 0
          /\ both.open # Quiet => (both'.clean => both.clean /\ both.open = 0)
      BY <2>1, PairSeen
    <2>3. ~edit
      BY <2>1, PairEditsNothing DEF edit
    <2>4. l1 = from.lead /\ (hands'.edited => from.edited)
      BY <1>5, <1>8, <2>3
    <2>5. both'.open <= l1
      BY <1>3, <2>2, <2>4
    <2>6. ASSUME hands'.edited PROVE ~both'.clean
      <3>1. hands.open = 0 /\ from = hands
        BY <1>2, <1>3, <1>6, <2>4, <2>6 DEF HandsMove
      <3>2. hands.edited /\ l < DbThresh
        BY <1>5, <2>4, <2>6, <3>1
      <3>3. both.open <= l /\ (both.open = 0 => ~both.clean)
        BY <3>1, <3>2 DEF HandsInv, HandsInOrder
      <3>4. QED
        BY <1>3, <2>2, <3>2, <3>3
    <2>7. QED
      BY <2>5, <2>6
  <1>9. CASE down # Pair
    <2>1. BothClosed(closed) = FALSE
      BY <1>9 DEF BothClosed, Pair
    <2>2. both'.open = IF both.open < Quiet THEN both.open + 1 ELSE both.open
      BY <2>1, PairSeen
    <2>3. l1 = from.lead + 1
      BY <1>3, <1>5, <1>9
    <2>4. ASSUME NEW k \in Nat, k = from.lead, \A b \in Pair : Fresh(btn[b], k)
          PROVE  (\A b \in Pair : Fresh(btn'[b], l1)) /\ ~edit
      <3>1. k + 1 < DbThresh /\ l1 = k + 1
        BY <1>3, <2>3, <2>4
      <3>2. ASSUME NEW b \in Pair
            PROVE  Fresh(btn'[b], k + 1) /\ ~BtnFired(btn[b], b \in closed)
        <4>1. /\ btn'[b] = BtnUpdate(btn[b], b \in closed)
              /\ btn[b] \in Btns /\ (btn[b].state = "idle" => btn[b].db = 0)
              /\ Fresh(btn[b], k)
          BY <1>7, <2>4, <3>2
        <4>2. (b \in closed) \in BOOLEAN
          OBVIOUS
        <4>3. QED
          BY <3>1, <4>1, <4>2, FreshHolds
      <3>3. ~edit
        BY <3>2 DEF edit, Edits, Pair
      <3>4. QED
        BY <3>1, <3>2, <3>3
    <2>5. CASE hands.open = Quiet
      <3>1. from.lead = 0 /\ from.edited = FALSE
        BY <1>2, <2>5 DEF HandsMove
      <3>2. ASSUME NEW b \in Pair PROVE Fresh(btn[b], 0)
        <4>1. Resting(btn[b], Quiet) /\ btn[b] \in Btns
          BY <1>3, <1>7, <2>5, <3>2 DEF HandsInv
        <4>2. btn[b].state = "idle"
          BY <1>3, <4>1 DEF Resting, Btns
        <4>3. QED
          BY <1>7, <3>2, <4>2 DEF Fresh
      <3>3. (\A b \in Pair : Fresh(btn'[b], l1)) /\ ~edit
        BY <2>4, <3>1, <3>2
      <3>4. ~hands'.edited
        BY <1>5, <3>1, <3>3
      <3>5. QED
        BY <3>3, <3>4
    <2>6. CASE hands.open = 0
      <3>1. from = hands /\ l < DbThresh /\ l1 = l + 1
        BY <1>2, <1>5, <2>3, <2>6 DEF HandsMove
      <3>2. /\ (\A b \in Pair : Fresh(btn[b], l)) \/ both.open <= l
            /\ hands.edited => both.open <= l
        BY <2>6, <3>1 DEF HandsInv, HandsInOrder
      <3>3. both.open <= l => both'.open <= l1 /\ both'.open # 0
        BY <1>3, <2>2, <3>1
      <3>4. CASE both.open <= l
        BY <3>3, <3>4
      <3>5. CASE ~(both.open <= l)
        <4>1. \A b \in Pair : Fresh(btn[b], l)
          BY <3>2, <3>5
        <4>2. (\A b \in Pair : Fresh(btn'[b], l1)) /\ ~edit
          BY <1>3, <2>4, <3>1, <4>1
        <4>3. ~hands.edited
          BY <3>2, <3>5
        <4>4. ~hands'.edited
          BY <1>5, <3>1, <4>2, <4>3
        <4>5. QED
          BY <4>2, <4>4
      <3>6. QED
        BY <3>4, <3>5
    <2>7. QED
      BY <1>6, <2>5, <2>6
  <1>10. QED
    BY <1>8, <1>9

-----------------------------------------------------------------------------
LEMMA HandsInvInit == ButtonsInit => HandsInv
  <1> SUFFICES ASSUME ButtonsInit PROVE HandsInv
    OBVIOUS
  <1>1. /\ btn = [b \in Pair |-> BtnIdle] /\ screen = "idle" /\ hands = AtRest
    BY DEF ButtonsInit, Pair
  <1>2. BtnIdle \in Btns /\ BtnIdle.state = "idle" /\ BtnIdle.db = 0
    BY DEF BtnIdle, Btns, BtnStates
  <1>3. /\ AtRest \in [open : 0 .. Quiet, lead : 0 .. DbThresh, edited : BOOLEAN]
        /\ Resting(BtnIdle, AtRest.open)
    BY <1>2, QuietNat, ButtonsAssumption DEF AtRest, Resting
  <1>4. QED
    BY <1>1, <1>2, <1>3 DEF HandsInv, HandsTypeOK, HandsInOrder

\* Outside the menu BTN1 and BTN2 stand still; entering it, nothing is known of them.
LEMMA HandsStandStill ==
    ASSUME HandsInv, btn' = btn, hands' = hands \/ hands' = Unknown,
           screen' # "menu" \/ hands' = Unknown \/ UNCHANGED <<screen, both>>
    PROVE  HandsInv'
  <1>1. /\ Unknown \in [open : 0 .. Quiet, lead : 0 .. DbThresh, edited : BOOLEAN]
        /\ Unknown.open = 0 /\ Unknown.lead = DbThresh /\ ~(DbThresh < DbThresh)
        /\ ~(Unknown.open > 0)
    BY QuietNat, ButtonsAssumption DEF Unknown
  <1>2. CASE hands' = Unknown
    BY <1>1, <1>2 DEF HandsInv, HandsTypeOK, HandsInOrder
  <1>3. CASE hands' = hands
    BY <1>3, <1>1 DEF HandsInv, HandsTypeOK, HandsInOrder
  <1>4. QED
    BY <1>2, <1>3

LEMMA HandsInvStep ==
    ASSUME ButtonsInv, HandsInv, [ButtonsNext]_gestureVars
    PROVE  HandsInv'
  <1>1. ASSUME NEW closed, IdleCombo(closed) PROVE HandsInv'
    BY <1>1, HandsStandStill DEF IdleCombo, OpenMenu
  <1>2. ASSUME NEW closed, IdlePass(closed) PROVE HandsInv'
    <2>1. screen' # "menu" /\ btn' = btn /\ hands' = hands
      BY <1>2 DEF IdlePass
    <2>2. QED
      BY <2>1, HandsStandStill
  <1>3. ASSUME NEW closed, EnterTest(closed) PROVE HandsInv'
    BY <1>3, HandsStandStill DEF EnterTest
  <1>4. ASSUME NEW closed, SessionPass(closed) PROVE HandsInv'
    BY <1>4, HandsStandStill DEF SessionPass
  <1>5. ASSUME NEW closed, MenuSave(closed) PROVE HandsInv'
    <2>1. EditPoll(closed) /\ screen' = "away"
      BY <1>5 DEF MenuSave
    <2>2. QED
      BY <2>1, EditKeepsRest DEF HandsInv, HandsInOrder
  <1>6. ASSUME NEW closed, NEW over \in BOOLEAN, TestPass(closed, over) PROVE HandsInv'
    <2>1. screen' # "menu" /\ btn' = btn /\ hands' = hands
      BY <1>6 DEF TestPass
    <2>2. QED
      BY <2>1, HandsStandStill
  <1>7. ASSUME NEW closed, NEW again, MenuPass(closed, again) PROVE HandsInv'
    <2>1. /\ EditPoll(closed) /\ screen = "menu"
          /\ both' = Seen(both, BothClosed(closed))
      BY <1>7 DEF MenuPass, EditPoll
    <2>2. HandsInOrder'
      BY <2>1, EditKeepsOrder DEF ButtonsInv, ComboInv
    <2>3. QED
      BY <2>1, <2>2, EditKeepsRest DEF HandsInv
  <1>8. ASSUME Resume PROVE HandsInv'
    BY <1>8, HandsStandStill DEF Resume
  <1>9. CASE UNCHANGED gestureVars
    BY <1>9, HandsStandStill DEF gestureVars
  <1>10. QED
    BY <1>1, <1>2, <1>3, <1>4, <1>5, <1>6, <1>7, <1>8, <1>9 DEF ButtonsNext

\* A hold of both buttons that saves has been down since the pair was last open.
LEMMA HoldSaves ==
    ASSUME ButtonsInv, HandsInv, NEW closed, MenuSave(closed), both.clean,
           hands.lead < DbThresh
    PROVE  ~hands'.edited
  <1> DEFINE edit == Edits("BTN1", closed) \/ Edits("BTN2", closed)
  <1>1. screen = "menu" /\ hands' = SeenHands(closed, edit) /\ edit \in BOOLEAN
    BY DEF MenuSave, EditPoll
  <1>2. combo \in Combos /\ ~combo.long /\ ComboLinked(combo, both)
    BY DEF ButtonsInv, ComboInv
  <1>3. BothClosed(closed) \in BOOLEAN
    BY DEF BothClosed
  <1>4. ComboMoves(combo, BothClosed(closed), ComboUpdate(combo, BothClosed(closed)))
    BY <1>2, <1>3, ComboSample
  <1>5. BothClosed(closed) /\ combo.state = "held"
    BY <1>2, <1>4 DEF ComboMoves, MenuSave, ComboFires
  <1>6. both.open = 0
    BY <1>2, <1>5 DEF ComboLinked
  <1>7. ~edit
    BY <1>5, PairEditsNothing DEF BothClosed, Pair
  <1> HIDE DEF edit
  <1>8. PICK from : HandsMove(from, Pair \cap closed, edit)
    BY <1>1, HandsMoves DEF HandsInv
  <1>9. hands'.edited = from.edited
    BY <1>5, <1>7, <1>8 DEF HandsMove, BothClosed, Pair
  <1>10. hands.open \in 0 .. Quiet /\ Quiet \in Nat
    BY QuietNat DEF HandsInv, HandsTypeOK
  <1>11. CASE hands.open > 0
    BY <1>8, <1>9, <1>10, <1>11 DEF HandsMove
  <1>12. CASE hands.open = 0
    <2>1. from = hands
      BY <1>8, <1>12 DEF HandsMove
    <2>2. ~hands.edited
      BY <1>1, <1>6, <1>12 DEF HandsInv, HandsInOrder
    <2>3. QED
      BY <1>9, <2>1, <2>2
  <1>13. QED
    BY <1>10, <1>11, <1>12

\* The hold that saves commits the values that were on the page when the fingers came down,
\* if they came down within the debounce time of each other, for any debounce, long press
\* and auto-repeat (btn_simple_poll, btn12_update, config_menu_run).
THEOREM HoldCommitsWhatWasShown == ButtonsSpec => SavesWhatWasShown
  <1>1. ButtonsInv /\ HandsInv /\ [ButtonsNext]_gestureVars =>
          [\A closed \in contacts :
             MenuSave(closed) /\ both.clean /\ hands.lead < DbThresh => ~hands'.edited]_gestureVars
    BY HoldSaves
  <1>2. ButtonsInv /\ HandsInv /\ [ButtonsNext]_gestureVars => (ButtonsInv /\ HandsInv)'
    BY ButtonsInvStep, HandsInvStep
  <1>3. QED
    BY ButtonsInvInit, HandsInvInit, <1>1, <1>2, PTL DEF ButtonsSpec, SavesWhatWasShown

-----------------------------------------------------------------------------
(* The screen *)

\* The screens there are, and what the panel shows when it is none of them
Types == {"boot", "idle", "ready", "idle_auto", "denied", "session", "done", "next_credit",
          "config", "test", "blank", "garbled"}
Screens == [type : Types, value : Int]

\* The panel with its bus, and what the heartbeat redraws
Panels == [ok : BOOLEAN, started : BOOLEAN, fails : Nat, last : Int, wire : BOOLEAN,
           nak : BOOLEAN, stuck : BOOLEAN, sync : BOOLEAN, shows : Screens]

Memos == [idle : Screens, test : BOOLEAN, banner : Screens]

\* Where the application task may be
Places == DOMAIN Follows

\* The shape of the state; no frame tells a negative number, as NoSecond is.
DisplayTypeOK ==
    /\ task \in [at : Places, since : Nat, beeped : Nat]
    /\ queue \in Seq(Screens)
    /\ wanted \in Screens
    /\ lost \in BOOLEAN
    /\ busy \in BOOLEAN
    /\ waited \in 0 .. Heartbeat
    /\ lcd \in Panels
    /\ memo \in Memos
    /\ overslept \in BOOLEAN
    /\ \A k \in 1 .. Len(queue) : queue[k].value >= 0

\* How long the application task has been silent; the countdown begins without a frame.
Silence == task.since + (IF task.at = "running" THEN task.beeped ELSE 0)

\* The display task has not waited longer than that, and nothing but a beep makes it longer
\* than the patience of a state.
Punctual ==
    task.at \notin OnChange =>
        /\ task.since <= Patience(task.at)
        /\ task.at \in Beeping => task.since <= task.beeped
        /\ queue = <<>> => waited <= Silence

\* The k-th frame in the queue ends a session, or is neither of a session nor the end of one.
Ends(k)  == queue[k].type \in EndsSession
Plain(k) == queue[k].type \notin EndsSession \cup {"session"}

\* When the first k frames have been drawn, the next session draws its first second.
Cleared(k) ==
    \/ \E e \in 1 .. k : Ends(e) /\ \A i \in e + 1 .. k : queue[i].type # "session"
    \/ lcd.last = NoSecond /\ \A i \in 1 .. k : queue[i].type # "session"

\* A session is on.
InSession == {"starting", "running"}

\* The frames in the queue, as long as none was lost since the last end of a session: the
\* last is the one posted last; ...
QueueInOrder ==
    /\ queue # <<>> => queue[Len(queue)] = wanted
    /\ \A k \in 1 .. Len(queue) :
          Plain(k) => Cleared(k - 1) \/ \E e \in k + 1 .. Len(queue) : Ends(e)
    /\ task.at \notin InSession => Cleared(Len(queue))
    /\ task.at = "idle" => wanted.type \in IdleTypes
    /\ task.at = "test" => wanted.type = "test"

\* What is drawn would be read
Healthy(l) == l.ok /\ l.wire /\ l.sync /\ ~l.nak

\* And the panel: with nothing left to draw it shows the last frame; the second that the
\* throttle would skip is the one it shows; the heartbeat would redraw the last frame.
PanelInOrder ==
    /\ queue = <<>> /\ Healthy(lcd) => lcd.shows = Look(wanted)
    /\ lcd.last # NoSecond /\ Healthy(lcd) /\ (\A k \in 1 .. Len(queue) : ~Ends(k))
       => lcd.shows = Frame("session", lcd.last)
    /\ queue = <<>> /\ lcd.ok /\ task.at \in {"idle", "test"}
       => (IF memo.test THEN memo.banner ELSE memo.idle) = wanted

\* Inductive, for any frames, queue and beeps: a beep that outlasts the heartbeat disturbs
\* the panel and not the queue.
DisplayInv ==
    /\ DisplayTypeOK /\ Punctual
    /\ ~lost => QueueInOrder /\ (~overslept => PanelInOrder)

-----------------------------------------------------------------------------
(* The panel and the bus *)

\* What a draw leaves of the panel: if it could be read before it can be read now, and shows
\* the frame.
LEMMA RenderIs ==
    ASSUME NEW l \in Panels, NEW f \in Screens, NEW r, r = Render(l, f)
    PROVE  /\ r \in Panels /\ r.ok = l.ok /\ r.started = l.started /\ r.last = l.last
           /\ Healthy(r) => r.shows = Look(f)
  <1>1. Look(f) \in Screens /\ Garbled \in Screens
    BY DEF Look, Garbled, Frame, Screens, Types
  <1>2. CASE ~l.wire \/ l.stuck
    <2>1. r = [l EXCEPT !.nak = TRUE]
      BY <1>2 DEF Render
    <2>2. QED
      BY <2>1 DEF Panels, Healthy
  <1>3. CASE l.wire /\ ~l.stuck
    <2>1. r = [l EXCEPT !.shows = IF l.sync THEN Look(f) ELSE Garbled]
      BY <1>3 DEF Render
    <2>2. QED
      BY <1>1, <2>1 DEF Panels, Healthy
  <1>4. QED
    BY <1>2, <1>3 DEF Panels

\* Neither a resync nor a recovery remembers a second of a session that was not there.
LEMMA ReinitIs ==
    ASSUME NEW l \in Panels, NEW r, r = Reinit(l)
    PROVE  r \in Panels /\ r.ok = l.ok /\ r.started = l.started /\ r.last = l.last
  <1>1. BlankPanel \in Screens
    BY DEF BlankPanel, Frame, Screens, Types
  <1>2. CASE ~l.wire \/ l.stuck
    <2>1. r = [l EXCEPT !.nak = TRUE]
      BY <1>2 DEF Reinit
    <2>2. QED
      BY <2>1 DEF Panels
  <1>3. CASE l.wire /\ ~l.stuck
    <2>1. r = [l EXCEPT !.sync = TRUE, !.shows = BlankPanel]
      BY <1>3 DEF Reinit
    <2>2. QED
      BY <1>1, <2>1 DEF Panels
  <1>4. QED
    BY <1>2, <1>3 DEF Panels

\* The first initialisation forgets it.
LEMMA HwInitIs ==
    ASSUME NEW l \in Panels, NEW r, r = HwInit(l)
    PROVE  r \in Panels /\ r.started = l.started /\ r.last = NoSecond
  <1> DEFINE up == [l EXCEPT !.wire = TRUE, !.ok = ~l.stuck, !.nak = FALSE,
                             !.last = NoSecond, !.fails = 0]
  <1>0. 0 \in Nat /\ NoSecond \in Int
    BY DEF NoSecond
  <1>1. up \in Panels /\ up.started = l.started /\ up.last = NoSecond
    BY <1>0, Zenon DEF Panels
  <1>2. r = IF l.stuck THEN up ELSE Reinit(up)
    BY DEF HwInit
  <1> HIDE DEF up
  <1>3. QED
    BY <1>1, <1>2, ReinitIs

\* A recovery forgets it, or fails and keeps it.
LEMMA RecoverIs ==
    ASSUME NEW l \in Panels, NEW freed \in BOOLEAN, NEW r, r = Recover(l, freed)
    PROVE  r \in Panels /\ r.started = l.started /\ r.last \in {l.last, NoSecond}
  <1> DEFINE u == Unlock(l, freed)
  <1>1. u \in Panels /\ u.started = l.started /\ u.last = l.last
    BY DEF Unlock, Panels
  <1>2. r = IF u.stuck THEN [u EXCEPT !.fails = @ + 1, !.ok = @ /\ l.fails + 1 < 3]
            ELSE HwInit(u)
    BY DEF Recover
  <1> HIDE DEF u
  <1>3. CASE u.stuck
    <2>1. r = [u EXCEPT !.fails = u.fails + 1, !.ok = u.ok /\ l.fails + 1 < 3]
      BY <1>2, <1>3
    <2>2. u.fails + 1 \in Nat
      BY <1>1 DEF Panels
    <2>3. (u.ok /\ l.fails + 1 < 3) \in BOOLEAN
      BY Zenon
    <2>4. QED
      BY <1>1, <2>1, <2>2, <2>3, Zenon DEF Panels
  <1>4. CASE ~u.stuck
    BY <1>1, <1>2, <1>4, HwInitIs
  <1>5. QED
    BY <1>3, <1>4

\* So does the health check.
LEMMA HealthCheckIs ==
    ASSUME NEW l \in Panels, NEW freed \in BOOLEAN, NEW r, r = HealthCheck(l, freed)
    PROVE  r \in Panels /\ r.started = l.started /\ r.last \in {l.last, NoSecond}
  <1> DEFINE m == IF l.stuck THEN l ELSE [l EXCEPT !.nak = FALSE]
  <1>1. m \in Panels /\ m.started = l.started /\ m.last = l.last
    BY DEF Panels
  <1>2. r = IF l.ok /\ NeedsRecovery(l) THEN Recover(m, freed) ELSE l
    BY DEF HealthCheck
  <1> HIDE DEF m
  <1>3. QED
    BY <1>1, <1>2, RecoverIs

\* The session path forgets it in any case: the redraw is forced.
LEMMA SessionRecoverIs ==
    ASSUME NEW l \in Panels, NEW freed \in BOOLEAN, NEW r, r = SessionRecover(l, freed)
    PROVE  r \in Panels /\ r.ok = l.ok /\ r.started = l.started /\ r.last = NoSecond
  <1> DEFINE u == Unlock(l, freed)
             v == [u EXCEPT !.wire = TRUE, !.nak = FALSE, !.last = NoSecond]
  <1>1. u \in Panels /\ u.ok = l.ok /\ u.started = l.started
    BY DEF Unlock, Panels
  <1>2. r = Reinit(v)
    BY DEF SessionRecover
  <1> HIDE DEF u
  <1>0. NoSecond \in Int
    BY DEF NoSecond
  <1>3. v \in Panels /\ v.ok = l.ok /\ v.started = l.started /\ v.last = NoSecond
    BY <1>0, <1>1, Zenon DEF Panels
  <1> HIDE DEF v
  <1>4. QED
    BY <1>2, <1>3, ReinitIs

\* The throttle draws a second that was not the last, and leaves the panel alone otherwise.
LEMMA RenderSessionIs ==
    ASSUME NEW l \in Panels, NEW f \in Screens, NEW r, r = RenderSession(l, f)
    PROVE  /\ r \in Panels /\ r.ok = l.ok /\ r.started = l.started /\ r.last = f.value
           /\ f.value = l.last => r = l
           /\ f.value # l.last /\ Healthy(r) => r.shows = Look(f)
  <1>1. CASE f.value = l.last
    BY <1>1 DEF RenderSession
  <1>2. CASE f.value # l.last
    <2> DEFINE m == [l EXCEPT !.last = f.value]
    <2>1. m \in Panels /\ m.ok = l.ok /\ m.started = l.started /\ m.last = f.value
      BY DEF Panels, Screens
    <2>2. r = Render(m, f)
      BY <1>2 DEF RenderSession
    <2> HIDE DEF m
    <2>3. QED
      BY <1>2, <2>1, <2>2, RenderIs
  <1>3. QED
    BY <1>1, <1>2

-----------------------------------------------------------------------------
(* The application task *)

\* The states of the application task that matter here
LEMMA PlacesAre ==
    Places = {"boot", "idle", "denied", "starting", "running", "ended", "waiting", "menu",
              "test"}
BY DEF Places, Follows

\* A session is entered by its first frame and left for "COMPLETE!" only.
LEMMA FollowsIs ==
    ASSUME NEW at \in Places, NEW to \in Follows[at]
    PROVE  /\ to \in Places
           /\ to = "running" => at = "starting"
           /\ to # "ended" /\ at \in InSession => to \in InSession
BY PlacesAre DEF Follows, InSession

\* The frames a state posts
LEMMA FrameIs ==
    ASSUME NEW at \in Places, NEW f \in FramesOf(Shows(at))
    PROVE  /\ f \in Screens /\ f.value >= 0
           /\ f.type = "session" <=> at \in InSession
           /\ at = "idle" => f.type \in IdleTypes
           /\ at = "test" => f.type = "test"
           /\ at = "ended" => f.type \in EndsSession
  <1>1. f.type \in Shows(at)
    BY DEF FramesOf
  <1>2. f.value \in Values \cup {0} /\ f = [type |-> f.type, value |-> f.value]
    BY DEF FramesOf
  <1>3. f.value \in Nat
    BY <1>2, DisplayAssumption
  <1>4. IdleTypes \subseteq {"idle", "ready", "idle_auto"}
    BY DisplayAssumption
  <1>5. /\ f.type \in Types
        /\ f.type = "session" <=> at \in InSession
        /\ at = "idle" => f.type \in IdleTypes
        /\ at = "test" => f.type = "test"
        /\ at = "ended" => f.type \in EndsSession
    BY <1>1, <1>4, PlacesAre DEF Shows, Types, InSession, EndsSession
  <1>6. f \in Screens
    BY <1>2, <1>3, <1>5 DEF Screens
  <1>7. QED
    BY <1>3, <1>5, <1>6

\* No state that must post again is silent for as long as the heartbeat waits, but in a beep.
LEMMA PatienceIs ==
    ASSUME NEW at \in Places \ OnChange
    PROVE  /\ Patience(at) \in Nat
           /\ at \notin Beeping => Patience(at) < Heartbeat
           /\ at = "running" => Patience(at) = 1
BY PlacesAre, DisplayAssumption DEF OnChange, Beeping, Patience

\* The splash is in the queue, and nothing has been drawn.
LEMMA DisplayInvInit == DisplayInit => DisplayInv
  <1> SUFFICES ASSUME DisplayInit PROVE DisplayInv
    OBVIOUS
  <1> DEFINE boot == Frame("boot", 0)
  <1>1. boot \in Screens /\ BlankPanel \in Screens /\ Frame("idle", 0) \in Screens
        /\ boot.type = "boot" /\ boot.value = 0
    BY DEF Frame, BlankPanel, Screens, Types
  <1>2. queue = <<boot>> /\ wanted = boot /\ queue \in Seq(Screens) /\ Len(queue) = 1
        /\ queue[1] = boot
    BY <1>1 DEF DisplayInit
  <1>3. lcd \in Panels /\ lcd.last = NoSecond
    <2>1. NoSecond \in Int /\ 0 \in Nat
      BY DEF NoSecond
    <2>2. QED
      BY <1>1, <2>1 DEF DisplayInit, Panels
  <1>4. memo \in Memos
    BY <1>1 DEF DisplayInit, Memos
  <1>10. task \in [at : Places, since : Nat, beeped : Nat] /\ waited \in 0 .. Heartbeat
    BY PlacesAre, DisplayAssumption DEF DisplayInit
  <1>11. lost \in BOOLEAN /\ busy \in BOOLEAN /\ overslept \in BOOLEAN
    BY Zenon DEF DisplayInit
  <1>12. \A k \in 1 .. Len(queue) : queue[k].value >= 0
    BY <1>1, <1>2
  <1>5. DisplayTypeOK
    BY <1>1, <1>2, <1>3, <1>4, <1>10, <1>11, <1>12, Zenon DEF DisplayTypeOK
  <1>6. Punctual
    BY <1>2, DisplayAssumption DEF DisplayInit, Punctual, Patience, Silence, Beeping
  <1>7. QueueInOrder
    BY <1>1, <1>2, <1>3 DEF DisplayInit, QueueInOrder, Cleared, Plain
  <1>8. PanelInOrder
    BY <1>2, <1>3 DEF PanelInOrder
  <1>9. QED
    BY <1>5, <1>6, <1>7, <1>8 DEF DisplayInv

\* A frame is posted: by a state that is entered, or by one that has more to tell.
LEMMA PostStep ==
    ASSUME DisplayInv, NEW at \in Places, NEW f \in FramesOf(Shows(at)), Post(f), Go(at),
           at # "ended" /\ task.at \in InSession => at \in InSession,
           UNCHANGED <<busy, waited, lcd, memo, overslept>>
    PROVE  DisplayInv'
  <1>0. PICK n \in Nat : n = Len(queue)
    BY DEF DisplayInv, DisplayTypeOK
  <1>1. /\ f \in Screens /\ f.value >= 0
        /\ f.type = "session" <=> at \in InSession
        /\ at = "idle" => f.type \in IdleTypes
        /\ at = "test" => f.type = "test"
        /\ at = "ended" => f.type \in EndsSession
    BY FrameIs
  <1>2. task' = [at |-> at, since |-> 0, beeped |-> 0] /\ wanted' = f
        /\ queue' = (IF n = QueueDepth THEN queue ELSE Append(queue, f))
        /\ task'.at = at
    BY <1>0 DEF Post, Go
  <1>3. DisplayTypeOK /\ n \in Nat /\ n = Len(queue)
    BY <1>0 DEF DisplayInv
  <1>4. queue' \in Seq(Screens) /\ \A k \in 1 .. Len(queue') : queue'[k].value >= 0
    BY <1>1, <1>2, <1>3 DEF DisplayTypeOK
  <1>5. lost' \in BOOLEAN
    BY Zenon DEF Post
  <1>6. task' \in [at : Places, since : Nat, beeped : Nat]
    BY <1>2
  <1>7. DisplayTypeOK'
    BY <1>1, <1>2, <1>3, <1>4, <1>5, <1>6, Zenon DEF DisplayTypeOK
  <1>8. queue' # <<>>
    BY <1>2, <1>3, DisplayAssumption DEF DisplayTypeOK
  <1>9. Punctual'
    <2>1. at \notin OnChange => Patience(at) \in Nat
      BY PatienceIs
    <2>2. QED
      BY <1>2, <1>8, <2>1 DEF Punctual
  <1>10. ASSUME ~lost'
         PROVE  QueueInOrder' /\ (~overslept' => PanelInOrder')
    <2>1. n # QueueDepth /\ (lost => f.type \in EndsSession)
      BY <1>0, <1>10 DEF Post
    <2>2. queue' = Append(queue, f)
      BY <1>2, <2>1
    <2>3. Len(queue') = n + 1 /\ queue'[n + 1] = f /\ \A k \in 1 .. n : queue'[k] = queue[k]
      BY <1>1, <1>3, <2>2 DEF DisplayTypeOK
    <2> DEFINE end == f.type \in EndsSession
    <2>4. end => Ends(n + 1)'
      BY <2>3 DEF Ends
    <2>5. \A k \in 1 .. n : Ends(k) => Ends(k)'
      BY <2>3 DEF Ends
    <2>6. \A k \in 0 .. n : Cleared(k) => Cleared(k)'
      BY <1>3, <2>3, <2>5 DEF Cleared
    <2>7. ~end => QueueInOrder /\ (~overslept => PanelInOrder)
      BY <2>1 DEF DisplayInv
    <2>8. ASSUME NEW k \in 1 .. n + 1, Plain(k)'
          PROVE  Cleared(k - 1)' \/ \E e \in k + 1 .. n + 1 : Ends(e)'
      <3>1. CASE end
        <4>1. k # n + 1
          BY <2>3, <2>8, <3>1 DEF Plain
        <4>2. n + 1 \in k + 1 .. n + 1
          BY <1>3, <4>1
        <4>3. QED
          BY <2>4, <3>1, <4>2
      <3>2. CASE ~end /\ k \in 1 .. n
        <4>1. Plain(k)
          BY <2>3, <2>8, <3>2 DEF Plain
        <4>2. Cleared(k - 1) \/ \E e \in k + 1 .. n : Ends(e)
          BY <1>3, <2>7, <3>2, <4>1 DEF QueueInOrder
        <4>3. k - 1 \in 0 .. n
          BY <1>3, <3>2
        <4>4. \A e \in k + 1 .. n : e \in k + 1 .. n + 1 /\ e \in 1 .. n
          BY <1>3, <3>2
        <4>5. QED
          BY <2>5, <2>6, <4>2, <4>3, <4>4
      <3>3. CASE ~end /\ k = n + 1
        <4>1. at \notin InSession
          BY <1>1, <2>3, <2>8, <3>3 DEF Plain
        <4>2. task.at \notin InSession
          BY <1>1, <3>3, <4>1
        <4>3. Cleared(n)
          BY <1>3, <2>7, <3>3, <4>2 DEF QueueInOrder
        <4>4. k - 1 = n /\ n \in 0 .. n
          BY <1>3, <3>3
        <4>5. QED
          BY <2>6, <4>3, <4>4
      <3>4. QED
        BY <1>3, <2>8, <3>1, <3>2, <3>3
    <2>9. ASSUME at \notin InSession
          PROVE  Cleared(n + 1)'
      <3>1. CASE end
        <4>1. n + 1 \in 1 .. n + 1 /\ \A i \in n + 2 .. n + 1 : FALSE
          BY <1>3
        <4>2. QED
          BY <1>3, <2>4, <3>1, <4>1 DEF Cleared
      <3>2. CASE ~end
        <4>1. task.at \notin InSession
          BY <1>1, <2>9, <3>2
        <4>2. Cleared(n)
          BY <1>3, <2>7, <3>2, <4>1 DEF QueueInOrder
        <4>3. queue'[n + 1].type # "session"
          BY <1>1, <2>3, <2>9
        <4>4. QED
          BY <1>3, <2>3, <2>5, <4>2, <4>3 DEF Cleared
      <3>3. QED
        BY <3>1, <3>2
    <2>10. QueueInOrder'
      BY <1>1, <1>2, <2>3, <2>8, <2>9 DEF QueueInOrder
    <2>11. ASSUME \A k \in 1 .. n + 1 : ~Ends(k)'
           PROVE  ~end /\ \A k \in 1 .. n : ~Ends(k)
      BY <1>3, <2>4, <2>5, <2>11
    <2>12. ~overslept' => PanelInOrder'
      BY <1>3, <1>8, <2>3, <2>7, <2>11 DEF PanelInOrder
    <2>13. QED
      BY <2>10, <2>12
  <1>11. QED
    BY <1>7, <1>9, <1>10 DEF DisplayInv

\* The countdown begins without a frame: the silence of the beep goes on.
LEMMA CountdownStep ==
    ASSUME DisplayInv, task.at = "starting",
           task' = [task EXCEPT !.at = "running", !.since = 0],
           UNCHANGED <<queue, wanted, lost, busy, waited, lcd, memo, overslept>>
    PROVE  DisplayInv'
  <1>0. task \in [at : Places, since : Nat, beeped : Nat] /\ waited \in Int
    BY DisplayAssumption DEF DisplayInv, DisplayTypeOK
  <1>1. /\ task'.at = "running" /\ task'.since = 0 /\ task'.beeped = task.beeped
        /\ task' \in [at : Places, since : Nat, beeped : Nat]
    BY <1>0, PlacesAre
  <1>2. queue' = queue /\ wanted' = wanted /\ lost' = lost /\ busy' = busy /\ waited' = waited
         /\ lcd' = lcd /\ memo' = memo /\ overslept' = overslept
    OBVIOUS
  <1>3. DisplayTypeOK'
    BY <1>1, <1>2 DEF DisplayInv, DisplayTypeOK
  <1>4. task.since <= task.beeped /\ (queue = <<>> => waited <= task.since)
    BY <1>0 DEF DisplayInv, Punctual, Silence, OnChange, Beeping
  <1>5. Punctual'
    BY <1>0, <1>1, <1>2, <1>4 DEF Punctual, Silence, Patience, Beeping
  <1>6. QueueInOrder => QueueInOrder'
    BY <1>1 DEF QueueInOrder, Cleared, Plain, Ends, InSession
  <1>7. PanelInOrder => PanelInOrder'
    BY <1>1 DEF PanelInOrder, Ends
  <1>8. QED
    BY <1>2, <1>3, <1>5, <1>6, <1>7 DEF DisplayInv

\* On to the next state
LEMMA EnterStep ==
    ASSUME DisplayInv, NEW at \in DOMAIN Follows, Enter(at)
    PROVE  DisplayInv'
  <1>1. task.at \in Places /\ at \in Follows[task.at]
    BY DEF DisplayInv, DisplayTypeOK, Enter
  <1>2. /\ at \in Places
        /\ at = "running" => task.at = "starting"
        /\ at # "ended" /\ task.at \in InSession => at \in InSession
    BY <1>1, FollowsIs
  <1>3. CASE at = "running"
    BY <1>2, <1>3, CountdownStep DEF Enter
  <1>4. CASE at # "running"
    <2>1. PICK f \in FramesOf(Shows(at)) : Post(f)
      BY <1>4 DEF Enter
    <2>2. Go(at) /\ UNCHANGED <<busy, waited, lcd, memo, overslept>>
      BY <1>4 DEF Enter
    <2>3. QED
      BY <1>2, <2>1, <2>2, PostStep
  <1>5. QED
    BY <1>3, <1>4

\* The same state tells more.
LEMMA RepostStep ==
    ASSUME DisplayInv, Repost
    PROVE  DisplayInv'
  <1>1. task.at \in Places
    BY DEF DisplayInv, DisplayTypeOK
  <1>2. PICK f \in FramesOf(Shows(task.at)) : Post(f)
    BY DEF Repost
  <1>3. Go(task.at) /\ UNCHANGED <<busy, waited, lcd, memo, overslept>>
    BY DEF Repost
  <1>4. QED
    BY <1>1, <1>2, <1>3, PostStep

\* A second passes: of the silence, and of the wait for a frame.
LEMMA SecondStep ==
    ASSUME DisplayInv, Second
    PROVE  DisplayInv'
  <1>1. /\ task \in [at : Places, since : Nat, beeped : Nat] /\ waited \in 0 .. Heartbeat
        /\ Heartbeat \in Nat
    BY DisplayAssumption DEF DisplayInv, DisplayTypeOK
  <1>2. /\ task'.at = task.at
        /\ task'.since = IF task.at \in OnChange THEN 0 ELSE task.since + 1
        /\ task'.beeped = IF task.at \in Beeping THEN task.beeped + 1 ELSE task.beeped
        /\ task' \in [at : Places, since : Nat, beeped : Nat]
    <2> DEFINE s == IF task.at \in OnChange THEN 0 ELSE task.since + 1
               b == IF task.at \in Beeping THEN task.beeped + 1 ELSE task.beeped
    <2>1. task' = [task EXCEPT !.since = s, !.beeped = b]
      BY <1>1 DEF Second
    <2>2. s \in Nat /\ b \in Nat
      BY <1>1
    <2> HIDE DEF s, b
    <2>3. task'.at = task.at /\ task'.since = s /\ task'.beeped = b
          /\ task' \in [at : Places, since : Nat, beeped : Nat]
      BY <1>1, <2>1, <2>2
    <2>4. QED
      BY <2>3 DEF s, b
  <1>3. UNCHANGED <<queue, wanted, lost, busy, lcd, memo, overslept>>
    BY DEF Second
  <1>4. /\ busy \/ waited < Heartbeat
        /\ waited' = IF busy THEN 0 ELSE waited + 1
        /\ task.at \in OnChange \/ task.since < Patience(task.at)
        /\ busy \/ queue = <<>>
    BY DEF Second
  <1>5. waited' \in 0 .. Heartbeat
    BY <1>1, <1>4
  <1>6. DisplayTypeOK'
    BY <1>2, <1>3, <1>5 DEF DisplayInv, DisplayTypeOK
  <1>7. ASSUME task.at \notin OnChange
        PROVE  /\ task'.since <= Patience(task.at)
               /\ task.at \in Beeping => task'.since <= task'.beeped
               /\ queue = <<>> => waited' <= Silence'
    <2>1. Patience(task.at) \in Nat
      BY <1>1, <1>7, PatienceIs
    <2>2. /\ task.at \in Beeping => task.since <= task.beeped
          /\ queue = <<>> => waited <= Silence
      BY <1>7 DEF DisplayInv, Punctual
    <2>3. Silence' = Silence + 1 /\ Silence \in Nat
      BY <1>1, <1>2, <1>7 DEF Silence, Beeping
    <2>4. QED
      BY <1>1, <1>2, <1>4, <1>7, <2>1, <2>2, <2>3
  <1>8. Punctual'
    BY <1>2, <1>3, <1>7 DEF Punctual
  <1>9. QueueInOrder => QueueInOrder'
    BY <1>2, <1>3 DEF QueueInOrder, Cleared, Plain, Ends
  <1>10. PanelInOrder => PanelInOrder'
    BY <1>2, <1>3 DEF PanelInOrder, Ends
  <1>11. QED
    BY <1>3, <1>6, <1>8, <1>9, <1>10 DEF DisplayInv

-----------------------------------------------------------------------------
(* The display task *)

\* The wait begins anew.
LEMMA NoLongerSilent ==
    ASSUME DisplayInv, task' = task, waited' = 0
    PROVE  Punctual'
  <1>1. task \in [at : Places, since : Nat, beeped : Nat]
    BY DEF DisplayInv, DisplayTypeOK
  <1>2. task'.at = task.at /\ task'.since = task.since /\ task'.beeped = task.beeped
        /\ waited' <= Silence'
    BY <1>1 DEF Silence
  <1>3. task.at \notin OnChange =>
           /\ task.since <= Patience(task.at)
           /\ task.at \in Beeping => task.since <= task.beeped
    BY DEF DisplayInv, Punctual
  <1>4. QED
    BY <1>2, <1>3 DEF Punctual

\* A draw is over; the wait begins.
LEMMA FinishStep ==
    ASSUME DisplayInv, Finish
    PROVE  DisplayInv'
  <1>1. /\ waited' = 0 /\ busy' = FALSE
        /\ UNCHANGED <<task, queue, wanted, lost, lcd, memo, overslept>>
    BY DEF Finish
  <1>2. task \in [at : Places, since : Nat, beeped : Nat] /\ Heartbeat \in Nat
    BY DisplayAssumption DEF DisplayInv, DisplayTypeOK
  <1>9. waited' = 0 /\ busy' = FALSE /\ task' = task /\ queue' = queue /\ wanted' = wanted
        /\ lost' = lost /\ lcd' = lcd /\ memo' = memo /\ overslept' = overslept
    BY <1>1
  <1>8. waited' \in 0 .. Heartbeat
    BY <1>2, <1>9
  <1>10. busy' \in BOOLEAN
    BY <1>9, Zenon
  <1>3. DisplayTypeOK'
    BY <1>8, <1>9, <1>10 DEF DisplayInv, DisplayTypeOK
  <1>4. Punctual'
    BY <1>2, <1>9, NoLongerSilent, Zenon
  <1>5. QueueInOrder => QueueInOrder'
    BY <1>1 DEF QueueInOrder, Cleared, Plain, Ends
  <1>6. PanelInOrder => PanelInOrder'
    BY <1>1 DEF PanelInOrder, Ends
  <1>7. QED
    BY <1>1, <1>3, <1>4, <1>5, <1>6 DEF DisplayInv

\* Noise that garbles the screen leaves a lost acknowledge or a controller out of step.
LEMMA NoiseStep ==
    ASSUME DisplayInv, Noise
    PROVE  DisplayInv'
  <1>1. UNCHANGED <<task, queue, wanted, lost, busy, waited, memo, overslept>>
    BY DEF Noise
  <1>2. lcd \in Panels /\ Garbled \in Screens
    BY DEF DisplayInv, DisplayTypeOK, Garbled, Frame, Screens, Types
  <1>3. /\ lcd' \in Panels /\ lcd'.last = lcd.last /\ lcd'.ok = lcd.ok
        /\ Healthy(lcd') => Healthy(lcd) /\ lcd'.shows = lcd.shows
    <2>1. CASE \E b \in BOOLEAN : lcd' = [lcd EXCEPT !.stuck = b]
      BY <1>2, <2>1 DEF Panels, Healthy
    <2>2. CASE lcd' = [lcd EXCEPT !.nak = TRUE, !.shows = Garbled]
      BY <1>2, <2>2 DEF Panels, Healthy
    <2>3. CASE lcd' = [lcd EXCEPT !.sync = FALSE, !.shows = Garbled]
      BY <1>2, <2>3 DEF Panels, Healthy
    <2>4. QED
      BY <2>1, <2>2, <2>3 DEF Noise
  <1>4. DisplayTypeOK'
    BY <1>1, <1>3 DEF DisplayInv, DisplayTypeOK
  <1>5. Punctual'
    BY <1>1 DEF DisplayInv, Punctual, Silence
  <1>6. QueueInOrder => QueueInOrder'
    BY <1>1, <1>3 DEF QueueInOrder, Cleared, Plain, Ends
  <1>7. PanelInOrder => PanelInOrder'
    BY <1>1, <1>3 DEF PanelInOrder, Ends
  <1>8. QED
    BY <1>1, <1>4, <1>5, <1>6, <1>7 DEF DisplayInv

\* But for a long beep, the heartbeat comes only where the application task posts on a
\* change, and redraws what it posted last.
LEMMA HeartbeatStep ==
    ASSUME DisplayInv, HeartbeatDraw
    PROVE  DisplayInv'
  <1> DEFINE f == IF memo.test THEN memo.banner ELSE memo.idle
  <1>1. waited' = 0 /\ queue = <<>> /\ waited = Heartbeat
        /\ UNCHANGED <<task, queue, wanted, lost, busy, memo>>
        /\ overslept' = (overslept \/ task.beeped + 1 >= Heartbeat)
    BY DEF HeartbeatDraw
  <1>2. /\ task \in [at : Places, since : Nat, beeped : Nat] /\ Heartbeat \in Nat
        /\ overslept' \in BOOLEAN
        /\ lcd \in Panels /\ memo \in Memos /\ DisplayTypeOK
    BY <1>1, DisplayAssumption DEF DisplayInv, DisplayTypeOK
  <1>3. f \in Screens
    BY <1>2 DEF Memos
  <1>4. /\ lcd' \in Panels /\ lcd'.ok = lcd.ok /\ lcd'.last = lcd.last
        /\ \/ lcd' = lcd
           \/ lcd.ok /\ (Healthy(lcd') => lcd'.shows = Look(f))
    <2>1. CASE lcd.ok /\ lcd.started
      <3> DEFINE l == Reinit(lcd)
      <3>1. l \in Panels /\ l.ok = lcd.ok /\ l.last = lcd.last
        BY <1>2, ReinitIs
      <3>2. lcd' = Render(l, f)
        BY <2>1 DEF HeartbeatDraw
      <3> HIDE DEF l
      <3>3. QED
        BY <1>3, <2>1, <3>1, <3>2, RenderIs
    <2>2. CASE ~(lcd.ok /\ lcd.started)
      BY <1>2, <2>2 DEF HeartbeatDraw
    <2>3. QED
      BY <2>1, <2>2
  <1>5. DisplayTypeOK'
    BY <1>1, <1>2, <1>4 DEF DisplayTypeOK
  <1>6. Punctual'
    BY <1>1, NoLongerSilent, Zenon
  <1>7. ~overslept' => ~overslept /\ task.at \in {"idle", "test"}
    <2>1. SUFFICES ASSUME task.at \notin OnChange
                   PROVE  task.beeped + 1 >= Heartbeat
      BY <1>1 DEF OnChange
    <2>2. /\ Heartbeat <= Silence
          /\ task.at \in Beeping => task.since <= task.beeped
          /\ task.since <= Patience(task.at)
      BY <1>1, <2>1 DEF DisplayInv, Punctual
    <2>3. /\ Patience(task.at) \in Nat
          /\ task.at \notin Beeping => Patience(task.at) < Heartbeat
          /\ task.at = "running" => Patience(task.at) = 1
      BY <1>2, <2>1, PatienceIs
    <2>4. QED
      BY <1>2, <2>2, <2>3 DEF Silence
  <1>8. QueueInOrder => QueueInOrder'
    BY <1>1, <1>4 DEF QueueInOrder, Cleared, Plain, Ends
  <1>9. ~overslept' /\ QueueInOrder => lcd.last = NoSecond
    <2>1. Len(queue) = 0
      BY <1>1
    <2>2. QED
      BY <1>7, <2>1 DEF QueueInOrder, Cleared, InSession
  <1>10. ~overslept' /\ QueueInOrder /\ PanelInOrder => PanelInOrder'
    <2> SUFFICES ASSUME ~overslept', QueueInOrder, PanelInOrder
                 PROVE  PanelInOrder'
      OBVIOUS
    <2>1. lcd.ok => f = wanted
      BY <1>1, <1>7 DEF PanelInOrder
    <2>2. Healthy(lcd') => lcd'.shows = Look(wanted)
      BY <1>1, <1>4, <2>1 DEF PanelInOrder
    <2>3. lcd'.last = NoSecond
      BY <1>4, <1>9
    <2>4. lcd'.ok => f' = wanted'
      BY <1>1, <1>4, <2>1
    <2>5. QED
      BY <1>1, <2>2, <2>3, <2>4 DEF PanelInOrder
  <1>11. QED
    BY <1>1, <1>5, <1>6, <1>7, <1>8, <1>10 DEF DisplayInv

\* What becomes of the panel when the display task takes the first frame of the queue
LEMMA TakenPanel ==
    ASSUME DisplayInv, NEW freed \in BOOLEAN, TakeFrame(freed), NEW f, f = Head(queue)
    PROVE  /\ lcd' \in Panels /\ memo' \in Memos
           /\ f.type # "session" => lcd'.last \in {lcd.last, NoSecond}
           /\ f.type # "session" /\ f.type \in EndsSession => lcd'.last = NoSecond
           /\ f.type # "session" /\ Healthy(lcd') => lcd'.shows = Look(f)
           /\ f.type # "session" /\ lcd'.ok => memo' = Remembered(f, TRUE)
           /\ f.type = "session" /\ lcd'.ok => lcd'.last = f.value
           /\ f.type = "session" /\ Healthy(lcd') =>
                 lcd'.shows = Look(f) \/ (lcd' = lcd /\ lcd.last = f.value)
  <1> DEFINE l0 == IF lcd.started THEN lcd ELSE HwInit([lcd EXCEPT !.started = TRUE])
             l1 == IF f.type \in EndsSession THEN [l0 EXCEPT !.last = NoSecond] ELSE l0
             l2 == IF f.type \in {"idle", "idle_auto"} /\ ~l1.ok
                   THEN Recover([l1 EXCEPT !.fails = 0], freed) ELSE l1
             l3 == HealthCheck(l2, freed)
             l4 == IF f.type = "done" THEN Reinit(l3) ELSE l3
  <1>1. /\ queue # <<>>
        /\ \/ /\ f.type = "session"
              /\ lcd' = IF ~l1.ok THEN l1
                        ELSE RenderSession(IF NeedsRecovery(l1)
                                           THEN SessionRecover(l1, freed) ELSE l1, f)
              /\ memo' = Remembered(f, FALSE)
           \/ /\ f.type # "session"
              /\ lcd' = IF l3.ok THEN Render(l4, f) ELSE l3
              /\ memo' = Remembered(f, l3.ok)
    BY DEF TakeFrame
  <1>2. lcd \in Panels /\ memo \in Memos /\ queue \in Seq(Screens) /\ NoSecond \in Int
        /\ \A k \in 1 .. Len(queue) : queue[k].value >= 0
    BY DEF DisplayInv, DisplayTypeOK, NoSecond
  <1>3. f \in Screens /\ f.value >= 0
    BY <1>1, <1>2
  <1>4. l0 \in Panels /\ (l0 = lcd \/ l0.last = NoSecond)
    <2>1. [lcd EXCEPT !.started = TRUE] \in Panels
      BY <1>2 DEF Panels
    <2>2. HwInit([lcd EXCEPT !.started = TRUE]) \in Panels
          /\ HwInit([lcd EXCEPT !.started = TRUE]).last = NoSecond
      BY <2>1, HwInitIs
    <2>3. QED
      BY <1>2, <2>2
  <1> HIDE DEF l0
  <1>5. /\ l1 \in Panels
        /\ f.type \in EndsSession => l1.last = NoSecond
        /\ f.type \notin EndsSession => l1 = l0
    BY <1>2, <1>4 DEF Panels
  <1> HIDE DEF l1
  <1>6. memo' \in Memos
    <2>1. BlankPanel \in Screens
      BY DEF BlankPanel, Frame, Screens, Types
    <2>2. \A drawn : Remembered(f, drawn) \in Memos
      BY <1>2, <1>3, <2>1 DEF Remembered, Memos
    <2>3. QED
      BY <1>1, <2>2
  <1>7. CASE f.type # "session"
    <2>1. l2 \in Panels /\ l2.last \in {l1.last, NoSecond}
      <3>1. [l1 EXCEPT !.fails = 0] \in Panels /\ [l1 EXCEPT !.fails = 0].last = l1.last
        BY <1>5 DEF Panels
      <3>2. Recover([l1 EXCEPT !.fails = 0], freed) \in Panels
            /\ Recover([l1 EXCEPT !.fails = 0], freed).last \in {l1.last, NoSecond}
        BY <3>1, RecoverIs
      <3>3. QED
        BY <1>5, <3>2
    <2> HIDE DEF l2
    <2>2. l3 \in Panels /\ l3.last \in {l1.last, NoSecond}
      BY <2>1, HealthCheckIs
    <2> HIDE DEF l3
    <2>3. l4 \in Panels /\ l4.last = l3.last /\ l4.ok = l3.ok
      BY <2>2, ReinitIs
    <2> HIDE DEF l4
    <2>4. lcd' = (IF l3.ok THEN Render(l4, f) ELSE l3) /\ memo' = Remembered(f, l3.ok)
      BY <1>1, <1>7
    <2>5. /\ lcd' \in Panels /\ lcd'.last = l3.last /\ lcd'.ok = l3.ok
          /\ Healthy(lcd') => lcd'.shows = Look(f)
      <3>1. CASE l3.ok
        BY <1>3, <2>3, <2>4, <3>1, RenderIs
      <3>2. CASE ~l3.ok
        BY <2>2, <2>4, <3>2 DEF Healthy
      <3>3. QED
        BY <3>1, <3>2
    <2>6. lcd'.ok => memo' = Remembered(f, TRUE)
      <3>1. lcd'.ok => l3.ok = TRUE
        BY <2>2, <2>5 DEF Panels
      <3>2. QED
        BY <2>4, <3>1
    <2>7. QED
      BY <1>4, <1>5, <1>6, <1>7, <2>2, <2>5, <2>6
  <1>8. CASE f.type = "session"
    <2> DEFINE m == IF NeedsRecovery(l1) THEN SessionRecover(l1, freed) ELSE l1
    <2>1. l1 = l0
      BY <1>5, <1>8 DEF EndsSession
    <2>2. m \in Panels /\ m.ok = l1.ok /\ (m = l1 \/ m.last = NoSecond)
      BY <1>5, SessionRecoverIs
    <2> HIDE DEF m
    <2>3. lcd' = IF ~l1.ok THEN l1 ELSE RenderSession(m, f)
      BY <1>1, <1>8 DEF m
    <2>4. CASE ~l1.ok
      BY <1>5, <1>6, <1>8, <2>3, <2>4 DEF Healthy
    <2>5. CASE l1.ok
      <3>1. lcd' = RenderSession(m, f)
        BY <2>3, <2>5
      <3>2. /\ lcd' \in Panels /\ lcd'.last = f.value
            /\ f.value = m.last => lcd' = m
            /\ f.value # m.last /\ Healthy(lcd') => lcd'.shows = Look(f)
        BY <1>3, <2>2, <3>1, RenderSessionIs
      <3>3. f.value # NoSecond
        BY <1>3 DEF NoSecond, Screens
      <3>4. f.value = m.last => m = lcd
        BY <1>4, <2>1, <2>2, <3>3
      <3>5. QED
        BY <1>6, <1>8, <3>2, <3>4
    <2>6. QED
      BY <2>4, <2>5
  <1>9. QED
    BY <1>7, <1>8

\* The frame taken was drawn, or was the second drawn last with no other screen since.
LEMMA TakeFrameStep ==
    ASSUME DisplayInv, NEW freed \in BOOLEAN, TakeFrame(freed)
    PROVE  DisplayInv'
  <1>1. PICK f : f = Head(queue)
    OBVIOUS
  <1>2. /\ queue # <<>> /\ queue' = Tail(queue) /\ waited' = 0 /\ busy' \in BOOLEAN
        /\ task' = task /\ wanted' = wanted /\ lost' = lost
        /\ overslept' = (overslept /\ f = Frame("session", lcd.last))
    BY <1>1 DEF TakeFrame
  <1>3. /\ lcd' \in Panels /\ memo' \in Memos
        /\ f.type # "session" => lcd'.last \in {lcd.last, NoSecond}
        /\ f.type # "session" /\ f.type \in EndsSession => lcd'.last = NoSecond
        /\ f.type # "session" /\ Healthy(lcd') => lcd'.shows = Look(f)
        /\ f.type # "session" /\ lcd'.ok => memo' = Remembered(f, TRUE)
        /\ f.type = "session" /\ lcd'.ok => lcd'.last = f.value
        /\ f.type = "session" /\ Healthy(lcd') =>
              lcd'.shows = Look(f) \/ (lcd' = lcd /\ lcd.last = f.value)
    BY <1>1, TakenPanel
  <1>4. /\ queue \in Seq(Screens) /\ task \in [at : Places, since : Nat, beeped : Nat]
        /\ Heartbeat \in Nat /\ overslept' \in BOOLEAN
        /\ \A k \in 1 .. Len(queue) : queue[k].value >= 0
    BY <1>2, DisplayAssumption DEF DisplayInv, DisplayTypeOK
  <1>5. PICK n \in Nat : n = Len(queue)
    BY <1>4
  <1>6. /\ n >= 1 /\ f = queue[1] /\ Len(queue') = n - 1 /\ queue' \in Seq(Screens)
        /\ \A k \in 1 .. n - 1 : queue'[k] = queue[k + 1]
    BY <1>1, <1>2, <1>4, <1>5
  <1>7. \A k \in 1 .. Len(queue') : queue'[k].value >= 0
    BY <1>4, <1>5, <1>6
  <1>8. waited' \in 0 .. Heartbeat
    BY <1>2, <1>4
  <1>9. DisplayTypeOK'
    BY <1>2, <1>3, <1>4, <1>6, <1>7, <1>8, Zenon DEF DisplayInv, DisplayTypeOK
  <1>10. Punctual'
    BY <1>2, NoLongerSilent, Zenon
  <1>11. ASSUME ~lost
         PROVE  QueueInOrder' /\ (~overslept' => PanelInOrder')
    <2>1. QueueInOrder /\ (~overslept => PanelInOrder)
      BY <1>11 DEF DisplayInv
    <2>2. \A k \in 1 .. n - 1 : Ends(k + 1) => Ends(k)'
      BY <1>6 DEF Ends
    <2>3. Ends(1) => f.type # "session" /\ lcd'.last = NoSecond
      BY <1>3, <1>6 DEF Ends, EndsSession
    <2>4. ASSUME NEW k \in 1 .. n, Cleared(k)
          PROVE  Cleared(k - 1)'
      <3>1. CASE \E e \in 1 .. k : Ends(e) /\ \A i \in e + 1 .. k : queue[i].type # "session"
        <4>1. PICK e \in 1 .. k :
                 Ends(e) /\ \A i \in e + 1 .. k : queue[i].type # "session"
          BY <3>1
        <4>2. \A i \in e .. k - 1 : i >= 1 => queue'[i].type # "session"
          BY <1>5, <1>6, <4>1
        <4>3. CASE e = 1
          BY <2>3, <4>1, <4>2, <4>3 DEF Cleared
        <4>4. CASE e # 1
          <5>1. e - 1 \in 1 .. k - 1 /\ e - 1 \in 1 .. n - 1 /\ (e - 1) + 1 = e
            BY <1>5, <2>4, <4>4
          <5>2. Ends(e - 1)'
            BY <2>2, <4>1, <5>1
          <5>3. QED
            BY <4>2, <5>1, <5>2 DEF Cleared
        <4>5. QED
          BY <4>3, <4>4
      <3>2. CASE lcd.last = NoSecond /\ \A i \in 1 .. k : queue[i].type # "session"
        <4>1. f.type # "session" /\ lcd'.last = NoSecond
          BY <1>3, <1>6, <2>4, <3>2
        <4>2. \A i \in 1 .. k - 1 : queue'[i].type # "session"
          BY <1>5, <1>6, <2>4, <3>2
        <4>3. QED
          BY <4>1, <4>2 DEF Cleared
      <3>3. QED
        BY <2>4, <3>1, <3>2 DEF Cleared
    <2>5. queue' # <<>> => queue'[n - 1] = wanted'
      <3>1. queue' # <<>> => n - 1 >= 1
        BY <1>5, <1>6
      <3>2. queue[n] = wanted
        BY <1>2, <1>5, <2>1 DEF QueueInOrder
      <3>3. QED
        BY <1>2, <1>5, <1>6, <3>1, <3>2
    <2>6. ASSUME NEW k \in 1 .. n - 1, Plain(k)'
          PROVE  Cleared(k - 1)' \/ \E e \in k + 1 .. n - 1 : Ends(e)'
      <3>1. Plain(k + 1) /\ k + 1 \in 1 .. n /\ k \in 1 .. n
        BY <1>5, <1>6, <2>6 DEF Plain
      <3>2. Cleared((k + 1) - 1) \/ \E e \in (k + 1) + 1 .. n : Ends(e)
        BY <1>5, <2>1, <3>1 DEF QueueInOrder
      <3>3. CASE \E e \in (k + 1) + 1 .. n : Ends(e)
        <4>1. PICK e \in (k + 1) + 1 .. n : Ends(e)
          BY <3>3
        <4>2. e - 1 \in 1 .. n - 1 /\ e - 1 \in k + 1 .. n - 1 /\ (e - 1) + 1 = e
          BY <1>5
        <4>3. QED
          BY <2>2, <4>1, <4>2
      <3>4. CASE Cleared((k + 1) - 1)
        <4>1. (k + 1) - 1 = k
          OBVIOUS
        <4>2. QED
          BY <2>4, <3>1, <3>4, <4>1
      <3>5. QED
        BY <3>2, <3>3, <3>4
    <2>7. task.at \notin InSession => Cleared(n - 1)'
      BY <1>5, <1>6, <2>1, <2>4 DEF QueueInOrder
    <2>8. QueueInOrder'
      BY <1>2, <1>6, <2>1, <2>5, <2>6, <2>7 DEF QueueInOrder
    <2>9. ASSUME queue' = <<>>
          PROVE  n = 1 /\ f = wanted
      <3>1. Len(queue') = 0
        BY <2>9
      <3>2. n = 1
        <4>1. Len(queue') = n - 1
          BY <1>6, Zenon
        <4>2. n \in Nat
          BY <1>5, Zenon
        <4>3. QED
          BY <3>1, <4>1, <4>2
      <3>3. queue[n] = wanted
        BY <1>2, <1>5, <2>1 DEF QueueInOrder
      <3>4. QED
        BY <1>6, <3>2, <3>3
    <2>10. ASSUME lcd'.last # NoSecond, Healthy(lcd'), \A k \in 1 .. n - 1 : ~Ends(k)'
           PROVE  f.type = "session" /\ \A k \in 1 .. n : ~Ends(k)
      <3>1. \A e \in 2 .. n : ~Ends(e)
        <4>1. \A e \in 2 .. n : e - 1 \in 1 .. n - 1 /\ (e - 1) + 1 = e
          BY <1>5
        <4>2. QED
          BY <2>2, <2>10, <4>1
      <3>2. ~Ends(1)
        BY <2>3, <2>10
      <3>3. f.type = "session"
        <4>1. SUFFICES ASSUME f.type # "session"
                       PROVE  FALSE
          OBVIOUS
        <4>2. Plain(1)
          BY <1>6, <3>2, <4>1 DEF Plain, Ends
        <4>3. Cleared(0)
          <5>1. 1 \in 1 .. n /\ 1 - 1 = 0 /\ 1 + 1 = 2
            BY <1>6
          <5>2. Cleared(1 - 1) \/ \E e \in 1 + 1 .. n : Ends(e)
            BY <1>5, <2>1, <4>2, <5>1 DEF QueueInOrder
          <5>3. QED
            BY <3>1, <5>1, <5>2
        <4>4. lcd.last = NoSecond
          BY <4>3 DEF Cleared
        <4>5. QED
          BY <1>3, <2>10, <4>1, <4>4
      <3>4. QED
        BY <1>5, <3>1, <3>2, <3>3
    <2>11. ASSUME ~overslept', f.type = "session", Healthy(lcd'), \A k \in 1 .. n : ~Ends(k)
           PROVE  lcd'.last = f.value /\ lcd'.shows = Look(f) /\ Look(f) = f
                  /\ f = Frame("session", f.value)
      <3>1. lcd'.last = f.value
        BY <1>3, <2>11 DEF Healthy
      <3>2. Look(f) = f /\ f = Frame("session", f.value)
        <4>1. f \in Screens
          BY <1>4, <1>5, <1>6
        <4>2. QED
          BY <2>11, <4>1 DEF Look, Frame, Screens
      <3>3. CASE lcd' = lcd /\ lcd.last = f.value
        <4>1. f.value # NoSecond
          BY <1>4, <1>5, <1>6 DEF NoSecond, Screens
        <4>0. ~overslept
          BY <1>2, <2>11, <3>2, <3>3
        <4>2. lcd.shows = Frame("session", lcd.last)
          BY <1>5, <2>1, <2>11, <3>3, <4>0, <4>1 DEF PanelInOrder
        <4>3. QED
          BY <3>1, <3>2, <3>3, <4>2
      <3>4. QED
        BY <1>3, <2>11, <3>1, <3>2, <3>3
    <2>12. ~overslept' /\ queue' = <<>> /\ Healthy(lcd') => lcd'.shows = Look(wanted')
      <3>1. SUFFICES ASSUME ~overslept', queue' = <<>>, Healthy(lcd')
                     PROVE  lcd'.shows = Look(f)
        BY <1>2, <2>9
      <3>2. CASE f.type # "session"
        BY <1>3, <3>1, <3>2
      <3>3. CASE f.type = "session"
        <4>1. ~Ends(1) /\ n = 1
          BY <1>6, <2>9, <3>1, <3>3 DEF Ends, EndsSession
        <4>2. QED
          BY <2>11, <3>1, <3>3, <4>1
      <3>4. QED
        BY <3>2, <3>3
    <2>13. ASSUME queue' = <<>>, lcd'.ok, task.at \in {"idle", "test"}
           PROVE  (IF memo'.test THEN memo'.banner ELSE memo'.idle) = wanted'
      <3>1. f = wanted
        BY <2>9, <2>13
      <3>2. /\ task.at = "idle" => f.type \in IdleTypes
            /\ task.at = "test" => f.type = "test"
        BY <2>1, <3>1 DEF QueueInOrder
      <3>3. IdleTypes \subseteq {"idle", "ready", "idle_auto"}
        BY DisplayAssumption
      <3>4. f.type # "session"
        BY <2>13, <3>2, <3>3
      <3>5. memo' = Remembered(f, TRUE)
        BY <1>3, <2>13, <3>4
      <3>6. QED
        BY <1>2, <2>13, <3>1, <3>2, <3>3, <3>5 DEF Remembered
    <2>14. ~overslept' => PanelInOrder'
      BY <1>2, <1>6, <2>10, <2>11, <2>12, <2>13 DEF PanelInOrder
    <2>15. QED
      BY <2>8, <2>14
  <1>12. QED
    BY <1>2, <1>9, <1>10, <1>11 DEF DisplayInv

\* Every step keeps the invariant of the screen.
LEMMA DisplayInvStep ==
    ASSUME DisplayInv, [DisplayNext]_displayVars
    PROVE  DisplayInv'
  <1>1. CASE DisplayNext
    BY <1>1, EnterStep, RepostStep, SecondStep, NoiseStep, TakeFrameStep, FinishStep,
       HeartbeatStep DEF DisplayNext
  <1>2. CASE UNCHANGED displayVars
    <2>1. UNCHANGED <<task, queue, wanted, lost, busy, waited, lcd, memo, overslept>>
      BY <1>2 DEF displayVars
    <2>2. DisplayTypeOK' /\ Punctual'
      BY <2>1 DEF DisplayInv, DisplayTypeOK, Punctual, Silence
    <2>3. QueueInOrder => QueueInOrder'
      BY <2>1 DEF QueueInOrder, Cleared, Plain, Ends
    <2>4. PanelInOrder => PanelInOrder'
      BY <2>1 DEF PanelInOrder, Ends
    <2>5. QED
      BY <2>1, <2>2, <2>3, <2>4 DEF DisplayInv
  <1>3. QED
    BY <1>1, <1>2

\* When the display task has nothing left to draw and the panel answers, the panel shows
\* the last frame the application posted, for any length of the queue, any beeps and pauses
\* and any disturbance of the bus: the throttle, the heartbeat and the recovery of
\* display.cpp over the frames of app.cpp and session.cpp.  Only a beep that outlasts the
\* heartbeat breaks it, until the next frame with anything new.
THEOREM PanelFollows == DisplaySpec => []PanelFollowsApp
  <1>1. DisplayInv => PanelFollowsApp
    BY DEF DisplayInv, PanelInOrder, Healthy, PanelFollowsApp
  <1>2. DisplayInv /\ [DisplayNext]_displayVars => DisplayInv'
    BY DisplayInvStep
  <1>3. QED
    BY DisplayInvInit, <1>1, <1>2, PTL DEF DisplaySpec
=============================================================================
