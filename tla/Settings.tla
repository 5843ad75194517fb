------------------------------ MODULE Settings ------------------------------
(***************************************************************************)
(* One stored configuration and its four writers: the LCD menu            *)
(* (config_menu_run in src/app.cpp, on the application task), the console  *)
(* setters (src/cli.cpp, on loop()), the BLE Config characteristic         *)
(* (src/ble_config.cpp, on the BLE host task of the other core), and boot, *)
(* which writes the factory defaults over a blank store (src/config.cpp).  *)
(* Each takes the configuration from a place of its own: the menu from the *)
(* application's RAM, a setter from NVS, a BLE write from its frame.       *)
(*                                                                         *)
(* Of the AppConfig fields the model keeps the two the menu's pages depend *)
(* on, the two its arithmetic bounds, and one each for the other fields of *)
(* the menu, the fields no page shows, and the one field applied live.     *)
(***************************************************************************)
EXTENDS Integers, FiniteSets

CONSTANTS
    MinRelay, MaxRelay, RelayStep,   \* the menu's limits for relay_on_ms
    CliMinRelay,                     \* the setter's lower limit for it
    MaxPrice, PriceStep,             \* the menu's limits for the pulse price
    Defaults,                        \* kDefaults
    Frames,                          \* the frames a phone writes
    Commands,                        \* the settings typed: field and value
    NvsMayRefuse,                    \* can a write to NVS fail?
    MaxWrites, MaxEdits, MaxResets   \* bounds: writes, button edits, resets

NumModes == 3                        \* NUM_OPERATION_MODES_IMPLEMENTED
NumPages == 10

Config == [mode : 0..(NumModes - 1), sensor : BOOLEAN, relay : Nat,
           price : 0..MaxPrice, other : {0, 1}, beep : {0, 1},
           polarity : BOOLEAN]

MenuFields == {"mode", "sensor", "relay", "price", "other"}
Fields     == MenuFields \cup {"beep", "polarity"}

Blank == [blank |-> TRUE]            \* no valid blob under the config key

ASSUME SettingsAssumption ==
    /\ MinRelay \in Nat /\ MaxRelay \in Nat /\ RelayStep \in 1..MinRelay
    /\ MinRelay <= MaxRelay
    /\ CliMinRelay \in 1..MinRelay
    /\ MaxPrice \in Nat /\ PriceStep \in 1..MaxPrice
    /\ Defaults \in Config /\ Defaults.relay > 0
    /\ Frames \subseteq Config
    /\ \A c \in Commands : c.field \in Fields
    /\ NvsMayRefuse \in BOOLEAN
    /\ MaxWrites \in Nat /\ MaxEdits \in Nat /\ MaxResets \in Nat

VARIABLES
    stored,        \* the blob in NVS
    fault,         \* DIAG_ERR_NVS_WRITE is raised
    cfg,           \* the application task's AppConfig; not read in "boot"
    livePrice,     \* s_price_per_credit_cents of the coin path
    livePolarity,  \* s_coin_active_high of the coin path
    app,           \* "boot", "idle", "vend", "menu" or "saving"
    page, draft,   \* the page shown and the MenuState
    cli,           \* the setter loop() is in: read, but not yet saved
    ble,           \* the frame whose polarity is still to be applied
    pending,       \* history: stored since boot or menu save by another writer
    writes, edits, resets   \* counters of the bounds

liveVars  == <<cfg, livePrice, livePolarity>>
menuVars  == <<page, draft>>
boundVars == <<writes, edits, resets>>
vars == <<stored, fault, liveVars, app, menuVars, cli, ble, pending, boundVars>>

NoCommand == [at |-> "none"]
NoFrame   == [at |-> "none"]
NoDraft   == [mode |-> 0]

SettingsTypeOK ==
    /\ stored \in Config \cup {Blank}
    /\ stored # Blank => stored.relay # 0
    /\ fault \in BOOLEAN
    /\ cfg \in Config /\ cfg.relay # 0
    /\ livePrice \in 0..MaxPrice /\ livePolarity \in BOOLEAN
    /\ app \in {"boot", "idle", "vend", "menu", "saving"}
    /\ page \in 0..(NumPages - 1)
    /\ cli = NoCommand \/ (cli.at \in {"save", "apply"} /\ cli.base \in Config)
    /\ ble = NoFrame \/ ble.frame \in Frames
    /\ pending \in BOOLEAN
    /\ writes \in 0..MaxWrites /\ edits \in 0..MaxEdits /\ resets \in 0..MaxResets

Init ==
    /\ stored \in {Blank, Defaults}
    /\ fault = FALSE
    /\ cfg = Defaults
    /\ livePrice = 0 /\ livePolarity = FALSE
    /\ app = "boot"
    /\ page = 0 /\ draft = NoDraft
    /\ cli = NoCommand /\ ble = NoFrame
    /\ pending = FALSE
    /\ writes = 0 /\ edits = 0 /\ resets = 0

-----------------------------------------------------------------------------
(* The store.                                                              *)

(* stored_read_cfg: what is stored, or the defaults.                       *)
StoredOrDefaults == IF stored = Blank THEN Defaults ELSE stored

(* Slip: the failure stays on the serial console.                          *)
ConfigSaveSilent(c) ==
    \/ stored' = c /\ UNCHANGED fault
    \/ NvsMayRefuse /\ UNCHANGED <<stored, fault>>

(* config_save: stored whole, or refused and reported as a fault.          *)
ConfigSave(c) ==
    \/ stored' = c /\ UNCHANGED fault
    \/ NvsMayRefuse /\ fault' = TRUE /\ UNCHANGED stored

-----------------------------------------------------------------------------
(* The application task.                                                   *)

(* APP_STATE_INIT: run on what is stored; over a blank store write the     *)
(* defaults first.                                                         *)
Boot ==
    /\ app = "boot"
    /\ cfg' = StoredOrDefaults
    /\ IF stored = Blank THEN ConfigSave(Defaults) ELSE UNCHANGED <<stored, fault>>
    /\ livePrice' = cfg'.price
    /\ livePolarity' = cfg'.polarity
    /\ app' = "idle"
    /\ pending' = FALSE
    /\ UNCHANGED <<menuVars, cli, ble, boundVars>>

(* A customer is served, and leaves.                                       *)
Serve ==
    /\ \/ app = "idle" /\ app' = "vend"
       \/ app = "vend" /\ app' = "idle"
    /\ UNCHANGED <<stored, fault, liveVars, menuVars, cli, ble, pending, boundVars>>

(* BTN1+BTN2 held in IDLE: the menu opens on a copy of the configuration.  *)
MenuOpen ==
    /\ app = "idle"
    /\ edits < MaxEdits
    /\ app' = "menu"
    /\ page' = 0
    /\ draft' = [f \in MenuFields |-> cfg[f]]
    /\ UNCHANGED <<stored, fault, liveVars, cli, ble, pending, boundVars>>

(* The limits hold for times that are a multiple of the step: from an odd  *)
(* one the menu leaves its own range.                                      *)
RelayDown(ms) == IF ms > MinRelay THEN ms - RelayStep ELSE MinRelay

RelayUp(ms)   == IF ms < MaxRelay THEN ms + RelayStep ELSE MaxRelay

(* The draft after BTN1 (down) or BTN2 (up) on page p.                     *)
Adjusted(d, p, up) ==
    CASE p = 0 -> [d EXCEPT !.mode = (@ + (IF up THEN 1 ELSE NumModes - 1)) % NumModes]
      [] p = 4 -> [d EXCEPT !.relay =
                     IF up THEN RelayUp(@) ELSE RelayDown(@)]
      [] p = 6 -> [d EXCEPT !.sensor = up]
      [] p = 9 -> [d EXCEPT !.price =
                     IF up THEN IF @ < MaxPrice - PriceStep THEN @ + PriceStep ELSE MaxPrice
                           ELSE IF @ > PriceStep THEN @ - PriceStep ELSE 0]
      [] OTHER -> [d EXCEPT !.other = IF up THEN 1 ELSE 0]

MenuAdjust ==
    /\ app = "menu"
    /\ edits < MaxEdits
    /\ edits' = edits + 1
    /\ \E up \in BOOLEAN : draft' = Adjusted(draft, page, up)
    /\ UNCHANGED <<stored, fault, liveVars, app, page, cli, ble, pending,
                   writes, resets>>

(* The timed modes, to which inactivity timer and per-credit mode apply.   *)
Timed(d) == d.mode # 2

(* Slip: the two pages of the timed modes are skipped one at a time.       *)
NextPageSkippingOne(p, d) ==
    LET turned == (p + 1) % NumPages
        timed  == IF ~Timed(d) /\ turned = 1 THEN 2 ELSE turned
    IN  IF ~d.sensor /\ timed \in 7..8 THEN 9 ELSE timed

(* The next page, over the ones that cannot apply.                         *)
NextPage(p, d) ==
    LET turned == (p + 1) % NumPages
        timed  == IF ~Timed(d) /\ turned \in 1..2 THEN 3 ELSE turned
    IN  IF ~d.sensor /\ timed \in 7..8 THEN 9 ELSE timed

(* START tap.                                                              *)
MenuTurn ==
    /\ app = "menu"
    /\ page' = NextPage(page, draft)
    /\ UNCHANGED <<stored, fault, liveVars, app, draft, cli, ble, pending, boundVars>>

(* START held: back to IDLE, nothing kept.                                 *)
MenuCancel ==
    /\ app = "menu"
    /\ app' = "idle"
    /\ page' = 0 /\ draft' = NoDraft
    /\ UNCHANGED <<stored, fault, liveVars, cli, ble, pending, boundVars>>

(* BTN1+BTN2 held: the draft becomes the running configuration ...         *)
MenuAccept ==
    /\ app = "menu"
    /\ app' = "saving"
    /\ cfg' = [f \in Fields |-> IF f \in MenuFields THEN draft[f] ELSE cfg[f]]
    /\ page' = 0 /\ draft' = NoDraft
    /\ UNCHANGED <<stored, fault, livePrice, livePolarity, cli, ble, pending, boundVars>>

(* ... and is stored whole; the coin path takes the new price.             *)
MenuStore ==
    /\ app = "saving"
    /\ ConfigSave(cfg)
    /\ livePrice' = cfg.price
    /\ app' = "idle"
    /\ pending' = FALSE
    /\ UNCHANGED <<cfg, livePolarity, menuVars, cli, ble, boundVars>>

-----------------------------------------------------------------------------
(* The other writers.                                                      *)

(* loop() runs only while the application task sleeps; the step that       *)
(* stores the menu's draft does not.                                       *)
LoopRuns == app \in {"idle", "vend", "menu"}

InCliRange(c) == c.field = "relay" => c.value \in CliMinRelay..MaxRelay

(* A setter reads the stored configuration ...                             *)
CliRead ==
    /\ LoopRuns /\ cli = NoCommand
    /\ writes < MaxWrites
    /\ writes' = writes + 1
    /\ \E c \in Commands :
          /\ InCliRange(c)
          /\ cli' = [at |-> "save", base |-> StoredOrDefaults, cmd |-> c]
    /\ UNCHANGED <<stored, fault, liveVars, app, menuVars, ble, pending, edits, resets>>

(* ... and stores it with its field changed; only AT+COIN_POLARITY has     *)
(* more to do.                                                             *)
CliSave ==
    /\ LoopRuns /\ cli.at = "save"
    /\ ConfigSave([cli.base EXCEPT ![cli.cmd.field] = cli.cmd.value])
    /\ pending' = TRUE
    /\ cli' = IF cli.cmd.field = "polarity" THEN [cli EXCEPT !.at = "apply"]
                                            ELSE NoCommand
    /\ UNCHANGED <<liveVars, app, menuVars, ble, boundVars>>

(* coin_counter_set_polarity, at the end of AT+COIN_POLARITY.              *)
CliApply ==
    /\ LoopRuns /\ cli.at = "apply"
    /\ livePolarity' = cli.cmd.value
    /\ cli' = NoCommand
    /\ UNCHANGED <<stored, fault, cfg, livePrice, app, menuVars, ble, pending, boundVars>>

(* AT+EEPROM_RESET.                                                        *)
CliFactory ==
    /\ LoopRuns /\ cli = NoCommand
    /\ writes < MaxWrites
    /\ writes' = writes + 1
    /\ ConfigSave(Defaults)
    /\ pending' = TRUE
    /\ UNCHANGED <<liveVars, app, menuVars, cli, ble, edits, resets>>

(* deserialize_cfg: the limits of docs/BLE_CONFIG_CONTRACT.md.             *)
InContract(frame) ==
    /\ frame.relay \in MinRelay..MaxRelay
    /\ frame.price \in 0..MaxPrice

(* Slip: a BLE write also sets the price of the pulses.                    *)
BleStoreLive ==
    /\ ble = NoFrame
    /\ writes < MaxWrites
    /\ writes' = writes + 1
    /\ \E frame \in Frames :
          /\ InContract(frame)
          /\ ConfigSave(frame)
          /\ livePrice' = frame.price
          /\ ble' = [at |-> "apply", frame |-> frame]
    /\ pending' = TRUE
    /\ UNCHANGED <<cfg, livePolarity, app, menuVars, cli, edits, resets>>

(* ConfigCharCallbacks::onWrite: every field comes from the frame.         *)
BleStore ==
    /\ ble = NoFrame
    /\ writes < MaxWrites
    /\ writes' = writes + 1
    /\ \E frame \in Frames :
          /\ InContract(frame)
          /\ ConfigSave(frame)
          /\ ble' = [at |-> "apply", frame |-> frame]
    /\ pending' = TRUE
    /\ UNCHANGED <<liveVars, app, menuVars, cli, edits, resets>>

BleApply ==
    /\ ble.at = "apply"
    /\ livePolarity' = ble.frame.polarity
    /\ ble' = NoFrame
    /\ UNCHANGED <<stored, fault, cfg, livePrice, app, menuVars, cli, pending, boundVars>>

(* Power, watchdog or AT+RESET: all but the store is lost.                 *)
Reset ==
    /\ resets < MaxResets
    /\ resets' = resets + 1
    /\ app' = "boot"
    /\ fault' = FALSE
    /\ page' = 0 /\ draft' = NoDraft
    /\ cli' = NoCommand /\ ble' = NoFrame
    /\ cfg' = Defaults
    /\ livePrice' = 0 /\ livePolarity' = FALSE
    /\ UNCHANGED <<stored, pending, writes, edits>>

Next ==
    \/ Boot \/ Serve
    \/ MenuOpen \/ MenuAdjust \/ MenuTurn \/ MenuCancel \/ MenuAccept \/ MenuStore
    \/ CliRead \/ CliSave \/ CliApply \/ CliFactory
    \/ BleStore \/ BleApply
    \/ Reset

Spec == Init /\ [][Next]_vars

-----------------------------------------------------------------------------
(* What holds.                                                             *)

(* A page that cannot apply is never shown, whatever is edited on the way  *)
(* (README, Config menu: such pages "are skipped automatically"); and from *)
(* whatever relay time console or phone have stored, the menu's steps      *)
(* never reach zero or wrap below it.                                      *)
PageApplies ==
    app = "menu" => /\ page \in {1, 2} => Timed(draft)
                    /\ page \in {7, 8} => draft.sensor
                    /\ draft.relay > 0

(* What the machine runs on is what is stored, unless another writer has   *)
(* stored since and awaits a reset, or the NVS fault is showing.           *)
DivergenceIsKnown ==
    app \in {"idle", "vend"} =>
        \/ cfg = StoredOrDefaults /\ livePrice = cfg.price
        \/ pending
        \/ fault

(* Neither the running configuration nor the price of a pulse changes      *)
(* under a paying customer or behind an open menu (README, "Config applies *)
(* at IDLE"; a cancelled menu "discards every change").                    *)
TermsHold ==
    [][LoopRuns /\ app' \notin {"saving", "boot"}
          => UNCHANGED <<cfg, livePrice>>]_vars

-----------------------------------------------------------------------------
(* What the documentation says and the code does not do.                   *)

(* README: a console setter edits the stored configuration, to apply at    *)
(* the next reset; the menu saves "all pages".  So what no page shows      *)
(* outlives a menu save.                                                   *)
MenuSavesItsPagesOnly ==
    [][app = "saving" /\ stored # Blank
          => \A f \in Fields \ MenuFields : stored'[f] = stored[f]]_vars

=============================================================================
