\* Three parts, each within its own bounds.
SPECIFICATION PanelSpec
CONSTANTS
    \* Settings: all four writers, refused writes and a reset
    MinRelay = 2
    MaxRelay = 6
    RelayStep = 2
    CliMinRelay = 1
    MaxPrice = 2
    PriceStep = 1
    Defaults <- Factory
    Frames <- Phone
    Commands <- Console
    NvsMayRefuse = TRUE
    MaxWrites = 2
    MaxEdits = 2
    MaxResets = 1
    \* Buttons: a press two samples long, a hold three more
    DbThresh = 2
    LongTicks = 3
    RepeatDelay = 1
    RepeatAccel = 1
    SlowCadence = 2
    FastCadence = 1
    HoldRange = 4
    Hands <- Operators
    \* Display: one disturbance of the bus, a queue of one frame; the beep at the start of a
    \* session outlasts the heartbeat, the one at its end with its pause does not
    QueueDepth = 1
    Heartbeat = 3
    StartBeep = 3
    EndBeep = 1
    DoneHold = 1
    Telling = {"session"}
    Values = {0, 1}
    IdleTypes = {"ready", "idle_auto"}
    MaxFaults = 1
INVARIANTS
    PageApplies
    DivergenceIsKnown
    OneGestureOneMeaning
    PanelFollowsApp
PROPERTIES
    TermsHold
    SavesWhatWasShown
