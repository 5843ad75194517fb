\* The console and the menu, one after the other.
SPECIFICATION Spec
CONSTANTS
    MinRelay = 2
    MaxRelay = 6
    RelayStep = 2
    CliMinRelay = 1
    MaxPrice = 2
    PriceStep = 1
    Defaults <- Factory
    Frames <- NoPhone
    Commands <- Console
    NvsMayRefuse = FALSE
    MaxWrites = 1
    MaxEdits = 1
    MaxResets = 0
PROPERTIES
    MenuSavesItsPagesOnly
