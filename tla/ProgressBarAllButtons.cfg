\* All bar types and buttons and the refresh; responses may overtake each other.
CONSTANTS
    Types <- AllTypes
    Controls <- AllControls
    RefreshRate = 1
    Reorder = TRUE
    MaxInFlight = 3
SPECIFICATION Spec
INVARIANT TypeOK
INVARIANT SinglePollingLoop
