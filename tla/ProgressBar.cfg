\* All bar types, cancel and pause buttons and the refresh, in-order responses.
CONSTANTS
    Types <- AllTypes
    Controls <- CancelPauseRefresh
    RefreshRate = 1
    Reorder = FALSE
    MaxInFlight = 3
SPECIFICATION Spec
INVARIANT IdleMeansInSync
PROPERTY EventuallyShown
PROPERTY EventuallyNotified
