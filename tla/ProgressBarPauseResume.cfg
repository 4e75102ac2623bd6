\* Determinate bar with pause and resume buttons, in-order responses.
CONSTANTS
    Types = {"determinate"}
    Controls <- PauseResume
    RefreshRate = 1
    Reorder = FALSE
    MaxInFlight = 3
SPECIFICATION Spec
INVARIANT IdleMeansInSync
