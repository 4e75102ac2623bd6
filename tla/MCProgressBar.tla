--------------------------- MODULE MCProgressBar ---------------------------
(* Model-checking instance of ProgressBar: constants are given in the .cfg *)
(* files; this module only fixes the widget types and button sets.          *)
EXTENDS ProgressBar

AllTypes == {"determinate", "indeterminate", "busy"}

\* Pause and resume only.
PauseResume == {"pause", "resume"}

\* Cancel and pause buttons, and the page's refresh.
CancelPauseRefresh == {"cancel", "pause", "refresh"}

\* Every button, and the page's refresh.
AllControls == {"cancel", "pause", "resume", "stop", "refresh"}

=============================================================================
