--------------------------- MODULE ValidatedField ---------------------------
(***************************************************************************)
(* What a text field with a label promises its page, without widgets,      *)
(* templates or timeouts: an input value, the field's valid and required   *)
(* flags, a queue of values sent for validation, and the two images of the *)
(* label.  Once the images exist they show the flags: each change of a     *)
(* flag is shown in the same step.  Validation verdicts are applied oldest *)
(* first.  TextField implements this specification (see MCTextField).      *)
(***************************************************************************)
EXTENDS Naturals, Sequences

CONSTANTS
    Values,        \* values the input may hold
    ValidValues,   \* the values the server accepts
    MaxPending     \* bound: values awaiting their verdict

VARIABLES
    value,         \* the input's value
    checks,        \* values sent for validation, oldest first
    valid,         \* the field's valid flag
    required,      \* the field's required flag
    shown,         \* the label's images exist
    errorShown,    \* the error image is visible
    requiredShown  \* the required image is visible

vars == <<value, checks, valid, required, shown, errorShown, requiredShown>>

Init ==
    /\ value \in Values
    /\ checks = <<>>
    /\ valid \in BOOLEAN
    /\ required \in BOOLEAN
    /\ shown = FALSE
    /\ errorShown = FALSE
    /\ requiredShown = FALSE

\* The flags become v and r; visible images follow them at once.
SetFlags(v, r) ==
    /\ valid' = v
    /\ required' = r
    /\ errorShown' = IF shown THEN ~v ELSE errorShown
    /\ requiredShown' = IF shown THEN r ELSE requiredShown
    /\ UNCHANGED shown

\* The user or the page changes the input.
Edit ==
    /\ \E v \in Values : value' = v
    /\ UNCHANGED <<checks, valid, required, shown, errorShown, requiredShown>>

\* The value is sent for validation.
Check ==
    /\ Len(checks) < MaxPending
    /\ checks' = Append(checks, value)
    /\ UNCHANGED <<value, valid, required, shown, errorShown, requiredShown>>

\* The verdict on the oldest value sent becomes the valid flag.
Verdict ==
    /\ checks # <<>>
    /\ checks' = Tail(checks)
    /\ SetFlags(Head(checks) \in ValidValues, required)
    /\ UNCHANGED value

\* The page sets one of the flags.
PageFlag ==
    /\ \E b \in BOOLEAN : SetFlags(b, required) \/ SetFlags(valid, b)
    /\ UNCHANGED <<value, checks>>

\* The images appear, showing the flags; the first rendering may show the
\* input's value in the same step.
Appear ==
    /\ ~shown
    /\ shown' = TRUE
    /\ errorShown' = ~valid
    /\ requiredShown' = required
    /\ value' \in Values
    /\ UNCHANGED <<checks, valid, required>>

Next == Edit \/ Check \/ Verdict \/ PageFlag \/ Appear

Spec == Init /\ [][Next]_vars
=============================================================================
