--------------------------- MODULE MCRadioButton ---------------------------
(***************************************************************************)
(* Property sets for checking a group of radio buttons.  Primitive values  *)
(* are model values: g the group's name, image and label widget types, l1  *)
(* and l2 label texts, null, true and false the JavaScript values.         *)
(***************************************************************************)
EXTENDS RadioButton

CONSTANTS r1, r2, g, image, label, l1, l2, null, true, false

\* Each radio has an image and a label widget.
Parts == [name |-> g, image |-> [_widgetType |-> image],
          label |-> [_widgetType |-> label, value |-> l1]]

\* A radio created unchecked, checked, or disabled.
Buttons == {Parts, [checked |-> True] @@ Parts, [disabled |-> True] @@ Parts}

\* Page calls: check, uncheck, (un)disable, a new label text.
Calls == {[checked |-> True], [checked |-> False], [disabled |-> True],
          [disabled |-> False], [label |-> [value |-> l2]]}
=============================================================================
