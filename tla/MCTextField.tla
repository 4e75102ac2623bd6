---------------------------- MODULE MCTextField ----------------------------
(***************************************************************************)
(* Property sets for checking a text field and its label.  Primitive       *)
(* values are model values: v1 a value the server accepts, v2 one it       *)
(* rejects, empty the empty string; label and image widget types; l1, e1,  *)
(* e2 widget ids.                                                          *)
(***************************************************************************)
EXTENDS TextField

CONSTANTS v1, v2, empty, label, image, l1, e1, e2

\* The label a page gives a text field: a widget with both images.
FieldLabel == [_widgetType |-> label, id |-> l1, value |-> v1,
               errorImage |-> [_widgetType |-> image, id |-> e1],
               requiredImage |-> [_widgetType |-> image, id |-> e2]]

\* A validated field, with or without an initial value.
Fields == {[label |-> FieldLabel, autoValidate |-> True, value |-> v1],
            [label |-> FieldLabel, autoValidate |-> True]}

\* Page calls: value, disabled, required, valid and the label's text.
Calls == {[value |-> v2], [disabled |-> True], [disabled |-> False],
          [required |-> True], [valid |-> False], [valid |-> True],
          [label |-> [value |-> v2]]}
\* The same without valid, which only the validation answers set.
ValidationCalls == {[value |-> v2], [disabled |-> True], [disabled |-> False],
                    [required |-> True]}
=============================================================================
