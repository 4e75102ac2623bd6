----------------------------- MODULE MCDropDown -----------------------------
(***************************************************************************)
(* Option lists and property sets for checking DropDown.  Values v1..v3    *)
(* are model values.                                                       *)
(***************************************************************************)
EXTENDS DropDown

CONSTANTS v1, v2, v3

Plain(v) == [value |-> v, group |-> False]

TwoOptions == <<Plain(v1), Plain(v2)>>
OneOption == <<Plain(v3)>>
Swapped == <<Plain(v2), Plain(v1)>>

\* Created with two options, enabled or disabled.
Created == {[options |-> TwoOptions],
            [options |-> TwoOptions, disabled |-> True]}

\* Later calls: other lists (one shorter, one empty), (un)disabling,
\* single choice, making it a jump drop-down.
Calls == {[options |-> OneOption], [options |-> Swapped], [options |-> <<>>],
          [options |-> TwoOptions], [disabled |-> True], [disabled |-> False],
          [multiple |-> False], [submitForm |-> True]}
ListCalls == {[options |-> OneOption], [options |-> Swapped]}
=============================================================================
