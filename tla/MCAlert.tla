------------------------------ MODULE MCAlert ------------------------------
(***************************************************************************)
(* Property sets for checking an alert.  Primitive values are model        *)
(* values: error and info alert types, s1, s2 summaries, d1 a detail, m1   *)
(* a link's widget type, image a widget type, eimg and iimg image widget   *)
(* ids, null, true and false the JavaScript null and booleans.             *)
(***************************************************************************)
EXTENDS Alert

CONSTANTS error, info, s1, s2, d1, m1, image, eimg, iimg, null, true, false

\* An indicator of type t shown by image widget id.
Indicator(t, id) == [type |-> t, image |-> [_widgetType |-> image, id |-> id]]

\* The error and information indicators, and the same in the other order.
Indicators == <<Indicator(error, eimg), Indicator(info, iimg)>>
Swapped == <<Indicator(info, iimg), Indicator(error, eimg)>>

\* An alert created with its indicators, with a type and summary or not.
Alerts == {[indicators |-> Indicators, type |-> error, summary |-> s1],
           [indicators |-> Indicators]}

\* Page calls: the type, the texts, and the indicators again.
Calls == {[type |-> error], [type |-> info],
          [summary |-> s2, detail |-> d1], [summary |-> s1],
          [moreInfo |-> [_widgetType |-> m1]],
          [indicators |-> Swapped], [indicators |-> Indicators, type |-> info]}
=============================================================================
