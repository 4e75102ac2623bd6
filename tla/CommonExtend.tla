---------------------------- MODULE CommonExtend ----------------------------
(***************************************************************************)
(* webui.suntheme.widget.common.extend (common.js), which every widget's   *)
(* setProps uses to save the properties it is given.                       *)
(*                                                                         *)
(* JavaScript values are modelled as follows: an object or array is a TLA+ *)
(* function (a record, or a sequence); a primitive is one of the model     *)
(* values in Primitives, those in Falsy being the falsy ones (null,        *)
(* undefined, false, "", 0).  A key absent from DOMAIN is an undefined     *)
(* property.                                                               *)
(***************************************************************************)
EXTENDS Naturals, Sequences, SequencesExt

CONSTANTS
    Primitives,    \* model values standing for JavaScript primitive values
    Falsy,         \* the falsy ones among them
    Null           \* null (and undefined)

ASSUME Falsy \subseteq Primitives /\ Null \in Falsy

IsObject(x) == x \notin Primitives

\* JavaScript truthiness: every object is truthy, a primitive unless falsy.
Truthy(x) == IsObject(x) \/ x \notin Falsy

\* The property k is present and neither null nor undefined (JS "!= null").
Defined(r, k) == k \in DOMAIN r /\ r[k] # Null
\* The property k is present and truthy.
Given(r, k) == k \in DOMAIN r /\ Truthy(r[k])

\* addFragment(parentNode, props) creates a widget exactly when props is an
\* object whose _widgetType is not null; null does nothing, and a string
\* only becomes the parent's innerHTML.
CreatesWidget(props) == IsObject(props) /\ Defined(props, "_widgetType")

\* Variant (mutant): Prototype's Object.extend, which replaces every top
\* level property instead of merging into it.
ExtendShallow(obj, props) ==
    IF obj = Null \/ props = Null THEN obj
    ELSE [k \in DOMAIN obj \cup DOMAIN props |->
              IF k \in DOMAIN props THEN props[k] ELSE obj[k]]

(***************************************************************************)
(* extend(obj, props): nothing when either is null; otherwise, for every   *)
(* property of props, recurse when obj holds a truthy object under that    *)
(* key, and assign otherwise.  The result is obj after the call.  A        *)
(* primitive props enumerates no property.                                 *)
(***************************************************************************)
RECURSIVE Extend(_, _)
Extend(obj, props) ==
    IF obj = Null \/ props = Null \/ ~IsObject(obj) \/ ~IsObject(props) THEN obj
    ELSE [k \in DOMAIN obj \cup DOMAIN props |->
              IF k \notin DOMAIN props THEN obj[k]
              ELSE IF k \in DOMAIN obj /\ Truthy(obj[k]) /\ IsObject(obj[k])
                   THEN Extend(obj[k], props[k])
                   ELSE props[k]]

=============================================================================
