---------------------------- MODULE RadioButton ----------------------------
(***************************************************************************)
(* webui.suntheme.widget.radioButton (radioButton.js): a group of radio    *)
(* buttons, one widget per radio, sharing one name, so that the browser    *)
(* unchecks the other <input> nodes of the group when one is checked.      *)
(*                                                                         *)
(* setProps(props) saves props with common.extend and renders props; at    *)
(* initialisation (common.initProps, deferred by a timeout on IE 6 so that *)
(* the browser shows the checked state) it renders getProps(), which reads *)
(* checked from the saved this.checked until this.initialized is set.      *)
(* Rendering copies checked and disabled to the <input>, then passes a     *)
(* style class chosen from props.disabled to the image and label widgets,  *)
(* or creates them with addFragment.                                       *)
(*                                                                         *)
(* The image and label widgets are modelled by whether they show the       *)
(* disabled style (Null while the widget does not exist); value, readOnly, *)
(* name, tool tips and the span's class are presentation.                  *)
(***************************************************************************)
EXTENDS Naturals, CommonExtend

CONSTANTS
    True, False,     \* the JavaScript booleans
    IE6,             \* the browser is IE 6 (initProps is deferred)
    Radios,          \* the radio button widgets of the group
    RBCtorProps,     \* properties a radio button may be created with
    RBPageProps      \* properties the page may pass to setProps later

ASSUME IE6 \in BOOLEAN

VARIABLES
    rb,              \* rb[r]: radio r's saved properties
    rbInit,          \* rbInit[r]: radio r's this.initialized
    checked,         \* checked[r]: radioButtonNode.checked
    disabled,        \* disabled[r]: radioButtonNode.disabled
    imgDisabled,     \* imgDisabled[r]: the image widget shows the disabled style
    lblDisabled,     \* lblDisabled[r]: the label widget shows the disabled style
    chosen           \* ghost: the radio the page or user checked last, Null
                     \* when it unchecked the last, Unset before any choice

vars == <<rb, rbInit, checked, disabled, imgDisabled, lblDisabled, chosen>>

Unset == "unset"

\* "new Boolean(x).valueOf()"
AsBool(x) == Truthy(x)

\* radioButton.getProps: disabled when not null, image and label when
\* truthy, checked from the node once initialised, else from this.checked.
RBGetProps(r) ==
    LET a    == rb[r]
        keys == {k \in {"disabled"} : Defined(a, k)}
                \cup {k \in {"image", "label"} : Given(a, k)}
        base == [k \in keys |-> a[k]]
    IN  IF rbInit[r] THEN ("checked" :> IF checked[r] THEN True ELSE False) @@ base
        ELSE IF Defined(a, "checked") THEN ("checked" :> a.checked) @@ base
        ELSE base

\* Checking node r unchecks the rest of its group; unchecking it leaves
\* the others alone.
CheckNode(r, b) ==
    [s \in Radios |-> IF s = r THEN b ELSE checked[s] /\ ~b]

\* The image or label part of setProps for the child under key k: it runs
\* "if (props[k] || props.disabled != null && this[k])"; the style class is
\* the disabled one exactly when "props.disabled == true"; the widget named
\* by this[k].id is updated, or created by addFragment from props[k] when
\* it has a _widgetType.
ChildStyle(a, props, k, cur) ==
    LET dis == Defined(props, "disabled") /\ props.disabled = True
    IN  IF Given(props, k) \/ (Defined(props, "disabled") /\ Given(a, k))
        THEN IF cur # Null THEN dis
             ELSE IF Given(props, k) /\ CreatesWidget(props[k])
                  THEN dis ELSE Null
        ELSE cur

\* Variant (mutant): the node's checked state is rendered from the saved
\* this.checked on every call, not only when props.checked is given.
RBRenderSavedChecked(r, a, props) ==
    /\ checked' = IF Defined(a, "checked") THEN CheckNode(r, AsBool(a.checked))
                  ELSE checked
    /\ disabled' = IF Defined(props, "disabled")
                   THEN [disabled EXCEPT ![r] = AsBool(props.disabled)]
                   ELSE disabled
    /\ imgDisabled' = [imgDisabled EXCEPT ![r] = ChildStyle(a, props, "image", @)]
    /\ lblDisabled' = [lblDisabled EXCEPT ![r] = ChildStyle(a, props, "label", @)]

\* The rendering part of setProps for radio r, a being the widget after
\* extend: checked, disabled, then the image and label widgets.
RBRender(r, a, props) ==
    /\ checked' = IF Defined(props, "checked") THEN CheckNode(r, AsBool(props.checked))
                  ELSE checked
    /\ disabled' = IF Defined(props, "disabled")
                   THEN [disabled EXCEPT ![r] = AsBool(props.disabled)]
                   ELSE disabled
    /\ imgDisabled' = [imgDisabled EXCEPT ![r] = ChildStyle(a, props, "image", @)]
    /\ lblDisabled' = [lblDisabled EXCEPT ![r] = ChildStyle(a, props, "label", @)]

-----------------------------------------------------------------------------
\* dojo creates each radio from its properties; the template's <input> is
\* unchecked and enabled until setProps renders.  No choice is made yet; a
\* page creates at most one radio of a group checked.
Init ==
    /\ rb \in [Radios -> RBCtorProps]
    /\ Cardinality({r \in Radios : Given(rb[r], "checked")}) <= 1
    /\ rbInit = [r \in Radios |-> FALSE]
    /\ checked = [r \in Radios |-> FALSE]
    /\ disabled = [r \in Radios |-> FALSE]
    /\ imgDisabled = [r \in Radios |-> Null]
    /\ lblDisabled = [r \in Radios |-> Null]
    /\ chosen = Unset

\* initProps of radio r: setProps() renders getProps(); then
\* this.initialized = true.  The ghost takes the creation's checked radio
\* as the choice only while nobody has chosen.
RBInitProps(r) ==
    LET props == RBGetProps(r)
    IN  /\ ~rbInit[r]
        /\ RBRender(r, rb[r], props)
        /\ rbInit' = [rbInit EXCEPT ![r] = TRUE]
        /\ chosen' = IF chosen = Unset /\ Given(props, "checked") THEN r ELSE chosen
        /\ UNCHANGED rb

\* The page's scripts run once the group's widgets are created; without
\* IE 6 each constructor has run initProps itself by then.
Created == IE6 \/ \A s \in Radios : rbInit[s]

\* The page calls setProps(p) on radio r: extend, then render p.
PageSetProps(r) ==
    /\ Created
    /\ \E p \in RBPageProps :
          /\ rb' = [rb EXCEPT ![r] = Extend(@, p)]
          /\ RBRender(r, rb'[r], p)
          /\ chosen' = CASE Defined(p, "checked") /\ AsBool(p.checked) -> r
                         [] Defined(p, "checked") /\ chosen = r -> Null
                         [] OTHER -> chosen
    /\ UNCHANGED rbInit

\* The user clicks an enabled radio: the browser checks it and unchecks
\* the others; no handler of the widget runs.  The 0 ms initialisation
\* timeouts queued while the page loads run before any user input.
Click(r) ==
    /\ \A s \in Radios : rbInit[s]
    /\ ~disabled[r]
    /\ checked' = CheckNode(r, TRUE)
    /\ chosen' = r
    /\ UNCHANGED <<rb, rbInit, disabled, imgDisabled, lblDisabled>>

Next == \E r \in Radios : RBInitProps(r) \/ PageSetProps(r) \/ Click(r)

Spec == Init /\ [][Next]_vars

-----------------------------------------------------------------------------
\* The group shows the last choice: once every radio is initialised, the
\* checked node is exactly the one the page or the user checked last (or
\* the creation's, while nobody has chosen), and none after the page
\* unchecked it: no deferred initialisation of another radio re-applies a
\* stale this.checked over that choice.
GroupShowsLastChoice ==
    (\A r \in Radios : rbInit[r]) =>
        \A r \in Radios : checked[r] <=> r = chosen
=============================================================================
