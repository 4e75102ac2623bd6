------------------------------ MODULE DropDown ------------------------------
(***************************************************************************)
(* webui.suntheme.widget.dropDown (dropDown.js): a <select> whose options  *)
(* and attributes come from the properties the page passes to setProps.    *)
(*                                                                         *)
(* setProps(props) saves props into the widget with common.extend, then    *)
(* renders props (not the widget): setSelectProps copies multiple and      *)
(* disabled to the <select>, addOptions rebuilds the option list from      *)
(* props.options.  During initialisation (common.initProps) setProps is    *)
(* called without arguments and renders this.getProps() instead; on IE 6   *)
(* that call is deferred by a 0 ms timeout.  A change by the user runs the *)
(* onchange callback: unless the widget is disabled or the page's onChange *)
(* handler returns false, a jump drop-down (submitForm) sets its hidden    *)
(* submitter field to "true" and submits the form.                         *)
(*                                                                         *)
(* The widget's own properties are the record w; a plain option is         *)
(* [value, group |-> False], an option group [label, group |-> True,       *)
(* options].  JavaScript true and false are the model values True and      *)
(* False, so that extend can tell them from objects.                       *)
(***************************************************************************)
EXTENDS Naturals, Integers, Sequences, SequencesExt, CommonExtend

CONSTANTS
    True, False,    \* JavaScript true and false
    CtorProps,      \* properties the widget may be created with
    PageProps,      \* properties the page may pass to setProps later
    HandlerResults, \* what the page's onChange handler may return
    IE6             \* webui.suntheme.common.browser.is_ie6

ASSUME {True, False} \subseteq Primitives /\ False \in Falsy /\ True \notin Falsy
ASSUME HandlerResults \subseteq BOOLEAN /\ IE6 \in BOOLEAN

VARIABLES
    w,              \* the widget's saved properties (this.options, this.multiple, ...)
    select,         \* listContainer: its options' values, multiple, disabled, selectedIndex
    submitter,      \* submitterHiddenNode.value
    submitted,      \* the enclosing form has been submitted (the page is left)
    initialized,    \* this.initialized, set by initProps
    given           \* ghost: the options the page gave last

vars == <<w, select, submitter, submitted, initialized, given>>

\* The property k is present and == true.
IsTrue(r, k) == k \in DOMAIN r /\ r[k] = True

\* The values the <select> lists for one option: its own, or its members'.
\* addOptions treats any option whose group is not false as a group.
OptionValues(o) ==
    IF o.group = False THEN <<o.value>>
    ELSE [i \in 1..Len(o.options) |-> o.options[i].value]

\* The select's options collection: optgroup members appear in place.
Flatten(opts) == FlattenSeq([i \in 1..Len(opts) |-> OptionValues(opts[i])])

\* selectedIndex after the list is rebuilt: a single-choice list selects
\* its first option, a multiple-choice list nothing.
DefaultIndex(list, multiple) == IF list = <<>> \/ multiple THEN -1 ELSE 0

-----------------------------------------------------------------------------
\* getProps: the widget's properties as setProps() renders them at
\* initialisation.  "props.multiple = this.multipe" reads a misspelt,
\* undefined field.
GetProps(wv) ==
    LET keys == {k \in {"multiple", "options"} : k \in DOMAIN wv /\ Truthy(wv[k])}
                \cup {k \in {"disabled", "submitForm"} : Defined(wv, k)}
    IN  [k \in keys |-> IF k = "multiple" THEN Null ELSE wv[k]]

\* Variant (mutant): setSelectProps without the disabled branch.
SetSelectPropsNoDisabled(sel, props) ==
    [sel EXCEPT !.multiple = IF Defined(props, "multiple")
                             THEN Truthy(props.multiple) ELSE @]

\* setSelectProps: multiple and disabled when given (size and class name
\* are presentation).
SetSelectProps(sel, props) ==
    [sel EXCEPT !.multiple = IF Defined(props, "multiple")
                             THEN Truthy(props.multiple) ELSE @,
                !.disabled = IF Defined(props, "disabled")
                             THEN Truthy(props.disabled) ELSE @]

\* Variant (mutant): addOptions without "options.length = 0", so the new
\* options are appended to the old ones.
AddOptionsNoClear(sel, props) ==
    IF "options" \in DOMAIN props /\ Truthy(props.options)
    THEN [sel EXCEPT !.options = @ \o Flatten(props.options),
                     !.selectedIndex = IF @ = -1
                                       THEN DefaultIndex(sel.options \o Flatten(props.options), sel.multiple)
                                       ELSE @]
    ELSE sel

\* "if (props.options) this.addOptions(props)": clear the list
\* (options.length = 0) and append one <option> per plain option and one
\* <optgroup> with its members per group (setOptionProps,
\* setGroupOptionProps).
AddOptions(sel, props) ==
    IF "options" \in DOMAIN props /\ Truthy(props.options)
    THEN [sel EXCEPT !.options = Flatten(props.options),
                     !.selectedIndex = DefaultIndex(Flatten(props.options), sel.multiple)]
    ELSE sel

\* The DOM part of setProps for the properties it renders.
Render(props) ==
    /\ select' = AddOptions(SetSelectProps(select, props), props)
    /\ submitter' = IF IsTrue(props, "submitForm") THEN "false" ELSE submitter

\* getSelectedValue: this.options[selectedIndex].value, or null.  A
\* missing entry or field reads as undefined (Null).
SelectedValue ==
    LET i == select.selectedIndex + 1
    IN  IF select.selectedIndex = -1 THEN Null
        ELSE IF "options" \in DOMAIN w /\ i \in DOMAIN w.options
                /\ "value" \in DOMAIN w.options[i]
             THEN w.options[i].value
             ELSE Null

-----------------------------------------------------------------------------
\* The constructor sets submitForm = false, dojo mixes in the creation
\* properties, and fillInTemplate calls initProps: setProps() at once, or
\* after a timeout on IE 6.  The <select> starts empty and single-choice.
Init ==
    \E p \in CtorProps :
        LET w0   == p @@ [submitForm |-> False]
            sel0 == [options |-> <<>>, multiple |-> FALSE, disabled |-> FALSE,
                     selectedIndex |-> -1]
        IN  /\ w = w0
            /\ given = IF "options" \in DOMAIN p THEN p.options ELSE <<>>
            /\ submitted = FALSE
            /\ IF IE6
               THEN /\ select = sel0
                    /\ submitter = ""
                    /\ initialized = FALSE
               ELSE /\ select = AddOptions(SetSelectProps(sel0, GetProps(w0)), GetProps(w0))
                    /\ submitter = IF IsTrue(GetProps(w0), "submitForm") THEN "false" ELSE ""
                    /\ initialized = TRUE

\* The deferred initialisation of IE 6: setProps() renders getProps().
InitTimer ==
    /\ ~initialized
    /\ ~submitted
    /\ Render(GetProps(w))
    /\ initialized' = TRUE
    /\ UNCHANGED <<w, submitted, given>>

\* The page calls setProps(p): extend(this, p), then render p.
SetProps ==
    /\ ~submitted
    /\ \E p \in PageProps :
          /\ w' = Extend(w, p)
          /\ Render(p)
          /\ given' = IF "options" \in DOMAIN p /\ Truthy(p.options)
                      THEN p.options ELSE given
    /\ UNCHANGED <<submitted, initialized>>

\* The user picks option i of an enabled list, and the onchange callback
\* runs: it returns early when the widget is disabled or the page's
\* handler returns false, else calls jumpDropDownChanged (set the
\* submitter to "true" and submit the form) or dropDownChanged (option
\* class names only).  The initialisation timeout of IE 6 runs before any
\* user input can.
Select ==
    /\ initialized
    /\ ~submitted
    /\ ~select.disabled
    /\ \E i \in 0..(Len(select.options) - 1), r \in HandlerResults :
          /\ i # select.selectedIndex
          /\ select' = [select EXCEPT !.selectedIndex = i]
          /\ \/ /\ IsTrue(w, "disabled") \/ ~r
                /\ UNCHANGED <<submitter, submitted>>
             \/ /\ ~IsTrue(w, "disabled") /\ r
                /\ IsTrue(w, "submitForm")
                /\ submitter' = "true"
                /\ submitted' = TRUE
             \/ /\ ~IsTrue(w, "disabled") /\ r
                /\ ~IsTrue(w, "submitForm")
                /\ UNCHANGED <<submitter, submitted>>
    /\ UNCHANGED <<w, initialized, given>>

Next == InitTimer \/ SetProps \/ Select

Spec == Init /\ [][Next]_vars

-----------------------------------------------------------------------------
\* getSelectedValue returns the value of the option the user sees
\* selected, whatever lists the page has passed to setProps.
SelectedValueShown ==
    select.selectedIndex # -1 =>
        SelectedValue = select.options[select.selectedIndex + 1]

\* Once initialised, the <select> is disabled exactly when the widget's
\* disabled property is true, whether it came with the creation
\* properties (rendered through getProps) or from a later setProps.
DisabledApplied ==
    initialized => (select.disabled <=> IsTrue(w, "disabled"))

\* Once initialised, the list shows exactly the options the page gave last.
ListShowsLastOptions ==
    initialized => select.options = Flatten(given)
=============================================================================
