----------------------------- MODULE TextField -----------------------------
(***************************************************************************)
(* webui.suntheme.widget.textField (textField.js): an <input> with a label *)
(* widget (Label) whose error and required images reflect the field's      *)
(* valid and required properties.                                          *)
(*                                                                         *)
(* setProps(props) saves props with common.extend and renders props; at    *)
(* initialisation (common.initProps, deferred by a timeout on IE 6) it     *)
(* renders getProps().  Rendering copies value and disabled to the input   *)
(* and, when a label is given, or valid or required is given and the       *)
(* widget has a label, passes the label properties with valid and required *)
(* to the label widget's setProps, or creates the label by addFragment     *)
(* when it does not exist yet.                                             *)
(*                                                                         *)
(* With autoValidate, blurring the input publishes a validation begin      *)
(* event.  The AJAX layer that answers it is not in the repository: it     *)
(* validates the field's value and calls setProps({valid}).  pending holds *)
(* the values of the events not yet answered; Reorder says whether the     *)
(* layer may answer them out of order.                                     *)
(***************************************************************************)
EXTENDS Naturals, Sequences, Label

CONSTANTS
    TFCtorProps,   \* properties a text field may be created with
    TFPageProps,   \* properties the page may pass to setProps later
    Values,        \* values the user may type
    ValidValues,   \* the values the server accepts
    Empty,         \* the empty string, the input's initial value
    Reorder,       \* the AJAX layer may answer validations out of order
    MaxPending     \* bound: validation events awaiting an answer

ASSUME Empty \in Falsy /\ Empty \in Values /\ ValidValues \subseteq Values
ASSUME Reorder \in BOOLEAN /\ MaxPending \in Nat

VARIABLES
    tf,            \* the text field widget's saved properties
    field,         \* textFieldNode.value
    fieldDisabled, \* textFieldNode.disabled
    tfInit,        \* the text field's this.initialized
    pending        \* values of validation events not yet answered

\* The property k is present and == true.
IsTrue(r, k) == k \in DOMAIN r /\ r[k] = True

tfVars == <<tf, field, fieldDisabled, tfInit, pending>>
vars == <<tfVars, labelVars>>

\* The text field constructor's defaults (size is presentation).
TFDefaults == [disabled |-> False, required |-> False, valid |-> True]

\* Variant (mutant): getProps leaves out the label.
TFGetPropsNoLabel(t) ==
    LET keys == {k \in {"disabled", "required", "valid", "value"} : Defined(t, k)}
    IN  [k \in keys |-> t[k]]

\* textField.getProps at initialisation: this.initialized is still false,
\* so the value is this.value (the DOM properties are presentation).
TFGetProps(t) ==
    LET keys == {k \in {"label"} : Given(t, k)}
                \cup {k \in {"disabled", "required", "valid", "value"} : Defined(t, k)}
    IN  [k \in keys |-> t[k]]

\* The label properties setProps passes on: props.label, or {}, with
\* "props.label.valid = props.valid" and likewise required.
LabelPropsOf(props) ==
    [k \in {k \in {"valid", "required"} : Defined(props, k)} |-> props[k]]
    @@ (IF Given(props, "label") THEN props.label ELSE <<>>)

\* The label part of setProps, t being the widget after extend: update the
\* label widget, or create it by addFragment (only from properties with a
\* _widgetType).
LabelUpdate(t, props) ==
    IF Given(props, "label")
       \/ ((Defined(props, "valid") \/ Defined(props, "required")) /\ Given(t, "label"))
    THEN IF lw # Null
         THEN LabelSetProps(LabelPropsOf(props)) /\ UNCHANGED lblInit
         ELSE IF CreatesWidget(LabelPropsOf(props))
              THEN CreateLabel(LabelPropsOf(props))
              ELSE UNCHANGED labelVars
    ELSE UNCHANGED labelVars

\* Variant (mutant): the label is updated only when props.label is given.
TFRenderLabelOnly(t, props) ==
    /\ field' = IF Given(props, "value") THEN props.value ELSE field
    /\ fieldDisabled' = IF Defined(props, "disabled") THEN Truthy(props.disabled)
                        ELSE fieldDisabled
    /\ IF Given(props, "label") THEN LabelUpdate(t, props) ELSE UNCHANGED labelVars

\* The rendering part of setProps: "if (props.value)" copies a truthy
\* value to the input, disabled is copied when given, then the label.
TFRender(t, props) ==
    /\ field' = IF Given(props, "value") THEN props.value ELSE field
    /\ fieldDisabled' = IF Defined(props, "disabled") THEN Truthy(props.disabled)
                        ELSE fieldDisabled
    /\ LabelUpdate(t, props)

\* setProps(p) with p not null: extend, then render p.
TFSetProps(p) ==
    /\ tf' = Extend(tf, p)
    /\ TFRender(tf', p)

-----------------------------------------------------------------------------
\* dojo creates the text field from p over the defaults; fillInTemplate
\* calls initProps: setProps() at once, or later on IE 6.
TFInit ==
    \E p \in TFCtorProps :
        /\ tf = p @@ TFDefaults
        /\ pending = <<>>
        /\ lw = Null /\ lblInit = FALSE /\ errImg = Null /\ reqImg = Null
        /\ shownValue = Null /\ shownContents = <<>>
        /\ field = Empty /\ fieldDisabled = FALSE /\ tfInit = FALSE

\* setProps() renders getProps(); then this.initialized = true.
TFInitProps ==
    /\ ~tfInit
    /\ TFRender(tf, TFGetProps(tf))
    /\ tfInit' = TRUE
    /\ UNCHANGED <<tf, pending>>

\* Without IE 6 the constructor runs initProps itself, so nothing else
\* happens before it.
Created == tfInit \/ IE6

\* The page calls setProps(p).
PageSetProps ==
    /\ Created
    /\ \E p \in TFPageProps : TFSetProps(p)
    /\ UNCHANGED <<tfInit, pending>>

\* The user types v into the enabled input.
Type ==
    /\ tfInit
    /\ ~fieldDisabled
    /\ \E v \in Values \ {field} : field' = v
    /\ UNCHANGED <<tf, fieldDisabled, tfInit, pending, labelVars>>

\* onblur, connected when autoValidate == true: validation.processEvent
\* publishes a begin event, and the AJAX layer reads the field's value.
Blur ==
    /\ tfInit
    /\ IsTrue(tf, "autoValidate")
    /\ Len(pending) < MaxPending
    /\ pending' = Append(pending, field)
    /\ UNCHANGED <<tf, field, fieldDisabled, tfInit, labelVars>>

\* The AJAX layer answers the oldest event, or any one under Reorder, with
\* setProps({valid}).
Answer ==
    \E i \in 1..Len(pending) :
        /\ i = 1 \/ Reorder
        /\ TFSetProps([valid |-> IF pending[i] \in ValidValues THEN True ELSE False])
        /\ pending' = RemoveAt(pending, i)
        /\ UNCHANGED tfInit

\* The label's own deferred initialisation on IE 6.
LabelTimer ==
    /\ LabelInitTimer
    /\ UNCHANGED tfVars

Init == TFInit

Next ==
    \/ TFInitProps
    \/ PageSetProps \/ Type \/ Blur \/ Answer \/ LabelTimer

\* The browser runs due timeouts: the field's and the label's deferred
\* initialisations.  The user, the page and the AJAX layer owe nothing.
Fairness == WF_vars(TFInitProps) /\ WF_vars(LabelTimer)

Spec == Init /\ [][Next]_vars /\ Fairness

-----------------------------------------------------------------------------
\* The refinement mapping: the input is textFieldNode's value, the queue is
\* the events awaiting an answer, the flags are the text field's own, and
\* the images are shown once both image widgets exist.
Shown == errImg # Null /\ reqImg # Null

VF == INSTANCE ValidatedField
        WITH value <- field,
             checks <- pending,
             valid <- Truthy(tf.valid),
             required <- Truthy(tf.required),
             shown <- Shown,
             errorShown <- IF Shown THEN errImg ELSE FALSE,
             requiredShown <- IF Shown THEN reqImg ELSE FALSE

\* The text field with its label implements ValidatedField: through the
\* deferred initialisations of both widgets, page calls, typing and
\* validation answers, every change of valid or required reaches the
\* label's images in the same setProps call, and verdicts are applied
\* oldest first.
ImplementsValidatedField == VF!Spec

\* The label's images eventually exist: the text field's deferred
\* initialisation creates the label from getProps(), and the label's own
\* deferred initialisation creates both images, whatever the page, the user
\* and the AJAX layer do in between (setProps before either timeout only
\* merges into the properties the initialisations render).
ImagesAppear == <>Shown
=============================================================================
