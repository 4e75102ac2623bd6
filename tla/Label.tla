------------------------------- MODULE Label -------------------------------
(***************************************************************************)
(* webui.suntheme.widget.label (label.js): a label with a value, extra     *)
(* contents, and an error image and a required image that are themselves   *)
(* widgets.                                                                *)
(*                                                                         *)
(* setProps(props) saves props with common.extend and renders props; at    *)
(* initialisation (common.initProps, deferred by a timeout on IE 6) it     *)
(* renders getProps().  The error image is shown when the label is not     *)
(* valid and the required image when it is required.  Either image is      *)
(* updated when the image properties or the flag are given; an image       *)
(* widget that does not exist yet is created by addFragment, which creates *)
(* nothing from properties without a _widgetType.                          *)
(*                                                                         *)
(* lw is the label's saved properties, Null before the widget exists.  An  *)
(* image is Null before its widget exists, else whether it is visible.     *)
(***************************************************************************)
EXTENDS Naturals, Sequences, CommonExtend

CONSTANTS
    True, False,     \* JavaScript true and false
    IE6              \* webui.suntheme.common.browser.is_ie6

ASSUME {True, False} \subseteq Primitives /\ False \in Falsy /\ True \notin Falsy
ASSUME IE6 \in BOOLEAN

VARIABLES
    lw,            \* the label widget's saved properties, or Null
    lblInit,       \* the label's this.initialized
    errImg,        \* error image widget: Null, or its visibility
    reqImg,        \* required image widget: Null, or its visibility
    shownValue,    \* valueContainer's text, or Null
    shownContents  \* the fragments in contentsContainer

labelVars == <<lw, lblInit, errImg, reqImg, shownValue, shownContents>>

\* Flag values as the code tests them: "this.valid != null ? !this.valid"
\* and "this.required != null ? this.required".
Invalid(l) == Defined(l, "valid") /\ ~Truthy(l.valid)
Required(l) == Defined(l, "required") /\ Truthy(l.required)

\* The label constructor's defaults.
LabelDefaults == [level |-> 2, required |-> False, valid |-> True]

\* label.getProps: the properties setProps() renders at initialisation.
LabelGetProps(l) ==
    LET keys == {k \in {"contents", "errorImage", "requiredImage", "value"} : Given(l, k)}
                \cup {k \in {"level", "required", "valid"} : Defined(l, k)}
    IN  [k \in keys |-> l[k]]

\* An image after "imageWidget.setProps(p) or addFragment(container, p)":
\* an existing widget takes the visibility; otherwise one is created only
\* when p carries a _widgetType.
ImageAfter(img, p, visible) ==
    IF img # Null THEN visible
    ELSE IF CreatesWidget(p) THEN visible
    ELSE Null

\* "if (props.errorImage || props.valid != null && this.errorImage)": the
\* error image is visible when this.valid is defined and false.
ErrorImageRender(l, props, img) ==
    IF Given(props, "errorImage") \/ (Defined(props, "valid") /\ Given(l, "errorImage"))
    THEN ImageAfter(img,
                    IF Given(props, "errorImage") THEN props.errorImage ELSE <<>>,
                    Invalid(l))
    ELSE img

\* Same for the required image, visible when this.required is true.
RequiredImageRender(l, props, img) ==
    IF Given(props, "requiredImage") \/ (Defined(props, "required") /\ Given(l, "requiredImage"))
    THEN ImageAfter(img,
                    IF Given(props, "requiredImage") THEN props.requiredImage ELSE <<>>,
                    Required(l))
    ELSE img

\* label.setProps rendering props, l being the label's properties after
\* extend: the value replaces the text when truthy; contents are appended
\* with "last" after "contentsContainer.innerHtml = ''", which sets an
\* unused property and clears nothing.
LabelRender(l, props) ==
    /\ errImg' = ErrorImageRender(l, props, errImg)
    /\ reqImg' = RequiredImageRender(l, props, reqImg)
    /\ shownValue' = IF Given(props, "value") THEN props.value ELSE shownValue
    /\ shownContents' = IF Given(props, "contents")
                        THEN shownContents \o props.contents
                        ELSE shownContents

\* labelWidget.setProps(p) on an existing label: extend, then render p.
LabelSetProps(p) ==
    /\ lw # Null
    /\ lw' = Extend(lw, p)
    /\ LabelRender(lw', p)

\* The label's setProps(): render getProps().
LabelInitProps ==
    /\ LabelRender(lw, LabelGetProps(lw))
    /\ lblInit' = TRUE
    /\ UNCHANGED lw

\* The label's deferred initialisation on IE 6.
LabelInitTimer ==
    /\ lw # Null
    /\ ~lblInit
    /\ LabelInitProps

\* dojo creates a label widget from p (constructor defaults, then p) and
\* fillInTemplate calls initProps: setProps() at once, or later on IE 6.
CreateLabel(p) ==
    /\ lw' = p @@ LabelDefaults
    /\ IF IE6
       THEN /\ lblInit' = FALSE
            /\ UNCHANGED <<errImg, reqImg, shownValue, shownContents>>
       ELSE /\ LabelRender(lw', LabelGetProps(lw'))
            /\ lblInit' = TRUE

=============================================================================
