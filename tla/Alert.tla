------------------------------- MODULE Alert -------------------------------
(***************************************************************************)
(* webui.suntheme.widget.alert (alert.js): a summary, a detail, a "more    *)
(* info" link and a list of indicators, each an image widget with a type;  *)
(* the image whose type is the alert's type is visible, the others hidden. *)
(*                                                                         *)
(* setProps(props) saves props with common.extend and renders props; at    *)
(* initialisation (common.initProps, deferred by a timeout on IE 6) it     *)
(* renders getProps().  The indicator loop runs over the SAVED list        *)
(* this.indicators and compares with the SAVED this.type; it updates an    *)
(* image widget that exists (dojo.widget.byId) and otherwise creates one   *)
(* with addFragment.                                                       *)
(*                                                                         *)
(* Image widgets are modelled by their visibility: imgs[id] is Null while  *)
(* no widget with that id exists.  Fragments are modelled by what was last *)
(* added to each container; the spacer images, dir, lang and tabIndex are  *)
(* presentation.                                                           *)
(***************************************************************************)
EXTENDS Naturals, Sequences, CommonExtend

CONSTANTS
    True, False,    \* the JavaScript booleans
    IE6,            \* the browser is IE 6 (initProps is deferred)
    ImageIds,       \* ids of the indicator image widgets
    AlertCtorProps, \* properties an alert may be created with
    AlertPageProps  \* properties the page may pass to setProps later

ASSUME IE6 \in BOOLEAN

VARIABLES
    aw,             \* the alert widget's saved properties
    alertInit,      \* this.initialized
    summary,        \* the fragment last added to summaryContainer
    detail,         \* the fragment last added to detailContainer
    moreInfo,       \* the fragment last added to detailContainerLink
    imgs            \* imgs[id]: visibility of image widget id, Null if none

vars == <<aw, alertInit, summary, detail, moreInfo, imgs>>

\* alert.getProps at initialisation: every property that is not null
\* (the common and core DOM properties are presentation).
AlertGetProps(a) ==
    LET keys == {k \in {"detail", "indicators", "summary", "type", "moreInfo"} :
                    Defined(a, k)}
    IN  [k \in keys |-> a[k]]

\* "this.type != null && this.type == indicator.type ? true : false"
IndicatorVisible(a, ind) == Defined(a, "type") /\ "type" \in DOMAIN ind
                            /\ a.type = ind.type

\* One turn of the indicator loop: set image.visible, then setProps on the
\* existing widget, or addFragment(imageContainer, image, "last"), which
\* creates a widget only from properties with a _widgetType.
IndicatorStep(a, im, ind) ==
    LET id == ind.image.id
    IN  IF im[id] # Null \/ CreatesWidget(ind.image)
        THEN [im EXCEPT ![id] = IndicatorVisible(a, ind)]
        ELSE im

\* The loop over this.indicators, first to last.
IndicatorsAfter(a, im) ==
    FoldLeft(LAMBDA m, ind : IndicatorStep(a, m, ind), im, a.indicators)

\* The loop also writes indicator.image.visible into the saved list.
MarkVisible(a) ==
    [a EXCEPT !.indicators =
        [i \in DOMAIN @ |->
            LET v == IF IndicatorVisible(a, a.indicators[i]) THEN True ELSE False
            IN  [@[i] EXCEPT !.image = ("visible" :> v) @@ @]]]

\* The loop's effect on the saved widget a and the images.
RunIndicators(a) ==
    /\ aw' = MarkVisible(a)
    /\ imgs' = IndicatorsAfter(a, imgs)

\* Each truthy fragment is added to its container.
AddFragments(props) ==
    /\ summary' = IF Given(props, "summary") THEN props.summary ELSE summary
    /\ detail' = IF Given(props, "detail") THEN props.detail ELSE detail
    /\ moreInfo' = IF Given(props, "moreInfo") THEN props.moreInfo ELSE moreInfo

\* Variant (mutant): the loop runs only when props.indicators is given,
\* so a change of type alone leaves the images as they were.
AlertRenderIndicatorsOnly(a, props) ==
    /\ AddFragments(props)
    /\ IF Given(props, "indicators") THEN RunIndicators(a)
       ELSE aw' = a /\ UNCHANGED imgs

\* The rendering part of setProps, a being the widget after extend: the
\* fragments, then the indicator loop
\* "if (props.indicators || props.type != null && this.indicators)".
AlertRender(a, props) ==
    /\ AddFragments(props)
    /\ IF Given(props, "indicators") \/ (Defined(props, "type") /\ Given(a, "indicators"))
       THEN RunIndicators(a)
       ELSE aw' = a /\ UNCHANGED imgs

-----------------------------------------------------------------------------
\* dojo creates the alert from p; fillInTemplate calls initProps, which
\* runs setProps() at once, or from a timeout on IE 6.
Init ==
    \E p \in AlertCtorProps :
        /\ aw = p
        /\ summary = Null /\ detail = Null /\ moreInfo = Null
        /\ imgs = [id \in ImageIds |-> Null]
        /\ alertInit = FALSE

\* setProps() renders getProps(); then this.initialized = true.
AlertInitProps ==
    /\ ~alertInit
    /\ AlertRender(aw, AlertGetProps(aw))
    /\ alertInit' = TRUE

\* Without IE 6 the constructor runs initProps itself, so nothing else
\* happens before it.
Created == alertInit \/ IE6

\* The page calls setProps(p) with p not null: extend, then render p.
PageSetProps ==
    /\ Created
    /\ \E p \in AlertPageProps : AlertRender(Extend(aw, p), p)
    /\ UNCHANGED alertInit

Next == AlertInitProps \/ PageSetProps

Spec == Init /\ [][Next]_vars

-----------------------------------------------------------------------------
\* Every indicator image that exists is visible exactly when some entry of
\* the saved list names it with the saved type: after any sequence of page
\* calls (a new type alone, new texts, the list sent again in another
\* order, some of them before the deferred IE 6 initialisation), the
\* indicator loop leaves no stale image shown and none wrongly hidden.
IndicatorsMatchType ==
    \A id \in ImageIds :
        imgs[id] # Null =>
            (imgs[id] <=> \E i \in DOMAIN aw.indicators :
                              /\ aw.indicators[i].image.id = id
                              /\ IndicatorVisible(aw, aw.indicators[i]))
=============================================================================
