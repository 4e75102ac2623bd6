# TLA+ models of the suntheme widget scripts

This directory holds TLA+ models of the JavaScript widgets under
`src/www/public/docs/ui-docs/mockups/suntheme/javascript/widget/`. They are
Dojo 0.4 widgets of the Woodstock mock-ups that OpenDJ ships with its
documentation. Each model is checked with TLC.

## The system

Each widget is a constructor plus `fillInTemplate`. The constructor sets
defaults, and `fillInTemplate` wires DOM nodes and calls `common.initProps`.
That call runs `setProps()` at once, or on IE 6 after a 0 ms timeout. Widgets
share the helpers of `common.js`. `extend` merges the properties passed to
`setProps` into the widget, recursing into object values. The `get*Props` and
`set*Props` helpers copy property groups between widgets and DOM nodes.

Three widgets talk to a server. They do it through an AJAX layer that is not in
this repository. A widget publishes a *begin event* on a dojo topic, and the
layer answers by calling a widget method.

* `progressBar` polls. `progress.processEvent` publishes a begin event and
  arms `setTimeout(callback, refreshRate)`, whose callback calls
  `processEvent` again. The layer answers each event with
  `setProgress({progress, taskState, ...})`. The cancel, pause, resume and
  stop buttons each do three things: write a control value into a hidden
  field that the next request carries, clear the timer, and poll at once.
  `setProgress` ends the loop (`clearTimeout`) on a failed, canceled, paused,
  stopped or completed answer. It runs the page's callbacks `funcFailed`,
  `funcCanceled` and `funcComplete`.
* `table2RowGroup` loads rows lazily. On each scroll event,
  `scroll.processEvent` publishes a begin event with `first` (the next row
  to fetch). It does so when rows remain and the current row is on a page
  boundary. It then bisects the rows' `offsetTop` to find `currentRow`, the
  row at the top of the view. The layer answers a scroll event with
  `addRows(rows)` and a refresh event with `setProps({rows})`. `addRows`
  names its rows `id:first+i`, advances `first`, and schedules a resize.
  The resize sets the view height (`setHeight`) and the text
  "Items: a - b of n" (`setRowsText`).
* `textField` validates. With `autoValidate`, leaving the field publishes a
  begin event. The layer answers with `setProps({valid})`, and the text
  field passes `valid` on to its label widget. The label shows or hides its
  error image widget.

The other widgets only render properties. `dropDown` also handles the
user's choice: it submits the form for a jump drop-down, unless the page's
`onChange` handler vetoes it.
`radioButton` widgets that share a name form a group: the browser unchecks
the other radios of the group when one is checked, by the user or by
`setProps({checked: true})`, with no code of the widget involved.

## Modules

| module | models | source |
|---|---|---|
| `ProgressBar` | the polling loop, the four buttons, `setProgress`, the refresh event and its `setProps` answer; the server task and AJAX layer as environment | `progressBar.js` |
| `MCProgressBar` | constants for the progress bar runs | |
| `RowSearch` | the bisection of `scroll.processEvent` as a RECURSIVE operator, the reference "row at the top" and the scroll range, over a row layout | `table2RowGroup.js` 485-504 |
| `MCRowSearch` | every layout reachable under small bounds, as initial states, to compare the bisection with the reference | |
| `Table2RowGroup` | scroll, page answers (`addRows`), refresh answers (`setProps` with rows), the resize timeout | `table2RowGroup.js` |
| `MCTable2RowGroup` | instance of `Table2RowGroup` | |
| `CommonExtend` | `common.extend` as a RECURSIVE operator over JavaScript values | `common.js` 175-187 |
| `DropDown` | construction, `initProps`, `setProps`/`getProps`, `setSelectProps`, `addOptions`, the onchange callback, `getSelectedValue` | `dropDown.js` |
| `MCDropDown` | option lists and property sets for the drop-down runs | |
| `Label` | `getProps`/`setProps` of a label: value, error and required image widgets, contents; creation and deferred initialisation | `label.js` |
| `TextField` | `getProps`/`setProps` of a text field, its label (through `Label`), typing, and validation on blur with the AJAX answers as environment | `textField.js` |
| `MCTextField` | the label, property sets and values for the text field run | |
| `ValidatedField` | the abstract specification of a validated field with a label: value, flags, verdict queue, visible images | what `textField.js` with `label.js` promise the page |
| `Alert` | `getProps`/`setProps` of an alert: summary, detail and more-info fragments, the indicator loop over image widgets, deferred initialisation | `alert.js` |
| `MCAlert` | indicator lists and page calls for the alert runs | |
| `RadioButton` | a group of radio buttons: `getProps`/`setProps` of each, deferred initialisation, the user's clicks, the browser unchecking the rest of the group | `radioButton.js` |
| `MCRadioButton` | the radios, their image and label parts and the page calls for the radio runs | |

### ProgressBar

The variables map to the code as follows:

| variable | code |
|---|---|
| `type`, `progress`, `taskState` | the widget fields of the same names |
| `hiddenValue` | `hiddenFieldNode.value` |
| `timerPending` | whether the timeout in `this.timeoutId` is still pending |
| `orphanTimers` | pending timeouts whose id was overwritten, which no `clearTimeout` can reach |
| `width`, `barVisible` | the inner bar's width and the container's visibility |
| `calls` | how often each page callback ran, saturating at `CallCap` |
| `requests`, `responses`, `task` | the environment |

Actions:

* `TimerFires` is the `createCallback` closure.
* `Cancel`, `Pause`, `Resume` and `Stop` are the button handlers. Each uses
  `UpdateProgress`, which is `progress.processEvent`.
* `SetProgress(r)` is `setProgress` with its branches in the code's order:
  failed, canceled, paused or stopped, done, running.
* `Refresh` is `refresh.processEvent`, which the page calls. It publishes a
  refresh event and leaves the timer alone.
* `SetProps(r)` is `setProps` called with the answer to a refresh. `extend`
  saves `progress` and `taskState`, and a determinate bar is drawn at
  `this.progress`. The code tests `props.type`; the answer is the server's
  rendering of the same widget, so it carries the widget's type and the
  model tests `type`. Unlike `setProgress`, it does not clamp the progress,
  clear the timer or run a page callback. Its text, class and size branches
  are presentation.

Environment actions:

* `TaskAdvances`: the server task progresses by `Step`, completes or fails
  on its own.
* `Serve`: the server takes the oldest begin event, applies the control
  value it carries (`ApplyControl`), and answers with a snapshot.
* `Deliver`: the AJAX layer hands an answer to `setProgress` (a progress
  event) or to `setProps` (a refresh event). It takes the oldest one, or
  any one when `Reorder` holds. Requests and answers are records tagged
  with their kind. A refresh request carries the hidden field like a poll,
  because the server decodes the same component.

`Stop` models the code as it runs. For an indeterminate bar, `stop`
dereferences `this.innerBarIdContainer`, which is undefined. The TypeError
ends the handler after `clearTimeout` and before `updateProgress`.

**Fairness.** `TimerFires`, `Serve` and `Deliver` are weakly fair. The
browser runs a due timeout, and the transport answers a published event.
The user's buttons, the page's refreshes and the server task get no
fairness. Under it, `EventuallyNotified` checks that once the task has
finished, the page's callback for that state (`funcComplete`, `funcFailed`,
`funcCanceled`) eventually runs. A refresh answer can show the final state
first through `setProps`, which runs no callback and does not stop the
loop. The next poll then brings the state to `setProgress`.

**Bounds.** `MaxInFlight` (3) bounds requests plus answers on the wire.
A refresh may take at most `MaxInFlight - 1` places, so the poll always has a
place. Without that, a page that refreshes forever would fill the bounded
wire, which the browser's real wire never does.
`Step` = 50 gives the progress values 0, 50 and 100. That is enough to
separate "running with progress" from "done".

### RowSearch and Table2RowGroup

The layout is abstracted to equal row heights (`RowHeight`) under a group
header (`HeaderHeight`) and above an optional footer (`FooterHeight`). All of
them sit inside the scrolled node. Row `i` has `offsetTop = HeaderHeight +
i*RowHeight`. `setHeight` sets the view to the height of the rows it
counts, so the scroll range is `header + rows + footer - view`.
`BorderOffset` is the `+ 5` the code adds to `scrollTop`.

The model assumes the following:

* Each answer brings one page of the rows asked for. That is `maxRows`
  rows, or the rest of the table.
* Emptying the node in `setProps` scrolls it back to the top.
* The browser clamps `scrollTop` when `setHeight` grows the view.

`first` always equals the number of loaded rows, so the k-th DOM row (from
0) has id `id:k`. `tbody[k+1]` records which server row that DOM row shows.

`MCRowSearch` enumerates, as initial states, every combination within the
bounds of these four quantities:

* the table size;
* the page size, from `MinRows` to `MaxRowsBound`;
* the rows loaded, in whole pages or all rows;
* the view height, and every `scrollTop` in the scroll range.

It has no transitions. The view height is at least two rows unless the page
or the loaded part is one row, as `setHeight` makes it.

`Table2RowGroup.cfg` has 7 rows in pages of 2, so the last page is shorter
than the others, as in `DataRows` and in the `Math.min` of `setRowsText`.
It allows two events in flight (`MaxInFlight`), so a second scroll event
can go out before the first is answered.

### CommonExtend

JavaScript values are abstracted as follows. An object or array is a TLA+
function: a record, or a sequence. A primitive is a model value from
`Primitives`, and `Falsy` holds the falsy ones (null, undefined, false, the
empty string). `Null` stands for both null and undefined. Model values keep
TLC from comparing a record with a string, and let `IsObject` and `Truthy`
follow the code's `typeof obj[property] == "object"` and truthiness tests.

`Extend(obj, props)` is `extend`. It recurses where the widget holds a
truthy object under a key, and assigns otherwise. The widget modules use it
for every `setProps(props)` call. It merges rather than replaces: an array
is overwritten element by element, and a primitive cannot replace an object.
The IE 6 run of the drop-down shows where that matters.

`CreatesWidget(props)` is the decision of `addFragment`: given an object
with a `_widgetType`, it creates a widget; anything else is added as
markup and creates none. The label, alert and radio modules use it for
their child widgets.

### DropDown

The variables map to the code as follows:

| variable | code |
|---|---|
| `w` | the widget's own properties (`this.options`, `this.disabled`, ...) |
| `select` | `listContainer`: the values of its options (optgroup members in place), `multiple`, `disabled`, `selectedIndex` |
| `submitter`, `submitted` | `submitterHiddenNode.value`, and whether the form was submitted |
| `initialized` | `this.initialized` |
| `given` | a ghost: the option list the page gave last |

Actions:

* `Init` is the constructor plus dojo's mixin of the creation properties.
  Without IE 6, `initProps` renders `getProps()` in the same step.
* `InitTimer` is the IE 6 timeout of `initProps`.
* `SetProps` is `setProps(p)` for any `p` of `PageProps`: `extend`, then
  `setSelectProps` and `addOptions` on `p` (`Render`).
* `Select` is the user choosing another option, followed by the onchange
  callback with its three outcomes: return early (the widget is disabled, or
  the page's handler returns false), submit (`jumpDropDownChanged`), or
  restyle (`dropDownChanged`). The submit outcome assumes the drop-down
  sits in a form. Without one, the loop in `jumpDropDownChanged` that
  looks for the form throws. No property depends on it.

`GetProps` reproduces `props.multiple = this.multipe`, which is always
undefined. After a submit the page is gone and nothing can happen, so the
drop-down cfgs set `CHECK_DEADLOCK FALSE`.

### Label and TextField

`TextField` extends `Label`. A text field owns one label widget, and the label
owns two image widgets. Their state maps to the code as follows:

| variable | code |
|---|---|
| `tf`, `lw` | the text field's and the label's own properties; `lw` is `Null` until `addFragment` creates the label |
| `field`, `fieldDisabled` | `textFieldNode.value`, `textFieldNode.disabled` |
| `tfInit`, `lblInit` | the two widgets' `this.initialized` |
| `errImg`, `reqImg` | `Null` until the image widget exists, then its visibility |
| `shownValue`, `shownContents` | the label's value container and contents container |
| `pending` | the field values of validation events not yet answered |

Actions:

* `TFInitProps` is `initProps` of the text field. `TFRender` renders
  `getProps()`; on the first render the label is created from `this.label` by
  `addFragment` (`CreateLabel`). Without IE 6 this happens in the
  constructor, so nothing else runs before it (`Created`).
* `PageSetProps` is `setProps(p)` from the page.
* `Type` is the user typing, and `Blur` is `validation.processEvent`.
  `onblur` is connected in `fillInTemplate`, but the model lets the user
  act only after the field's 0 ms initialisation timeout, which runs before
  any user input.
* `Answer` is the AJAX layer calling `setProps({valid})` with the server's
  verdict on the value it was sent. It answers the oldest event first unless
  `Reorder` holds.
* `LabelTimer` is the label's own IE 6 timeout.

`LabelUpdate` is the label branch of `textField.setProps`. It runs when a
label is given, or when valid or required is given and the widget has a
label. It calls the label's `setProps` (`LabelSetProps`) when the label
exists, and otherwise `addFragment`, which creates a widget only from
properties with a `_widgetType`. `LabelRender` renders the label in the
code's order: the value, the error image, the required image, then the
contents. The contents are appended after `innerHtml = ""`, which clears
nothing.

**Refinement.** `ValidatedField` states what the pair promises without
widgets, templates or timeouts. It has an input value, the valid and
required flags, a queue of values sent for validation, and the two images,
which exist or not. Once the images exist, every change of a flag is shown
in the same step (`SetFlags`), and verdicts are applied oldest first
(`Verdict`). `TextField` instantiates it with this mapping:

| abstract | `TextField` |
|---|---|
| `value` | `field` |
| `checks` | `pending` |
| `valid`, `required` | the truthiness of `tf.valid`, `tf.required` |
| `shown` | both image widgets exist (`Shown`) |
| `errorShown`, `requiredShown` | `errImg`, `reqImg` once shown |

`ImplementsValidatedField == VF!Spec` is checked as a temporal property. Each
`TextField` step is one abstract step, or a stuttering step:

* the initialisations and `LabelTimer` are `Appear` or stuttering;
* `Type` is `Edit`, and `Blur` is `Check`;
* `Answer` is `Verdict`;
* a page call is `PageFlag`, `Edit`, or both in the same step when a call
  sets the value and a flag together. The abstract `PageFlag` does not allow
  that, so the page calls are chosen to set one of them at a time.

The refinement fails if a flag reaches the field but not its images, which
is what the `TFRenderLabelOnly` mutant does. It also fails when answers are
applied out of order (`Reorder = TRUE`).

**Fairness.** `TextField.Spec` assumes weak fairness of `TFInitProps` and
`LabelTimer` only: they are browser timeouts (`setTimeout(..., 0)` on IE 6),
which the browser runs once queued. The user, the page and the AJAX layer
get no fairness and may stop at any point. Under it, `ImagesAppear` checks
that both images of the label eventually exist (`<>Shown`), which needs the
text field's render to pass `label` to `addFragment` and the label's own
initialisation to create the images. The drop-down properties are
invariants and have no fairness.

**Bounds.**

* Three option values cover a shorter list, a swapped list and an empty
  list.
* Three field values cover an accepted value, a rejected value and the
  empty string.
* `MaxPending = 2` is the smallest bound at which two validation events can
  be in flight at once.
* Every page call is drawn from a small set that covers each property
  `setProps` renders.

### Alert

`Alert` extends `CommonExtend` and maps to `alert.js` as follows:

| variable | code |
|---|---|
| `aw` | the alert's own properties, `this.indicators` included |
| `alertInit` | `this.initialized` |
| `summary`, `detail`, `moreInfo` | the fragment last added to `summaryContainer`, `detailContainer`, `detailContainerLink` |
| `imgs` | for each image id, `Null` until an image widget with that id exists, then its visibility |

Actions:

* `AlertInitProps` is `initProps`. It renders `getProps()` (`AlertGetProps`).
  It runs after a timeout on IE 6, and otherwise in the constructor
  (`Created`).
* `PageSetProps` is `setProps(p)` from the page: `extend`, then
  `AlertRender`.

`AlertRender` adds each truthy fragment. It then runs the indicator loop
when `props.indicators || props.type != null && this.indicators`. The loop
(`IndicatorsAfter`, a `FoldLeft` of `IndicatorStep`) goes over the saved
`this.indicators`. It compares each entry's type with the saved `this.type`
(`IndicatorVisible`) and writes `image.visible` back into the saved list
(`MarkVisible`). It then calls `setProps` on the image widget with that id,
or creates the widget by `addFragment` if the properties have a
`_widgetType`.

**Bounds.** There are two types (error and info) and two image ids. The
page calls set each type, the texts and the link, the indicators in the
other order, and the indicators together with a type. That covers a loop
that runs on a type alone, and an `extend` that overwrites each saved entry
with another entry's type and image. There is no fairness, and the property
is an invariant.

### RadioButton

A group is modelled as a set `Radios` of widgets that share one name.

| variable | code |
|---|---|
| `rb` | each radio's own properties (`this.checked`, `this.disabled`, `this.image`, `this.label`, ...) |
| `rbInit` | each radio's `this.initialized` |
| `checked`, `disabled` | `radioButtonNode.checked` and `.disabled` of each radio |
| `imgDisabled`, `lblDisabled` | `Null` until the image or label widget exists, then whether it shows the disabled style |
| `chosen` | a ghost: the radio the page or the user checked last, `Null` after the page unchecked it |

Actions:

* `RBInitProps(r)` is `initProps`: render `getProps()` (`RBGetProps`), which
  takes `checked` from the saved `this.checked` until `this.initialized` is
  set, then set it. On IE 6 it runs after a 0 ms timeout, so the other
  radios' constructors and the page's scripts may run first (`Created`).
* `PageSetProps(r)` is `setProps(p)`: `extend`, then `RBRender`.
* `Click(r)` is the user checking an enabled radio. No widget code runs;
  the browser unchecks the rest of the group (`CheckNode`). Clicks come
  after the initialisation timeouts, which run before any user input.

`RBRender` copies `checked` and `disabled` to the node and then updates or
creates the image and label widgets (`ChildStyle`). The style class comes
from `props.disabled`, not from the saved `this.disabled`. `ChildStyle`
assumes that `dojo.widget.byId(this.image.id)` finds a child once it has
been created. The parts in `MCRadioButton` have no id, so in the code a
later call would `addFragment` again into the replaced container. Only
`imgDisabled` and `lblDisabled` depend on this, and no property reads
them.

**Bounds.** Two radios, each created unchecked, checked or disabled (at most
one checked), with an image and a label part. The page calls check,
uncheck, disable, enable, and change the label. Two radios are the fewest
at which a group unchecks another radio.


## Runs

| run | expect | what it shows |
|---|---|---|
| `progress_poll` | pass | With cancel and pause and in-order answers: when the loop stops, the widget shows the server task's state and progress (`IdleMeansInSync`). Every final state of the task is eventually shown (`EventuallyShown`). The page's refreshes run in between, and the page's callback for the final state eventually runs (`EventuallyNotified`). |
| `progress_all_buttons` | pass | With all buttons, the refresh, all types and reordered answers, no timeout is orphaned. |
| `progress_pause_resume` | violation | The user pauses, then resumes before the pause is answered. The late `paused` answer clears resume's timer. The answer to the resume request arrives last and shows `running`, but the running branch of `setProgress` arms no timer. The widget stops polling and shows running at a frozen progress while the task moves on. |
| `row_search` | pass | With no footer and pages of at least two rows, the bisection finds the top row at every scroll position. |
| `table_scroll` | pass | Through interleaved scrolls, answers, refreshes and resizes, each scroll event sets `currentRow` to the top row (`ScrollFindsTopRow`). Requests never ask past the last row (`TypeOK`). |
| `table_duplicate_fetch` | violation | Two scroll events before an answer fetch one page twice. The copy is labelled with the next page's ids. |
| `dropdown_ie6` | pass | On IE 6, with page calls before and after the deferred initialisation, `getSelectedValue` returns the value the user sees selected (`SelectedValueShown`). The select is disabled exactly when the widget is (`DisabledApplied`). |
| `dropdown_ie6_stale` | violation | On IE 6 the page sets a one-option list before the initialisation timeout. `extend` merges it over the two-option creation list, and the initialisation shows the stale second option (`ListShowsLastOptions`). |
| `textfield` | pass | On IE 6, where the field and its label initialise after separate timeouts, through page calls, typing and in-order validation answers, the text field with its label implements `ValidatedField` (`ImplementsValidatedField`): every change of `valid` or `required` reaches the visible images in the same call, and verdicts are applied oldest first. Under fair browser timeouts both label images eventually exist (`ImagesAppear`). |
| `alert` | pass | On IE 6, through page calls before and after the deferred initialisation, exactly the indicator of the saved type is visible (`IndicatorsMatchType`). The calls change the type, the texts and the order of the indicator list. |
| `radio_group` | pass | Without IE 6, through page calls and clicks, once every radio is initialised the checked radio is exactly the last one the page or the user checked (`GroupShowsLastChoice`). |
| `radio_group_ie6` | violation | On IE 6 the page checks radio 1 before radio 2's deferred initialisation. Radio 2 was created checked, and its initialisation renders the stale `this.checked`, so the browser unchecks the page's choice (`radioButton.js:118`). |

Each property of a passing run has a mutant in `PROJECT.json`. A mutant is a
plausible bug in the modelled code that TLC must catch. Examples are a
dropped `clearTimeout`, a missing `first += rows.length`, a missing `- 1`, a
missing `options.length = 0`, and a label update that only runs when
`props.label` is given.

The following bugs were found while modelling but are not checked by a run.
Each shows in a single call, and they are listed as hazards in
`PROJECT.json`:

* `funcComplete` runs once per `completed` answer (`progressBar.js:609`).
* Without `refreshRate`, the progress bar never polls (`progressBar.js:283`).
* An empty table reads "Items: 1 - 0 of 0" (`table2RowGroup.js:438`).
* `getProps` reads `this.multipe`, so `multiple` is lost at initialisation
  (`dropDown.js:197`).
* `label.setProps` clears `innerHtml`, not `innerHTML`, so contents
  accumulate (`label.js:222`).
* `if (props.value)` means `setProps({value: ""})` cannot clear a text field
  (`textField.js:185`). `hiddenField.js`, `staticText.js` and `label.js` use
  the same test.
* If the AJAX layer answers validations out of order, the label keeps the
  older verdict. `ImplementsValidatedField` fails with `Reorder = TRUE`.
* `stop` on an indeterminate bar writes to `innerBarIdContainer`, which does
  not exist. The `TypeError` skips the poll that would carry the stop to the
  server (`progressBar.js:850`).
* With an option group, `getSelectedValue` indexes the top-level options
  with the flat `selectedIndex` (`dropDown.js:484`). `DropDown` still models
  groups, but the runs use flat lists.
* A null entry in the alert's indicator list becomes `{}`, and
  `indicator.image.visible` then throws, so later entries are not updated
  (`alert.js:179`).
* `alert.setProps({type: null})` saves the null type but skips the
  indicator loop, which runs only if `props.type != null`, so the previous
  indicator stays visible (`alert.js:168`).
* With a footer, or with `maxRows = 1`, the last loaded row can reach the
  top, and the bisection, which never searches index `last`, misses it
  (`table2RowGroup.js:487`). `RowSearch` shows it with `FooterHeight > 0`.
* The radio button's image and label take the disabled style from
  `props.disabled`, so a call that changes only `image` or `label` shows
  the enabled style on a disabled radio (`radioButton.js:209`).

## Not modelled

* Presentation: visibility setters, class names, the string branch of `addFragment`, column
  widths, log messages and overlay text. No property depends on them.
* The `sleep(1000)` busy wait in `setProgress`. It blocks the page, but the
  script is single-threaded, so no other handler interleaves with it.
* `hiddenField` and `staticText`. They follow the same
  `extend`/`initProps` protocol and copy `value`, `disabled` and `name` onto
  one DOM node (`staticText` escapes the value first, with the saved
  `this.escape`). They have no child widgets, no callbacks, no server traffic
  and no group, and no state of theirs is read back later. The only hazards
  they have are ones the modelled widgets already show: the deferred IE 6
  initialisation merging early page calls, and `if (props.value)` not
  clearing a value (`textField.js:185`).
* The progress bar's `getProps`, which is read once at initialisation,
  before any answer. Also the text, class and size branches of `setProps`,
  the visibility setters and the `is...Visible` getters. They only change
  presentation.
* The alert's spacer images, and a second `moreInfo`: `addFragment` with no
  position replaces the container node. A later `addFragment` on the same
  attach point then writes to a detached node. That depends on
  `dojo.widget.createWidget`, which is not in the repository; it is listed
  as a hazard (`alert.js:142`) with no property.
* The drop-down's label, style classes and refresh event. Option
  `selected`/`disabled` flags, and with them the IE branch of
  `dropDownChanged`, which references an undefined `widget`.
* Image widgets: a created image is reduced to its visibility, and its own
  deferred initialisation is not modelled.
* The AJAX layer, which is not in the repository. Its answers are modelled as
  `setProps` calls.
