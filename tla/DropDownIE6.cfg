\* IE 6: initialisation deferred by a timeout; the page's onChange handler may veto.
\* The form submit of a jump drop-down leaves the page: no step follows it.
CONSTANTS
    v1 = v1
    v2 = v2
    v3 = v3
    True = True
    False = False
    null = null
    Primitives = {v1, v2, v3, True, False, null}
    Falsy = {False, null}
    Null = null
    CtorProps <- Created
    PageProps <- Calls
    HandlerResults = {TRUE, FALSE}
    IE6 = TRUE
SPECIFICATION Spec
INVARIANT SelectedValueShown
INVARIANT DisabledApplied
CHECK_DEADLOCK FALSE
