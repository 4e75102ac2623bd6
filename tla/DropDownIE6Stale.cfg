\* IE 6: the page sets a new list before the deferred initialisation.
\* The form submit of a jump drop-down leaves the page: no step follows it.
CONSTANTS
    v1 = v1
    v2 = v2
    v3 = v3
    True = True
    False = False
    null = null
    Primitives = {v1, v2, v3, True, False, null}
    Falsy = {False, null}
    Null = null
    CtorProps <- Created
    PageProps <- ListCalls
    HandlerResults = {TRUE, FALSE}
    IE6 = TRUE
SPECIFICATION Spec
CHECK_DEADLOCK FALSE
INVARIANT ListShowsLastOptions
