\* Two radios of one group created and initialised before the page runs,
\* then page calls and user clicks in any order.
CONSTANTS
    r1 = r1
    r2 = r2
    g = g
    image = image
    label = label
    l1 = l1
    l2 = l2
    null = null
    true = true
    false = false
    True = true
    False = false
    Primitives = {g, image, label, l1, l2, null, true, false}
    Falsy = {null, false}
    Null = null
    IE6 = FALSE
    Radios = {r1, r2}
    RBCtorProps <- Buttons
    RBPageProps <- Calls
SPECIFICATION Spec
INVARIANT GroupShowsLastChoice
