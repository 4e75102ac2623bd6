\* IE 6: two radios of one group, each initialising after its own timeout;
\* the page may call setProps on either before the timeouts run.
CONSTANTS
    r1 = r1
    r2 = r2
    g = g
    image = image
    label = label
    l1 = l1
    l2 = l2
    null = null
    true = true
    false = false
    True = true
    False = false
    Primitives = {g, image, label, l1, l2, null, true, false}
    Falsy = {null, false}
    Null = null
    IE6 = TRUE
    Radios = {r1, r2}
    RBCtorProps <- Buttons
    RBPageProps <- Calls
SPECIFICATION Spec
INVARIANT GroupShowsLastChoice
