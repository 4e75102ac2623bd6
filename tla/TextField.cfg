\* IE 6, where both the text field and its label initialise after a
\* timeout, with page calls, typing and in-order validation answers.
CONSTANTS
    v1 = v1
    v2 = v2
    empty = empty
    label = label
    image = image
    l1 = l1
    e1 = e1
    e2 = e2
    True = True
    False = False
    null = null
    Primitives = {v1, v2, empty, label, image, l1, e1, e2, True, False, null}
    Falsy = {False, null, empty}
    Null = null
    Empty = empty
    Values = {v1, v2, empty}
    ValidValues = {v1}
    IE6 = TRUE
    Reorder = FALSE
    MaxPending = 2
    TFCtorProps <- Fields
    TFPageProps <- Calls
SPECIFICATION Spec
PROPERTY ImplementsValidatedField
PROPERTY ImagesAppear
