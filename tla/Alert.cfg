\* IE 6, where the alert initialises after a timeout, with page calls that
\* change the type, the texts and the order of the indicators.
CONSTANTS
    error = error
    info = info
    s1 = s1
    s2 = s2
    d1 = d1
    m1 = m1
    image = image
    eimg = eimg
    iimg = iimg
    null = null
    true = true
    false = false
    True = true
    False = false
    Primitives = {error, info, s1, s2, d1, m1, image, eimg, iimg, null, true, false}
    Falsy = {null, false}
    Null = null
    IE6 = TRUE
    ImageIds = {eimg, iimg}
    AlertCtorProps <- Alerts
    AlertPageProps <- Calls
SPECIFICATION Spec
INVARIANT IndicatorsMatchType
