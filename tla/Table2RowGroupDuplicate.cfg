\* Two scroll events before the first answer both ask for rows from the
\* same this.first.
CONSTANTS
    TotalRows = 6
    MaxRows = 2
    MaxInFlight = 2
    RowHeight = 10
    HeaderHeight = 10
    FooterHeight = 0
    BorderOffset = 5
SPECIFICATION Spec
INVARIANT RowsInPlace
