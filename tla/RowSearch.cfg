\* Up to 7 rows 10px high, pages of 2 to 4 rows, a 10px header, no footer.
CONSTANTS
    RowHeight = 10
    HeaderHeight = 10
    FooterHeight = 0
    BorderOffset = 5
    MaxTotal = 7
    MinRows = 2
    MaxRowsBound = 4
SPECIFICATION Spec
INVARIANT BisectFindsTopRow
