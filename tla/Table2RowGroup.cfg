\* 7 rows in pages of 2 (the last page has one row), rows 10px high under a 10px header, no footer.
CONSTANTS
    TotalRows = 7
    MaxRows = 2
    MaxInFlight = 2
    RowHeight = 10
    HeaderHeight = 10
    FooterHeight = 0
    BorderOffset = 5
SPECIFICATION Spec
INVARIANT TypeOK
PROPERTY ScrollFindsTopRow
