--------------------------- MODULE Table2RowGroup ---------------------------
(***************************************************************************)
(* Lazy loading and scroll tracking of webui.suntheme.widget.table2RowGroup *)
(* (table2RowGroup.js).                                                    *)
(*                                                                         *)
(* The row group shows maxRows rows of a table of totalRows rows.  On each *)
(* scroll event, scroll.processEvent publishes a begin event asking for    *)
(* the rows from widget.first on (when rows remain and the last computed   *)
(* current row is at a page boundary), then bisects the row offsets to set *)
(* currentRow.  An AJAX layer outside this repository answers a scroll     *)
(* event by calling addRows with the rows the server returns, and a        *)
(* refresh event by calling setProps with fresh rows.  addRows appends     *)
(* rows with ids first, first+1, ... and schedules a resize, which sets    *)
(* the height of the view and the "Items: a - b of n" text.                *)
(*                                                                         *)
(* The data of a row is the index of the server row it shows; the DOM row  *)
(* with id "<id>:k" is the k-th row of tbody (0-based).                    *)
(***************************************************************************)
EXTENDS Naturals, Sequences, RowSearch

CONSTANTS
    TotalRows,     \* this.totalRows
    MaxRows,       \* this.maxRows
    MaxInFlight    \* bound: begin events awaiting an answer

ASSUME TotalRows \in Nat /\ MaxRows \in Nat \ {0} /\ MaxInFlight \in Nat \ {0}

VARIABLES
    first,         \* this.first: index of the next row to obtain
    currentRow,    \* this.currentRow: row at the top of the view
    tbody,         \* tbodyContainer's rows: tbody[k] is the server row shown by row id k-1
    viewRows,      \* domNode.style.height, in rows (set by setHeight)
    scrollTop,     \* domNode.scrollTop
    rowsText,      \* groupHeaderRowsTextNode: <<firstRow, lastRow>> of "Items: a - b of n"
    resizePending, \* a resize timeout set by addRows has not run yet
    requests       \* environment: begin events not yet answered

vars == <<first, currentRow, tbody, viewRows, scrollTop, rowsText,
          resizePending, requests>>

NoText == <<0, 0>>
\* A begin event: scroll events ask for the rows from a first row on.
Request == [kind : {"scroll"}, first : 0..(TotalRows - 1)] \cup [kind : {"refresh"}]

MinOf(a, b) == IF a < b THEN a ELSE b

\* The server's answer to a request for the rows from f on: one page.
DataRows(f) == [i \in 1..(MinOf(f + MaxRows, TotalRows) - f) |-> f + i - 1]

-----------------------------------------------------------------------------
\* Mutant of AddRows: this.first is not advanced.
AddRowsNoAdvance(rows) ==
    /\ tbody' = tbody \o rows
    /\ first' = first
    /\ resizePending' = TRUE

\* addRows(rows): append one row per element with id this.first + i,
\* advance this.first, and setTimeout(resize callback, 0).
AddRows(rows) ==
    /\ tbody' = tbody \o rows
    /\ first' = first + Len(rows)
    /\ resizePending' = TRUE

\* setProps(props) with props.rows: reset this.first and this.currentRow,
\* removeChildNodes(tbodyContainer) (the emptied node scrolls back to the
\* top), then addRows(props.rows).
SetPropsRows(rows) ==
    /\ currentRow' = 0
    /\ tbody' = rows
    /\ first' = Len(rows)
    /\ scrollTop' = 0
    /\ resizePending' = TRUE

\* setRowsText: "Items: " + (currentRow + 1) + " - " +
\* Math.min(totalRows, currentRow + maxRows) + " of " + totalRows.
RowsText(row) == <<row + 1, MinOf(TotalRows, row + MaxRows)>>

\* setHeight: add the offsetHeight of rows currentRow .. currentRow+maxRows-1
\* up to the first missing one; keep the old height when the sum is 0.
HeightFor(row, oldRows) ==
    LET n == IF row < Len(tbody) THEN MinOf(MaxRows, Len(tbody) - row) ELSE 0
    IN  IF n > 0 THEN n ELSE oldRows

-----------------------------------------------------------------------------
Init ==
    \* constructor defaults, then fillInTemplate: initProps -> setProps with
    \* the first page; before the first resize the view fits its content.
    /\ currentRow = 0
    /\ tbody = DataRows(0)
    /\ first = Len(DataRows(0))
    /\ viewRows = Len(DataRows(0))
    /\ scrollTop = 0
    /\ rowsText = NoText
    /\ resizePending = TRUE
    /\ requests = <<>>

\* Mutant of Scroll: the event is published whether or not rows remain.
ScrollNoRowsLeftCheck(s) ==
    LET fetch == currentRow % MaxRows = 0
        row   == CurrentRowAt(first, TotalRows, MaxRows, Len(tbody), s)
    IN  /\ s # scrollTop
        /\ fetch => Len(requests) < MaxInFlight
        /\ requests' = IF fetch
                       THEN Append(requests, [kind |-> "scroll", first |-> first])
                       ELSE requests
        /\ scrollTop' = s
        /\ currentRow' = row
        /\ rowsText' = RowsText(row)
        /\ UNCHANGED <<first, tbody, viewRows, resizePending>>

\* scroll.processEvent: the user moves the view to scrollTop s.
Scroll(s) ==
    LET fetch == first < TotalRows /\ currentRow % MaxRows = 0
        row   == CurrentRowAt(first, TotalRows, MaxRows, Len(tbody), s)
    IN  /\ s # scrollTop
        /\ fetch => Len(requests) < MaxInFlight
        /\ requests' = IF fetch
                       THEN Append(requests, [kind |-> "scroll", first |-> first])
                       ELSE requests
        /\ scrollTop' = s
        /\ currentRow' = row
        /\ rowsText' = RowsText(row)
        /\ UNCHANGED <<first, tbody, viewRows, resizePending>>

\* refresh.processEvent: the page asks for the rows again.
Refresh ==
    /\ Len(requests) < MaxInFlight
    /\ requests' = Append(requests, [kind |-> "refresh"])
    /\ UNCHANGED <<first, currentRow, tbody, viewRows, scrollTop, rowsText,
                   resizePending>>

\* The timeout set by addRows runs resize.processEvent: setHeight, then
\* setRowsText; the browser keeps scrollTop within the new height.
Resize ==
    /\ resizePending
    /\ resizePending' = FALSE
    /\ viewRows' = HeightFor(currentRow, viewRows)
    /\ scrollTop' = MinOf(scrollTop, MaxScroll(Len(tbody), viewRows'))
    /\ rowsText' = RowsText(currentRow)
    /\ UNCHANGED <<first, currentRow, tbody, requests>>

\* Environment: the AJAX layer answers the oldest begin event, with the
\* page asked for (addRows) or with fresh rows from row 0 (setProps).
Answer ==
    /\ requests # <<>>
    /\ requests' = Tail(requests)
    /\ LET r == Head(requests)
       IN  \/ /\ r.kind = "scroll"
              /\ AddRows(DataRows(r.first))
              /\ UNCHANGED <<currentRow, scrollTop>>
           \/ /\ r.kind = "refresh"
              /\ SetPropsRows(DataRows(0))
    /\ UNCHANGED <<viewRows, rowsText>>

Next ==
    \/ \E s \in 0..MaxScroll(Len(tbody), viewRows) : Scroll(s)
    \/ Refresh
    \/ Resize
    \/ Answer

Spec == Init /\ [][Next]_vars

-----------------------------------------------------------------------------
TypeOK ==
    /\ first \in Nat
    /\ currentRow \in Nat
    /\ tbody \in Seq(0..(TotalRows - 1))
    /\ viewRows \in Nat
    /\ scrollTop \in Nat
    /\ rowsText \in Nat \X (0..TotalRows)
    /\ resizePending \in BOOLEAN
    /\ requests \in Seq(Request)

\* Every scroll event leaves currentRow at the row at the top of the view,
\* as long as the rows loaded do not outnumber totalRows: the bisection
\* only searches [0, min(totalRows, first + maxRows) - 1).
ScrollFindsTopRow ==
    [][\A s \in 0..MaxScroll(Len(tbody), viewRows) :
          Scroll(s) /\ Len(tbody) <= TotalRows
              => currentRow' = TopRow(Len(tbody), s)]_vars

\* The DOM row with id "<id>:k" shows server row k: addRows names rows
\* from this.first on, and the server returns the rows the event asked for.
RowsInPlace == \A k \in 1..Len(tbody) : tbody[k] = k - 1
=============================================================================
