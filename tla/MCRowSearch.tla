---------------------------- MODULE MCRowSearch ----------------------------
(* Checks RowSearch's bisection against its reference over every input the *)
(* row group gives it: totalRows, maxRows, the rows loaded (whole pages of *)
(* maxRows, or all of them), the height of the view in rows as setHeight   *)
(* leaves it, and every scrollTop that view allows.                        *)
EXTENDS RowSearch

CONSTANTS MaxTotal, MinRows, MaxRowsBound

VARIABLES totalRows, maxRows, loaded, viewRows, scrollTop
vars == <<totalRows, maxRows, loaded, viewRows, scrollTop>>

\* setHeight sizes the view to the rows from currentRow on, at most
\* maxRows, so it is one row high only when maxRows = 1 or one row is
\* loaded.
ViewHeights(m, l) == {v \in 1..m : v >= 2 \/ m = 1 \/ l <= 1}

Init ==
    /\ totalRows \in 0..MaxTotal
    /\ maxRows \in MinRows..MaxRowsBound
    /\ loaded \in {l \in 0..totalRows : l % maxRows = 0 \/ l = totalRows}
    /\ viewRows \in ViewHeights(maxRows, loaded)
    /\ scrollTop \in 0..MaxScroll(loaded, viewRows)

Next == UNCHANGED vars

Spec == Init /\ [][Next]_vars

\* scroll.processEvent's bisection sets currentRow to the row at the top of
\* the view: the last loaded row whose top is at or above the scroll
\* position.
BisectFindsTopRow ==
    CurrentRowAt(loaded, totalRows, maxRows, loaded, scrollTop)
        = TopRow(loaded, scrollTop)
=============================================================================
