----------------------------- MODULE RowSearch -----------------------------
(***************************************************************************)
(* The search in table2RowGroup.scroll.processEvent that maps the scroll   *)
(* position of the row group to the row at the top of the view, and the    *)
(* reference it is meant to compute.                                       *)
(*                                                                         *)
(* Layout, abstracted: the scrolled node holds a header HeaderHeight px    *)
(* high, then the rows <tr id="<id>:<i>">, i in 0..loaded-1, each          *)
(* RowHeight px high, then a footer FooterHeight px high.  setHeight makes *)
(* the view viewRows rows high.                                            *)
(***************************************************************************)
EXTENDS Naturals

CONSTANTS
    RowHeight,      \* offsetHeight of one row, in pixels
    HeaderHeight,   \* group and column headers above the rows, in pixels
    FooterHeight,   \* column and group footers below the rows, in pixels
    BorderOffset    \* the "+ 5" processEvent adds to scrollTop for borders

OffsetTop(i) == HeaderHeight + i * RowHeight

\* The largest scrollTop of a view viewRows rows high over loaded rows.
MaxScroll(loaded, viewRows) ==
    LET content == HeaderHeight + loaded * RowHeight + FooterHeight
        view    == viewRows * RowHeight
    IN  IF content > view THEN content - view ELSE 0

\* The while loop: halve [first, last) until it is empty; a midpoint whose
\* row is not in the DOM (getElementById returns null) ends the loop.
RECURSIVE Bisect(_, _, _, _)
Bisect(first, last, loaded, scrollTop) ==
    IF first >= last THEN first
    ELSE LET mid == (first + last) \div 2
         IN  IF mid >= loaded THEN first
             ELSE IF scrollTop < OffsetTop(mid)
                  THEN Bisect(first, mid, loaded, scrollTop)
                  ELSE Bisect(mid + 1, last, loaded, scrollTop)

\* Variant (mutant): currentRow taken as the first row below the position.
CurrentRowAtNoDecrement(first, totalRows, maxRows, loaded, scrollTop) ==
    LET last == (IF totalRows < first + maxRows THEN totalRows
                                              ELSE first + maxRows) - 1
    IN  Bisect(0, last, loaded, scrollTop + BorderOffset)

\* widget.currentRow as processEvent computes it from widget.first,
\* totalRows, maxRows, the rows in the DOM and domNode.scrollTop.
CurrentRowAt(first, totalRows, maxRows, loaded, scrollTop) ==
    LET last == (IF totalRows < first + maxRows THEN totalRows
                                              ELSE first + maxRows) - 1
        found == Bisect(0, last, loaded, scrollTop + BorderOffset)
    IN  IF found - 1 > 0 THEN found - 1 ELSE 0

\* Reference: the last loaded row whose top is at or above the scroll
\* position (plus the border offset); row 0 when there is none.
TopRow(loaded, scrollTop) ==
    LET above == {i \in 0..(loaded - 1) : OffsetTop(i) <= scrollTop + BorderOffset}
    IN  IF above = {} THEN 0
        ELSE CHOOSE i \in above : \A j \in above : j <= i
=============================================================================
