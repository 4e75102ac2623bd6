------------------------- MODULE MCTable2RowGroup -------------------------
(* Model-checking instance of Table2RowGroup; all constants are set in the *)
(* .cfg files.                                                             *)
EXTENDS Table2RowGroup
=============================================================================
