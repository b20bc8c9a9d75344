--------------------------- MODULE MCReassemblyLoop ---------------------------
(***************************************************************************)
(* Small instance of ReassemblyLoop.  Four chunks of up to three bytes on  *)
(* four starting positions already give duplicates, contained and partial  *)
(* overlaps, adjacent chunks, holes, holes a later chunk fills, and empty  *)
(* chunks, in every capture order.                                         *)
(***************************************************************************)
EXTENDS ReassemblyLoop

MCSeqNums == 0..3
MCLens    == {0, 1, 3}
===============================================================================
