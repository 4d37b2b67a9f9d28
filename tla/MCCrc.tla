--------------------------------- MODULE MCCrc ---------------------------------
(***************************************************************************)
(* Every text of up to three four-bit bytes, one after the other: the      *)
(* check of a block has two of them, that of a file four.  The literals of *)
(* the table are compared at their real width.                             *)
(***************************************************************************)
EXTENDS Crc32Table

Poly07   == {0, 1, 2}
Poly8005 == {0, 2, 15}
==============================================================================
