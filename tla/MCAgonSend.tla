------------------------------ MODULE MCAgonSend ------------------------------
(***************************************************************************)
(* Command lines of up to three names: a file of two chunks, one of exactly *)
(* one, an empty one, one too large for the width of a size, one missing   *)
(* and one with too long a name.                                           *)
(***************************************************************************)
EXTENDS AgonSend, TLC
LOCAL INSTANCE SequencesExt

MCCrc(bytes) == 1000 + FoldLeft(LAMBDA a, x : (31 * a + x) % 9973, 7, bytes)

MCName(path) ==
  CASE path = "two"     -> <<65>>
    [] path = "one"     -> <<66, 67>>
    [] path = "empty"   -> <<68>>
    [] path = "large"   -> <<69>>
    [] path = "missing" -> <<70>>
    [] OTHER            -> <<71, 71, 71>>

MCData(path) ==
  CASE path = "two"   -> <<11, 12, 13>>
    [] path = "one"   -> <<14, 15>>
    [] path = "large" -> <<16, 17, 18, 19, 20, 21, 22>>
    [] OTHER          -> <<>>
==============================================================================
