------------------------------- MODULE MCSession -------------------------------
(***************************************************************************)
(* Command lines of up to three names in any order, over an empty file, a  *)
(* short one, two longer ones that share a base name and one that cannot   *)
(* be opened.                                                              *)
(***************************************************************************)
EXTENDS SendSession, TLC

MCContent(path) ==
  CASE path = "empty"   -> <<>>
    [] path = "short"   -> <<1>>
    [] path = "dir/a"   -> <<2, 3, 4>>
    [] path = "other/a" -> <<5, 6, 7>>
    [] OTHER            -> <<8>>

MCBasename(path) == IF path \in {"dir/a", "other/a"} THEN "a" ELSE path
==============================================================================
