----------------------------- MODULE MCAgonReceive -----------------------------
(***************************************************************************)
(* Three files, one of two packets and one empty, received into the        *)
(* current directory, d, or into its directory g.  The third name leads    *)
(* out of either.  The first is as long as the code of a check, so that a  *)
(* header cut short passes for one; the second as long as that of a data   *)
(* command.  The card has files of these names where the session does not  *)
(* put them and where it does.                                             *)
(***************************************************************************)
EXTENDS AgonReceive
LOCAL INSTANCE SequencesExt

\* The register, and its complement in the end.
Register[value \in Nat, history \in Seq(0 .. 257)] ==
  IF history = <<>> THEN value
  ELSE Register[CASE Head(history) = Inverted -> 9972 - value
                  [] Head(history) = Unset -> 0
                  [] OTHER -> (31 * value + Head(history)) % 9973, Tail(history)]
MCCrc(history) == 1000 + 9972 - Register[7, history]

Dot == 46
Slash == 47
Aab == <<65, 97, 98>>
Bc  == <<66, 99>>
Up  == <<Dot, Dot, Slash, 67>>

MCBatch == <<[filename |-> Aab, data |-> <<11, 12, 13>>],
             [filename |-> Bc,  data |-> <<>>],
             [filename |-> Up,  data |-> <<14>>]>>

MCDirs == {<<Dot, Slash>>, <<103, Slash>>}
MCStrewn == {<<99>>}

\* A path is the names that lead to the file from the root.
Root == <<>>
Current == <<<<100>>>>
Games == <<<<100>>, <<103>>>>

Entered(folder, step) ==
  CASE step \in {<<>>, <<Dot>>} -> folder
    [] step = <<Dot, Dot>> -> IF folder = Root THEN Root ELSE Front(folder)
    [] OTHER -> Append(folder, step)

Names == Seq(0 .. 255)
Walk[folder \in Seq(Names), step \in Names, rest \in Names] ==
  IF rest = <<>> THEN IF step \in {<<>>, <<Dot>>, <<Dot, Dot>>} THEN NoPath ELSE Append(folder, step)
  ELSE IF Head(rest) = Slash THEN Walk[Entered(folder, step), <<>>, Tail(rest)]
  ELSE Walk[folder, Append(step, Head(rest)), Tail(rest)]

\* Only what is in one of three directories, and none of them, can be opened.
MCResolve(string) ==
  LET path == Walk[IF string # <<>> /\ Head(string) = Slash THEN Root ELSE Current, <<>>, string]
  IN  IF path # NoPath /\ Front(path) \in {Root, Current, Games} /\ path \notin {Current, Games}
      THEN path ELSE NoPath

MCOwnFiles ==
  [path \in {Append(folder, name) : folder \in {Root, Current, Games},
                                    name \in {Aab, <<99>>, <<67>>}} |-> <<1>>]
==============================================================================
