------------------------------- MODULE MCProgram -------------------------------
(***************************************************************************)
(* Command lines of up to four words out of both modes, a cluster of two   *)
(* letters, device and speed with the argument in the word or in the next, *)
(* "--", and five files: an empty one, a short one, two that share a base  *)
(* name, longer and with a size of two digits, and one whose size no       *)
(* header holds and whose name is too long for one.                        *)
(***************************************************************************)
EXTENDS Program, TLC

Empty == <<"e">>
Short == <<"f">>
TheirA == <<"d", "/", "a">>
OtherA == <<"o", "/", "a">>
Big   == <<"b", "i", "g">>
Here  == <<".">>

Switches == {<<"-", "s">>, <<"-", "r">>, <<"-", "d">>, <<"-", "s", "d">>,
             <<"-", "b">>, <<"-", "b", "9">>, Dashes}

FileWords == {Empty, Short, TheirA, OtherA, Big}
AllWords == Switches \cup FileWords \cup {Here}

Times(k, byte) == [i \in 1 .. k |-> byte]

MCContent(path) ==
  CASE path = Short  -> <<1>>
    [] path = TheirA -> Times(12, 2)
    [] path = OtherA -> Times(12, 3)
    [] path = Big    -> Times(17, 4)
    [] OTHER         -> <<>>

NotReadable == AllWords \ FileWords
Receivable == {Here}

\* Enough to put an operand before an option.
FewWords == {<<"-", "s">>, <<"-", "r">>, Short, Here}

Usb(i)   == [node |-> <<"u", i>>, usb |-> TRUE]
Other(i) == [node |-> <<"t", i>>, usb |-> FALSE]
Nodeless == [node |-> <<>>, usb |-> FALSE]

MCAttachments ==
  {<<>>, <<Other("1")>>, <<Nodeless, Usb("1")>>, <<Other("1"), Usb("1")>>, <<Usb("1"), Usb("2")>>,
   <<Usb("1"), Nodeless, Other("1"), Usb("2")>>, <<Usb("1"), Other("1"), Other("2"), Usb("2")>>,
   <<Usb("1"), Usb("2"), Usb("3")>>}

MCSpeeds == {9, 115200}
==============================================================================
