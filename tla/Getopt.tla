--------------------------------- MODULE Getopt ---------------------------------
(***************************************************************************)
(* How getopt takes a command line apart: operators over what it keeps     *)
(* from one call to the next.                                              *)
(*                                                                         *)
(* A word is a sequence of one-character strings.  argv leaves the program *)
(* name out, so that an index is the C index and optind = argc is one past *)
(* the end.  An option string is a function from its letters to whether    *)
(* they want an argument.  Neither caller moves optind, has long options,  *)
(* or uses -W, "::" or a leading '+', '-' or ':'; these are left out.      *)
(***************************************************************************)
EXTENDS Integers, Sequences

\* What getopt keeps, with optarg and what the last call returned.
ScanStart(argv) ==
  [argv |-> argv, optind |-> 1, first_nonopt |-> 1, last_nonopt |-> 1,
   nextchar |-> <<>>, optarg |-> <<>>, opt |-> "none"]

Argc(s) == Len(s.argv) + 1

NonOption(word) == word = <<>> \/ word[1] # "-" \/ Len(word) = 1
Dashes == <<"-", "-">>

Swap(argv, a, b, len) ==
  [i \in DOMAIN argv |-> IF i \in a .. a + len - 1 THEN argv[i - a + b]
                         ELSE IF i \in b .. b + len - 1 THEN argv[i - b + a]
                         ELSE argv[i]]

\* One turn of exchange()'s loop: the shorter of the two segments left goes
\* where it belongs.
ExchangeTurn(t, middle) ==
  LET below == middle - t.bottom
      above == t.top - middle
  IN  IF below <= 0 \/ above <= 0 THEN t
      ELSE IF above > below
      THEN [t EXCEPT !.argv = Swap(@, t.bottom, t.top - below, below), !.top = @ - below]
      ELSE [t EXCEPT !.argv = Swap(@, t.bottom, middle, above), !.bottom = @ + above]

Exchanged(s, argv) ==
  [s EXCEPT !.argv = argv, !.first_nonopt = @ + (s.optind - s.last_nonopt),
            !.last_nonopt = s.optind]

\* mutant: the loop is left after its first turn
ExchangeOnce(s) ==
  LET start == [argv |-> s.argv, bottom |-> s.first_nonopt, top |-> s.optind]
  IN  Exchanged(s, ExchangeTurn(start, s.last_nonopt).argv)

\* Every turn that does anything brings bottom and top closer together.
Exchange(s) ==
  LET turn[k \in 0 .. Len(s.argv)] ==
        IF k = 0 THEN [argv |-> s.argv, bottom |-> s.first_nonopt, top |-> s.optind]
                 ELSE ExchangeTurn(turn[k - 1], s.last_nonopt)
  IN  Exchanged(s, turn[Len(s.argv)].argv)

Past(s) ==
  CHOOSE i \in s.optind .. Argc(s) :
    /\ i = Argc(s) \/ ~NonOption(s.argv[i])
    /\ \A j \in s.optind .. i - 1 : NonOption(s.argv[j])

\* PERMUTE only: operands met since the last options go behind them, the ones
\* that follow are skipped.
OptionsFirst(s) ==
  IF s.last_nonopt = s.optind THEN s
  ELSE IF s.first_nonopt # s.last_nonopt THEN Exchange(s)
  ELSE [s EXCEPT !.first_nonopt = s.optind]

SkipTo(s, i) == [s EXCEPT !.optind = i, !.last_nonopt = i]
SkipOperands(s) == SkipTo(s, Past(s))
Permute(s, ordering) ==
  IF ordering = "PERMUTE" THEN SkipOperands(OptionsFirst(s)) ELSE s

\* "--" is skipped like an option, and everything behind it is an operand.
BehindDashes(s) ==
  IF s.first_nonopt # s.last_nonopt THEN Exchange(s) ELSE [s EXCEPT !.first_nonopt = s.optind]

SkipDashes(s) ==
  IF s.optind # Argc(s) /\ s.argv[s.optind] = Dashes
  THEN SkipTo(BehindDashes([s EXCEPT !.optind = @ + 1]), Argc(s)) ELSE s

\* The end of the options, or a word of option letters.
OpenWord(s) ==
  IF s.optind = Argc(s)
  THEN [s EXCEPT !.opt = "end",
                 !.optind = IF s.first_nonopt # s.last_nonopt THEN s.first_nonopt ELSE @]
  ELSE IF NonOption(s.argv[s.optind]) THEN [s EXCEPT !.opt = "end"]
  ELSE [s EXCEPT !.nextchar = Tail(s.argv[s.optind])]

Advance(s, ordering) == OpenWord(SkipDashes(Permute(s, ordering)))

\* An argument is the rest of the word or the whole of the next one.
TakeArgument(s) ==
  IF s.nextchar # <<>>
  THEN [s EXCEPT !.optarg = s.nextchar, !.optind = @ + 1, !.nextchar = <<>>]
  ELSE IF s.optind = Argc(s) THEN [s EXCEPT !.opt = "?"]
  ELSE [s EXCEPT !.optarg = s.argv[s.optind], !.optind = @ + 1]

NextLetter(s) ==
  [s EXCEPT !.opt = Head(s.nextchar), !.nextchar = Tail(@),
            !.optind = IF Len(s.nextchar) = 1 THEN @ + 1 ELSE @]

Decode(s, optstring) ==
  IF s.opt \notin DOMAIN optstring THEN [s EXCEPT !.opt = "?"]
  ELSE IF optstring[s.opt] THEN TakeArgument(s) ELSE s

ShortOption(s, optstring) ==
  IF s.opt = "end" THEN s ELSE Decode(NextLetter(s), optstring)

\* A call of getopt.  After "end" it is not called again.
GetoptCall(s, optstring, ordering) ==
  ShortOption(IF s.nextchar = <<>> THEN Advance([s EXCEPT !.optarg = <<>>], ordering)
              ELSE [s EXCEPT !.optarg = <<>>], optstring)

-----------------------------------------------------------------------------
(* What a command line means, read from left to right: the reference the   *)
(* calls are compared with.                                                *)

\* The word wants the next one as an argument.
WantsNext(word, optstring) ==
  LET Wants(j) == word[j] \in DOMAIN optstring /\ optstring[word[j]]
  IN  /\ Len(word) > 1 /\ Wants(Len(word))
      /\ \A j \in 2 .. Len(word) - 1 : ~Wants(j)

\* After i words: "free", "argument" due, or the options are "over".
Reading(words, optstring, ordering) ==
  LET state[i \in 0 .. Len(words)] ==
        IF i = 0 THEN "free"
        ELSE CASE state[i - 1] = "over"     -> "over"
               [] state[i - 1] = "argument" -> "free"
               [] OTHER ->
                    IF words[i] = Dashes \/ (NonOption(words[i]) /\ ordering = "REQUIRE_ORDER")
                    THEN "over"
                    ELSE IF ~NonOption(words[i]) /\ WantsNext(words[i], optstring)
                    THEN "argument" ELSE "free"
  IN  state

\* The operands among the first words.
Collected(words, optstring, ordering) ==
  LET state == Reading(words, optstring, ordering)
      collected[i \in 0 .. Len(words)] ==
        IF i = 0 THEN <<>>
        ELSE IF state[i - 1] = "over" \/ (state[i - 1] = "free" /\ NonOption(words[i]))
        THEN Append(collected[i - 1], words[i]) ELSE collected[i - 1]
  IN  collected

Operands(words, optstring, ordering) == Collected(words, optstring, ordering)[Len(words)]
==============================================================================
