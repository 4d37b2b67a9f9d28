--------------------------- MODULE ProgramProofs ---------------------------
(***************************************************************************)
(* What the two utilities make of their command line, for any of them:     *)
(* the operands getopt leaves to main whatever it exchanged, the port      *)
(* taken without having been named, what readFiles leaves in the session,  *)
(* and the header a receiver reads for each of the files.                  *)
(***************************************************************************)
EXTENDS Program, SequenceTheorems, FiniteSetTheorems, WellFoundedInduction, TLAPS

-----------------------------------------------------------------------------
(* Induction and iteration. *)

Smaller == {p \in Nat \X Nat : p[1] < p[2]}

\* Induction goes through the smallest number for which a claim fails.
LEMMA SmallerEnds == IsWellFoundedOn(Smaller, Nat)
  BY NatLessThanWellFounded DEF OpToRel, Smaller

LEMMA Least ==
  ASSUME NEW T, T \subseteq Nat, T # {}
  PROVE  \E d \in T : \A e \in T : d <= e
<1>1. PICK d \in T : \A e \in T : ~(<<e, d>> \in Smaller)
  BY SmallerEnds, WFMin
<1>2. ASSUME NEW e \in T PROVE d <= e
  <2>1. d \in Nat /\ e \in Nat /\ ~(<<e, d>> \in Smaller)
    BY <1>1
  <2> QED
    BY <2>1 DEF Smaller
<1> QED
  BY <1>2

LEMMA Induction ==
  ASSUME NEW T, 0 \in T, \A k \in Nat : k \in T => k + 1 \in T
  PROVE  \A k \in Nat : k \in T
<1> SUFFICES ASSUME NEW x \in Nat, x \notin T PROVE FALSE
  OBVIOUS
<1> DEFINE others == {k \in Nat : k \notin T}
<1>1. others \subseteq Nat /\ others # {}
  OBVIOUS
<1>2. PICK d \in others : \A e \in others : d <= e
  <2> HIDE DEF others
  <2> QED
    BY <1>1, Least
<1>3. d \in Nat /\ d \notin T /\ d # 0
  OBVIOUS
<1>4. d - 1 \in Nat /\ ~(d <= d - 1)
  BY <1>3
<1>5. d - 1 \in others
  BY <1>3, <1>4
<1> QED
  BY <1>2, <1>4, <1>5

\* What a loop keeps in h: a, and then what its k-th turn F[k] makes of that.
IsLoop(h, a, N, F) == h = [k \in 0 .. N |-> IF k = 0 THEN a ELSE F[k][h[k - 1]]]

\* Such an h exists for any turns and all of it is in S.
LEMMA Loop ==
  ASSUME NEW S, NEW a \in S, NEW N \in Nat, NEW F \in [1 .. N -> [S -> S]]
  PROVE  \E h \in [0 .. N -> S] : IsLoop(h, a, N, F)
<1> DEFINE Runs(m) == \E h \in [0 .. m -> S] : h[0] = a /\ \A k \in 1 .. m : h[k] = F[k][h[k - 1]]
           T == {m \in Nat : m <= N => Runs(m)}
<1>1. 0 \in T
  <2> DEFINE g == [k \in 0 .. 0 |-> a]
  <2>1. g \in [0 .. 0 -> S] /\ g[0] = a /\ \A k \in 1 .. 0 : g[k] = F[k][g[k - 1]]
    OBVIOUS
  <2> HIDE DEF g
  <2>2. Runs(0)
    BY <2>1
  <2> QED
    BY <2>2
<1>2. ASSUME NEW m \in Nat, m \in T PROVE m + 1 \in T
  <2> SUFFICES ASSUME m + 1 <= N PROVE Runs(m + 1)
    OBVIOUS
  <2>1. PICK h \in [0 .. m -> S] : h[0] = a /\ \A k \in 1 .. m : h[k] = F[k][h[k - 1]]
    BY <1>2
  <2> DEFINE g == [k \in 0 .. m + 1 |-> IF k <= m THEN h[k] ELSE F[m + 1][h[m]]]
  <2>2. F[m + 1] \in [S -> S] /\ h[m] \in S
    BY <1>2
  <2>3. g \in [0 .. m + 1 -> S] /\ g[0] = a
    BY <1>2, <2>1, <2>2
  <2>4. ASSUME NEW k \in 1 .. m + 1 PROVE g[k] = F[k][g[k - 1]]
    <3>1. CASE k <= m
      BY <2>1, <3>1
    <3>2. CASE ~(k <= m)
      <4>1. k = m + 1 /\ k - 1 = m
        BY <3>2
      <4> QED
        BY <4>1
    <3> QED
      BY <3>1, <3>2
  <2> QED
    BY <2>3, <2>4
<1>3. \A m \in Nat : m \in T
  <2> HIDE DEF T
  <2> QED
    BY <1>1, <1>2, Induction
<1>4. PICK h \in [0 .. N -> S] : h[0] = a /\ \A k \in 1 .. N : h[k] = F[k][h[k - 1]]
  BY <1>3
<1>5. IsLoop(h, a, N, F)
  <2>1. \A k \in 0 .. N : k # 0 => k \in 1 .. N
    OBVIOUS
  <2> QED
    BY <1>4, <2>1 DEF IsLoop
<1> QED
  BY <1>5

-----------------------------------------------------------------------------
(* The session: readFiles.  What it makes of one name, the bytes of its     *)
(* buffer left open, and its inductive invariant.                          *)

Size(i) == Len(Content(filenames[i]))

\* What readFiles has made of one name, the bytes of its buffer left open.
Announced == [filename : {Basename(path) : path \in Paths}, filesize : Nat,
              received : Nat, buffer : Seq(Nat \cup {Uninit})]

Types ==
  /\ pc \in {"reading", "ready", "refused", "crashed"}
  /\ filenames \in Seq(Paths)
  /\ files \in Seq(Announced) /\ Len(files) = n
  /\ n \in 0 .. Len(filenames)
  /\ spilled \in BOOLEAN

\* Each name read was readable, and is announced as what it is.
InOrder ==
  \A i \in 1 .. n :
    /\ filenames[i] \notin Unreadable
    /\ files[i].filename = Basename(filenames[i]) /\ files[i].filesize = Size(i)

\* The first buffer has the size of the first file.  It holds that file until
\* the second is read into it; one larger than it spills.
FirstBuffer ==
  /\ n > 0 => Len(files[1].buffer) = Size(1)
  /\ n = 1 => files[1].buffer = Content(filenames[1])
  /\ spilled => \E i \in 1 .. n : Size(i) > Size(1)

ReadyAtEnd == pc = "ready" => n = Len(filenames)

Inv == Types /\ InOrder /\ FirstBuffer /\ ReadyAtEnd

\* A command line of any length is a sequence.
LEMMA CommandLine ==
  ASSUME NEW S, NEW max \in Nat, NEW k \in 0 .. max, NEW line \in [1 .. k -> S]
  PROVE  line \in Seq(S)
<1>1. k \in Nat
  OBVIOUS
<1> QED
  BY <1>1, SeqDef

LEMMA ContentType ==
  ASSUME NEW path \in Paths
  PROVE  /\ Content(path) \in Seq(Nat) /\ Len(Content(path)) \in Nat
         /\ DOMAIN Content(path) = 1 .. Len(Content(path))
  BY SessionAssumption, LenProperties DEF SessionAssumption

\* A new buffer has the size asked for.
LEMMA MallocType ==
  ASSUME NEW size \in Nat
  PROVE  /\ Malloc(size) \in Seq(Nat \cup {Uninit}) /\ Len(Malloc(size)) = size
         /\ DOMAIN Malloc(size) = 1 .. size
<1>1. Malloc(size) \in [1 .. size -> Nat \cup {Uninit}]
  BY DEF Malloc
<1>2. Malloc(size) \in Seq(Nat \cup {Uninit})
  BY <1>1, SeqDef
<1> QED
  BY <1>1, <1>2, LenProperties

\* fread leaves a buffer the size it has, and fills one of the file's size.
LEMMA FreadFacts ==
  ASSUME NEW buffer \in Seq(Nat \cup {Uninit}), NEW data \in Seq(Nat)
  PROVE  /\ Fread(buffer, data) \in Seq(Nat \cup {Uninit})
         /\ Len(Fread(buffer, data)) = Len(buffer)
         /\ Len(buffer) = Len(data) => Fread(buffer, data) = data
<1> DEFINE f == Fread(buffer, data)
<1>1. /\ Len(buffer) \in Nat /\ DOMAIN buffer = 1 .. Len(buffer)
      /\ Len(data) \in Nat /\ DOMAIN data = 1 .. Len(data)
      /\ \A i \in 1 .. Len(buffer) : buffer[i] \in Nat \cup {Uninit}
      /\ \A i \in 1 .. Len(data) : data[i] \in Nat
  BY LenProperties, ElementOfSeq
<1>2. f = [i \in 1 .. Len(buffer) |-> IF i <= Len(data) THEN data[i] ELSE buffer[i]]
  BY <1>1 DEF Fread
<1>3. \A i \in 1 .. Len(buffer) :
        (IF i <= Len(data) THEN data[i] ELSE buffer[i]) \in Nat \cup {Uninit}
  <2>1. \A i \in 1 .. Len(buffer) : i <= Len(data) => i \in 1 .. Len(data)
    BY <1>1
  <2> QED
    BY <1>1, <2>1
<1> HIDE DEF f
<1>4. f \in [1 .. Len(buffer) -> Nat \cup {Uninit}]
  BY <1>2, <1>3
<1>5. f \in Seq(Nat \cup {Uninit}) /\ Len(f) = Len(buffer)
  BY <1>1, <1>4, SeqDef, LenProperties
<1>6. ASSUME Len(buffer) = Len(data) PROVE f = data
  <2>1. \A i \in 1 .. Len(buffer) : f[i] = data[i]
    BY <1>1, <1>2, <1>6
  <2>2. data \in Seq(Nat \cup {Uninit})
    BY <1>1, <1>6, SeqDef
  <2> QED
    BY <1>5, <1>6, <2>1, <2>2, SeqEqual
<1> QED
  BY <1>5, <1>6 DEF f

\* A file of the session with two fields replaced.
LEMMA TwoReplaced ==
  ASSUME NEW r \in Announced, NEW e, NEW f
  PROVE  [r EXCEPT !.buffer = e, !.received = f]
           = [filename |-> r.filename, filesize |-> r.filesize, received |-> f, buffer |-> e]
<1> DEFINE a == r.filename
           b == r.filesize
           c == r.received
           d == r.buffer
           x == [filename |-> a, filesize |-> b, received |-> c, buffer |-> d]
           y == [filename |-> a, filesize |-> b, received |-> c, buffer |-> e]
           z == [filename |-> a, filesize |-> b, received |-> f, buffer |-> e]
<1>1. r = x
  BY DEF Announced
<1> HIDE DEF a, b, c, d
<1>2. [x EXCEPT !.buffer = e] = y
  OBVIOUS
<1>3. [y EXCEPT !.received = f] = z
  OBVIOUS
<1> HIDE DEF x, y, z
<1>4. [r EXCEPT !.buffer = e, !.received = f] = [[r EXCEPT !.buffer = e] EXCEPT !.received = f]
  OBVIOUS
<1>5. [r EXCEPT !.buffer = e, !.received = f] = z
  BY <1>1, <1>2, <1>3, <1>4
<1> QED
  BY <1>5 DEF z, a, b

-----------------------------------------------------------------------------
(* One turn of its loop. *)

\* What the turn leaves in the session: one more file announced, and the first
\* one's buffer, its own or an earlier one's, read into.
LEMMA ReadFacts ==
  ASSUME Inv, ReadFile
  PROVE  /\ Path \in Paths /\ Path \notin Unreadable /\ n + 1 \in 1 .. Len(filenames)
         /\ n' = n + 1 /\ filenames' = filenames /\ Path = filenames[n + 1]
         /\ files' \in Seq(Announced) /\ Len(files') = n + 1
         /\ \A i \in 1 .. n :
              files'[i].filename = files[i].filename /\ files'[i].filesize = files[i].filesize
         /\ files'[n + 1].filename = Basename(Path) /\ files'[n + 1].filesize = Size(n + 1)
         /\ Len(files'[1].buffer) = Size(1)
         /\ n = 0 => files'[1].buffer = Content(Path)
         /\ spilled' = (spilled \/ Size(n + 1) > Size(1))
<1> DEFINE data  == Content(Path)
           file  == [filename |-> Basename(Path), filesize |-> Len(data), received |-> 0,
                     buffer |-> Malloc(Len(data))]
           added == Append(files, file)
           first == added[1]
           read  == [filename |-> first.filename, filesize |-> first.filesize,
                     received |-> Len(data), buffer |-> Fread(first.buffer, data)]
<1>1. /\ Len(filenames) \in Nat /\ n \in Nat /\ n < Len(filenames)
      /\ \A i \in 1 .. Len(filenames) : filenames[i] \in Paths
  <2>1. Len(filenames) \in Nat /\ \A i \in 1 .. Len(filenames) : filenames[i] \in Paths
    BY ElementOfSeq, LenProperties DEF Inv, Types
  <2> QED
    BY <2>1 DEF Inv, Types, ReadFile
<1>2. /\ n + 1 \in 1 .. Len(filenames) /\ Path = filenames[n + 1] /\ Path \in Paths
      /\ data \in Seq(Nat) /\ Len(data) \in Nat /\ Len(data) = Size(n + 1)
  <2>1. n + 1 \in 1 .. Len(filenames) /\ Path = filenames[n + 1] /\ Path \in Paths
    BY <1>1 DEF Path
  <2> QED
    BY <2>1, ContentType DEF Size
<1>3. file \in Announced /\ Len(file.buffer) = Len(data) /\ file.filename = Basename(Path)
      /\ file.filesize = Len(data)
  BY <1>2, MallocType DEF Announced
<1> HIDE DEF data, file
<1>4. /\ added \in Seq(Announced) /\ Len(added) = n + 1 /\ added[n + 1] = file
      /\ \A i \in 1 .. n : added[i] = files[i]
  BY <1>3, AppendProperties DEF Inv, Types
<1> HIDE DEF added
<1>5. 1 \in 1 .. Len(added) /\ first \in Announced
  <2>1. 1 \in 1 .. Len(added)
    BY <1>1, <1>4
  <2> QED
    BY <1>4, <2>1, ElementOfSeq
<1>6. Len(first.buffer) = Size(1) /\ (n = 0 => first = file)
  <2>1. CASE n = 0
    BY <1>2, <1>3, <1>4, <2>1
  <2>2. CASE n # 0
    <3>1. n > 0 /\ 1 \in 1 .. n
      BY <1>1, <2>2
    <3> QED
      BY <1>4, <2>2, <3>1 DEF Inv, FirstBuffer
  <2> QED
    BY <2>1, <2>2
<1>7. read \in Announced /\ Len(read.buffer) = Size(1)
      /\ read.filename = first.filename /\ read.filesize = first.filesize
      /\ (n = 0 => read.buffer = data)
  <2> HIDE DEF first
  <2>1. first.buffer \in Seq(Nat \cup {Uninit})
    BY <1>5 DEF Announced
  <2>2. /\ Fread(first.buffer, data) \in Seq(Nat \cup {Uninit})
        /\ Len(Fread(first.buffer, data)) = Len(first.buffer)
        /\ Len(first.buffer) = Len(data) => Fread(first.buffer, data) = data
    BY <1>2, <2>1, FreadFacts
  <2>3. n = 0 => Len(first.buffer) = Len(data)
    BY <1>3, <1>6
  <2> QED
    BY <1>2, <1>5, <1>6, <2>2, <2>3 DEF Announced
<1>8. files' = [added EXCEPT ![1] = read]
  <2>1. files' = [added EXCEPT ![1].buffer = Fread(@, data), ![1].received = Len(data)]
    BY DEF ReadFile, AddFile, Bound, data, file, added
  <2>2. [first EXCEPT !.buffer = Fread(@, data), !.received = Len(data)] = read
    <3> HIDE DEF first
    <3> QED
      BY <1>5, TwoReplaced
  <2>3. files' = [added EXCEPT ![1] = [first EXCEPT !.buffer = Fread(@, data), !.received = Len(data)]]
    BY <1>4, <1>5, <2>1
  <2> QED
    BY <2>2, <2>3
<1> HIDE DEF read, first
<1>9. /\ files' \in Seq(Announced) /\ Len(files') = n + 1
      /\ \A i \in 1 .. n + 1 : files'[i] = IF i = 1 THEN read ELSE added[i]
  BY <1>4, <1>5, <1>7, <1>8, ExceptSeq
<1>10. ASSUME NEW i \in 1 .. n + 1
       PROVE  files'[i].filename = added[i].filename /\ files'[i].filesize = added[i].filesize
  BY <1>7, <1>9 DEF first
<1>11. spilled' = (spilled \/ Size(n + 1) > Size(1))
  BY <1>2, <1>6 DEF ReadFile, AddFile, Bound, data, file, added, first
<1>12. files'[1] = read /\ n + 1 \in 1 .. n + 1 /\ \A i \in 1 .. n : i \in 1 .. n + 1
  BY <1>1, <1>9
<1> QED
  BY <1>2, <1>3, <1>4, <1>7, <1>9, <1>10, <1>11, <1>12 DEF ReadFile, data

\* A turn announces the file it has read and spills only a larger one.
LEMMA ReadStep ==
  ASSUME Inv, ReadFile PROVE Inv'
<1>1. /\ Path \in Paths /\ Path \notin Unreadable /\ n + 1 \in 1 .. Len(filenames)
      /\ n' = n + 1 /\ filenames' = filenames /\ Path = filenames[n + 1]
      /\ files' \in Seq(Announced) /\ Len(files') = n + 1
      /\ \A i \in 1 .. n :
           files'[i].filename = files[i].filename /\ files'[i].filesize = files[i].filesize
      /\ files'[n + 1].filename = Basename(Path) /\ files'[n + 1].filesize = Size(n + 1)
      /\ Len(files'[1].buffer) = Size(1)
      /\ n = 0 => files'[1].buffer = Content(Path)
      /\ spilled' = (spilled \/ Size(n + 1) > Size(1))
  BY ReadFacts
<1>2. n \in Nat /\ (\A i \in 1 .. n + 1 : i \in 1 .. n \/ i = n + 1) /\ n + 1 \in 1 .. n + 1
      /\ \A i \in 1 .. n : i \in 1 .. n + 1
  BY DEF Inv, Types
<1>3. pc' \in {"reading", "crashed"} /\ spilled' \in BOOLEAN
  BY <1>1 DEF ReadFile, Inv, Types
<1>4. Types'
  BY <1>1, <1>2, <1>3 DEF Inv, Types
<1>5. InOrder'
  BY <1>1, <1>2 DEF Inv, InOrder, Size
<1>6. FirstBuffer'
  <2>1. \A i : Size(i)' = Size(i)
    BY <1>1 DEF Size
  <2>2. spilled' => \E i \in 1 .. n + 1 : Size(i) > Size(1)
    BY <1>1, <1>2 DEF Inv, FirstBuffer
  <2>3. n + 1 = 1 => n = 0 /\ Path = filenames[1]
    BY <1>1, <1>2
  <2> QED
    BY <1>1, <2>1, <2>2, <2>3 DEF FirstBuffer
<1>7. ReadyAtEnd'
  BY <1>3 DEF ReadyAtEnd
<1> QED
  BY <1>4, <1>5, <1>6, <1>7 DEF Inv

LEMMA Initially == Init => Inv
<1> SUFFICES ASSUME Init PROVE Inv
  OBVIOUS
<1>1. PICK k \in 1 .. MaxArgs : filenames \in [1 .. k -> Paths]
  BY DEF Init
<1>2. filenames \in Seq(Paths) /\ Len(filenames) \in Nat
  <2>1. MaxArgs \in Nat /\ k \in 0 .. MaxArgs
    BY SessionAssumption DEF SessionAssumption
  <2>2. filenames \in Seq(Paths)
    BY <1>1, <2>1, CommandLine
  <2> QED
    BY <2>2, LenProperties
<1>3. 0 \in 0 .. Len(filenames) /\ 1 .. 0 = {}
  BY <1>2
<1>4. Types
  BY <1>2, <1>3, EmptySeq, LenProperties DEF Init, Types
<1> QED
  BY <1>3, <1>4 DEF Init, Inv, InOrder, FirstBuffer, ReadyAtEnd

LEMMA Inductive == Inv /\ [Next]_vars => Inv'
<1> SUFFICES ASSUME Inv, [Next]_vars PROVE Inv'
  OBVIOUS
<1>1. CASE ReadFile
  BY <1>1, ReadStep
<1>2. CASE Refuse \/ ReadAll
  BY <1>2 DEF Refuse, ReadAll, Inv, Types, InOrder, FirstBuffer, ReadyAtEnd, Size
<1>3. CASE UNCHANGED vars
  BY <1>3 DEF vars, Inv, Types, InOrder, FirstBuffer, ReadyAtEnd, Size
<1> QED
  BY <1>1, <1>2, <1>3 DEF Next

LEMMA Invariance == Spec => []Inv
  BY Initially, Inductive, PTL DEF Spec

-----------------------------------------------------------------------------
(* What the invariant says of the session, however it is reached. *)

LEMMA InvAnnounces ==
  ASSUME Inv PROVE AllOrNothing
  BY LenProperties DEF Inv, Types, InOrder, ReadyAtEnd, AllOrNothing, Size

LEMMA InvHolds ==
  ASSUME Inv PROVE OneFileHeld
  BY LenProperties DEF Inv, Types, InOrder, FirstBuffer, ReadyAtEnd, OneFileHeld, Held, Size

LEMMA InvSpills ==
  ASSUME Inv PROVE NoSpillBehindLargest
<1> SUFFICES ASSUME spilled, NEW i \in 1 .. n, Size(i) > Size(1)
             PROVE  i \in DOMAIN filenames /\ ~(Size(i) <= Size(1))
  BY DEF Inv, FirstBuffer, NoSpillBehindLargest, Size
<1> DEFINE k == Len(filenames)
<1>1. /\ k \in Nat /\ DOMAIN filenames = 1 .. k /\ n \in 0 .. k
      /\ \A j \in 1 .. k : filenames[j] \in Paths
  BY ElementOfSeq, LenProperties DEF Inv, Types
<1>2. i \in 1 .. k /\ 1 \in 1 .. k
  BY <1>1
<1>3. Size(i) \in Nat /\ Size(1) \in Nat
  BY <1>1, <1>2, ContentType DEF Size
<1> QED
  BY <1>1, <1>2, <1>3

\* A program that goes on to send has announced every file named, in the order
\* of the command line, under its base name and with its size, whatever the
\* session's capacity and the host's failures.
THEOREM AllFilesAnnounced == Spec => []AllOrNothing
  BY InvAnnounces, Invariance, PTL

\* A session of one name holds that file, under its base name and with its size.
THEOREM OneFileRead == Spec => []OneFileHeld
  BY InvHolds, Invariance, PTL

\* readFiles writes past a buffer only when some file named is larger than the
\* first, in whose buffer all of them are read.
THEOREM SpillsOnlyLarger == Spec => []NoSpillBehindLargest
  BY InvSpills, Invariance, PTL

-----------------------------------------------------------------------------
(* exchange() *)

\* argv with the segment from m on, up to t, before the one from b to m.
Rotated(argv, b, m, t) ==
  [i \in DOMAIN argv |-> IF i \in b .. b + t - m - 1 THEN argv[i + m - b]
                         ELSE IF i \in b + t - m .. t - 1 THEN argv[i - t + m]
                         ELSE argv[i]]

\* Two stretches of len words change places.
LEMMA SwapType ==
  ASSUME NEW S, NEW argv \in Seq(S), NEW a \in Nat, NEW b \in Nat, NEW len \in Nat,
         1 <= a, a + len <= b, b + len <= Len(argv) + 1
  PROVE  /\ Swap(argv, a, b, len) \in Seq(S) /\ Len(Swap(argv, a, b, len)) = Len(argv)
         /\ DOMAIN Swap(argv, a, b, len) = 1 .. Len(argv)
         /\ \A i \in 1 .. Len(argv) : Swap(argv, a, b, len)[i] =
              IF i \in a .. a + len - 1 THEN argv[i - a + b]
              ELSE IF i \in b .. b + len - 1 THEN argv[i - b + a] ELSE argv[i]
<1> DEFINE N == Len(argv)
           r == Swap(argv, a, b, len)
<1>1. N \in Nat /\ DOMAIN argv = 1 .. N /\ \A i \in 1 .. N : argv[i] \in S
  BY LenProperties, ElementOfSeq
<1>2. r = [i \in 1 .. N |-> IF i \in a .. a + len - 1 THEN argv[i - a + b]
                            ELSE IF i \in b .. b + len - 1 THEN argv[i - b + a] ELSE argv[i]]
  BY <1>1 DEF Swap
<1> HIDE DEF N, r
<1>3. \A i \in 1 .. N : /\ i \in a .. a + len - 1 => i - a + b \in 1 .. N
                        /\ i \in b .. b + len - 1 => i - b + a \in 1 .. N
  BY <1>1 DEF N
<1>4. r \in [1 .. N -> S]
  BY <1>1, <1>2, <1>3
<1>5. r \in Seq(S) /\ Len(r) = N /\ DOMAIN r = 1 .. N
  BY <1>1, <1>4, SeqDef, LenProperties
<1> QED
  BY <1>2, <1>5 DEF N, r

\* Two segments of an argv, p and q words long, brought past each other.
RotatedIs(S, argv, b, p, q, m, t) ==
  /\ Rotated(argv, b, m, t) \in Seq(S) /\ Len(Rotated(argv, b, m, t)) = Len(argv)
  /\ \A i \in 1 .. Len(argv) : Rotated(argv, b, m, t)[i] =
       IF i < b \/ i >= t THEN argv[i] ELSE IF i < b + q THEN argv[i + p] ELSE argv[i - q]

LEMMA RotatedFacts ==
  ASSUME NEW S, NEW argv \in Seq(S), NEW b \in Nat, NEW p \in Nat, NEW q \in Nat,
         NEW m \in Nat, NEW t \in Nat, m = b + p, t = b + p + q,
         1 <= b, b + p + q <= Len(argv) + 1
  PROVE  RotatedIs(S, argv, b, p, q, m, t)
<1> DEFINE N == Len(argv)
           r == Rotated(argv, b, m, t)
<1>1. N \in Nat /\ DOMAIN argv = 1 .. N /\ \A i \in 1 .. N : argv[i] \in S
  BY LenProperties, ElementOfSeq
<1>2. r = [i \in 1 .. N |-> IF i \in b .. b + t - m - 1 THEN argv[i + m - b]
                            ELSE IF i \in b + t - m .. t - 1 THEN argv[i - t + m] ELSE argv[i]]
  BY <1>1 DEF Rotated
<1> HIDE DEF N, r
<1>3. \A i \in 1 .. N : /\ i \in b .. b + t - m - 1 <=> ~(i < b \/ i >= t) /\ i < b + q
                        /\ i \in b + t - m .. t - 1 <=> ~(i < b \/ i >= t) /\ ~(i < b + q)
                        /\ i + m - b = i + p /\ i - t + m = i - q
                        /\ i \in b .. b + t - m - 1 => i + p \in 1 .. N
                        /\ i \in b + t - m .. t - 1 => i - q \in 1 .. N
  BY <1>1 DEF N
<1>4. \A i \in 1 .. N :
        r[i] = IF i < b \/ i >= t THEN argv[i] ELSE IF i < b + q THEN argv[i + p] ELSE argv[i - q]
  BY <1>2, <1>3
<1>5. r \in [1 .. N -> S]
  BY <1>1, <1>2, <1>3
<1>6. r \in Seq(S) /\ Len(r) = N
  BY <1>1, <1>5, SeqDef, LenProperties
<1> QED
  BY <1>4, <1>6 DEF N, r, RotatedIs

\* With a shorter lower segment, that one goes where it belongs.
GoesUp(S, a, b, p, q) ==
  /\ Swap(a, b, b + q, p) \in Seq(S) /\ Len(Swap(a, b, b + q, p)) = Len(a)
  /\ Rotated(Swap(a, b, b + q, p), b, b + p, b + q) = Rotated(a, b, b + p, b + p + q)

LEMMA LowerGoesUp ==
  ASSUME NEW S, NEW a \in Seq(S), NEW b \in Nat, NEW p \in Nat, NEW q \in Nat,
         1 <= b, p < q, b + p + q <= Len(a) + 1
  PROVE  GoesUp(S, a, b, p, q)
<1> DEFINE len == Len(a)
           up == Swap(a, b, b + q, p)
           x == Rotated(up, b, b + p, b + q)
           y == Rotated(a, b, b + p, b + p + q)
<1>1. len \in Nat /\ b + p \in Nat /\ b + q \in Nat /\ b + p + q \in Nat /\ q - p \in Nat
      /\ b + q = b + p + (q - p) /\ b + p <= b + q /\ (b + q) + p <= len + 1
  BY LenProperties
<1>2. /\ up \in Seq(S) /\ Len(up) = len
      /\ \A i \in 1 .. len : up[i] = IF i \in b .. b + p - 1 THEN a[i - b + (b + q)]
                                     ELSE IF i \in b + q .. (b + q) + p - 1 THEN a[i - (b + q) + b]
                                     ELSE a[i]
  <2> HIDE DEF up
  <2> DEFINE c == b + q
  <2>1. /\ Swap(a, b, c, p) \in Seq(S) /\ Len(Swap(a, b, c, p)) = Len(a)
        /\ \A i \in 1 .. Len(a) : Swap(a, b, c, p)[i] =
             IF i \in b .. b + p - 1 THEN a[i - b + c]
             ELSE IF i \in c .. c + p - 1 THEN a[i - c + b] ELSE a[i]
    <3>1. c \in Nat /\ b + p <= c /\ c + p <= Len(a) + 1
      BY <1>1
    <3> HIDE DEF c
    <3> QED
      BY <3>1, SwapType
  <2> QED
    BY <2>1 DEF up
<1>3. /\ y \in Seq(S) /\ Len(y) = len
      /\ \A i \in 1 .. len : y[i] = IF i < b \/ i >= b + p + q THEN a[i]
                                    ELSE IF i < b + q THEN a[i + p] ELSE a[i - q]
  <2> HIDE DEF y
  <2> DEFINE m == b + p
             t == b + p + q
  <2>1. m \in Nat /\ t \in Nat /\ m = b + p /\ t = b + p + q
    BY <1>1
  <2> HIDE DEF m, t
  <2>2. RotatedIs(S, a, b, p, q, m, t)
    BY <2>1, RotatedFacts
  <2> QED
    BY <2>1, <2>2 DEF y, RotatedIs
<1>4. /\ x \in Seq(S) /\ Len(x) = len
      /\ \A i \in 1 .. len : x[i] = IF i < b \/ i >= b + q THEN up[i]
                                    ELSE IF i < b + (q - p) THEN up[i + p] ELSE up[i - (q - p)]
  <2> HIDE DEF x, up
  <2> DEFINE m == b + p
             t == b + q
             d == q - p
  <2>1. m \in Nat /\ t \in Nat /\ d \in Nat /\ m = b + p /\ t = b + p + d /\ t = b + q
        /\ b + p + d <= Len(up) + 1
    BY <1>1, <1>2
  <2>2. d = q - p
    OBVIOUS
  <2> HIDE DEF m, t, d
  <2>3. RotatedIs(S, up, b, p, d, m, t)
    BY <1>2, <2>1, RotatedFacts
  <2> QED
    BY <1>2, <2>1, <2>2, <2>3 DEF x, RotatedIs
<1> HIDE DEF x, y, up, len
<1>5. ASSUME NEW i \in 1 .. len PROVE x[i] = y[i]
  <2>1. CASE i < b \/ i >= b + p + q
    <3>1. i \notin b .. b + p - 1 /\ i \notin b + q .. (b + q) + p - 1 /\ (i < b \/ i >= b + q)
      BY <1>1, <2>1
    <3> QED
      BY <1>2, <1>3, <1>4, <2>1, <3>1
  <2>2. CASE ~(i < b) /\ i < b + (q - p)
    <3>1. i + p \in 1 .. len /\ i + p \notin b .. b + p - 1 /\ i + p \notin b + q .. (b + q) + p - 1
          /\ ~(i < b \/ i >= b + q) /\ ~(i < b \/ i >= b + p + q) /\ i < b + q
      BY <1>1, <2>2
    <3> QED
      BY <1>2, <1>3, <1>4, <2>2, <3>1
  <2>3. CASE ~(i < b + (q - p)) /\ i < b + q
    <3>1. i - (q - p) \in 1 .. len /\ i - (q - p) \in b .. b + p - 1
          /\ i - (q - p) - b + (b + q) = i + p
          /\ ~(i < b \/ i >= b + q) /\ ~(i < b \/ i >= b + p + q)
      BY <1>1, <2>3
    <3> QED
      BY <1>2, <1>3, <1>4, <2>3, <3>1
  <2>4. CASE ~(i < b + q) /\ i < b + p + q
    <3>1. i \notin b .. b + p - 1 /\ i \in b + q .. (b + q) + p - 1 /\ i - (b + q) + b = i - q
          /\ ~(i < b \/ i >= b + p + q) /\ (i < b \/ i >= b + q)
      BY <1>1, <2>4
    <3> QED
      BY <1>2, <1>3, <1>4, <2>4, <3>1
  <2> QED
    BY <1>1, <2>1, <2>2, <2>3, <2>4
<1>6. x = y
  BY <1>3, <1>4, <1>5, SeqEqual
<1> QED
  BY <1>2, <1>6 DEF x, y, up, len, GoesUp

\* With a shorter upper segment, or two of one length, the upper one does.
GoesDown(S, a, b, p, q) ==
  /\ Swap(a, b, b + p, q) \in Seq(S) /\ Len(Swap(a, b, b + p, q)) = Len(a)
  /\ Rotated(Swap(a, b, b + p, q), b + q, b + p, b + p + q) = Rotated(a, b, b + p, b + p + q)

LEMMA UpperGoesDown ==
  ASSUME NEW S, NEW a \in Seq(S), NEW b \in Nat, NEW p \in Nat, NEW q \in Nat,
         1 <= b, q <= p, b + p + q <= Len(a) + 1
  PROVE  GoesDown(S, a, b, p, q)
<1> DEFINE len == Len(a)
           down == Swap(a, b, b + p, q)
           x == Rotated(down, b + q, b + p, b + p + q)
           y == Rotated(a, b, b + p, b + p + q)
<1>1. len \in Nat /\ b + p \in Nat /\ b + q \in Nat /\ b + p + q \in Nat /\ p - q \in Nat
      /\ b + q <= b + p /\ (b + p) + q <= len + 1
  BY LenProperties
<1>2. /\ down \in Seq(S) /\ Len(down) = len
      /\ \A i \in 1 .. len : down[i] = IF i \in b .. b + q - 1 THEN a[i - b + (b + p)]
                                       ELSE IF i \in b + p .. (b + p) + q - 1 THEN a[i - (b + p) + b]
                                       ELSE a[i]
  <2> HIDE DEF down
  <2> DEFINE c == b + p
  <2>1. /\ Swap(a, b, c, q) \in Seq(S) /\ Len(Swap(a, b, c, q)) = Len(a)
        /\ \A i \in 1 .. Len(a) : Swap(a, b, c, q)[i] =
             IF i \in b .. b + q - 1 THEN a[i - b + c]
             ELSE IF i \in c .. c + q - 1 THEN a[i - c + b] ELSE a[i]
    <3>1. c \in Nat /\ b + q <= c /\ c + q <= Len(a) + 1
      BY <1>1
    <3> HIDE DEF c
    <3> QED
      BY <3>1, SwapType
  <2> QED
    BY <2>1 DEF down
<1>3. /\ y \in Seq(S) /\ Len(y) = len
      /\ \A i \in 1 .. len : y[i] = IF i < b \/ i >= b + p + q THEN a[i]
                                    ELSE IF i < b + q THEN a[i + p] ELSE a[i - q]
  <2> HIDE DEF y
  <2> DEFINE m == b + p
             t == b + p + q
  <2>1. m \in Nat /\ t \in Nat /\ m = b + p /\ t = b + p + q
    BY <1>1
  <2> HIDE DEF m, t
  <2>2. RotatedIs(S, a, b, p, q, m, t)
    BY <2>1, RotatedFacts
  <2> QED
    BY <2>1, <2>2 DEF y, RotatedIs
<1>4. /\ x \in Seq(S) /\ Len(x) = len
      /\ \A i \in 1 .. len : x[i] = IF i < b + q \/ i >= b + p + q THEN down[i]
                                    ELSE IF i < b + q + q THEN down[i + (p - q)] ELSE down[i - q]
  <2> HIDE DEF x, down
  <2> DEFINE c == b + q
             m == b + p
             t == b + p + q
             d == p - q
  <2>1. c \in Nat /\ m \in Nat /\ t \in Nat /\ d \in Nat /\ m = c + d /\ t = c + d + q
        /\ c + d + q <= Len(down) + 1 /\ 1 <= c
    BY <1>1, <1>2
  <2>2. d = p - q /\ c = b + q /\ t = b + p + q
    OBVIOUS
  <2> HIDE DEF c, m, t, d
  <2>3. RotatedIs(S, down, c, d, q, m, t)
    BY <1>2, <2>1, RotatedFacts
  <2>4. x = Rotated(down, c, m, t)
    BY DEF x, c, m, t
  <2> QED
    BY <1>2, <2>2, <2>3, <2>4 DEF RotatedIs
<1> HIDE DEF x, y, down, len
<1>5. ASSUME NEW i \in 1 .. len PROVE x[i] = y[i]
  <2>1. CASE i < b \/ i >= b + p + q
    <3>1. i \notin b .. b + q - 1 /\ i \notin b + p .. (b + p) + q - 1
          /\ (i < b + q \/ i >= b + p + q)
      BY <1>1, <2>1
    <3> QED
      BY <1>2, <1>3, <1>4, <2>1, <3>1
  <2>2. CASE ~(i < b) /\ i < b + q
    <3>1. i \in b .. b + q - 1 /\ i - b + (b + p) = i + p /\ ~(i < b \/ i >= b + p + q)
      BY <1>1, <2>2
    <3> QED
      BY <1>2, <1>3, <1>4, <2>2, <3>1
  <2>3. CASE ~(i < b + q) /\ i < b + q + q /\ i < b + p + q
    <3>1. i + (p - q) \in 1 .. len /\ i + (p - q) \notin b .. b + q - 1
          /\ i + (p - q) \in b + p .. (b + p) + q - 1
          /\ i + (p - q) - (b + p) + b = i - q
          /\ ~(i < b \/ i >= b + p + q) /\ ~(i < b + q \/ i >= b + p + q)
      BY <1>1, <2>3
    <3>2. x[i] = down[i + (p - q)] /\ y[i] = a[i - q]
      BY <1>3, <1>4, <2>3, <3>1
    <3>3. down[i + (p - q)] = a[i + (p - q) - (b + p) + b]
      BY <1>2, <3>1
    <3> QED
      BY <3>1, <3>2, <3>3
  <2>4. CASE ~(i < b + q + q) /\ i < b + p + q
    <3>1. i - q \in 1 .. len /\ i - q \notin b .. b + q - 1 /\ i - q \notin b + p .. (b + p) + q - 1
          /\ ~(i < b \/ i >= b + p + q) /\ ~(i < b + q \/ i >= b + p + q) /\ ~(i < b + q)
      BY <1>1, <2>4
    <3> QED
      BY <1>2, <1>3, <1>4, <2>4, <3>1
  <2> QED
    BY <1>1, <2>1, <2>2, <2>3, <2>4
<1>6. x = y
  BY <1>3, <1>4, <1>5, SeqEqual
<1> QED
  BY <1>2, <1>6 DEF x, y, down, len, GoesDown

\* What is left of the two segments comes closer, and stays what it must become.
Segments(S, len, middle) ==
  {s \in [argv : Seq(S), bottom : Nat, top : Nat] :
     Len(s.argv) = len /\ 1 <= s.bottom /\ s.bottom <= middle /\ middle <= s.top /\ s.top <= len + 1}

Becomes(s, middle) == Rotated(s.argv, s.bottom, middle, s.top)

LEMMA TurnRotates ==
  ASSUME NEW S, NEW len \in Nat, NEW middle \in Nat, NEW s \in Segments(S, len, middle)
  PROVE  /\ ExchangeTurn(s, middle) \in Segments(S, len, middle)
         /\ Becomes(ExchangeTurn(s, middle), middle) = Becomes(s, middle)
         /\ IF s.bottom = middle \/ middle = s.top THEN ExchangeTurn(s, middle) = s
            ELSE ExchangeTurn(s, middle).top - ExchangeTurn(s, middle).bottom < s.top - s.bottom
<1> DEFINE a == s.argv
           b == s.bottom
           t == s.top
           p == middle - b
           q == t - middle
           u == ExchangeTurn(s, middle)
<1>1. /\ s = [argv |-> a, bottom |-> b, top |-> t]
      /\ a \in Seq(S) /\ b \in Nat /\ t \in Nat /\ Len(a) = len
      /\ 1 <= b /\ b <= middle /\ middle <= t /\ t <= len + 1
  BY DEF Segments
<1>2. p \in Nat /\ q \in Nat /\ middle = b + p /\ t = b + p + q /\ t - p = b + q
      /\ (p <= 0 <=> b = middle) /\ (q <= 0 <=> middle = t)
  BY <1>1
<1>3. u = IF p <= 0 \/ q <= 0 THEN s
          ELSE IF q > p THEN [s EXCEPT !.argv = Swap(@, b, t - p, p), !.top = @ - p]
          ELSE [s EXCEPT !.argv = Swap(@, b, middle, q), !.bottom = @ + q]
  BY DEF ExchangeTurn
<1> HIDE DEF a, b, t, u, p, q
<1>4. CASE p <= 0 \/ q <= 0
  <2>1. u = s
    BY <1>3, <1>4
  <2> QED
    BY <1>2, <1>4, <2>1 DEF u, b, t
<1>5. CASE ~(p <= 0 \/ q <= 0) /\ q > p
  <2> DEFINE up == Swap(a, b, b + q, p)
  <2>1. u = [argv |-> up, bottom |-> b, top |-> b + q]
    <3>1. u = [s EXCEPT !.argv = Swap(@, b, t - p, p), !.top = @ - p]
      BY <1>3, <1>5
    <3>2. u = [argv |-> Swap(a, b, t - p, p), bottom |-> b, top |-> t - p]
      BY <1>1, <3>1
    <3> QED
      BY <1>2, <3>2
  <2>2. up \in Seq(S) /\ Len(up) = Len(a) /\ Rotated(up, b, b + p, b + q) = Rotated(a, b, b + p, b + p + q)
    <3>1. 1 <= b /\ p < q /\ b + p + q <= Len(a) + 1
      BY <1>1, <1>2, <1>5
    <3>2. GoesUp(S, a, b, p, q)
      BY <1>1, <1>2, <3>1, LowerGoesUp
    <3> QED
      BY <3>2 DEF GoesUp
  <2> HIDE DEF up
  <2>3. u \in Segments(S, len, middle)
    BY <1>1, <1>2, <1>5, <2>1, <2>2 DEF Segments
  <2>4. Becomes(u, middle) = Becomes(s, middle)
    BY <1>1, <1>2, <2>1, <2>2 DEF Becomes
  <2>5. u.top - u.bottom < t - b
    BY <1>1, <1>2, <1>5, <2>1
  <2> QED
    BY <1>2, <1>5, <2>3, <2>4, <2>5 DEF u, b, t
<1>6. CASE ~(p <= 0 \/ q <= 0) /\ ~(q > p)
  <2> DEFINE down == Swap(a, b, b + p, q)
  <2>1. u = [argv |-> down, bottom |-> b + q, top |-> t]
    <3>1. u = [s EXCEPT !.argv = Swap(@, b, middle, q), !.bottom = @ + q]
      BY <1>3, <1>6
    <3>2. u = [argv |-> Swap(a, b, middle, q), bottom |-> b + q, top |-> t]
      BY <1>1, <3>1
    <3> QED
      BY <1>2, <3>2
  <2>2. /\ down \in Seq(S) /\ Len(down) = Len(a)
        /\ Rotated(down, b + q, b + p, b + p + q) = Rotated(a, b, b + p, b + p + q)
    <3>1. 1 <= b /\ q <= p /\ b + p + q <= Len(a) + 1
      BY <1>1, <1>2, <1>6
    <3>2. GoesDown(S, a, b, p, q)
      BY <1>1, <1>2, <3>1, UpperGoesDown
    <3> QED
      BY <3>2 DEF GoesDown
  <2> HIDE DEF down
  <2>3. u \in Segments(S, len, middle)
    BY <1>1, <1>2, <1>6, <2>1, <2>2 DEF Segments
  <2>4. Becomes(u, middle) = Becomes(s, middle)
    BY <1>1, <1>2, <2>1, <2>2 DEF Becomes
  <2>5. u.top - u.bottom < t - b
    BY <1>1, <1>2, <1>6, <2>1
  <2> QED
    BY <1>2, <1>6, <2>3, <2>4, <2>5 DEF u, b, t
<1> QED
  BY <1>4, <1>5, <1>6

\* Nothing left to exchange: every word is where it belongs.
Done(s, middle) == s.bottom = middle \/ middle = s.top

LEMMA DoneIs ==
  ASSUME NEW S, NEW len \in Nat, NEW middle \in Nat, NEW s \in Segments(S, len, middle), Done(s, middle)
  PROVE  Becomes(s, middle) = s.argv
<1> DEFINE a == s.argv
           b == s.bottom
           t == s.top
           p == middle - b
           q == t - middle
<1>1. /\ a \in Seq(S) /\ b \in Nat /\ t \in Nat /\ Len(a) = len
      /\ 1 <= b /\ b <= middle /\ middle <= t /\ t <= len + 1 /\ (b = middle \/ middle = t)
  BY DEF Segments, Done
<1>2. Becomes(s, middle) = Rotated(a, b, middle, t)
  BY DEF Becomes
<1> HIDE DEF a, b, t
<1>3. p \in Nat /\ q \in Nat /\ middle = b + p /\ t = b + p + q /\ b + p + q <= Len(a) + 1
      /\ (p = 0 \/ q = 0)
  BY <1>1
<1> HIDE DEF p, q
<1>4. RotatedIs(S, a, b, p, q, middle, t)
  BY <1>1, <1>3, RotatedFacts
<1> DEFINE r == Rotated(a, b, middle, t)
<1>5. /\ r \in Seq(S) /\ Len(r) = Len(a)
      /\ \A i \in 1 .. Len(a) : r[i] =
           IF i < b \/ i >= t THEN a[i] ELSE IF i < b + q THEN a[i + p] ELSE a[i - q]
  BY <1>4 DEF RotatedIs
<1> HIDE DEF r
<1>6. ASSUME NEW i \in 1 .. Len(a) PROVE r[i] = a[i]
  <2>1. CASE p = 0
    <3>1. i + p = i /\ (i < b \/ i >= t \/ i < b + q)
      BY <1>1, <1>3, <2>1
    <3> QED
      BY <1>5, <3>1
  <2>2. CASE q = 0
    <3>1. i - q = i /\ (i < b \/ i >= t \/ ~(i < b + q))
      BY <1>1, <1>3, <2>2
    <3> QED
      BY <1>5, <3>1
  <2> QED
    BY <1>3, <2>1, <2>2
<1>7. r = a
  BY <1>1, <1>5, <1>6, SeqEqual
<1> QED
  BY <1>2, <1>7 DEF r, a

\* exchange() brings the operands met since the last options behind the options
\* that follow them, however long the two segments are.
LEMMA ExchangeRotates ==
  ASSUME NEW S, NEW s, s.argv \in Seq(S), s.first_nonopt \in Nat, s.last_nonopt \in Nat, s.optind \in Nat,
         1 <= s.first_nonopt, s.first_nonopt <= s.last_nonopt, s.last_nonopt <= s.optind,
         s.optind <= Len(s.argv) + 1
  PROVE  Exchange(s) = Exchanged(s, Rotated(s.argv, s.first_nonopt, s.last_nonopt, s.optind))
<1> DEFINE a == s.argv
           N == Len(a)
           m == s.last_nonopt
           start == [argv |-> a, bottom |-> s.first_nonopt, top |-> s.optind]
           T == Segments(S, N, m)
           F == [k \in 1 .. N |-> [x \in T |-> ExchangeTurn(x, m)]]
           Is(g) == g = [k \in 0 .. N |-> IF k = 0 THEN start ELSE ExchangeTurn(g[k - 1], m)]
           turn == CHOOSE g : Is(g)
<1>1. N \in Nat /\ m \in Nat /\ start \in T
  BY LenProperties DEF Segments
<1>2. Exchange(s) = Exchanged(s, turn[N].argv)
  BY DEF Exchange
<1>3. Becomes(start, m) = Rotated(a, s.first_nonopt, m, s.optind)
  BY DEF Becomes
<1>4. start.top - start.bottom <= N /\ start.top \in Nat /\ start.bottom \in Nat
  BY <1>1
<1> HIDE DEF a, N, m, start
<1>5. F \in [1 .. N -> [T -> T]]
  BY <1>1, TurnRotates
<1>6. PICK h \in [0 .. N -> T] : IsLoop(h, start, N, F)
  <2> HIDE DEF F, T
  <2> QED
    BY <1>1, <1>5, Loop
<1>7. Is(h)
  <2>1. \A k \in 0 .. N : k # 0 => k \in 1 .. N /\ k - 1 \in 0 .. N
    BY <1>1
  <2>2. \A k \in 1 .. N, x \in T : F[k][x] = ExchangeTurn(x, m)
    OBVIOUS
  <2>3. h = [k \in 0 .. N |-> IF k = 0 THEN start ELSE F[k][h[k - 1]]]
    BY <1>6 DEF IsLoop
  <2> HIDE DEF F, T
  <2> QED
    BY <1>6, <2>1, <2>2, <2>3
<1>8. Is(turn)
  <2> HIDE DEF Is
  <2> QED
    BY <1>7
<1> HIDE DEF turn
<1>9. \A k \in 0 .. N : turn[k] = IF k = 0 THEN start ELSE ExchangeTurn(turn[k - 1], m)
  BY <1>8, Zenon
<1> DEFINE P(k) == /\ turn[k] \in T /\ Becomes(turn[k], m) = Becomes(start, m)
                   /\ Done(turn[k], m) \/ turn[k].top - turn[k].bottom <= N - k
           K == {k \in Nat : k <= N => P(k)}
<1>10. 0 \in K
  <2>1. turn[0] = start /\ N - 0 = N
    BY <1>1, <1>9
  <2> QED
    BY <1>1, <1>4, <2>1
<1>11. ASSUME NEW k \in Nat, k \in K PROVE k + 1 \in K
  <2> SUFFICES ASSUME k + 1 <= N PROVE P(k + 1)
    OBVIOUS
  <2>1. k <= N /\ k + 1 \in 0 .. N /\ k + 1 # 0 /\ (k + 1) - 1 = k
    BY <1>1
  <2>2. P(k)
    BY <1>11, <2>1
  <2>3. turn[k + 1] = ExchangeTurn(turn[k], m)
    BY <1>9, <2>1
  <2> DEFINE x == turn[k]
             y == turn[k + 1]
  <2>4. /\ y \in T /\ Becomes(y, m) = Becomes(x, m)
        /\ IF x.bottom = m \/ m = x.top THEN y = x ELSE y.top - y.bottom < x.top - x.bottom
    BY <1>1, <2>2, <2>3, TurnRotates
  <2>5. x.top \in Nat /\ x.bottom \in Nat /\ y.top \in Nat /\ y.bottom \in Nat
    BY <2>2, <2>4 DEF Segments
  <2> HIDE DEF x, y, T
  <2>6. CASE Done(x, m)
    <3>1. y = x
      BY <2>4, <2>6 DEF Done
    <3> QED
      BY <2>2, <2>4, <2>6, <3>1 DEF x, y
  <2>7. CASE ~Done(x, m)
    <3>1. y.top - y.bottom < x.top - x.bottom /\ x.top - x.bottom <= N - k
      BY <2>2, <2>4, <2>7 DEF x, Done
    <3>2. y.top - y.bottom <= N - (k + 1)
      BY <1>1, <2>5, <3>1
    <3> QED
      BY <2>2, <2>4, <3>2 DEF x, y
  <2> QED
    BY <2>6, <2>7
<1>12. \A k \in Nat : k \in K
  <2> HIDE DEF K
  <2> QED
    BY <1>10, <1>11, Induction
<1>13. P(N)
  BY <1>1, <1>12
<1> DEFINE u == turn[N]
<1>14. Done(u, m)
  <2>1. u.bottom \in Nat /\ u.top \in Nat /\ u.bottom <= m /\ m <= u.top
    BY <1>13 DEF Segments
  <2>2. Done(u, m) \/ u.top - u.bottom <= 0
    BY <1>1, <1>13
  <2> HIDE DEF u
  <2> QED
    BY <1>1, <2>1, <2>2 DEF Done
<1>15. u.argv = Becomes(start, m)
  BY <1>1, <1>13, <1>14, DoneIs
<1> QED
  BY <1>2, <1>3, <1>15 DEF a, m

\* The operands met stand in front of optind, what follows is untouched.
LEMMA RotatedEnds ==
  ASSUME NEW S, NEW a \in Seq(S), NEW b \in Nat, NEW m \in Nat, NEW t \in Nat,
         1 <= b, b <= m, m <= t, t <= Len(a) + 1
  PROVE  /\ Rotated(a, b, m, t) \in Seq(S) /\ Len(Rotated(a, b, m, t)) = Len(a)
         /\ \A i \in t .. Len(a) : Rotated(a, b, m, t)[i] = a[i]
         /\ SubSeq(Rotated(a, b, m, t), b + (t - m), t - 1) = SubSeq(a, b, m - 1)
<1> DEFINE p == m - b
           q == t - m
           r == Rotated(a, b, m, t)
           x == SubSeq(r, b + q, t - 1)
           y == SubSeq(a, b, m - 1)
<1>1. p \in Nat /\ q \in Nat /\ m = b + p /\ t = b + p + q /\ b + p + q <= Len(a) + 1 /\ Len(a) \in Nat
      /\ t - m = q
  BY LenProperties
<1> HIDE DEF p, q
<1>2. RotatedIs(S, a, b, p, q, m, t)
  BY <1>1, RotatedFacts
<1>3. /\ r \in Seq(S) /\ Len(r) = Len(a)
      /\ \A i \in 1 .. Len(a) : r[i] =
           IF i < b \/ i >= t THEN a[i] ELSE IF i < b + q THEN a[i + p] ELSE a[i - q]
  BY <1>2 DEF RotatedIs
<1> HIDE DEF r
<1>4. \A i \in t .. Len(a) : r[i] = a[i]
  <2>1. \A i \in t .. Len(a) : i \in 1 .. Len(a) /\ i >= t
    BY <1>1
  <2> QED
    BY <1>3, <2>1
<1>5. /\ x \in Seq(S) /\ Len(x) = p /\ \A i \in 1 .. p : x[i] = r[b + q + i - 1]
  <2>1. /\ b + q \in 1 .. Len(r) + 1 /\ t - 1 \in b + q - 1 .. Len(r) /\ (t - 1) - (b + q) + 1 = p
        /\ \A i \in 1 .. p : (b + q) + i - 1 = b + q + i - 1
    <3>1. /\ b + q \in Int /\ t - 1 \in Int /\ b + q - 1 \in Int /\ Len(r) \in Int
          /\ 1 <= b + q /\ b + q <= Len(r) + 1 /\ b + q - 1 <= t - 1 /\ t - 1 <= Len(r)
          /\ (t - 1) - (b + q) + 1 = p
      BY <1>1, <1>3
    <3>2. \A i \in 1 .. p : (b + q) + i - 1 = b + q + i - 1
      BY <1>1
    <3> QED
      BY <3>1, <3>2
  <2> DEFINE c == b + q
             d == t - 1
  <2>2. c \in Nat /\ d \in Nat /\ c >= 1 /\ d <= Len(r) /\ c <= d + 1 /\ d - c + 1 = p
    BY <1>1, <1>3
  <2> HIDE DEF c, d
  <2>3. /\ SubSeq(r, c, d) \in Seq(S) /\ Len(SubSeq(r, c, d)) = p
        /\ \A i \in 1 .. p : SubSeq(r, c, d)[i] = r[c + i - 1]
    BY <1>1, <1>3, <2>2, SubSeqProperties
  <2> QED
    BY <2>1, <2>3 DEF c, d
<1>6. /\ y \in Seq(S) /\ Len(y) = p /\ \A i \in 1 .. p : y[i] = a[b + i - 1]
  <2>1. b \in 1 .. Len(a) + 1 /\ m - 1 \in b - 1 .. Len(a) /\ (m - 1) - b + 1 = p
    BY <1>1
  <2> QED
    BY <2>1, SubSeqProperties
<1>7. ASSUME NEW i \in 1 .. p PROVE x[i] = y[i]
  <2>1. /\ b + q + i - 1 \in 1 .. Len(a) /\ (b + q + i - 1) - q = b + i - 1
        /\ ~(b + q + i - 1 < b \/ b + q + i - 1 >= t) /\ ~(b + q + i - 1 < b + q)
    BY <1>1
  <2>2. r[b + q + i - 1] = a[b + i - 1]
    BY <1>3, <2>1
  <2> QED
    BY <1>5, <1>6, <2>2
<1>8. x = y
  BY <1>5, <1>6, <1>7, SeqEqual
<1> QED
  BY <1>1, <1>3, <1>4, <1>8 DEF r

-----------------------------------------------------------------------------
(* The reference reading of a command line, word by word. *)

AfterWord(state, word, optstring, ordering) ==
  CASE state = "over"     -> "over"
    [] state = "argument" -> "free"
    [] OTHER ->
         IF word = Dashes \/ (NonOption(word) /\ ordering = "REQUIRE_ORDER") THEN "over"
         ELSE IF ~NonOption(word) /\ WantsNext(word, optstring) THEN "argument" ELSE "free"

\* Reading is the recursion it is written as: word after word from "free".
LEMMA ReadingIs ==
  ASSUME NEW W, NEW words \in Seq(W), NEW optstring, NEW ordering
  PROVE  /\ Reading(words, optstring, ordering)[0] = "free"
         /\ \A i \in 1 .. Len(words) : Reading(words, optstring, ordering)[i] =
              AfterWord(Reading(words, optstring, ordering)[i - 1], words[i], optstring, ordering)
<1> DEFINE N == Len(words)
           T == {"free", "argument", "over"}
           D(x, k) == AfterWord(x, words[k], optstring, ordering)
           F == [k \in 1 .. N |-> [x \in T |-> D(x, k)]]
           Is(g) == g = [k \in 0 .. N |-> IF k = 0 THEN "free" ELSE D(g[k - 1], k)]
           state == CHOOSE g : Is(g)
<1>1. N \in Nat
  BY LenProperties
<1>2. Reading(words, optstring, ordering) = state
  BY DEF Reading, AfterWord
<1>3. \A x, w : AfterWord(x, w, optstring, ordering) \in T
  BY DEF AfterWord
<1>4. \A x, k : D(x, k) \in T
  BY <1>3
<1> HIDE DEF D, N, state
<1>5. F \in [1 .. N -> [T -> T]]
  BY <1>4
<1>6. PICK h \in [0 .. N -> T] : IsLoop(h, "free", N, F)
  <2>1. "free" \in T
    OBVIOUS
  <2> HIDE DEF F, T
  <2> QED
    BY <1>1, <1>5, <2>1, Loop
<1>7. Is(h)
  <2>1. \A k \in 0 .. N : k # 0 => k \in 1 .. N /\ k - 1 \in 0 .. N
    BY <1>1
  <2>2. \A k \in 1 .. N, x \in T : F[k][x] = D(x, k)
    OBVIOUS
  <2>3. h = [k \in 0 .. N |-> IF k = 0 THEN "free" ELSE F[k][h[k - 1]]]
    BY <1>6 DEF IsLoop
  <2> HIDE DEF F, T
  <2> QED
    BY <1>6, <2>1, <2>2, <2>3
<1>8. Is(state)
  <2> HIDE DEF Is
  <2> QED
    BY <1>7 DEF state
<1>9. \A k \in 0 .. N : state[k] = IF k = 0 THEN "free" ELSE D(state[k - 1], k)
  BY <1>8, Zenon
<1>10. state[0] = "free" /\ \A k \in 1 .. N : state[k] = D(state[k - 1], k)
  BY <1>1, <1>9
<1> QED
  BY <1>2, <1>10 DEF D, N

\* A word is an operand where one is expected.
OperandAt(i, words, optstring, ordering) ==
  \/ Reading(words, optstring, ordering)[i - 1] = "over"
  \/ Reading(words, optstring, ordering)[i - 1] = "free" /\ NonOption(words[i])

\* So is Collected: it grows by a word where an operand is expected and met.
LEMMA CollectedIs ==
  ASSUME NEW W, NEW words \in Seq(W), NEW optstring, NEW ordering
  PROVE  /\ Collected(words, optstring, ordering)[0] = <<>>
         /\ \A i \in 0 .. Len(words) : Collected(words, optstring, ordering)[i] \in Seq(W)
         /\ \A i \in 1 .. Len(words) : Collected(words, optstring, ordering)[i] =
              IF OperandAt(i, words, optstring, ordering)
              THEN Append(Collected(words, optstring, ordering)[i - 1], words[i])
              ELSE Collected(words, optstring, ordering)[i - 1]
<1> DEFINE N == Len(words)
           T == Seq(W)
           D(x, k) == IF OperandAt(k, words, optstring, ordering) THEN Append(x, words[k]) ELSE x
           F == [k \in 1 .. N |-> [x \in T |-> D(x, k)]]
           Is(g) == g = [k \in 0 .. N |-> IF k = 0 THEN <<>> ELSE D(g[k - 1], k)]
           all == CHOOSE g : Is(g)
<1>1. N \in Nat /\ <<>> \in T
  BY LenProperties, EmptySeq
<1>2. Collected(words, optstring, ordering) = all
  BY DEF Collected, OperandAt
<1>3. ASSUME NEW x \in T, NEW k \in 1 .. N PROVE D(x, k) \in T
  <2>1. words[k] \in W
    BY ElementOfSeq
  <2> QED
    BY <2>1, AppendProperties
<1> HIDE DEF D, N, T, all
<1>4. F \in [1 .. N -> [T -> T]]
  BY <1>3
<1>5. PICK h \in [0 .. N -> T] : IsLoop(h, <<>>, N, F)
  <2> HIDE DEF F
  <2> QED
    BY <1>1, <1>4, Loop
<1>6. Is(h)
  <2>1. \A k \in 0 .. N : k # 0 => k \in 1 .. N /\ k - 1 \in 0 .. N
    BY <1>1
  <2>2. \A k \in 1 .. N, x \in T : F[k][x] = D(x, k)
    OBVIOUS
  <2>3. h = [k \in 0 .. N |-> IF k = 0 THEN <<>> ELSE F[k][h[k - 1]]]
    BY <1>5 DEF IsLoop
  <2> HIDE DEF F
  <2> QED
    BY <1>5, <2>1, <2>2, <2>3
<1>7. Is(all)
  <2> HIDE DEF Is
  <2> QED
    BY <1>6 DEF all
<1>8. \A k \in 0 .. N : all[k] = IF k = 0 THEN <<>> ELSE D(all[k - 1], k)
  BY <1>7, Zenon
<1>9. all[0] = <<>> /\ \A k \in 1 .. N : all[k] = D(all[k - 1], k)
  BY <1>1, <1>8
<1> DEFINE K == {k \in Nat : k <= N => all[k] \in T}
<1>10. 0 \in K
  BY <1>1, <1>9
<1>11. ASSUME NEW k \in Nat, k \in K PROVE k + 1 \in K
  <2> SUFFICES ASSUME k + 1 <= N PROVE all[k + 1] \in T
    OBVIOUS
  <2>1. k + 1 \in 1 .. N /\ (k + 1) - 1 = k /\ all[k] \in T
    BY <1>1, <1>11
  <2> QED
    BY <1>3, <1>9, <2>1
<1>12. \A k \in Nat : k \in K
  <2> HIDE DEF K
  <2> QED
    BY <1>10, <1>11, Induction
<1>13. \A k \in 0 .. N : all[k] \in T
  BY <1>1, <1>12
<1> QED
  BY <1>2, <1>9, <1>13 DEF D, N, T

\* A run of operands is collected as it stands.
AllTaken(words, optstring, ordering, o, e) ==
  Collected(words, optstring, ordering)[e - 1] =
    Collected(words, optstring, ordering)[o - 1] \o SubSeq(words, o, e - 1)

LEMMA RunCollected ==
  ASSUME NEW W, NEW words \in Seq(W), NEW optstring, NEW ordering,
         NEW o \in Nat, NEW e \in Nat, 1 <= o, o <= e, e <= Len(words) + 1,
         \A i \in o .. e - 1 : OperandAt(i, words, optstring, ordering)
  PROVE  AllTaken(words, optstring, ordering, o, e)
<1> DEFINE N == Len(words)
           all == Collected(words, optstring, ordering)
           Q(k) == all[o + k - 1] = all[o - 1] \o SubSeq(words, o, o + k - 1)
           K == {k \in Nat : o + k <= e => Q(k)}
<1>1. N \in Nat /\ o - 1 \in 0 .. N
  BY LenProperties
<1>2. /\ \A i \in 0 .. N : all[i] \in Seq(W)
      /\ \A i \in 1 .. N : OperandAt(i, words, optstring, ordering) => all[i] = Append(all[i - 1], words[i])
  BY CollectedIs
<1> HIDE DEF all, N
<1>3. 0 \in K
  <2>1. o + 0 - 1 = o - 1 /\ o - 1 < o /\ o - 1 \in Int /\ o \in Int
    OBVIOUS
  <2>2. SubSeq(words, o, o - 1) = <<>>
    BY <2>1, SubSeqEmpty
  <2>3. all[o - 1] \o <<>> = all[o - 1]
    BY <1>1, <1>2, ConcatEmptySeq
  <2> QED
    BY <2>1, <2>2, <2>3
<1>4. ASSUME NEW k \in Nat, k \in K PROVE k + 1 \in K
  <2> SUFFICES ASSUME o + (k + 1) <= e PROVE Q(k + 1)
    <3> HIDE DEF Q
    <3> QED
      OBVIOUS
  <2> DEFINE i == o + k
  <2>1. i \in 1 .. N /\ i \in o .. e - 1 /\ i - 1 = o + k - 1 /\ o + (k + 1) - 1 = i /\ o + k <= e
        /\ i - 1 \in 0 .. N
    BY <1>1 DEF N
  <2>2. all[i - 1] = all[o - 1] \o SubSeq(words, o, i - 1)
    BY <1>4, <2>1
  <2> HIDE DEF i
  <2>3. all[i] = Append(all[i - 1], words[i])
    BY <1>2, <2>1
  <2>4. words[i] \in W
    BY <2>1, ElementOfSeq DEF N
  <2> DEFINE u == all[o - 1]
             v == SubSeq(words, o, i - 1)
             w == words[i]
  <2>5. u \in Seq(W) /\ v \in Seq(W)
    <3>1. \A j \in 1 .. N : words[j] \in W
      BY ElementOfSeq DEF N
    <3>2. \A j \in o .. i - 1 : words[j] \in W
      BY <1>1, <2>1, <3>1
    <3> QED
      BY <1>1, <1>2, <2>1, <3>2, SubSeqProperties
  <2>6. SubSeq(words, o, i) = Append(v, w)
    <3>1. o \in 1 .. Len(words) /\ i \in o .. Len(words)
      BY <1>1, <2>1 DEF N
    <3> QED
      BY <3>1, SubSeqRecursiveSecond
  <2>7. Append(u \o v, w) = u \o Append(v, w)
    <3> HIDE DEF u, v, w
    <3> QED
      <4>1. w \in W /\ <<w>> \in Seq(W)
        BY <2>4 DEF w
      <4>2. u \o v \in Seq(W)
        BY <2>5, ConcatProperties
      <4>3. Append(u \o v, w) = (u \o v) \o <<w>> /\ Append(v, w) = v \o <<w>>
        BY <2>5, <4>1, <4>2, AppendIsConcat
      <4>4. (u \o v) \o <<w>> = u \o (v \o <<w>>)
        BY <2>5, <4>1, ConcatAssociative
      <4> QED
        BY <4>3, <4>4
  <2> QED
    BY <2>1, <2>2, <2>3, <2>6, <2>7
<1>5. \A k \in Nat : k \in K
  <2> HIDE DEF K
  <2> QED
    BY <1>3, <1>4, Induction
<1>6. e - o \in Nat /\ o + (e - o) = e
  OBVIOUS
<1>7. o + (e - o) <= e
  OBVIOUS
<1>8. Q(e - o)
  <2> HIDE DEF Q
  <2> QED
    BY <1>5, <1>6, <1>7
<1>9. o + (e - o) - 1 = e - 1
  OBVIOUS
<1> QED
  BY <1>8, <1>9, Zenon DEF all, AllTaken

-----------------------------------------------------------------------------
(* Segments of sequences. *)

LEMMA SameSegment ==
  ASSUME NEW W, NEW a \in Seq(W), NEW c \in Seq(W), NEW m \in Nat, NEW t \in Int,
         1 <= m, t <= Len(a), t <= Len(c), \A i \in m .. t : a[i] = c[i]
  PROVE  SubSeq(a, m, t) = SubSeq(c, m, t)
<1> DEFINE x == SubSeq(a, m, t)
           y == SubSeq(c, m, t)
           N == IF m <= t THEN t - m + 1 ELSE 0
<1>1. \A i \in m .. t : a[i] \in W /\ c[i] \in W
  <2>1. Len(a) \in Nat /\ Len(c) \in Nat
    BY LenProperties
  <2>2. \A i \in m .. t : i \in 1 .. Len(a) /\ i \in 1 .. Len(c)
    BY <2>1
  <2> QED
    BY <2>2, ElementOfSeq
<1>2. /\ x \in Seq(W) /\ Len(x) = N /\ \A i \in 1 .. t - m + 1 : x[i] = a[m + i - 1]
      /\ y \in Seq(W) /\ Len(y) = N /\ \A i \in 1 .. t - m + 1 : y[i] = c[m + i - 1]
  BY <1>1, SubSeqProperties
<1> HIDE DEF x, y
<1>3. ASSUME NEW i \in 1 .. N PROVE x[i] = y[i]
  <2>1. m + i - 1 \in m .. t /\ i \in 1 .. t - m + 1
    OBVIOUS
  <2> QED
    BY <1>2, <2>1
<1>4. x = y
  BY <1>2, <1>3, SeqEqual
<1> QED
  BY <1>4 DEF x, y

LEMMA AdjacentSegments ==
  ASSUME NEW W, NEW a \in Seq(W), NEW b \in Nat, NEW m \in Nat, NEW t \in Nat,
         1 <= b, b <= m, m <= t, t <= Len(a) + 1
  PROVE  SubSeq(a, b, m - 1) \o SubSeq(a, m, t - 1) = SubSeq(a, b, t - 1)
<1>1. b \in 1 .. Len(a) + 1 /\ Len(a) \in Nat /\ m - 1 \in b - 1 .. Len(a) /\ t - 1 \in (m - 1) .. Len(a)
      /\ (m - 1) + 1 = m
  BY LenProperties
<1> QED
  BY <1>1, ConcatAdjacentSubSeq

-----------------------------------------------------------------------------
(* getopt, from call to call. *)

Scans(W) ==
  [argv : Seq(W), optind : Nat, first_nonopt : Nat, last_nonopt : Nat,
   nextchar : Seq(STRING), optarg : Seq(STRING), opt : STRING \cup {"none", "end", "?"}]

\* From optind on argv is as it was typed, and the operands met stand in front
\* of it, between first_nonopt and last_nonopt.
Ahead(s, words) ==
  /\ Len(s.argv) = Len(words)
  /\ 1 <= s.first_nonopt /\ s.first_nonopt <= s.last_nonopt /\ s.last_nonopt <= s.optind
  /\ s.optind <= Len(words) + 1
  /\ \A i \in s.optind .. Len(words) : s.argv[i] = words[i]

Met(s, words, optstring, ordering) ==
  /\ Ahead(s, words)
  /\ Reading(words, optstring, ordering)[s.optind - 1] = "free"
  /\ Collected(words, optstring, ordering)[s.optind - 1]
       = SubSeq(s.argv, s.first_nonopt, s.last_nonopt - 1)
  /\ ordering = "REQUIRE_ORDER" => s.first_nonopt = s.last_nonopt

\* The same with the operands right in front of optind.
Behind(s, words, optstring, ordering) ==
  /\ Len(s.argv) = Len(words)
  /\ 1 <= s.first_nonopt /\ s.first_nonopt <= s.optind /\ s.optind <= Len(words) + 1
  /\ \A i \in s.optind .. Len(words) : s.argv[i] = words[i]
  /\ Collected(words, optstring, ordering)[s.optind - 1]
       = SubSeq(s.argv, s.first_nonopt, s.optind - 1)

\* An exchange brings them there.
LEMMA ExchangeBehind ==
  ASSUME NEW W, NEW words \in Seq(W), NEW optstring, NEW ordering, NEW s \in Scans(W), Ahead(s, words),
         Collected(words, optstring, ordering)[s.optind - 1]
           = SubSeq(s.argv, s.first_nonopt, s.last_nonopt - 1)
  PROVE  /\ Exchange(s) \in Scans(W) /\ Behind(Exchange(s), words, optstring, ordering)
         /\ Exchange(s).optind = s.optind /\ Exchange(s).opt = s.opt
         /\ Exchange(s).nextchar = s.nextchar
<1> DEFINE a == s.argv
           b == s.first_nonopt
           m == s.last_nonopt
           t == s.optind
           r == Rotated(a, b, m, t)
           u == Exchange(s)
<1>1. /\ a \in Seq(W) /\ b \in Nat /\ m \in Nat /\ t \in Nat
      /\ 1 <= b /\ b <= m /\ m <= t /\ t <= Len(a) + 1 /\ Len(a) = Len(words)
      /\ \A i \in t .. Len(words) : a[i] = words[i]
      /\ Collected(words, optstring, ordering)[t - 1] = SubSeq(a, b, m - 1)
  BY DEF Scans, Ahead
<1>2. u = [s EXCEPT !.argv = r, !.first_nonopt = b + (t - m), !.last_nonopt = t]
  <2>1. u = Exchanged(s, r)
    BY <1>1, ExchangeRotates
  <2> QED
    BY <2>1 DEF Exchanged
<1> HIDE DEF a, b, m, t, r, u
<1>3. /\ r \in Seq(W) /\ Len(r) = Len(a) /\ \A i \in t .. Len(a) : r[i] = a[i]
      /\ SubSeq(r, b + (t - m), t - 1) = SubSeq(a, b, m - 1)
  BY <1>1, RotatedEnds DEF r
<1>4. b + (t - m) \in Nat /\ 1 <= b + (t - m) /\ b + (t - m) <= t
  BY <1>1
<1>5. /\ u \in Scans(W) /\ u.argv = r /\ u.first_nonopt = b + (t - m) /\ u.optind = t
      /\ u.opt = s.opt /\ u.nextchar = s.nextchar
  BY <1>1, <1>2, <1>3, <1>4 DEF Scans, t
<1>6. Behind(u, words, optstring, ordering)
  BY <1>1, <1>3, <1>4, <1>5 DEF Behind
<1> QED
  BY <1>5, <1>6 DEF u, t

LEMMA OptionsFirstBehind ==
  ASSUME NEW W, NEW words \in Seq(W), NEW optstring, NEW ordering, NEW s \in Scans(W),
         Met(s, words, optstring, ordering)
  PROVE  /\ OptionsFirst(s) \in Scans(W) /\ Behind(OptionsFirst(s), words, optstring, ordering)
         /\ OptionsFirst(s).optind = s.optind /\ OptionsFirst(s).opt = s.opt
         /\ OptionsFirst(s).nextchar = s.nextchar
<1>1. CASE s.last_nonopt = s.optind
  <2>1. OptionsFirst(s) = s
    BY <1>1 DEF OptionsFirst
  <2>2. Behind(s, words, optstring, ordering)
    BY <1>1 DEF Behind, Met, Ahead
  <2> QED
    BY <2>1, <2>2
<1>2. CASE s.last_nonopt # s.optind /\ s.first_nonopt # s.last_nonopt
  <2>1. OptionsFirst(s) = Exchange(s)
    BY <1>2 DEF OptionsFirst
  <2>2. Ahead(s, words) /\ Collected(words, optstring, ordering)[s.optind - 1]
                             = SubSeq(s.argv, s.first_nonopt, s.last_nonopt - 1)
    BY DEF Met
  <2> QED
    BY <2>1, <2>2, ExchangeBehind
<1>3. CASE s.last_nonopt # s.optind /\ s.first_nonopt = s.last_nonopt
  <2> DEFINE u == [s EXCEPT !.first_nonopt = s.optind]
  <2>1. OptionsFirst(s) = u
    BY <1>3 DEF OptionsFirst
  <2>2. /\ u \in Scans(W) /\ u.argv = s.argv /\ u.first_nonopt = s.optind /\ u.optind = s.optind
        /\ u.opt = s.opt /\ u.nextchar = s.nextchar /\ s.optind \in Nat /\ s.first_nonopt \in Nat
    BY DEF Scans
  <2> HIDE DEF u
  <2>3. SubSeq(s.argv, s.first_nonopt, s.last_nonopt - 1) = <<>> /\ SubSeq(s.argv, s.optind, s.optind - 1) = <<>>
    <3>1. /\ s.first_nonopt - 1 \in Int /\ s.first_nonopt - 1 < s.first_nonopt
          /\ s.optind - 1 \in Int /\ s.optind - 1 < s.optind
      BY <2>2
    <3> QED
      BY <1>3, <2>2, <3>1, SubSeqEmpty
  <2>4. /\ Len(s.argv) = Len(words) /\ 1 <= s.optind /\ s.optind <= Len(words) + 1
        /\ \A i \in s.optind .. Len(words) : s.argv[i] = words[i]
        /\ Collected(words, optstring, ordering)[s.optind - 1] = <<>>
    BY <2>2, <2>3 DEF Met, Ahead, Scans
  <2>5. Behind(u, words, optstring, ordering)
    BY <2>2, <2>3, <2>4 DEF Behind
  <2> QED
    BY <2>1, <2>2, <2>5
<1> QED
  BY <1>1, <1>2, <1>3

\* The first word from optind on that is no operand, or the end.
LEMMA PastIs ==
  ASSUME NEW W, NEW s \in Scans(W), s.optind <= Argc(s)
  PROVE  /\ Past(s) \in s.optind .. Argc(s)
         /\ Past(s) = Argc(s) \/ ~NonOption(s.argv[Past(s)])
         /\ \A j \in s.optind .. Past(s) - 1 : NonOption(s.argv[j])
<1> DEFINE T == {i \in s.optind .. Argc(s) : i = Argc(s) \/ ~NonOption(s.argv[i])}
<1>1. s.optind \in Nat /\ Argc(s) \in Nat
  BY LenProperties DEF Scans, Argc
<1>2. T \subseteq Nat /\ T # {}
  <2>1. Argc(s) \in T
    BY <1>1
  <2> QED
    BY <1>1, <2>1
<1>3. PICK d \in T : \A e \in T : d <= e
  <2> HIDE DEF T
  <2> QED
    BY <1>2, Least
<1>4. \A j \in s.optind .. d - 1 : NonOption(s.argv[j])
  <2> SUFFICES ASSUME NEW j \in s.optind .. d - 1, ~NonOption(s.argv[j]) PROVE FALSE
    OBVIOUS
  <2>1. j \in s.optind .. Argc(s) /\ ~(d <= j)
    BY <1>1, <1>3
  <2> QED
    BY <1>3, <2>1
<1>5. /\ d \in s.optind .. Argc(s) /\ (d = Argc(s) \/ ~NonOption(s.argv[d]))
      /\ \A j \in s.optind .. d - 1 : NonOption(s.argv[j])
  BY <1>3, <1>4
<1> HIDE DEF T
<1> DEFINE Good(i) == /\ i = Argc(s) \/ ~NonOption(s.argv[i])
                      /\ \A j \in s.optind .. i - 1 : NonOption(s.argv[j])
<1>6. \E i \in s.optind .. Argc(s) : Good(i)
  BY <1>5
<1>7. Past(s) = CHOOSE i \in s.optind .. Argc(s) : Good(i)
  BY DEF Past
<1> HIDE DEF Good
<1>8. Past(s) \in s.optind .. Argc(s) /\ Good(Past(s))
  BY <1>6, <1>7
<1> QED
  BY <1>8 DEF Good

\* With operands skipped the state of the reading is what it was.
LEMMA StillFree ==
  ASSUME NEW W, NEW words \in Seq(W), NEW optstring, NEW o \in Nat, NEW e \in Nat,
         1 <= o, o <= e, e <= Len(words) + 1,
         Reading(words, optstring, "PERMUTE")[o - 1] = "free",
         \A i \in o .. e - 1 : NonOption(words[i])
  PROVE  \A i \in o .. e : Reading(words, optstring, "PERMUTE")[i - 1] = "free"
<1> DEFINE state == Reading(words, optstring, "PERMUTE")
           Q(k) == state[o + k - 1] = "free"
           K == {k \in Nat : o + k <= e => Q(k)}
<1>1. \A i \in 1 .. Len(words) : state[i] = AfterWord(state[i - 1], words[i], optstring, "PERMUTE")
  BY ReadingIs
<1> HIDE DEF state
<1>2. 0 \in K
  <2>1. o + 0 - 1 = o - 1
    OBVIOUS
  <2> QED
    BY <2>1 DEF state
<1>3. ASSUME NEW k \in Nat, k \in K PROVE k + 1 \in K
  <2> SUFFICES ASSUME o + (k + 1) <= e PROVE Q(k + 1)
    <3> HIDE DEF Q
    <3> QED
      OBVIOUS
  <2> DEFINE i == o + k
  <2>1. /\ i \in 1 .. Len(words) /\ i \in o .. e - 1 /\ i - 1 = o + k - 1 /\ o + (k + 1) - 1 = i
        /\ o + k <= e
    BY LenProperties
  <2>2. state[i - 1] = "free"
    BY <1>3, <2>1
  <2> HIDE DEF i
  <2>3. state[i] = AfterWord("free", words[i], optstring, "PERMUTE") /\ NonOption(words[i])
    BY <1>1, <2>1, <2>2
  <2>4. words[i] # Dashes
    <3>1. ~NonOption(Dashes)
      BY DEF NonOption, Dashes
    <3> QED
      BY <2>3, <3>1
  <2>5. state[i] = "free"
    BY <2>3, <2>4 DEF AfterWord
  <2> QED
    BY <2>1, <2>5
<1>4. \A k \in Nat : k \in K
  <2> HIDE DEF K
  <2> QED
    BY <1>2, <1>3, Induction
<1>5. ASSUME NEW i \in o .. e PROVE state[i - 1] = "free"
  <2>1. i - o \in Nat /\ o + (i - o) <= e /\ o + (i - o) - 1 = i - 1
    OBVIOUS
  <2>2. Q(i - o)
    <3> HIDE DEF Q
    <3> QED
      BY <1>4, <2>1
  <2> QED
    BY <2>1, <2>2, Zenon
<1> QED
  BY <1>5 DEF state

\* After permuting, no operand stands at optind.
OptionNext(s) ==
  /\ s.last_nonopt = s.optind
  /\ s.optind = Argc(s) \/ ~NonOption(s.argv[s.optind])

LEMMA PermuteMeets ==
  ASSUME NEW W, NEW words \in Seq(W), NEW optstring, NEW ordering \in {"PERMUTE", "REQUIRE_ORDER"},
         NEW s \in Scans(W), Met(s, words, optstring, ordering)
  PROVE  /\ Permute(s, ordering) \in Scans(W) /\ Met(Permute(s, ordering), words, optstring, ordering)
         /\ Permute(s, ordering).opt = s.opt /\ Permute(s, ordering).nextchar = s.nextchar
         /\ ordering = "PERMUTE" => OptionNext(Permute(s, ordering))
<1>1. CASE ordering = "REQUIRE_ORDER"
  <2>1. Permute(s, ordering) = s
    BY <1>1 DEF Permute
  <2> QED
    BY <1>1, <2>1
<1>2. CASE ordering = "PERMUTE"
  <2> DEFINE e == OptionsFirst(s)
             i == Past(e)
             u == [e EXCEPT !.optind = i, !.last_nonopt = i]
             o == e.optind
             all == Collected(words, optstring, ordering)
             N == Len(words)
  <2>1. Permute(s, ordering) = u
    BY <1>2 DEF Permute, SkipOperands, SkipTo
  <2>2. /\ e \in Scans(W) /\ Behind(e, words, optstring, ordering)
        /\ o = s.optind /\ e.opt = s.opt /\ e.nextchar = s.nextchar
    BY OptionsFirstBehind
  <2> HIDE DEF e
  <2>3. /\ Len(e.argv) = N /\ Argc(e) = N + 1 /\ 1 <= e.first_nonopt /\ e.first_nonopt <= o /\ o <= N + 1
        /\ \A j \in o .. N : e.argv[j] = words[j]
        /\ all[o - 1] = SubSeq(e.argv, e.first_nonopt, o - 1)
        /\ o \in Nat /\ e.first_nonopt \in Nat /\ N \in Nat /\ e.argv \in Seq(W)
    BY <2>2, LenProperties DEF Behind, Argc, Scans
  <2>4. /\ i \in o .. N + 1 /\ (i = N + 1 \/ ~NonOption(e.argv[i]))
        /\ \A j \in o .. i - 1 : NonOption(e.argv[j])
    BY <2>2, <2>3, PastIs
  <2> HIDE DEF i, o, N
  <2>5. /\ u \in Scans(W) /\ u.argv = e.argv /\ u.first_nonopt = e.first_nonopt /\ u.optind = i
        /\ u.last_nonopt = i /\ u.opt = s.opt /\ u.nextchar = s.nextchar
    <3>1. i \in Nat
      BY <2>3, <2>4
    <3> QED
      BY <2>2, <3>1 DEF Scans
  <2> HIDE DEF u
  <2>6. /\ i \in Nat /\ 1 <= o /\ o <= i /\ i <= N + 1
        /\ \A j \in o .. i - 1 : NonOption(words[j])
    <3>1. i \in Nat /\ 1 <= o /\ o <= i /\ i <= N + 1
      BY <2>3, <2>4
    <3>2. \A j \in o .. i - 1 : j \in o .. N
      BY <2>3, <3>1
    <3> QED
      BY <2>3, <2>4, <3>1, <3>2
  <2>7. \A j \in o .. i : Reading(words, optstring, ordering)[j - 1] = "free"
    <3>1. Reading(words, optstring, "PERMUTE")[o - 1] = "free"
      BY <1>2, <2>2 DEF Met
    <3> QED
      BY <1>2, <2>3, <2>6, <3>1, StillFree DEF N
  <2>8. all[i - 1] = all[o - 1] \o SubSeq(words, o, i - 1)
    <3>1. \A j \in o .. i - 1 : OperandAt(j, words, optstring, ordering)
      <4>1. \A j \in o .. i - 1 : j \in o .. i
        BY <2>3, <2>6
      <4> QED
        BY <2>6, <2>7, <4>1 DEF OperandAt
    <3>2. o \in Nat /\ i \in Nat /\ 1 <= o /\ o <= i /\ i <= Len(words) + 1
      BY <2>3, <2>6 DEF N
    <3> HIDE DEF all
    <3>3. AllTaken(words, optstring, ordering, o, i)
      BY <3>1, <3>2, RunCollected
    <3> QED
      BY <3>3 DEF all, AllTaken
  <2>9. all[i - 1] = SubSeq(e.argv, e.first_nonopt, i - 1)
    <3>1. SubSeq(words, o, i - 1) = SubSeq(e.argv, o, i - 1)
      <4>1. i - 1 <= N /\ \A j \in o .. i - 1 : j \in o .. N
        BY <2>3, <2>6
      <4> QED
        BY <2>3, <2>6, <4>1, SameSegment
    <3>2. SubSeq(e.argv, e.first_nonopt, o - 1) \o SubSeq(e.argv, o, i - 1)
            = SubSeq(e.argv, e.first_nonopt, i - 1)
      <4> DEFINE a == e.argv
                 b == e.first_nonopt
      <4>1. /\ a \in Seq(W) /\ b \in Nat /\ o \in Nat /\ i \in Nat
            /\ 1 <= b /\ b <= o /\ o <= i /\ i <= Len(a) + 1
        BY <2>3, <2>6
      <4> HIDE DEF a, b
      <4> QED
        BY <4>1, AdjacentSegments DEF a, b
    <3> QED
      BY <2>3, <2>8, <3>1, <3>2
  <2>10. Ahead(u, words)
    BY <2>3, <2>5, <2>6 DEF Ahead, N
  <2>11. Met(u, words, optstring, ordering)
    <3>1. i \in o .. i
      BY <2>3, <2>6
    <3> QED
      BY <1>2, <2>5, <2>7, <2>9, <2>10, <3>1 DEF Met
  <2>12. u.optind = Argc(u) \/ ~NonOption(u.argv[u.optind])
    BY <2>3, <2>4, <2>5 DEF Argc
  <2> QED
    BY <2>1, <2>5, <2>11, <2>12 DEF OptionNext
<1> QED
  BY <1>1, <1>2

\* Once the options are over they stay so.
LEMMA StillOver ==
  ASSUME NEW W, NEW words \in Seq(W), NEW optstring, NEW ordering, NEW o \in Nat,
         1 <= o, o <= Len(words) + 1, Reading(words, optstring, ordering)[o - 1] = "over"
  PROVE  \A i \in o .. Len(words) : OperandAt(i, words, optstring, ordering)
<1> DEFINE state == Reading(words, optstring, ordering)
           e == Len(words)
           Q(k) == state[o + k - 1] = "over"
           K == {k \in Nat : o + k <= e => Q(k)}
<1>1. e \in Nat /\ \A i \in 1 .. e : state[i] = AfterWord(state[i - 1], words[i], optstring, ordering)
  BY ReadingIs, LenProperties
<1> HIDE DEF state, e
<1>2. 0 \in K
  <2>1. o + 0 - 1 = o - 1
    OBVIOUS
  <2> QED
    BY <2>1 DEF state
<1>3. ASSUME NEW k \in Nat, k \in K PROVE k + 1 \in K
  <2> SUFFICES ASSUME o + (k + 1) <= e PROVE Q(k + 1)
    <3> HIDE DEF Q
    <3> QED
      OBVIOUS
  <2> DEFINE i == o + k
  <2>1. i \in 1 .. e /\ i - 1 = o + k - 1 /\ o + (k + 1) - 1 = i /\ o + k <= e
    BY <1>1
  <2>2. state[i - 1] = "over"
    BY <1>3, <2>1
  <2> HIDE DEF i
  <2>3. state[i] = "over"
    BY <1>1, <2>1, <2>2 DEF AfterWord
  <2> QED
    BY <2>1, <2>3
<1>4. \A k \in Nat : k \in K
  <2> HIDE DEF K
  <2> QED
    BY <1>2, <1>3, Induction
<1>5. ASSUME NEW i \in o .. e PROVE state[i - 1] = "over"
  <2>1. i - o \in Nat /\ o + (i - o) <= e /\ o + (i - o) - 1 = i - 1
    BY <1>1
  <2>2. Q(i - o)
    <3> HIDE DEF Q
    <3> QED
      BY <1>4, <2>1
  <2> QED
    BY <2>1, <2>2, Zenon
<1> QED
  BY <1>5 DEF state, e, OperandAt

\* What is left from first on, when all that follows o are operands.
RemainIs(words, optstring, ordering, a, first, o) ==
  SubSeq(a, first, Len(a)) = Operands(words, optstring, ordering)

LEMMA Remains ==
  ASSUME NEW W, NEW words \in Seq(W), NEW optstring, NEW ordering, NEW a \in Seq(W),
         NEW first \in Nat, NEW o \in Nat, 1 <= first, first <= o, o <= Len(words) + 1,
         Len(a) = Len(words), \A i \in o .. Len(words) : a[i] = words[i],
         Collected(words, optstring, ordering)[o - 1] = SubSeq(a, first, o - 1),
         \A i \in o .. Len(words) : OperandAt(i, words, optstring, ordering)
  PROVE  RemainIs(words, optstring, ordering, a, first, o)
<1> DEFINE N == Len(words)
           e == N + 1
           all == Collected(words, optstring, ordering)
<1>1. N \in Nat /\ e \in Nat /\ e - 1 = N /\ o <= e
  BY LenProperties
<1>2. \A i \in o .. e - 1 : OperandAt(i, words, optstring, ordering)
  BY <1>1
<1>3. AllTaken(words, optstring, ordering, o, e)
  <2>1. 1 <= o /\ e <= Len(words) + 1
    BY <1>1
  <2> HIDE DEF e
  <2> QED
    BY <1>1, <1>2, <2>1, RunCollected
<1>4. all[N] = SubSeq(a, first, o - 1) \o SubSeq(words, o, N)
  BY <1>1, <1>3 DEF AllTaken
<1>5. SubSeq(words, o, N) = SubSeq(a, o, N)
  <2>1. N \in Int /\ N <= Len(a) /\ N <= Len(words) /\ 1 <= o
    BY <1>1
  <2> QED
    BY <2>1, SameSegment
<1>6. SubSeq(a, first, o - 1) \o SubSeq(a, o, N) = SubSeq(a, first, N)
  <2>1. e <= Len(a) + 1
    BY <1>1
  <2>2. SubSeq(a, first, o - 1) \o SubSeq(a, o, e - 1) = SubSeq(a, first, e - 1)
    <3> HIDE DEF e
    <3> QED
      BY <1>1, <2>1, AdjacentSegments
  <2> QED
    BY <1>1, <2>2
<1> QED
  BY <1>4, <1>5, <1>6 DEF Operands, RemainIs

Finished(s, words, optstring, ordering) ==
  s.opt = "end" /\ SubSeq(s.argv, s.optind, Len(s.argv)) = Operands(words, optstring, ordering)

Wants(c, optstring) == c \in DOMAIN optstring /\ optstring[c]

\* A word of letters is open; none of those taken from it wants an argument.
InWord(s, words, optstring) ==
  /\ s.optind <= Len(words)
  /\ ~NonOption(words[s.optind]) /\ words[s.optind] # Dashes
  /\ \E p \in 2 .. Len(words[s.optind]) :
       /\ s.nextchar = SubSeq(words[s.optind], p, Len(words[s.optind]))
       /\ \A j \in 2 .. p - 1 : ~Wants(words[s.optind][j], optstring)

\* "--" ends the options.
LEMMA DashesFinish ==
  ASSUME NEW W, NEW words \in Seq(W), NEW optstring, NEW ordering, NEW s \in Scans(W),
         Met(s, words, optstring, ordering), s.optind # Argc(s), s.argv[s.optind] = Dashes
  PROVE  /\ OpenWord(SkipDashes(s)) \in Scans(W)
         /\ Finished(OpenWord(SkipDashes(s)), words, optstring, ordering)
<1> DEFINE o == s.optind
           c == o + 1
           N == Len(words)
           all == Collected(words, optstring, ordering)
           state == Reading(words, optstring, ordering)
           e == [s EXCEPT !.optind = c]
           d == BehindDashes(e)
           u == SkipTo(d, Argc(s))
           v == OpenWord(u)
<1>1. /\ SkipDashes(s) = u
      /\ o \in Nat /\ N \in Nat /\ Argc(s) = N + 1 /\ o \in 1 .. N /\ words[o] = Dashes
      /\ state[o - 1] = "free" /\ all[o - 1] = SubSeq(s.argv, s.first_nonopt, s.last_nonopt - 1)
  <2>1. SkipDashes(s) = u
    BY DEF SkipDashes
  <2>2. o \in Nat /\ N \in Nat /\ Argc(s) = N + 1 /\ 1 <= o /\ o <= N + 1
    BY LenProperties DEF Scans, Met, Ahead, Argc
  <2>3. o \in 1 .. N /\ o \in o .. N
    BY <2>2
  <2> QED
    BY <2>1, <2>2, <2>3 DEF Met, Ahead
<1>2. ~NonOption(Dashes)
  BY DEF NonOption, Dashes
<1>3. state[o] = "over"
  <2>1. state[o] = AfterWord(state[o - 1], words[o], optstring, ordering)
    BY <1>1, ReadingIs
  <2> QED
    BY <1>1, <2>1 DEF AfterWord
<1>4. all[o] = all[o - 1]
  <2>1. ~OperandAt(o, words, optstring, ordering)
    BY <1>1, <1>2 DEF OperandAt
  <2> QED
    BY <1>1, <2>1, CollectedIs
<1>5. \A i \in c .. N : OperandAt(i, words, optstring, ordering)
  <2>1. c \in Nat /\ 1 <= c /\ c <= N + 1 /\ c - 1 = o
    BY <1>1
  <2> HIDE DEF c
  <2> QED
    BY <1>3, <2>1, StillOver
<1>6. /\ c \in Nat /\ 1 <= c /\ c <= N + 1 /\ c - 1 = o /\ o <= c
      /\ e \in Scans(W) /\ e.argv = s.argv /\ e.optind = c /\ e.first_nonopt = s.first_nonopt
      /\ e.last_nonopt = s.last_nonopt
  <2>1. c \in Nat /\ 1 <= c /\ c <= N + 1 /\ c - 1 = o /\ o <= c
    BY <1>1
  <2> HIDE DEF c
  <2> QED
    BY <2>1 DEF Scans
<1> HIDE DEF e, c
<1>7. Ahead(e, words)
  <2>1. s.last_nonopt <= c
    BY <1>1, <1>6 DEF Met, Ahead, Scans
  <2>2. \A i \in c .. N : i \in o .. N
    BY <1>1, <1>6
  <2> QED
    BY <1>6, <2>1, <2>2 DEF Met, Ahead
<1>8. d \in Scans(W) /\ Behind(d, words, optstring, ordering) /\ d.optind = c
  <2>1. CASE e.first_nonopt # e.last_nonopt
    <3>1. d = Exchange(e)
      BY <2>1 DEF BehindDashes
    <3>2. Collected(words, optstring, ordering)[e.optind - 1]
            = SubSeq(e.argv, e.first_nonopt, e.last_nonopt - 1)
      BY <1>1, <1>4, <1>6
    <3>3. /\ Exchange(e) \in Scans(W) /\ Behind(Exchange(e), words, optstring, ordering)
          /\ Exchange(e).optind = e.optind
      <4>1. e \in Scans(W)
        BY <1>6
      <4> QED
        BY <1>7, <3>2, <4>1, ExchangeBehind
    <3> HIDE DEF d
    <3> QED
      BY <1>6, <3>1, <3>3
  <2>2. CASE e.first_nonopt = e.last_nonopt
    <3>1. d = [e EXCEPT !.first_nonopt = c]
      BY <1>6, <2>2 DEF BehindDashes
    <3> HIDE DEF d
    <3>2. /\ d \in Scans(W) /\ d.argv = s.argv /\ d.first_nonopt = c /\ d.optind = c
          /\ s.first_nonopt \in Nat /\ s.first_nonopt = s.last_nonopt
      BY <1>6, <2>2, <3>1 DEF Scans
    <3>3. /\ SubSeq(s.argv, s.first_nonopt, s.last_nonopt - 1) = <<>>
          /\ SubSeq(s.argv, c, c - 1) = <<>>
      <4>1. /\ s.first_nonopt - 1 \in Int /\ s.first_nonopt - 1 < s.first_nonopt
            /\ c - 1 \in Int /\ c - 1 < c
        BY <1>6, <3>2
      <4> QED
        BY <1>6, <3>2, <4>1, SubSeqEmpty
    <3>4. all[c - 1] = SubSeq(d.argv, d.first_nonopt, d.optind - 1)
      BY <1>1, <1>4, <1>6, <3>2, <3>3
    <3> QED
      BY <1>6, <1>7, <3>2, <3>4 DEF Behind, Ahead
  <2> QED
    BY <2>1, <2>2
<1> HIDE DEF d
<1>9. /\ u \in Scans(W) /\ u.argv = d.argv /\ u.optind = N + 1 /\ u.last_nonopt = N + 1
      /\ u.first_nonopt = d.first_nonopt
  <2> DEFINE t == Argc(s)
  <2>1. t = N + 1 /\ t \in Nat
    BY <1>1
  <2>2. u = [d EXCEPT !.optind = t, !.last_nonopt = t]
    BY DEF SkipTo
  <2> HIDE DEF t, N, u
  <2> QED
    BY <1>8, <2>1, <2>2 DEF Scans
<1> HIDE DEF u
<1>10. /\ d.argv \in Seq(W) /\ Len(d.argv) = N /\ d.first_nonopt \in Nat
       /\ 1 <= d.first_nonopt /\ d.first_nonopt <= c
       /\ \A i \in c .. N : d.argv[i] = words[i]
       /\ all[c - 1] = SubSeq(d.argv, d.first_nonopt, c - 1)
  BY <1>8 DEF Scans, Behind
<1>11. SubSeq(d.argv, d.first_nonopt, Len(d.argv)) = Operands(words, optstring, ordering)
  <2>1. RemainIs(words, optstring, ordering, d.argv, d.first_nonopt, c)
    BY <1>5, <1>6, <1>10, Remains
  <2> QED
    BY <2>1 DEF RemainIs
<1>12. Argc(u) = N + 1
  BY <1>9, <1>10 DEF Argc
<1>13. v \in Scans(W) /\ v.opt = "end" /\ v.argv = d.argv /\ v.optind = d.first_nonopt
  <2>1. v = [u EXCEPT !.opt = "end", !.optind = d.first_nonopt]
    <3>1. v = [u EXCEPT !.opt = "end",
                        !.optind = IF u.first_nonopt # u.last_nonopt THEN u.first_nonopt ELSE @]
      BY <1>9, <1>12 DEF OpenWord
    <3>2. (IF u.first_nonopt # u.last_nonopt THEN u.first_nonopt ELSE u.optind) = d.first_nonopt
      BY <1>9
    <3> QED
      BY <1>9, <3>1, <3>2 DEF Scans
  <2> DEFINE f == d.first_nonopt
  <2>2. f \in Nat /\ u \in Scans(W) /\ u.argv = d.argv /\ v = [u EXCEPT !.opt = "end", !.optind = f]
    BY <1>9, <1>10, <2>1
  <2> HIDE DEF v, f
  <2>3. v \in Scans(W) /\ v.opt = "end" /\ v.argv = d.argv /\ v.optind = f
    BY <2>2 DEF Scans
  <2> QED
    BY <2>3 DEF f
<1> QED
  BY <1>1, <1>11, <1>13 DEF Finished

\* The end of the options, with the operands last, or a word of letters.
Opened(s, W, words, optstring, ordering) ==
  /\ Advance(s, ordering) \in Scans(W)
  /\ \/ Finished(Advance(s, ordering), words, optstring, ordering)
     \/ /\ Met(Advance(s, ordering), words, optstring, ordering)
        /\ InWord(Advance(s, ordering), words, optstring)
        /\ Advance(s, ordering).opt = s.opt

LEMMA AdvanceMeets ==
  ASSUME NEW W, W \subseteq Seq(STRING), NEW words \in Seq(W), NEW optstring,
         NEW ordering \in {"PERMUTE", "REQUIRE_ORDER"}, NEW s \in Scans(W),
         Met(s, words, optstring, ordering)
  PROVE  Opened(s, W, words, optstring, ordering)
<1> DEFINE p == Permute(s, ordering)
           o == p.optind
           N == Len(words)
           all == Collected(words, optstring, ordering)
           state == Reading(words, optstring, ordering)
           u == Advance(s, ordering)
<1>1. /\ p \in Scans(W) /\ Met(p, words, optstring, ordering) /\ p.opt = s.opt
      /\ ordering = "PERMUTE" => /\ p.last_nonopt = o
                                 /\ o = Argc(p) \/ ~NonOption(p.argv[o])
  <2>1. /\ p \in Scans(W) /\ Met(p, words, optstring, ordering) /\ p.opt = s.opt
        /\ ordering = "PERMUTE" => OptionNext(p)
    BY PermuteMeets
  <2> QED
    BY <2>1 DEF OptionNext
<1>2. u = OpenWord(SkipDashes(p))
  BY DEF Advance
<1> HIDE DEF p, u
<1>3. /\ p.argv \in Seq(W) /\ Len(p.argv) = N /\ Argc(p) = N + 1 /\ N \in Nat
      /\ o \in Nat /\ p.first_nonopt \in Nat /\ p.last_nonopt \in Nat
      /\ 1 <= p.first_nonopt /\ p.first_nonopt <= p.last_nonopt /\ p.last_nonopt <= o /\ o <= N + 1
      /\ \A i \in o .. N : p.argv[i] = words[i]
      /\ state[o - 1] = "free"
      /\ all[o - 1] = SubSeq(p.argv, p.first_nonopt, p.last_nonopt - 1)
  BY <1>1, LenProperties DEF Scans, Met, Ahead, Argc
<1>4. SubSeq(p.argv, p.first_nonopt, p.first_nonopt - 1) = <<>> /\ SubSeq(p.argv, o, o - 1) = <<>>
  <2>1. /\ p.first_nonopt - 1 \in Int /\ p.first_nonopt - 1 < p.first_nonopt
        /\ o - 1 \in Int /\ o - 1 < o
    BY <1>3
  <2> QED
    BY <1>3, <2>1, SubSeqEmpty
<1>5. ordering = "REQUIRE_ORDER" => p.first_nonopt = p.last_nonopt /\ all[o - 1] = SubSeq(p.argv, o, o - 1)
  BY <1>1, <1>3, <1>4 DEF Met
<1> HIDE DEF o, N
<1> SUFFICES /\ u \in Scans(W)
             /\ \/ Finished(u, words, optstring, ordering)
                \/ /\ Met(u, words, optstring, ordering) /\ InWord(u, words, optstring)
                   /\ u.opt = s.opt
  BY DEF Opened, u
<1>6. CASE o # N + 1 /\ p.argv[o] = Dashes
  BY <1>1, <1>2, <1>3, <1>6, DashesFinish DEF o
<1>7. CASE ~(o # N + 1 /\ p.argv[o] = Dashes)
  <2>1. u = OpenWord(p)
    BY <1>2, <1>3, <1>7 DEF SkipDashes, o
  <2>2. CASE o = N + 1
    <3> DEFINE f == IF p.first_nonopt # p.last_nonopt THEN p.first_nonopt ELSE o
    <3>1. f \in Nat /\ 1 <= f /\ f <= o /\ all[o - 1] = SubSeq(p.argv, f, o - 1)
      <4>1. CASE ordering = "PERMUTE"
        <5>1. p.last_nonopt = o
          BY <1>1, <4>1
        <5>2. f = p.first_nonopt
          BY <5>1
        <5> QED
          BY <1>3, <5>1, <5>2
      <4>2. CASE ordering = "REQUIRE_ORDER"
        <5>1. f = o
          BY <1>5, <4>2
        <5> QED
          BY <1>3, <1>5, <4>2, <5>1
      <4> QED
        BY <4>1, <4>2
    <3>2. u = [p EXCEPT !.opt = "end", !.optind = f]
      BY <1>1, <1>3, <2>1, <2>2 DEF OpenWord, o, Scans
    <3> HIDE DEF f
    <3>3. u \in Scans(W) /\ u.opt = "end" /\ u.argv = p.argv /\ u.optind = f
      BY <1>1, <3>1, <3>2 DEF Scans
    <3>4. RemainIs(words, optstring, ordering, p.argv, f, o)
      <4>1. \A i \in o .. Len(words) : OperandAt(i, words, optstring, ordering)
        BY <1>3, <2>2 DEF N
      <4>2. /\ Len(p.argv) = Len(words) /\ o <= Len(words) + 1
            /\ \A i \in o .. Len(words) : p.argv[i] = words[i]
            /\ Collected(words, optstring, ordering)[o - 1] = SubSeq(p.argv, f, o - 1)
        BY <1>3, <3>1 DEF N
      <4> QED
        BY <1>3, <3>1, <4>1, <4>2, Remains
    <3> QED
      BY <3>3, <3>4 DEF Finished, RemainIs
  <2>3. CASE o # N + 1 /\ NonOption(p.argv[o])
    <3>1. ordering = "REQUIRE_ORDER" /\ o \in 1 .. N /\ o \in o .. N
      <4>1. ordering # "PERMUTE"
        BY <1>1, <1>3, <2>3 DEF o
      <4> QED
        BY <1>3, <2>3, <4>1
    <3>2. u = [p EXCEPT !.opt = "end"]
      BY <1>3, <2>1, <2>3 DEF OpenWord, o
    <3>3. u \in Scans(W) /\ u.opt = "end" /\ u.argv = p.argv /\ u.optind = o
      BY <1>1, <3>2 DEF Scans, o
    <3>4. NonOption(words[o])
      BY <1>3, <2>3, <3>1
    <3>5. state[o] = "over"
      <4>1. state[o] = AfterWord(state[o - 1], words[o], optstring, ordering)
        BY <3>1, ReadingIs DEF N
      <4> QED
        BY <1>3, <3>1, <3>4, <4>1 DEF AfterWord
    <3>6. \A i \in o .. N : OperandAt(i, words, optstring, ordering)
      <4> DEFINE c == o + 1
      <4>1. c \in Nat /\ 1 <= c /\ c <= N + 1 /\ c - 1 = o
        BY <1>3, <3>1
      <4>2. \A i \in o .. N : i = o \/ i \in c .. N
        BY <1>3
      <4> HIDE DEF c
      <4>3. \A i \in c .. N : OperandAt(i, words, optstring, ordering)
        BY <3>5, <4>1, StillOver DEF N
      <4>4. OperandAt(o, words, optstring, ordering)
        BY <1>3, <3>4 DEF OperandAt
      <4> QED
        BY <4>2, <4>3, <4>4
    <3>7. RemainIs(words, optstring, ordering, p.argv, o, o)
      <4>1. /\ Len(p.argv) = Len(words) /\ o <= Len(words) + 1 /\ 1 <= o /\ o <= o
            /\ \A i \in o .. Len(words) : p.argv[i] = words[i]
            /\ \A i \in o .. Len(words) : OperandAt(i, words, optstring, ordering)
        BY <1>3, <3>1, <3>6 DEF N
      <4>2. Collected(words, optstring, ordering)[o - 1] = SubSeq(p.argv, o, o - 1)
        BY <1>5, <3>1
      <4> QED
        BY <1>3, <4>1, <4>2, Remains
    <3> QED
      BY <3>3, <3>7 DEF Finished, RemainIs
  <2>4. CASE o # N + 1 /\ ~NonOption(p.argv[o])
    <3>1. o \in 1 .. N /\ o \in o .. N
      BY <1>3, <2>4
    <3> DEFINE w == words[o]
    <3>2. p.argv[o] = w /\ w \in Seq(STRING) /\ ~NonOption(w) /\ w # Dashes
      <4>1. p.argv[o] = w /\ w \in W
        BY <1>3, <3>1, ElementOfSeq DEF N
      <4> QED
        BY <1>7, <2>4, <4>1
    <3> HIDE DEF w
    <3>3. Len(w) \in Nat /\ 2 <= Len(w) /\ w # <<>>
      <4>1. w # <<>> /\ Len(w) # 1
        BY <3>2 DEF NonOption
      <4> QED
        <5>1. Len(w) \in Nat \ {0}
          BY <3>2, <4>1, EmptySeq
        <5>2. Len(w) # 1
          BY <4>1
        <5> DEFINE L == Len(w)
        <5>3. L \in Nat /\ L # 0 /\ L # 1
          BY <5>1, <5>2
        <5> HIDE DEF L
        <5>4. L \in Nat /\ 2 <= L
          BY <5>3
        <5> QED
          BY <4>1, <5>4 DEF L
    <3>4. Tail(w) = SubSeq(w, 2, Len(w)) /\ Tail(w) \in Seq(STRING)
      BY <3>2, <3>3, HeadTailProperties, TailIsSubSeq
    <3>5. u = [p EXCEPT !.nextchar = Tail(w)]
      BY <1>3, <2>1, <2>4, <3>2 DEF OpenWord, o
    <3> DEFINE t == Tail(w)
    <3>6. t \in Seq(STRING) /\ u = [p EXCEPT !.nextchar = t]
      BY <3>4, <3>5
    <3> HIDE DEF t
    <3>7. /\ u \in Scans(W) /\ u.argv = p.argv /\ u.optind = o /\ u.first_nonopt = p.first_nonopt
          /\ u.last_nonopt = p.last_nonopt /\ u.opt = p.opt /\ u.nextchar = t
      BY <1>1, <3>6 DEF Scans, o
    <3>8. Met(u, words, optstring, ordering)
      BY <1>1, <3>7 DEF Met, Ahead, o
    <3>9. InWord(u, words, optstring)
      <4>1. 2 \in 2 .. Len(w) /\ 2 .. 2 - 1 = {}
        BY <3>3
      <4>2. u.nextchar = SubSeq(w, 2, Len(w)) /\ \A j \in 2 .. 2 - 1 : ~Wants(w[j], optstring)
        BY <3>4, <3>7, <4>1 DEF t
      <4>3. \E q \in 2 .. Len(w) : /\ u.nextchar = SubSeq(w, q, Len(w))
                                   /\ \A j \in 2 .. q - 1 : ~Wants(w[j], optstring)
        BY <4>1, <4>2
      <4>4. u.optind <= Len(words)
        BY <3>1, <3>7 DEF N
      <4> QED
        BY <3>2, <3>7, <4>3, <4>4 DEF InWord, w
    <3> QED
      BY <1>1, <3>7, <3>8, <3>9
  <2> QED
    BY <2>2, <2>3, <2>4
<1> QED
  BY <1>6, <1>7

\* What the reading makes of a word of letters, and of the argument behind it.
Passed(words, optstring, ordering, o) ==
  /\ Collected(words, optstring, ordering)[o] = Collected(words, optstring, ordering)[o - 1]
  /\ ~WantsNext(words[o], optstring) => Reading(words, optstring, ordering)[o] = "free"
  /\ WantsNext(words[o], optstring) /\ o + 1 <= Len(words) =>
       /\ Reading(words, optstring, ordering)[o + 1] = "free"
       /\ Collected(words, optstring, ordering)[o + 1] = Collected(words, optstring, ordering)[o - 1]

LEMMA OptionPassed ==
  ASSUME NEW W, NEW words \in Seq(W), NEW optstring, NEW ordering, NEW o \in 1 .. Len(words),
         Reading(words, optstring, ordering)[o - 1] = "free",
         ~NonOption(words[o]), words[o] # Dashes
  PROVE  Passed(words, optstring, ordering, o)
<1> DEFINE state == Reading(words, optstring, ordering)
           all == Collected(words, optstring, ordering)
<1>1. \A i \in 1 .. Len(words) : state[i] = AfterWord(state[i - 1], words[i], optstring, ordering)
  BY ReadingIs
<1>2. \A i \in 1 .. Len(words) : ~OperandAt(i, words, optstring, ordering) => all[i] = all[i - 1]
  BY CollectedIs
<1>3. ~OperandAt(o, words, optstring, ordering)
  BY DEF OperandAt
<1>4. state[o] = IF WantsNext(words[o], optstring) THEN "argument" ELSE "free"
  BY <1>1 DEF AfterWord
<1>5. ASSUME WantsNext(words[o], optstring), o + 1 <= Len(words)
      PROVE  state[o + 1] = "free" /\ all[o + 1] = all[o]
  <2>1. o + 1 \in 1 .. Len(words) /\ (o + 1) - 1 = o
    BY <1>5, LenProperties
  <2>2. state[o] = "argument"
    BY <1>4, <1>5
  <2>3. ~OperandAt(o + 1, words, optstring, ordering)
    BY <2>1, <2>2 DEF OperandAt
  <2>4. state[o + 1] = AfterWord("argument", words[o + 1], optstring, ordering)
    BY <1>1, <2>1, <2>2
  <2> QED
    BY <1>2, <2>1, <2>3, <2>4 DEF AfterWord
<1>6. all[o] = all[o - 1]
  BY <1>2, <1>3
<1> QED
  BY <1>4, <1>5, <1>6 DEF Passed

\* Words that are no operands are passed.
LEMMA MovesOn ==
  ASSUME NEW W, NEW words \in Seq(W), NEW optstring, NEW ordering, NEW s \in Scans(W),
         Met(s, words, optstring, ordering), NEW u \in Scans(W),
         u.argv = s.argv, u.first_nonopt = s.first_nonopt, u.last_nonopt = s.last_nonopt,
         s.optind <= u.optind, u.optind <= Len(words) + 1,
         Reading(words, optstring, ordering)[u.optind - 1] = "free",
         Collected(words, optstring, ordering)[u.optind - 1]
           = Collected(words, optstring, ordering)[s.optind - 1]
  PROVE  Met(u, words, optstring, ordering)
<1>1. /\ s.optind \in Nat /\ u.optind \in Nat /\ s.last_nonopt \in Nat /\ Len(words) \in Nat
      /\ s.last_nonopt <= s.optind
  BY LenProperties DEF Scans, Met, Ahead
<1>2. s.last_nonopt <= u.optind /\ \A i \in u.optind .. Len(words) : i \in s.optind .. Len(words)
  BY <1>1
<1> QED
  BY <1>2 DEF Met, Ahead

\* The next letter of a word, with its argument if it wants one.
LEMMA LetterMeets ==
  ASSUME NEW W, W \subseteq Seq(STRING), NEW words \in Seq(W), NEW optstring, NEW ordering,
         NEW s \in Scans(W), Met(s, words, optstring, ordering), InWord(s, words, optstring)
  PROVE  /\ Decode(NextLetter(s), optstring) \in Scans(W)
         /\ \/ Decode(NextLetter(s), optstring).opt = "?"
            \/ /\ Decode(NextLetter(s), optstring).opt \in DOMAIN optstring
               /\ Met(Decode(NextLetter(s), optstring), words, optstring, ordering)
               /\ Decode(NextLetter(s), optstring).nextchar # <<>> =>
                    InWord(Decode(NextLetter(s), optstring), words, optstring)
<1> DEFINE o == s.optind
           w == words[o]
           L == Len(w)
           N == Len(words)
           all == Collected(words, optstring, ordering)
           state == Reading(words, optstring, ordering)
           l == NextLetter(s)
           u == Decode(l, optstring)
<1>1. /\ o \in Nat /\ N \in Nat /\ o \in 1 .. N /\ ~NonOption(w) /\ w # Dashes
      /\ Len(s.argv) = N /\ s.argv \in Seq(W) /\ Argc(s) = N + 1
      /\ state[o - 1] = "free" /\ w \in Seq(STRING) /\ L \in Nat
  <2>1. /\ o \in Nat /\ N \in Nat /\ 1 <= o /\ o <= N /\ ~NonOption(w) /\ w # Dashes
        /\ Len(s.argv) = N /\ s.argv \in Seq(W) /\ state[o - 1] = "free"
    BY LenProperties DEF Scans, Met, Ahead, InWord
  <2>2. o \in 1 .. N
    BY <2>1
  <2>3. w \in W
    BY <2>2, ElementOfSeq
  <2>4. w \in Seq(STRING)
    BY <2>3
  <2> HIDE DEF w
  <2>5. L \in Nat
    BY <2>4, LenProperties
  <2> QED
    BY <2>1, <2>2, <2>4, <2>5 DEF Argc
<1>2. PICK p \in 2 .. L : /\ s.nextchar = SubSeq(w, p, L)
                          /\ \A j \in 2 .. p - 1 : ~Wants(w[j], optstring)
  BY DEF InWord
<1> DEFINE c == w[p]
           t == SubSeq(w, p + 1, L)
<1> HIDE DEF w, N
<1>3. /\ s.nextchar # <<>> /\ Head(s.nextchar) = c /\ Tail(s.nextchar) = t /\ Len(s.nextchar) = L - p + 1
      /\ t \in Seq(STRING) /\ c \in STRING /\ (p = L => t = <<>>)
  <2>1. p \in 1 .. Len(w) /\ L \in p .. Len(w) /\ p \in Nat
    BY <1>1
  <2>2. Head(SubSeq(w, p, L)) = c /\ Tail(SubSeq(w, p, L)) = t
    BY <1>1, <2>1, HeadTailOfSubSeq
  <2>3. \A i \in 1 .. L : w[i] \in STRING
    BY <1>1, ElementOfSeq
  <2>4. (\A i \in p .. L : w[i] \in STRING) /\ (\A i \in p + 1 .. L : w[i] \in STRING)
    BY <1>1, <2>1, <2>3
  <2> DEFINE q == p + 1
  <2>5. q \in Int /\ \A i \in q .. L : w[i] \in STRING
    BY <2>1, <2>4
  <2> HIDE DEF L, q
  <2>6. Len(SubSeq(w, p, L)) = (IF p <= L THEN L - p + 1 ELSE 0) /\ SubSeq(w, q, L) \in Seq(STRING)
    BY <1>1, <2>1, <2>4, <2>5, SubSeqProperties
  <2>7. p = L => SubSeq(w, q, L) = <<>>
    <3>1. p = L => L < q
      BY <2>1 DEF q
    <3> QED
      BY <1>1, <2>5, <3>1, SubSeqEmpty
  <2>8. Len(s.nextchar) = L - p + 1 /\ Len(s.nextchar) # 0
    BY <1>1, <1>2, <2>1, <2>6
  <2>9. s.nextchar # <<>>
    BY <2>8, EmptySeq
  <2>10. c \in STRING
    BY <1>1, <2>1, <2>4 DEF L
  <2>11. t \in Seq(STRING) /\ (p = L => t = <<>>)
    BY <2>6, <2>7 DEF q
  <2> HIDE DEF c, t
  <2> QED
    BY <1>2, <2>2, <2>8, <2>9, <2>10, <2>11
<1> HIDE DEF c, t, L
<1> DEFINE after == IF p = L THEN o + 1 ELSE o
<1>4. /\ after \in Nat /\ p \in Nat /\ l = [s EXCEPT !.opt = c, !.nextchar = t, !.optind = after]
  <2>1. after \in Nat /\ p \in Nat
    BY <1>1
  <2>2. Len(s.nextchar) = 1 <=> p = L
    BY <1>1, <1>3, <2>1
  <2>3. l = [s EXCEPT !.opt = Head(s.nextchar), !.nextchar = Tail(@),
                      !.optind = IF Len(s.nextchar) = 1 THEN @ + 1 ELSE @]
    BY DEF NextLetter
  <2> QED
    BY <1>3, <2>1, <2>2, <2>3 DEF Scans
<1> HIDE DEF l, after, o
<1>5. /\ l \in Scans(W) /\ l.argv = s.argv /\ l.first_nonopt = s.first_nonopt
      /\ l.last_nonopt = s.last_nonopt /\ l.optind = after /\ l.nextchar = t /\ l.opt = c
  BY <1>3, <1>4 DEF Scans
<1>6. /\ all[o] = all[o - 1]
      /\ ~WantsNext(w, optstring) => state[o] = "free"
      /\ WantsNext(w, optstring) /\ o + 1 <= N => state[o + 1] = "free" /\ all[o + 1] = all[o - 1]
  <2>1. o \in 1 .. Len(words) /\ ~NonOption(words[o]) /\ words[o] # Dashes
    BY <1>1 DEF N, w
  <2>2. Passed(words, optstring, ordering, o)
    BY <1>1, <2>1, OptionPassed
  <2> QED
    BY <2>2 DEF Passed, N, w
<1>7. WantsNext(w, optstring) <=>
        L > 1 /\ Wants(w[L], optstring) /\ \A j \in 2 .. L - 1 : ~Wants(w[j], optstring)
  BY DEF WantsNext, Wants, L
<1> DEFINE OK(v) == /\ v \in Scans(W) /\ v.opt \in DOMAIN optstring
                    /\ Met(v, words, optstring, ordering)
                    /\ v.nextchar # <<>> => InWord(v, words, optstring)
<1>8. CASE c \notin DOMAIN optstring
  <2>1. u = [l EXCEPT !.opt = "?"]
    BY <1>5, <1>8 DEF Decode
  <2>2. u \in Scans(W) /\ u.opt = "?"
    BY <1>5, <2>1 DEF Scans
  <2> QED
    BY <2>2 DEF l
<1>9. CASE c \in DOMAIN optstring /\ ~Wants(c, optstring)
  <2>1. u = l
    BY <1>5, <1>9 DEF Decode, Wants
  <2>2. CASE p = L
    <3>1. after = o + 1 /\ (o + 1) - 1 = o /\ o <= o + 1 /\ o + 1 <= N + 1
      BY <1>1, <2>2 DEF after
    <3>2. state[o] = "free"
      BY <1>6, <1>7, <1>9, <2>2 DEF c
    <3>3. Met(l, words, optstring, ordering)
      <4>1. /\ s.optind = o /\ l.optind = o + 1 /\ state[l.optind - 1] = "free"
            /\ all[l.optind - 1] = all[s.optind - 1] /\ s.optind <= l.optind /\ l.optind <= Len(words) + 1
        BY <1>5, <1>6, <3>1, <3>2 DEF o, N
      <4> QED
        BY <1>5, <4>1, MovesOn
    <3>4. l.nextchar = <<>>
      BY <1>3, <1>5, <2>2
    <3> QED
      BY <1>5, <1>9, <2>1, <3>3, <3>4 DEF l
  <2>3. CASE p # L
    <3>1. after = o
      BY <2>3 DEF after
    <3>2. Met(l, words, optstring, ordering)
      BY <1>5, <3>1 DEF Met, Ahead, o
    <3>3. InWord(l, words, optstring)
      <4> DEFINE q == p + 1
      <4>1. q \in 2 .. L /\ \A j \in 2 .. q - 1 : j \in 2 .. p - 1 \/ j = p
        BY <1>1, <1>4, <2>3
      <4>2. l.nextchar = SubSeq(w, q, L)
        BY <1>5 DEF t
      <4> HIDE DEF q
      <4>3. \A j \in 2 .. q - 1 : ~Wants(w[j], optstring)
        BY <1>2, <1>9, <4>1 DEF c
      <4>4. \E r \in 2 .. L : l.nextchar = SubSeq(w, r, L) /\ \A j \in 2 .. r - 1 : ~Wants(w[j], optstring)
        BY <4>1, <4>2, <4>3
      <4>5. l.optind = s.optind
        BY <1>5, <3>1 DEF o
      <4> QED
        BY <1>1, <4>4, <4>5 DEF InWord, w, L, o, N
    <3> QED
      BY <1>5, <1>9, <2>1, <3>2, <3>3 DEF l
  <2> QED
    BY <2>2, <2>3
<1>10. CASE Wants(c, optstring) /\ p # L
  <2> DEFINE x == o + 1
  <2>1. u = TakeArgument(l) /\ c \in DOMAIN optstring
    BY <1>5, <1>10 DEF Decode, Wants
  <2>2. t # <<>>
    <3>1. Len(t) = L - p /\ L - p # 0
      <4> DEFINE q == p + 1
      <4>1. q \in Int /\ q <= L /\ L - q + 1 = L - p /\ L - p # 0
        BY <1>1, <1>4, <1>10
      <4>2. \A i \in q .. L : w[i] \in STRING
        <5>1. \A i \in q .. L : i \in 1 .. L
          BY <1>1, <1>4
        <5> QED
          BY <1>1, <5>1, ElementOfSeq DEF L
      <4> HIDE DEF q
      <4>3. Len(SubSeq(w, q, L)) = IF q <= L THEN L - q + 1 ELSE 0
        BY <1>1, <4>1, <4>2, SubSeqProperties
      <4> QED
        BY <4>1, <4>3 DEF t, q
    <3> QED
      BY <3>1, EmptySeq
  <2>3. u = [l EXCEPT !.optarg = t, !.optind = x, !.nextchar = <<>>]
    <3>1. after = o
      BY <1>10 DEF after
    <3> QED
      BY <1>5, <2>1, <2>2, <3>1 DEF TakeArgument, Scans
  <2>4. x \in Nat /\ x - 1 = o /\ o <= x /\ x <= N + 1 /\ <<>> \in Seq(STRING)
    BY <1>1, EmptySeq
  <2> HIDE DEF u, x
  <2>5. /\ u \in Scans(W) /\ u.argv = s.argv /\ u.first_nonopt = s.first_nonopt
        /\ u.last_nonopt = s.last_nonopt /\ u.optind = x /\ u.nextchar = <<>> /\ u.opt = c
    BY <1>3, <1>5, <2>3, <2>4 DEF Scans
  <2>6. state[o] = "free"
    <3>1. p \in 2 .. L - 1
      BY <1>1, <1>4, <1>10
    <3> QED
      BY <1>6, <1>7, <1>10, <3>1 DEF c
  <2>7. Met(u, words, optstring, ordering)
    <3>1. /\ s.optind = o /\ state[u.optind - 1] = "free"
          /\ all[u.optind - 1] = all[s.optind - 1] /\ s.optind <= u.optind /\ u.optind <= Len(words) + 1
      BY <1>6, <2>4, <2>5, <2>6 DEF o, N
    <3> QED
      BY <2>5, <3>1, MovesOn
  <2> QED
    BY <2>1, <2>5, <2>7 DEF u, l
<1>11. CASE Wants(c, optstring) /\ p = L
  <2> DEFINE x == o + 2
             g == s.argv[o + 1]
  <2>1. u = TakeArgument(l) /\ c \in DOMAIN optstring
    BY <1>5, <1>11 DEF Decode, Wants
  <2>2. t = <<>> /\ after = o + 1 /\ Argc(l) = N + 1
    BY <1>1, <1>3, <1>5, <1>11 DEF after, Argc
  <2>3. CASE o = N
    <3>1. u = [l EXCEPT !.opt = "?"]
      BY <1>1, <1>5, <2>1, <2>2, <2>3 DEF TakeArgument
    <3>2. u \in Scans(W) /\ u.opt = "?"
      BY <1>5, <3>1 DEF Scans
    <3> QED
      BY <3>2 DEF l
  <2>4. CASE o # N
    <3>1. x \in Nat /\ x - 1 = o + 1 /\ o <= x /\ x <= N + 1 /\ o + 1 <= N /\ o + 1 \in 1 .. N
          /\ o + 1 # N + 1 /\ (o + 1) + 1 = x
      BY <1>1, <2>4
    <3>2. g \in Seq(STRING)
      <4>1. s.argv[o + 1] \in W
        BY <1>1, <3>1, ElementOfSeq
      <4> QED
        BY <4>1
    <3>3. u = [l EXCEPT !.optarg = g, !.optind = x]
      BY <1>5, <2>1, <2>2, <3>1 DEF TakeArgument, Scans
    <3> HIDE DEF u, x, g
    <3>4. /\ u \in Scans(W) /\ u.argv = s.argv /\ u.first_nonopt = s.first_nonopt
          /\ u.last_nonopt = s.last_nonopt /\ u.optind = x /\ u.nextchar = <<>> /\ u.opt = c
      BY <1>3, <1>5, <2>2, <3>1, <3>2, <3>3 DEF Scans
    <3>5. WantsNext(w, optstring)
      <4>1. L > 1
        BY <1>1
      <4> QED
        BY <1>2, <1>7, <1>11, <4>1 DEF c
    <3>6. Met(u, words, optstring, ordering)
      <4>1. /\ s.optind = o /\ state[u.optind - 1] = "free"
            /\ all[u.optind - 1] = all[s.optind - 1] /\ s.optind <= u.optind /\ u.optind <= Len(words) + 1
        BY <1>6, <3>1, <3>4, <3>5 DEF o, N
      <4> QED
        BY <3>4, <4>1, MovesOn
    <3> QED
      BY <2>1, <3>4, <3>6 DEF u, l
  <2> QED
    BY <2>3, <2>4
<1> QED
  BY <1>8, <1>9, <1>10, <1>11 DEF Wants

\* Between two calls: the words so far are read, a word may be open.
Scanning(s, W, words, optstring, ordering) ==
  /\ s \in Scans(W) /\ Met(s, words, optstring, ordering)
  /\ s.nextchar # <<>> => InWord(s, words, optstring)

\* A call goes on reading, ends the program, or ends with the operands last.
LEMMA CallScans ==
  ASSUME NEW W, W \subseteq Seq(STRING), NEW words \in Seq(W), NEW optstring,
         NEW ordering \in {"PERMUTE", "REQUIRE_ORDER"}, "end" \notin DOMAIN optstring,
         NEW s, Scanning(s, W, words, optstring, ordering), s.opt # "end"
  PROVE  /\ GetoptCall(s, optstring, ordering) \in Scans(W)
         /\ \/ Finished(GetoptCall(s, optstring, ordering), words, optstring, ordering)
            \/ GetoptCall(s, optstring, ordering).opt = "?"
            \/ /\ Scanning(GetoptCall(s, optstring, ordering), W, words, optstring, ordering)
               /\ GetoptCall(s, optstring, ordering).opt \in DOMAIN optstring
<1> DEFINE e == [s EXCEPT !.optarg = <<>>]
           d == IF s.nextchar = <<>> THEN Advance(e, ordering) ELSE e
           u == GetoptCall(s, optstring, ordering)
<1>1. u = ShortOption(d, optstring)
  BY DEF GetoptCall
<1>2. /\ e \in Scans(W) /\ e.argv = s.argv /\ e.optind = s.optind /\ e.opt = s.opt
      /\ e.first_nonopt = s.first_nonopt /\ e.last_nonopt = s.last_nonopt /\ e.nextchar = s.nextchar
  <2>1. <<>> \in Seq(STRING)
    BY EmptySeq
  <2> QED
    BY <2>1 DEF Scanning, Scans
<1> HIDE DEF e
<1>3. Met(e, words, optstring, ordering)
  BY <1>2 DEF Scanning, Met, Ahead
<1>4. /\ d \in Scans(W)
      /\ \/ Finished(d, words, optstring, ordering)
         \/ Met(d, words, optstring, ordering) /\ InWord(d, words, optstring) /\ d.opt = s.opt
  <2>1. CASE s.nextchar = <<>>
    <3>1. d = Advance(e, ordering)
      BY <2>1
    <3>2. Opened(e, W, words, optstring, ordering)
      BY <1>2, <1>3, AdvanceMeets
    <3> HIDE DEF d
    <3> QED
      BY <1>2, <3>1, <3>2 DEF Opened
  <2>2. CASE s.nextchar # <<>>
    <3>1. d = e /\ InWord(e, words, optstring)
      BY <1>2, <2>2 DEF Scanning, InWord
    <3> QED
      BY <1>2, <1>3, <3>1
  <2> QED
    BY <2>1, <2>2
<1> HIDE DEF d, u
<1>5. CASE Finished(d, words, optstring, ordering)
  <2>1. u = d
    BY <1>1, <1>5 DEF ShortOption, Finished
  <2> QED
    BY <1>4, <1>5, <2>1 DEF u
<1>6. CASE Met(d, words, optstring, ordering) /\ InWord(d, words, optstring) /\ d.opt = s.opt
  <2>1. u = Decode(NextLetter(d), optstring)
    BY <1>1, <1>6 DEF ShortOption
  <2>2. /\ u \in Scans(W)
        /\ \/ u.opt = "?"
           \/ /\ u.opt \in DOMAIN optstring /\ Met(u, words, optstring, ordering)
              /\ u.nextchar # <<>> => InWord(u, words, optstring)
    BY <1>4, <1>6, <2>1, LetterMeets
  <2> QED
    BY <2>2 DEF u, Scanning
<1> QED
  BY <1>4, <1>5, <1>6

-----------------------------------------------------------------------------
(* What a loop over the devices keeps. *)

\* A turn of the loop with the devices' i-th, one of those wanted or not.
KeptTurn(x, i, devices, wanted, max) ==
  IF Len(x) < max /\ i \in wanted THEN Append(x, devices[i]) ELSE x

\* `kept' holds devices wanted, no place of the list twice, and one that is
\* wanted is left out only when there is no room and all that are kept stand
\* before it.
Selects(f, kept, devices, wanted, max) ==
  /\ Len(kept) <= max
  /\ f \in [1 .. Len(kept) -> wanted]
  /\ \A k, l \in 1 .. Len(kept) : f[k] = f[l] => k = l
  /\ \A k \in 1 .. Len(kept) : kept[k] = devices[f[k]]
  /\ \A i \in wanted :
       \/ \E k \in 1 .. Len(kept) : f[k] = i
       \/ Len(kept) = max /\ \A k \in 1 .. Len(kept) : f[k] < i

\* One more of the places is looked at.
LEMMA SelectsOne ==
  ASSUME NEW D, NEW devices \in Seq(D), NEW max \in Nat, NEW i \in 1 .. Len(devices),
         NEW wanted, NEW x \in Seq(D), NEW f,
         Selects(f, x, devices, {j \in wanted : j \in 1 .. i - 1}, max)
  PROVE  \E g : Selects(g, KeptTurn(x, i, devices, wanted, max), devices,
                        {j \in wanted : j \in 1 .. i}, max)
<1> DEFINE before == {j \in wanted : j \in 1 .. i - 1}
           now == {j \in wanted : j \in 1 .. i}
           y == KeptTurn(x, i, devices, wanted, max)
           m == Len(x)
<1>1. m \in Nat /\ i \in Nat /\ i >= 1 /\ (\A j \in 1 .. i : j = i \/ j \in 1 .. i - 1)
      /\ (\A j \in 1 .. i - 1 : j \in 1 .. i /\ j # i)
  BY LenProperties
<1>2. Selects(f, x, devices, before, max)
  OBVIOUS
<1>3. CASE ~(i \in wanted)
  <2>1. now = before /\ y = x
    BY <1>1, <1>3 DEF KeptTurn
  <2> QED
    BY <1>2, <2>1
<1>4. CASE i \in wanted /\ ~(m < max)
  <2>1. y = x
    BY <1>4 DEF KeptTurn
  <2>2. /\ before \subseteq now /\ \A j \in before : j < i
        /\ \A j \in now : j = i \/ j \in before
    BY <1>1
  <2> HIDE DEF before, now, y
  <2>3. m = max /\ \A k \in 1 .. m : f[k] < i
    <3>1. m <= max /\ f \in [1 .. m -> before]
      BY <1>2 DEF Selects
    <3> HIDE DEF m
    <3> QED
      BY <1>1, <1>4, <2>2, <3>1
  <2>4. f \in [1 .. m -> now]
    BY <1>2, <2>2 DEF Selects
  <2>5. \A j \in now : \/ \E k \in 1 .. m : f[k] = j
                       \/ m = max /\ \A k \in 1 .. m : f[k] < j
    <3>1. \A j \in before : \/ \E k \in 1 .. m : f[k] = j
                            \/ m = max /\ \A k \in 1 .. m : f[k] < j
      BY <1>2 DEF Selects
    <3> HIDE DEF m
    <3> QED
      BY <2>2, <2>3, <3>1
  <2> HIDE DEF m
  <2>6. Selects(f, y, devices, now, max)
    BY <1>2, <2>1, <2>4, <2>5 DEF Selects, m
  <2> QED
    BY <2>6 DEF y, now
<1>5. CASE i \in wanted /\ m < max
  <2> DEFINE g == [k \in 1 .. m + 1 |-> IF k = m + 1 THEN i ELSE f[k]]
  <2>1. devices[i] \in D
    BY ElementOfSeq
  <2>2. y = Append(x, devices[i])
    BY <1>5 DEF KeptTurn
  <2>3. /\ Len(y) = m + 1 /\ y[m + 1] = devices[i]
        /\ \A k \in 1 .. m : y[k] = x[k]
    BY <2>1, <2>2, AppendProperties
  <2>4. /\ i \in now /\ i \notin before /\ before \subseteq now
        /\ \A j \in now : j = i \/ j \in before
    <3>1. i \in 1 .. i
      BY <1>1
    <3> QED
      BY <1>1, <1>5, <3>1
  <2>5. /\ \A k \in 1 .. m + 1 : k = m + 1 \/ k \in 1 .. m
        /\ m + 1 \in 1 .. m + 1 /\ \A k \in 1 .. m : k \in 1 .. m + 1 /\ k # m + 1
        /\ m + 1 <= max /\ m # max
    BY <1>1, <1>5
  <2> HIDE DEF before, now, y, m
  <2>6. f \in [1 .. m -> before]
    BY <1>2 DEF Selects, m
  <2>7. g \in [1 .. m + 1 -> now]
    BY <2>4, <2>5, <2>6
  <2>8. g[m + 1] = i /\ \A k \in 1 .. m : g[k] = f[k] /\ g[k] \in before
    BY <2>5, <2>6
  <2> HIDE DEF g
  <2>9. \A k, l \in 1 .. m + 1 : g[k] = g[l] => k = l
    BY <1>2, <2>4, <2>5, <2>8 DEF Selects, m
  <2>10. \A k \in 1 .. m + 1 : y[k] = devices[g[k]]
    BY <1>2, <2>3, <2>5, <2>8 DEF Selects, m
  <2>11. \A j \in now : \E k \in 1 .. m + 1 : g[k] = j
    BY <1>2, <1>5, <2>4, <2>5, <2>8 DEF Selects, m
  <2>12. Selects(g, y, devices, now, max)
    BY <2>3, <2>5, <2>7, <2>9, <2>10, <2>11 DEF Selects
  <2> QED
    BY <2>12 DEF y, now
<1> QED
  BY <1>3, <1>4, <1>5

\* What the loop keeps turn by turn, as the equation that defines it.
KeptIs(h, devices, wanted, max) ==
  h = [i \in 0 .. Len(devices) |->
         IF i = 0 THEN <<>> ELSE KeptTurn(h[i - 1], i, devices, wanted, max)]

\* The loop ends, whatever it wants.
LEMMA KeptExists ==
  ASSUME NEW D, NEW devices \in Seq(D), NEW wanted, NEW max
  PROVE  \E h : KeptIs(h, devices, wanted, max)
<1> DEFINE N == Len(devices)
           T == Seq(D)
           E(x, k) == KeptTurn(x, k, devices, wanted, max)
           F == [k \in 1 .. N |-> [x \in T |-> E(x, k)]]
<1>1. N \in Nat /\ <<>> \in T
  BY LenProperties, EmptySeq
<1>2. ASSUME NEW x \in T, NEW k \in 1 .. N PROVE E(x, k) \in T
  <2>1. devices[k] \in D
    BY ElementOfSeq
  <2> QED
    BY <2>1, AppendProperties DEF KeptTurn
<1> HIDE DEF E, N, T
<1>3. F \in [1 .. N -> [T -> T]]
  BY <1>2
<1>4. PICK h \in [0 .. N -> T] : IsLoop(h, <<>>, N, F)
  <2> HIDE DEF F
  <2> QED
    BY <1>1, <1>3, Loop
<1>5. h = [k \in 0 .. N |-> IF k = 0 THEN <<>> ELSE E(h[k - 1], k)]
  <2>1. \A k \in 0 .. N : k # 0 => k \in 1 .. N /\ k - 1 \in 0 .. N
    BY <1>1
  <2>2. \A k \in 1 .. N, x \in T : F[k][x] = E(x, k)
    OBVIOUS
  <2>3. h = [k \in 0 .. N |-> IF k = 0 THEN <<>> ELSE F[k][h[k - 1]]]
    BY <1>4 DEF IsLoop
  <2> HIDE DEF F
  <2> QED
    BY <1>4, <2>1, <2>2, <2>3
<1> QED
  BY <1>5 DEF KeptIs, E, N

\* In the end it has selected among all the devices wanted.
LEMMA KeptSelects ==
  ASSUME NEW D, NEW devices \in Seq(D), NEW max \in Nat,
         NEW wanted, wanted \subseteq 1 .. Len(devices), NEW h, KeptIs(h, devices, wanted, max)
  PROVE  /\ h[Len(devices)] \in Seq(D)
         /\ \E f : Selects(f, h[Len(devices)], devices, wanted, max)
<1> DEFINE N == Len(devices)
           W(i) == {j \in wanted : j \in 1 .. i}
           Q(i) == h[i] \in Seq(D) /\ \E f : Selects(f, h[i], devices, W(i), max)
           K == {i \in Nat : i <= N => Q(i)}
<1>1. N \in Nat
  BY LenProperties
<1>2. \A i \in 0 .. N :
        h[i] = IF i = 0 THEN <<>> ELSE KeptTurn(h[i - 1], i, devices, wanted, max)
  BY Zenon DEF KeptIs
<1>3. 0 \in K
  <2> DEFINE f == [k \in 1 .. 0 |-> 0]
  <2>1. h[0] = <<>>
    BY <1>1, <1>2
  <2>2. <<>> \in Seq(D) /\ Len(<<>>) = 0 /\ W(0) = {} /\ 1 .. 0 = {}
    BY EmptySeq
  <2>3. f \in [1 .. 0 -> {}]
    BY <2>2
  <2> HIDE DEF f, W
  <2>4. Selects(f, <<>>, devices, {}, max)
    BY <2>2, <2>3 DEF Selects
  <2>5. Q(0)
    BY <2>1, <2>2, <2>4
  <2> QED
    BY <2>5
<1>4. ASSUME NEW k \in Nat, k \in K PROVE k + 1 \in K
  <2> SUFFICES ASSUME k + 1 <= N PROVE Q(k + 1)
    <3> HIDE DEF Q
    <3> QED
      OBVIOUS
  <2> DEFINE i == k + 1
  <2>1. i \in 1 .. N /\ i \in 0 .. N /\ i # 0 /\ i - 1 = k /\ k <= N
    BY <1>1
  <2>2. Q(i - 1)
    BY <1>4, <2>1
  <2> HIDE DEF i
  <2>3. h[i] = KeptTurn(h[i - 1], i, devices, wanted, max)
    BY <1>2, <2>1
  <2>4. PICK f : Selects(f, h[i - 1], devices, W(i - 1), max)
    BY <2>2
  <2>5. \E g : Selects(g, h[i], devices, W(i), max)
    <3> DEFINE x == h[i - 1]
    <3>1. x \in Seq(D) /\ i \in 1 .. Len(devices)
      BY <2>1, <2>2 DEF N
    <3>2. Selects(f, x, devices, {j \in wanted : j \in 1 .. i - 1}, max)
      BY <2>4
    <3>3. h[i] = KeptTurn(x, i, devices, wanted, max)
      BY <2>3
    <3> HIDE DEF x
    <3>4. \E g : Selects(g, KeptTurn(x, i, devices, wanted, max), devices,
                        {j \in wanted : j \in 1 .. i}, max)
      BY <3>1, <3>2, SelectsOne
    <3> QED
      BY <3>3, <3>4
  <2>6. h[i] \in Seq(D)
    <3>1. devices[i] \in D
      BY <2>1, ElementOfSeq DEF N
    <3> QED
      BY <2>2, <2>3, <3>1, AppendProperties DEF KeptTurn
  <2>7. Q(i)
    BY <2>5, <2>6
  <2> QED
    BY <2>7 DEF i
<1>5. N \in K
  <2> HIDE DEF K
  <2> QED
    BY <1>1, <1>3, <1>4, Induction
<1>6. W(N) = wanted
  BY DEF N
<1> HIDE DEF W
<1> QED
  BY <1>1, <1>5, <1>6 DEF N

\* That loop is the program's, for the devices with a node as for the USB ones.
LEMMA KeptTurns ==
  ASSUME NEW D, NEW devices \in Seq(D), NEW wanted, NEW max
  PROVE  \E h : /\ KeptIs(h, devices, wanted, max)
               /\ Kept(devices, wanted, max) = h[Len(devices)]
<1> DEFINE Is(g) == g = [i \in 0 .. Len(devices) |->
                           IF i = 0 THEN <<>>
                           ELSE IF Len(g[i - 1]) < max /\ i \in wanted
                                THEN Append(g[i - 1], devices[i]) ELSE g[i - 1]]
           kept == CHOOSE g : Is(g)
<1>1. Kept(devices, wanted, max) = kept[Len(devices)]
  BY DEF Kept
<1>2. ASSUME NEW g PROVE Is(g) <=> KeptIs(g, devices, wanted, max)
  BY DEF KeptIs, KeptTurn
<1>3. PICK h : KeptIs(h, devices, wanted, max)
  BY KeptExists
<1>4. Is(kept)
  <2> HIDE DEF Is
  <2> QED
    BY <1>2, <1>3 DEF kept
<1> HIDE DEF kept, Is
<1>5. KeptIs(kept, devices, wanted, max)
  BY <1>2, <1>4
<1> QED
  BY <1>1, <1>5

\* `kept' holds those wanted that are among the first max, and no others.
AreFirst(f, kept, wanted, max) ==
  \A i \in wanted : i \in FirstOf(wanted, max) <=> \E k \in 1 .. Len(kept) : f[k] = i

\* What is kept are the first max places wanted.
LEMMA SelectsFirst ==
  ASSUME NEW f, NEW kept, NEW devices, NEW wanted, wanted \subseteq Nat, IsFiniteSet(wanted),
         NEW max \in Nat, Len(kept) \in Nat, Selects(f, kept, devices, wanted, max)
  PROVE  AreFirst(f, kept, wanted, max)
<1> DEFINE m == Len(kept)
           image == {f[k] : k \in 1 .. m}
           To(i) == {j \in wanted : j <= i}
<1>1. /\ m \in Nat /\ m <= max /\ f \in [1 .. m -> wanted]
      /\ \A k, l \in 1 .. m : f[k] = f[l] => k = l
      /\ \A i \in wanted : \/ \E k \in 1 .. m : f[k] = i
                           \/ m = max /\ \A k \in 1 .. m : f[k] < i
  BY Zenon DEF Selects, m
<1> HIDE DEF m
<1>2. IsFiniteSet(image) /\ Cardinality(image) = m /\ image \subseteq wanted
  <2>1. IsFiniteSet(1 .. m) /\ Cardinality(1 .. m) = m
    <3>1. 1 \in Int /\ m \in Int /\ (IF 1 > m THEN 0 ELSE m - 1 + 1) = m
      BY <1>1
    <3>2. IsFiniteSet(1 .. m) /\ Cardinality(1 .. m) = IF 1 > m THEN 0 ELSE m - 1 + 1
      BY <3>1, FS_Interval
    <3> QED
      BY <3>1, <3>2
  <2>2. image \subseteq wanted
    BY <1>1
  <2>3. f \in Surjection(1 .. m, image) /\ f \in Injection(1 .. m, image)
    BY <1>1 DEF Surjection, Injection, IsInjective
  <2> HIDE DEF image
  <2>4. IsFiniteSet(image)
    BY <2>2, FS_Subset
  <2>5. Cardinality(1 .. m) <= Cardinality(image) /\ Cardinality(image) <= Cardinality(1 .. m)
    BY <2>1, <2>3, <2>4, FS_Injection, FS_Surjection
  <2>6. Cardinality(image) \in Nat
    BY <2>4, FS_CardinalityType
  <2> QED
    BY <1>1, <2>1, <2>2, <2>4, <2>5, <2>6
<1>3. ASSUME NEW i \in wanted PROVE IsFiniteSet(To(i)) /\ Cardinality(To(i)) \in Nat
  <2>1. To(i) \subseteq wanted
    OBVIOUS
  <2> QED
    BY <2>1, FS_Subset, FS_CardinalityType
<1>4. ASSUME NEW i \in wanted, i \in image PROVE Cardinality(To(i)) <= max
  <2>1. To(i) \subseteq image
    <3> SUFFICES ASSUME NEW j \in wanted, j <= i, j \notin image PROVE FALSE
      OBVIOUS
    <3>1. \A k \in 1 .. m : f[k] < j
      BY <1>1
    <3>2. PICK k \in 1 .. m : f[k] = i
      BY <1>4
    <3> QED
      BY <3>1, <3>2
  <2> HIDE DEF image, To
  <2>2. Cardinality(To(i)) <= Cardinality(image)
    BY <1>2, <2>1, FS_Subset
  <2> QED
    BY <1>1, <1>2, <1>3, <2>2
<1>5. ASSUME NEW i \in wanted, i \notin image PROVE ~(Cardinality(To(i)) <= max)
  <2>1. m = max /\ \A k \in 1 .. m : f[k] < i
    BY <1>1, <1>5, Zenon
  <2>2. image \subseteq To(i) /\ i \in To(i)
    <3>1. i \in Nat /\ \A k \in 1 .. m : f[k] \in wanted
      BY <1>1
    <3>2. \A j \in wanted : j < i => j <= i
      <4>1. \A j \in Nat : j < i => j <= i
        BY <3>1
      <4> QED
        BY <4>1
    <3>3. \A k \in 1 .. m : f[k] \in wanted /\ f[k] <= i
      BY <2>1, <3>1, <3>2
    <3>4. i <= i
      BY <3>1
    <3> HIDE DEF m
    <3> QED
      BY <3>3, <3>4
  <2> HIDE DEF image, To
  <2>3. image # To(i)
    BY <1>5, <2>2
  <2>4. Cardinality(image) < Cardinality(To(i))
    <3>1. Cardinality(image) <= Cardinality(To(i)) /\ Cardinality(image) # Cardinality(To(i))
      BY <1>2, <1>3, <2>2, <2>3, FS_Subset
    <3> QED
      BY <1>1, <1>2, <1>3, <3>1
  <2> QED
    BY <1>1, <1>2, <1>3, <2>1, <2>4
<1> QED
  BY <1>4, <1>5 DEF AreFirst, FirstOf, m

\* One device found is the one USB device among those looked at.
LEMMA FoundIsOnly ==
  ASSUME NEW D, NEW listed \in Seq(D), NEW system,
         Len(SerialAutodetect(system, listed)) = 1
  PROVE  \E i \in FirstOf(NodesOf(listed), Scratch) :
           /\ IsUsb(listed[i]) /\ SerialAutodetect(system, listed)[1] = listed[i]
           /\ \A j \in FirstOf(NodesOf(listed), Scratch) : IsUsb(listed[j]) => j = i
<1> DEFINE N == Len(listed)
           nodes == NodesOf(listed)
           looked == FirstOf(nodes, Scratch)
           first == Kept(listed, nodes, Scratch)
           M == Len(first)
           usb == {k \in 1 .. M : IsUsb(first[k])}
           found == Kept(first, usb, MaxMatches)
<1>1. SerialAutodetect(system, listed) = found
  BY DEF SerialAutodetect, SerialEnumerateFiltered, SerialEnumerate, SerialEnumerateLinux,
         SerialEnumerateMacos, UsbOf
<1>2. /\ Scratch \in Nat /\ MaxMatches \in Nat /\ 1 < MaxMatches /\ N \in Nat
      /\ nodes \subseteq 1 .. N /\ Len(found) = 1
  BY <1>1, DetectAssumption, LenProperties DEF DetectAssumption, NodesOf
<1>3. PICK f : first \in Seq(D) /\ Selects(f, first, listed, nodes, Scratch)
  <2>1. PICK h : KeptIs(h, listed, nodes, Scratch) /\ first = h[N]
    BY KeptTurns
  <2> HIDE DEF first
  <2> QED
    BY <1>2, <2>1, KeptSelects
<1> HIDE DEF first
<1>4. M \in Nat
  BY <1>3, LenProperties
<1>5. PICK g : Selects(g, found, first, usb, MaxMatches)
  <2>1. PICK h : KeptIs(h, first, usb, MaxMatches) /\ found = h[M]
    BY <1>3, KeptTurns
  <2> HIDE DEF found
  <2> QED
    BY <1>2, <1>3, <2>1, KeptSelects
<1> HIDE DEF found, nodes
<1>6. looked \subseteq nodes /\ \A i \in nodes : i \in looked <=> \E k \in 1 .. M : f[k] = i
  <2>1. IsFiniteSet(nodes) /\ nodes \subseteq Nat
    <3>1. IsFiniteSet(1 .. N)
      <4>1. 1 \in Int /\ N \in Int
        BY <1>2
      <4> HIDE DEF N
      <4> QED
        BY <4>1, FS_Interval
    <3>2. nodes \subseteq Nat
      BY <1>2
    <3> QED
      BY <1>2, <3>1, <3>2, FS_Subset
  <2>2. looked \subseteq nodes
    BY DEF FirstOf
  <2> HIDE DEF looked
  <2>3. \A i \in nodes : i \in looked <=> \E k \in 1 .. M : f[k] = i
    <3> HIDE DEF M
    <3>1. /\ Len(first) \in Nat /\ Scratch \in Nat /\ nodes \subseteq Nat /\ IsFiniteSet(nodes)
          /\ Selects(f, first, listed, nodes, Scratch)
      BY <1>2, <1>3, <1>4, <2>1 DEF M
    <3>2. AreFirst(f, first, nodes, Scratch)
      BY <3>1, SelectsFirst
    <3> QED
      BY <3>2, Zenon DEF AreFirst, looked, M
  <2> QED
    BY <2>2, <2>3
<1> DEFINE k == g[1]
           i == f[k]
<1> HIDE DEF looked
<1>7. k \in usb /\ found[1] = first[k] /\ \A l \in usb : l = k
  <2>1. Len(found) # MaxMatches /\ \A l \in 1 .. 1 : l = 1
    BY <1>2
  <2> HIDE DEF usb
  <2>2. g \in [1 .. 1 -> usb] /\ found[1] = first[k] /\ \A l \in usb : \E j \in 1 .. 1 : g[j] = l
    BY <1>2, <1>5, <2>1 DEF Selects
  <2> QED
    BY <2>1, <2>2
<1>8. k \in 1 .. M /\ IsUsb(first[k])
  BY <1>7
<1>9. i \in nodes /\ first[k] = listed[i]
  BY <1>3, <1>8 DEF Selects
<1>10. i \in looked
  BY <1>6, <1>8, <1>9
<1>11. ASSUME NEW j \in looked, IsUsb(listed[j]) PROVE j = i
  <2>1. PICK l \in 1 .. M : f[l] = j
    BY <1>6
  <2>2. first[l] = listed[j]
    BY <1>3, <2>1 DEF Selects
  <2>3. l \in usb
    BY <1>11, <2>2
  <2> QED
    BY <1>7, <2>1, <2>3
<1>12. IsUsb(listed[i]) /\ found[1] = listed[i]
  BY <1>7, <1>8, <1>9
<1> QED
  BY <1>1, <1>10, <1>11, <1>12 DEF looked, nodes

-----------------------------------------------------------------------------
(* Block 0: a number printed and read again. *)

\* Ten digits, none of which stops a text.
LEMMA DigitFacts ==
  /\ \A d \in 0 .. 9 : Digit[d + 1] \in DigitSet /\ DigitOf(Digit[d + 1]) = d
  /\ " " \notin DigitSet /\ NUL \notin DigitSet
<1>1. \A d, e \in 0 .. 9 : Digit[d + 1] = Digit[e + 1] => d = e
  BY DEF Digit
<1>2. DOMAIN Digit = 1 .. 10
  BY DEF Digit
<1>3. ASSUME NEW d \in 0 .. 9 PROVE Digit[d + 1] \in DigitSet /\ DigitOf(Digit[d + 1]) = d
  <2>1. d + 1 \in 1 .. 10
    OBVIOUS
  <2>2. Digit[d + 1] \in DigitSet
    BY <1>2, <2>1 DEF DigitSet
  <2>3. DigitOf(Digit[d + 1]) = CHOOSE e \in 0 .. 9 : Digit[e + 1] = Digit[d + 1]
    BY DEF DigitOf
  <2> QED
    BY <1>1, <2>2, <2>3
<1>4. \A d \in 1 .. 10 : Digit[d] # " " /\ Digit[d] # NUL
  <2> DEFINE ten == {"0", "1", "2", "3", "4", "5", "6", "7", "8", "9"}
  <2>1. \A d \in 1 .. 10 : Digit[d] \in ten
    BY DEF Digit
  <2>2. " " \notin ten
    OBVIOUS
  <2>3. NUL \notin ten
    BY DEF NUL
  <2> HIDE DEF ten
  <2> QED
    BY <2>1, <2>2, <2>3
<1> QED
  BY <1>2, <1>3, <1>4 DEF DigitSet

\* Reading the digits of t one by one comes to v.
Reads(t, v) ==
  \E h \in [0 .. Len(t) -> Nat] :
    /\ h[0] = 0 /\ h[Len(t)] = v
    /\ \A i \in 1 .. Len(t) : h[i] = 10 * h[i - 1] + DigitOf(t[i])

\* A digit reads as its place in the list ...
LEMMA ReadsOne ==
  ASSUME NEW d \in 0 .. 9
  PROVE  Reads(<<Digit[d + 1]>>, d)
<1> DEFINE c == Digit[d + 1]
           t == <<c>>
           h == [i \in 0 .. 1 |-> IF i = 0 THEN 0 ELSE d]
<1>1. Len(t) = 1 /\ t[1] = c /\ DigitOf(c) = d
  BY DigitFacts
<1>2. h \in [0 .. 1 -> Nat] /\ h[0] = 0 /\ h[1] = d
  OBVIOUS
<1> HIDE DEF t, h, c
<1>3. \A i \in 1 .. 1 : h[i] = 10 * h[i - 1] + DigitOf(t[i])
  <2>1. \A i \in 1 .. 1 : i = 1 /\ i - 1 = 0
    OBVIOUS
  <2>2. 10 * h[0] + DigitOf(t[1]) = d
    BY <1>1, <1>2
  <2> QED
    BY <1>2, <2>1, <2>2
<1>4. Reads(t, d)
  BY <1>1, <1>2, <1>3 DEF Reads
<1> QED
  BY <1>4 DEF t, c

\* ... and one behind others as the last decimal.
LEMMA ReadsDigit ==
  ASSUME NEW t \in Seq(DigitSet), NEW v \in Nat, Reads(t, v), NEW d \in 0 .. 9
  PROVE  Reads(Append(t, Digit[d + 1]), 10 * v + d)
<1> DEFINE N == Len(t)
           u == Append(t, Digit[d + 1])
           w == 10 * v + d
<1>1. PICK h \in [0 .. N -> Nat] :
        h[0] = 0 /\ h[N] = v /\ \A i \in 1 .. N : h[i] = 10 * h[i - 1] + DigitOf(t[i])
  BY DEF Reads
<1> DEFINE g == [i \in 0 .. N + 1 |-> IF i = N + 1 THEN w ELSE h[i]]
<1>2. N \in Nat /\ w \in Nat
  BY LenProperties
<1>3. /\ Len(u) = N + 1 /\ u[N + 1] = Digit[d + 1] /\ DigitOf(Digit[d + 1]) = d
      /\ \A i \in 1 .. N : u[i] = t[i]
  <2> DEFINE c == Digit[d + 1]
  <2>1. c \in DigitSet /\ DigitOf(c) = d
    BY DigitFacts
  <2> HIDE DEF c
  <2>2. Len(u) = N + 1 /\ u[N + 1] = c /\ \A i \in 1 .. N : u[i] = t[i]
    BY <2>1, AppendProperties DEF c
  <2> QED
    BY <2>1, <2>2 DEF c
<1> HIDE DEF N, u
<1>4. /\ \A i \in 0 .. N + 1 : i = N + 1 \/ i \in 0 .. N
      /\ \A i \in 1 .. N + 1 : i = N + 1 \/ i \in 1 .. N
      /\ \A i \in 1 .. N : i # N + 1 /\ i \in 0 .. N /\ i \in 0 .. N + 1 /\ i - 1 \in 0 .. N /\ i - 1 # N + 1 /\ i - 1 \in 0 .. N + 1
      /\ N # N + 1 /\ N \in 0 .. N + 1 /\ (N + 1) - 1 = N /\ 0 \in 0 .. N /\ 0 # N + 1
      /\ 0 \in 0 .. N + 1 /\ N + 1 \in 0 .. N + 1
  BY <1>2
<1>5. g \in [0 .. N + 1 -> Nat]
  <2> HIDE DEF w
  <2> QED
    BY <1>1, <1>2, <1>4
<1>6. g[0] = 0 /\ g[N + 1] = w /\ g[N] = v /\ \A i \in 1 .. N : g[i] = h[i] /\ g[i - 1] = h[i - 1]
  BY <1>1, <1>4
<1> HIDE DEF g
<1>7. ASSUME NEW i \in 1 .. N + 1 PROVE g[i] = 10 * g[i - 1] + DigitOf(u[i])
  <2>1. CASE i = N + 1
    BY <1>3, <1>4, <1>6, <2>1
  <2>2. CASE i # N + 1
    <3>1. i \in 1 .. N
      BY <1>4, <2>2
    <3> QED
      BY <1>1, <1>3, <1>6, <3>1
  <2> QED
    BY <2>1, <2>2
<1>8. Reads(u, w)
  <2> HIDE DEF w
  <2> QED
    BY <1>3, <1>5, <1>6, <1>7 DEF Reads
<1> QED
  BY <1>8 DEF u

\* atoi reads all of a text of digits.
LEMMA NumberReads ==
  ASSUME NEW t \in Seq(DigitSet), NEW v, Reads(t, v)
  PROVE  Number(t) = v
<1> DEFINE N == Len(t)
           Is(g) == g = [i \in 0 .. N |-> IF i = 0 THEN 0 ELSE 10 * g[i - 1] + DigitOf(t[i])]
           value == CHOOSE g : Is(g)
           stops == {t[i] : i \in DOMAIN t} \ DigitSet
<1>1. N \in Nat /\ DOMAIN t = 1 .. N /\ \A i \in 1 .. N : t[i] \in DigitSet
  BY LenProperties, ElementOfSeq
<1>2. Until(t, stops) = t
  <2>1. stops = {}
    BY <1>1
  <2> HIDE DEF stops
  <2>2. {i \in DOMAIN t : t[i] \in stops} = {}
    BY <2>1
  <2> QED
    BY <2>2 DEF Until
<1>3. Number(t) = value[N]
  <2> HIDE DEF stops
  <2> USE DEF stops
  <2> QED
    BY <1>2 DEF Number
<1>4. PICK h \in [0 .. N -> Nat] :
        h[0] = 0 /\ h[N] = v /\ \A i \in 1 .. N : h[i] = 10 * h[i - 1] + DigitOf(t[i])
  BY DEF Reads
<1> HIDE DEF N, value
<1>5. Is(h)
  <2>1. \A i \in 0 .. N : i # 0 => i \in 1 .. N
    BY <1>1
  <2> QED
    BY <1>4, <2>1
<1>6. Is(value)
  <2> HIDE DEF Is
  <2> QED
    BY <1>5 DEF value
<1>7. \A i \in 0 .. N : value[i] = IF i = 0 THEN 0 ELSE 10 * value[i - 1] + DigitOf(t[i])
  BY <1>6, Zenon
<1> DEFINE Q(i) == value[i] = h[i]
           K == {i \in Nat : i <= N => Q(i)}
<1>8. 0 \in K
  BY <1>1, <1>4, <1>7
<1>9. ASSUME NEW k \in Nat, k \in K PROVE k + 1 \in K
  <2> SUFFICES ASSUME k + 1 <= N PROVE Q(k + 1)
    <3> HIDE DEF Q
    <3> QED
      OBVIOUS
  <2>1. k + 1 \in 1 .. N /\ k + 1 \in 0 .. N /\ k + 1 # 0 /\ (k + 1) - 1 = k /\ k <= N
    BY <1>1
  <2> QED
    BY <1>4, <1>7, <1>9, <2>1
<1>10. N \in K
  <2> HIDE DEF K
  <2> QED
    BY <1>1, <1>8, <1>9, Induction
<1> QED
  BY <1>1, <1>3, <1>4, <1>10

\* What printf makes of k, from what it has made of smaller numbers.
Printed(g, k) ==
  IF k < 10 THEN <<Digit[k + 1]>> ELSE Append(g[k \div 10], Digit[(k % 10) + 1])

\* All but the last digit of k, and the last one.
LEMMA Tenth ==
  ASSUME NEW k \in Nat
  PROVE  /\ k \div 10 \in Nat /\ k % 10 \in 0 .. 9 /\ k = 10 * (k \div 10) + (k % 10)
         /\ ~(k < 10) => k \div 10 < k /\ k \div 10 >= 1
  OBVIOUS

\* The recursion of printf is well founded.
LEMMA PrintedExists ==
  ASSUME NEW N \in Nat
  PROVE  \E g : g = [k \in 0 .. N |-> Printed(g, k)]
<1> DEFINE Runs(m) == \E g : \A k \in 0 .. m : g[k] = Printed(g, k)
           T == {m \in Nat : Runs(m)}
<1>1. 0 \in T
  <2> DEFINE g == [k \in 0 .. 0 |-> <<Digit[k + 1]>>]
  <2>1. \A k \in 0 .. 0 : g[k] = Printed(g, k)
    BY DEF Printed
  <2> HIDE DEF g
  <2>2. Runs(0)
    BY <2>1
  <2> QED
    BY <2>2
<1>2. ASSUME NEW m \in Nat, m \in T PROVE m + 1 \in T
  <2>1. PICK g : \A k \in 0 .. m : g[k] = Printed(g, k)
    BY <1>2
  <2> DEFINE h == [k \in 0 .. m + 1 |-> IF k = m + 1 THEN Printed(g, k) ELSE g[k]]
  <2>2. h[m + 1] = Printed(g, m + 1) /\ \A k \in 0 .. m : h[k] = g[k]
    <3>1. m + 1 \in 0 .. m + 1 /\ \A k \in 0 .. m : k \in 0 .. m + 1 /\ k # m + 1
      OBVIOUS
    <3> QED
      BY <3>1
  <2> HIDE DEF h
  <2>3. ASSUME NEW k \in 0 .. m + 1 PROVE Printed(h, k) = Printed(g, k)
    <3>1. CASE k < 10
      BY <3>1 DEF Printed
    <3>2. CASE ~(k < 10)
      <4>1. k \in Nat /\ k <= m + 1
        OBVIOUS
      <4>2. k \div 10 \in 0 .. m
        BY <3>2, <4>1, Tenth
      <4> QED
        BY <2>2, <3>2, <4>2 DEF Printed
    <3> QED
      BY <3>1, <3>2
  <2>4. ASSUME NEW k \in 0 .. m + 1 PROVE h[k] = Printed(h, k)
    <3>1. CASE k = m + 1
      BY <2>2, <2>3, <3>1
    <3>2. CASE k # m + 1
      <4>1. k \in 0 .. m
        BY <3>2
      <4> QED
        BY <2>1, <2>2, <2>3, <4>1
    <3> QED
      BY <3>1, <3>2
  <2>5. Runs(m + 1)
    BY <2>4
  <2> QED
    BY <2>5
<1>3. N \in T
  <2> HIDE DEF T
  <2> QED
    BY <1>1, <1>2, Induction
<1>4. PICK g : \A k \in 0 .. N : g[k] = Printed(g, k)
  BY <1>3
<1> DEFINE h == [k \in 0 .. N |-> g[k]]
<1>5. \A k \in 0 .. N : h[k] = g[k]
  OBVIOUS
<1> HIDE DEF h
<1>6. ASSUME NEW k \in 0 .. N PROVE Printed(h, k) = g[k]
  <2>1. CASE k < 10
    BY <1>4, <2>1 DEF Printed
  <2>2. CASE ~(k < 10)
    <3>1. k \in Nat /\ k <= N
      OBVIOUS
    <3>2. k \div 10 \in 0 .. N
      BY <2>2, <3>1, Tenth
    <3>3. h[k \div 10] = g[k \div 10]
      BY <1>5, <3>2
    <3> QED
      BY <1>4, <2>2, <3>3 DEF Printed
  <2> QED
    BY <2>1, <2>2
<1>7. h = [k \in 0 .. N |-> Printed(h, k)]
  BY <1>6 DEF h
<1> QED
  BY <1>7

\* Digits that read as k, no more of them than k needs.
IsText(t, k) ==
  /\ t \in Seq(DigitSet) /\ Reads(t, k)
  /\ \A d \in 1 .. SizeDigits : k < 10 ^ d => Len(t) <= d

\* A number of one digit, and one of more than one.
LEMMA ShortText ==
  ASSUME NEW k \in 0 .. 9
  PROVE  IsText(<<Digit[k + 1]>>, k)
<1> DEFINE c == Digit[k + 1]
<1>1. c \in DigitSet
  BY DigitFacts
<1>2. Reads(<<c>>, k)
  BY ReadsOne
<1> HIDE DEF c
<1>3. <<c>> \in Seq(DigitSet) /\ Len(<<c>>) = 1
  BY <1>1
<1>4. \A d \in 1 .. SizeDigits : 1 <= d
  BY HeaderAssumption DEF HeaderAssumption
<1>5. IsText(<<c>>, k)
  BY <1>2, <1>3, <1>4 DEF IsText
<1> QED
  BY <1>5 DEF c

LEMMA LongerText ==
  ASSUME NEW k \in Nat, ~(k < 10), NEW t, IsText(t, k \div 10)
  PROVE  IsText(Append(t, Digit[(k % 10) + 1]), k)
<1> DEFINE q == k \div 10
           r == k % 10
           c == Digit[r + 1]
           u == Append(t, c)
<1>1. q \in Nat /\ r \in 0 .. 9 /\ k = 10 * q + r
  BY Tenth
<1>2. IsText(t, q)
  OBVIOUS
<1> HIDE DEF q, r
<1>3. c \in DigitSet
  BY <1>1, DigitFacts
<1>4. Reads(u, k)
  <2>1. t \in Seq(DigitSet) /\ Reads(t, q)
    BY <1>2 DEF IsText
  <2>2. Reads(Append(t, Digit[r + 1]), 10 * q + r)
    BY <1>1, <2>1, ReadsDigit
  <2> QED
    BY <1>1, <2>2
<1> HIDE DEF c
<1>5. u \in Seq(DigitSet) /\ Len(u) = Len(t) + 1 /\ Len(t) \in Nat
  BY <1>2, <1>3, AppendProperties, LenProperties DEF IsText
<1> HIDE DEF u
<1>6. ASSUME NEW d \in 1 .. SizeDigits, k < 10 ^ d PROVE Len(u) <= d
  <2>1. SizeDigits \in Nat
    BY HeaderAssumption DEF HeaderAssumption
  <2>2. d # 1
    BY <1>6, TensAssumption DEF TensAssumption
  <2> DEFINE e == d - 1
  <2>3. e \in 1 .. SizeDigits - 1 /\ e \in 1 .. SizeDigits /\ e + 1 = d
    BY <2>1, <2>2
  <2> HIDE DEF e
  <2>4. 10 ^ d = 10 * 10 ^ e /\ 10 ^ e \in Nat
    BY <2>3, TensAssumption DEF TensAssumption
  <2> DEFINE x == 10 ^ e
  <2>5. x \in Nat /\ k < 10 * x
    BY <1>6, <2>4
  <2> HIDE DEF x
  <2>6. q < x
    BY <1>1, <2>5
  <2>7. Len(t) <= e
    BY <1>2, <2>3, <2>6 DEF IsText, x
  <2> QED
    BY <1>5, <2>3, <2>7
<1>7. IsText(u, k)
  BY <1>4, <1>5, <1>6 DEF IsText
<1> QED
  BY <1>7 DEF u, c, r

\* printf's text reads as the number, and is short enough if the number is.
LEMMA DecimalIsText ==
  ASSUME NEW number \in Nat
  PROVE  IsText(Decimal(number), number)
<1> DEFINE Is(g) == g = [k \in 0 .. number |-> Printed(g, k)]
           text == CHOOSE g : Is(g)
           bad == {k \in 0 .. number : ~IsText(text[k], k)}
<1>1. Decimal(number) = text[number]
  BY DEF Decimal, Printed
<1>2. Is(text)
  <2>1. \E g : Is(g)
    BY PrintedExists
  <2> HIDE DEF Is
  <2> QED
    BY <2>1
<1> HIDE DEF text
<1>3. \A k \in 0 .. number : text[k] = Printed(text, k)
  BY <1>2, Zenon
<1>4. SUFFICES ASSUME bad # {} PROVE FALSE
  <2>1. number \in 0 .. number
    OBVIOUS
  <2> QED
    BY <1>1, <1>4, <2>1
<1>5. PICK k \in bad : \A e \in bad : k <= e
  <2>1. bad \subseteq Nat
    OBVIOUS
  <2> HIDE DEF bad
  <2> QED
    BY <1>4, <2>1, Least
<1>6. k \in 0 .. number /\ k \in Nat /\ ~IsText(text[k], k)
  OBVIOUS
<1>7. CASE k < 10
  <2>1. k \in 0 .. 9
    BY <1>6, <1>7
  <2>2. text[k] = <<Digit[k + 1]>>
    BY <1>3, <1>6, <1>7 DEF Printed
  <2> QED
    BY <1>6, <2>1, <2>2, ShortText
<1>8. CASE ~(k < 10)
  <2> DEFINE q == k \div 10
  <2>1. q \in Nat /\ q < k
    BY <1>6, <1>8, Tenth
  <2>2. text[k] = Append(text[q], Digit[(k % 10) + 1])
    BY <1>3, <1>6, <1>8 DEF Printed
  <2>3. IsText(text[q], k \div 10)
    <3> HIDE DEF q
    <3>1. q \notin bad /\ q \in 0 .. number
      BY <1>5, <1>6, <2>1
    <3> QED
      BY <3>1 DEF q
  <2>4. IsText(Append(text[q], Digit[(k % 10) + 1]), k)
    <3> DEFINE t == text[q]
    <3>1. IsText(t, k \div 10)
      BY <2>3
    <3> HIDE DEF t
    <3>2. IsText(Append(t, Digit[(k % 10) + 1]), k)
      BY <1>6, <1>8, <3>1, LongerText
    <3> QED
      BY <3>2 DEF t
  <2> QED
    BY <1>6, <2>2, <2>4
<1> QED
  BY <1>7, <1>8

-----------------------------------------------------------------------------
(* Block 0: the text sent and the fields taken out of it. *)

Blank == " "
Characters == STRING \cup DigitSet \cup {NUL, Blank, "0", "6"}

\* A text up to the first character that stops it.
LEMMA UntilStop ==
  ASSUME NEW t, NEW stops, NEW m \in Nat, m + 1 \in DOMAIN t, DOMAIN t \subseteq Nat,
         t[m + 1] \in stops, \A i \in 1 .. m : t[i] \notin stops, 0 \notin DOMAIN t
  PROVE  Until(t, stops) = SubSeq(t, 1, m)
<1> DEFINE ends == {i \in DOMAIN t : t[i] \in stops}
           least == CHOOSE i \in ends : \A j \in ends : i <= j
<1>1. m + 1 \in ends
  OBVIOUS
<1>2. ASSUME NEW j \in ends PROVE m + 1 <= j
  <2>1. j \in Nat /\ j # 0 /\ j \notin 1 .. m
    OBVIOUS
  <2> QED
    BY <2>1
<1>3. \A i \in ends : i \in Nat
  OBVIOUS
<1>4. Until(t, stops) = IF ends = {} THEN t ELSE SubSeq(t, 1, least - 1)
  BY DEF Until
<1> HIDE DEF ends
<1>5. least \in ends /\ \A j \in ends : least <= j
  BY <1>1, <1>2
<1>6. least = m + 1
  BY <1>1, <1>2, <1>3, <1>5
<1>7. least - 1 = m
  <2> HIDE DEF least
  <2> QED
    BY <1>6
<1> QED
  BY <1>1, <1>4, <1>7

\* A text cut to a length begins as it did, and is whole if it was no longer.
LEMMA CutFacts ==
  ASSUME NEW S, NEW t \in Seq(S), NEW length \in Nat
  PROVE  /\ Cut(t, length) \in Seq(S) /\ Len(Cut(t, length)) <= length
         /\ Len(Cut(t, length)) <= Len(t)
         /\ \A i \in 1 .. Len(Cut(t, length)) : Cut(t, length)[i] = t[i]
         /\ Len(t) <= length => Cut(t, length) = t
<1> DEFINE m == IF Len(t) < length THEN Len(t) ELSE length
           u == SubSeq(t, 1, m)
<1>1. /\ Len(t) \in Nat /\ m \in Nat /\ m <= length /\ m <= Len(t)
      /\ Len(t) <= length => m = Len(t)
      /\ \A i \in 1 .. m : t[i] \in S
  BY LenProperties, ElementOfSeq
<1>2. Cut(t, length) = u
  BY DEF Cut
<1> HIDE DEF m
<1>3. /\ u \in Seq(S) /\ Len(u) = IF 1 <= m THEN m - 1 + 1 ELSE 0
      /\ \A i \in 1 .. m - 1 + 1 : u[i] = t[1 + i - 1]
  BY <1>1, SubSeqProperties
<1>4. Len(u) = m /\ \A i \in 1 .. m : u[i] = t[i]
  <2>1. (IF 1 <= m THEN m - 1 + 1 ELSE 0) = m /\ m - 1 + 1 = m /\ \A i \in 1 .. m : 1 + i - 1 = i
    BY <1>1
  <2> QED
    BY <1>3, <2>1
<1>5. ASSUME Len(t) <= length PROVE u = t
  BY <1>1, <1>5, SubSeqFull
<1> HIDE DEF u
<1> QED
  BY <1>1, <1>2, <1>3, <1>4, <1>5

\* A text laid out as two parts a and b with a character behind each.
LaidOut(T, a, x, b, y) ==
  /\ Len(T) \in Nat /\ DOMAIN T = 1 .. Len(T) /\ Len(a) + 1 + Len(b) + 1 <= Len(T)
  /\ \A i \in 1 .. Len(a) : T[i] = a[i]
  /\ T[Len(a) + 1] = x
  /\ \A i \in 1 .. Len(b) : T[Len(a) + 1 + i] = b[i]
  /\ T[Len(a) + 1 + Len(b) + 1] = y

\* The payload of block 0 has its size, and zero bytes behind the text.
LEMMA ZeroFilledFacts ==
  ASSUME NEW text
  PROVE  /\ DOMAIN ZeroFilled(text) = 1 .. HeaderSize /\ Len(ZeroFilled(text)) = HeaderSize
         /\ \A i \in 1 .. HeaderSize :
              ZeroFilled(text)[i] = IF i <= Len(text) THEN text[i] ELSE NUL
<1> DEFINE T == ZeroFilled(text)
           C == {IF i <= Len(text) THEN text[i] ELSE NUL : i \in 1 .. HeaderSize}
<1>1. T \in [1 .. HeaderSize -> C] /\ HeaderSize \in Nat
  BY HeaderAssumption DEF HeaderAssumption, ZeroFilled
<1>2. T \in Seq(C)
  BY <1>1, SeqDef
<1>3. DOMAIN T = 1 .. HeaderSize /\ Len(T) = HeaderSize
  BY <1>1, <1>2, LenProperties
<1> QED
  BY <1>3 DEF ZeroFilled

\* Where the parts of block 0 stand.
LEMMA Block0LaidOut ==
  ASSUME NEW a \in Seq(Characters), Len(a) <= NameMax,
         NEW b \in Seq(Characters), Len(b) <= SizeDigits
  PROVE  LaidOut(ZeroFilled(a \o <<NUL>> \o (b \o <<Blank, "0", "6", "0", "0", NUL>>)), a, NUL, b, Blank)
<1> DEFINE C == Characters
           mode == <<Blank, "0", "6", "0", "0", NUL>>
           z == <<NUL>>
           l == a \o z
           r == b \o mode
           text == l \o r
           m == Len(a)
           p == Len(b)
           T == ZeroFilled(text)
<1>1. z \in Seq(C) /\ Len(z) = 1 /\ z[1] = NUL
  BY DEF Characters
<1>2. mode \in Seq(C) /\ Len(mode) = 6 /\ mode[1] = Blank
  BY DEF Characters
<1> HIDE DEF C, z, mode
<1>3. a \in Seq(C) /\ b \in Seq(C)
  BY DEF C
<1>4. m \in Nat /\ p \in Nat /\ HeaderSize \in Nat /\ m + 1 + (p + 6) <= HeaderSize
  BY LenProperties, HeaderAssumption DEF HeaderAssumption
<1>5. /\ l \in Seq(C) /\ Len(l) = m + 1
      /\ \A i \in 1 .. m + 1 : l[i] = IF i <= m THEN a[i] ELSE z[i - m]
  <2>1. /\ l \in Seq(C) /\ Len(l) = Len(a) + Len(z)
        /\ \A i \in 1 .. Len(a) + Len(z) :
             l[i] = IF i <= Len(a) THEN a[i] ELSE z[i - Len(a)]
    BY <1>1, <1>3, ConcatProperties
  <2> HIDE DEF l
  <2> QED
    BY <2>1, <1>1
<1>6. /\ r \in Seq(C) /\ Len(r) = p + 6
      /\ \A i \in 1 .. p + 6 : r[i] = IF i <= p THEN b[i] ELSE mode[i - p]
  <2>1. /\ r \in Seq(C) /\ Len(r) = Len(b) + Len(mode)
        /\ \A i \in 1 .. Len(b) + Len(mode) :
             r[i] = IF i <= Len(b) THEN b[i] ELSE mode[i - Len(b)]
    BY <1>2, <1>3, ConcatProperties
  <2> HIDE DEF r
  <2> QED
    BY <2>1, <1>2
<1> HIDE DEF l, r, m, p
<1>7. /\ Len(text) = m + 1 + (p + 6)
      /\ \A i \in 1 .. m + 1 + (p + 6) : text[i] = IF i <= m + 1 THEN l[i] ELSE r[i - (m + 1)]
  <2>1. /\ text \in Seq(C) /\ Len(text) = Len(l) + Len(r)
        /\ \A i \in 1 .. Len(l) + Len(r) :
             text[i] = IF i <= Len(l) THEN l[i] ELSE r[i - Len(l)]
    BY <1>5, <1>6, ConcatProperties
  <2> HIDE DEF text
  <2> QED
    BY <2>1, <1>5, <1>6
<1> HIDE DEF text
<1>8. /\ DOMAIN T = 1 .. HeaderSize /\ Len(T) = HeaderSize
      /\ \A i \in 1 .. HeaderSize : T[i] = IF i <= m + 1 + (p + 6) THEN text[i] ELSE NUL
  BY <1>7, ZeroFilledFacts
<1> HIDE DEF T
<1>9. \A i \in 1 .. m + 1 + (p + 6) : T[i] = IF i <= m + 1 THEN l[i] ELSE r[i - (m + 1)]
  BY <1>4, <1>7, <1>8
<1>10. \A i \in 1 .. m : T[i] = a[i]
  <2>1. \A i \in 1 .. m : i \in 1 .. m + 1 + (p + 6) /\ i <= m + 1 /\ i \in 1 .. m + 1 /\ i <= m
    BY <1>4
  <2> QED
    BY <1>5, <1>9, <2>1
<1>11. T[m + 1] = NUL
  <2>1. m + 1 \in 1 .. m + 1 + (p + 6) /\ m + 1 <= m + 1 /\ m + 1 \in 1 .. m + 1
        /\ ~(m + 1 <= m) /\ (m + 1) - m = 1
    BY <1>4
  <2> QED
    BY <1>1, <1>5, <1>9, <2>1
<1>12. \A i \in 1 .. p : T[m + 1 + i] = b[i]
  <2>1. \A i \in 1 .. p : m + 1 + i \in 1 .. m + 1 + (p + 6) /\ ~(m + 1 + i <= m + 1)
                          /\ (m + 1 + i) - (m + 1) = i /\ i \in 1 .. p + 6 /\ i <= p
    BY <1>4
  <2> QED
    BY <1>6, <1>9, <2>1
<1>13. T[m + 1 + p + 1] = Blank
  <2>1. m + 1 + p + 1 \in 1 .. m + 1 + (p + 6) /\ ~(m + 1 + p + 1 <= m + 1)
        /\ (m + 1 + p + 1) - (m + 1) = p + 1 /\ p + 1 \in 1 .. p + 6 /\ ~(p + 1 <= p) /\ (p + 1) - p = 1
    BY <1>4
  <2> QED
    BY <1>2, <1>6, <1>9, <2>1
<1>14. m + 1 + p + 1 <= HeaderSize
  BY <1>4
<1>15. LaidOut(T, a, NUL, b, Blank)
  BY <1>4, <1>8, <1>10, <1>11, <1>12, <1>13, <1>14 DEF LaidOut, m, p
<1> QED
  BY <1>15 DEF T, text, l, r, z, mode

\* What get_block makes of such a text.
LEMMA LayoutParsed ==
  ASSUME NEW T, NEW a \in Seq(Characters), Len(a) <= NameMax, \A i \in 1 .. Len(a) : a[i] # NUL,
         NEW b \in Seq(Characters), Len(b) <= SizeDigits, \A i \in 1 .. Len(b) : b[i] # Blank,
         LaidOut(T, a, NUL, b, Blank)
  PROVE  ParseHeader(T).filename = a /\ ParseHeader(T).filesize = Number(b)
<1> DEFINE m == Len(a)
           p == Len(b)
           N == Len(T)
           R == SubSeq(T, m + 1 + 1, N)
<1>1. m \in Nat /\ p \in Nat /\ N \in Nat /\ m + 1 + p + 1 <= N
  BY LenProperties DEF LaidOut
<1>2. NameMax \in Nat /\ SizeDigits \in Nat
  BY HeaderAssumption DEF HeaderAssumption
<1>3. /\ DOMAIN T = 1 .. N /\ T[m + 1] = NUL /\ T[m + 1 + p + 1] = Blank
      /\ \A i \in 1 .. m : T[i] = a[i]
      /\ \A i \in 1 .. p : T[m + 1 + i] = b[i]
  BY DEF LaidOut
<1>4. /\ \A i \in 1 .. m : a[i] \in Characters /\ a[i] # NUL
      /\ \A i \in 1 .. p : b[i] \in Characters /\ b[i] # Blank
  BY ElementOfSeq
<1> HIDE DEF N, m, p
<1>5. Until(T, {NUL}) = SubSeq(T, 1, m)
  <2>1. m + 1 \in DOMAIN T /\ DOMAIN T \subseteq Nat /\ 0 \notin DOMAIN T
    BY <1>1, <1>3
  <2>2. \A i \in 1 .. m : T[i] \notin {NUL}
    BY <1>3, <1>4
  <2>3. T[m + 1] \in {NUL}
    BY <1>3
  <2> QED
    BY <1>1, <2>1, <2>2, <2>3, UntilStop
<1>6. SubSeq(T, 1, m) = a
  <2> DEFINE u == SubSeq(T, 1, m)
  <2>1. 1 \in Int /\ m \in Int /\ \A i \in 1 .. m : T[i] \in Characters
    BY <1>1, <1>3, <1>4
  <2>2. /\ u \in Seq(Characters) /\ Len(u) = IF 1 <= m THEN m - 1 + 1 ELSE 0
        /\ \A i \in 1 .. m - 1 + 1 : u[i] = T[1 + i - 1]
    BY <2>1, SubSeqProperties
  <2>3. (IF 1 <= m THEN m - 1 + 1 ELSE 0) = m /\ m - 1 + 1 = m /\ \A i \in 1 .. m : 1 + i - 1 = i
    BY <1>1
  <2> HIDE DEF u
  <2>4. Len(u) = m /\ \A i \in 1 .. m : u[i] = a[i]
    BY <1>3, <2>2, <2>3
  <2>5. u = a
    BY <2>2, <2>4, SeqEqual DEF m
  <2> QED
    BY <2>5 DEF u
<1>7. /\ Len(R) = N - (m + 1) /\ DOMAIN R = 1 .. N - (m + 1)
      /\ \A i \in 1 .. N - (m + 1) : R[i] = T[m + 1 + i]
  <2> DEFINE C == {T[i] : i \in 1 .. N}
             b0 == m + 1 + 1
  <2>1. /\ b0 \in Int /\ N \in Int /\ (\A i \in b0 .. N : i \in 1 .. N)
        /\ (IF b0 <= N THEN N - b0 + 1 ELSE 0) = N - (m + 1) /\ N - b0 + 1 = N - (m + 1)
        /\ \A i \in 1 .. N - (m + 1) : b0 + i - 1 = m + 1 + i
    BY <1>1
  <2>2. \A i \in b0 .. N : T[i] \in C
    BY <2>1
  <2> HIDE DEF b0, C
  <2>3. /\ SubSeq(T, b0, N) \in Seq(C) /\ Len(SubSeq(T, b0, N)) = IF b0 <= N THEN N - b0 + 1 ELSE 0
        /\ \A i \in 1 .. N - b0 + 1 : SubSeq(T, b0, N)[i] = T[b0 + i - 1]
    BY <2>1, <2>2, SubSeqProperties
  <2>4. R = SubSeq(T, b0, N)
    BY DEF b0
  <2> HIDE DEF R
  <2> QED
    BY <2>1, <2>3, <2>4, LenProperties
<1> HIDE DEF R
<1>8. \A i \in 1 .. p : R[i] = b[i]
  <2>1. \A i \in 1 .. p : i \in 1 .. N - (m + 1)
    BY <1>1
  <2> QED
    BY <1>3, <1>7, <2>1
<1>9. R[p + 1] = Blank /\ p + 1 \in DOMAIN R
  <2>1. p + 1 \in 1 .. N - (m + 1) /\ m + 1 + (p + 1) = m + 1 + p + 1
    BY <1>1
  <2> QED
    BY <1>3, <1>7, <2>1
<1>10. Until(R, {Blank}) = SubSeq(R, 1, p)
  <2>1. DOMAIN R \subseteq Nat /\ 0 \notin DOMAIN R
    BY <1>1, <1>7
  <2>2. \A i \in 1 .. p : R[i] \notin {Blank}
    BY <1>4, <1>8
  <2>3. R[p + 1] \in {Blank}
    BY <1>9
  <2> QED
    BY <1>1, <1>9, <2>1, <2>2, <2>3, UntilStop
<1>11. SubSeq(R, 1, p) = b
  <2> DEFINE u == SubSeq(R, 1, p)
  <2>1. 1 \in Int /\ p \in Int /\ \A i \in 1 .. p : R[i] \in Characters
    BY <1>1, <1>4, <1>8
  <2>2. /\ u \in Seq(Characters) /\ Len(u) = IF 1 <= p THEN p - 1 + 1 ELSE 0
        /\ \A i \in 1 .. p - 1 + 1 : u[i] = R[1 + i - 1]
    BY <2>1, SubSeqProperties
  <2>3. (IF 1 <= p THEN p - 1 + 1 ELSE 0) = p /\ p - 1 + 1 = p /\ \A i \in 1 .. p : 1 + i - 1 = i
    BY <1>1
  <2> HIDE DEF u
  <2>4. Len(u) = p /\ \A i \in 1 .. p : u[i] = b[i]
    BY <1>8, <2>2, <2>3
  <2>5. u = b
    BY <2>2, <2>4, SeqEqual DEF p
  <2> QED
    BY <2>5 DEF u
<1>12. Cut(a, NameMax) = a /\ Cut(b, SizeDigits) = b
  BY <1>2, CutFacts
<1>13. SubSeq(T, Len(a) + 1 + 1, Len(T)) = R
  BY DEF R, m, N
<1>14. Cut(Until(T, {NUL}), NameMax) = a /\ Len(Until(T, {NUL})) = Len(a)
  BY <1>5, <1>6, <1>12
<1>15. Cut(Until(SubSeq(T, Len(a) + 1 + 1, Len(T)), {" "}), SizeDigits) = b
  BY <1>10, <1>11, <1>12, <1>13, Zenon DEF Blank
<1>16. ParseHeader(T) = [filename |-> a, filesize |-> Number(b)]
  BY <1>14, <1>15, Zenon DEF ParseHeader
<1> DEFINE number == Number(b)
<1> HIDE DEF number
<1>17. [filename |-> a, filesize |-> number].filename = a
       /\ [filename |-> a, filesize |-> number].filesize = number
  OBVIOUS
<1> QED
  BY <1>16, <1>17, Zenon DEF number

\* A text of some characters is one of more.
LEMMA WiderSeq ==
  ASSUME NEW S, NEW R, S \subseteq R, NEW t \in Seq(S)
  PROVE  t \in Seq(R)
<1>1. t \in [1 .. Len(t) -> S] /\ Len(t) \in Nat
  BY LenProperties
<1>2. t \in [1 .. Len(t) -> R]
  BY <1>1
<1> QED
  BY <1>1, <1>2, SeqDef

\* A name comes back as far as there is room, a size if 32 bits hold it.
LEMMA HeaderRead ==
  ASSUME NEW name \in Seq(STRING), \A i \in 1 .. Len(name) : name[i] # NUL, NEW size \in Nat
  PROVE  /\ ParseHeader(Block0Text(name, size)).filename = Cut(name, NameMax)
         /\ size < SizeCount => ParseHeader(Block0Text(name, size)).filesize = size
<1> DEFINE a == Cut(name, NameMax)
           low == size % SizeCount
           b == Decimal(low)
           T == ZeroFilled(a \o <<NUL>> \o (b \o <<Blank, "0", "6", "0", "0", NUL>>))
<1>1. /\ NameMax \in Nat /\ SizeDigits \in Nat \ {0} /\ SizeCount \in Nat \ {0}
      /\ SizeCount <= 10 ^ SizeDigits /\ 10 ^ SizeDigits \in Nat
  BY HeaderAssumption, TensAssumption DEF HeaderAssumption, TensAssumption
<1>2. /\ a \in Seq(STRING) /\ Len(a) <= NameMax /\ Len(a) <= Len(name)
      /\ \A i \in 1 .. Len(a) : a[i] = name[i]
  BY <1>1, CutFacts
<1>3. a \in Seq(Characters)
  BY <1>2, WiderSeq DEF Characters
<1>4. \A i \in 1 .. Len(a) : a[i] # NUL
  <2>1. Len(a) \in Nat /\ Len(name) \in Nat
    BY <1>2, LenProperties
  <2>2. \A i \in 1 .. Len(a) : i \in 1 .. Len(name)
    BY <1>2, <2>1
  <2> QED
    BY <1>2, <2>2
<1> HIDE DEF a
<1>5. low \in Nat /\ low < SizeCount /\ (size < SizeCount => low = size)
  BY <1>1
<1> HIDE DEF low
<1>6. b \in Seq(DigitSet) /\ Reads(b, low) /\ Len(b) <= SizeDigits
  <2>1. IsText(Decimal(low), low)
    BY <1>5, DecimalIsText
  <2>2. SizeDigits \in 1 .. SizeDigits
    BY <1>1
  <2> DEFINE x == 10 ^ SizeDigits
  <2>3. low < x
    <3>1. x \in Nat /\ SizeCount <= x
      BY <1>1
    <3> HIDE DEF x
    <3> QED
      BY <1>1, <1>5, <3>1
  <2> QED
    BY <2>1, <2>2, <2>3 DEF IsText
<1> HIDE DEF b
<1>7. Number(b) = low
  BY <1>6, NumberReads
<1>8. b \in Seq(Characters)
  BY <1>6, WiderSeq DEF Characters
<1>9. \A i \in 1 .. Len(b) : b[i] # Blank
  <2>1. Blank \notin DigitSet
    BY DigitFacts, Zenon DEF Blank
  <2>2. \A i \in 1 .. Len(b) : b[i] \in DigitSet
    BY <1>6, ElementOfSeq
  <2> QED
    BY <2>1, <2>2
<1>10. LaidOut(T, a, NUL, b, Blank)
  BY <1>2, <1>3, <1>6, <1>8, Block0LaidOut
<1>11. Block0Text(name, size) = T
  BY Zenon DEF Block0Text, SizeAndMode, Blank, a, b, low
<1> HIDE DEF T
<1>12. ParseHeader(T).filename = a /\ ParseHeader(T).filesize = Number(b)
  BY <1>2, <1>3, <1>4, <1>6, <1>8, <1>9, <1>10, LayoutParsed
<1> QED
  BY <1>5, <1>7, <1>11, <1>12 DEF a

-----------------------------------------------------------------------------
(* The whole program. *)

ProgramTypes ==
  /\ typed \in Seq(Words) /\ host \in Hosts
  /\ phase \in {"options", "detect", "open", "files", "sending", "receiving", "ended"}

\* Until getopt has said that the options end, every operand met is kept in
\* front of what is still to be read.
OptionLoop ==
  phase = "options" => Scanning(scan, Words, typed, Optstring, Ordering) /\ scan.opt # "end"

\* The session is empty until files are read into it, and they are the operands.
SessionKept ==
  /\ pc = "idle" => n = 0 /\ files = <<>> /\ spilled = FALSE
  /\ pc # "idle" => Inv /\ filenames \in Seq(Words)
  /\ phase # "sending" => pc = "idle"

ProgramInv == ProgramTypes /\ OptionLoop /\ FilesInOrder /\ AutodetectedIsOnly /\ SessionKept

\* Neither utility has an option called like what getopt returns at the end.
LEMMA OptionStrings ==
  /\ "end" \notin DOMAIN Optstring /\ "?" \notin DOMAIN Optstring
  /\ Ordering \in {"PERMUTE", "REQUIRE_ORDER"}
  BY DEF Optstring, AgonOptions, PcOptions, Ordering, AgonOrdering, SystemOrdering

\* Before the first call nothing is read and nothing met.
LEMMA StartIsMet ==
  ASSUME NEW words \in Seq(Words), NEW optstring, NEW ordering
  PROVE  /\ Scanning(ScanStart(words), Words, words, optstring, ordering)
         /\ ScanStart(words).opt # "end"
<1> DEFINE s == ScanStart(words)
<1>1. /\ s.argv = words /\ s.optind = 1 /\ s.first_nonopt = 1 /\ s.last_nonopt = 1
      /\ s.nextchar = <<>> /\ s.opt = "none"
  BY DEF ScanStart
<1>2. s \in Scans(Words)
  <2>1. <<>> \in Seq(STRING)
    BY EmptySeq
  <2> QED
    BY <2>1 DEF ScanStart, Scans
<1> HIDE DEF s
<1>3. Len(words) \in Nat
  BY LenProperties
<1>4. Ahead(s, words)
  BY <1>1, <1>3 DEF Ahead
<1>5. /\ Reading(words, optstring, ordering)[0] = "free"
      /\ Collected(words, optstring, ordering)[0] = <<>>
  BY ReadingIs, CollectedIs
<1>6. SubSeq(words, 1, 0) = <<>>
  BY SubSeqEmpty
<1>7. Met(s, words, optstring, ordering)
  <2>1. s.optind - 1 = 0 /\ s.last_nonopt - 1 = 0
    BY <1>1
  <2> QED
    BY <1>1, <1>4, <1>5, <1>6, <2>1 DEF Met
<1> QED
  BY <1>1, <1>2, <1>7 DEF Scanning, s

LEMMA ProgramInitially == ProgramInit => ProgramInv
<1> SUFFICES ASSUME ProgramInit PROVE ProgramInv
  OBVIOUS
<1>1. PICK k \in 0 .. MaxWords : typed \in [1 .. k -> Words]
  BY DEF ProgramInit
<1>2. typed \in Seq(Words)
  BY <1>1, ProgramAssumption, CommandLine DEF ProgramAssumption
<1>3. ProgramTypes
  BY <1>2 DEF ProgramTypes, ProgramInit
<1>4. OptionLoop
  BY <1>2, StartIsMet DEF ProgramInit, OptionLoop
<1> QED
  BY <1>3, <1>4 DEF ProgramInv, ProgramInit, FilesInOrder, OptionsOver, AutodetectedIsOnly, SessionKept

\* What main takes from a call of getopt.
LEMMA OptionStep ==
  ASSUME ProgramInv, Option
  PROVE  ProgramInv'
<1> DEFINE u == GetoptCall(scan, Optstring, Ordering)
<1>1. /\ phase = "options" /\ scan' = u
      /\ DeviceOption(u) \/ BaudOption(u) \/ ModeOption(u) \/ Usage(u) \/ OptionsEnd(u)
      /\ UNCHANGED <<host, typed, attached, dir, session>>
  BY DEF Option
<1>2. UNCHANGED <<pc, filenames, n, files, spilled>> /\ Optstring' = Optstring /\ Ordering' = Ordering
  BY <1>1 DEF session, Optstring, Ordering, AgonOrdering, SystemOrdering
<1>3. /\ u \in Scans(Words)
      /\ \/ Finished(u, typed, Optstring, Ordering)
         \/ u.opt = "?"
         \/ Scanning(u, Words, typed, Optstring, Ordering) /\ u.opt \in DOMAIN Optstring
  BY <1>1, OptionStrings, WordsAssumption, CallScans DEF ProgramInv, ProgramTypes, OptionLoop,
     WordsAssumption
<1> HIDE DEF u
<1>4. ProgramTypes'
  BY <1>1 DEF ProgramInv, ProgramTypes, DeviceOption, BaudOption, ModeOption, Usage, OptionsEnd
<1>5. CASE DeviceOption(u) \/ BaudOption(u) \/ ModeOption(u)
  <2>1. u.opt \in {"d", "b", "s", "r"} /\ phase' = "options"
    BY <1>1, <1>5 DEF DeviceOption, BaudOption, ModeOption
  <2>2. Scanning(u, Words, typed, Optstring, Ordering) /\ u.opt # "end"
    BY <1>3, <2>1 DEF Finished
  <2> QED
    BY <1>1, <1>2, <1>4, <2>1, <2>2 DEF ProgramInv, OptionLoop, FilesInOrder, OptionsOver,
       AutodetectedIsOnly, SessionKept, Inv, Types, InOrder, FirstBuffer, ReadyAtEnd, Size
<1>6. CASE Usage(u)
  <2>1. phase' = "ended"
    BY <1>6 DEF Usage
  <2> QED
    BY <1>1, <1>2, <1>4, <2>1 DEF ProgramInv, OptionLoop, FilesInOrder, OptionsOver,
       AutodetectedIsOnly, SessionKept, Inv, Types, InOrder, FirstBuffer, ReadyAtEnd, Size
<1>7. CASE OptionsEnd(u)
  <2>1. /\ u.opt = "end" /\ options' = options /\ phase' \in {"ended", "files", "detect", "open"}
        /\ phase' = "files" => host = "agon"
        /\ phase' = "open" => ~options.auto
    BY <1>7 DEF OptionsEnd
  <2>2. Finished(u, typed, Optstring, Ordering)
    BY <1>3, <2>1, OptionStrings
  <2>3. FilesInOrder'
    BY <1>1, <1>2, <2>2 DEF Finished, FilesInOrder, Remaining
  <2>4. AutodetectedIsOnly'
    BY <1>1, <2>1 DEF AutodetectedIsOnly
  <2> QED
    BY <1>1, <1>2, <1>4, <2>1, <2>3, <2>4 DEF ProgramInv, OptionLoop, SessionKept, Inv, Types,
       InOrder, FirstBuffer, ReadyAtEnd, Size
<1> QED
  BY <1>1, <1>5, <1>6, <1>7

\* A device nobody named.
LEMMA DetectStep ==
  ASSUME ProgramInv, Detect
  PROVE  AutodetectedIsOnly'
<1> DEFINE found == SerialAutodetect(host, attached')
           looked == FirstOf(NodesOf(attached'), Scratch)
<1> SUFFICES ASSUME phase' = "open"
             PROVE  \E i \in looked : /\ options'.device = attached'[i].node
                                      /\ {j \in looked : IsUsb(attached'[j])} = {i}
  BY DEF Detect, AutodetectedIsOnly
<1>1. Len(found) = 1 /\ options'.device = found[1].node /\ attached' \in Seq(Device)
  <2>1. /\ attached' \in Attachments
        /\ phase' = IF Len(found) = 1 THEN "open" ELSE "ended"
        /\ Len(found) = 1 => options' = [options EXCEPT !.device = found[1].node]
    <3> HIDE DEF found
    <3>1. /\ attached' \in Attachments
          /\ IF Len(found) = 1
             THEN options' = [options EXCEPT !.device = found[1].node] /\ phase' = "open"
             ELSE phase' = "ended" /\ UNCHANGED options
      BY DEF Detect, found
    <3> QED
      BY <3>1
  <2> HIDE DEF found
  <2>2. Len(found) = 1 /\ options' = [options EXCEPT !.device = found[1].node]
    BY <2>1
  <2>3. options'.device = found[1].node
    BY <2>2
  <2> QED
    BY <2>1, <2>2, <2>3, AttachmentsAssumption DEF AttachmentsAssumption
<1>2. PICK i \in looked :
        /\ IsUsb(attached'[i]) /\ found[1] = attached'[i]
        /\ \A j \in looked : IsUsb(attached'[j]) => j = i
  BY <1>1, FoundIsOnly
<1> HIDE DEF looked, found
<1>3. options'.device = attached'[i].node
  BY <1>1, <1>2
<1>4. {j \in looked : IsUsb(attached'[j])} = {i}
  BY <1>2
<1> QED
  BY <1>3, <1>4

\* A session that stands still, and command line and scan with it.
LEMMA PortSteps ==
  ASSUME ProgramInv, Detect \/ DetectFails \/ SerialOpen \/ SerialOpenFails
  PROVE  ProgramInv'
<1>1. /\ UNCHANGED <<host, typed, scan, dir, pc, filenames, n, files, spilled>>
      /\ phase \in {"detect", "open"} /\ phase' \in {"open", "files", "ended"}
  BY Zenon DEF Detect, DetectFails, SerialOpen, SerialOpenFails, session
<1>2. Optstring' = Optstring /\ Ordering' = Ordering /\ Remaining' = Remaining
  BY <1>1 DEF Optstring, Ordering, AgonOrdering, SystemOrdering, Remaining
<1>3. ProgramTypes' /\ OptionLoop'
  BY <1>1 DEF ProgramInv, ProgramTypes, OptionLoop
<1>4. FilesInOrder'
  BY <1>1, <1>2 DEF ProgramInv, FilesInOrder, OptionsOver
<1>5. SessionKept'
  BY <1>1 DEF ProgramInv, SessionKept, Inv, Types, InOrder, FirstBuffer, ReadyAtEnd, Size
<1>6. AutodetectedIsOnly'
  <2>1. CASE Detect
    BY <2>1, DetectStep
  <2>2. CASE SerialOpen
    BY <1>1, <2>2 DEF SerialOpen, ProgramInv, AutodetectedIsOnly
  <2>3. CASE DetectFails \/ SerialOpenFails
    BY <2>3 DEF DetectFails, SerialOpenFails, AutodetectedIsOnly
  <2> QED
    BY <2>1, <2>2, <2>3
<1> QED
  BY <1>3, <1>4, <1>5, <1>6 DEF ProgramInv

\* The operands go to the session as they are.
LEMMA OperandWords ==
  ASSUME ProgramInv, phase = "files"
  PROVE  Remaining \in Seq(Words)
<1>1. Remaining = Operands(typed, Optstring, Ordering)
  BY DEF ProgramInv, FilesInOrder, OptionsOver
<1>2. Len(typed) \in 0 .. Len(typed)
  BY LenProperties DEF ProgramInv, ProgramTypes
<1> QED
  BY <1>1, <1>2, CollectedIs DEF Operands, ProgramInv, ProgramTypes

\* What the options leave is sent, received to, or refused.
LEMMA FilesSteps ==
  ASSUME ProgramInv, StartSend \/ StartSendAgon \/ SendRefused \/ StartReceive \/ ReceiveRefused
  PROVE  ProgramInv'
<1>1. /\ UNCHANGED <<host, typed, scan, options, attached, n, files, spilled>>
      /\ phase = "files" /\ phase' \in {"sending", "receiving", "ended"}
  BY DEF StartSend, StartSendAgon, SendRefused, StartReceive, ReceiveRefused, AtFiles
<1>2. Optstring' = Optstring /\ Ordering' = Ordering /\ Remaining' = Remaining
  BY <1>1 DEF Optstring, Ordering, AgonOrdering, SystemOrdering, Remaining
<1>3. ProgramTypes' /\ OptionLoop'
  BY <1>1 DEF ProgramInv, ProgramTypes, OptionLoop
<1>4. FilesInOrder' /\ AutodetectedIsOnly'
  BY <1>1, <1>2 DEF ProgramInv, FilesInOrder, OptionsOver, AutodetectedIsOnly
<1>5. pc = "idle" /\ n = 0 /\ files = <<>> /\ spilled = FALSE
  BY <1>1 DEF ProgramInv, SessionKept
<1>6. CASE StartSend
  <2>1. pc' = "reading" /\ filenames' = Remaining /\ phase' = "sending" /\ Remaining \in Seq(Words)
    BY <1>1, <1>6, OperandWords DEF StartSend
  <2>2. filenames' \in Seq(Paths) /\ Len(filenames') \in Nat
    <3>1. Words \subseteq Paths
      BY WordsAssumption DEF WordsAssumption
    <3>2. \A i \in 1 .. Len(Remaining) : Remaining[i] \in Paths
      BY <2>1, <3>1, ElementOfSeq
    <3>3. Remaining \in [1 .. Len(Remaining) -> Words] /\ Len(Remaining) \in Nat
      BY <2>1, LenProperties
    <3>4. Remaining \in [1 .. Len(Remaining) -> Paths]
      BY <3>1, <3>3
    <3> QED
      BY <2>1, <3>3, <3>4, SeqDef
  <2>3. n' = 0 /\ files' = <<>> /\ spilled' = FALSE
    BY <1>1, <1>5
  <2>4. files' \in Seq(Announced) /\ Len(files') = 0 /\ 0 \in 0 .. Len(filenames') /\ 1 .. 0 = {}
    BY <2>2, <2>3, EmptySeq
  <2>5. Inv'
    <3>1. Types'
      BY <2>1, <2>2, <2>3, <2>4 DEF Types
    <3>2. InOrder'
      BY <2>3, <2>4 DEF InOrder
    <3>3. FirstBuffer' /\ ReadyAtEnd'
      BY <2>1, <2>3 DEF FirstBuffer, ReadyAtEnd
    <3> QED
      BY <3>1, <3>2, <3>3 DEF Inv
  <2>6. SessionKept'
    BY <2>1, <2>5 DEF SessionKept
  <2> QED
    BY <1>3, <1>4, <2>6 DEF ProgramInv
<1>7. CASE StartSendAgon \/ SendRefused \/ StartReceive \/ ReceiveRefused
  <2>1. pc' = pc
    BY <1>7 DEF StartSendAgon, SendRefused, StartReceive, ReceiveRefused
  <2>2. SessionKept'
    BY <1>1, <1>5, <2>1 DEF SessionKept
  <2> QED
    BY <1>3, <1>4, <2>2 DEF ProgramInv
<1> QED
  BY <1>6, <1>7

\* A step of readFiles.
LEMMA ReadFilesStep ==
  ASSUME ProgramInv, ReadFiles
  PROVE  ProgramInv'
<1>1. /\ UNCHANGED <<host, typed, scan, phase, options, attached, dir>> /\ Next /\ phase = "sending"
      /\ pc = "reading" /\ filenames' = filenames /\ pc' # "idle"
  <2>1. pc' # "idle"
    BY DEF ReadFiles, Next, ReadFile, Refuse, ReadAll
  <2> QED
    BY <2>1 DEF ReadFiles, Next, ReadFile, Refuse, ReadAll
<1>2. Optstring' = Optstring /\ Ordering' = Ordering /\ Remaining' = Remaining
  BY <1>1 DEF Optstring, Ordering, AgonOrdering, SystemOrdering, Remaining
<1>3. ProgramTypes' /\ OptionLoop'
  BY <1>1 DEF ProgramInv, ProgramTypes, OptionLoop
<1>4. FilesInOrder' /\ AutodetectedIsOnly'
  BY <1>1, <1>2 DEF ProgramInv, FilesInOrder, OptionsOver, AutodetectedIsOnly
<1>5. Inv'
  BY <1>1, Inductive DEF ProgramInv, SessionKept
<1>6. SessionKept'
  BY <1>1, <1>5 DEF ProgramInv, SessionKept
<1> QED
  BY <1>3, <1>4, <1>6 DEF ProgramInv

LEMMA ProgramInductive == ProgramInv /\ [ProgramNext]_pvars => ProgramInv'
<1> SUFFICES ASSUME ProgramInv, [ProgramNext]_pvars PROVE ProgramInv'
  OBVIOUS
<1>1. CASE Option
  BY <1>1, OptionStep
<1>2. CASE Detect \/ DetectFails \/ SerialOpen \/ SerialOpenFails
  BY <1>2, PortSteps
<1>3. CASE StartSend \/ StartSendAgon \/ SendRefused \/ StartReceive \/ ReceiveRefused
  BY <1>3, FilesSteps
<1>4. CASE ReadFiles
  BY <1>4, ReadFilesStep
<1>5. CASE UNCHANGED pvars
  <2>1. UNCHANGED <<host, typed, scan, phase, options, attached, dir, pc, filenames, n, files, spilled>>
    BY <1>5 DEF pvars, session
  <2>2. Optstring' = Optstring /\ Ordering' = Ordering /\ Remaining' = Remaining
    BY <2>1 DEF Optstring, Ordering, AgonOrdering, SystemOrdering, Remaining
  <2>3. ProgramTypes' /\ OptionLoop'
    BY <2>1, <2>2 DEF ProgramInv, ProgramTypes, OptionLoop
  <2>4. FilesInOrder' /\ AutodetectedIsOnly'
    BY <2>1, <2>2 DEF ProgramInv, FilesInOrder, OptionsOver, AutodetectedIsOnly
  <2>5. SessionKept'
    BY <2>1 DEF ProgramInv, SessionKept, Inv, Types, InOrder, FirstBuffer, ReadyAtEnd, Size
  <2> QED
    BY <2>3, <2>4, <2>5 DEF ProgramInv
<1> QED
  BY <1>1, <1>2, <1>3, <1>4, <1>5 DEF ProgramNext

LEMMA ProgramInvariance == ProgramSpec => []ProgramInv
  BY ProgramInitially, ProgramInductive, PTL DEF ProgramSpec

\* Whatever was typed, and however getopt exchanged it, main goes on with the
\* operands of the command line, all of them and in their order.
THEOREM OperandsReachMain == ProgramSpec => []FilesInOrder
<1>1. ProgramInv => FilesInOrder
  BY DEF ProgramInv
<1> QED
  BY <1>1, ProgramInvariance, PTL

\* A port opened without having been named is the only USB device among those
\* looked at, however many are attached.
THEOREM OnlyDeviceTaken == ProgramSpec => []AutodetectedIsOnly
<1>1. ProgramInv => AutodetectedIsOnly
  BY DEF ProgramInv
<1> QED
  BY <1>1, ProgramInvariance, PTL

\* Reached through main readFiles leaves in the session what it does by itself:
\* all of the operands announced, one of them as it is on the disk, and a write
\* past a buffer only by a file larger than the first.
THEOREM OperandsReadAsNamed == ProgramSpec => [](AllOrNothing /\ OneFileHeld /\ NoSpillBehindLargest)
<1>1. ASSUME ProgramInv PROVE AllOrNothing /\ OneFileHeld /\ NoSpillBehindLargest
  <2>1. CASE pc = "idle"
    BY <1>1, <2>1 DEF ProgramInv, SessionKept, AllOrNothing, OneFileHeld, NoSpillBehindLargest
  <2>2. CASE pc # "idle"
    BY <1>1, <2>2, InvAnnounces, InvHolds, InvSpills DEF ProgramInv, SessionKept
  <2> QED
    BY <2>1, <2>2
<1> QED
  BY <1>1, ProgramInvariance, PTL

\* The base name of a word is text without a zero byte, as the word is.
LEMMA BaseNames ==
  ASSUME NEW word \in Words
  PROVE  /\ AfterSlash(word) \in Seq(STRING) /\ Basename(word) = AfterSlash(word)
         /\ \A i \in 1 .. Len(AfterSlash(word)) : AfterSlash(word)[i] # NUL
<1> DEFINE N == Len(word)
           slashes == {i \in DOMAIN word : word[i] = "/"}
           last == CHOOSE i \in slashes : \A j \in slashes : i >= j
<1>1. /\ word \in Seq(STRING) /\ N \in Nat /\ DOMAIN word = 1 .. N
      /\ \A i \in 1 .. N : word[i] \in STRING /\ word[i] # NUL
  <2>1. word \in Seq(STRING) /\ \A i \in DOMAIN word : word[i] # NUL
    BY WordsAssumption DEF WordsAssumption
  <2> QED
    BY <2>1, LenProperties, ElementOfSeq
<1>2. Basename(word) = AfterSlash(word)
  BY WordsAssumption, BasenameAssumption DEF WordsAssumption, BasenameAssumption
<1>3. AfterSlash(word) = IF slashes = {} THEN word ELSE SubSeq(word, 1 + last, N)
  BY DEF AfterSlash
<1>4. CASE slashes = {}
  BY <1>1, <1>2, <1>3, <1>4
<1>5. CASE slashes # {}
  <2> DEFINE behind == {N - i : i \in slashes}
  <2>1. slashes \subseteq 1 .. N
    BY <1>1
  <2> HIDE DEF slashes
  <2>2. behind \subseteq Nat /\ behind # {}
    <3>1. \A i \in 1 .. N : N - i \in Nat
      BY <1>1
    <3>2. PICK i : i \in slashes
      BY <1>5
    <3> HIDE DEF N
    <3>3. N - i \in behind
      BY <3>2
    <3> QED
      BY <2>1, <3>1, <3>3
  <2>3. PICK d \in behind : \A e \in behind : d <= e
    <3> HIDE DEF behind
    <3> QED
      BY <2>2, Least
  <2>4. PICK i \in slashes : d = N - i
    BY <2>3
  <2>5. ASSUME NEW j \in slashes PROVE i >= j
    <3>1. i \in 1 .. N /\ j \in 1 .. N /\ N - j \in behind
      BY <2>1, <2>4
    <3>2. N - i <= N - j
      BY <2>3, <2>4, <3>1
    <3> QED
      BY <1>1, <3>1, <3>2
  <2>6. last \in slashes
    BY <2>4, <2>5
  <2> HIDE DEF last
  <2> DEFINE b == 1 + last
             u == SubSeq(word, b, N)
  <2>7. b \in Int /\ N \in Int /\ \A k \in b .. N : k \in 1 .. N
    BY <1>1, <2>1, <2>6
  <2>8. \A k \in b .. N : word[k] \in STRING \ {NUL}
    BY <1>1, <2>7
  <2> HIDE DEF b, N
  <2>9. u \in Seq(STRING \ {NUL})
    BY <2>7, <2>8, SubSeqProperties
  <2> HIDE DEF u
  <2>10. u \in Seq(STRING) /\ \A k \in 1 .. Len(u) : u[k] # NUL
    <3>1. \A k \in 1 .. Len(u) : u[k] \in STRING \ {NUL}
      BY <2>9, ElementOfSeq
    <3>2. STRING \ {NUL} \subseteq STRING
      OBVIOUS
    <3> QED
      BY <2>9, <3>1, <3>2, WiderSeq
  <2>11. AfterSlash(word) = u
    BY <1>3, <1>5 DEF u, b, N
  <2> QED
    BY <1>2, <2>10, <2>11
<1> QED
  BY <1>4, <1>5

\* A receiver reads in each block 0 the base name of the file typed, as far as
\* there is room, and its size if 32 bits hold it.
THEOREM HeadersArrive == ProgramSpec => []HeaderArrives
<1>1. ASSUME ProgramInv PROVE HeaderArrives
  <2> SUFFICES ASSUME pc = "ready", NEW i \in DOMAIN files
               PROVE  LET header == ParseHeader(Block0Text(files[i].filename, files[i].filesize))
                          size   == Len(Content(filenames[i]))
                      IN  /\ header.filename = Cut(AfterSlash(filenames[i]), NameMax)
                          /\ size < SizeCount => header.filesize = size
    BY Zenon DEF HeaderArrives
  <2> DEFINE word == filenames[i]
             name == AfterSlash(word)
             bytes == Len(Content(word))
  <2>1. Inv /\ filenames \in Seq(Words)
    BY <1>1 DEF ProgramInv, SessionKept
  <2>2. i \in 1 .. n /\ i \in 1 .. Len(filenames)
    BY <2>1, LenProperties DEF Inv, Types
  <2>3. word \in Words /\ word \in Paths
    BY <2>1, <2>2, ElementOfSeq, WordsAssumption DEF WordsAssumption
  <2>4. files[i].filename = Basename(word) /\ files[i].filesize = bytes
    BY <2>1, <2>2 DEF Inv, InOrder, Size
  <2>5. bytes \in Nat
    BY <2>3, ContentType
  <2> HIDE DEF word, bytes
  <2>6. name \in Seq(STRING) /\ Basename(word) = name /\ \A k \in 1 .. Len(name) : name[k] # NUL
    BY <2>3, BaseNames
  <2> HIDE DEF name
  <2>7. /\ ParseHeader(Block0Text(name, bytes)).filename = Cut(name, NameMax)
        /\ bytes < SizeCount => ParseHeader(Block0Text(name, bytes)).filesize = bytes
    BY <2>5, <2>6, HeaderRead
  <2> QED
    BY <2>4, <2>6, <2>7 DEF name, bytes, word
<1> QED
  BY <1>1, ProgramInvariance, PTL
=============================================================================
