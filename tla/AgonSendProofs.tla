---------------------------- MODULE AgonSendProofs ----------------------------
(***************************************************************************)
(* The conversation of send_files with the VDP, for any command line and   *)
(* any files.  Several files may be on the line at once; the invariant     *)
(* says where each of them begins there.                                   *)
(***************************************************************************)
EXTENDS AgonSend, SequenceTheorems, TLAPS

-----------------------------------------------------------------------------
(* What is on the line. *)

\* The symbols of the i-th file of a command line, and their number.
NameLen(list, i) == Len(Name(list[i]))
DataLen(list, i) == Len(Data(list[i]))
Size(list, i) == 4 + NameLen(list, i) + DataLen(list, i)

Symbol(list, i, k) ==
  LET named == 2 + NameLen(list, i) IN
  IF k = 1 THEN Len(list) - i + 1
  ELSE IF k = 2 THEN NameLen(list, i)
  ELSE IF k <= named THEN Name(list[i])[k - 2]
  ELSE IF k = named + 1 THEN DataLen(list, i)
  ELSE IF k < Size(list, i) THEN Data(list[i])[k - named - 1]
  ELSE Crc(Data(list[i]))

\* A line from after the o-th symbol of file g + 1 to the p-th of file f + 1,
\* and to the zero that ends a batch if end is 1: file i begins after start[i].
Placed(list, l, g, o, f, p, end, start) ==
  /\ start[g + 1] + o = 0
  /\ \A i \in g + 1 .. f : start[i + 1] = start[i] + Size(list, i)
  /\ Len(l) = start[f + 1] + p + end
  /\ \A i \in g + 1 .. f : \A k \in 1 .. Size(list, i) :
       /\ start[i] + k <= start[f + 1]
       /\ start[i] + k > 0 => l[start[i] + k] = Symbol(list, i, k)
  /\ \A k \in 1 .. p : start[f + 1] + k > 0 => l[start[f + 1] + k] = Symbol(list, f + 1, k)
  /\ end = 1 => p = 0 /\ l[Len(l)] = 0

Laid(list, l, g, o, f, p, end) ==
  /\ l \in Seq(Nat)
  /\ g \in 0 .. f /\ f \in 0 .. Len(list) /\ o \in Nat /\ p \in Nat /\ end \in {0, 1}
  /\ g = f => o <= p
  /\ \E start \in [1 .. Len(list) + 1 -> Int] : Placed(list, l, g, o, f, p, end, start)

FileList == Seq(Paths)

LEMMA Sizes ==
  ASSUME NEW list \in FileList, NEW i \in 1 .. Len(list)
  PROVE  /\ Name(list[i]) \in Seq(Nat) /\ Data(list[i]) \in Seq(Nat)
         /\ NameLen(list, i) \in Nat /\ DataLen(list, i) \in Nat /\ Size(list, i) \in Nat
         /\ Size(list, i) >= 4 /\ Crc(Data(list[i])) \in Nat
<1>1. list[i] \in Paths
  BY ElementOfSeq DEF FileList
<1> QED
  BY <1>1, FileAssumption DEF FileAssumption, NameLen, DataLen, Size

\* The beginning of the batch.
LEMMA LaidAtFirst ==
  ASSUME NEW list \in FileList
  PROVE  Laid(list, <<>>, 0, 0, 0, 0, 0)
<1> DEFINE start == [i \in 1 .. Len(list) + 1 |-> 0]
<1>1. start \in [1 .. Len(list) + 1 -> Int] /\ start[1] = 0
  BY LenProperties DEF FileList
<1>2. <<>> \in Seq(Nat) /\ Len(<<>>) = 0 /\ Len(list) \in Nat
  BY DEF FileList
<1> HIDE DEF start
<1> QED
  BY <1>1, <1>2 DEF Laid, Placed

\* The first symbol on the line is the next one to be taken.
LEMMA TakeSymbol ==
  ASSUME NEW list \in FileList, NEW l, NEW g, NEW o, NEW f, NEW p, NEW end,
         Laid(list, l, g, o, f, p, end), l # <<>>,
         g < f => o < Size(list, g + 1),
         end = 0 \/ g < f
  PROVE  /\ Head(l) = Symbol(list, g + 1, o + 1)
         /\ Laid(list, Tail(l), g, o + 1, f, p, end)
         /\ g = f => o < p
<1>1. /\ l \in Seq(Nat)
      /\ g \in 0 .. f /\ f \in 0 .. Len(list) /\ o \in Nat /\ p \in Nat /\ end \in {0, 1}
      /\ g = f => o <= p
  BY DEF Laid
<1>2. PICK start \in [1 .. Len(list) + 1 -> Int] : Placed(list, l, g, o, f, p, end, start)
  BY DEF Laid
<1>3. Len(list) \in Nat /\ Len(l) \in Nat /\ Len(l) >= 1
  BY <1>1, EmptySeq, LenProperties DEF FileList
<1>4. /\ Head(l) = l[1] /\ Tail(l) \in Seq(Nat) /\ Len(Tail(l)) = Len(l) - 1
      /\ \A k \in 1 .. Len(l) - 1 : Tail(l)[k] = l[k + 1]
  BY <1>1, <1>3, HeadTailProperties
<1>5. g = f => o < p
  BY <1>1, <1>2, <1>3 DEF Placed
<1>6. \A i \in g + 1 .. f + 1 : i \in 1 .. Len(list) + 1 /\ start[i] \in Int
  BY <1>1, <1>2, <1>3 DEF Placed
<1>9. /\ start[g + 1] + o = 0 /\ Len(l) = start[f + 1] + p + end
      /\ start[g + 1] \in Int /\ start[f + 1] \in Int
  <2>1. g + 1 \in g + 1 .. f + 1 /\ f + 1 \in g + 1 .. f + 1
    BY <1>1
  <2> QED
    BY <1>2, <1>6, <2>1 DEF Placed
<1>7. Head(l) = Symbol(list, g + 1, o + 1)
  <2>1. CASE g = f
    <3>1. o + 1 \in 1 .. p /\ start[f + 1] + (o + 1) = 1
      BY <1>1, <1>9, <1>5, <2>1
    <3>2. start[f + 1] + (o + 1) > 0
      BY <3>1
    <3>3. l[start[f + 1] + (o + 1)] = Symbol(list, f + 1, o + 1)
      BY <1>2, <3>1, <3>2 DEF Placed
    <3> QED
      BY <1>4, <2>1, <3>1, <3>3
  <2>2. CASE g < f
    <3>1. g + 1 \in 1 .. Len(list) /\ g + 1 \in g + 1 .. f
      BY <1>1, <1>3, <2>2
    <3>2. Size(list, g + 1) \in Nat
      BY <3>1, Sizes
    <3>3. o + 1 \in 1 .. Size(list, g + 1) /\ start[g + 1] + (o + 1) = 1
      BY <1>1, <1>9, <2>2, <3>2
    <3>4. start[g + 1] + (o + 1) > 0
      BY <3>3
    <3>5. l[start[g + 1] + (o + 1)] = Symbol(list, g + 1, o + 1)
      BY <1>2, <3>1, <3>3, <3>4 DEF Placed
    <3> QED
      BY <1>4, <3>3, <3>5
  <2> QED
    BY <1>1, <2>1, <2>2
<1>8. Laid(list, Tail(l), g, o + 1, f, p, end)
  <2> DEFINE next == [i \in 1 .. Len(list) + 1 |-> start[i] - 1]
  <2>1. next \in [1 .. Len(list) + 1 -> Int]
    BY <1>2 DEF Placed
  <2>2. \A i \in g + 1 .. f + 1 : next[i] = start[i] - 1
    BY <1>6
  <2> HIDE DEF next
  <2>3. /\ start[g + 1] \in Int /\ next[g + 1] = start[g + 1] - 1
        /\ start[f + 1] \in Int /\ next[f + 1] = start[f + 1] - 1
        /\ \A i \in g + 1 .. f :
             /\ start[i] \in Int /\ next[i] = start[i] - 1
             /\ start[i + 1] \in Int /\ next[i + 1] = start[i + 1] - 1
    <3>1. g + 1 \in g + 1 .. f + 1 /\ f + 1 \in g + 1 .. f + 1
          /\ \A i \in g + 1 .. f : i \in g + 1 .. f + 1 /\ i + 1 \in g + 1 .. f + 1
      BY <1>1
    <3> QED
      BY <1>6, <2>2, <3>1
  <2>4. next[g + 1] + (o + 1) = 0
    BY <1>1, <1>2, <2>3 DEF Placed
  <2>5. \A i \in g + 1 .. f : next[i + 1] = next[i] + Size(list, i)
    <3> TAKE i \in g + 1 .. f
    <3>1. Size(list, i) \in Nat
      <4>1. i \in 1 .. Len(list)
        BY <1>1, <1>3
      <4> QED
        BY <4>1, Sizes
    <3>2. start[i + 1] = start[i] + Size(list, i)
      BY <1>2 DEF Placed
    <3> QED
      BY <2>3, <3>1, <3>2
  <2>6. Len(Tail(l)) = next[f + 1] + p + end
    BY <1>1, <1>2, <1>3, <1>4, <2>3 DEF Placed
  <2>7. \A i \in g + 1 .. f : \A k \in 1 .. Size(list, i) :
          /\ next[i] + k <= next[f + 1]
          /\ next[i] + k > 0 => Tail(l)[next[i] + k] = Symbol(list, i, k)
    <3> SUFFICES ASSUME NEW i \in g + 1 .. f, NEW k \in 1 .. Size(list, i)
                 PROVE  /\ next[i] + k <= next[f + 1]
                        /\ next[i] + k > 0 => Tail(l)[next[i] + k] = Symbol(list, i, k)
      OBVIOUS
    <3>1. start[i] \in Int /\ next[i] = start[i] - 1 /\ k \in Int
      BY <2>3
    <3>2. /\ start[i] + k <= start[f + 1]
          /\ start[i] + k > 0 => l[start[i] + k] = Symbol(list, i, k)
      BY <1>2 DEF Placed
    <3>6. Len(l) = start[f + 1] + p + end /\ Len(l) >= start[f + 1]
      BY <1>1, <1>9
    <3>3. next[i] + k > 0 =>
            /\ next[i] + k \in 1 .. Len(l) - 1 /\ (next[i] + k) + 1 = start[i] + k
            /\ start[i] + k > 0
      <4>1. start[i] + k <= start[f + 1] /\ start[f + 1] \in Int
        BY <1>9, <3>2
      <4> QED
        BY <1>3, <3>6, <3>1, <4>1
    <3>4. next[i] + k > 0 => Tail(l)[next[i] + k] = l[start[i] + k]
      BY <1>4, <3>3
    <3>5. next[i] + k <= next[f + 1]
      BY <2>3, <3>1, <3>2
    <3> QED
      BY <3>2, <3>3, <3>4, <3>5
  <2>8. \A k \in 1 .. p :
          next[f + 1] + k > 0 => Tail(l)[next[f + 1] + k] = Symbol(list, f + 1, k)
    <3> SUFFICES ASSUME NEW k \in 1 .. p, next[f + 1] + k > 0
                 PROVE  Tail(l)[next[f + 1] + k] = Symbol(list, f + 1, k)
      OBVIOUS
    <3>1. start[f + 1] + k > 0
      BY <1>1, <2>3
    <3>2. l[start[f + 1] + k] = Symbol(list, f + 1, k)
      BY <1>2, <3>1 DEF Placed
    <3>3. next[f + 1] + k \in 1 .. Len(l) - 1 /\ (next[f + 1] + k) + 1 = start[f + 1] + k
      <4>1. next[f + 1] = start[f + 1] - 1 /\ start[f + 1] \in Int /\ k \in Int /\ k <= p
        BY <1>1, <2>3
      <4>2. start[f + 1] + k <= Len(l)
        BY <1>1, <1>9, <4>1
      <4> QED
        BY <1>3, <3>1, <4>1, <4>2
    <3> QED
      BY <1>4, <3>2, <3>3
  <2>9. end = 1 => p = 0 /\ Tail(l)[Len(Tail(l))] = 0
    <3> SUFFICES ASSUME end = 1 PROVE p = 0 /\ Tail(l)[Len(Tail(l))] = 0
      OBVIOUS
    <3>1. p = 0 /\ l[Len(l)] = 0 /\ g < f
      BY <1>1, <1>2 DEF Placed
    <3>2. g + 1 \in g + 1 .. f /\ g + 1 \in 1 .. Len(list)
      BY <1>1, <1>3, <3>1
    <3>3. Size(list, g + 1) \in Nat /\ Size(list, g + 1) \in 1 .. Size(list, g + 1)
          /\ o < Size(list, g + 1)
      <4>1. Size(list, g + 1) \in Nat /\ Size(list, g + 1) >= 4
        BY <3>2, Sizes
      <4> QED
        BY <3>1, <4>1
    <3>4. start[g + 1] + Size(list, g + 1) <= start[f + 1]
      BY <1>2, <3>2, <3>3 DEF Placed
    <3>5. Len(l) - 1 \in 1 .. Len(l) - 1 /\ (Len(l) - 1) + 1 = Len(l)
      BY <1>1, <1>9, <1>3, <3>1, <3>3, <3>4
    <3> QED
      BY <1>4, <3>1, <3>5
  <2> QED
    <3>1. o + 1 \in Nat /\ (g = f => o + 1 <= p)
      BY <1>1, <1>5
    <3> QED
      BY <1>1, <1>4, <2>1, <2>4, <2>5, <2>6, <2>7, <2>8, <2>9, <3>1 DEF Laid, Placed
<1> QED
  BY <1>5, <1>7, <1>8

\* A file that was taken whole: the next one begins.
LEMMA FileTaken ==
  ASSUME NEW list \in FileList, NEW l, NEW g, NEW f, NEW p, NEW end, g < f,
         Laid(list, l, g, Size(list, g + 1), f, p, end)
  PROVE  Laid(list, l, g + 1, 0, f, p, end)
<1>1. g \in 0 .. f /\ f \in 0 .. Len(list) /\ Len(list) \in Nat
  BY LenProperties DEF Laid, FileList
<1>2. PICK start \in [1 .. Len(list) + 1 -> Int] :
        Placed(list, l, g, Size(list, g + 1), f, p, end, start)
  BY DEF Laid
<1>3. /\ g + 1 \in g + 1 .. f /\ g + 1 \in 1 .. Len(list)
      /\ \A i \in g + 2 .. f : i \in g + 1 .. f
      /\ start[g + 1] \in Int /\ start[g + 2] \in Int
  BY <1>1
<1>4. Size(list, g + 1) \in Nat
  BY <1>3, Sizes
<1>5. start[g + 2] = start[g + 1] + Size(list, g + 1)
  BY <1>1, <1>2, <1>3 DEF Placed
<1>6. start[g + 2] + 0 = 0
  BY <1>2, <1>3, <1>4, <1>5 DEF Placed
<1>7. Placed(list, l, g + 1, 0, f, p, end, start)
  <2>1. (g + 1) + 1 = g + 2
    BY <1>1
  <2> QED
    BY <1>2, <1>3, <1>6, <2>1 DEF Placed
<1> QED
  BY <1>1, <1>2, <1>7 DEF Laid

\* Symbols that continue a file.
LEMMA SymbolsPut ==
  ASSUME NEW list \in FileList, NEW l, NEW g, NEW o, NEW f, NEW p,
         Laid(list, l, g, o, f, p, 0), NEW s \in Seq(Nat),
         \A k \in 1 .. Len(s) : s[k] = Symbol(list, f + 1, p + k)
  PROVE  Laid(list, l \o s, g, o, f, p + Len(s), 0)
<1>1. /\ l \in Seq(Nat) /\ Len(l) \in Nat /\ Len(s) \in Nat
      /\ g \in 0 .. f /\ f \in 0 .. Len(list) /\ o \in Nat /\ p \in Nat
      /\ g = f => o <= p
  BY LenProperties DEF Laid
<1>2. PICK start \in [1 .. Len(list) + 1 -> Int] : Placed(list, l, g, o, f, p, 0, start)
  BY DEF Laid
<1>3. /\ l \o s \in Seq(Nat) /\ Len(l \o s) = Len(l) + Len(s)
      /\ \A m \in 1 .. Len(l) : (l \o s)[m] = l[m]
      /\ \A k \in 1 .. Len(s) : (l \o s)[Len(l) + k] = s[k]
  <2>1. \A k \in 1 .. Len(s) : Len(l) + k > Len(l) /\ (Len(l) + k) - Len(l) = k
                               /\ Len(l) + k \in 1 .. Len(l) + Len(s)
    BY <1>1
  <2> QED
    BY <1>1, <2>1, ConcatProperties
<1>4. Len(list) \in Nat
  BY LenProperties DEF FileList
<1>5. start[f + 1] \in Int /\ Len(l) = start[f + 1] + p
  BY <1>1, <1>2, <1>4 DEF Placed
<1>6. \A i \in g + 1 .. f : \A k \in 1 .. Size(list, i) :
        start[i] + k > 0 => (l \o s)[start[i] + k] = Symbol(list, i, k)
  <2> SUFFICES ASSUME NEW i \in g + 1 .. f, NEW k \in 1 .. Size(list, i), start[i] + k > 0
               PROVE  (l \o s)[start[i] + k] = Symbol(list, i, k)
    OBVIOUS
  <2>1. start[i] + k <= start[f + 1] /\ l[start[i] + k] = Symbol(list, i, k)
    BY <1>2 DEF Placed
  <2>2. start[i] \in Int
    <3>1. i \in 1 .. Len(list) + 1
      BY <1>1, <1>4
    <3> QED
      BY <1>2, <3>1
  <2>3. start[i] + k \in 1 .. Len(l)
    <3>1. start[i] + k <= start[f + 1] /\ start[f + 1] <= Len(l) /\ k \in Int
      BY <1>1, <1>5, <2>1
    <3> QED
      BY <1>1, <1>5, <2>2, <3>1
  <2> QED
    BY <1>3, <2>1, <2>3
<1>7. \A k \in 1 .. p + Len(s) :
        start[f + 1] + k > 0 => (l \o s)[start[f + 1] + k] = Symbol(list, f + 1, k)
  <2> SUFFICES ASSUME NEW k \in 1 .. p + Len(s), start[f + 1] + k > 0
               PROVE  (l \o s)[start[f + 1] + k] = Symbol(list, f + 1, k)
    OBVIOUS
  <2>1. CASE k <= p
    <3>1. k \in 1 .. p /\ start[f + 1] + k \in 1 .. Len(l)
      BY <1>1, <1>5, <2>1
    <3>2. l[start[f + 1] + k] = Symbol(list, f + 1, k)
      BY <1>2, <3>1 DEF Placed
    <3> QED
      BY <1>3, <3>1, <3>2
  <2>2. CASE k > p
    <3>1. k - p \in 1 .. Len(s) /\ start[f + 1] + k = Len(l) + (k - p) /\ p + (k - p) = k
      BY <1>1, <1>5, <2>2
    <3> QED
      BY <1>3, <3>1
  <2>3. k <= p \/ k > p
    BY <1>1
  <2> QED
    BY <2>1, <2>2, <2>3
<1>8. Len(l \o s) = start[f + 1] + (p + Len(s)) + 0 /\ p + Len(s) \in Nat
      /\ (g = f => o <= p + Len(s))
  BY <1>1, <1>3, <1>5
<1>9. Placed(list, l \o s, g, o, f, p + Len(s), 0, start)
  <2> DEFINE more == l \o s
             q == p + Len(s)
  <2>1. /\ \A i \in g + 1 .. f : \A k \in 1 .. Size(list, i) :
             start[i] + k > 0 => more[start[i] + k] = Symbol(list, i, k)
        /\ \A k \in 1 .. q :
             start[f + 1] + k > 0 => more[start[f + 1] + k] = Symbol(list, f + 1, k)
        /\ Len(more) = start[f + 1] + q + 0
    BY <1>6, <1>7, <1>8
  <2> HIDE DEF more, q
  <2>2. Placed(list, more, g, o, f, q, 0, start)
    BY <1>2, <2>1 DEF Placed
  <2> QED
    BY <2>2 DEF more, q
<1> QED
  BY <1>1, <1>2, <1>3, <1>8, <1>9 DEF Laid

\* A file that was put whole: the next one may follow.
LEMMA FileSent ==
  ASSUME NEW list \in FileList, NEW l, NEW g, NEW o, NEW f, f < Len(list),
         Laid(list, l, g, o, f, Size(list, f + 1), 0)
  PROVE  Laid(list, l, g, o, f + 1, 0, 0)
<1>1. /\ l \in Seq(Nat) /\ g \in 0 .. f /\ f \in 0 .. Len(list) /\ o \in Nat /\ Len(list) \in Nat
  BY LenProperties DEF Laid, FileList
<1>2. PICK start \in [1 .. Len(list) + 1 -> Int] :
        Placed(list, l, g, o, f, Size(list, f + 1), 0, start)
  BY DEF Laid
<1>3. f + 1 \in 1 .. Len(list) /\ Size(list, f + 1) \in Nat
  BY <1>1, Sizes
<1> DEFINE next == [start EXCEPT ![f + 2] = start[f + 1] + Size(list, f + 1)]
<1>4. /\ next \in [1 .. Len(list) + 1 -> Int]
      /\ next[f + 2] = start[f + 1] + Size(list, f + 1)
      /\ start[f + 1] \in Int /\ next[f + 2] \in Int
      /\ \A i \in 1 .. f + 1 : next[i] = start[i] /\ start[i] \in Int
  <2>1. /\ f + 1 \in 1 .. Len(list) + 1 /\ f + 2 \in 1 .. Len(list) + 1
        /\ \A i \in 1 .. f + 1 : i \in 1 .. Len(list) + 1 /\ i # f + 2
    BY <1>1, <1>3
  <2>2. start[f + 1] \in Int /\ start[f + 1] + Size(list, f + 1) \in Int
    BY <1>2, <1>3, <2>1
  <2>3. \A i \in 1 .. f + 1 : start[i] \in Int
    BY <1>2, <2>1
  <2> QED
    BY <1>2, <2>1, <2>2, <2>3
<1> HIDE DEF next
<1>5. /\ (f + 1) + 1 = f + 2 /\ g + 1 \in 1 .. f + 1 /\ f + 1 \in 1 .. f + 1
      /\ \A i \in g + 1 .. f : i \in 1 .. f + 1 /\ i + 1 \in 1 .. f + 1
      /\ \A i \in g + 1 .. f + 1 : i \in g + 1 .. f \/ i = f + 1
  BY <1>1
<1>6. next[g + 1] + o = 0
  BY <1>2, <1>4, <1>5 DEF Placed
<1>7. \A i \in g + 1 .. f + 1 : next[i + 1] = next[i] + Size(list, i)
  BY <1>2, <1>4, <1>5 DEF Placed
<1>8. Len(l) = next[f + 2] + 0 + 0
  BY <1>2, <1>3, <1>4 DEF Placed
<1>9. \A i \in g + 1 .. f + 1 : \A k \in 1 .. Size(list, i) :
        /\ next[i] + k <= next[f + 2]
        /\ next[i] + k > 0 => l[next[i] + k] = Symbol(list, i, k)
  <2> SUFFICES ASSUME NEW i \in g + 1 .. f + 1, NEW k \in 1 .. Size(list, i)
               PROVE  /\ next[i] + k <= next[f + 2]
                      /\ next[i] + k > 0 => l[next[i] + k] = Symbol(list, i, k)
    OBVIOUS
  <2>1. CASE i \in g + 1 .. f
    <3>1. /\ start[i] + k <= start[f + 1]
          /\ start[i] + k > 0 => l[start[i] + k] = Symbol(list, i, k)
      BY <1>2, <2>1 DEF Placed
    <3>2. next[i] = start[i] /\ start[i] \in Int
      BY <1>4, <1>5, <2>1
    <3> QED
      BY <1>3, <1>4, <3>1, <3>2
  <2>2. CASE i = f + 1
    <3>1. next[i] = start[f + 1]
      BY <1>4, <1>5, <2>2
    <3>2. start[f + 1] + k > 0 => l[start[f + 1] + k] = Symbol(list, f + 1, k)
      BY <1>2, <2>2 DEF Placed
    <3> QED
      BY <1>3, <1>4, <2>2, <3>1, <3>2
  <2> QED
    BY <1>5, <2>1, <2>2
<1>10. Placed(list, l, g, o, f + 1, 0, 0, next)
  BY <1>5, <1>6, <1>7, <1>8, <1>9 DEF Placed
<1>11. f + 1 \in 0 .. Len(list) /\ g \in 0 .. f + 1 /\ g # f + 1
  BY <1>1
<1> QED
  BY <1>1, <1>4, <1>10, <1>11 DEF Laid

\* The zero behind the last file.
LEMMA EndPut ==
  ASSUME NEW list \in FileList, NEW l, NEW g, NEW o, NEW f, Laid(list, l, g, o, f, 0, 0)
  PROVE  Laid(list, Append(l, 0), g, o, f, 0, 1)
<1>1. /\ l \in Seq(Nat) /\ g \in 0 .. f /\ f \in 0 .. Len(list) /\ o \in Nat /\ Len(list) \in Nat
      /\ g = f => o <= 0
      /\ Len(l) \in Nat
  BY LenProperties DEF Laid, FileList
<1>2. PICK start \in [1 .. Len(list) + 1 -> Int] : Placed(list, l, g, o, f, 0, 0, start)
  BY DEF Laid
<1>3. /\ Append(l, 0) \in Seq(Nat) /\ Len(Append(l, 0)) = Len(l) + 1
      /\ Append(l, 0)[Len(l) + 1] = 0
      /\ \A m \in 1 .. Len(l) : Append(l, 0)[m] = l[m]
  BY <1>1, AppendProperties
<1>4. start[f + 1] \in Int /\ Len(l) = start[f + 1]
  <2>1. f + 1 \in 1 .. Len(list) + 1
    BY <1>1
  <2>2. start[f + 1] \in Int
    BY <1>2, <2>1
  <2>3. Len(l) = start[f + 1] + 0 + 0
    BY <1>2 DEF Placed
  <2> QED
    BY <2>2, <2>3
<1>5. \A i \in g + 1 .. f : \A k \in 1 .. Size(list, i) :
        start[i] + k > 0 => Append(l, 0)[start[i] + k] = Symbol(list, i, k)
  <2> SUFFICES ASSUME NEW i \in g + 1 .. f, NEW k \in 1 .. Size(list, i), start[i] + k > 0
               PROVE  Append(l, 0)[start[i] + k] = Symbol(list, i, k)
    OBVIOUS
  <2>1. start[i] + k <= start[f + 1] /\ l[start[i] + k] = Symbol(list, i, k)
    BY <1>2 DEF Placed
  <2>2. i \in 1 .. Len(list) + 1 /\ start[i] \in Int
    BY <1>1, <1>2
  <2>3. start[i] + k \in 1 .. Len(l)
    BY <1>1, <1>4, <2>1, <2>2
  <2> QED
    BY <1>3, <2>1, <2>3
<1>6. Len(Append(l, 0)) = start[f + 1] + 0 + 1
  BY <1>1, <1>3, <1>4
<1>7. Placed(list, Append(l, 0), g, o, f, 0, 1, start)
  <2> DEFINE more == Append(l, 0)
  <2>1. more[Len(more)] = 0
    BY <1>1, <1>3
  <2>2. /\ \A i \in g + 1 .. f : \A k \in 1 .. Size(list, i) :
             start[i] + k > 0 => more[start[i] + k] = Symbol(list, i, k)
        /\ Len(more) = start[f + 1] + 0 + 1
    BY <1>5, <1>6
  <2> HIDE DEF more
  <2>3. \A k \in 1 .. 0 : FALSE
    OBVIOUS
  <2>4. Placed(list, more, g, o, f, 0, 1, start)
    BY <1>2, <2>1, <2>2, <2>3 DEF Placed
  <2> QED
    BY <2>4 DEF more
<1> QED
  BY <1>1, <1>2, <1>3, <1>7 DEF Laid

LEMMA SymbolIs ==
  ASSUME NEW list \in FileList, NEW i \in 1 .. Len(list)
  PROVE  /\ Symbol(list, i, 1) = Len(list) - i + 1
         /\ Symbol(list, i, 2) = NameLen(list, i)
         /\ \A k \in 1 .. NameLen(list, i) : Symbol(list, i, 2 + k) = Name(list[i])[k]
         /\ Symbol(list, i, 3 + NameLen(list, i)) = DataLen(list, i)
         /\ \A k \in 1 .. DataLen(list, i) :
              Symbol(list, i, 3 + NameLen(list, i) + k) = Data(list[i])[k]
         /\ Symbol(list, i, Size(list, i)) = Crc(Data(list[i]))
<1> DEFINE n == NameLen(list, i)
           d == DataLen(list, i)
<1>1. n \in Nat /\ d \in Nat /\ Size(list, i) = 4 + n + d
  BY Sizes DEF Size
<1> HIDE DEF n, d
<1>2. Symbol(list, i, 1) = Len(list) - i + 1 /\ Symbol(list, i, 2) = n
  BY DEF Symbol, n
<1>3. \A k \in 1 .. n : Symbol(list, i, 2 + k) = Name(list[i])[k]
  <2> TAKE k \in 1 .. n
  <2>1. 2 + k # 1 /\ 2 + k # 2 /\ 2 + k <= 2 + n /\ (2 + k) - 2 = k
    BY <1>1
  <2> QED
    BY <2>1 DEF Symbol, n
<1>4. Symbol(list, i, 3 + n) = d
  <2>1. 3 + n # 1 /\ 3 + n # 2 /\ ~(3 + n <= 2 + n) /\ 3 + n = (2 + n) + 1
    BY <1>1
  <2> QED
    BY <2>1 DEF Symbol, n, d
<1>5. \A k \in 1 .. d : Symbol(list, i, 3 + n + k) = Data(list[i])[k]
  <2> TAKE k \in 1 .. d
  <2>1. LET m == 3 + n + k
        IN  m # 1 /\ m # 2 /\ ~(m <= 2 + n) /\ m # (2 + n) + 1 /\ m < 4 + n + d
            /\ m - (2 + n) - 1 = k
    BY <1>1
  <2> QED
    BY <1>1, <2>1 DEF Symbol, n
<1>6. Symbol(list, i, 4 + n + d) = Crc(Data(list[i]))
  <2>1. LET m == 4 + n + d
        IN  m # 1 /\ m # 2 /\ ~(m <= 2 + n) /\ m # (2 + n) + 1 /\ ~(m < 4 + n + d)
    BY <1>1
  <2> QED
    BY <1>1, <2>1 DEF Symbol, n
<1> QED
  BY <1>1, <1>2, <1>3, <1>4, <1>5, <1>6 DEF n, d

-----------------------------------------------------------------------------
(* Types. *)

\* While a file is read, it is one of the command line's, and the place in it
\* one it has.
Types ==
  /\ TypeOK
  /\ filelist \in FileList
  /\ pc \in {"check", "refused", "start", "hello"} => filenumber = 0
  /\ pc \in {"hello", "open", "chunks"} => remaining = Len(filelist) - filenumber
  /\ pc = "chunks" => filenumber < Len(filelist) /\ position \in 0 .. Len(Contents)

LEMMA PathIsNamed ==
  ASSUME Types, filenumber < Len(filelist)
  PROVE  /\ filenumber + 1 \in 1 .. Len(filelist) /\ Path \in Paths
         /\ Name(Path) \in Seq(Nat) /\ Contents \in Seq(Nat)
         /\ Len(Name(Path)) \in Nat /\ Len(Contents) \in Nat
<1>1. filenumber + 1 \in 1 .. Len(filelist)
  BY DEF Types, TypeOK
<1>2. Path \in Paths
  BY <1>1, ElementOfSeq DEF Types, FileList, Path
<1> QED
  BY <1>1, <1>2, FileAssumption, LenProperties DEF FileAssumption, Contents

\* What one turn of the inner loop reads.
ChunkBytes == SubSeq(Contents, position + 1, position')

LEMMA ChunkIsNext ==
  ASSUME Types, SendChunk
  PROVE  /\ position' \in position .. Len(Contents) /\ Len(Contents) \in Nat
         /\ ChunkBytes \in Seq(Nat) /\ Len(ChunkBytes) = position' - position
         /\ \A k \in 1 .. Len(ChunkBytes) : ChunkBytes[k] = Contents[position + k]
<1>1. pc = "chunks" /\ filenumber < Len(filelist) /\ position \in 0 .. Len(Contents)
  BY DEF SendChunk, Types
<1>2. Contents \in Seq(Nat) /\ Len(Contents) \in Nat
  BY <1>1, PathIsNamed
<1>3. position' \in position .. Len(Contents)
  BY <1>1, <1>2, SendAssumption DEF SendAssumption, SendChunk, ReadTo
<1>4. /\ position + 1 \in Nat \ {0} /\ position' \in Nat
      /\ \A m \in position + 1 .. position' : m \in 1 .. Len(Contents)
  BY <1>1, <1>2, <1>3
<1>5. ChunkBytes \in Seq(Nat)
  BY <1>2, <1>4, SubSeqProperties DEF ChunkBytes
<1> DEFINE a == position
           b == position'
<1>6. a \in Nat /\ b \in Nat /\ a <= b
  BY <1>1, <1>2, <1>3
<1>7. /\ Len(ChunkBytes) = IF a + 1 <= b THEN b - (a + 1) + 1 ELSE 0
      /\ \A i \in 1 .. b - (a + 1) + 1 : ChunkBytes[i] = Contents[(a + 1) + i - 1]
  BY <1>2, <1>4, SubSeqProperties DEF ChunkBytes
<1> HIDE DEF a, b
<1>8. Len(ChunkBytes) = b - a
  BY <1>6, <1>7
<1>9. \A k \in 1 .. b - a : ChunkBytes[k] = Contents[a + k]
  <2> TAKE k \in 1 .. b - a
  <2>1. k \in 1 .. b - (a + 1) + 1 /\ (a + 1) + k - 1 = a + k
    BY <1>6
  <2> QED
    BY <1>7, <2>1
<1> QED
  BY <1>2, <1>3, <1>5, <1>8, <1>9 DEF a, b

\* Unsigned numbers of three bytes.
LEMMA Unsigned ==
  /\ SizeLimit \in Nat \ {0}
  /\ \A a \in Int : a % SizeLimit \in 0 .. SizeLimit - 1
  /\ \A a \in 0 .. SizeLimit - 1 : a % SizeLimit = a
<1>1. SizeLimit \in Nat \ {0}
  BY SendAssumption DEF SendAssumption
<1>2. \A a \in Int : a % SizeLimit \in 0 .. SizeLimit - 1
  BY <1>1
<1>3. \A a \in 0 .. SizeLimit - 1 : a % SizeLimit = a
  <2> TAKE a \in 0 .. SizeLimit - 1
  <2>1. \A q \in Int, r \in 0 .. SizeLimit - 1 : (q * SizeLimit + r) % SizeLimit = r
    BY <1>1
  <2>2. a = 0 * SizeLimit + a
    BY <1>1
  <2> QED
    BY <2>1, <2>2
<1> QED
  BY <1>1, <1>2, <1>3

LEMMA TypesKept ==
  ASSUME Types, [Next]_vars
  PROVE  Types'
<1>1. Len(filelist) \in Nat
  BY LenProperties DEF Types, FileList
<1>2. CASE OpenFile
  <2>1. filenumber < Len(filelist)
    BY <1>2 DEF OpenFile
  <2>2. Len(Contents) \in Nat /\ SizeOf(Path) \in 0 .. SizeLimit - 1
    <3>1. Len(Contents) \in Nat
      BY <2>1, PathIsNamed
    <3> QED
      BY <3>1, Unsigned DEF SizeOf, Contents
  <2>3. UNCHANGED <<filelist, filenumber>> /\ Contents' = Contents
    BY <1>2 DEF OpenFile, Contents, Path
  <2> QED
    BY <1>1, <1>2, <2>1, <2>2, <2>3 DEF OpenFile, Types, TypeOK
<1>3. CASE SendChunk
  <2>1. /\ position' \in position .. Len(Contents) /\ Len(Contents) \in Nat
        /\ Len(ChunkBytes) \in Int
    BY <1>3, ChunkIsNext, LenProperties
  <2>2. filesize' \in 0 .. SizeLimit - 1
    <3>1. filesize' = Minus(filesize, Len(ChunkBytes))
      BY <1>3 DEF SendChunk, ChunkBytes
    <3>2. filesize - Len(ChunkBytes) \in Int
      BY <2>1 DEF Types, TypeOK
    <3> QED
      BY <3>1, <3>2, Unsigned DEF Minus
  <2>3. /\ UNCHANGED <<pc, filelist, filenumber, remaining, answer>> /\ Contents' = Contents
        /\ failed' \in {failed, "read"} /\ pc = "chunks"
    BY <1>3 DEF SendChunk, Contents, Path
  <2>4. position' \in 0 .. Len(Contents)
    BY <2>1, <2>3 DEF Types
  <2> QED
    BY <1>1, <2>2, <2>3, <2>4 DEF Types, TypeOK
<1>4. CASE SendCrc
  <2>1. /\ pc = "chunks" /\ pc' = "open" /\ remaining' = remaining - 1
        /\ filenumber' = filenumber + 1 /\ UNCHANGED <<filelist, filesize, failed, answer>>
    BY <1>4 DEF SendCrc, OneLess
  <2> QED
    BY <1>1, <2>1 DEF Types, TypeOK
<1>5. CASE Start
  BY <1>1, <1>5 DEF Start, Types, TypeOK
<1>6. CASE CheckFiles \/ Hello \/ OpenFails \/ SendEnd \/ Final
  BY <1>1, <1>6 DEF CheckFiles, Hello, OpenFails, SendEnd, Final, Types, TypeOK
<1>7. CASE Vdp
  <2>1. UNCHANGED agon /\ answer' \in {"none", "C", "other"}
    BY <1>7 DEF Vdp, AnswerHello, TakeRemaining, TakeLength, TakeByte, BlockTaken, TakeCrc, Expect,
       Types, TypeOK
  <2>2. Contents' = Contents
    BY <2>1 DEF agon, Contents, Path
  <2> QED
    BY <2>1, <2>2 DEF agon, Types, TypeOK
<1>8. CASE UNCHANGED vars
  <2>1. Contents' = Contents
    BY <1>8 DEF vars, agon, Contents, Path
  <2> QED
    BY <1>8, <2>1 DEF vars, agon, Types, TypeOK
<1> QED
  BY <1>2, <1>3, <1>4, <1>5, <1>6, <1>7, <1>8 DEF Next, Agon

LEMMA TypesAtFirst ==
  ASSUME Init
  PROVE  Types
<1>1. PICK k \in 1 .. MaxArgs : filelist \in [1 .. k -> Paths]
  BY DEF Init
<1>2. k \in Nat
  BY <1>1, SendAssumption DEF SendAssumption
<1>3. filelist \in FileList /\ Len(filelist) = k
  BY <1>1, <1>2, SeqDef, LenProperties DEF FileList
<1> QED
  BY <1>2, <1>3, Unsigned DEF Init, Types, TypeOK

LEMMA TypesHold == Spec => []Types
<1>1. Init => Types
  BY TypesAtFirst
<1>2. Types /\ [Next]_vars => Types'
  BY TypesKept
<1> QED
  BY <1>1, <1>2, PTL DEF Spec

\* The size left stays an unsigned int of three bytes, also of a file too large
\* for one, and no more files are counted off than were named.
THEOREM TypeCorrect == Spec => []TypeOK
<1>1. Types => TypeOK
  BY DEF Types
<1> QED
  BY <1>1, TypesHold, PTL

-----------------------------------------------------------------------------
(* The conversation about files that fit. *)

Begins(s, t) == s \in Seq(Nat) /\ Len(s) <= Len(t) /\ \A k \in 1 .. Len(s) : s[k] = t[k]

NextName == Name(filelist[Len(got) + 1])
NextData == Data(filelist[Len(got) + 1])

\* The VDP has taken o symbols of the next file, and they are those of the file.
Stage(o) ==
  \/ want = "remaining" /\ o = 0
  \/ want = "namelen" /\ o = 1 /\ coming = Nothing
  \/ /\ want = "name" /\ o = 2 + Len(coming.filename)
     /\ Begins(coming.filename, NextName) /\ coming.data = <<>>
     /\ need = Len(NextName) - Len(coming.filename)
  \/ /\ want = "size" /\ o = 2 + Len(NextName)
     /\ coming.filename = NextName /\ coming.data = <<>>
  \/ /\ want = "data" /\ o = 3 + Len(NextName) + Len(coming.data)
     /\ coming.filename = NextName /\ Begins(coming.data, NextData)
     /\ need = Len(NextData) - Len(coming.data)
  \/ /\ want = "crc" /\ o = 3 + Len(NextName) + Len(NextData)
     /\ coming.filename = NextName /\ coming.data = NextData

\* How much of its next file the utility has put on the line, and whether it has
\* put the zero behind them all.
Given == IF pc = "chunks" THEN 3 + NameLen(filelist, filenumber + 1) + position ELSE 0
End == IF pc \in {"final", "ended"} THEN 1 ELSE 0

Files == [filename : Seq(Nat), data : Seq(Nat)]

Talking ==
  /\ pc \in {"open", "chunks", "final", "ended"}
  /\ want # "remaining" => Len(got) < Len(filelist)
  /\ \E o \in Nat : Stage(o) /\ Laid(filelist, line, Len(got), o, filenumber, Given, End)

Quiet == line = <<>> /\ got = <<>> /\ told = <<>>

Phase ==
  \/ pc \in {"check", "refused", "start"} /\ want = "request" /\ answer = "none" /\ Quiet
  \/ /\ pc = "hello" /\ Quiet
     /\ <<want, answer>> \in {<<"hello", "none">>, <<"remaining", "C">>, <<"idle", "other">>}
  \/ Talking
  \/ pc \in {"final", "ended"} /\ want = "idle"

\* What of the open file was read has gone into the CRC.
ReadSoFar ==
  pc = "chunks" =>
    filesize = Len(Contents) - position /\ Begins(crc, Contents) /\ Len(crc) = position

Received ==
  /\ got \in Seq(Files) /\ coming \in Files
  /\ Len(got) <= Len(filelist) /\ \A i \in 1 .. Len(got) : got[i] = Sent(i)

\* The counts told go down from the number of files to 1.
Counted ==
  /\ told \in Seq(Nat)
  /\ told # <<>> => told[Len(told)] = Len(filelist) - Len(told) + 1
  /\ Len(told) = Len(got) + (IF want \in {"namelen", "name", "size", "data", "crc"} THEN 1 ELSE 0)

Conversation == Phase /\ ReadSoFar /\ Received /\ Counted

LEMMA NextFile ==
  ASSUME Types, Received, Len(got) < Len(filelist)
  PROVE  /\ Len(got) \in Nat /\ Len(got) + 1 \in 1 .. Len(filelist)
         /\ NextName \in Seq(Nat) /\ NextData \in Seq(Nat)
         /\ Len(NextName) \in Nat /\ Len(NextData) \in Nat
         /\ NameLen(filelist, Len(got) + 1) = Len(NextName)
         /\ DataLen(filelist, Len(got) + 1) = Len(NextData)
         /\ Size(filelist, Len(got) + 1) = 4 + Len(NextName) + Len(NextData)
<1>1. filelist \in FileList /\ Len(filelist) \in Nat /\ Len(got) \in Nat
  BY LenProperties DEF Types, FileList, Received
<1>2. Len(got) + 1 \in 1 .. Len(filelist)
  BY <1>1
<1> QED
  BY <1>1, <1>2, Sizes DEF NextName, NextData, NameLen, DataLen, Size

\* The VDP takes the symbol it expects.
LEMMA ExpectedTaken ==
  ASSUME Types, Received, Talking, want # "remaining", line # <<>>, NEW o \in Nat, Stage(o),
         Laid(filelist, line, Len(got), o, filenumber, Given, End)
  PROVE  /\ Head(line) = Symbol(filelist, Len(got) + 1, o + 1)
         /\ Laid(filelist, Tail(line), Len(got), o + 1, filenumber, Given, End)
         /\ Len(got) = filenumber => o < Given
<1>1. Len(got) < Len(filelist)
  BY DEF Talking
<1>2. /\ Len(NextName) \in Nat /\ Len(NextData) \in Nat
      /\ Size(filelist, Len(got) + 1) = 4 + Len(NextName) + Len(NextData)
  BY <1>1, NextFile
<1>3. o >= 1 /\ o < Size(filelist, Len(got) + 1)
  <2>1. CASE want = "name"
    <3>1. /\ o = 2 + Len(coming.filename) /\ coming.filename \in Seq(Nat)
          /\ Len(coming.filename) <= Len(NextName)
      BY <2>1 DEF Stage, Begins
    <3>2. Len(coming.filename) \in Nat
      BY <3>1, LenProperties
    <3> QED
      BY <1>2, <3>1, <3>2
  <2>2. CASE want = "data"
    <3>1. /\ o = 3 + Len(NextName) + Len(coming.data) /\ coming.data \in Seq(Nat)
          /\ Len(coming.data) <= Len(NextData)
      BY <2>2 DEF Stage, Begins
    <3>2. Len(coming.data) \in Nat
      BY <3>1, LenProperties
    <3> DEFINE n == Len(NextName)
               d == Len(NextData)
               c == Len(coming.data)
    <3>3. n \in Nat /\ d \in Nat /\ c \in Nat /\ o = 3 + n + c /\ c <= d
      BY <1>2, <3>1, <3>2
    <3> HIDE DEF n, d, c
    <3>4. o >= 1 /\ o < 4 + n + d
      BY <3>3
    <3> QED
      BY <1>2, <3>4 DEF n, d
  <2>3. CASE want \notin {"name", "data"}
    <3>1. o = 1 \/ o = 2 + Len(NextName) \/ o = 3 + Len(NextName) + Len(NextData)
      BY <2>3 DEF Stage
    <3> DEFINE n == Len(NextName)
               d == Len(NextData)
    <3>2. n \in Nat /\ d \in Nat /\ (o = 1 \/ o = 2 + n \/ o = 3 + n + d)
      BY <1>2, <3>1
    <3> HIDE DEF n, d
    <3>3. o >= 1 /\ o < 4 + n + d
      BY <3>2
    <3> QED
      BY <1>2, <3>3 DEF n, d
  <2> QED
    BY <2>1, <2>2, <2>3
<1>4. /\ Len(got) \in 0 .. filenumber /\ filenumber \in 0 .. Len(filelist)
      /\ Len(got) = filenumber => o <= Given
  BY DEF Laid
<1>5. End = 0 \/ Len(got) < filenumber
  <2>1. CASE End = 1
    <3>1. Given = 0
      BY <2>1 DEF End, Given
    <3> QED
      BY <1>3, <1>4, <3>1
  <2> QED
    BY <2>1 DEF End
<1>6. filelist \in FileList
  BY DEF Types
<1> HIDE DEF Given, End
<1> QED
  BY <1>3, <1>5, <1>6, TakeSymbol

\* Sequences that begin alike, one symbol longer.
LEMMA BeginsFurther ==
  ASSUME NEW s, NEW t \in Seq(Nat), Begins(s, t), Len(s) < Len(t), NEW c, c = t[Len(s) + 1]
  PROVE  Begins(Append(s, c), t) /\ Len(Append(s, c)) = Len(s) + 1 /\ Len(s) \in Nat
<1>1. s \in Seq(Nat) /\ Len(s) \in Nat /\ Len(t) \in Nat
  BY LenProperties DEF Begins
<1>2. Len(s) + 1 \in 1 .. Len(t)
  BY <1>1
<1>3. c \in Nat
  BY <1>2, ElementOfSeq
<1>4. /\ Append(s, c) \in Seq(Nat) /\ Len(Append(s, c)) = Len(s) + 1
      /\ Append(s, c)[Len(s) + 1] = c
      /\ \A k \in 1 .. Len(s) : Append(s, c)[k] = s[k]
  BY <1>1, <1>3, AppendProperties
<1>5. \A k \in 1 .. Len(s) + 1 : k \in 1 .. Len(s) \/ k = Len(s) + 1
  BY <1>1
<1>6. \A k \in 1 .. Len(s) + 1 : Append(s, c)[k] = t[k]
  BY <1>4, <1>5 DEF Begins
<1>7. Len(s) + 1 <= Len(t)
  BY <1>1
<1> QED
  BY <1>1, <1>4, <1>6, <1>7 DEF Begins

LEMMA BeginsWhole ==
  ASSUME NEW s, NEW t \in Seq(Nat), Begins(s, t), Len(s) = Len(t)
  PROVE  s = t
  BY SeqEqual DEF Begins

\* Nothing of the utility's moves in a step of the VDP.
LEMMA UtilityStays ==
  ASSUME UNCHANGED agon
  PROVE  Given' = Given /\ End' = End /\ Contents' = Contents /\ (ReadSoFar => ReadSoFar')
  BY DEF agon, Given, End, Contents, Path, ReadSoFar

\* The VDP is told how many files are to come, or that there are none.
LEMMA RemainingTaken ==
  ASSUME Types, Fits, Conversation, Talking, TakeRemaining
  PROVE  Conversation'
<1>1. /\ want = "remaining" /\ line # <<>> /\ line' = Tail(line) /\ UNCHANGED agon
      /\ coming' = Nothing /\ got' = got
      /\ \/ Head(line) = 0 /\ want' = "idle" /\ answer' = "other" /\ told' = told
         \/ Head(line) # 0 /\ want' = "namelen" /\ told' = Append(told, Head(line))
  BY DEF TakeRemaining, Expect
<1>2. Laid(filelist, line, Len(got), 0, filenumber, Given, End)
  BY <1>1 DEF Talking, Stage
<1>3. filelist \in FileList /\ Len(filelist) \in Nat /\ filenumber \in 0 .. Len(filelist)
      /\ Len(got) \in 0 .. filenumber /\ Len(got) \in Nat
  BY <1>2, LenProperties DEF Types, FileList, Laid
<1>4. Nothing \in Files
  BY DEF Nothing, Files
<1>5. Received' /\ ReadSoFar'
  <2>1. Received'
    BY <1>1, <1>4 DEF Conversation, Received, Sent, agon
  <2> QED
    BY <1>1, <2>1, UtilityStays DEF Conversation
<1>6. ASSUME Len(got) < filenumber \/ End = 0
      PROVE  /\ Head(line) = Len(filelist) - Len(got) /\ Len(got) < Len(filelist)
             /\ Laid(filelist, Tail(line), Len(got), 1, filenumber, Given, End)
  <2>1. Len(got) < filenumber => 0 < Size(filelist, Len(got) + 1)
    <3> SUFFICES ASSUME Len(got) < filenumber PROVE 0 < Size(filelist, Len(got) + 1)
      OBVIOUS
    <3>1. Len(got) + 1 \in 1 .. Len(filelist)
      BY <1>3
    <3>2. Size(filelist, Len(got) + 1) \in Nat /\ Size(filelist, Len(got) + 1) >= 4
      BY <1>3, <3>1, Sizes
    <3> QED
      BY <3>2
  <2>2. /\ Head(line) = Symbol(filelist, Len(got) + 1, 0 + 1)
        /\ Laid(filelist, Tail(line), Len(got), 0 + 1, filenumber, Given, End)
        /\ Len(got) = filenumber => 0 < Given
    <3> DEFINE o == 0
               g == Len(got)
    <3>1. /\ Laid(filelist, line, g, o, filenumber, Given, End) /\ line # <<>>
          /\ g < filenumber => o < Size(filelist, g + 1)
          /\ End = 0 \/ g < filenumber
      BY <1>1, <1>2, <1>6, <2>1
    <3> HIDE DEF Given, End, o, g
    <3>2. /\ Head(line) = Symbol(filelist, g + 1, o + 1)
          /\ Laid(filelist, Tail(line), g, o + 1, filenumber, Given, End)
          /\ g = filenumber => o < Given
      BY <1>3, <3>1, TakeSymbol
    <3> QED
      BY <3>2 DEF o, g
  <2>3. Len(got) < Len(filelist)
    <3>1. CASE Len(got) = filenumber
      BY <1>3, <2>2, <3>1 DEF Given, Types
    <3>2. CASE Len(got) # filenumber
      BY <1>3, <3>2
    <3> QED
      BY <3>1, <3>2
  <2>4. Len(got) + 1 \in 1 .. Len(filelist) /\ 0 + 1 = 1
    BY <1>3, <2>3
  <2>5. Symbol(filelist, Len(got) + 1, 1) = Len(filelist) - (Len(got) + 1) + 1
    BY <1>3, <2>4, SymbolIs
  <2>6. Head(line) = Len(filelist) - Len(got)
    BY <1>3, <2>2, <2>4, <2>5
  <2> QED
    BY <2>2, <2>3, <2>4, <2>6
<1>7. CASE Len(got) < filenumber \/ End = 0
  <2>1. Head(line) # 0 /\ Head(line) \in Nat /\ want' = "namelen" /\ told' = Append(told, Head(line))
    BY <1>1, <1>3, <1>6, <1>7
  <2>2. told \in Seq(Nat) /\ Len(told) = Len(got)
    BY <1>1 DEF Conversation, Counted
  <2>3. told' \in Seq(Nat) /\ Len(told') = Len(got) + 1 /\ told'[Len(got) + 1] = Head(line)
    BY <2>1, <2>2, AppendProperties
  <2>4. Counted'
    <3>1. told'[Len(told')] = Len(filelist) - Len(told') + 1
      BY <1>3, <1>6, <1>7, <2>3
    <3> QED
      BY <1>1, <2>1, <2>3, <3>1 DEF Counted, agon
  <2>5. Stage(1)'
    BY <1>1, <2>1 DEF Stage
  <2>6. Laid(filelist, line, Len(got), 1, filenumber, Given, End)'
    <3> HIDE DEF Given, End
    <3> QED
      BY <1>1, <1>6, <1>7, UtilityStays DEF agon
  <2>7. Talking'
    <3>1. pc' \in {"open", "chunks", "final", "ended"} /\ Len(got') < Len(filelist')
      BY <1>1, <1>6, <1>7 DEF agon, Talking
    <3>2. 1 \in Nat
      OBVIOUS
    <3> QED
      BY <2>5, <2>6, <3>1, <3>2 DEF Talking
  <2> QED
    BY <1>5, <2>4, <2>7 DEF Conversation, Phase
<1>8. CASE Len(got) = filenumber /\ End = 1
  <2>1. Head(line) = 0
    <3>1. PICK start \in [1 .. Len(filelist) + 1 -> Int] :
            Placed(filelist, line, Len(got), 0, filenumber, Given, End, start)
      BY <1>2 DEF Laid
    <3>2. start[filenumber + 1] + 0 = 0 /\ Len(line) = start[filenumber + 1] + Given + End
          /\ Given = 0 /\ line[Len(line)] = 0
      BY <1>8, <3>1 DEF Placed
    <3>3. filenumber + 1 \in 1 .. Len(filelist) + 1
      BY <1>3
    <3>4. start[filenumber + 1] \in Int
      BY <3>1, <3>3
    <3>5. Len(line) = 1
      BY <1>8, <3>2, <3>4
    <3>6. line \in Seq(Nat)
      BY <1>2 DEF Laid
    <3> QED
      BY <3>2, <3>5, <3>6
  <2>2. want' = "idle" /\ told' = told
    BY <1>1, <2>1
  <2>3. Phase'
    BY <1>1, <1>8, <2>2 DEF Phase, End, agon
  <2>4. Counted'
    BY <1>1, <2>2 DEF Conversation, Counted, agon
  <2> QED
    BY <1>5, <2>3, <2>4 DEF Conversation
<1> QED
  BY <1>3, <1>7, <1>8 DEF End

\* The VDP takes any other symbol but the last of a file.
LEMMA SymbolTaken ==
  ASSUME Types, Fits, Conversation, Talking, TakeLength \/ TakeByte
  PROVE  Conversation'
<1>1. /\ want \in {"namelen", "name", "size", "data"} /\ line # <<>> /\ line' = Tail(line)
      /\ UNCHANGED agon /\ UNCHANGED <<got, told>>
  BY DEF TakeLength, TakeByte, Expect
<1>2. PICK o \in Nat : Stage(o) /\ Laid(filelist, line, Len(got), o, filenumber, Given, End)
  BY DEF Talking
<1>3. /\ Head(line) = Symbol(filelist, Len(got) + 1, o + 1)
      /\ Laid(filelist, Tail(line), Len(got), o + 1, filenumber, Given, End)
  BY <1>1, <1>2, ExpectedTaken DEF Conversation
<1>4. Len(got) < Len(filelist)
  BY <1>1 DEF Talking
<1>5. /\ Len(got) + 1 \in 1 .. Len(filelist)
      /\ NextName \in Seq(Nat) /\ NextData \in Seq(Nat)
      /\ Len(NextName) \in Nat /\ Len(NextData) \in Nat
      /\ NameLen(filelist, Len(got) + 1) = Len(NextName)
      /\ DataLen(filelist, Len(got) + 1) = Len(NextData)
  BY <1>4, NextFile DEF Conversation
<1>6. /\ Symbol(filelist, Len(got) + 1, 2) = Len(NextName)
      /\ \A k \in 1 .. Len(NextName) : Symbol(filelist, Len(got) + 1, 2 + k) = NextName[k]
      /\ Symbol(filelist, Len(got) + 1, 3 + Len(NextName)) = Len(NextData)
      /\ \A k \in 1 .. Len(NextData) :
           Symbol(filelist, Len(got) + 1, 3 + Len(NextName) + k) = NextData[k]
  BY <1>5, SymbolIs DEF Types, NextName, NextData
<1>7. NextName' = NextName /\ NextData' = NextData
  BY <1>1 DEF agon, NextName, NextData
<1>8. /\ Stage(o + 1)' /\ coming' \in Files
      /\ want' \in {"name", "data"}
  <2>1. CASE want = "namelen"
    <3>1. o = 1 /\ coming = Nothing /\ want' = "name" /\ need' = Head(line) /\ coming' = coming
      BY <1>2, <2>1 DEF Stage, TakeLength, TakeByte, Expect
    <3>2. need' = Len(NextName) - 0
      BY <1>3, <1>5, <1>6, <3>1
    <3>3. Begins(<<>>, NextName)
      BY <1>5 DEF Begins
    <3>4. coming'.filename = <<>> /\ coming'.data = <<>> /\ coming' \in Files
      BY <3>1 DEF Nothing, Files
    <3>5. o + 1 = 2 + Len(<<>>)
      BY <3>1
    <3> QED
      BY <1>7, <3>1, <3>2, <3>3, <3>4, <3>5 DEF Stage
  <2>2. CASE want = "size"
    <3>1. /\ o = 2 + Len(NextName) /\ coming.filename = NextName /\ coming.data = <<>>
          /\ want' = "data" /\ need' = Head(line) /\ coming' = coming
      BY <1>2, <2>2 DEF Stage, TakeLength, TakeByte, Expect
    <3>2. o + 1 = 3 + Len(NextName)
      BY <1>5, <3>1
    <3>3. need' = Len(NextData) - 0
      <4>1. Head(line) = Symbol(filelist, Len(got) + 1, 3 + Len(NextName))
        BY <1>3, <3>2
      <4>2. Head(line) = Len(NextData)
        BY <1>6, <4>1
      <4> QED
        BY <1>5, <3>1, <4>2
    <3>4. Begins(<<>>, NextData)
      BY <1>5 DEF Begins
    <3>5. o + 1 = 3 + Len(NextName) + Len(<<>>)
      BY <1>5, <3>2
    <3>6. coming' \in Files
      BY <3>1 DEF Conversation, Received
    <3> QED
      BY <1>7, <3>1, <3>3, <3>4, <3>5, <3>6 DEF Stage
  <2>3. CASE want = "name"
    <3>1. /\ o = 2 + Len(coming.filename) /\ Begins(coming.filename, NextName)
          /\ coming.data = <<>> /\ need = Len(NextName) - Len(coming.filename)
          /\ want' = "name" /\ need > 0 /\ need' = need - 1
          /\ coming' = [coming EXCEPT !.filename = Append(@, Head(line))]
      BY <1>2, <2>3 DEF Stage, TakeLength, TakeByte, Expect
    <3>2. Len(coming.filename) \in Nat
      BY <3>1, LenProperties DEF Begins
    <3>3. Len(coming.filename) < Len(NextName) /\ Len(coming.filename) + 1 \in 1 .. Len(NextName)
          /\ o + 1 = 2 + (Len(coming.filename) + 1)
      BY <1>5, <3>1, <3>2
    <3>4. Head(line) = NextName[Len(coming.filename) + 1]
      BY <1>3, <1>6, <3>3
    <3>5. /\ Begins(Append(coming.filename, Head(line)), NextName)
          /\ Len(Append(coming.filename, Head(line))) = Len(coming.filename) + 1
      BY <1>5, <3>1, <3>3, <3>4, BeginsFurther
    <3>6. /\ coming'.filename = Append(coming.filename, Head(line)) /\ coming'.data = coming.data
          /\ coming' \in Files
      <4>1. coming \in Files
        BY DEF Conversation, Received
      <4>2. Append(coming.filename, Head(line)) \in Seq(Nat)
        BY <3>5 DEF Begins
      <4> QED
        BY <3>1, <4>1, <4>2 DEF Files
    <3>7. need' = Len(NextName) - (Len(coming.filename) + 1)
      BY <1>5, <3>1, <3>2
    <3> QED
      BY <1>7, <3>1, <3>3, <3>5, <3>6, <3>7 DEF Stage
  <2>4. CASE want = "data"
    <3>1. /\ o = 3 + Len(NextName) + Len(coming.data) /\ Begins(coming.data, NextData)
          /\ coming.filename = NextName /\ need = Len(NextData) - Len(coming.data)
          /\ want' = "data" /\ need > 0 /\ need' = need - 1
          /\ coming' = [coming EXCEPT !.data = Append(@, Head(line))]
      BY <1>2, <2>4 DEF Stage, TakeLength, TakeByte, Expect
    <3>2. Len(coming.data) \in Nat
      BY <3>1, LenProperties DEF Begins
    <3>3. Len(coming.data) < Len(NextData) /\ Len(coming.data) + 1 \in 1 .. Len(NextData)
          /\ o + 1 = 3 + Len(NextName) + (Len(coming.data) + 1)
      <4> DEFINE n == Len(NextName)
                 d == Len(NextData)
                 c == Len(coming.data)
      <4>1. n \in Nat /\ d \in Nat /\ c \in Nat
        BY <1>5, <3>2
      <4>2. o = 3 + n + c /\ need = d - c /\ need > 0
        BY <3>1
      <4> HIDE DEF n, d, c
      <4>3. c < d /\ c + 1 \in 1 .. d /\ o + 1 = 3 + n + (c + 1)
        BY <4>1, <4>2
      <4> QED
        BY <4>3 DEF n, d, c
    <3>4. Head(line) = NextData[Len(coming.data) + 1]
      BY <1>3, <1>6, <3>3
    <3>5. /\ Begins(Append(coming.data, Head(line)), NextData)
          /\ Len(Append(coming.data, Head(line))) = Len(coming.data) + 1
      BY <1>5, <3>1, <3>3, <3>4, BeginsFurther
    <3>6. /\ coming'.data = Append(coming.data, Head(line)) /\ coming'.filename = coming.filename
          /\ coming' \in Files
      <4>1. coming \in Files
        BY DEF Conversation, Received
      <4>2. Append(coming.data, Head(line)) \in Seq(Nat)
        BY <3>5 DEF Begins
      <4> QED
        BY <3>1, <4>1, <4>2 DEF Files
    <3>7. need' = Len(NextData) - (Len(coming.data) + 1)
      <4> DEFINE d == Len(NextData)
                 c == Len(coming.data)
      <4>1. d \in Nat /\ c \in Nat
        BY <1>5, <3>2
      <4>2. need = d - c /\ need' = need - 1
        BY <3>1
      <4> HIDE DEF d, c
      <4>3. need' = d - (c + 1)
        BY <4>1, <4>2
      <4> QED
        BY <4>3 DEF d, c
    <3> QED
      BY <1>7, <3>1, <3>3, <3>5, <3>6, <3>7 DEF Stage
  <2> QED
    BY <1>1, <2>1, <2>2, <2>3, <2>4
<1>9. Received' /\ ReadSoFar' /\ Counted'
  <2>1. Received'
    BY <1>1, <1>8 DEF Conversation, Received, Sent, agon
  <2>2. Counted'
    BY <1>1, <1>8 DEF Conversation, Counted, agon
  <2> QED
    BY <1>1, <2>1, <2>2, UtilityStays DEF Conversation
<1>10. Talking'
  <2>1. Laid(filelist, line, Len(got), o + 1, filenumber, Given, End)'
    <3> HIDE DEF Given, End
    <3> QED
      BY <1>1, <1>3, UtilityStays DEF agon
  <2>2. pc' \in {"open", "chunks", "final", "ended"} /\ Len(got') < Len(filelist')
    BY <1>1, <1>4 DEF agon, Talking
  <2> QED
    BY <1>8, <2>1, <2>2 DEF Talking
<1> QED
  BY <1>9, <1>10 DEF Conversation, Phase

\* A name or contents that are complete.
LEMMA BlockIsTaken ==
  ASSUME Types, Fits, Conversation, Talking, BlockTaken
  PROVE  Conversation'
<1>1. /\ want \in {"name", "data"} /\ need = 0
      /\ want' = IF want = "name" THEN "size" ELSE "crc"
      /\ UNCHANGED agon /\ UNCHANGED <<line, got, told, coming>>
  BY DEF BlockTaken
<1>2. PICK o \in Nat : Stage(o) /\ Laid(filelist, line, Len(got), o, filenumber, Given, End)
  BY DEF Talking
<1>3. Len(got) < Len(filelist)
  BY <1>1 DEF Talking
<1>4. /\ NextName \in Seq(Nat) /\ NextData \in Seq(Nat)
      /\ Len(NextName) \in Nat /\ Len(NextData) \in Nat
  BY <1>3, NextFile DEF Conversation
<1>5. NextName' = NextName /\ NextData' = NextData
  BY <1>1 DEF agon, NextName, NextData
<1>6. Stage(o)'
  <2>1. CASE want = "name"
    <3>1. /\ o = 2 + Len(coming.filename) /\ Begins(coming.filename, NextName)
          /\ coming.data = <<>> /\ 0 = Len(NextName) - Len(coming.filename)
      BY <1>1, <1>2, <2>1 DEF Stage
    <3>2. Len(coming.filename) \in Nat
      BY <3>1, LenProperties DEF Begins
    <3>3. Len(coming.filename) = Len(NextName)
      BY <1>4, <3>1, <3>2
    <3>4. coming.filename = NextName
      BY <1>4, <3>1, <3>3, BeginsWhole
    <3> QED
      BY <1>1, <1>5, <2>1, <3>1, <3>4 DEF Stage
  <2>2. CASE want = "data"
    <3>1. /\ o = 3 + Len(NextName) + Len(coming.data) /\ Begins(coming.data, NextData)
          /\ coming.filename = NextName /\ 0 = Len(NextData) - Len(coming.data)
      BY <1>1, <1>2, <2>2 DEF Stage
    <3>2. Len(coming.data) \in Nat
      BY <3>1, LenProperties DEF Begins
    <3>3. Len(coming.data) = Len(NextData)
      BY <1>4, <3>1, <3>2
    <3>4. coming.data = NextData
      BY <1>4, <3>1, <3>3, BeginsWhole
    <3> QED
      BY <1>1, <1>5, <2>2, <3>1, <3>4 DEF Stage
  <2> QED
    BY <1>1, <2>1, <2>2
<1>7. Received' /\ ReadSoFar' /\ Counted'
  <2>1. Received'
    BY <1>1 DEF Conversation, Received, Sent, agon
  <2>2. Counted'
    BY <1>1 DEF Conversation, Counted, agon
  <2> QED
    BY <1>1, <2>1, <2>2, UtilityStays DEF Conversation
<1>8. Talking'
  <2>1. Laid(filelist, line, Len(got), o, filenumber, Given, End)'
    <3> HIDE DEF Given, End
    <3> QED
      BY <1>1, <1>2, UtilityStays DEF agon
  <2>2. pc' \in {"open", "chunks", "final", "ended"} /\ Len(got') < Len(filelist')
    BY <1>1, <1>3 DEF agon, Talking
  <2> QED
    BY <1>6, <2>1, <2>2 DEF Talking
<1> QED
  BY <1>7, <1>8 DEF Conversation, Phase

\* The CRC of a file is that of what came: nothing is dropped.
LEMMA CrcTaken ==
  ASSUME Types, Fits, Conversation, Talking, TakeCrc
  PROVE  Conversation'
<1>1. /\ want = "crc" /\ line # <<>> /\ line' = Tail(line) /\ want' = "remaining"
      /\ got' = IF Head(line) = Crc(coming.data) THEN Append(got, coming) ELSE got
      /\ UNCHANGED agon /\ UNCHANGED <<told, coming>>
  BY DEF TakeCrc, Expect
<1>2. PICK o \in Nat : Stage(o) /\ Laid(filelist, line, Len(got), o, filenumber, Given, End)
  BY DEF Talking
<1>3. /\ Head(line) = Symbol(filelist, Len(got) + 1, o + 1)
      /\ Laid(filelist, Tail(line), Len(got), o + 1, filenumber, Given, End)
      /\ Len(got) = filenumber => o < Given
  BY <1>1, <1>2, ExpectedTaken DEF Conversation
<1>4. Len(got) < Len(filelist)
  BY <1>1 DEF Talking
<1>5. /\ Len(got) \in Nat /\ Len(got) + 1 \in 1 .. Len(filelist)
      /\ NextName \in Seq(Nat) /\ NextData \in Seq(Nat)
      /\ Len(NextName) \in Nat /\ Len(NextData) \in Nat
      /\ NameLen(filelist, Len(got) + 1) = Len(NextName)
      /\ Size(filelist, Len(got) + 1) = 4 + Len(NextName) + Len(NextData)
  BY <1>4, NextFile DEF Conversation
<1>6. /\ o = 3 + Len(NextName) + Len(NextData)
      /\ coming.filename = NextName /\ coming.data = NextData
  BY <1>1, <1>2 DEF Stage
<1>7. o + 1 = Size(filelist, Len(got) + 1)
  <2> DEFINE n == Len(NextName)
             d == Len(NextData)
  <2>1. n \in Nat /\ d \in Nat /\ o = 3 + n + d
    BY <1>5, <1>6
  <2> HIDE DEF n, d
  <2>2. o + 1 = 4 + n + d
    BY <2>1
  <2> QED
    BY <1>5, <2>2 DEF n, d
<1>8. Head(line) = Crc(NextData)
  BY <1>3, <1>5, <1>7, SymbolIs DEF Types, NextData
<1>9. got' = Append(got, coming)
  BY <1>1, <1>6, <1>8
<1>10. got \in Seq(Files) /\ coming \in Files
  BY DEF Conversation, Received
<1>11. /\ got' \in Seq(Files) /\ Len(got') = Len(got) + 1 /\ got'[Len(got) + 1] = coming
       /\ \A i \in 1 .. Len(got) : got'[i] = got[i]
  BY <1>9, <1>10, AppendProperties
<1>12. coming = Sent(Len(got) + 1)
  BY <1>6, <1>10 DEF Files, Sent, NextName, NextData
<1>13. Received'
  <2>1. \A i \in 1 .. Len(got) + 1 : i \in 1 .. Len(got) \/ i = Len(got) + 1
    BY <1>5
  <2>2. \A i \in 1 .. Len(got) + 1 : got'[i] = Sent(i)
    BY <1>11, <1>12, <2>1 DEF Conversation, Received
  <2>3. \A i : Sent(i)' = Sent(i)
    BY <1>1 DEF agon, Sent
  <2>4. Len(got') <= Len(filelist') /\ coming' \in Files
    BY <1>1, <1>5, <1>10, <1>11 DEF agon
  <2> QED
    BY <1>11, <2>2, <2>3, <2>4 DEF Received
<1>14. Counted'
  <2>1. told \in Seq(Nat) /\ Len(told) = Len(got) + 1
        /\ (told # <<>> => told[Len(told)] = Len(filelist) - Len(told) + 1)
    BY <1>1 DEF Conversation, Counted
  <2>2. Len(told') = Len(got') + 0
    BY <1>1, <1>5, <1>11, <2>1
  <2> QED
    BY <1>1, <2>1, <2>2 DEF Counted, agon
<1>15. Len(got) < filenumber
  <2>1. Len(got) \in 0 .. filenumber /\ filenumber \in 0 .. Len(filelist)
    BY <1>2 DEF Laid
  <2>2. ASSUME Len(got) = filenumber PROVE FALSE
    <3>1. o < Given
      BY <1>3, <2>2
    <3>2. pc = "chunks"
      BY <1>5, <3>1 DEF Given
    <3>3. Contents = NextData /\ NameLen(filelist, filenumber + 1) = Len(NextName)
      BY <1>5, <2>2 DEF Contents, Path, NextData
    <3>4. position \in 0 .. Len(NextData)
      BY <3>2, <3>3 DEF Types
    <3>5. Given = 3 + Len(NextName) + position
      BY <3>2, <3>3 DEF Given
    <3> DEFINE n == Len(NextName)
               d == Len(NextData)
    <3>6. n \in Nat /\ d \in Nat /\ o = 3 + n + d /\ position \in 0 .. d /\ o < 3 + n + position
      BY <1>5, <1>6, <3>1, <3>4, <3>5
    <3> HIDE DEF n, d
    <3> QED
      BY <3>6
  <2> QED
    BY <2>1, <2>2
<1>16. Talking'
  <2>1. filelist \in FileList
    BY DEF Types
  <2>2. Laid(filelist, Tail(line), Len(got) + 1, 0, filenumber, Given, End)
    <3> HIDE DEF Given, End
    <3> QED
      BY <1>3, <1>7, <1>15, <2>1, FileTaken
  <2>3. Laid(filelist, line, Len(got), 0, filenumber, Given, End)'
    <3> HIDE DEF Given, End
    <3> QED
      BY <1>1, <1>11, <2>2, UtilityStays DEF agon
  <2>4. pc' \in {"open", "chunks", "final", "ended"} /\ 0 \in Nat
    BY <1>1 DEF agon, Talking
  <2>5. Stage(0)'
    BY <1>1 DEF Stage
  <2> QED
    BY <1>1, <2>3, <2>4, <2>5 DEF Talking
<1> QED
  BY <1>1, <1>13, <1>14, <1>16, UtilityStays DEF Conversation, Phase

LEMMA VdpConverses ==
  ASSUME Types, Fits, Conversation, Vdp
  PROVE  Conversation'
<1>1. CASE AnswerHello
  <2>1. /\ want = "hello" /\ answer' \in {"C", "other"}
        /\ want' = IF answer' = "C" THEN "remaining" ELSE "idle"
        /\ UNCHANGED agon /\ UNCHANGED <<line, need, coming, got, told>>
    BY <1>1 DEF AnswerHello
  <2>2. pc = "hello" /\ Quiet
    BY <2>1 DEF Conversation, Phase, Talking, Stage
  <2>3. Phase'
    BY <2>1, <2>2 DEF Phase, Quiet, agon
  <2>4. Received' /\ Counted'
    BY <2>1 DEF Conversation, Received, Counted, Sent, agon
  <2> QED
    BY <2>1, <2>3, <2>4, UtilityStays DEF Conversation
<1>2. CASE ~AnswerHello
  <2>1. Talking
    <3>1. want \in {"remaining", "namelen", "name", "size", "data", "crc"}
          /\ (want \in {"name", "data"} \/ line # <<>>)
      BY <1>2 DEF Vdp, TakeRemaining, TakeLength, TakeByte, BlockTaken, TakeCrc, Expect
    <3> QED
      BY <3>1 DEF Conversation, Phase, Quiet
  <2> QED
    BY <1>2, <2>1, RemainingTaken, SymbolTaken, BlockIsTaken, CrcTaken DEF Vdp
<1> QED
  BY <1>1, <1>2

-----------------------------------------------------------------------------
(* The utility's side. *)

\* What the VDP has is not changed by a step of the utility.
LEMMA VdpStays ==
  ASSUME UNCHANGED <<filelist, vdp>>
  PROVE  /\ Received => Received'
         /\ Counted => Counted'
         /\ \A o : Stage(o) => Stage(o)'
         /\ Len(got') = Len(got) /\ want' = want
  BY DEF vdp, Received, Counted, Stage, Sent, NextName, NextData

\* The utility goes on talking, with what it has put on the line.
LEMMA TalkingGoesOn ==
  ASSUME Conversation, Talking, UNCHANGED <<filelist, vdp>>, ReadSoFar',
         pc' \in {"open", "chunks", "final", "ended"},
         \A o \in Nat : Laid(filelist, line, Len(got), o, filenumber, Given, End) =>
                        Laid(filelist, line', Len(got), o, filenumber', Given', End')
  PROVE  Conversation'
<1> HIDE DEF Given, End
<1>1. PICK o \in Nat : Stage(o) /\ Laid(filelist, line, Len(got), o, filenumber, Given, End)
  BY DEF Talking
<1>2. Stage(o)' /\ Laid(filelist', line', Len(got'), o, filenumber', Given', End')
  BY <1>1, VdpStays
<1>3. want' # "remaining" => Len(got') < Len(filelist')
  BY VdpStays DEF Talking
<1>4. Talking'
  BY <1>2, <1>3 DEF Talking
<1> QED
  BY <1>4, VdpStays DEF Conversation, Phase

\* What three pieces make of a line: its symbols by their place.
LEMMA ThreePieces ==
  ASSUME NEW l \in Seq(Nat), NEW s \in Seq(Nat), NEW t \in Seq(Nat), NEW u \in Seq(Nat)
  PROVE  /\ l \o s \o t \o u = l \o (s \o t \o u)
         /\ s \o t \o u \in Seq(Nat) /\ Len(s \o t \o u) = Len(s) + Len(t) + Len(u)
         /\ \A k \in 1 .. Len(s) : (s \o t \o u)[k] = s[k]
         /\ \A k \in 1 .. Len(t) : (s \o t \o u)[Len(s) + k] = t[k]
         /\ \A k \in 1 .. Len(u) : (s \o t \o u)[Len(s) + Len(t) + k] = u[k]
<1>1. Len(s) \in Nat /\ Len(t) \in Nat /\ Len(u) \in Nat
  BY LenProperties
<1> DEFINE st == s \o t
           stu == st \o u
<1>2. /\ st \in Seq(Nat) /\ Len(st) = Len(s) + Len(t)
      /\ \A k \in 1 .. Len(s) + Len(t) : st[k] = IF k <= Len(s) THEN s[k] ELSE t[k - Len(s)]
  BY ConcatProperties
<1> HIDE DEF st
<1>3. /\ stu \in Seq(Nat) /\ Len(stu) = Len(st) + Len(u)
      /\ \A k \in 1 .. Len(st) + Len(u) : stu[k] = IF k <= Len(st) THEN st[k] ELSE u[k - Len(st)]
  <2>1. st \in Seq(Nat)
    BY <1>2
  <2> QED
    BY <2>1, ConcatProperties
<1>4. (l \o st) \o u = l \o stu
  BY <1>2, ConcatAssociative
<1>5. (l \o s) \o t = l \o st
  BY ConcatAssociative DEF st
<1> HIDE DEF stu
<1>6. \A k \in 1 .. Len(s) : stu[k] = s[k]
  <2> TAKE k \in 1 .. Len(s)
  <2>1. k \in 1 .. Len(st) + Len(u) /\ k \in 1 .. Len(s) + Len(t) /\ k <= Len(st) /\ k <= Len(s)
    BY <1>1, <1>2
  <2> QED
    BY <1>2, <1>3, <2>1
<1>7. \A k \in 1 .. Len(t) : stu[Len(s) + k] = t[k]
  <2> TAKE k \in 1 .. Len(t)
  <2>1. LET m == Len(s) + k
        IN  /\ m \in 1 .. Len(st) + Len(u) /\ m \in 1 .. Len(s) + Len(t)
            /\ m <= Len(st) /\ ~(m <= Len(s)) /\ m - Len(s) = k
    BY <1>1, <1>2
  <2> QED
    BY <1>2, <1>3, <2>1
<1>8. \A k \in 1 .. Len(u) : stu[Len(s) + Len(t) + k] = u[k]
  <2> TAKE k \in 1 .. Len(u)
  <2>1. LET m == Len(s) + Len(t) + k
        IN  m \in 1 .. Len(st) + Len(u) /\ ~(m <= Len(st)) /\ m - Len(st) = k
    BY <1>1, <1>2
  <2> QED
    BY <1>3, <2>1
<1> QED
  BY <1>2, <1>3, <1>4, <1>5, <1>6, <1>7, <1>8 DEF st, stu

LEMMA FileOpened ==
  ASSUME Types, Fits, Conversation, OpenFile
  PROVE  Conversation'
<1>1. /\ pc = "open" /\ pc' = "chunks" /\ filenumber < Len(filelist)
      /\ line' = line \o <<remaining, Len(Name(Path))>> \o Name(Path) \o <<SizeOf(Path)>>
      /\ filesize' = SizeOf(Path) /\ position' = 0 /\ crc' = <<>>
      /\ UNCHANGED <<filelist, filenumber, remaining, failed, answer, vdp>>
  BY DEF OpenFile
<1>2. Talking
  BY <1>1 DEF Conversation, Phase
<1>3. /\ filenumber + 1 \in 1 .. Len(filelist) /\ filelist \in FileList
      /\ Name(Path) \in Seq(Nat) /\ Len(Name(Path)) \in Nat
      /\ Contents \in Seq(Nat) /\ Len(Contents) \in Nat
  BY <1>1, PathIsNamed DEF Types
<1>4. SizeOf(Path) = Len(Contents) /\ filesize' = Len(Contents)
  <2>1. Len(Data(filelist[filenumber + 1])) < SizeLimit
    <3>1. DOMAIN filelist = 1 .. Len(filelist)
      BY <1>3, LenProperties DEF FileList
    <3> QED
      BY <1>3, <3>1 DEF Fits
  <2>2. Len(Contents) \in 0 .. SizeLimit - 1
    BY <1>3, <2>1, Unsigned DEF Contents, Path
  <2> QED
    BY <1>1, <2>2, Unsigned DEF SizeOf, Contents
<1>5. remaining = Len(filelist) - filenumber /\ remaining \in Nat
  BY <1>1 DEF Types, TypeOK
<1> DEFINE n == Len(Name(Path))
           announced == <<remaining, n>> \o Name(Path) \o <<SizeOf(Path)>>
<1>6. /\ announced \in Seq(Nat) /\ Len(announced) = 3 + n
      /\ announced[1] = remaining /\ announced[2] = n
      /\ \A k \in 1 .. n : announced[2 + k] = Name(Path)[k]
      /\ announced[3 + n] = Len(Contents)
      /\ line' = line \o announced
  <2> DEFINE counts == <<remaining, n>>
             name == Name(Path)
             size == <<SizeOf(Path)>>
  <2>1. /\ counts \in Seq(Nat) /\ Len(counts) = 2 /\ counts[1] = remaining /\ counts[2] = n
        /\ name \in Seq(Nat) /\ Len(name) = n
        /\ size \in Seq(Nat) /\ Len(size) = 1 /\ size[1] = Len(Contents)
        /\ n \in Nat
    BY <1>3, <1>4, <1>5
  <2>2. line \in Seq(Nat)
    BY <1>2 DEF Talking, Laid
  <2>3. line' = line \o counts \o name \o size
    BY <1>1
  <2> HIDE DEF counts, name, size, n
  <2> DEFINE all == counts \o name \o size
  <2>4. /\ line' = line \o all /\ all \in Seq(Nat) /\ Len(all) = 2 + n + 1
        /\ \A k \in 1 .. 2 : all[k] = counts[k]
        /\ \A k \in 1 .. n : all[2 + k] = name[k]
        /\ \A k \in 1 .. 1 : all[2 + n + k] = size[k]
    <3>1. counts \in Seq(Nat) /\ name \in Seq(Nat) /\ size \in Seq(Nat)
      BY <2>1
    <3>2. /\ line \o counts \o name \o size = line \o all
          /\ all \in Seq(Nat) /\ Len(all) = Len(counts) + Len(name) + Len(size)
          /\ \A k \in 1 .. Len(counts) : all[k] = counts[k]
          /\ \A k \in 1 .. Len(name) : all[Len(counts) + k] = name[k]
          /\ \A k \in 1 .. Len(size) : all[Len(counts) + Len(name) + k] = size[k]
      BY <2>2, <3>1, ThreePieces, SMTT(60)
    <3> HIDE DEF all
    <3> QED
      BY <2>1, <2>3, <3>2
  <2>5. all = announced
    BY DEF counts, name, size
  <2> HIDE DEF all, announced
  <2>6. all[1] = counts[1] /\ all[2] = counts[2] /\ all[2 + n + 1] = size[1] /\ 2 + n + 1 = 3 + n
    BY <2>1, <2>4
  <2> QED
    BY <2>1, <2>4, <2>5, <2>6 DEF name
<1> HIDE DEF announced
<1>7. \A k \in 1 .. Len(announced) : announced[k] = Symbol(filelist, filenumber + 1, 0 + k)
  <2>1. /\ NameLen(filelist, filenumber + 1) = n /\ DataLen(filelist, filenumber + 1) = Len(Contents)
        /\ Name(filelist[filenumber + 1]) = Name(Path)
    BY DEF NameLen, DataLen, Contents, Path
  <2>2. /\ Symbol(filelist, filenumber + 1, 1) = Len(filelist) - (filenumber + 1) + 1
        /\ Symbol(filelist, filenumber + 1, 2) = n
        /\ \A k \in 1 .. n : Symbol(filelist, filenumber + 1, 2 + k) = Name(Path)[k]
        /\ Symbol(filelist, filenumber + 1, 3 + n) = Len(Contents)
    BY <1>3, <2>1, SymbolIs
  <2>3. Symbol(filelist, filenumber + 1, 1) = remaining
    <3>1. Len(filelist) \in Nat /\ filenumber \in Nat
      BY <1>1, <1>3, LenProperties DEF FileList, Types, TypeOK
    <3> QED
      BY <1>5, <2>2, <3>1
  <2> SUFFICES ASSUME NEW k \in 1 .. 3 + n
               PROVE  announced[k] = Symbol(filelist, filenumber + 1, k)
    BY <1>6
  <2>4. n \in Nat
    BY <1>3
  <2> HIDE DEF n
  <2>5. k = 1 \/ k = 2 \/ k = 3 + n \/ (k - 2 \in 1 .. n /\ 2 + (k - 2) = k)
    BY <2>4
  <2> QED
    BY <1>6, <2>2, <2>3, <2>5
<1>8. Given = 0 /\ End = 0 /\ Given' = 3 + n /\ End' = 0
  <2>1. Given' = 3 + NameLen(filelist, filenumber + 1) + 0
    BY <1>1 DEF Given, NameLen
  <2>2. NameLen(filelist, filenumber + 1) = n
    BY DEF NameLen, Path
  <2> QED
    BY <1>1, <1>3, <2>1, <2>2 DEF Given, End
<1>9. \A o \in Nat : Laid(filelist, line, Len(got), o, filenumber, Given, End) =>
                     Laid(filelist, line', Len(got), o, filenumber', Given', End')
  <2> SUFFICES ASSUME NEW o \in Nat, Laid(filelist, line, Len(got), o, filenumber, 0, 0)
               PROVE  Laid(filelist, line \o announced, Len(got), o, filenumber, Len(announced), 0)
    BY <1>1, <1>6, <1>8
  <2> DEFINE p == 0
  <2>1. Laid(filelist, line, Len(got), o, filenumber, p, 0)
        /\ \A k \in 1 .. Len(announced) : announced[k] = Symbol(filelist, filenumber + 1, p + k)
    BY <1>7
  <2> HIDE DEF p
  <2>2. Laid(filelist, line \o announced, Len(got), o, filenumber, p + Len(announced), 0)
    BY <1>3, <1>6, <2>1, SymbolsPut
  <2>3. p + Len(announced) = Len(announced)
    BY <1>3, <1>6 DEF p
  <2> QED
    BY <2>2, <2>3
<1>10. ReadSoFar'
  <2>1. Contents' = Contents
    BY <1>1 DEF Contents, Path
  <2>2. Begins(<<>>, Contents)
    BY <1>3 DEF Begins
  <2>3. filesize' = Len(Contents) - 0
    BY <1>3, <1>4
  <2> QED
    BY <1>1, <2>1, <2>2, <2>3 DEF ReadSoFar
<1> QED
  BY <1>1, <1>2, <1>9, <1>10, TalkingGoesOn

LEMMA ChunkSent ==
  ASSUME Types, Fits, Conversation, SendChunk
  PROVE  Conversation'
<1>1. /\ pc = "chunks" /\ filenumber < Len(filelist)
      /\ line' = line \o ChunkBytes /\ crc' = crc \o ChunkBytes
      /\ filesize' = Minus(filesize, Len(ChunkBytes))
      /\ UNCHANGED <<pc, filelist, filenumber, remaining, answer, vdp>>
  BY DEF SendChunk, ChunkBytes, Types
<1>2. Talking
  BY <1>1 DEF Conversation, Phase
<1>3. /\ filenumber + 1 \in 1 .. Len(filelist) /\ filelist \in FileList
      /\ Contents \in Seq(Nat) /\ Len(Contents) \in Nat
      /\ Len(Name(Path)) \in Nat
  BY <1>1, PathIsNamed DEF Types
<1>4. /\ position' \in position .. Len(Contents)
      /\ ChunkBytes \in Seq(Nat) /\ Len(ChunkBytes) = position' - position
      /\ \A k \in 1 .. Len(ChunkBytes) : ChunkBytes[k] = Contents[position + k]
  BY ChunkIsNext
<1> DEFINE a == position
           b == position'
           n == Len(Name(Path))
           d == Len(Contents)
           s == ChunkBytes
<1>5. a \in 0 .. d /\ b \in a .. d /\ d \in Nat /\ n \in Nat
      /\ s \in Seq(Nat) /\ Len(s) = b - a /\ \A k \in 1 .. Len(s) : s[k] = Contents[a + k]
  BY <1>1, <1>3, <1>4 DEF Types
<1>6. /\ filesize = d - a /\ Begins(crc, Contents) /\ Len(crc) = a
  BY <1>1 DEF Conversation, ReadSoFar
<1>7. Given = 3 + n + a /\ Given' = 3 + n + b /\ End = 0 /\ End' = 0 /\ Contents' = Contents
  BY <1>1 DEF Given, End, NameLen, Path, Contents
<1>8. filesize' = d - b
  <2>1. d < SizeLimit
    <3>1. DOMAIN filelist = 1 .. Len(filelist)
      BY <1>3, LenProperties DEF FileList
    <3> QED
      BY <1>3, <3>1 DEF Fits, Contents, Path
  <2>2. filesize' = (filesize - (b - a)) % SizeLimit
    BY <1>1, <1>5 DEF Minus
  <2> HIDE DEF a, b, d, n, s
  <2>3. filesize - (b - a) = d - b /\ d - b \in 0 .. SizeLimit - 1
    BY <1>5, <1>6, <2>1, Unsigned
  <2> QED
    BY <2>2, <2>3, Unsigned
<1>9. \A k \in 1 .. Len(s) : s[k] = Symbol(filelist, filenumber + 1, (3 + n + a) + k)
  <2> SUFFICES ASSUME NEW k \in 1 .. Len(s)
               PROVE  Contents[a + k] = Symbol(filelist, filenumber + 1, (3 + n + a) + k)
    BY <1>5
  <2>1. n = NameLen(filelist, filenumber + 1) /\ d = DataLen(filelist, filenumber + 1)
        /\ Contents = Data(filelist[filenumber + 1])
    BY DEF NameLen, DataLen, Contents, Path
  <2>2. \A m \in 1 .. d : Symbol(filelist, filenumber + 1, 3 + n + m) = Contents[m]
    BY <1>3, <2>1, SymbolIs
  <2> HIDE DEF a, b, d, n, s
  <2>3. a + k \in 1 .. d /\ 3 + n + (a + k) = (3 + n + a) + k
    BY <1>5
  <2> QED
    BY <2>2, <2>3
<1>10. \A o \in Nat : Laid(filelist, line, Len(got), o, filenumber, Given, End) =>
                      Laid(filelist, line', Len(got), o, filenumber', Given', End')
  <2> SUFFICES ASSUME NEW o \in Nat, Laid(filelist, line, Len(got), o, filenumber, 3 + n + a, 0)
               PROVE  Laid(filelist, line \o s, Len(got), o, filenumber, 3 + n + b, 0)
    BY <1>1, <1>7
  <2> DEFINE p == 3 + n + a
  <2>1. p + Len(s) = 3 + n + b
    <3> HIDE DEF a, b, d, n, s
    <3> QED
      BY <1>5 DEF p
  <2>2. /\ Laid(filelist, line, Len(got), o, filenumber, p, 0)
        /\ \A k \in 1 .. Len(s) : s[k] = Symbol(filelist, filenumber + 1, p + k)
    BY <1>9
  <2> HIDE DEF p, s
  <2>3. Laid(filelist, line \o s, Len(got), o, filenumber, p + Len(s), 0)
    BY <1>3, <1>5, <2>2, SymbolsPut
  <2> QED
    BY <2>1, <2>3
<1>11. ReadSoFar'
  <2>1. crc \in Seq(Nat) /\ Len(crc) <= Len(Contents)
        /\ \A k \in 1 .. Len(crc) : crc[k] = Contents[k]
    BY <1>6 DEF Begins
  <2> DEFINE more == crc \o s
  <2>2. /\ more \in Seq(Nat) /\ Len(more) = Len(crc) + Len(s)
        /\ \A k \in 1 .. Len(crc) + Len(s) :
             more[k] = IF k <= Len(crc) THEN crc[k] ELSE s[k - Len(crc)]
    BY <1>5, <2>1, ConcatProperties
  <2>3. crc' = more
    BY <1>1
  <2> HIDE DEF more, a, b, d, n, s
  <2>4. Len(more) = b /\ b <= d
    BY <1>5, <1>6, <2>2
  <2>5. \A k \in 1 .. Len(more) : more[k] = Contents[k]
    <3> TAKE k \in 1 .. Len(more)
    <3>1. CASE k <= a
      <4>1. k \in 1 .. Len(crc) /\ k \in 1 .. Len(crc) + Len(s)
        BY <1>5, <1>6, <2>4, <3>1
      <4> QED
        BY <1>6, <2>1, <2>2, <3>1, <4>1
    <3>2. CASE ~(k <= a)
      <4>1. k - a \in 1 .. Len(s) /\ k \in 1 .. Len(crc) + Len(s) /\ a + (k - a) = k
        BY <1>5, <1>6, <2>4, <3>2
      <4> QED
        BY <1>5, <1>6, <2>2, <3>2, <4>1
    <3> QED
      BY <3>1, <3>2
  <2>6. Begins(more, Contents)
    BY <2>2, <2>4, <2>5 DEF Begins, d
  <2>7. filesize' = Len(Contents) - position' /\ Begins(crc', Contents) /\ Len(crc') = position'
    BY <1>8, <2>3, <2>4, <2>6 DEF d, b
  <2> QED
    BY <1>7, <2>7 DEF ReadSoFar, Begins
<1> QED
  BY <1>1, <1>2, <1>10, <1>11, TalkingGoesOn

LEMMA CrcSent ==
  ASSUME Types, Fits, Conversation, SendCrc
  PROVE  Conversation'
<1>1. /\ pc = "chunks" /\ filesize = 0 /\ pc' = "open" /\ filenumber < Len(filelist)
      /\ line' = Append(line, Crc(crc)) /\ filenumber' = filenumber + 1
      /\ UNCHANGED <<filelist, filesize, position, crc, failed, answer, vdp>>
  BY DEF SendCrc, Types
<1>2. Talking
  BY <1>1 DEF Conversation, Phase
<1>3. /\ filenumber + 1 \in 1 .. Len(filelist) /\ filelist \in FileList
      /\ Contents \in Seq(Nat) /\ Len(Contents) \in Nat
      /\ Path \in Paths /\ Crc(Contents) \in Nat
  BY <1>1, PathIsNamed, FileAssumption DEF Types, FileAssumption, Contents
<1>4. crc = Contents /\ position = Len(Contents)
  <2>1. 0 = Len(Contents) - position /\ Begins(crc, Contents) /\ Len(crc) = position
        /\ position \in 0 .. Len(Contents)
    BY <1>1 DEF Conversation, ReadSoFar, Types
  <2>2. position = Len(Contents)
    BY <1>3, <2>1
  <2> QED
    BY <1>3, <2>1, <2>2, BeginsWhole
<1> DEFINE n == NameLen(filelist, filenumber + 1)
           d == DataLen(filelist, filenumber + 1)
           p == 3 + n + d
           s == <<Crc(Contents)>>
<1>5. /\ n \in Nat /\ d \in Nat /\ p + 1 = Size(filelist, filenumber + 1) /\ d = Len(Contents)
  <2>1. n \in Nat /\ d \in Nat
    BY <1>3, Sizes
  <2>2. d = Len(Contents) /\ Size(filelist, filenumber + 1) = 4 + n + d
    BY DEF DataLen, Contents, Path, Size
  <2> HIDE DEF n, d
  <2> QED
    BY <2>1, <2>2
<1>6. Given = p /\ End = 0 /\ Given' = 0 /\ End' = 0
  BY <1>1, <1>4, <1>5 DEF Given, End
<1>7. /\ s \in Seq(Nat) /\ Len(s) = 1
      /\ \A k \in 1 .. Len(s) : s[k] = Symbol(filelist, filenumber + 1, p + k)
  <2>1. Symbol(filelist, filenumber + 1, p + 1) = Crc(Contents)
    BY <1>3, <1>5, SymbolIs DEF Contents, Path
  <2> QED
    BY <1>3, <2>1
<1>8. \A o \in Nat : Laid(filelist, line, Len(got), o, filenumber, Given, End) =>
                     Laid(filelist, line', Len(got), o, filenumber', Given', End')
  <2> SUFFICES ASSUME NEW o \in Nat, Laid(filelist, line, Len(got), o, filenumber, p, 0)
               PROVE  Laid(filelist, line', Len(got), o, filenumber + 1, 0, 0)
    BY <1>1, <1>6
  <2>1. line' = line \o s
    <3>1. line \in Seq(Nat)
      BY DEF Laid
    <3> QED
      BY <1>1, <1>3, <1>4, <3>1, AppendIsConcat
  <2> HIDE DEF p, s
  <2>2. Laid(filelist, line', Len(got), o, filenumber, p + Len(s), 0)
    BY <1>3, <1>7, <2>1, SymbolsPut
  <2>3. Laid(filelist, line', Len(got), o, filenumber, Size(filelist, filenumber + 1), 0)
    BY <1>5, <1>7, <2>2
  <2> QED
    BY <1>1, <1>3, <2>3, FileSent
<1>9. ReadSoFar'
  BY <1>1 DEF ReadSoFar
<1> QED
  BY <1>1, <1>2, <1>8, <1>9, TalkingGoesOn

\* The zero, behind a batch that is complete or cut short.
LEMMA EndSent ==
  ASSUME Types, Fits, Conversation, SendEnd \/ OpenFails
  PROVE  Conversation'
<1>1. /\ pc = "open" /\ pc' \in {"final", "ended"} /\ line' = Append(line, 0)
      /\ UNCHANGED <<filelist, filenumber, vdp>>
  BY DEF SendEnd, OpenFails
<1>2. Talking
  BY <1>1 DEF Conversation, Phase
<1>3. Given = 0 /\ End = 0 /\ Given' = 0 /\ End' = 1
  BY <1>1 DEF Given, End
<1>4. \A o \in Nat : Laid(filelist, line, Len(got), o, filenumber, Given, End) =>
                     Laid(filelist, line', Len(got), o, filenumber', Given', End')
  BY <1>1, <1>3, EndPut DEF Types
<1>5. ReadSoFar'
  BY <1>1 DEF ReadSoFar
<1> QED
  BY <1>1, <1>2, <1>4, <1>5, TalkingGoesOn

LEMMA OthersConverse ==
  ASSUME Types, Fits, Conversation, CheckFiles \/ Start \/ Hello \/ Final
  PROVE  Conversation'
<1>1. CASE CheckFiles
  <2>1. /\ pc = "check" /\ pc' \in {"start", "refused"} /\ UNCHANGED <<filelist, line, answer, vdp>>
    BY <1>1 DEF CheckFiles
  <2> QED
    BY <2>1, VdpStays DEF Conversation, Phase, Quiet, Talking, ReadSoFar, vdp
<1>2. CASE Start
  <2>1. /\ pc = "start" /\ pc' = "hello" /\ want' = "hello"
        /\ UNCHANGED <<filelist, line, answer, need, coming, got, told>>
    BY <1>2 DEF Start
  <2>2. Quiet /\ want = "request" /\ answer = "none"
    BY <2>1 DEF Conversation, Phase, Talking
  <2> QED
    BY <2>1, <2>2 DEF Conversation, Phase, Quiet, Received, Counted, ReadSoFar, Sent
<1>3. CASE Hello
  <2>1. /\ pc = "hello" /\ answer # "none" /\ pc' = IF answer = "C" THEN "open" ELSE "ended"
        /\ UNCHANGED <<filelist, filenumber, line, vdp>>
    BY <1>3 DEF Hello
  <2>2. Quiet /\ <<want, answer>> \in {<<"remaining", "C">>, <<"idle", "other">>}
    BY <2>1 DEF Conversation, Phase, Talking
  <2>3. Received' /\ Counted' /\ ReadSoFar'
    BY <2>1, VdpStays DEF Conversation, ReadSoFar
  <2>4. CASE answer = "C"
    <3>1. want = "remaining" /\ pc' = "open"
      BY <2>1, <2>2, <2>4
    <3>2. filenumber = 0 /\ filelist \in FileList
      BY <2>1 DEF Types
    <3>3. Laid(filelist, <<>>, 0, 0, 0, 0, 0)
      BY <3>2, LaidAtFirst
    <3>4. /\ line' = <<>> /\ Len(got') = 0 /\ filenumber' = 0 /\ Given' = 0 /\ End' = 0
          /\ want' = "remaining" /\ filelist' = filelist
      BY <2>1, <2>2, <3>1, <3>2 DEF Quiet, vdp, Given, End
    <3>5. Stage(0)' /\ 0 \in Nat
      BY <3>4 DEF Stage
    <3>6. Talking'
      BY <3>1, <3>3, <3>4, <3>5 DEF Talking
    <3> QED
      BY <2>3, <3>6 DEF Conversation, Phase
  <2>5. CASE answer # "C"
    BY <2>1, <2>2, <2>3, <2>5, VdpStays DEF Conversation, Phase
  <2> QED
    BY <2>4, <2>5
<1>4. CASE Final
  <2>1. /\ pc = "final" /\ pc' = "ended" /\ UNCHANGED <<filelist, filenumber, line, vdp>>
    BY <1>4 DEF Final
  <2>2. Given' = Given /\ End' = End /\ ReadSoFar'
    BY <2>1 DEF Given, End, ReadSoFar
  <2>3. CASE Talking
    <3>1. \A o \in Nat : Laid(filelist, line, Len(got), o, filenumber, Given, End) =>
                         Laid(filelist, line', Len(got), o, filenumber', Given', End')
      <4> HIDE DEF Given, End
      <4> QED
        BY <2>1, <2>2
    <3> QED
      BY <2>1, <2>2, <2>3, <3>1, TalkingGoesOn
  <2>4. CASE ~Talking
    <3>1. want = "idle"
      BY <2>1, <2>4 DEF Conversation, Phase
    <3> QED
      BY <2>1, <2>2, <3>1, VdpStays DEF Conversation, Phase
  <2> QED
    BY <2>3, <2>4
<1> QED
  BY <1>1, <1>2, <1>3, <1>4

LEMMA ConversationAtFirst ==
  ASSUME Init
  PROVE  Conversation
<1>1. Len(filelist) \in Nat
  BY TypesAtFirst, LenProperties DEF Types, FileList
<1>2. Nothing \in Files
  BY DEF Nothing, Files
<1> QED
  BY <1>1, <1>2 DEF Init, Conversation, Phase, Quiet, ReadSoFar, Received, Counted

LEMMA ConversationKept ==
  ASSUME Types, Fits, Conversation, [Next]_vars
  PROVE  Conversation'
<1>1. CASE Agon
  BY <1>1, FileOpened, ChunkSent, CrcSent, EndSent, OthersConverse DEF Agon
<1>2. CASE Vdp
  BY <1>2, VdpConverses
<1>3. CASE UNCHANGED vars
  <2>1. UNCHANGED <<agon, line, answer, vdp>>
    BY <1>3 DEF vars
  <2>2. Phase'
    <3>1. CASE Talking
      <4>1. PICK o \in Nat :
              Stage(o) /\ Laid(filelist, line, Len(got), o, filenumber, Given, End)
        BY <3>1 DEF Talking
      <4>2. Stage(o)' /\ Given' = Given /\ End' = End
        BY <2>1, <4>1 DEF agon, vdp, Stage, NextName, NextData, Given, End, NameLen
      <4>3. Laid(filelist', line', Len(got'), o, filenumber', Given', End')
        <5> HIDE DEF Given, End
        <5> QED
          BY <2>1, <4>1, <4>2 DEF agon, vdp
      <4>4. Talking'
        BY <2>1, <3>1, <4>2, <4>3 DEF Talking, agon, vdp
      <4> QED
        BY <4>4 DEF Phase
    <3>2. CASE ~Talking
      BY <2>1, <3>2 DEF Conversation, Phase, Quiet, agon, vdp
    <3> QED
      BY <3>1, <3>2
  <2>3. ReadSoFar' /\ Received' /\ Counted'
    BY <2>1 DEF Conversation, ReadSoFar, Received, Counted, Contents, Path, Sent, agon, vdp
  <2> QED
    BY <2>2, <2>3 DEF Conversation
<1> QED
  BY <1>1, <1>2, <1>3 DEF Next

LEMMA ConversationHolds == Spec => [](Types /\ (Fits => Conversation))
<1>1. Init => Types /\ (Fits => Conversation)
  BY TypesAtFirst, ConversationAtFirst
<1>2. Types /\ (Fits => Conversation) /\ [Next]_vars => (Types /\ (Fits => Conversation))'
  <2> SUFFICES ASSUME Types, Fits => Conversation, [Next]_vars
               PROVE  Types' /\ (Fits' => Conversation')
    OBVIOUS
  <2>1. Types'
    BY TypesKept
  <2>2. filelist' = filelist
    BY DEF Next, Agon, Vdp, vars, agon, CheckFiles, Start, Hello, OpenFile, OpenFails, SendChunk,
       SendCrc, SendEnd, Final, AnswerHello, TakeRemaining, TakeLength, TakeByte, BlockTaken,
       TakeCrc, Expect
  <2>3. Fits' => Fits
    BY <2>2 DEF Fits
  <2> QED
    BY <2>1, <2>3, ConversationKept
<1> QED
  BY <1>1, <1>2, PTL DEF Spec

\* All that the VDP has taken are the first files named, whole, and what is
\* coming is the beginning of the next, although both sides only count.
THEOREM TakenAsSent == Spec => []GotIsSent
<1>1. Types /\ (Fits => Conversation) => GotIsSent
  <2> SUFFICES ASSUME Types, Fits, Conversation
               PROVE  /\ Len(got) <= Len(filelist) /\ \A i \in DOMAIN got : got[i] = Sent(i)
                      /\ want \in {"size", "data", "crc"} =>
                           /\ Len(got) < Len(filelist)
                           /\ coming.filename = NextName
                           /\ coming.data = SubSeq(NextData, 1, Len(coming.data))
    BY DEF GotIsSent, NextName, NextData
  <2>1. Len(got) <= Len(filelist) /\ \A i \in DOMAIN got : got[i] = Sent(i)
    <3>1. got \in Seq(Files)
      BY DEF Conversation, Received
    <3>2. DOMAIN got = 1 .. Len(got)
      BY <3>1, LenProperties
    <3> QED
      BY <3>2 DEF Conversation, Received
  <2>2. ASSUME want \in {"size", "data", "crc"}
        PROVE  /\ Len(got) < Len(filelist)
               /\ coming.filename = NextName
               /\ coming.data = SubSeq(NextData, 1, Len(coming.data))
    <3>1. Talking
      BY <2>2 DEF Conversation, Phase, Quiet
    <3>2. Len(got) < Len(filelist) /\ \E o \in Nat : Stage(o)
      BY <2>2, <3>1 DEF Talking
    <3>3. NextData \in Seq(Nat)
      BY <3>2, NextFile DEF Conversation
    <3>4. coming.filename = NextName /\ Begins(coming.data, NextData)
      <4>1. \A o \in Nat : Stage(o) =>
              coming.filename = NextName /\ (coming.data = <<>> \/ coming.data = NextData
                                            \/ Begins(coming.data, NextData))
        BY <2>2 DEF Stage
      <4>2. Begins(<<>>, NextData) /\ Begins(NextData, NextData)
        BY <3>3, LenProperties DEF Begins
      <4> QED
        BY <3>2, <4>1, <4>2
    <3>5. coming.data = SubSeq(NextData, 1, Len(coming.data))
      <4> DEFINE part == coming.data
                 n == Len(part)
                 cut == SubSeq(NextData, 1, n)
      <4>1. /\ part \in Seq(Nat) /\ n \in Nat /\ n <= Len(NextData) /\ Len(NextData) \in Nat
            /\ \A k \in 1 .. n : part[k] = NextData[k]
        BY <3>3, <3>4, LenProperties DEF Begins
      <4> HIDE DEF n
      <4>2. \A m \in 1 .. n : m \in 1 .. Len(NextData)
        BY <4>1
      <4>3. cut \in Seq(Nat) /\ Len(cut) = (IF 1 <= n THEN n - 1 + 1 ELSE 0)
            /\ \A i \in 1 .. n - 1 + 1 : cut[i] = NextData[1 + i - 1]
        BY <3>3, <4>1, <4>2, SubSeqProperties
      <4> HIDE DEF part, cut
      <4>4. Len(cut) = n /\ \A i \in 1 .. n : cut[i] = NextData[i]
        BY <4>1, <4>3
      <4>5. Len(part) = n
        BY DEF n
      <4>6. part = cut
        BY <4>1, <4>3, <4>4, <4>5, SeqEqual
      <4> QED
        BY <4>6 DEF part, cut, n
    <3> QED
      BY <3>2, <3>4, <3>5
  <2> QED
    BY <2>1, <2>2
<1> QED
  BY <1>1, ConversationHolds, PTL

\* Once the VDP has been told the end, the last count it was told is 1 if and
\* only if every file named has come.
THEOREM LastCountTells == Spec => []ShortBatchShows
<1>1. Types /\ (Fits => Conversation) => ShortBatchShows
  <2> SUFFICES ASSUME Types, Conversation, want = "idle", told # <<>>
               PROVE  Len(got) = Len(filelist) <=> told[Len(told)] = 1
    BY DEF ShortBatchShows
  <2>1. /\ told[Len(told)] = Len(filelist) - Len(told) + 1 /\ Len(told) = Len(got) + 0
    BY DEF Conversation, Counted
  <2>2. Len(filelist) \in Nat /\ Len(got) \in Nat
    BY LenProperties DEF Types, FileList, Conversation, Received
  <2> DEFINE g == Len(got)
             n == Len(filelist)
  <2> HIDE DEF g, n
  <2>3. told[Len(told)] = n - g + 1 /\ n \in Nat /\ g \in Nat
    <3>1. Len(told) = g
      BY <2>1, <2>2 DEF g
    <3> QED
      BY <2>1, <2>2, <3>1 DEF g, n
  <2>4. g = n <=> n - g + 1 = 1
    BY <2>3
  <2> QED
    BY <2>3, <2>4 DEF g, n
<1> QED
  BY <1>1, ConversationHolds, PTL
=============================================================================
