---------------------------- MODULE YmodemCrcProofs ----------------------------
(***************************************************************************)
(* The checks, for every width of a byte and of a register, every          *)
(* polynomial and every text.                                              *)
(***************************************************************************)
EXTENDS YmodemCrc, SequenceTheorems, WellFoundedInduction, TLAPS

-----------------------------------------------------------------------------
(* Induction and iteration. *)

Smaller == {p \in Nat \X Nat : p[1] < p[2]}

LEMMA SmallerEnds == IsWellFoundedOn(Smaller, Nat)
  BY NatLessThanWellFounded DEF OpToRel, Smaller

LEMMA Induction ==
  ASSUME NEW T, 0 \in T, \A n \in Nat : n \in T => n + 1 \in T
  PROVE  \A n \in Nat : n \in T
<1> SUFFICES ASSUME NEW x \in Nat, x \notin T PROVE FALSE
  OBVIOUS
<1> DEFINE others == {n \in Nat : n \notin T}
<1>1. PICK d \in others : \A e \in others : ~(<<e, d>> \in Smaller)
  <2>1. others \subseteq Nat /\ others # {}
    OBVIOUS
  <2> HIDE DEF others
  <2> QED
    BY <2>1, SmallerEnds, WFMin
<1>2. d \in Nat /\ d \notin T /\ d # 0
  OBVIOUS
<1>3. d - 1 \in Nat
  BY <1>2
<1>4. d - 1 \in others
  BY <1>2, <1>3
<1>5. <<d - 1, d>> \in Smaller
  BY <1>2, <1>3 DEF Smaller
<1> QED
  BY <1>1, <1>4, <1>5

\* The steps of a loop, F[n] being what its n-th turn does.
IsRun(h, S, a, N, F) ==
  /\ h \in [0 .. N -> S] /\ h[0] = a
  /\ \A n \in 1 .. N : h[n] = F[n][h[n - 1]]

LEMMA Iteration ==
  ASSUME NEW S, NEW a \in S, NEW N \in Nat, NEW F \in [1 .. N -> [S -> S]]
  PROVE  \E h : IsRun(h, S, a, N, F)
<1> DEFINE Runs(n) == \E h \in [0 .. n -> S] : h[0] = a /\ \A k \in 1 .. n : h[k] = F[k][h[k - 1]]
           T == {n \in Nat : n <= N => Runs(n)}
<1>1. 0 \in T
  <2> DEFINE g == [k \in 0 .. 0 |-> a]
  <2>1. g \in [0 .. 0 -> S] /\ g[0] = a /\ \A k \in 1 .. 0 : g[k] = F[k][g[k - 1]]
    OBVIOUS
  <2> HIDE DEF g
  <2>2. Runs(0)
    BY <2>1
  <2> QED
    BY <2>2
<1>2. ASSUME NEW n \in Nat, n \in T PROVE n + 1 \in T
  <2> SUFFICES ASSUME n + 1 <= N PROVE Runs(n + 1)
    OBVIOUS
  <2>1. PICK h \in [0 .. n -> S] : h[0] = a /\ \A k \in 1 .. n : h[k] = F[k][h[k - 1]]
    BY <1>2
  <2> DEFINE g == [k \in 0 .. n + 1 |-> IF k <= n THEN h[k] ELSE F[n + 1][h[n]]]
  <2>2. F[n + 1] \in [S -> S] /\ h[n] \in S
    BY <1>2
  <2>3. g \in [0 .. n + 1 -> S] /\ g[0] = a
    BY <1>2, <2>1, <2>2
  <2>4. ASSUME NEW k \in 1 .. n + 1 PROVE g[k] = F[k][g[k - 1]]
    <3>1. CASE k <= n
      BY <2>1, <3>1
    <3>2. CASE ~(k <= n)
      <4>1. k = n + 1 /\ k - 1 = n
        BY <3>2
      <4> QED
        BY <4>1
    <3> QED
      BY <3>1, <3>2
  <2> QED
    BY <2>3, <2>4
<1>3. \A n \in Nat : n \in T
  <2> HIDE DEF T
  <2> QED
    BY <1>1, <1>2, Induction
<1> QED
  BY <1>3 DEF IsRun

-----------------------------------------------------------------------------
(* Words. *)

Words(bits) == SUBSET (0 .. bits - 1)

\* The register after each of a byte's shifts.
Shifts(crc, bits, poly) ==
  LET after[n \in 0 .. ByteBits] == IF n = 0 THEN crc ELSE ShiftBit(after[n - 1], bits, poly)
  IN  after

LEMMA XorBits ==
  \A v, w : \A i : i \in Xor(v, w) <=> ~(i \in v <=> i \in w)
  BY DEF Xor

LEMMA ShiftBits ==
  ASSUME NEW bits \in Nat, bits > 0, NEW poly \in Words(bits), NEW crc \in Words(bits)
  PROVE  /\ ShiftBit(crc, bits, poly) \in Words(bits)
         /\ \A j \in Int : j \in ShiftBit(crc, bits, poly) <=>
              ~((j - 1 \in crc /\ j # bits) <=> (bits - 1 \in crc /\ j \in poly))
<1> DEFINE shifted == {i + 1 : i \in crc \ {bits - 1}}
<1>1. \A j \in Int : j \in shifted <=> j - 1 \in crc /\ j # bits
  BY DEF Words
<1>2. shifted \in Words(bits)
  BY DEF Words
<1>3. ShiftBit(crc, bits, poly) = IF bits - 1 \in crc THEN Xor(shifted, poly) ELSE shifted
  BY DEF ShiftBit
<1> HIDE DEF shifted
<1>4. ShiftBit(crc, bits, poly) \in Words(bits)
  BY <1>2, <1>3 DEF Words, Xor
<1> QED
  BY <1>1, <1>3, <1>4, XorBits

LEMMA ShiftsAre ==
  ASSUME NEW bits \in Nat, bits > 0, NEW poly \in Words(bits), NEW crc \in Words(bits)
  PROVE  /\ Shifts(crc, bits, poly) \in [0 .. ByteBits -> Words(bits)]
         /\ Shifts(crc, bits, poly)[0] = crc
         /\ \A n \in 1 .. ByteBits : Shifts(crc, bits, poly)[n] =
              ShiftBit(Shifts(crc, bits, poly)[n - 1], bits, poly)
<1> DEFINE F == [n \in 1 .. ByteBits |-> [w \in Words(bits) |-> ShiftBit(w, bits, poly)]]
           Is(h) == h = [n \in 0 .. ByteBits |-> IF n = 0 THEN crc ELSE ShiftBit(h[n - 1], bits, poly)]
<1>1. ByteBits \in Nat \ {0}
  BY CrcAssumption DEF CrcAssumption
<1>2. F \in [1 .. ByteBits -> [Words(bits) -> Words(bits)]]
  BY ShiftBits
<1>3. PICK h \in [0 .. ByteBits -> Words(bits)] :
        h[0] = crc /\ \A n \in 1 .. ByteBits : h[n] = F[n][h[n - 1]]
  <2> DEFINE W == Words(bits)
  <2>1. ByteBits \in Nat /\ crc \in W /\ F \in [1 .. ByteBits -> [W -> W]]
    BY <1>1, <1>2
  <2> HIDE DEF F, W
  <2>2. \E h : IsRun(h, W, crc, ByteBits, F)
    BY <2>1, Iteration
  <2> QED
    BY <2>2 DEF W, IsRun
<1>4. ASSUME NEW n \in 1 .. ByteBits
      PROVE  n - 1 \in 0 .. ByteBits /\ h[n] = ShiftBit(h[n - 1], bits, poly)
  <2>1. n - 1 \in 0 .. ByteBits
    BY <1>1
  <2>2. F[n][h[n - 1]] = ShiftBit(h[n - 1], bits, poly)
    BY <1>3, <2>1
  <2> QED
    BY <1>3, <2>1, <2>2
<1>5. Is(h)
  BY <1>1, <1>3, <1>4
<1>6. Shifts(crc, bits, poly) = CHOOSE g : Is(g)
  BY DEF Shifts
<1>7. Is(Shifts(crc, bits, poly))
  BY <1>5, <1>6
<1> DEFINE s == Shifts(crc, bits, poly)
<1>8. s = [n \in 0 .. ByteBits |-> IF n = 0 THEN crc ELSE ShiftBit(s[n - 1], bits, poly)]
  BY <1>7
<1> HIDE DEF s, Is
<1>9. /\ DOMAIN s = 0 .. ByteBits /\ s[0] = crc
      /\ \A n \in 1 .. ByteBits : s[n] = ShiftBit(s[n - 1], bits, poly)
  <2>1. \A n \in 0 .. ByteBits : s[n] = IF n = 0 THEN crc ELSE ShiftBit(s[n - 1], bits, poly)
    BY <1>8, Zenon
  <2>2. DOMAIN s = 0 .. ByteBits
    BY <1>8, Zenon
  <2> QED
    BY <1>1, <2>1, <2>2
<1> DEFINE T == {n \in Nat : n <= ByteBits => s[n] \in Words(bits)}
<1>10. 0 \in T
  BY <1>9
<1>11. ASSUME NEW n \in Nat, n \in T PROVE n + 1 \in T
  <2> SUFFICES ASSUME n + 1 <= ByteBits PROVE s[n + 1] \in Words(bits)
    OBVIOUS
  <2>1. n + 1 \in 1 .. ByteBits /\ (n + 1) - 1 = n /\ s[n] \in Words(bits)
    BY <1>1, <1>11
  <2> QED
    BY <1>9, <2>1, ShiftBits
<1>12. \A n \in Nat : n \in T
  <2> HIDE DEF T
  <2> QED
    BY <1>10, <1>11, Induction
<1>13. \A n \in 0 .. ByteBits : s[n] \in Words(bits)
  BY <1>1, <1>12
<1>14. s \in [0 .. ByteBits -> Words(bits)]
  BY <1>8, <1>9, <1>13
<1> QED
  BY <1>9, <1>14 DEF s

-----------------------------------------------------------------------------
(* The Agon's register is the PC's, reversed. *)

Low == 0 .. ByteBits - 1

\* A word is at least a byte wide.
LEMMA Widths ==
  /\ ByteBits \in Nat \ {0}
  /\ Bits16 \in Nat /\ Bits16 >= ByteBits /\ Poly16 \in Words(Bits16)
  /\ Bits32 \in Nat /\ Bits32 >= ByteBits /\ Poly32 \in Words(Bits32)
<1>1. ASSUME NEW bits \in Nat, NEW b \in Nat \ {0}, bits % b = 0, bits > 0 PROVE bits >= b
  <2> SUFFICES ASSUME bits < b PROVE bits % b = bits
    BY <1>1
  <2>1. bits = 0 * b + bits
    OBVIOUS
  <2> QED
    BY <2>1
<1> QED
  BY <1>1, CrcAssumption DEF CrcAssumption, Words

\* One turn of the loop that fills the table.
LowShift(w, poly) ==
  LET shifted == {i - 1 : i \in w \ {0}}
  IN  IF 0 \in w THEN Xor(shifted, poly) ELSE shifted

LowShifts(w) ==
  LET after[n \in 0 .. ByteBits] ==
        IF n = 0 THEN w
        ELSE LET shifted == {i - 1 : i \in after[n - 1] \ {0}}
             IN  IF 0 \in after[n - 1] THEN Xor(shifted, Reverse(Poly32, Bits32)) ELSE shifted
  IN  after

LEMMA ReverseBits ==
  ASSUME NEW bits \in Nat, NEW w \in Words(bits)
  PROVE  /\ Reverse(w, bits) \in Words(bits)
         /\ \A j \in Int : j \in Reverse(w, bits) <=> bits - 1 - j \in w
  BY DEF Reverse, Words

LEMMA LowShiftBits ==
  ASSUME NEW bits \in Nat, bits > 0, NEW poly \in Words(bits), NEW w \in Words(bits)
  PROVE  /\ LowShift(w, poly) \in Words(bits)
         /\ \A j \in Int : j \in LowShift(w, poly) <=>
              ~((j + 1 \in w /\ j + 1 # 0) <=> (0 \in w /\ j \in poly))
<1> DEFINE shifted == {i - 1 : i \in w \ {0}}
<1>1. \A j \in Int : j \in shifted <=> j + 1 \in w /\ j + 1 # 0
  BY DEF Words
<1>2. shifted \in Words(bits)
  BY DEF Words
<1>3. LowShift(w, poly) = IF 0 \in w THEN Xor(shifted, poly) ELSE shifted
  BY DEF LowShift
<1> HIDE DEF shifted
<1>4. LowShift(w, poly) \in Words(bits)
  BY <1>2, <1>3 DEF Words, Xor
<1> QED
  BY <1>1, <1>3, <1>4, XorBits

\* Words of equal bits are equal.
LEMMA SameBits ==
  ASSUME NEW bits \in Nat, NEW v \in Words(bits), NEW w \in Words(bits),
         \A j \in 0 .. bits - 1 : j \in v <=> j \in w
  PROVE  v = w
  BY DEF Words

LEMMA XorWords ==
  ASSUME NEW bits \in Nat, NEW v \in Words(bits), NEW w \in Words(bits)
  PROVE  Xor(v, w) \in Words(bits)
  BY DEF Words, Xor

LEMMA LowShiftsAre ==
  ASSUME NEW w \in Words(Bits32)
  PROVE  /\ LowShifts(w) \in [0 .. ByteBits -> Words(Bits32)]
         /\ LowShifts(w)[0] = w
         /\ \A n \in 1 .. ByteBits : LowShifts(w)[n] =
              LowShift(LowShifts(w)[n - 1], Reverse(Poly32, Bits32))
<1> DEFINE W == Words(Bits32)
           P == Reverse(Poly32, Bits32)
           F == [n \in 1 .. ByteBits |-> [v \in W |-> LowShift(v, P)]]
           Is(h) == h = [n \in 0 .. ByteBits |-> IF n = 0 THEN w ELSE LowShift(h[n - 1], P)]
<1>1. ByteBits \in Nat \ {0} /\ Bits32 \in Nat /\ Bits32 > 0 /\ P \in W
  BY Widths, ReverseBits
<1>2. F \in [1 .. ByteBits -> [W -> W]]
  BY <1>1, LowShiftBits
<1>3. PICK h : IsRun(h, W, w, ByteBits, F)
  <2>1. ByteBits \in Nat /\ w \in W
    BY <1>1
  <2> HIDE DEF F, W
  <2> QED
    BY <1>2, <2>1, Iteration
<1>4. ASSUME NEW n \in 1 .. ByteBits
      PROVE  n - 1 \in 0 .. ByteBits /\ h[n] = LowShift(h[n - 1], P)
  <2>1. n - 1 \in 0 .. ByteBits
    BY <1>1
  <2>2. F[n][h[n - 1]] = LowShift(h[n - 1], P)
    BY <1>3, <2>1 DEF IsRun
  <2> QED
    BY <1>3, <2>1, <2>2 DEF IsRun
<1>5. Is(h)
  BY <1>1, <1>3, <1>4 DEF IsRun
<1>6. LowShifts(w) = CHOOSE g : Is(g)
  BY DEF LowShifts, LowShift
<1>7. Is(LowShifts(w))
  BY <1>5, <1>6
<1> DEFINE s == LowShifts(w)
<1>8. s = [n \in 0 .. ByteBits |-> IF n = 0 THEN w ELSE LowShift(s[n - 1], P)]
  BY <1>7
<1> HIDE DEF s, Is
<1>9. /\ DOMAIN s = 0 .. ByteBits /\ s[0] = w
      /\ \A n \in 1 .. ByteBits : s[n] = LowShift(s[n - 1], P)
  <2>1. \A n \in 0 .. ByteBits : s[n] = IF n = 0 THEN w ELSE LowShift(s[n - 1], P)
    BY <1>8, Zenon
  <2>2. DOMAIN s = 0 .. ByteBits
    BY <1>8, Zenon
  <2> QED
    BY <1>1, <2>1, <2>2
<1> DEFINE T == {n \in Nat : n <= ByteBits => s[n] \in W}
<1>10. 0 \in T
  BY <1>9
<1>11. ASSUME NEW n \in Nat, n \in T PROVE n + 1 \in T
  <2> SUFFICES ASSUME n + 1 <= ByteBits PROVE s[n + 1] \in W
    OBVIOUS
  <2>1. n + 1 \in 1 .. ByteBits /\ (n + 1) - 1 = n /\ s[n] \in W
    BY <1>1, <1>11
  <2> QED
    BY <1>1, <1>9, <2>1, LowShiftBits
<1>12. \A n \in Nat : n \in T
  <2> HIDE DEF T
  <2> QED
    BY <1>10, <1>11, Induction
<1>13. \A n \in 0 .. ByteBits : s[n] \in W
  BY <1>1, <1>12
<1>14. s \in [0 .. ByteBits -> W]
  BY <1>8, <1>9, <1>13
<1> QED
  BY <1>9, <1>14 DEF s

\* Shifting up and shifting the mirror image down are one thing.
LEMMA ReverseShift ==
  ASSUME NEW x \in Words(Bits32)
  PROVE  Reverse(ShiftBit(x, Bits32, Poly32), Bits32)
           = LowShift(Reverse(x, Bits32), Reverse(Poly32, Bits32))
<1> DEFINE B == Bits32
           s == ShiftBit(x, B, Poly32)
           r == Reverse(x, B)
           P == Reverse(Poly32, B)
           l == LowShift(r, P)
           m == Reverse(s, B)
<1>1. B \in Nat /\ B > 0 /\ Poly32 \in Words(B) /\ x \in Words(B)
  BY Widths
<1>2. /\ s \in Words(B)
      /\ \A j \in Int : j \in s <=> ~((j - 1 \in x /\ j # B) <=> (B - 1 \in x /\ j \in Poly32))
  BY <1>1, ShiftBits
<1>3. /\ r \in Words(B) /\ P \in Words(B)
      /\ \A j \in Int : j \in r <=> B - 1 - j \in x
      /\ \A j \in Int : j \in P <=> B - 1 - j \in Poly32
  BY <1>1, ReverseBits
<1>4. m \in Words(B) /\ \A j \in Int : j \in m <=> B - 1 - j \in s
  BY <1>1, <1>2, ReverseBits
<1>5. /\ l \in Words(B)
      /\ \A j \in Int : j \in l <=> ~((j + 1 \in r /\ j + 1 # 0) <=> (0 \in r /\ j \in P))
  BY <1>1, <1>3, LowShiftBits
<1> HIDE DEF B, s, r, P, l, m
<1>6. ASSUME NEW j \in 0 .. B - 1 PROVE j \in m <=> j \in l
  <2> DEFINE k == B - 1 - j
  <2>1. /\ j \in Int /\ k \in Int /\ k - 1 \in Int /\ j + 1 \in Int /\ 0 \in Int
        /\ k = B - 1 - j /\ k - 1 = B - 1 - (j + 1) /\ B - 1 = B - 1 - 0
        /\ (k # B <=> j + 1 # 0)
    BY <1>1
  <2> HIDE DEF k
  <2>2. j \in m <=> k \in s
    BY <1>4, <2>1
  <2>3. k \in s <=> ~((k - 1 \in x /\ k # B) <=> (B - 1 \in x /\ k \in Poly32))
    BY <1>2, <2>1
  <2>4. /\ j + 1 \in r <=> k - 1 \in x
        /\ 0 \in r <=> B - 1 \in x
        /\ j \in P <=> k \in Poly32
    BY <1>3, <2>1
  <2>5. j \in l <=> ~((j + 1 \in r /\ j + 1 # 0) <=> (0 \in r /\ j \in P))
    BY <1>5, <2>1
  <2> QED
    BY <2>1, <2>2, <2>3, <2>4, <2>5
<1>7. m = l
  BY <1>1, <1>4, <1>5, <1>6, SameBits
<1> QED
  BY <1>7 DEF m, l, s, r, P, B

LEMMA ReverseShifts ==
  ASSUME NEW x \in Words(Bits32)
  PROVE  Reverse(Shifts(x, Bits32, Poly32)[ByteBits], Bits32)
           = LowShifts(Reverse(x, Bits32))[ByteBits]
<1> DEFINE B == Bits32
           W == Words(B)
           s == Shifts(x, B, Poly32)
           r == Reverse(x, B)
           l == LowShifts(r)
           T == {n \in Nat : n <= ByteBits => Reverse(s[n], B) = l[n]}
<1>1. B \in Nat /\ B > 0 /\ Poly32 \in W /\ x \in W /\ r \in W /\ ByteBits \in Nat
  BY Widths, ReverseBits
<1>2. /\ s \in [0 .. ByteBits -> W] /\ s[0] = x
      /\ \A n \in 1 .. ByteBits : s[n] = ShiftBit(s[n - 1], B, Poly32)
  BY <1>1, ShiftsAre
<1>3. /\ l \in [0 .. ByteBits -> W] /\ l[0] = r
      /\ \A n \in 1 .. ByteBits : l[n] = LowShift(l[n - 1], Reverse(Poly32, B))
  BY <1>1, LowShiftsAre
<1>4. 0 \in T
  BY <1>2, <1>3
<1> HIDE DEF s, l
<1>5. ASSUME NEW n \in Nat, n \in T PROVE n + 1 \in T
  <2> SUFFICES ASSUME n + 1 <= ByteBits PROVE Reverse(s[n + 1], B) = l[n + 1]
    OBVIOUS
  <2>1. /\ n + 1 \in 1 .. ByteBits /\ (n + 1) - 1 = n /\ n \in 0 .. ByteBits
        /\ Reverse(s[n], B) = l[n]
    BY <1>1, <1>5
  <2>2. s[n] \in W
    BY <1>2, <2>1
  <2>3. s[n + 1] = ShiftBit(s[n], B, Poly32)
    BY <1>2, <2>1
  <2>4. l[n + 1] = LowShift(l[n], Reverse(Poly32, B))
    BY <1>3, <2>1
  <2> QED
    BY <2>1, <2>2, <2>3, <2>4, ReverseShift
<1>6. \A n \in Nat : n \in T
  <2> HIDE DEF T
  <2> QED
    BY <1>4, <1>5, Induction
<1>7. Reverse(s[ByteBits], B) = l[ByteBits]
  BY <1>1, <1>6
<1> QED
  BY <1>7 DEF s, l

\* Bits above the lowest byte only move while it is shifted out.
LEMMA SplitShifts ==
  ASSUME NEW x \in Words(Bits32)
  PROVE  /\ x \cap Low \in Words(Bits32)
         /\ LowShifts(x)[ByteBits]
              = Xor(LowShifts(x \cap Low)[ByteBits], {i - ByteBits : i \in x \ Low})
<1> DEFINE B == Bits32
           W == Words(B)
           P == Reverse(Poly32, B)
           y == x \cap Low
           u == LowShifts(x)
           v == LowShifts(y)
           Splits(n) == \A j \in 0 .. B - 1 :
             j \in u[n] <=> ~(j \in v[n] <=> (j + n \in x /\ j + n >= ByteBits))
           T == {n \in Nat : n <= ByteBits => Splits(n)}
<1>1. /\ B \in Nat /\ B > 0 /\ P \in W /\ x \in W /\ y \in W /\ ByteBits \in Nat
      /\ ByteBits <= B
  BY Widths, ReverseBits DEF Words, Low
<1>2. /\ u \in [0 .. ByteBits -> W] /\ u[0] = x
      /\ \A n \in 1 .. ByteBits : u[n] = LowShift(u[n - 1], P)
  BY <1>1, LowShiftsAre
<1>3. /\ v \in [0 .. ByteBits -> W] /\ v[0] = y
      /\ \A n \in 1 .. ByteBits : v[n] = LowShift(v[n - 1], P)
  BY <1>1, LowShiftsAre
<1> HIDE DEF u, v, P
<1>4. 0 \in T
  <2>1. ASSUME NEW j \in 0 .. B - 1 PROVE j \in y <=> (j \in x /\ j < ByteBits)
    BY <1>1 DEF Low
  <2> HIDE DEF y
  <2>2. \A j \in 0 .. B - 1 : j + 0 = j /\ (j >= ByteBits <=> ~(j < ByteBits))
    BY <1>1
  <2> QED
    BY <1>2, <1>3, <2>1, <2>2
<1>5. ASSUME NEW n \in Nat, n \in T PROVE n + 1 \in T
  <2> SUFFICES ASSUME n + 1 <= ByteBits PROVE Splits(n + 1)
    OBVIOUS
  <2>1. n + 1 \in 1 .. ByteBits /\ (n + 1) - 1 = n /\ n \in 0 .. ByteBits /\ Splits(n)
    BY <1>1, <1>5
  <2> SUFFICES ASSUME NEW j \in 0 .. B - 1
               PROVE  j \in u[n + 1] <=>
                        ~(j \in v[n + 1] <=> (j + (n + 1) \in x /\ j + (n + 1) >= ByteBits))
    OBVIOUS
  <2>2. u[n] \in W /\ v[n] \in W
    BY <1>2, <1>3, <2>1
  <2>3. u[n + 1] = LowShift(u[n], P) /\ v[n + 1] = LowShift(v[n], P)
    BY <1>2, <1>3, <2>1
  <2> DEFINE un == u[n]
             vn == v[n]
             um == u[n + 1]
             vm == v[n + 1]
  <2>4. j \in Int /\ j + 1 # 0 /\ (j + 1) + n = j + (n + 1) /\ 0 + n < ByteBits /\ 0 \in 0 .. B - 1
    BY <1>1
  <2>5. j \in um <=> ~(j + 1 \in un <=> (0 \in un /\ j \in P))
    <3>1. \A i \in Int : i \in LowShift(un, P) <=>
            ~((i + 1 \in un /\ i + 1 # 0) <=> (0 \in un /\ i \in P))
      <4>1. B \in Nat /\ B > 0 /\ P \in Words(B) /\ un \in Words(B)
        BY <1>1, <2>2
      <4> HIDE DEF un, B
      <4> QED
        BY <4>1, LowShiftBits
    <3>2. j \in LowShift(un, P) <=>
            ~((j + 1 \in un /\ j + 1 # 0) <=> (0 \in un /\ j \in P))
      BY <2>4, <3>1
    <3>3. um = LowShift(un, P)
      BY <2>3
    <3> HIDE DEF un, um
    <3> QED
      BY <2>4, <3>2, <3>3
  <2>6. j \in vm <=> ~(j + 1 \in vn <=> (0 \in vn /\ j \in P))
    <3>1. \A i \in Int : i \in LowShift(vn, P) <=>
            ~((i + 1 \in vn /\ i + 1 # 0) <=> (0 \in vn /\ i \in P))
      <4>1. B \in Nat /\ B > 0 /\ P \in Words(B) /\ vn \in Words(B)
        BY <1>1, <2>2
      <4> HIDE DEF vn, B
      <4> QED
        BY <4>1, LowShiftBits
    <3>2. j \in LowShift(vn, P) <=>
            ~((j + 1 \in vn /\ j + 1 # 0) <=> (0 \in vn /\ j \in P))
      BY <2>4, <3>1
    <3>3. vm = LowShift(vn, P)
      BY <2>3
    <3> HIDE DEF vn, vm
    <3> QED
      BY <2>4, <3>2, <3>3
  <2>7. 0 \in un <=> 0 \in vn
    <3>1. 0 \in un <=> ~(0 \in vn <=> (0 + n \in x /\ 0 + n >= ByteBits))
      BY <2>1, <2>4
    <3>2. ~(0 + n >= ByteBits)
      BY <1>1, <2>4
    <3> QED
      BY <3>1, <3>2
  <2>8. j + 1 \in un <=> ~(j + 1 \in vn <=> (j + (n + 1) \in x /\ j + (n + 1) >= ByteBits))
    <3>1. CASE j + 1 \in 0 .. B - 1
      BY <2>1, <2>4, <3>1
    <3>2. CASE j + 1 \notin 0 .. B - 1
      <4>1. j + 1 = B /\ j + (n + 1) >= B
        BY <1>1, <3>2
      <4>2. j + (n + 1) \notin x /\ j + 1 \notin un /\ j + 1 \notin vn
        BY <1>1, <2>2, <4>1 DEF Words
      <4> QED
        BY <4>2
    <3> QED
      BY <3>1, <3>2
  <2> HIDE DEF un, vn, um, vm
  <2>9. j \in um <=> ~(j \in vm <=> (j + (n + 1) \in x /\ j + (n + 1) >= ByteBits))
    BY <2>5, <2>6, <2>7, <2>8
  <2> QED
    BY <2>9 DEF um, vm
<1>6. \A n \in Nat : n \in T
  <2> HIDE DEF T
  <2> QED
    BY <1>4, <1>5, Induction
<1>7. Splits(ByteBits)
  BY <1>1, <1>6
<1> DEFINE h == {i - ByteBits : i \in x \ Low}
<1>8. h \in W /\ \A j \in 0 .. B - 1 : j \in h <=> (j + ByteBits \in x /\ j + ByteBits >= ByteBits)
  BY <1>1 DEF Words, Low
<1>9. u[ByteBits] \in W /\ v[ByteBits] \in W
  BY <1>1, <1>2, <1>3
<1> HIDE DEF h
<1>10. Xor(v[ByteBits], h) \in W
  BY <1>1, <1>8, <1>9, XorWords
<1>11. u[ByteBits] = Xor(v[ByteBits], h)
  BY <1>1, <1>7, <1>8, <1>9, <1>10, SameBits, XorBits
<1> QED
  BY <1>1, <1>11 DEF u, v, h

LEMMA XorInBits ==
  ASSUME NEW bits \in Nat, bits >= ByteBits, NEW crc \in Words(bits), NEW value \in Byte
  PROVE  /\ XorIn(crc, value, bits) \in Words(bits)
         /\ \A j \in Int : j \in XorIn(crc, value, bits) <=>
              ~(j \in crc <=> j - bits + ByteBits \in value)
<1> DEFINE up == {i + bits - ByteBits : i \in value}
<1>1. ByteBits \in Nat
  BY Widths
<1>2. up \in Words(bits) /\ \A j \in Int : j \in up <=> j - bits + ByteBits \in value
  BY <1>1 DEF Words, Byte
<1> HIDE DEF up
<1>3. XorIn(crc, value, bits) = Xor(crc, up)
  BY DEF XorIn, up
<1> QED
  BY <1>2, <1>3, XorWords, XorBits

LEMMA AddByteIs ==
  ASSUME NEW bits \in Nat, bits >= ByteBits, NEW poly \in Words(bits),
         NEW crc \in Words(bits), NEW value \in Byte
  PROVE  /\ AddByte(crc, value, bits, poly)
              = Shifts(XorIn(crc, value, bits), bits, poly)[ByteBits]
         /\ AddByte(crc, value, bits, poly) \in Words(bits)
<1>1. AddByte(crc, value, bits, poly) = Shifts(XorIn(crc, value, bits), bits, poly)[ByteBits]
  BY DEF AddByte, Shifts
<1>2. XorIn(crc, value, bits) \in Words(bits) /\ bits > 0 /\ ByteBits \in Nat
  BY Widths, XorInBits
<1>3. Shifts(XorIn(crc, value, bits), bits, poly) \in [0 .. ByteBits -> Words(bits)]
  BY <1>2, ShiftsAre
<1> QED
  BY <1>1, <1>2, <1>3

LEMMA ReverseByte ==
  ASSUME NEW value \in Byte
  PROVE  /\ Reverse(value, ByteBits) \in Byte
         /\ \A j \in Int : j \in Reverse(value, ByteBits) <=> ByteBits - 1 - j \in value
  BY Widths, ReverseBits DEF Byte, Words

\* A byte added on the PC and a byte added on the Agon.
LEMMA StepAgrees ==
  ASSUME NEW crc \in Words(Bits32), NEW value \in Byte
  PROVE  /\ Add32(crc, value) \in Words(Bits32)
         /\ Reverse(Add32(crc, value), Bits32) = TableStep(Reverse(crc, Bits32), value)
<1> DEFINE B == Bits32
           W == Words(B)
           turned == Reverse(value, ByteBits)
           in == XorIn(crc, turned, B)
           r == Reverse(crc, B)
           x == Xor(r, value)
           m == Reverse(in, B)
<1>1. /\ B \in Nat /\ B > 0 /\ B >= ByteBits /\ ByteBits \in Nat \ {0}
      /\ Poly32 \in W /\ crc \in W
  BY Widths
<1>2. turned \in Byte /\ \A j \in Int : j \in turned <=> ByteBits - 1 - j \in value
  BY ReverseByte
<1>3. in \in W /\ \A j \in Int : j \in in <=> ~(j \in crc <=> j - B + ByteBits \in turned)
  BY <1>1, <1>2, XorInBits
<1>4. Add32(crc, value) = Shifts(in, B, Poly32)[ByteBits] /\ Add32(crc, value) \in W
  BY <1>1, <1>2, AddByteIs DEF Add32
<1>5. r \in W /\ \A j \in Int : j \in r <=> B - 1 - j \in crc
  BY <1>1, ReverseBits
<1>6. m \in W /\ \A j \in Int : j \in m <=> B - 1 - j \in in
  BY <1>1, <1>3, ReverseBits
<1>7. value \in W
  BY <1>1 DEF Byte, Words
<1>8. x \in W /\ \A j : j \in x <=> ~(j \in r <=> j \in value)
  BY <1>1, <1>5, <1>7, XorWords, XorBits
<1>9. m = x
  <2> HIDE DEF B, turned, in, r, x, m
  <2>1. ASSUME NEW j \in 0 .. B - 1 PROVE j \in m <=> j \in x
    <3> DEFINE k == B - 1 - j
    <3>1. /\ j \in Int /\ k \in Int /\ k - B + ByteBits \in Int /\ k = B - 1 - j
          /\ ByteBits - 1 - (k - B + ByteBits) = j
      BY <1>1
    <3> HIDE DEF k
    <3>2. k - B + ByteBits \in turned <=> j \in value
      BY <1>2, <3>1
    <3>3. k \in in <=> ~(k \in crc <=> j \in value)
      BY <1>3, <3>1, <3>2
    <3>4. j \in m <=> k \in in
      BY <1>6, <3>1
    <3>5. j \in r <=> k \in crc
      BY <1>5, <3>1
    <3> QED
      BY <1>8, <3>3, <3>4, <3>5
  <2> QED
    BY <1>1, <1>6, <1>8, <2>1, SameBits DEF B
<1>10. Reverse(Add32(crc, value), B) = LowShifts(x)[ByteBits]
  BY <1>3, <1>4, <1>9, ReverseShifts
<1>11. x \cap Low = Xor(r \cap Low, value) /\ x \ Low = r \ Low
  <2>1. value \subseteq Low
    BY DEF Byte, Low
  <2> HIDE DEF r
  <2> QED
    BY <2>1 DEF Xor
<1>12. LowShifts(x)[ByteBits] = Xor(LowShifts(x \cap Low)[ByteBits], {i - ByteBits : i \in x \ Low})
  BY <1>8, SplitShifts
<1>13. Table[x \cap Low] = LowShifts(x \cap Low)[ByteBits]
  <2>1. x \cap Low \in Byte
    BY DEF Low, Byte
  <2> HIDE DEF x
  <2> QED
    BY <2>1 DEF Table, LowShifts
<1>14. TableStep(r, value) = Xor({i - ByteBits : i \in x \ Low}, Table[x \cap Low])
  BY <1>11 DEF TableStep, Ones, Low
<1>15. \A v, w : Xor(v, w) = Xor(w, v)
  BY DEF Xor
<1> HIDE DEF x, r
<1>16. Reverse(Add32(crc, value), B) = TableStep(r, value)
  BY <1>10, <1>12, <1>13, <1>14, <1>15
<1> QED
  BY <1>4, <1>16 DEF r

\* What the objects of the two programs have in common after each call.
CrcInv ==
  /\ text \in Seq(Byte) /\ finalized \in BOOLEAN
  /\ crc32 \in Words(Bits32)
  /\ crc32result = IF finalized THEN Inverted(Reverse(crc32, Bits32)) ELSE Reverse(crc32, Bits32)

LEMMA StartAgrees ==
  /\ Restart32 \in Words(Bits32)
  /\ Reverse(Restart32, Bits32) = Ones(Bits32)
<1>1. Bits32 \in Nat /\ Restart32 = 0 .. Bits32 - 1
  BY Widths DEF Restart32, Ones
<1>2. Restart32 \in Words(Bits32)
  BY <1>1 DEF Words
<1>3. /\ Reverse(Restart32, Bits32) \in Words(Bits32)
      /\ \A j \in Int : j \in Reverse(Restart32, Bits32) <=> Bits32 - 1 - j \in Restart32
  BY <1>1, <1>2, ReverseBits
<1>4. \A j \in 0 .. Bits32 - 1 : j \in Reverse(Restart32, Bits32) <=> j \in Restart32
  BY <1>1, <1>3
<1>5. Reverse(Restart32, Bits32) = Restart32
  BY <1>1, <1>2, <1>3, <1>4, SameBits
<1> QED
  BY <1>2, <1>5 DEF Restart32

LEMMA CrcInvHolds == Spec => []CrcInv
<1>1. Init => CrcInv
  <2> SUFFICES ASSUME Init PROVE CrcInv
    OBVIOUS
  <2>1. text \in Seq(Byte) /\ finalized = FALSE
    BY DEF Init
  <2>2. crc32 \in Words(Bits32) /\ crc32result = Reverse(crc32, Bits32)
    BY StartAgrees, Zenon DEF Init
  <2> QED
    BY <2>1, <2>2 DEF CrcInv
<1>2. CrcInv /\ [Next]_vars => CrcInv'
  <2> SUFFICES ASSUME CrcInv, [Next]_vars PROVE CrcInv'
    OBVIOUS
  <2>1. CASE Add
    <3>1. PICK value \in Byte :
            /\ text' = Append(text, value)
            /\ crc32' = Add32(crc32, value)
            /\ crc32result' = TableStep(crc32result, value)
      BY <2>1 DEF Add
    <3>2. ~finalized /\ finalized' = finalized
      BY <2>1 DEF Add
    <3>3. crc32result' = Reverse(crc32', Bits32) /\ crc32' \in Words(Bits32)
      BY <3>1, <3>2, StepAgrees DEF CrcInv
    <3>4. text' \in Seq(Byte)
      BY <3>1 DEF CrcInv
    <3> QED
      BY <3>2, <3>3, <3>4 DEF CrcInv
  <2>2. CASE Finalize
    BY <2>2 DEF Finalize, CrcInv
  <2>3. CASE NextText
    <3>1. text' \in Seq(Byte) /\ finalized' = FALSE
      BY <2>3 DEF NextText
    <3>2. crc32' = Restart32 /\ crc32result' = Ones(Bits32)
      BY <2>3, Zenon DEF NextText, Initialize
    <3>3. crc32' \in Words(Bits32) /\ crc32result' = Reverse(crc32', Bits32)
      BY <3>2, StartAgrees, Zenon
    <3> QED
      BY <3>1, <3>3 DEF CrcInv
  <2>4. CASE UNCHANGED vars
    BY <2>4 DEF vars, CrcInv
  <2> QED
    BY <2>1, <2>2, <2>3, <2>4 DEF Next
<1> QED
  BY <1>1, <1>2, PTL DEF Spec

\* The two programs mean the same by a CRC-32 (crc32 in the Agon's crc32.c,
\* CRC32 in the PC's library): table, byte order and inversion on the Agon
\* give what the bits give on the PC, for every polynomial and every text.
THEOREM AgonAgrees == Spec => []AgonAgreesWithPc
<1>1. CrcInv => AgonAgreesWithPc
  BY DEF CrcInv, AgonAgreesWithPc, Inverted, Calc32
<1> QED
  BY <1>1, CrcInvHolds, PTL

-----------------------------------------------------------------------------
(* The check of a block is a remainder. *)

\* One step of the division: the divisor taken away below the power k.
Divide(p, k, divisor, degree) ==
  IF k \in p THEN Xor(p, {i + k - degree : i \in divisor \cup {degree}}) ELSE p

LEMMA DivideBits ==
  ASSUME NEW p \in SUBSET Int, NEW k \in Int, NEW divisor \in SUBSET Int, NEW degree \in Int
  PROVE  /\ Divide(p, k, divisor, degree) \in SUBSET Int
         /\ \A j \in Int : j \in Divide(p, k, divisor, degree) <=>
              ~(j \in p <=> (k \in p /\ (j - k + degree \in divisor \/ j = k)))
<1> DEFINE d == {i + k - degree : i \in divisor \cup {degree}}
<1>1. d \in SUBSET Int /\ \A j \in Int : j \in d <=> (j - k + degree \in divisor \/ j = k)
  <2> DEFINE e == divisor \cup {degree}
  <2>1. \A i \in e : i \in Int
    OBVIOUS
  <2>2. \A j \in Int : j - k + degree \in e <=> (j - k + degree \in divisor \/ j = k)
    OBVIOUS
  <2> HIDE DEF e
  <2>3. {i + k - degree : i \in e} \in SUBSET Int
    BY <2>1
  <2>4. ASSUME NEW j \in Int PROVE j \in {i + k - degree : i \in e} <=> j - k + degree \in e
    <3>1. /\ (j - k + degree) + k - degree = j
          /\ \A i \in Int : j = i + k - degree => i = j - k + degree
      OBVIOUS
    <3> QED
      BY <2>1, <3>1
  <2> QED
    BY <2>2, <2>3, <2>4 DEF e
<1>2. Divide(p, k, divisor, degree) = IF k \in p THEN Xor(p, d) ELSE p
  BY DEF Divide
<1> HIDE DEF d
<1>3. Divide(p, k, divisor, degree) \in SUBSET Int
  BY <1>1, <1>2 DEF Xor
<1> QED
  BY <1>1, <1>2, <1>3, XorBits

\* The powers from top down to degree, one step each.
IsDivision(h, dividend, top, divisor, degree) ==
  /\ h \in [0 .. top - degree + 1 -> SUBSET Int]
  /\ h[0] = dividend
  /\ \A n \in 1 .. top - degree + 1 : h[n] = Divide(h[n - 1], top - n + 1, divisor, degree)

LEMMA Division ==
  ASSUME NEW dividend \in SUBSET Int, NEW divisor \in SUBSET Int,
         NEW degree \in Nat, NEW top \in Nat, top >= degree
  PROVE  \E h : /\ IsDivision(h, dividend, top, divisor, degree)
                /\ Remainder(dividend, top, divisor, degree) = h[top - degree + 1]
<1> DEFINE S == SUBSET Int
           N == top - degree + 1
           D(p, k) == Divide(p, k, divisor, degree)
           F == [n \in 1 .. N |-> [p \in S |-> D(p, top - n + 1)]]
           Is(r) == r = [k \in degree .. top |->
                           LET p == IF k = top THEN dividend ELSE r[k + 1] IN D(p, k)]
<1>1. N \in Nat /\ N >= 1
  OBVIOUS
<1>2. F \in [1 .. N -> [S -> S]]
  BY <1>1, DivideBits
<1>3. PICK h : IsRun(h, S, dividend, N, F)
  <2> HIDE DEF F, N, S
  <2>1. dividend \in S
    BY DEF S
  <2> QED
    BY <1>1, <1>2, <2>1, Iteration
<1>4. h \in [0 .. N -> S] /\ h[0] = dividend
  BY <1>3 DEF IsRun
<1>5. ASSUME NEW n \in 1 .. N PROVE h[n] = D(h[n - 1], top - n + 1)
  <2>1. n - 1 \in 0 .. N /\ h[n - 1] \in S
    BY <1>1, <1>4
  <2>2. h[n] = F[n][h[n - 1]]
    BY <1>3 DEF IsRun
  <2>3. F[n] = [p \in S |-> D(p, top - n + 1)]
    OBVIOUS
  <2> HIDE DEF F, D, S
  <2> QED
    BY <2>1, <2>2, <2>3
<1> DEFINE g == [k \in degree .. top |-> h[top - k + 1]]
<1>6. Is(g)
  <2>1. ASSUME NEW k \in degree .. top
        PROVE  g[k] = D(IF k = top THEN dividend ELSE g[k + 1], k)
    <3>1. /\ top - k + 1 \in 1 .. N /\ (top - k + 1) - 1 = top - k /\ top - (top - k + 1) + 1 = k
          /\ k # top => k + 1 \in degree .. top /\ top - (k + 1) + 1 = top - k
          /\ k = top => top - k = 0
      OBVIOUS
    <3>2. g[k] = h[top - k + 1]
      OBVIOUS
    <3>3. h[top - k + 1] = D(h[top - k], k)
      <4> HIDE DEF N, D
      <4> QED
        BY <1>5, <3>1
    <3>4. h[top - k] = IF k = top THEN dividend ELSE g[k + 1]
      <4> HIDE DEF N, D
      <4>1. CASE k = top
        BY <1>4, <3>1, <4>1
      <4>2. CASE k # top
        BY <3>1, <4>2
      <4> QED
        BY <4>1, <4>2
    <3> HIDE DEF g, D, N
    <3> QED
      BY <3>2, <3>3, <3>4
  <2> HIDE DEF D
  <2>2. DOMAIN g = degree .. top
    OBVIOUS
  <2>3. g = [k \in degree .. top |-> g[k]]
    OBVIOUS
  <2> HIDE DEF g
  <2>4. [k \in degree .. top |-> g[k]]
          = [k \in degree .. top |-> D(IF k = top THEN dividend ELSE g[k + 1], k)]
    BY <2>1
  <2> QED
    BY <2>3, <2>4
<1> DEFINE rest == CHOOSE r : Is(r)
<1>7. Is(rest)
  <2> HIDE DEF Is, g
  <2> QED
    BY <1>6
<1>8. Remainder(dividend, top, divisor, degree) = rest[degree]
  BY DEF Remainder, Divide
<1> DEFINE T == {n \in Nat : n <= top - degree => rest[top - n] = h[n + 1]}
<1>9. \A k \in degree .. top : rest[k] = D(IF k = top THEN dividend ELSE rest[k + 1], k)
  <2>1. rest = [k \in degree .. top |-> D(IF k = top THEN dividend ELSE rest[k + 1], k)]
    BY <1>7
  <2> HIDE DEF rest, D
  <2> QED
    BY <2>1, Zenon
<1> HIDE DEF rest, D, Is
<1>10. 0 \in T
  <2>1. top \in degree .. top /\ top - 0 = top /\ 1 \in 1 .. N /\ 1 - 1 = 0 /\ top - 1 + 1 = top
    BY <1>1
  <2>2. rest[top] = D(dividend, top)
    BY <1>9, <2>1
  <2>3. h[1] = D(dividend, top)
    BY <1>4, <1>5, <2>1
  <2> QED
    BY <2>1, <2>2, <2>3
<1>11. ASSUME NEW n \in Nat, n \in T PROVE n + 1 \in T
  <2> SUFFICES ASSUME n + 1 <= top - degree PROVE rest[top - (n + 1)] = h[(n + 1) + 1]
    OBVIOUS
  <2> DEFINE k == top - (n + 1)
  <2>1. /\ k \in degree .. top /\ k # top /\ k + 1 = top - n
        /\ n + 2 \in 1 .. N /\ (n + 2) - 1 = n + 1 /\ top - (n + 2) + 1 = k /\ (n + 1) + 1 = n + 2
        /\ rest[top - n] = h[n + 1]
    BY <1>11
  <2> HIDE DEF N, k
  <2>2. rest[k] = D(rest[k + 1], k)
    BY <1>9, <2>1
  <2>3. h[n + 2] = D(h[n + 1], k)
    BY <1>5, <2>1
  <2>4. rest[k] = h[n + 2]
    BY <2>1, <2>2, <2>3
  <2> QED
    BY <2>1, <2>4 DEF k
<1>12. \A n \in Nat : n \in T
  <2> HIDE DEF T
  <2> QED
    BY <1>10, <1>11, Induction
<1>13. rest[degree] = h[N]
  <2>1. top - degree \in Nat /\ top - (top - degree) = degree
    OBVIOUS
  <2> QED
    BY <1>12, <2>1
<1>14. IsDivision(h, dividend, top, divisor, degree)
  BY <1>4, <1>5 DEF IsDivision, D
<1> QED
  BY <1>8, <1>13, <1>14

\* w moved up by b, and a byte added at B; w moved up by b.
WithByte(u, w, B, b, v) == \A j \in Int : j \in u <=> ~(j - b \in w <=> j - B \in v)
Moved(u, w, b) == \A j \in Int : j \in u <=> j - b \in w

\* A text one byte longer is divided by the same steps, and ByteBits more.
LEMMA LongerDivision ==
  ASSUME NEW h, NEW g, NEW D \in SUBSET Int, NEW E \in SUBSET Int,
         NEW poly \in SUBSET Int, NEW B \in Nat, NEW b \in Nat, NEW v \in SUBSET (0 .. b - 1),
         NEW top \in Nat, top >= B,
         IsDivision(h, D, top, poly, B), IsDivision(g, E, top + b, poly, B),
         WithByte(E, D, B, b, v)
  PROVE  WithByte(g[top - B + 1], h[top - B + 1], B, b, v)
<1> DEFINE N == top - B + 1
           Alike(n) == \A j \in Int : j \in g[n] <=> ~(j - b \in h[n] <=> j - B \in v)
           T == {n \in Nat : n <= N => Alike(n)}
<1>1. 0 \in T
  BY DEF IsDivision, WithByte
<1>2. ASSUME NEW n \in Nat, n \in T PROVE n + 1 \in T
  <2> SUFFICES ASSUME n + 1 <= N PROVE Alike(n + 1)
    OBVIOUS
  <2> SUFFICES ASSUME NEW j \in Int
               PROVE  j \in g[n + 1] <=> ~(j - b \in h[n + 1] <=> j - B \in v)
    OBVIOUS
  <2> DEFINE hn == h[n]
             gn == g[n]
             k == top - n
  <2>1. /\ hn \in SUBSET Int /\ h[n + 1] = Divide(hn, k, poly, B)
        /\ gn \in SUBSET Int /\ g[n + 1] = Divide(gn, k + b, poly, B)
    <3>1. n + 1 \in 1 .. N /\ (n + 1) - 1 = n /\ n \in 0 .. N /\ top - (n + 1) + 1 = k
      OBVIOUS
    <3>2. hn \in SUBSET Int /\ h[n + 1] = Divide(hn, k, poly, B)
      BY <3>1 DEF IsDivision
    <3>3. /\ n + 1 \in 1 .. (top + b) - B + 1 /\ n \in 0 .. (top + b) - B + 1
          /\ (top + b) - (n + 1) + 1 = k + b
      OBVIOUS
    <3>4. gn \in SUBSET Int /\ g[n + 1] = Divide(gn, k + b, poly, B)
      BY <3>1, <3>3 DEF IsDivision
    <3> QED
      BY <3>2, <3>4
  <2>2. \A i \in Int : i \in gn <=> ~(i - b \in hn <=> i - B \in v)
    BY <1>2
  <2>3. k \in Int /\ k + b \in Int /\ j - b \in Int /\ k >= B
    OBVIOUS
  <2> HIDE DEF hn, gn
  <2>4. k + b \in gn <=> k \in hn
    <3>1. (k + b) - b = k /\ (k + b) - B \notin v
      BY <2>3
    <3> QED
      BY <2>2, <2>3, <3>1
  <2>5. j - (k + b) + B = (j - b) - k + B /\ (j = k + b <=> j - b = k)
    BY <2>3
  <2> DEFINE i == j - b
             m == k + b
  <2>6. j \in Divide(gn, m, poly, B) <=>
          ~(j \in gn <=> (m \in gn /\ (j - m + B \in poly \/ j = m)))
    <3>1. m \in Int
      BY <2>3
    <3> HIDE DEF m, k
    <3> QED
      BY <2>1, <3>1, DivideBits
  <2>7. i \in Divide(hn, k, poly, B) <=>
          ~(i \in hn <=> (k \in hn /\ (i - k + B \in poly \/ i = k)))
    <3>1. i \in Int
      BY <2>3
    <3> HIDE DEF i, k
    <3> QED
      BY <2>1, <2>3, <3>1, DivideBits
  <2>8. j \in gn <=> ~(i \in hn <=> j - B \in v)
    BY <2>2
  <2> QED
    BY <2>1, <2>4, <2>5, <2>6, <2>7, <2>8
<1>3. \A n \in Nat : n \in T
  <2> HIDE DEF T
  <2> QED
    BY <1>1, <1>2, Induction
<1>4. N \in Nat
  OBVIOUS
<1> QED
  BY <1>3, <1>4 DEF WithByte

LEMMA LastByte ==
  ASSUME NEW g, NEW E, NEW B \in Nat, B > 0, NEW poly \in Words(B), NEW x \in Words(B),
         NEW top \in Nat, top >= B,
         IsDivision(g, E, top + ByteBits, poly, B),
         Moved(g[top - B + 1], x, ByteBits)
  PROVE  g[top + ByteBits - B + 1] = Shifts(x, B, poly)[ByteBits]
<1> DEFINE b == ByteBits
           s == Shifts(x, B, poly)
           N == top - B + 1
           Alike(n) == \A j \in Int : j \in g[N + n] <=> j - (b - n) \in s[n]
           T == {n \in Nat : n <= b => Alike(n)}
<1>1. b \in Nat /\ poly \in SUBSET Int
  BY Widths DEF Words
<1>2. /\ s \in [0 .. b -> Words(B)] /\ s[0] = x
      /\ \A n \in 1 .. b : s[n] = ShiftBit(s[n - 1], B, poly)
  BY ShiftsAre
<1> HIDE DEF s
<1>3. 0 \in T
  <2>1. N + 0 = N /\ \A j \in Int : j - (b - 0) = j - b
    BY <1>1
  <2>2. Alike(0)
    BY <1>2, <2>1 DEF Moved
  <2> QED
    BY <2>2
<1>4. ASSUME NEW n \in Nat, n \in T PROVE n + 1 \in T
  <2> SUFFICES ASSUME n + 1 <= b PROVE Alike(n + 1)
    OBVIOUS
  <2> SUFFICES ASSUME NEW j \in Int
               PROVE  j \in g[N + (n + 1)] <=> j - (b - (n + 1)) \in s[n + 1]
    OBVIOUS
  <2> DEFINE sn == s[n]
             gn == g[N + n]
             k == (B - 1) + (b - n)
             i == j - (b - (n + 1))
  <2>1. sn \in Words(B) /\ s[n + 1] = ShiftBit(sn, B, poly)
    <3>1. n + 1 \in 1 .. b /\ (n + 1) - 1 = n /\ n \in 0 .. b
      BY <1>1
    <3> QED
      BY <1>2, <3>1
  <2>2. gn \in SUBSET Int /\ g[N + (n + 1)] = Divide(gn, k, poly, B)
    <3> DEFINE M == (top + b) - B + 1
    <3>1. /\ N + (n + 1) \in 1 .. M /\ (N + (n + 1)) - 1 = N + n /\ N + n \in 0 .. M
          /\ (top + b) - (N + (n + 1)) + 1 = k
      BY <1>1
    <3>2. /\ g \in [0 .. M -> SUBSET Int]
          /\ \A m \in 1 .. M : g[m] = Divide(g[m - 1], (top + b) - m + 1, poly, B)
      BY DEF IsDivision
    <3>3. gn \in SUBSET Int
      BY <3>1, <3>2
    <3> HIDE DEF M, N, k, b
    <3> QED
      BY <3>1, <3>2, <3>3
  <2>3. \A m \in Int : m \in gn <=> m - (b - n) \in sn
    BY <1>1, <1>4
  <2>4. /\ k \in Int /\ i \in Int /\ j - k + B = i + 1 - 1 /\ k - (b - n) = B - 1
        /\ j - (b - n) = i - 1 /\ (j = k <=> i = B)
    BY <1>1
  <2>5. k \in gn <=> B - 1 \in sn
    BY <2>3, <2>4
  <2>6. j \in gn <=> i - 1 \in sn
    BY <2>3, <2>4
  <2>7. j \in Divide(gn, k, poly, B) <=>
          ~(j \in gn <=> (k \in gn /\ (j - k + B \in poly \/ j = k)))
    <3> HIDE DEF gn, k
    <3> QED
      BY <1>1, <2>2, <2>4, DivideBits
  <2>8. i \in ShiftBit(sn, B, poly) <=>
          ~((i - 1 \in sn /\ i # B) <=> (B - 1 \in sn /\ i \in poly))
    <3> HIDE DEF sn, i
    <3> QED
      BY <2>1, <2>4, ShiftBits
  <2>9. j - k + B = i /\ B \notin poly
    BY <2>4 DEF Words
  <2> HIDE DEF gn, sn, k, i
  <2>10. j \in Divide(gn, k, poly, B) <=> i \in ShiftBit(sn, B, poly)
    <3>1. CASE i = B
      BY <2>4, <2>5, <2>6, <2>7, <2>8, <2>9, <3>1
    <3>2. CASE i # B
      BY <2>4, <2>5, <2>6, <2>7, <2>8, <2>9, <3>2
    <3> QED
      BY <3>1, <3>2
  <2> QED
    BY <2>1, <2>2, <2>10 DEF i
<1>5. \A n \in Nat : n \in T
  <2> HIDE DEF T
  <2> QED
    BY <1>3, <1>4, Induction
<1>6. \A j \in Int : j \in g[N + b] <=> j \in s[b]
  <2>1. Alike(b)
    BY <1>1, <1>5
  <2>2. \A j \in Int : j - (b - b) = j
    BY <1>1
  <2> QED
    BY <2>1, <2>2
<1>7. g[N + b] \in SUBSET Int /\ s[b] \in SUBSET Int
  <2>1. s[b] \in Words(B)
    BY <1>1, <1>2
  <2>2. N + b \in 0 .. (top + b) - B + 1
    BY <1>1
  <2> QED
    BY <2>1, <2>2 DEF IsDivision, Words
<1>8. g[N + b] = s[b]
  BY <1>6, <1>7
<1>9. N + b = top + ByteBits - B + 1
  BY <1>1
<1> QED
  BY <1>8, <1>9 DEF s

\* The powers of a text, and of one byte more.
LEMMA PolynomialBits ==
  ASSUME NEW t \in Seq(Byte)
  PROVE  /\ Polynomial(t) \in SUBSET Int
         /\ \A j \in Int : j \in Polynomial(t) <=>
              \E n \in 1 .. Len(t) : j - (Len(t) - n) * ByteBits \in t[n]
<1> DEFINE b == ByteBits
           L == Len(t)
           off(n) == (L - n) * b
           part(n) == {i + off(n) : i \in t[n]}
<1>1. /\ b \in Int /\ L \in Nat /\ DOMAIN t = 1 .. L
      /\ \A n \in 1 .. L : off(n) \in Int /\ t[n] \in SUBSET Int
  <2>1. b \in Int
    BY Widths
  <2>2. L \in Nat /\ DOMAIN t = 1 .. L /\ \A n \in 1 .. L : t[n] \in Byte
    BY ElementOfSeq
  <2> QED
    BY <2>1, <2>2 DEF Byte
<1>2. Polynomial(t) = UNION {part(n) : n \in 1 .. L}
  BY <1>1 DEF Polynomial
<1> HIDE DEF off, L
<1>3. ASSUME NEW n \in 1 .. L
      PROVE  part(n) \in SUBSET Int /\ \A j \in Int : j \in part(n) <=> j - off(n) \in t[n]
  BY <1>1
<1> HIDE DEF part
<1>4. Polynomial(t) \in SUBSET Int
  BY <1>2, <1>3
<1>5. \A j \in Int : j \in Polynomial(t) <=> \E n \in 1 .. L : j - off(n) \in t[n]
  BY <1>2, <1>3
<1> QED
  BY <1>4, <1>5 DEF off, L

LEMMA PolynomialAppend ==
  ASSUME NEW t \in Seq(Byte), NEW v \in Byte, NEW B \in Nat
  PROVE  \A j \in Int : j \in {i + B : i \in Polynomial(Append(t, v))} <=>
           ~(j - ByteBits \in {i + B : i \in Polynomial(t)} <=> j - B \in v)
<1> DEFINE b == ByteBits
           L == Len(t)
           u == Append(t, v)
           P == Polynomial(t)
           Q == Polynomial(u)
<1>1. /\ b \in Nat /\ L \in Nat /\ u \in Seq(Byte) /\ Len(u) = L + 1
      /\ \A n \in 1 .. L : u[n] = t[n]
      /\ u[L + 1] = v /\ \A n \in 1 .. L : t[n] \in SUBSET Nat
  <2>1. b \in Nat
    BY Widths
  <2>2. L \in Nat /\ \A n \in 1 .. L : t[n] \in Byte
    BY ElementOfSeq
  <2>3. /\ u \in Seq(Byte) /\ Len(u) = L + 1 /\ u[L + 1] = v
        /\ \A n \in 1 .. L : u[n] = t[n]
    BY AppendProperties
  <2> QED
    BY <2>1, <2>2, <2>3 DEF Byte
<1>2. /\ P \in SUBSET Int
      /\ \A j \in Int : j \in P <=> \E n \in 1 .. L : j - (L - n) * b \in t[n]
  BY PolynomialBits
<1>3. /\ Q \in SUBSET Int
      /\ \A j \in Int : j \in Q <=> \E n \in 1 .. L + 1 : j - (L + 1 - n) * b \in u[n]
  <2>1. /\ Q \in SUBSET Int
        /\ \A j \in Int : j \in Q <=> \E n \in 1 .. Len(u) : j - (Len(u) - n) * b \in u[n]
    <3>1. u \in Seq(Byte)
      BY <1>1
    <3> HIDE DEF u
    <3> QED
      BY <3>1, PolynomialBits
  <2> QED
    BY <1>1, <2>1
<1> HIDE DEF P, Q, u, L
<1>4. ASSUME NEW j \in Int PROVE j \in Q <=> (j - b \in P \/ j \in v)
  <2>1. ASSUME NEW n \in 1 .. L
        PROVE  j - (L + 1 - n) * b = (j - b) - (L - n) * b
    BY <1>1
  <2>2. j - b \in P <=> \E n \in 1 .. L : j - (L + 1 - n) * b \in t[n]
    BY <1>1, <1>2, <2>1
  <2>3. j - (L + 1 - (L + 1)) * b = j
    BY <1>1
  <2>4. j \in Q <=> \/ \E n \in 1 .. L : j - (L + 1 - n) * b \in t[n]
                    \/ j \in v
    <3> DEFINE Has(n) == j - (L + 1 - n) * b \in u[n]
    <3>1. j \in Q <=> \E n \in 1 .. L + 1 : Has(n)
      BY <1>3
    <3>2. (\E n \in 1 .. L + 1 : Has(n)) <=> (\E n \in 1 .. L : Has(n)) \/ Has(L + 1)
      <4> HIDE DEF Has
      <4> QED
        BY <1>1
    <3>3. Has(L + 1) <=> j \in v
      BY <1>1, <2>3
    <3> QED
      BY <1>1, <3>1, <3>2, <3>3
  <2> QED
    BY <2>2, <2>4
<1>5. \A j \in P : j >= 0
  <2> SUFFICES ASSUME NEW j \in P PROVE j >= 0
    OBVIOUS
  <2>1. PICK n \in 1 .. L : j - (L - n) * b \in t[n]
    BY <1>2
  <2>2. j - (L - n) * b >= 0 /\ j \in Int
    BY <1>1, <1>2, <2>1
  <2>3. (L - n) * b >= 0
    <3>1. L - n \in Nat
      BY <1>1
    <3> QED
      BY <1>1, <3>1
  <2> DEFINE c == (L - n) * b
  <2>4. c \in Int
    BY <1>1
  <2> HIDE DEF c
  <2> QED
    BY <2>2, <2>3, <2>4 DEF c
<1>6. v \in SUBSET (0 .. b - 1)
  BY DEF Byte
<1>7. ASSUME NEW j \in Int
      PROVE  /\ j \in {i + B : i \in Q} <=> j - B \in Q
             /\ j - b \in {i + B : i \in P} <=> (j - B) - b \in P
  BY <1>1, <1>2, <1>3
<1>8. ASSUME NEW j \in Int PROVE ~((j - B) - b \in P /\ j - B \in v)
  BY <1>1, <1>5, <1>6
<1>9. ASSUME NEW j \in Int PROVE j - B \in Q <=> ((j - B) - b \in P \/ j - B \in v)
  BY <1>4
<1>10. ASSUME NEW j \in Int
       PROVE  j \in {i + B : i \in Q} <=> ~(j - b \in {i + B : i \in P} <=> j - B \in v)
  BY <1>7, <1>8, <1>9
<1> QED
  BY <1>10 DEF P, Q, u

\* What RemainderOfText says of a text.
TextRemainder(t) ==
  Remainder({i + Bits16 : i \in Polynomial(t)}, Len(t) * ByteBits + Bits16, Poly16, Bits16)

LEMMA NoTextRemainder == TextRemainder(<<>>) = {}
<1> DEFINE B == Bits16
<1>1. Polynomial(<<>>) = {} /\ Len(<<>>) = 0
  BY DEF Polynomial
<1>2. B \in Nat /\ Poly16 \in SUBSET Int /\ 0 * ByteBits + B = B
  BY Widths DEF Words
<1>3. TextRemainder(<<>>) = Remainder({}, B, Poly16, B)
  BY <1>1, <1>2 DEF TextRemainder
<1>4. PICK h : /\ IsDivision(h, {}, B, Poly16, B)
               /\ Remainder({}, B, Poly16, B) = h[B - B + 1]
  <2>1. {} \in SUBSET Int /\ B >= B
    BY <1>2
  <2> HIDE DEF B
  <2> QED
    BY <1>2, <2>1, Division
<1>5. B - B + 1 = 1 /\ 1 - 1 = 0 /\ 1 \in 1 .. B - B + 1
  BY <1>2
<1>6. h[1] = Divide(h[0], B - 1 + 1, Poly16, B) /\ h[0] = {}
  BY <1>4, <1>5 DEF IsDivision
<1>7. h[1] = {}
  BY <1>6 DEF Divide
<1> QED
  BY <1>3, <1>4, <1>5, <1>7

LEMMA RemainderAppend ==
  ASSUME NEW t \in Seq(Byte), NEW v \in Byte, TextRemainder(t) \in Words(Bits16)
  PROVE  TextRemainder(Append(t, v)) = Add16(TextRemainder(t), v)
<1> DEFINE B == Bits16
           b == ByteBits
           top == Len(t) * b + B
           D == {i + B : i \in Polynomial(t)}
           E == {i + B : i \in Polynomial(Append(t, v))}
           c == TextRemainder(t)
           x == XorIn(c, v, B)
<1>1. /\ B \in Nat /\ B > 0 /\ B >= b /\ b \in Nat /\ Poly16 \in Words(B)
      /\ Poly16 \in SUBSET Int /\ c \in Words(B)
  BY Widths DEF Words
<1>2. Len(t) \in Nat /\ Append(t, v) \in Seq(Byte) /\ Len(Append(t, v)) = Len(t) + 1
  BY AppendProperties
<1>3. top \in Nat /\ top >= B /\ (Len(t) + 1) * b + B = top + b
  <2>1. Len(t) * b \in Nat
    BY <1>1, <1>2
  <2> QED
    BY <1>1, <1>2, <2>1
<1>4. D \in SUBSET Int /\ E \in SUBSET Int
  <2>1. Polynomial(t) \in SUBSET Int /\ Polynomial(Append(t, v)) \in SUBSET Int
    BY <1>2, PolynomialBits
  <2> QED
    BY <1>1, <2>1
<1>5. WithByte(E, D, B, b, v)
  BY <1>1, PolynomialAppend DEF WithByte
<1>6. c = Remainder(D, top, Poly16, B)
  BY DEF TextRemainder
<1>7. TextRemainder(Append(t, v)) = Remainder(E, top + b, Poly16, B)
  BY <1>2, <1>3 DEF TextRemainder
<1>8. Add16(c, v) = Shifts(x, B, Poly16)[b]
  BY <1>1, AddByteIs DEF Add16
<1>9. x \in Words(B) /\ \A j \in Int : j \in x <=> ~(j \in c <=> j - B + b \in v)
  BY <1>1, XorInBits
<1>10. v \in SUBSET (0 .. b - 1)
  BY DEF Byte
<1> HIDE DEF B, b, top, D, E, c, x
<1>11. PICK h : IsDivision(h, D, top, Poly16, B) /\ c = h[top - B + 1]
  BY <1>1, <1>3, <1>4, <1>6, Division
<1>12. PICK g : /\ IsDivision(g, E, top + b, Poly16, B)
                /\ TextRemainder(Append(t, v)) = g[(top + b) - B + 1]
  <2>1. top + b \in Nat /\ top + b >= B
    BY <1>1, <1>3
  <2> QED
    BY <1>1, <1>4, <1>7, <2>1, Division
<1>13. WithByte(g[top - B + 1], h[top - B + 1], B, b, v)
  BY <1>1, <1>3, <1>4, <1>5, <1>10, <1>11, <1>12, LongerDivision
<1>14. Moved(g[top - B + 1], x, b)
  <2> SUFFICES ASSUME NEW j \in Int PROVE j \in g[top - B + 1] <=> j - b \in x
    BY DEF Moved
  <2>1. j - b \in Int /\ (j - b) - B + b = j - B
    BY <1>1
  <2>2. j \in g[top - B + 1] <=> ~(j - b \in c <=> j - B \in v)
    BY <1>11, <1>13 DEF WithByte
  <2> QED
    BY <1>9, <2>1, <2>2
<1>15. g[(top + b) - B + 1] = Shifts(x, B, Poly16)[b]
  <2> USE DEF b
  <2>1. IsDivision(g, E, top + ByteBits, Poly16, B) /\ Moved(g[top - B + 1], x, ByteBits)
    BY <1>12, <1>14
  <2>2. g[top + ByteBits - B + 1] = Shifts(x, B, Poly16)[ByteBits]
    BY <1>1, <1>3, <1>9, <2>1, LastByte
  <2>3. top + ByteBits - B + 1 = (top + b) - B + 1
    BY <1>1, <1>3
  <2> QED
    BY <2>2, <2>3
<1> QED
  BY <1>8, <1>12, <1>15 DEF c

\* Every text's register is its remainder.
RemainderInv ==
  /\ text \in Seq(Byte) /\ crc16 \in Words(Bits16)
  /\ crc16 = TextRemainder(text)

\* The check of a block (CRC16 of the PC's library, which send_block writes
\* and get_block asks for) is the remainder of the block, moved up by its
\* width, divided by the generator, for every polynomial and every text.
THEOREM CheckIsRemainder == Spec => []RemainderOfText
<1>1. Init => RemainderInv
  BY Widths, NoTextRemainder DEF Init, RemainderInv, Restart16, Words
<1>2. RemainderInv /\ [Next]_vars => RemainderInv'
  <2> SUFFICES ASSUME RemainderInv, [Next]_vars PROVE RemainderInv'
    OBVIOUS
  <2>1. CASE Add
    <3>1. PICK value \in Byte : text' = Append(text, value) /\ crc16' = Add16(crc16, value)
      BY <2>1 DEF Add
    <3>2. text' \in Seq(Byte)
      BY <3>1 DEF RemainderInv
    <3>3. crc16' \in Words(Bits16)
      BY <3>1, Widths, AddByteIs DEF RemainderInv, Add16
    <3>4. crc16' = TextRemainder(text')
      BY <3>1, RemainderAppend DEF RemainderInv
    <3> QED
      BY <3>2, <3>3, <3>4 DEF RemainderInv
  <2>2. CASE Finalize
    BY <2>2 DEF Finalize, RemainderInv
  <2>3. CASE NextText
    BY <2>3, Widths, NoTextRemainder DEF NextText, RemainderInv, Restart16, Words
  <2>4. CASE UNCHANGED vars
    BY <2>4 DEF vars, RemainderInv
  <2> QED
    BY <2>1, <2>2, <2>3, <2>4 DEF Next
<1>3. RemainderInv => RemainderOfText
  BY DEF RemainderInv, TextRemainder, RemainderOfText, Calc16
<1> QED
  BY <1>1, <1>2, <1>3, PTL DEF Spec

-----------------------------------------------------------------------------
(* The trailer. *)

Word16 == Words(Bits16)

\* add(array, length), a byte at a time.
IsAdding(h, crc, array) ==
  /\ h \in [0 .. Len(array) -> Word16] /\ h[0] = crc
  /\ \A n \in 1 .. Len(array) : h[n] = Add16(h[n - 1], array[n])

LEMMA Adding ==
  ASSUME NEW crc \in Word16, NEW array \in Seq(Byte)
  PROVE  \E h : IsAdding(h, crc, array) /\ AddAll16(crc, array) = h[Len(array)]
<1> DEFINE N == Len(array)
           F == [n \in 1 .. N |-> [w \in Word16 |-> Add16(w, array[n])]]
           Is(h) == h = [n \in 0 .. N |-> IF n = 0 THEN crc ELSE Add16(h[n - 1], array[n])]
<1>1. N \in Nat /\ \A n \in 1 .. N : array[n] \in Byte
  BY ElementOfSeq
<1>2. \A n \in 1 .. N, w \in Word16 : Add16(w, array[n]) \in Word16
  BY <1>1, Widths, AddByteIs DEF Add16, Word16
<1> HIDE DEF N
<1>3. F \in [1 .. N -> [Word16 -> Word16]]
  BY <1>2
<1>4. PICK h : IsRun(h, Word16, crc, N, F)
  <2> HIDE DEF F
  <2> QED
    BY <1>1, <1>3, Iteration
<1>5. h \in [0 .. N -> Word16] /\ h[0] = crc
  BY <1>4 DEF IsRun
<1>6. ASSUME NEW n \in 1 .. N
      PROVE  n \in 0 .. N /\ n # 0 /\ n - 1 \in 0 .. N /\ h[n] = Add16(h[n - 1], array[n])
  <2>1. n \in 0 .. N /\ n # 0 /\ n - 1 \in 0 .. N
    BY <1>1
  <2>2. F[n][h[n - 1]] = Add16(h[n - 1], array[n])
    BY <1>5, <2>1
  <2>3. h[n] = F[n][h[n - 1]]
    BY <1>4 DEF IsRun
  <2> QED
    BY <2>1, <2>2, <2>3
<1>7. Is(h)
  BY <1>1, <1>5, <1>6
<1> DEFINE after == CHOOSE g : Is(g)
<1>8. Is(after)
  <2> HIDE DEF Is
  <2> QED
    BY <1>7
<1>9. AddAll16(crc, array) = after[N]
  BY DEF AddAll16, N
<1> HIDE DEF after
<1>10. /\ after[0] = crc
       /\ \A n \in 1 .. N : after[n] = Add16(after[n - 1], array[n])
  <2>1. \A n \in 0 .. N : after[n] = IF n = 0 THEN crc ELSE Add16(after[n - 1], array[n])
    BY <1>8, Zenon
  <2> QED
    BY <1>1, <1>6, <2>1
<1> DEFINE T == {n \in Nat : n <= N => after[n] = h[n]}
<1>11. 0 \in T
  BY <1>5, <1>10
<1>12. ASSUME NEW n \in Nat, n \in T PROVE n + 1 \in T
  <2> SUFFICES ASSUME n + 1 <= N PROVE after[n + 1] = h[n + 1]
    OBVIOUS
  <2>1. n + 1 \in 1 .. N /\ (n + 1) - 1 = n /\ after[n] = h[n]
    BY <1>1, <1>12
  <2> QED
    BY <1>6, <1>10, <2>1
<1>13. \A n \in Nat : n \in T
  <2> HIDE DEF T
  <2> QED
    BY <1>11, <1>12, Induction
<1>14. after[N] = h[N]
  BY <1>1, <1>13
<1>15. IsAdding(h, crc, array)
  BY <1>5, <1>6 DEF IsAdding, N
<1> QED
  BY <1>9, <1>14, <1>15 DEF N

LEMMA AddingInOrder ==
  ASSUME NEW crc \in Word16, NEW s \in Seq(Byte), NEW t \in Seq(Byte)
  PROVE  /\ AddAll16(crc, s) \in Word16
         /\ AddAll16(crc, s \o t) = AddAll16(AddAll16(crc, s), t)
<1> DEFINE L == Len(s)
           M == Len(t)
           st == s \o t
<1>1. PICK h : IsAdding(h, crc, s) /\ AddAll16(crc, s) = h[L]
  BY Adding
<1>2. L \in Nat /\ M \in Nat
  OBVIOUS
<1>3. h[L] \in Word16
  BY <1>1, <1>2 DEF IsAdding
<1>4. PICK g : IsAdding(g, h[L], t) /\ AddAll16(h[L], t) = g[M]
  BY <1>3, Adding
<1>5. /\ st \in Seq(Byte) /\ Len(st) = L + M
      /\ \A n \in 1 .. L : st[n] = s[n]
      /\ \A n \in 1 .. M : st[L + n] = t[n]
  BY ConcatProperties
<1> HIDE DEF st
<1>6. PICK f : IsAdding(f, crc, st) /\ AddAll16(crc, st) = f[L + M]
  BY <1>5, Adding
<1>7. f[0] = crc /\ \A n \in 1 .. L + M : f[n] = Add16(f[n - 1], st[n])
  BY <1>5, <1>6 DEF IsAdding
<1>8. h[0] = crc /\ \A n \in 1 .. L : h[n] = Add16(h[n - 1], s[n])
  BY <1>1 DEF IsAdding
<1>9. g[0] = h[L] /\ \A n \in 1 .. M : g[n] = Add16(g[n - 1], t[n])
  BY <1>4 DEF IsAdding
<1> HIDE DEF L, M
<1> DEFINE T == {n \in Nat : n <= L => f[n] = h[n]}
           U == {n \in Nat : n <= M => f[L + n] = g[n]}
<1>10. \A n \in Nat : n \in T
  <2>1. 0 \in T
    BY <1>7, <1>8
  <2>2. ASSUME NEW n \in Nat, n \in T PROVE n + 1 \in T
    <3> SUFFICES ASSUME n + 1 <= L PROVE f[n + 1] = h[n + 1]
      OBVIOUS
    <3>1. n + 1 \in 1 .. L /\ n + 1 \in 1 .. L + M /\ (n + 1) - 1 = n /\ f[n] = h[n]
      BY <1>2, <2>2
    <3> QED
      BY <1>5, <1>7, <1>8, <3>1
  <2> HIDE DEF T
  <2> QED
    BY <2>1, <2>2, Induction
<1>11. f[L] = h[L]
  BY <1>2, <1>10
<1>12. \A n \in Nat : n \in U
  <2>1. 0 \in U
    BY <1>2, <1>9, <1>11
  <2>2. ASSUME NEW n \in Nat, n \in U PROVE n + 1 \in U
    <3> SUFFICES ASSUME n + 1 <= M PROVE f[L + (n + 1)] = g[n + 1]
      OBVIOUS
    <3>1. /\ n + 1 \in 1 .. M /\ L + (n + 1) \in 1 .. L + M /\ (n + 1) - 1 = n
          /\ (L + (n + 1)) - 1 = L + n /\ f[L + n] = g[n]
      BY <1>2, <2>2
    <3> QED
      BY <1>5, <1>7, <1>9, <3>1
  <2> HIDE DEF U
  <2> QED
    BY <2>1, <2>2, Induction
<1>13. f[L + M] = g[M]
  BY <1>2, <1>12
<1> QED
  BY <1>1, <1>3, <1>4, <1>6, <1>13 DEF st

\* A register whose lowest byte is clear can only come from the one it is
\* moved up from.
LEMMA NoFeedback ==
  ASSUME NEW z \in Word16, z \cap Low = {}
  PROVE  /\ {i - ByteBits : i \in z} \in Word16
         /\ Shifts({i - ByteBits : i \in z}, Bits16, Poly16)[ByteBits] = z
<1> DEFINE b == ByteBits
           B == Bits16
           x == {i - b : i \in z}
           s == Shifts(x, B, Poly16)
           Alike(n) == \A j \in Int : j \in s[n] <=> j + (b - n) \in z
           T == {n \in Nat : n <= b => Alike(n)}
<1>1. b \in Nat \ {0} /\ B \in Nat /\ B >= b /\ Poly16 \in Word16
  BY Widths DEF Word16
<1>2. z \in SUBSET (b .. B - 1)
  BY <1>1 DEF Word16, Words, Low
<1>3. x \in Word16 /\ \A j \in Int : j \in x <=> j + b \in z
  BY <1>1, <1>2 DEF Word16, Words
<1>4. /\ s \in [0 .. b -> Word16] /\ s[0] = x
      /\ \A n \in 1 .. b : s[n] = ShiftBit(s[n - 1], B, Poly16)
  <2>1. B > 0 /\ Poly16 \in Words(B) /\ x \in Words(B)
    BY <1>1, <1>3 DEF Word16
  <2> HIDE DEF x
  <2> QED
    BY <1>1, <2>1, ShiftsAre DEF Word16
<1> HIDE DEF s, x
<1>5. 0 \in T
  <2>1. \A j \in Int : j + (b - 0) = j + b
    BY <1>1
  <2>2. Alike(0)
    BY <1>3, <1>4, <2>1
  <2> QED
    BY <2>2
<1>6. ASSUME NEW n \in Nat, n \in T PROVE n + 1 \in T
  <2> SUFFICES ASSUME n + 1 <= b PROVE Alike(n + 1)
    OBVIOUS
  <2> SUFFICES ASSUME NEW j \in Int PROVE j \in s[n + 1] <=> j + (b - (n + 1)) \in z
    OBVIOUS
  <2> DEFINE sn == s[n]
  <2>1. sn \in Word16 /\ s[n + 1] = ShiftBit(sn, B, Poly16)
    <3>1. n + 1 \in 1 .. b /\ (n + 1) - 1 = n /\ n \in 0 .. b
      BY <1>1
    <3> QED
      BY <1>4, <3>1
  <2>2. \A i \in Int : i \in sn <=> i + (b - n) \in z
    BY <1>1, <1>6
  <2> HIDE DEF sn
  <2>3. B - 1 \notin sn
    <3>1. B - 1 \in Int /\ (B - 1) + (b - n) \notin z
      BY <1>1, <1>2
    <3> QED
      BY <2>2, <3>1
  <2>4. j \in ShiftBit(sn, B, Poly16) <=> ~((j - 1 \in sn /\ j # B) <=> (B - 1 \in sn /\ j \in Poly16))
    BY <1>1, <2>1, ShiftBits DEF Word16
  <2>5. j - 1 \in sn <=> j + (b - (n + 1)) \in z
    <3>1. j - 1 \in Int /\ (j - 1) + (b - n) = j + (b - (n + 1))
      BY <1>1
    <3> QED
      BY <2>2, <3>1
  <2>6. j = B => j - 1 \notin sn
    BY <2>3
  <2> QED
    BY <2>1, <2>3, <2>4, <2>5, <2>6
<1>7. \A n \in Nat : n \in T
  <2> HIDE DEF T
  <2> QED
    BY <1>5, <1>6, Induction
<1>8. \A j \in Int : j \in s[b] <=> j \in z
  <2>1. Alike(b)
    BY <1>1, <1>7
  <2>2. \A j \in Int : j + (b - b) = j
    BY <1>1
  <2> QED
    BY <2>1, <2>2
<1>9. s[b] \in Word16
  BY <1>1, <1>4
<1>10. s[b] = z
  BY <1>1, <1>8, <1>9, SameBits DEF Word16
<1> QED
  BY <1>3, <1>10 DEF s, x

LEMMA ShiftUndone ==
  ASSUME NEW x \in Word16, NEW y \in Word16,
         ShiftBit(x, Bits16, Poly16) = ShiftBit(y, Bits16, Poly16)
  PROVE  x = y
<1> DEFINE B == Bits16
           s == ShiftBit(x, B, Poly16)
<1>1. B \in Nat /\ B > 0 /\ Poly16 \in Words(B) /\ 0 \in Poly16
  BY Widths, CrcAssumption DEF CrcAssumption
<1>2. \A j \in Int : j \in s <=> ~((j - 1 \in x /\ j # B) <=> (B - 1 \in x /\ j \in Poly16))
  BY <1>1, ShiftBits DEF Word16
<1>3. \A j \in Int : j \in s <=> ~((j - 1 \in y /\ j # B) <=> (B - 1 \in y /\ j \in Poly16))
  BY <1>1, ShiftBits DEF Word16
<1> HIDE DEF s
<1>4. B - 1 \in x <=> B - 1 \in y
  <2>1. 0 - 1 \notin x /\ 0 - 1 \notin y
    BY <1>1 DEF Word16, Words
  <2> QED
    BY <1>1, <1>2, <1>3, <2>1
<1>5. ASSUME NEW j \in 0 .. B - 1 PROVE j \in x <=> j \in y
  <2>1. CASE j = B - 1
    BY <1>4, <2>1
  <2>2. CASE j # B - 1
    <3>1. j + 1 \in Int /\ (j + 1) - 1 = j /\ j + 1 # B
      BY <1>1, <2>2
    <3> QED
      BY <1>2, <1>3, <1>4, <3>1
  <2> QED
    BY <2>1, <2>2
<1> QED
  BY <1>1, <1>5, SameBits DEF Word16

LEMMA ShiftsUndone ==
  ASSUME NEW x \in Word16, NEW y \in Word16,
         Shifts(x, Bits16, Poly16)[ByteBits] = Shifts(y, Bits16, Poly16)[ByteBits]
  PROVE  x = y
<1> DEFINE b == ByteBits
           s == Shifts(x, Bits16, Poly16)
           r == Shifts(y, Bits16, Poly16)
           T == {n \in Nat : n <= b => s[b - n] = r[b - n]}
<1>0. /\ Bits16 \in Nat /\ Bits16 > 0 /\ Poly16 \in Words(Bits16)
      /\ x \in Words(Bits16) /\ y \in Words(Bits16)
  BY Widths DEF Word16
<1>1. b \in Nat
  BY Widths
<1>2. /\ s \in [0 .. b -> Word16] /\ s[0] = x
      /\ \A n \in 1 .. b : s[n] = ShiftBit(s[n - 1], Bits16, Poly16)
  BY <1>0, ShiftsAre DEF Word16
<1>3. /\ r \in [0 .. b -> Word16] /\ r[0] = y
      /\ \A n \in 1 .. b : r[n] = ShiftBit(r[n - 1], Bits16, Poly16)
  BY <1>0, ShiftsAre DEF Word16
<1>4. s[b] = r[b]
  OBVIOUS
<1> HIDE DEF s, r
<1>5. 0 \in T
  BY <1>1, <1>4
<1>6. ASSUME NEW n \in Nat, n \in T PROVE n + 1 \in T
  <2> SUFFICES ASSUME n + 1 <= b PROVE s[b - (n + 1)] = r[b - (n + 1)]
    OBVIOUS
  <2> DEFINE k == b - (n + 1)
  <2>1. b - n \in 1 .. b /\ (b - n) - 1 = k /\ k \in 0 .. b /\ s[b - n] = r[b - n]
    BY <1>1, <1>6
  <2> HIDE DEF k
  <2>2. s[k] \in Word16 /\ r[k] \in Word16
    BY <1>2, <1>3, <2>1
  <2>3. ShiftBit(s[k], Bits16, Poly16) = ShiftBit(r[k], Bits16, Poly16)
    BY <1>2, <1>3, <2>1
  <2>4. s[k] = r[k]
    BY <2>2, <2>3, ShiftUndone
  <2> QED
    BY <2>4 DEF k
<1>7. \A n \in Nat : n \in T
  <2> HIDE DEF T
  <2> QED
    BY <1>5, <1>6, Induction
<1>8. s[0] = r[0]
  <2>1. b - b = 0 /\ b <= b
    BY <1>1
  <2> QED
    BY <1>1, <1>7, <2>1
<1> QED
  BY <1>2, <1>3, <1>8

\* One byte of the trailer takes the highest byte of the register away and
\* moves the others up.
Takes(w, v, z) ==
  \A j \in 0 .. Bits16 - 1 :
    IF j >= Bits16 - ByteBits THEN j \in w <=> j - Bits16 + ByteBits \in v
                              ELSE j \in w <=> j + ByteBits \in z

LEMMA ByteTaken ==
  ASSUME NEW w \in Word16, NEW v \in Byte, NEW z \in Word16, z \cap Low = {}
  PROVE  Add16(w, v) = z <=> Takes(w, v, z)
<1> DEFINE b == ByteBits
           B == Bits16
           x == XorIn(w, v, B)
           y == {i - b : i \in z}
<1>1. b \in Nat \ {0} /\ B \in Nat /\ B >= b /\ Poly16 \in Word16
  BY Widths DEF Word16
<1>2. x \in Word16 /\ \A j \in Int : j \in x <=> ~(j \in w <=> j - B + b \in v)
  BY <1>1, XorInBits DEF Word16
<1>3. Add16(w, v) = Shifts(x, B, Poly16)[b]
  BY <1>1, AddByteIs DEF Add16, Word16
<1>4. y \in Word16 /\ Shifts(y, B, Poly16)[b] = z
  BY NoFeedback
<1>5. \A j \in Int : j \in y <=> j + b \in z
  BY <1>1 DEF Word16, Words
<1> HIDE DEF x, y
<1>6. Add16(w, v) = z <=> x = y
  BY <1>2, <1>3, <1>4, ShiftsUndone
<1>7. x = y <=> \A j \in 0 .. B - 1 : j \in x <=> j \in y
  BY <1>1, <1>2, <1>4, SameBits DEF Word16
<1>8. ASSUME NEW j \in 0 .. B - 1
      PROVE  (j \in x <=> j \in y) <=>
               IF j >= B - b THEN j \in w <=> j - B + b \in v ELSE j \in w <=> j + b \in z
  <2>1. j >= B - b => j + b \notin z
    BY <1>1 DEF Word16, Words
  <2>2. ~(j >= B - b) => j - B + b \notin v
    BY <1>1 DEF Byte
  <2>3. j \in x <=> ~(j \in w <=> j - B + b \in v)
    BY <1>2
  <2>4. j \in y <=> j + b \in z
    BY <1>5
  <2> QED
    BY <2>1, <2>2, <2>3, <2>4
<1> QED
  BY <1>6, <1>7, <1>8 DEF Takes

Off == [n \in Nat |-> n * ByteBits]

LEMMA Offsets ==
  /\ Bytes16 \in Nat \ {0} /\ Off[0] = 0 /\ Off[Bytes16] = Bits16
  /\ \A n \in Nat : Off[n] \in Nat
  /\ \A n \in Nat \ {0} : Off[n] = Off[n - 1] + ByteBits
  /\ \A n \in 0 .. Bytes16 : Off[n] <= Bits16 /\ (Bytes16 - n) * ByteBits = Bits16 - Off[n]
<1> DEFINE b == ByteBits
           B == Bits16
           m == Bytes16
<1>1. b \in Nat \ {0} /\ B \in Nat /\ B >= b /\ B % b = 0
  BY Widths, CrcAssumption DEF CrcAssumption
<1>2. m \in Nat /\ m * b = B
  BY <1>1 DEF Bytes16
<1>3. m # 0
  <2> SUFFICES ASSUME m = 0 PROVE FALSE
    OBVIOUS
  <2>1. 0 * b = 0
    BY <1>1
  <2> QED
    BY <1>1, <1>2, <2>1
<1> HIDE DEF b, B, m
<1>4. \A n \in Nat : n * b \in Nat /\ (n # 0 => n * b = (n - 1) * b + b)
  BY <1>1
<1>5. ASSUME NEW n \in 0 .. m PROVE n * b <= B /\ (m - n) * b = B - n * b
  <2>1. m - n \in Nat /\ n \in Nat
    BY <1>2
  <2>2. (m - n) * b \in Nat /\ (m - n) * b = m * b - n * b /\ n * b \in Nat
    BY <1>1, <1>2, <2>1
  <2> QED
    BY <1>1, <1>2, <2>2
<1>6. 0 * b = 0
  BY <1>1
<1>7. \A n \in Nat : Off[n] = n * b
  BY DEF Off, b
<1>8. /\ Off[0] = 0 /\ Off[m] = B /\ \A n \in Nat : Off[n] \in Nat
      /\ \A n \in Nat \ {0} : Off[n] = Off[n - 1] + b
  <2>1. \A n \in Nat \ {0} : n - 1 \in Nat
    OBVIOUS
  <2> QED
    BY <1>2, <1>4, <1>6, <1>7, <2>1
<1>9. \A n \in 0 .. m : Off[n] <= B /\ (m - n) * b = B - Off[n]
  <2>1. \A n \in 0 .. m : n \in Nat
    BY <1>2
  <2> QED
    BY <1>5, <1>7, <2>1
<1> QED
  BY <1>2, <1>3, <1>8, <1>9 DEF b, B, m

LEMMA TrailerBits ==
  ASSUME NEW c \in Word16, NEW k \in 1 .. Bytes16
  PROVE  /\ LowByteAt(c, (Bytes16 - k) * ByteBits) \in Byte
         /\ \A i \in 0 .. ByteBits - 1 :
              i \in LowByteAt(c, (Bytes16 - k) * ByteBits) <=> i + Bits16 - Off[k] \in c
<1> DEFINE s == (Bytes16 - k) * ByteBits
<1>1. s \in Int /\ s = Bits16 - Off[k] /\ Off[k] \in Int /\ Bits16 \in Int /\ ByteBits \in Int
  <2>1. k \in 0 .. Bytes16 /\ k \in Nat
    BY Offsets
  <2>2. s = Bits16 - Off[k] /\ Off[k] \in Nat
    BY <2>1, Offsets
  <2> QED
    BY <2>2, Widths
<1> HIDE DEF s
<1>2. LowByteAt(c, s) \in Byte
  BY <1>1 DEF LowByteAt, Byte
<1>3. ASSUME NEW i \in 0 .. ByteBits - 1 PROVE i \in LowByteAt(c, s) <=> i + s \in c
  BY <1>1 DEF LowByteAt
<1>4. \A i \in 0 .. ByteBits - 1 : i + s = i + Bits16 - Off[k]
  BY <1>1
<1> QED
  BY <1>2, <1>3, <1>4 DEF s

LEMMA TrailerAccepted ==
  ASSUME NEW c \in Word16, NEW t \in Seq(Byte), Len(t) = Bytes16
  PROVE  AddAll16(c, t) = {} <=>
           \A k \in 1 .. Bytes16 : t[k] = LowByteAt(c, (Bytes16 - k) * ByteBits)
<1> DEFINE b == ByteBits
           B == Bits16
           m == Bytes16
<1>1. /\ b \in Nat \ {0} /\ B \in Nat /\ B >= b /\ m \in Nat \ {0}
      /\ Off[0] = 0 /\ Off[m] = B
      /\ \A n \in Nat : Off[n] \in Nat
      /\ \A n \in Nat \ {0} : Off[n] = Off[n - 1] + b
      /\ \A n \in 0 .. m : Off[n] <= B
  BY Widths, Offsets
<1>2. PICK h : IsAdding(h, c, t) /\ AddAll16(c, t) = h[m]
  BY Adding
<1>3. /\ h \in [0 .. m -> Word16] /\ h[0] = c
      /\ \A n \in 1 .. m : h[n] = Add16(h[n - 1], t[n])
  BY <1>2 DEF IsAdding
<1>4. \A n \in 1 .. m : t[n] \in Byte
  BY ElementOfSeq
<1>5. /\ \A w \in Word16 : \A j \in w : j \in 0 .. B - 1
      /\ \A v \in Byte : \A j \in v : j \in 0 .. b - 1
  BY <1>1 DEF Word16, Words, Byte
<1> HIDE DEF m, b, B
<1>6. ASSUME h[m] = {} PROVE \A k \in 1 .. m : t[k] = LowByteAt(c, (Bytes16 - k) * ByteBits)
  <2> DEFINE U == {n \in Nat : n <= m => \A j \in h[m - n] : j >= Off[m - n]}
             V == {n \in Nat : n <= m => \A j \in Off[n] .. B - 1 : j \in h[n] <=> j - Off[n] \in c}
  <2>1. ASSUME NEW k \in 1 .. m, \A j \in h[k] : j >= Off[k]
        PROVE  Takes(h[k - 1], t[k], h[k])
    <3>1. k - 1 \in 0 .. m /\ k \in 0 .. m /\ k - 1 \in Nat /\ k = (k - 1) + 1
      BY <1>1
    <3>2. h[k - 1] \in Word16 /\ h[k] \in Word16 /\ t[k] \in Byte
      BY <1>3, <1>4, <3>1
    <3>3. Off[k] >= b
      <4>1. Off[k - 1] \in Nat /\ Off[k] = Off[k - 1] + b
        BY <1>1, <3>1
      <4> QED
        BY <1>1, <4>1
    <3>4. h[k] \cap Low = {}
      BY <1>1, <2>1, <3>1, <3>3 DEF Low, b
    <3>5. Add16(h[k - 1], t[k]) = h[k]
      BY <1>3
    <3> QED
      BY <3>2, <3>4, <3>5, ByteTaken
  <2>2. 0 \in U
    BY <1>1, <1>6
  <2>3. ASSUME NEW n \in Nat, n \in U PROVE n + 1 \in U
    <3> SUFFICES ASSUME n + 1 <= m PROVE \A j \in h[m - (n + 1)] : j >= Off[m - (n + 1)]
      OBVIOUS
    <3> DEFINE k == m - n
    <3>1. /\ k \in 1 .. m /\ m - (n + 1) = k - 1 /\ k - 1 \in Nat /\ k - 1 \in 0 .. m
          /\ (k - 1) + 1 = k /\ \A j \in h[k] : j >= Off[k]
      BY <1>1, <2>3
    <3> HIDE DEF k
    <3>2. Takes(h[k - 1], t[k], h[k])
      BY <2>1, <3>1
    <3>3. h[k - 1] \in Word16 /\ Off[k] = Off[k - 1] + b /\ Off[k] <= B /\ Off[k - 1] \in Nat
      BY <1>1, <1>3, <3>1
    <3>4. ASSUME NEW j \in h[k - 1] PROVE j >= Off[k - 1]
      <4>1. j \in 0 .. B - 1
        BY <1>5, <3>3
      <4>2. CASE j >= B - b
        BY <1>1, <3>3, <4>1, <4>2
      <4>3. CASE ~(j >= B - b)
        <5>1. j + b \in h[k]
          BY <3>2, <4>1, <4>3 DEF Takes, B, b
        <5> QED
          BY <1>1, <3>1, <3>3, <4>1, <5>1
      <4> QED
        BY <4>2, <4>3
    <3> QED
      BY <3>1, <3>4
  <2>4. \A n \in Nat : n \in U
    <3> HIDE DEF U
    <3> QED
      BY <2>2, <2>3, Induction
  <2>5. ASSUME NEW k \in 1 .. m PROVE Takes(h[k - 1], t[k], h[k])
    <3>1. m - k \in Nat /\ m - k <= m /\ m - (m - k) = k
      BY <1>1
    <3>2. \A j \in h[k] : j >= Off[k]
      BY <2>4, <3>1
    <3> QED
      BY <2>1, <3>2
  <2>6. 0 \in V
    BY <1>1, <1>3
  <2>7. ASSUME NEW n \in Nat, n \in V PROVE n + 1 \in V
    <3> SUFFICES ASSUME n + 1 <= m, NEW j \in Off[n + 1] .. B - 1
                 PROVE  j \in h[n + 1] <=> j - Off[n + 1] \in c
      OBVIOUS
    <3>1. n + 1 \in 1 .. m /\ (n + 1) - 1 = n /\ n \in 0 .. m
      BY <1>1
    <3>2. Off[n] \in Nat /\ Off[n + 1] = Off[n] + b
      BY <1>1
    <3>3. /\ j - b \in 0 .. B - 1 /\ ~(j - b >= B - b) /\ (j - b) + b = j
          /\ j - b \in Off[n] .. B - 1 /\ (j - b) - Off[n] = j - Off[n + 1]
      BY <1>1, <3>2
    <3>4. Takes(h[n], t[n + 1], h[n + 1])
      BY <2>5, <3>1
    <3>5. j - b \in h[n] <=> j \in h[n + 1]
      BY <3>3, <3>4 DEF Takes, b, B
    <3>6. j - b \in h[n] <=> (j - b) - Off[n] \in c
      <4>1. n <= m /\ j - b \in Off[n] .. B - 1
        BY <1>1, <3>1, <3>3
      <4>2. \A i \in Off[n] .. B - 1 : i \in h[n] <=> i - Off[n] \in c
        BY <2>7, <4>1
      <4> QED
        BY <4>1, <4>2
    <3> QED
      BY <3>3, <3>5, <3>6
  <2>8. \A n \in Nat : n \in V
    <3> HIDE DEF V
    <3> QED
      BY <2>6, <2>7, Induction
  <2> SUFFICES ASSUME NEW k \in 1 .. m
               PROVE  t[k] = LowByteAt(c, (Bytes16 - k) * ByteBits)
    OBVIOUS
  <2> DEFINE l == LowByteAt(c, (Bytes16 - k) * ByteBits)
  <2>9. l \in Byte /\ \A i \in 0 .. b - 1 : i \in l <=> i + B - Off[k] \in c
    BY TrailerBits DEF m, b, B
  <2> HIDE DEF l
  <2>10. ASSUME NEW i \in 0 .. b - 1 PROVE i \in t[k] <=> i \in l
    <3>1. k - 1 \in Nat /\ k - 1 <= m /\ (k - 1) + 1 = k /\ k \in 0 .. m
      BY <1>1
    <3>2. Off[k - 1] \in Nat /\ Off[k] = Off[k - 1] + b /\ Off[k] <= B /\ Off[k] \in Int
      BY <1>1, <3>1
    <3> DEFINE j == i + B - b
    <3>3. /\ j \in 0 .. B - 1 /\ j >= B - b /\ j - B + b = i /\ j \in Off[k - 1] .. B - 1
          /\ j - Off[k - 1] = i + B - Off[k]
      <4> DEFINE o == Off[k - 1]
                 q == Off[k]
      <4>1. o \in Nat /\ q = o + b /\ q <= B /\ q \in Int
        BY <3>2
      <4> HIDE DEF o, q
      <4>2. /\ j \in 0 .. B - 1 /\ j >= B - b /\ j - B + b = i /\ j \in o .. B - 1
            /\ j - o = i + B - q
        BY <1>1, <4>1
      <4> QED
        BY <4>2 DEF o, q
    <3> HIDE DEF j
    <3>4. j \in h[k - 1] <=> i \in t[k]
      BY <2>5, <3>3 DEF Takes, b, B
    <3>5. j \in h[k - 1] <=> j - Off[k - 1] \in c
      BY <2>8, <3>1, <3>3
    <3> QED
      BY <2>9, <3>3, <3>4, <3>5
  <2>11. t[k] \in Byte
    BY <1>4
  <2>12. t[k] = l
    BY <2>9, <2>10, <2>11 DEF Byte, b
  <2> QED
    BY <2>12 DEF l
<1>7. ASSUME \A k \in 1 .. m : t[k] = LowByteAt(c, (Bytes16 - k) * ByteBits) PROVE h[m] = {}
  <2> DEFINE Z(n) == {j \in 0 .. B - 1 : j >= Off[n] /\ j - Off[n] \in c}
             T == {n \in Nat : n <= m => h[n] = Z(n)}
  <2>1. \A n : Z(n) \in Word16 /\ \A j : j \in Z(n) <=> j \in 0 .. B - 1 /\ j >= Off[n] /\ j - Off[n] \in c
    BY DEF Word16, Words, B
  <2> HIDE DEF Z
  <2>2. 0 \in T
    <3>1. \A j \in 0 .. B - 1 : j >= Off[0] /\ j - Off[0] = j
      BY <1>1
    <3>2. \A j \in 0 .. B - 1 : j \in c <=> j \in Z(0)
      BY <2>1, <3>1
    <3>3. c = Z(0)
      BY <1>1, <2>1, <3>2, SameBits DEF Word16, B
    <3> QED
      BY <1>3, <3>3
  <2>3. ASSUME NEW n \in Nat, n \in T PROVE n + 1 \in T
    <3> SUFFICES ASSUME n + 1 <= m PROVE h[n + 1] = Z(n + 1)
      OBVIOUS
    <3>1. n + 1 \in 1 .. m /\ (n + 1) - 1 = n /\ n \in 0 .. m /\ n + 1 \in 0 .. m /\ h[n] = Z(n)
      BY <1>1, <2>3
    <3>2. Off[n] \in Nat /\ Off[n + 1] = Off[n] + b /\ Off[n + 1] <= B
      BY <1>1, <3>1
    <3>3. Z(n + 1) \cap Low = {}
      BY <1>1, <2>1, <3>2 DEF Low, b
    <3>4. \A i \in 0 .. b - 1 : i \in t[n + 1] <=> i + B - Off[n + 1] \in c
      <4>1. t[n + 1] = LowByteAt(c, (Bytes16 - (n + 1)) * ByteBits)
        BY <1>7, <3>1
      <4> QED
        BY <3>1, <4>1, TrailerBits DEF m, b, B
    <3>5. Takes(Z(n), t[n + 1], Z(n + 1))
      <4>1. ASSUME NEW j \in 0 .. B - 1, j >= B - b
            PROVE  j \in Z(n) <=> j - B + b \in t[n + 1]
        <5>1. /\ j - B + b \in 0 .. b - 1 /\ (j - B + b) + B - Off[n + 1] = j - Off[n]
              /\ j >= Off[n]
          <6> DEFINE o == Off[n]
                     q == Off[n + 1]
          <6>1. o \in Nat /\ q = o + b /\ q <= B
            BY <3>2
          <6> HIDE DEF o, q
          <6>2. j - B + b \in 0 .. b - 1 /\ (j - B + b) + B - q = j - o /\ j >= o
            BY <1>1, <4>1, <6>1
          <6> QED
            BY <6>2 DEF o, q
        <5> QED
          BY <2>1, <3>4, <5>1
      <4>2. ASSUME NEW j \in 0 .. B - 1, ~(j >= B - b)
            PROVE  j \in Z(n) <=> j + b \in Z(n + 1)
        <5>1. /\ j + b \in 0 .. B - 1 /\ (j + b) - Off[n + 1] = j - Off[n]
              /\ (j + b >= Off[n + 1] <=> j >= Off[n])
          BY <1>1, <3>2, <4>2
        <5> QED
          BY <2>1, <5>1
      <4> QED
        BY <4>1, <4>2 DEF Takes, b, B
    <3>6. Z(n) \in Word16 /\ Z(n + 1) \in Word16 /\ t[n + 1] \in Byte
      BY <1>4, <2>1, <3>1
    <3>7. Add16(Z(n), t[n + 1]) = Z(n + 1)
      BY <3>3, <3>5, <3>6, ByteTaken
    <3> QED
      BY <1>3, <3>1, <3>7
  <2>4. \A n \in Nat : n \in T
    <3> HIDE DEF T
    <3> QED
      BY <2>2, <2>3, Induction
  <2>5. h[m] = Z(m)
    BY <1>1, <2>4
  <2>6. \A j : j \notin Z(m)
    BY <1>1, <2>1
  <2> QED
    BY <2>5, <2>6
<1> QED
  BY <1>2, <1>6, <1>7 DEF m

\* The register is what adding the whole text gives.
AddedInv ==
  /\ text \in Seq(Byte)
  /\ crc16 = AddAll16(Restart16, text)

LEMMA AddAllEnds ==
  /\ Restart16 \in Word16
  /\ AddAll16(Restart16, <<>>) = Restart16
  /\ \A c \in Word16, v \in Byte : AddAll16(c, <<v>>) = Add16(c, v)
<1>1. Restart16 \in Word16
  BY DEF Restart16, Word16, Words
<1>2. AddAll16(Restart16, <<>>) = Restart16
  <2>1. <<>> \in Seq(Byte) /\ Len(<<>>) = 0
    OBVIOUS
  <2>2. PICK h : IsAdding(h, Restart16, <<>>) /\ AddAll16(Restart16, <<>>) = h[0]
    BY <1>1, <2>1, Adding
  <2> QED
    BY <2>2 DEF IsAdding
<1>3. ASSUME NEW c \in Word16, NEW v \in Byte PROVE AddAll16(c, <<v>>) = Add16(c, v)
  <2> DEFINE s == <<v>>
  <2>1. s \in Seq(Byte) /\ Len(s) = 1 /\ s[1] = v
    OBVIOUS
  <2> HIDE DEF s
  <2>2. PICK h : IsAdding(h, c, s) /\ AddAll16(c, s) = h[Len(s)]
    BY <2>1, Adding
  <2>3. h[1] = Add16(h[1 - 1], s[1]) /\ h[0] = c
    BY <2>1, <2>2 DEF IsAdding
  <2> QED
    BY <2>1, <2>2, <2>3 DEF s
<1> QED
  BY <1>1, <1>2, <1>3

LEMMA AddedHolds == Spec => []AddedInv
<1>1. Init => AddedInv
  BY AddAllEnds DEF Init, AddedInv
<1>2. AddedInv /\ [Next]_vars => AddedInv'
  <2> SUFFICES ASSUME AddedInv, [Next]_vars PROVE AddedInv'
    OBVIOUS
  <2>1. CASE Add
    <3>1. PICK value \in Byte : text' = Append(text, value) /\ crc16' = Add16(crc16, value)
      BY <2>1 DEF Add
    <3>2. text \in Seq(Byte) /\ <<value>> \in Seq(Byte) /\ text' = text \o <<value>>
      BY <3>1, AppendIsConcat DEF AddedInv
    <3>3. AddAll16(Restart16, text') = AddAll16(crc16, <<value>>) /\ crc16 \in Word16
      BY <3>2, AddAllEnds, AddingInOrder DEF AddedInv
    <3>4. crc16' = AddAll16(Restart16, text')
      BY <3>1, <3>3, AddAllEnds
    <3>5. text' \in Seq(Byte)
      BY <3>1, <3>2
    <3> QED
      BY <3>4, <3>5 DEF AddedInv
  <2>2. CASE Finalize
    BY <2>2 DEF Finalize, AddedInv
  <2>3. CASE NextText
    BY <2>3, AddAllEnds DEF NextText, AddedInv
  <2>4. CASE UNCHANGED vars
    BY <2>4 DEF vars, AddedInv
  <2> QED
    BY <2>1, <2>2, <2>3, <2>4 DEF Next
<1> QED
  BY <1>1, <1>2, PTL DEF Spec

\* get_block runs the check over block and trailer and asks for 0: for every
\* polynomial with a constant term and every text, that accepts the trailer
\* send_block writes behind the block, and no other.
THEOREM TrailerIsOnly == Spec => []OnlyTrailerVerified
<1>1. AddedInv => OnlyTrailerVerified
  <2> SUFFICES ASSUME AddedInv, NEW trailer \in [1 .. Bytes16 -> Byte]
               PROVE  CrcVerified(text, trailer) <=> trailer = Trailer(crc16)
    BY DEF OnlyTrailerVerified, Calc16
  <2>1. Bytes16 \in Nat
    BY Offsets
  <2>2. trailer \in Seq(Byte) /\ Len(trailer) = Bytes16
    BY <2>1
  <2>3. text \in Seq(Byte) /\ crc16 = AddAll16(Restart16, text)
    BY DEF AddedInv
  <2>4. crc16 \in Word16 /\ AddAll16(Restart16, text \o trailer) = AddAll16(crc16, trailer)
    BY <2>2, <2>3, AddAllEnds, AddingInOrder
  <2>5. CrcVerified(text, trailer) <=> AddAll16(crc16, trailer) = {}
    BY <2>4 DEF CrcVerified, Calc16
  <2>6. AddAll16(crc16, trailer) = {} <=>
          \A k \in 1 .. Bytes16 : trailer[k] = LowByteAt(crc16, (Bytes16 - k) * ByteBits)
    BY <2>2, <2>4, TrailerAccepted
  <2> DEFINE t == Trailer(crc16)
  <2>7. DOMAIN t = 1 .. Bytes16 /\ t = [k \in 1 .. Bytes16 |-> t[k]]
        /\ \A k \in 1 .. Bytes16 : t[k] = LowByteAt(crc16, (Bytes16 - k) * ByteBits)
    BY DEF Trailer
  <2>8. trailer = [k \in 1 .. Bytes16 |-> trailer[k]]
    OBVIOUS
  <2> HIDE DEF t
  <2>9. trailer = t <=> \A k \in 1 .. Bytes16 : trailer[k] = t[k]
    BY <2>7, <2>8
  <2> QED
    BY <2>5, <2>6, <2>7, <2>9 DEF t
<1> QED
  BY <1>1, AddedHolds, PTL
=============================================================================
