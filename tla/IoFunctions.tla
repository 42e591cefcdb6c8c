---------------------------- MODULE IoFunctions ----------------------------
(***************************************************************************)
(* The functions and programs that read, write, wait and map files, side   *)
(* by side, with the proof that each is correct for every size, input and  *)
(* number of interruptions: an inductive invariant XInv that holds when it *)
(* starts (XInit) and that its steps keep (XNext).  Variables of the same  *)
(* name are shared; MCInputOutput lets one function run in a behaviour.    *)
(***************************************************************************)
EXTENDS Integers, Sequences, TLAPS

-----------------------------------------------------------------------------
(* Sequences.                                                              *)

\* A function on 1..m is a sequence of length m.
LEMMA IsSeq ==
  ASSUME NEW S, NEW m \in Nat, NEW f \in [1..m -> S] PROVE f \in Seq(S) /\ Len(f) = m
OBVIOUS

\* The elements of a sequence.
LEMMA SeqElement == ASSUME NEW S, NEW d \in Seq(S) PROVE \A k \in 1..Len(d) : d[k] \in S
OBVIOUS

\* A sequence appended to another one.
LEMMA Concat ==
  ASSUME NEW S, NEW a \in Seq(S), NEW b \in Seq(S)
  PROVE  a \o b \in Seq(S) /\ Len(a \o b) = Len(a) + Len(b)
OBVIOUS

-----------------------------------------------------------------------------
(* Quotients, remainders and integers of a fixed width.                    *)

\* Quotient and remainder.
LEMMA DivMod ==
  ASSUME NEW m \in Nat \ {0}, NEW u \in Int
  PROVE  u \div m \in Int /\ u % m \in 0..(m - 1) /\ (u \div m) * m + (u % m) = u
<1>1. u \div m \in Int /\ u % m \in 0..(m - 1) OBVIOUS
<1>2. u % m = u - m * (u \div m) OBVIOUS
<1>3. PICK q \in Int : q = u \div m BY <1>1
<1>4. q * m = m * q OBVIOUS
<1>5. PICK r \in Nat : r = u % m BY <1>1
<1>6. r = u - m * q BY <1>2, <1>3, <1>5
<1>7. q * m + r = u BY <1>4, <1>6
<1>8. (u \div m) * m + (u % m) = u BY <1>3, <1>5, <1>7, Zenon
<1> QED BY <1>1, <1>8, Zenon

\* The same for a natural number, whose quotient is one.
LEMMA DivModNat ==
  ASSUME NEW m \in Nat \ {0}, NEW u \in Nat
  PROVE  u \div m \in Nat /\ u % m \in 0..(m - 1) /\ (u \div m) * m + (u % m) = u
<1>1. u \in Int OBVIOUS
<1>2. u % m \in 0..(m - 1) /\ (u \div m) * m + (u % m) = u BY <1>1, DivMod
<1>3. u \div m \in Nat OBVIOUS
<1> QED BY <1>2, <1>3, Zenon

\* A multiple of m between - m and m is zero.
LEMMA SmallMultiple ==
  ASSUME NEW m \in Nat \ {0}, NEW k \in Int, - m < k * m, k * m < m
  PROVE  k = 0
<1>1. CASE k >= 1
  <2>1. k * m >= m BY <1>1
  <2> QED BY <2>1
<1>2. CASE k <= -1
  <2>1. k * m <= - m BY <1>2
  <2> QED BY <2>1
<1> QED BY <1>1, <1>2

\* An int as large as h: the values it can have, and the one for n.
Width(h) == 2 * (h + 1)
Wrap(h, n) == IF n % Width(h) > h THEN (n % Width(h)) - Width(h) ELSE n % Width(h)

\* The value differs from n by a multiple of the width.
LEMMA WrapValue ==
  ASSUME NEW h \in Nat, NEW n \in Int
  PROVE  /\ Wrap(h, n) \in (- h - 1)..h
         /\ \E k \in Int : Wrap(h, n) = n + k * Width(h)
<1> DEFINE m == Width(h)
           q == n \div m
           r == n % m
<1>1. m \in Nat \ {0} /\ m = 2 * h + 2 BY DEF Width
<1> HIDE DEF m
<1>2. q \in Int /\ r \in 0..(m - 1) /\ q * m + r = n BY <1>1, DivMod
<1> HIDE DEF q, r
<1>3. Wrap(h, n) = IF r > h THEN r - m ELSE r BY DEF Wrap, m, r
<1>4. Wrap(h, n) \in (- h - 1)..h BY <1>1, <1>2, <1>3
<1>5. (- q) * m = - (q * m) /\ (- q - 1) * m = - (q * m) - m BY <1>1, <1>2
<1>6. Wrap(h, n) = n + (- q) * m \/ Wrap(h, n) = n + (- q - 1) * m
  <2> DEFINE p == q * m
             p0 == (- q) * m
             p1 == (- q - 1) * m
  <2>1. p \in Int /\ p0 = - p /\ p1 = - p - m /\ p + r = n BY <1>1, <1>2, <1>5
  <2> HIDE DEF p, p0, p1
  <2>2. Wrap(h, n) = n + p0 \/ Wrap(h, n) = n + p1 BY <1>1, <1>2, <1>3, <2>1
  <2> QED BY <2>2 DEF p0, p1
<1>7. - q \in Int /\ - q - 1 \in Int BY <1>2
<1> QED BY <1>4, <1>6, <1>7 DEF m

\* It is the only one that does and is in the range.
LEMMA WrapUnique ==
  ASSUME NEW h \in Nat, NEW n \in Int, NEW y \in (- h - 1)..h,
         NEW k \in Int, y = n + k * Width(h)
  PROVE  Wrap(h, n) = y
<1> DEFINE m == Width(h)
           w == Wrap(h, n)
<1>1. m \in Nat \ {0} /\ m = 2 * h + 2 BY DEF Width
<1>2. w \in (- h - 1)..h BY WrapValue
<1>3. PICK j \in Int : w = n + j * m BY WrapValue
<1>4. y = n + k * m OBVIOUS
<1> HIDE DEF m, w
<1>5. (k - j) * m = k * m - j * m BY <1>1
<1>6. y - w = (k - j) * m
  <2> DEFINE a == k * m
             b == j * m
             c == (k - j) * m
  <2>1. a \in Int /\ b \in Int /\ c = a - b /\ y = n + a /\ w = n + b
    BY <1>1, <1>3, <1>4, <1>5
  <2> HIDE DEF a, b, c
  <2>2. y - w = c BY <2>1
  <2> QED BY <2>2 DEF c
<1>7. k - j \in Int /\ - m < (k - j) * m /\ (k - j) * m < m BY <1>1, <1>2, <1>6
<1>8. k - j = 0 BY <1>1, <1>7, SmallMultiple
<1>9. k = j BY <1>8
<1> QED BY <1>3, <1>4, <1>9 DEF w

\* A number in the range is its own value, and a natural number is not below its value.
LEMMA WrapSmall ==
  ASSUME NEW h \in Nat, NEW n \in Nat
  PROVE  Wrap(h, n) <= n /\ (n <= h => Wrap(h, n) = n)
<1>1. ASSUME n <= h PROVE Wrap(h, n) = n
  <2>1. n \in (- h - 1)..h /\ n = n + 0 * Width(h) BY <1>1 DEF Width
  <2> QED BY <2>1, WrapUnique
<1>2. Wrap(h, n) \in (- h - 1)..h BY WrapValue
<1> QED BY <1>1, <1>2

\* Sums wrap to the same value whether or not a summand has wrapped before.
LEMMA WrapSum ==
  ASSUME NEW h \in Nat, NEW a \in Int, NEW b \in Int
  PROVE  Wrap(h, Wrap(h, a) + b) = Wrap(h, a + b)
<1> DEFINE m == Width(h)
           y == Wrap(h, Wrap(h, a) + b)
           w == Wrap(h, a)
<1>1. m \in Nat BY DEF Width
<1>2. w \in Int /\ y \in (- h - 1)..h
  <2>1. w \in (- h - 1)..h BY WrapValue
  <2>2. w + b \in Int BY <2>1
  <2> QED BY <2>1, <2>2, WrapValue
<1>3. PICK j \in Int : w = a + j * m BY WrapValue
<1>4. PICK l \in Int : y = w + b + l * m
  <2>1. w + b \in Int BY <1>2
  <2> QED BY <2>1, WrapValue
<1> HIDE DEF m, y, w
<1>5. (j + l) * m = j * m + l * m BY <1>1
<1>6. y = (a + b) + (j + l) * m
  <2> DEFINE p == j * m
             q == l * m
             s == (j + l) * m
  <2>1. p \in Int /\ q \in Int /\ s = p + q /\ w = a + p /\ y = w + b + q
    BY <1>1, <1>3, <1>4, <1>5
  <2> HIDE DEF p, q, s
  <2>2. y = (a + b) + s BY <2>1
  <2> QED BY <2>2 DEF s
<1>7. a + b \in Int /\ j + l \in Int OBVIOUS
<1>8. Wrap(h, a + b) = y BY <1>2, <1>6, <1>7, WrapUnique DEF m
<1> QED BY <1>8 DEF y

-----------------------------------------------------------------------------
(* The programs that map a file.                                           *)

CONSTANTS INT_MAX,       \* the largest int
          PAGE, MapMax   \* bytes of a page; bound on the bytes of a file

VARIABLES kind, pc, src, cut, off, len, pos, dst

Maps == INSTANCE MmapFiles WITH MaxLen <- MapMax

ASSUME MapsConstants == Maps!MmapFilesAssumption

\* The bytes done so far that are in the file.
MapsDone ==
  \A k \in 1..Len(dst) : k <= pos => dst[k] = off + k \/ ("src" \in cut /\ dst[k] = 0)

\* The destination is untouched before the loop; in the loop the first pos bytes are
\* done, the part to be done is inside a source that was not cut short, and inside a
\* destination that was not.
MapsInv ==
  /\ Maps!TypeOK /\ Maps!BytesExact /\ Maps!BusExplained
  /\ pc \in {"start", "stat"} => cut = {}
  /\ pc \in {"start", "stat", "extend"} =>
       pos = 0 /\ off = 0 /\ "dst" \notin cut
       /\ IF kind = "simple" THEN dst = <<>> ELSE \A k \in 1..Len(dst) : dst[k] = Maps!Old
  /\ pc = "extend" => kind = "fileio"
  /\ pc \in {"extend", "loop"} => len > 0 /\ ("src" \notin cut => off + len <= src)
  /\ kind = "fileio" => off = 0
  /\ dst \in Seq(0..Maps!Old)
  /\ pc = "loop" => pos <= len /\ MapsDone
  /\ pc = "loop" /\ kind = "simple" =>
       Len(dst) = pos /\ (pos <= Maps!ToInt(len) \/ pos = 0)
  /\ pc = "loop" /\ kind = "fileio" =>
       /\ "dst" \notin cut => Len(dst) >= len
       /\ \A k \in 1..Len(dst) : k > len => dst[k] = Maps!Old

\* The bytes of the loop: no more than wanted, and all of them if they are an int.
LEMMA MapsBytes ==
  ASSUME NEW n \in Nat
  PROVE  /\ Maps!ToInt(n) \in Int /\ Maps!ToInt(n) <= n
         /\ n <= INT_MAX => Maps!ToInt(n) = n
<1>1. INT_MAX \in Nat BY MapsConstants DEF Maps!MmapFilesAssumption
<1>2. Maps!ToInt(n) = Wrap(INT_MAX, n) BY DEF Maps!ToInt, Wrap, Width
<1>3. Wrap(INT_MAX, n) \in (- INT_MAX - 1)..INT_MAX BY <1>1, WrapValue
<1>4. Wrap(INT_MAX, n) <= n /\ (n <= INT_MAX => Wrap(INT_MAX, n) = n) BY <1>1, WrapSmall
<1> QED BY <1>1, <1>2, <1>3, <1>4

\* Between a page border p and a number of a later page lies a whole page.
LEMMA PageBetween ==
  ASSUME NEW m \in Nat \ {0}, NEW p \in Nat, NEW n \in Nat, p <= n,
         p % m = 0, p \div m # n \div m
  PROVE  p + m <= n
<1> DEFINE a == p \div m
           b == n \div m
           r == n % m
<1>1. a \in Nat /\ a * m = p
  <2>1. p \div m \in Nat /\ (p \div m) * m + (p % m) = p BY DivModNat
  <2> QED BY <2>1
<1>2. b \in Nat /\ r \in 0..(m - 1) /\ b * m + r = n BY DivModNat
<1>3. a # b OBVIOUS
<1> HIDE DEF a, b, r
<1>4. CASE a < b
  <2>1. (a + 1) * m <= b * m BY <1>1, <1>2, <1>4
  <2>2. (a + 1) * m = a * m + m BY <1>1
  <2> QED BY <1>1, <1>2, <2>1, <2>2
<1>5. CASE b < a
  <2>1. (b + 1) * m <= a * m BY <1>1, <1>2, <1>5
  <2>2. (b + 1) * m = b * m + m BY <1>2
  <2> QED BY <1>1, <1>2, <2>1, <2>2
<1> QED BY <1>1, <1>2, <1>3, <1>4, <1>5

\* A store that needs a new block leaves at least a page to be copied.
LEMMA MapsNewBlock ==
  ASSUME pos \in Nat, len \in Nat, pos < len, Maps!NewBlock(pos + 1)
  PROVE  pos + PAGE < len
<1>1. PAGE \in Nat \ {0} BY MapsConstants DEF Maps!MmapFilesAssumption
<1>2. pos + 1 - 1 = pos OBVIOUS
<1>3. pos % PAGE = 0 /\ pos \div PAGE # (len - 1) \div PAGE BY <1>2 DEF Maps!NewBlock
<1>4. len - 1 \in Nat /\ pos <= len - 1 OBVIOUS
<1>5. pos + PAGE <= len - 1 BY <1>1, <1>3, <1>4, PageBetween
<1> QED BY <1>1, <1>5

\* Rounded up to pages, a size is not smaller.
LEMMA PageHolds ==
  ASSUME NEW m \in Nat \ {0}, NEW u \in Nat
  PROVE  u <= ((u + m - 1) \div m) * m
OBVIOUS

\* A byte inside a file is mapped.
LEMMA MapsMapped == ASSUME NEW b \in Nat, NEW u \in Nat, b <= u PROVE Maps!Mapped(b, u)
<1>1. u <= ((u + PAGE - 1) \div PAGE) * PAGE
  BY PageHolds, MapsConstants DEF Maps!MmapFilesAssumption
<1>2. ((u + PAGE - 1) \div PAGE) * PAGE \in Int
  BY MapsConstants DEF Maps!MmapFilesAssumption
<1> QED BY <1>1, <1>2 DEF Maps!Mapped

\* The invariant holds when the program starts.
LEMMA MapsInit == Maps!Init => MapsInv
<1> SUFFICES ASSUME Maps!Init PROVE MapsInv OBVIOUS
<1>2. MapMax \in Nat BY MapsConstants DEF Maps!MmapFilesAssumption
<1>3. PICK k \in 0..MapMax :
        dst = [b \in 1..(IF kind = "simple" THEN 0 ELSE k) |-> Maps!Old]
  BY DEF Maps!Init
<1>4. kind = "simple" => dst = <<>> BY <1>3
<1>5. dst \in Seq(0..Maps!Old) /\ \A j \in 1..Len(dst) : dst[j] = Maps!Old
  BY <1>2, <1>3 DEF Maps!Old
<1> QED BY <1>2, <1>4, <1>5
      DEF Maps!Init, MapsInv, Maps!TypeOK, Maps!Kinds, Maps!BytesExact,
          Maps!BusExplained

\* The invariant is kept by the program, and by whoever cuts a file short.
LEMMA MapsNext == MapsInv /\ (Maps!Next \/ UNCHANGED Maps!vars) => MapsInv'
<1> SUFFICES ASSUME MapsInv, Maps!Next \/ UNCHANGED Maps!vars PROVE MapsInv' OBVIOUS
<1>1. /\ MapMax \in Nat /\ src \in Nat /\ off \in Nat /\ len \in Nat /\ pos \in Nat
      /\ dst \in Seq(0..Maps!Old) /\ Len(dst) \in Nat /\ kind \in Maps!Kinds
  BY MapsConstants DEF Maps!MmapFilesAssumption, MapsInv, Maps!TypeOK, Maps!Kinds
<1>9. \A k \in 1..Len(dst) : dst[k] \in 0..Maps!Old BY <1>1, SeqElement
<1>10. /\ Maps!ToInt(len) \in Int /\ Maps!ToInt(len) <= len
       /\ len <= INT_MAX => Maps!ToInt(len) = len
  BY <1>1, MapsBytes
<1>11. PAGE \in Nat /\ INT_MAX \in Nat BY MapsConstants DEF Maps!MmapFilesAssumption
<1>2. CASE Maps!Open BY <1>1, <1>2
      DEF Maps!Open, MapsInv, Maps!TypeOK, Maps!BytesExact, Maps!BusExplained
<1>3. CASE Maps!Stat BY <1>1, <1>3
      DEF Maps!Stat, MapsInv, Maps!TypeOK, Maps!BytesExact, Maps!BusExplained,
          MapsDone, Maps!Kinds
<1>4. CASE Maps!Extend
  <2>1. pc = "extend" /\ kind = "fileio" /\ UNCHANGED <<kind, src, cut, off, len, pos>>
    BY <1>4 DEF Maps!Extend, MapsInv
  <2> DEFINE m == IF Len(dst) > len THEN Len(dst) ELSE len
             f == [b \in 1..m |-> IF b \in DOMAIN dst /\ b # len THEN dst[b] ELSE 0]
  <2>2. CASE dst' = f /\ pc' \in {"loop", "exit1"}
    <3>1. m \in Nat /\ m >= len /\ m >= Len(dst) BY <1>1
    <3>2. f \in [1..m -> 0..Maps!Old] BY <1>1, <3>1 DEF Maps!Old
    <3>3. \A k \in 1..m : k > len => f[k] = Maps!Old BY <1>1, <2>1, <3>1 DEF MapsInv
    <3> HIDE DEF f, m
    <3>4. dst' \in Seq(0..Maps!Old) /\ Len(dst') = m BY <2>2, <3>1, <3>2, IsSeq
    <3>5. \A k \in 1..Len(dst') : k > len => dst'[k] = Maps!Old BY <2>2, <3>3, <3>4
    <3> QED BY <1>1, <2>1, <2>2, <3>1, <3>4, <3>5
         DEF MapsInv, Maps!TypeOK, Maps!BytesExact, Maps!BusExplained, MapsDone,
             Maps!Old
  <2>3. CASE pc' = "exit1" /\ UNCHANGED dst
    BY <1>1, <2>1, <2>3 DEF MapsInv, Maps!TypeOK, Maps!BytesExact, Maps!BusExplained
  <2> QED BY <1>4, <2>2, <2>3 DEF Maps!Extend
<1>5. CASE Maps!Byte
  <2> DEFINE b == off + pos + 1
             v == IF b <= src THEN b ELSE 0
             ok == Maps!Mapped(b, src) /\ (kind = "fileio" => Maps!Mapped(b, Len(dst)))
  <2>1. pc = "loop" /\ pos < Maps!Bytes /\ UNCHANGED <<kind, src, cut, off, len>>
    BY <1>5 DEF Maps!Byte
  <2>0. pos < len /\ (kind = "simple" => pos < Maps!ToInt(len))
    BY <1>1, <1>10, <2>1 DEF Maps!Bytes
  <2>2. /\ b \in Nat /\ v \in 0..Maps!Old
        /\ ("src" \notin cut => b <= src /\ v = b) /\ (v = b \/ ("src" \in cut /\ v = 0))
    BY <1>1, <2>0, <2>1 DEF MapsInv, Maps!TypeOK, Maps!Old
  <2>3. CASE /\ dst' = IF kind = "simple" THEN Append(dst, v)
                        ELSE [k \in 1..Len(dst) |-> IF k = b THEN v ELSE dst[k]]
             /\ pos' = pos + 1 /\ pc' = pc
    <3>2. ASSUME \A k \in 1..Len(dst') : k <= pos => k <= Len(dst) /\ dst'[k] = dst[k],
                 pos + 1 \in 1..Len(dst') => dst'[pos + 1] = v,
                 Len(dst') \in Nat
          PROVE  MapsDone'
      <4>1. ASSUME NEW k \in 1..Len(dst'), k <= pos + 1
            PROVE  dst'[k] = off + k \/ ("src" \in cut /\ dst'[k] = 0)
        <5>1. CASE k <= pos
          <6>1. k \in 1..Len(dst) /\ dst'[k] = dst[k] BY <1>1, <3>2, <4>1, <5>1
          <6> QED BY <2>1, <5>1, <6>1 DEF MapsInv, MapsDone
        <5>2. CASE k = pos + 1 BY <1>1, <2>2, <3>2, <4>1, <5>2
        <5> QED BY <1>1, <3>2, <4>1, <5>1, <5>2
      <4> QED BY <2>1, <2>3, <4>1 DEF MapsDone
    <3>3. CASE kind = "simple"
      <4>1. Len(dst) = pos BY <2>1, <3>3 DEF MapsInv
      <4>2. dst' \in Seq(0..Maps!Old) /\ Len(dst') = pos + 1
        BY <1>1, <2>2, <2>3, <3>3, <4>1
      <4>3. /\ \A k \in 1..pos : dst'[k] = dst[k]
            /\ dst'[pos + 1] = v
        BY <1>1, <2>2, <2>3, <3>3, <4>1
      <4> HIDE DEF v, b
      <4>4. MapsDone' BY <1>1, <3>2, <4>1, <4>2, <4>3
      <4>5. /\ pc' = "loop" /\ kind' = "simple" /\ pos' = pos + 1 /\ pos' <= len'
            /\ len' = len /\ len > 0 /\ Maps!ToInt(len)' = Maps!ToInt(len)
            /\ pos' <= Maps!ToInt(len)
            /\ ("src" \notin cut' => off' + len' <= src')
        BY <1>1, <1>10, <2>0, <2>1, <2>3, <3>3 DEF MapsInv, Maps!ToInt
      <4>6. Maps!TypeOK' BY <1>1, <2>0, <2>1, <3>3, <4>5 DEF MapsInv, Maps!TypeOK
      <4>7. Maps!BytesExact' /\ Maps!BusExplained'
        BY <4>5 DEF Maps!BytesExact, Maps!BusExplained
      <4> QED BY <2>1, <4>2, <4>4, <4>5, <4>6, <4>7 DEF MapsInv
    <3>4. CASE kind = "fileio"
      <4> DEFINE f == [k \in 1..Len(dst) |-> IF k = b THEN v ELSE dst[k]]
      <4>1. b = pos + 1 /\ b <= len BY <1>1, <2>0, <2>1, <3>4 DEF MapsInv
      <4>2. f \in [1..Len(dst) -> 0..Maps!Old]
        <5> HIDE DEF v, b
        <5> QED BY <1>9, <2>2
      <4>3. /\ \A k \in 1..Len(dst) : k <= pos => f[k] = dst[k]
            /\ pos + 1 \in 1..Len(dst) => f[pos + 1] = v
            /\ \A k \in 1..Len(dst) : k > len => f[k] = dst[k]
        BY <1>1, <4>1
      <4>4. dst' = f BY <2>3, <3>4
      <4> HIDE DEF f
      <4>5. dst' \in Seq(0..Maps!Old) /\ Len(dst') = Len(dst) BY <1>1, <4>2, <4>4, IsSeq
      <4> HIDE DEF v, b
      <4>6. MapsDone' BY <1>1, <3>2, <4>3, <4>4, <4>5
      <4>7. \A k \in 1..Len(dst') : k > len => dst'[k] = Maps!Old
        BY <1>1, <2>1, <3>4, <4>3, <4>4, <4>5 DEF MapsInv
      <4>8. /\ pc' = "loop" /\ kind' = "fileio" /\ off' = 0
            /\ pos' \in Nat /\ pos' <= len' /\ len' > 0
            /\ ("src" \notin cut' => off' + len' <= src')
            /\ ("dst" \notin cut' => Len(dst') >= len')
        BY <1>1, <2>0, <2>1, <2>3, <3>4, <4>1, <4>5 DEF MapsInv
      <4>9. Maps!TypeOK' BY <1>1, <2>1, <3>4, <4>1, <4>5, <4>8 DEF MapsInv, Maps!TypeOK
      <4>10. Maps!BytesExact' /\ Maps!BusExplained'
        BY <4>8 DEF Maps!BytesExact, Maps!BusExplained
      <4> QED BY <2>1, <4>5, <4>6, <4>7, <4>8, <4>9, <4>10 DEF MapsInv
    <3> QED BY <1>1, <3>3, <3>4 DEF Maps!Kinds
  <2>4. CASE /\ ~ ok \/ (kind = "fileio" /\ Maps!NewBlock(b))
             /\ pc' = "bus" /\ UNCHANGED <<dst, pos>>
    <3>2. "src" \notin cut => Maps!Mapped(b, src) BY <1>1, <2>2, MapsMapped
    <3>3. kind = "fileio" => b = pos + 1 BY <1>1 DEF MapsInv
    <3>4. kind = "fileio" /\ "dst" \notin cut => Maps!Mapped(b, Len(dst))
      <4>1. kind = "fileio" /\ "dst" \notin cut => b <= Len(dst)
        BY <1>1, <2>0, <2>1, <3>3 DEF MapsInv
      <4> QED BY <1>1, <2>2, <4>1, MapsMapped
    <3>5. kind = "fileio" /\ Maps!NewBlock(b) => pos + PAGE < len
      BY <1>1, <2>0, <3>3, MapsNewBlock
    <3> HIDE DEF b
    <3>6. Maps!BusExplained' BY <2>1, <2>4, <3>2, <3>4, <3>5 DEF Maps!BusExplained
    <3> QED BY <1>1, <2>1, <2>4, <3>6 DEF MapsInv, Maps!TypeOK, Maps!BytesExact
  <2> QED BY <1>5, <2>3, <2>4 DEF Maps!Byte
<1>6. CASE Maps!Done
  <2>1. /\ pc = "loop" /\ pos >= Maps!Bytes /\ pc' \in {"exit0", "exit1"}
        /\ UNCHANGED <<kind, src, cut, off, len, pos, dst>>
    BY <1>6 DEF Maps!Done
  <2>2. kind = "simple" /\ len <= INT_MAX => Len(dst) = len
    BY <1>1, <1>10, <2>1 DEF Maps!Bytes, MapsInv
  <2>3. kind = "fileio" => pos = len BY <1>1, <2>1 DEF Maps!Bytes, Maps!Kinds, MapsInv
  <2>4. kind = "simple" => Len(dst) = pos /\ pos <= len BY <2>1 DEF MapsInv
  <2>5. ASSUME NEW k \in 1..Len(dst)
        PROVE  IF k <= len THEN dst[k] = off + k \/ ("src" \in cut /\ dst[k] = 0)
                           ELSE kind = "fileio" /\ dst[k] = Maps!Old
    <3>1. CASE k <= len
      <4>1. k <= pos BY <1>1, <2>3, <2>4, <3>1 DEF Maps!Kinds
      <4> QED BY <2>1, <3>1, <4>1 DEF MapsInv, MapsDone
    <3>2. CASE k > len
      <4>1. kind = "fileio" BY <1>1, <2>4, <3>2 DEF Maps!Kinds
      <4> QED BY <1>1, <2>1, <3>2, <4>1 DEF MapsInv
    <3> QED BY <1>1, <3>1, <3>2
  <2>6. Maps!BytesExact'
    BY <1>1, <2>1, <2>2, <2>5 DEF Maps!BytesExact, Maps!Kinds, Maps!Old, MapsInv
  <2> QED BY <1>1, <2>1, <2>6 DEF MapsInv, Maps!TypeOK, Maps!BusExplained
<1>7. CASE Maps!Truncate
  BY <1>1, <1>7
     DEF Maps!Truncate, MapsInv, Maps!TypeOK, Maps!BytesExact, Maps!BusExplained,
         MapsDone, Maps!Kinds
<1>12. CASE Maps!TruncateDst
  <2>1. PICK n \in 0..(Len(dst) - 1) : dst' = [b \in 1..n |-> dst[b]]
    BY <1>12 DEF Maps!TruncateDst
  <2>2. /\ pc = "loop" /\ kind = "fileio" /\ cut' = cut \cup {"dst"}
        /\ UNCHANGED <<kind, pc, src, off, len, pos>>
    BY <1>12 DEF Maps!TruncateDst
  <2> DEFINE f == [b \in 1..n |-> dst[b]]
  <2>3. n \in Nat /\ n <= Len(dst) BY <1>1, <2>1
  <2>4. f \in [1..n -> 0..Maps!Old] BY <1>1, <1>9, <2>3
  <2>5. \A k \in 1..n : f[k] = dst[k] OBVIOUS
  <2>6. dst' = f BY <2>1
  <2> HIDE DEF f
  <2>7. dst' \in Seq(0..Maps!Old) /\ Len(dst') = n BY <2>3, <2>4, <2>6, IsSeq
  <2>8. \A k \in 1..Len(dst') : k \in 1..Len(dst) /\ dst'[k] = dst[k]
    BY <1>1, <2>3, <2>5, <2>6, <2>7
  <2>9. MapsDone'
    BY <2>2, <2>8 DEF MapsInv, MapsDone
  <2>10. \A k \in 1..Len(dst') : k > len => dst'[k] = Maps!Old
    BY <2>2, <2>8 DEF MapsInv
  <2>11. Maps!TypeOK' /\ Maps!BytesExact' /\ Maps!BusExplained'
    BY <1>1, <2>2 DEF MapsInv, Maps!TypeOK, Maps!BytesExact, Maps!BusExplained
  <2> QED BY <1>1, <2>2, <2>7, <2>9, <2>10, <2>11 DEF MapsInv
<1>8. CASE UNCHANGED Maps!vars
  BY <1>8
     DEF Maps!vars, MapsInv, Maps!TypeOK, Maps!BytesExact, Maps!BusExplained, MapsDone,
         Maps!Kinds
<1> QED BY <1>2, <1>3, <1>4, <1>5, <1>6, <1>7, <1>8, <1>12
      DEF Maps!Next, Maps!mmap_simple, Maps!mmap_fileio

-----------------------------------------------------------------------------
(* readblock(), readline() and fd_write().                                 *)

CONSTANTS MaxInput, MaxSize, MaxSignals

VARIABLES fn, size, input, num, ret, failed, signals, stream, short

Loops == INSTANCE IoLoops

ASSUME LoopsConstants == Loops!IoLoopsAssumption

\* A call that runs has seen no error; a reader has consumed at most what it wants, and
\* readline() no newline; fd_write() has sent less than it counts to, and nothing at all
\* unless some write() was short.
LoopsInv ==
  /\ Loops!TypeOK /\ Loops!BlockResult /\ Loops!LineResult /\ Loops!OverrunBounded
  /\ ret = Loops!Running => ~ failed
  /\ fn = "readline" /\ ret = Loops!Running =>
       num < size /\ \A j \in 1..num : input[j] # "\n"
  /\ fn = "fd_write" /\ ret = Loops!Running => num < size /\ (short \/ stream = <<>>)

\* An input is a sequence, and empty when its length is 0.
LEMMA LoopsInput ==
  ASSUME NEW s \in Loops!Inputs
  PROVE  s \in Seq(Loops!Byte) /\ Len(s) \in Nat /\ (Len(s) = 0 => s = <<>>)
<1>1. PICK m \in 0..MaxInput : s \in [1..m -> Loops!Byte] BY DEF Loops!Inputs
<1>2. m \in Nat BY <1>1, LoopsConstants DEF Loops!IoLoopsAssumption
<1> QED BY <1>1, <1>2

\* The invariant holds when the call starts.
LEMMA LoopsInit == Loops!Init => LoopsInv
<1> SUFFICES ASSUME Loops!Init PROVE LoopsInv OBVIOUS
<1>1. failed \in BOOLEAN /\ ~ failed /\ short \in BOOLEAN BY Zenon DEF Loops!Init
<1>2. input \in Loops!Inputs
  <2>1. <<>> \in [1..0 -> Loops!Byte] OBVIOUS
  <2>2. 0 \in 0..MaxInput BY LoopsConstants DEF Loops!IoLoopsAssumption
  <2>3. <<>> \in Loops!Inputs BY <2>1, <2>2 DEF Loops!Inputs
  <2> QED BY <2>3 DEF Loops!Init
<1>3. input \in Seq(Loops!Byte) /\ Len(input) \in Nat BY <1>2, LoopsInput
<1> QED BY <1>1, <1>2, <1>3, LoopsConstants
     DEF Loops!Init, LoopsInv, Loops!TypeOK, Loops!BlockResult, Loops!LineResult,
         Loops!OverrunBounded, Loops!Running, Loops!Wanted,
         Loops!Reading, Loops!IoLoopsAssumption

\* The invariant is kept by every read() and write(), short, interrupted or failed.
LEMMA LoopsNext == LoopsInv /\ (Loops!Next \/ UNCHANGED Loops!vars) => LoopsInv'
<1> SUFFICES ASSUME LoopsInv, Loops!Next \/ UNCHANGED Loops!vars PROVE LoopsInv' OBVIOUS
<1>1. /\ size \in Nat /\ size >= 1 /\ size <= MaxSize
      /\ MaxSize \in Nat /\ MaxSignals \in Nat
      /\ num \in Nat /\ (Loops!Reading => num <= Len(input) /\ num <= size)
      /\ fn \in {"readblock", "readline", "fd_write"}
  BY LoopsInput, LoopsConstants DEF LoopsInv, Loops!TypeOK, Loops!IoLoopsAssumption
<1>2. input \in Seq(Loops!Byte) /\ Len(input) \in Nat /\ (Len(input) = 0 => input = <<>>)
  BY LoopsInput DEF LoopsInv, Loops!TypeOK
<1>3. CASE Loops!BlockBytes
  <2>1. /\ fn = "readblock" /\ ret = Loops!Running
        /\ num' \in Nat /\ num' <= size /\ num' <= Len(input)
        /\ UNCHANGED <<fn, size, input, ret, failed, signals, stream, short>>
    <3>1. PICK k \in 1..Loops!Wanted : k <= Loops!Left /\ num' = num + k
      BY <1>3 DEF Loops!BlockBytes
    <3>2. Loops!Wanted = size - num /\ Loops!Left = Len(input) - num
      BY <1>3 DEF Loops!BlockBytes, Loops!Wanted, Loops!Left
    <3> QED BY <1>1, <1>2, <1>3, <3>1, <3>2 DEF Loops!BlockBytes
  <2>2. Loops!TypeOK' BY <1>1, <2>1 DEF LoopsInv, Loops!TypeOK, Loops!Reading
  <2>3. Loops!BlockResult' /\ Loops!LineResult' /\ Loops!OverrunBounded'
    BY <2>1 DEF Loops!BlockResult, Loops!LineResult, Loops!OverrunBounded
  <2>4. ~ failed BY <2>1 DEF LoopsInv
  <2>5. fn' = "readblock" /\ ~ failed' BY <2>1, <2>4
  <2> QED BY <2>2, <2>3, <2>5 DEF LoopsInv
<1>4. CASE Loops!LineByte
  <2>1. /\ fn = "readline" /\ ret = Loops!Running /\ num' = num + 1 /\ num + 1 <= size - 1
        /\ num + 1 <= Len(input) /\ ~ failed
        /\ UNCHANGED <<fn, size, input, failed, signals, stream, short>>
        /\ ret' = IF input[num + 1] = "\n" THEN num + 1 ELSE Loops!Running
        /\ \A j \in 1..num : input[j] # "\n"
    BY <1>1, <1>2, <1>4 DEF Loops!LineByte, Loops!Wanted, Loops!Left, LoopsInv
  <2>2. Loops!TypeOK'
    BY <1>1, <1>2, <2>1 DEF LoopsInv, Loops!TypeOK, Loops!Reading, Loops!Running
  <2>3. Loops!OverrunBounded' /\ Loops!BlockResult'
    BY <2>1 DEF Loops!OverrunBounded, Loops!BlockResult
  <2>4. CASE input[num + 1] = "\n"
    <3>1. ret' = num + 1 /\ (num + 1) - 1 = num /\ input' = input BY <1>1, <2>1, <2>4
    <3>2. Loops!LineEnd(ret)' BY <1>1, <1>2, <2>1, <2>4, <3>1 DEF Loops!LineEnd
    <3>3. Loops!LineResult' BY <1>1, <1>2, <2>1, <2>4, <3>2 DEF Loops!LineResult
    <3> QED BY <1>1, <2>1, <2>2, <2>3, <3>1, <3>3 DEF LoopsInv, Loops!Running
  <2>5. CASE input[num + 1] # "\n"
    BY <1>1, <1>2, <2>1, <2>2, <2>3, <2>5 DEF LoopsInv, Loops!LineResult, Loops!Wanted
  <2> QED BY <2>4, <2>5
<1>5. CASE Loops!Eof
  <2>1. /\ Loops!Reading /\ ret = Loops!Running /\ num = Len(input) /\ ~ failed
        /\ UNCHANGED <<fn, size, input, num, failed, signals, stream, short>>
        /\ ret' = IF num = 0 THEN 0 ELSE -1
        /\ (fn = "readblock" => num < size)
        /\ (fn = "readline" => \A j \in 1..num : input[j] # "\n")
    BY <1>1, <1>2, <1>5 DEF Loops!Eof, Loops!Return, Loops!Wanted, Loops!Left, LoopsInv
  <2>2. Loops!BlockResult' BY <1>1, <1>2, <2>1 DEF Loops!BlockResult, Loops!Running
  <2>3. Loops!LineResult'
    BY <1>1, <1>2, <2>1 DEF Loops!LineResult, Loops!LineEnd, Loops!Running
  <2>4. Loops!TypeOK' BY <1>1, <2>1 DEF LoopsInv, Loops!TypeOK, Loops!Reading
  <2> QED BY <2>1, <2>2, <2>3, <2>4
        DEF LoopsInv, Loops!Running, Loops!Reading, Loops!OverrunBounded
<1>6. CASE Loops!LoopEnds
  <2>1. /\ Loops!Reading /\ ret = Loops!Running /\ ~ failed
        /\ UNCHANGED <<fn, size, input, num, failed, signals, stream, short>>
        /\ ret' = IF fn = "readblock" THEN num ELSE -1
        /\ (fn = "readblock" => num = size)
        /\ (fn = "readline" => num = size - 1 /\ \A j \in 1..num : input[j] # "\n")
    BY <1>1, <1>2, <1>6
       DEF Loops!LoopEnds, Loops!Return, Loops!Wanted, LoopsInv, Loops!Reading
  <2>2. Loops!BlockResult' BY <1>1, <1>2, <2>1 DEF Loops!BlockResult, Loops!Running
  <2>3. Loops!LineResult'
    BY <1>1, <1>2, <2>1 DEF Loops!LineResult, Loops!LineEnd, Loops!Running
  <2>4. Loops!TypeOK' BY <1>1, <2>1 DEF LoopsInv, Loops!TypeOK, Loops!Reading
  <2> QED BY <1>1, <2>1, <2>2, <2>3, <2>4
        DEF LoopsInv, Loops!Running, Loops!Reading, Loops!OverrunBounded
<1>7. CASE Loops!Write
  <2>1. PICK k \in 1..size :
          /\ stream' = stream \o Loops!Bytes(k) /\ num' = num + k
          /\ short' = (short \/ k < size)
          /\ ret' = IF num' < size THEN Loops!Running ELSE num'
    BY <1>7 DEF Loops!Write
  <2>2. k \in Nat /\ k >= 1 /\ k <= size BY <1>1
  <2>3. /\ fn = "fd_write" /\ ret = Loops!Running /\ num < size /\ ~ failed
        /\ (short \/ stream = <<>>) /\ UNCHANGED <<fn, size, input, failed, signals>>
    BY <1>7 DEF Loops!Write, LoopsInv
  <2>4. Loops!Bytes(k) \in Seq(1..MaxSize) /\ Len(Loops!Bytes(k)) = k
    <3>1. Loops!Bytes(k) \in [1..k -> 1..MaxSize] BY <1>1, <2>2 DEF Loops!Bytes
    <3> QED BY <2>2, <3>1, IsSeq
  <2>5. stream' \in Seq(1..MaxSize) /\ Len(stream') = num'
    <3>1. stream \in Seq(1..MaxSize) /\ num = Len(stream)
      BY <2>3 DEF LoopsInv, Loops!TypeOK
    <3> QED BY <2>1, <2>4, <3>1, Concat
  <2>6. short' \in BOOLEAN BY <2>1, Zenon
  <2>7. ~ short' => ~ short /\ k = size
    <3>1. ~ short' => ~ short /\ ~ (k < size) BY <2>1, Zenon
    <3> QED BY <1>1, <2>2, <3>1
  <2>8. ~ short' => stream' = Loops!Bytes(size) BY <2>1, <2>3, <2>4, <2>7
  <2>9. num' \in Nat /\ num' < 2 * size /\ (num' < size => ~ (k = size))
    BY <1>1, <2>1, <2>2, <2>3
  <2>10. Loops!TypeOK'
    BY <1>1, <2>1, <2>3, <2>5, <2>6, <2>9
       DEF LoopsInv, Loops!TypeOK, Loops!Reading, Loops!Running
  <2>11. Loops!OverrunBounded'
    BY <1>1, <2>1, <2>3, <2>5, <2>8, <2>9 DEF Loops!OverrunBounded
  <2>12. Loops!BlockResult' /\ Loops!LineResult'
    BY <2>3 DEF Loops!BlockResult, Loops!LineResult
  <2>13. ret' = Loops!Running => num' < size' /\ (short' \/ stream' = <<>>)
    BY <1>1, <2>1, <2>3, <2>7, <2>9 DEF Loops!Running
  <2> QED BY <1>1, <2>1, <2>3, <2>9, <2>10, <2>11, <2>12, <2>13
        DEF LoopsInv, Loops!Running, Loops!Wanted
<1>8. CASE Loops!Interrupted
  BY <1>1, <1>8
     DEF Loops!Interrupted, LoopsInv, Loops!TypeOK, Loops!BlockResult,
         Loops!LineResult, Loops!OverrunBounded, Loops!Wanted, Loops!Reading
<1>9. CASE Loops!Error
  <2>1. /\ failed' = TRUE /\ ret = Loops!Running /\ ret' = -1
        /\ UNCHANGED <<fn, size, input, num, signals, stream, short>>
    BY <1>9 DEF Loops!Error
  <2> QED BY <1>1, <2>1
       DEF LoopsInv, Loops!TypeOK, Loops!BlockResult, Loops!LineResult,
           Loops!OverrunBounded, Loops!Running, Loops!Reading
<1>10. CASE UNCHANGED Loops!vars
  BY <1>10
     DEF Loops!vars, LoopsInv, Loops!TypeOK, Loops!BlockResult, Loops!LineResult,
         Loops!LineEnd, Loops!OverrunBounded, Loops!Wanted,
         Loops!Reading
<1> QED BY <1>3, <1>4, <1>5, <1>6, <1>7, <1>8, <1>9, <1>10 DEF Loops!Next, Loops!Read

-----------------------------------------------------------------------------
(* readtimed() and waitfdtimed().                                          *)

CONSTANTS MILLION, MaxTime   \* units of a second, of a run

VARIABLES now, end, timeout, since, data, taken

Timed == INSTANCE TimedRead

ASSUME TimedConstants == Timed!TimedReadAssumption

\* A time in units, as seconds and units.
LEMMA TimedTime ==
  ASSUME NEW u \in Nat
  PROVE  Timed!Time(u) \in Nat \X (0..(MILLION - 1)) /\ Timed!Units(Timed!Time(u)) = u
BY DivModNat, TimedConstants DEF Timed!Time, Timed!Units, Timed!TimedReadAssumption

\* add2currenttime() adds, and its one carry is enough.
LEMMA TimedAdd ==
  ASSUME NEW t \in Nat \X (0..(MILLION - 1)), NEW s \in Nat \X (0..MILLION)
  PROVE  /\ Timed!Add(t, s) \in Nat \X (0..(MILLION - 1))
         /\ Timed!Units(Timed!Add(t, s)) = Timed!Units(t) + Timed!Units(s)
<1>1. MILLION \in Nat /\ MILLION > 0 BY TimedConstants DEF Timed!TimedReadAssumption
<1>2. PICK a \in Nat, b \in 0..(MILLION - 1) : t = <<a, b>> OBVIOUS
<1>3. PICK c \in Nat, d \in 0..MILLION : s = <<c, d>> OBVIOUS
<1>4. /\ (a + c + 1) * MILLION = a * MILLION + c * MILLION + MILLION
      /\ (a + c) * MILLION = a * MILLION + c * MILLION BY <1>1
<1>5. Timed!Add(t, s) = IF b + d >= MILLION
                    THEN <<a + c + 1, b + d - MILLION>> ELSE <<a + c, b + d>>
  BY <1>1, <1>2, <1>3 DEF Timed!Add, Timed!CarryUp
<1>6. Timed!Add(t, s) \in Nat \X (0..(MILLION - 1))
  BY <1>1, <1>2, <1>3, <1>5
<1> QED BY <1>1, <1>2, <1>3, <1>4, <1>5, <1>6 DEF Timed!Units

\* gettimeout() subtracts, and its one borrow is enough.
LEMMA TimedDifference ==
  ASSUME NEW t \in Nat \X (0..(MILLION - 1)), NEW s \in Nat \X (0..(MILLION - 1))
  PROVE  /\ Timed!Difference(t, s) \in Int \X (0..(MILLION - 1))
         /\ Timed!Units(Timed!Difference(t, s)) = Timed!Units(t) - Timed!Units(s)
<1>1. MILLION \in Nat /\ MILLION > 0 BY TimedConstants DEF Timed!TimedReadAssumption
<1>2. PICK a \in Nat, b \in 0..(MILLION - 1) : t = <<a, b>> OBVIOUS
<1>3. PICK c \in Nat, d \in 0..(MILLION - 1) : s = <<c, d>> OBVIOUS
<1>4. /\ (a - c - 1) * MILLION = a * MILLION - c * MILLION - MILLION
      /\ (a - c) * MILLION = a * MILLION - c * MILLION BY <1>1
<1>5. Timed!Difference(t, s) = IF b - d < 0
                           THEN <<a - c - 1, b - d + MILLION>> ELSE <<a - c, b - d>>
  BY <1>1, <1>2, <1>3 DEF Timed!Difference, Timed!CarryUp, Timed!CarryDown
<1>6. Timed!Difference(t, s) \in Int \X (0..(MILLION - 1))
  BY <1>1, <1>2, <1>3, <1>5
<1> QED BY <1>1, <1>2, <1>3, <1>4, <1>5, <1>6 DEF Timed!Units

\* The test for a deadline that has passed.
LEMMA TimedExpired ==
  ASSUME NEW d \in Int \X (0..(MILLION - 1))
  PROVE  Timed!Expired(d) <=> Timed!Units(d) <= 0
<1>1. MILLION \in Nat /\ MILLION > 0 BY TimedConstants DEF Timed!TimedReadAssumption
<1>2. PICK a \in Int, b \in 0..(MILLION - 1) : d = <<a, b>> OBVIOUS
<1>3. CASE a < 0
  <2>1. a * MILLION <= (-1) * MILLION BY <1>1, <1>3
  <2> QED BY <1>1, <1>2, <1>3, <2>1 DEF Timed!Expired, Timed!Units
<1>4. CASE a = 0 BY <1>1, <1>2, <1>4 DEF Timed!Expired, Timed!Units
<1>5. CASE a > 0
  <2>1. a * MILLION >= MILLION BY <1>1, <1>5
  <2> QED BY <1>1, <1>2, <1>5, <2>1 DEF Timed!Expired, Timed!Units
<1> QED BY <1>2, <1>3, <1>4, <1>5

\* The result is there only at the end; the times of the call are normal.
TimedInv ==
  /\ Timed!TypeOK /\ since \in Nat
  /\ ret # "none" => pc = "returned"
  /\ Timed!NoEarlyTimeout /\ Timed!BlockedBy

\* The invariant holds when the call starts.
LEMMA TimedInit == Timed!Init => TimedInv
<1>1. Timed!Init => data \in BOOLEAN /\ taken \in BOOLEAN BY Zenon DEF Timed!Init
<1> QED BY <1>1, TimedConstants
      DEF Timed!Init, TimedInv, Timed!TypeOK, Timed!NoEarlyTimeout,
          Timed!BlockedBy, Timed!TimedReadAssumption

\* The time arithmetic is exact.
LEMMA TimedArithmetic == TimedInv => Timed!TimeArithmetic
<1> SUFFICES ASSUME TimedInv, NEW a \in 0..(3 * MILLION)
             PROVE  LET d == Timed!Difference(Timed!Time(a), Timed!Time(now))
                    IN  /\ Timed!Units(d) = a - now /\ d[2] \in 0..(MILLION - 1)
                        /\ Timed!Expired(d) <=> a <= now
                        /\ Timed!Units(Timed!Add(Timed!Time(now), Timed!Time(a)))
                             = a + now
  BY DEF Timed!TimeArithmetic
<1>1. a \in Nat /\ now \in Nat
  BY TimedConstants DEF TimedInv, Timed!TypeOK, Timed!TimedReadAssumption
<1>2. Timed!Time(a) \in Nat \X (0..(MILLION - 1)) /\ Timed!Units(Timed!Time(a)) = a
  BY <1>1, TimedTime
<1>3. Timed!Time(now) \in Nat \X (0..(MILLION - 1)) /\ Timed!Units(Timed!Time(now)) = now
  BY <1>1, TimedTime
<1> DEFINE d == Timed!Difference(Timed!Time(a), Timed!Time(now))
<1>4. d \in Int \X (0..(MILLION - 1)) /\ Timed!Units(d) = a - now
  BY <1>2, <1>3, TimedDifference
<1>5. Timed!Expired(d) <=> Timed!Units(d) <= 0 BY <1>4, TimedExpired
<1>6. Timed!Time(a) \in Nat \X (0..MILLION)
  BY <1>2, TimedConstants DEF Timed!TimedReadAssumption
<1>7. Timed!Units(Timed!Add(Timed!Time(now), Timed!Time(a))) = now + a
  BY <1>2, <1>3, <1>6, TimedAdd
<1>8. d[2] \in 0..(MILLION - 1) BY <1>4
<1> HIDE DEF d
<1>9. Timed!Expired(d) <=> a <= now BY <1>1, <1>4, <1>5
<1>10. Timed!Units(Timed!Add(Timed!Time(now), Timed!Time(a))) = a + now BY <1>1, <1>7
<1> QED BY <1>4, <1>8, <1>9, <1>10 DEF d

\* The invariant is kept by the code, the clock, the data that arrive and the signals.
LEMMA TimedNext == TimedInv /\ (Timed!Next \/ UNCHANGED Timed!vars) => TimedInv'
<1> SUFFICES ASSUME TimedInv, Timed!Next \/ UNCHANGED Timed!vars PROVE TimedInv' OBVIOUS
<1>1. MILLION \in Nat /\ MILLION > 0 /\ MaxTime \in Nat /\ now \in Nat
  BY TimedConstants DEF Timed!TimedReadAssumption, TimedInv, Timed!TypeOK
<1>2. Timed!Time(now) \in Nat \X (0..(MILLION - 1)) /\ Timed!Units(Timed!Time(now)) = now
  BY <1>1, TimedTime
<1> USE DEF TimedInv, Timed!TypeOK, Timed!NoEarlyTimeout, Timed!BlockedBy
<1>3. CASE Timed!Start
  <2>1. PICK s \in (0..1) \X (0..MILLION) : end' = Timed!Add(Timed!Time(now), s)
    BY <1>3 DEF Timed!Start
  <2>2. s \in Nat \X (0..MILLION) BY <2>1
  <2>3. end' \in Nat \X (0..(MILLION - 1)) BY <1>2, <2>1, <2>2, TimedAdd
  <2> QED BY <1>1, <1>3, <2>3 DEF Timed!Start
<1>4. CASE Timed!Gettimeout
  <2>1. /\ timeout' \in Int \X (0..(MILLION - 1))
        /\ Timed!Units(timeout') = Timed!Units(end) - now
    BY <1>2, <1>4, TimedDifference DEF Timed!Gettimeout
  <2>2. Timed!Expired(timeout') <=> Timed!Units(timeout') <= 0 BY <2>1, TimedExpired
  <2>3. UNCHANGED <<now, end, data, taken>> /\ Timed!Units(end) \in Int
    BY <1>1, <1>4 DEF Timed!Gettimeout, Timed!Units
  <2>4. CASE Timed!Expired(timeout')
    <3>1. now >= Timed!Units(end) BY <1>1, <2>1, <2>2, <2>3, <2>4
    <3> QED BY <1>1, <1>4, <2>1, <2>3, <2>4, <3>1 DEF Timed!Gettimeout, Timed!Units
  <2>5. CASE ~ Timed!Expired(timeout')
    <3>1. since' = now /\ pc' = "select" /\ ret' = ret /\ pc = "gettimeout"
      BY <1>4, <2>5 DEF Timed!Gettimeout
    <3>2. /\ Timed!Units(end)' = Timed!Units(end)
          /\ Timed!Units(timeout)' = Timed!Units(timeout')
      BY <2>3 DEF Timed!Units
    <3>3. since' + Timed!Units(timeout)' = Timed!Units(end)'
      BY <1>1, <2>1, <2>3, <3>1, <3>2
    <3> QED BY <1>1, <2>1, <2>3, <3>1, <3>2, <3>3
  <2> QED BY <2>4, <2>5
<1>5. CASE Timed!SelectReturns BY <1>1, <1>5 DEF Timed!SelectReturns, Timed!Units
<1>6. CASE Timed!Read BY <1>1, <1>6 DEF Timed!Read, Timed!Units
<1>7. CASE Timed!Interrupted BY <1>1, <1>7 DEF Timed!Interrupted, Timed!Units
<1>8. CASE Timed!Error BY <1>1, <1>8 DEF Timed!Error, Timed!Units
<1>9. CASE Timed!Arrive BY <1>1, <1>9 DEF Timed!Arrive, Timed!Units
<1>12. CASE Timed!Taken
  <2>1. taken' \in BOOLEAN BY <1>12, Zenon DEF Timed!Taken
  <2> QED BY <1>1, <1>12, <2>1 DEF Timed!Taken, Timed!Units
<1>10. CASE Timed!Tick BY <1>1, <1>10 DEF Timed!Tick, Timed!Units
<1>11. CASE UNCHANGED Timed!vars BY <1>11 DEF Timed!vars, Timed!Units
<1> QED BY <1>3, <1>4, <1>5, <1>6, <1>7, <1>8, <1>9, <1>10, <1>11, <1>12
      DEF Timed!Next, Timed!Code

-----------------------------------------------------------------------------
(* copyfile() and rdwr_fileio.c.                                           *)

CONSTANTS N, OldSize, BLKSIZE, Interrupts

VARIABLES rpos, wpos, total

Copy == INSTANCE FileCopy WITH MaxSignals <- Interrupts

ASSUME CopyConstants == Copy!FileCopyAssumption

\* What the loop keeps.
CopyInv ==
  /\ Copy!TypeOK /\ Copy!Conserved /\ Copy!TotalHonest
  /\ pc \in {"read", "ok"} => total = Copy!ToInt(wpos)
  /\ pc = "write" =>
       wpos < rpos /\ rpos - size \in Nat /\ total = Copy!ToInt(rpos - size)
  /\ pc = "ok" => rpos = N
  /\ wpos <= Len(dst) /\ \A b \in 1..wpos : dst[b] = b

\* The count of copyfile() as an int.
LEMMA CopyToInt ==
  ASSUME NEW a \in Nat, NEW b \in Nat
  PROVE  /\ Copy!ToInt(a) \in (- INT_MAX - 1)..INT_MAX
         /\ a <= INT_MAX => Copy!ToInt(a) = a
         /\ Copy!ToInt(Copy!ToInt(a) + b) = Copy!ToInt(a + b)
<1>1. INT_MAX \in Nat BY CopyConstants DEF Copy!FileCopyAssumption
<1>2. \A n \in Int : Copy!ToInt(n) = Wrap(INT_MAX, n) BY DEF Copy!ToInt, Wrap, Width
<1>3. Wrap(INT_MAX, a) \in (- INT_MAX - 1)..INT_MAX BY <1>1, WrapValue
<1>4. a <= INT_MAX => Wrap(INT_MAX, a) = a BY <1>1, WrapSmall
<1>7. a \in Int /\ b \in Int OBVIOUS
<1>5. Wrap(INT_MAX, Wrap(INT_MAX, a) + b) = Wrap(INT_MAX, a + b) BY <1>1, <1>7, WrapSum
<1>6. a + b \in Int /\ Wrap(INT_MAX, a) + b \in Int BY <1>1, <1>3
<1> QED BY <1>2, <1>3, <1>4, <1>5, <1>6

\* A total that is the int of c bytes, which have arrived, is honest.
LEMMA CopyTotal ==
  ASSUME wpos \in Nat, NEW c \in 0..wpos, wpos - c <= BLKSIZE, total = Copy!ToInt(c),
         pc = "ok" => c = N
  PROVE  Copy!TotalHonest
<1>1. c \in Nat /\ INT_MAX \in Nat BY CopyConstants DEF Copy!FileCopyAssumption
<1>2. c <= INT_MAX => Copy!ToInt(c) = c BY <1>1, CopyToInt
<1>3. wpos <= INT_MAX => total = c BY <1>1, <1>2
<1> QED BY <1>3 DEF Copy!TotalHonest

\* The invariant holds when the copy starts.
LEMMA CopyInit == Copy!Init => CopyInv
<1> SUFFICES ASSUME Copy!Init PROVE CopyInv OBVIOUS
<1> USE CopyConstants DEF Copy!FileCopyAssumption
<1>1. Copy!ToInt(0) = 0 BY CopyToInt
<1>2. Copy!TotalHonest BY <1>1, CopyTotal DEF Copy!Init
<1> QED BY <1>1, <1>2 DEF Copy!Init, CopyInv, Copy!TypeOK, Copy!Conserved

\* A write() of k bytes puts the next k bytes of the source into the destination.
LEMMA CopyWrite ==
  ASSUME CopyInv, NEW k \in 1..Copy!ToWrite, pc = "write"
  PROVE  /\ Copy!Written(k) \in Seq(0..N)
         /\ wpos + k <= Len(Copy!Written(k))
         /\ \A b \in 1..(wpos + k) : Copy!Written(k)[b] = b
<1> DEFINE m == IF wpos + k > Len(dst) THEN wpos + k ELSE Len(dst)
           f == [b \in 1..m |->
                   IF b > wpos /\ b <= wpos + k THEN Copy!Source[b] ELSE dst[b]]
<1>1. k \in Nat /\ k >= 1 /\ wpos + k <= N /\ wpos \in Nat /\ N \in Nat
  BY CopyConstants DEF CopyInv, Copy!TypeOK, Copy!ToWrite, Copy!FileCopyAssumption
<1>2. /\ Len(dst) \in Nat /\ dst \in [1..Len(dst) -> 0..N] /\ m \in Nat /\ wpos + k <= m
      /\ wpos <= Len(dst) /\ \A b \in 1..wpos : dst[b] = b
  BY <1>1 DEF CopyInv, Copy!TypeOK
<1>3. \A b \in 1..m : f[b] \in 0..N
  BY <1>1, <1>2 DEF Copy!Source
<1>4. f \in Seq(0..N) /\ Len(f) = m
  <2>1. f \in [1..m -> 0..N] BY <1>3
  <2> HIDE DEF f, m
  <2> QED BY <1>2, <2>1, IsSeq
<1>5. \A b \in 1..(wpos + k) : f[b] = b
  BY <1>1, <1>2 DEF Copy!Source
<1>6. Copy!Written(k) = f BY DEF Copy!Written
<1> QED BY <1>2, <1>4, <1>5, <1>6

\* The invariant is kept by every read() and write(), short, interrupted or failed.
LEMMA CopyNext == CopyInv /\ (Copy!Next \/ UNCHANGED Copy!vars) => CopyInv'
<1> SUFFICES ASSUME CopyInv, Copy!Next \/ UNCHANGED Copy!vars PROVE CopyInv' OBVIOUS
<1> USE CopyConstants DEF Copy!FileCopyAssumption
<1>0. wpos \in Nat /\ rpos \in Nat /\ size \in Nat BY DEF CopyInv, Copy!TypeOK
<1>1. CASE Copy!ReadBytes
  <2>1. pc = "read" /\ pc' = "write" /\ UNCHANGED <<dst, wpos, total, signals>>
    BY <1>1 DEF Copy!ReadBytes
  <2>2. PICK k \in 1..BLKSIZE : rpos + k <= N /\ rpos' = rpos + k /\ size' = k
    BY <1>1 DEF Copy!ReadBytes
  <2>3. rpos' - size' = wpos /\ wpos = rpos
    BY <1>0, <2>1, <2>2 DEF CopyInv, Copy!Conserved
  <2>4. Copy!TypeOK' /\ Copy!Conserved'
    BY <1>0, <2>1, <2>2, <2>3 DEF CopyInv, Copy!TypeOK, Copy!Conserved
  <2>5. Copy!TotalHonest' BY <2>1 DEF CopyInv, Copy!TotalHonest, Copy!ToInt
  <2> QED BY <1>0, <2>1, <2>2, <2>3, <2>4, <2>5 DEF CopyInv, Copy!ToInt
<1>2. CASE Copy!ReadEof
  <2>1. /\ pc = "read" /\ rpos = N /\ pc' = "ok"
        /\ UNCHANGED <<rpos, dst, wpos, size, total, signals>>
    BY <1>2 DEF Copy!ReadEof
  <2>2. wpos = N /\ total = Copy!ToInt(wpos) BY <2>1 DEF CopyInv, Copy!Conserved
  <2>3. Copy!TotalHonest' BY <2>1, <2>2 DEF CopyInv, Copy!TotalHonest, Copy!ToInt
  <2>4. Copy!TypeOK' /\ Copy!Conserved'
    BY <2>1 DEF CopyInv, Copy!TypeOK, Copy!Conserved
  <2> QED BY <2>1, <2>2, <2>3, <2>4 DEF CopyInv, Copy!ToInt
<1>3. CASE Copy!WriteBytes
  <2>1. PICK k \in 1..Copy!ToWrite :
          /\ dst' = Copy!Written(k) /\ wpos' = wpos + k
          /\ pc' = IF k = Copy!ToWrite THEN "read" ELSE "write"
          /\ total' = IF k = Copy!ToWrite THEN Copy!ToInt(total + size) ELSE total
    BY <1>3 DEF Copy!WriteBytes
  <2>2. pc = "write" /\ UNCHANGED <<rpos, size, signals>> BY <1>3 DEF Copy!WriteBytes
  <2>3. dst' \in Seq(0..N) /\ wpos' <= Len(dst') /\ \A b \in 1..wpos' : dst'[b] = b
    BY <2>1, <2>2, CopyWrite
  <2> DEFINE c == rpos - size
  <2>4. /\ c \in Nat /\ total = Copy!ToInt(c) /\ wpos < rpos /\ rpos - wpos <= size
        /\ size <= BLKSIZE /\ rpos <= N /\ wpos' \in Nat /\ wpos' <= rpos
        /\ wpos' > wpos /\ (k = Copy!ToWrite <=> wpos' = rpos) /\ c + size = rpos
    BY <1>0, <2>1, <2>2 DEF CopyInv, Copy!TypeOK, Copy!Conserved, Copy!ToWrite
  <2> HIDE DEF c
  <2>7. c <= wpos' /\ wpos' - c <= BLKSIZE /\ wpos' <= rpos /\ rpos - wpos' <= size
    <3>1. BLKSIZE \in Nat /\ size <= BLKSIZE /\ wpos' \in Nat /\ c \in Nat BY <2>4
    <3>2. c <= wpos BY <1>0, <2>4
    <3>3. c <= wpos' BY <1>0, <2>4, <3>1, <3>2
    <3>6. PICK v \in Nat : v = wpos' BY <2>4
    <3>7. v <= rpos /\ v > wpos /\ c + size = rpos /\ c \in Nat /\ rpos - wpos <= size
      BY <2>4, <3>6
    <3>4. v - c <= size BY <1>0, <3>7
    <3>5. rpos - v <= size BY <1>0, <3>7
    <3>8. v - c <= BLKSIZE BY <1>0, <3>1, <3>4
    <3> QED BY <3>3, <3>5, <3>6, <3>7, <3>8
  <2>5. CASE k = Copy!ToWrite
    <3>1. total' = Copy!ToInt(rpos)
      BY <1>0, <2>1, <2>4, <2>5, CopyToInt
    <3>2. total' \in (- INT_MAX - 1)..INT_MAX BY <1>0, <3>1, CopyToInt
    <3>3. wpos' = rpos /\ pc' = "read" BY <2>1, <2>4, <2>5
    <3>4. Copy!TypeOK' /\ Copy!Conserved'
      <4>1. rpos \in 0..N /\ size \in 0..BLKSIZE /\ signals \in 0..Interrupts
        BY DEF CopyInv, Copy!TypeOK
      <4>2. Copy!TypeOK' BY <2>2, <2>3, <3>2, <3>3, <4>1 DEF Copy!TypeOK
      <4>3. Copy!Conserved' BY <1>0, <2>2, <3>3 DEF Copy!Conserved
      <4> QED BY <4>2, <4>3
    <3>5. /\ wpos' <= INT_MAX => total' = wpos'
          /\ wpos' - wpos' <= BLKSIZE /\ wpos' \in 0..wpos'
      BY <1>0, <3>1, <3>3, CopyToInt
    <3>6. Copy!TotalHonest'
      BY <3>1, <3>3, <3>5 DEF Copy!TotalHonest, Copy!ToInt
    <3> QED BY <2>2, <2>3, <3>1, <3>3, <3>4, <3>6 DEF CopyInv, Copy!ToInt
  <2>6. CASE k # Copy!ToWrite
    <3>1. total' = total /\ wpos' < rpos /\ pc' = "write" BY <1>0, <2>1, <2>4, <2>6
    <3>2. Copy!TypeOK'
      <4>1. wpos' \in 0..N BY <1>0, <2>4
      <4>2. rpos \in 0..N /\ size \in 0..BLKSIZE /\ signals \in 0..Interrupts
            /\ total \in (- INT_MAX - 1)..INT_MAX
        BY DEF CopyInv, Copy!TypeOK
      <4> QED BY <2>2, <2>3, <3>1, <4>1, <4>2 DEF Copy!TypeOK
    <3>6. Copy!Conserved' BY <2>2, <2>7, <3>1 DEF Copy!Conserved
    <3>3. c \in 0..wpos'
      <4>1. c \in Nat /\ wpos' \in Nat /\ c <= wpos' BY <2>4, <2>7
      <4> QED BY <4>1
    <3>4. wpos' <= INT_MAX => total' = c
      BY <2>4, <2>7, <3>1, CopyToInt
    <3>5. Copy!TotalHonest'
      BY <2>4, <2>7, <3>1, <3>3, <3>4 DEF Copy!TotalHonest, Copy!ToInt
    <3> QED BY <2>2, <2>3, <2>4, <3>1, <3>2, <3>5, <3>6 DEF CopyInv, Copy!ToInt, c
  <2> QED BY <2>5, <2>6
<1>4. CASE Copy!Interrupted
  <2>1. signals' \in 0..Interrupts /\ UNCHANGED <<pc, rpos, dst, wpos, size, total>>
    BY <1>4 DEF Copy!Interrupted, CopyInv, Copy!TypeOK
  <2>2. Copy!TypeOK' BY <2>1 DEF CopyInv, Copy!TypeOK
  <2>3. Copy!TotalHonest' BY <2>1 DEF CopyInv, Copy!TotalHonest, Copy!ToInt
  <2> QED BY <2>1, <2>2, <2>3 DEF CopyInv, Copy!Conserved, Copy!ToInt
<1>5. CASE Copy!Error
  BY <1>5 DEF CopyInv, Copy!TypeOK, Copy!Conserved, Copy!TotalHonest, Copy!Error,
              Copy!ToInt
<1>6. CASE UNCHANGED Copy!vars
  BY <1>6 DEF CopyInv, Copy!TypeOK, Copy!Conserved, Copy!TotalHonest, Copy!vars,
              Copy!ToInt
<1> QED BY <1>1, <1>2, <1>3, <1>4, <1>5, <1>6 DEF Copy!Next, Copy!r_read

\* A file whose first w bytes are those of the source.
LEMMA CopyArrived ==
  ASSUME NEW w \in 0..N, NEW d \in Seq(0..N), w <= Len(d), \A b \in 1..w : d[b] = b
  PROVE  SubSeq(d, 1, w) = SubSeq(Copy!Source, 1, w) /\ Len(SubSeq(d, 1, w)) = w
<1>1. N \in Nat /\ w \in Nat /\ w <= N BY CopyConstants DEF Copy!FileCopyAssumption
<1>2. Copy!Source \in Seq(1..N) /\ Len(Copy!Source) = N BY <1>1 DEF Copy!Source
<1>3. SubSeq(d, 1, w) = [b \in 1..w |-> d[b]] BY <1>1
<1>4. SubSeq(Copy!Source, 1, w) = [b \in 1..w |-> Copy!Source[b]] BY <1>1, <1>2
<1>5. \A b \in 1..w : Copy!Source[b] = b BY <1>1 DEF Copy!Source
<1> QED BY <1>1, <1>3, <1>4, <1>5

\* Every step of the copy is a step of Transfer, or changes nothing there.
LEMMA CopyStep == CopyInv /\ (Copy!Next \/ UNCHANGED Copy!vars) => Copy!TransferStep
<1> SUFFICES ASSUME CopyInv, Copy!Next \/ UNCHANGED Copy!vars
  PROVE Copy!TransferStep OBVIOUS
<1>1. CopyInv' BY CopyNext
<1>2. Copy!Arrived' = SubSeq(Copy!Source, 1, wpos') /\ Len(Copy!Arrived') = wpos'
  BY <1>1, CopyArrived DEF Copy!Arrived, CopyInv, Copy!TypeOK
<1>3. Copy!Arrived = SubSeq(Copy!Source, 1, wpos) /\ Len(Copy!Arrived) = wpos
  BY CopyArrived DEF Copy!Arrived, CopyInv, Copy!TypeOK
<1>4. Copy!Source \in Seq(1..N) /\ Len(Copy!Source) = N /\ N \in Nat
  BY CopyConstants DEF Copy!Source, Copy!FileCopyAssumption
<1>5. wpos \in Nat /\ wpos <= N /\ wpos' \in Nat /\ wpos' <= N
  BY <1>1, <1>4 DEF CopyInv, Copy!TypeOK
<1>6. CASE UNCHANGED <<wpos, pc>>
  BY <1>2, <1>3, <1>6 DEF Copy!TransferStep, Copy!Status
<1>7. CASE Copy!ReadBytes
  BY <1>2, <1>3, <1>7 DEF Copy!TransferStep, Copy!Status, Copy!ReadBytes
<1>8. CASE Copy!ReadEof
  <2>1. wpos = N /\ wpos' = wpos /\ Copy!Status = "going" /\ Copy!Status' = "complete"
    BY <1>8 DEF Copy!ReadEof, Copy!Status, CopyInv, Copy!Conserved
  <2>2. SubSeq(Copy!Source, 1, N) = Copy!Source BY <1>4
  <2> QED BY <1>2, <1>3, <2>1, <2>2 DEF Copy!TransferStep, Copy!T!Next, Copy!T!Complete
<1>9. CASE Copy!WriteBytes
  <2>1. wpos' > wpos /\ Copy!Status = "going" /\ Copy!Status' = "going"
    BY <1>5, <1>9 DEF Copy!WriteBytes, Copy!Status, Copy!ToWrite, CopyInv, Copy!TypeOK
  <2>2. wpos' \in (Len(Copy!Arrived) + 1)..Len(Copy!Source) BY <1>3, <1>4, <1>5, <2>1
  <2>3. \E b \in (Len(Copy!Arrived) + 1)..Len(Copy!Source) :
          Copy!Arrived' = SubSeq(Copy!Source, 1, b)
    BY <1>2, <2>2
  <2>4. Len(Copy!Arrived) < Len(Copy!Source) BY <1>3, <1>4, <1>5, <2>1
  <2>5. Copy!T!Deliver BY <2>1, <2>3, <2>4 DEF Copy!T!Deliver
  <2> QED BY <2>5 DEF Copy!TransferStep, Copy!T!Next
<1>10. CASE Copy!Error
  <2>1. wpos' = wpos /\ Copy!Status = "going" /\ Copy!Status' = "broken"
    BY <1>10 DEF Copy!Error, Copy!Status
  <2> QED BY <1>2, <1>3, <2>1 DEF Copy!TransferStep, Copy!T!Next, Copy!T!Break
<1> QED BY <1>6, <1>7, <1>8, <1>9, <1>10
      DEF Copy!Next, Copy!r_read, Copy!Interrupted, Copy!vars

\* The copy starts where Transfer starts.
LEMMA CopyStart == Copy!Init => Copy!T!Init
BY CopyConstants
   DEF Copy!Init, Copy!T!Init, Copy!Arrived, Copy!Status, Copy!FileCopyAssumption
=============================================================================
