----------------------------- MODULE WireProofs -----------------------------
(***************************************************************************)
(* Wire, proved: for every size of a segment, every file and every number  *)
(* that fits its field.  First what a fold of the checksum keeps of a      *)
(* changed bit, then what serializing and reading back make of one, then   *)
(* the transfer.                                                           *)
(*                                                                         *)
(* The figures of the folds (512, 65536) appear in the definitions below,  *)
(* which are opened only where arithmetic is done with them.               *)
(***************************************************************************)
EXTENDS Wire, SequenceLemmas

-----------------------------------------------------------------------------
(* Numbers and bytes.                                                       *)

\* What a uint16_t is, without its bounds in figures.
LEMMA Uint16Is == \A x : x \in Uint16 <=> x \in Nat /\ x <= 65535
<1>1. ASSUME NEW m \in Nat PROVE \A x : x \in 0 .. m <=> x \in Nat /\ x <= m
  OBVIOUS
<1>2. UINT16_MAX \in Nat
  BY DEF UINT16_MAX
<1>3. \A x : x \in 0 .. UINT16_MAX <=> x \in Nat /\ x <= UINT16_MAX
  BY <1>1, <1>2, Zenon
<1>4. \A x : x \in Uint16 <=> x \in Nat /\ x <= UINT16_MAX
  BY <1>3, Zenon DEF Uint16
<1>5. UINT16_MAX = 65535
  BY DEF UINT16_MAX
<1> QED
  BY <1>4, <1>5

\* What a byte is.
LEMMA ByteIs == \A x : x \in Byte <=> x \in Nat /\ x <= 255
BY DEF Byte

\* A uint16_t is its two bytes.
LEMMA HalvesAre ==
  ASSUME NEW v \in Uint16
  PROVE  /\ v \div 256 \in Byte /\ v % 256 \in Byte
         /\ (v \div 256) * 256 + (v % 256) = v
BY Uint16Is, ByteIs, Quotient

\* n as the halves h and l of a uint32_t.
IsNumber(n, h, l) ==
  ToUint32(n) = [hi |-> h, lo |-> l] /\ l < 65536 /\ n = 65536 * h + l

\* Every number has them; the upper one may be too large for a uint16_t.
LEMMA NumberParts ==
  ASSUME NEW n \in Nat
  PROVE  \E h, l \in Nat : IsNumber(n, h, l)
<1> DEFINE h == n \div 65536
           l == n % 65536
<1>1. h \in Nat /\ l \in Nat /\ l < 65536 /\ n = 65536 * h + l
  BY Quotient
<1>2. IsNumber(n, h, l)
  BY <1>1 DEF IsNumber, ToUint32
<1> HIDE DEF h, l
<1> QED
  BY <1>1, <1>2

\* A number fits a uint32_t if a larger one does.
LEMMA SmallerNumber ==
  ASSUME NEW m \in Nat, ToUint32(m) \in Uint32, NEW n \in Nat, n <= m
  PROVE  ToUint32(n) \in Uint32
<1>1. PICK h, l \in Nat : IsNumber(m, h, l)
  BY NumberParts
<1>2. PICK i, k \in Nat : IsNumber(n, i, k)
  BY NumberParts
<1>3. h <= 65535
  BY <1>1, Uint16Is DEF Uint32, IsNumber
<1>4. i <= h
  BY <1>1, <1>2 DEF IsNumber
<1>5. i \in Uint16 /\ k \in Uint16
  BY <1>2, <1>3, <1>4, Uint16Is DEF IsNumber
<1> QED
  BY <1>2, <1>5 DEF Uint32, IsNumber

\* Different numbers are different uint32_t.
LEMMA NumbersDiffer ==
  ASSUME NEW m \in Nat, NEW n \in Nat, ToUint32(m) = ToUint32(n)
  PROVE  m = n
<1>1. PICK h, l \in Nat : IsNumber(m, h, l)
  BY NumberParts
<1>2. PICK i, k \in Nat : IsNumber(n, i, k)
  BY NumberParts
<1>3. h = i /\ l = k
  <2>1. ToUint32(m).hi = h /\ ToUint32(m).lo = l
    BY <1>1 DEF IsNumber
  <2>2. ToUint32(n).hi = i /\ ToUint32(n).lo = k
    BY <1>2 DEF IsNumber
  <2> QED
    BY <2>1, <2>2
<1> QED
  BY <1>1, <1>2, <1>3 DEF IsNumber

\* The lowest byte of a number tells it from the next one.
LEMMA LowByteTells ==
  ASSUME NEW n \in Nat
  PROVE  ToUint32(n).lo % 256 # ToUint32(n + 1).lo % 256
<1>1. PICK h, l \in Nat : IsNumber(n, h, l)
  BY NumberParts
<1>2. PICK i, k \in Nat : IsNumber(n + 1, i, k)
  <2>1. n + 1 \in Nat
    OBVIOUS
  <2> QED
    BY <2>1, NumberParts
<1>3. PICK q, r \in Nat : l = 256 * q + r /\ r < 256 /\ r = l % 256
  BY Quotient
<1>4. PICK s, t \in Nat : k = 256 * s + t /\ t < 256 /\ t = k % 256
  BY Quotient
<1>5. r # t
  BY <1>1, <1>2, <1>3, <1>4 DEF IsNumber
<1>6. ToUint32(n).lo = l /\ ToUint32(n + 1).lo = k
  BY <1>1, <1>2 DEF IsNumber
<1> QED
  BY <1>3, <1>4, <1>5, <1>6

\* The halves of a uint32_t are natural numbers.
LEMMA Uint32Range ==
  ASSUME NEW number \in Uint32
  PROVE  number.hi \in Nat /\ number.lo \in Nat
BY Uint16Is DEF Uint32

-----------------------------------------------------------------------------
(* One fold, and two sums that fold to the same.                            *)

\* x by powers of two, and what remains of it after a fold: the bits from 16
\* up are gone, and b, bit 8.
Parts(x, k, q, b, r) ==
  /\ q < 128 /\ b < 2 /\ r < 256
  /\ x = 65536 * k + 512 * q + 256 * b + r
  /\ Fold(x) = 512 * q + r + 1

\* What a fold makes of a sum.
LEMMA FoldIs ==
  ASSUME NEW x \in Nat
  PROVE \E k, q, b, r \in Nat : Parts(x, k, q, b, r)
<1>1. PICK k \in Nat, low \in Nat :
        low < 65536 /\ x = 65536 * k + low /\ x % 65536 = low
  BY Quotient
<1>2. PICK h \in Nat, r \in Nat : r < 256 /\ low = 256 * h + r /\ low \div 256 = h
  BY Quotient
<1>3. PICK q \in Nat, b \in Nat : b < 2 /\ h = 2 * q + b /\ h % 2 = b
  BY Quotient
<1>4. q < 128 /\ x = 65536 * k + 512 * q + 256 * b + r
  BY <1>1, <1>2, <1>3
<1>5. Fold(x) = 512 * q + r + 1
  <2>1. Fold(x) = low - 256 * b + 1
    BY <1>1, <1>2, <1>3 DEF Fold
  <2>2. low - 256 * b + 1 = 512 * q + r + 1
    BY <1>2, <1>3
  <2> QED
    BY <2>1, <2>2
<1>6. Parts(x, k, q, b, r)
  BY <1>2, <1>3, <1>4, <1>5 DEF Parts
<1> QED
  BY <1>6, Zenon

\* x and y differ by multiples of 2^16 and by bit 8 or not.
Apart(x, y, k, b) == -1 <= b /\ b <= 1 /\ x - y = 65536 * k + 256 * b

\* Sums that fold to the same differ in bits a fold loses, and no others.
LEMMA SameFold ==
  ASSUME NEW x \in Nat, NEW y \in Nat, Fold(x) = Fold(y)
  PROVE  \E k, b \in Int : Apart(x, y, k, b)
<1>1. PICK k1, q1, b1, r1 \in Nat : Parts(x, k1, q1, b1, r1)
  BY FoldIs, Zenon
<1>2. PICK k2, q2, b2, r2 \in Nat : Parts(y, k2, q2, b2, r2)
  BY FoldIs, Zenon
<1>3. q1 = q2 /\ r1 = r2
  BY <1>1, <1>2 DEF Parts
<1>4. k1 - k2 \in Int /\ b1 - b2 \in Int
  OBVIOUS
<1>5. Apart(x, y, k1 - k2, b1 - b2)
  BY <1>1, <1>2, <1>3 DEF Parts, Apart
<1> QED
  BY <1>4, <1>5, Zenon

\* What a fold leaves has no bit 8, and the 1 it adds.
Remainders(s, q, r) == q < 128 /\ r < 256 /\ s = 512 * q + r + 1

\* s is such a sum.
Folded(s) == s \in Nat /\ \E q, r \in Nat : Remainders(s, q, r)

\* A fold leaves such a sum, a uint16_t.
LEMMA FoldFolded == ASSUME NEW x \in Nat PROVE Folded(Fold(x)) /\ Fold(x) \in Uint16
<1>1. PICK k, q, b, r \in Nat : Parts(x, k, q, b, r)
  BY FoldIs, Zenon
<1>2. Fold(x) \in Nat
  BY <1>1 DEF Parts
<1>3. Fold(x) <= 65535
  BY <1>1 DEF Parts
<1>4. Remainders(Fold(x), q, r)
  BY <1>1 DEF Parts, Remainders
<1>5. Folded(Fold(x))
  BY <1>2, <1>4, Zenon DEF Folded
<1> QED
  BY <1>2, <1>3, <1>5, Uint16Is

\* Two such sums that differ still do when the same word was added to both
\* and they were folded again: a difference in the checksum never goes away.
LEMMA FoldInjective ==
  ASSUME NEW s, NEW t, Folded(s), Folded(t), s # t, NEW w \in Nat
  PROVE  Fold(s + w) # Fold(t + w)
<1> SUFFICES ASSUME Fold(s + w) = Fold(t + w) PROVE FALSE
  OBVIOUS
<1>1. PICK q1, r1 \in Nat : Remainders(s, q1, r1)
  BY Zenon DEF Folded
<1>2. PICK q2, r2 \in Nat : Remainders(t, q2, r2)
  BY Zenon DEF Folded
<1>3. PICK k, b \in Int : Apart(s + w, t + w, k, b)
  <2>1. s + w \in Nat /\ t + w \in Nat
    BY DEF Folded
  <2> QED
    BY <2>1, SameFold, Zenon
<1>4. 512 * (q1 - q2) + (r1 - r2) = 65536 * k + 256 * b
  BY <1>1, <1>2, <1>3 DEF Remainders, Apart
<1>5. r1 = r2
  <2>1. PICK m \in Int : r1 - r2 = 256 * m
    <3>1. r1 - r2 = 256 * (256 * k + b - 2 * (q1 - q2))
      BY <1>4
    <3> QED BY <3>1
  <2> QED BY <2>1, <1>1, <1>2 DEF Remainders
<1>6. 2 * (q1 - q2) = 256 * k + b
  BY <1>4, <1>5
<1>7. b = 0
  BY <1>3, <1>6 DEF Apart
<1>8. q1 - q2 = 128 * k
  BY <1>6, <1>7
<1>9. q1 = q2
  BY <1>8, <1>1, <1>2 DEF Remainders
<1> QED BY <1>1, <1>2, <1>5, <1>9 DEF Remainders

\* A difference of one bit of a word, not bit 8.
SeenBit(d) == d \in Weights \/ \E w \in Weights \ {1} : d = 256 * w

\* A fold keeps that difference.
LEMMA SeenIsFolded ==
  ASSUME NEW x \in Nat, NEW y \in Nat, NEW d, SeenBit(d), x - y = d \/ y - x = d
  PROVE  Fold(x) # Fold(y)
<1> SUFFICES ASSUME Fold(x) = Fold(y) PROVE FALSE
  OBVIOUS
<1>1. PICK k, b \in Int : Apart(x, y, k, b)
  BY SameFold, Zenon
<1> QED
  BY <1>1 DEF Apart, SeenBit, Weights

-----------------------------------------------------------------------------
(* The checksum of a whole packet: its loop is a recursive function.        *)

\* f holds the sums of the first 0, ..., n words of data after h.
PartialSums(h, data, n, f) ==
  f = [i \in 0 .. n |-> IF i = 0 THEN h ELSE Fold(f[i - 1] + Word(data, i - 1))]

\* There are such sums, which is what CHOOSE needs to find them.
LEMMA SumsExist ==
  ASSUME NEW h, NEW data, NEW n \in Nat
  PROVE  \E f : PartialSums(h, data, n, f)
<1> DEFINE T == {m \in Nat : \E f : PartialSums(h, data, m, f)}
<1>1. 0 \in T
  <2> DEFINE f == [i \in 0 .. 0 |-> h]
  <2>1. f = [i \in 0 .. 0 |-> IF i = 0 THEN h ELSE Fold(f[i - 1] + Word(data, i - 1))]
    OBVIOUS
  <2> HIDE DEF f
  <2>2. PartialSums(h, data, 0, f)
    BY <2>1 DEF PartialSums
  <2> QED
    BY <2>2
<1>2. ASSUME NEW m \in T PROVE m + 1 \in T
  <2>1. PICK f : PartialSums(h, data, m, f)
    OBVIOUS
  <2> DEFINE g == [i \in 0 .. m + 1 |->
                    IF i = m + 1 THEN Fold(f[m] + Word(data, m)) ELSE f[i]]
  <2>2. ASSUME NEW i \in 0 .. m + 1
        PROVE  g[i] = IF i = 0 THEN h ELSE Fold(g[i - 1] + Word(data, i - 1))
    <3>1. CASE i = 0
      BY <3>1, <2>1 DEF PartialSums
    <3>2. CASE i # 0 /\ i # m + 1
      <4>1. i \in 0 .. m /\ i - 1 \in 0 .. m /\ i - 1 # m + 1 /\ i - 1 \in 0 .. m + 1
        BY <3>2
      <4>2. f[i] = Fold(f[i - 1] + Word(data, i - 1))
        BY <3>2, <4>1, <2>1 DEF PartialSums
      <4> QED
        BY <4>1, <4>2, <3>2
    <3>3. CASE i = m + 1
      <4>1. i - 1 = m /\ i # 0 /\ m \in 0 .. m + 1 /\ m # m + 1
        BY <3>3
      <4> QED
        BY <4>1, <3>3
    <3> QED
      BY <3>1, <3>2, <3>3
  <2>3. g = [i \in 0 .. m + 1 |-> g[i]]
    OBVIOUS
  <2> HIDE DEF g
  <2>4. PartialSums(h, data, m + 1, g)
    BY <2>2, <2>3 DEF PartialSums
  <2> QED
    BY <2>4
<1> HIDE DEF T
<1>3. T = Nat
  BY <1>1, <1>2, SetInduction DEF T
<1> QED
  BY <1>3 DEF T

\* The fields of a packet fit their types.
InRange(pack) ==
  /\ pack.len \in Uint16 /\ pack.seqno \in Uint32
  /\ pack.data \in Seq(Byte) /\ Len(pack.data) = PCK_DATA_SIZE

\* The words summed lie within the data.
LEMMA WordsAre ==
  ASSUME NEW data \in Seq(Byte), Len(data) = PCK_DATA_SIZE, NEW i \in Nat, i < WordsSummed
  PROVE  /\ 2 * i + 1 \in 1 .. PCK_DATA_SIZE /\ 2 * i + 2 \in 1 .. PCK_DATA_SIZE
         /\ data[2 * i + 1] \in Nat /\ data[2 * i + 2] \in Nat
         /\ Word(data, i) \in Nat
<1>1. PICK r \in Nat : PCK_DATA_SIZE = 16 * WordsSummed + r
  <2>1. /\ PCK_DATA_SIZE = (16 * (PCK_DATA_SIZE \div 16)) + (PCK_DATA_SIZE % 16)
        /\ PCK_DATA_SIZE % 16 \in Nat
    BY DataSizeAssumption, Quotient
  <2> QED
    BY <2>1 DEF WordsSummed
<1>2. WordsSummed \in Nat /\ PCK_DATA_SIZE \in Nat
  BY DataSizeAssumption DEF WordsSummed
<1>3. 2 * i + 1 \in 1 .. PCK_DATA_SIZE /\ 2 * i + 2 \in 1 .. PCK_DATA_SIZE
  BY <1>1, <1>2
<1>4. data[2 * i + 1] \in Byte /\ data[2 * i + 2] \in Byte
  BY <1>3
<1>5. data[2 * i + 1] \in Nat /\ data[2 * i + 2] \in Nat
  BY <1>4, ByteIs
<1> QED
  BY <1>3, <1>5 DEF Word

\* The sum of the header is a folded one.
LEMMA HeaderIs ==
  ASSUME NEW len \in Nat, NEW number, number.hi \in Nat, number.lo \in Nat
  PROVE  Folded(SumHeader(len, number)) /\ SumHeader(len, number) \in Nat
<1>1. number.lo % 256 \in Nat /\ len + number.hi \in Nat
  BY Quotient
<1>2. Fold(len + number.hi) \in Nat
  BY <1>1, FoldFolded DEF Folded
<1>3. Fold(len + number.hi) + (number.lo % 256) \in Nat
  BY <1>1, <1>2
<1> QED
  BY <1>3, FoldFolded DEF SumHeader, Folded

\* The sums of the loop of calculateChecksum, all of them folded.
Sums(pack, f) ==
  /\ f[0] = SumHeader(pack.len, pack.seqno)
  /\ \A i \in Nat : i < WordsSummed => f[i + 1] = Fold(f[i] + Word(pack.data, i))
  /\ \A i \in Nat : i <= WordsSummed => Folded(f[i])

\* The checksum is the last one, and fits its field.
LEMMA SumsAre ==
  ASSUME NEW pack, InRange(pack)
  PROVE  \E f : /\ Sums(pack, f)
                /\ CalculateChecksum(pack) = f[WordsSummed]
                /\ CalculateChecksum(pack) \in Uint16
<1> DEFINE f == CHOOSE f : PartialSums(SumHeader(pack.len, pack.seqno), pack.data, WordsSummed, f)
<1>1. WordsSummed \in Nat
  BY DataSizeAssumption DEF WordsSummed
<1>2. PartialSums(SumHeader(pack.len, pack.seqno), pack.data, WordsSummed, f)
  BY <1>1, SumsExist
<1>3. CalculateChecksum(pack) = f[WordsSummed] % 65536
  BY DEF CalculateChecksum, PartialSums
<1> HIDE DEF f
<1>4. f[0] = SumHeader(pack.len, pack.seqno)
  BY <1>1, <1>2 DEF PartialSums
<1>5. ASSUME NEW i \in Nat, i < WordsSummed
      PROVE  f[i + 1] = Fold(f[i] + Word(pack.data, i))
  <2>1. i + 1 \in 0 .. WordsSummed /\ i + 1 # 0 /\ (i + 1) - 1 = i
    BY <1>1, <1>5
  <2> QED
    BY <1>2, <2>1 DEF PartialSums
<1>6. \A i \in Nat : i <= WordsSummed => Folded(f[i])
  <2> DEFINE T == {i \in Nat : i <= WordsSummed => Folded(f[i])}
  <2>1. 0 \in T
    <3>1. pack.len \in Nat /\ pack.seqno.hi \in Nat /\ pack.seqno.lo \in Nat
      BY Uint16Is DEF InRange, Uint32
    <3> QED
      BY <1>4, <3>1, HeaderIs
  <2>2. ASSUME NEW i \in T PROVE i + 1 \in T
    <3> SUFFICES ASSUME i + 1 <= WordsSummed PROVE Folded(f[i + 1])
      OBVIOUS
    <3>1. i \in Nat /\ i < WordsSummed /\ i <= WordsSummed
      BY <1>1
    <3>2. f[i] \in Nat
      BY <3>1 DEF Folded
    <3>3. Word(pack.data, i) \in Nat
      BY <3>1, WordsAre DEF InRange
    <3>4. f[i] + Word(pack.data, i) \in Nat
      BY <3>2, <3>3
    <3> QED
      BY <1>5, <3>1, <3>4, FoldFolded
  <2> HIDE DEF T
  <2>3. T = Nat
    BY <2>1, <2>2, SetInduction DEF T
  <2> QED
    BY <2>3 DEF T
<1>7. Folded(f[WordsSummed])
  BY <1>1, <1>6
<1>8. f[WordsSummed] % 65536 = f[WordsSummed] /\ f[WordsSummed] \in Uint16
  BY <1>7, Uint16Is DEF Folded, Remainders
<1>9. Sums(pack, f)
  BY <1>4, <1>5, <1>6 DEF Sums
<1> QED
  BY <1>3, <1>8, <1>9

\* Packets with the same header sum and the same words have the same checksum,
\* whatever their check_sum field says.
LEMMA SameSum ==
  ASSUME NEW p, NEW q, InRange(p), InRange(q),
         SumHeader(p.len, p.seqno) = SumHeader(q.len, q.seqno),
         \A i \in Nat : i < WordsSummed => Word(p.data, i) = Word(q.data, i)
  PROVE  CalculateChecksum(p) = CalculateChecksum(q)
<1>1. PICK f : Sums(p, f) /\ CalculateChecksum(p) = f[WordsSummed]
  BY SumsAre
<1>2. PICK g : Sums(q, g) /\ CalculateChecksum(q) = g[WordsSummed]
  BY SumsAre
<1>3. WordsSummed \in Nat
  BY DataSizeAssumption DEF WordsSummed
<1> DEFINE T == {i \in Nat : i <= WordsSummed => f[i] = g[i]}
<1>4. 0 \in T
  BY <1>1, <1>2 DEF Sums
<1>5. ASSUME NEW i \in T PROVE i + 1 \in T
  <2> SUFFICES ASSUME i + 1 <= WordsSummed PROVE f[i + 1] = g[i + 1]
    OBVIOUS
  <2>1. i \in Nat /\ i < WordsSummed /\ f[i] = g[i]
    BY <1>3
  <2> QED
    BY <1>1, <1>2, <2>1 DEF Sums
<1> HIDE DEF T
<1>6. T = Nat
  BY <1>4, <1>5, SetInduction DEF T
<1> QED
  BY <1>1, <1>2, <1>3, <1>6 DEF T

\* A difference that got into the sum after j words is in the checksum, if the
\* words after them are the same.
LEMMA DifferenceStays ==
  ASSUME NEW p, NEW q, InRange(p), InRange(q), NEW j \in Nat, j <= WordsSummed,
         NEW f, NEW g, Sums(p, f), Sums(q, g), f[j] # g[j],
         \A i \in Nat : j <= i /\ i < WordsSummed => Word(p.data, i) = Word(q.data, i)
  PROVE  f[WordsSummed] # g[WordsSummed]
<1>3. WordsSummed \in Nat
  BY DataSizeAssumption DEF WordsSummed
<1> DEFINE T == {i \in Nat : j + i <= WordsSummed => f[j + i] # g[j + i]}
<1>4. 0 \in T
  OBVIOUS
<1>5. ASSUME NEW i \in T PROVE i + 1 \in T
  <2> SUFFICES ASSUME j + (i + 1) <= WordsSummed PROVE f[j + (i + 1)] # g[j + (i + 1)]
    OBVIOUS
  <2>1. j + i \in Nat /\ j <= j + i /\ j + i < WordsSummed /\ f[j + i] # g[j + i]
        /\ j + i <= WordsSummed /\ j + (i + 1) = (j + i) + 1
    BY <1>3
  <2>2. /\ f[(j + i) + 1] = Fold(f[j + i] + Word(p.data, j + i))
        /\ g[(j + i) + 1] = Fold(g[j + i] + Word(p.data, j + i))
        /\ Folded(f[j + i]) /\ Folded(g[j + i])
    BY <2>1 DEF Sums
  <2>3. Word(p.data, j + i) \in Nat
    BY <2>1, WordsAre DEF InRange
  <2> QED
    BY <2>1, <2>2, <2>3, FoldInjective
<1> HIDE DEF T
<1>6. T = Nat
  BY <1>4, <1>5, SetInduction DEF T
<1>7. WordsSummed - j \in T /\ j + (WordsSummed - j) = WordsSummed
  BY <1>3, <1>6
<1> QED
  BY <1>7 DEF T

-----------------------------------------------------------------------------
(* Serialization, and back.                                                 *)

\* Two bytes after two bytes.
LEMMA FourBytes ==
  ASSUME NEW a, NEW b, NEW c, NEW d
  PROVE  /\ Len(<<a, b>> \o <<c, d>>) = 4
         /\ (<<a, b>> \o <<c, d>>)[1] = a /\ (<<a, b>> \o <<c, d>>)[2] = b
         /\ (<<a, b>> \o <<c, d>>)[3] = c /\ (<<a, b>> \o <<c, d>>)[4] = d
OBVIOUS

\* The first eight bytes of a datagram hold these fields.
Header(buffer, cs, len, number) ==
  /\ buffer[1] = cs \div 256 /\ buffer[2] = cs % 256
  /\ buffer[3] = len \div 256 /\ buffer[4] = len % 256
  /\ buffer[5] = number.hi \div 256 /\ buffer[6] = number.hi % 256
  /\ buffer[7] = number.lo \div 256 /\ buffer[8] = number.lo % 256

\* The header as serialize_packet writes it.
LEMMA SerializedHeader ==
  ASSUME NEW cs \in Uint16, NEW len \in Uint16, NEW number \in Uint32
  PROVE  LET h == SerializeUint16(cs) \o SerializeUint16(len) \o SerializeUint32(number)
         IN  h \in Seq(Byte) /\ Len(h) = 8 /\ Header(h, cs, len, number)
<1> DEFINE s == SerializeUint16(cs) \o SerializeUint16(len)
           t == SerializeUint32(number)
<1>0. number.hi \in Uint16 /\ number.lo \in Uint16
  BY DEF Uint32
<1>1. /\ s \in Seq(Byte) /\ Len(s) = 4
      /\ s[1] = cs \div 256 /\ s[2] = cs % 256 /\ s[3] = len \div 256 /\ s[4] = len % 256
  <2>1. SerializeUint16(cs) \in Seq(Byte) /\ SerializeUint16(len) \in Seq(Byte)
    BY HalvesAre DEF SerializeUint16
  <2> QED
    BY <2>1, FourBytes DEF SerializeUint16
<1>2. /\ t \in Seq(Byte) /\ Len(t) = 4
      /\ t[1] = number.hi \div 256 /\ t[2] = number.hi % 256
      /\ t[3] = number.lo \div 256 /\ t[4] = number.lo % 256
  <2>1. SerializeUint16(number.hi) \in Seq(Byte) /\ SerializeUint16(number.lo) \in Seq(Byte)
    BY <1>0, HalvesAre DEF SerializeUint16
  <2> QED
    BY <2>1, FourBytes DEF SerializeUint16, SerializeUint32
<1> HIDE DEF s, t
<1> DEFINE u == s \o t
<1>3. /\ u \in Seq(Byte) /\ Len(u) = Len(s) + Len(t)
      /\ \A j \in 1 .. Len(s) : u[j] = s[j]
      /\ \A j \in 1 .. Len(t) : u[Len(s) + j] = t[j]
  <2>1. s \in Seq(Byte) /\ t \in Seq(Byte)
    BY <1>1, <1>2
  <2> QED
    BY <2>1, EndToEnd
<1> HIDE DEF u
<1>4. /\ Len(u) = 8
      /\ u[1] = s[1] /\ u[2] = s[2] /\ u[3] = s[3] /\ u[4] = s[4]
      /\ u[5] = t[1] /\ u[6] = t[2] /\ u[7] = t[3] /\ u[8] = t[4]
  BY <1>1, <1>2, <1>3
<1>5. Header(u, cs, len, number)
  BY <1>1, <1>2, <1>4 DEF Header
<1> QED
  BY <1>3, <1>4, <1>5 DEF s, t, u

\* The datagram of a packet, byte by byte.
LEMMA Serialized ==
  ASSUME NEW pack, InRange(pack), pack.check_sum \in Uint16
  PROVE  LET buffer == SerializePacket(pack)
         IN  /\ buffer \in Seq(Byte) /\ Len(buffer) = PCK_HEADER_SIZE + PCK_DATA_SIZE
             /\ Header(buffer, pack.check_sum, pack.len, pack.seqno)
             /\ \A i \in 1 .. PCK_DATA_SIZE : buffer[PCK_HEADER_SIZE + i] = pack.data[i]
<1> DEFINE h == SerializeUint16(pack.check_sum) \o SerializeUint16(pack.len)
                  \o SerializeUint32(pack.seqno)
<1>1. h \in Seq(Byte) /\ Len(h) = 8 /\ Header(h, pack.check_sum, pack.len, pack.seqno)
  BY SerializedHeader DEF InRange
<1>2. SerializePacket(pack) = h \o pack.data
  BY DEF SerializePacket
<1> HIDE DEF h
<1>3. PCK_DATA_SIZE \in Nat /\ pack.data \in Seq(Byte) /\ Len(pack.data) = PCK_DATA_SIZE
  BY DataSizeAssumption DEF InRange
<1> DEFINE u == h \o pack.data
<1>4. /\ u \in Seq(Byte) /\ Len(u) = Len(h) + Len(pack.data)
      /\ \A j \in 1 .. Len(h) : u[j] = h[j]
      /\ \A j \in 1 .. Len(pack.data) : u[Len(h) + j] = pack.data[j]
  <2>1. h \in Seq(Byte) /\ pack.data \in Seq(Byte)
    BY <1>1, <1>3
  <2> QED
    BY <2>1, EndToEnd
<1> HIDE DEF u
<1>5. /\ Len(u) = 8 + PCK_DATA_SIZE
      /\ u[1] = h[1] /\ u[2] = h[2] /\ u[3] = h[3] /\ u[4] = h[4]
      /\ u[5] = h[5] /\ u[6] = h[6] /\ u[7] = h[7] /\ u[8] = h[8]
      /\ \A i \in 1 .. PCK_DATA_SIZE : u[8 + i] = pack.data[i]
  BY <1>1, <1>3, <1>4
<1>6. Header(u, pack.check_sum, pack.len, pack.seqno)
  BY <1>1, <1>5 DEF Header
<1> QED
  BY <1>2, <1>4, <1>5, <1>6 DEF PCK_HEADER_SIZE, u

\* The datagram of an acknowledgement.
LEMMA SerializedAck ==
  ASSUME NEW pack \in AckPacket
  PROVE  LET buffer == SerializeAckPacket(pack)
         IN  /\ buffer \in Seq(Byte) /\ Len(buffer) = PCK_HEADER_SIZE
             /\ Header(buffer, pack.cksum, pack.len, pack.ackno)
BY SerializedHeader DEF SerializeAckPacket, AckPacket, PCK_HEADER_SIZE

\* The checksum, the length and the number in a datagram.
CheckSumOf(b) == b[1] * 256 + b[2]
LenOf(b) == b[3] * 256 + b[4]
NumberOf(b) == [hi |-> b[5] * 256 + b[6], lo |-> b[7] * 256 + b[8]]

\* The first eight bytes of a datagram.
LEMMA HeaderBytes ==
  ASSUME NEW buffer \in Seq(Byte), Len(buffer) >= 8
  PROVE  \A i \in 1 .. 8 : buffer[i] \in Nat /\ buffer[i] <= 255
<1>1. \A i \in 1 .. 8 : buffer[i] \in Byte
  OBVIOUS
<1> QED
  BY <1>1, ByteIs

\* What is read back from them, whatever they are.
LEMMA FieldsOf ==
  ASSUME NEW buffer \in Seq(Byte), Len(buffer) >= 8
  PROVE  /\ DeserializeUint16(SubSeq(buffer, 1, 2)) = CheckSumOf(buffer)
         /\ DeserializeUint16(SubSeq(buffer, 3, 4)) = LenOf(buffer)
         /\ DeserializeUint32(SubSeq(buffer, 5, 8)) = NumberOf(buffer)
<1>1. SubSeq(buffer, 1, 2)[1] = buffer[1] /\ SubSeq(buffer, 1, 2)[2] = buffer[2]
  OBVIOUS
<1>2. SubSeq(buffer, 3, 4)[1] = buffer[3] /\ SubSeq(buffer, 3, 4)[2] = buffer[4]
  OBVIOUS
<1> DEFINE s == SubSeq(buffer, 5, 8)
<1>3. /\ s \in Seq(Byte) /\ Len(s) = 4
      /\ s[1] = buffer[5] /\ s[2] = buffer[6] /\ s[3] = buffer[7] /\ s[4] = buffer[8]
  OBVIOUS
<1> HIDE DEF s
<1>4. /\ SubSeq(s, 1, 2)[1] = s[1] /\ SubSeq(s, 1, 2)[2] = s[2]
      /\ SubSeq(s, 3, 4)[1] = s[3] /\ SubSeq(s, 3, 4)[2] = s[4]
  BY <1>3
<1>5. DeserializeUint32(s) = NumberOf(buffer)
  BY <1>3, <1>4 DEF DeserializeUint32, DeserializeUint16, NumberOf
<1>6. DeserializeUint16(SubSeq(buffer, 1, 2)) = CheckSumOf(buffer)
  BY <1>1 DEF DeserializeUint16, CheckSumOf
<1>7. DeserializeUint16(SubSeq(buffer, 3, 4)) = LenOf(buffer)
  BY <1>2 DEF DeserializeUint16, LenOf
<1> QED
  BY <1>5, <1>6, <1>7 DEF s

\* Two bytes make a uint16_t.
LEMMA WordsOf ==
  ASSUME NEW buffer, \A i \in 1 .. 8 : buffer[i] \in Nat /\ buffer[i] <= 255
  PROVE  CheckSumOf(buffer) \in Uint16 /\ LenOf(buffer) \in Uint16 /\ NumberOf(buffer) \in Uint32
<1>1. ASSUME NEW x \in Nat, NEW y \in Nat, x <= 255, y <= 255
      PROVE  x * 256 + y \in Uint16
  <2>1. x * 256 + y \in Nat /\ x * 256 + y <= 65535
    BY <1>1
  <2> QED
    BY <2>1, Uint16Is
<1>2. CheckSumOf(buffer) \in Uint16
  <2>1. buffer[1] \in Nat /\ buffer[1] <= 255 /\ buffer[2] \in Nat /\ buffer[2] <= 255
    OBVIOUS
  <2> QED
    BY <1>1, <2>1 DEF CheckSumOf
<1>3. LenOf(buffer) \in Uint16
  <2>1. buffer[3] \in Nat /\ buffer[3] <= 255 /\ buffer[4] \in Nat /\ buffer[4] <= 255
    OBVIOUS
  <2> QED
    BY <1>1, <2>1 DEF LenOf
<1>4. buffer[5] * 256 + buffer[6] \in Uint16
  <2>1. buffer[5] \in Nat /\ buffer[5] <= 255 /\ buffer[6] \in Nat /\ buffer[6] <= 255
    OBVIOUS
  <2> QED
    BY <1>1, <2>1
<1>5. buffer[7] * 256 + buffer[8] \in Uint16
  <2>1. buffer[7] \in Nat /\ buffer[7] <= 255 /\ buffer[8] \in Nat /\ buffer[8] <= 255
    OBVIOUS
  <2> QED
    BY <1>1, <2>1
<1>6. NumberOf(buffer) \in Uint32
  BY <1>4, <1>5 DEF NumberOf, Uint32
<1> QED
  BY <1>2, <1>3, <1>6

\* The packet read from a datagram, field by field.
LEMMA Deserialized ==
  ASSUME NEW buffer \in Seq(Byte), Len(buffer) = PCK_HEADER_SIZE + PCK_DATA_SIZE
  PROVE  LET pack == DeserializePacket(buffer)
         IN  /\ pack.check_sum = CheckSumOf(buffer)
             /\ pack.len = LenOf(buffer)
             /\ pack.seqno = NumberOf(buffer)
             /\ \A i \in 1 .. PCK_DATA_SIZE : pack.data[i] = buffer[PCK_HEADER_SIZE + i]
             /\ InRange(pack) /\ pack.check_sum \in Uint16
<1>1. PCK_DATA_SIZE \in Nat /\ Len(buffer) = 8 + PCK_DATA_SIZE /\ PCK_HEADER_SIZE = 8
  BY DataSizeAssumption DEF PCK_HEADER_SIZE
<1> DEFINE d == SubSeq(buffer, 9, 8 + PCK_DATA_SIZE)
<1>2. /\ d \in Seq(Byte) /\ Len(d) = PCK_DATA_SIZE
      /\ \A i \in 1 .. PCK_DATA_SIZE : d[i] = buffer[8 + i]
  BY <1>1
<1>3. Len(buffer) >= 8
  BY <1>1
<1>4. DeserializePacket(buffer) =
        [check_sum |-> CheckSumOf(buffer), len |-> LenOf(buffer),
         seqno |-> NumberOf(buffer), data |-> d]
  <2>1. /\ DeserializeUint16(SubSeq(buffer, 1, 2)) = CheckSumOf(buffer)
        /\ DeserializeUint16(SubSeq(buffer, 3, 4)) = LenOf(buffer)
        /\ DeserializeUint32(SubSeq(buffer, 5, 8)) = NumberOf(buffer)
    BY <1>3, FieldsOf
  <2> QED
    BY <1>1, <2>1, Zenon DEF DeserializePacket
<1> HIDE DEF d
<1>5. \A i \in 1 .. 8 : buffer[i] \in Nat /\ buffer[i] <= 255
  BY <1>3, HeaderBytes
<1>6. CheckSumOf(buffer) \in Uint16 /\ LenOf(buffer) \in Uint16 /\ NumberOf(buffer) \in Uint32
  BY <1>5, WordsOf
<1> QED
  BY <1>1, <1>2, <1>4, <1>6 DEF InRange

\* The acknowledgement read from a datagram.
LEMMA DeserializedAck ==
  ASSUME NEW buffer \in Seq(Byte), Len(buffer) = PCK_HEADER_SIZE
  PROVE  LET pack == DeserializeAckPacket(buffer)
         IN  /\ pack = [cksum |-> CheckSumOf(buffer), len |-> LenOf(buffer),
                        ackno |-> NumberOf(buffer)]
             /\ pack \in AckPacket
<1>1. Len(buffer) >= 8
  BY DEF PCK_HEADER_SIZE
<1>2. /\ DeserializeUint16(SubSeq(buffer, 1, 2)) = CheckSumOf(buffer)
      /\ DeserializeUint16(SubSeq(buffer, 3, 4)) = LenOf(buffer)
      /\ DeserializeUint32(SubSeq(buffer, 5, 8)) = NumberOf(buffer)
  BY <1>1, FieldsOf
<1>3. \A i \in 1 .. 8 : buffer[i] \in Nat /\ buffer[i] <= 255
  BY <1>1, HeaderBytes
<1>4. CheckSumOf(buffer) \in Uint16 /\ LenOf(buffer) \in Uint16 /\ NumberOf(buffer) \in Uint32
  BY <1>3, WordsOf
<1>5. DeserializeAckPacket(buffer) =
        [cksum |-> CheckSumOf(buffer), len |-> LenOf(buffer), ackno |-> NumberOf(buffer)]
  BY <1>2, Zenon DEF DeserializeAckPacket
<1> QED
  BY <1>4, <1>5 DEF AckPacket

\* Every packet with a full buffer is read back as it was written.
LEMMA RoundTrip ==
  ASSUME NEW pack \in WirePacket, Len(pack.data) = PCK_DATA_SIZE
  PROVE  DeserializePacket(SerializePacket(pack)) = pack
<1>0. /\ InRange(pack) /\ pack.check_sum \in Uint16 /\ pack.len \in Uint16
      /\ pack.seqno.hi \in Uint16 /\ pack.seqno.lo \in Uint16
      /\ pack.seqno = [hi |-> pack.seqno.hi, lo |-> pack.seqno.lo]
      /\ pack.data \in Seq(Byte) /\ PCK_DATA_SIZE \in Nat
  BY DataSizeAssumption DEF InRange, WirePacket, Uint32
<1> DEFINE b == SerializePacket(pack)
           q == DeserializePacket(b)
<1>1. /\ b \in Seq(Byte) /\ Len(b) = PCK_HEADER_SIZE + PCK_DATA_SIZE
      /\ Header(b, pack.check_sum, pack.len, pack.seqno)
      /\ \A i \in 1 .. PCK_DATA_SIZE : b[PCK_HEADER_SIZE + i] = pack.data[i]
  BY <1>0, Serialized
<1> HIDE DEF b
<1>2. /\ q.check_sum = CheckSumOf(b) /\ q.len = LenOf(b) /\ q.seqno = NumberOf(b)
      /\ \A i \in 1 .. PCK_DATA_SIZE : q.data[i] = b[PCK_HEADER_SIZE + i]
      /\ q.data \in Seq(Byte) /\ Len(q.data) = PCK_DATA_SIZE
  <2>1. b \in Seq(Byte) /\ Len(b) = PCK_HEADER_SIZE + PCK_DATA_SIZE
    BY <1>1
  <2> QED
    <3>1. /\ q.check_sum = CheckSumOf(b) /\ q.len = LenOf(b) /\ q.seqno = NumberOf(b)
          /\ \A i \in 1 .. PCK_DATA_SIZE : q.data[i] = b[PCK_HEADER_SIZE + i]
          /\ InRange(q)
      BY <2>1, Deserialized
    <3> HIDE DEF q
    <3> QED
      BY <3>1 DEF InRange
<1>3. /\ CheckSumOf(b) = pack.check_sum /\ LenOf(b) = pack.len
      /\ NumberOf(b) = [hi |-> pack.seqno.hi, lo |-> pack.seqno.lo]
  BY <1>0, <1>1, HalvesAre DEF Header, CheckSumOf, LenOf, NumberOf
<1>4. q = [check_sum |-> q.check_sum, len |-> q.len, seqno |-> q.seqno, data |-> q.data]
  BY DEF DeserializePacket
<1>5. pack = [check_sum |-> pack.check_sum, len |-> pack.len,
              seqno |-> pack.seqno, data |-> pack.data]
  BY DEF WirePacket
<1> HIDE DEF q
<1>6. q.data = pack.data
  BY <1>0, <1>1, <1>2
<1>7. q = pack
  BY <1>0, <1>2, <1>3, <1>4, <1>5, <1>6
<1> QED
  BY <1>7 DEF q, b

\* So is every acknowledgement.
LEMMA AckRoundTrip ==
  ASSUME NEW pack \in AckPacket
  PROVE  DeserializeAckPacket(SerializeAckPacket(pack)) = pack
<1>0. /\ pack.cksum \in Uint16 /\ pack.len \in Uint16
      /\ pack.ackno.hi \in Uint16 /\ pack.ackno.lo \in Uint16
      /\ pack = [cksum |-> pack.cksum, len |-> pack.len,
                 ackno |-> [hi |-> pack.ackno.hi, lo |-> pack.ackno.lo]]
  BY DEF AckPacket, Uint32
<1> DEFINE b == SerializeAckPacket(pack)
<1>1. /\ b \in Seq(Byte) /\ Len(b) = PCK_HEADER_SIZE
      /\ Header(b, pack.cksum, pack.len, pack.ackno)
  BY SerializedAck
<1> HIDE DEF b
<1>2. DeserializeAckPacket(b) =
        [cksum |-> CheckSumOf(b), len |-> LenOf(b), ackno |-> NumberOf(b)]
  BY <1>1, DeserializedAck
<1>3. /\ CheckSumOf(b) = pack.cksum /\ LenOf(b) = pack.len
      /\ NumberOf(b) = [hi |-> pack.ackno.hi, lo |-> pack.ackno.lo]
  BY <1>0, <1>1, HalvesAre DEF Header, CheckSumOf, LenOf, NumberOf
<1> QED
  BY <1>0, <1>2, <1>3 DEF b

-----------------------------------------------------------------------------
(* One changed bit.                                                         *)

\* Changing a bit of a byte leaves a byte, more or less by the bit's weight.
LEMMA FlippedByte ==
  ASSUME NEW v \in Byte, NEW w \in Weights
  PROVE  LET u == IF (v \div w) % 2 = 1 THEN v - w ELSE v + w
         IN  u \in Byte /\ (u - v = w \/ v - u = w)
<1>1. v \in Nat /\ v <= 255
  BY ByteIs
<1>2. PICK q, r \in Nat : v = w * q + r /\ r < w /\ q = v \div w
  BY <1>1, Quotient DEF Weights
<1>3. PICK h, b \in Nat : q = 2 * h + b /\ b < 2 /\ b = q % 2
  BY Quotient
<1>4. CASE b = 1
  <2>1. v - w \in Nat
    BY <1>1, <1>2, <1>3, <1>4 DEF Weights
  <2> QED
    BY <1>1, <1>2, <1>3, <1>4, <2>1, ByteIs DEF Weights
<1>5. CASE b = 0
  <2>1. v + w \in Nat /\ v + w <= 255
    BY <1>1, <1>2, <1>3, <1>5 DEF Weights
  <2> QED
    BY <1>1, <1>2, <1>3, <1>5, <2>1, ByteIs DEF Weights
<1> QED
  BY <1>3, <1>4, <1>5

\* Changing a bit of a datagram changes that byte of it and no other.
LEMMA Flipped ==
  ASSUME NEW buffer \in Seq(Byte), NEW bit \in BitsOf(buffer)
  PROVE  /\ Flip(buffer, bit) \in Seq(Byte) /\ Len(Flip(buffer, bit)) = Len(buffer)
         /\ bit[1] \in 1 .. Len(buffer) /\ bit[2] \in Weights
         /\ \A i \in 1 .. Len(buffer) : i # bit[1] => Flip(buffer, bit)[i] = buffer[i]
         /\ \/ Flip(buffer, bit)[bit[1]] - buffer[bit[1]] = bit[2]
            \/ buffer[bit[1]] - Flip(buffer, bit)[bit[1]] = bit[2]
<1> DEFINE i == bit[1]
           w == bit[2]
           u == IF (buffer[i] \div w) % 2 = 1 THEN buffer[i] - w ELSE buffer[i] + w
<1>1. i \in 1 .. Len(buffer) /\ w \in Weights
  BY DEF BitsOf
<1>2. buffer[i] \in Byte
  BY <1>1
<1>3. u \in Byte /\ (u - buffer[i] = w \/ buffer[i] - u = w)
  BY <1>1, <1>2, FlippedByte
<1>4. Flip(buffer, bit) = [buffer EXCEPT ![i] = u]
  BY DEF Flip
<1> HIDE DEF u
<1>5. /\ [buffer EXCEPT ![i] = u] \in Seq(Byte)
      /\ Len([buffer EXCEPT ![i] = u]) = Len(buffer)
      /\ [buffer EXCEPT ![i] = u][i] = u
      /\ \A j \in 1 .. Len(buffer) : j # i => [buffer EXCEPT ![i] = u][j] = buffer[j]
  BY <1>1, <1>3
<1> QED
  BY <1>1, <1>3, <1>4, <1>5

\* Words whose upper bytes differ by w differ by 256 w.
LEMMA UpperByte ==
  ASSUME NEW u \in Nat, NEW v \in Nat, NEW r \in Nat, NEW w \in Nat, u - v = w \/ v - u = w,
         NEW x, NEW y, x = u * 256 + r, y = v * 256 + r
  PROVE  x - y = 256 * w \/ y - x = 256 * w
OBVIOUS

\* A difference in the length or in the number's upper half is kept by the two
\* folds of the header.
LEMMA HalfDiffers ==
  ASSUME NEW x \in Nat, NEW y \in Nat, NEW d, SeenBit(d), x - y = d \/ y - x = d,
         NEW low \in Nat
  PROVE  Fold(Fold(x) + low) # Fold(Fold(y) + low)
<1>1. Fold(x) # Fold(y)
  BY SeenIsFolded
<1>2. Folded(Fold(x)) /\ Folded(Fold(y))
  BY FoldFolded
<1> QED
  BY <1>1, <1>2, FoldInjective

\* So is one in the lowest byte of the number.
LEMMA LowByteDiffers ==
  ASSUME NEW len \in Nat, NEW n, NEW m,
         n.hi \in Nat, n.lo \in Nat, m.lo \in Nat, n.hi = m.hi,
         NEW w \in Weights,
         (n.lo % 256) - (m.lo % 256) = w \/ (m.lo % 256) - (n.lo % 256) = w
  PROVE  SumHeader(len, n) # SumHeader(len, m)
<1> DEFINE x == Fold(len + n.hi)
<1>1. n.lo % 256 \in Nat /\ m.lo % 256 \in Nat /\ len + n.hi \in Nat
  BY Quotient
<1>2. x \in Nat
  BY <1>1, FoldFolded DEF Folded
<1> HIDE DEF x
<1>3. /\ x + (n.lo % 256) \in Nat /\ x + (m.lo % 256) \in Nat
      /\ \/ (x + (n.lo % 256)) - (x + (m.lo % 256)) = w
         \/ (x + (m.lo % 256)) - (x + (n.lo % 256)) = w
  BY <1>1, <1>2 DEF Weights
<1>4. SeenBit(w)
  BY DEF SeenBit
<1>5. Fold(x + (n.lo % 256)) # Fold(x + (m.lo % 256))
  BY <1>3, <1>4, SeenIsFolded
<1> QED
  BY <1>5 DEF SumHeader, x

\* Both are what their bytes say.
LEMMA NumbersOf ==
  ASSUME NEW b, \A j \in 1 .. 8 : b[j] \in Nat /\ b[j] <= 255
  PROVE  /\ LenOf(b) \in Nat /\ NumberOf(b).hi \in Nat /\ NumberOf(b).lo \in Nat
         /\ NumberOf(b).lo % 256 = b[8]
<1>1. ASSUME NEW x \in Nat, NEW y \in Nat, y <= 255
      PROVE  x * 256 + y \in Nat /\ (x * 256 + y) % 256 = y
  <2>1. PICK z \in Nat : z = x * 256 + y
    OBVIOUS
  <2>2. PICK q, r \in Nat : z = 256 * q + r /\ r < 256 /\ r = z % 256
    BY Quotient
  <2>3. r = y
    BY <1>1, <2>1, <2>2
  <2> QED
    BY <2>1, <2>2, <2>3
<1>2. /\ b[3] \in Nat /\ b[4] \in Nat /\ b[5] \in Nat /\ b[6] \in Nat /\ b[7] \in Nat
      /\ b[8] \in Nat /\ b[4] <= 255 /\ b[6] <= 255 /\ b[8] <= 255
  OBVIOUS
<1>3. /\ b[3] * 256 + b[4] \in Nat /\ b[5] * 256 + b[6] \in Nat /\ b[7] * 256 + b[8] \in Nat
      /\ (b[7] * 256 + b[8]) % 256 = b[8]
  BY <1>1, <1>2
<1> QED
  BY <1>3 DEF LenOf, NumberOf

\* Two headers that differ in a bit that is summed have different sums.
LEMMA HeaderDetects ==
  ASSUME NEW b, NEW c, NEW i \in 3 .. 8, NEW w \in Weights,
         \A j \in 1 .. 8 : b[j] \in Nat /\ b[j] <= 255 /\ c[j] \in Nat /\ c[j] <= 255,
         \A j \in 1 .. 8 : j # i => c[j] = b[j],
         c[i] - b[i] = w \/ b[i] - c[i] = w,
         i # 7, i \in {3, 5} => w # 1
  PROVE  SumHeader(LenOf(b), NumberOf(b)) # SumHeader(LenOf(c), NumberOf(c))
<1>1. /\ LenOf(b) \in Nat /\ NumberOf(b).hi \in Nat /\ NumberOf(b).lo \in Nat
      /\ LenOf(b) = b[3] * 256 + b[4] /\ NumberOf(b).hi = b[5] * 256 + b[6]
      /\ NumberOf(b).lo % 256 = b[8]
  <2>1. /\ LenOf(b) \in Nat /\ NumberOf(b).hi \in Nat /\ NumberOf(b).lo \in Nat
        /\ NumberOf(b).lo % 256 = b[8]
    BY NumbersOf
  <2> QED
    BY <2>1 DEF LenOf, NumberOf
<1>2. /\ LenOf(c) \in Nat /\ NumberOf(c).hi \in Nat /\ NumberOf(c).lo \in Nat
      /\ LenOf(c) = c[3] * 256 + c[4] /\ NumberOf(c).hi = c[5] * 256 + c[6]
      /\ NumberOf(c).lo % 256 = c[8]
  <2>1. /\ LenOf(c) \in Nat /\ NumberOf(c).hi \in Nat /\ NumberOf(c).lo \in Nat
        /\ NumberOf(c).lo % 256 = c[8]
    BY NumbersOf
  <2> QED
    BY <2>1 DEF LenOf, NumberOf
<1>3. CASE i = 8
  <2>1. LenOf(b) = LenOf(c) /\ NumberOf(b).hi = NumberOf(c).hi
    BY <1>1, <1>2, <1>3
  <2>2. \/ (NumberOf(b).lo % 256) - (NumberOf(c).lo % 256) = w
        \/ (NumberOf(c).lo % 256) - (NumberOf(b).lo % 256) = w
    BY <1>1, <1>2, <1>3
  <2> QED
    BY <1>1, <1>2, <2>1, <2>2, LowByteDiffers
<1> DEFINE x == LenOf(b) + NumberOf(b).hi
           y == LenOf(c) + NumberOf(c).hi
<1>6. /\ x = b[3] * 256 + b[4] + (b[5] * 256 + b[6])
      /\ y = c[3] * 256 + c[4] + (c[5] * 256 + c[6])
      /\ x \in Nat /\ y \in Nat
  BY <1>1, <1>2
<1>4. ASSUME i # 8, NEW d, SeenBit(d), x - y = d \/ y - x = d
      PROVE  SumHeader(LenOf(b), NumberOf(b)) # SumHeader(LenOf(c), NumberOf(c))
  <2>1. NumberOf(b).lo % 256 = b[8] /\ NumberOf(c).lo % 256 = b[8] /\ b[8] \in Nat
    BY <1>1, <1>2, <1>4
  <2> HIDE DEF x, y
  <2>2. Fold(Fold(x) + b[8]) # Fold(Fold(y) + b[8])
    BY <1>4, <1>6, <2>1, HalfDiffers
  <2> QED
    BY <2>1, <2>2 DEF SumHeader, x, y
<1>5. w \in Nat /\ SeenBit(w) /\ (w # 1 => SeenBit(256 * w) /\ 256 * w \in Nat)
  BY DEF SeenBit, Weights
<1> HIDE DEF x, y
<1>7. /\ b[3] \in Nat /\ b[4] \in Nat /\ b[5] \in Nat /\ b[6] \in Nat
      /\ c[3] \in Nat /\ c[4] \in Nat /\ c[5] \in Nat /\ c[6] \in Nat
  OBVIOUS
<1>8. CASE i = 3
  <2>1. /\ b[4] = c[4] /\ b[5] = c[5] /\ b[6] = c[6] /\ w # 1
        /\ c[3] - b[3] = w \/ b[3] - c[3] = w
    BY <1>8
  <2>2. x - y = 256 * w \/ y - x = 256 * w
    <3> DEFINE r == b[4] + (b[5] * 256 + b[6])
    <3>1. r \in Nat /\ x = b[3] * 256 + r /\ y = c[3] * 256 + r
      BY <1>6, <1>7, <2>1
    <3> HIDE DEF r
    <3> QED
      BY <1>5, <1>7, <2>1, <3>1, UpperByte
  <2> QED
    BY <1>4, <1>5, <1>8, <2>1, <2>2
<1>9. CASE i = 4
  <2>1. /\ b[3] = c[3] /\ b[5] = c[5] /\ b[6] = c[6]
        /\ c[4] - b[4] = w \/ b[4] - c[4] = w
    BY <1>9
  <2>2. x - y = w \/ y - x = w
    BY <1>5, <1>6, <1>7, <2>1
  <2> QED
    BY <1>4, <1>5, <1>9, <2>2
<1>10. CASE i = 5
  <2>1. /\ b[3] = c[3] /\ b[4] = c[4] /\ b[6] = c[6] /\ w # 1
        /\ c[5] - b[5] = w \/ b[5] - c[5] = w
    BY <1>10
  <2>2. x - y = 256 * w \/ y - x = 256 * w
    <3> DEFINE r == b[3] * 256 + b[4] + b[6]
    <3>1. r \in Nat /\ x = b[5] * 256 + r /\ y = c[5] * 256 + r
      BY <1>6, <1>7, <2>1
    <3> HIDE DEF r
    <3> QED
      BY <1>5, <1>7, <2>1, <3>1, UpperByte
  <2> QED
    BY <1>4, <1>5, <1>10, <2>1, <2>2
<1>11. CASE i = 6
  <2>1. /\ b[3] = c[3] /\ b[4] = c[4] /\ b[5] = c[5]
        /\ c[6] - b[6] = w \/ b[6] - c[6] = w
    BY <1>11
  <2>2. x - y = w \/ y - x = w
    BY <1>5, <1>6, <1>7, <2>1
  <2> QED
    BY <1>4, <1>5, <1>11, <2>2
<1> QED
  BY <1>3, <1>8, <1>9, <1>10, <1>11

\* x is the sum s and a word.
WordAdded(x, s, low, high) == x = s + (low + 256 * high)

\* Words whose lower bytes differ in a bit leave different sums.
LEMMA LowerByteDiffers ==
  ASSUME NEW s, Folded(s), NEW u \in Nat, NEW v \in Nat, NEW r \in Nat, NEW w \in Weights,
         u - v = w \/ v - u = w,
         NEW x, NEW y, WordAdded(x, s, u, r), WordAdded(y, s, v, r)
  PROVE  Fold(x) # Fold(y)
<1>1. s \in Nat /\ w \in Nat
  BY DEF Folded, Weights
<1>2. x \in Nat /\ y \in Nat /\ (x - y = w \/ y - x = w)
  BY <1>1 DEF WordAdded
<1>3. SeenBit(w)
  BY DEF SeenBit
<1> QED
  BY <1>2, <1>3, SeenIsFolded

\* So do words whose upper bytes differ in a bit that is not bit 8.
LEMMA UpperByteDiffers ==
  ASSUME NEW s, Folded(s), NEW u \in Nat, NEW v \in Nat, NEW r \in Nat,
         NEW w \in Weights \ {1}, u - v = w \/ v - u = w,
         NEW x, NEW y, WordAdded(x, s, r, u), WordAdded(y, s, r, v)
  PROVE  Fold(x) # Fold(y)
<1>1. s \in Nat /\ w \in Nat
  BY DEF Folded, Weights
<1>2. x \in Nat /\ y \in Nat /\ s + r \in Nat
  BY <1>1 DEF WordAdded
<1>3. x = u * 256 + (s + r) /\ y = v * 256 + (s + r)
  BY <1>1 DEF WordAdded
<1>4. x - y = 256 * w \/ y - x = 256 * w
  BY <1>1, <1>2, <1>3, UpperByte
<1>5. SeenBit(256 * w)
  BY DEF SeenBit
<1> QED
  BY <1>2, <1>4, <1>5, SeenIsFolded

\* The same of the word j of two packets' data, which differ in the byte n.
LEMMA SumDiffers ==
  ASSUME NEW s, Folded(s), NEW d, NEW e, NEW j \in Nat, NEW n, NEW w \in Weights,
         n = 2 * j + 1 \/ (n = 2 * j + 2 /\ w # 1),
         \A i \in {2 * j + 1, 2 * j + 2} :
           d[i] \in Nat /\ e[i] \in Nat /\ (i # n => d[i] = e[i]),
         d[n] - e[n] = w \/ e[n] - d[n] = w
  PROVE  Fold(s + Word(d, j)) # Fold(s + Word(e, j))
<1>1. PICK u, v \in Nat : u = d[n] /\ v = e[n]
  OBVIOUS
<1>2. u - v = w \/ v - u = w
  BY <1>1
<1>3. CASE n = 2 * j + 1
  <2>1. PICK r \in Nat : r = d[2 * j + 2] /\ r = e[2 * j + 2]
    BY <1>3
  <2>2. PICK x, y : WordAdded(x, s, u, r) /\ WordAdded(y, s, v, r)
    BY DEF WordAdded
  <2>3. Fold(x) # Fold(y)
    BY <1>2, <2>2, LowerByteDiffers
  <2> QED
    BY <1>1, <1>3, <2>1, <2>2, <2>3 DEF Word, WordAdded
<1>4. CASE n = 2 * j + 2 /\ w # 1
  <2>1. PICK r \in Nat : r = d[2 * j + 1] /\ r = e[2 * j + 1]
    BY <1>4
  <2>2. PICK x, y : WordAdded(x, s, r, u) /\ WordAdded(y, s, r, v)
    BY DEF WordAdded
  <2>3. w \in Weights \ {1}
    BY <1>4
  <2>4. Fold(x) # Fold(y)
    BY <1>2, <2>2, <2>3, UpperByteDiffers
  <2> QED
    BY <1>1, <1>4, <2>1, <2>2, <2>4 DEF Word, WordAdded
<1> QED
  BY <1>3, <1>4

\* Each byte that is summed is in one of the words.
LEMMA WordOf ==
  ASSUME NEW n \in Nat, n >= 1, n <= 2 * WordsSummed
  PROVE  \E j \in Nat : j < WordsSummed /\ (n = 2 * j + 1 \/ n = 2 * j + 2)
<1>1. WordsSummed \in Nat
  BY DataSizeAssumption DEF WordsSummed
<1>2. PICK j, r \in Nat : n - 1 = 2 * j + r /\ r < 2
  <2>1. PICK m \in Nat : m = n - 1
    OBVIOUS
  <2>2. m = (2 * (m \div 2)) + (m % 2) /\ m \div 2 \in Nat /\ m % 2 \in Nat /\ m % 2 < 2
    BY Quotient
  <2> QED
    BY <2>1, <2>2
<1>3. j < WordsSummed /\ (n = 2 * j + 1 \/ n = 2 * j + 2)
  BY <1>1, <1>2
<1> QED
  BY <1>3

\* Packets that differ in a bit of their data that is summed, and is not bit 8
\* of its word, have different checksums.
LEMMA DataDetects ==
  ASSUME NEW p, NEW q, InRange(p), InRange(q),
         SumHeader(p.len, p.seqno) = SumHeader(q.len, q.seqno),
         NEW n \in 1 .. 2 * WordsSummed, NEW w \in Weights,
         \A i \in 1 .. PCK_DATA_SIZE : i # n => q.data[i] = p.data[i],
         q.data[n] - p.data[n] = w \/ p.data[n] - q.data[n] = w,
         n % 2 = 0 => w # 1
  PROVE  CalculateChecksum(p) # CalculateChecksum(q)
<1>1. WordsSummed \in Nat /\ PCK_DATA_SIZE \in Nat
  BY DataSizeAssumption DEF WordsSummed
<1>2. PICK j \in Nat : j < WordsSummed /\ (n = 2 * j + 1 \/ n = 2 * j + 2)
  <2>1. n \in Nat /\ n >= 1 /\ n <= 2 * WordsSummed
    BY <1>1
  <2> QED
    BY <2>1, WordOf
<1>3. PICK f : Sums(p, f) /\ CalculateChecksum(p) = f[WordsSummed]
  BY SumsAre
<1>4. PICK g : Sums(q, g) /\ CalculateChecksum(q) = g[WordsSummed]
  BY SumsAre
<1>5. \A i \in Nat : i < WordsSummed =>
        /\ 2 * i + 1 \in 1 .. PCK_DATA_SIZE /\ 2 * i + 2 \in 1 .. PCK_DATA_SIZE
        /\ p.data[2 * i + 1] \in Nat /\ p.data[2 * i + 2] \in Nat
        /\ q.data[2 * i + 1] \in Nat /\ q.data[2 * i + 2] \in Nat
        /\ Word(p.data, i) \in Nat
  BY WordsAre DEF InRange
<1>6. ASSUME NEW i \in Nat, i < WordsSummed, i # j
      PROVE  Word(p.data, i) = Word(q.data, i)
  <2>1. 2 * i + 1 # n /\ 2 * i + 2 # n
    BY <1>2, <1>6
  <2> QED
    BY <1>5, <1>6, <2>1 DEF Word
<1>7. f[j] = g[j]
  <2> DEFINE T == {i \in Nat : i <= j => f[i] = g[i]}
  <2>1. 0 \in T
    BY <1>3, <1>4 DEF Sums
  <2>2. ASSUME NEW i \in T PROVE i + 1 \in T
    <3> SUFFICES ASSUME i + 1 <= j PROVE f[i + 1] = g[i + 1]
      OBVIOUS
    <3>1. i \in Nat /\ i < WordsSummed /\ i # j /\ f[i] = g[i]
      BY <1>1, <1>2
    <3> QED
      BY <1>3, <1>4, <1>6, <3>1 DEF Sums
  <2> HIDE DEF T
  <2>3. T = Nat
    BY <2>1, <2>2, SetInduction DEF T
  <2> QED
    BY <2>3 DEF T
<1>8. f[j + 1] # g[j + 1]
  <2>1. /\ f[j + 1] = Fold(f[j] + Word(p.data, j))
        /\ g[j + 1] = Fold(f[j] + Word(q.data, j))
        /\ Folded(f[j])
    BY <1>1, <1>2, <1>3, <1>4, <1>7 DEF Sums
  <2>2. n = 2 * j + 1 \/ (n = 2 * j + 2 /\ w # 1)
    BY <1>2
  <2>3. \A i \in {2 * j + 1, 2 * j + 2} :
          /\ p.data[i] \in Nat /\ q.data[i] \in Nat
          /\ i # n => p.data[i] = q.data[i]
    BY <1>2, <1>5
  <2>4. Fold(f[j] + Word(p.data, j)) # Fold(f[j] + Word(q.data, j))
    BY <2>1, <2>2, <2>3, SumDiffers
  <2> QED
    BY <2>1, <2>4
<1>9. f[WordsSummed] # g[WordsSummed]
  <2>1. j + 1 \in Nat /\ j + 1 <= WordsSummed
    BY <1>1, <1>2
  <2>2. \A i \in Nat : j + 1 <= i /\ i < WordsSummed => Word(p.data, i) = Word(q.data, i)
    BY <1>2, <1>6
  <2> QED
    BY <1>3, <1>4, <1>8, <2>1, <2>2, DifferenceStays
<1> QED
  BY <1>3, <1>4, <1>9

\* A datagram that verifies no longer does when one bit of it changes, unless
\* it is one of those MayPass allows: whatever the datagram holds.
LEMMA DamageChangesSum ==
  ASSUME NEW b \in Seq(Byte), Len(b) = PCK_HEADER_SIZE + PCK_DATA_SIZE,
         NEW bit \in BitsOf(b), ~MayPass(bit), VerifyChecksum(DeserializePacket(b))
  PROVE  ~VerifyChecksum(DeserializePacket(Flip(b, bit)))
<1> DEFINE c == Flip(b, bit)
           i == bit[1]
           w == bit[2]
           p == DeserializePacket(b)
           q == DeserializePacket(c)
<1>1. PCK_DATA_SIZE \in Nat /\ Len(b) = 8 + PCK_DATA_SIZE /\ WordsSummed \in Nat
  BY DataSizeAssumption DEF PCK_HEADER_SIZE, WordsSummed
<1>2. /\ c \in Seq(Byte) /\ Len(c) = 8 + PCK_DATA_SIZE
      /\ i \in 1 .. 8 + PCK_DATA_SIZE /\ w \in Weights
      /\ \A j \in 1 .. 8 + PCK_DATA_SIZE : j # i => c[j] = b[j]
      /\ c[i] - b[i] = w \/ b[i] - c[i] = w
  BY <1>1, Flipped
<1>3. /\ p.check_sum = CheckSumOf(b) /\ p.len = LenOf(b) /\ p.seqno = NumberOf(b)
      /\ \A j \in 1 .. PCK_DATA_SIZE : p.data[j] = b[8 + j]
      /\ InRange(p)
  BY Deserialized DEF PCK_HEADER_SIZE
<1>4. /\ q.check_sum = CheckSumOf(c) /\ q.len = LenOf(c) /\ q.seqno = NumberOf(c)
      /\ \A j \in 1 .. PCK_DATA_SIZE : q.data[j] = c[8 + j]
      /\ InRange(q)
  <2>1. Len(c) = PCK_HEADER_SIZE + PCK_DATA_SIZE
    BY <1>2 DEF PCK_HEADER_SIZE
  <2> QED
    BY <1>2, <2>1, Deserialized DEF PCK_HEADER_SIZE
<1>5. \A j \in 1 .. 8 : b[j] \in Nat /\ b[j] <= 255 /\ c[j] \in Nat /\ c[j] <= 255
  <2>1. Len(b) >= 8 /\ Len(c) >= 8
    BY <1>1, <1>2
  <2> QED
    BY <1>2, <2>1, HeaderBytes
<1>6. /\ i # 7 /\ i <= 8 + 2 * WordsSummed /\ (i \in {3, 5} => w # 1)
      /\ (i > 8 /\ i % 2 = 0 => w # 1)
  BY <1>1, <1>2 DEF MayPass, NotSummed, HasBit8, PCK_HEADER_SIZE, WordsSummed
<1> HIDE DEF c, i, w, p, q
<1>7. \A j \in 1 .. 8 : j # i => c[j] = b[j]
  BY <1>1, <1>2
<1>8. p.check_sum = CalculateChecksum(p)
  BY DEF VerifyChecksum, p
<1>9. CASE i \in 1 .. 2
  <2>1. q.check_sum # p.check_sum
    <3>1. w \in Nat /\ w # 0
      BY <1>2 DEF Weights
    <3>2. b[1] \in Nat /\ b[2] \in Nat /\ c[1] \in Nat /\ c[2] \in Nat
      BY <1>5
    <3>3. CASE i = 1
      <4>1. c[2] = b[2] /\ c[1] # b[1]
        BY <1>2, <1>7, <3>1, <3>2, <3>3
      <4> QED
        BY <1>3, <1>4, <3>2, <4>1 DEF CheckSumOf
    <3>4. CASE i = 2
      <4>1. c[1] = b[1] /\ c[2] # b[2]
        BY <1>2, <1>7, <3>1, <3>2, <3>4
      <4> QED
        BY <1>3, <1>4, <3>2, <4>1 DEF CheckSumOf
    <3> QED
      BY <1>9, <3>3, <3>4
  <2>2. LenOf(b) = LenOf(c) /\ NumberOf(b) = NumberOf(c)
    BY <1>7, <1>9 DEF LenOf, NumberOf
  <2>3. \A j \in Nat : j < WordsSummed => Word(p.data, j) = Word(q.data, j)
    <3>1. \A j \in 1 .. PCK_DATA_SIZE : p.data[j] = q.data[j]
      BY <1>1, <1>2, <1>3, <1>4, <1>9
    <3>2. \A j \in Nat : j < WordsSummed =>
            2 * j + 1 \in 1 .. PCK_DATA_SIZE /\ 2 * j + 2 \in 1 .. PCK_DATA_SIZE
      BY <1>3, WordsAre DEF InRange
    <3> QED
      BY <3>1, <3>2 DEF Word
  <2>4. CalculateChecksum(p) = CalculateChecksum(q)
    BY <1>3, <1>4, <2>2, <2>3, SameSum
  <2> QED
    BY <1>8, <2>1, <2>4 DEF VerifyChecksum, q, c
<1>10. CASE i \in 3 .. 8
  <2>1. SumHeader(LenOf(b), NumberOf(b)) # SumHeader(LenOf(c), NumberOf(c))
    BY <1>2, <1>5, <1>6, <1>7, <1>10, HeaderDetects
  <2>2. \A j \in Nat : j < WordsSummed => Word(p.data, j) = Word(q.data, j)
    <3>1. \A j \in 1 .. PCK_DATA_SIZE : p.data[j] = q.data[j]
      BY <1>1, <1>2, <1>3, <1>4, <1>10
    <3>2. \A j \in Nat : j < WordsSummed =>
            2 * j + 1 \in 1 .. PCK_DATA_SIZE /\ 2 * j + 2 \in 1 .. PCK_DATA_SIZE
      BY <1>3, WordsAre DEF InRange
    <3> QED
      BY <3>1, <3>2 DEF Word
  <2>3. PICK f : Sums(p, f) /\ CalculateChecksum(p) = f[WordsSummed]
    BY <1>3, SumsAre
  <2>4. PICK g : Sums(q, g) /\ CalculateChecksum(q) = g[WordsSummed]
    BY <1>4, SumsAre
  <2>5. f[0] # g[0]
    BY <1>3, <1>4, <2>1, <2>3, <2>4 DEF Sums
  <2>6. f[WordsSummed] # g[WordsSummed]
    BY <1>1, <1>3, <1>4, <2>2, <2>3, <2>4, <2>5, DifferenceStays
  <2>7. q.check_sum = p.check_sum
    BY <1>3, <1>4, <1>7, <1>10 DEF CheckSumOf
  <2> QED
    BY <1>8, <2>3, <2>4, <2>6, <2>7 DEF VerifyChecksum, q, c
<1>11. CASE i > 8
  <2> DEFINE n == i - 8
  <2>1. n \in 1 .. 2 * WordsSummed /\ n \in 1 .. PCK_DATA_SIZE /\ i = 8 + n
    BY <1>1, <1>2, <1>6, <1>11
  <2>2. LenOf(b) = LenOf(c) /\ NumberOf(b) = NumberOf(c) /\ q.check_sum = p.check_sum
    BY <1>3, <1>4, <1>7, <1>11 DEF CheckSumOf, LenOf, NumberOf
  <2>3. ASSUME NEW j \in 1 .. PCK_DATA_SIZE, j # n PROVE q.data[j] = p.data[j]
    <3>1. 8 + j \in 1 .. 8 + PCK_DATA_SIZE /\ 8 + j # i
      BY <1>1, <2>1, <2>3
    <3>2. c[8 + j] = b[8 + j]
      BY <1>2, <3>1
    <3> QED
      BY <1>3, <1>4, <3>2
  <2>4. q.data[n] - p.data[n] = w \/ p.data[n] - q.data[n] = w
    BY <1>2, <1>3, <1>4, <2>1
  <2>5. n % 2 = 0 => w # 1
    BY <1>6, <1>11, <2>1
  <2> HIDE DEF n
  <2>6. CalculateChecksum(p) # CalculateChecksum(q)
    BY <1>2, <1>3, <1>4, <2>1, <2>2, <2>3, <2>4, <2>5, DataDetects
  <2> QED
    BY <1>8, <2>2, <2>6 DEF VerifyChecksum, q, c
<1> QED
  BY <1>2, <1>9, <1>10, <1>11 DEF c, q

\* The checksum of an acknowledgement is the sum of its header.
LEMMA AckSumIs ==
  ASSUME NEW pack, pack.len \in Nat, pack.ackno.hi \in Nat, pack.ackno.lo \in Nat
  PROVE  /\ CalculateChecksumAck(pack) = SumHeader(pack.len, pack.ackno)
         /\ CalculateChecksumAck(pack) \in Uint16
<1>1. Folded(SumHeader(pack.len, pack.ackno)) /\ SumHeader(pack.len, pack.ackno) \in Nat
  BY HeaderIs
<1>2. PICK s \in Nat : s = SumHeader(pack.len, pack.ackno) /\ Folded(s)
  BY <1>1
<1>3. s % 65536 = s /\ s \in Uint16
  BY <1>2, Uint16Is DEF Folded, Remainders
<1> QED
  BY <1>2, <1>3 DEF CalculateChecksumAck

\* The same for an acknowledgement.
LEMMA AckDamageChangesSum ==
  ASSUME NEW b \in Seq(Byte), Len(b) = PCK_HEADER_SIZE,
         NEW bit \in BitsOf(b), ~MayPass(bit), VerifyChecksumAck(DeserializeAckPacket(b))
  PROVE  ~VerifyChecksumAck(DeserializeAckPacket(Flip(b, bit)))
<1> DEFINE c == Flip(b, bit)
           i == bit[1]
           w == bit[2]
           p == DeserializeAckPacket(b)
           q == DeserializeAckPacket(c)
<1>1. Len(b) = 8 /\ Len(b) >= 8
  BY DEF PCK_HEADER_SIZE
<1>2. /\ c \in Seq(Byte) /\ Len(c) = 8 /\ Len(c) >= 8
      /\ i \in 1 .. 8 /\ w \in Weights
      /\ \A j \in 1 .. 8 : j # i => c[j] = b[j]
      /\ c[i] - b[i] = w \/ b[i] - c[i] = w
  BY <1>1, Flipped
<1>3. p.cksum = CheckSumOf(b) /\ p.len = LenOf(b) /\ p.ackno = NumberOf(b)
  BY DeserializedAck
<1>4. q.cksum = CheckSumOf(c) /\ q.len = LenOf(c) /\ q.ackno = NumberOf(c)
  <2>1. Len(c) = PCK_HEADER_SIZE
    BY <1>2 DEF PCK_HEADER_SIZE
  <2> QED
    BY <1>2, <2>1, DeserializedAck
<1>5. \A j \in 1 .. 8 : b[j] \in Nat /\ b[j] <= 255 /\ c[j] \in Nat /\ c[j] <= 255
  BY <1>1, <1>2, HeaderBytes
<1>6. i # 7 /\ (i \in {3, 5} => w # 1)
  BY <1>1, <1>2 DEF MayPass, NotSummed, HasBit8, PCK_HEADER_SIZE, WordsSummed
<1> HIDE DEF c, i, w, p, q
<1>7. /\ CalculateChecksumAck(p) = SumHeader(LenOf(b), NumberOf(b))
      /\ CalculateChecksumAck(q) = SumHeader(LenOf(c), NumberOf(c))
  <2>1. LenOf(b) \in Nat /\ NumberOf(b).hi \in Nat /\ NumberOf(b).lo \in Nat
    <3>1. \A j \in 1 .. 8 : b[j] \in Nat /\ b[j] <= 255
      BY <1>5
    <3> QED
      BY <3>1, NumbersOf
  <2>2. LenOf(c) \in Nat /\ NumberOf(c).hi \in Nat /\ NumberOf(c).lo \in Nat
    <3>1. \A j \in 1 .. 8 : c[j] \in Nat /\ c[j] <= 255
      BY <1>5
    <3> QED
      BY <3>1, NumbersOf
  <2> QED
    BY <1>3, <1>4, <2>1, <2>2, AckSumIs
<1>8. p.cksum = CalculateChecksumAck(p)
  BY DEF VerifyChecksumAck, p
<1>9. CASE i \in 1 .. 2
  <2>1. q.cksum # p.cksum
    <3>1. w \in Nat /\ w # 0
      BY <1>2 DEF Weights
    <3>2. b[1] \in Nat /\ b[2] \in Nat /\ c[1] \in Nat /\ c[2] \in Nat
      BY <1>5
    <3>3. CASE i = 1
      <4>1. c[2] = b[2] /\ c[1] # b[1]
        BY <1>2, <3>1, <3>2, <3>3
      <4> QED
        BY <1>3, <1>4, <3>2, <4>1 DEF CheckSumOf
    <3>4. CASE i = 2
      <4>1. c[1] = b[1] /\ c[2] # b[2]
        BY <1>2, <3>1, <3>2, <3>4
      <4> QED
        BY <1>3, <1>4, <3>2, <4>1 DEF CheckSumOf
    <3> QED
      BY <1>9, <3>3, <3>4
  <2>2. LenOf(b) = LenOf(c) /\ NumberOf(b) = NumberOf(c)
    BY <1>2, <1>9 DEF LenOf, NumberOf
  <2> QED
    BY <1>7, <1>8, <2>1, <2>2 DEF VerifyChecksumAck, q, c
<1>10. CASE i \in 3 .. 8
  <2>1. SumHeader(LenOf(b), NumberOf(b)) # SumHeader(LenOf(c), NumberOf(c))
    BY <1>2, <1>5, <1>6, <1>10, HeaderDetects
  <2>2. q.cksum = p.cksum
    BY <1>2, <1>3, <1>4, <1>10 DEF CheckSumOf
  <2> QED
    BY <1>7, <1>8, <2>1, <2>2 DEF VerifyChecksumAck, q, c
<1> QED
  BY <1>2, <1>9, <1>10 DEF c, q

-----------------------------------------------------------------------------
(* Packets as they are made.                                                *)

\* A buffer keeps the bytes copied to it.
LEMMA PaddedIs ==
  ASSUME NEW bytes \in Seq(Byte), Len(bytes) <= PCK_DATA_SIZE
  PROVE  /\ Padded(bytes) \in Seq(Byte) /\ Len(Padded(bytes)) = PCK_DATA_SIZE
         /\ SubSeq(Padded(bytes), 1, Len(bytes)) = bytes
<1>1. PCK_DATA_SIZE \in Nat /\ Len(bytes) \in Nat
  BY DataSizeAssumption
<1>2. \A i \in 1 .. PCK_DATA_SIZE :
        (IF i <= Len(bytes) THEN bytes[i] ELSE 0) \in Byte
  BY <1>1, ByteIs
<1>3. Padded(bytes) \in Seq(Byte) /\ Len(Padded(bytes)) = PCK_DATA_SIZE
  BY <1>1, <1>2 DEF Padded
<1>4. \A i \in 1 .. Len(bytes) : Padded(bytes)[i] = bytes[i]
  BY <1>1 DEF Padded
<1>5. /\ SubSeq(Padded(bytes), 1, Len(bytes)) \in Seq(Byte)
      /\ Len(SubSeq(Padded(bytes), 1, Len(bytes))) = Len(bytes)
      /\ \A i \in 1 .. Len(bytes) : SubSeq(Padded(bytes), 1, Len(bytes))[i] = Padded(bytes)[i]
  BY <1>1, <1>3, FirstEntries
<1>6. SubSeq(Padded(bytes), 1, Len(bytes)) = bytes
  BY <1>4, <1>5, SeqEqual
<1> QED
  BY <1>3, <1>6

\* What create_data_packet makes of bytes that fit: a packet that verifies, and
\* from which extract_pure_data takes the same bytes.
LEMMA PacketMade ==
  ASSUME NEW bytes \in Seq(Byte), Len(bytes) <= PCK_DATA_SIZE,
         NEW n \in Nat, ToUint32(n) \in Uint32
  PROVE  LET pack == CreateDataPacket(CoreData(bytes), n)
         IN  /\ pack \in WirePacket /\ Len(pack.data) = PCK_DATA_SIZE
             /\ pack.len = PCK_HEADER_SIZE + Len(bytes) /\ pack.seqno = ToUint32(n)
             /\ VerifyChecksum(pack)
             /\ PureData(pack) = bytes /\ ExtractPureData(pack) = CoreData(bytes)
<1> DEFINE len == PCK_HEADER_SIZE + Len(bytes)
           d == Padded(bytes)
           p0 == [check_sum |-> 0, len |-> len, seqno |-> ToUint32(n), data |-> d]
           c == CalculateChecksum(p0)
           p == [check_sum |-> c, len |-> len, seqno |-> ToUint32(n), data |-> d]
<1>1. CreateDataPacket(CoreData(bytes), n) = p
  BY DEF CreateDataPacket, CoreData
<1>2. /\ d \in Seq(Byte) /\ Len(d) = PCK_DATA_SIZE
      /\ SubSeq(d, 1, Len(bytes)) = bytes
  BY PaddedIs
<1>3. len \in Uint16 /\ len - PCK_HEADER_SIZE = Len(bytes)
  <2>1. UINT16_MAX = 65535
    BY DEF UINT16_MAX
  <2>2. len \in Nat /\ len <= UINT16_MAX /\ len - PCK_HEADER_SIZE = Len(bytes)
    BY DataSizeAssumption DEF PCK_HEADER_SIZE, UINT16_MAX
  <2> QED
    BY <2>1, <2>2, Uint16Is
<1> HIDE DEF d, len
<1>4. InRange(p0)
  BY <1>2, <1>3 DEF InRange
<1>5. c \in Uint16
  BY <1>4, SumsAre
<1> HIDE DEF c
<1>6. InRange(p) /\ p \in WirePacket
  BY <1>2, <1>3, <1>5 DEF InRange, WirePacket
<1>7. p.len = p0.len /\ p.seqno = p0.seqno /\ p.data = p0.data
  OBVIOUS
<1> HIDE DEF p, p0
<1>8. CalculateChecksum(p) = CalculateChecksum(p0)
  BY <1>4, <1>6, <1>7, SameSum
<1>9. VerifyChecksum(p)
  BY <1>8 DEF VerifyChecksum, c, p
<1>10. p.len = len /\ p.seqno = ToUint32(n) /\ p.data = d
  BY DEF p
<1>11. PureData(p) = bytes
  BY <1>2, <1>3, <1>10 DEF PureData
<1> QED
  BY <1>1, <1>2, <1>6, <1>9, <1>10, <1>11 DEF ExtractPureData, len

\* What create_ack_packet makes.
LEMMA AckMade ==
  ASSUME NEW n \in Nat, ToUint32(n) \in Uint32
  PROVE  LET pack == CreateAckPacket(n)
         IN  pack \in AckPacket /\ pack.ackno = ToUint32(n) /\ VerifyChecksumAck(pack)
<1> DEFINE p0 == [cksum |-> 0, len |-> PCK_HEADER_SIZE, ackno |-> ToUint32(n)]
           c == CalculateChecksumAck(p0)
           p == [cksum |-> c, len |-> PCK_HEADER_SIZE, ackno |-> ToUint32(n)]
<1>1. CreateAckPacket(n) = p
  BY DEF CreateAckPacket
<1>2. PCK_HEADER_SIZE \in Nat /\ PCK_HEADER_SIZE \in Uint16
  BY Uint16Is DEF PCK_HEADER_SIZE
<1>3. ToUint32(n).hi \in Nat /\ ToUint32(n).lo \in Nat
  BY Uint32Range
<1>4. /\ p0.len \in Nat /\ p0.ackno.hi \in Nat /\ p0.ackno.lo \in Nat
      /\ p.len = p0.len /\ p.ackno = p0.ackno /\ p.ackno = ToUint32(n) /\ p.cksum = c
  BY <1>2, <1>3
<1> HIDE DEF c
<1>5. c \in Uint16 /\ CalculateChecksumAck(p0) = SumHeader(p0.len, p0.ackno)
  BY <1>4, AckSumIs DEF c
<1>6. p \in AckPacket
  BY <1>2, <1>5 DEF AckPacket
<1> HIDE DEF p, p0
<1>7. CalculateChecksumAck(p) = SumHeader(p.len, p.ackno)
  BY <1>4, AckSumIs
<1>8. VerifyChecksumAck(p)
  BY <1>4, <1>5, <1>7 DEF VerifyChecksumAck, c
<1> QED
  BY <1>1, <1>4, <1>6, <1>8

\* Packets that verify are protected as far as DetectedInData says.
LEMMA DataIsGuarded ==
  ASSUME NEW pack \in WirePacket, Len(pack.data) = PCK_DATA_SIZE, VerifyChecksum(pack)
  PROVE  DetectedInData(pack)
<1>1. InRange(pack) /\ pack.check_sum \in Uint16
  BY DEF InRange, WirePacket
<1> DEFINE b == SerializePacket(pack)
<1>2. b \in Seq(Byte) /\ Len(b) = PCK_HEADER_SIZE + PCK_DATA_SIZE
  BY <1>1, Serialized
<1>3. VerifyChecksum(DeserializePacket(b))
  BY RoundTrip
<1> HIDE DEF b
<1>4. \A bit \in BitsOf(b) :
        VerifyChecksum(DeserializePacket(Flip(b, bit))) => MayPass(bit)
  BY <1>2, <1>3, DamageChangesSum
<1> QED
  BY <1>4 DEF DetectedInData, b

\* Acknowledgements are as far as DetectedInAck says.
LEMMA AckIsGuarded ==
  ASSUME NEW pack \in AckPacket, VerifyChecksumAck(pack)
  PROVE  DetectedInAck(pack)
<1> DEFINE b == SerializeAckPacket(pack)
<1>2. b \in Seq(Byte) /\ Len(b) = PCK_HEADER_SIZE
  BY SerializedAck
<1>3. VerifyChecksumAck(DeserializeAckPacket(b))
  BY AckRoundTrip
<1> HIDE DEF b
<1>4. \A bit \in BitsOf(b) :
        VerifyChecksumAck(DeserializeAckPacket(Flip(b, bit))) => MayPass(bit)
  BY <1>2, <1>3, AckDamageChangesSum
<1> QED
  BY <1>4 DEF DetectedInAck, b

\* What gets through damaged has the lowest byte of the number that was sent.
\* Not so the length: the sum does not see bit 8 of it.
LEMMA PassesWithFields ==
  ASSUME NEW pack \in WirePacket, Len(pack.data) = PCK_DATA_SIZE, VerifyChecksum(pack),
         NEW bit \in BitsOf(SerializePacket(pack)),
         VerifyChecksum(DeserializePacket(Flip(SerializePacket(pack), bit)))
  PROVE  LET q == DeserializePacket(Flip(SerializePacket(pack), bit))
         IN  /\ q.len \in Nat /\ q.seqno.lo % 256 = pack.seqno.lo % 256
             /\ q.data \in Seq(Byte) /\ Len(q.data) = PCK_DATA_SIZE
<1> DEFINE b == SerializePacket(pack)
           c == Flip(b, bit)
<1>1. InRange(pack) /\ pack.check_sum \in Uint16
  BY DEF InRange, WirePacket
<1>2. /\ b \in Seq(Byte) /\ Len(b) = PCK_HEADER_SIZE + PCK_DATA_SIZE
      /\ DeserializePacket(b) = pack
  BY <1>1, Serialized, RoundTrip
<1>3. MayPass(bit)
  BY DataIsGuarded DEF DetectedInData
<1> HIDE DEF b
<1>4. /\ c \in Seq(Byte) /\ Len(c) = PCK_HEADER_SIZE + PCK_DATA_SIZE
      /\ \A j \in 1 .. Len(b) : j # bit[1] => c[j] = b[j]
  BY <1>2, Flipped DEF b, BitsOf
<1>5. bit[1] # 8
  BY <1>3, DataSizeAssumption DEF MayPass, NotSummed, HasBit8, PCK_HEADER_SIZE, WordsSummed
<1>6. c[8] = b[8]
  BY <1>2, <1>4, <1>5, DataSizeAssumption DEF PCK_HEADER_SIZE
<1> HIDE DEF c
<1>7. /\ DeserializePacket(c).seqno = NumberOf(c)
      /\ DeserializePacket(c).len \in Nat
      /\ DeserializePacket(c).data \in Seq(Byte)
      /\ Len(DeserializePacket(c).data) = PCK_DATA_SIZE
  BY <1>4, Deserialized, Uint16Is DEF InRange
<1>8. pack.seqno = NumberOf(b)
  BY <1>2, Deserialized
<1>9. Len(b) >= 8 /\ Len(c) >= 8
  BY <1>2, <1>4, DataSizeAssumption DEF PCK_HEADER_SIZE
<1>10. NumberOf(b).lo % 256 = b[8] /\ NumberOf(c).lo % 256 = c[8]
  <2>1. \A j \in 1 .. 8 : b[j] \in Nat /\ b[j] <= 255 /\ c[j] \in Nat /\ c[j] <= 255
    BY <1>2, <1>4, <1>9, HeaderBytes
  <2> QED
    BY <2>1, NumbersOf
<1> QED
  BY <1>6, <1>7, <1>8, <1>10 DEF b, c

\* It has the length that was sent, unless bit 8 of that was changed.
LEMMA PassesWithLength ==
  ASSUME NEW pack \in WirePacket, Len(pack.data) = PCK_DATA_SIZE, VerifyChecksum(pack),
         NEW bit \in BitsOf(SerializePacket(pack)), bit # <<3, 1>>,
         VerifyChecksum(DeserializePacket(Flip(SerializePacket(pack), bit)))
  PROVE  DeserializePacket(Flip(SerializePacket(pack), bit)).len = pack.len
<1> DEFINE b == SerializePacket(pack)
           c == Flip(b, bit)
<1>1. InRange(pack) /\ pack.check_sum \in Uint16
  BY DEF InRange, WirePacket
<1>2. /\ b \in Seq(Byte) /\ Len(b) = PCK_HEADER_SIZE + PCK_DATA_SIZE
      /\ DeserializePacket(b) = pack
  BY <1>1, Serialized, RoundTrip
<1>3. MayPass(bit)
  BY DataIsGuarded DEF DetectedInData
<1> HIDE DEF b
<1>4. /\ c \in Seq(Byte) /\ Len(c) = PCK_HEADER_SIZE + PCK_DATA_SIZE
      /\ \A j \in 1 .. Len(b) : j # bit[1] => c[j] = b[j]
      /\ bit = <<bit[1], bit[2]>>
  BY <1>2, Flipped DEF b, BitsOf
<1>5. bit[1] \notin {3, 4}
  BY <1>3, <1>4, DataSizeAssumption DEF MayPass, NotSummed, HasBit8, PCK_HEADER_SIZE, WordsSummed
<1>6. c[3] = b[3] /\ c[4] = b[4]
  BY <1>2, <1>4, <1>5, DataSizeAssumption DEF PCK_HEADER_SIZE
<1> HIDE DEF c
<1>7. DeserializePacket(c).len = LenOf(c) /\ pack.len = LenOf(b)
  BY <1>2, <1>4, Deserialized
<1> QED
  BY <1>6, <1>7 DEF LenOf, b, c

\* An acknowledgement that gets through has the lowest byte of its number.
LEMMA AckPassesWithFields ==
  ASSUME NEW pack \in AckPacket, VerifyChecksumAck(pack),
         NEW bit \in BitsOf(SerializeAckPacket(pack)),
         VerifyChecksumAck(DeserializeAckPacket(Flip(SerializeAckPacket(pack), bit)))
  PROVE  LET q == DeserializeAckPacket(Flip(SerializeAckPacket(pack), bit))
         IN  q.ackno.lo % 256 = pack.ackno.lo % 256
<1> DEFINE b == SerializeAckPacket(pack)
           c == Flip(b, bit)
<1>2. /\ b \in Seq(Byte) /\ Len(b) = PCK_HEADER_SIZE
      /\ DeserializeAckPacket(b) = pack
  BY SerializedAck, AckRoundTrip
<1>3. MayPass(bit)
  BY AckIsGuarded DEF DetectedInAck
<1> HIDE DEF b
<1>4. /\ c \in Seq(Byte) /\ Len(c) = PCK_HEADER_SIZE
      /\ \A j \in 1 .. Len(b) : j # bit[1] => c[j] = b[j]
  BY <1>2, Flipped DEF b, BitsOf
<1>5. bit[1] # 8
  BY <1>3, DataSizeAssumption DEF MayPass, NotSummed, HasBit8, PCK_HEADER_SIZE, WordsSummed
<1>6. c[8] = b[8]
  BY <1>2, <1>4, <1>5 DEF PCK_HEADER_SIZE
<1> HIDE DEF c
<1>7. DeserializeAckPacket(c).ackno = NumberOf(c) /\ pack.ackno = NumberOf(b)
  BY <1>2, <1>4, DeserializedAck
<1>9. Len(b) >= 8 /\ Len(c) >= 8
  BY <1>2, <1>4 DEF PCK_HEADER_SIZE
<1>10. NumberOf(b).lo % 256 = b[8] /\ NumberOf(c).lo % 256 = c[8]
  <2>1. \A j \in 1 .. 8 : b[j] \in Nat /\ b[j] <= 255 /\ c[j] \in Nat /\ c[j] <= 255
    BY <1>2, <1>4, <1>9, HeaderBytes
  <2> QED
    BY <2>1, NumbersOf
<1> QED
  BY <1>6, <1>7, <1>10 DEF b, c

-----------------------------------------------------------------------------
(* The file in segments.                                                    *)

\* The smaller of two numbers.
LEMMA LeastOf ==
  ASSUME NEW a \in Int, NEW b \in Int
  PROVE  Min({a, b}) = IF a <= b THEN a ELSE b
<1> DEFINE m == IF a <= b THEN a ELSE b
<1>1. m \in {a, b} /\ \A y \in {a, b} : m <= y
  OBVIOUS
<1>2. ASSUME NEW x \in {a, b}, \A y \in {a, b} : x <= y
      PROVE  x = m
  BY <1>2
<1> HIDE DEF m
<1>3. m = CHOOSE x \in {a, b} : \A y \in {a, b} : x <= y
  BY <1>1, <1>2
<1> QED
  BY <1>3 DEF Min, m

\* The number of segments of a file.
Count(f) == (Len(f) + PCK_DATA_SIZE - 1) \div PCK_DATA_SIZE

\* Segment n, counted from 0, begins inside the file, or there is none.
LEMMA CountIs ==
  ASSUME NEW f \in Seq(Byte)
  PROVE  /\ Count(f) \in Nat /\ Len(Segments(f)) = Count(f)
         /\ \A n \in Nat : n < Count(f) <=> n * PCK_DATA_SIZE < Len(f)
<1> DEFINE N == Count(f)
           P == PCK_DATA_SIZE
<1>1. P \in Nat \ {0} /\ Len(f) \in Nat /\ Len(f) + P - 1 \in Nat
  BY DataSizeAssumption
<1>2. N \in Nat
  BY <1>1, Quotient DEF Count
<1>3. PICK r \in Nat : r < P /\ Len(f) + P - 1 = P * N + r
  <2>1. PICK x \in Nat : x = Len(f) + P - 1
    BY <1>1
  <2>2. x = (P * (x \div P)) + (x % P) /\ x % P \in Nat /\ x % P < P
    BY <1>1, Quotient
  <2> QED
    BY <2>1, <2>2 DEF Count
<1>4. Len(Segments(f)) = N
  BY <1>2 DEF Segments, Count
<1> HIDE DEF N, P
<1>5. P * N = N * P /\ N * P \in Nat
  BY <1>1, <1>2
<1>6. ASSUME NEW n \in Nat, n < N
      PROVE  n * P < Len(f)
  <2>1. n + 1 <= N /\ n + 1 \in Nat
    BY <1>2, <1>6
  <2>2. (n + 1) * P <= N * P
    BY <1>1, <1>2, <2>1, Monotone
  <2>3. (n + 1) * P = n * P + P /\ n * P \in Nat
    BY <1>1
  <2> QED
    BY <1>1, <1>3, <1>5, <2>2, <2>3
<1>7. ASSUME NEW n \in Nat, ~(n < N)
      PROVE  ~(n * P < Len(f))
  <2>1. N <= n
    BY <1>2, <1>7
  <2>2. N * P <= n * P /\ n * P \in Nat
    BY <1>1, <1>2, <2>1, Monotone
  <2> QED
    BY <1>1, <1>3, <1>5, <2>2
<1> QED
  BY <1>2, <1>4, <1>6, <1>7 DEF N, P

\* The bytes of the first n segments, and of one more.
LEMMA BytesGrow ==
  ASSUME NEW f \in Seq(Byte), NEW n \in Nat
  PROVE  /\ BytesIn(f, n) \in 0 .. Len(f)
         /\ n < Count(f) <=> BytesIn(f, n) < Len(f)
         /\ n < Count(f) => BytesIn(f, n) = n * PCK_DATA_SIZE
         /\ ~(n < Count(f)) => BytesIn(f, n) = Len(f)
         /\ BytesIn(f, n + 1) =
              IF Len(f) - BytesIn(f, n) > PCK_DATA_SIZE
              THEN BytesIn(f, n) + PCK_DATA_SIZE ELSE Len(f)
<1> DEFINE P == PCK_DATA_SIZE
<1>1. P \in Nat \ {0} /\ Len(f) \in Nat
  BY DataSizeAssumption
<1> HIDE DEF P
<1>2. n * P \in Nat /\ (n + 1) * P = n * P + P
  BY <1>1
<1>3. PICK m, k \in Nat : m = n * P /\ k = (n + 1) * P /\ k = m + P
  BY <1>1, <1>2
<1>4. /\ BytesIn(f, n) = IF m <= Len(f) THEN m ELSE Len(f)
      /\ BytesIn(f, n + 1) = IF k <= Len(f) THEN k ELSE Len(f)
  BY <1>1, <1>3, LeastOf DEF BytesIn, P
<1>5. n < Count(f) <=> m < Len(f)
  BY <1>3, CountIs DEF P
<1> QED
  BY <1>1, <1>3, <1>4, <1>5 DEF P

\* Segment n lies between those two marks; past the last one it is empty.
LEMMA SegmentIs ==
  ASSUME NEW f \in Seq(Byte), NEW n \in Nat
  PROVE  LET s == SubSeq(f, BytesIn(f, n) + 1, BytesIn(f, n + 1))
         IN  /\ s \in Seq(Byte) /\ Len(s) = BytesIn(f, n + 1) - BytesIn(f, n)
             /\ Len(s) <= PCK_DATA_SIZE
             /\ s = <<>> <=> n >= Count(f)
             /\ s = SegmentAt(f, n)
<1> DEFINE a == BytesIn(f, n)
           b == BytesIn(f, n + 1)
           s == SubSeq(f, a + 1, b)
<1>1. /\ a \in 0 .. Len(f)
      /\ n < Count(f) <=> a < Len(f)
      /\ b = IF Len(f) - a > PCK_DATA_SIZE THEN a + PCK_DATA_SIZE ELSE Len(f)
  BY BytesGrow
<1>2. n < Count(f) => a = n * PCK_DATA_SIZE
  BY BytesGrow
<1>3. Count(f) \in Nat /\ Len(Segments(f)) = Count(f)
  BY CountIs
<1>4. n < Count(f) => Segments(f)[n + 1] = s
  <2> SUFFICES ASSUME n < Count(f) PROVE Segments(f)[n + 1] = s
    OBVIOUS
  <2>1. n + 1 \in 1 .. Count(f) /\ (n + 1) - 1 = n
    BY <1>3
  <2>2. Segments(f)[n + 1] =
          SubSeq(f, ((n + 1) - 1) * PCK_DATA_SIZE + 1,
                 Min({(n + 1) * PCK_DATA_SIZE, Len(f)}))
    BY <2>1 DEF Segments, Count
  <2>3. a = n * PCK_DATA_SIZE
    BY <1>2
  <2> QED
    BY <2>1, <2>2, <2>3 DEF BytesIn
<1> HIDE DEF a, b
<1>5. PCK_DATA_SIZE \in Nat \ {0} /\ Len(f) \in Nat
  BY DataSizeAssumption
<1>6. a + 1 \in 1 .. Len(f) + 1 /\ b \in 0 .. Len(f) /\ a <= b /\ b - a <= PCK_DATA_SIZE
  BY <1>1, <1>5
<1>7. s \in Seq(Byte) /\ Len(s) = b - a
  <2>1. a + 1 <= b + 1 /\ b - (a + 1) + 1 = b - a
    BY <1>1, <1>5, <1>6
  <2>2. s \in Seq(Byte) /\ Len(s) = b - (a + 1) + 1
    BY <1>6, <2>1, Piece
  <2> QED
    BY <2>1, <2>2
<1> HIDE DEF s
<1>8. s = <<>> <=> n >= Count(f)
  <2>1. b - a = 0 <=> ~(a < Len(f))
    BY <1>1, <1>5, <1>6
  <2>2. s = <<>> <=> Len(s) = 0
    BY <1>7
  <2> QED
    BY <1>1, <1>3, <1>7, <2>1, <2>2
<1>9. s = SegmentAt(f, n)
  BY <1>3, <1>4, <1>8 DEF SegmentAt
<1> QED
  <2>1. s \in Seq(Byte) /\ Len(s) = b - a /\ Len(s) <= PCK_DATA_SIZE
    BY <1>6, <1>7
  <2> QED
    BY <1>8, <1>9, <2>1 DEF s, a, b

\* The same of Segments as the specification counts them.
LEMMA SegmentBounds ==
  ASSUME NEW f \in Seq(Byte), NEW n \in Nat
  PROVE  /\ SegmentAt(f, n) \in Seq(Byte) /\ Len(SegmentAt(f, n)) <= PCK_DATA_SIZE
         /\ SegmentAt(f, n) = SubSeq(f, BytesIn(f, n) + 1, BytesIn(f, n + 1))
         /\ Len(SegmentAt(f, n)) = BytesIn(f, n + 1) - BytesIn(f, n)
         /\ SegmentAt(f, n) = <<>> <=> n >= Len(Segments(f))
         /\ Len(SegmentAt(f, n)) \in Nat
<1> DEFINE s == SegmentAt(f, n)
<1>1. /\ s \in Seq(Byte) /\ Len(s) <= PCK_DATA_SIZE
      /\ s = SubSeq(f, BytesIn(f, n) + 1, BytesIn(f, n + 1))
      /\ Len(s) = BytesIn(f, n + 1) - BytesIn(f, n)
      /\ s = <<>> <=> n >= Count(f)
  BY SegmentIs
<1>2. Len(Segments(f)) = Count(f)
  BY CountIs
<1> HIDE DEF s
<1>3. Len(s) \in Nat
  BY <1>1
<1> QED
  BY <1>1, <1>2, <1>3 DEF s

\* The segments are sequences of bytes.
LEMMA SegmentsTyped ==
  ASSUME NEW f \in Seq(Byte)
  PROVE  Count(f) \in Nat /\ Len(Segments(f)) = Count(f) /\ Segments(f) \in Seq(Seq(Byte))
<1>1. Count(f) \in Nat /\ Len(Segments(f)) = Count(f)
  BY CountIs
<1>2. \A i \in 1 .. Count(f) : Segments(f)[i] \in Seq(Byte)
  <2> SUFFICES ASSUME NEW i \in 1 .. Count(f) PROVE Segments(f)[i] \in Seq(Byte)
    OBVIOUS
  <2>1. PICK k \in Nat : i = k + 1 /\ k < Len(Segments(f))
    <3>1. i - 1 \in Nat /\ i = (i - 1) + 1 /\ i - 1 < Len(Segments(f))
      BY <1>1
    <3> QED
      BY <3>1
  <2>2. SegmentAt(f, k) \in Seq(Byte)
    BY SegmentBounds
  <2> QED
    BY <2>1, <2>2 DEF SegmentAt
<1>3. Segments(f) = [i \in 1 .. Count(f) |-> Segments(f)[i]]
  BY DEF Segments, Count
<1> QED
  BY <1>1, <1>2, <1>3

\* The bytes after the first n segments make the others.
LEMMA SegmentsLeft ==
  ASSUME NEW f \in Seq(Byte), NEW n \in Nat
  PROVE  (Len(f) - BytesIn(f, n) + PCK_DATA_SIZE - 1) \div PCK_DATA_SIZE =
           IF n < Count(f) THEN Count(f) - n ELSE 0
<1> DEFINE P == PCK_DATA_SIZE
           N == Count(f)
           a == BytesIn(f, n)
<1>1. P \in Nat \ {0} /\ Len(f) \in Nat /\ N \in Nat
  BY DataSizeAssumption, CountIs
<1>2. PICK r \in Nat : r < P /\ Len(f) + P - 1 = (P * N) + r
  <2>0. Len(f) + P - 1 \in Nat
    BY <1>1
  <2>1. PICK x \in Nat : x = Len(f) + P - 1
    BY <2>0
  <2>2. x = (P * (x \div P)) + (x % P) /\ x % P \in Nat /\ x % P < P
    BY <1>1, Quotient
  <2> QED
    BY <2>1, <2>2 DEF Count
<1>3. n < N => a = n * P
  BY BytesGrow
<1>4. ~(n < N) => a = Len(f)
  BY BytesGrow
<1> HIDE DEF P, N, a
<1>5. CASE n < N
  <2>1. PICK k \in Nat : N = n + k
    <3>1. N - n \in Nat /\ N = n + (N - n)
      BY <1>1, <1>5
    <3> QED
      BY <3>1
  <2>2. P * N = n * P + k * P /\ n * P \in Nat /\ k * P \in Nat
    BY <1>1, <2>1
  <2>3. PICK y \in Nat : y = Len(f) - a + P - 1 /\ y = k * P + r
    BY <1>1, <1>2, <1>3, <1>5, <2>2
  <2>4. y \div P = k
    BY <1>1, <1>2, <2>3, DivIs
  <2>5. k = N - n
    BY <2>1
  <2> QED
    BY <1>5, <2>3, <2>4, <2>5 DEF P, N, a
<1>6. CASE ~(n < N)
  <2>1. P - 1 \in Nat /\ P - 1 < P /\ P - 1 = 0 * P + (P - 1) /\ 0 \in Nat
    BY <1>1
  <2>2. (P - 1) \div P = 0
    BY <1>1, <2>1, DivIs
  <2>3. Len(f) - a + P - 1 = P - 1
    BY <1>1, <1>4, <1>6
  <2> QED
    BY <1>6, <2>2, <2>3 DEF P, N, a
<1> QED
  BY <1>5, <1>6

\* The first n segments of a file, as bytes.
Beginning(f, n) == SubSeq(f, 1, BytesIn(f, n))

\* They are n segments.
LEMMA BeginningIs ==
  ASSUME NEW f \in Seq(Byte), NEW n \in Nat, n <= Count(f)
  PROVE  /\ Beginning(f, n) \in Seq(Byte) /\ Len(Beginning(f, n)) = BytesIn(f, n)
         /\ \A j \in 1 .. BytesIn(f, n) : Beginning(f, n)[j] = f[j]
         /\ Count(Beginning(f, n)) = n
<1> DEFINE P == PCK_DATA_SIZE
           a == BytesIn(f, n)
           t == Beginning(f, n)
<1>1. P \in Nat \ {0} /\ Len(f) \in Nat /\ Count(f) \in Nat
  BY DataSizeAssumption, CountIs
<1>2. a \in 0 .. Len(f)
  BY BytesGrow
<1>3. t \in Seq(Byte) /\ Len(t) = a /\ \A j \in 1 .. a : t[j] = f[j]
  BY <1>2, FirstEntries DEF Beginning
<1>4. Count(t) = (a + P - 1) \div P
  BY <1>3 DEF Count
<1>5. CASE n < Count(f)
  <2>1. a = n * P
    BY <1>5, BytesGrow
  <2> HIDE DEF a, P
  <2>2. PICK x \in Nat : x = a + P - 1 /\ x = n * P + (P - 1)
    <3>1. n * P \in Nat
      BY <1>1
    <3> QED
      BY <1>1, <2>1, <3>1
  <2>3. P - 1 \in Nat /\ P - 1 < P
    BY <1>1
  <2>4. x \div P = n
    BY <1>1, <2>2, <2>3, DivIs
  <2> QED
    BY <1>3, <1>4, <2>2, <2>4 DEF a, P
<1>6. CASE n = Count(f)
  <2>1. a = Len(f)
    <3>1. ~(n < Count(f))
      BY <1>1, <1>6
    <3> QED
      BY <3>1, BytesGrow
  <2> QED
    BY <1>3, <1>4, <1>6, <2>1 DEF Count
<1> QED
  BY <1>1, <1>5, <1>6

\* Segments are counted in them as in the file.
LEMMA BeginningBytes ==
  ASSUME NEW f \in Seq(Byte), NEW n \in Nat, n <= Count(f), NEW k \in Nat, k <= n
  PROVE  /\ BytesIn(Beginning(f, n), k) = BytesIn(f, k)
         /\ BytesIn(f, k) <= BytesIn(f, n)
<1>1. PICK P \in Nat : P = PCK_DATA_SIZE
  BY DataSizeAssumption
<1>2. PICK x, y \in Nat : x = k * P /\ y = n * P /\ x <= y
  BY Monotone
<1>3. Len(Beginning(f, n)) = BytesIn(f, n) /\ BytesIn(f, n) \in Nat /\ Len(f) \in Nat
  BY BeginningIs, BytesGrow
<1>4. /\ BytesIn(f, k) = IF x <= Len(f) THEN x ELSE Len(f)
      /\ BytesIn(f, n) = IF y <= Len(f) THEN y ELSE Len(f)
      /\ BytesIn(Beginning(f, n), k) = IF x <= BytesIn(f, n) THEN x ELSE BytesIn(f, n)
  BY <1>1, <1>2, <1>3, LeastOf DEF BytesIn
<1> QED
  BY <1>2, <1>3, <1>4

\* Cut into segments, the beginning of a file is the first of its segments.
LEMMA SegmentsOfBeginning ==
  ASSUME NEW f \in Seq(Byte), NEW n \in Nat, n <= Count(f)
  PROVE  Segments(Beginning(f, n)) = SubSeq(Segments(f), 1, n)
<1> DEFINE t == Beginning(f, n)
           u == SubSeq(Segments(f), 1, n)
           v == Segments(t)
           a(i) == BytesIn(f, i)
<1>1. /\ t \in Seq(Byte) /\ Len(t) = a(n) /\ \A j \in 1 .. a(n) : t[j] = f[j]
      /\ Count(t) = n
  BY BeginningIs
<1>2. Count(f) \in Nat /\ Len(Segments(f)) = Count(f) /\ Segments(f) \in Seq(Seq(Byte))
  BY SegmentsTyped
<1>3. /\ u \in Seq(Seq(Byte)) /\ Len(u) = n
      /\ \A i \in 1 .. n : u[i] = Segments(f)[i]
  <2>1. n \in 0 .. Len(Segments(f))
    BY <1>2
  <2> QED
    BY <1>2, <2>1, FirstEntries
<1>4. v \in Seq(Seq(Byte)) /\ Len(v) = n
  BY <1>1, SegmentsTyped
<1> HIDE DEF t, u, v
<1>5. ASSUME NEW i \in 1 .. n PROVE v[i] = u[i]
  <2>1. PICK k \in Nat : i = k + 1 /\ k < n
    <3>1. i - 1 \in Nat /\ i = (i - 1) + 1 /\ i - 1 < n
      OBVIOUS
    <3> QED
      BY <3>1
  <2>2. u[i] = SegmentAt(f, k) /\ v[i] = SegmentAt(t, k)
    <3>1. k < Len(Segments(f)) /\ k < Len(Segments(t))
      BY <1>1, <1>2, <2>1, CountIs
    <3> QED
      BY <1>3, <2>1, <3>1 DEF SegmentAt, v
  <2>3. /\ SegmentAt(f, k) = SubSeq(f, a(k) + 1, a(k + 1))
        /\ SegmentAt(t, k) = SubSeq(t, BytesIn(t, k) + 1, BytesIn(t, k + 1))
    BY <1>1, SegmentBounds
  <2>4. BytesIn(t, k) = a(k) /\ BytesIn(t, k + 1) = a(k + 1)
    <3>1. k \in Nat /\ k + 1 \in Nat /\ k <= n /\ k + 1 <= n
      BY <2>1
    <3> QED
      BY <3>1, BeginningBytes DEF t
  <2>5. /\ a(k) \in Nat /\ a(k + 1) \in Nat /\ a(n) \in 0 .. Len(f) /\ Len(f) \in Nat
        /\ a(k) <= a(k + 1) /\ a(k + 1) <= a(n)
    <3>1. k + 1 \in Nat /\ k <= k + 1 /\ k + 1 <= n /\ k + 1 <= Count(f)
      BY <1>2, <2>1
    <3>2. a(k) \in 0 .. Len(f) /\ a(k + 1) \in 0 .. Len(f) /\ a(n) \in 0 .. Len(f)
      BY <3>1, BytesGrow
    <3>3. a(k) <= a(k + 1) /\ a(k + 1) <= a(n)
      BY <3>1, BeginningBytes
    <3> QED
      BY <3>2, <3>3
  <2>6. SubSeq(t, a(k) + 1, a(k + 1)) = SubSeq(f, a(k) + 1, a(k + 1))
    <3>1. a(n) \in Nat /\ a(n) <= Len(f) /\ a(n) <= Len(t)
      BY <1>1, <2>5
    <3> DEFINE m == a(n)
               x == a(k)
               y == a(k + 1)
    <3>2. /\ m \in Nat /\ m <= Len(t) /\ m <= Len(f) /\ \A j \in 1 .. m : t[j] = f[j]
          /\ x \in Nat /\ y \in Nat /\ x <= y /\ y <= m
      BY <1>1, <2>5, <3>1
    <3> HIDE DEF m, x, y
    <3>3. SubSeq(t, x + 1, y) = SubSeq(f, x + 1, y)
      BY <1>1, <3>2, SamePiece
    <3> QED
      BY <3>3 DEF x, y
  <2> QED
    BY <2>2, <2>3, <2>4, <2>6
<1>6. v = u
  BY <1>3, <1>4, <1>5, SeqEqual
<1> QED
  BY <1>6 DEF t, u, v

-----------------------------------------------------------------------------
(* What get_buff returns: FlattenSeq, too, is a recursive function.         *)

\* f holds the first 1, ..., n sequences of s end to end.
Joins(s, n, f) ==
  f = [i \in 1 .. n |-> IF i = 1 THEN s[i] ELSE f[i - 1] \o s[i]]

\* There are such joins, for CHOOSE to find.
LEMMA JoinsExist ==
  ASSUME NEW s, NEW n \in Nat
  PROVE  \E f : Joins(s, n, f)
<1> DEFINE T == {m \in Nat : \E f : Joins(s, m, f)}
<1>1. 0 \in T
  <2> DEFINE f == [i \in 1 .. 0 |-> s[i]]
  <2>1. f = [i \in 1 .. 0 |-> IF i = 1 THEN s[i] ELSE f[i - 1] \o s[i]]
    OBVIOUS
  <2> HIDE DEF f
  <2>2. Joins(s, 0, f)
    BY <2>1 DEF Joins
  <2> QED
    BY <2>2
<1>2. ASSUME NEW m \in T PROVE m + 1 \in T
  <2>1. PICK f : Joins(s, m, f)
    OBVIOUS
  <2> DEFINE g == [i \in 1 .. m + 1 |->
                    IF i = 1 THEN s[i] ELSE IF i = m + 1 THEN f[m] \o s[i] ELSE f[i]]
  <2>2. ASSUME NEW i \in 1 .. m + 1
        PROVE  g[i] = IF i = 1 THEN s[i] ELSE g[i - 1] \o s[i]
    <3>1. CASE i = 1
      BY <3>1
    <3>2. CASE i # 1
      <4>1. i - 1 \in 1 .. m /\ i - 1 \in 1 .. m + 1 /\ i - 1 # m + 1
        BY <3>2
      <4>2. f[i - 1] = IF i - 1 = 1 THEN s[i - 1] ELSE f[(i - 1) - 1] \o s[i - 1]
        BY <2>1, <4>1 DEF Joins
      <4>3. g[i - 1] = f[i - 1]
        BY <4>1, <4>2
      <4>4. CASE i = m + 1
        <5>1. i - 1 = m /\ m + 1 \in 1 .. m + 1 /\ m + 1 # 1
          BY <3>2, <4>4
        <5>2. g[m + 1] = f[m] \o s[m + 1]
          BY <5>1
        <5> QED
          BY <3>2, <4>3, <4>4, <5>1, <5>2
      <4>5. CASE i # m + 1
        <5>1. i \in 1 .. m /\ g[i] = f[i]
          BY <3>2, <4>5
        <5>2. f[i] = f[i - 1] \o s[i]
          BY <2>1, <3>2, <5>1 DEF Joins
        <5> QED
          BY <3>2, <4>3, <5>1, <5>2
      <4> QED
        BY <4>4, <4>5
    <3> QED
      BY <3>1, <3>2
  <2>3. g = [i \in 1 .. m + 1 |-> g[i]]
    OBVIOUS
  <2> HIDE DEF g
  <2>4. Joins(s, m + 1, g)
    BY <2>2, <2>3 DEF Joins
  <2> QED
    BY <2>4
<1> HIDE DEF T
<1>3. T = Nat
  BY <1>1, <1>2, SetInduction DEF T
<1> QED
  BY <1>3 DEF T

\* s and t begin alike.
SameUpTo(m, s, t) == \A i \in 1 .. m : s[i] = t[i]

\* What is joined so far does not depend on what comes later.
LEMMA JoinsAgree ==
  ASSUME NEW s, NEW t, NEW m \in Nat, NEW n \in Nat, m <= n, NEW f, NEW g,
         Joins(s, m, f), Joins(t, n, g), SameUpTo(m, s, t)
  PROVE  SameUpTo(m, f, g)
<1> DEFINE T == {k \in Nat : k \in 1 .. m => f[k] = g[k]}
<1>1. 0 \in T
  OBVIOUS
<1>2. ASSUME NEW k \in T PROVE k + 1 \in T
  <2> SUFFICES ASSUME k + 1 \in 1 .. m PROVE f[k + 1] = g[k + 1]
    OBVIOUS
  <2>1. k + 1 \in 1 .. n /\ (k + 1) - 1 = k /\ s[k + 1] = t[k + 1]
    BY DEF SameUpTo
  <2>2. /\ f[k + 1] = IF k + 1 = 1 THEN s[k + 1] ELSE f[k] \o s[k + 1]
        /\ g[k + 1] = IF k + 1 = 1 THEN t[k + 1] ELSE g[k] \o t[k + 1]
    BY <2>1 DEF Joins
  <2>3. CASE k = 0
    BY <2>1, <2>2, <2>3
  <2>4. CASE k # 0
    <3>1. k \in 1 .. m
      BY <2>4
    <3>2. f[k] = g[k]
      BY <3>1
    <3> QED
      BY <2>1, <2>2, <3>2
  <2> QED
    BY <2>3, <2>4
<1> HIDE DEF T
<1>3. T = Nat
  BY <1>1, <1>2, SetInduction DEF T
<1> QED
  BY <1>3 DEF T, SameUpTo

\* FlattenSeq returns the last of the joins.
LEMMA FlattenIs ==
  ASSUME NEW S, NEW s \in Seq(S), s # <<>>
  PROVE  \E f : Joins(s, Len(s), f) /\ FlattenSeq(s) = f[Len(s)]
<1> DEFINE f == CHOOSE f : Joins(s, Len(s), f)
<1>1. Len(s) \in Nat /\ Len(s) # 0
  OBVIOUS
<1>2. Joins(s, Len(s), f)
  BY <1>1, JoinsExist
<1>3. FlattenSeq(s) = f[Len(s)]
  BY <1>1 DEF FlattenSeq, Joins
<1> QED
  BY <1>2, <1>3

\* One sequence more at the end is one more at the end of the whole.
LEMMA FlattenGrows ==
  ASSUME NEW S, NEW s \in Seq(S), NEW x \in S, x \in Seq(Byte)
  PROVE  FlattenSeq(Append(s, x)) = FlattenSeq(s) \o x
<1> DEFINE t == Append(s, x)
           n == Len(s)
<1>1. /\ t \in Seq(S) /\ Len(t) = n + 1 /\ n \in Nat /\ t # <<>>
      /\ t[n + 1] = x /\ \A i \in 1 .. n : s[i] = t[i]
  BY AppendedIs
<1> HIDE DEF t
<1>2. PICK g : Joins(t, n + 1, g) /\ FlattenSeq(t) = g[n + 1]
  BY <1>1, FlattenIs
<1>3. g[n + 1] = IF n + 1 = 1 THEN x ELSE g[n] \o x
  <2>1. n + 1 \in 1 .. n + 1 /\ (n + 1) - 1 = n
    BY <1>1
  <2> QED
    BY <1>1, <1>2, <2>1 DEF Joins
<1>4. CASE s = <<>>
  <2>1. FlattenSeq(s) = <<>>
    BY <1>4 DEF FlattenSeq
  <2>2. <<>> \o x = x
    OBVIOUS
  <2> QED
    BY <1>2, <1>3, <1>4, <2>1, <2>2 DEF t
<1>5. CASE s # <<>>
  <2>1. PICK f : Joins(s, n, f) /\ FlattenSeq(s) = f[n]
    BY <1>5, FlattenIs
  <2>2. n \in 1 .. n /\ n <= n + 1 /\ n + 1 # 1 /\ n + 1 \in Nat
    BY <1>1, <1>5
  <2>3. f[n] = g[n]
    <3> HIDE DEF n
    <3>1. \A i \in 1 .. n : f[i] = g[i]
      <4> DEFINE k == n + 1
      <4>1. Joins(s, n, f) /\ Joins(t, k, g)
        BY <1>2, <2>1
      <4>2. n \in Nat /\ k \in Nat /\ n <= k
        BY <1>1, <2>2
      <4>3. SameUpTo(n, s, t)
        BY <1>1 DEF SameUpTo
      <4> HIDE DEF k
      <4>4. SameUpTo(n, f, g)
        BY <4>1, <4>2, <4>3, JoinsAgree
      <4> QED
        BY <4>4 DEF SameUpTo
    <3> QED
      BY <2>2, <3>1
  <2> QED
    BY <1>2, <1>3, <2>1, <2>2, <2>3 DEF t
<1> QED
  BY <1>4, <1>5

\* What get_buff returns for the packets p.
BuffOf(p) == FlattenSeq([i \in DOMAIN p |-> PureData(p[i])])

\* With a packet more it returns that packet's bytes after the others.
LEMMA BuffGrows ==
  ASSUME NEW p \in Seq(WirePacket),
         NEW pack \in WirePacket, PureData(pack) \in Seq(Byte)
  PROVE  BuffOf(Append(p, pack)) = BuffOf(p) \o PureData(pack)
<1> DEFINE s == [i \in DOMAIN p |-> PureData(p[i])]
           q == Append(p, pack)
           t == [i \in DOMAIN q |-> PureData(q[i])]
           x == PureData(pack)
           u == Append(s, x)
           S == {PureData(pk) : pk \in WirePacket}
<1>1. /\ DOMAIN p = 1 .. Len(p) /\ Len(p) \in Nat
      /\ q \in Seq(WirePacket) /\ Len(q) = Len(p) + 1 /\ DOMAIN q = 1 .. Len(p) + 1
      /\ q[Len(p) + 1] = pack /\ \A i \in 1 .. Len(p) : q[i] = p[i]
  OBVIOUS
<1> HIDE DEF q
<1>2. /\ s \in Seq(S) /\ Len(s) = Len(p)
      /\ \A i \in 1 .. Len(p) : s[i] = PureData(p[i])
  BY <1>1
<1>3. \A i \in 1 .. Len(p) + 1 : t[i] = PureData(q[i])
  BY <1>1
<1>4. \A i \in 1 .. Len(p) + 1 : t[i] \in S
  BY <1>1, <1>3
<1>5. t \in Seq(S) /\ Len(t) = Len(p) + 1
  BY <1>1, <1>3, <1>4
<1>10. x \in S /\ x \in Seq(Byte)
  OBVIOUS
<1> HIDE DEF s, t, x, S
<1>6. /\ u \in Seq(S) /\ Len(u) = Len(p) + 1
      /\ \A i \in 1 .. Len(p) : u[i] = s[i]
      /\ u[Len(p) + 1] = x
  BY <1>1, <1>2, <1>10
<1>7. \A i \in 1 .. Len(p) + 1 : t[i] = u[i]
  BY <1>1, <1>2, <1>3, <1>6 DEF x
<1> HIDE DEF u
<1>8. t = u
  BY <1>5, <1>6, <1>7, SeqEqual
<1>9. FlattenSeq(u) = FlattenSeq(s) \o x
  BY <1>2, <1>10, FlattenGrows DEF u
<1> QED
  BY <1>8, <1>9 DEF BuffOf, s, t, q, x

-----------------------------------------------------------------------------
(* Datagrams of a transfer.                                                 *)

\* A link, or a worker, with one thing.
LEMMA OneDatagram ==
  ASSUME NEW x
  PROVE  /\ <<x>> # <<>> /\ OneAtMost(<<x>>) /\ <<x>>[1] = x
         /\ \A i \in DOMAIN <<x>> : <<x>>[i] = x
  BY DEF OneAtMost

\* And with none.
LEMMA NoDatagram == OneAtMost(<<>>) /\ DOMAIN <<>> = {}
  BY DEF OneAtMost

\* The packet of segment n of the file f, as it is sent.
Carries(pack, f, n) ==
  /\ pack \in WirePacket /\ Len(pack.data) = PCK_DATA_SIZE
  /\ pack.len = PCK_HEADER_SIZE + Len(SegmentAt(f, n)) /\ pack.seqno = ToUint32(n)
  /\ VerifyChecksum(pack) /\ PureData(pack) = SegmentAt(f, n)
  /\ ExtractPureData(pack) = CoreData(SegmentAt(f, n))

\* The numbers of a transfer fit a uint32_t, that of the empty packet included.
LEMMA NumberInRange ==
  ASSUME NEW f \in Contents, NEW n \in Nat, n <= Len(Segments(f))
  PROVE  f \in Seq(Byte) /\ Len(Segments(f)) \in Nat /\ ToUint32(n) \in Uint32
<1>1. f \in Seq(Byte) /\ ToUint32(Len(Segments(f))) \in Uint32
  BY NumbersAssumption
<1>2. Len(Segments(f)) \in Nat
  BY <1>1, CountIs
<1> QED
  BY <1>1, <1>2, SmallerNumber

\* That is what the worker makes of the segment.
LEMMA PacketCarries ==
  ASSUME NEW f \in Contents, NEW n \in Nat, n <= Len(Segments(f))
  PROVE  Carries(CreateDataPacket(CoreData(SegmentAt(f, n)), n), f, n)
<1>1. f \in Seq(Byte) /\ ToUint32(n) \in Uint32
  BY NumberInRange
<1>2. SegmentAt(f, n) \in Seq(Byte) /\ Len(SegmentAt(f, n)) <= PCK_DATA_SIZE
  BY <1>1, SegmentBounds
<1> QED
  BY <1>1, <1>2, PacketMade DEF Carries

\* An acknowledgement as it is sent.
LEMMA AckTyped ==
  ASSUME NEW f \in Contents, NEW n \in Nat, n <= Len(Segments(f))
  PROVE  LET b == SerializeAckPacket(CreateAckPacket(n))
         IN  /\ b \in Seq(Byte) /\ Len(b) = PCK_HEADER_SIZE
             /\ Arrives(b, b, {})
<1>1. CreateAckPacket(n) \in AckPacket
  BY NumberInRange, AckMade
<1>2. Arrives(SerializeAckPacket(CreateAckPacket(n)), SerializeAckPacket(CreateAckPacket(n)), {})
  BY DEF Arrives
<1> QED
  BY <1>1, <1>2, SerializedAck

\* A datagram that arrives, with one bit changed at most, and verifies has the
\* lowest byte of the number that was sent.
LEMMA VerifiedData ==
  ASSUME NEW pack \in WirePacket, Len(pack.data) = PCK_DATA_SIZE, VerifyChecksum(pack),
         NEW got, NEW bits,
         Arrives(SerializePacket(pack), got, bits),
         VerifyChecksum(DeserializePacket(got))
  PROVE  LET q == DeserializePacket(got)
         IN  /\ q.len \in Nat /\ q.seqno.lo % 256 = pack.seqno.lo % 256
             /\ q.data \in Seq(Byte) /\ Len(q.data) = PCK_DATA_SIZE
             /\ bits = {} => q = pack
<1>1. CASE bits = {} /\ got = SerializePacket(pack)
  <2>1. DeserializePacket(got) = pack
    BY <1>1, RoundTrip
  <2> QED
    BY <2>1, Uint16Is DEF WirePacket
<1>2. ASSUME NEW bit \in BitsOf(SerializePacket(pack)), bits = {bit},
             got = Flip(SerializePacket(pack), bit)
      PROVE  LET q == DeserializePacket(got)
             IN  /\ q.len \in Nat /\ q.seqno.lo % 256 = pack.seqno.lo % 256
                 /\ q.data \in Seq(Byte) /\ Len(q.data) = PCK_DATA_SIZE
                 /\ bits # {}
  BY <1>2, PassesWithFields
<1> QED
  BY <1>1, <1>2 DEF Arrives

\* An acknowledgement that does has the lowest byte of its number.
LEMMA VerifiedAck ==
  ASSUME NEW pack \in AckPacket, VerifyChecksumAck(pack),
         NEW got, NEW bits,
         Arrives(SerializeAckPacket(pack), got, bits),
         VerifyChecksumAck(DeserializeAckPacket(got))
  PROVE  DeserializeAckPacket(got).ackno.lo % 256 = pack.ackno.lo % 256
<1>1. CASE bits = {} /\ got = SerializeAckPacket(pack)
  BY <1>1, AckRoundTrip
<1>2. ASSUME NEW bit \in BitsOf(SerializeAckPacket(pack)),
             got = Flip(SerializeAckPacket(pack), bit)
      PROVE  DeserializeAckPacket(got).ackno.lo % 256 = pack.ackno.lo % 256
  BY <1>2, AckPassesWithFields
<1> QED
  BY <1>1, <1>2 DEF Arrives

-----------------------------------------------------------------------------
(* The invariant, action by action.                                         *)

\* What the proofs use of a state that satisfies the invariant.
LEMMA StateFacts ==
  ASSUME Inv
  PROVE  /\ content \in Contents /\ content \in Seq(Byte) /\ Len(content) \in Nat
         /\ FinSeqno = Len(Segments(content)) /\ FinSeqno \in Nat
         /\ PCK_DATA_SIZE \in Nat \ {0} /\ PCK_HEADER_SIZE = 8
         /\ seq_no \in Nat /\ ackNo \in Nat
         /\ packet # <<>> =>
              seq_no <= FinSeqno /\ packet = <<packet[1]>> /\ Carries(packet[1], content, seq_no)
<1>1. content \in Contents /\ seq_no \in Nat /\ ackNo \in Nat /\ OneAtMost(packet)
  BY DEF Inv, TypeOK
<1>2. content \in Seq(Byte) /\ Len(content) \in Nat
  BY <1>1, NumbersAssumption
<1>3. FinSeqno = Len(Segments(content)) /\ FinSeqno \in Nat
  BY <1>2, CountIs DEF FinSeqno
<1>4. packet # <<>> => seq_no <= FinSeqno
  BY <1>1, <1>3 DEF Inv, FeederInStep, Taken
<1>5. packet # <<>> => packet = <<packet[1]>> /\ Carries(packet[1], content, seq_no)
  <2> SUFFICES ASSUME packet # <<>>
               PROVE  packet = <<packet[1]>> /\ Carries(packet[1], content, seq_no)
    OBVIOUS
  <2>1. packet[1] = CreateDataPacket(CoreData(SegmentAt(content, seq_no)), seq_no)
    BY DEF Inv, PacketIsNext
  <2>2. seq_no <= Len(Segments(content))
    BY <1>3, <1>4
  <2> QED
    BY <1>1, <2>1, <2>2, PacketCarries DEF OneAtMost
<1> QED
  BY <1>1, <1>2, <1>3, <1>4, <1>5, DataSizeAssumption DEF PCK_HEADER_SIZE

\* A transfer starts with nothing read, sent or written.
LEMMA Initial == Init => Inv
<1> SUFFICES ASSUME Init PROVE Inv
  OBVIOUS
<1>1. /\ content \in Contents /\ position = 0 /\ remain_size = Len(content)
      /\ lastPacket = FALSE /\ written = <<>> /\ packets = <<>>
      /\ seq_no = 0 /\ ackNo = 0 /\ packet = <<>> /\ wire = <<>> /\ back = <<>>
      /\ damage = {} /\ cDone = FALSE /\ crashed = FALSE /\ fooled = FALSE
  BY DEF Init, FeederInit, SinkInit
<1>2. content \in Seq(Byte) /\ Len(content) \in Nat
  BY <1>1, NumbersAssumption
<1>3. FinSeqno \in Nat
  BY <1>2, CountIs DEF FinSeqno
<1>4. BytesIn(content, 0) = 0
  <2>1. 0 * PCK_DATA_SIZE = 0
    BY DataSizeAssumption
  <2>2. Min({0, Len(content)}) = 0
    BY <1>2, LeastOf
  <2> QED
    BY <2>1, <2>2 DEF BytesIn
<1>5. TypeOK
  <2>1. <<>> \in Seq(Byte) /\ <<>> \in Seq(WirePacket)
    OBVIOUS
  <2> QED
    BY <1>1, <1>2, <2>1, NoDatagram DEF TypeOK
<1>6. FeederInStep
  <2>1. Taken = 0
    BY <1>1 DEF Taken
  <2>2. ~(0 > FinSeqno) /\ 0 <= FinSeqno + 1
    BY <1>3
  <2> QED
    BY <1>1, <1>2, <1>4, <2>1, <2>2 DEF FeederInStep
<1>7. PacketIsNext /\ LinkIsHonest
  BY <1>1 DEF PacketIsNext, LinkIsHonest
<1>8. InLockStep
  <2>1. ~(0 > FinSeqno)
    BY <1>3
  <2> QED
    BY <1>1, <2>1 DEF InLockStep
<1>9. ClientInStep
  <2>1. SubSeq(content, 1, 0) = <<>>
    <3>1. SubSeq(content, 1, 0) \in Seq(Byte) /\ Len(SubSeq(content, 1, 0)) = 0
      BY <1>2, FirstEntries
    <3> QED
      BY <3>1
  <2> QED
    BY <1>1, <1>4, <2>1 DEF ClientInStep
<1>10. BufferIsFile
  <2> DEFINE s == [i \in DOMAIN packets |-> PureData(packets[i])]
  <2>1. s = <<>>
    BY <1>1
  <2> HIDE DEF s
  <2>2. FlattenSeq(s) = <<>>
    BY <2>1 DEF FlattenSeq
  <2> QED
    BY <1>1, <2>2 DEF BufferIsFile, GetBuff, s
<1> QED
  BY <1>5, <1>6, <1>7, <1>8, <1>9, <1>10 DEF Inv

\* A feeder that has a segment left hands out the one number seq_no is due.
LEMMA NextIs ==
  ASSUME Inv, packet = <<>>, HasNext
  PROVE  /\ seq_no <= FinSeqno
         /\ NextSegment = CoreData(SegmentAt(content, seq_no))
         /\ position + NextSize = BytesIn(content, seq_no + 1)
         /\ remain_size - NextSize = Len(content) - BytesIn(content, seq_no + 1)
         /\ remain_size = 0 <=> seq_no = FinSeqno
         /\ ~lastPacket
<1> DEFINE f == content
           a == BytesIn(f, seq_no)
           b == BytesIn(f, seq_no + 1)
<1>1. /\ f \in Seq(Byte) /\ Len(f) \in Nat /\ FinSeqno = Len(Segments(f))
      /\ FinSeqno \in Nat /\ PCK_DATA_SIZE \in Nat \ {0} /\ seq_no \in Nat
  BY StateFacts
<1>2. seq_no <= FinSeqno + 1 /\ position = a /\ remain_size = Len(f) - a
  BY DEF Inv, FeederInStep, Taken
<1>11. lastPacket <=> seq_no > FinSeqno
  BY DEF Inv, FeederInStep, Taken
<1>3. FinSeqno = Count(f)
  BY <1>1, CountIs
<1>4. /\ a \in 0 .. Len(f)
      /\ seq_no < FinSeqno <=> a < Len(f)
      /\ b = IF Len(f) - a > PCK_DATA_SIZE THEN a + PCK_DATA_SIZE ELSE Len(f)
  BY <1>1, <1>3, BytesGrow
<1>5. SegmentAt(f, seq_no) = SubSeq(f, a + 1, b)
  BY <1>1, SegmentBounds
<1> HIDE DEF a, b
<1>6. seq_no <= FinSeqno /\ ~lastPacket
  <2>1. seq_no > FinSeqno => ~(remain_size > 0)
    BY <1>1, <1>2, <1>4
  <2>2. ~(seq_no > FinSeqno)
    BY <1>11, <2>1 DEF HasNext
  <2>3. ~lastPacket
    BY <1>11, <2>2
  <2> QED
    BY <1>1, <2>2, <2>3
<1>7. remain_size = 0 <=> seq_no = FinSeqno
  BY <1>1, <1>2, <1>4, <1>6
<1>8. position + NextSize = b /\ remain_size - NextSize = Len(f) - b /\ b \in 0 .. Len(f)
  BY <1>1, <1>2, <1>4 DEF NextSize
<1>9. Min({position + NextSize, Len(f)}) = b
  <2>1. Min({b, Len(f)}) = b
    BY <1>1, <1>8, LeastOf
  <2> QED
    BY <1>8, <2>1
<1>10. NextSegment = CoreData(SegmentAt(f, seq_no))
  BY <1>2, <1>5, <1>9 DEF NextSegment, ReadChunk
<1> QED
  BY <1>6, <1>7, <1>8, <1>10 DEF b

\* Making the next packet moves the feeder by one segment.
LEMMA MakeKeeps ==
  ASSUME Inv, MakePacket
  PROVE  Inv'
<1> DEFINE p == CreateDataPacket(CoreData(SegmentAt(content, seq_no)), seq_no)
<1>1. /\ content \in Contents /\ content \in Seq(Byte) /\ Len(content) \in Nat
      /\ FinSeqno = Len(Segments(content)) /\ FinSeqno \in Nat
      /\ seq_no \in Nat /\ ackNo \in Nat
  BY StateFacts
<1>15. packet = <<>> /\ HasNext
  BY DEF MakePacket
<1>2. /\ seq_no <= FinSeqno /\ NextSegment = CoreData(SegmentAt(content, seq_no))
      /\ position + NextSize = BytesIn(content, seq_no + 1)
      /\ remain_size - NextSize = Len(content) - BytesIn(content, seq_no + 1)
      /\ remain_size = 0 <=> seq_no = FinSeqno
      /\ ~lastPacket
  BY <1>15, NextIs
<1>3. /\ packet = <<>> /\ packet' = <<p>> /\ content' = content
      /\ position' = position + NextSize /\ remain_size' = remain_size - NextSize
      /\ lastPacket' = (lastPacket \/ remain_size = 0)
      /\ seq_no' = seq_no /\ ackNo' = ackNo /\ cDone' = cDone /\ crashed' = crashed
      /\ written' = written
      /\ packets' = packets /\ wire' = wire /\ back' = back /\ damage' = damage
      /\ fooled' = fooled
  BY <1>2 DEF MakePacket, GetNextDataSegment, clientVars, sinkVars
<1>4. Carries(p, content, seq_no)
  BY <1>1, <1>2, PacketCarries
<1> HIDE DEF p
<1>5. packet' # <<>> /\ OneAtMost(packet') /\ packet'[1] = p /\ \A i \in DOMAIN packet' : packet'[i] = p
  BY <1>3, OneDatagram
<1>6. wire = <<>> /\ back = <<>>
  BY <1>3 DEF Inv, LinkIsHonest
<1>7. FinSeqno' = FinSeqno
  BY <1>3 DEF FinSeqno
<1>8. BytesIn(content, seq_no + 1) \in 0 .. Len(content)
  <2>1. seq_no + 1 \in Nat
    BY <1>1
  <2> QED
    BY <1>1, <2>1, BytesGrow
<1>9. TypeOK'
  <2>1. position' \in Nat /\ remain_size' \in Nat /\ lastPacket' \in BOOLEAN
    BY <1>1, <1>2, <1>3, <1>8 DEF Inv, TypeOK
  <2>2. \A i \in DOMAIN packet' :
          packet'[i] \in WirePacket /\ Len(packet'[i].data) = PCK_DATA_SIZE
    BY <1>4, <1>5 DEF Carries
  <2> QED
    BY <1>3, <1>5, <2>1, <2>2 DEF Inv, TypeOK
<1>10. FeederInStep'
  <2>1. Taken' = seq_no + 1
    BY <1>3, <1>5 DEF Taken
  <2> QED
    <3>1. Taken' <= FinSeqno' + 1 /\ (Taken' > FinSeqno' <=> seq_no = FinSeqno)
      BY <1>1, <1>2, <1>7, <2>1
    <3>2. lastPacket' <=> Taken' > FinSeqno'
      BY <1>2, <1>3, <3>1
    <3>3. position' = BytesIn(content', Taken') /\ remain_size' = Len(content') - position'
      BY <1>2, <1>3, <2>1
    <3> QED
      BY <3>1, <3>2, <3>3 DEF FeederInStep
<1>11. PacketIsNext'
  BY <1>3, <1>5 DEF PacketIsNext, p
<1>12. InLockStep'
  BY <1>3, <1>5, <1>7 DEF Inv, InLockStep
<1>13. LinkIsHonest'
  BY <1>3, <1>6 DEF Inv, LinkIsHonest
<1>14. ClientInStep' /\ BufferIsFile'
  BY <1>3 DEF Inv, ClientInStep, BufferIsFile, GetBuff
<1> QED
  BY <1>9, <1>10, <1>11, <1>12, <1>13, <1>14 DEF Inv

\* Sending puts the packet on the link as it is.
LEMMA SendKeeps ==
  ASSUME Inv, SendPacket
  PROVE  Inv'
<1> DEFINE p == packet[1]
           b == SerializePacket(p)
<1>1. packet # <<>> /\ wire = <<>> /\ back = <<>> /\ wire' = <<b>> /\ UNCHANGED <<content, position, remain_size, lastPacket, seq_no, packet, written, packets, ackNo, cDone, crashed, back, damage, fooled>>
  BY DEF SendPacket, serverVars, clientVars, feederVars, sinkVars
<1>2. Carries(p, content, seq_no)
  BY <1>1, StateFacts
<1>3. b \in Seq(Byte) /\ Len(b) = PCK_HEADER_SIZE + PCK_DATA_SIZE
  <2>1. InRange(p) /\ p.check_sum \in Uint16
    BY <1>2 DEF InRange, Carries, WirePacket
  <2> QED
    BY <2>1, Serialized
<1> HIDE DEF b
<1>4. /\ wire' # <<>> /\ OneAtMost(wire') /\ wire'[1] = b
      /\ \A i \in DOMAIN wire' : wire'[i] = b
  BY <1>1, OneDatagram
<1>5. damage = {} /\ Arrives(b, b, {})
  BY <1>1 DEF Inv, LinkIsHonest, Arrives
<1>6. TypeOK'
  BY <1>1, <1>3, <1>4, <1>5 DEF Inv, TypeOK
<1>7. LinkIsHonest'
  BY <1>1, <1>4, <1>5 DEF LinkIsHonest, b
<1>8. /\ FeederInStep' /\ PacketIsNext' /\ InLockStep' /\ ClientInStep' /\ BufferIsFile'
  BY <1>1 DEF Inv, FeederInStep, Taken, PacketIsNext, InLockStep, ClientInStep, BufferIsFile, GetBuff, FinSeqno
<1> QED
  BY <1>6, <1>7, <1>8 DEF Inv

\* A changed bit leaves one changed bit.
LEMMA DamagePacketKeeps ==
  ASSUME Inv, wire # <<>>, NEW bit \in BitsOf(wire[1]), DamagePacket(bit)
  PROVE  Inv'
<1> DEFINE b == wire[1]
           c == Flip(b, bit)
<1>1. /\ damage = {} /\ damage' = {bit} /\ wire' = <<c>>
      /\ UNCHANGED <<content, position, remain_size, lastPacket, seq_no, packet,
                     written, packets, ackNo, cDone, crashed, back, fooled>>
  BY DEF DamagePacket, MayDamage, serverVars, clientVars, feederVars, sinkVars
<1>2. /\ packet # <<>> /\ back = <<>> /\ b = SerializePacket(packet[1])
      /\ b \in Seq(Byte) /\ Len(b) = PCK_HEADER_SIZE + PCK_DATA_SIZE
  <2>1. packet # <<>> /\ back = <<>> /\ Arrives(SerializePacket(packet[1]), b, damage)
    BY DEF Inv, LinkIsHonest
  <2>2. b = SerializePacket(packet[1])
    BY <1>1, <2>1 DEF Arrives
  <2>3. wire = <<b>>
    BY DEF Inv, TypeOK, OneAtMost
  <2>4. 1 \in DOMAIN wire
    BY <2>3
  <2>5. b \in Seq(Byte) /\ Len(b) = PCK_HEADER_SIZE + PCK_DATA_SIZE
    BY <2>4 DEF Inv, TypeOK
  <2> QED
    BY <2>1, <2>2, <2>5
<1> HIDE DEF b
<1>3. c \in Seq(Byte) /\ Len(c) = Len(b) /\ bit \in BitsOf(c) /\ bit \in BitsOf(b)
  <2>1. bit \in BitsOf(b)
    BY DEF b
  <2>2. c \in Seq(Byte) /\ Len(c) = Len(b)
    BY <1>2, <2>1, Flipped
  <2> QED
    BY <2>1, <2>2 DEF BitsOf
<1>4. Arrives(b, c, {bit})
  BY <1>3 DEF Arrives
<1> HIDE DEF c
<1>5. /\ wire' # <<>> /\ OneAtMost(wire') /\ wire'[1] = c
      /\ \A i \in DOMAIN wire' : wire'[i] = c
  BY <1>1, OneDatagram
<1>6. TypeOK'
  BY <1>1, <1>2, <1>3, <1>5 DEF Inv, TypeOK
<1>7. LinkIsHonest'
  BY <1>1, <1>2, <1>4, <1>5 DEF LinkIsHonest
<1>8. /\ FeederInStep' /\ PacketIsNext' /\ InLockStep' /\ ClientInStep' /\ BufferIsFile'
  BY <1>1 DEF Inv, FeederInStep, Taken, PacketIsNext, InLockStep, ClientInStep,
              BufferIsFile, GetBuff, FinSeqno
<1> QED
  BY <1>6, <1>7, <1>8 DEF Inv

\* On the way back, too.
LEMMA DamageAckKeeps ==
  ASSUME Inv, back # <<>>, NEW bit \in BitsOf(back[1]), DamageAck(bit)
  PROVE  Inv'
<1> DEFINE b == back[1]
           c == Flip(b, bit)
           sent == SerializeAckPacket(CreateAckPacket(ackNo - 1))
<1>1. /\ damage = {} /\ damage' = {bit} /\ back' = <<c>>
      /\ UNCHANGED <<content, position, remain_size, lastPacket, seq_no, packet,
                     written, packets, ackNo, cDone, crashed, wire, fooled>>
  BY DEF DamageAck, MayDamage, serverVars, clientVars, feederVars, sinkVars
<1>2. /\ packet # <<>> /\ wire = <<>> /\ ackNo > 0 /\ b = sent
      /\ b \in Seq(Byte) /\ Len(b) = PCK_HEADER_SIZE
  <2>1. packet # <<>> /\ wire = <<>> /\ ackNo > 0 /\ Arrives(sent, b, damage)
    BY DEF Inv, LinkIsHonest
  <2>2. b = sent
    BY <1>1, <2>1 DEF Arrives
  <2>3. back = <<b>>
    BY DEF Inv, TypeOK, OneAtMost
  <2>4. 1 \in DOMAIN back
    BY <2>3
  <2>5. b \in Seq(Byte) /\ Len(b) = PCK_HEADER_SIZE
    BY <2>4 DEF Inv, TypeOK
  <2> QED
    BY <2>1, <2>2, <2>5
<1>8. sent' = sent
  BY <1>1
<1> HIDE DEF b, sent
<1>3. c \in Seq(Byte) /\ Len(c) = Len(b) /\ bit \in BitsOf(c) /\ bit \in BitsOf(b)
  <2>1. bit \in BitsOf(b)
    BY DEF b
  <2>2. c \in Seq(Byte) /\ Len(c) = Len(b)
    BY <1>2, <2>1, Flipped
  <2> QED
    BY <2>1, <2>2 DEF BitsOf
<1>4. Arrives(b, c, {bit})
  BY <1>3 DEF Arrives
<1> HIDE DEF c
<1>5. /\ back' # <<>> /\ OneAtMost(back') /\ back'[1] = c
      /\ \A i \in DOMAIN back' : back'[i] = c
  BY <1>1, OneDatagram
<1>6. TypeOK'
  BY <1>1, <1>2, <1>3, <1>5 DEF Inv, TypeOK
<1>7. LinkIsHonest'
  BY <1>1, <1>2, <1>4, <1>5 DEF LinkIsHonest, sent
<1>9. /\ FeederInStep' /\ PacketIsNext' /\ InLockStep' /\ ClientInStep' /\ BufferIsFile'
  BY <1>1 DEF Inv, FeederInStep, Taken, PacketIsNext, InLockStep, ClientInStep,
              BufferIsFile, GetBuff, FinSeqno
<1> QED
  BY <1>6, <1>7, <1>9 DEF Inv

\* An acknowledgement that is accepted says that the client is one ahead: the
\* other number it could carry has another lowest byte.
LEMMA AwaitedIsNext ==
  ASSUME Inv, back # <<>>
  PROVE  LET q == DeserializeAckPacket(back[1])
         IN  /\ Awaited(q) => ackNo = seq_no + 1
             /\ damage = {} /\ ackNo = seq_no + 1 => Awaited(q)
<1> DEFINE n == ackNo - 1
           p == CreateAckPacket(n)
           q == DeserializeAckPacket(back[1])
<1>1. /\ packet # <<>> /\ ackNo > 0 /\ Arrives(SerializeAckPacket(p), back[1], damage)
      /\ ackNo \in {seq_no, seq_no + 1}
  BY DEF Inv, LinkIsHonest, InLockStep
<1>2. /\ content \in Contents /\ FinSeqno = Len(Segments(content)) /\ FinSeqno \in Nat
      /\ seq_no \in Nat /\ ackNo \in Nat /\ seq_no <= FinSeqno
  BY <1>1, StateFacts
<1>3. n \in Nat /\ n <= Len(Segments(content))
  BY <1>1, <1>2
<1> HIDE DEF n
<1>4. ToUint32(n) \in Uint32
  BY <1>2, <1>3, NumberInRange
<1>5. p \in AckPacket /\ p.ackno = ToUint32(n) /\ VerifyChecksumAck(p)
  BY <1>3, <1>4, AckMade
<1> HIDE DEF p, q
<1>6. ASSUME Awaited(q) PROVE ackNo = seq_no + 1
  <2>1. VerifyChecksumAck(q) /\ q.ackno = ToUint32(seq_no)
    BY <1>6 DEF Awaited
  <2>2. q.ackno.lo % 256 = p.ackno.lo % 256
    BY <1>1, <1>5, <2>1, VerifiedAck DEF q
  <2>3. CASE ackNo = seq_no
    <3>1. seq_no = n + 1
      BY <1>2, <1>3, <2>3 DEF n
    <3> QED
      BY <1>3, <1>5, <2>1, <2>2, <3>1, LowByteTells
  <2> QED
    BY <1>1, <2>3
<1>7. ASSUME damage = {}, ackNo = seq_no + 1 PROVE Awaited(q)
  <2>1. q = p
    BY <1>1, <1>5, <1>7, AckRoundTrip DEF Arrives, q
  <2>2. n = seq_no
    BY <1>2, <1>7 DEF n
  <2> QED
    BY <1>5, <2>1, <2>2 DEF Awaited
<1> QED
  BY <1>6, <1>7 DEF q

\* So the server moves on only when the client did.
LEMMA ReceiveAckKeeps ==
  ASSUME Inv, ReceiveAck
  PROVE  Inv'
<1>1. /\ back # <<>> /\ back' = <<>> /\ damage' = {}
      /\ UNCHANGED <<content, position, remain_size, lastPacket, written, packets,
                     ackNo, cDone, crashed, wire>>
  BY DEF ReceiveAck, clientVars, feederVars, sinkVars
<1>2. packet # <<>> /\ wire = <<>> /\ wire' = <<>>
  BY <1>1 DEF Inv, LinkIsHonest
<1>3. LinkIsHonest'
  BY <1>1, <1>2 DEF LinkIsHonest
<1>4. /\ seq_no \in Nat /\ ackNo \in Nat /\ FinSeqno \in Nat /\ FinSeqno' = FinSeqno
  BY <1>1, StateFacts DEF FinSeqno
<1>5. CASE Awaited(DeserializeAckPacket(back[1]))
  <2>1. seq_no' = seq_no + 1 /\ packet' = <<>> /\ fooled' = (fooled \/ damage # {})
    BY <1>5 DEF ReceiveAck, Accepted
  <2>2. ackNo = seq_no + 1
    BY <1>1, <1>5, AwaitedIsNext
  <2>3. TypeOK'
    BY <1>1, <1>2, <1>4, <2>1, NoDatagram DEF Inv, TypeOK
  <2>4. FeederInStep'
    <3>1. Taken' = Taken
      BY <1>2, <2>1 DEF Taken
    <3> QED
      BY <1>1, <1>4, <3>1 DEF Inv, FeederInStep
  <2>5. PacketIsNext'
    BY <2>1 DEF PacketIsNext
  <2>6. InLockStep'
    <3>1. ackNo' = seq_no'
      BY <1>1, <2>1, <2>2
    <3>2. ~fooled' => ~fooled
      BY <2>1
    <3>3. ~fooled => ~crashed /\ (cDone <=> ackNo > FinSeqno)
      BY DEF Inv, InLockStep
    <3>4. ~fooled' => ~crashed' /\ (cDone' <=> ackNo' > FinSeqno')
      BY <1>1, <1>4, <3>2, <3>3
    <3> QED
      BY <3>1, <3>4 DEF InLockStep
  <2>7. ClientInStep' /\ BufferIsFile'
    BY <1>1, <2>1 DEF Inv, ClientInStep, BufferIsFile, GetBuff
  <2> QED
    BY <1>3, <2>3, <2>4, <2>5, <2>6, <2>7 DEF Inv
<1>6. CASE ~Awaited(DeserializeAckPacket(back[1]))
  <2>1. UNCHANGED <<seq_no, packet, fooled>>
    BY <1>6 DEF ReceiveAck
  <2>2. TypeOK'
    BY <1>1, <1>2, <2>1, NoDatagram DEF Inv, TypeOK
  <2>3. /\ FeederInStep' /\ PacketIsNext' /\ InLockStep' /\ ClientInStep' /\ BufferIsFile'
    BY <1>1, <2>1 DEF Inv, FeederInStep, Taken, PacketIsNext, InLockStep, ClientInStep,
                      BufferIsFile, GetBuff, FinSeqno
  <2> QED
    BY <1>3, <2>2, <2>3 DEF Inv
<1> QED
  BY <1>5, <1>6

\* A packet is accepted by a client that waits for it, for the same reason.
LEMMA AcceptedIsNext ==
  ASSUME Inv, wire # <<>>
  PROVE  LET q == DeserializePacket(wire[1])
         IN  /\ Acceptable(q) => /\ ackNo = seq_no /\ q.len \in Nat
                                 /\ q.data \in Seq(Byte) /\ Len(q.data) = PCK_DATA_SIZE
             /\ damage = {} => q = packet[1] /\ VerifyChecksum(q) /\ Fits(q)
             /\ damage = {} /\ ackNo = seq_no => Acceptable(q)
             /\ packet # <<>> /\ back = <<>>
<1> DEFINE p == packet[1]
           q == DeserializePacket(wire[1])
<1>1. /\ packet # <<>> /\ back = <<>>
      /\ Arrives(SerializePacket(p), wire[1], damage)
      /\ ackNo \in {seq_no, seq_no + 1}
  BY DEF Inv, LinkIsHonest, InLockStep
<1>2. Carries(p, content, seq_no) /\ seq_no \in Nat
  BY <1>1, StateFacts
<1> HIDE DEF p, q
<1>3. /\ p \in WirePacket /\ Len(p.data) = PCK_DATA_SIZE /\ VerifyChecksum(p)
      /\ p.len = PCK_HEADER_SIZE + Len(SegmentAt(content, seq_no))
      /\ p.seqno = ToUint32(seq_no)
  BY <1>2 DEF Carries
<1>4. ASSUME Acceptable(q)
      PROVE  /\ ackNo = seq_no /\ q.len \in Nat
             /\ q.data \in Seq(Byte) /\ Len(q.data) = PCK_DATA_SIZE
  <2>1. VerifyChecksum(q) /\ q.seqno = ToUint32(ackNo)
    BY <1>4 DEF Acceptable
  <2>2. /\ q.len \in Nat /\ q.seqno.lo % 256 = p.seqno.lo % 256
        /\ q.data \in Seq(Byte) /\ Len(q.data) = PCK_DATA_SIZE
    BY <1>1, <1>3, <2>1, VerifiedData DEF q
  <2>3. ackNo # seq_no + 1
    <3>1. ToUint32(seq_no).lo % 256 # ToUint32(seq_no + 1).lo % 256
      BY <1>2, LowByteTells
    <3>2. ToUint32(ackNo).lo % 256 = ToUint32(seq_no).lo % 256
      BY <1>3, <2>1, <2>2
    <3> QED
      BY <3>1, <3>2
  <2> QED
    BY <1>1, <2>2, <2>3
<1>5. ASSUME damage = {}
      PROVE  q = p /\ VerifyChecksum(q) /\ Fits(q) /\ (ackNo = seq_no => Acceptable(q))
  <2>1. q = p
    BY <1>1, <1>3, <1>5, RoundTrip DEF Arrives, q
  <2>2. Fits(p)
    <3>1. /\ Len(SegmentAt(content, seq_no)) \in Nat
          /\ Len(SegmentAt(content, seq_no)) <= PCK_DATA_SIZE
          /\ PCK_DATA_SIZE \in Nat /\ PCK_HEADER_SIZE \in Nat
      BY <1>1, <1>2, StateFacts, SegmentBounds
    <3> QED
      BY <1>3, <3>1 DEF Fits
  <2> QED
    BY <1>3, <2>1, <2>2 DEF Acceptable
<1> QED
  BY <1>1, <1>4, <1>5 DEF p, q

\* A refused packet is answered with the number accepted last.
LEMMA RefuseKeeps ==
  ASSUME Inv, wire # <<>>, wire' = <<>>, damage' = {}, Refuse, UNCHANGED serverVars
  PROVE  Inv'
<1> DEFINE n == ackNo - 1
           b == SerializeAckPacket(CreateAckPacket(n))
<1>1. /\ UNCHANGED <<content, position, remain_size, lastPacket, seq_no, packet,
                     written, packets, ackNo, cDone, crashed, fooled>>
      /\ IF ackNo > 0 THEN back' = <<b>> ELSE back' = back
  BY DEF Refuse, Answer, serverVars, clientVars, feederVars, sinkVars
<1>2. packet # <<>> /\ back = <<>>
  BY AcceptedIsNext
<1>3. /\ content \in Contents /\ FinSeqno = Len(Segments(content)) /\ FinSeqno \in Nat
      /\ seq_no \in Nat /\ ackNo \in Nat /\ seq_no <= FinSeqno
      /\ ackNo \in {seq_no, seq_no + 1}
  BY <1>2, StateFacts DEF Inv, InLockStep
<1>4. TypeOK' /\ LinkIsHonest'
  <2>1. CASE ackNo > 0
    <3>1. n \in Nat /\ n <= Len(Segments(content))
      BY <1>3, <2>1
    <3> HIDE DEF n
    <3>2. b \in Seq(Byte) /\ Len(b) = PCK_HEADER_SIZE /\ Arrives(b, b, {})
      BY <1>3, <3>1, AckTyped
    <3>3. back' = <<b>>
      BY <1>1, <2>1
    <3>4. SerializeAckPacket(CreateAckPacket(ackNo' - 1)) = b
      BY <1>1 DEF n
    <3> HIDE DEF b
    <3>5. /\ back' # <<>> /\ OneAtMost(back') /\ back'[1] = b
          /\ \A i \in DOMAIN back' : back'[i] = b
      BY <3>3, OneDatagram
    <3>6. TypeOK'
      BY <1>1, <3>2, <3>5, NoDatagram DEF Inv, TypeOK
    <3>7. LinkIsHonest'
      BY <1>1, <1>2, <2>1, <3>2, <3>4, <3>5 DEF LinkIsHonest
    <3> QED
      BY <3>6, <3>7
  <2>2. CASE ~(ackNo > 0)
    <3>1. back' = <<>>
      BY <1>1, <1>2, <2>2
    <3>2. TypeOK'
      BY <1>1, <3>1, NoDatagram DEF Inv, TypeOK
    <3>3. LinkIsHonest'
      BY <3>1 DEF LinkIsHonest
    <3> QED
      BY <3>2, <3>3
  <2> QED
    BY <2>1, <2>2
<1>5. /\ FeederInStep' /\ PacketIsNext' /\ InLockStep' /\ ClientInStep' /\ BufferIsFile'
  BY <1>1 DEF Inv, FeederInStep, Taken, PacketIsNext, InLockStep, ClientInStep,
              BufferIsFile, GetBuff, FinSeqno
<1> QED
  BY <1>4, <1>5 DEF Inv

\* feed_next_data writes the bytes of an accepted packet, and keeps them.
LEMMA SinkFed ==
  ASSUME Inv, NEW q, NEW k \in Nat, k <= PCK_DATA_SIZE, q.len = PCK_HEADER_SIZE + k,
         q.data \in Seq(Byte), Len(q.data) = PCK_DATA_SIZE,
         ackNo <= FinSeqno, FeedNextData(ExtractPureData(q), ackNo)
  PROVE  /\ PureData(q) \in Seq(Byte) /\ Len(PureData(q)) = k
         /\ written' = written \o PureData(q)
         /\ packets' \in Seq(WirePacket)
         /\ BufferIsFile'
<1> DEFINE d == PureData(q)
           p == CreateDataPacket(CoreData(d), ackNo)
<1>1. /\ content \in Contents /\ FinSeqno = Len(Segments(content)) /\ ackNo \in Nat
      /\ PCK_HEADER_SIZE = 8 /\ packets \in Seq(WirePacket)
  BY StateFacts DEF Inv, TypeOK
<1>2. d \in Seq(Byte) /\ Len(d) = k
  <2>1. q.len - PCK_HEADER_SIZE = k /\ k \in 0 .. Len(q.data)
    BY <1>1
  <2> QED
    BY <2>1, FirstEntries DEF PureData
<1> HIDE DEF d
<1>3. written' = written \o d /\ packets' = Append(packets, p)
  <2>1. SubSeq(Padded(d), 1, Len(d)) = d
    BY <1>2, PaddedIs
  <2>2. CoreData(d).data = Padded(d) /\ CoreData(d).size = Len(d)
    BY DEF CoreData
  <2> QED
    BY <2>1, <2>2 DEF FeedNextData, ExtractPureData, d
<1>4. p \in WirePacket /\ PureData(p) = d
  <2>1. ToUint32(ackNo) \in Uint32
    BY <1>1, NumberInRange
  <2> QED
    BY <1>1, <1>2, <2>1, PacketMade
<1> HIDE DEF p
<1>5. packets' \in Seq(WirePacket)
  BY <1>1, <1>3, <1>4
<1>6. BuffOf(packets') = BuffOf(packets) \o d
  BY <1>1, <1>2, <1>3, <1>4, BuffGrows
<1>7. BuffOf(packets) = written
  BY DEF Inv, BufferIsFile, GetBuff, BuffOf
<1>8. BufferIsFile'
  BY <1>3, <1>6, <1>7 DEF BufferIsFile, GetBuff, BuffOf
<1> QED
  BY <1>2, <1>3, <1>5, <1>8 DEF d

\* Accepting a packet extends the client's file by the bytes it carries, or ends
\* it: by one segment, and after the last one, unless damage was accepted.
LEMMA AcceptKeeps ==
  ASSUME Inv, wire # <<>>, Reading, wire' = <<>>, damage' = {}, UNCHANGED serverVars,
         Acceptable(DeserializePacket(wire[1])), Fits(DeserializePacket(wire[1])),
         Accept(DeserializePacket(wire[1]))
  PROVE  Inv'
<1> DEFINE q == DeserializePacket(wire[1])
           k == q.len - PCK_HEADER_SIZE
           s == SegmentAt(content, seq_no)
           b == SerializeAckPacket(CreateAckPacket(ackNo))
<1>1. /\ ackNo = seq_no /\ q.len \in Nat
      /\ q.data \in Seq(Byte) /\ Len(q.data) = PCK_DATA_SIZE
      /\ packet # <<>> /\ back = <<>>
      /\ damage = {} => q = packet[1]
  BY AcceptedIsNext
<1>2. /\ content \in Contents /\ content \in Seq(Byte) /\ Len(content) \in Nat
      /\ FinSeqno = Len(Segments(content)) /\ FinSeqno \in Nat
      /\ seq_no \in Nat /\ seq_no <= FinSeqno /\ Carries(packet[1], content, seq_no)
      /\ PCK_HEADER_SIZE = 8 /\ PCK_DATA_SIZE \in Nat
  BY <1>1, StateFacts
<1>3. /\ k \in Nat /\ k <= PCK_DATA_SIZE /\ q.len = PCK_HEADER_SIZE + k
      /\ q.len = PCK_HEADER_SIZE <=> k = 0
  <2>1. k \in 0 .. PCK_DATA_SIZE
    BY DEF Fits
  <2> HIDE DEF q
  <2> QED
    BY <1>1, <1>2, <2>1
<1>4. /\ IF k = 0 THEN cDone' = TRUE /\ written' = written /\ packets' = packets
                  ELSE FeedNextData(ExtractPureData(q), ackNo) /\ cDone' = cDone
      /\ cDone = FALSE
  <2>1. q.len = PCK_HEADER_SIZE <=> k = 0
    BY <1>3
  <2> HIDE DEF k
  <2>2. cDone = FALSE
    BY DEF Reading, Inv, TypeOK
  <2> QED
    BY <2>1, <2>2 DEF Accept, sinkVars
<1>5. b \in Seq(Byte) /\ Len(b) = PCK_HEADER_SIZE /\ Arrives(b, b, {})
  BY <1>1, <1>2, AckTyped
<1>6. /\ back' = <<b>> /\ ackNo' = seq_no + 1 /\ fooled' = (fooled \/ damage # {})
      /\ UNCHANGED <<content, position, remain_size, lastPacket, seq_no, packet, crashed>>
  BY <1>1 DEF Accept, Answer, Accepted, serverVars, feederVars
<1>7. SerializeAckPacket(CreateAckPacket(ackNo' - 1)) = b /\ ackNo' > 0 /\ ackNo' \in Nat
  <2>1. ackNo' - 1 = ackNo /\ ackNo' > 0 /\ ackNo' \in Nat
    BY <1>1, <1>2, <1>6
  <2> QED
    BY <2>1
<1> HIDE DEF b, q, s, k
<1>8. /\ back' # <<>> /\ OneAtMost(back') /\ back'[1] = b
      /\ \A i \in DOMAIN back' : back'[i] = b
  BY <1>6, OneDatagram
<1>9. LinkIsHonest'
  BY <1>1, <1>5, <1>6, <1>7, <1>8 DEF LinkIsHonest
<1>10. FinSeqno' = FinSeqno
  BY <1>6 DEF FinSeqno
<1>11. /\ written \in Seq(Byte) /\ packets \in Seq(WirePacket) /\ BufferIsFile
       /\ fooled \in BOOLEAN /\ crashed \in BOOLEAN
       /\ ~fooled => ~crashed /\ written = SubSeq(content, 1, BytesIn(content, seq_no))
  BY <1>1 DEF Inv, ClientInStep, TypeOK, InLockStep
<1>12. /\ k # 0 => /\ PureData(q) \in Seq(Byte)
                   /\ written' = written \o PureData(q)
       /\ written' \in Seq(Byte) /\ packets' \in Seq(WirePacket) /\ BufferIsFile'
       /\ cDone' \in BOOLEAN
  <2>1. CASE k = 0
    <3>1. cDone' = TRUE /\ written' = written /\ packets' = packets
      BY <1>4, <2>1
    <3>2. BufferIsFile'
      BY <1>11, <3>1 DEF BufferIsFile, GetBuff
    <3> QED
      BY <1>11, <2>1, <3>1, <3>2
  <2>2. CASE k # 0
    <3>1. ackNo <= FinSeqno
      BY <1>1, <1>2
    <3>2. /\ PureData(q) \in Seq(Byte) /\ written' = written \o PureData(q)
          /\ packets' \in Seq(WirePacket) /\ BufferIsFile'
      BY <1>1, <1>3, <1>4, <2>2, <3>1, SinkFed
    <3>3. written' \in Seq(Byte)
      BY <1>11, <3>2, EndToEnd
    <3> QED
      BY <1>4, <2>2, <3>2, <3>3
  <2> QED
    BY <2>1, <2>2
<1>13. ASSUME ~fooled'
       PROVE  /\ ~crashed'
              /\ written' = SubSeq(content, 1, BytesIn(content, seq_no + 1))
              /\ cDone' <=> seq_no + 1 > FinSeqno
  <2>1. ~fooled /\ damage = {}
    BY <1>6, <1>13
  <2>2. k = Len(s) /\ PureData(q) = s
    <3>1. PureData(q) = s /\ q.len = PCK_HEADER_SIZE + Len(s)
      BY <1>1, <1>2, <2>1 DEF Carries, s
    <3>2. Len(s) \in Nat
      BY <1>2, SegmentBounds DEF s
    <3> QED
      BY <1>2, <1>3, <3>1, <3>2
  <2>3. /\ s \in Seq(Byte)
        /\ s = SubSeq(content, BytesIn(content, seq_no) + 1, BytesIn(content, seq_no + 1))
        /\ Len(s) \in Nat
        /\ Len(s) = BytesIn(content, seq_no + 1) - BytesIn(content, seq_no)
        /\ s = <<>> <=> seq_no >= FinSeqno
    BY <1>2, SegmentBounds DEF s
  <2>4. /\ BytesIn(content, seq_no) \in 0 .. Len(content)
        /\ BytesIn(content, seq_no + 1) \in 0 .. Len(content)
    <3>1. seq_no + 1 \in Nat
      BY <1>2
    <3> QED
      BY <1>2, <3>1, BytesGrow
  <2>5. CASE s = <<>>
    <3>1. k = 0
      BY <2>2, <2>5
    <3>2. seq_no = FinSeqno /\ BytesIn(content, seq_no) = BytesIn(content, seq_no + 1)
      <4>1. Len(s) = 0
        BY <2>5
      <4> QED
        BY <1>2, <2>3, <2>4, <2>5, <4>1
    <3>3. seq_no + 1 > FinSeqno
      BY <1>2, <3>2
    <3>4. cDone' = TRUE /\ written' = written
      BY <1>4, <3>1
    <3> QED
      BY <1>6, <1>11, <2>1, <3>2, <3>3, <3>4
  <2>6. CASE s # <<>>
    <3>1. k # 0
      <4>1. Len(s) # 0
        BY <2>3, <2>6
      <4> QED
        BY <2>2, <4>1
    <3>2. ~(seq_no + 1 > FinSeqno)
      BY <1>2, <2>3, <2>6
    <3>3. cDone' = FALSE
      BY <1>4, <3>1
    <3>4. written' = SubSeq(content, 1, BytesIn(content, seq_no + 1))
      <4>1. written = SubSeq(content, 1, BytesIn(content, seq_no)) /\ written' = written \o s
        BY <1>11, <1>12, <2>1, <2>2, <3>1
      <4>2. BytesIn(content, seq_no + 1) \in BytesIn(content, seq_no) .. Len(content)
        BY <2>3, <2>4
      <4> QED
        BY <1>2, <2>3, <2>4, <4>1, <4>2, PiecesJoin
    <3> QED
      BY <1>6, <1>11, <2>1, <3>2, <3>3, <3>4
  <2> QED
    BY <2>5, <2>6
<1>14. TypeOK'
  <2>1. fooled' \in BOOLEAN /\ crashed' \in BOOLEAN
    BY <1>6, <1>11
  <2> QED
    BY <1>5, <1>6, <1>7, <1>8, <1>12, <2>1, NoDatagram DEF Inv, TypeOK
<1>15. FeederInStep' /\ PacketIsNext'
  BY <1>6, <1>10 DEF Inv, FeederInStep, Taken, PacketIsNext
<1>16. InLockStep'
  <2>1. ackNo' \in {seq_no', seq_no' + 1} /\ packet' # <<>>
    BY <1>1, <1>6
  <2>2. ~fooled' => ~crashed' /\ (cDone' <=> ackNo' > FinSeqno')
    BY <1>6, <1>10, <1>13
  <2> QED
    BY <2>1, <2>2 DEF InLockStep
<1>17. ClientInStep'
  BY <1>6, <1>13 DEF ClientInStep
<1> QED
  BY <1>9, <1>12, <1>14, <1>15, <1>16, <1>17 DEF Inv

\* A length that a buffer cannot hold was damaged on its way.
LEMMA OverrunKeeps ==
  ASSUME Inv, wire # <<>>, wire' = <<>>, damage' = {}, UNCHANGED serverVars,
         ~Fits(DeserializePacket(wire[1])), Overrun
  PROVE  Inv'
<1>1. /\ UNCHANGED <<content, position, remain_size, lastPacket, seq_no, packet,
                     written, packets, ackNo, cDone, back>>
      /\ crashed' = TRUE /\ fooled' = (fooled \/ damage # {})
  BY DEF Overrun, Accepted, serverVars, feederVars, sinkVars
<1>2. back = <<>> /\ damage # {}
  BY AcceptedIsNext
<1>3. fooled' = TRUE
  BY <1>1, <1>2
<1>4. TypeOK'
  BY <1>1, <1>2, <1>3, NoDatagram DEF Inv, TypeOK
<1>5. LinkIsHonest'
  BY <1>1, <1>2 DEF LinkIsHonest
<1>6. InLockStep' /\ ClientInStep'
  BY <1>1, <1>3 DEF Inv, InLockStep, ClientInStep
<1>7. FeederInStep' /\ PacketIsNext' /\ BufferIsFile'
  BY <1>1 DEF Inv, FeederInStep, Taken, PacketIsNext, BufferIsFile, GetBuff, FinSeqno
<1> QED
  BY <1>4, <1>5, <1>6, <1>7 DEF Inv

\* The four things that may happen to a packet that arrives.
LEMMA ReceiveKeeps ==
  ASSUME Inv, ReceivePacket
  PROVE  Inv'
<1> DEFINE q == DeserializePacket(wire[1])
<1>1. wire # <<>> /\ wire' = <<>> /\ damage' = {} /\ UNCHANGED serverVars
  BY DEF ReceivePacket
<1>2. \/ Reading /\ Acceptable(q) /\ Fits(q) /\ Accept(q)
      \/ Reading /\ Acceptable(q) /\ ~Fits(q) /\ Overrun
      \/ Reading /\ ~Acceptable(q) /\ Refuse
      \/ ~Reading /\ UNCHANGED <<clientVars, back, fooled>>
  BY DEF ReceivePacket
<1>3. CASE Reading /\ Acceptable(q) /\ Fits(q) /\ Accept(q)
  BY <1>1, <1>3, AcceptKeeps
<1>4. CASE Reading /\ Acceptable(q) /\ ~Fits(q) /\ Overrun
  BY <1>1, <1>4, OverrunKeeps
<1>5. CASE Reading /\ ~Acceptable(q) /\ Refuse
  BY <1>1, <1>5, RefuseKeeps
<1>6. CASE ~Reading /\ UNCHANGED <<clientVars, back, fooled>>
  <2>1. UNCHANGED <<content, position, remain_size, lastPacket, seq_no, packet,
                    written, packets, ackNo, cDone, crashed, back, fooled>>
    BY <1>1, <1>6 DEF serverVars, clientVars, feederVars, sinkVars
  <2>2. back = <<>>
    BY <1>1 DEF Inv, LinkIsHonest
  <2>3. TypeOK'
    BY <1>1, <2>1, <2>2, NoDatagram DEF Inv, TypeOK
  <2>4. LinkIsHonest'
    BY <1>1, <2>1, <2>2 DEF LinkIsHonest
  <2>5. /\ FeederInStep' /\ PacketIsNext' /\ InLockStep' /\ ClientInStep' /\ BufferIsFile'
    BY <2>1 DEF Inv, FeederInStep, Taken, PacketIsNext, InLockStep, ClientInStep,
                BufferIsFile, GetBuff, FinSeqno
  <2> QED
    BY <2>3, <2>4, <2>5 DEF Inv
<1> QED
  BY <1>2, <1>3, <1>4, <1>5, <1>6

\* Every step keeps the invariant.
LEMMA Preserved == Inv /\ [Next]_vars => Inv'
<1> SUFFICES ASSUME Inv, [Next]_vars PROVE Inv'
  OBVIOUS
<1>1. CASE MakePacket
  BY <1>1, MakeKeeps
<1>2. CASE SendPacket
  BY <1>2, SendKeeps
<1>3. CASE ReceivePacket
  BY <1>3, ReceiveKeeps
<1>4. CASE ReceiveAck
  BY <1>4, ReceiveAckKeeps
<1>5. CASE wire # <<>> /\ \E bit \in BitsOf(wire[1]) : DamagePacket(bit)
  BY <1>5, DamagePacketKeeps
<1>6. CASE back # <<>> /\ \E bit \in BitsOf(back[1]) : DamageAck(bit)
  BY <1>6, DamageAckKeeps
<1>7. CASE UNCHANGED vars
  BY <1>7 DEF vars, serverVars, clientVars, feederVars, sinkVars, Inv, TypeOK, FeederInStep,
     Taken, PacketIsNext, InLockStep, LinkIsHonest, ClientInStep, BufferIsFile, GetBuff, FinSeqno
<1> QED
  BY <1>1, <1>2, <1>3, <1>4, <1>5, <1>6, <1>7 DEF Next

-----------------------------------------------------------------------------
(* What follows.                                                            *)

\* Whichever bit is damaged, that of the length which the checksum cannot see
\* included, a packet or an acknowledgement is accepted in its turn or not at
\* all, the packets kept for get_buff hold the bytes of the client's file, and
\* until damage is accepted that file is the beginning of the server's, the
\* client stops with all of it and no copy is too long for its buffer.
THEOREM Invariance == Spec => []Inv
  BY Initial, Preserved, PTL DEF Spec

\* Everything has its type: every datagram its length, every number 32 bits, and
\* what the client writes and keeps is bytes, whatever length it accepted: one
\* too long for a buffer stops it before.
THEOREM TypeCorrect == Spec => []TypeOK
<1>1. Inv => TypeOK
  BY DEF Inv
<1> QED
  BY <1>1, Invariance, PTL

\* The client copies more than a buffer holds only if bit 8 of the length was
\* changed: for every size of a segment, every file and every other bit of a
\* datagram, what verifies has a length that fits.
THEOREM OverrunIsBit8 == Spec => []OnlyBit8Overruns
<1>1. Inv => OnlyBit8Overruns
  <2> DEFINE p == packet[1]
             q == DeserializePacket(wire[1])
  <2> SUFFICES ASSUME Inv, wire # <<>>, Acceptable(q), ~Fits(q), damage # {<<3, 1>>}
               PROVE  FALSE
    BY DEF OnlyBit8Overruns
  <2>1. /\ packet # <<>> /\ Arrives(SerializePacket(p), wire[1], damage)
        /\ VerifyChecksum(q)
    BY DEF Inv, LinkIsHonest, Acceptable
  <2>2. damage # {}
    BY AcceptedIsNext
  <2>3. Carries(p, content, seq_no) /\ seq_no \in Nat /\ content \in Seq(Byte)
    BY <2>1, StateFacts
  <2>4. /\ p \in WirePacket /\ Len(p.data) = PCK_DATA_SIZE /\ VerifyChecksum(p)
        /\ p.len = PCK_HEADER_SIZE + Len(SegmentAt(content, seq_no))
    BY <2>3 DEF Carries
  <2> HIDE DEF p
  <2>5. PICK bit \in BitsOf(SerializePacket(p)) :
          damage = {bit} /\ wire[1] = Flip(SerializePacket(p), bit)
    BY <2>1, <2>2 DEF Arrives
  <2>6. bit # <<3, 1>>
    BY <2>5
  <2>7. q.len = p.len
    BY <2>1, <2>4, <2>5, <2>6, PassesWithLength
  <2> HIDE DEF q
  <2>8. /\ Len(SegmentAt(content, seq_no)) \in Nat
        /\ Len(SegmentAt(content, seq_no)) <= PCK_DATA_SIZE
        /\ PCK_DATA_SIZE \in Nat /\ PCK_HEADER_SIZE \in Nat
    BY <2>3, StateFacts, SegmentBounds
  <2>9. Fits(q)
    BY <2>4, <2>7, <2>8 DEF Fits
  <2> QED
    BY <2>9 DEF q
<1> QED
  BY <1>1, Invariance, PTL

\* get_buff returns the bytes of the client's file.
THEOREM TwoWaysOneFile == Spec => []BufferIsFile
<1>1. Inv => BufferIsFile
  BY DEF Inv
<1> QED
  BY <1>1, Invariance, PTL

\* One changed bit is noticed wherever the checksum looks, except bit 8 of a
\* word, for packets of every size, content and number.
THEOREM DamageIsDetected == Spec => []DetectsDamage
<1>1. Inv => DetectsDamage
  <2> SUFFICES ASSUME Inv, packet # <<>>, NEW n \in Numbers \cup {seq_no}
               PROVE  /\ DetectedInData(CreateDataPacket(ExtractPureData(packet[1]), n))
                      /\ DetectedInAck(CreateAckPacket(n))
    BY DEF DetectsDamage
  <2>1. /\ content \in Contents /\ content \in Seq(Byte) /\ seq_no \in Nat
        /\ FinSeqno = Len(Segments(content)) /\ seq_no <= FinSeqno
        /\ Carries(packet[1], content, seq_no)
    BY StateFacts
  <2>2. n \in Nat /\ ToUint32(n) \in Uint32
    BY <2>1, NumberInRange, NumbersAssumption
  <2>3. DetectedInAck(CreateAckPacket(n))
    BY <2>2, AckMade, AckIsGuarded
  <2>4. DetectedInData(CreateDataPacket(ExtractPureData(packet[1]), n))
    <3> DEFINE s == SegmentAt(content, seq_no)
               p == CreateDataPacket(CoreData(s), n)
    <3>1. ExtractPureData(packet[1]) = CoreData(s)
      BY <2>1 DEF Carries
    <3>2. s \in Seq(Byte) /\ Len(s) <= PCK_DATA_SIZE
      BY <2>1, SegmentBounds
    <3> HIDE DEF s
    <3>3. p \in WirePacket /\ Len(p.data) = PCK_DATA_SIZE /\ VerifyChecksum(p)
      BY <2>2, <3>2, PacketMade
    <3> HIDE DEF p
    <3>4. DetectedInData(p)
      BY <3>3, DataIsGuarded
    <3> QED
      BY <3>1, <3>4 DEF p
  <2> QED
    BY <2>3, <2>4
<1> QED
  BY <1>1, Invariance, PTL

\* What arrives undamaged is what was sent, and an end that waits for it takes
\* it: no packet has a checksum that fails by itself.
THEOREM UndamagedAccepted == Spec => []UndamagedIsAccepted
<1>1. Inv => UndamagedIsAccepted
  <2> SUFFICES ASSUME Inv PROVE UndamagedIsAccepted
    OBVIOUS
  <2>1. wire # <<>> /\ damage = {} =>
          /\ DeserializePacket(wire[1]) = packet[1]
          /\ VerifyChecksum(DeserializePacket(wire[1]))
          /\ ackNo = seq_no => Acceptable(DeserializePacket(wire[1]))
    BY AcceptedIsNext
  <2>2. back # <<>> /\ damage = {} /\ ackNo = seq_no + 1 =>
          Awaited(DeserializeAckPacket(back[1]))
    BY AwaitedIsNext
  <2> QED
    BY <2>1, <2>2 DEF UndamagedIsAccepted
<1> QED
  BY <1>1, Invariance, PTL

\* What the other actions leave alone.
LEMMA Stays ==
  ASSUME [Next]_vars
  PROVE  /\ content' = content
         /\ ~MakePacket => UNCHANGED <<remain_size, lastPacket>>
                           /\ ~(packet = <<>> /\ packet' # <<>>)
         /\ ~ReceivePacket => UNCHANGED <<written, cDone>>
         /\ ~MakePacket /\ ~ReceiveAck => packet' = packet
         /\ fooled => fooled'
<1>1. CASE MakePacket
  BY <1>1 DEF MakePacket, GetNextDataSegment, clientVars, sinkVars
<1>2. CASE SendPacket
  BY <1>2 DEF SendPacket, serverVars, clientVars, feederVars, sinkVars
<1>3. CASE ReceivePacket
  <2>1. UNCHANGED <<content, position, remain_size, lastPacket, seq_no, packet>>
    BY <1>3 DEF ReceivePacket, serverVars, feederVars
  <2>2. fooled => fooled'
    <3> DEFINE q == DeserializePacket(wire[1])
    <3>1. \/ Accept(q) \/ Overrun \/ Refuse \/ UNCHANGED <<clientVars, back, fooled>>
      BY <1>3 DEF ReceivePacket
    <3> HIDE DEF q
    <3>2. Accept(q) => (fooled => fooled')
      BY DEF Accept, Accepted
    <3>3. Overrun => (fooled => fooled')
      BY DEF Overrun, Accepted
    <3>4. Refuse => fooled' = fooled
      BY DEF Refuse
    <3> QED
      BY <3>1, <3>2, <3>3, <3>4
  <2> QED
    BY <1>3, <2>1, <2>2
<1>4. CASE ReceiveAck
  BY <1>4 DEF ReceiveAck, feederVars, clientVars, sinkVars, Accepted
<1>5. CASE wire # <<>> /\ \E bit \in BitsOf(wire[1]) : DamagePacket(bit)
  BY <1>5 DEF DamagePacket, MayDamage, serverVars, clientVars, feederVars, sinkVars
<1>6. CASE back # <<>> /\ \E bit \in BitsOf(back[1]) : DamageAck(bit)
  BY <1>6 DEF DamageAck, MayDamage, serverVars, clientVars, feederVars, sinkVars
<1>7. CASE UNCHANGED vars
  BY <1>7 DEF vars, serverVars, clientVars, feederVars, sinkVars
<1> QED
  BY <1>1, <1>2, <1>3, <1>4, <1>5, <1>6, <1>7 DEF Next

\* The feeder's bytes as a number of segments.
LEMMA Remaining ==
  ASSUME Inv
  PROVE  (remain_size + PCK_DATA_SIZE - 1) \div PCK_DATA_SIZE =
           IF Taken < FinSeqno THEN FinSeqno - Taken ELSE 0
<1>1. /\ content \in Seq(Byte) /\ seq_no \in Nat /\ FinSeqno = Len(Segments(content))
  BY StateFacts
<1>2. Taken \in Nat
  BY <1>1 DEF Taken
<1>3. remain_size = Len(content) - BytesIn(content, Taken)
  BY DEF Inv, FeederInStep
<1>4. FinSeqno = Count(content)
  BY <1>1, CountIs
<1> QED
  BY <1>1, <1>2, <1>3, <1>4, SegmentsLeft

\* Also after a step.
LEMMA RemainingNext ==
  Inv' => (remain_size' + PCK_DATA_SIZE - 1) \div PCK_DATA_SIZE =
            IF Taken' < FinSeqno' THEN FinSeqno' - Taken' ELSE 0
<1>1. Inv => (remain_size + PCK_DATA_SIZE - 1) \div PCK_DATA_SIZE =
               IF Taken < FinSeqno THEN FinSeqno - Taken ELSE 0
  BY Remaining
<1>2. (Inv => (remain_size + PCK_DATA_SIZE - 1) \div PCK_DATA_SIZE =
                IF Taken < FinSeqno THEN FinSeqno - Taken ELSE 0)'
  BY <1>1, PTL
<1> QED
  BY <1>2

\* Counted in segments, the feeder of bytes is DataFeeder: every step is one of
\* its own, and the segment handed out is the one it says, for a file and a
\* segment of every size.
THEOREM FeederFeeds == Spec => FeedsSegments
<1>1. Inv /\ Inv' /\ [Next]_vars =>
        [\A f \in Contents : content = f =>
          /\ Feeder(f)!FeederStep
          /\ packet = <<>> /\ packet' # <<>> =>
               PureData(packet'[1]) = Feeder(f)!NextSegment]_vars
  <2> SUFFICES ASSUME Inv, Inv', [Next]_vars, NEW f \in Contents, content = f
               PROVE  /\ Feeder(f)!FeederStep
                      /\ packet = <<>> /\ packet' # <<>> =>
                           PureData(packet'[1]) = Feeder(f)!NextSegment
    OBVIOUS
  <2> DEFINE P == PCK_DATA_SIZE
             R == (remain_size + P - 1) \div P
  <2>1. CASE ~MakePacket
    BY <2>1, Stays DEF Feeder!FeederStep, Feeder!feederVars
  <2>2. CASE MakePacket
    <3>1. packet = <<>> /\ HasNext /\ packet' = <<CreateDataPacket(NextSegment, seq_no)>>
          /\ content' = content /\ seq_no' = seq_no
          /\ lastPacket' = (lastPacket \/ remain_size = 0)
      BY <2>2 DEF MakePacket, GetNextDataSegment
    <3>2. /\ seq_no \in Nat /\ FinSeqno \in Nat /\ FinSeqno = Len(Segments(content))
          /\ content \in Contents /\ FinSeqno' = FinSeqno
      BY <3>1, StateFacts DEF FinSeqno
    <3>3. /\ seq_no <= FinSeqno /\ NextSegment = CoreData(SegmentAt(content, seq_no))
          /\ remain_size = 0 <=> seq_no = FinSeqno
          /\ ~lastPacket
      BY <3>1, NextIs
    <3>4. R = IF seq_no < FinSeqno THEN FinSeqno - seq_no ELSE 0
      BY <3>1, Remaining DEF Taken
    <3>5. R' = IF seq_no + 1 < FinSeqno THEN FinSeqno - (seq_no + 1) ELSE 0
      <4>1. R' = IF Taken' < FinSeqno' THEN FinSeqno' - Taken' ELSE 0
        BY RemainingNext
      <4>2. Taken' = seq_no + 1
        BY <3>1 DEF Taken
      <4> QED
        BY <3>2, <4>1, <4>2
    <3>6. PureData(packet'[1]) = SegmentAt(content, seq_no)
      BY <3>1, <3>2, <3>3, PacketCarries DEF Carries
    <3> HIDE DEF R
    <3>7. CASE seq_no < FinSeqno
      <4>1. R > 0 /\ R' = R - 1 /\ FinSeqno - R + 1 = seq_no + 1 /\ lastPacket' = lastPacket
        <5>1. R > 0 /\ R' = R - 1 /\ FinSeqno - R + 1 = seq_no + 1 /\ seq_no # FinSeqno
          BY <3>2, <3>4, <3>5, <3>7
        <5>2. remain_size # 0
          BY <3>3, <5>1
        <5>3. lastPacket' = lastPacket
          <6>1. lastPacket \in BOOLEAN
            BY DEF Inv, TypeOK
          <6> QED
            BY <3>1, <5>2, <6>1
        <5> QED
          BY <5>1, <5>3
      <4>2. Feeder(f)!NextSegment = SegmentAt(content, seq_no)
        BY <3>2, <3>7, <4>1 DEF Feeder!NextSegment, SegmentAt, R
      <4>3. Feeder(f)!FeederStep
        BY <4>1 DEF Feeder!FeederStep, Feeder!HasNext, Feeder!GetNextDataSegment, R
      <4> QED
        BY <3>6, <4>2, <4>3
    <3>8. CASE seq_no = FinSeqno
      <4>1. ~(R > 0) /\ R' = R /\ lastPacket' = TRUE
        <5>1. ~(R > 0) /\ R' = R
          BY <3>2, <3>4, <3>5, <3>8
        <5>2. lastPacket' = TRUE
          BY <3>1, <3>3, <3>8
        <5> QED
          BY <5>1, <5>2
      <4>2. Feeder(f)!NextSegment = SegmentAt(content, seq_no)
        BY <3>2, <3>8, <4>1 DEF Feeder!NextSegment, SegmentAt, R
      <4>3. Feeder(f)!FeederStep
        BY <3>3, <4>1 DEF Feeder!FeederStep, Feeder!HasNext, Feeder!GetNextDataSegment, R
      <4> QED
        BY <3>6, <4>2, <4>3
    <3> QED
      BY <3>2, <3>3, <3>7, <3>8
  <2> QED
    BY <2>1, <2>2
<1> QED
  BY <1>1, Invariance, PTL DEF Spec, FeedsSegments

\* The client's file is made of the first segments of the server's.
LEMMA FileSegments ==
  ASSUME Inv, ~fooled
  PROVE  Segments(written) =
           SubSeq(Segments(content), 1, IF ackNo <= FinSeqno THEN ackNo ELSE FinSeqno)
<1> DEFINE f == content
           n == IF ackNo <= FinSeqno THEN ackNo ELSE FinSeqno
<1>1. /\ f \in Seq(Byte) /\ FinSeqno = Len(Segments(f)) /\ FinSeqno \in Nat /\ ackNo \in Nat
  BY StateFacts
<1>2. FinSeqno = Count(f)
  BY <1>1, CountIs
<1>3. n \in Nat /\ n <= Count(f)
  BY <1>1, <1>2
<1>4. BytesIn(f, n) = BytesIn(f, ackNo)
  <2>1. CASE ackNo <= FinSeqno
    BY <2>1
  <2>2. CASE ~(ackNo <= FinSeqno)
    <3>1. ~(FinSeqno < Count(f)) /\ ~(ackNo < Count(f)) /\ n = FinSeqno
      BY <1>1, <1>2, <2>2
    <3>2. BytesIn(f, FinSeqno) = Len(f) /\ BytesIn(f, ackNo) = Len(f)
      BY <1>1, <3>1, BytesGrow
    <3> QED
      BY <3>1, <3>2
  <2> QED
    BY <2>1, <2>2
<1> HIDE DEF n
<1>5. written = Beginning(f, n)
  BY <1>4 DEF Inv, ClientInStep, Beginning
<1>6. Segments(written) = SubSeq(Segments(f), 1, n)
  BY <1>1, <1>3, <1>5, SegmentsOfBeginning
<1> QED
  BY <1>6 DEF n

\* Also after a step.
LEMMA FileSegmentsNext ==
  Inv' /\ ~fooled' =>
    Segments(written') =
      SubSeq(Segments(content'), 1, IF ackNo' <= FinSeqno' THEN ackNo' ELSE FinSeqno')
<1>1. Inv /\ ~fooled =>
        Segments(written) =
          SubSeq(Segments(content), 1, IF ackNo <= FinSeqno THEN ackNo ELSE FinSeqno)
  BY FileSegments
<1>2. (Inv /\ ~fooled =>
        Segments(written) =
          SubSeq(Segments(content), 1, IF ackNo <= FinSeqno THEN ackNo ELSE FinSeqno))'
  BY <1>1, PTL
<1> QED
  BY <1>2

\* A server without a packet has all acknowledged, the empty one included, if
\* the feeder has no more.
LEMMA NoneLeft ==
  ASSUME Inv, packet = <<>>
  PROVE  HasNext <=> seq_no <= FinSeqno
<1> DEFINE a == BytesIn(content, seq_no)
<1>1. /\ content \in Seq(Byte) /\ Len(content) \in Nat /\ seq_no \in Nat
      /\ FinSeqno = Len(Segments(content)) /\ FinSeqno \in Nat
  BY StateFacts
<1>2. remain_size = Len(content) - a
  BY DEF Inv, FeederInStep, Taken
<1>3. lastPacket <=> seq_no > FinSeqno
  BY DEF Inv, FeederInStep, Taken
<1>4. FinSeqno = Count(content)
  BY <1>1, CountIs
<1>5. a \in 0 .. Len(content)
  BY <1>1, BytesGrow
<1>6. seq_no < FinSeqno <=> a < Len(content)
  BY <1>1, <1>4, BytesGrow
<1> HIDE DEF a
<1>7. remain_size > 0 => ~(seq_no > FinSeqno)
  BY <1>1, <1>2, <1>5, <1>6
<1>8. HasNext <=> ~(seq_no > FinSeqno)
  BY <1>3, <1>7 DEF HasNext
<1> QED
  BY <1>1, <1>8

\* Also after a step.
LEMMA NoneLeftNext == Inv' /\ packet' = <<>> => (HasNext' <=> seq_no' <= FinSeqno')
<1>1. Inv /\ packet = <<>> => (HasNext <=> seq_no <= FinSeqno)
  BY NoneLeft
<1>2. (Inv /\ packet = <<>> => (HasNext <=> seq_no <= FinSeqno))'
  BY <1>1, PTL
<1> QED
  BY <1>2

\* Byte for byte the transfer is ReliableTransfer, as long as no damage was
\* accepted: the client's file grows by segments of the server's, the client
\* stops with the whole file and the server reports success after that.
THEOREM FileIsTransferred == Spec => ImplementsReliableTransfer
<1>1. Inv /\ Inv' /\ [Next]_vars =>
        [\A f \in Contents : content = f /\ ~fooled' => RT(f)!Step]_vars
  <2> SUFFICES ASSUME Inv, Inv', [Next]_vars, NEW f \in Contents, content = f, ~fooled'
               PROVE  RT(f)!Step
    OBVIOUS
  <2> DEFINE file == Segments(f)
             done == packet = <<>> /\ ~HasNext
  <2>1. content' = content /\ ~fooled /\ FinSeqno' = FinSeqno
    BY Stays DEF FinSeqno
  <2>2. /\ content \in Contents /\ content \in Seq(Byte)
        /\ FinSeqno = Len(file) /\ FinSeqno \in Nat /\ ackNo \in Nat /\ seq_no \in Nat
    BY StateFacts
  <2>3. CASE ReceivePacket
    <3>1. wire # <<>> /\ UNCHANGED <<remain_size, lastPacket, packet>>
      BY <2>3 DEF ReceivePacket, serverVars, feederVars
    <3>2. packet # <<>>
      BY <3>1 DEF Inv, LinkIsHonest
    <3>3. done' = done /\ done = FALSE
      BY <3>1, <3>2
    <3> DEFINE q == DeserializePacket(wire[1])
    <3>4. CASE Reading /\ Acceptable(q) /\ Accept(q)
      <4>1. ackNo = seq_no /\ ackNo' = ackNo + 1 /\ seq_no <= FinSeqno
        BY <3>1, <3>2, <3>4, AcceptedIsNext, StateFacts DEF Accept, Reading
      <4> DEFINE n == IF ackNo' <= FinSeqno THEN ackNo' ELSE FinSeqno
      <4>2. Segments(written') = SubSeq(file, 1, n)
        BY <2>1, FileSegmentsNext
      <4>3. Segments(written) = SubSeq(file, 1, ackNo)
        BY <2>1, <4>1, FileSegments
      <4>4. Len(Segments(written)) = ackNo
        <5>1. file \in Seq(Seq(Byte)) /\ ackNo \in 0 .. Len(file)
          BY <2>2, <4>1, SegmentsTyped
        <5> QED
          BY <4>3, <5>1, FirstEntries
      <4>5. n \in Len(Segments(written)) .. Len(file)
        BY <2>2, <4>1, <4>4
      <4>6. cDone' \in {FALSE, n = Len(file)}
        <5>1. cDone' \in BOOLEAN /\ (cDone' <=> ackNo' > FinSeqno)
          BY <2>1 DEF Inv, TypeOK, InLockStep
        <5>2. ackNo' > FinSeqno => n = Len(file)
          BY <2>2, <4>1
        <5> QED
          BY <5>1, <5>2
      <4> HIDE DEF n, file
      <4>7. RT(f)!ClientWrites
        BY <3>3, <3>4, <4>2, <4>5, <4>6 DEF RT!ClientWrites, file, Reading
      <4> QED
        BY <4>7 DEF RT!Step, RT!Next
    <3>5. CASE ~(Reading /\ Acceptable(q) /\ Accept(q))
      <4>1. UNCHANGED <<written, cDone>>
        BY <2>3, <3>5 DEF ReceivePacket, Overrun, Refuse, clientVars, sinkVars
      <4> QED
        BY <3>3, <4>1 DEF RT!Step
    <3> QED
      BY <3>4, <3>5
  <2>4. CASE ReceiveAck
    <3>1. UNCHANGED <<remain_size, lastPacket, written, cDone, ackNo>>
      BY <2>4 DEF ReceiveAck, feederVars, clientVars, sinkVars
    <3>2. CASE done' = done
      BY <3>1, <3>2 DEF RT!Step
    <3>3. CASE done' # done
      <4>1. back # <<>> /\ Awaited(DeserializeAckPacket(back[1])) /\ seq_no' = seq_no + 1
            /\ packet' = <<>>
        BY <2>4, <3>1, <3>3 DEF ReceiveAck, HasNext
      <4>2. ackNo = seq_no + 1
        BY <4>1, AwaitedIsNext
      <4>3. done = FALSE
        <5>1. packet # <<>>
          BY <4>1 DEF Inv, LinkIsHonest
        <5> QED
          BY <5>1
      <4>4. done' = TRUE
        BY <3>3, <4>3
      <4>5. ~(seq_no' <= FinSeqno)
        BY <2>1, <4>1, <4>4, NoneLeftNext
      <4>6. cDone
        <5>1. ackNo > FinSeqno
          BY <2>2, <4>1, <4>2, <4>5
        <5> QED
          BY <2>1, <5>1 DEF Inv, InLockStep
      <4>7. RT(f)!ServerFinishes
        BY <3>1, <4>4, <4>6 DEF RT!ServerFinishes
      <4> QED
        BY <4>7 DEF RT!Step, RT!Next
    <3> QED
      BY <3>2, <3>3
  <2>5. CASE MakePacket
    <3>1. UNCHANGED <<written, cDone>>
      BY <2>5, Stays DEF MakePacket, clientVars, sinkVars
    <3>2. done = FALSE /\ done' = FALSE
      BY <2>5 DEF MakePacket
    <3> QED
      BY <3>1, <3>2 DEF RT!Step
  <2>6. CASE ~ReceivePacket /\ ~ReceiveAck /\ ~MakePacket
    <3>1. UNCHANGED <<written, cDone, remain_size, lastPacket, packet>>
      BY <2>6, Stays
    <3>2. done' = done
      BY <3>1 DEF HasNext
    <3> QED
      BY <3>1, <3>2 DEF RT!Step
  <2> QED
    BY <2>3, <2>4, <2>5, <2>6
<1> QED
  BY <1>1, Invariance, PTL DEF Spec, ImplementsReliableTransfer
=============================================================================
