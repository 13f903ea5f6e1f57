--------------------------- MODULE SequenceLemmas ---------------------------
(***************************************************************************)
(* Sequences and numbers, for the proofs of all modules: quotients, a      *)
(* smallest number and induction by it; what the list operations of the    *)
(* selective repeat servers do to the elements of a list without           *)
(* repetitions (erase one, or move the first k to the back, both the       *)
(* concatenation of two pieces); the pieces of a file.                     *)
(***************************************************************************)
EXTENDS Integers, Sequences, SequenceTheorems, WellFoundedInduction, TLAPS

Elements(s) == {s[i] : i \in 1 .. Len(s)}

NoRepeats(s) == \A i, j \in 1 .. Len(s) : s[i] = s[j] => i = j

Erased(s, i) == SubSeq(s, 1, i - 1) \o SubSeq(s, i + 1, Len(s))

Rotated(s, k) == SubSeq(s, k + 1, Len(s)) \o SubSeq(s, 1, k)

\* A piece of a sequence, entry by entry.
LEMMA Piece ==
  ASSUME NEW S, NEW s \in Seq(S), NEW m \in 1 .. Len(s) + 1,
         NEW n \in 0 .. Len(s), m <= n + 1
  PROVE  /\ SubSeq(s, m, n) \in Seq(S)
         /\ Len(SubSeq(s, m, n)) = n - m + 1
         /\ \A j \in 1 .. n - m + 1 : SubSeq(s, m, n)[j] = s[m + j - 1]
<1>1. Len(s) \in Nat /\ m \in Int /\ n \in Int
  OBVIOUS
<1>2. \A j \in m .. n : s[j] \in S
  BY <1>1
<1> QED
  BY <1>1, <1>2, SubSeqProperties

\* Two sequences end to end: the entries of the first, then of the second.
LEMMA EndToEnd ==
  ASSUME NEW S, NEW a \in Seq(S), NEW b \in Seq(S)
  PROVE  /\ a \o b \in Seq(S)
         /\ Len(a \o b) = Len(a) + Len(b)
         /\ \A j \in 1 .. Len(a) : (a \o b)[j] = a[j]
         /\ \A j \in 1 .. Len(b) : (a \o b)[Len(a) + j] = b[j]
<1>1. Len(a) \in Nat /\ Len(b) \in Nat
  OBVIOUS
<1>2. /\ a \o b \in Seq(S)
      /\ Len(a \o b) = Len(a) + Len(b)
      /\ \A j \in 1 .. Len(a) + Len(b) :
           (a \o b)[j] = IF j <= Len(a) THEN a[j] ELSE b[j - Len(a)]
  BY ConcatProperties
<1>3. ASSUME NEW j \in 1 .. Len(a)
      PROVE  (a \o b)[j] = a[j]
  BY <1>1, <1>2
<1>4. ASSUME NEW j \in 1 .. Len(b)
      PROVE  (a \o b)[Len(a) + j] = b[j]
  <2>1. /\ Len(a) + j \in 1 .. Len(a) + Len(b)
        /\ ~(Len(a) + j <= Len(a))
        /\ (Len(a) + j) - Len(a) = j
    BY <1>1
  <2> QED
    BY <1>2, <2>1
<1> QED
  BY <1>2, <1>3, <1>4

\* The first n entries of a sequence.
LEMMA FirstEntries ==
  ASSUME NEW S, NEW s \in Seq(S), NEW n \in 0 .. Len(s)
  PROVE  /\ SubSeq(s, 1, n) \in Seq(S)
         /\ Len(SubSeq(s, 1, n)) = n
         /\ \A j \in 1 .. n : SubSeq(s, 1, n)[j] = s[j]
<1>1. Len(s) \in Nat /\ 1 \in 1 .. Len(s) + 1 /\ 1 <= n + 1
  OBVIOUS
<1>2. /\ SubSeq(s, 1, n) \in Seq(S)
      /\ Len(SubSeq(s, 1, n)) = n - 1 + 1
      /\ \A j \in 1 .. n - 1 + 1 : SubSeq(s, 1, n)[j] = s[1 + j - 1]
  BY <1>1, Piece
<1> QED
  BY <1>1, <1>2

\* With the next entry they are the first n + 1.
LEMMA FirstEntriesGrow ==
  ASSUME NEW S, NEW s \in Seq(S), NEW n \in Nat, n < Len(s)
  PROVE  SubSeq(s, 1, n) \o <<s[n + 1]>> = SubSeq(s, 1, n + 1)
<1> DEFINE a == SubSeq(s, 1, n)
           t == SubSeq(s, 1, n + 1)
           e == <<s[n + 1]>>
           u == a \o e
<1>1. Len(s) \in Nat /\ n \in 0 .. Len(s) /\ n + 1 \in 0 .. Len(s) /\ n + 1 \in 1 .. Len(s)
  OBVIOUS
<1>2. /\ a \in Seq(S) /\ Len(a) = n /\ \A j \in 1 .. n : a[j] = s[j]
      /\ t \in Seq(S) /\ Len(t) = n + 1 /\ \A j \in 1 .. n + 1 : t[j] = s[j]
  BY <1>1, FirstEntries
<1>3. e \in Seq(S) /\ Len(e) = 1 /\ e[1] = s[n + 1]
  BY <1>1
<1> HIDE DEF a, t, e
<1>4. /\ u \in Seq(S) /\ Len(u) = n + 1
      /\ \A j \in 1 .. n : u[j] = a[j]
      /\ u[n + 1] = e[1]
  <2>1. /\ a \o e \in Seq(S) /\ Len(a \o e) = Len(a) + Len(e)
        /\ \A j \in 1 .. Len(a) : (a \o e)[j] = a[j]
        /\ \A j \in 1 .. Len(e) : (a \o e)[Len(a) + j] = e[j]
    <3>1. a \in Seq(S) /\ e \in Seq(S)
      BY <1>2, <1>3
    <3> QED
      BY <3>1, EndToEnd
  <2>2. 1 \in 1 .. Len(e)
    BY <1>3
  <2> QED
    BY <1>2, <1>3, <2>1, <2>2
<1> HIDE DEF u
<1>5. \A j \in 1 .. n + 1 : u[j] = t[j]
  BY <1>1, <1>2, <1>3, <1>4
<1>6. u = t
  BY <1>2, <1>4, <1>5, SeqEqual
<1> QED
  BY <1>6 DEF u, a, t, e

\* The elements of two sequences end to end are those of both, and nothing is
\* repeated if neither repeats anything and they share nothing.
LEMMA EndToEndElements ==
  ASSUME NEW S, NEW a \in Seq(S), NEW b \in Seq(S)
  PROVE  /\ Elements(a \o b) = Elements(a) \cup Elements(b)
         /\ NoRepeats(a) /\ NoRepeats(b) /\ Elements(a) \cap Elements(b) = {}
              => NoRepeats(a \o b)
<1> DEFINE t == a \o b
<1>1. Len(a) \in Nat /\ Len(b) \in Nat
  OBVIOUS
<1>2. /\ Len(t) = Len(a) + Len(b)
      /\ \A j \in 1 .. Len(a) : t[j] = a[j]
      /\ \A j \in 1 .. Len(b) : t[Len(a) + j] = b[j]
  BY EndToEnd
<1> HIDE DEF t
<1>3. \A j \in 1 .. Len(t) :
        \/ j \in 1 .. Len(a) /\ t[j] = a[j]
        \/ j - Len(a) \in 1 .. Len(b) /\ t[j] = b[j - Len(a)]
  <2> SUFFICES ASSUME NEW j \in 1 .. Len(t), j \notin 1 .. Len(a)
               PROVE  j - Len(a) \in 1 .. Len(b) /\ t[j] = b[j - Len(a)]
    BY <1>2
  <2>1. j - Len(a) \in 1 .. Len(b) /\ Len(a) + (j - Len(a)) = j
    BY <1>1, <1>2
  <2> QED
    BY <1>2, <2>1
<1>4. Elements(t) \subseteq Elements(a) \cup Elements(b)
  BY <1>3 DEF Elements
<1>5. Elements(a) \subseteq Elements(t)
  <2>1. \A j \in 1 .. Len(a) : j \in 1 .. Len(t)
    BY <1>1, <1>2
  <2> QED
    BY <1>2, <2>1 DEF Elements
<1>6. Elements(b) \subseteq Elements(t)
  <2>1. \A j \in 1 .. Len(b) : Len(a) + j \in 1 .. Len(t)
    BY <1>1, <1>2
  <2> QED
    BY <1>2, <2>1 DEF Elements
<1>7. ASSUME NoRepeats(a), NoRepeats(b), Elements(a) \cap Elements(b) = {},
             NEW i \in 1 .. Len(t), NEW j \in 1 .. Len(t), t[i] = t[j]
      PROVE  i = j
  <2>1. CASE i \in 1 .. Len(a) /\ t[i] = a[i] /\ j \in 1 .. Len(a) /\ t[j] = a[j]
    BY <1>7, <2>1 DEF NoRepeats
  <2>2. CASE /\ i - Len(a) \in 1 .. Len(b) /\ t[i] = b[i - Len(a)]
             /\ j - Len(a) \in 1 .. Len(b) /\ t[j] = b[j - Len(a)]
    <3>1. i - Len(a) = j - Len(a)
      BY <1>7, <2>2 DEF NoRepeats
    <3> QED
      BY <1>1, <1>2, <3>1
  <2>3. CASE /\ i \in 1 .. Len(a) /\ t[i] = a[i]
             /\ j - Len(a) \in 1 .. Len(b) /\ t[j] = b[j - Len(a)]
    BY <1>7, <2>3 DEF Elements
  <2>4. CASE /\ i - Len(a) \in 1 .. Len(b) /\ t[i] = b[i - Len(a)]
             /\ j \in 1 .. Len(a) /\ t[j] = a[j]
    BY <1>7, <2>4 DEF Elements
  <2> QED
    BY <1>3, <2>1, <2>2, <2>3, <2>4
<1>8. NoRepeats(a) /\ NoRepeats(b) /\ Elements(a) \cap Elements(b) = {}
        => NoRepeats(t)
  BY <1>7 DEF NoRepeats
<1> QED
  BY <1>4, <1>5, <1>6, <1>8 DEF t

\* Appending adds one element.
LEMMA AppendElement ==
  ASSUME NEW S, NEW s \in Seq(S), NEW e \in S
  PROVE  Elements(Append(s, e)) = Elements(s) \cup {e}
<1>1. /\ Len(s) \in Nat /\ Len(Append(s, e)) = Len(s) + 1
      /\ \A j \in 1 .. Len(s) : Append(s, e)[j] = s[j]
      /\ Append(s, e)[Len(s) + 1] = e
  OBVIOUS
<1>2. \A j : j \in 1 .. Len(s) + 1 <=> j \in 1 .. Len(s) \/ j = Len(s) + 1
  BY <1>1
<1> QED
  BY <1>1, <1>2 DEF Elements

\* A piece of a list without repetitions: its elements are the entries of the
\* list from m to n.
LEMMA PieceElements ==
  ASSUME NEW S, NEW s \in Seq(S), NEW m \in 1 .. Len(s) + 1,
         NEW n \in 0 .. Len(s), m <= n + 1
  PROVE  /\ Elements(SubSeq(s, m, n)) = {s[j] : j \in m .. n}
         /\ NoRepeats(s) => NoRepeats(SubSeq(s, m, n))
<1> DEFINE t == SubSeq(s, m, n)
<1>1. Len(s) \in Nat /\ m \in Int /\ n \in Int
  OBVIOUS
<1>2. Len(t) = n - m + 1 /\ \A j \in 1 .. n - m + 1 : t[j] = s[m + j - 1]
  BY Piece
<1> HIDE DEF t
<1>3. \A j \in 1 .. Len(t) : m + j - 1 \in m .. n /\ t[j] = s[m + j - 1]
  BY <1>1, <1>2
<1>4. \A j \in m .. n : j - m + 1 \in 1 .. Len(t) /\ t[j - m + 1] = s[j]
  <2> SUFFICES ASSUME NEW j \in m .. n
               PROVE  j - m + 1 \in 1 .. Len(t) /\ t[j - m + 1] = s[j]
    OBVIOUS
  <2>1. j - m + 1 \in 1 .. Len(t) /\ m + (j - m + 1) - 1 = j
    BY <1>1, <1>2
  <2> QED
    BY <1>3, <2>1
<1>5. Elements(t) = {s[j] : j \in m .. n}
  <2>1. Elements(t) \subseteq {s[j] : j \in m .. n}
    BY <1>3 DEF Elements
  <2>2. {s[j] : j \in m .. n} \subseteq Elements(t)
    BY <1>4 DEF Elements
  <2> QED
    BY <2>1, <2>2
<1>6. ASSUME NoRepeats(s), NEW i \in 1 .. Len(t), NEW j \in 1 .. Len(t),
             t[i] = t[j]
      PROVE  i = j
  <2>1. m + i - 1 \in 1 .. Len(s) /\ m + j - 1 \in 1 .. Len(s)
    BY <1>1, <1>3
  <2>2. m + i - 1 = m + j - 1
    BY <1>3, <1>6, <2>1 DEF NoRepeats
  <2> QED
    BY <1>1, <1>2, <2>2
<1> QED
  BY <1>5, <1>6 DEF NoRepeats, t

\* Erasing an entry of a list without repetitions removes that element and
\* nothing else.
LEMMA Erase ==
  ASSUME NEW S, NEW s \in Seq(S), NEW i \in 1 .. Len(s), NoRepeats(s)
  PROVE  /\ Erased(s, i) \in Seq(S)
         /\ NoRepeats(Erased(s, i))
         /\ Elements(Erased(s, i)) = Elements(s) \ {s[i]}
<1> DEFINE a == SubSeq(s, 1, i - 1)
           b == SubSeq(s, i + 1, Len(s))
<1>1. /\ Len(s) \in Nat /\ i \in 1 .. Len(s)
      /\ 1 \in 1 .. Len(s) + 1 /\ i - 1 \in 0 .. Len(s) /\ 1 <= (i - 1) + 1
      /\ i + 1 \in 1 .. Len(s) + 1 /\ Len(s) \in 0 .. Len(s) /\ i + 1 <= Len(s) + 1
  OBVIOUS
<1>2. /\ a \in Seq(S) /\ NoRepeats(a) /\ Elements(a) = {s[j] : j \in 1 .. i - 1}
      /\ b \in Seq(S) /\ NoRepeats(b)
      /\ Elements(b) = {s[j] : j \in i + 1 .. Len(s)}
  <2>1. a \in Seq(S) /\ NoRepeats(a) /\ Elements(a) = {s[j] : j \in 1 .. i - 1}
    BY <1>1, Piece, PieceElements
  <2>2. b \in Seq(S) /\ NoRepeats(b) /\ Elements(b) = {s[j] : j \in i + 1 .. Len(s)}
    BY <1>1, Piece, PieceElements
  <2> QED
    BY <2>1, <2>2
<1> HIDE DEF a, b
<1>3. Elements(a) \cap Elements(b) = {}
  <2>1. \A x \in 1 .. i - 1, y \in i + 1 .. Len(s) : s[x] # s[y]
    BY <1>1 DEF NoRepeats
  <2> QED
    BY <1>2, <2>1
<1>4. /\ a \o b \in Seq(S) /\ NoRepeats(a \o b)
      /\ Elements(a \o b) = Elements(a) \cup Elements(b)
  <2>1. a \in Seq(S) /\ b \in Seq(S) /\ NoRepeats(a) /\ NoRepeats(b)
    BY <1>2
  <2>2. a \o b \in Seq(S)
    BY <2>1
  <2> QED
    BY <1>3, <2>1, <2>2, EndToEndElements
<1>5. Elements(a) \cup Elements(b) = Elements(s) \ {s[i]}
  <2>1. \A j \in 1 .. Len(s) : j \in 1 .. i - 1 \/ j = i \/ j \in i + 1 .. Len(s)
    BY <1>1
  <2>2. \A j \in (1 .. i - 1) \cup (i + 1 .. Len(s)) : j \in 1 .. Len(s) /\ j # i
    BY <1>1
  <2>3. \A j \in 1 .. Len(s) : j # i => s[j] # s[i]
    BY <1>1 DEF NoRepeats
  <2>4. Elements(a) \cup Elements(b) \subseteq Elements(s) \ {s[i]}
    BY <1>2, <2>2, <2>3 DEF Elements
  <2>5. Elements(s) \ {s[i]} \subseteq Elements(a) \cup Elements(b)
    BY <1>2, <2>1 DEF Elements
  <2> QED
    BY <2>4, <2>5
<1> QED
  BY <1>4, <1>5 DEF a, b, Erased

\* Moving the first k entries to the back neither loses nor repeats an element.
LEMMA MoveToBack ==
  ASSUME NEW S, NEW s \in Seq(S), NEW k \in 0 .. Len(s), NoRepeats(s)
  PROVE  /\ Rotated(s, k) \in Seq(S)
         /\ NoRepeats(Rotated(s, k))
         /\ Elements(Rotated(s, k)) = Elements(s)
<1> DEFINE a == SubSeq(s, k + 1, Len(s))
           b == SubSeq(s, 1, k)
<1>1. /\ Len(s) \in Nat /\ k \in 0 .. Len(s)
      /\ k + 1 \in 1 .. Len(s) + 1 /\ Len(s) \in 0 .. Len(s) /\ k + 1 <= Len(s) + 1
      /\ 1 \in 1 .. Len(s) + 1 /\ 1 <= k + 1
  OBVIOUS
<1>2. /\ a \in Seq(S) /\ NoRepeats(a)
      /\ Elements(a) = {s[j] : j \in k + 1 .. Len(s)}
      /\ b \in Seq(S) /\ NoRepeats(b) /\ Elements(b) = {s[j] : j \in 1 .. k}
  <2>1. a \in Seq(S) /\ NoRepeats(a) /\ Elements(a) = {s[j] : j \in k + 1 .. Len(s)}
    BY <1>1, Piece, PieceElements
  <2>2. b \in Seq(S) /\ NoRepeats(b) /\ Elements(b) = {s[j] : j \in 1 .. k}
    BY <1>1, Piece, PieceElements
  <2> QED
    BY <2>1, <2>2
<1> HIDE DEF a, b
<1>3. Elements(a) \cap Elements(b) = {}
  BY <1>1, <1>2 DEF NoRepeats
<1>4. /\ a \o b \in Seq(S) /\ NoRepeats(a \o b)
      /\ Elements(a \o b) = Elements(a) \cup Elements(b)
  <2>1. a \in Seq(S) /\ b \in Seq(S) /\ NoRepeats(a) /\ NoRepeats(b)
    BY <1>2
  <2>2. a \o b \in Seq(S)
    BY <2>1
  <2> QED
    BY <1>3, <2>1, <2>2, EndToEndElements
<1>5. Elements(a) \cup Elements(b) = Elements(s)
  <2>1. \A j : j \in 1 .. Len(s) <=> j \in k + 1 .. Len(s) \/ j \in 1 .. k
    BY <1>1
  <2> QED
    BY <1>2, <2>1 DEF Elements
<1> QED
  BY <1>4, <1>5 DEF a, b, Rotated

\* A natural number as a multiple and a remainder.
LEMMA Quotient ==
  ASSUME NEW x \in Nat, NEW y \in Nat \ {0}
  PROVE  /\ x \div y \in Nat /\ x % y \in Nat /\ x % y < y
         /\ x = (y * (x \div y)) + (x % y)
OBVIOUS

\* Multiplying keeps the order.
LEMMA Monotone ==
  ASSUME NEW p \in Nat, NEW m \in Nat, NEW n \in Nat, m <= n
  PROVE  m * p \in Nat /\ n * p \in Nat /\ m * p <= n * p
<1>1. PICK k \in Nat : n = m + k
  <2>1. n - m \in Nat /\ n = m + (n - m)
    OBVIOUS
  <2> QED
    BY <2>1
<1>2. m * p \in Nat /\ k * p \in Nat /\ n * p \in Nat
  OBVIOUS
<1>3. n * p = m * p + k * p
  BY <1>1
<1> QED
  BY <1>2, <1>3

\* There is one such pair.
LEMMA DivIs ==
  ASSUME NEW p \in Nat \ {0}, NEW n \in Nat, NEW r \in Nat, r < p, NEW x \in Nat,
         x = n * p + r
  PROVE  x \div p = n
<1>1. PICK q \in Nat, t \in Nat : q = x \div p /\ t < p /\ x = (p * q) + t
  BY Quotient
<1>2. p * q = q * p /\ q * p \in Nat /\ n * p \in Nat /\ p \in Nat
  OBVIOUS
<1>3. ASSUME q < n PROVE FALSE
  <2>1. q + 1 <= n /\ q + 1 \in Nat
    BY <1>3
  <2>2. (q + 1) * p <= n * p
    BY <1>2, <2>1, Monotone
  <2>3. (q + 1) * p = q * p + p
    BY <1>2
  <2> QED
    BY <1>1, <1>2, <2>2, <2>3
<1>4. ASSUME n < q PROVE FALSE
  <2>1. n + 1 <= q /\ n + 1 \in Nat
    BY <1>4
  <2>2. (n + 1) * p <= q * p
    BY <1>2, <2>1, Monotone
  <2>3. (n + 1) * p = n * p + p
    BY <1>2
  <2> QED
    BY <1>1, <1>2, <2>2, <2>3
<1> QED
  BY <1>1, <1>3, <1>4

\* A set of natural numbers has a smallest element, unless it is empty.
LEMMA Smallest ==
  ASSUME NEW T \in SUBSET Nat, T # {}
  PROVE  \E m \in T : \A n \in T : m <= n
<1> DEFINE Less == {r \in Nat \X Nat : r[1] < r[2]}
<1>0. OpToRel(<, Nat) = Less
  BY Zenon DEF OpToRel
<1>1. PICK m \in T : \A n \in T : ~(<<n, m>> \in Less)
  BY <1>0, NatLessThanWellFounded, WFMin, Zenon
<1>2. ASSUME NEW n \in T PROVE m <= n
  <2>1. m \in Nat /\ n \in Nat /\ (n < m => <<n, m>> \in Less)
    OBVIOUS
  <2> QED BY <1>1, <2>1
<1> QED
  BY <1>2

\* Induction over the natural numbers, for a set instead of a predicate.
LEMMA SetInduction ==
  ASSUME NEW T \in SUBSET Nat, 0 \in T, \A n \in T : n + 1 \in T
  PROVE  T = Nat
<1> SUFFICES ASSUME Nat \ T # {} PROVE FALSE
  OBVIOUS
<1>1. PICK m \in Nat \ T : \A n \in Nat \ T : m <= n
  BY Smallest
<1>2. m # 0
  BY <1>1
<1>3. m - 1 \in Nat /\ m - 1 \in T
  BY <1>1, <1>2
<1> QED
  BY <1>1, <1>3

\* An entry more at the end of a sequence.
LEMMA AppendedIs ==
  ASSUME NEW S, NEW s \in Seq(S), NEW x \in S
  PROVE  LET t == Append(s, x)
         IN  /\ t \in Seq(S) /\ Len(t) = Len(s) + 1 /\ Len(s) \in Nat /\ t # <<>>
             /\ t[Len(s) + 1] = x /\ \A i \in 1 .. Len(s) : s[i] = t[i]
OBVIOUS

\* Two pieces of a sequence that meet are one.
LEMMA PiecesJoin ==
  ASSUME NEW S, NEW s \in Seq(S), NEW a \in 0 .. Len(s), NEW b \in a .. Len(s)
  PROVE  SubSeq(s, 1, a) \o SubSeq(s, a + 1, b) = SubSeq(s, 1, b)
<1> DEFINE u == SubSeq(s, 1, a)
           v == SubSeq(s, a + 1, b)
           w == SubSeq(s, 1, b)
<1>1. Len(s) \in Nat /\ a \in Nat /\ b \in Nat /\ a <= b /\ b \in 0 .. Len(s)
      /\ a + 1 \in 1 .. Len(s) + 1 /\ a + 1 <= b + 1
  OBVIOUS
<1>2. u \in Seq(S) /\ Len(u) = a /\ \A j \in 1 .. a : u[j] = s[j]
  BY FirstEntries
<1>3. w \in Seq(S) /\ Len(w) = b /\ \A j \in 1 .. b : w[j] = s[j]
  BY <1>1, FirstEntries
<1>4. /\ v \in Seq(S) /\ Len(v) = b - (a + 1) + 1
      /\ \A j \in 1 .. b - (a + 1) + 1 : v[j] = s[(a + 1) + j - 1]
  BY <1>1, Piece
<1> HIDE DEF u, v, w
<1>5. /\ u \o v \in Seq(S) /\ Len(u \o v) = Len(u) + Len(v)
      /\ \A j \in 1 .. Len(u) : (u \o v)[j] = u[j]
      /\ \A j \in 1 .. Len(v) : (u \o v)[Len(u) + j] = v[j]
  <2>1. u \in Seq(S) /\ v \in Seq(S)
    BY <1>2, <1>4
  <2> QED
    BY <2>1, EndToEnd
<1> DEFINE t == u \o v
<1>6. t \in Seq(S) /\ Len(t) = b
  BY <1>1, <1>2, <1>4, <1>5
<1>7. ASSUME NEW j \in 1 .. b
      PROVE  t[j] = w[j]
  <2>1. CASE j \in 1 .. a
    BY <1>2, <1>3, <1>5, <2>1
  <2>2. CASE j \notin 1 .. a
    <3>1. /\ j - a \in 1 .. Len(v) /\ Len(u) + (j - a) = j
          /\ j - a \in 1 .. b - (a + 1) + 1 /\ (a + 1) + (j - a) - 1 = j
      BY <1>1, <1>2, <1>4, <2>2
    <3>2. t[j] = v[j - a]
      BY <1>5, <3>1
    <3>3. v[j - a] = s[j]
      BY <1>4, <3>1
    <3> QED
      BY <1>3, <3>2, <3>3
  <2> QED
    BY <2>1, <2>2
<1> HIDE DEF t
<1>8. t = w
  BY <1>3, <1>6, <1>7, SeqEqual
<1> QED
  BY <1>8 DEF t, u, v, w

\* Sequences that begin alike have the same pieces there.
LEMMA SamePiece ==
  ASSUME NEW S, NEW s \in Seq(S), NEW t \in Seq(S), NEW n \in Nat, n <= Len(s), n <= Len(t),
         \A j \in 1 .. n : s[j] = t[j], NEW a \in Nat, NEW b \in Nat, a <= b, b <= n
  PROVE  SubSeq(s, a + 1, b) = SubSeq(t, a + 1, b)
<1> DEFINE u == SubSeq(s, a + 1, b)
           v == SubSeq(t, a + 1, b)
<1>1. /\ Len(s) \in Nat /\ Len(t) \in Nat /\ a + 1 \in 1 .. Len(s) + 1
      /\ a + 1 \in 1 .. Len(t) + 1 /\ b \in 0 .. Len(s) /\ b \in 0 .. Len(t)
      /\ a + 1 <= b + 1
  OBVIOUS
<1>2. /\ u \in Seq(S) /\ Len(u) = b - (a + 1) + 1
      /\ \A j \in 1 .. b - (a + 1) + 1 : u[j] = s[(a + 1) + j - 1]
  BY <1>1, Piece
<1>3. /\ v \in Seq(S) /\ Len(v) = b - (a + 1) + 1
      /\ \A j \in 1 .. b - (a + 1) + 1 : v[j] = t[(a + 1) + j - 1]
  BY <1>1, Piece
<1> HIDE DEF u, v
<1>4. ASSUME NEW j \in 1 .. Len(u) PROVE u[j] = v[j]
  <2>1. j \in 1 .. b - (a + 1) + 1 /\ (a + 1) + j - 1 \in 1 .. n
    BY <1>1, <1>2
  <2> QED
    BY <1>2, <1>3, <2>1
<1>5. Len(u) = Len(v)
  BY <1>2, <1>3
<1>6. u = v
  BY <1>2, <1>3, <1>4, <1>5, SeqEqual
<1> QED
  BY <1>6 DEF u, v
=============================================================================
