-------------------------- MODULE DynamicArrayProofs --------------------------
(***************************************************************************)
(* The properties of DynamicArray, for every word size and any number of   *)
(* writes of any length to any offset.                                     *)
(***************************************************************************)
EXTENDS DynamicArray, FiniteSetTheorems, SequenceTheorems, WellFoundedInduction, TLAPS

B == BitsPerElement

LEMMA WordSize == B \in Nat /\ B > 0
BY SizesAssumption DEF B

(* Larger factors, larger products. *)
LEMMA ProductGrows ==
    ASSUME NEW a \in Int, NEW b \in Int, NEW c \in Nat, a <= b
    PROVE  a * c <= b * c
<1>1. b - a \in Nat
  OBVIOUS
<1>2. (b - a) * c \in Nat
  BY <1>1
<1>3. (b - a) * c = b * c - a * c
  OBVIOUS
<1> QED
  BY <1>2, <1>3

(* A position is in the word that it is divided into. *)
LEMMA WordOf ==
    ASSUME NEW p \in Nat
    PROVE  LET w == p \div B IN w \in Nat /\ w * B <= p /\ p < w * B + B
BY WordSize

(* And in no other. *)
LEMMA OneWord ==
    ASSUME NEW p \in Nat, NEW w \in Int, w * B <= p, p < w * B + B
    PROVE  p \div B = w
<1> DEFINE v == p \div B
<1>1. v \in Nat /\ v * B <= p /\ p < v * B + B
  BY WordOf
<1> HIDE DEF v
<1>2. ~(v + 1 <= w)
  <2> SUFFICES ASSUME v + 1 <= w PROVE FALSE
    OBVIOUS
  <2>1. (v + 1) * B <= w * B
    BY <1>1, WordSize, ProductGrows
  <2>2. (v + 1) * B = v * B + B
    BY <1>1, WordSize
  <2> QED
    BY <1>1, <2>1, <2>2, WordSize
<1>3. ~(w + 1 <= v)
  <2> SUFFICES ASSUME w + 1 <= v PROVE FALSE
    OBVIOUS
  <2>1. (w + 1) * B <= v * B
    BY <1>1, WordSize, ProductGrows
  <2>2. (w + 1) * B = w * B + B
    BY <1>1, WordSize
  <2> QED
    BY <1>1, <2>1, <2>2, WordSize
<1> QED
  BY <1>1, <1>2, <1>3 DEF v

-----------------------------------------------------------------------------
(* The m elements of s, and then the n elements of t. *)
Joined(r, s, m, t, n) ==
    /\ Len(r) = m + n
    /\ \A i \in 1..m : r[i] = s[i]
    /\ \A i \in 1..n : r[m + i] = t[i]

LEMMA Concatenated ==
    ASSUME NEW S, NEW s \in Seq(S), NEW t \in Seq(S), NEW m \in Nat, NEW n \in Nat,
           Len(s) = m, Len(t) = n, NEW r, r = s \o t
    PROVE  r \in Seq(S) /\ Joined(r, s, m, t, n)
<1>1. /\ s \o t \in Seq(S) /\ Len(s \o t) = Len(s) + Len(t)
      /\ \A i \in 1..(Len(s) + Len(t)) :
            (s \o t)[i] = IF i <= Len(s) THEN s[i] ELSE t[i - Len(s)]
  BY ConcatProperties
<1>2. r \in Seq(S) /\ Len(r) = m + n
  BY <1>1
<1>3. \A i \in 1..(m + n) : r[i] = IF i <= m THEN s[i] ELSE t[i - m]
  BY <1>1
<1>4. ASSUME NEW i \in 1..n PROVE r[m + i] = t[i]
  <2> DEFINE j == m + i
  <2>1. j \in 1..(m + n) /\ ~(j <= m) /\ j - m = i
    OBVIOUS
  <2> HIDE DEF j
  <2>2. r[j] = t[i]
    BY <1>3, <2>1
  <2> QED
    BY <2>2 DEF j
<1>5. \A i \in 1..m : r[i] = s[i]
  BY <1>3
<1> QED
  BY <1>2, <1>4, <1>5 DEF Joined

(* A sequence of pieces, the first and the last given apart. *)
LEMMA ThreeParts ==
    ASSUME NEW a, NEW c, NEW n \in Nat, NEW f, f = [k \in 1..n |-> f[k]],
           NEW s, s = <<a>> \o f \o <<c>>
    PROVE  /\ Len(s) = n + 2
           /\ s[1] = a /\ s[n + 2] = c
           /\ \A k \in 1..n : s[k + 1] = f[k]
<1> DEFINE S == {a, c} \cup {f[k] : k \in 1..n}
           l == <<a>>
           r == <<c>>
           m == l \o f
           t == m \o r
<1>1. f \in Seq(S) /\ Len(f) = n
  <2>1. f \in [1..n -> S]
    OBVIOUS
  <2>2. f \in Seq(S)
    BY <2>1, SeqDef
  <2>3. Len(f) \in Nat /\ DOMAIN f = 1..Len(f) /\ DOMAIN f = 1..n
    BY <2>1, <2>2, LenProperties
  <2> QED
    BY <2>2, <2>3
<1>2. l \in Seq(S) /\ r \in Seq(S) /\ Len(l) = 1 /\ Len(r) = 1 /\ l[1] = a /\ r[1] = c
  OBVIOUS
<1>3. s = t
  OBVIOUS
<1> HIDE DEF S, l, r
<1>4. m \in Seq(S) /\ Joined(m, l, 1, f, n)
  BY <1>1, <1>2, Concatenated
<1> HIDE DEF m
<1>5. Len(m) = 1 + n /\ 1 + n \in Nat
  BY <1>4 DEF Joined
<1>6. Joined(t, m, 1 + n, r, 1)
  BY <1>2, <1>4, <1>5, Concatenated
<1> HIDE DEF t
<1>7. t[1] = a
  BY <1>2, <1>4, <1>5, <1>6 DEF Joined
<1>8. t[n + 2] = c
  <2>1. n + 2 = (1 + n) + 1
    OBVIOUS
  <2>2. t[(1 + n) + 1] = r[1]
    BY <1>6 DEF Joined
  <2> QED
    BY <1>2, <2>1, <2>2
<1>9. ASSUME NEW k \in 1..n PROVE t[k + 1] = f[k]
  <2> DEFINE i == k + 1
  <2>1. i \in 1..(1 + n) /\ i = 1 + k
    OBVIOUS
  <2> HIDE DEF i
  <2>2. t[i] = m[i] /\ m[i] = f[k]
    BY <1>4, <1>6, <2>1 DEF Joined
  <2> QED
    BY <2>2 DEF i
<1>10. Len(t) = n + 2
  BY <1>6 DEF Joined
<1> QED
  BY <1>3, <1>7, <1>8, <1>9, <1>10

(* All pieces of a sequence. *)
Pieces(s) == UNION {s[k] : k \in 1..Len(s)}

(* The pieces in which Set tests and sets the bits of a range make up the range, *)
(* wherever it starts and ends within the words.                                 *)
LEMMA SegmentsCover ==
    ASSUME NEW offset \in Nat, NEW len \in Nat, len > 0
    PROVE  /\ Len(Segments(offset, len)) \in Nat
           /\ Pieces(Segments(offset, len)) = Span(offset, len)
<1> DEFINE start     == offset \div B
           end       == (offset + len - 1) \div B
           first     == B - (offset - start * B)
           remaining == len - first
           middle    == (remaining - 1) \div B
           f         == [k \in 1..middle |-> Span((start + k) * B, B)]
           a         == Span(offset, first)
           c         == Span(end * B, remaining - middle * B)
           s         == <<a>> \o f \o <<c>>
<1>1. Segments(offset, len) = IF start = end THEN <<Span(offset, len)>> ELSE s
  BY DEF Segments, B
<1>2. CASE start = end
  <2> DEFINE r == Span(offset, len)
  <2>1. Segments(offset, len) = <<r>>
    BY <1>1, <1>2
  <2> HIDE DEF r
  <2>2. Len(<<r>>) = 1 /\ \A k \in 1..1 : <<r>>[k] = r
    OBVIOUS
  <2>3. Pieces(<<r>>) = r
    BY <2>2 DEF Pieces
  <2> QED
    BY <2>1, <2>2, <2>3 DEF r
<1>3. CASE start # end
  <2>1. start \in Nat /\ start * B <= offset /\ offset < start * B + B
    BY WordOf
  <2>2. end \in Nat /\ end * B <= offset + len - 1 /\ offset + len - 1 < end * B + B
    <3>1. offset + len - 1 \in Nat
      OBVIOUS
    <3> QED
      BY <3>1, WordOf
  <2> HIDE DEF start, end
  <2>3. start + 1 <= end
    <3> SUFFICES ASSUME end + 1 <= start PROVE FALSE
      BY <1>3, <2>1, <2>2
    <3>1. (end + 1) * B <= start * B
      BY <2>1, <2>2, WordSize, ProductGrows
    <3>2. (end + 1) * B = end * B + B
      BY <2>2, WordSize
    <3> QED
      BY <2>1, <2>2, <3>1, <3>2, WordSize
  <2>4. (start + 1) * B = start * B + B /\ (start + 1) * B <= end * B
    BY <2>1, <2>2, <2>3, WordSize, ProductGrows
  <2>5. first \in Nat /\ first > 0 /\ offset + first = (start + 1) * B
    BY <2>1, <2>4, WordSize
  <2>6. remaining - 1 \in Nat /\ remaining - 1 = (offset + len - 1) - (start + 1) * B
    BY <2>2, <2>4, <2>5, WordSize
  <2>7. middle = end - start - 1
    <3> DEFINE w == end - start - 1
    <3>1. w \in Int /\ w * B = end * B - (start + 1) * B
      BY <2>1, <2>2, WordSize
    <3> HIDE DEF w
    <3>2. w * B <= remaining - 1 /\ remaining - 1 < w * B + B
      BY <2>1, <2>2, <2>6, <3>1, WordSize
    <3> QED
      BY <2>6, <3>1, <3>2, OneWord DEF w
  <2>8. middle \in Nat /\ middle * B = end * B - (start + 1) * B
    BY <2>1, <2>2, <2>3, <2>7, WordSize
  <2>9. end * B + (remaining - middle * B) - 1 = offset + len - 1
    BY <2>1, <2>2, <2>4, <2>6, <2>8, WordSize
  <2>10. c = end * B..(offset + len - 1)
    BY <2>9 DEF Span
  <2>11. a = offset..((start + 1) * B - 1)
    BY <2>5 DEF Span
  <2>12. ASSUME NEW k \in 1..middle
         PROVE  f[k] = (start + k) * B..((start + k) * B + B - 1)
    BY DEF Span
  <2>13. f = [k \in 1..middle |-> f[k]]
    OBVIOUS
  <2>14. s = <<a>> \o f \o <<c>>
    OBVIOUS
  <2> HIDE DEF first, remaining, middle, f, a, c, s
  <2>15. /\ Len(s) = middle + 2
         /\ s[1] = a /\ s[middle + 2] = c
         /\ \A k \in 1..middle : s[k + 1] = f[k]
    BY <2>8, <2>13, <2>14, ThreeParts
  <2>16. ASSUME NEW p \in Pieces(s) PROVE p \in Span(offset, len)
    <3>1. PICK i \in 1..(middle + 2) : p \in s[i]
      BY <2>15 DEF Pieces
    <3>2. CASE i = 1
      BY <2>1, <2>2, <2>4, <2>11, <2>15, <3>1, <3>2, WordSize DEF Span
    <3>3. CASE i = middle + 2
      <4>1. p \in end * B..(offset + len - 1)
        BY <2>10, <2>15, <3>1, <3>3
      <4>2. offset <= end * B /\ end * B \in Int
        BY <2>1, <2>2, <2>4, WordSize
      <4> QED
        BY <4>1, <4>2 DEF Span
    <3>4. CASE i # 1 /\ i # middle + 2
      <4> DEFINE k == i - 1
      <4>1. k \in 1..middle /\ i = k + 1
        BY <2>8, <3>4
      <4> HIDE DEF k
      <4>2. p \in (start + k) * B..((start + k) * B + B - 1)
        BY <2>12, <2>15, <3>1, <4>1
      <4>3. start + 1 <= start + k /\ start + k + 1 <= end /\ k \in Nat
        BY <2>1, <2>2, <2>7, <4>1
      <4>4. (start + 1) * B <= (start + k) * B /\ (start + k + 1) * B <= end * B
        BY <2>1, <2>2, <4>3, WordSize, ProductGrows
      <4>5. (start + k + 1) * B = (start + k) * B + B /\ (start + k) * B \in Nat
        BY <2>1, <4>3, WordSize
      <4> QED
        BY <2>1, <2>2, <2>4, <4>2, <4>4, <4>5, WordSize DEF Span
    <3> QED
      BY <3>2, <3>3, <3>4
  <2>17. ASSUME NEW p \in Span(offset, len) PROVE p \in Pieces(s)
    <3>0. p \in Nat /\ offset <= p /\ p <= offset + len - 1
      BY DEF Span
    <3>1. CASE p < (start + 1) * B
      <4>1. p \in s[1] /\ 1 \in 1..Len(s)
        BY <2>1, <2>4, <2>8, <2>11, <2>15, <3>0, <3>1, WordSize
      <4> QED
        BY <4>1 DEF Pieces
    <3>2. CASE end * B <= p
      <4>1. p \in s[middle + 2] /\ middle + 2 \in 1..Len(s)
        BY <2>2, <2>8, <2>10, <2>15, <3>0, <3>2, WordSize
      <4> QED
        BY <4>1 DEF Pieces
    <3>3. CASE ~(p < (start + 1) * B) /\ ~(end * B <= p)
      <4> DEFINE w == p \div B
                 k == w - start
      <4>1. w \in Nat /\ w * B <= p /\ p < w * B + B
        BY <3>0, WordOf
      <4> HIDE DEF w
      <4>2. ~(w <= start)
        <5> SUFFICES ASSUME w <= start PROVE FALSE
          OBVIOUS
        <5>1. w * B <= start * B
          BY <2>1, <4>1, WordSize, ProductGrows
        <5> QED
          BY <2>1, <2>4, <3>0, <3>3, <4>1, <5>1, WordSize
      <4>3. ~(end <= w)
        <5> SUFFICES ASSUME end <= w PROVE FALSE
          OBVIOUS
        <5>1. end * B <= w * B
          BY <2>2, <4>1, WordSize, ProductGrows
        <5> QED
          BY <2>2, <3>0, <3>3, <4>1, <5>1, WordSize
      <4>4. k \in 1..middle /\ start + k = w
        BY <2>1, <2>2, <2>7, <4>1, <4>2, <4>3
      <4> HIDE DEF k
      <4>5. f[k] = w * B..(w * B + B - 1)
        BY <2>12, <4>4
      <4>6. p \in f[k]
        BY <3>0, <4>1, <4>5, WordSize
      <4>7. k + 1 \in 1..Len(s) /\ s[k + 1] = f[k]
        BY <2>8, <2>15, <4>4
      <4> QED
        BY <4>6, <4>7 DEF Pieces
    <3> QED
      BY <3>1, <3>2, <3>3
  <2>18. Segments(offset, len) = s
    BY <1>1, <1>3
  <2> QED
    BY <2>8, <2>15, <2>16, <2>17, <2>18
<1> QED
  BY <1>2, <1>3

-----------------------------------------------------------------------------
(* A nonempty set of natural numbers has a minimum. *)
LEMMA MinOfNats ==
    ASSUME NEW T \in SUBSET Nat, T # {}
    PROVE  Min(T) \in T
<1> DEFINE R == {ss \in Nat \X Nat : ss[1] < ss[2]}
<1>1. \A m, n \in Nat : m < n => <<m, n>> \in R
  OBVIOUS
<1>2. IsWellFoundedOn(R, Nat)
  BY NatLessThanWellFounded, Zenon DEF OpToRel
<1> HIDE DEF R
<1>3. PICK n \in T : \A m \in T : ~ (<<m, n>> \in R)
  BY <1>2, WFMin
<1>4. ASSUME NEW m \in T PROVE n <= m
  <2>1. m \in Nat /\ n \in Nat /\ ~(m < n)
    BY <1>1, <1>3
  <2> QED
    BY <2>1
<1> QED
  BY <1>4 DEF Min

(* The piece that Set gives up at is one with a bit that is set, if there is any. *)
Blocked(s) == SelectInSeq(s, LAMBDA x : x \cap bits # {})

LEMMA BlockedPiece ==
    ASSUME NEW s, Len(s) \in Nat
    PROVE  /\ Blocked(s) \in 0..Len(s)
           /\ Blocked(s) = 0 <=> Pieces(s) \cap bits = {}
<1> DEFINE I == {i \in 1..Len(s) : s[i] \cap bits # {}}
<1>1. Blocked(s) = IF I # {} THEN Min(I) ELSE 0
  BY DEF Blocked, SelectInSeq
<1>2. I = {} <=> Pieces(s) \cap bits = {}
  BY DEF Pieces
<1>3. I \in SUBSET Nat /\ \A i \in I : i \in 1..Len(s)
  OBVIOUS
<1> HIDE DEF I
<1>4. I # {} => Min(I) \in I
  BY <1>3, MinOfNats
<1>5. CASE I = {}
  BY <1>1, <1>2, <1>5
<1>6. CASE I # {}
  <2>1. Blocked(s) \in 1..Len(s)
    BY <1>1, <1>3, <1>4, <1>6
  <2>2. Blocked(s) \in 0..Len(s) /\ Blocked(s) # 0
    BY <2>1
  <2> QED
    BY <1>2, <1>6, <2>2
<1> QED
  BY <1>5, <1>6

(* What Bitmap.Set returns and sets. *)
LEMMA SetEffect ==
    ASSUME NEW offset \in Nat, NEW len \in Nat, len > 0
    PROVE  LET result == Set(offset, len)
               range  == Span(offset, len)
           IN  /\ result.ok <=> range \cap bits = {}
               /\ result.ok => result.bits = bits \cup range
               /\ result.bits \subseteq bits \cup range
               /\ bits \subseteq result.bits
<1> DEFINE s == Segments(offset, len)
           b == Blocked(s)
           d == IF b = 0 THEN Len(s) ELSE b - 1
           n == bits \cup UNION {s[k] : k \in 1..d}
<1>1. Set(offset, len) = [ok |-> b = 0, bits |-> n]
  BY DEF Set, Blocked
<1>2. Len(s) \in Nat /\ Pieces(s) = Span(offset, len)
  BY SegmentsCover
<1> HIDE DEF s
<1>3. b \in 0..Len(s) /\ (b = 0 <=> Pieces(s) \cap bits = {})
  BY <1>2, BlockedPiece
<1> HIDE DEF b
<1>4. b = 0 => n = bits \cup Pieces(s)
  BY DEF Pieces
<1>5. d \in 0..Len(s)
  BY <1>2, <1>3
<1> HIDE DEF d
<1>6. \A k \in 1..d : k \in 1..Len(s)
  BY <1>2, <1>5
<1>7. n \subseteq bits \cup Pieces(s) /\ bits \subseteq n
  BY <1>6 DEF Pieces
<1> HIDE DEF n
<1>8. Set(offset, len).ok = (b = 0) /\ Set(offset, len).bits = n
  BY <1>1
<1> QED
  BY <1>2, <1>3, <1>4, <1>7, <1>8

(* A write is accepted exactly when none of its bits was set, and then exactly its *)
(* bits are added, for every word size, offset and length; one that is refused     *)
(* adds no bit outside its range.                                                  *)
THEOREM BitmapIsExact == Spec => []SetIsExact
<1>1. SetIsExact
  <2> SUFFICES ASSUME NEW offset \in 0..MaxOffset, NEW len \in 1..MaxLen
               PROVE  LET result == Set(offset, len)
                          range  == Span(offset, len)
                      IN  /\ result.ok <=> range \cap bits = {}
                          /\ result.ok => result.bits = bits \cup range
                          /\ result.bits \subseteq bits \cup range
    BY DEF SetIsExact
  <2>1. offset \in Nat /\ len \in Nat /\ len > 0
    BY SizesAssumption
  <2> QED
    BY <2>1, SetEffect
<1> QED
  BY <1>1, PTL

-----------------------------------------------------------------------------
(* A write that was accepted: its bytes are within the data and marked. *)
Recorded(w) ==
    /\ w[1] \in 1..count /\ w[2] \in Nat /\ w[3] \in Nat \ {0}
    /\ w[2] + w[3] <= last
    /\ Span(w[2], w[3]) \subseteq bits

(* A byte of the array. *)
Right(p) ==
    /\ \A w \in accepted : Covers(w, p) => data[p] = w[1]
    /\ (\A w \in accepted : ~Covers(w, p)) => data[p] = 0

(* The array is long enough for what was written, which is marked in the bitmap. *)
IInv ==
    /\ count \in Nat /\ last \in Nat
    /\ \E n \in Nat : DOMAIN data = 0..(n - 1) /\ last <= n
    /\ \A w \in accepted : Recorded(w)
    /\ last = 0 \/ \E w \in accepted : w[2] + w[3] = last
    /\ \A p \in DOMAIN data : Right(p)

LEMMA InitIInv == Init => IInv
<1> SUFFICES ASSUME Init PROVE IInv
  OBVIOUS
<1>1. DOMAIN data = {} /\ 0..(0 - 1) = {} /\ 0 \in Nat /\ 0 <= 0
  BY DEF Init
<1>2. \E n \in Nat : DOMAIN data = 0..(n - 1) /\ 0 <= n
  BY <1>1
<1> QED
  BY <1>1, <1>2 DEF Init, IInv

(* GrowSliceIfNecessary makes the index one of the slice's. *)
LEMMA Grows ==
    ASSUME NEW n \in Nat, NEW index \in Nat
    PROVE  GrownLen(n, index) \in Nat /\ n <= GrownLen(n, index) /\ index < GrownLen(n, index)
BY DEF GrownLen

(* A write that the bitmap accepts. *)
LEMMA StoreIInv ==
    ASSUME IInv, NEW offset \in Nat, NEW len \in Nat, len > 0,
           count' = count + 1, bits' = bits \cup Span(offset, len),
           Span(offset, len) \cap bits = {},
           Store(offset, len, GrownLen(Cardinality(DOMAIN data), offset + len))
    PROVE  IInv'
<1> DEFINE W == Span(offset, len)
           e == offset + len
           new == <<count + 1, offset, len>>
<1>1. count \in Nat /\ last \in Nat /\ count + 1 \in Nat
  BY DEF IInv
<1>2. PICK n \in Nat : DOMAIN data = 0..(n - 1) /\ last <= n
  BY DEF IInv
<1>3. Cardinality(DOMAIN data) = n
  <2>1. 0 \in Int /\ n - 1 \in Int
    OBVIOUS
  <2>2. Cardinality(0..(n - 1)) = IF 0 > n - 1 THEN 0 ELSE n - 1 - 0 + 1
    BY <2>1, FS_Interval
  <2> QED
    BY <1>2, <2>2
<1> DEFINE top == GrownLen(n, e)
<1>4. top \in Nat /\ n <= top /\ e < top /\ e \in Nat
  <2>1. e \in Nat
    OBVIOUS
  <2> HIDE DEF e
  <2> QED
    BY <2>1, Grows
<1>5. /\ data' = [p \in 0..(top - 1) |->
                    IF p \in W THEN count + 1 ELSE IF p \in DOMAIN data THEN data[p] ELSE 0]
      /\ last' = IF e > last THEN e ELSE last
      /\ accepted' = accepted \cup {new}
  BY <1>3 DEF Store
<1>6. new[1] = count + 1 /\ new[2] = offset /\ new[3] = len
  OBVIOUS
<1>7. W \cap bits = {} /\ bits' = bits \cup W
  OBVIOUS
<1>8. \A p : Covers(new, p) <=> p \in W
  BY DEF Covers
<1> HIDE DEF W, e, new, top
<1>9. DOMAIN data' = 0..(top - 1)
  BY <1>5
<1>10. last' \in Nat /\ last' <= top /\ last <= last' /\ e <= last'
  BY <1>1, <1>2, <1>4, <1>5
<1>11. ASSUME NEW w \in accepted' PROVE Recorded(w)'
  <2>1. CASE w = new
    <3>1. w[1] \in 1..count' /\ w[2] \in Nat /\ w[3] \in Nat \ {0}
      BY <1>1, <1>6, <2>1
    <3>2. w[2] + w[3] <= last'
      BY <1>6, <1>10, <2>1 DEF e
    <3>3. Span(w[2], w[3]) \subseteq bits'
      BY <1>6, <2>1 DEF W
    <3> QED
      BY <3>1, <3>2, <3>3 DEF Recorded
  <2>2. CASE w \in accepted
    <3>1. Recorded(w)
      BY <2>2 DEF IInv
    <3>2. w[1] \in 1..count' /\ w[2] + w[3] <= last'
      BY <1>1, <1>10, <3>1 DEF Recorded
    <3> QED
      BY <1>7, <3>1, <3>2 DEF Recorded
  <2> QED
    BY <1>5, <2>1, <2>2
<1>12. last' = 0 \/ \E w \in accepted' : w[2] + w[3] = last'
  <2>1. CASE e > last
    <3>1. new \in accepted' /\ new[2] + new[3] = last'
      BY <1>5, <1>6, <2>1 DEF e
    <3> QED
      BY <3>1
  <2>2. CASE ~(e > last)
    BY <1>5, <2>2 DEF IInv
  <2> QED
    BY <2>1, <2>2
<1>13. ASSUME NEW w \in accepted, NEW p, Covers(w, p) PROVE p \in DOMAIN data /\ p \notin W
  <2>1. Recorded(w) /\ p \in Span(w[2], w[3])
    BY <1>13 DEF IInv, Covers
  <2>2. p \notin W
    BY <1>7, <2>1 DEF Recorded
  <2>3. p \in 0..(n - 1)
    BY <1>2, <2>1, <1>1 DEF Recorded, Span
  <2> QED
    BY <1>2, <2>2, <2>3
<1>14. ASSUME NEW p \in 0..(top - 1) PROVE Right(p)'
  <2>1. CASE p \in W
    <3>1. data'[p] = count + 1
      BY <1>5, <2>1
    <3>2. ASSUME NEW w \in accepted', Covers(w, p) PROVE data'[p] = w[1]
      BY <1>5, <1>6, <1>13, <2>1, <3>1, <3>2
    <3>3. new \in accepted' /\ Covers(new, p)
      BY <1>5, <1>8, <2>1
    <3> QED
      BY <3>2, <3>3 DEF Right, Covers
  <2>2. CASE p \notin W
    <3>1. ~Covers(new, p)
      BY <1>8, <2>2
    <3>2. data'[p] = IF p \in DOMAIN data THEN data[p] ELSE 0
      BY <1>5, <2>2
    <3>3. ASSUME NEW w \in accepted', Covers(w, p) PROVE data'[p] = w[1]
      <4>1. w \in accepted /\ p \in DOMAIN data
        BY <1>5, <1>13, <3>1, <3>3
      <4> QED
        BY <3>2, <3>3, <4>1 DEF IInv, Right
    <3>4. ASSUME \A w \in accepted' : ~Covers(w, p) PROVE data'[p] = 0
      BY <1>5, <3>2, <3>4 DEF IInv, Right
    <3> QED
      BY <3>3, <3>4 DEF Right, Covers
  <2> QED
    BY <2>1, <2>2
<1>15. count' \in Nat /\ last' \in Nat
  BY <1>1, <1>10
<1>16. \E m \in Nat : DOMAIN data' = 0..(m - 1) /\ last' <= m
  BY <1>4, <1>9, <1>10
<1> QED
  BY <1>9, <1>11, <1>12, <1>14, <1>15, <1>16 DEF IInv

(* A write that changes no more than the bitmap, if that. *)
LEMMA RefusedIInv ==
    ASSUME IInv, count' \in {count, count + 1}, bits \subseteq bits',
           UNCHANGED <<data, last, accepted>>
    PROVE  IInv'
<1>1. ASSUME NEW w, Recorded(w) PROVE Recorded(w)'
  BY <1>1 DEF IInv, Recorded
<1>2. \A p : Right(p)' <=> Right(p)
  BY DEF Right, Covers
<1>3. count' \in Nat
  BY DEF IInv
<1> QED
  BY <1>1, <1>2, <1>3 DEF IInv

LEMMA NextIInv == IInv /\ [Next]_vars => IInv'
<1> SUFFICES ASSUME IInv, [Next]_vars PROVE IInv'
  OBVIOUS
<1>1. ASSUME NEW offset \in 0..MaxOffset, NEW len \in 0..MaxLen, Write(offset, len)
      PROVE  IInv'
  <2>1. offset \in Nat /\ len \in Nat /\ count' = count + 1
    BY <1>1, SizesAssumption DEF Write
  <2>2. CASE len = 0
    BY <1>1, <2>1, <2>2, RefusedIInv DEF Write
  <2>3. CASE len > 0
    <3> DEFINE result == Set(offset, len)
               W == Span(offset, len)
    <3>1. /\ result.ok <=> W \cap bits = {}
          /\ result.ok => result.bits = bits \cup W
          /\ bits \subseteq result.bits
      BY <2>1, <2>3, SetEffect
    <3>2. /\ bits' = result.bits
          /\ IF result.ok
             THEN Store(offset, len, GrownLen(Cardinality(DOMAIN data), offset + len))
             ELSE UNCHANGED <<data, last, accepted>>
      BY <1>1, <2>1, <2>3 DEF Write
    <3> HIDE DEF result
    <3>3. CASE result.ok
      BY <2>1, <2>3, <3>1, <3>2, <3>3, StoreIInv
    <3>4. CASE ~result.ok
      BY <2>1, <3>1, <3>2, <3>4, RefusedIInv
    <3> QED
      BY <3>3, <3>4
  <2> QED
    BY <2>1, <2>2, <2>3
<1>2. CASE UNCHANGED vars
  BY <1>2, RefusedIInv DEF vars
<1> QED
  BY <1>1, <1>2 DEF Next

(* What the array promises: every byte of a write that was not refused is at its   *)
(* place, the gaps are zeroes, and the data ends where the last write ends, in     *)
(* whatever order the writes came and the array grew.                              *)
THEOREM ArrayHoldsWhatWasWritten == Spec => []DataIsWhatWasWritten
<1>1. IInv => DataIsWhatWasWritten
  <2> SUFFICES ASSUME IInv PROVE DataIsWhatWasWritten
    OBVIOUS
  <2> DEFINE E == {0} \cup {w[2] + w[3] : w \in accepted}
  <2>1. last \in Nat /\ last \in E
    BY DEF IInv
  <2>2. \A x \in E : x \in Int /\ last >= x
    BY DEF IInv, Recorded
  <2> HIDE DEF E
  <2>3. last = Max(E)
    <3>1. \A x \in E : (\A y \in E : x >= y) => x = last
      BY <2>1, <2>2
    <3> QED
      BY <2>1, <2>2, <3>1 DEF Max
  <2>4. PICK n \in Nat : DOMAIN data = 0..(n - 1) /\ last <= n
    BY DEF IInv
  <2>5. \A p \in 0..(last - 1) : p \in DOMAIN data
    BY <2>1, <2>4
  <2>6. \A p \in 0..(last - 1) : Right(p)
    BY <2>5 DEF IInv
  <2> QED
    BY <2>3, <2>5, <2>6 DEF DataIsWhatWasWritten, Right, E
<1> QED
  BY <1>1, InitIInv, NextIInv, PTL DEF Spec
===============================================================================
