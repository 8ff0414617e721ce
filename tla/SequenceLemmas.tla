---------------------------- MODULE SequenceLemmas ----------------------------
(***************************************************************************)
(* What the other proofs need of sequences: the elements of a sequence,    *)
(* and the recursive functions Selected and FlattenSeq. Each of these two  *)
(* is shown to be defined, and to do what is expected with one element     *)
(* more, from a least number without that property.                        *)
(***************************************************************************)
EXTENDS Selections, SequencesExt, SequenceTheorems, FiniteSetTheorems,
        WellFoundedInduction, TLAPS

-----------------------------------------------------------------------------
(* The elements of a sequence                                              *)

(* Being an element.                                                       *)
LEMMA InToSet ==
    ASSUME NEW q, NEW x
    PROVE  x \in ToSet(q) <=> \E i \in DOMAIN q : q[i] = x
BY DEF ToSet

(* The first element and those of the tail are the elements.               *)
LEMMA HeadTailElements ==
    ASSUME NEW S, NEW q \in Seq(S), q # <<>>
    PROVE  /\ Head(q) \in S /\ Tail(q) \in Seq(S)
           /\ ToSet(q) = {Head(q)} \cup ToSet(Tail(q))
           /\ IsInjective(q) => IsInjective(Tail(q)) /\ Head(q) \notin ToSet(Tail(q))
<1> DEFINE n == Len(q)
           r == Tail(q)
<1>1. n \in Nat \ {0} /\ DOMAIN q = 1 .. n
  BY EmptySeq, LenProperties
<1>2. r \in Seq(S) /\ Len(r) = n - 1 /\ DOMAIN r = 1 .. n - 1
  BY <1>1, HeadTailProperties, LenProperties
<1>3. \A i \in 1 .. n - 1 : r[i] = q[i + 1]
  BY <1>1
<1>4. Head(q) = q[1] /\ Head(q) \in S
  BY <1>1, HeadTailProperties
<1> HIDE DEF n, r
<1>5. ToSet(q) = {q[1]} \cup ToSet(r)
  <2>1. \A i \in 1 .. n - 1 : i + 1 \in 1 .. n
    BY <1>1
  <2>2. 1 \in 1 .. n
    BY <1>1
  <2>3. ASSUME NEW x
        PROVE  x \in ToSet(q) <=> x = q[1] \/ x \in ToSet(r)
    <3>1. x \in ToSet(q) => x = q[1] \/ x \in ToSet(r)
      <4> SUFFICES ASSUME NEW i \in 1 .. n, q[i] = x, i # 1
                   PROVE  \E j \in 1 .. n - 1 : r[j] = x
        BY <1>1, <1>2, InToSet
      <4>1. i - 1 \in 1 .. n - 1 /\ r[i - 1] = x
        BY <1>1, <1>3
      <4> QED BY <4>1
    <3>2. x = q[1] \/ x \in ToSet(r) => x \in ToSet(q)
      BY <1>1, <1>2, <1>3, <2>1, <2>2, InToSet
    <3> QED BY <3>1, <3>2
  <2> QED BY <2>3
<1>6. ASSUME IsInjective(q)
      PROVE  IsInjective(r) /\ q[1] \notin ToSet(r)
  <2>1. \A i, j \in 1 .. n : q[i] = q[j] => i = j
    BY <1>1, <1>6 DEF IsInjective
  <2>2. ASSUME NEW i \in 1 .. n - 1, NEW j \in 1 .. n - 1, r[i] = r[j]
        PROVE  i = j
    <3>1. i + 1 \in 1 .. n /\ j + 1 \in 1 .. n /\ q[i + 1] = q[j + 1]
      BY <1>1, <1>3, <2>2
    <3>2. i + 1 = j + 1
      BY <2>1, <3>1
    <3> QED BY <3>2
  <2>3. \A i \in 1 .. n - 1 : r[i] # q[1]
    <3>1. \A i \in 1 .. n - 1 : i + 1 \in 1 .. n /\ 1 \in 1 .. n /\ i + 1 # 1
      BY <1>1
    <3> QED BY <1>3, <2>1, <3>1
  <2> QED BY <1>2, <2>2, <2>3, InToSet DEF IsInjective
<1> QED BY <1>2, <1>4, <1>5, <1>6 DEF r

(* The elements of a concatenation; nothing is there twice if nothing is   *)
(* twice in a part or in both.                                             *)
LEMMA ConcatElements ==
    ASSUME NEW S, NEW p \in Seq(S), NEW q \in Seq(S)
    PROVE  /\ ToSet(p \o q) = ToSet(p) \cup ToSet(q)
           /\ IsInjective(p) /\ IsInjective(q) /\ ToSet(p) \cap ToSet(q) = {} =>
                  IsInjective(p \o q)
<1> DEFINE m == Len(p)
           n == Len(q)
           r == p \o q
<1>1. m \in Nat /\ n \in Nat /\ DOMAIN p = 1 .. m /\ DOMAIN q = 1 .. n
  BY LenProperties
<1>2. /\ r \in Seq(S) /\ Len(r) = m + n
      /\ \A i \in 1 .. m + n : r[i] = IF i <= m THEN p[i] ELSE q[i - m]
  BY ConcatProperties
<1>3. DOMAIN r = 1 .. m + n
  BY <1>2, LenProperties
<1> HIDE DEF m, n, r
<1>4. \A i \in 1 .. m : i \in 1 .. m + n /\ r[i] = p[i]
  BY <1>1, <1>2
<1>5. \A i \in 1 .. n : i + m \in 1 .. m + n /\ r[i + m] = q[i]
  BY <1>1, <1>2
<1>6. \A i \in 1 .. m + n :
         IF i <= m THEN i \in 1 .. m /\ r[i] = p[i]
         ELSE i - m \in 1 .. n /\ r[i] = q[i - m]
  BY <1>1, <1>2
<1>7. ASSUME NEW x
      PROVE  x \in ToSet(r) <=> x \in ToSet(p) \/ x \in ToSet(q)
  <2>1. x \in ToSet(r) => x \in ToSet(p) \/ x \in ToSet(q)
    BY <1>1, <1>3, <1>6, InToSet
  <2>2. x \in ToSet(p) \/ x \in ToSet(q) => x \in ToSet(r)
    BY <1>1, <1>3, <1>4, <1>5, InToSet
  <2> QED BY <2>1, <2>2
<1>8. ASSUME IsInjective(p), IsInjective(q), ToSet(p) \cap ToSet(q) = {},
             NEW i \in 1 .. m + n, NEW j \in 1 .. m + n, r[i] = r[j]
      PROVE  i = j
  <2>1. CASE i <= m /\ j <= m
    <3>1. i \in 1 .. m /\ j \in 1 .. m /\ p[i] = p[j]
      BY <1>6, <1>8, <2>1
    <3> QED BY <1>1, <1>8, <3>1 DEF IsInjective
  <2>2. CASE ~(i <= m) /\ ~(j <= m)
    <3>1. i - m \in 1 .. n /\ j - m \in 1 .. n /\ q[i - m] = q[j - m]
      BY <1>1, <1>2, <1>8, <2>2
    <3>2. i - m = j - m
      BY <1>1, <1>8, <3>1 DEF IsInjective
    <3> QED BY <1>1, <3>2
  <2>3. CASE i <= m /\ ~(j <= m)
    <3>1. r[i] \in ToSet(p) /\ r[j] \in ToSet(q)
      BY <1>1, <1>6, <2>3, InToSet
    <3> QED BY <1>8, <3>1
  <2>4. CASE ~(i <= m) /\ j <= m
    <3>1. r[j] \in ToSet(p) /\ r[i] \in ToSet(q)
      BY <1>1, <1>6, <2>4, InToSet
    <3> QED BY <1>8, <3>1
  <2> QED BY <1>1, <2>1, <2>2, <2>3, <2>4
<1> QED BY <1>3, <1>7, <1>8 DEF IsInjective, r

(* The elements with one more, and how to get it back.                     *)
LEMMA AppendElements ==
    ASSUME NEW S, NEW q \in Seq(S), NEW e \in S
    PROVE  /\ Append(q, e) \in Seq(S) /\ Append(q, e) # <<>>
           /\ Len(Append(q, e)) = Len(q) + 1
           /\ \A i \in 1 .. Len(q) : Append(q, e)[i] = q[i]
           /\ Append(q, e)[Len(q) + 1] = e
           /\ ToSet(Append(q, e)) = ToSet(q) \cup {e}
           /\ Front(Append(q, e)) = q
           /\ Last(Append(q, e)) = e
<1> DEFINE n == Len(q)
           r == Append(q, e)
<1>1. n \in Nat /\ DOMAIN q = 1 .. n
  BY LenProperties
<1>2. /\ r \in Seq(S) /\ r # <<>> /\ Len(r) = n + 1
      /\ \A i \in 1 .. n : r[i] = q[i]
      /\ r[n + 1] = e
  BY AppendProperties
<1>3. DOMAIN r = 1 .. n + 1
  BY <1>2, LenProperties
<1>4. Front(r) = q
  <2>1. /\ SubSeq(r, 1, n) \in Seq(S) /\ Len(SubSeq(r, 1, n)) = n
        /\ \A i \in 1 .. n : SubSeq(r, 1, n)[i] = r[i]
    BY <1>1, <1>2
  <2>2. SubSeq(r, 1, n) = q
    BY <1>2, <2>1, SeqEqual
  <2>3. Front(r) = SubSeq(r, 1, n)
    BY <1>1, <1>2 DEF Front
  <2> QED BY <2>2, <2>3
<1>5. Last(r) = e
  BY <1>2 DEF Last
<1> HIDE DEF n, r
<1>6. ToSet(r) = ToSet(q) \cup {e}
  <2>1. \A i \in 1 .. n + 1 : i \in 1 .. n \/ i = n + 1
    BY <1>1
  <2>2. 1 .. n \subseteq 1 .. n + 1 /\ n + 1 \in 1 .. n + 1
    BY <1>1
  <2> QED BY <1>1, <1>2, <1>3, <2>1, <2>2 DEF ToSet
<1> QED BY <1>2, <1>4, <1>5, <1>6 DEF n, r

(* An element appended to the second of two sequences.                     *)
LEMMA ConcatAppend ==
    ASSUME NEW S, NEW p \in Seq(S), NEW q \in Seq(S), NEW e \in S
    PROVE  p \o Append(q, e) = Append(p \o q, e)
<1> DEFINE one == p \o Append(q, e)
           two == Append(p \o q, e)
           m == Len(p)
           n == Len(q)
<1>1. m \in Nat /\ n \in Nat
  BY LenProperties
<1>2. /\ Append(q, e) \in Seq(S) /\ Len(Append(q, e)) = n + 1
      /\ \A i \in 1 .. n : Append(q, e)[i] = q[i]
      /\ Append(q, e)[n + 1] = e
  BY AppendElements
<1>3. /\ p \o q \in Seq(S) /\ Len(p \o q) = m + n
      /\ \A i \in 1 .. m + n : (p \o q)[i] = IF i <= m THEN p[i] ELSE q[i - m]
  BY ConcatProperties
<1>4. /\ one \in Seq(S) /\ Len(one) = m + (n + 1)
      /\ \A i \in 1 .. m + (n + 1) :
            one[i] = IF i <= m THEN p[i] ELSE Append(q, e)[i - m]
  BY <1>2, ConcatProperties
<1>5. /\ two \in Seq(S) /\ Len(two) = (m + n) + 1
      /\ \A i \in 1 .. m + n : two[i] = (p \o q)[i]
      /\ two[(m + n) + 1] = e
  BY <1>3, AppendElements
<1> HIDE DEF one, two, m, n
<1>6. ASSUME NEW i \in 1 .. Len(one) PROVE one[i] = two[i]
  <2>1. CASE i <= m
    <3>1. i \in 1 .. m + n /\ i \in 1 .. m + (n + 1)
      BY <1>1, <1>4, <2>1
    <3>2. one[i] = p[i]
      BY <1>4, <2>1, <3>1
    <3>3. two[i] = (p \o q)[i]
      BY <1>5, <3>1
    <3>4. (p \o q)[i] = p[i]
      BY <1>3, <2>1, <3>1
    <3> QED BY <3>2, <3>3, <3>4
  <2>2. CASE m < i /\ i <= m + n
    <3>1. i - m \in 1 .. n /\ i \in 1 .. m + n
      BY <1>1, <1>4, <2>2
    <3> QED BY <1>1, <1>2, <1>3, <1>4, <1>5, <2>2, <3>1
  <2>3. CASE i = (m + n) + 1
    <3>1. i - m = n + 1 /\ ~(i <= m)
      BY <1>1, <2>3
    <3> QED BY <1>2, <1>4, <1>5, <2>3, <3>1
  <2> QED BY <1>1, <1>4, <2>1, <2>2, <2>3
<1>7. one = two
  <2>1. one \in Seq(S) /\ two \in Seq(S) /\ Len(one) = Len(two)
    BY <1>1, <1>4, <1>5
  <2> QED BY <1>6, <2>1, SeqEqual, Zenon
<1> QED BY <1>7 DEF one, two

(* The last element is appended to those before it.                        *)
LEMMA FrontLastElements ==
    ASSUME NEW S, NEW q \in Seq(S), q # <<>>
    PROVE  /\ Front(q) \in Seq(S) /\ Last(q) \in S
           /\ q = Append(Front(q), Last(q))
<1>1. PICK p \in Seq(S), e \in S : q = Append(p, e)
  BY SequenceEmptyOrAppend
<1>2. Front(q) = p /\ Last(q) = e
  BY <1>1, AppendElements
<1> QED BY <1>1, <1>2

(* Every element of a finite set is once in the sequence made of it.       *)
LEMMA SetToSeqElements ==
    ASSUME NEW S, IsFiniteSet(S)
    PROVE  /\ SetToSeq(S) \in Seq(S)
           /\ ToSet(SetToSeq(S)) = S
           /\ IsInjective(SetToSeq(S))
<1> DEFINE n == Cardinality(S)
           q == SetToSeq(S)
<1>1. n \in Nat /\ ExistsBijection(1 .. n, S)
  BY FS_CardinalityType
<1>2. \E f \in [1 .. n -> S] : IsInjective(f)
  BY <1>1 DEF ExistsBijection, Bijection, Injection, IsInjective
<1>3. q \in [1 .. n -> S] /\ IsInjective(q)
  BY <1>2 DEF SetToSeq
<1>4. q \in Seq(S) /\ DOMAIN q = 1 .. n
  BY <1>1, <1>3
<1>5. IsFiniteSet(1 .. n) /\ Cardinality(1 .. n) = n
  BY <1>1, FS_Interval
<1>6. q \in Injection(1 .. n, S)
  BY <1>3 DEF Injection
<1>7. q \in Surjection(1 .. n, S)
  BY <1>5, <1>6, FS_Injection
<1>8. ToSet(q) = S
  BY <1>3, <1>4, <1>7 DEF Surjection, ToSet
<1> QED BY <1>3, <1>4, <1>8

-----------------------------------------------------------------------------
(* Parts of a sequence                                                     *)

(* A part between two places of it.                                        *)
LEMMA SubSeqElements ==
    ASSUME NEW S, NEW q \in Seq(S), NEW from \in Nat \ {0}, NEW to \in from - 1 .. Len(q)
    PROVE  /\ SubSeq(q, from, to) \in Seq(S)
           /\ Len(SubSeq(q, from, to)) = to - from + 1
           /\ \A i \in 1 .. to - from + 1 : SubSeq(q, from, to)[i] = q[from + i - 1]
<1>1. Len(q) \in Nat
  BY LenProperties
<1>2. \A i \in from .. to : q[i] \in S
  BY <1>1, ElementOfSeq
<1>3. from \in Int /\ to \in Int /\ (from <= to \/ to - from + 1 = 0)
  BY <1>1
<1> QED BY <1>2, <1>3, SubSeqProperties

(* A prefix has the first elements of the sequence.                        *)
LEMMA PrefixElements ==
    ASSUME NEW word, NEW q, Len(word) \in Nat, IsPrefix(word, q)
    PROVE  Len(word) <= Len(q) /\ \A i \in 1 .. Len(word) : q[i] = word[i]
<1>1. Len(word) <= Len(q) /\ SubSeq(word, 1, Len(word)) = SubSeq(q, 1, Len(word))
  BY DEF IsPrefix
<1>2. PICK n \in Nat : n = Len(word)
  OBVIOUS
<1> DEFINE S == {word[i] : i \in 1 .. n} \cup {q[i] : i \in 1 .. n}
<1>3. \A i \in 1 .. n : word[i] \in S /\ q[i] \in S
  OBVIOUS
<1> HIDE DEF S
<1>4. /\ 1 \in Int /\ n \in Int /\ n - 1 + 1 = n /\ \A i \in 1 .. n : 1 + i - 1 = i
  OBVIOUS
<1>5. \A i \in 1 .. n - 1 + 1 : SubSeq(word, 1, n)[i] = word[1 + i - 1]
  BY <1>3, <1>4, SubSeqProperties
<1>6. \A i \in 1 .. n - 1 + 1 : SubSeq(q, 1, n)[i] = q[1 + i - 1]
  BY <1>3, <1>4, SubSeqProperties
<1> QED BY <1>1, <1>2, <1>4, <1>5, <1>6

-----------------------------------------------------------------------------
(* Selected                                                                *)

(* Every set of natural numbers that is not empty has a least element.     *)
LEMMA LeastNat ==
    ASSUME NEW T, T \subseteq Nat, T # {}
    PROVE  \E n \in T : \A m \in T : n <= m
<1> DEFINE R == OpToRel(<, Nat)
<1>1. IsWellFoundedOn(R, Nat)
  BY NatLessThanWellFounded
<1>2. \A x, y \in Nat : <<x, y>> \in R <=> x < y
  BY DEF OpToRel
<1> HIDE DEF R
<1>3. PICK x \in T : \A y \in T : ~ (<<y, x>> \in R)
  BY <1>1, WFMin
<1>4. \A y \in T : ~ (y < x)
  BY <1>2, <1>3
<1>5. x \in Nat /\ \A y \in T : y \in Nat
  BY <1>3
<1>6. \A y \in T : x <= y
  BY <1>4, <1>5
<1> QED BY <1>3, <1>6

(* The largest and the least of some numbers.                              *)
LEMMA MaxIsMax ==
    ASSUME NEW n \in Nat, NEW T, T \subseteq 0 .. n, T # {}
    PROVE  Max(T) \in T /\ \A i \in T : i <= Max(T)
<1> DEFINE U == {n - i : i \in T}
<1>1. U \subseteq Nat /\ U # {}
  OBVIOUS
<1>2. PICK u \in U : \A v \in U : u <= v
  BY <1>1, LeastNat
<1>3. PICK x \in T : u = n - x
  BY <1>2
<1>4. ASSUME NEW y \in T PROVE x >= y
  <2>1. n - y \in U /\ y \in Int /\ x \in Int
    OBVIOUS
  <2>2. n - x <= n - y
    BY <1>2, <1>3, <2>1
  <2> QED BY <2>1, <2>2
<1>5. \E z \in T : \A y \in T : z >= y
  BY <1>4
<1> QED BY <1>5 DEF Max

LEMMA MinIsMin ==
    ASSUME NEW T, T \subseteq Nat, T # {}
    PROVE  Min(T) \in T /\ \A i \in T : Min(T) <= i
BY LeastNat DEF Min

\* f is the selection from the first elements of s, up to each number to n.
Selects(f, s, S, n) ==
    f = [i \in 0 .. n |->
            IF i = 0 THEN <<>>
            ELSE IF s[i] \in S THEN Append(f[i - 1], s[i])
            ELSE f[i - 1]]

(* The recursive definition defines a function: one number without it      *)
(* would have a predecessor with it.                                       *)
LEMMA SelectionExists ==
    ASSUME NEW s, NEW S, NEW n \in Nat
    PROVE  \E f : Selects(f, s, S, n)
<1> DEFINE T == {k \in Nat : ~ \E f : Selects(f, s, S, k)}
<1>1. SUFFICES ASSUME T # {} PROVE FALSE
  OBVIOUS
<1>2. PICK k \in T : \A m \in T : k <= m
  BY <1>1, LeastNat
<1>3. CASE k = 0
  <2>1. Selects([i \in 0 .. 0 |-> <<>>], s, S, 0)
    BY DEF Selects
  <2> QED BY <1>2, <1>3, <2>1
<1>4. CASE k # 0
  <2>1. k - 1 \in Nat /\ k - 1 \notin T
    BY <1>2, <1>4
  <2>2. PICK f : Selects(f, s, S, k - 1)
    BY <2>1
  <2> DEFINE g == [i \in 0 .. k |->
                      IF i < k THEN f[i]
                      ELSE IF s[i] \in S THEN Append(f[i - 1], s[i])
                      ELSE f[i - 1]]
  <2>3. \A i \in 0 .. k - 1 : g[i] = f[i]
    BY <2>1
  <2>4. \A i \in 0 .. k - 1 :
           f[i] = IF i = 0 THEN <<>>
                  ELSE IF s[i] \in S THEN Append(f[i - 1], s[i])
                  ELSE f[i - 1]
    BY <2>2, Zenon DEF Selects
  <2>5. \A i \in 0 .. k :
           g[i] = IF i = 0 THEN <<>>
                  ELSE IF s[i] \in S THEN Append(g[i - 1], s[i])
                  ELSE g[i - 1]
    BY <1>4, <2>1, <2>3, <2>4
  <2>6. g = [i \in 0 .. k |-> g[i]]
    OBVIOUS
  <2> HIDE DEF g
  <2>7. g = [i \in 0 .. k |->
                IF i = 0 THEN <<>>
                ELSE IF s[i] \in S THEN Append(g[i - 1], s[i])
                ELSE g[i - 1]]
    BY <2>5, <2>6
  <2> QED BY <1>2, <2>7 DEF Selects
<1> QED BY <1>3, <1>4

(* Two selections agree as far as the sequences do.                        *)
LEMMA SelectionUnique ==
    ASSUME NEW s, NEW t, NEW S, NEW n \in Nat, NEW k \in n .. n + 1,
           \A i \in 1 .. n : s[i] = t[i],
           NEW f, Selects(f, s, S, n), NEW g, Selects(g, t, S, k)
    PROVE  \A i \in 0 .. n : f[i] = g[i]
<1> DEFINE T == {i \in 0 .. n : f[i] # g[i]}
<1>1. SUFFICES ASSUME T # {} PROVE FALSE
  OBVIOUS
<1>2. PICK i \in T : \A m \in T : i <= m
  <2>1. T \subseteq Nat
    OBVIOUS
  <2> QED BY <1>1, <2>1, LeastNat
<1>3. /\ f[i] = IF i = 0 THEN <<>>
                ELSE IF s[i] \in S THEN Append(f[i - 1], s[i]) ELSE f[i - 1]
      /\ g[i] = IF i = 0 THEN <<>>
                ELSE IF t[i] \in S THEN Append(g[i - 1], t[i]) ELSE g[i - 1]
  <2>1. i \in 0 .. n /\ i \in 0 .. k
    BY <1>2
  <2> QED BY <2>1, Zenon DEF Selects
<1>4. i # 0
  BY <1>2, <1>3
<1>5. i - 1 \in 0 .. n /\ i - 1 \notin T
  BY <1>2, <1>4
<1> QED BY <1>2, <1>3, <1>4, <1>5

(* What is selected is what any such function gives for the whole.         *)
LEMMA SelectedIs ==
    ASSUME NEW s, NEW S, Len(s) \in Nat
    PROVE  \E f : Selects(f, s, S, Len(s)) /\ Selected(s, S) = f[Len(s)]
<1> DEFINE f == CHOOSE f : Selects(f, s, S, Len(s))
<1>1. Selects(f, s, S, Len(s))
  BY SelectionExists, Zenon
<1>2. Selected(s, S) = f[Len(s)]
  BY Zenon DEF Selected, Selects
<1> QED BY <1>1, <1>2

(* Nothing is selected from nothing.                                       *)
LEMMA SelectedEmpty ==
    ASSUME NEW S
    PROVE  Selected(<<>>, S) = <<>>
<1>1. Len(<<>>) = 0
  OBVIOUS
<1>2. PICK f : Selects(f, <<>>, S, 0) /\ Selected(<<>>, S) = f[0]
  BY <1>1, SelectedIs
<1> QED BY <1>2 DEF Selects

(* An element that is appended is selected last, if it is in the set.      *)
LEMMA SelectedAppend ==
    ASSUME NEW D, NEW s \in Seq(D), NEW e \in D, NEW S
    PROVE  Selected(Append(s, e), S) =
               IF e \in S THEN Append(Selected(s, S), e) ELSE Selected(s, S)
<1> DEFINE t == Append(s, e)
           n == Len(s)
<1>1. n \in Nat /\ Len(t) = n + 1 /\ t[n + 1] = e /\ \A i \in 1 .. n : s[i] = t[i]
  OBVIOUS
<1> HIDE DEF t
<1>2. PICK f : Selects(f, s, S, n) /\ Selected(s, S) = f[n]
  BY <1>1, SelectedIs
<1>3. PICK g : Selects(g, t, S, n + 1) /\ Selected(t, S) = g[n + 1]
  BY <1>1, SelectedIs
<1>4. f[n] = g[n]
  BY <1>1, <1>2, <1>3, SelectionUnique, SMTT(40)
<1>5. g[n + 1] = IF t[n + 1] \in S THEN Append(g[n], t[n + 1]) ELSE g[n]
  <2>1. n + 1 \in 0 .. n + 1 /\ n + 1 # 0 /\ (n + 1) - 1 = n
    BY <1>1
  <2>2. g[n + 1] = IF n + 1 = 0 THEN <<>>
                   ELSE IF t[n + 1] \in S THEN Append(g[(n + 1) - 1], t[n + 1])
                   ELSE g[(n + 1) - 1]
    BY <1>3, <2>1, Zenon DEF Selects
  <2> QED BY <2>1, <2>2
<1> QED BY <1>1, <1>2, <1>3, <1>4, <1>5 DEF t

(* What is selected are elements of the sequence.                          *)
LEMMA SelectedType ==
    ASSUME NEW D, NEW s \in Seq(D), NEW S
    PROVE  Selected(s, S) \in Seq(D)
<1> DEFINE Short(k) == {q \in Seq(D) : Len(q) = k /\ Selected(q, S) \notin Seq(D)}
           T == {k \in Nat : Short(k) # {}}
<1>1. SUFFICES ASSUME T # {} PROVE FALSE
  <2>1. Len(s) \in Nat
    OBVIOUS
  <2> QED BY <1>1, <2>1
<1>2. PICK k \in T : \A m \in T : k <= m
  <2>1. T \subseteq Nat
    OBVIOUS
  <2> QED BY <1>1, <2>1, LeastNat
<1>3. PICK q \in Seq(D) : Len(q) = k /\ Selected(q, S) \notin Seq(D)
  BY <1>2
<1>4. CASE q = <<>>
  BY <1>3, <1>4, SelectedEmpty, EmptySeq
<1>5. CASE q # <<>>
  <2>1. PICK p \in Seq(D), e \in D : q = Append(p, e)
    BY <1>5, SequenceEmptyOrAppend
  <2>2. Len(p) \in Nat /\ Len(p) < k
    BY <1>3, <2>1, AppendElements
  <2>3. Selected(p, S) \in Seq(D)
    BY <1>2, <2>2
  <2>4. Selected(q, S) = IF e \in S THEN Append(Selected(p, S), e) ELSE Selected(p, S)
    BY <2>1, SelectedAppend
  <2>5. Selected(q, S) \in Seq(D)
    BY <2>3, <2>4, AppendElements
  <2> QED BY <1>3, <2>5
<1> QED BY <1>4, <1>5

-----------------------------------------------------------------------------
(* FlattenSeq                                                              *)

\* f joins the first of the sequences in s, for each number from 1 to n.
Joins(f, s, n) ==
    f = [i \in 1 .. n |-> IF i = 1 THEN s[i] ELSE f[i - 1] \o s[i]]

(* This too defines a function.                                            *)
LEMMA JoinExists ==
    ASSUME NEW s, NEW n \in Nat
    PROVE  \E f : Joins(f, s, n)
<1> DEFINE T == {k \in Nat : ~ \E f : Joins(f, s, k)}
<1>1. SUFFICES ASSUME T # {} PROVE FALSE
  OBVIOUS
<1>2. PICK k \in T : \A m \in T : k <= m
  <2>1. T \subseteq Nat
    OBVIOUS
  <2> QED BY <1>1, <2>1, LeastNat
<1>3. CASE k = 0
  <2> DEFINE g == [i \in 1 .. 0 |-> s[i]]
  <2>1. Joins(g, s, 0)
    BY DEF Joins
  <2> QED BY <1>2, <1>3, <2>1
<1>4. CASE k # 0
  <2>1. k - 1 \in Nat /\ k - 1 \notin T
    BY <1>2, <1>4
  <2>2. PICK f : Joins(f, s, k - 1)
    BY <2>1
  <2> DEFINE g == [i \in 1 .. k |->
                      IF i < k THEN f[i]
                      ELSE IF i = 1 THEN s[i] ELSE f[i - 1] \o s[i]]
  <2>3. \A i \in 1 .. k - 1 : g[i] = f[i]
    BY <2>1
  <2>4. \A i \in 1 .. k - 1 : f[i] = IF i = 1 THEN s[i] ELSE f[i - 1] \o s[i]
    BY <2>2, Zenon DEF Joins
  <2>5. \A i \in 1 .. k : g[i] = IF i = 1 THEN s[i] ELSE g[i - 1] \o s[i]
    BY <1>4, <2>1, <2>3, <2>4
  <2>6. g = [i \in 1 .. k |-> g[i]]
    OBVIOUS
  <2> HIDE DEF g
  <2>7. g = [i \in 1 .. k |-> IF i = 1 THEN s[i] ELSE g[i - 1] \o s[i]]
    BY <2>5, <2>6
  <2> QED BY <1>2, <2>7 DEF Joins
<1> QED BY <1>3, <1>4

(* Two of them agree as far as the sequences do.                           *)
LEMMA JoinUnique ==
    ASSUME NEW s, NEW t, NEW n \in Nat, NEW k \in n .. n + 1,
           \A i \in 1 .. n : s[i] = t[i],
           NEW f, Joins(f, s, n), NEW g, Joins(g, t, k)
    PROVE  \A i \in 1 .. n : f[i] = g[i]
<1> DEFINE T == {i \in 1 .. n : f[i] # g[i]}
<1>1. SUFFICES ASSUME T # {} PROVE FALSE
  OBVIOUS
<1>2. PICK i \in T : \A m \in T : i <= m
  <2>1. T \subseteq Nat
    OBVIOUS
  <2> QED BY <1>1, <2>1, LeastNat
<1>3. /\ f[i] = IF i = 1 THEN s[i] ELSE f[i - 1] \o s[i]
      /\ g[i] = IF i = 1 THEN t[i] ELSE g[i - 1] \o t[i]
  <2>1. i \in 1 .. n /\ i \in 1 .. k
    BY <1>2
  <2> QED BY <2>1, Zenon DEF Joins
<1>4. i # 1
  BY <1>2, <1>3
<1>5. i - 1 \in 1 .. n /\ i - 1 \notin T
  BY <1>2, <1>4
<1> QED BY <1>2, <1>3, <1>4, <1>5

(* The flattened sequence is what any such function gives for the whole.   *)
LEMMA FlattenIs ==
    ASSUME NEW s, Len(s) \in Nat \ {0}
    PROVE  \E f : Joins(f, s, Len(s)) /\ FlattenSeq(s) = f[Len(s)]
<1> DEFINE f == CHOOSE f : Joins(f, s, Len(s))
<1>1. Joins(f, s, Len(s))
  BY JoinExists, Zenon
<1>2. FlattenSeq(s) = f[Len(s)]
  BY Zenon DEF FlattenSeq, Joins
<1> QED BY <1>1, <1>2

(* A sequence that goes on where another ends is joined to what that gives. *)
LEMMA FlattenLonger ==
    ASSUME NEW s, NEW t, NEW n \in Nat \ {0}, Len(s) = n, Len(t) = n + 1,
           \A i \in 1 .. n : s[i] = t[i]
    PROVE  FlattenSeq(t) = FlattenSeq(s) \o t[n + 1]
<1>1. PICK f : Joins(f, s, n) /\ FlattenSeq(s) = f[n]
  BY FlattenIs
<1>2. PICK g : Joins(g, t, n + 1) /\ FlattenSeq(t) = g[n + 1]
  BY FlattenIs
<1>3. f[n] = g[n]
  BY <1>1, <1>2, JoinUnique
<1>4. g[n + 1] = IF n + 1 = 1 THEN t[n + 1] ELSE g[n] \o t[n + 1]
  <2>1. n + 1 \in 1 .. n + 1 /\ (n + 1) - 1 = n
    OBVIOUS
  <2>2. g[n + 1] = IF n + 1 = 1 THEN t[n + 1] ELSE g[(n + 1) - 1] \o t[n + 1]
    BY <1>2, <2>1, Zenon DEF Joins
  <2> QED BY <2>1, <2>2
<1>5. n + 1 # 1
  OBVIOUS
<1>6. g[n + 1] = f[n] \o t[n + 1]
  BY <1>3, <1>4, <1>5
<1> QED BY <1>1, <1>2, <1>6

(* One sequence is joined to itself.                                       *)
LEMMA FlattenOne ==
    ASSUME NEW s, Len(s) = 1
    PROVE  FlattenSeq(s) = s[1]
<1>1. Len(s) \in Nat \ {0}
  OBVIOUS
<1>2. PICK f : Joins(f, s, Len(s)) /\ FlattenSeq(s) = f[Len(s)]
  BY <1>1, FlattenIs, Zenon
<1>3. Joins(f, s, 1) /\ FlattenSeq(s) = f[1]
  BY <1>2
<1>4. f[1] = s[1]
  BY <1>3 DEF Joins
<1> QED BY <1>3, <1>4

(* Flattening nothing, and one sequence more.                              *)
LEMMA FlattenAppend ==
    ASSUME NEW D, NEW s \in Seq(Seq(D)), NEW e \in Seq(D)
    PROVE  /\ FlattenSeq(<<>>) = <<>>
           /\ FlattenSeq(Append(s, e)) = FlattenSeq(s) \o e
<1> DEFINE t == Append(s, e)
           n == Len(s)
<1>1. FlattenSeq(<<>>) = <<>>
  BY DEF FlattenSeq
<1>2. n \in Nat /\ Len(t) = n + 1 /\ t[n + 1] = e /\ \A i \in 1 .. n : s[i] = t[i]
  OBVIOUS
<1>3. CASE s = <<>>
  <2>1. <<>> \o e = e /\ t = <<e>>
    BY <1>3, ConcatEmptySeq
  <2>2. FlattenSeq(t) = e
    BY <1>2, <1>3, FlattenOne
  <2> QED BY <1>1, <1>3, <2>1, <2>2
<1>4. CASE s # <<>>
  <2>1. n \in Nat \ {0}
    BY <1>2, <1>4, EmptySeq
  <2>2. FlattenSeq(t) = FlattenSeq(s) \o t[n + 1]
    BY <1>2, <2>1, FlattenLonger
  <2> QED BY <1>1, <1>2, <2>2
<1> QED BY <1>3, <1>4

(* A flattened sequence of sequences over D is a sequence over D.          *)
LEMMA FlattenType ==
    ASSUME NEW D, NEW s \in Seq(Seq(D))
    PROVE  FlattenSeq(s) \in Seq(D)
<1> DEFINE Short(k) == {q \in Seq(Seq(D)) : Len(q) = k /\ FlattenSeq(q) \notin Seq(D)}
           T == {k \in Nat : Short(k) # {}}
<1>1. SUFFICES ASSUME T # {} PROVE FALSE
  <2>1. Len(s) \in Nat
    OBVIOUS
  <2> QED BY <1>1, <2>1
<1>2. PICK k \in T : \A m \in T : k <= m
  <2>1. T \subseteq Nat
    OBVIOUS
  <2> QED BY <1>1, <2>1, LeastNat
<1>3. PICK q \in Seq(Seq(D)) : Len(q) = k /\ FlattenSeq(q) \notin Seq(D)
  BY <1>2
<1>4. CASE q = <<>>
  <2>1. <<>> \in Seq(D) /\ FlattenSeq(<<>>) = <<>>
    BY EmptySeq DEF FlattenSeq
  <2> QED BY <1>3, <1>4, <2>1
<1>5. CASE q # <<>>
  <2>1. PICK p \in Seq(Seq(D)), e \in Seq(D) : q = Append(p, e)
    BY <1>5, SequenceEmptyOrAppend
  <2>2. Len(p) \in Nat /\ Len(p) < k
    BY <1>3, <2>1, AppendElements
  <2>3. FlattenSeq(p) \in Seq(D)
    BY <1>2, <2>2
  <2>4. FlattenSeq(q) = FlattenSeq(p) \o e
    BY <2>1, FlattenAppend
  <2> QED BY <1>3, <2>3, <2>4, ConcatProperties
<1> QED BY <1>4, <1>5

-----------------------------------------------------------------------------
(* Numbers defined by recursion                                            *)

\* f is defined by its first value and by g, from each value to the next.
Recurs(f, g, first, n) == f = [i \in 0 .. n |-> IF i = 0 THEN first ELSE g[i][f[i - 1]]]

(* There is such a function, into the set that g maps into.                *)
LEMMA RecursionExists ==
    ASSUME NEW S, NEW first \in S, NEW n \in Nat, NEW g \in [1 .. n -> [S -> S]]
    PROVE  \E f \in [0 .. n -> S] : Recurs(f, g, first, n)
<1> DEFINE T == {k \in 0 .. n : ~ \E f \in [0 .. k -> S] : Recurs(f, g, first, k)}
<1>1. SUFFICES ASSUME T # {} PROVE FALSE
  OBVIOUS
<1>2. PICK k \in T : \A m \in T : k <= m
  <2>1. T \subseteq Nat
    OBVIOUS
  <2> QED BY <1>1, <2>1, LeastNat
<1>3. CASE k = 0
  <2> DEFINE f == [i \in 0 .. 0 |-> first]
  <2>1. f \in [0 .. 0 -> S] /\ Recurs(f, g, first, 0)
    BY DEF Recurs
  <2> QED BY <1>2, <1>3, <2>1
<1>4. CASE k # 0
  <2>1. k - 1 \in 0 .. n /\ k - 1 \notin T /\ k \in 1 .. n
    BY <1>2, <1>4
  <2>2. PICK f \in [0 .. k - 1 -> S] : Recurs(f, g, first, k - 1)
    BY <2>1
  <2> DEFINE h == [i \in 0 .. k |-> IF i = k THEN g[k][f[k - 1]] ELSE f[i]]
  <2>3. \A i \in 0 .. k - 1 : h[i] = f[i]
    BY <2>1
  <2>4. \A i \in 0 .. k - 1 : f[i] = IF i = 0 THEN first ELSE g[i][f[i - 1]]
    BY <2>2, Zenon DEF Recurs
  <2>5. h[k] = g[k][h[k - 1]]
    BY <2>1, <2>3
  <2>6. \A i \in 0 .. k : h[i] = IF i = 0 THEN first ELSE g[i][h[i - 1]]
    BY <1>4, <2>1, <2>3, <2>4, <2>5
  <2>7. h \in [0 .. k -> S]
    <3>1. f[k - 1] \in S
      BY <2>1
    <3>2. g[k][f[k - 1]] \in S
      BY <2>1, <3>1
    <3> QED BY <2>1, <3>2
  <2>8. h = [i \in 0 .. k |-> h[i]]
    OBVIOUS
  <2> HIDE DEF h
  <2>9. h = [i \in 0 .. k |-> IF i = 0 THEN first ELSE g[i][h[i - 1]]]
    BY <2>6, <2>8
  <2> QED BY <1>2, <2>7, <2>9 DEF Recurs
<1> QED BY <1>3, <1>4
=============================================================================
