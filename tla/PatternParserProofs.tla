------------------------- MODULE PatternParserProofs -------------------------
(***************************************************************************)
(* Proofs about PatternParser, for any pattern, any configuration and any  *)
(* capacity.                                                               *)
(***************************************************************************)
EXTENDS PatternParser, SequenceLemmas

\* Where the parser is in its input, and what it has added so far.
Position ==
    /\ input \in Seq(STRING)
    /\ in \in 0 .. Len(input)
    /\ literalStart \in 0 .. in
    /\ inLiteral \in BOOLEAN
    /\ inLiteral => literalStart < in
    /\ spans \in Seq([from : Nat, to : Nat])
    /\ segments \in Seq(ToSet(segments))
    /\ Len(spans) = Len(segments)

\* There is a place in the array for every segment, and a segment for every
\* style that is open.
WithinCapacity == Len(segments) <= MaxSegments /\ depth \in 0 .. Len(segments)

\* Only the kinds that the configuration allows, and literals.
KindsAllowed ==
    \A i \in DOMAIN segments :
        segments[i].kind = "Literal" \/ config.allowed = {} \/ segments[i].kind \in config.allowed

ParserInv == Position /\ WithinCapacity /\ KindsAllowed /\ Cover /\ Nested

-----------------------------------------------------------------------------
(* A sequence of whatever elements is still one with another at its end.   *)
LEMMA AppendAny ==
    ASSUME NEW s, s \in Seq(ToSet(s)), NEW e
    PROVE  /\ Append(s, e) \in Seq(ToSet(Append(s, e)))
           /\ Len(Append(s, e)) = Len(s) + 1
           /\ Len(s) \in Nat
           /\ DOMAIN s = 1 .. Len(s)
           /\ DOMAIN Append(s, e) = 1 .. Len(s) + 1
           /\ \A i \in 1 .. Len(s) : Append(s, e)[i] = s[i]
           /\ Append(s, e)[Len(s) + 1] = e
<1> DEFINE S == ToSet(s) \cup {e}
           t == Append(s, e)
<1>1. s \in Seq(S)
  BY SeqMonotonic, ToSet(s) \subseteq S
<1>2. Len(s) \in Nat /\ DOMAIN s = 1 .. Len(s)
  BY <1>1, LenProperties
<1> HIDE DEF S
<1>3. /\ t \in Seq(S) /\ Len(t) = Len(s) + 1
      /\ \A i \in 1 .. Len(s) : t[i] = s[i]
      /\ t[Len(s) + 1] = e
  BY <1>1, AppendProperties, e \in S DEF S
<1> HIDE DEF t
<1>4. DOMAIN t = 1 .. Len(t)
  BY <1>3, LenProperties
<1>5. t \in [1 .. Len(t) -> ToSet(t)]
  BY <1>3, <1>4, LenProperties DEF ToSet
<1>6. t \in Seq(ToSet(t))
  BY <1>3, <1>5, <1>2, SeqDef
<1> QED BY <1>2, <1>3, <1>4, <1>6 DEF t

(* The places from 1 to n that are in a set, when one more is looked at.   *)
LEMMA CountOneMore ==
    ASSUME NEW n \in Nat, NEW A \in SUBSET (1 .. n)
    PROVE  /\ Cardinality(A) \in Nat
           /\ Cardinality(A \cup {n + 1}) = Cardinality(A) + 1
<1>1. IsFiniteSet(A)
  <2>1. IsFiniteSet(1 .. n)
    BY FS_Interval
  <2> QED BY <2>1, FS_Subset
<1>2. n + 1 \notin A
  OBVIOUS
<1> QED BY <1>1, <1>2, FS_AddElement, FS_CardinalityType

(* The counts of styles up to a place do not depend on what comes later;   *)
(* the new segment counts for its kind.                                    *)
LEMMA CountsAfterAppend ==
    ASSUME segments \in Seq(ToSet(segments)), NEW e, segments' = Append(segments, e),
           NEW L, L = Len(segments)
    PROVE  /\ \A n \in 0 .. L :
                 /\ Opened(n)' = Opened(n) /\ Closed(n)' = Closed(n)
                 /\ Opened(n) \in Nat /\ Closed(n) \in Nat
           /\ Opened(L + 1)' = IF isStyleStart(e.kind) THEN Opened(L) + 1 ELSE Opened(L)
           /\ Closed(L + 1)' = IF e.kind = "StyleEnd" THEN Closed(L) + 1 ELSE Closed(L)
<1> DEFINE OpenAt(n) == {i \in 1 .. n : isStyleStart(segments[i].kind)}
           CloseAt(n) == {i \in 1 .. n : segments[i].kind = "StyleEnd"}
           NewOpenAt(n) == {i \in 1 .. n : isStyleStart(segments'[i].kind)}
           NewCloseAt(n) == {i \in 1 .. n : segments'[i].kind = "StyleEnd"}
<1>1. /\ L \in Nat
      /\ \A i \in 1 .. L : segments'[i] = segments[i]
      /\ segments'[L + 1] = e
  BY AppendAny
<1>2. \A n : /\ Opened(n) = Cardinality(OpenAt(n)) /\ Opened(n)' = Cardinality(NewOpenAt(n))
             /\ Closed(n) = Cardinality(CloseAt(n)) /\ Closed(n)' = Cardinality(NewCloseAt(n))
  BY DEF Opened, Closed, isStyleStart
<1>3. ASSUME NEW n \in 0 .. L
      PROVE  /\ Opened(n)' = Opened(n) /\ Closed(n)' = Closed(n)
             /\ Opened(n) \in Nat /\ Closed(n) \in Nat
  <2>1. n \in Nat /\ \A i \in 1 .. n : segments'[i] = segments[i]
    BY <1>1, <1>3
  <2>2. OpenAt(n) = NewOpenAt(n) /\ CloseAt(n) = NewCloseAt(n)
    BY <2>1
  <2>3. Cardinality(OpenAt(n)) \in Nat /\ Cardinality(CloseAt(n)) \in Nat
    BY <2>1, CountOneMore, OpenAt(n) \in SUBSET (1 .. n), CloseAt(n) \in SUBSET (1 .. n)
  <2> QED BY <1>2, <2>2, <2>3
<1>4. /\ NewOpenAt(L + 1) = IF isStyleStart(e.kind) THEN OpenAt(L) \cup {L + 1} ELSE OpenAt(L)
      /\ NewCloseAt(L + 1) = IF e.kind = "StyleEnd" THEN CloseAt(L) \cup {L + 1} ELSE CloseAt(L)
  BY <1>1
<1>5. /\ Cardinality(OpenAt(L) \cup {L + 1}) = Cardinality(OpenAt(L)) + 1
      /\ Cardinality(CloseAt(L) \cup {L + 1}) = Cardinality(CloseAt(L)) + 1
  BY <1>1, CountOneMore, OpenAt(L) \in SUBSET (1 .. L), CloseAt(L) \in SUBSET (1 .. L)
<1> HIDE DEF OpenAt, CloseAt, NewOpenAt, NewCloseAt
<1>6. Opened(L + 1)' = IF isStyleStart(e.kind) THEN Opened(L) + 1 ELSE Opened(L)
  BY <1>2, <1>4, <1>5
<1>7. Closed(L + 1)' = IF e.kind = "StyleEnd" THEN Closed(L) + 1 ELSE Closed(L)
  BY <1>2, <1>4, <1>5
<1> QED BY <1>3, <1>6, <1>7

-----------------------------------------------------------------------------
(* Numbers                                                                 *)

\* The values of the first digits, for each number of digits to n; and the
\* same as an UInt16 holds them.
Numbered(f, digits, n) ==
    f = [i \in 0 .. n |-> IF i = 0 THEN 0 ELSE 10 * f[i - 1] + DigitValue[digits[i]]]
ShortNumbered(f, digits, n) ==
    f = [i \in 0 .. n |-> IF i = 0 THEN 0 ELSE Short(10 * f[i - 1] + DigitValue[digits[i]])]

(* The two recursive definitions define functions.                         *)
LEMMA NumbersExist ==
    ASSUME NEW digits, NEW n \in Nat, \A i \in 1 .. n : DigitValue[digits[i]] \in 0 .. 9
    PROVE  /\ \E f : Numbered(f, digits, n)
           /\ \E f : ShortNumbered(f, digits, n)
<1> DEFINE Value(i) == DigitValue[digits[i]]
           g == [i \in 1 .. n |-> [a \in Nat |-> 10 * a + Value(i)]]
           h == [i \in 1 .. n |-> [a \in Nat |-> Short(10 * a + Value(i))]]
<1>1. \A i \in 1 .. n : Value(i) \in 0 .. 9
  OBVIOUS
<1> HIDE DEF Value
<1>2. \A i \in 1 .. n, a \in Nat : 10 * a + Value(i) \in Nat
  BY <1>1
<1>3. \A i \in 1 .. n, a \in Nat : Short(10 * a + Value(i)) \in Nat
  BY <1>2, ShortPowerAssumption DEF Short
<1>4. g \in [1 .. n -> [Nat -> Nat]] /\ h \in [1 .. n -> [Nat -> Nat]]
  BY <1>2, <1>3
<1>5. /\ \A i \in 1 .. n, a \in Nat : g[i][a] = 10 * a + Value(i)
      /\ \A i \in 1 .. n, a \in Nat : h[i][a] = Short(10 * a + Value(i))
  OBVIOUS
<1> HIDE DEF g, h
<1>6. PICK f \in [0 .. n -> Nat] : Recurs(f, g, 0, n)
  BY <1>4, RecursionExists
<1>7. PICK e \in [0 .. n -> Nat] : Recurs(e, h, 0, n)
  BY <1>4, RecursionExists
<1>8. \A i \in 0 .. n : /\ f[i] = IF i = 0 THEN 0 ELSE g[i][f[i - 1]]
                        /\ e[i] = IF i = 0 THEN 0 ELSE h[i][e[i - 1]]
  BY <1>6, <1>7, Zenon DEF Recurs
<1>9. \A i \in 0 .. n : /\ f[i] = IF i = 0 THEN 0 ELSE 10 * f[i - 1] + Value(i)
                        /\ e[i] = IF i = 0 THEN 0 ELSE Short(10 * e[i - 1] + Value(i))
  <2> SUFFICES ASSUME NEW i \in 1 .. n
               PROVE  /\ f[i] = 10 * f[i - 1] + Value(i)
                      /\ e[i] = Short(10 * e[i - 1] + Value(i))
    BY <1>8
  <2>1. i \in 0 .. n /\ i # 0 /\ i - 1 \in 0 .. n
    OBVIOUS
  <2>2. f[i - 1] \in Nat /\ e[i - 1] \in Nat
    BY <1>6, <1>7, <2>1
  <2> QED BY <1>5, <1>8, <2>1, <2>2
<1>10. f = [i \in 0 .. n |-> f[i]] /\ e = [i \in 0 .. n |-> e[i]]
  BY <1>6, <1>7
<1>11. /\ f = [i \in 0 .. n |-> IF i = 0 THEN 0 ELSE 10 * f[i - 1] + Value(i)]
       /\ e = [i \in 0 .. n |-> IF i = 0 THEN 0 ELSE Short(10 * e[i - 1] + Value(i))]
  BY <1>9, <1>10
<1> QED BY <1>11, Zenon DEF Numbered, ShortNumbered, Value

(* An UInt16 holds the number that is spelled, if it is wide enough: then  *)
(* it is wide enough for the first digits too.                             *)
LEMMA Spelled ==
    ASSUME NEW digits, Len(digits) \in Nat,
           \A i \in 1 .. Len(digits) : DigitValue[digits[i]] \in 0 .. 9
    PROVE  /\ NumberSpelled(digits) \in Nat
           /\ ShortSpelled(digits) \in Shorts
           /\ NumberSpelled(digits) < 2^ShortBits =>
                 ShortSpelled(digits) = NumberSpelled(digits)
<1> DEFINE n == Len(digits)
           m == 2^ShortBits
           Value(i) == DigitValue[digits[i]]
           f == CHOOSE f : Numbered(f, digits, n)
           e == CHOOSE e : ShortNumbered(e, digits, n)
<1>1. Numbered(f, digits, n) /\ ShortNumbered(e, digits, n)
  BY NumbersExist, Zenon
<1>2. NumberSpelled(digits) = f[n] /\ ShortSpelled(digits) = e[n]
  BY Zenon DEF NumberSpelled, ShortSpelled, Numbered, ShortNumbered
<1>3. /\ \A i \in 1 .. n : Value(i) \in 0 .. 9
      /\ m \in Nat \ {0} /\ n \in Nat
  BY ShortPowerAssumption
<1>4. \A i \in 0 .. n : /\ f[i] = IF i = 0 THEN 0 ELSE 10 * f[i - 1] + Value(i)
                        /\ e[i] = IF i = 0 THEN 0 ELSE Short(10 * e[i - 1] + Value(i))
  BY <1>1, Zenon DEF Numbered, ShortNumbered
<1> HIDE DEF f, e, n, m, Value
<1> DEFINE Good(i) == f[i] \in Nat /\ e[i] \in 0 .. m - 1 /\ (f[i] < m => e[i] = f[i])
           T == {i \in 0 .. n : ~Good(i)}
<1>5. T = {}
  <2>1. SUFFICES ASSUME T # {} PROVE FALSE
    OBVIOUS
  <2>2. PICK k \in T : \A i \in T : k <= i
    <3>1. T \subseteq Nat
      BY <1>3
    <3> QED BY <2>1, <3>1, LeastNat
  <2>3. k \in 0 .. n /\ ~Good(k)
    BY <2>2
  <2>4. CASE k = 0
    <3>1. f[0] = 0 /\ e[0] = 0
      BY <1>4, <2>3, <2>4
    <3> QED BY <1>3, <2>3, <2>4, <3>1
  <2>5. CASE k # 0
    <3>1. k - 1 \in 0 .. n /\ k - 1 \notin T /\ k \in 1 .. n
      BY <1>3, <2>2, <2>3, <2>5
    <3>2. Good(k - 1)
      BY <3>1
    <3>3. PICK a \in Nat, b \in 0 .. m - 1, v \in 0 .. 9 :
             a = f[k - 1] /\ b = e[k - 1] /\ v = Value(k) /\ (a < m => b = a)
      BY <1>3, <3>1, <3>2
    <3>4. f[k] = 10 * a + v /\ e[k] = (10 * b + v) % m
      BY <1>4, <2>3, <2>5, <3>3 DEF Short, m
    <3>5. f[k] \in Nat /\ e[k] \in 0 .. m - 1
      BY <1>3, <3>4
    <3>6. ASSUME f[k] < m PROVE e[k] = f[k]
      <4>1. a < m
        BY <1>3, <3>4, <3>6
      <4>2. f[k] = 10 * b + v /\ e[k] = f[k] % m
        BY <3>3, <3>4, <4>1
      <4>3. \A x \in 0 .. m - 1 : x % m = x
        BY <1>3
      <4>4. f[k] \in 0 .. m - 1
        BY <1>3, <3>5, <3>6
      <4> QED BY <4>2, <4>3, <4>4
    <3> QED BY <2>3, <3>5, <3>6
  <2> QED BY <2>4, <2>5
<1>6. Good(n)
  BY <1>3, <1>5
<1> QED BY <1>2, <1>3, <1>6 DEF Shorts, m

(* A zero in front of a number does not count.                             *)
LEMMA LeadingZero ==
    ASSUME NEW d, NEW e, Len(d) \in Nat, Len(e) = Len(d) + 1, e[1] = "0",
           \A i \in 1 .. Len(d) : e[i + 1] = d[i] /\ DigitValue[d[i]] \in 0 .. 9
    PROVE  NumberSpelled(e) = NumberSpelled(d)
<1> DEFINE n == Len(d)
           f == CHOOSE f : Numbered(f, d, n)
           g == CHOOSE g : Numbered(g, e, Len(e))
<1>1. n \in Nat /\ Len(e) = n + 1 /\ DigitValue["0"] = 0
  BY DEF DigitValue
<1>2. \A i \in 1 .. Len(e) : DigitValue[e[i]] \in 0 .. 9
  <2> SUFFICES ASSUME NEW i \in 1 .. Len(e) PROVE DigitValue[e[i]] \in 0 .. 9
    OBVIOUS
  <2>1. CASE i = 1
    BY <1>1, <2>1
  <2>2. CASE i # 1
    <3>1. i - 1 \in 1 .. Len(d) /\ (i - 1) + 1 = i
      BY <1>1, <2>2
    <3> QED BY <3>1
  <2> QED BY <2>1, <2>2
<1>3. Numbered(f, d, n) /\ Numbered(g, e, Len(e))
  <2>1. Len(e) \in Nat
    BY <1>1
  <2> QED BY <1>2, <2>1, NumbersExist, Zenon
<1>4. NumberSpelled(d) = f[n] /\ NumberSpelled(e) = g[Len(e)]
  BY Zenon DEF NumberSpelled, Numbered
<1>5. /\ \A i \in 0 .. n : f[i] = IF i = 0 THEN 0 ELSE 10 * f[i - 1] + DigitValue[d[i]]
      /\ \A i \in 0 .. Len(e) : g[i] = IF i = 0 THEN 0 ELSE 10 * g[i - 1] + DigitValue[e[i]]
  BY <1>3, Zenon DEF Numbered
<1> HIDE DEF f, g, n
<1> DEFINE T == {i \in 0 .. n : g[i + 1] # f[i]}
<1>6. T = {}
  <2>1. SUFFICES ASSUME T # {} PROVE FALSE
    OBVIOUS
  <2>2. PICK k \in T : \A i \in T : k <= i
    <3>1. T \subseteq Nat
      BY <1>1
    <3> QED BY <2>1, <3>1, LeastNat
  <2>3. k \in 0 .. n /\ g[k + 1] # f[k]
    BY <2>2
  <2>4. CASE k = 0
    <3>1. 0 \in 0 .. Len(e) /\ 1 \in 0 .. Len(e) /\ 0 \in 0 .. n
      BY <1>1
    <3>2. g[0] = 0 /\ g[1] = 10 * g[0] + DigitValue[e[1]] /\ f[0] = 0
      BY <1>5, <3>1
    <3>3. g[1] = 0
      BY <1>1, <3>2
    <3> QED BY <2>3, <2>4, <3>2, <3>3
  <2>5. CASE k # 0
    <3>1. k - 1 \in 0 .. n /\ k - 1 \notin T /\ k \in 1 .. n /\ k + 1 \in 0 .. Len(e)
          /\ k + 1 # 0 /\ (k + 1) - 1 = k /\ (k - 1) + 1 = k
      BY <1>1, <2>2, <2>3, <2>5
    <3>2. g[k] = f[k - 1]
      BY <3>1
    <3>3. g[k + 1] = 10 * g[k] + DigitValue[e[k + 1]]
      BY <1>5, <3>1
    <3>4. f[k] = 10 * f[k - 1] + DigitValue[d[k]]
      BY <1>5, <3>1
    <3>5. e[k + 1] = d[k]
      BY <3>1 DEF n
    <3> QED BY <2>3, <3>2, <3>3, <3>4, <3>5
  <2> QED BY <2>4, <2>5
<1>7. n \in 0 .. n
  BY <1>1
<1> QED BY <1>1, <1>4, <1>6, <1>7

-----------------------------------------------------------------------------
(* The block of a directive                                                *)

\* The spec that is read from a block: all of it, or what is before the last
\* colon.
SpecRead(directive, body, offset) ==
    HasSpecification(directive) =>
        \E n \in 1 .. Len(body) :
            /\ directive.offset = Short(offset) /\ directive.length = Short(n)
            /\ \/ n = Len(body)
               \/ n < Len(body) /\ body[n + 1] = ":"
                  /\ \A p \in n + 2 .. Len(body) : body[p] # ":"

\* The padding that is read from a block: digits from place s on to its end,
\* behind an alignment, a zero that fills, or nothing that belongs to them.
PaddingRead(directive, body) ==
    /\ ~HasPadding(directive) => directive.width = 0
    /\ HasPadding(directive) =>
        \E s \in 1 .. Len(body) :
            /\ \A i \in s .. Len(body) : isDigit(body[i])
            /\ directive.width = ShortSpelled(SubSeq(body, s, Len(body)))
            /\ \/ /\ s > 1 /\ isAlignmentCharacter(body[s - 1])
                  /\ directive.alignment = AlignmentOf[body[s - 1]]
               \/ /\ directive.alignment = "Right"
                  /\ \/ s = 1 \/ body[s - 1] = ":"
                     \/ body[s - 1] = "0" /\ (s = 2 \/ (s > 2 /\ body[s - 2] = ":"))

(* The digits of a number have the values that are added up.               *)
LEMMA DigitsHaveValues ==
    ASSUME NEW u, isDigit(u)
    PROVE  DigitValue[u] \in 0 .. 9
BY DEF isDigit, DigitValue

(* A number that is cut to 16 bits is one of 16 bits.                      *)
LEMMA ShortType ==
    ASSUME NEW n \in Nat
    PROVE  Short(n) \in Shorts
BY ShortPowerAssumption DEF Short, Shorts

(* A directive without a block, and one with a spec only.                  *)
LEMMA WithSpecType ==
    ASSUME NEW text \in Seq(STRING), NEW offset \in Nat
    PROVE  /\ NoDirective \in Directives
           /\ WithSpec(text, offset) \in Directives
           /\ ~HasPadding(WithSpec(text, offset)) /\ WithSpec(text, offset).width = 0
<1>1. 0 \in Shorts
  BY ShortPowerAssumption DEF Shorts
<1>2. NoDirective \in Directives /\ NoDirective.alignment = "None" /\ NoDirective.width = 0
  BY <1>1, BlankAssumption DEF NoDirective, Directives, Alignments
<1>3. Len(text) \in Nat
  BY LenProperties
<1>4. Short(offset) \in Shorts /\ Short(Len(text)) \in Shorts
  BY <1>3, ShortType
<1>5. /\ [NoDirective EXCEPT !.offset = Short(offset), !.length = Short(Len(text))]
             \in Directives
      /\ [NoDirective EXCEPT !.offset = Short(offset), !.length = Short(Len(text))].alignment
             = "None"
      /\ [NoDirective EXCEPT !.offset = Short(offset), !.length = Short(Len(text))].width = 0
  BY <1>2, <1>4 DEF Directives
<1> QED BY <1>2, <1>5 DEF WithSpec, HasPadding

(* Padding that is accepted, or an empty block.                            *)
LEMMA PaddingParsed ==
    ASSUME NEW body \in Seq(STRING), NEW directive \in Directives, ~HasPadding(directive),
           directive.width = 0,
           NEW result, result = parsePadding(body, directive), result.ok
    PROVE  /\ result.directive \in Directives
           /\ result.directive.offset = directive.offset
           /\ result.directive.length = directive.length
           /\ PaddingRead(result.directive, body)
<1> DEFINE n == Len(body)
           pair  == n >= 2 /\ isAlignmentCharacter(body[2])
           align == ~pair /\ isAlignmentCharacter(body[1])
           zero  == ~pair /\ body[1] = "0" /\ n > 1
           skip == IF pair THEN 2 ELSE IF align \/ zero THEN 1 ELSE 0
           digits == Slice(body, skip, n)
           fill == IF pair THEN body[1] ELSE IF zero THEN "0" ELSE directive.fill
           alignment == IF pair THEN AlignmentOf[body[2]]
                        ELSE IF align THEN AlignmentOf[body[1]] ELSE "Right"
           padded == [directive EXCEPT !.fill = fill, !.alignment = alignment,
                                       !.width = ShortSpelled(digits)]
<1>1. n \in Nat /\ DOMAIN body = 1 .. n /\ (body # <<>> => n # 0)
      /\ \A i \in 1 .. n : body[i] \in STRING
  BY LenProperties, EmptySeq, ElementOfSeq
<1>2. CASE body = <<>>
  <2>1. result = Ok(directive)
    BY <1>2 DEF parsePadding
  <2>2. result.directive = directive
    BY <2>1 DEF Ok
  <2> QED BY <2>2 DEF PaddingRead
<1>3. CASE body # <<>>
  <2>1. result = IF digits = <<>> \/ ~AllDigits(digits) THEN Error ELSE Ok(padded)
    BY <1>3, Zenon DEF parsePadding
  <2>2. digits # <<>> /\ AllDigits(digits) /\ result.directive = padded
    BY <2>1 DEF Error, Ok
  <2> HIDE DEF padded
  <2>3. PICK s \in 1 .. 3 : s = skip + 1 /\ s - 1 <= n /\ digits = SubSeq(body, s, n)
    BY <1>1, <1>3 DEF Slice
  <2> HIDE DEF digits
  <2>4. /\ digits \in Seq(STRING) /\ Len(digits) = n - s + 1
        /\ \A i \in 1 .. n - s + 1 : digits[i] = body[s + i - 1]
    <3>1. s \in Nat \ {0} /\ n \in s - 1 .. Len(body)
      BY <1>1, <2>3
    <3>2. /\ SubSeq(body, s, n) \in Seq(STRING) /\ Len(SubSeq(body, s, n)) = n - s + 1
          /\ \A i \in 1 .. n - s + 1 : SubSeq(body, s, n)[i] = body[s + i - 1]
      BY ONLY <3>1, body \in Seq(STRING), SubSeqElements, Zenon
    <3> QED BY <2>3, <3>2, Zenon
  <2>5. s \in 1 .. n /\ DOMAIN digits = 1 .. n - s + 1
    <3>1. DOMAIN digits = 1 .. n - s + 1
      BY <2>4, LenProperties
    <3>2. n - s + 1 # 0
      BY <2>2, <2>4, EmptySeq
    <3> QED BY <1>1, <2>3, <3>1, <3>2
  <2>6. ASSUME NEW i \in s .. n PROVE isDigit(body[i])
    <3>1. i - s + 1 \in 1 .. n - s + 1
      BY <1>1, <2>5
    <3>2. digits[i - s + 1] = body[i]
      BY <1>1, <2>4, <2>5, <3>1
    <3> QED BY <2>2, <2>5, <3>1, <3>2 DEF AllDigits
  <2>7. ShortSpelled(digits) \in Shorts
    <3>1. \A i \in 1 .. Len(digits) : DigitValue[digits[i]] \in 0 .. 9
      BY <2>2, <2>4, <2>5, DigitsHaveValues DEF AllDigits
    <3> QED BY <2>4, <2>5, <3>1, Spelled, SMTT(40)
  <2>8. fill \in STRING /\ alignment \in Alignments \ {"None"}
    <3>1. fill \in STRING
      BY <1>1, <1>3 DEF Directives
    <3>2. alignment \in Alignments \ {"None"}
      BY DEF isAlignmentCharacter, AlignmentOf, Alignments
    <3> QED BY <3>1, <3>2
  <2>9. \/ /\ s > 1 /\ isAlignmentCharacter(body[s - 1])
           /\ alignment = AlignmentOf[body[s - 1]]
        \/ alignment = "Right" /\ (s = 1 \/ (body[s - 1] = "0" /\ s = 2))
    <3>1. CASE pair
      BY <2>3, <3>1
    <3>2. CASE align
      BY <2>3, <3>2
    <3>3. CASE ~pair /\ ~align
      BY <2>3, <3>3
    <3> QED BY <3>1, <3>2, <3>3
  <2> HIDE DEF fill, alignment, skip, pair, align, zero
  <2>10. /\ padded \in Directives
         /\ padded.offset = directive.offset /\ padded.length = directive.length
         /\ padded.width = ShortSpelled(digits) /\ padded.alignment = alignment
    BY <2>7, <2>8 DEF padded, Directives
  <2>11. PaddingRead(padded, body)
    <3>1. padded.width = ShortSpelled(SubSeq(body, s, Len(body)))
      BY <2>3, <2>10
    <3>2. HasPadding(padded)
      BY <2>8, <2>10 DEF HasPadding
    <3> QED BY <2>5, <2>6, <2>9, <2>10, <3>1, <3>2 DEF PaddingRead
  <2> QED BY <2>2, <2>10, <2>11
<1> QED BY <1>2, <1>3

(* Where the last colon of a block is, if it has one.                      *)
LEMMA LastColon ==
    ASSUME NEW body \in Seq(STRING), NEW colon,
           colon = SelectLastInSeq(body, LAMBDA u : u = ":")
    PROVE  /\ colon \in 0 .. Len(body)
           /\ colon # 0 => /\ body[colon] = ":"
                           /\ \A p \in colon + 1 .. Len(body) : body[p] # ":"
<1> DEFINE I == {i \in 1 .. Len(body) : body[i] = ":"}
<1>1. colon = IF I # {} THEN Max(I) ELSE 0
  BY DEF SelectLastInSeq
<1>2. Len(body) \in Nat /\ I \subseteq 0 .. Len(body)
  BY LenProperties
<1>3. CASE I = {}
  BY <1>1, <1>2, <1>3
<1>4. CASE I # {}
  <2> HIDE DEF I
  <2>1. colon \in I /\ \A i \in I : i <= colon
    BY <1>1, <1>2, <1>4, MaxIsMax
  <2> QED BY <1>2, <2>1 DEF I
<1> QED BY <1>3, <1>4

(* What a block is read as: a spec, padding, or both.                      *)
LEMMA DirectiveParsed ==
    ASSUME NEW body \in Seq(STRING), NEW offset \in Nat, NEW kind,
           NEW result, result = DirectiveParse(body, offset, kind), result.ok
    PROVE  /\ result.directive \in Directives
           /\ SpecRead(result.directive, body, offset)
           /\ PaddingRead(result.directive, body)
<1> DEFINE n == Len(body)
           colon == SelectLastInSeq(body, LAMBDA u : u = ":")
           capability == GetSegmentCapability(kind)
           padding == Slice(body, colon, n)
           spec == WithSpec(Slice(body, 0, colon - 1), offset)
           whole == WithSpec(body, offset)
<1>1. /\ n \in Nat /\ colon \in 0 .. n
      /\ colon # 0 => body[colon] = ":" /\ \A p \in colon + 1 .. n : body[p] # ":"
  BY LenProperties, LastColon
<1>2. capability \in {"None", "SpecOnly", "PaddingOnly", "SpecAndPadding"}
  BY DEF GetSegmentCapability
<1>3. \/ result = Error
      \/ result = Ok(NoDirective)
      \/ body # <<>> /\ result = Ok(whole)
      \/ body # <<>> /\ result = parsePadding(body, NoDirective)
      \/ colon # 0 /\ result = parsePadding(padding, spec)
  <2> HIDE DEF colon, capability, padding, spec, whole
  <2>1. result = CASE capability = "None" -> Error
                   [] capability # "None" /\ body = <<>> -> Ok(NoDirective)
                   [] capability = "SpecOnly" /\ body # <<>> -> Ok(whole)
                   [] capability = "PaddingOnly" /\ body # <<>> ->
                        IF colon # 0 THEN Error ELSE parsePadding(body, NoDirective)
                   [] capability = "SpecAndPadding" /\ body # <<>> ->
                        IF colon # 0 THEN parsePadding(padding, spec)
                        ELSE IF LooksLikePadding(body) THEN parsePadding(body, NoDirective)
                        ELSE Ok(whole)
    BY DEF DirectiveParse, colon, capability, padding, spec, whole
  <2> QED BY <1>2, <2>1
<1>4. CASE result = Error
  BY <1>4 DEF Error
<1>5. /\ NoDirective \in Directives /\ ~HasPadding(NoDirective)
      /\ ~HasSpecification(NoDirective) /\ NoDirective.width = 0
  <2>1. NoDirective \in Directives
    BY WithSpecType
  <2>2. ~HasPadding(NoDirective) /\ ~HasSpecification(NoDirective) /\ NoDirective.width = 0
    BY DEF NoDirective, HasPadding, HasSpecification
  <2> QED BY <2>1, <2>2
<1>6. CASE result = Ok(NoDirective)
  <2>1. result.directive = NoDirective
    BY <1>6 DEF Ok
  <2> QED BY <1>5, <2>1 DEF SpecRead, PaddingRead
<1>7. CASE body # <<>> /\ result = Ok(whole)
  <2>1. result.directive = whole
    BY <1>7 DEF Ok
  <2>2. whole \in Directives /\ ~HasPadding(whole) /\ whole.width = 0
    BY WithSpecType
  <2>3. whole.offset = Short(offset) /\ whole.length = Short(n)
    BY <1>7 DEF WithSpec, NoDirective
  <2>4. n \in 1 .. n
    BY <1>1, <1>7, EmptySeq
  <2> QED BY <2>1, <2>2, <2>3, <2>4 DEF SpecRead, PaddingRead
<1>8. CASE body # <<>> /\ result = parsePadding(body, NoDirective)
  <2>1. /\ result.directive \in Directives /\ result.directive.length = NoDirective.length
        /\ PaddingRead(result.directive, body)
    BY <1>5, <1>8, PaddingParsed
  <2> QED BY <1>5, <2>1 DEF SpecRead, HasSpecification
<1>9. CASE colon # 0 /\ result = parsePadding(padding, spec)
  <2> HIDE DEF colon
  <2>1. /\ Slice(body, 0, colon - 1) \in Seq(STRING)
        /\ Len(Slice(body, 0, colon - 1)) = colon - 1
    <3>1. 0 + 1 \in Nat \ {0} /\ colon - 1 \in 0 .. Len(body)
      BY <1>1, <1>9
    <3> QED BY <3>1, SubSeqElements DEF Slice
  <2>2. /\ padding \in Seq(STRING) /\ Len(padding) = n - colon
        /\ \A i \in 1 .. n - colon : padding[i] = body[colon + i]
    <3>1. colon + 1 \in Nat \ {0} /\ n \in (colon + 1) - 1 .. Len(body)
      BY <1>1
    <3>2. /\ SubSeq(body, colon + 1, n) \in Seq(STRING)
          /\ Len(SubSeq(body, colon + 1, n)) = n - (colon + 1) + 1
          /\ \A i \in 1 .. n - (colon + 1) + 1 :
                SubSeq(body, colon + 1, n)[i] = body[(colon + 1) + i - 1]
      BY <3>1, SubSeqElements, Zenon
    <3>3. n - (colon + 1) + 1 = n - colon /\ \A i \in 1 .. n - colon : (colon + 1) + i - 1 = colon + i
      BY <1>1
    <3>4. /\ Len(SubSeq(body, colon + 1, n)) = n - colon
          /\ \A i \in 1 .. n - colon : SubSeq(body, colon + 1, n)[i] = body[colon + i]
      BY <3>2, <3>3
    <3>5. padding = SubSeq(body, colon + 1, n)
      BY DEF Slice
    <3> HIDE DEF padding
    <3> QED BY <3>2, <3>4, <3>5, Zenon
  <2>3. spec \in Directives /\ ~HasPadding(spec) /\ spec.width = 0
    BY <2>1, WithSpecType
  <2>4. /\ result.directive \in Directives
        /\ result.directive.offset = spec.offset /\ result.directive.length = spec.length
        /\ PaddingRead(result.directive, padding)
    BY <1>9, <2>2, <2>3, PaddingParsed
  <2>5. SpecRead(result.directive, body, offset)
    <3> SUFFICES ASSUME spec.length > 0 PROVE SpecRead(result.directive, body, offset)
      BY <2>4 DEF SpecRead, HasSpecification
    <3>1. Slice(body, 0, colon - 1) # <<>>
      BY DEF WithSpec, NoDirective
    <3>2. colon - 1 # 0
      BY <2>1, <3>1, EmptySeq
    <3>3. spec.offset = Short(offset) /\ spec.length = Short(colon - 1)
      BY <2>1, <3>1 DEF WithSpec, NoDirective
    <3>4. colon - 1 \in 1 .. n /\ colon - 1 < n /\ (colon - 1) + 1 = colon
          /\ (colon - 1) + 2 = colon + 1
      BY <1>1, <1>9, <3>2
    <3> QED BY <1>1, <1>9, <2>4, <3>3, <3>4 DEF SpecRead
  <2>6. PaddingRead(result.directive, body)
    <3> DEFINE d == result.directive
    <3> SUFFICES ASSUME HasPadding(d) PROVE PaddingRead(d, body)
      BY <2>4 DEF PaddingRead
    <3> HIDE DEF d, padding
    <3>1. PICK s \in 1 .. Len(padding) :
            /\ \A i \in s .. Len(padding) : isDigit(padding[i])
            /\ d.width = ShortSpelled(SubSeq(padding, s, Len(padding)))
            /\ \/ /\ s > 1 /\ isAlignmentCharacter(padding[s - 1])
                  /\ d.alignment = AlignmentOf[padding[s - 1]]
               \/ /\ d.alignment = "Right"
                  /\ \/ s = 1 \/ padding[s - 1] = ":"
                     \/ padding[s - 1] = "0" /\ (s = 2 \/ (s > 2 /\ padding[s - 2] = ":"))
      BY <2>4 DEF PaddingRead, d
    <3>2. PICK t \in 1 .. n : t = s + colon /\ s \in 1 .. n - colon /\ t > 1
      BY <1>1, <1>9, <2>2, <3>1
    <3>3. \A i \in t .. n : isDigit(body[i])
      <4> SUFFICES ASSUME NEW i \in t .. n PROVE isDigit(body[i])
        OBVIOUS
      <4>1. i - colon \in s .. n - colon /\ i - colon \in 1 .. n - colon /\ colon + (i - colon) = i
        BY <1>1, <3>2
      <4> QED BY <2>2, <3>1, <4>1
    <3>4. SubSeq(padding, s, Len(padding)) = SubSeq(body, t, n)
      <4>1. /\ s \in Nat \ {0} /\ Len(padding) \in s - 1 .. Len(padding)
            /\ t \in Nat \ {0} /\ n \in t - 1 .. Len(body)
            /\ Len(padding) - s + 1 = n - t + 1
        BY <1>1, <2>2, <3>2
      <4>2. /\ SubSeq(padding, s, Len(padding)) \in Seq(STRING)
            /\ Len(SubSeq(padding, s, Len(padding))) = n - t + 1
            /\ \A i \in 1 .. n - t + 1 : SubSeq(padding, s, Len(padding))[i] = padding[s + i - 1]
        BY <2>2, <4>1, SubSeqElements
      <4>3. /\ SubSeq(body, t, n) \in Seq(STRING)
            /\ Len(SubSeq(body, t, n)) = n - t + 1
            /\ \A i \in 1 .. n - t + 1 : SubSeq(body, t, n)[i] = body[t + i - 1]
        BY <4>1, SubSeqElements, Zenon
      <4>4. ASSUME NEW i \in 1 .. n - t + 1 PROVE padding[s + i - 1] = body[t + i - 1]
        <5>1. s + i - 1 \in 1 .. n - colon /\ colon + (s + i - 1) = t + i - 1
          BY <1>1, <3>2
        <5> QED BY <2>2, <5>1
      <4> QED BY <4>2, <4>3, <4>4, SeqEqual, Zenon
    <3>5. /\ s > 1 => padding[s - 1] = body[t - 1] /\ t > 1
          /\ s > 2 => padding[s - 2] = body[t - 2] /\ t > 2
          /\ s = 1 => body[t - 1] = ":"
          /\ s = 2 => body[t - 2] = ":" /\ t > 2
      <4>1. s \in Int /\ colon \in Int /\ t = s + colon /\ s >= 1 /\ colon >= 1
        BY <1>1, <1>9, <3>2
      <4>2. s > 1 => s - 1 \in 1 .. n - colon /\ colon + (s - 1) = t - 1
        BY <1>1, <3>2
      <4>3. s > 2 => s - 2 \in 1 .. n - colon /\ colon + (s - 2) = t - 2
        BY <1>1, <3>2
      <4>4. (s = 1 => t - 1 = colon) /\ (s = 2 => t - 2 = colon)
        BY <4>1
      <4>5. body[colon] = ":"
        BY <1>1, <1>9
      <4>6. s > 1 => padding[s - 1] = body[t - 1]
        BY <2>2, <4>2
      <4>7. s > 2 => padding[s - 2] = body[t - 2]
        BY <2>2, <4>3
      <4>8. t > 1 /\ (s > 1 => t > 2)
        BY <4>1
      <4> QED BY <4>1, <4>4, <4>5, <4>6, <4>7, <4>8
    <3>6. \/ /\ t > 1 /\ isAlignmentCharacter(body[t - 1])
             /\ d.alignment = AlignmentOf[body[t - 1]]
          \/ /\ d.alignment = "Right"
             /\ \/ t = 1 \/ body[t - 1] = ":"
                \/ body[t - 1] = "0" /\ (t = 2 \/ (t > 2 /\ body[t - 2] = ":"))
      <4>1. CASE s = 1
        BY <3>1, <3>2, <3>5, <4>1
      <4>2. CASE s > 1
        BY <3>1, <3>2, <3>5, <4>2
      <4> QED BY <4>1, <4>2
    <3> QED BY <3>1, <3>3, <3>4, <3>6 DEF PaddingRead
  <2> QED BY <2>4, <2>5, <2>6
<1> QED BY <1>3, <1>4, <1>6, <1>7, <1>8, <1>9

-----------------------------------------------------------------------------
(* Adding a segment made of what follows the segments so far, up to where  *)
(* the parser goes on, keeps the invariant.                                *)
LEMMA PushPreserves ==
    ASSUME ParserInv, Room, outcome = "parsing",
           NEW kind, NEW text, NEW directive, NEW from, NEW to,
           Push(kind, text, directive, DepthAfter(kind), from, to),
           from = Reached, from \in Nat, to \in 1 .. Len(input), from < to,
           in' = to, literalStart' \in 0 .. to, inLiteral' = FALSE,
           kind = "Literal" \/ config.allowed = {} \/ kind \in config.allowed,
           kind = "StyleEnd" => depth > 0 \/ config.relaxed
    PROVE  ParserInv'
<1> USE DEF ParserInv
<1> DEFINE e == [kind |-> kind, text |-> text, directive |-> directive,
                 depth |-> DepthAfter(kind)]
           span == [from |-> from, to |-> to]
<1>1. /\ segments' = Append(segments, e) /\ spans' = Append(spans, span)
      /\ depth' = DepthAfter(kind)
      /\ input' = input /\ config' = config /\ outcome' = outcome
  BY DEF Push
<1>2. PICK L \in Nat : L = Len(segments)
  BY AppendAny DEF Position
<1>3. e.kind = kind /\ e.depth = DepthAfter(kind) /\ span.from = from /\ span.to = to
  OBVIOUS
<1> HIDE DEF e
<1>4. /\ segments' \in Seq(ToSet(segments'))
      /\ Len(segments') = L + 1
      /\ DOMAIN segments = 1 .. L /\ DOMAIN segments' = 1 .. L + 1
      /\ \A i \in 1 .. L : segments'[i] = segments[i]
      /\ segments'[L + 1] = e
  BY <1>1, <1>2, AppendAny DEF Position
<1>5. span \in [from : Nat, to : Nat]
  BY DEF Position
<1> HIDE DEF span
<1>6. /\ spans' \in Seq([from : Nat, to : Nat])
      /\ Len(spans) = L /\ Len(spans') = L + 1
      /\ DOMAIN spans = 1 .. L /\ DOMAIN spans' = 1 .. L + 1
      /\ \A i \in 1 .. L : spans'[i] = spans[i]
      /\ spans'[L + 1] = span
  BY <1>1, <1>2, <1>5, AppendProperties, LenProperties DEF Position
<1>7. Position'
  <2>1. input' \in Seq(STRING) /\ Len(input) \in Nat
    BY <1>1, LenProperties DEF Position
  <2>2. in' \in 0 .. Len(input')
    BY <1>1, <2>1
  <2>3. literalStart' \in 0 .. in'
    OBVIOUS
  <2>4. inLiteral' \in BOOLEAN /\ (inLiteral' => literalStart' < in')
    OBVIOUS
  <2> QED BY <1>4, <1>6, <2>1, <2>2, <2>3, <2>4 DEF Position
<1>8. WithinCapacity'
  <2>1. depth' \in 0 .. depth + 1
    BY <1>1 DEF DepthAfter, WithinCapacity
  <2>2. L < MaxSegments /\ depth \in 0 .. L
    BY <1>2 DEF Room, WithinCapacity
  <2> QED BY <1>4, <2>1, <2>2, MaxSegmentsAssumption DEF WithinCapacity
<1>9. KindsAllowed'
  BY <1>1, <1>3, <1>4 DEF KindsAllowed
<1>10. Cover'
  <2>1. ASSUME NEW i \in 1 .. L
        PROVE  /\ spans'[i].from < spans'[i].to
               /\ spans'[i].from = IF i = 1 THEN 0 ELSE spans'[i - 1].to
    <3>1. CASE i = 1
      BY <1>6, <2>1, <3>1 DEF Cover
    <3>2. CASE i # 1
      <4>1. i - 1 \in 1 .. L
        BY <2>1, <3>2
      <4> QED BY <1>6, <2>1, <3>2, <4>1 DEF Cover
    <3> QED BY <3>1, <3>2
  <2>2. from = IF L = 0 THEN 0 ELSE spans[L].to
    BY <1>6, EmptySeq DEF Cover, Position
  <2>3. /\ spans'[L + 1].from < spans'[L + 1].to
        /\ spans'[L + 1].from = IF L = 0 THEN 0 ELSE spans'[L].to
    BY <1>3, <1>6, <2>2
  <2>4. spans' # <<>> /\ spans'[Len(spans')].to = Reached'
    BY <1>3, <1>6, EmptySeq DEF Reached
  <2>5. \A i \in DOMAIN spans' :
           /\ spans'[i].from < spans'[i].to
           /\ spans'[i].from = IF i = 1 THEN 0 ELSE spans'[i - 1].to
    <3> SUFFICES ASSUME NEW i \in 1 .. L + 1
                 PROVE  /\ spans'[i].from < spans'[i].to
                        /\ spans'[i].from = IF i = 1 THEN 0 ELSE spans'[i - 1].to
      BY <1>6
    <3>1. CASE i = L + 1
      <4>1. i - 1 = L /\ (i = 1 <=> L = 0)
        BY <3>1
      <4> QED BY <2>3, <3>1, <4>1
    <3>2. CASE i \in 1 .. L
      BY <2>1, <3>2
    <3> QED BY <3>1, <3>2
  <2> QED BY <1>1, <2>4, <2>5 DEF Cover
<1>11. Nested'
  <2> SUFFICES ASSUME ~config.relaxed PROVE Nested'
    BY <1>1 DEF Nested
  <2>1. /\ \A n \in 0 .. L : /\ Opened(n)' = Opened(n) /\ Closed(n)' = Closed(n)
                             /\ Opened(n) \in Nat /\ Closed(n) \in Nat
        /\ Opened(L + 1)' = IF isStyleStart(kind) THEN Opened(L) + 1 ELSE Opened(L)
        /\ Closed(L + 1)' = IF kind = "StyleEnd" THEN Closed(L) + 1 ELSE Closed(L)
    BY <1>1, <1>2, <1>3, CountsAfterAppend DEF Position
  <2>2. depth = Opened(L) - Closed(L) /\ depth \in Nat
    BY <1>2 DEF Nested, WithinCapacity
  <2>3. ~(isStyleStart(kind) /\ kind = "StyleEnd")
    BY DEF isStyleStart, StyleStarts
  <2>4. /\ depth' = Opened(L + 1)' - Closed(L + 1)'
        /\ depth' \in Nat
        /\ Opened(L + 1)' \in Nat /\ Closed(L + 1)' \in Nat
    <3>1. Opened(L) \in Nat /\ Closed(L) \in Nat /\ L \in 0 .. L
      BY <2>1
    <3>2. CASE isStyleStart(kind)
      <4>1. /\ depth' = depth + 1 /\ Opened(L + 1)' = Opened(L) + 1
            /\ Closed(L + 1)' = Closed(L)
        BY <1>1, <2>1, <2>3, <3>2 DEF DepthAfter
      <4> QED BY <2>2, <3>1, <4>1
    <3>3. CASE kind = "StyleEnd"
      <4>1. depth > 0 /\ ~isStyleStart(kind)
        BY <2>3, <3>3
      <4>2. /\ depth' = depth - 1 /\ Opened(L + 1)' = Opened(L)
            /\ Closed(L + 1)' = Closed(L) + 1
        BY <1>1, <2>1, <3>3, <4>1 DEF DepthAfter
      <4> QED BY <2>2, <3>1, <4>1, <4>2
    <3>4. CASE ~isStyleStart(kind) /\ kind # "StyleEnd"
      BY <1>1, <2>1, <2>2, <3>1, <3>4 DEF DepthAfter
    <3> QED BY <3>2, <3>3, <3>4
  <2>5. segments'[L + 1].depth = depth'
    BY <1>1, <1>3, <1>4
  <2>6. ASSUME NEW n \in 1 .. L + 1
        PROVE  Closed(n)' <= Opened(n)' /\ segments'[n].depth = Opened(n)' - Closed(n)'
    <3>1. CASE n = L + 1
      BY <2>4, <2>5, <3>1
    <3>2. CASE n \in 1 .. L
      BY <1>2, <1>4, <2>1, <3>2 DEF Nested
    <3> QED BY <2>6, <3>1, <3>2
  <2>7. Opened(Len(segments))' = Opened(L + 1)' /\ Closed(Len(segments))' = Closed(L + 1)'
    BY <1>4 DEF Opened, Closed
  <2> QED BY <1>1, <1>4, <2>4, <2>6, <2>7 DEF Nested
<1> QED BY <1>7, <1>8, <1>9, <1>10, <1>11

(* Steps that add no segment: what was said of the segments stays true.    *)
LEMMA UnpushedPreserves ==
    ASSUME ParserInv, UNCHANGED <<input, config, depth, segments, spans>>,
           in' \in 0 .. Len(input), literalStart' \in 0 .. in', inLiteral' \in BOOLEAN,
           inLiteral' => literalStart' < in', Reached' = Reached,
           outcome' = "parsed" => Reached = Len(input) /\ (config.relaxed \/ depth = 0)
    PROVE  ParserInv'
<1>1. Position' /\ WithinCapacity' /\ KindsAllowed'
  BY DEF ParserInv, Position, WithinCapacity, KindsAllowed
<1>2. Cover'
  BY DEF ParserInv, Cover
<1>3. \A n : Opened(n)' = Opened(n) /\ Closed(n)' = Closed(n)
  BY DEF Opened, Closed
<1>4. Nested'
  <2> SUFFICES ASSUME ~config.relaxed PROVE Nested'
    BY DEF Nested
  <2>1. /\ depth = Opened(Len(segments)) - Closed(Len(segments))
        /\ \A n \in DOMAIN segments : /\ Closed(n) <= Opened(n)
                                      /\ segments[n].depth = Opened(n) - Closed(n)
    BY DEF ParserInv, Nested
  <2>2. Opened(Len(segments)) \in Nat /\ Closed(Len(segments)) \in Nat
    <3>1. Len(segments) \in Nat
      BY AppendAny DEF ParserInv, Position
    <3>2. \A n \in Nat : Opened(n) \in Nat /\ Closed(n) \in Nat
      <4> SUFFICES ASSUME NEW n \in Nat PROVE Opened(n) \in Nat /\ Closed(n) \in Nat
        OBVIOUS
      <4>1. /\ {i \in 1 .. n : isStyleStart(segments[i].kind)} \in SUBSET (1 .. n)
            /\ {i \in 1 .. n : segments[i].kind = "StyleEnd"} \in SUBSET (1 .. n)
        OBVIOUS
      <4> QED BY <4>1, CountOneMore DEF Opened, Closed
    <3> QED BY <3>1, <3>2
  <2>3. outcome' = "parsed" => Opened(Len(segments)) = Closed(Len(segments))
    BY <2>1, <2>2
  <2>4. Opened(Len(segments))' = Opened(Len(segments)) /\ Closed(Len(segments))' = Closed(Len(segments))
    BY DEF Opened, Closed
  <2> QED BY <1>3, <2>1, <2>3, <2>4 DEF Nested
<1> QED BY <1>1, <1>2, <1>4 DEF ParserInv

-----------------------------------------------------------------------------
(* A block ends where it would begin, or behind its brace.                 *)
LEMMA BlockEnd ==
    ASSUME NEW from \in Nat, NEW kind, NEW b \in Block(from, kind), Len(input) \in Nat
    PROVE  b.end = from \/ b.end \in from + 2 .. Len(input)
<1> DEFINE Result(end) == DirectiveParse(Slice(input, from + 1, end - 1), from + 1, kind)
           nothing == Ok(NoDirective)
<1>1. b \in IF from < Len(input) /\ input[from + 1] = "{"
            THEN {[end |-> end, result |-> Result(end)] : end \in BlockEnds(from + 1)}
            ELSE {[end |-> from, result |-> nothing]}
  BY DEF Block
<1>2. BlockEnds(from + 1) \subseteq from + 2 .. Len(input)
  BY DEF BlockEnds
<1> HIDE DEF Result, nothing
<1>3. CASE b \in {[end |-> end, result |-> Result(end)] : end \in BlockEnds(from + 1)}
  BY <1>2, <1>3
<1>4. CASE b \in {[end |-> from, result |-> nothing]}
  BY <1>4
<1> QED BY <1>1, <1>3, <1>4

(* A directive that can be read is one that the configuration allows, and  *)
(* ends inside the pattern, behind its name.                               *)
LEMMA ReadableEnds ==
    ASSUME Position, AtDirective, NEW d \in Readable
    PROVE  /\ Accepts(d.kind, d.block)
           /\ d.block.end \in in + 1 .. Len(input)
<1> DEFINE rest == Slice(input, in + 1, Len(input))
<1>1. in \in Nat /\ Len(input) \in Nat /\ in + 1 < Len(input)
  BY LenProperties DEF Position, AtDirective
<1>2. Len(rest) = Len(input) - in - 1
  <2>1. rest = SubSeq(input, in + 2, Len(input))
    BY <1>1 DEF Slice
  <2>2. Len(SubSeq(input, in + 2, Len(input))) = Len(input) - in - 1
    BY <1>1, SubSeqProperties DEF Position
  <2> QED BY <2>1, <2>2
<1> HIDE DEF rest
<1>3. PICK n \in Named(rest) : \E b \in Block(in + 1 + n.length, n.kind) :
         Accepts(n.kind, b) /\ d = [kind |-> n.kind, block |-> b]
  BY DEF Readable, rest
<1>4. PICK b \in Block(in + 1 + n.length, n.kind) :
         Accepts(n.kind, b) /\ d = [kind |-> n.kind, block |-> b]
  BY <1>3
<1>5. n.length \in 1 .. Len(rest)
  <2>1. CASE tryMatchKeyword(rest) # {}
    <3>1. PICK k \in tryMatchKeyword(rest) : n = [kind |-> k, length |-> Len(kKeywords[k])]
      BY <2>1 DEF Named
    <3>2. k \in DOMAIN kKeywords /\ Len(kKeywords[k]) <= Len(rest)
      BY DEF tryMatchKeyword, IsPrefix
    <3>3. Len(kKeywords[k]) \in Nat \ {0}
      BY <3>2 DEF kKeywords
    <3> QED BY <1>1, <1>2, <3>1, <3>2, <3>3
  <2>2. CASE tryMatchKeyword(rest) = {}
    BY <1>1, <1>2, <2>2 DEF Named
  <2> QED BY <2>1, <2>2
<1>6. b.end \in in + 1 .. Len(input)
  <2> DEFINE from == in + 1 + n.length
  <2>1. from \in in + 2 .. Len(input)
    BY <1>1, <1>2, <1>5
  <2> HIDE DEF from
  <2>2. b \in Block(from, n.kind)
    BY DEF from
  <2>3. b.end = from \/ b.end \in from + 2 .. Len(input)
    BY <1>1, <2>1, <2>2, BlockEnd
  <2> QED BY <1>1, <2>1, <2>3
<1> QED BY <1>4, <1>6

(* Every turn of the loop keeps the invariant.                             *)
LEMMA StepPreserves == ParserInv /\ [ParserNext]_parserVars => ParserInv'
<1> SUFFICES ASSUME ParserInv, [ParserNext]_parserVars PROVE ParserInv'
  OBVIOUS
<1>1. /\ in \in Nat /\ Len(input) \in Nat /\ in \in 0 .. Len(input)
      /\ literalStart \in 0 .. in /\ inLiteral \in BOOLEAN /\ Reached \in 0 .. in
      /\ inLiteral => literalStart < in
  BY LenProperties DEF ParserInv, Position, Reached
<1>2. CASE ScanLiteral
  BY <1>1, <1>2, UnpushedPreserves DEF ScanLiteral, Reached
<1>3. CASE Reject
  BY <1>1, <1>3, UnpushedPreserves DEF Reject, Reached
<1>4. CASE flushLiteral /\ Room
  <2>1. PICK text : Push("Literal", text, NoDirective, depth, literalStart, in)
    BY <1>4 DEF flushLiteral, PushLiteral
  <2>2. DepthAfter("Literal") = depth
    BY DEF DepthAfter, isStyleStart, StyleStarts
  <2>3. /\ outcome = "parsing" /\ inLiteral /\ ~inLiteral'
        /\ in' = in /\ literalStart' = literalStart /\ inLiteral' = FALSE
    BY <1>4 DEF flushLiteral, AtDirective
  <2>4. PICK from \in Nat, to \in 1 .. Len(input) :
           from = literalStart /\ to = in /\ from < to /\ from = Reached
    BY <1>1, <2>3 DEF Reached
  <2>5. Push("Literal", text, NoDirective, DepthAfter("Literal"), from, to)
    BY <2>1, <2>2, <2>4
  <2>6. in' = to /\ literalStart' \in 0 .. to
    BY <1>1, <2>3, <2>4
  <2> QED BY <1>4, <2>3, <2>4, <2>5, <2>6, PushPreserves
<1>5. CASE Percent /\ Room
  <2>1. PICK text : Push("Literal", text, NoDirective, depth, in, in + 2)
    BY <1>5 DEF Percent, PushLiteral
  <2>2. DepthAfter("Literal") = depth
    BY DEF DepthAfter, isStyleStart, StyleStarts
  <2>3. /\ in' = in + 2 /\ literalStart' = in + 2
        /\ ~inLiteral /\ in + 1 < Len(input)
    BY <1>1, <1>5 DEF Percent, AtDirective
  <2>4. outcome = "parsing" /\ ~inLiteral' /\ inLiteral' = FALSE
    BY <1>1, <1>5 DEF Percent, AtDirective
  <2>5. PICK from \in Nat, to \in 1 .. Len(input) :
           from = in /\ to = in + 2 /\ from < to /\ from = Reached
    BY <1>1, <2>3 DEF Reached
  <2>6. Push("Literal", text, NoDirective, DepthAfter("Literal"), from, to)
    BY <2>1, <2>2, <2>5
  <2>7. in' = to /\ literalStart' \in 0 .. to
    BY <1>1, <2>3, <2>5
  <2>8. Room /\ from = Reached /\ from < to
    BY <1>5, <2>5
  <2> QED BY <2>6, <2>7, <2>4, <2>8, PushPreserves
<1>6. CASE Directive
  <2>1. PICK d \in Readable :
           /\ Push(d.kind, <<0, 0>>, d.block.result.directive, DepthAfter(d.kind),
                   in, d.block.end)
           /\ in' = d.block.end /\ literalStart' = d.block.end
    BY <1>6 DEF Directive
  <2>2. AtDirective /\ outcome = "parsing" /\ ~inLiteral /\ inLiteral' = FALSE
    BY <1>1, <1>6 DEF Directive, AtDirective
  <2>3. Accepts(d.kind, d.block) /\ d.block.end \in in + 1 .. Len(input)
    BY <2>2, ReadableEnds DEF ParserInv
  <2>4. /\ Room
        /\ config.allowed = {} \/ d.kind \in config.allowed
        /\ d.kind = "StyleEnd" => depth > 0 \/ config.relaxed
    BY <2>3 DEF Accepts
  <2>5. PICK from \in Nat, to \in 1 .. Len(input) :
           from = in /\ to = d.block.end /\ from < to /\ from = Reached
    BY <1>1, <2>2, <2>3 DEF Reached
  <2>6. PICK directive : directive = d.block.result.directive
    OBVIOUS
  <2>7. Push(d.kind, <<0, 0>>, directive, DepthAfter(d.kind), from, to)
    BY <2>1, <2>5, <2>6
  <2>8. in' = to /\ literalStart' \in 0 .. to
    BY <1>1, <2>1, <2>5
  <2> QED BY <2>2, <2>4, <2>5, <2>7, <2>8, PushPreserves
<1>7. CASE Finish
  <2>1. /\ UNCHANGED <<input, config, in, literalStart, inLiteral, depth, segments, spans>>
        /\ in = Len(input) /\ ~inLiteral
        /\ outcome' = "parsed" => config.relaxed \/ depth = 0
    BY <1>7 DEF Finish
  <2>2. Reached' = Reached /\ Reached = Len(input)
    BY <2>1 DEF Reached
  <2> QED BY <1>1, <2>1, <2>2, UnpushedPreserves
<1>8. CASE UNCHANGED parserVars
  <2>1. outcome' = "parsed" => Reached = Len(input)
    BY <1>8 DEF parserVars, ParserInv, Cover
  <2>2. ParserInv' = ParserInv
    BY <1>8 DEF parserVars, ParserInv, Position, WithinCapacity, KindsAllowed, Cover,
                Nested, Reached, Opened, Closed
  <2> QED BY <2>2
<1> QED BY <1>2, <1>3, <1>4, <1>5, <1>6, <1>7, <1>8
        DEF ParserNext, flushLiteral, Percent, RejectDirective

\* What ParserStart and ParserRestart make of any pattern.
Started ==
    /\ input \in Seq(STRING)
    /\ in = 0 /\ literalStart = 0 /\ inLiteral = FALSE
    /\ depth = 0 /\ segments = <<>> /\ spans = <<>>
    /\ outcome = "parsing"

(* The invariant holds when Parse begins.                                  *)
LEMMA StartedIsGood == Started => ParserInv
<1> SUFFICES ASSUME Started PROVE ParserInv
  OBVIOUS
<1>1. /\ Len(segments) = 0 /\ DOMAIN segments = {} /\ Len(spans) = 0 /\ DOMAIN spans = {}
      /\ segments \in Seq(ToSet(segments)) /\ spans \in Seq([from : Nat, to : Nat])
      /\ Len(input) \in Nat
  BY EmptySeq, LenProperties DEF Started
<1>2. Position
  <2>1. in \in 0 .. Len(input) /\ literalStart \in 0 .. in
    BY <1>1 DEF Started
  <2>3. ~inLiteral /\ inLiteral \in BOOLEAN
    BY Zenon DEF Started
  <2>2. input \in Seq(STRING)
    BY DEF Started
  <2> QED BY <1>1, <2>1, <2>2, <2>3 DEF Position
<1>3. WithinCapacity /\ KindsAllowed
  BY <1>1, MaxSegmentsAssumption DEF Started, WithinCapacity, KindsAllowed
<1>4. Cover
  BY <1>1 DEF Started, Cover, Reached
<1>5. Opened(0) = 0 /\ Closed(0) = 0
  <2>1. /\ {i \in 1 .. 0 : isStyleStart(segments[i].kind)} = {}
        /\ {i \in 1 .. 0 : segments[i].kind = "StyleEnd"} = {}
    OBVIOUS
  <2> QED BY <2>1, FS_EmptySet DEF Opened, Closed
<1>6. Nested
  BY <1>1, <1>5 DEF Started, Nested
<1> QED BY <1>2, <1>3, <1>4, <1>6 DEF ParserInv

-----------------------------------------------------------------------------
(* What a segment is made of                                               *)

\* The brace that opens a block.
Brace == "{"

\* The name of a directive is a directive letter or a keyword.
NameRead(name, rest) ==
    /\ name.kind \in SegmentKind \ {"Literal"}
    /\ name.length \in 1 .. Len(rest)
    /\ \A i \in 1 .. name.length : rest[i] # Brace

(* A name that is found is all there, and no part of it opens a block.     *)
LEMMA NamesAreRead ==
    ASSUME NEW rest \in Seq(STRING), rest # <<>>, NEW name \in Named(rest)
    PROVE  NameRead(name, rest)
<1>1. Len(rest) \in Nat \ {0}
  BY LenProperties, EmptySeq
<1>2. CASE tryMatchKeyword(rest) # {}
  <2>1. PICK k \in tryMatchKeyword(rest) : name = [kind |-> k, length |-> Len(kKeywords[k])]
    BY <1>2 DEF Named
  <2>2. k \in DOMAIN kKeywords /\ IsPrefix(kKeywords[k], rest)
    BY DEF tryMatchKeyword
  <2>3. k \in {"Strikethrough", "LevelColorStart", "StyleEnd", "Underline", "Italic", "Bold",
               "Dim", "ForegroundColorStart", "BackgroundColorStart"}
    BY <2>2 DEF kKeywords
  <2>4. k \in SegmentKind \ {"Literal"}
    BY <2>3 DEF SegmentKind, StyleStarts
  <2>5. /\ Len(kKeywords[k]) \in Nat \ {0}
        /\ \A i \in 1 .. Len(kKeywords[k]) : kKeywords[k][i] # Brace
    <3>1. CASE k \in {"LevelColorStart", "ForegroundColorStart"}
      <4>1. PICK u \in {"l", "f"}, w \in {"evelColor", "g"} : kKeywords[k] = <<u, w>>
        BY <3>1 DEF kKeywords
      <4>2. u # Brace /\ w # Brace
        BY Zenon DEF Brace
      <4>3. Len(kKeywords[k]) = 2 /\ kKeywords[k][1] = u /\ kKeywords[k][2] = w
        BY <4>1
      <4> QED BY <4>2, <4>3
    <3>2. CASE k \notin {"LevelColorStart", "ForegroundColorStart"}
      <4>1. PICK w \in {"strikethrough", "style:end", "underline", "italic", "bold", "dim", "bg"} :
               kKeywords[k] = <<w>>
        BY <2>3, <3>2 DEF kKeywords
      <4>2. w # Brace
        BY Zenon DEF Brace
      <4>3. Len(kKeywords[k]) = 1 /\ kKeywords[k][1] # Brace
        BY <4>1, <4>2
      <4> QED BY <4>3
    <3> QED BY <3>1, <3>2
  <2>6. /\ Len(kKeywords[k]) <= Len(rest)
        /\ \A i \in 1 .. Len(kKeywords[k]) : rest[i] = kKeywords[k][i]
    BY <2>2, <2>5, PrefixElements
  <2>7. PICK n \in 1 .. Len(rest) : n = Len(kKeywords[k])
    <3> DEFINE m == Len(kKeywords[k])
    <3>1. m \in Nat \ {0} /\ m <= Len(rest)
      BY <2>5, <2>6
    <3> HIDE DEF m
    <3>2. m \in 1 .. Len(rest)
      BY <1>1, <3>1
    <3> QED BY <3>2 DEF m
  <2>8. name.kind = k /\ name.length = n /\ \A i \in 1 .. n : rest[i] # Brace
    BY <2>1, <2>5, <2>6, <2>7
  <2> QED BY <2>4, <2>8 DEF NameRead
<1>3. CASE tryMatchKeyword(rest) = {}
  <2>1. PICK u \in {rest[1]} \cap DOMAIN Letters : name = [kind |-> Letters[u], length |-> 1]
    BY <1>3 DEF Named
  <2>2. u = rest[1] /\ u \in {"L", "m", "T", "t", "n", "f", "l", "c", "F", "A", "X"}
    BY <2>1 DEF Letters
  <2>3. u # Brace
    BY <2>2, Zenon DEF Brace
  <2>4. Letters[u] \in {"Level", "Message", "ThreadId", "Timestamp", "Logger", "File", "LineNum",
                        "ColumnNum", "FunctionName", "AllAttributes", "Attribute"}
    BY <2>2 DEF Letters
  <2>5. Letters[u] \in SegmentKind \ {"Literal"}
    BY <2>4 DEF SegmentKind
  <2>6. name.kind = Letters[u] /\ name.length = 1 /\ 1 \in 1 .. Len(rest)
    BY <1>1, <2>1
  <2>7. \A i \in 1 .. name.length : rest[i] # Brace
    BY <2>2, <2>3, <2>6
  <2> QED BY <2>5, <2>6, <2>7 DEF NameRead
<1> QED BY <1>2, <1>3

(* A block ends with the brace that closes it.                             *)
LEMMA BlocksEndClosed ==
    ASSUME NEW open \in Nat, NEW end \in BlockEnds(open), Len(input) \in Nat
    PROVE  input[end] = "}"
<1> DEFINE Count(u, e) == Cardinality({i \in open + 1 .. e : input[i] = u})
<1>1. /\ end \in Nat /\ end - 1 \in Nat /\ end \in open + 1 .. Len(input) /\ BracesOpen(open, end) = 0
      /\ \A e \in open + 1 .. end - 1 : BracesOpen(open, e) > 0
  BY DEF BlockEnds
<1>2. \A e : BracesOpen(open, e) = 1 + Count("{", e) - Count("}", e)
  BY DEF BracesOpen
<1>3. \A u : \A e \in Nat : Count(u, e) \in Nat
  <2> SUFFICES ASSUME NEW u, NEW e \in Nat PROVE Count(u, e) \in Nat
    OBVIOUS
  <2>1. {i \in open + 1 .. e : input[i] = u} \in SUBSET (1 .. e)
    OBVIOUS
  <2> QED BY <2>1, CountOneMore
<1>4. BracesOpen(open, end - 1) > 0
  <2>1. CASE end - 1 = open
    <3>1. \A u : {i \in open + 1 .. end - 1 : input[i] = u} = {}
      BY <1>1, <2>1
    <3>2. Count("{", end - 1) = 0 /\ Count("}", end - 1) = 0
      BY <3>1, FS_EmptySet
    <3>3. BracesOpen(open, end - 1) = 1 + 0 - 0
      BY <1>2, <3>2
    <3> QED BY <3>3
  <2>2. CASE end - 1 # open
    <3>1. end - 1 \in open + 1 .. end - 1
      BY <1>1, <2>2
    <3> QED BY <1>1, <3>1
  <2> QED BY <2>1, <2>2
<1>5. SUFFICES ASSUME input[end] # "}" PROVE FALSE
  OBVIOUS
<1>6. Count("}", end) = Count("}", end - 1)
  <2>1. \A i \in open + 1 .. end : i \in open + 1 .. end - 1 \/ i = end
    BY <1>1
  <2>2. open + 1 .. end - 1 \subseteq open + 1 .. end
    BY <1>1
  <2>3. {i \in open + 1 .. end : input[i] = "}"} = {i \in open + 1 .. end - 1 : input[i] = "}"}
    BY <1>5, <2>1, <2>2
  <2> QED BY <2>3
<1>7. Count("{", end) >= Count("{", end - 1)
  <2> DEFINE A == {i \in open + 1 .. end - 1 : input[i] = "{"}
             B == {i \in open + 1 .. end : input[i] = "{"}
  <2>0. open + 1 .. end - 1 \subseteq open + 1 .. end /\ open + 1 .. end \subseteq 1 .. end
    BY <1>1
  <2>1. A \subseteq B /\ B \subseteq 1 .. end
    BY <2>0
  <2>2. IsFiniteSet(B)
    <3>1. IsFiniteSet(1 .. end)
      BY <1>1, FS_Interval
    <3> QED BY <2>1, <3>1, FS_Subset
  <2>3. Cardinality(A) <= Cardinality(B)
    BY <2>1, <2>2, FS_Subset
  <2>4. Cardinality(A) \in Nat /\ Cardinality(B) \in Nat
    <3>1. end \in Nat /\ end - 1 \in Nat
      BY <1>1
    <3> QED BY <1>3, <3>1
  <2> QED BY <2>3, <2>4
<1>8. /\ Count("{", end) \in Nat /\ Count("}", end) \in Nat
      /\ Count("{", end - 1) \in Nat /\ Count("}", end - 1) \in Nat
  <2>1. end \in Nat /\ end - 1 \in Nat
    BY <1>1
  <2> QED BY <1>3, <2>1
<1>9. 1 + Count("{", end) - Count("}", end) = 0 /\ 1 + Count("{", end - 1) - Count("}", end - 1) > 0
  BY <1>1, <1>2, <1>4
<1>10. \A a, b, c \in Nat : ~(1 + a - c = 0 /\ 1 + b - c > 0 /\ a >= b)
  OBVIOUS
<1> HIDE DEF Count
<1> QED BY <1>6, <1>7, <1>8, <1>9, <1>10

\* The directive of the units from `from` up to `to`, as its block says it, if
\* it has one: behind the first brace, and up to the brace that ends it.
Blocked(directive, from, to) ==
    \/ directive = NoDirective
    \/ \E open \in from + 1 .. to - 2 :
          /\ input[open + 1] = Brace /\ input[to] # ":"
          /\ \A p \in from + 1 .. open : input[p] # Brace
          /\ SpecRead(directive, SubSeq(input, open + 2, to - 1), open + 1)
          /\ PaddingRead(directive, SubSeq(input, open + 2, to - 1))

(* The block at a position, if it is accepted.                             *)
LEMMA BlocksAreRead ==
    ASSUME input \in Seq(STRING), NEW from \in 0 .. Len(input), NEW kind,
           NEW b \in Block(from, kind), b.result.ok
    PROVE  /\ b.result.directive \in Directives
           /\ \/ b.result.directive = NoDirective
              \/ /\ b.end \in from + 2 .. Len(input)
                 /\ input[from + 1] = Brace /\ input[b.end] # ":"
                 /\ SpecRead(b.result.directive, SubSeq(input, from + 2, b.end - 1), from + 1)
                 /\ PaddingRead(b.result.directive, SubSeq(input, from + 2, b.end - 1))
<1> DEFINE Body(end) == Slice(input, from + 1, end - 1)
           Result(end) == DirectiveParse(Body(end), from + 1, kind)
<1>1. b \in IF from < Len(input) /\ input[from + 1] = Brace
            THEN {[end |-> end, result |-> Result(end)] : end \in BlockEnds(from + 1)}
            ELSE {[end |-> from, result |-> Ok(NoDirective)]}
  BY Zenon DEF Block, Brace
<1>2. from \in Nat /\ Len(input) \in Nat
  BY LenProperties
<1>3. CASE from < Len(input) /\ input[from + 1] = Brace
  <2> HIDE DEF Result
  <2>1. PICK end \in BlockEnds(from + 1) : b = [end |-> end, result |-> Result(end)]
    BY <1>1, <1>3
  <2>2. end \in from + 2 .. Len(input)
    BY <1>2 DEF BlockEnds
  <2>3. input[end] # ":"
    <3>1. from + 1 \in Nat
      BY <1>2
    <3>2. input[end] = "}"
      BY <1>2, <3>1, BlocksEndClosed, Zenon
    <3> QED BY <3>2, Zenon
  <2>4. Body(end) = SubSeq(input, from + 2, end - 1) /\ Body(end) \in Seq(STRING)
    <3>1. (from + 1) + 1 = from + 2
      BY <1>2
    <3>2. Body(end) = SubSeq(input, from + 2, end - 1)
      BY <3>1 DEF Slice
    <3>3. from + 2 \in Nat \ {0} /\ end - 1 \in (from + 2) - 1 .. Len(input)
      BY <1>2, <2>2
    <3>4. SubSeq(input, from + 2, end - 1) \in Seq(STRING)
      BY <3>3, SubSeqElements
    <3> QED BY <3>2, <3>4
  <2> HIDE DEF Body
  <2>5. from + 1 \in Nat /\ Result(end) = DirectiveParse(Body(end), from + 1, kind)
    BY <1>2 DEF Result
  <2>6. b.end = end /\ b.result = Result(end)
    BY <2>1
  <2>7. /\ b.result.directive \in Directives
        /\ SpecRead(b.result.directive, Body(end), from + 1)
        /\ PaddingRead(b.result.directive, Body(end))
    BY <2>4, <2>5, <2>6, DirectiveParsed
  <2> QED BY <1>3, <2>2, <2>3, <2>4, <2>6, <2>7
<1>4. CASE ~(from < Len(input) /\ input[from + 1] = Brace)
  <2>1. b.result = Ok(NoDirective)
    BY <1>1, <1>4
  <2>2. b.result.directive = NoDirective
    BY <2>1 DEF Ok
  <2>3. <<>> \in Seq(STRING)
    BY EmptySeq
  <2>4. NoDirective \in Directives
    BY <1>2, <2>3, WithSpecType
  <2> QED BY <2>2, <2>4
<1> QED BY <1>3, <1>4

(* What is read as a directive is its name and its block.                  *)
LEMMA DirectivesAreRead ==
    ASSUME Position, AtDirective, NEW d \in Readable
    PROVE  /\ d.kind \in SegmentKind \ {"Literal"}
           /\ d.block.result.directive \in Directives
           /\ Blocked(d.block.result.directive, in, d.block.end)
<1> DEFINE rest == Slice(input, in + 1, Len(input))
<1>1. in \in Nat /\ Len(input) \in Nat /\ in + 1 < Len(input) /\ input[in + 1] = "%"
  BY LenProperties DEF Position, AtDirective
<1>2. /\ rest \in Seq(STRING) /\ Len(rest) = Len(input) - in - 1
      /\ \A i \in 1 .. Len(input) - in - 1 : rest[i] = input[in + 1 + i]
  <2>1. in + 2 \in Nat \ {0} /\ Len(input) \in (in + 2) - 1 .. Len(input)
    BY <1>1
  <2>2. /\ SubSeq(input, in + 2, Len(input)) \in Seq(STRING)
        /\ Len(SubSeq(input, in + 2, Len(input))) = Len(input) - (in + 2) + 1
        /\ \A i \in 1 .. Len(input) - (in + 2) + 1 :
              SubSeq(input, in + 2, Len(input))[i] = input[(in + 2) + i - 1]
    BY <2>1, SubSeqElements DEF Position
  <2>3. (in + 1) + 1 = in + 2
    BY <1>1
  <2>4. rest = SubSeq(input, in + 2, Len(input))
    BY <2>3 DEF Slice
  <2> HIDE DEF rest
  <2>5. /\ Len(input) - (in + 2) + 1 = Len(input) - in - 1
        /\ \A i \in 1 .. Len(input) - in - 1 : (in + 2) + i - 1 = in + 1 + i
    BY <1>1
  <2> QED BY <2>2, <2>4, <2>5
<1>3. PICK n \in Named(rest) : \E b \in Block(in + 1 + n.length, n.kind) :
         Accepts(n.kind, b) /\ d = [kind |-> n.kind, block |-> b]
  BY DEF Readable
<1>4. PICK b \in Block(in + 1 + n.length, n.kind) :
         Accepts(n.kind, b) /\ d = [kind |-> n.kind, block |-> b]
  BY <1>3
<1> HIDE DEF rest
<1>5. NameRead(n, rest)
  <2>1. rest # <<>>
    BY <1>1, <1>2, EmptySeq
  <2> QED BY <1>2, <2>1, NamesAreRead
<1>6. PICK open \in in + 2 .. Len(input) : open = in + 1 + n.length
  BY <1>1, <1>2, <1>5 DEF NameRead
<1>7. \A p \in in + 1 .. open : input[p] # Brace
  <2> SUFFICES ASSUME NEW p \in in + 1 .. open PROVE input[p] # Brace
    OBVIOUS
  <2>1. CASE p = in + 1
    BY <1>1, <2>1, Zenon DEF Brace
  <2>2. CASE p # in + 1
    <3>1. p - in - 1 \in 1 .. n.length /\ p - in - 1 \in 1 .. Len(input) - in - 1
          /\ in + 1 + (p - in - 1) = p
      <4>1. n.length \in Nat
        BY <1>2, <1>5 DEF NameRead
      <4> QED BY <1>1, <1>6, <2>2, <4>1
    <3>2. rest[p - in - 1] = input[p]
      BY <1>2, <3>1
    <3> QED BY <1>5, <3>1, <3>2 DEF NameRead
  <2> QED BY <2>1, <2>2
<1>8. b.result.ok
  BY <1>4 DEF Accepts
<1>9. /\ b.result.directive \in Directives
      /\ \/ b.result.directive = NoDirective
         \/ /\ b.end \in open + 2 .. Len(input)
            /\ input[open + 1] = Brace /\ input[b.end] # ":"
            /\ SpecRead(b.result.directive, SubSeq(input, open + 2, b.end - 1), open + 1)
            /\ PaddingRead(b.result.directive, SubSeq(input, open + 2, b.end - 1))
  <2>1. open \in 0 .. Len(input) /\ b \in Block(open, n.kind)
    BY <1>1, <1>4, <1>6
  <2> QED BY <1>8, <2>1, BlocksAreRead DEF Position
<1>10. d.kind = n.kind /\ d.block = b
  BY <1>4
<1>11. Blocked(b.result.directive, in, b.end)
  <2>1. b.end \in open + 2 .. Len(input) => open \in in + 1 .. b.end - 2
    BY <1>1, <1>6
  <2> QED BY <1>7, <1>9, <2>1 DEF Blocked
<1> QED BY <1>5, <1>9, <1>10, <1>11 DEF NameRead

\* What ViewsTrue and PaddingTrue say of one directive.
PaddingOf(directive, span) ==
    LET width == NumberSpelled(Slice(input, Min(EndDigits(span)) - 1, span.to - 1))
    IN  HasPadding(directive) =>
        /\ width < 2^ShortBits => directive.width = width
        /\ directive.alignment = IF isAlignmentCharacter(BeforeDigits(span))
                                 THEN AlignmentOf[BeforeDigits(span)] ELSE "Right"

LEMMA NothingSpecified ==
    ~HasSpecification(NoDirective) /\ ~HasPadding(NoDirective) /\ NoDirective.width = 0
BY DEF NoDirective, HasPadding, HasSpecification

(* A spec that is read from a block is where SpecOf looks for it.          *)
LEMMA SpecsAreTrue ==
    ASSUME NEW span, span.to \in Nat, span.from \in Nat, span.to < 2^ShortBits,
           NEW directive, Blocked(directive, span.from, span.to), HasSpecification(directive),
           span.to <= Len(input), input \in Seq(STRING)
    PROVE  SpecOf(directive, span)
<1> DEFINE from == span.from
           to == span.to
<1>1. directive # NoDirective
  <2>1. ~HasSpecification(NoDirective)
    BY Zenon, NothingSpecified
  <2> QED BY <2>1, Zenon
<1>2. PICK open \in from + 1 .. to - 2 :
         /\ input[open + 1] = Brace /\ input[to] # ":"
         /\ \A p \in from + 1 .. open : input[p] # Brace
         /\ SpecRead(directive, SubSeq(input, open + 2, to - 1), open + 1)
  BY <1>1 DEF Blocked
<1> DEFINE body == SubSeq(input, open + 2, to - 1)
           m == to - open - 2
<1>3. /\ from \in Nat /\ to \in Nat /\ open \in Nat /\ m \in Nat
      /\ from < open + 1 /\ open + 2 <= to /\ Len(input) \in Nat /\ to <= Len(input)
      /\ to < 2^ShortBits /\ 2^ShortBits \in Nat
  <2>1. Len(input) \in Nat /\ 2^ShortBits \in Nat
    BY LenProperties, ShortPowerAssumption
  <2>2. open \in from + 1 .. to - 2 /\ from \in Nat /\ to \in Nat
        /\ to < 2^ShortBits /\ to <= Len(input)
    BY <1>2
  <2> HIDE DEF from, to
  <2>3. /\ open \in Nat /\ from < open + 1 /\ open + 2 <= to /\ to - open - 2 \in Nat
    BY <2>2
  <2> QED BY <2>1, <2>2, <2>3
<1>4. Len(body) = m /\ \A i \in 1 .. m : body[i] = input[open + 1 + i]
  <2>1. open + 2 \in Nat \ {0} /\ to - 1 \in (open + 2) - 1 .. Len(input)
    BY <1>3, SMTT(40)
  <2>2. /\ Len(body) = (to - 1) - (open + 2) + 1
        /\ \A i \in 1 .. (to - 1) - (open + 2) + 1 : body[i] = input[(open + 2) + i - 1]
    BY <2>1, SubSeqElements, Zenon
  <2>3. (to - 1) - (open + 2) + 1 = m /\ \A i \in 1 .. m : (open + 2) + i - 1 = open + 1 + i
    BY <1>3
  <2> HIDE DEF body, m
  <2> QED BY <2>2, <2>3
<1> HIDE DEF from, to, body, m
<1>5. PICK n \in 1 .. m :
         /\ directive.offset = Short(open + 1) /\ directive.length = Short(n)
         /\ \/ n = m
            \/ n < m /\ body[n + 1] = ":" /\ \A p \in n + 2 .. m : body[p] # ":"
  BY <1>2, <1>4, Zenon DEF SpecRead, body, to
<1>6. directive.offset = open + 1 /\ directive.length = n
  <2>1. open + 1 \in 0 .. 2^ShortBits - 1 /\ n \in 0 .. 2^ShortBits - 1
    BY <1>3, <1>5 DEF m
  <2>2. \A x \in 0 .. 2^ShortBits - 1 : x % 2^ShortBits = x
    BY <1>3, SMTT(40)
  <2> QED BY <1>5, <2>1, <2>2 DEF Short
<1> DEFINE end == directive.offset + directive.length
<1>7. end = open + 1 + n /\ end < to /\ from < directive.offset
  BY <1>3, <1>5, <1>6 DEF m
<1>8. input[directive.offset] = Brace
  BY <1>2, <1>6
<1>9. \A p \in from + 1 .. directive.offset - 1 : input[p] # Brace
  BY <1>2, <1>3, <1>6 DEF from
<1>10. \/ end + 1 = to
       \/ input[end + 1] = ":" /\ \A p \in end + 2 .. to : input[p] # ":"
  <2>1. CASE n = m
    BY <1>3, <1>7, <2>1 DEF m
  <2>2. CASE n < m /\ body[n + 1] = ":" /\ \A p \in n + 2 .. m : body[p] # ":"
    <3>1. n + 1 \in 1 .. m /\ open + 1 + (n + 1) = end + 1
      BY <1>3, <1>5, <1>7, <2>2
    <3>2. input[end + 1] = ":"
      BY <1>4, <2>2, <3>1
    <3>3. ASSUME NEW p \in end + 2 .. to PROVE input[p] # ":"
      <4>1. CASE p = to
        BY <1>2, <4>1 DEF to
      <4>2. CASE p # to
        <5>1. p - open - 1 \in 1 .. m /\ p - open - 1 \in n + 2 .. m /\ open + 1 + (p - open - 1) = p
          BY <1>3, <1>5, <1>7, <4>2 DEF m
        <5> QED BY <1>4, <2>2, <5>1
      <4> QED BY <4>1, <4>2
    <3> QED BY <3>2, <3>3
  <2> QED BY <1>5, <2>1, <2>2
<1> HIDE DEF end
<1> QED BY <1>7, <1>8, <1>9, <1>10, Zenon DEF SpecOf, from, to, end, Brace

(* The digits that end a block are the number that padding is wide.        *)
LEMMA PaddingsAreTrue ==
    ASSUME NEW span, span.to \in Nat, span.from \in Nat,
           NEW directive, Blocked(directive, span.from, span.to),
           span.to <= Len(input), input \in Seq(STRING)
    PROVE  PaddingOf(directive, span)
<1> DEFINE from == span.from
           to == span.to
<1> SUFFICES ASSUME HasPadding(directive) PROVE PaddingOf(directive, span)
  BY DEF PaddingOf
<1>1. directive # NoDirective
  <2>1. ~HasPadding(NoDirective)
    BY Zenon, NothingSpecified
  <2> QED BY <2>1, Zenon
<1>2. PICK open \in from + 1 .. to - 2 :
         /\ input[open + 1] = Brace
         /\ PaddingRead(directive, SubSeq(input, open + 2, to - 1))
  BY <1>1 DEF Blocked
<1> DEFINE body == SubSeq(input, open + 2, to - 1)
           m == to - open - 2
<1>3. /\ from \in Nat /\ to \in Nat /\ open \in Nat /\ m \in Nat
      /\ from < open + 1 /\ open + 2 <= to /\ Len(input) \in Nat /\ to <= Len(input)
      /\ 2^ShortBits \in Nat
  BY <1>2, LenProperties, ShortPowerAssumption, SMTT(40)
<1>4. body \in Seq(STRING) /\ Len(body) = m /\ \A i \in 1 .. m : body[i] = input[open + 1 + i]
  <2>1. open + 2 \in Nat \ {0} /\ to - 1 \in (open + 2) - 1 .. Len(input)
    BY <1>3
  <2>2. /\ body \in Seq(STRING) /\ Len(body) = (to - 1) - (open + 2) + 1
        /\ \A i \in 1 .. (to - 1) - (open + 2) + 1 : body[i] = input[(open + 2) + i - 1]
    BY <2>1, SubSeqElements, Zenon
  <2>3. (to - 1) - (open + 2) + 1 = m /\ \A i \in 1 .. m : (open + 2) + i - 1 = open + 1 + i
    BY <1>3
  <2> HIDE DEF body, m
  <2> QED BY <2>2, <2>3
<1>5. PICK s \in 1 .. m :
         /\ \A i \in s .. m : isDigit(body[i])
         /\ directive.width = ShortSpelled(SubSeq(body, s, m))
         /\ \/ /\ s > 1 /\ isAlignmentCharacter(body[s - 1])
               /\ directive.alignment = AlignmentOf[body[s - 1]]
            \/ /\ directive.alignment = "Right"
               /\ \/ s = 1 \/ body[s - 1] = ":"
                  \/ body[s - 1] = "0" /\ (s = 2 \/ (s > 2 /\ body[s - 2] = ":"))
  BY <1>2, <1>4, Zenon DEF PaddingRead
<1> HIDE DEF from, to, body, m
<1>6. PICK first \in Nat \ {0} : first = open + 1 + s /\ first \in open + 2 .. to - 1
  BY <1>3, <1>5 DEF m
<1>7. \A q \in first .. to - 1 : isDigit(input[q])
  <2> SUFFICES ASSUME NEW q \in first .. to - 1 PROVE isDigit(input[q])
    OBVIOUS
  <2>1. q - open - 1 \in s .. m /\ q - open - 1 \in 1 .. m /\ open + 1 + (q - open - 1) = q
    BY <1>3, <1>5, <1>6 DEF m
  <2> QED BY <1>4, <1>5, <2>1
\* The digits from a place on, and what they are preceded by.
<1> DEFINE Digits(p) == SubSeq(input, p, to - 1)
<1>8. ASSUME NEW p \in open + 2 .. to - 1
      PROVE  /\ Digits(p) \in Seq(STRING) /\ Len(Digits(p)) = to - p
             /\ \A i \in 1 .. to - p : Digits(p)[i] = input[p + i - 1]
  <2>1. p \in Nat \ {0} /\ to - 1 \in p - 1 .. Len(input) /\ (to - 1) - p + 1 = to - p
    BY <1>3
  <2>2. /\ Digits(p) \in Seq(STRING) /\ Len(Digits(p)) = (to - 1) - p + 1
        /\ \A i \in 1 .. (to - 1) - p + 1 : Digits(p)[i] = input[p + i - 1]
    BY <2>1, SubSeqElements, ZenonT(40)
  <2> HIDE DEF Digits
  <2> QED BY <2>1, <2>2
<1>9. ASSUME NEW p \in open + 2 .. to - 1, \A q \in p .. to - 1 : isDigit(input[q]),
             ~isDigit(input[p - 1])
      PROVE  /\ Min(EndDigits(span)) = p
             /\ BeforeDigits(span) = input[p - 1]
             /\ Slice(input, Min(EndDigits(span)) - 1, span.to - 1) = Digits(p)
  <2>1. p \in EndDigits(span) /\ EndDigits(span) \subseteq Nat
    BY <1>3, <1>9 DEF EndDigits, from, to
  <2>2. Min(EndDigits(span)) \in EndDigits(span)
        /\ \A i \in EndDigits(span) : Min(EndDigits(span)) <= i
    BY <2>1, MinIsMin
  <2>3. ASSUME NEW i \in EndDigits(span), i < p PROVE FALSE
    <3>1. i \in Nat /\ p - 1 \in i .. to - 1
      BY <1>3, <2>1, <2>3
    <3> QED BY <1>9, <2>3, <3>1 DEF EndDigits, to
  <2>4. Min(EndDigits(span)) = p
    <3> DEFINE least == Min(EndDigits(span))
    <3>1. least \in Nat /\ least <= p /\ ~(least < p)
      BY <2>1, <2>2, <2>3
    <3> HIDE DEF least
    <3>2. least = p
      BY <3>1
    <3> QED BY <3>2 DEF least
  <2>5. Slice(input, p - 1, to - 1) = Digits(p)
    BY <1>3 DEF Slice
  <2> QED BY <2>4, <2>5 DEF BeforeDigits, to
<1>10. Digits(first) = SubSeq(body, s, m)
  <2>1. /\ s \in Nat \ {0} /\ m \in s - 1 .. Len(body) /\ m - s + 1 = to - first
        /\ \A i \in 1 .. to - first : /\ s + i - 1 \in 1 .. m
                                      /\ open + 1 + (s + i - 1) = first + i - 1
    BY <1>3, <1>4, <1>5, <1>6, SMTT(40) DEF m
  <2>2. /\ SubSeq(body, s, m) \in Seq(STRING) /\ Len(SubSeq(body, s, m)) = m - s + 1
        /\ \A i \in 1 .. m - s + 1 : SubSeq(body, s, m)[i] = body[s + i - 1]
    <3> HIDE DEF Digits
    <3>1. body \in Seq(STRING) /\ s \in Nat \ {0} /\ m \in s - 1 .. Len(body)
      BY <1>4, <2>1
    <3> QED BY ONLY <3>1, SubSeqElements, Zenon
  <2>3. \A i \in 1 .. to - first : body[s + i - 1] = input[first + i - 1]
    BY <1>4, <2>1
  <2>4. /\ Digits(first) \in Seq(STRING) /\ Len(Digits(first)) = to - first
        /\ \A i \in 1 .. to - first : Digits(first)[i] = input[first + i - 1]
    BY <1>6, <1>8
  <2> HIDE DEF Digits
  <2>5. /\ Len(Digits(first)) = Len(SubSeq(body, s, m))
        /\ \A i \in 1 .. Len(Digits(first)) : Digits(first)[i] = SubSeq(body, s, m)[i]
    BY <2>1, <2>2, <2>3, <2>4
  <2> QED BY <2>2, <2>4, <2>5, SeqEqual
<1>11. /\ \A i \in 1 .. Len(Digits(first)) : DigitValue[Digits(first)[i]] \in 0 .. 9
       /\ Len(Digits(first)) = to - first /\ to - first \in Nat
       /\ directive.width = ShortSpelled(Digits(first))
       /\ NumberSpelled(Digits(first)) < 2^ShortBits =>
             directive.width = NumberSpelled(Digits(first))
  <2>1. /\ Len(Digits(first)) = to - first /\ to - first \in Nat
        /\ \A i \in 1 .. to - first : Digits(first)[i] = input[first + i - 1]
    BY <1>3, <1>6, <1>8
  <2> HIDE DEF Digits
  <2>2. \A i \in 1 .. to - first : first + i - 1 \in first .. to - 1
    BY <1>3
  <2>3. \A i \in 1 .. Len(Digits(first)) : DigitValue[Digits(first)[i]] \in 0 .. 9
    BY <1>7, <2>1, <2>2, DigitsHaveValues
  <2> QED BY <1>5, <1>10, <2>1, <2>3, Spelled
<1>12. ~isDigit(":") /\ ~isDigit(Brace) /\ ~isAlignmentCharacter(":")
       /\ ~isAlignmentCharacter(Brace) /\ ~isAlignmentCharacter("0")
       /\ \A u : isAlignmentCharacter(u) => ~isDigit(u)
  <2>1. {"0", "1", "2", "3", "5", "6", "7"} \cap {"<", ">", "^", ":"} = {}
    OBVIOUS
  <2>2. Brace \notin {"0", "1", "2", "3", "5", "6", "7"} \cup {"<", ">", "^", ":"}
    BY Zenon DEF Brace
  <2>3. \A u : /\ isDigit(u) <=> u \in {"0", "1", "2", "3", "5", "6", "7"}
               /\ isAlignmentCharacter(u) <=> u \in {"<", ">", "^"}
    BY DEF isDigit, DigitValue, isAlignmentCharacter, AlignmentOf
  <2> QED BY <2>1, <2>2, <2>3
<1>13. /\ s = 1 => input[first - 1] = Brace
       /\ s > 1 => input[first - 1] = body[s - 1]
       /\ s = 2 => input[first - 2] = Brace
       /\ s > 2 => input[first - 2] = body[s - 2]
  <2>1. s = 1 => first - 1 = open + 1
    BY <1>3, <1>6
  <2>2. s = 2 => first - 2 = open + 1
    BY <1>3, <1>6
  <2>3. s > 1 => s - 1 \in 1 .. m /\ open + 1 + (s - 1) = first - 1
    BY <1>3, <1>5, <1>6
  <2>4. s > 2 => s - 2 \in 1 .. m /\ open + 1 + (s - 2) = first - 2
    BY <1>3, <1>5, <1>6
  <2> QED BY <1>2, <1>4, <2>1, <2>2, <2>3, <2>4
<1>14. PaddingOf(directive, span) <=>
          /\ NumberSpelled(Slice(input, Min(EndDigits(span)) - 1, span.to - 1)) < 2^ShortBits =>
                directive.width = NumberSpelled(Slice(input, Min(EndDigits(span)) - 1, span.to - 1))
          /\ directive.alignment = IF isAlignmentCharacter(BeforeDigits(span))
                                   THEN AlignmentOf[BeforeDigits(span)] ELSE "Right"
  BY DEF PaddingOf
<1> HIDE DEF Digits
<1>15. CASE s > 1 /\ isAlignmentCharacter(body[s - 1])
            /\ directive.alignment = AlignmentOf[body[s - 1]]
  <2>1. input[first - 1] = body[s - 1] /\ ~isDigit(input[first - 1])
    BY <1>12, <1>13, <1>15
  <2>2. /\ BeforeDigits(span) = body[s - 1]
        /\ Slice(input, Min(EndDigits(span)) - 1, span.to - 1) = Digits(first)
    BY <1>6, <1>7, <1>9, <2>1
  <2> QED BY <1>11, <1>14, <1>15, <2>2
<1>16. CASE directive.alignment = "Right" /\ (s = 1 \/ body[s - 1] = ":")
  <2>1. input[first - 1] \in {Brace, ":"}
    BY <1>5, <1>13, <1>16
  <2>2. ~isDigit(input[first - 1]) /\ ~isAlignmentCharacter(input[first - 1])
    BY <1>12, <2>1
  <2>3. /\ BeforeDigits(span) = input[first - 1]
        /\ Slice(input, Min(EndDigits(span)) - 1, span.to - 1) = Digits(first)
    BY <1>6, <1>7, <1>9, <2>2
  <2> QED BY <1>11, <1>14, <1>16, <2>2, <2>3
<1>17. CASE directive.alignment = "Right" /\ s > 1 /\ body[s - 1] = "0"
            /\ (s = 2 \/ (s > 2 /\ body[s - 2] = ":"))
  <2>1. PICK p \in open + 2 .. to - 1 : p = first - 1 /\ p - 1 = first - 2
    BY <1>3, <1>5, <1>6, <1>17
  <2>2. input[p] = "0" /\ input[p - 1] \in {Brace, ":"}
    BY <1>13, <1>17, <2>1
  <2>3. ~isDigit(input[p - 1]) /\ ~isAlignmentCharacter(input[p - 1])
    BY <1>12, <2>2
  <2>4. \A q \in p .. to - 1 : isDigit(input[q])
    <3>1. isDigit("0")
      BY DEF isDigit, DigitValue
    <3>2. \A q \in p .. to - 1 : q = p \/ q \in first .. to - 1
      BY <1>3, <1>6, <2>1
    <3> QED BY <1>7, <2>2, <3>1, <3>2
  <2>5. /\ BeforeDigits(span) = input[p - 1]
        /\ Slice(input, Min(EndDigits(span)) - 1, span.to - 1) = Digits(p)
    BY <1>9, <2>3, <2>4
  <2>6. NumberSpelled(Digits(p)) = NumberSpelled(Digits(first))
    <3>1. /\ Len(Digits(p)) = to - p /\ \A i \in 1 .. to - p : Digits(p)[i] = input[p + i - 1]
          /\ \A i \in 1 .. to - first : Digits(first)[i] = input[first + i - 1]
      BY <1>6, <1>8
    <3>2. /\ 1 \in 1 .. to - p /\ p + 1 - 1 = p /\ to - p = (to - first) + 1
          /\ \A i \in 1 .. to - first : /\ i + 1 \in 1 .. to - p
                                        /\ p + (i + 1) - 1 = first + i - 1
      BY <1>3, <1>6, <2>1
    <3>3. Digits(p)[1] = "0" /\ \A i \in 1 .. to - first : Digits(p)[i + 1] = Digits(first)[i]
      <4> HIDE DEF Digits
      <4>1. Digits(p)[1] = input[p]
        BY <3>1, <3>2
      <4>2. ASSUME NEW i \in 1 .. to - first PROVE Digits(p)[i + 1] = Digits(first)[i]
        <5>1. PICK j : j = i + 1
          OBVIOUS
        <5>2. j \in 1 .. to - p /\ p + j - 1 = first + i - 1
          BY <3>2, <5>1
        <5>3. Digits(p)[j] = input[first + i - 1]
          BY <3>1, <5>2
        <5> QED BY <3>1, <5>1, <5>3
      <4> QED BY <2>2, <4>1, <4>2
    <3> QED BY <1>11, <3>1, <3>2, <3>3, LeadingZero
  <2> QED BY <1>11, <1>14, <1>17, <2>3, <2>5, <2>6
<1> QED BY <1>5, <1>15, <1>16, <1>17

-----------------------------------------------------------------------------
(* The segments are what the pattern says                                  *)

SegmentType == [kind : SegmentKind, text : Shorts \X Shorts, directive : Directives,
                depth : 0 .. MaxSegments]

\* The kinds that are nothing without a spec.
Specified == {"Attribute", "ForegroundColorStart", "BackgroundColorStart"}

\* What a segment says of the part of the pattern it is made of: a literal, or
\* the directive of a block.
SegmentRead(segment, span) ==
    IF segment.kind = "Literal"
    THEN /\ segment.directive = NoDirective
         /\ span.to < 2^ShortBits =>
               Substr(input, segment.text[1], segment.text[2]) = LiteralOf(span)
    ELSE /\ Blocked(segment.directive, span.from, span.to)
         /\ segment.kind \in Specified => HasSpecification(segment.directive)

\* Nothing is as wide as nothing.
Measured(directive) == HasPadding(directive) \/ directive.width = 0

\* A literal that is being read holds no directive. It may end with the last
\* unit of the pattern, which never begins one.
Scanned ==
    inLiteral => \A p \in literalStart .. in - 1 : p + 1 < Len(input) => input[p + 1] # "%"

\* Every segment is of its type and says what the pattern says.
SegmentsRead ==
    \A i \in 1 .. Len(segments) :
        /\ segments[i] \in SegmentType
        /\ spans[i] \in [from : 0 .. Len(input), to : 0 .. Len(input)]
        /\ SegmentRead(segments[i], spans[i])

ReadInv ==
    /\ config.allowed \subseteq SegmentKind /\ config.relaxed \in BOOLEAN
    /\ outcome \in {"parsing", "parsed", "rejected"}
    /\ Scanned
    /\ SegmentsRead

(* What is said of a segment is said of the pattern only.                  *)
LEMMA ReadStays ==
    ASSUME input' = input, NEW segment, NEW span
    PROVE  SegmentRead(segment, span) => SegmentRead(segment, span)'
BY DEF SegmentRead, Blocked, LiteralOf

(* A part of the pattern, by its places.                                   *)
LEMMA SliceElements ==
    ASSUME input \in Seq(STRING), NEW from \in 0 .. Len(input), NEW to \in from .. Len(input)
    PROVE  /\ Len(Slice(input, from, to)) = to - from
           /\ Slice(input, from, to) \in Seq(STRING)
           /\ \A i \in 1 .. to - from : Slice(input, from, to)[i] = input[from + i]
<1>1. Len(input) \in Nat
  BY LenProperties
<1>2. from + 1 \in Nat \ {0} /\ to \in (from + 1) - 1 .. Len(input)
  BY <1>1
<1>3. /\ SubSeq(input, from + 1, to) \in Seq(STRING)
      /\ Len(SubSeq(input, from + 1, to)) = to - (from + 1) + 1
      /\ \A i \in 1 .. to - (from + 1) + 1 :
            SubSeq(input, from + 1, to)[i] = input[(from + 1) + i - 1]
  BY ONLY <1>2, input \in Seq(STRING), SubSeqElements, Zenon
<1>4. /\ to - (from + 1) + 1 = to - from
      /\ \A i \in 1 .. to - from : (from + 1) + i - 1 = from + i
  BY <1>1
<1>5. Slice(input, from, to) = SubSeq(input, from + 1, to)
  BY DEF Slice
<1> QED BY <1>3, <1>4, <1>5

(* What a literal views is what it is made of, as far as 16 bits count.    *)
LEMMA ViewedLiteral ==
    ASSUME input \in Seq(STRING), NEW from \in Nat, NEW to \in from + 1 .. Len(input),
           to < 2^ShortBits
    PROVE  Substr(input, Short(from), Short(to - from)) = Slice(input, from, to)
<1>1. Len(input) \in Nat /\ 2^ShortBits \in Nat
  BY LenProperties, ShortPowerAssumption
<1>2. from \in 0 .. 2^ShortBits - 1 /\ to - from \in 0 .. 2^ShortBits - 1
  BY <1>1
<1>3. \A x \in 0 .. 2^ShortBits - 1 : x % 2^ShortBits = x
  BY <1>1
<1>4. Short(from) = from /\ Short(to - from) = to - from
  BY <1>2, <1>3 DEF Short
<1>5. from + (to - from) = to /\ ~(to > Len(input))
  BY <1>1
<1>6. Substr(input, from, to - from) = Slice(input, from, to)
  BY <1>5 DEF Substr
<1> QED BY <1>4, <1>6

(* A literal that holds no directive is not an escape.                     *)
LEMMA ScannedLiteral ==
    ASSUME input \in Seq(STRING), NEW span, span.from \in Nat, span.to \in span.from + 1 .. Len(input),
           \A p \in span.from .. span.to - 1 : p + 1 < Len(input) => input[p + 1] # "%"
    PROVE  LiteralOf(span) = Slice(input, span.from, span.to)
<1> SUFFICES ASSUME Slice(input, span.from, span.to) = <<"%", "%">> PROVE FALSE
  BY DEF LiteralOf
<1> DEFINE from == span.from
           to == span.to
           part == Slice(input, from, to)
<1>1. Len(input) \in Nat /\ from \in 0 .. Len(input) /\ to \in from .. Len(input)
  BY LenProperties
<1>2. /\ Len(part) = to - from
      /\ \A i \in 1 .. to - from : part[i] = input[from + i]
  BY ONLY <1>1, input \in Seq(STRING), SliceElements, Zenon
<1>3. Len(part) = 2 /\ part[1] = "%"
  OBVIOUS
<1> HIDE DEF part
<1>4. from + 1 < Len(input) /\ from \in from .. to - 1 /\ 1 \in 1 .. to - from
  <2>1. to - from = 2
    BY <1>2, <1>3, Zenon
  <2> HIDE DEF from, to
  <2> QED BY ONLY <1>1, <2>1
<1> QED BY <1>2, <1>3, <1>4

(* The literal of an escape views its second unit.                         *)
LEMMA EscapedLiteral ==
    ASSUME input \in Seq(STRING), NEW at \in Nat, at + 1 < Len(input), at + 2 < 2^ShortBits,
           input[at + 1] = "%", input[at + 2] = "%",
           NEW span, span = [from |-> at, to |-> at + 2]
    PROVE  Substr(input, Short(at + 1), Short(1)) = LiteralOf(span)
<1>1. Len(input) \in Nat
  BY LenProperties
<1>2. /\ at \in 0 .. Len(input) /\ at + 2 \in at .. Len(input)
      /\ at + 1 \in 0 .. Len(input) /\ at + 2 \in at + 1 .. Len(input)
      /\ at + 1 \in Nat /\ at + 2 \in (at + 1) + 1 .. Len(input)
      /\ (at + 2) - at = 2 /\ (at + 2) - (at + 1) = 1 /\ (at + 1) + 1 = at + 2
  BY <1>1
<1>3. Substr(input, Short(at + 1), Short(1)) = Slice(input, at + 1, at + 2)
  BY <1>2, ViewedLiteral
<1>4. /\ Slice(input, at, at + 2) \in Seq(STRING) /\ Len(Slice(input, at, at + 2)) = (at + 2) - at
      /\ \A i \in 1 .. (at + 2) - at : Slice(input, at, at + 2)[i] = input[at + i]
  BY ONLY <1>2, input \in Seq(STRING), SliceElements, Zenon
<1>5. /\ Slice(input, at + 1, at + 2) \in Seq(STRING)
      /\ Len(Slice(input, at + 1, at + 2)) = (at + 2) - (at + 1)
      /\ \A i \in 1 .. (at + 2) - (at + 1) :
            Slice(input, at + 1, at + 2)[i] = input[(at + 1) + i]
  BY ONLY <1>2, input \in Seq(STRING), SliceElements, Zenon
<1>6. Slice(input, at, at + 2) = <<"%", "%">>
  <2> DEFINE part == Slice(input, at, at + 2)
  <2>1. part \in Seq(STRING) /\ Len(part) = 2 /\ part[1] = "%" /\ part[2] = "%"
    BY <1>2, <1>4
  <2> HIDE DEF part
  <2>2. part = <<"%", "%">>
    BY <2>1
  <2> QED BY <2>2 DEF part
<1>7. Slice(input, at + 1, at + 2) = <<"%">>
  <2> DEFINE part == Slice(input, at + 1, at + 2)
  <2>1. part \in Seq(STRING) /\ Len(part) = 1 /\ part[1] = "%"
    BY <1>2, <1>5
  <2> HIDE DEF part
  <2>2. part = <<"%">>
    BY <2>1
  <2> QED BY <2>2 DEF part
<1>8. span.from = at /\ span.to = at + 2
  OBVIOUS
<1>9. LiteralOf(span) = <<"%">>
  BY <1>6, <1>8 DEF LiteralOf
<1> QED BY <1>3, <1>7, <1>9

(* A segment that says what the pattern says is added to those that do.    *)
LEMMA PushReads ==
    ASSUME ParserInv, ReadInv, Room, outcome = "parsing", inLiteral' = FALSE,
           NEW kind, NEW text, NEW directive, NEW from \in 0 .. Len(input),
           NEW to \in 0 .. Len(input),
           Push(kind, text, directive, DepthAfter(kind), from, to),
           kind \in SegmentKind, text \in Shorts \X Shorts, directive \in Directives,
           \A segment, span :
               /\ segment.kind = kind /\ segment.text = text
               /\ segment.directive = directive
               /\ span = [from |-> from, to |-> to]
               => SegmentRead(segment, span)
    PROVE  ReadInv'
<1>1. PICK L \in Nat : L = Len(segments)
  BY AppendAny DEF ParserInv, Position
<1>2. DepthAfter(kind) \in 0 .. MaxSegments
  <2>1. depth \in 0 .. L /\ L < MaxSegments /\ MaxSegments \in Nat
    BY <1>1, MaxSegmentsAssumption DEF ParserInv, WithinCapacity, Room
  <2> QED BY <2>1 DEF DepthAfter
<1>3. PICK segment : segment = [kind |-> kind, text |-> text, directive |-> directive,
                                depth |-> DepthAfter(kind)]
  OBVIOUS
<1>4. /\ segment \in SegmentType /\ segment.kind = kind /\ segment.text = text
      /\ segment.directive = directive
  BY <1>2, <1>3 DEF SegmentType
<1>5. PICK span : span = [from |-> from, to |-> to]
  OBVIOUS
<1>6. span \in [from : 0 .. Len(input), to : 0 .. Len(input)] /\ span \in [from : Nat, to : Nat]
  <2>1. Len(input) \in Nat
    BY LenProperties DEF ParserInv, Position
  <2> QED BY <1>5, <2>1
<1>7. /\ segments' = Append(segments, segment) /\ spans' = Append(spans, span)
      /\ input' = input /\ config' = config /\ outcome' = outcome
  BY <1>3, <1>5 DEF Push
<1>8. /\ Len(segments') = L + 1 /\ segments'[L + 1] = segment
      /\ \A i \in 1 .. L : segments'[i] = segments[i]
  BY <1>1, <1>7, AppendAny DEF ParserInv, Position
<1>9. /\ spans'[L + 1] = span
      /\ \A i \in 1 .. L : spans'[i] = spans[i]
  <2>1. spans \in Seq([from : Nat, to : Nat]) /\ Len(spans) = L
    BY <1>1 DEF ParserInv, Position
  <2> QED BY <1>6, <1>7, <2>1, AppendProperties
<1>10. SegmentRead(segment, span)
  BY <1>4, <1>5
<1>11. ASSUME NEW i \in 1 .. L + 1
       PROVE  /\ segments'[i] \in SegmentType
              /\ spans'[i] \in [from : 0 .. Len(input), to : 0 .. Len(input)]
              /\ SegmentRead(segments[i], spans[i])'
  <2>1. PICK s, x : s = segments'[i] /\ x = spans'[i]
    OBVIOUS
  <2>2. s \in SegmentType /\ x \in [from : 0 .. Len(input), to : 0 .. Len(input)] /\ SegmentRead(s, x)
    <3>1. CASE i = L + 1
      BY <1>4, <1>6, <1>8, <1>9, <1>10, <2>1, <3>1
    <3>2. CASE i \in 1 .. L
      BY <1>1, <1>8, <1>9, <2>1, <3>2 DEF ReadInv, SegmentsRead
    <3> QED BY <3>1, <3>2
  <2>3. SegmentRead(s, x)'
    BY <1>7, <2>2, ReadStays
  <2> QED BY <2>1, <2>2, <2>3
<1>12. SegmentsRead'
  BY <1>7, <1>8, <1>11 DEF SegmentsRead
<1>13. Scanned'
  BY DEF Scanned
<1> QED BY <1>7, <1>12, <1>13 DEF ReadInv

(* Steps that add no segment.                                              *)
LEMMA UnpushedReads ==
    ASSUME ParserInv, ReadInv, UNCHANGED <<input, config, segments, spans>>,
           outcome' \in {"parsing", "parsed", "rejected"}, Scanned'
    PROVE  ReadInv'
<1>1. ASSUME NEW i \in 1 .. Len(segments)
      PROVE  SegmentRead(segments[i], spans[i])'
  <2>1. PICK s, x : s = segments[i] /\ x = spans[i]
    OBVIOUS
  <2>2. SegmentRead(s, x)
    BY <2>1 DEF ReadInv, SegmentsRead
  <2>3. SegmentRead(s, x)'
    BY <2>2, ReadStays
  <2> QED BY <2>1, <2>3
<1>2. SegmentsRead'
  BY <1>1 DEF ReadInv, SegmentsRead
<1> QED BY <1>2 DEF ReadInv

(* Every turn of the loop reads what the pattern says.                     *)
LEMMA StepReads == ParserInv /\ ReadInv /\ [ParserNext]_parserVars => ReadInv'
<1> SUFFICES ASSUME ParserInv, ReadInv, [ParserNext]_parserVars PROVE ReadInv'
  OBVIOUS
<1>1. /\ in \in Nat /\ Len(input) \in Nat /\ in \in 0 .. Len(input)
      /\ literalStart \in 0 .. in /\ inLiteral \in BOOLEAN
      /\ inLiteral => literalStart < in
      /\ input \in Seq(STRING)
  BY LenProperties DEF ParserInv, Position
<1>2. outcome \in {"parsing", "parsed", "rejected"}
  BY DEF ReadInv
<1>3. CASE ScanLiteral
  <2>1. Scanned'
    <3> SUFFICES ASSUME NEW p \in literalStart' .. in' - 1, p + 1 < Len(input')
                 PROVE  input'[p + 1] # "%"
      BY DEF Scanned
    <3>1. input' = input /\ in' = in + 1 /\ outcome = "parsing"
          /\ literalStart' = IF inLiteral THEN literalStart ELSE in
      BY <1>3 DEF ScanLiteral
    <3>2. CASE p = in
      BY <1>3, <3>1, <3>2 DEF ScanLiteral, AtDirective
    <3>3. CASE p # in
      <4>1. inLiteral /\ p \in literalStart .. in - 1
        BY <1>1, <3>1, <3>3
      <4> QED BY <3>1, <4>1 DEF ReadInv, Scanned
    <3> QED BY <3>2, <3>3
  <2> QED BY <1>2, <1>3, <2>1, UnpushedReads DEF ScanLiteral
<1>4. CASE Reject
  <2>1. Scanned'
    BY <1>4 DEF Reject, ReadInv, Scanned
  <2> QED BY <1>4, <2>1, UnpushedReads DEF Reject
<1>5. NoDirective \in Directives /\ "Literal" \in SegmentKind /\ DepthAfter("Literal") = depth
  <2>1. NoDirective \in Directives
    BY EmptySeq, WithSpecType
  <2>2. "Literal" \in SegmentKind
    BY DEF SegmentKind
  <2>3. DepthAfter("Literal") = depth
    BY DEF DepthAfter, isStyleStart, StyleStarts
  <2> QED BY <2>1, <2>2, <2>3
<1>6. CASE flushLiteral /\ Room
  <2>1. PICK text : text = <<Short(literalStart), Short(in - literalStart)>>
    OBVIOUS
  <2>2. inLiteral /\ outcome = "parsing" /\ inLiteral' = FALSE
        /\ Push("Literal", text, NoDirective, DepthAfter("Literal"), literalStart, in)
    BY <1>5, <1>6, <2>1 DEF flushLiteral, AtDirective, PushLiteral
  <2>3. PICK from \in 0 .. Len(input), to \in 0 .. Len(input) :
           /\ from = literalStart /\ to = in /\ from \in Nat
           /\ to \in from + 1 .. Len(input) /\ to - from \in Nat
    BY <1>1, <2>2
  <2>4. text = <<Short(from), Short(to - from)>>
    BY <2>1, <2>3
  <2>5. text \in Shorts \X Shorts
    BY <2>3, <2>4, ShortType
  <2>6. ASSUME NEW segment, NEW span, segment.kind = "Literal", segment.text = text,
               segment.directive = NoDirective, span = [from |-> from, to |-> to]
        PROVE  SegmentRead(segment, span)
    <3>1. span.from = from /\ span.to = to
      BY <2>6
    <3>2. \A p \in from .. to - 1 : p + 1 < Len(input) => input[p + 1] # "%"
      BY <2>2, <2>3 DEF ReadInv, Scanned
    <3>3. LiteralOf(span) = Slice(input, from, to)
      BY <1>1, <2>3, <3>1, <3>2, ScannedLiteral
    <3>4. to < 2^ShortBits => Substr(input, Short(from), Short(to - from)) = Slice(input, from, to)
      BY <1>1, <2>3, ViewedLiteral
    <3>5. segment.text[1] = Short(from) /\ segment.text[2] = Short(to - from)
      BY <2>4, <2>6
    <3> QED BY <2>6, <3>1, <3>3, <3>4, <3>5, Zenon DEF SegmentRead
  <2>7. Push("Literal", text, NoDirective, DepthAfter("Literal"), from, to)
    BY <2>2, <2>3
  <2> QED BY <1>5, <1>6, <2>2, <2>3, <2>5, <2>6, <2>7, PushReads, Zenon
<1>7. CASE Percent /\ Room
  <2>1. PICK text : text = <<Short(in + 1), Short(1)>>
    OBVIOUS
  <2>2. /\ ~inLiteral /\ outcome = "parsing" /\ inLiteral' = inLiteral
        /\ in + 1 < Len(input) /\ input[in + 1] = "%" /\ input[in + 2] = "%"
        /\ Push("Literal", text, NoDirective, DepthAfter("Literal"), in, in + 2)
    BY <1>5, <1>7, <2>1 DEF Percent, AtDirective, PushLiteral
  <2>3. PICK from \in 0 .. Len(input), to \in 0 .. Len(input) :
           from = in /\ to = in + 2 /\ from \in Nat /\ from + 1 \in Nat /\ 1 \in Nat
    BY <1>1, <2>2
  <2>4. text \in Shorts \X Shorts
    BY <2>1, <2>3, ShortType
  <2>5. ASSUME NEW segment, NEW span, segment.kind = "Literal", segment.text = text,
               segment.directive = NoDirective, span = [from |-> from, to |-> to]
        PROVE  SegmentRead(segment, span)
    <3>1. span.to = from + 2 /\ span = [from |-> from, to |-> from + 2]
      BY <2>3, <2>5
    <3>2. from + 2 < 2^ShortBits => Substr(input, Short(from + 1), Short(1)) = LiteralOf(span)
      BY <1>1, <2>2, <2>3, <3>1, EscapedLiteral
    <3>3. segment.text[1] = Short(from + 1) /\ segment.text[2] = Short(1)
      BY <2>1, <2>3, <2>5
    <3> QED BY <2>5, <3>1, <3>2, <3>3, Zenon DEF SegmentRead
  <2>6. Push("Literal", text, NoDirective, DepthAfter("Literal"), from, to) /\ inLiteral' = FALSE
    BY <1>1, <2>2, <2>3
  <2> QED BY <1>5, <1>7, <2>2, <2>4, <2>5, <2>6, PushReads, Zenon
<1>8. CASE Directive
  <2>1. PICK d \in Readable :
           Push(d.kind, <<0, 0>>, d.block.result.directive, DepthAfter(d.kind), in, d.block.end)
    BY <1>8 DEF Directive
  <2>2. AtDirective /\ outcome = "parsing" /\ inLiteral' = FALSE
    BY <1>1, <1>8 DEF Directive, AtDirective
  <2>3. Position
    BY DEF ParserInv
  <2>4. Accepts(d.kind, d.block) /\ d.block.end \in in + 1 .. Len(input)
    BY <2>2, <2>3, ReadableEnds
  <2>5. /\ d.kind \in SegmentKind \ {"Literal"}
        /\ d.block.result.directive \in Directives
        /\ Blocked(d.block.result.directive, in, d.block.end)
    BY <2>2, <2>3, DirectivesAreRead
  <2>6. PICK kind, directive, from, to :
           /\ kind = d.kind /\ directive = d.block.result.directive
           /\ from = in /\ to = d.block.end
           /\ from \in 0 .. Len(input) /\ to \in 0 .. Len(input)
    BY <1>1, <2>4
  <2>7. /\ Push(kind, <<0, 0>>, directive, DepthAfter(kind), from, to)
        /\ kind \in SegmentKind /\ kind # "Literal" /\ directive \in Directives
        /\ Blocked(directive, from, to)
        /\ kind \in Specified => HasSpecification(directive)
    BY <2>1, <2>4, <2>5, <2>6 DEF Accepts, Specified
  <2>8. <<0, 0>> \in Shorts \X Shorts
    BY ShortPowerAssumption DEF Shorts
  <2>9. ASSUME NEW segment, NEW span, segment.kind = kind, segment.text = <<0, 0>>,
               segment.directive = directive, span = [from |-> from, to |-> to]
        PROVE  SegmentRead(segment, span)
    <3>1. span.from = from /\ span.to = to
      BY <2>9
    <3> QED BY <2>7, <2>9, <3>1 DEF SegmentRead
  <2>10. Room
    BY <2>4 DEF Accepts
  <2> QED BY <2>2, <2>6, <2>7, <2>8, <2>9, <2>10, PushReads, Zenon
<1>9. CASE Finish
  <2>1. Scanned' /\ outcome' \in {"parsing", "parsed", "rejected"}
    BY <1>9 DEF Finish, ReadInv, Scanned
  <2> QED BY <1>9, <2>1, UnpushedReads DEF Finish
<1>10. CASE UNCHANGED parserVars
  <2>1. Scanned'
    BY <1>10 DEF parserVars, ReadInv, Scanned
  <2> QED BY <1>2, <1>10, <2>1, UnpushedReads DEF parserVars
<1> QED BY <1>3, <1>4, <1>6, <1>7, <1>8, <1>9, <1>10
        DEF ParserNext, flushLiteral, Percent, RejectDirective

(* Only padding has a width.                                               *)
LEMMA ReadMeasured ==
    ASSUME NEW segment, NEW span, SegmentRead(segment, span)
    PROVE  Measured(segment.directive)
<1>1. CASE segment.directive = NoDirective
  BY <1>1, NothingSpecified, Zenon DEF Measured
<1>2. CASE segment.directive # NoDirective
  <2>1. PICK body : PaddingRead(segment.directive, body)
    BY <1>2 DEF SegmentRead, Blocked
  <2> QED BY <2>1 DEF PaddingRead, Measured
<1> QED BY <1>1, <1>2

(* When Parse begins, there is nothing to be read wrong.                   *)
LEMMA StartedReads ==
    ASSUME Started, config.allowed \subseteq SegmentKind, config.relaxed \in BOOLEAN
    PROVE  ReadInv
<1>1. Len(segments) = 0
  BY EmptySeq DEF Started
<1>2. SegmentsRead
  BY <1>1 DEF SegmentsRead
<1> QED BY <1>2 DEF Started, ReadInv, Scanned

(* What the invariants say of the properties.                              *)
LEMMA ReadIsTrue ==
    ASSUME ParserInv, ReadInv
    PROVE  ParserTypeOK /\ ViewsTrue /\ PaddingTrue
<1>1. PICK L \in Nat : L = Len(segments)
  BY AppendAny DEF ParserInv, Position
<1>2. /\ DOMAIN segments = 1 .. L /\ DOMAIN spans = 1 .. L /\ Len(spans) = L
      /\ Len(input) \in Nat /\ input \in Seq(STRING)
  BY <1>1, AppendAny, LenProperties DEF ParserInv, Position
<1>3. \A i \in 1 .. L : /\ segments[i] \in SegmentType
                        /\ spans[i] \in [from : 0 .. Len(input), to : 0 .. Len(input)]
                        /\ SegmentRead(segments[i], spans[i])
  BY <1>1 DEF ReadInv, SegmentsRead
<1>4. ParserTypeOK
  <2>1. segments \in Seq(SegmentType)
    BY <1>1, <1>2, <1>3, LenProperties, SeqDef DEF ParserInv, Position
  <2>2. spans \in Seq([from : 0 .. Len(input), to : 0 .. Len(input)])
    <3> DEFINE Span == [from : 0 .. Len(input), to : 0 .. Len(input)]
    <3>1. \A i \in 1 .. L : spans[i] \in Span
      BY <1>3
    <3> HIDE DEF Span
    <3>2. spans \in [1 .. L -> Span]
      BY <1>2, <3>1, LenProperties DEF ParserInv, Position
    <3>3. spans \in Seq(Span)
      BY <3>2, SeqDef
    <3> QED BY <3>3 DEF Span
  <2>3. WithinCapacity /\ Position
    BY DEF ParserInv
  <2> QED BY <1>1, <1>2, <2>1, <2>2, <2>3
          DEF ParserTypeOK, ReadInv, WithinCapacity, Position, SegmentType
<1>5. ASSUME NEW i \in 1 .. L
      PROVE  /\ spans[i].to < 2^ShortBits =>
                   IF segments[i].kind = "Literal"
                   THEN Substr(input, segments[i].text[1], segments[i].text[2])
                            = LiteralOf(spans[i])
                   ELSE HasSpecification(segments[i].directive) =>
                            SpecOf(segments[i].directive, spans[i])
             /\ PaddingOf(segments[i].directive, spans[i])
  <2>1. PICK segment, span : segment = segments[i] /\ span = spans[i]
    OBVIOUS
  <2>2. /\ span.from \in Nat /\ span.to \in Nat /\ span.to <= Len(input)
        /\ SegmentRead(segment, span)
    BY <1>2, <1>3, <2>1
  <2>3. CASE segment.kind = "Literal"
    <3>1. PaddingOf(NoDirective, span)
      BY NothingSpecified DEF PaddingOf
    <3> QED BY <2>1, <2>2, <2>3, <3>1, Zenon DEF SegmentRead
  <2>4. CASE segment.kind # "Literal"
    <3>1. PICK directive : directive = segment.directive
      OBVIOUS
    <3>2. Blocked(directive, span.from, span.to)
      BY <2>2, <2>4, <3>1 DEF SegmentRead
    <3>3. PaddingOf(directive, span)
      BY <1>2, <2>2, <3>2, PaddingsAreTrue
    <3>4. span.to < 2^ShortBits /\ HasSpecification(directive) => SpecOf(directive, span)
      BY <1>2, <2>2, <3>2, SpecsAreTrue
    <3> QED BY <2>1, <2>4, <3>1, <3>3, <3>4
  <2> QED BY <2>3, <2>4
<1>6. ViewsTrue
  BY <1>2, <1>5, Zenon DEF ViewsTrue
<1>7. PaddingTrue
  BY <1>2, <1>5, Zenon DEF PaddingTrue, PaddingOf
<1> QED BY <1>4, <1>6, <1>7

-----------------------------------------------------------------------------
(* The theorems, for a call of Parse with any pattern and configuration.   *)

(* Everything the parser has added, and where it is, at every turn.        *)
THEOREM ParserInvariance == ParserSpec => []ParserInv
<1>1. ParserInit => Started
  BY PatternsAssumption DEF ParserInit, ParserStart, Started
<1> QED BY <1>1, StartedIsGood, StepPreserves, PTL DEF ParserSpec

(* The segments are made of the whole pattern, part after part.            *)
THEOREM PatternsAreCovered == ParserSpec => []Cover
<1>1. ParserInv => Cover
  BY DEF ParserInv
<1> QED BY <1>1, ParserInvariance, PTL

(* The styles of a pattern that is accepted are closed in it.              *)
THEOREM StylesAreNested == ParserSpec => []Nested
<1>1. ParserInv => Nested
  BY DEF ParserInv
<1> QED BY <1>1, ParserInvariance, PTL

(* No segment is written beyond the end of the array.                      *)
THEOREM CapacityIsKept == ParserSpec => []WithinCapacity
<1>1. ParserInv => WithinCapacity
  BY DEF ParserInv
<1> QED BY <1>1, ParserInvariance, PTL

(* What is read, and from where, at every turn.                            *)
THEOREM ReadInvariance == ParserSpec => [](ParserInv /\ ReadInv)
<1>1. ParserInit => Started /\ config.allowed \subseteq SegmentKind /\ config.relaxed \in BOOLEAN
  BY PatternsAssumption, ConfigsAssumption DEF ParserInit, ParserStart, Started
<1>2. ParserInit => ReadInv
  BY <1>1, StartedReads
<1> QED BY <1>2, ParserInvariance, StepReads, PTL DEF ParserSpec

(* Every variable of the parser keeps its type; what is cut to 16 bits is. *)
THEOREM ParserTypeCorrect == ParserSpec => []ParserTypeOK
<1>1. ParserInv /\ ReadInv => ParserTypeOK
  BY ReadIsTrue
<1> QED BY <1>1, ReadInvariance, PTL

(* What a segment views is the part of the pattern it was made of: the     *)
(* text of a literal, the spec of a block, as far as 16 bits count.        *)
THEOREM ViewsAreTrue == ParserSpec => []ViewsTrue
<1>1. ParserInv /\ ReadInv => ViewsTrue
  BY ReadIsTrue
<1> QED BY <1>1, ReadInvariance, PTL

(* The width of a padding is the number its block ends with, and its       *)
(* alignment the character before it.                                      *)
THEOREM PaddingIsTrue == ParserSpec => []PaddingTrue
<1>1. ParserInv /\ ReadInv => PaddingTrue
  BY ReadIsTrue
<1> QED BY <1>1, ReadInvariance, PTL
=============================================================================
