------------------------ MODULE PatternFormatterProofs ------------------------
(***************************************************************************)
(* Proofs about the pattern formatter as Rendering uses it, for any        *)
(* patterns, markers, records and bounds: what holds of one call of the    *)
(* parser holds of the three of Pattern::Parse, and Format never ends the  *)
(* program and never enters a marker from a marker.                        *)
(***************************************************************************)
EXTENDS Rendering, PatternParserProofs

Parts == {"main", "prefix", "suffix"}
Frames == [pattern : Parts, next : Nat \ {0}]

\* Every colour that is specified in a parsed pattern is one.
Validated(pattern) ==
    \A i \in DOMAIN pattern.segments :
        LET directive == pattern.segments[i].directive
        IN  pattern.segments[i].kind \in ColorStarts /\ HasSpecification(directive) =>
                parseColorSpec(Specification(directive, pattern.text)) # {}

\* What Pattern::Parse keeps, and how it goes on.
Kept ==
    /\ request \in Requests
    /\ stage \in {"prefix", "suffix"} => config = markerParseConfig
    /\ DOMAIN parsed = Parts
    /\ \A p \in Parts : /\ parsed[p].segments \in Seq(ToSet(parsed[p].segments))
                        /\ Validated(parsed[p])
    /\ \A p \in Parts \ {"main"} : "AllAttributes" \notin Kinds(parsed[p])

\* The activations: that of the pattern and, above it, that of a marker.
Flat(fs) ==
    /\ fs \in Seq(Frames)
    /\ Len(fs) <= 2
    /\ \A i \in DOMAIN fs : fs[i].pattern = "main" <=> i = 1

Walking == Flat(frames) /\ (stage = "formatting" => frames # <<>>)

FormatterInv == ParserInv /\ Kept /\ Walking /\ NeverAborts

-----------------------------------------------------------------------------
(* The activations                                                         *)

(* The activation that runs is the last of one or two.                     *)
LEMMA FlatLast ==
    ASSUME NEW fs, Flat(fs), fs # <<>>
    PROVE  /\ Len(fs) \in 1 .. 2
           /\ DOMAIN fs = 1 .. Len(fs)
           /\ Last(fs) = fs[Len(fs)]
           /\ Last(fs) \in Frames
           /\ Last(fs).pattern = "main" <=> Len(fs) = 1
<1>1. Len(fs) \in Nat /\ Len(fs) # 0 /\ DOMAIN fs = 1 .. Len(fs)
  BY EmptySeq, LenProperties DEF Flat
<1>2. Len(fs) \in 1 .. 2
  BY <1>1 DEF Flat
<1>3. fs[Len(fs)] \in Frames
  BY <1>1, <1>2, ElementOfSeq DEF Flat
<1> QED BY <1>1, <1>2, <1>3 DEF Flat, Last

(* Going on to the next segment enters and leaves no activation.           *)
LEMMA FlatAdvanced ==
    ASSUME NEW fs, Flat(fs), fs # <<>>,
           NEW new, new = [fs EXCEPT ![Len(fs)].next = @ + 1]
    PROVE  Flat(new) /\ new # <<>> /\ Len(new) = Len(fs)
<1> DEFINE n == Len(fs)
           frame == [fs[n] EXCEPT !.next = @ + 1]
<1>1. n \in 1 .. 2 /\ DOMAIN fs = 1 .. n /\ fs[n] \in Frames
  BY FlatLast
<1>2. frame \in Frames /\ frame.pattern = fs[n].pattern
  BY <1>1 DEF Frames
<1>3. new = [fs EXCEPT ![n] = frame]
  OBVIOUS
<1> HIDE DEF frame, n
<1>4. /\ new \in Seq(Frames) /\ Len(new) = n
      /\ \A i \in 1 .. n : new[i] = IF i = n THEN frame ELSE fs[i]
  BY <1>1, <1>2, <1>3, ExceptSeq DEF Flat, n
<1>5. DOMAIN new = 1 .. n /\ new # <<>>
  BY <1>1, <1>4, LenProperties, EmptySeq
<1> QED BY <1>1, <1>2, <1>4, <1>5 DEF Flat, n

(* A marker is entered from the pattern only.                              *)
LEMMA FlatEntered ==
    ASSUME NEW fs, Flat(fs), Len(fs) = 1, NEW p \in {"prefix", "suffix"}
    PROVE  Flat(Append(fs, Activation(p))) /\ Append(fs, Activation(p)) # <<>>
<1> DEFINE new == Append(fs, Activation(p))
<1>1. Activation(p) \in Frames /\ Activation(p).pattern = p
  BY DEF Activation, Frames, Parts
<1>2. /\ new \in Seq(Frames) /\ Len(new) = 2 /\ new # <<>>
      /\ new[1] = fs[1] /\ new[2] = Activation(p)
  <2> DEFINE e == Activation(p)
  <2>1. fs \in Seq(Frames) /\ e \in Frames
    BY <1>1 DEF Flat
  <2> HIDE DEF e
  <2>2. Append(fs, e) \in Seq(Frames) /\ Append(fs, e) # <<>>
    BY <2>1, AppendProperties
  <2>3. Len(Append(fs, e)) = Len(fs) + 1
    BY <2>1, AppendProperties, Zenon
  <2>4. \A i \in 1 .. Len(fs) : Append(fs, e)[i] = fs[i]
    BY <2>1, AppendProperties, ZenonT(40)
  <2>5. Append(fs, e)[Len(fs) + 1] = e
    BY <2>1, AppendProperties, Zenon
  <2>6. Append(fs, e)[1] = fs[1] /\ Append(fs, e)[1 + 1] = e /\ Len(Append(fs, e)) = 1 + 1
    BY <2>3, <2>4, <2>5
  <2> QED BY <2>2, <2>6 DEF e
<1>3. DOMAIN fs = 1 .. 1 /\ DOMAIN new = 1 .. 2
  BY <1>2, LenProperties DEF Flat
<1>4. fs[1].pattern = "main"
  BY <1>3 DEF Flat
<1> HIDE DEF new
<1>5. \A i \in DOMAIN new : new[i].pattern = "main" <=> i = 1
  BY <1>1, <1>2, <1>3, <1>4
<1>6. Flat(new) /\ new # <<>>
  BY <1>2, <1>5 DEF Flat
<1> QED BY <1>6 DEF new

(* When a marker is left, the pattern's activation goes on.                *)
LEMMA FlatLeft ==
    ASSUME NEW fs, Flat(fs), Len(fs) = 2
    PROVE  Flat(Front(fs)) /\ Front(fs) # <<>> /\ Len(Front(fs)) = 1
<1>1. Front(fs) = SubSeq(fs, 1, 1)
  BY DEF Front
<1>2. /\ SubSeq(fs, 1, 1) \in Seq(Frames) /\ Len(SubSeq(fs, 1, 1)) = 1
      /\ SubSeq(fs, 1, 1)[1] = fs[1]
  BY SubSeqProperties, SMTT(40) DEF Flat
<1>3. DOMAIN fs = 1 .. 2 /\ DOMAIN SubSeq(fs, 1, 1) = 1 .. 1
  BY <1>2, LenProperties DEF Flat
<1>4. fs[1].pattern = "main"
  BY <1>3 DEF Flat
<1>5. SubSeq(fs, 1, 1) # <<>>
  BY <1>2, EmptySeq
<1> QED BY <1>1, <1>2, <1>3, <1>4, <1>5 DEF Flat

-----------------------------------------------------------------------------
(* The steps                                                               *)

(* A step that neither parses nor walks, or the end of the pattern.        *)
LEMMA IdlePreserves ==
    ASSUME FormatterInv, UNCHANGED <<parserVars, request, parsed, frames>>,
           stage' = stage \/ stage' \in {"formatted", "failed"}
    PROVE  FormatterInv'
<1>1. ParserInv'
  BY StepPreserves DEF FormatterInv
<1>2. config' = config
  BY DEF parserVars
<1>3. Kept'
  BY <1>2 DEF FormatterInv, Kept, Validated, Kinds
<1>4. Walking' /\ NeverAborts'
  BY DEF FormatterInv, Walking, NeverAborts, Flat
<1> QED BY <1>1, <1>3, <1>4 DEF FormatterInv

(* The parser reads on in the pattern of its stage.                        *)
LEMMA ParsePreserves ==
    ASSUME FormatterInv, ParseStep
    PROVE  FormatterInv'
<1>1. ParserNext /\ UNCHANGED <<request, stage, parsed, frames>>
  BY DEF ParseStep, formatterVars
<1>2. ParserInv'
  BY <1>1, StepPreserves DEF FormatterInv
<1>3. config' = config
  BY <1>1 DEF ParserNext, ScanLiteral, flushLiteral, Percent, Directive, RejectDirective,
              Finish, Reject, PushLiteral, Push
<1>4. Kept'
  BY <1>1, <1>3 DEF FormatterInv, Kept, Validated, Kinds
<1>5. Walking' /\ NeverAborts'
  BY <1>1 DEF FormatterInv, Walking, NeverAborts, Flat
<1> QED BY <1>2, <1>4, <1>5 DEF FormatterInv

(* A pattern whose colours are good is kept, and the next one is parsed.   *)
LEMMA ParsePatternPreserves ==
    ASSUME FormatterInv, NEW pattern \in Seq(STRING), NEW cfg, NEW next,
           stage \in Parts, ParsePattern(pattern, cfg, next),
           next \in {"prefix", "suffix"} => cfg = markerParseConfig,
           next \in {"prefix", "suffix", "ready"}
    PROVE  FormatterInv'
<1> DEFINE new == [text |-> input, segments |-> segments]
<1>1. /\ validateColorSpecs /\ parsed' = [parsed EXCEPT ![stage] = new]
      /\ stage' = next /\ request' = request /\ frames' = frames
      /\ ParserRestart(pattern, cfg)
  BY DEF ParsePattern, callVars
<1>2. ParserInv'
  <2>1. Started'
    BY <1>1 DEF ParserRestart, Started
  <2> QED BY <2>1, StartedIsGood, PTL
<1>3. config' = cfg
  BY <1>1 DEF ParserRestart
<1>4. new.text = input /\ new.segments = segments
  OBVIOUS
<1> HIDE DEF new
<1>5. Validated(new) /\ new.segments \in Seq(ToSet(new.segments))
  BY <1>1, <1>4 DEF FormatterInv, ParserInv, Position, validateColorSpecs, Validated
<1>6. stage # "main" => "AllAttributes" \notin Kinds(new)
  <2> SUFFICES ASSUME stage # "main", NEW i \in DOMAIN segments
               PROVE  segments[i].kind # "AllAttributes"
    BY <1>4 DEF Kinds
  <2>1. config = markerParseConfig
    BY DEF FormatterInv, Kept, Parts
  <2>2. segments[i].kind = "Literal" \/ segments[i].kind \in config.allowed
    BY <2>1 DEF FormatterInv, ParserInv, KindsAllowed, markerParseConfig
  <2> QED BY <2>1, <2>2 DEF markerParseConfig, StyleStarts
<1>7. \A p \in Parts : parsed'[p] = IF p = stage THEN new ELSE parsed[p]
  BY <1>1 DEF FormatterInv, Kept
<1>8. DOMAIN parsed' = Parts
  BY <1>1 DEF FormatterInv, Kept
<1>9. Kept'
  <2>1. /\ request' \in Requests
        /\ stage' \in {"prefix", "suffix"} => config' = markerParseConfig
    BY <1>1, <1>3 DEF FormatterInv, Kept, markerParseConfig, StyleStarts
  <2>2. ASSUME NEW p \in Parts
        PROVE  /\ parsed'[p].segments \in Seq(ToSet(parsed'[p].segments))
               /\ Validated(parsed'[p])
               /\ p # "main" => "AllAttributes" \notin Kinds(parsed'[p])
    <3>1. CASE p = stage
      BY <1>5, <1>6, <1>7, <2>2, <3>1
    <3>2. CASE p # stage
      BY <1>7, <2>2, <3>2 DEF FormatterInv, Kept
    <3> QED BY <3>1, <3>2
  <2> QED BY <1>8, <2>1, <2>2 DEF Kept, Validated, Kinds
<1>10. Walking' /\ NeverAborts'
  BY <1>1 DEF FormatterInv, Walking, NeverAborts, Flat
<1> QED BY <1>2, <1>9, <1>10 DEF FormatterInv

(* Pattern::Parse, up to its end or its failure.                           *)
LEMMA SetupPreserves ==
    ASSUME FormatterInv, Setup
    PROVE  FormatterInv'
<1>1. request.prefix \in Seq(STRING) /\ request.suffix \in Seq(STRING)
  BY RequestsAssumption DEF FormatterInv, Kept
<1>2. CASE ParsePrefix
  BY <1>1, <1>2, ParsePatternPreserves DEF ParsePrefix, Parts
<1>3. CASE ParseSuffix
  BY <1>1, <1>3, ParsePatternPreserves DEF ParseSuffix, Parts
<1>4. CASE Construct
  <2>1. <<>> \in Seq(STRING)
    BY EmptySeq
  <2>2. stage \in Parts /\ ParsePattern(<<>>, DefaultConfig, "ready")
    BY <1>4 DEF Construct, Parts
  <2> QED BY <2>1, <2>2, ParsePatternPreserves
<1>5. CASE ParseFails
  BY <1>5, IdlePreserves DEF ParseFails, callVars
<1> QED BY <1>2, <1>3, <1>4, <1>5, ParsePreserves DEF Setup

(* Where the walk is: at a segment of a parsed pattern, which holds no     *)
(* attributes if it is a marker.                                           *)
LEMMA WalkIsInside ==
    ASSUME FormatterInv, stage = "formatting"
    PROVE  /\ frames # <<>> /\ Len(frames) \in 1 .. 2
           /\ Frame.pattern \in Parts
           /\ Frame.pattern = "main" <=> Len(frames) = 1
           /\ AtSegment =>
                 /\ Current.kind \in ColorStarts /\ HasSpecification(Current.directive) =>
                       parseColorSpec(Specification(Current.directive, Walked.text)) # {}
                 /\ Current.kind = "AllAttributes" => Frame.pattern = "main"
<1>1. /\ frames # <<>> /\ Len(frames) \in 1 .. 2
      /\ Frame \in Frames
      /\ Frame.pattern = "main" <=> Len(frames) = 1
  BY FlatLast DEF FormatterInv, Walking, Frame
<1>2. Frame.pattern \in Parts /\ Frame.next \in Nat \ {0}
  BY <1>1 DEF Frames
<1>3. /\ Validated(Walked)
      /\ Walked.segments \in Seq(ToSet(Walked.segments))
      /\ Frame.pattern # "main" => "AllAttributes" \notin Kinds(Walked)
  BY <1>2 DEF FormatterInv, Kept, Walked
<1>4. AtSegment => Frame.next \in DOMAIN Walked.segments
  BY <1>2, <1>3, LenProperties DEF AtSegment
<1>5. AtSegment =>
         /\ Current.kind \in ColorStarts /\ HasSpecification(Current.directive) =>
               parseColorSpec(Specification(Current.directive, Walked.text)) # {}
         /\ Current.kind = "AllAttributes" => Frame.pattern = "main"
  BY <1>3, <1>4 DEF Current, Validated, Kinds
<1> QED BY <1>1, <1>2, <1>5

(* A step of the walk that leaves flat activations behind.                 *)
LEMMA WalkPreserves ==
    ASSUME FormatterInv, UNCHANGED <<parserVars, request, stage, parsed>>,
           Flat(frames'), frames' # <<>>
    PROVE  FormatterInv'
<1>1. ParserInv'
  BY StepPreserves DEF FormatterInv
<1>2. config' = config
  BY DEF parserVars
<1>3. Kept'
  BY <1>2 DEF FormatterInv, Kept, Validated, Kinds
<1>4. Flat(frames)'
  BY DEF Flat
<1>5. Walking' /\ NeverAborts'
  BY <1>4 DEF FormatterInv, Walking, NeverAborts
<1> QED BY <1>1, <1>3, <1>5 DEF FormatterInv

(* Whatever is written for a segment, the walk goes on behind it.          *)
LEMMA EmitPreserves ==
    ASSUME FormatterInv, stage = "formatting", NEW items, Emit(items), UNCHANGED stage
    PROVE  FormatterInv'
<1>1. frames' = [frames EXCEPT ![Len(frames)].next = @ + 1]
  BY DEF Emit, Advanced
<1>2. Flat(frames) /\ frames # <<>>
  BY DEF FormatterInv, Walking
<1>3. Flat(frames') /\ frames' # <<>>
  BY <1>1, <1>2, FlatAdvanced
<1> QED BY <1>3, WalkPreserves DEF Emit

(* A colour that is there is painted and does not end the program.         *)
LEMMA PaintPreserves ==
    ASSUME FormatterInv, stage = "formatting", NEW colours, Paint(colours), colours # {}
    PROVE  FormatterInv'
<1>1. stage' = stage
  BY DEF Paint
<1>2. PICK items : Emit(items)
  BY DEF Paint
<1> QED BY <1>1, <1>2, EmitPreserves

(* One step of Format, for a segment or at the end of a pattern.           *)
LEMMA FormattingPreserves ==
    ASSUME FormatterInv, Walk
    PROVE  FormatterInv'
<1>1. stage = "formatting"
  BY DEF Walk, FormatContent, emitColour, emitLevelColour, emitStyle, emitStyleEnd,
         BeginAttributes, EndPrefix, EndSuffix, EndMain, AtSegment, AtEnd
<1>2. /\ frames # <<>> /\ Len(frames) \in 1 .. 2 /\ Flat(frames)
      /\ Frame.pattern = "main" <=> Len(frames) = 1
  BY <1>1, WalkIsInside DEF FormatterInv, Walking
<1>3. CASE FormatContent
  BY <1>1, <1>3, EmitPreserves DEF FormatContent
<1>4. CASE emitColour
  <2>1. AtSegment /\ Current.kind \in ColorStarts
    BY <1>4 DEF emitColour, ColorStarts
  <2>2. CASE HasSpecification(Current.directive)
    <3>1. PICK colours : colours = parseColorSpec(Specification(Current.directive, Walked.text))
      OBVIOUS
    <3>2. Paint(colours) /\ colours # {}
      BY <1>1, <1>4, <2>1, <2>2, <3>1, WalkIsInside DEF emitColour
    <3> QED BY <1>1, <3>2, PaintPreserves
  <2>3. CASE ~HasSpecification(Current.directive)
    BY <1>1, <1>4, <2>3, EmitPreserves DEF emitColour
  <2> QED BY <2>2, <2>3
<1>5. CASE emitLevelColour
  <2>1. AtSegment /\ Current.kind \in ColorStarts
    BY <1>5 DEF emitLevelColour, ColorStarts
  <2>2. PICK colours :
           /\ colours = IF HasSpecification(Current.directive)
                        THEN parseColorSpec(Specification(Current.directive, Walked.text))
                        ELSE {getLevelColor(record.level, Palette)}
           /\ Paint(colours)
    BY <1>5 DEF emitLevelColour
  <2>3. colours # {}
    BY <1>1, <2>1, <2>2, WalkIsInside
  <2> QED BY <1>1, <2>2, <2>3, PaintPreserves
<1>6. CASE emitStyle
  BY <1>1, <1>6, EmitPreserves DEF emitStyle
<1>7. CASE emitStyleEnd
  BY <1>1, <1>7, EmitPreserves DEF emitStyleEnd
<1>8. CASE BeginAttributes
  <2>1. Len(frames) = 1
    BY <1>1, <1>2, <1>8, WalkIsInside DEF BeginAttributes
  <2>2. PICK fs : fs = Advanced
    OBVIOUS
  <2>3. Flat(fs) /\ fs # <<>> /\ Len(fs) = 1
    BY <1>2, <2>1, <2>2, FlatAdvanced DEF Advanced
  <2>4. frames' = fs \/ frames' = Append(fs, Activation("prefix"))
    BY <1>8, <2>2 DEF BeginAttributes
  <2>5. Flat(frames') /\ frames' # <<>>
    BY <2>3, <2>4, FlatEntered
  <2> QED BY <1>8, <2>5, WalkPreserves DEF BeginAttributes
<1>9. CASE EndPrefix
  <2>1. Len(frames) = 2
    BY <1>2, <1>9 DEF EndPrefix, AtEnd
  <2>2. PICK fs : fs = Front(frames)
    OBVIOUS
  <2>3. Flat(fs) /\ Len(fs) = 1
    BY <1>2, <2>1, <2>2, FlatLeft
  <2>4. frames' = Append(fs, Activation("suffix"))
    BY <1>9, <2>2 DEF EndPrefix
  <2>5. Flat(frames') /\ frames' # <<>>
    BY <2>3, <2>4, FlatEntered
  <2> QED BY <1>9, <2>5, WalkPreserves DEF EndPrefix
<1>10. CASE EndSuffix
  <2>1. Len(frames) = 2
    <3>1. Frame.pattern = "suffix"
      BY <1>10 DEF EndSuffix, AtEnd
    <3> QED BY <1>2, <3>1
  <2>2. PICK fs : fs = Front(frames)
    OBVIOUS
  <2>3. Flat(fs) /\ fs # <<>> /\ Len(fs) = 1
    BY <1>2, <2>1, <2>2, FlatLeft
  <2>4. frames' = fs \/ frames' = Append(fs, Activation("prefix"))
    BY <1>10, <2>2 DEF EndSuffix
  <2>5. Flat(frames') /\ frames' # <<>>
    BY <2>3, <2>4, FlatEntered
  <2> QED BY <1>10, <2>5, WalkPreserves DEF EndSuffix
<1>11. CASE EndMain
  BY <1>11, IdlePreserves DEF EndMain, callVars
<1> QED BY <1>3, <1>4, <1>5, <1>6, <1>7, <1>8, <1>9, <1>10, <1>11 DEF Walk

-----------------------------------------------------------------------------
(* What is read                                                            *)

\* A pattern that was parsed, whatever its segments say.
Typed(pattern) ==
    /\ pattern.text \in Seq(STRING)
    /\ pattern.segments \in Seq(SegmentType)
    /\ Len(pattern.segments) <= MaxSegments
    /\ \A i \in DOMAIN pattern.segments :
          /\ pattern.segments[i].kind \in Specified =>
                 HasSpecification(pattern.segments[i].directive)
          /\ Measured(pattern.segments[i].directive)

\* The parser reads what each pattern says, and what it read is kept; styles
\* are closed in the pattern, if not in its markers.
KeptRead ==
    /\ ReadInv
    /\ stage = "main" => config = DefaultConfig
    /\ \A p \in Parts : Typed(parsed[p])
    /\ stage \notin {"main", "failed"} => Closes(parsed.main)

(* The last style directive of a pattern that is accepted is an end.       *)
LEMMA StylesBalanced ==
    ASSUME ParserInv, outcome = "parsed", ~config.relaxed,
           NEW pattern, pattern.segments = segments
    PROVE  Closes(pattern)
<1> DEFINE escapes == Escapes(pattern)
           m == Max(escapes)
           OpenAt(n) == {i \in 1 .. n : isStyleStart(segments[i].kind)}
           CloseAt(n) == {i \in 1 .. n : segments[i].kind = "StyleEnd"}
<1>1. PICK L \in Nat : L = Len(segments) /\ DOMAIN segments = 1 .. L
  BY AppendAny DEF ParserInv, Position
<1> SUFFICES ASSUME escapes # {} PROVE segments[m].kind = "StyleEnd"
  BY DEF Closes
<1>2. escapes = {i \in 1 .. L : segments[i].kind \in StyleStarts \cup {"StyleEnd"}}
  BY <1>1 DEF Escapes
<1>3. m \in escapes /\ \A i \in escapes : i <= m
  <2>1. escapes \subseteq 0 .. L
    BY <1>2
  <2> HIDE DEF escapes
  <2> QED BY <1>1, <2>1, MaxIsMax
<1> HIDE DEF m, escapes
<1>4. m \in 1 .. L /\ m - 1 \in Nat /\ (m - 1) + 1 = m
  BY <1>2, <1>3
<1> SUFFICES ASSUME isStyleStart(segments[m].kind) PROVE FALSE
  BY <1>2, <1>3 DEF isStyleStart
<1>5. segments[m].kind # "StyleEnd"
  BY DEF isStyleStart, StyleStarts
<1>6. OpenAt(L) = OpenAt(m - 1) \cup {m} /\ CloseAt(L) = CloseAt(m - 1)
  <2>1. ASSUME NEW i \in 1 .. L, isStyleStart(segments[i].kind) \/ segments[i].kind = "StyleEnd"
        PROVE  i = m \/ i \in 1 .. m - 1
    <3>1. i \in escapes
      BY <1>2, <2>1 DEF isStyleStart
    <3> QED BY <1>3, <1>4, <3>1
  <2>2. \A i \in 1 .. m - 1 : i \in 1 .. L
    BY <1>4
  <2> QED BY <1>4, <1>5, <2>1, <2>2
<1>7. /\ Cardinality(OpenAt(m - 1)) \in Nat /\ Cardinality(CloseAt(m - 1)) \in Nat
      /\ Cardinality(OpenAt(m - 1) \cup {m}) = Cardinality(OpenAt(m - 1)) + 1
  <2>1. OpenAt(m - 1) \in SUBSET (1 .. m - 1) /\ CloseAt(m - 1) \in SUBSET (1 .. m - 1)
    OBVIOUS
  <2> HIDE DEF OpenAt, CloseAt
  <2>2. /\ Cardinality(OpenAt(m - 1)) \in Nat
        /\ Cardinality(OpenAt(m - 1) \cup {(m - 1) + 1}) = Cardinality(OpenAt(m - 1)) + 1
    BY <1>4, <2>1, CountOneMore
  <2>3. Cardinality(CloseAt(m - 1)) \in Nat
    BY <1>4, <2>1, CountOneMore
  <2> QED BY <1>4, <2>2, <2>3
<1>8. \A n : Opened(n) = Cardinality(OpenAt(n)) /\ Closed(n) = Cardinality(CloseAt(n))
  BY DEF Opened, Closed
<1>9. Closed(m - 1) <= Opened(m - 1)
  <2>1. CASE m - 1 \in 1 .. L
    BY <1>1, <2>1 DEF ParserInv, Nested
  <2>2. CASE m - 1 = 0
    <3>1. CloseAt(0) = {}
      OBVIOUS
    <3>2. Cardinality(CloseAt(m - 1)) = 0
      BY <2>2, <3>1, FS_EmptySet
    <3> HIDE DEF OpenAt, CloseAt
    <3> QED BY <1>7, <1>8, <3>2
  <2> QED BY <1>4, <2>1, <2>2
<1>10. Opened(L) = Closed(L)
  BY <1>1 DEF ParserInv, Nested
<1> HIDE DEF OpenAt, CloseAt
<1>11. Opened(L) = Cardinality(OpenAt(m - 1)) + 1 /\ Closed(L) = Cardinality(CloseAt(m - 1))
  BY <1>6, <1>7, <1>8
<1>12. Cardinality(CloseAt(m - 1)) <= Cardinality(OpenAt(m - 1))
  BY <1>8, <1>9
<1>13. PICK a \in Nat, b \in Nat :
          a = Cardinality(OpenAt(m - 1)) /\ b = Cardinality(CloseAt(m - 1))
  BY <1>7
<1>14. b <= a /\ b = a + 1
  BY <1>10, <1>11, <1>12, <1>13
<1> QED BY ONLY <1>14, a \in Nat, b \in Nat

(* Steps that neither parse nor keep a pattern.                            *)
LEMMA UnparsedKept ==
    ASSUME FormatterInv, KeptRead, UNCHANGED <<parserVars, parsed>>,
           stage' \in {"main", "failed"} \/ stage \notin {"main", "failed"},
           stage' = "main" => stage = "main"
    PROVE  KeptRead'
<1>1. ReadInv'
  BY StepReads DEF FormatterInv, KeptRead
<1>2. config' = config
  BY DEF parserVars
<1>3. Closes(parsed.main)' = Closes(parsed.main) /\ \A p \in Parts : Typed(parsed[p])' = Typed(parsed[p])
  BY DEF Closes, Escapes, Typed
<1> QED BY <1>1, <1>2, <1>3 DEF KeptRead

(* The pattern of a stage is kept, and the next one is begun.              *)
LEMMA ParsePatternReads ==
    ASSUME FormatterInv, KeptRead, NEW pattern \in Seq(STRING), NEW cfg, NEW next,
           stage \in Parts, ParsePattern(pattern, cfg, next),
           cfg \in {DefaultConfig, markerParseConfig}, next \in {"prefix", "suffix", "ready"}
    PROVE  KeptRead'
<1> DEFINE new == [text |-> input, segments |-> segments]
<1>1. /\ outcome = "parsed" /\ parsed' = [parsed EXCEPT ![stage] = new]
      /\ stage' = next /\ ParserRestart(pattern, cfg)
  BY DEF ParsePattern
<1>2. ReadInv'
  <2>1. Started' /\ config' = cfg
    BY <1>1 DEF ParserRestart, Started
  <2>2. /\ DefaultConfig.allowed \subseteq SegmentKind /\ DefaultConfig.relaxed \in BOOLEAN
        /\ markerParseConfig.allowed \subseteq SegmentKind
        /\ markerParseConfig.relaxed \in BOOLEAN
    BY DEF DefaultConfig, markerParseConfig, SegmentKind
  <2>3. (config.allowed \subseteq SegmentKind /\ config.relaxed \in BOOLEAN)'
    BY <2>1, <2>2
  <2> QED BY <2>1, <2>3, StartedReads, PTL
<1>3. new.text = input /\ new.segments = segments
  OBVIOUS
<1> HIDE DEF new
<1>4. Typed(new)
  <2>1. ParserTypeOK
    BY ReadIsTrue DEF FormatterInv, KeptRead
  <2>2. \A i \in DOMAIN segments :
           /\ segments[i].kind \in Specified => HasSpecification(segments[i].directive)
           /\ Measured(segments[i].directive)
    <3>1. DOMAIN segments = 1 .. Len(segments)
      BY AppendAny DEF FormatterInv, ParserInv, Position
    <3>2. \A i \in DOMAIN segments : SegmentRead(segments[i], spans[i])
      BY <3>1 DEF KeptRead, ReadInv, SegmentsRead
    <3>3. \A i \in DOMAIN segments : Measured(segments[i].directive)
      BY <3>2, ReadMeasured
    <3> QED BY <3>2, <3>3 DEF SegmentRead, Specified
  <2> QED BY <1>3, <2>1, <2>2 DEF Typed, ParserTypeOK, SegmentType
<1>5. \A p \in Parts : parsed'[p] = IF p = stage THEN new ELSE parsed[p]
  BY <1>1 DEF FormatterInv, Kept
<1>6. \A p \in Parts : Typed(parsed[p])'
  <2> SUFFICES ASSUME NEW p \in Parts PROVE Typed(parsed[p])'
    OBVIOUS
  <2>1. Typed(parsed'[p])
    BY <1>4, <1>5 DEF KeptRead
  <2> QED BY <2>1 DEF Typed
<1>7. Closes(parsed.main)'
  <2>1. CASE stage = "main"
    <3>1. ~config.relaxed
      BY <2>1 DEF KeptRead, DefaultConfig
    <3>2. Closes(new)
      BY <1>1, <1>3, <3>1, StylesBalanced DEF FormatterInv
    <3>3. parsed'.main = new
      BY <1>5, <2>1 DEF Parts
    <3> QED BY <3>2, <3>3 DEF Closes, Escapes
  <2>2. CASE stage # "main"
    <3>1. parsed'.main = parsed.main
      BY <1>5, <2>2 DEF Parts
    <3> QED BY <2>2, <3>1 DEF KeptRead, Closes, Escapes, Parts
  <2> QED BY <2>1, <2>2
<1> QED BY <1>1, <1>2, <1>6, <1>7 DEF KeptRead

(* Every step of the program reads what the patterns say.                  *)
LEMMA NextReads == FormatterInv /\ KeptRead /\ [Next]_vars => KeptRead'
<1> SUFFICES ASSUME FormatterInv, KeptRead, [Next]_vars PROVE KeptRead'
  OBVIOUS
<1>1. request.prefix \in Seq(STRING) /\ request.suffix \in Seq(STRING) /\ <<>> \in Seq(STRING)
  BY RequestsAssumption, EmptySeq DEF FormatterInv, Kept
<1>2. CASE ParseStep
  <2>1. ParserNext /\ UNCHANGED <<stage, parsed>>
    BY <1>2 DEF ParseStep, formatterVars
  <2>2. ReadInv'
    BY <2>1, StepReads DEF FormatterInv, KeptRead
  <2>3. config' = config
    BY <2>1 DEF ParserNext, ScanLiteral, flushLiteral, Percent, Directive, RejectDirective,
                Finish, Reject, PushLiteral, Push
  <2> QED BY <2>1, <2>2, <2>3 DEF KeptRead, Closes, Escapes, Typed
<1>3. CASE ParsePrefix
  BY <1>1, <1>3, ParsePatternReads DEF ParsePrefix, Parts
<1>4. CASE ParseSuffix
  BY <1>1, <1>4, ParsePatternReads DEF ParseSuffix, Parts
<1>5. CASE Construct
  <2>1. stage \in Parts /\ ParsePattern(<<>>, DefaultConfig, "ready")
    BY <1>5 DEF Construct, Parts
  <2> QED BY <1>1, <2>1, ParsePatternReads
<1>6. CASE ParseFails
  BY <1>6, UnparsedKept DEF ParseFails
<1>7. CASE Walk
  <2>1. stage = "formatting" /\ stage' \in {"formatting", "formatted", "aborted"}
        /\ UNCHANGED <<parserVars, parsed>>
    BY <1>7 DEF Walk, FormatContent, emitColour, emitLevelColour, Paint, emitStyle,
           emitStyleEnd, BeginAttributes, EndPrefix, EndSuffix, EndMain, AtSegment, AtEnd, Emit
  <2> QED BY <2>1, UnparsedKept
<1>8. CASE SetColourChoice \/ With \/ FormatRecord
  BY <1>8, UnparsedKept DEF SetColourChoice, With, FormatRecord, Format
<1>9. CASE ToJson \/ (\E asserts \in BOOLEAN : Export(asserts)) \/ UNCHANGED vars
  <2>1. UNCHANGED <<parserVars, parsed, stage>>
    BY <1>9 DEF ToJson, Export, vars, formatterVars
  <2> QED BY <2>1, UnparsedKept
<1> QED BY <1>2, <1>3, <1>4, <1>5, <1>6, <1>7, <1>8, <1>9 DEF Next, Setup, Ended

-----------------------------------------------------------------------------
(* The theorems                                                            *)

(* The invariant holds before a formatter is parsed.                       *)
LEMMA FormatterStarts == Init => FormatterInv
<1> SUFFICES ASSUME Init PROVE FormatterInv
  OBVIOUS
<1>1. /\ request \in Requests /\ ParserStart(request.pattern, DefaultConfig)
      /\ stage = "main" /\ parsed = [p \in Parts |-> Unparsed] /\ frames = <<>>
  BY DEF Init, FormatterInit, Parts
<1>2. ParserInv
  <2>1. Started
    BY <1>1, RequestsAssumption DEF ParserStart, Started
  <2> QED BY <2>1, StartedIsGood
<1>3. /\ Unparsed.segments = <<>> /\ DOMAIN Unparsed.segments = {}
      /\ Unparsed.segments \in Seq(ToSet(Unparsed.segments))
  BY EmptySeq DEF Unparsed
<1>4. Validated(Unparsed) /\ Kinds(Unparsed) = {}
  BY <1>3 DEF Validated, Kinds
<1>5. Kept
  BY <1>1, <1>3, <1>4 DEF Kept
<1>6. Walking
  BY <1>1, EmptySeq DEF Walking, Flat
<1> QED BY <1>1, <1>2, <1>5, <1>6 DEF FormatterInv, NeverAborts

(* Every step keeps it: of Parse, of Format, of the record and its sinks.  *)
LEMMA NextPreserves == FormatterInv /\ [Next]_vars => FormatterInv'
<1> SUFFICES ASSUME FormatterInv, [Next]_vars PROVE FormatterInv'
  OBVIOUS
<1>1. CASE SetColourChoice
  BY <1>1, IdlePreserves DEF SetColourChoice
<1>2. CASE With
  BY <1>2, IdlePreserves DEF With
<1>3. CASE FormatRecord
  <2>1. /\ frames' = <<Activation("main")>> /\ stage' = "formatting"
        /\ UNCHANGED <<parserVars, request, parsed>>
    BY <1>3 DEF FormatRecord, Format
  <2>2. Flat(frames') /\ frames' # <<>>
    <3> DEFINE frame == Activation("main")
    <3>1. frame \in Frames /\ frame.pattern = "main"
      BY DEF Activation, Frames, Parts
    <3> HIDE DEF frame
    <3>2. Flat(<<frame>>) /\ <<frame>> # <<>>
      <4>1. <<frame>> \in Seq(Frames) /\ Len(<<frame>>) = 1 /\ DOMAIN <<frame>> = {1}
        BY <3>1
      <4> QED BY <3>1, <4>1 DEF Flat
    <3> QED BY <2>1, <3>2 DEF frame
  <2>3. ParserInv'
    BY <2>1, StepPreserves DEF FormatterInv
  <2>4. Kept'
    BY <2>1 DEF FormatterInv, Kept, Validated, Kinds, parserVars
  <2>5. Walking' /\ NeverAborts'
    BY <2>1, <2>2 DEF Walking, NeverAborts, Flat
  <2> QED BY <2>3, <2>4, <2>5 DEF FormatterInv
<1>4. CASE ToJson \/ (\E asserts \in BOOLEAN : Export(asserts)) \/ UNCHANGED vars
  BY <1>4, IdlePreserves DEF ToJson, Export, vars, formatterVars
<1> QED BY <1>1, <1>2, <1>3, <1>4, SetupPreserves, FormattingPreserves DEF Next, Ended

(* The invariant of parser and formatter, at every step of the program.    *)
THEOREM FormatterInvariance == Spec => []FormatterInv
BY FormatterStarts, NextPreserves, PTL DEF Spec

(* validateColorSpecs: no colour that Format unwraps is missing.           *)
THEOREM FormattingNeverAborts == Spec => []NeverAborts
<1>1. FormatterInv => NeverAborts
  BY DEF FormatterInv
<1> QED BY <1>1, FormatterInvariance, PTL

(* markerParseConfig: a marker is never entered from a marker.             *)
THEOREM MarkersAreNeverNested == Spec => []MarkersAreFlat
<1>1. FormatterInv => MarkersAreFlat
  BY DEF FormatterInv, Walking, Flat, MarkersAreFlat
<1> QED BY <1>1, FormatterInvariance, PTL

(* Parse: the pattern and both markers are cut up without a gap.           *)
THEOREM AllPatternsAreCovered == Spec => []Cover
<1>1. FormatterInv => Cover
  BY DEF FormatterInv, ParserInv
<1> QED BY <1>1, FormatterInvariance, PTL

(* Segment::Depth: the styles of the pattern are balanced.                 *)
THEOREM AllStylesAreNested == Spec => []Nested
<1>1. FormatterInv => Nested
  BY DEF FormatterInv, ParserInv
<1> QED BY <1>1, FormatterInvariance, PTL

(* Nothing is read wrong before there is anything to read.                 *)
LEMMA ReadingStarts == Init => KeptRead
<1> SUFFICES ASSUME Init PROVE KeptRead
  OBVIOUS
<1>1. /\ request \in Requests /\ ParserStart(request.pattern, DefaultConfig)
      /\ stage = "main" /\ parsed = [p \in Parts |-> Unparsed]
  BY DEF Init, FormatterInit, Parts
<1>2. Started /\ config = DefaultConfig
  BY <1>1, RequestsAssumption DEF ParserStart, Started
<1>3. DefaultConfig.allowed \subseteq SegmentKind /\ DefaultConfig.relaxed \in BOOLEAN
  BY DEF DefaultConfig, SegmentKind
<1>4. ReadInv
  BY <1>2, <1>3, StartedReads
<1>5. Typed(Unparsed)
  <2>1. /\ Unparsed.segments = <<>> /\ DOMAIN Unparsed.segments = {}
        /\ Len(Unparsed.segments) = 0 /\ Unparsed.text = <<>>
    BY EmptySeq DEF Unparsed
  <2> QED BY <2>1, EmptySeq, MaxSegmentsAssumption DEF Typed
<1> QED BY <1>1, <1>2, <1>4, <1>5 DEF KeptRead

(* The invariant of what is read, at every step of the program.            *)
THEOREM ReadingInvariance == Spec => [](FormatterInv /\ KeptRead)
BY FormatterInvariance, ReadingStarts, NextReads, PTL DEF Spec

(* Segment::Text and Directive: in the pattern and both markers, what a    *)
(* segment views is the part it was made of.                               *)
THEOREM AllViewsAreTrue == Spec => []ViewsTrue
<1>1. FormatterInv /\ KeptRead => ViewsTrue
  BY ReadIsTrue DEF FormatterInv, KeptRead
<1> QED BY <1>1, ReadingInvariance, PTL

(* parsePadding: in the pattern and both markers, widths and alignments    *)
(* are the ones that are written there.                                    *)
THEOREM AllPaddingIsTrue == Spec => []PaddingTrue
<1>1. FormatterInv /\ KeptRead => PaddingTrue
  BY ReadIsTrue DEF FormatterInv, KeptRead
<1> QED BY <1>1, ReadingInvariance, PTL
=============================================================================
