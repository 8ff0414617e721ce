---------------------------- MODULE PatternParser ----------------------------
(***************************************************************************)
(* logrin::formatter::pattern::Parse (Parser.cc): a pattern is cut into at *)
(* most MaxSegments segments, literals and directives. Positions count     *)
(* from 0 as they do in the code; the unit at position p is input[p + 1].  *)
(* A step is one turn of the loop, or the literal it ends first.           *)
(***************************************************************************)
EXTENDS Segments, FiniteSets

CONSTANTS MaxSegments,  \* the capacity of ParsedPattern::Segments, 64 in the code
          Patterns,     \* the inputs
          Configs       \* the ParseConfigs: [allowed, relaxed]

ASSUME MaxSegmentsAssumption == MaxSegments \in Nat
ASSUME PatternsAssumption == Patterns \subseteq Seq(STRING)
ASSUME ConfigsAssumption ==
    \A c \in Configs : c.allowed \subseteq SegmentKind /\ c.relaxed \in BOOLEAN

VARIABLES input,        \* the pattern
          config,       \* how it is parsed; no kind allowed means all are
          in,           \* the position of the next unit
          literalStart, \* where the literal that is being read began
          inLiteral,    \* a literal is being read
          depth,        \* how many styles are open
          segments,     \* ParsedPattern::Segments, up to Count
          outcome,      \* "parsing", "parsed" or "rejected"
          spans         \* history: the part of the input each segment is made of

parserVars == <<input, config, in, literalStart, inLiteral, depth, segments,
                outcome, spans>>

ParserStart(pattern, cfg) ==
    /\ input = pattern
    /\ config = cfg
    /\ in = 0
    /\ literalStart = 0
    /\ inLiteral = FALSE
    /\ depth = 0
    /\ segments = <<>>
    /\ outcome = "parsing"
    /\ spans = <<>>

\* Parse is called once more.
ParserRestart(pattern, cfg) ==
    /\ input' = pattern
    /\ config' = cfg
    /\ in' = 0
    /\ literalStart' = 0
    /\ inLiteral' = FALSE
    /\ depth' = 0
    /\ segments' = <<>>
    /\ outcome' = "parsing"
    /\ spans' = <<>>

ParserInit == \E pattern \in Patterns, cfg \in Configs : ParserStart(pattern, cfg)

-----------------------------------------------------------------------------
(* Keywords, letters and blocks                                            *)

kKeywords ==
    [Strikethrough |-> <<"strikethrough">>, LevelColorStart |-> <<"l", "evelColor">>,
     StyleEnd |-> <<"style:end">>, Underline |-> <<"underline">>,
     Italic |-> <<"italic">>, Bold |-> <<"bold">>, Dim |-> <<"dim">>,
     ForegroundColorStart |-> <<"f", "g">>, BackgroundColorStart |-> <<"bg">>]

Letters ==
    [L |-> "Level", m |-> "Message", T |-> "ThreadId", t |-> "Timestamp",
     n |-> "Logger", f |-> "File", l |-> "LineNum", c |-> "ColumnNum",
     F |-> "FunctionName", A |-> "AllAttributes", X |-> "Attribute"]

isWordBoundary(rest, end) ==
    end >= Len(rest) \/ rest[end + 1] \in {"{", "%", " ", "[", "]", "(", ")", "}", ":"}

\* The keyword that rest begins with, if it ends at a word boundary.
tryMatchKeyword(rest) ==
    {k \in DOMAIN kKeywords :
        IsPrefix(kKeywords[k], rest) /\ isWordBoundary(rest, Len(kKeywords[k]))}

\* The directive that begins after a %, and how many units name it.
Named(rest) ==
    IF tryMatchKeyword(rest) # {}
    THEN {[kind |-> k, length |-> Len(kKeywords[k])] : k \in tryMatchKeyword(rest)}
    ELSE {[kind |-> Letters[u], length |-> 1] : u \in {rest[1]} \cap DOMAIN Letters}

\* The braces still open after the units from position `open` up to `end`.
BracesOpen(open, end) ==
    LET Count(u) == Cardinality({i \in open + 1 .. end : input[i] = u})
    IN  1 + Count("{") - Count("}")

\* The ends of the block that opened just before position `open`: the first
\* position at which its brace is closed, if there is one.
BlockEnds(open) ==
    {end \in open + 1 .. Len(input) :
        /\ BracesOpen(open, end) = 0
        /\ \A e \in open + 1 .. end - 1 : BracesOpen(open, e) > 0}

\* Mutant: the block of a directive begins one unit too early.
BlockTooWide(from, kind) ==
    IF from < Len(input) /\ input[from + 1] = "{"
    THEN {[end |-> end, result |-> DirectiveParse(Slice(input, from + 1, end - 1), from, kind)]
             : end \in BlockEnds(from + 1)}
    ELSE {[end |-> from, result |-> Ok(NoDirective)]}

\* The block at position `from`, parsed; none if it is not closed.
Block(from, kind) ==
    IF from < Len(input) /\ input[from + 1] = "{"
    THEN {[end |-> end,
           result |-> DirectiveParse(Slice(input, from + 1, end - 1), from + 1, kind)]
             : end \in BlockEnds(from + 1)}
    ELSE {[end |-> from, result |-> Ok(NoDirective)]}

-----------------------------------------------------------------------------
(* The loop                                                                *)

\* The last unit of a pattern is never the beginning of a directive.
AtDirective ==
    /\ outcome = "parsing"
    /\ in + 1 < Len(input)
    /\ input[in + 1] = "%"

Room == Len(segments) < MaxSegments

Reject ==
    /\ outcome' = "rejected"
    /\ UNCHANGED <<input, config, in, literalStart, inLiteral, depth, segments, spans>>

\* A segment made of the input from `from` up to `to` is added.
Push(kind, text, directive, newDepth, from, to) ==
    /\ segments' = Append(segments, [kind |-> kind, text |-> text,
                                     directive |-> directive, depth |-> newDepth])
    /\ spans' = Append(spans, [from |-> from, to |-> to])
    /\ depth' = newDepth
    /\ UNCHANGED <<input, config, outcome>>

PushLiteral(first, length, from, to) ==
    Push("Literal", <<Short(first), Short(length)>>, NoDirective, depth, from, to)

ScanLiteral ==
    /\ outcome = "parsing" /\ in < Len(input) /\ ~AtDirective
    /\ literalStart' = IF inLiteral THEN literalStart ELSE in
    /\ inLiteral' = TRUE
    /\ in' = in + 1
    /\ UNCHANGED <<input, config, depth, segments, outcome, spans>>

\* Mutant: the last unit of a literal is lost.
flushLiteralShort ==
    /\ inLiteral
    /\ AtDirective \/ (outcome = "parsing" /\ in = Len(input))
    /\ IF Room
       THEN /\ PushLiteral(literalStart, in - 1 - literalStart, literalStart, in - 1)
            /\ inLiteral' = FALSE
            /\ UNCHANGED <<in, literalStart>>
       ELSE Reject

\* flushLiteral, before a directive and at the end. What a literal began with
\* has been read, so it is not empty.
flushLiteral ==
    /\ inLiteral
    /\ AtDirective \/ (outcome = "parsing" /\ in = Len(input))
    /\ IF Room
       THEN /\ PushLiteral(literalStart, in - literalStart, literalStart, in)
            /\ inLiteral' = FALSE
            /\ UNCHANGED <<in, literalStart>>
       ELSE Reject

\* Mutant: the literal of "%%" is added to a full array.
PercentUnchecked ==
    /\ AtDirective /\ ~inLiteral
    /\ input[in + 2] = "%"
    /\ PushLiteral(in + 1, 1, in, in + 2)
    /\ in' = in + 2 /\ literalStart' = in + 2
    /\ UNCHANGED inLiteral

\* "%%" is a literal of its own.
Percent ==
    /\ AtDirective /\ ~inLiteral
    /\ input[in + 2] = "%"
    /\ IF Room
       THEN /\ PushLiteral(in + 1, 1, in, in + 2)
            /\ in' = in + 2 /\ literalStart' = in + 2
            /\ UNCHANGED inLiteral
       ELSE Reject

\* A directive of this kind and block is one the pattern may have here.
Accepts(kind, block) ==
    /\ config.allowed = {} \/ kind \in config.allowed
    /\ block.result.ok
    /\ kind \in {"Attribute", "ForegroundColorStart", "BackgroundColorStart"} =>
           HasSpecification(block.result.directive)
    /\ kind = "StyleEnd" => depth > 0 \/ config.relaxed
    /\ Room

\* Mutant: the end of a style leaves the depth as it is.
DepthStuck(kind) == IF isStyleStart(kind) THEN depth + 1 ELSE depth

\* ++depth, or --depth unless there is nothing to close.
DepthAfter(kind) ==
    IF isStyleStart(kind) THEN depth + 1
    ELSE IF kind = "StyleEnd" /\ depth > 0 THEN depth - 1
    ELSE depth

\* The directives that can be read at `in`, with their blocks: one at most.
Readable ==
    UNION {{[kind |-> d.kind, block |-> b] :
               b \in {b \in Block(in + 1 + d.length, d.kind) : Accepts(d.kind, b)}}
           : d \in Named(Slice(input, in + 1, Len(input)))}

Directive ==
    /\ AtDirective /\ ~inLiteral
    /\ input[in + 2] # "%"
    /\ \E d \in Readable :
          /\ Push(d.kind, <<0, 0>>, d.block.result.directive, DepthAfter(d.kind),
                  in, d.block.end)
          /\ in' = d.block.end /\ literalStart' = d.block.end
    /\ UNCHANGED inLiteral

\* An unknown or forbidden directive, a bad block, a missing spec, the end of
\* a style that is not open, or no room.
RejectDirective ==
    /\ AtDirective /\ ~inLiteral
    /\ input[in + 2] # "%"
    /\ Readable = {}
    /\ Reject

\* Mutant: open styles are not looked for at the end.
FinishUnchecked ==
    /\ outcome = "parsing" /\ in = Len(input) /\ ~inLiteral
    /\ outcome' = "parsed"
    /\ UNCHANGED <<input, config, in, literalStart, inLiteral, depth, segments, spans>>

\* Every style has to be closed, unless nesting is relaxed.
Finish ==
    /\ outcome = "parsing" /\ in = Len(input) /\ ~inLiteral
    /\ outcome' = IF depth # 0 /\ ~config.relaxed THEN "rejected" ELSE "parsed"
    /\ UNCHANGED <<input, config, in, literalStart, inLiteral, depth, segments, spans>>

ParserNext ==
    \/ ScanLiteral \/ flushLiteral \/ Percent
    \/ Directive \/ RejectDirective \/ Finish

ParserSpec == ParserInit /\ [][ParserNext]_parserVars

-----------------------------------------------------------------------------
(* Type invariant                                                          *)

Shorts == 0 .. 2^ShortBits - 1
Directives == [offset : Shorts, length : Shorts, width : Shorts,
               alignment : Alignments, fill : STRING]

\* Every variable has the type its declaration gives it. No more segments are
\* added than the array holds, wherever one is added, and a style that is open
\* has a segment: the depth does not outgrow its UInt8 either.
ParserTypeOK ==
    /\ input \in Seq(STRING)
    /\ config.allowed \subseteq SegmentKind /\ config.relaxed \in BOOLEAN
    /\ in \in 0 .. Len(input)
    /\ literalStart \in 0 .. in
    /\ inLiteral \in BOOLEAN
    /\ inLiteral => literalStart < in
    /\ segments \in Seq([kind : SegmentKind, text : Shorts \X Shorts,
                         directive : Directives, depth : 0 .. MaxSegments])
    /\ Len(segments) <= MaxSegments
    /\ depth \in 0 .. Len(segments)
    /\ outcome \in {"parsing", "parsed", "rejected"}
    /\ spans \in Seq([from : 0 .. Len(input), to : 0 .. Len(input)])
    /\ Len(spans) = Len(segments)

-----------------------------------------------------------------------------
(* Safety                                                                  *)

\* Where the segments added so far end.
Reached == IF inLiteral THEN literalStart ELSE in

(* Parse, "decomposes it": the segments are made of the pattern from its   *)
(* first unit on, one after the other; nothing is skipped or used twice,   *)
(* whatever the literals, escapes, keywords and blocks follow one another. *)
Cover ==
    /\ \A i \in DOMAIN spans :
          /\ spans[i].from < spans[i].to
          /\ spans[i].from = IF i = 1 THEN 0 ELSE spans[i - 1].to
    /\ IF spans = <<>> THEN Reached = 0 ELSE spans[Len(spans)].to = Reached
    /\ outcome = "parsed" => Reached = Len(input)

\* The literal a span stands for: "%%" is one %.
LiteralOf(span) ==
    IF Slice(input, span.from, span.to) = <<"%", "%">> THEN <<"%">>
    ELSE Slice(input, span.from, span.to)

\* A spec begins at the first brace of its span; it ends with the block, or
\* at the last colon of the block.
SpecOf(directive, span) ==
    LET first == directive.offset
        end == directive.offset + directive.length
    IN  /\ span.from < first /\ end < span.to
        /\ input[first] = "{"
        /\ \A p \in span.from + 1 .. first - 1 : input[p] # "{"
        /\ \/ end + 1 = span.to
           \/ input[end + 1] = ":" /\ \A p \in end + 2 .. span.to : input[p] # ":"

(* Segment::Text, Directive::SpecOffset and SpecLength: what a segment     *)
(* views is the part of the pattern it was made of. Positions are cut to   *)
(* 16 bits, so this holds of what ends before position 2^16 and of no      *)
(* more: a literal that ends there may have length 0.                      *)
ViewsTrue ==
    \A i \in DOMAIN segments :
        spans[i].to < 2^ShortBits =>
            IF segments[i].kind = "Literal"
            THEN Substr(input, segments[i].text[1], segments[i].text[2])
                     = LiteralOf(spans[i])
            ELSE HasSpecification(segments[i].directive) =>
                     SpecOf(segments[i].directive, spans[i])

\* The digits a block ends with, and the unit before them.
EndDigits(span) ==
    {p \in span.from + 1 .. span.to - 1 : \A q \in p .. span.to - 1 : isDigit(input[q])}
BeforeDigits(span) == input[Min(EndDigits(span)) - 1]

(* parsePadding, "fill-align pair": the width is the number a block ends   *)
(* with, zeros before it included, and the alignment is the character      *)
(* before it, or to the right. The number is accumulated in 16 bits.       *)
PaddingTrue ==
    \A i \in DOMAIN segments :
        LET directive == segments[i].directive
            width == NumberSpelled(Slice(input, Min(EndDigits(spans[i])) - 1,
                                         spans[i].to - 1))
        IN  HasPadding(directive) =>
            /\ width < 2^ShortBits => directive.width = width
            /\ directive.alignment = IF isAlignmentCharacter(BeforeDigits(spans[i]))
                                     THEN AlignmentOf[BeforeDigits(spans[i])] ELSE "Right"

Opened(n) == Cardinality({i \in 1 .. n : isStyleStart(segments[i].kind)})
Closed(n) == Cardinality({i \in 1 .. n : segments[i].kind = "StyleEnd"})

(* Segment::Depth, "enabling formatters to validate balanced styling": the *)
(* styles of a pattern that is accepted are closed in it, none is closed   *)
(* that is not open, and each segment's depth says how many are open.      *)
Nested ==
    ~config.relaxed =>
        /\ depth = Opened(Len(segments)) - Closed(Len(segments))
        /\ \A n \in DOMAIN segments :
              /\ Closed(n) <= Opened(n)
              /\ segments[n].depth = Opened(n) - Closed(n)
        /\ outcome = "parsed" => Opened(Len(segments)) = Closed(Len(segments))
=============================================================================
