--------------------------- MODULE PatternFormatter ---------------------------
(***************************************************************************)
(* logrin::formatter::Pattern (Pattern.cc): Parse parses and validates the *)
(* pattern and the two markers of %A one after the other; Format walks the *)
(* segments of the pattern, and those of the markers for each attribute.   *)
(* Whether colours are on is asked for every style, and unless UseColours  *)
(* forces it the answer is the process' choice, which may change meanwhile.*)
(***************************************************************************)
EXTENDS PatternParser, ColorSpec, LogRecord

CONSTANTS Requests,    \* what Parse may be called with:
                       \* [pattern, prefix, suffix, delimiter, useColours, palette],
                       \* with the level of the record that is then formatted and
                       \* the calls of With, [name, value], that are made for it
          TimeBuffer,  \* the size of the buffer for a formatted time, 128
          MaxChoices   \* bound: changes of the terminal's colour choice

ASSUME RequestsAssumption ==
    \A r \in Requests :
        /\ {r.pattern, r.prefix, r.suffix, r.delimiter} \subseteq Seq(STRING)
        /\ r.useColours \in {"on", "off", "defer"}
        /\ r.level \in LogLevel
        /\ r.calls \in Seq([name : Seq(STRING), value : ClientValues])
ASSUME FormatterBoundsAssumption == TimeBuffer \in Nat /\ MaxChoices \in Nat

VARIABLES request,  \* the arguments of Parse
          stage,    \* the pattern that is parsed, or where the formatter is
          parsed,   \* n_parsed, n_prefixMarker and n_suffixMarker
          record,   \* the record that is formatted
          choice,   \* terminal::ColoursEnabled()
          choices,  \* how often it changed
          order,    \* the order in which the record's fields are iterated
          field,    \* the field %A is at
          frames,   \* formatPattern's activations: [pattern, next]
          out       \* what is written: text and escape sequences

formatterVars == <<request, stage, parsed, record, choice, choices, order, field,
                   frames, out>>
callVars == <<record, choice, choices, order, field, frames, out>>

\* Mutant: a marker may hold any directive.
markerConfigOpen == [allowed |-> {}, relaxed |-> TRUE]

\* Data directives are not allowed in a marker: they would format the record
\* again, %A without end.
markerParseConfig ==
    [allowed |-> StyleStarts \cup {"Literal", "StyleEnd"}, relaxed |-> TRUE]
DefaultConfig == [allowed |-> {}, relaxed |-> FALSE]

Unparsed == [text |-> <<>>, segments |-> <<>>]

FormatterInit ==
    /\ request \in Requests
    /\ ParserStart(request.pattern, DefaultConfig)
    /\ stage = "main"
    /\ parsed = [p \in {"main", "prefix", "suffix"} |-> Unparsed]
    /\ record = Now(request.level, <<"message">>, <<"logger", "name">>, {"file", "line"})
    /\ choice \in BOOLEAN
    /\ choices = 0
    /\ order = <<>>
    /\ field = 0
    /\ frames = <<>>
    /\ out = <<>>

-----------------------------------------------------------------------------
(* Pattern::Parse                                                          *)

ColorStarts == {"ForegroundColorStart", "BackgroundColorStart", "LevelColorStart"}

\* Mutant: only the colours that need a spec are validated.
validateRequiredSpecs ==
    \A i \in DOMAIN segments :
        segments[i].kind \in ColorStarts \ {"LevelColorStart"}
            /\ HasSpecification(segments[i].directive) =>
            parseColorSpec(Specification(segments[i].directive, input)) # {}

validateColorSpecs ==
    \A i \in DOMAIN segments :
        segments[i].kind \in ColorStarts /\ HasSpecification(segments[i].directive) =>
            parseColorSpec(Specification(segments[i].directive, input)) # {}

Parsing == stage \in {"main", "prefix", "suffix"}

ParseStep == Parsing /\ ParserNext /\ UNCHANGED formatterVars

\* The pattern of this stage is good, and the next one is parsed. A marker
\* that is empty is not parsed in the code, and nothing is written for it.
ParsePattern(pattern, cfg, next) ==
    /\ outcome = "parsed" /\ validateColorSpecs
    /\ parsed' = [parsed EXCEPT ![stage] = [text |-> input, segments |-> segments]]
    /\ stage' = next
    /\ UNCHANGED <<request, callVars>>
    /\ ParserRestart(pattern, cfg)

ParsePrefix == stage = "main" /\ ParsePattern(request.prefix, markerParseConfig, "prefix")
ParseSuffix == stage = "prefix" /\ ParsePattern(request.suffix, markerParseConfig, "suffix")
Construct == stage = "suffix" /\ ParsePattern(<<>>, DefaultConfig, "ready")

ParseFails ==
    /\ Parsing
    /\ \/ outcome = "rejected"
       \/ outcome = "parsed" /\ ~validateColorSpecs
    /\ stage' = "failed"
    /\ UNCHANGED <<parserVars, request, parsed, callVars>>

-----------------------------------------------------------------------------
(* What a content directive writes                                         *)

FormatLiteral(segment, text) == Substr(text, segment.text[1], segment.text[2])

\* External: strftime, which writes nothing if the result fills the buffer.
strftime(spec) == IF Len(spec) >= TimeBuffer THEN <<>> ELSE spec

FormatTimestamp(segment, text) ==
    LET spec == Specification(segment.directive, text)
    IN  CASE spec = <<>> -> strftime(<<"date", "time">>)
          [] spec = <<"iso8601">> -> <<"iso time">>
          [] OTHER -> strftime(spec)

\* A level's name is two units wide: the level, and the case it is written in.
levelToString(level, spec) ==
    <<level, IF spec \in {<<"upper">>, <<"lower">>} THEN spec[1] ELSE "default">>

FormatLevel(segment, text) ==
    applyPadding(levelToString(record.level, Specification(segment.directive, text)),
                 segment.directive)

FormatLogger(segment) == applyPadding(record.logger, segment.directive)

\* Its padding is parsed and not used.
FormatThreadId(segment, text) ==
    IF Specification(segment.directive, text) = <<"hex">> THEN <<"0x", "thread">>
    ELSE <<"thread">>

FormatAttribute(segment, text) ==
    LET key == Specification(segment.directive, text)
    IN  IF key \in DOMAIN record.fields THEN appendAttributeValue(record.fields[key])
        ELSE <<>>

Content(segment, text) ==
    CASE segment.kind = "Literal" -> FormatLiteral(segment, text)
      [] segment.kind = "Timestamp" -> FormatTimestamp(segment, text)
      [] segment.kind = "Level" -> FormatLevel(segment, text)
      [] segment.kind = "Message" -> record.message
      [] segment.kind = "Logger" -> FormatLogger(segment)
      [] segment.kind = "ThreadId" -> FormatThreadId(segment, text)
      [] segment.kind = "Attribute" -> FormatAttribute(segment, text)
      [] segment.kind \in {"File", "FunctionName", "LineNum", "ColumnNum"} -> <<segment.kind>>

\* ParsedPattern::FormatSegment, without the formatter: a level is not in its
\* dispatch, and neither are attributes and styles.
FormatSegment(segment, text) ==
    IF segment.kind \in {"Literal", "Timestamp", "Message", "Logger", "File",
                         "FunctionName", "LineNum", "ColumnNum", "ThreadId", "Attribute"}
    THEN Content(segment, text) ELSE <<>>

FormatSegments(pattern) ==
    FlattenSeq([i \in DOMAIN pattern.segments |->
                   FormatSegment(pattern.segments[i], pattern.text)])

-----------------------------------------------------------------------------
(* Pattern::Format                                                         *)

isColorsEnabled ==
    \/ request.useColours = "on"
    \/ request.useColours = "defer" /\ choice

Palette == IF request.palette = "azalia" THEN kAzaliaLevelColorMap
           ELSE kDefaultLevelColorMap

\* The activation that runs, the pattern it walks and the segment it is at.
Frame == Last(frames)
Walked == parsed[Frame.pattern]
AtSegment == stage = "formatting" /\ Frame.next <= Len(Walked.segments)
AtEnd(pattern) ==
    /\ stage = "formatting" /\ Frame.pattern = pattern
    /\ Frame.next > Len(Walked.segments)
Current == Walked.segments[Frame.next]

Activation(pattern) == [pattern |-> pattern, next |-> 1]
Advanced == [frames EXCEPT ![Len(frames)].next = @ + 1]

TextItem(text) == [op |-> "text", text |-> text, rgb |-> <<>>]
StyleItem(kind, rgb) == [op |-> kind, text |-> <<>>, rgb |-> rgb]

\* Items are written for the current segment, and the walk goes on.
Emit(items) ==
    /\ out' = out \o items
    /\ frames' = Advanced
    /\ UNCHANGED <<parserVars, request, parsed, record, choice, choices, order, field>>

Format ==
    /\ stage = "ready"
    /\ stage' = "formatting"
    /\ order' \in SetToSeqs(DOMAIN record.fields)
    /\ frames' = <<Activation("main")>>
    /\ UNCHANGED <<parserVars, request, parsed, record, choice, choices, field, out>>

FormatContent ==
    /\ AtSegment
    /\ Current.kind \notin StyleStarts \cup {"StyleEnd", "AllAttributes"}
    /\ Emit(<<TextItem(Content(Current, Walked.text))>>)
    /\ UNCHANGED stage

\* A colour that cannot be unwrapped ends the program.
Paint(colours) ==
    /\ stage' = IF isColorsEnabled /\ colours = {} THEN "aborted" ELSE stage
    /\ Emit(IF isColorsEnabled THEN SetToSeq({StyleItem(Current.kind, c) : c \in colours})
            ELSE <<>>)

emitColour ==
    /\ AtSegment
    /\ Current.kind \in {"ForegroundColorStart", "BackgroundColorStart"}
    /\ IF HasSpecification(Current.directive)
       THEN Paint(parseColorSpec(Specification(Current.directive, Walked.text)))
       ELSE Emit(<<>>) /\ UNCHANGED stage

\* The spec's colour, or the one of the record's level.
emitLevelColour ==
    /\ AtSegment
    /\ Current.kind = "LevelColorStart"
    /\ Paint(IF HasSpecification(Current.directive)
             THEN parseColorSpec(Specification(Current.directive, Walked.text))
             ELSE {getLevelColor(record.level, Palette)})

\* Mutant: a style is written although colours are off.
emitStyleAlways ==
    /\ AtSegment
    /\ Current.kind \in StyleStarts \ ColorStarts
    /\ Emit(<<StyleItem(Current.kind, <<>>)>>)
    /\ UNCHANGED stage

emitStyle ==
    /\ AtSegment
    /\ Current.kind \in StyleStarts \ ColorStarts
    /\ Emit(IF isColorsEnabled THEN <<StyleItem(Current.kind, <<>>)>> ELSE <<>>)
    /\ UNCHANGED stage

\* Style{}.Paint() is the sequence that resets everything.
emitStyleEnd ==
    /\ AtSegment
    /\ Current.kind = "StyleEnd"
    /\ Emit(IF isColorsEnabled THEN <<StyleItem("StyleEnd", <<>>)>> ELSE <<>>)
    /\ UNCHANGED stage

\* formatAllAttributes: nothing for a record without fields; else the prefix
\* of the first one.
BeginAttributes ==
    /\ AtSegment
    /\ Current.kind = "AllAttributes"
    /\ frames' = IF order = <<>> THEN Advanced ELSE Append(Advanced, Activation("prefix"))
    /\ field' = IF order = <<>> THEN 0 ELSE 1
    /\ UNCHANGED <<parserVars, request, stage, parsed, record, choice, choices, order, out>>

\* After the prefix the key, the delimiter and the value; then the suffix.
EndPrefix ==
    /\ AtEnd("prefix")
    /\ out' = Append(out, TextItem(order[field] \o request.delimiter
                                  \o appendAttributeValue(record.fields[order[field]])))
    /\ frames' = Append(Front(frames), Activation("suffix"))
    /\ UNCHANGED <<parserVars, request, stage, parsed, record, choice, choices, order, field>>

\* Mutant: the space comes before every attribute.
EndSuffixSpaced ==
    /\ AtEnd("suffix")
    /\ out' = Append(out, TextItem(<<" ">>))
    /\ frames' = IF field < Len(order) THEN Append(Front(frames), Activation("prefix"))
                 ELSE Front(frames)
    /\ field' = IF field < Len(order) THEN field + 1 ELSE 0
    /\ UNCHANGED <<parserVars, request, stage, parsed, record, choice, choices, order>>

\* After the suffix a space and the next attribute, if there is one.
EndSuffix ==
    /\ AtEnd("suffix")
    /\ IF field < Len(order)
       THEN /\ out' = Append(out, TextItem(<<" ">>))
            /\ frames' = Append(Front(frames), Activation("prefix"))
            /\ field' = field + 1
       ELSE /\ frames' = Front(frames)
            /\ field' = 0
            /\ UNCHANGED out
    /\ UNCHANGED <<parserVars, request, stage, parsed, record, choice, choices, order>>

EndMain ==
    /\ AtEnd("main")
    /\ stage' = "formatted"
    /\ UNCHANGED <<parserVars, request, parsed, callVars>>

\* External: terminal::SetColourChoice, by another thread.
SetColourChoice ==
    /\ stage = "formatting" /\ choices < MaxChoices
    /\ choice' = ~choice
    /\ choices' = choices + 1
    /\ UNCHANGED <<parserVars, request, stage, parsed, record, order, field, frames, out>>

-----------------------------------------------------------------------------
Setup == ParseStep \/ ParsePrefix \/ ParseSuffix \/ Construct \/ ParseFails

Walk ==
    \/ FormatContent \/ emitColour \/ emitLevelColour \/ emitStyle \/ emitStyleEnd
    \/ BeginAttributes \/ EndPrefix \/ EndSuffix \/ EndMain

-----------------------------------------------------------------------------
(* Safety                                                                  *)

(* The comment of markerParseConfig, "re-enter %A itself": a marker never  *)
(* formats attributes, so at most two patterns are being walked, and the   *)
(* stack of activations does not depend on the patterns.                   *)
MarkersAreFlat ==
    /\ Len(frames) <= 2
    /\ \A i \in DOMAIN frames : frames[i].pattern = "main" <=> i = 1

(* validateColorSpecs, "lets Pattern::Format assume the spec is good": no  *)
(* unwrap of Format fails, for the pattern, the markers and whatever was   *)
(* cut to 16 bits on the way to it.                                        *)
NeverAborts == stage # "aborted"

\* The text of an attribute with its markers, and that of a whole pattern.
Plain(pattern) ==
    FlattenSeq([i \in DOMAIN pattern.segments |->
                   LET segment == pattern.segments[i]
                   IN  IF segment.kind \in StyleStarts \cup {"StyleEnd", "AllAttributes"}
                       THEN <<>> ELSE Content(segment, pattern.text)])

Attributes ==
    FlattenSeq([k \in DOMAIN order |->
                   (IF k = 1 THEN <<>> ELSE <<" ">>) \o Plain(parsed.prefix) \o order[k]
                   \o request.delimiter \o appendAttributeValue(record.fields[order[k]])
                   \o Plain(parsed.suffix)])

Expected(pattern) ==
    FlattenSeq([i \in DOMAIN pattern.segments |->
                   IF pattern.segments[i].kind = "AllAttributes" THEN Attributes
                   ELSE Plain([text |-> pattern.text, segments |-> <<pattern.segments[i]>>])])

Visible == FlattenSeq([i \in DOMAIN out |-> out[i].text])
Kinds(pattern) == {pattern.segments[i].kind : i \in DOMAIN pattern.segments}

\* The thread ids of a pattern that are to be padded.
PaddedThreads(pattern) ==
    {i \in DOMAIN pattern.segments :
        pattern.segments[i].kind = "ThreadId" /\ HasPadding(pattern.segments[i].directive)}

(* Format: the text that is seen is what the directives write one after    *)
(* the other, with the attributes inside their markers at each %A, however *)
(* styles are interleaved and whatever happens to the colours meanwhile;   *)
(* FormatSegments shows the same text if the pattern has neither levels    *)
(* nor attributes. What one directive writes is Content. It is not what is *)
(* documented of a thread id with padding, "[`SegmentCapability::          *)
(* SpecAndPadding`]" and "0000303a" (Segment.h), whose padding is ignored, *)
(* so patterns that have one are left out. A marker cannot have one.       *)
Rendered ==
    stage = "formatted" /\ PaddedThreads(parsed.main) = {} =>
        /\ Visible = Expected(parsed.main)
        /\ Kinds(parsed.main) \cap {"Level", "AllAttributes"} = {} =>
               FormatSegments(parsed.main) = Visible

\* The escape sequences of a pattern: one for each style and each style end.
Escapes(pattern) ==
    {i \in DOMAIN pattern.segments :
        pattern.segments[i].kind \in StyleStarts \cup {"StyleEnd"}}

EscapesDue ==
    Cardinality(Escapes(parsed.main))
      + Cardinality({i \in DOMAIN parsed.main.segments :
                        parsed.main.segments[i].kind = "AllAttributes"})
        * Len(order) * (Cardinality(Escapes(parsed.prefix)) + Cardinality(Escapes(parsed.suffix)))

\* The ones that were written.
Styles == {i \in DOMAIN out : out[i].op # "text"}

(* Config::UseColours, "Force-toggle colour output": a formatter that is   *)
(* forced writes all its escape sequences or none, although the process'   *)
(* choice changes while it formats.                                        *)
ColoursForced ==
    stage = "formatted" =>
        /\ request.useColours = "on" => Cardinality(Styles) = EscapesDue
        /\ request.useColours = "off" => Styles = {}

\* No style is on after the pattern's last style directive.
Closes(pattern) ==
    Escapes(pattern) = {} \/ pattern.segments[Max(Escapes(pattern))].kind = "StyleEnd"

(* "must be followed by %style:end to close the styled region" (Segment.h):*)
(* a text leaves no style behind for what is printed next. The markers are *)
(* parsed with relaxed nesting, so this takes a suffix that closes what    *)
(* the prefix opened; nothing else has to be closed by the user.           *)
StylesClosed ==
    stage = "formatted" /\ request.useColours = "on"
        /\ (Closes(parsed.suffix) /\ (Closes(parsed.prefix) \/ Escapes(parsed.suffix) # {})) =>
        Styles = {} \/ out[Max(Styles)].op = "StyleEnd"

\* Blanks at the ends of a number do not count, and a comma may follow.
Numbers(spec) ==
    <<NumberSpelled(Part(spec, 0)), NumberSpelled(Part(spec, 1)), NumberSpelled(Part(spec, 2))>>

\* What FormatLevel and FormatLogger pad.
Unpadded(segment) ==
    IF segment.kind = "Level"
    THEN levelToString(record.level, Specification(segment.directive, parsed.main.text))
    ELSE record.logger

(* Alignment, "the extra character goes on the right" (Segment.h): a text  *)
(* is as wide as asked for or as it was, whatever is longer, and is itself *)
(* with the fill on the sides its alignment names.                         *)
Padded ==
    \A i \in DOMAIN parsed.main.segments :
        LET segment == parsed.main.segments[i]
            content == Unpadded(segment)
            padded == Content(segment, parsed.main.text)
            fill == Len(padded) - Len(content)
        IN  segment.kind \in {"Level", "Logger"} =>
            /\ Len(padded) \in {Len(content), segment.directive.width}
            /\ fill >= 0 /\ Len(padded) >= segment.directive.width
            /\ \E left \in 0 .. fill :
                  /\ \A k \in DOMAIN padded :
                        padded[k] = IF k \in left + 1 .. left + Len(content)
                                    THEN content[k - left] ELSE segment.directive.fill
                  /\ CASE segment.directive.alignment = "Left" -> left = 0
                       [] segment.directive.alignment = "Right" -> left = fill
                       [] OTHER -> fill - left - left \in {0, 1}

(* "whole numbers from 0..=255" (Segment.h): a colour that is written with *)
(* numbers is the one that is painted. The numbers are accumulated in 16   *)
(* bits, so this holds of numbers below 2^16: 65536 is accepted, as 0.     *)
ColoursTrue ==
    \A i \in DOMAIN parsed.main.segments :
        LET segment == parsed.main.segments[i]
            spec == Specification(segment.directive, parsed.main.text)
        IN  segment.kind \in ColorStarts /\ Contains(spec, ",")
            /\ (\A k \in 1 .. 3 : Numbers(spec)[k] < 2^ShortBits) =>
                /\ parseColorSpec(spec) = {Numbers(spec)}
                /\ \A k \in 1 .. 3 : Numbers(spec)[k] <= MaxComponent
=============================================================================
