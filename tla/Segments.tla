------------------------------- MODULE Segments -------------------------------
(***************************************************************************)
(* logrin::formatter::pattern, the data of a pattern: the kinds of         *)
(* segments, what a `{...}` block may hold for each (Segment.h), how such  *)
(* a block is parsed (Segment.cc) and how padding is applied (Parser.cc).  *)
(*                                                                         *)
(* A text is a sequence of units. A unit stands for one character, or for  *)
(* a run of characters that is only ever read as a whole: a spec keyword,  *)
(* or the part of a directive's keyword that is not a directive letter.    *)
(***************************************************************************)
EXTENDS Integers, Sequences, SequencesExt

CONSTANT ShortBits   \* the width of an UInt16, in which spans are stored

ASSUME ShortBitsAssumption == ShortBits \in Nat \ {0}

\* What the prover does not know of powers and strings.
ASSUME ShortPowerAssumption == 2^ShortBits \in Nat \ {0}
ASSUME BlankAssumption == " " \in STRING

\* static_cast<UInt16>.
Short(n) == n % 2^ShortBits

\* The units from the 0-based position `from` up to, not including, `to`.
Slice(text, from, to) == SubSeq(text, from + 1, to)

\* Str::substr(offset, length): a length beyond the end is cut.
Substr(text, offset, length) ==
    Slice(text, offset, IF offset + length > Len(text) THEN Len(text)
                        ELSE offset + length)

-----------------------------------------------------------------------------
(* Kinds and capabilities                                                  *)

StyleStarts == {"ForegroundColorStart", "BackgroundColorStart", "LevelColorStart",
                "Bold", "Dim", "Italic", "Underline", "Strikethrough"}

SegmentKind == {"Literal", "Timestamp", "Level", "Message", "Logger", "File",
                "FunctionName", "LineNum", "ColumnNum", "ThreadId", "AllAttributes",
                "Attribute", "StyleEnd"} \cup StyleStarts

isStyleStart(kind) == kind \in StyleStarts

GetSegmentCapability(kind) ==
    CASE kind \in {"Timestamp", "Attribute", "ForegroundColorStart",
                   "BackgroundColorStart", "LevelColorStart"} -> "SpecOnly"
      [] kind = "Logger" -> "PaddingOnly"
      [] kind \in {"Level", "ThreadId"} -> "SpecAndPadding"
      [] OTHER -> "None"

-----------------------------------------------------------------------------
(* Directives. An absent block is read everywhere as an empty one.         *)

Alignments == {"None", "Center", "Right", "Left"}

NoDirective ==
    [offset |-> 0, length |-> 0, width |-> 0, alignment |-> "None", fill |-> " "]

HasSpecification(directive) == directive.length > 0
HasPadding(directive) == directive.alignment # "None"

\* The spec of a directive, a view into the pattern it was parsed from.
Specification(directive, pattern) ==
    Substr(pattern, directive.offset, directive.length)

\* getAlignmentFromCharacter, on the characters that have an alignment.
AlignmentOf == [u \in {"<", ">", "^"} |->
                   CASE u = "<" -> "Left" [] u = ">" -> "Right" [] u = "^" -> "Center"]
isAlignmentCharacter(u) == u \in DOMAIN AlignmentOf

DigitValue == [u \in {"0", "1", "2", "3", "5", "6", "7"} |->
                  CASE u = "0" -> 0 [] u = "1" -> 1 [] u = "2" -> 2 [] u = "3" -> 3
                    [] u = "5" -> 5 [] u = "6" -> 6 [] u = "7" -> 7]
isDigit(u) == u \in DOMAIN DigitValue
AllDigits(text) == \A i \in DOMAIN text : isDigit(text[i])

\* The number a run of digits spells.
NumberSpelled(digits) ==
    LET number[i \in 0 .. Len(digits)] ==
            IF i = 0 THEN 0 ELSE 10 * number[i - 1] + DigitValue[digits[i]]
    IN  number[Len(digits)]

\* Mutant: the digits are added up.
DigitsAdded(digits) == FoldLeft(LAMBDA n, u : Short(n + DigitValue[u]), 0, digits)

\* The number as it is accumulated in an UInt16.
ShortSpelled(digits) ==
    LET number[i \in 0 .. Len(digits)] ==
            IF i = 0 THEN 0 ELSE Short(10 * number[i - 1] + DigitValue[digits[i]])
    IN  number[Len(digits)]

\* What a parser returns: an error, or the directive it has read.
Error == [ok |-> FALSE, directive |-> NoDirective]
Ok(directive) == [ok |-> TRUE, directive |-> directive]

\* Padding is [[fill] align] width, or 0 width: filled with 0 on the left.
parsePadding(body, directive) ==
    LET pair  == Len(body) >= 2 /\ isAlignmentCharacter(body[2])
        align == ~pair /\ isAlignmentCharacter(body[1])
        zero  == ~pair /\ body[1] = "0" /\ Len(body) > 1
        digits == Slice(body, IF pair THEN 2 ELSE IF align \/ zero THEN 1 ELSE 0, Len(body))
        padded == [directive EXCEPT
                      !.fill = IF pair THEN body[1] ELSE IF zero THEN "0" ELSE @,
                      !.alignment = IF pair THEN AlignmentOf[body[2]]
                                    ELSE IF align THEN AlignmentOf[body[1]]
                                    ELSE "Right",
                      !.width = ShortSpelled(digits)]
    IN  IF body = <<>> THEN Ok(directive)
        ELSE IF digits = <<>> \/ ~AllDigits(digits) THEN Error
        ELSE Ok(padded)

\* Without a colon: does the block begin like padding?
LooksLikePadding(body) ==
    \/ isAlignmentCharacter(body[1])
    \/ isDigit(body[1])
    \/ Len(body) >= 2 /\ isAlignmentCharacter(body[2])

\* The spec text, which begins at position offset of the pattern.
WithSpec(text, offset) ==
    IF text = <<>> THEN NoDirective
    ELSE [NoDirective EXCEPT !.offset = Short(offset), !.length = Short(Len(text))]

\* Directive::Parse: the block body of a directive of the given kind.
DirectiveParse(body, offset, kind) ==
    LET capability == GetSegmentCapability(kind)
        colon == SelectLastInSeq(body, LAMBDA u : u = ":")
    IN  CASE capability = "None" -> Error
          [] capability # "None" /\ body = <<>> -> Ok(NoDirective)
          [] capability = "SpecOnly" /\ body # <<>> -> Ok(WithSpec(body, offset))
          [] capability = "PaddingOnly" /\ body # <<>> ->
                IF colon # 0 THEN Error ELSE parsePadding(body, NoDirective)
          [] capability = "SpecAndPadding" /\ body # <<>> ->
                IF colon # 0
                THEN parsePadding(Slice(body, colon, Len(body)),
                                  WithSpec(Slice(body, 0, colon - 1), offset))
                ELSE IF LooksLikePadding(body) THEN parsePadding(body, NoDirective)
                ELSE Ok(WithSpec(body, offset))

-----------------------------------------------------------------------------
(* Padding, when a segment is formatted                                    *)

\* Mutant: the odd fill of centred text is forgotten.
applyPaddingEvenly(content, directive) ==
    LET Fill(n) == [i \in 1 .. n |-> directive.fill]
        total == directive.width - Len(content)
    IN  IF ~HasPadding(directive) \/ Len(content) >= directive.width THEN content
        ELSE Fill(total \div 2) \o content \o Fill(total \div 2)

\* The odd fill of centred text goes to the right.
applyPadding(content, directive) ==
    LET Fill(n) == [i \in 1 .. n |-> directive.fill]
        total == directive.width - Len(content)
        left == CASE directive.alignment = "Left" -> 0
                  [] directive.alignment = "Right" -> total
                  [] OTHER -> total \div 2
    IN  IF ~HasPadding(directive) \/ Len(content) >= directive.width THEN content
        ELSE Fill(left) \o content \o Fill(total - left)
=============================================================================
