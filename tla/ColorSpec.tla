------------------------------ MODULE ColorSpec ------------------------------
(***************************************************************************)
(* The colours of Pattern.cc: what the spec of a colour directive means    *)
(* and which colour a level has. An RGB is a triple of components.         *)
(***************************************************************************)
EXTENDS Segments, FiniteSets

CONSTANT MaxComponent   \* the largest component that may be written, 255

ASSUME MaxComponentAssumption == MaxComponent \in Nat

-----------------------------------------------------------------------------
(* Levels. Off has no entry in a palette.                                  *)

kDefaultLevelColorMap ==
    [Trace |-> <<102, 178, 178>>, Debug |-> <<162, 224, 162>>, Info |-> <<48, 48, 105>>,
     Warning |-> <<239, 239, 184>>, Error |-> <<193, 50, 50>>, Fatal |-> <<193, 50, 50>>]

kAzaliaLevelColorMap ==
    [Trace |-> <<163, 182, 138>>, Debug |-> <<148, 224, 232>>, Info |-> <<178, 157, 243>>,
     Warning |-> <<243, 243, 134>>, Error |-> <<153, 75, 104>>, Fatal |-> <<153, 75, 104>>]

getLevelColor(level, palette) ==
    IF level \in DOMAIN palette THEN palette[level] ELSE <<0, 0, 0>>

-----------------------------------------------------------------------------
(* Specs                                                                   *)

\* Two of the 148 names of the table, and one of the ways to write each.
kCSSColors == [red |-> <<255, 0, 0>>, azure |-> <<240, 255, 255>>]
toLower(u) == CASE u = "RED" -> "red" [] u = "Azure" -> "azure" [] OTHER -> u

\* The text from the first of some places to the last.
Span(text, places) ==
    IF places = {} THEN <<>> ELSE SubSeq(text, Min(places), Max(places))

Trim(text) == Span(text, {i \in DOMAIN text : text[i] # " "})

\* parseHexDigit, on the digits that are used.
HexDigit == [u \in {"0", "1", "a", "C"} |->
                CASE u = "0" -> 0 [] u = "1" -> 1 [] u = "a" -> 10 [] u = "C" -> 12]

\* #RGB or #RRGGBB.
HexColor(hex) ==
    LET Pair(i, j) == 16 * HexDigit[hex[i]] + HexDigit[hex[j]]
    IN  IF ~(ToSet(hex) \subseteq DOMAIN HexDigit) THEN {}
        ELSE CASE Len(hex) = 6 -> {<<Pair(1, 2), Pair(3, 4), Pair(5, 6)>>}
               [] Len(hex) = 3 -> {<<Pair(1, 1), Pair(2, 2), Pair(3, 3)>>}
               [] OTHER -> {}

Commas(text, n) == Cardinality({i \in 1 .. n : text[i] = ","})

\* The part of a text after k commas, without the blanks around it.
Part(text, k) ==
    Span(text, {i \in DOMAIN text : text[i] \notin {" ", ","} /\ Commas(text, i) = k})

\* Three numbers, and nothing more than a comma after the third.
ThreeNumbers(text) ==
    /\ \/ Commas(text, Len(text)) = 2
       \/ Commas(text, Len(text)) = 3 /\ Part(text, 3) = <<>>
    /\ \A k \in 0 .. 2 : Part(text, k) # <<>> /\ AllDigits(Part(text, k))

\* Mutant: a number is compared before its last digit is read.
RgbColorEarly(text) ==
    IF ThreeNumbers(text) /\ \A k \in 0 .. 2 : ShortSpelled(Front(Part(text, k))) <= MaxComponent
    THEN {<<ShortSpelled(Part(text, 0)), ShortSpelled(Part(text, 1)), ShortSpelled(Part(text, 2))>>}
    ELSE {}

\* Each number is accumulated in 16 bits before it is compared.
RgbColor(text) ==
    IF ThreeNumbers(text) /\ \A k \in 0 .. 2 : ShortSpelled(Part(text, k)) <= MaxComponent
    THEN {<<ShortSpelled(Part(text, 0)), ShortSpelled(Part(text, 1)), ShortSpelled(Part(text, 2))>>}
    ELSE {}

\* A text without blanks around it, as a colour.
ColorOf(text) ==
    CASE text = <<>> -> {}
      [] text # <<>> /\ text[1] = "#" -> HexColor(Tail(text))
      [] text # <<>> /\ text[1] # "#" /\ Contains(text, ",") -> RgbColor(text)
      [] OTHER -> {kCSSColors[toLower(u)] :
                     u \in {u \in ToSet(text) : text = <<u>> /\ toLower(u) \in DOMAIN kCSSColors}}

\* The colour of a spec: none, which is an error, or one.
parseColorSpec(spec) == UNION {ColorOf(text) : text \in {Trim(spec)}}
=============================================================================
