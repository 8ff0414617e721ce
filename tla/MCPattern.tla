------------------------------ MODULE MCPattern ------------------------------
(* Rendering on families of patterns, one for each place where the text of   *)
(* a pattern decides what happens.                                           *)
EXTENDS Rendering

Upto(units, n) == UNION {[1 .. k -> units] : k \in 0 .. n}

\* Concatenations of at most n pieces.
Pieced(pieces, n) == {FlattenSeq(s) : s \in Upto(pieces, n)}

Units(n) == [i \in 1 .. n |-> "x"]
Braced(body) == <<"{">> \o body \o <<"}">>

-----------------------------------------------------------------------------
\* What a request is made of unless a family says otherwise.
Usual(pattern) ==
    [pattern |-> pattern, prefix |-> <<>>, suffix |-> <<>>, delimiter |-> <<"=">>,
     useColours |-> "off", palette |-> "none", level |-> "Info", calls |-> <<>>]

\* Literals, escapes, letters, and keywords that end or do not end in time.
Lexing == {Usual(p) : p \in Upto({"%", "m", "x", "f", "g", " "}, 4)}

\* Blocks of padding and specs, and blocks inside blocks.
Blocks ==
    {Usual(<<"%", k>> \o Braced(b)) : k \in {"L", "n"}, b \in Upto({"<", "0", "5", ":", "u"}, 4)}
    \cup {Usual(<<"%", k>> \o b) : k \in {"t", "X", "m"}, b \in Upto({"{", "}", "u"}, 4)}
    \cup {Usual(<<"%", "L">> \o Braced(b)) :
             b \in {<<"^", "5">>, <<"0", "^", "7">>, <<":", ":", ">", "3">>, <<"3", "3">>,
                    <<"1", "3">>, <<"u", ":", "0", "6">>, <<"upper">>, <<"lower", ":", "<", "3">>}}

\* Styles in every order, and the markers of attributes.
Bold == <<"%", "bold">>
StyleEnd == <<"%", "style:end">>
Red == <<"%", "f", "g">> \o Braced(<<"red">>)
Markers ==
    {<<<<>>, <<>>>>, <<Bold \o <<"[">>, <<"]">> \o StyleEnd>>, <<Bold, <<"]">>>>,
     <<StyleEnd, Red>>, <<Bold \o StyleEnd, Red>>, <<<<"%", "A">>, <<>>>>,
     <<<<>>, <<"%", "m">>>>, <<<<"%", "bg">> \o Braced(<<"1", ",">>), <<>>>>}
TwoFields == <<[name |-> <<"k">>, value |-> [type |-> "string", num |-> 0, text |-> <<"v">>]],
               [name |-> <<"l">>, value |-> [type |-> "bool", num |-> 1, text |-> <<>>]]>>
Styling ==
    {[Usual(p) EXCEPT !.prefix = m[1], !.suffix = m[2], !.useColours = "on",
                      !.calls = TwoFields] :
        p \in Pieced({Bold, StyleEnd, <<"[">>, <<"%", "A">>, Red}, 3), m \in Markers}
    \cup {[Usual(p) EXCEPT !.prefix = Bold \o <<"[">>, !.suffix = StyleEnd,
                           !.useColours = u, !.calls = TwoFields] :
             p \in {Bold \o <<"%", "A">> \o StyleEnd,
                    Bold \o <<"[">> \o Red \o <<"%", "A">> \o StyleEnd \o StyleEnd},
             u \in {"off", "defer"}}

\* Colours: numbers around the largest component and around 2^ShortBits,
\* commas and blanks, hexadecimal digits, names.
Digits == {<<>>, <<"1">>, <<"1", "5">>, <<"1", "6">>, <<"3", "1">>, <<"3", "3">>, <<"0", "0", "7">>}
ColorSpecs ==
    {a \o <<",">> \o b \o <<",">> \o c : a \in Digits, b \in Digits, c \in Digits}
    \cup {<<"1", ",", " ", "2", " ", ",", "3">> \o tail : tail \in Upto({",", " ", "5"}, 2)}
    \cup {<<"1", ",", "2">>, <<",">>, <<" ">>, <<" ", "red", " ">>, <<"RED">>, <<"Azure">>,
          <<"teal">>, <<"red", "red">>, <<"1", ",", "red", ",", "2">>}
    \cup {<<"#">> \o h : h \in Upto({"0", "a", "C", "g"}, 3) \cup
                              {<<"0", "1", "a", "C", "1", "0">>, <<"0", "1", "a", "C", "1">>,
                               <<"0", "1", "a", "C", "1", "g">>}}
Colouring ==
    {[Usual(<<"%">> \o k \o Braced(s) \o StyleEnd) EXCEPT !.useColours = "on"] :
        k \in {<<"bg">>, <<"l", "evelColor">>}, s \in ColorSpecs}
    \cup {[Usual(<<"%", "l", "evelColor", "%", "L">> \o StyleEnd) EXCEPT
              !.useColours = "on", !.palette = p, !.level = l] :
             p \in {"azalia", "none"}, l \in LogLevel}

\* Literals and specs around the end of the 16-bit range.
LongTexts ==
    {Usual(Units(n) \o d) : n \in 29 .. 34, d \in {<<>>, <<"%", "m">>, <<"%", "%", "x">>}}
    \cup {Usual(Units(n) \o <<"%", "t">> \o Braced(<<"u">>)) : n \in 25 .. 34}
    \cup {[Usual(Units(n) \o <<"%", "bg">> \o Braced(Units(j) \o <<"red">>) \o StyleEnd)
              EXCEPT !.useColours = "on"] : n \in {0, 27, 28, 29}, j \in {0, 30, 31, 32}}

\* More pieces than there is room for.
Capacity ==
    {Usual(p) : p \in Pieced({<<"%", "%">>, <<" ">>, <<"%", "m">>, <<"%", "dim">>, StyleEnd}, 5)}

\* Records and the directives that show them.
Call(name, type, num, text) ==
    [name |-> <<name>>, value |-> [type |-> type, num |-> num, text |-> text]]
Calls ==
    {<<>>, <<Call("k", "empty", 0, <<>>)>>, <<Call("k", "bool", 0, <<>>)>>,
     <<Call("k", "unsigned", 7, <<>>), Call("k", "string", 0, <<"v">>)>>,
     <<Call("k", "unsigned", 8, <<>>)>>, <<Call("k", "int", 3, <<>>)>>,
     <<Call("l", "float", 1, <<>>), Call("k", "double", 0, <<"1.5">>)>>,
     <<Call("k", "string", 0, <<"v">>), Call("l", "empty", 0, <<>>), Call("k", "bool", 1, <<>>)>>}
Shows ==
    {<<"%", "X">> \o Braced(<<"k">>), <<"%", "A">>, <<"%", "X">>, <<"%", "X">> \o Braced(<<"none">>),
     <<"%", "t">> \o Braced(<<"iso8601">>), <<"%", "t">> \o Braced(<<"u", "u", "u", "u">>),
     <<"%", "t">>, <<"%", "T">>, <<"%", "T">> \o Braced(<<"hex", ":", "0", "7">>),
     <<"%", "l", ":", "%", "c", " ", "%", "F">>, <<"%", "f", "(", "%", "l", ")">>}
Records ==
    {[Usual(p) EXCEPT !.calls = c, !.level = l] :
        p \in Shows, c \in Calls, l \in {"Warning", "Off"}}

MCRequests ==
    UNION {Lexing, Blocks, Styling, Colouring, LongTexts, Capacity, Records}

-----------------------------------------------------------------------------
\* An integer, below zero or not.
SignedRequests ==
    {[Usual(<<"%", "X">> \o Braced(<<"k">>)) EXCEPT !.calls = <<Call("k", "int", n, <<>>)>>] :
        n \in -3 .. 3}
=============================================================================
