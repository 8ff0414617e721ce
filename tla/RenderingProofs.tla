---------------------------- MODULE RenderingProofs ----------------------------
(***************************************************************************)
(* Proofs about a record and what is made of it, for any pattern, any      *)
(* calls of With and any width of the numbers.                             *)
(***************************************************************************)
EXTENDS PatternFormatterProofs

-----------------------------------------------------------------------------
(* Attributes                                                              *)

(* The constructors give every value of a client a place in the variant.   *)
LEMMA Constructed ==
    ASSUME NEW v \in ClientValues
    PROVE  AttributeValue(v) \in Values
<1> DEFINE half == 2^(LongBits - 1)
           whole == 2^LongBits
<1>1. half \in Nat \ {0} /\ whole = 2 * half
  BY LongPowersAssumption
<1> HIDE DEF half, whole
<1>2. whole \in Nat \ {0, 1}
  BY <1>1
<1>3. /\ v.text \in Seq(STRING) /\ v.num \in Int
      /\ v.type \in {"bool", "int", "unsigned", "float", "double", "string", "empty"}
      /\ v.type = "bool" => v.num \in {0, 1}
  BY DEF ClientValues
<1>4. v.num % whole \in 0 .. whole - 1 /\ 0 \in 0 .. whole - 1 /\ 1 \in 0 .. whole - 1
  <2>1. PICK n \in Int : n = v.num
    BY <1>3
  <2>2. n % whole \in 0 .. whole - 1
    BY <1>2
  <2> QED BY <1>2, <2>1, <2>2
<1>5. <<>> \in Seq(STRING)
  BY EmptySeq
<1>6. CASE v.type = "bool"
  <2>1. AttributeValue(v) = [tag |-> "bool", num |-> v.num, text |-> <<>>]
    BY <1>6 DEF AttributeValue
  <2>2. v.num \in 0 .. whole - 1
    BY <1>3, <1>4, <1>6
  <2> QED BY <1>5, <2>1, <2>2 DEF Values, whole
<1>7. CASE v.type \in {"int", "unsigned", "float"}
  <2>1. AttributeValue(v) = [tag |-> "UInt64", num |-> v.num % whole, text |-> <<>>]
    BY <1>7 DEF AttributeValue, whole
  <2> QED BY <1>4, <1>5, <2>1 DEF Values, whole
<1>8. CASE v.type \in {"double", "string"}
  <2>1. AttributeValue(v) = [tag |-> v.type, num |-> 0, text |-> v.text]
    BY <1>8 DEF AttributeValue
  <2> QED BY <1>3, <1>4, <1>8, <2>1 DEF Values, whole
<1>9. CASE v.type = "empty"
  <2>1. AttributeValue(v) = [tag |-> "Mono", num |-> 0, text |-> <<>>]
    BY <1>9 DEF AttributeValue
  <2> QED BY <1>4, <1>5, <2>1 DEF Values, whole
<1> QED BY <1>3, <1>6, <1>7, <1>8, <1>9

\* A record whose attributes are what the constructors make.
Recorded(r) ==
    /\ r = [level |-> r.level, message |-> r.message, logger |-> r.logger,
            location |-> r.location, fields |-> r.fields]
    /\ r.level \in LogLevel
    /\ \A n \in DOMAIN r.fields : r.fields[n] \in Values

(* With adds one more, or keeps the one that is there.                     *)
LEMMA WithRecorded ==
    ASSUME NEW r, Recorded(r), NEW name, NEW v \in ClientValues
    PROVE  /\ Recorded(WithField(r, name, v))
           /\ DOMAIN WithField(r, name, v).fields = DOMAIN r.fields \cup {name}
<1> DEFINE value == AttributeValue(v)
           new == [n \in DOMAIN r.fields \cup {name} |->
                      IF n \in DOMAIN r.fields THEN r.fields[n] ELSE value]
<1>1. value \in Values
  BY Constructed
<1> HIDE DEF value
<1>2. new = [n \in DOMAIN r.fields \cup {name} |->
                IF n \in DOMAIN r.fields THEN r.fields[n] ELSE value]
  OBVIOUS
<1> HIDE DEF new
<1>3. WithField(r, name, v) = [r EXCEPT !.fields = new]
  BY DEF WithField, new, value
<1>4. [r EXCEPT !.fields = new]
          = [level |-> r.level, message |-> r.message, logger |-> r.logger,
             location |-> r.location, fields |-> new]
  BY DEF Recorded
<1>5. \A n \in DOMAIN new : new[n] \in Values
  BY <1>1, <1>2 DEF Recorded
<1> QED BY <1>2, <1>3, <1>4, <1>5 DEF Recorded

-----------------------------------------------------------------------------
(* The record, its object and what is exported                             *)

\* What the worker makes of the record, with assertions or without.
Exported(asserts) ==
    <<IF Convertible(record, asserts)
      THEN [ended |-> FALSE, log |-> logRecordToOpenTelemetry(record)]
      ELSE [ended |-> TRUE]>>

\* What there is was made of the record as it is: once it is formatted, it
\* does not change any more.
Made ==
    /\ json # <<>> => stage = "formatted" /\ json = <<AsJson(record)>>
    /\ otel # <<>> => /\ json # <<>>
                      /\ \E asserts \in BOOLEAN : otel = Exported(asserts)

RecordInv == Recorded(record) /\ attached \in 0 .. Len(request.calls) /\ Made

(* The record that Parse's caller is about to fill.                        *)
LEMMA RecordStarts == Init => RecordInv
<1> SUFFICES ASSUME Init PROVE RecordInv
  OBVIOUS
<1>1. /\ request \in Requests /\ attached = 0 /\ json = <<>> /\ otel = <<>>
      /\ record = Now(request.level, <<"message">>, <<"logger", "name">>, {"file", "line"})
  BY DEF Init, FormatterInit
<1>2. request.level \in LogLevel /\ Len(request.calls) \in Nat
  BY <1>1, RequestsAssumption, LenProperties
<1>3. Recorded(record)
  <2>1. record.fields = <<>> /\ record.level = request.level
    BY <1>1 DEF Now
  <2>2. DOMAIN record.fields = {}
    BY <2>1, EmptySeq
  <2> QED BY <1>1, <1>2, <2>1, <2>2 DEF Now, Recorded
<1> QED BY <1>1, <1>2, <1>3 DEF RecordInv, Made

(* Neither Parse nor Format changes the record, or what was made of it.    *)
LEMMA RecordUnread ==
    ASSUME RecordInv, UNCHANGED <<request, record, attached, json, otel>>,
           stage = "formatted" => stage' = "formatted"
    PROVE  RecordInv'
<1>1. Recorded(record)' /\ (attached \in 0 .. Len(request.calls))'
  BY DEF RecordInv, Recorded
<1>2. AsJson(record)' = AsJson(record) /\ \A a \in BOOLEAN : Exported(a)' = Exported(a)
  BY DEF AsJson, Held, JsonValue, Exported, Convertible, Wide,
         logRecordToOpenTelemetry, convertLogrinAttributeValue
<1>3. Made'
  BY <1>2 DEF RecordInv, Made
<1> QED BY <1>1, <1>3 DEF RecordInv

(* With: the next call's attribute, before anything is made of the record. *)
LEMMA WithPreserves ==
    ASSUME FormatterInv, RecordInv, With
    PROVE  RecordInv'
<1> DEFINE call == request.calls[attached + 1]
<1>1. request.calls \in Seq([name : Seq(STRING), value : ClientValues])
  BY RequestsAssumption DEF FormatterInv, Kept
<1>2. /\ attached \in Nat /\ attached < Len(request.calls) /\ attached' = attached + 1
      /\ stage = "ready" /\ UNCHANGED <<request, stage, json, otel>>
      /\ record' = WithField(record, call.name, call.value)
  BY <1>1, LenProperties DEF RecordInv, With
<1>3. call.value \in ClientValues
  <2>1. attached + 1 \in 1 .. Len(request.calls)
    BY <1>1, <1>2, LenProperties
  <2>2. call \in [name : Seq(STRING), value : ClientValues]
    BY <1>1, <2>1, ElementOfSeq
  <2> QED BY <2>2
<1> HIDE DEF call
<1>4. Recorded(record')
  BY <1>2, <1>3, WithRecorded DEF RecordInv
<1>5. Recorded(record)'
  BY <1>4 DEF Recorded
<1>6. (attached \in 0 .. Len(request.calls))'
  BY <1>1, <1>2, LenProperties
<1>7. json = <<>> /\ otel = <<>>
  BY <1>2 DEF RecordInv, Made
<1>8. Made'
  BY <1>2, <1>7 DEF Made
<1> QED BY <1>5, <1>6, <1>8 DEF RecordInv

(* ToJson and Export read the record as it is.                             *)
LEMMA ShowingPreserves ==
    ASSUME RecordInv, ToJson \/ \E asserts \in BOOLEAN : Export(asserts)
    PROVE  RecordInv'
<1>1. UNCHANGED <<request, stage, record, attached>>
  BY DEF ToJson, Export, formatterVars
<1>2. Recorded(record)' /\ (attached \in 0 .. Len(request.calls))'
  BY <1>1 DEF RecordInv, Recorded
<1>3. AsJson(record)' = AsJson(record) /\ \A a \in BOOLEAN : Exported(a)' = Exported(a)
  BY <1>1 DEF AsJson, Held, JsonValue, Exported, Convertible, Wide,
              logRecordToOpenTelemetry, convertLogrinAttributeValue
<1>4. CASE ToJson
  <2>1. stage = "formatted" /\ json = <<>> /\ json' = <<AsJson(record)>> /\ otel' = otel
    BY <1>4 DEF ToJson
  <2>2. otel = <<>>
    BY <2>1 DEF RecordInv, Made
  <2>3. Made'
    BY <1>1, <1>3, <2>1, <2>2 DEF Made
  <2> QED BY <1>2, <2>3 DEF RecordInv
<1>5. ASSUME NEW asserts \in BOOLEAN, Export(asserts) PROVE RecordInv'
  <2>1. json # <<>> /\ json' = json /\ otel' = Exported(asserts)
    BY <1>5 DEF Export, Exported
  <2>2. stage = "formatted" /\ json = <<AsJson(record)>>
    BY <2>1 DEF RecordInv, Made
  <2>3. Made'
    BY <1>1, <1>3, <2>1, <2>2 DEF Made
  <2> QED BY <1>2, <2>3 DEF RecordInv
<1> QED BY <1>4, <1>5

(* Every step of the program keeps it.                                     *)
LEMMA RecordPreserved == FormatterInv /\ RecordInv /\ [Next]_vars => RecordInv'
<1> SUFFICES ASSUME FormatterInv, RecordInv, [Next]_vars PROVE RecordInv'
  OBVIOUS
<1>1. CASE Setup /\ UNCHANGED renderVars
  BY <1>1, RecordUnread
     DEF Setup, ParseStep, ParsePrefix, ParseSuffix, Construct, ParseFails, ParsePattern,
         Parsing, formatterVars, callVars, renderVars
<1>2. CASE Walk /\ UNCHANGED renderVars
  <2>1. stage = "formatting" /\ UNCHANGED <<request, record>>
    BY <1>2 DEF Walk, FormatContent, emitColour, emitLevelColour, Paint, emitStyle,
           emitStyleEnd, BeginAttributes, EndPrefix, EndSuffix, EndMain, AtSegment, AtEnd,
           Emit, callVars
  <2> QED BY <1>2, <2>1, RecordUnread DEF renderVars
<1>3. CASE SetColourChoice /\ UNCHANGED renderVars
  BY <1>3, RecordUnread DEF SetColourChoice, renderVars
<1>4. CASE FormatRecord
  BY <1>4, RecordUnread DEF FormatRecord, Format, renderVars
<1>5. CASE UNCHANGED vars
  BY <1>5, RecordUnread DEF vars, formatterVars
<1> QED BY <1>1, <1>2, <1>3, <1>4, <1>5, WithPreserves, ShowingPreserves DEF Next, Ended

(* The record and what was made of it agree at every step.                 *)
THEOREM RecordInvariance == Spec => []RecordInv
BY FormatterInvariance, RecordStarts, RecordPreserved, PTL DEF Spec

(* The two conversions of an attribute agree where an Int64 is wide        *)
(* enough, and show what the pattern shows.                                *)
LEMMA ConversionsAgree ==
    ASSUME NEW value \in Values, Representable(value)
    PROVE  /\ ~Wide(value)
           /\ convertLogrinAttributeValue(value) = JsonValue(value)
           /\ Shown(JsonValue(value)) = appendAttributeValue(value)
<1>1. /\ value.tag \in {"Mono", "bool", "UInt64", "double", "string"}
      /\ value.num \in Int /\ Int64Max \in Int
  BY LongPowersAssumption DEF Values, Int64Max
<1>2. value.tag = "UInt64" => value.num <= Int64Max
  BY DEF Representable
<1>3. ~Wide(value)
  BY <1>1, <1>2 DEF Wide
<1>4. convertLogrinAttributeValue(value) = JsonValue(value)
  BY <1>1, <1>2 DEF convertLogrinAttributeValue, JsonValue
<1>5. Shown(JsonValue(value)) = appendAttributeValue(value)
  BY <1>1 DEF Shown, JsonValue, appendAttributeValue, Number, Bool, Text
<1> QED BY <1>3, <1>4, <1>5

(* logRecordToOpenTelemetry: what is lost on the way to the collector are  *)
(* numbers beyond Int64 and the level Off, and nothing else.               *)
THEOREM NothingElseIsLost == Spec => []RenderingsAgree
<1>1. RecordInv => RenderingsAgree
  <2> SUFFICES ASSUME RecordInv PROVE RenderingsAgree
    OBVIOUS
  <2>1. json # <<>> => DOMAIN json[1].attributes = Held(record)
    BY DEF RecordInv, Made, AsJson
  <2>2. ASSUME otel # <<>>, record.level # "Off",
               \A n \in Held(record) : Representable(record.fields[n])
        PROVE  /\ ~otel[1].ended
               /\ otel[1].log.attributes = json[1].attributes
               /\ \A n \in Held(record) :
                     Shown(json[1].attributes[n]) = appendAttributeValue(record.fields[n])
    <3>1. \A n \in Held(record) : record.fields[n] \in Values
      BY DEF RecordInv, Recorded, Held
    <3>2. \A n \in Held(record) :
             /\ ~Wide(record.fields[n])
             /\ convertLogrinAttributeValue(record.fields[n]) = JsonValue(record.fields[n])
             /\ Shown(JsonValue(record.fields[n])) = appendAttributeValue(record.fields[n])
      BY <2>2, <3>1, ConversionsAgree
    <3>3. record.level \in DOMAIN logLevelToSeverity
      BY <2>2 DEF RecordInv, Recorded, LogLevel, logLevelToSeverity
    <3>4. \A asserts \in BOOLEAN : Convertible(record, asserts)
      BY <3>2, <3>3 DEF Convertible
    <3>5. otel[1] = [ended |-> FALSE, log |-> logRecordToOpenTelemetry(record)]
      <4>1. PICK asserts \in BOOLEAN : otel = Exported(asserts)
        BY <2>2 DEF RecordInv, Made
      <4>2. Convertible(record, asserts)
        BY <3>4
      <4> QED BY <4>1, <4>2 DEF Exported
    <3>6. json[1].attributes = [n \in Held(record) |-> JsonValue(record.fields[n])]
      BY <2>2 DEF RecordInv, Made, AsJson
    <3>7. otel[1].log.attributes
              = [n \in Held(record) |-> convertLogrinAttributeValue(record.fields[n])]
      BY <3>5 DEF logRecordToOpenTelemetry
    <3>8. otel[1].log.attributes = json[1].attributes
      BY <3>2, <3>6, <3>7
    <3> QED BY <3>2, <3>5, <3>6, <3>8
  <2> QED BY <2>1, <2>2 DEF RenderingsAgree
<1> QED BY <1>1, RecordInvariance, PTL

-----------------------------------------------------------------------------
(* What a segment shows                                                    *)

\* The units of everything that is written: what is in the patterns and in
\* the record, and the words the directives have for it.
Space == " "
IsoTime == "iso time"
Units ==
    STRING \cup LogLevel \cup SegmentKind \cup {ToString(n) : n \in Nat}
    \cup {"message", "logger", "name", "date", "time", "default", "0x", "thread", "true", "false"}
    \cup {Space, IsoTime}

(* A part of a text, wherever it would end.                                *)
LEMMA SubstrType ==
    ASSUME NEW text \in Seq(STRING), NEW offset \in Nat, NEW length \in Nat
    PROVE  Substr(text, offset, length) \in Seq(STRING)
<1>1. PICK to \in Nat :
         /\ to <= Len(text)
         /\ Substr(text, offset, length) = SubSeq(text, offset + 1, to)
  <2>1. Len(text) \in Nat
    BY LenProperties
  <2>2. (IF offset + length > Len(text) THEN Len(text) ELSE offset + length) \in Nat
        /\ (IF offset + length > Len(text) THEN Len(text) ELSE offset + length) <= Len(text)
    BY <2>1
  <2> QED BY <2>2 DEF Substr, Slice
<1>2. CASE to < offset + 1
  <2>1. SubSeq(text, offset + 1, to) = <<>>
    BY <1>2, SubSeqEmpty
  <2> QED BY <1>1, <2>1, EmptySeq
<1>3. CASE ~(to < offset + 1)
  <2>1. offset + 1 \in Nat \ {0} /\ to \in (offset + 1) - 1 .. Len(text)
    BY <1>1, <1>3, LenProperties
  <2>2. SubSeq(text, offset + 1, to) \in Seq(STRING)
    BY ONLY <2>1, text \in Seq(STRING), SubSeqElements, Zenon
  <2> QED BY <1>1, <2>2
<1> QED BY <1>2, <1>3

\* The text is in its padding, where its alignment says.
PaddedTo(padded, content, directive) ==
    /\ Len(padded) \in {Len(content), directive.width}
    /\ Len(padded) - Len(content) >= 0 /\ Len(padded) >= directive.width
    /\ \E left \in 0 .. Len(padded) - Len(content) :
          /\ \A k \in DOMAIN padded :
                padded[k] = IF k \in left + 1 .. left + Len(content)
                            THEN content[k - left] ELSE directive.fill
          /\ CASE directive.alignment = "Left" -> left = 0
               [] directive.alignment = "Right" -> left = Len(padded) - Len(content)
               [] OTHER -> Len(padded) - Len(content) - left - left \in {0, 1}

(* applyPadding, whatever is longer and wherever the text goes.            *)
LEMMA PaddingApplied ==
    ASSUME NEW S, NEW content \in Seq(S), NEW directive \in Directives, directive.fill \in S,
           Measured(directive), NEW padded, padded = applyPadding(content, directive)
    PROVE  padded \in Seq(S) /\ PaddedTo(padded, content, directive)
<1> DEFINE n == Len(content)
           w == directive.width
           total == w - n
           left == CASE directive.alignment = "Left" -> 0
                     [] directive.alignment = "Right" -> total
                     [] OTHER -> total \div 2
           Fill(k) == [i \in 1 .. k |-> directive.fill]
<1>1. n \in Nat /\ DOMAIN content = 1 .. n /\ w \in Nat
  BY LenProperties, ShortPowerAssumption DEF Directives, Shorts
<1>2. CASE ~HasPadding(directive) \/ n >= w
  <2>1. padded = content /\ Len(padded) = n
    BY <1>2 DEF applyPadding
  <2>2. n >= w
    BY <1>1, <1>2 DEF Measured
  <2>3. /\ 0 \in 0 .. n - n /\ n - n = 0
        /\ \A k \in 1 .. n : k \in 0 + 1 .. 0 + n /\ k - 0 = k
    BY <1>1
  <2>4. \A k \in DOMAIN padded : padded[k] = IF k \in 0 + 1 .. 0 + n THEN content[k - 0]
                                             ELSE directive.fill
    BY <1>1, <2>1, <2>3
  <2> HIDE DEF n, w
  <2>5. (CASE directive.alignment = "Left" -> 0 = 0
           [] directive.alignment = "Right" -> 0 = Len(padded) - n
           [] OTHER -> Len(padded) - n - 0 - 0 \in {0, 1})
    <3>1. 0 = Len(padded) - n /\ Len(padded) - n - 0 - 0 \in {0, 1}
      BY <1>1, <2>1
    <3> QED BY ONLY <3>1, Zenon
  <2>6. padded \in Seq(S) /\ Len(padded) \in {n, w} /\ Len(padded) - n >= 0 /\ Len(padded) >= w
        /\ 0 \in 0 .. Len(padded) - n
    BY <1>1, <2>1, <2>2, <2>3
  <2> QED BY <2>4, <2>5, <2>6, Zenon DEF PaddedTo, n, w
<1>3. CASE HasPadding(directive) /\ ~(n >= w)
  <2>1. total \in Nat \ {0} /\ n + total = w
    BY <1>1, <1>3
  <2>2. left \in 0 .. total /\ total - left \in Nat /\ left \in Nat
    <3> HIDE DEF total
    <3>1. total \div 2 \in 0 .. total
      BY <2>1
    <3> QED BY <2>1, <3>1
  <2>3. padded = Fill(left) \o content \o Fill(total - left)
    BY <1>3, Zenon DEF applyPadding
  <2>4. (CASE directive.alignment = "Left" -> left = 0
           [] directive.alignment = "Right" -> left = total
           [] OTHER -> total - left - left \in {0, 1})
    <3> HIDE DEF total
    <3>1. total - total \div 2 - total \div 2 \in {0, 1}
      BY <2>1
    <3> QED BY <3>1
  <2> HIDE DEF left, total
  <2>5. \A k \in Nat : Fill(k) \in Seq(S) /\ Len(Fill(k)) = k /\ \A i \in 1 .. k : Fill(k)[i] = directive.fill
    OBVIOUS
  <2>6. PICK a \in Seq(S), b \in Seq(S) :
           /\ a = Fill(left) /\ b = Fill(total - left)
           /\ Len(a) = left /\ Len(b) = total - left
           /\ \A i \in 1 .. left : a[i] = directive.fill
           /\ \A i \in 1 .. total - left : b[i] = directive.fill
    BY <2>2, <2>5
  <2> HIDE DEF Fill
  <2>7. /\ a \o content \in Seq(S) /\ Len(a \o content) = left + n
        /\ \A i \in 1 .. left + n : (a \o content)[i] = IF i <= left THEN a[i] ELSE content[i - left]
    BY <2>6, ConcatProperties
  <2>8. PICK c \in Seq(S) : c = a \o content
    BY <2>7
  <2>9. /\ padded \in Seq(S) /\ Len(padded) = (left + n) + (total - left)
        /\ \A i \in 1 .. (left + n) + (total - left) :
              padded[i] = IF i <= left + n THEN c[i] ELSE b[i - (left + n)]
    <3>1. padded = c \o b
      BY <2>3, <2>6, <2>8
    <3>2. /\ c \o b \in Seq(S) /\ Len(c \o b) = Len(c) + Len(b)
          /\ \A i \in 1 .. Len(c) + Len(b) :
                (c \o b)[i] = IF i <= Len(c) THEN c[i] ELSE b[i - Len(c)]
      BY ONLY c \in Seq(S), b \in Seq(S), ConcatProperties, Zenon
    <3> QED BY <2>6, <2>7, <2>8, <3>1, <3>2
  <2>10. (left + n) + (total - left) = w /\ w - n = total /\ DOMAIN padded = 1 .. w
    BY <1>1, <2>1, <2>2, <2>9, LenProperties
  <2>11. ASSUME NEW k \in 1 .. w
         PROVE  padded[k] = IF k \in left + 1 .. left + n THEN content[k - left]
                            ELSE directive.fill
    <3> HIDE DEF n, w
    <3>1. CASE k <= left
      <4>1. k \in 1 .. left /\ k <= left + n /\ k \in 1 .. left + n /\ k \notin left + 1 .. left + n
        BY <1>1, <2>2, <3>1
      <4>2. padded[k] = c[k] /\ c[k] = a[k] /\ a[k] = directive.fill
        BY <2>6, <2>7, <2>8, <2>9, <2>10, <4>1
      <4> QED BY <4>1, <4>2
    <3>2. CASE k \in left + 1 .. left + n
      <4>1. ~(k <= left) /\ k <= left + n /\ k \in 1 .. left + n
        BY <1>1, <2>2, <3>2
      <4>2. padded[k] = c[k] /\ c[k] = content[k - left]
        BY <2>7, <2>8, <2>9, <2>10, <4>1
      <4> QED BY <3>2, <4>2
    <3>3. CASE k > left + n
      <4>1. ~(k <= left + n) /\ k - (left + n) \in 1 .. total - left /\ k \notin left + 1 .. left + n
        BY <1>1, <2>1, <2>2, <2>10, <3>3
      <4>2. padded[k] = b[k - (left + n)] /\ b[k - (left + n)] = directive.fill
        BY <2>6, <2>9, <2>10, <4>1
      <4> QED BY <4>1, <4>2
    <3> QED BY <1>1, <2>2, <3>1, <3>2, <3>3
  <2> HIDE DEF n, w
  <2>12. Len(padded) = w /\ Len(padded) - n = total /\ w >= n
    BY <1>1, <2>1, <2>9, <2>10
  <2>13. /\ padded \in Seq(S) /\ Len(padded) \in {n, w}
         /\ Len(padded) - n >= 0 /\ Len(padded) >= w
         /\ left \in 0 .. Len(padded) - n
    BY <1>1, <2>2, <2>9, <2>12
  <2>14. \A k \in DOMAIN padded : padded[k] = IF k \in left + 1 .. left + n THEN content[k - left]
                                              ELSE directive.fill
    BY <2>10, <2>11
  <2>15. (CASE directive.alignment = "Left" -> left = 0
           [] directive.alignment = "Right" -> left = Len(padded) - n
           [] OTHER -> Len(padded) - n - left - left \in {0, 1})
    BY ONLY <2>4, <2>12, Zenon
  <2> QED BY <2>13, <2>14, <2>15, Zenon DEF PaddedTo, n, w
<1> QED BY <1>2, <1>3

-----------------------------------------------------------------------------
(* Where the walk is                                                       *)

\* Everything the walk goes by is what it should be: the record, the order of
\* its fields, and activations that are inside the patterns they walk. A
\* marker is walked for a field, below the directive for all of them.
WalkInv ==
    /\ stage \in Stages
    /\ choice \in BOOLEAN /\ choices \in 0 .. MaxChoices
    /\ record.message = <<"message">> /\ record.logger = <<"logger", "name">>
    /\ IsFiniteSet(DOMAIN record.fields)
    /\ DOMAIN record.fields \subseteq {request.calls[i].name : i \in DOMAIN request.calls}
    /\ order \in Seq(DOMAIN record.fields)
    /\ field \in 0 .. Len(order)
    /\ out \in Seq(ToSet(out))
    /\ \A i \in DOMAIN frames :
          frames[i].next \in 1 .. Len(parsed[frames[i].pattern].segments) + 1
    /\ Len(frames) = 2 =>
          /\ field # 0 /\ frames[1].next # 1
          /\ parsed.main.segments[frames[1].next - 1].kind = "AllAttributes"
    /\ stage \notin {"formatting", "formatted", "aborted"} =>
          frames = <<>> /\ order = <<>> /\ field = 0 /\ out = <<>>
    /\ stage = "formatted" =>
          Len(frames) = 1 /\ frames[1].next > Len(parsed.main.segments)

\* The step of one segment: its text is written, or its escape sequence if
\* colours are on, and the walk goes on.
Emitted ==
    /\ AtSegment /\ Current.kind # "AllAttributes"
    /\ frames' = Advanced /\ UNCHANGED <<stage, field>>
    /\ IF Current.kind \in StyleStarts \cup {"StyleEnd"}
       THEN IF isColorsEnabled
            THEN \E rgb : out' = Append(out, StyleItem(Current.kind, rgb))
            ELSE out' = out
       ELSE out' = Append(out, TextItem(Content(Current, Walked.text)))

(* The spec of a colour is for one colour, if it is for any.               *)
LEMMA OneColour ==
    ASSUME NEW spec, parseColorSpec(spec) # {}
    PROVE  \E rgb : parseColorSpec(spec) = {rgb}
<1> DEFINE text == Trim(spec)
           named == {u \in ToSet(text) : text = <<u>> /\ toLower(u) \in DOMAIN kCSSColors}
<1>1. parseColorSpec(spec) = ColorOf(text)
  BY DEF parseColorSpec
<1> HIDE DEF text
<1>2. \/ ColorOf(text) = {}
      \/ ColorOf(text) = HexColor(Tail(text))
      \/ ColorOf(text) = RgbColor(text)
      \/ ColorOf(text) = {kCSSColors[toLower(u)] : u \in named}
  BY Zenon DEF ColorOf
<1>3. CASE ColorOf(text) = HexColor(Tail(text))
  BY <1>1, <1>3 DEF HexColor
<1>4. CASE ColorOf(text) = RgbColor(text)
  BY <1>1, <1>4 DEF RgbColor
<1>5. CASE ColorOf(text) = {kCSSColors[toLower(u)] : u \in named}
  <2>1. PICK u \in named : TRUE
    BY <1>1, <1>5
  <2>2. \A v \in named : v = u
    BY <2>1
  <2>3. ColorOf(text) = {kCSSColors[toLower(u)]}
    BY <1>5, <2>1, <2>2
  <2> QED BY <1>1, <2>3
<1> QED BY <1>1, <1>2, <1>3, <1>4, <1>5

(* The sequence made of one element.                                       *)
LEMMA OneInSequence ==
    ASSUME NEW x
    PROVE  SetToSeq({x}) = <<x>>
<1> DEFINE q == SetToSeq({x})
<1>1. IsFiniteSet({x}) /\ Cardinality({x}) = 1
  BY FS_Singleton
<1>2. \E f \in [1 .. 1 -> {x}] : IsInjective(f)
  <2>1. [i \in 1 .. 1 |-> x] \in [1 .. 1 -> {x}]
    OBVIOUS
  <2>2. IsInjective([i \in 1 .. 1 |-> x])
    BY DEF IsInjective
  <2> QED BY <2>1, <2>2
<1>3. q \in [1 .. 1 -> {x}]
  BY <1>1, <1>2 DEF SetToSeq
<1> QED BY <1>3

(* What the steps of the walk for a segment have in common.                *)
LEMMA SegmentStep ==
    ASSUME FormatterInv, KeptRead, WalkInv,
           FormatContent \/ emitColour \/ emitLevelColour \/ emitStyle \/ emitStyleEnd
    PROVE  Emitted /\ UNCHANGED <<parserVars, request, parsed, record, choice, choices, order>>
<1>1. AtSegment /\ stage = "formatting"
  BY DEF FormatContent, emitColour, emitLevelColour, emitStyle, emitStyleEnd, AtSegment
<1>2. out \o <<>> = out /\ \A e : out \o <<e>> = Append(out, e)
  <2>1. out \o <<>> = out
    BY ConcatEmptySeq DEF WalkInv
  <2>2. ASSUME NEW e PROVE out \o <<e>> = Append(out, e)
    <3>1. out \in Seq(ToSet(out) \cup {e})
      BY SeqMonotonic, ToSet(out) \subseteq ToSet(out) \cup {e} DEF WalkInv
    <3> QED BY <3>1, AppendIsConcat
  <2> QED BY <2>1, <2>2
<1>3. \A items : Emit(items) => out' = out \o items /\ frames' = Advanced /\ field' = field
         /\ UNCHANGED <<parserVars, request, parsed, record, choice, choices, order>>
  BY DEF Emit
<1>4. CASE FormatContent
  <2>1. Emit(<<TextItem(Content(Current, Walked.text))>>) /\ stage' = stage
        /\ Current.kind \notin StyleStarts \cup {"StyleEnd", "AllAttributes"}
    BY <1>4 DEF FormatContent
  <2> HIDE DEF AtSegment, Current, Walked
  <2> QED BY <1>1, <1>2, <1>3, <2>1 DEF Emitted
<1>5. ASSUME NEW rgb, stage' = stage,
             Emit(IF isColorsEnabled THEN <<StyleItem(Current.kind, rgb)>> ELSE <<>>),
             Current.kind \in StyleStarts \cup {"StyleEnd"}, Current.kind # "AllAttributes"
      PROVE  Emitted /\ UNCHANGED <<parserVars, request, parsed, record, choice, choices, order>>
  <2>1. /\ out' = IF isColorsEnabled THEN Append(out, StyleItem(Current.kind, rgb)) ELSE out
        /\ frames' = Advanced /\ field' = field
        /\ UNCHANGED <<parserVars, request, parsed, record, choice, choices, order>>
    <3>1. CASE isColorsEnabled
      BY <1>2, <1>3, <1>5, <3>1
    <3>2. CASE ~isColorsEnabled
      BY <1>2, <1>3, <1>5, <3>2
    <3> QED BY <3>1, <3>2
  <2>2. IF isColorsEnabled THEN \E c : out' = Append(out, StyleItem(Current.kind, c))
        ELSE out' = out
    BY <2>1
  <2> QED BY <1>1, <1>5, <2>1, <2>2 DEF Emitted
<1>6. CASE emitStyle \/ emitStyleEnd
  <2>1. /\ Emit(IF isColorsEnabled THEN <<StyleItem(Current.kind, <<>>)>> ELSE <<>>)
        /\ stage' = stage
        /\ Current.kind \in StyleStarts \cup {"StyleEnd"}
        /\ Current.kind # "AllAttributes"
    BY <1>6 DEF emitStyle, emitStyleEnd, StyleStarts
  <2> QED BY <1>5, <2>1
<1>7. ASSUME NEW rgb, Paint({rgb}), Current.kind \in ColorStarts
      PROVE  Emitted /\ UNCHANGED <<parserVars, request, parsed, record, choice, choices, order>>
  <2>1. SetToSeq({StyleItem(Current.kind, c) : c \in {rgb}}) = <<StyleItem(Current.kind, rgb)>>
    <3>1. {StyleItem(Current.kind, c) : c \in {rgb}} = {StyleItem(Current.kind, rgb)}
      OBVIOUS
    <3> QED BY <3>1, OneInSequence
  <2>2. /\ Emit(IF isColorsEnabled THEN <<StyleItem(Current.kind, rgb)>> ELSE <<>>)
        /\ stage' = stage
    BY <1>7, <2>1 DEF Paint
  <2>3. Current.kind \in StyleStarts \cup {"StyleEnd"} /\ Current.kind # "AllAttributes"
    BY <1>7 DEF ColorStarts, StyleStarts
  <2> QED BY <1>5, <2>2, <2>3
<1>8. ASSUME NEW colours, Paint(colours), Current.kind \in ColorStarts,
             HasSpecification(Current.directive),
             colours = parseColorSpec(Specification(Current.directive, Walked.text))
      PROVE  Emitted /\ UNCHANGED <<parserVars, request, parsed, record, choice, choices, order>>
  <2>1. colours # {}
    BY <1>1, <1>8, WalkIsInside
  <2>2. PICK rgb : colours = {rgb}
    BY <1>8, <2>1, OneColour
  <2> QED BY <1>7, <1>8, <2>2
<1>9. CASE emitColour
  <2>1. Current.kind \in ColorStarts /\ Current.kind \in Specified
    BY <1>9 DEF emitColour, ColorStarts, Specified
  <2>2. HasSpecification(Current.directive)
    <3>1. Frame \in Frames
      BY <1>1, FlatLast DEF FormatterInv, Walking, Frame
    <3>2. Typed(Walked)
      BY <3>1 DEF KeptRead, Walked, Frames
    <3>3. Frame.next \in DOMAIN Walked.segments
      BY <1>1, <3>1, <3>2, LenProperties DEF AtSegment, Frames, Typed
    <3> QED BY <2>1, <3>2, <3>3 DEF Typed, Current
  <2>3. Paint(parseColorSpec(Specification(Current.directive, Walked.text)))
    BY <1>9, <2>2 DEF emitColour
  <2> QED BY <1>8, <2>1, <2>2, <2>3
<1>10. CASE emitLevelColour
  <2>1. Current.kind \in ColorStarts
    BY <1>10 DEF emitLevelColour, ColorStarts
  <2>2. CASE HasSpecification(Current.directive)
    <3>1. Paint(parseColorSpec(Specification(Current.directive, Walked.text)))
      BY <1>10, <2>2 DEF emitLevelColour
    <3> QED BY <1>8, <2>1, <2>2, <3>1
  <2>3. CASE ~HasSpecification(Current.directive)
    <3>1. Paint({getLevelColor(record.level, Palette)})
      BY <1>10, <2>3 DEF emitLevelColour
    <3> QED BY <1>7, <2>1, <3>1
  <2> QED BY <2>2, <2>3
<1> QED BY <1>4, <1>6, <1>9, <1>10

(* How the activations move: the one that runs goes on, one is entered     *)
(* above the first, or the second one is left.                             *)
LEMMA FramesMove ==
    ASSUME NEW fs, Flat(fs), fs # <<>>, NEW p \in {"prefix", "suffix"}
    PROVE  /\ LET n == Len(fs)
                  new == [fs EXCEPT ![n].next = @ + 1]
              IN  /\ Len(new) = n /\ DOMAIN new = DOMAIN fs
                  /\ new[n].next = fs[n].next + 1 /\ new[n].pattern = fs[n].pattern
                  /\ \A i \in DOMAIN fs : i # n => new[i] = fs[i]
           /\ Len(fs) = 1 =>
                 /\ Len(Append(fs, Activation(p))) = 2
                 /\ DOMAIN Append(fs, Activation(p)) = {1, 2}
                 /\ Append(fs, Activation(p))[1] = fs[1]
                 /\ Append(fs, Activation(p))[2] = Activation(p)
           /\ Len(fs) = 2 =>
                 /\ Len(Front(fs)) = 1 /\ DOMAIN Front(fs) = {1}
                 /\ Front(fs)[1] = fs[1] /\ Flat(Front(fs)) /\ Front(fs) # <<>>
<1> DEFINE n == Len(fs)
           frame == [fs[n] EXCEPT !.next = @ + 1]
           new == [fs EXCEPT ![n].next = @ + 1]
           e == Activation(p)
<1>1. n \in 1 .. 2 /\ DOMAIN fs = 1 .. n /\ fs[n] \in Frames /\ fs \in Seq(Frames)
  BY FlatLast DEF Flat
<1>2. frame.next = fs[n].next + 1 /\ frame.pattern = fs[n].pattern
  BY <1>1 DEF Frames
<1>3. /\ Len(new) = n /\ DOMAIN new = DOMAIN fs
      /\ new[n].next = fs[n].next + 1 /\ new[n].pattern = fs[n].pattern
      /\ \A i \in DOMAIN fs : i # n => new[i] = fs[i]
  <2>1. new = [fs EXCEPT ![n] = frame]
    OBVIOUS
  <2>2. frame \in Frames
    BY <1>1 DEF Frames
  <2> HIDE DEF frame, n
  <2>3. Len(new) = Len(fs)
    BY <1>1, <2>1, <2>2, ExceptSeq DEF n
  <2> QED BY <1>1, <1>2, <2>1, <2>3 DEF n
<1>4. ASSUME n = 1
      PROVE  /\ Len(Append(fs, e)) = 2 /\ DOMAIN Append(fs, e) = {1, 2}
             /\ Append(fs, e)[1] = fs[1] /\ Append(fs, e)[2] = e
  <2>1. e \in Frames
    BY DEF Activation, Frames, Parts
  <2> HIDE DEF e
  <2>2. /\ Append(fs, e) \in Seq(Frames) /\ Len(Append(fs, e)) = Len(fs) + 1
        /\ \A i \in 1 .. Len(fs) : Append(fs, e)[i] = fs[i]
        /\ Append(fs, e)[Len(fs) + 1] = e
    BY <1>1, <2>1, AppendElements
  <2>3. DOMAIN Append(fs, e) = 1 .. 2
    BY <1>4, <2>2, LenProperties
  <2> QED BY <1>4, <2>2, <2>3
<1>5. ASSUME n = 2
      PROVE  /\ Len(Front(fs)) = 1 /\ DOMAIN Front(fs) = {1}
             /\ Front(fs)[1] = fs[1] /\ Flat(Front(fs)) /\ Front(fs) # <<>>
  <2>1. Front(fs) = SubSeq(fs, 1, 1)
    BY <1>5 DEF Front
  <2>2. SubSeq(fs, 1, 1)[1] = fs[1] /\ DOMAIN SubSeq(fs, 1, 1) = {1}
    BY <1>1, <1>5
  <2> QED BY <1>5, <2>1, <2>2, FlatLeft
<1> QED BY <1>3, <1>4, <1>5

(* An order of the fields of a record is a sequence of them.               *)
LEMMA OrderType ==
    ASSUME NEW S, IsFiniteSet(S), NEW q \in SetToSeqs(S)
    PROVE  q \in Seq(S)
<1>1. Cardinality(S) \in Nat
  BY FS_CardinalityType
<1>2. q \in [1 .. Cardinality(S) -> S]
  BY DEF SetToSeqs
<1> QED BY <1>1, <1>2, SeqDef

(* A step that is not one of the walk.                                     *)
LEMMA WalkStays ==
    ASSUME FormatterInv, WalkInv, stage' \in Stages,
           choice' \in BOOLEAN, choices' \in 0 .. MaxChoices,
           UNCHANGED <<request, record, order, field, frames, out>>,
           parsed' = parsed \/ stage \notin {"formatting", "formatted", "aborted"},
           stage # stage' => {stage, stage'} \cap {"formatting", "formatted", "aborted"} = {}
    PROVE  WalkInv'
<1>1. stage \notin {"formatting", "formatted", "aborted"} => frames = <<>>
  BY DEF WalkInv
<1>2. (\A i \in DOMAIN frames :
          frames[i].next \in 1 .. Len(parsed[frames[i].pattern].segments) + 1)'
  BY <1>1, EmptySeq DEF WalkInv
<1>3. (Len(frames) = 2 =>
          /\ field # 0 /\ frames[1].next # 1
          /\ parsed.main.segments[frames[1].next - 1].kind = "AllAttributes")'
  BY <1>1, EmptySeq DEF WalkInv
<1>4. (stage = "formatted" =>
          Len(frames) = 1 /\ frames[1].next > Len(parsed.main.segments))'
  BY DEF WalkInv
<1>5. (stage \notin {"formatting", "formatted", "aborted"} =>
          frames = <<>> /\ order = <<>> /\ field = 0 /\ out = <<>>)'
  BY DEF WalkInv
<1> QED BY <1>2, <1>3, <1>4, <1>5 DEF WalkInv

(* Where the step of the walk is: in the pattern, or in one of its markers *)
(* below the directive for all attributes.                                 *)
LEMMA WalkAt ==
    ASSUME FormatterInv, KeptRead, WalkInv, stage = "formatting"
    PROVE  /\ Flat(frames) /\ frames # <<>> /\ Len(frames) \in {1, 2}
           /\ DOMAIN frames = 1 .. Len(frames) /\ Frame = frames[Len(frames)]
           /\ Frame.pattern \in Parts /\ frames[1].pattern = "main"
           /\ Frame.pattern = "main" <=> Len(frames) = 1
           /\ Typed(Walked) /\ Len(Walked.segments) \in Nat
           /\ DOMAIN Walked.segments = 1 .. Len(Walked.segments)
           /\ Frame.next \in 1 .. Len(Walked.segments) + 1
           /\ AtSegment => /\ Frame.next \in 1 .. Len(Walked.segments)
                           /\ Current \in SegmentType
           /\ AtSegment /\ Current.kind = "AllAttributes" => Len(frames) = 1
<1>1. /\ Flat(frames) /\ frames # <<>> /\ Len(frames) \in 1 .. 2
      /\ DOMAIN frames = 1 .. Len(frames) /\ Frame = frames[Len(frames)]
      /\ Frame \in Frames
      /\ Frame.pattern = "main" <=> Len(frames) = 1
  BY FlatLast DEF FormatterInv, Walking, Frame
<1>2. frames[1].pattern = "main" /\ Frame.pattern \in Parts
  BY <1>1 DEF Flat, Frames
<1>3. Typed(Walked)
  BY <1>2 DEF KeptRead, Walked
<1>4. /\ Len(Walked.segments) \in Nat /\ DOMAIN Walked.segments = 1 .. Len(Walked.segments)
      /\ Walked.segments \in Seq(SegmentType)
  BY <1>3, LenProperties DEF Typed
<1>5. Frame.next \in 1 .. Len(Walked.segments) + 1
  BY <1>1, <1>2 DEF WalkInv, Walked
<1>6. AtSegment => Frame.next \in 1 .. Len(Walked.segments) /\ Current \in SegmentType
  BY <1>4, <1>5, ElementOfSeq DEF AtSegment, Current
<1>7. AtSegment /\ Current.kind = "AllAttributes" => Len(frames) = 1
  BY <1>1, WalkIsInside
<1> QED BY <1>1, <1>2, <1>3, <1>4, <1>5, <1>6, <1>7

\* What the walk leaves alone.
Still == UNCHANGED <<request, parsed, record, choice, choices, order>>

(* What is written is a sequence of whatever items.                        *)
LEMMA AppendGoesOn ==
    ASSUME WalkInv, out' = out \/ \E e : out' = Append(out, e)
    PROVE  out' \in Seq(ToSet(out'))
<1>1. out \in Seq(ToSet(out))
  BY DEF WalkInv
<1>2. \A e : Append(out, e) \in Seq(ToSet(Append(out, e)))
  BY <1>1, AppendAny
<1> QED BY <1>1, <1>2

(* A step of the walk inside the patterns.                                 *)
LEMMA WalkGoesOn ==
    ASSUME WalkInv, stage = "formatting", stage' = "formatting", Still,
           out' = out \/ \E e : out' = Append(out, e),
           field' \in 0 .. Len(order), NEW fs, frames' = fs,
           \A i \in DOMAIN fs : fs[i].next \in 1 .. Len(parsed[fs[i].pattern].segments) + 1,
           Len(fs) = 2 =>
              /\ field' # 0 /\ fs[1].next # 1
              /\ parsed.main.segments[fs[1].next - 1].kind = "AllAttributes"
    PROVE  WalkInv'
<1>1. out' \in Seq(ToSet(out'))
  BY AppendGoesOn
<1> QED BY <1>1 DEF WalkInv, Still, Stages

(* The text or the escape sequence of a segment.                           *)
LEMMA EmittedWalks ==
    ASSUME FormatterInv, KeptRead, WalkInv, Emitted, Still
    PROVE  WalkInv'
<1> DEFINE n == Len(frames)
<1>1. stage = "formatting" /\ stage' = "formatting" /\ field' = field /\ AtSegment
  BY DEF Emitted, AtSegment
<1>2. n \in {1, 2} /\ DOMAIN frames = 1 .. n /\ Frame = frames[n]
  BY <1>1, WalkAt
<1>3. Frame.next \in 1 .. Len(Walked.segments) /\ Len(Walked.segments) \in Nat
  BY <1>1, WalkAt
<1>4. /\ Len(frames') = n /\ DOMAIN frames' = 1 .. n
      /\ frames'[n].next = frames[n].next + 1 /\ frames'[n].pattern = frames[n].pattern
      /\ \A i \in 1 .. n : i # n => frames'[i] = frames[i]
  <2>1. Flat(frames) /\ frames # <<>>
    BY <1>1, WalkAt
  <2> QED BY <1>2, <2>1, FramesMove DEF Emitted, Advanced
<1>5. out' = out \/ \E e : out' = Append(out, e)
  BY DEF Emitted
<1>6. field' \in 0 .. Len(order)
  BY <1>1 DEF WalkInv
<1>7. n = 2 => /\ field # 0 /\ frames'[1].next # 1
               /\ parsed.main.segments[frames'[1].next - 1].kind = "AllAttributes"
  BY <1>2, <1>4 DEF WalkInv
<1> HIDE DEF n
<1>8. ASSUME NEW i \in 1 .. n
      PROVE  frames'[i].next \in 1 .. Len(parsed[frames'[i].pattern].segments) + 1
  <2>1. CASE i = n
    BY <1>2, <1>3, <1>4, <2>1 DEF Walked
  <2>2. CASE i # n
    BY <1>2, <1>4, <2>2 DEF WalkInv
  <2> QED BY <2>1, <2>2
<1>9. PICK fs : fs = frames'
  OBVIOUS
<1> QED BY <1>1, <1>4, <1>5, <1>6, <1>7, <1>8, <1>9, WalkGoesOn

(* The directive for all attributes.                                       *)
LEMMA BeginWalks ==
    ASSUME FormatterInv, KeptRead, WalkInv, BeginAttributes
    PROVE  WalkInv'
<1>1. /\ stage = "formatting" /\ stage' = "formatting" /\ AtSegment
      /\ Current.kind = "AllAttributes" /\ out' = out /\ Still
  BY DEF BeginAttributes, AtSegment, Still
<1>2. /\ Len(frames) = 1 /\ DOMAIN frames = {1} /\ Frame = frames[1] /\ Flat(frames)
      /\ frames # <<>> /\ frames[1].pattern = "main"
      /\ frames[1].next \in 1 .. Len(parsed.main.segments) /\ Len(parsed.main.segments) \in Nat
      /\ parsed.main.segments[frames[1].next].kind = "AllAttributes"
  <2>1. Len(frames) = 1 /\ Frame = frames[1] /\ frames[1].pattern = "main"
    BY <1>1, WalkAt
  <2>2. Walked = parsed.main /\ Current = parsed.main.segments[frames[1].next]
    BY <2>1 DEF Walked, Current
  <2> QED BY <1>1, <2>1, <2>2, WalkAt
<1>3. PICK fs : fs = Advanced
  OBVIOUS
<1>4. /\ Len(fs) = 1 /\ DOMAIN fs = {1} /\ Flat(fs) /\ fs # <<>>
      /\ fs[1].next = frames[1].next + 1 /\ fs[1].pattern = "main"
  BY <1>2, <1>3, FramesMove, FlatAdvanced DEF Advanced
<1>5. Len(order) \in Nat /\ (order # <<>> => Len(order) # 0)
  BY EmptySeq, LenProperties DEF WalkInv
<1>6. CASE order = <<>>
  <2>1. frames' = fs /\ field' = 0
    BY <1>3, <1>6 DEF BeginAttributes
  <2>2. field' \in 0 .. Len(order)
    BY <1>5, <2>1
  <2>3. \A i \in DOMAIN fs : fs[i].next \in 1 .. Len(parsed[fs[i].pattern].segments) + 1
    BY <1>2, <1>4
  <2>4. Len(fs) # 2
    BY <1>4
  <2> QED BY <1>1, <2>1, <2>2, <2>3, <2>4, WalkGoesOn
<1>7. CASE order # <<>>
  <2>1. frames' = Append(fs, Activation("prefix")) /\ field' = 1
    BY <1>3, <1>7 DEF BeginAttributes
  <2>2. PICK gs : gs = Append(fs, Activation("prefix"))
    OBVIOUS
  <2>3. /\ Len(gs) = 2 /\ DOMAIN gs = {1, 2} /\ gs[1] = fs[1]
        /\ gs[2].next = 1 /\ gs[2].pattern = "prefix"
    BY <1>4, <2>2, FramesMove DEF Activation
  <2>4. Len(parsed.prefix.segments) \in Nat
    BY LenProperties DEF KeptRead, Typed, Parts
  <2>5. field' \in 0 .. Len(order) /\ field' # 0
    BY <1>5, <1>7, <2>1
  <2>6. \A i \in DOMAIN gs : gs[i].next \in 1 .. Len(parsed[gs[i].pattern].segments) + 1
    BY <1>2, <1>4, <2>3, <2>4
  <2>7. gs[1].next # 1 /\ parsed.main.segments[gs[1].next - 1].kind = "AllAttributes"
    BY <1>2, <1>4, <2>3
  <2> QED BY <1>1, <2>1, <2>2, <2>5, <2>6, <2>7, WalkGoesOn
<1> QED BY <1>6, <1>7

(* From the prefix to the suffix of an attribute, or from the suffix to    *)
(* the next prefix.                                                        *)
LEMMA MarkerEntered ==
    ASSUME FormatterInv, KeptRead, WalkInv, Len(frames) = 2, stage = "formatting",
           stage' = "formatting", Still, out' = out \/ \E e : out' = Append(out, e),
           NEW p \in {"prefix", "suffix"}, frames' = Append(Front(frames), Activation(p)),
           field' \in 0 .. Len(order), field' # 0
    PROVE  WalkInv'
<1>1. /\ Len(frames) = 2 /\ Flat(frames) /\ frames # <<>> /\ DOMAIN frames = {1, 2}
      /\ frames[1].pattern = "main"
  BY WalkAt
<1>2. PICK fs : fs = Front(frames)
  OBVIOUS
<1>3. Len(fs) = 1 /\ fs[1] = frames[1] /\ Flat(fs) /\ fs # <<>>
  BY <1>1, <1>2, FramesMove
<1>4. PICK gs : gs = Append(fs, Activation(p))
  OBVIOUS
<1>5. /\ Len(gs) = 2 /\ DOMAIN gs = {1, 2} /\ gs[1] = frames[1]
      /\ gs[2].next = 1 /\ gs[2].pattern = p
  BY <1>3, <1>4, FramesMove DEF Activation
<1>6. Len(parsed[p].segments) \in Nat
  BY LenProperties DEF KeptRead, Typed, Parts
<1>7. \A i \in DOMAIN gs : gs[i].next \in 1 .. Len(parsed[gs[i].pattern].segments) + 1
  BY <1>1, <1>5, <1>6, SMTT(40) DEF WalkInv
<1>8. gs[1].next # 1 /\ parsed.main.segments[gs[1].next - 1].kind = "AllAttributes"
  BY <1>5 DEF WalkInv
<1> QED BY <1>2, <1>4, <1>7, <1>8, WalkGoesOn

(* The end of a marker.                                                    *)
LEMMA MarkerWalks ==
    ASSUME FormatterInv, KeptRead, WalkInv, EndPrefix \/ EndSuffix
    PROVE  WalkInv'
<1>1. stage = "formatting" /\ stage' = "formatting" /\ Still
  BY DEF EndPrefix, EndSuffix, AtEnd, Still
<1>2. out' = out \/ \E e : out' = Append(out, e)
  BY Zenon DEF EndPrefix, EndSuffix
<1>3. Frame.pattern # "main"
  BY DEF EndPrefix, EndSuffix, AtEnd
<1>4. Len(frames) = 2 /\ Flat(frames) /\ frames # <<>> /\ frames[1].pattern = "main"
  BY <1>1, <1>3, WalkAt
<1>5. Len(order) \in Nat /\ field \in 0 .. Len(order) /\ field # 0
  BY <1>4, LenProperties DEF WalkInv
<1>6. CASE EndPrefix
  <2>1. frames' = Append(Front(frames), Activation("suffix")) /\ field' = field
    BY <1>6 DEF EndPrefix
  <2> QED BY <1>1, <1>2, <1>4, <1>5, <2>1, MarkerEntered
<1>7. CASE EndSuffix /\ field < Len(order)
  <2>1. frames' = Append(Front(frames), Activation("prefix")) /\ field' = field + 1
    BY <1>7, Zenon DEF EndSuffix
  <2>2. field' \in 0 .. Len(order) /\ field' # 0
    BY <1>5, <1>7, <2>1
  <2> QED BY <1>1, <1>2, <1>4, <2>1, <2>2, MarkerEntered
<1>8. CASE EndSuffix /\ ~(field < Len(order))
  <2>1. frames' = Front(frames) /\ field' = 0
    BY <1>8, Zenon DEF EndSuffix
  <2>2. PICK fs : fs = Front(frames)
    OBVIOUS
  <2>3. Len(fs) = 1 /\ DOMAIN fs = {1} /\ fs[1] = frames[1]
    BY <1>4, <2>2, FramesMove
  <2>4. 1 \in DOMAIN frames
    BY <1>1, <1>4, WalkAt
  <2>5. \A i \in DOMAIN fs : fs[i].next \in 1 .. Len(parsed[fs[i].pattern].segments) + 1
    BY <2>3, <2>4 DEF WalkInv
  <2>6. field' \in 0 .. Len(order)
    BY <1>5, <2>1
  <2>7. Len(fs) # 2
    BY <2>3
  <2> QED BY <1>1, <1>2, <2>1, <2>2, <2>5, <2>6, <2>7, WalkGoesOn
<1> QED BY <1>6, <1>7, <1>8

(* Every step of the walk is Emitted, or one of the four others.           *)
LEMMA WalkIs ==
    ASSUME FormatterInv, KeptRead, WalkInv, Walk
    PROVE  /\ stage = "formatting" /\ Still
           /\ Emitted \/ BeginAttributes \/ EndPrefix \/ EndSuffix \/ EndMain
<1>1. stage = "formatting"
  BY DEF Walk, FormatContent, emitColour, emitLevelColour, emitStyle, emitStyleEnd,
         BeginAttributes, EndPrefix, EndSuffix, EndMain, AtSegment, AtEnd
<1>2. CASE FormatContent \/ emitColour \/ emitLevelColour \/ emitStyle \/ emitStyleEnd
  <2>1. Emitted /\ Still
    BY <1>2, SegmentStep DEF Still
  <2> QED BY <1>1, <2>1
<1>3. CASE BeginAttributes \/ EndPrefix \/ EndSuffix \/ EndMain
  <2>1. Still
    BY <1>3 DEF BeginAttributes, EndPrefix, EndSuffix, EndMain, Still, callVars
  <2> QED BY <1>1, <1>3, <2>1
<1> QED BY <1>2, <1>3 DEF Walk

(* The steps of Format keep the walk where it should be.                   *)
LEMMA WalkWalks ==
    ASSUME FormatterInv, KeptRead, WalkInv, Walk
    PROVE  WalkInv'
<1>1. stage = "formatting" /\ Still
  BY WalkIs
<1>2. CASE EndMain
  <2>1. /\ stage' = "formatted" /\ AtEnd("main")
        /\ UNCHANGED <<request, parsed, callVars>>
    BY <1>2 DEF EndMain
  <2>2. Len(frames) = 1 /\ Frame = frames[1] /\ frames[1].pattern = "main"
    BY <1>1, <2>1, WalkAt DEF AtEnd
  <2>3. Len(frames) = 1 /\ frames[1].next > Len(parsed.main.segments)
    BY <2>1, <2>2 DEF AtEnd, Walked
  <2> QED BY <2>1, <2>3 DEF WalkInv, callVars, Stages
<1> QED BY <1>1, <1>2, WalkIs, EmittedWalks, BeginWalks, MarkerWalks

(* Format begins in front of the pattern, with the fields in some order.   *)
LEMMA FormatWalks ==
    ASSUME FormatterInv, KeptRead, WalkInv, Format
    PROVE  WalkInv'
<1>1. /\ stage = "ready" /\ stage' = "formatting" /\ frames' = <<Activation("main")>>
      /\ order' \in SetToSeqs(DOMAIN record.fields)
      /\ UNCHANGED <<request, parsed, record, choice, choices, field, out>>
  BY DEF Format
<1>2. order' \in Seq(DOMAIN record.fields) /\ field' = 0
  BY <1>1, OrderType DEF WalkInv
<1>3. Len(order') \in Nat
  BY <1>2, LenProperties
<1>4. PICK fs : fs = <<Activation("main")>>
  OBVIOUS
<1>5. Len(fs) = 1 /\ DOMAIN fs = {1} /\ fs[1].next = 1 /\ fs[1].pattern = "main"
  BY <1>4 DEF Activation
<1>6. Len(parsed.main.segments) \in Nat
  BY LenProperties DEF KeptRead, Typed, Parts
<1>7. \A i \in DOMAIN fs : fs[i].next \in 1 .. Len(parsed[fs[i].pattern].segments) + 1
  BY <1>5, <1>6
<1>8. Len(fs) # 2 /\ frames' = fs
  BY <1>1, <1>4, <1>5
<1> QED BY <1>1, <1>2, <1>3, <1>7, <1>8 DEF WalkInv, Stages

(* With, before there is anything to walk.                                 *)
LEMMA WithWalks ==
    ASSUME FormatterInv, RecordInv, WalkInv, With
    PROVE  WalkInv'
<1> DEFINE call == request.calls[attached + 1]
           S == DOMAIN record.fields
<1>1. /\ stage = "ready" /\ attached < Len(request.calls)
      /\ record' = WithField(record, call.name, call.value)
      /\ UNCHANGED <<request, stage, parsed, choice, choices, order, field, frames, out>>
  BY DEF With
<1>2. /\ request.calls \in Seq([name : Seq(STRING), value : ClientValues])
      /\ DOMAIN request.calls = 1 .. Len(request.calls)
  BY RequestsAssumption, LenProperties DEF FormatterInv, Kept
<1>3. attached + 1 \in DOMAIN request.calls
  BY <1>1, <1>2, LenProperties DEF RecordInv
<1>4. call.value \in ClientValues
  <2>1. call \in [name : Seq(STRING), value : ClientValues]
    BY <1>2, <1>3, ElementOfSeq
  <2> QED BY <2>1
<1>5. call.name \in {request.calls[i].name : i \in DOMAIN request.calls}
  BY <1>3
<1> HIDE DEF call
<1>6. DOMAIN record'.fields = S \cup {call.name}
  BY <1>1, <1>4, WithRecorded DEF RecordInv
<1>7. record'.message = record.message /\ record'.logger = record.logger
  BY <1>1 DEF WithField, RecordInv, Recorded
<1>8. IsFiniteSet(DOMAIN record'.fields)
  <2>1. IsFiniteSet(S) /\ IsFiniteSet({call.name})
    BY FS_Singleton DEF WalkInv
  <2> HIDE DEF S
  <2>2. IsFiniteSet(S \cup {call.name})
    BY <2>1, FS_Union
  <2> QED BY <1>6, <2>2
<1>9. DOMAIN record'.fields \subseteq {request'.calls[i].name : i \in DOMAIN request'.calls}
  BY <1>1, <1>5, <1>6 DEF WalkInv
<1>10. order = <<>> /\ frames = <<>> /\ out = <<>> /\ field = 0 /\ DOMAIN frames = {}
  BY <1>1, EmptySeq DEF WalkInv
<1>11. order' \in Seq(DOMAIN record'.fields) /\ out' \in Seq(ToSet(out'))
       /\ field' \in 0 .. Len(order') /\ Len(frames') # 2
  BY <1>1, <1>10, EmptySeq
<1> QED BY <1>1, <1>7, <1>8, <1>9, <1>10, <1>11 DEF WalkInv

(* Every step of the program.                                              *)
LEMMA NextWalks ==
    FormatterInv /\ KeptRead /\ RecordInv /\ WalkInv /\ [Next]_vars => WalkInv'
<1> SUFFICES ASSUME FormatterInv, KeptRead, RecordInv, WalkInv, [Next]_vars PROVE WalkInv'
  OBVIOUS
<1>1. stage \in Stages /\ choice \in BOOLEAN /\ choices \in 0 .. MaxChoices
  BY DEF WalkInv
<1>2. CASE Setup
  <2>1. stage \in {"main", "prefix", "suffix"} /\ UNCHANGED <<request, callVars>>
    BY <1>2 DEF Setup, ParseStep, ParsePrefix, ParseSuffix, Construct, ParseFails, ParsePattern,
                Parsing, formatterVars, callVars
  <2>2. stage' \in Stages /\ stage' \notin {"formatting", "formatted", "aborted"}
    BY <1>1, <1>2, <2>1 DEF Setup, ParseStep, ParsePrefix, ParseSuffix, Construct, ParseFails,
                ParsePattern, formatterVars, Stages
  <2> QED BY <1>1, <2>1, <2>2, WalkStays DEF callVars
<1>3. CASE SetColourChoice
  <2>1. stage' = stage /\ choice' \in BOOLEAN /\ choices' \in 0 .. MaxChoices
    BY <1>1, <1>3, FormatterBoundsAssumption DEF SetColourChoice
  <2> QED BY <1>1, <1>3, <2>1, WalkStays DEF SetColourChoice
<1>4. CASE ToJson \/ (\E asserts \in BOOLEAN : Export(asserts)) \/ UNCHANGED vars
  <2>1. UNCHANGED formatterVars
    BY <1>4 DEF ToJson, Export, vars
  <2> QED BY <1>1, <2>1, WalkStays DEF formatterVars
<1> QED BY <1>2, <1>3, <1>4, WalkWalks, WithWalks, FormatWalks DEF Next, FormatRecord, Ended

(* Before the pattern is parsed nothing is walked.                         *)
LEMMA WalkStarts == Init => WalkInv
<1> SUFFICES ASSUME Init PROVE WalkInv
  OBVIOUS
<1>1. /\ stage = "main" /\ choice \in BOOLEAN /\ choices = 0 /\ order = <<>> /\ field = 0
      /\ frames = <<>> /\ out = <<>>
      /\ record = Now(request.level, <<"message">>, <<"logger", "name">>, {"file", "line"})
  BY DEF Init, FormatterInit
<1>2. /\ record.message = <<"message">> /\ record.logger = <<"logger", "name">>
      /\ record.fields = <<>>
  BY <1>1 DEF Now
<1>3. DOMAIN record.fields = {} /\ IsFiniteSet(DOMAIN record.fields) /\ DOMAIN frames = {}
  BY <1>1, <1>2, EmptySeq, FS_EmptySet
<1>4. order \in Seq(DOMAIN record.fields) /\ out \in Seq(ToSet(out)) /\ field \in 0 .. Len(order)
      /\ Len(frames) # 2 /\ choices \in 0 .. MaxChoices
  BY <1>1, EmptySeq, FormatterBoundsAssumption
<1> QED BY <1>1, <1>2, <1>3, <1>4 DEF WalkInv, Stages

\* All that is known of a program at any step.
RenderingInv == FormatterInv /\ KeptRead /\ RecordInv /\ WalkInv

(* The invariant of the whole, at every step of the program.               *)
THEOREM RenderingInvariance == Spec => []RenderingInv
BY ReadingInvariance, RecordInvariance, WalkStarts, NextWalks, PTL DEF Spec, RenderingInv

(* What is parsed, recorded, walked and made of the record is well typed,  *)
(* and the walk is inside what was parsed.                                 *)
THEOREM TypeCorrect == Spec => []TypeOK
<1>1. RenderingInv => TypeOK
  <2> SUFFICES ASSUME RenderingInv PROVE TypeOK
    OBVIOUS
  <2>1. ParserTypeOK
    BY ReadIsTrue DEF RenderingInv, FormatterInv, KeptRead
  <2>2. \A p \in {"main", "prefix", "suffix"} : Len(parsed[p].segments) <= MaxSegments
    BY DEF RenderingInv, KeptRead, Typed, Parts
  <2>3. \A n \in DOMAIN record.fields : record.fields[n] \in Values
    BY DEF RenderingInv, RecordInv, Recorded
  <2>4. ToSet(order) \subseteq DOMAIN record.fields
    BY LenProperties, ElementOfSeq DEF RenderingInv, WalkInv, ToSet
  <2>5. stage = "formatting" => frames # <<>>
    BY DEF RenderingInv, FormatterInv, Walking
  <2>6. Len(json) <= 1 /\ Len(otel) <= 1
    <3>1. (json = <<>> \/ \E e : json = <<e>>) /\ (otel = <<>> \/ \E e : otel = <<e>>)
      BY DEF RenderingInv, RecordInv, Made, Exported
    <3>2. (\A e : Len(<<e>>) = 1) /\ Len(<<>>) = 0
      OBVIOUS
    <3>3. Len(json) \in {0, 1} /\ Len(otel) \in {0, 1}
      BY ONLY <3>1, <3>2, Zenon
    <3>4. \A k \in {0, 1} : k <= 1
      OBVIOUS
    <3> QED BY ONLY <3>3, <3>4, Zenon
  <2> QED BY <2>1, <2>2, <2>3, <2>4, <2>5, <2>6 DEF RenderingInv, RecordInv, WalkInv, TypeOK
<1> QED BY <1>1, RenderingInvariance, PTL

-----------------------------------------------------------------------------
(* What is shown                                                           *)

(* The spec of a directive is a text, the spec of one unit is that unit.   *)
LEMMA SpecificationType ==
    ASSUME NEW text \in Seq(STRING), NEW directive \in Directives
    PROVE  /\ Specification(directive, text) \in Seq(STRING)
           /\ Specification(directive, text) \in Seq(Units)
<1>1. directive.offset \in Nat /\ directive.length \in Nat
  BY ShortPowerAssumption DEF Directives, Shorts
<1>2. Specification(directive, text) \in Seq(STRING)
  BY <1>1, SubstrType DEF Specification
<1>3. STRING \subseteq Units
  BY Zenon DEF Units
<1> QED BY <1>2, <1>3, SeqMonotonic

(* The name of a level is two units of what is written.                    *)
LEMMA LevelNameType ==
    ASSUME NEW level \in LogLevel, NEW spec \in Seq(STRING)
    PROVE  levelToString(level, spec) \in Seq(Units)
<1> DEFINE word == IF spec \in {<<"upper">>, <<"lower">>} THEN spec[1] ELSE "default"
<1>1. level \in Units /\ "default" \in Units /\ STRING \subseteq Units
  BY Zenon DEF Units
<1>2. spec \in {<<"upper">>, <<"lower">>} => spec[1] \in STRING
  <2>1. spec \in {<<"upper">>, <<"lower">>} => Len(spec) = 1
    OBVIOUS
  <2> QED BY <2>1, ElementOfSeq
<1>3. word \in Units
  BY <1>1, <1>2
<1>4. levelToString(level, spec) = <<level, word>>
  BY DEF levelToString
<1> HIDE DEF word
<1> QED BY <1>1, <1>3, <1>4

(* The name of a logger is, too.                                           *)
LEMMA LoggerNameType == <<"logger", "name">> \in Seq(Units) /\ <<"message">> \in Seq(Units)
<1>1. "logger" \in Units /\ "name" \in Units /\ "message" \in Units
  BY Zenon DEF Units
<1> QED BY <1>1

(* applyPadding: names of levels and loggers are as wide as asked for, and *)
(* the fill is where the alignment says.                                   *)
THEOREM NamesArePadded == Spec => []Padded
<1>1. RenderingInv => Padded
  <2> SUFFICES ASSUME RenderingInv, NEW i \in DOMAIN parsed.main.segments,
                      parsed.main.segments[i].kind \in {"Level", "Logger"}
               PROVE  PaddedTo(Content(parsed.main.segments[i], parsed.main.text),
                               Unpadded(parsed.main.segments[i]),
                               parsed.main.segments[i].directive)
    BY Zenon DEF Padded, PaddedTo
  <2> DEFINE segment == parsed.main.segments[i]
             content == Unpadded(segment)
             padded == Content(segment, parsed.main.text)
  <2>1. /\ segment \in SegmentType /\ Measured(segment.directive)
        /\ parsed.main.text \in Seq(STRING)
    BY ElementOfSeq, LenProperties DEF RenderingInv, KeptRead, Typed, Parts
  <2>2. segment.directive \in Directives /\ segment.directive.fill \in STRING
    BY <2>1 DEF SegmentType, Directives
  <2> HIDE DEF segment
  <2>3. content \in Seq(Units)
    <3>1. record.level \in LogLevel /\ record.logger = <<"logger", "name">>
      BY DEF RenderingInv, RecordInv, Recorded, WalkInv
    <3>2. Specification(segment.directive, parsed.main.text) \in Seq(STRING)
      BY <2>1, <2>2, SpecificationType
    <3> QED BY <3>1, <3>2, LevelNameType, LoggerNameType DEF Unpadded
  <2>4. padded = applyPadding(content, segment.directive)
    <3>1. segment.kind = "Level" \/ segment.kind = "Logger"
      BY DEF segment
    <3>2. CASE segment.kind = "Level"
      <4>1. padded = FormatLevel(segment, parsed.main.text)
        BY <3>2, Zenon DEF Content
      <4> QED BY <3>2, <4>1 DEF FormatLevel, Unpadded
    <3>3. CASE segment.kind = "Logger"
      <4>1. padded = FormatLogger(segment)
        BY <3>3, Zenon DEF Content
      <4> QED BY <3>3, <4>1 DEF FormatLogger, Unpadded
    <3> QED BY <3>1, <3>2, <3>3
  <2>5. segment.directive.fill \in Units
    BY <2>2, Zenon DEF Units
  <2> HIDE DEF content, padded
  <2>6. PaddedTo(padded, content, segment.directive)
    BY <2>1, <2>2, <2>3, <2>4, <2>5, PaddingApplied
  <2> QED BY <2>6 DEF segment, content, padded
<1> QED BY <1>1, RenderingInvariance, PTL

-----------------------------------------------------------------------------
(* What has been written                                                   *)

\* The first n of some texts, one after the other.
Joined(texts, n) == FlattenSeq([i \in 1 .. n |-> texts[i]])

\* What is seen of a segment, and of each segment of a marker.
Piece(segment, text) ==
    IF segment.kind \in StyleStarts \cup {"StyleEnd", "AllAttributes"} THEN <<>>
    ELSE Content(segment, text)
Pieces(pattern) ==
    [i \in DOMAIN pattern.segments |-> Piece(pattern.segments[i], pattern.text)]

\* What is seen of each attribute, and of each segment of the pattern.
Separator(k) == IF k = 1 THEN <<>> ELSE <<Space>>
Pair(k) == order[k] \o request.delimiter \o appendAttributeValue(record.fields[order[k]])
AttributeTexts ==
    [k \in DOMAIN order |->
        Separator(k) \o (Plain(parsed.prefix) \o (Pair(k) \o Plain(parsed.suffix)))]
MainTexts ==
    [i \in DOMAIN parsed.main.segments |->
        IF parsed.main.segments[i].kind = "AllAttributes" THEN FlattenSeq(AttributeTexts)
        ELSE Piece(parsed.main.segments[i], parsed.main.text)]

\* What should be seen when the walk is where it is: in the pattern, or in the
\* prefix or the suffix of a field.
InMarker(frame, k) ==
    IF frame.pattern = "prefix" THEN Joined(Pieces(parsed.prefix), frame.next - 1)
    ELSE Plain(parsed.prefix) \o (Pair(k) \o Joined(Pieces(parsed.suffix), frame.next - 1))
WrittenAt(fs, k) ==
    IF Len(fs) = 1 THEN Joined(MainTexts, fs[1].next - 1)
    ELSE Joined(MainTexts, fs[1].next - 2)
            \o (Joined(AttributeTexts, k - 1) \o (Separator(k) \o InMarker(fs[2], k)))

\* That is what is seen.
WrittenInv ==
    /\ \A i \in DOMAIN out : out[i].text \in Seq(Units)
    /\ stage \in {"formatting", "formatted"} => Visible = WrittenAt(frames, field)

(* One text more, none of them and all of them.                            *)
LEMMA JoinedTexts ==
    ASSUME NEW D, NEW texts \in Seq(Seq(D))
    PROVE  /\ Joined(texts, 0) = <<>>
           /\ Joined(texts, Len(texts)) = FlattenSeq(texts)
           /\ \A n \in 0 .. Len(texts) : Joined(texts, n) \in Seq(D)
           /\ \A n \in 1 .. Len(texts) :
                 Joined(texts, n) = Joined(texts, n - 1) \o texts[n]
<1> DEFINE First(n) == [i \in 1 .. n |-> texts[i]]
<1>1. Len(texts) \in Nat /\ texts \in [1 .. Len(texts) -> Seq(D)]
  BY LenProperties
<1>2. \A n \in 0 .. Len(texts) : First(n) \in Seq(Seq(D)) /\ Len(First(n)) = n
  BY <1>1
<1>3. First(0) = <<>> /\ First(Len(texts)) = texts
  BY <1>1
<1>4. Joined(texts, 0) = <<>>
  BY <1>3, EmptySeq, FlattenAppend DEF Joined
<1>5. ASSUME NEW n \in 0 .. Len(texts) PROVE Joined(texts, n) \in Seq(D)
  BY <1>2, FlattenType DEF Joined
<1>6. ASSUME NEW n \in 1 .. Len(texts)
      PROVE  Joined(texts, n) = Joined(texts, n - 1) \o texts[n]
  <2> DEFINE s == First(n - 1)
             e == texts[n]
  <2>1. n - 1 \in 0 .. Len(texts) /\ n \in 0 .. Len(texts) /\ e \in Seq(D)
    BY <1>1
  <2>2. s \in Seq(Seq(D)) /\ Len(s) = n - 1
    BY <1>2, <2>1
  <2>3. First(n) = Append(s, e)
    <3>1. Len(First(n)) = n /\ First(n) \in Seq(Seq(D))
      BY <1>2, <2>1
    <3>2. \A i \in 1 .. n : First(n)[i] = texts[i]
      OBVIOUS
    <3>3. \A i \in 1 .. n - 1 : s[i] = texts[i]
      OBVIOUS
    <3> HIDE DEF First, s, e
    <3>4. /\ Append(s, e) \in Seq(Seq(D)) /\ Len(Append(s, e)) = n
          /\ \A i \in 1 .. n - 1 : Append(s, e)[i] = s[i]
          /\ Append(s, e)[n] = e
      <4>1. n - 1 + 1 = n
        BY <1>1
      <4> QED BY <2>1, <2>2, <4>1, AppendElements
    <3>5. \A i \in 1 .. n : First(n)[i] = Append(s, e)[i]
      BY <3>2, <3>3, <3>4 DEF e
    <3> QED BY <1>1, <3>1, <3>4, <3>5, SeqEqual
  <2> HIDE DEF s, e
  <2>4. FlattenSeq(Append(s, e)) = FlattenSeq(s) \o e
    BY <2>1, <2>2, FlattenAppend
  <2> QED BY <2>3, <2>4 DEF Joined, s, e
<1> QED BY <1>1, <1>3, <1>4, <1>5, <1>6 DEF Joined

(* The value of an attribute, as text.                                     *)
LEMMA ValueType ==
    ASSUME NEW value \in Values
    PROVE  appendAttributeValue(value) \in Seq(Units)
<1>1. "true" \in Units /\ "false" \in Units /\ ToString(value.num) \in Units
  <2>1. value.num \in Nat
    BY LongPowersAssumption DEF Values
  <2> QED BY <2>1, Zenon DEF Units
<1>2. value.text \in Seq(Units)
  <2>1. STRING \subseteq Units
    BY Zenon DEF Units
  <2>2. value.text \in Seq(STRING)
    BY DEF Values
  <2> QED BY <2>1, <2>2, SeqMonotonic
<1>3. /\ <<"true">> \in Seq(Units) /\ <<"false">> \in Seq(Units)
      /\ <<ToString(value.num)>> \in Seq(Units)
  BY <1>1
<1> QED BY <1>2, <1>3 DEF appendAttributeValue

(* What a segment shows is made of the units.                              *)
LEMMA ContentType ==
    ASSUME RenderingInv, NEW text \in Seq(STRING), NEW segment \in SegmentType,
           Measured(segment.directive),
           segment.kind \notin StyleStarts \cup {"StyleEnd", "AllAttributes"}
    PROVE  Content(segment, text) \in Seq(Units)
<1> DEFINE spec == Specification(segment.directive, text)
<1>1. /\ segment.directive \in Directives /\ segment.kind \in SegmentKind
      /\ segment.directive.fill \in STRING /\ segment.text \in Shorts \X Shorts
  BY DEF SegmentType, Directives
<1>2. spec \in Seq(STRING) /\ spec \in Seq(Units)
  BY <1>1, SpecificationType
<1>3. STRING \subseteq Units /\ segment.directive.fill \in Units
  BY <1>1, Zenon DEF Units
<1>4. /\ record.level \in LogLevel /\ record.message = <<"message">>
      /\ record.logger = <<"logger", "name">>
      /\ \A n \in DOMAIN record.fields : record.fields[n] \in Values
  BY DEF RenderingInv, RecordInv, Recorded, WalkInv
<1>5. CASE segment.kind = "Literal"
  <2>1. segment.text[1] \in Nat /\ segment.text[2] \in Nat
    BY <1>1, ShortPowerAssumption DEF Shorts
  <2>2. FormatLiteral(segment, text) \in Seq(STRING)
    BY <2>1, SubstrType DEF FormatLiteral
  <2>3. Content(segment, text) = FormatLiteral(segment, text)
    BY <1>5, Zenon DEF Content
  <2> QED BY <1>3, <2>2, <2>3, SeqMonotonic
<1>6. CASE segment.kind = "Timestamp"
  <2>1. Content(segment, text) = FormatTimestamp(segment, text)
    BY <1>6, Zenon DEF Content
  <2>2. \/ FormatTimestamp(segment, text) = strftime(<<"date", "time">>)
        \/ FormatTimestamp(segment, text) = <<IsoTime>>
        \/ FormatTimestamp(segment, text) = strftime(spec)
    <3>1. \/ spec = <<>> /\ FormatTimestamp(segment, text) = strftime(<<"date", "time">>)
          \/ spec # <<>> /\ spec = <<"iso8601">> /\ FormatTimestamp(segment, text) = <<IsoTime>>
          \/ /\ spec # <<>> /\ spec # <<"iso8601">>
             /\ FormatTimestamp(segment, text) = strftime(spec)
      <4>1. spec = <<"iso8601">> => spec # <<>>
        OBVIOUS
      <4> QED BY <4>1, Zenon DEF FormatTimestamp, IsoTime
    <3> QED BY <3>1
  <2>3. "date" \in Units /\ "time" \in Units /\ IsoTime \in Units
    BY Zenon DEF Units
  <2>4. <<"date", "time">> \in Seq(Units) /\ <<IsoTime>> \in Seq(Units)
    BY <2>3
  <2>5. \A q \in Seq(Units) : strftime(q) \in Seq(Units)
    BY EmptySeq DEF strftime
  <2> QED BY <1>2, <2>1, <2>2, <2>4, <2>5
<1>7. CASE segment.kind = "Level"
  <2>1. Content(segment, text) = FormatLevel(segment, text)
    BY <1>7, Zenon DEF Content
  <2>2. levelToString(record.level, spec) \in Seq(Units)
    BY <1>2, <1>4, LevelNameType
  <2>3. Content(segment, text) = applyPadding(levelToString(record.level, spec), segment.directive)
    BY <2>1 DEF FormatLevel
  <2> QED BY <1>1, <1>3, <2>2, <2>3, PaddingApplied
<1>8. CASE segment.kind = "Message"
  <2>1. Content(segment, text) = record.message
    BY <1>8, Zenon DEF Content
  <2> QED BY <1>4, <2>1, LoggerNameType
<1>9. CASE segment.kind = "Logger"
  <2>1. Content(segment, text) = FormatLogger(segment)
    BY <1>9, Zenon DEF Content
  <2>2. Content(segment, text) = applyPadding(<<"logger", "name">>, segment.directive)
    BY <1>4, <2>1 DEF FormatLogger
  <2> QED BY <1>1, <1>3, <2>2, LoggerNameType, PaddingApplied
<1>10. CASE segment.kind = "ThreadId"
  <2>1. Content(segment, text) = FormatThreadId(segment, text)
    BY <1>10, Zenon DEF Content
  <2>2. "0x" \in Units /\ "thread" \in Units
    BY Zenon DEF Units
  <2>3. <<"0x", "thread">> \in Seq(Units) /\ <<"thread">> \in Seq(Units)
    BY <2>2
  <2> QED BY <2>1, <2>3 DEF FormatThreadId
<1>11. CASE segment.kind = "Attribute"
  <2>1. Content(segment, text) = FormatAttribute(segment, text)
    BY <1>11, Zenon DEF Content
  <2> QED BY <1>4, <2>1, ValueType, EmptySeq DEF FormatAttribute
<1>12. CASE segment.kind \in {"File", "FunctionName", "LineNum", "ColumnNum"}
  <2>1. Content(segment, text) = <<segment.kind>>
    <3>1. segment.kind \notin {"Literal", "Timestamp", "Level", "Message", "Logger", "ThreadId",
                               "Attribute"}
      BY <1>12
    <3> QED BY <1>12, <3>1, Zenon DEF Content
  <2>2. segment.kind \in Units
    BY <1>1, Zenon DEF Units
  <2> QED BY <2>1, <2>2
<1> QED BY <1>1, <1>5, <1>6, <1>7, <1>8, <1>9, <1>10, <1>11, <1>12 DEF SegmentKind

(* The parts of an attribute are made of them, too.                        *)
LEMMA PairType ==
    ASSUME RenderingInv, NEW k \in 1 .. Len(order)
    PROVE  /\ order[k] \in Seq(Units) /\ request.delimiter \in Seq(Units)
           /\ appendAttributeValue(record.fields[order[k]]) \in Seq(Units)
           /\ Pair(k) \in Seq(Units) /\ Separator(k) \in Seq(Units)
<1>1. STRING \subseteq Units /\ Space \in Units
  BY Zenon DEF Units
<1>2. order[k] \in DOMAIN record.fields /\ record.fields[order[k]] \in Values
  BY ElementOfSeq DEF RenderingInv, WalkInv, RecordInv, Recorded
<1>3. request.delimiter \in Seq(STRING) /\ order[k] \in Seq(STRING)
  <2>1. request \in Requests
    BY DEF RenderingInv, FormatterInv, Kept
  <2>2. request.calls \in Seq([name : Seq(STRING), value : ClientValues])
    BY <2>1, RequestsAssumption
  <2>3. \A i \in DOMAIN request.calls : request.calls[i].name \in Seq(STRING)
    <3>1. \A i \in DOMAIN request.calls :
             request.calls[i] \in [name : Seq(STRING), value : ClientValues]
      BY <2>2, LenProperties, ElementOfSeq
    <3> QED BY <3>1
  <2> QED BY <1>2, <2>1, <2>3, RequestsAssumption DEF RenderingInv, WalkInv
<1>4. /\ request.delimiter \in Seq(Units) /\ order[k] \in Seq(Units)
      /\ appendAttributeValue(record.fields[order[k]]) \in Seq(Units)
  BY <1>1, <1>2, <1>3, SeqMonotonic, ValueType
<1>5. Pair(k) \in Seq(Units)
  BY <1>4, ConcatProperties DEF Pair
<1>6. <<Space>> \in Seq(Units)
  BY <1>1
<1> QED BY <1>4, <1>5, <1>6, EmptySeq DEF Separator

(* So is everything that is put together of that.                          *)
LEMMA TextsType ==
    ASSUME RenderingInv
    PROVE  /\ \A p \in Parts : /\ Pieces(parsed[p]) \in Seq(Seq(Units))
                               /\ Len(Pieces(parsed[p])) = Len(parsed[p].segments)
                               /\ Plain(parsed[p]) = FlattenSeq(Pieces(parsed[p]))
                               /\ Plain(parsed[p]) \in Seq(Units)
           /\ \A k \in 1 .. Len(order) : Pair(k) \in Seq(Units) /\ Separator(k) \in Seq(Units)
           /\ AttributeTexts \in Seq(Seq(Units)) /\ Len(AttributeTexts) = Len(order)
           /\ MainTexts \in Seq(Seq(Units)) /\ Len(MainTexts) = Len(parsed.main.segments)
<1>1. ASSUME NEW p \in Parts
      PROVE  /\ Len(parsed[p].segments) \in Nat
             /\ DOMAIN parsed[p].segments = 1 .. Len(parsed[p].segments)
             /\ \A i \in DOMAIN parsed[p].segments :
                   Piece(parsed[p].segments[i], parsed[p].text) \in Seq(Units)
  <2>1. Typed(parsed[p])
    BY DEF RenderingInv, KeptRead
  <2>2. /\ Len(parsed[p].segments) \in Nat
        /\ DOMAIN parsed[p].segments = 1 .. Len(parsed[p].segments)
        /\ \A i \in DOMAIN parsed[p].segments : parsed[p].segments[i] \in SegmentType
    BY <2>1, LenProperties, ElementOfSeq DEF Typed
  <2>3. ASSUME NEW i \in DOMAIN parsed[p].segments
        PROVE  Piece(parsed[p].segments[i], parsed[p].text) \in Seq(Units)
    <3>1. parsed[p].segments[i] \in SegmentType /\ Measured(parsed[p].segments[i].directive)
          /\ parsed[p].text \in Seq(STRING)
      BY <2>1, <2>2 DEF Typed
    <3> QED BY <3>1, ContentType, EmptySeq DEF Piece
  <2> QED BY <2>2, <2>3
<1>2. ASSUME NEW p \in Parts
      PROVE  /\ Pieces(parsed[p]) \in Seq(Seq(Units))
             /\ Len(Pieces(parsed[p])) = Len(parsed[p].segments)
             /\ Plain(parsed[p]) = FlattenSeq(Pieces(parsed[p]))
             /\ Plain(parsed[p]) \in Seq(Units)
  <2>1. /\ Pieces(parsed[p]) \in Seq(Seq(Units))
        /\ Len(Pieces(parsed[p])) = Len(parsed[p].segments)
    BY <1>1 DEF Pieces
  <2>2. Plain(parsed[p]) = FlattenSeq(Pieces(parsed[p]))
    BY Zenon DEF Plain, Pieces, Piece
  <2> QED BY <2>1, <2>2, FlattenType
<1>3. Len(order) \in Nat /\ DOMAIN order = 1 .. Len(order)
  BY LenProperties DEF RenderingInv, WalkInv
<1>4. \A k \in 1 .. Len(order) : Pair(k) \in Seq(Units) /\ Separator(k) \in Seq(Units)
  BY PairType
<1>5. AttributeTexts \in Seq(Seq(Units)) /\ Len(AttributeTexts) = Len(order)
  <2>1. \A k \in 1 .. Len(order) :
           Separator(k) \o (Plain(parsed.prefix) \o (Pair(k) \o Plain(parsed.suffix))) \in Seq(Units)
    BY <1>2, <1>4, ConcatProperties DEF Parts
  <2> QED BY <1>3, <2>1 DEF AttributeTexts
<1>6. MainTexts \in Seq(Seq(Units)) /\ Len(MainTexts) = Len(parsed.main.segments)
  <2>1. FlattenSeq(AttributeTexts) \in Seq(Units)
    BY <1>5, FlattenType
  <2>2. /\ Len(parsed.main.segments) \in Nat
        /\ DOMAIN parsed.main.segments = 1 .. Len(parsed.main.segments)
        /\ \A i \in DOMAIN parsed.main.segments :
              Piece(parsed.main.segments[i], parsed.main.text) \in Seq(Units)
    BY <1>1 DEF Parts
  <2> QED BY <2>1, <2>2 DEF MainTexts
<1> QED BY <1>2, <1>4, <1>5, <1>6

\* Texts are put together without a thought for how they are grouped.
Cat(a, b) == a \o b

LEMMA CatTexts ==
    ASSUME NEW D, NEW a \in Seq(D), NEW b \in Seq(D)
    PROVE  Cat(a, b) \in Seq(D)
BY ConcatProperties DEF Cat

LEMMA CatAssociative ==
    ASSUME NEW D, NEW a \in Seq(D), NEW b \in Seq(D), NEW c \in Seq(D)
    PROVE  Cat(Cat(a, b), c) = Cat(a, Cat(b, c))
BY ConcatAssociative DEF Cat

(* The parts of an attribute, as they are written and as they are expected. *)
SameParts(a, b, c, d, e, f) ==
    ((((a \o b) \o c) \o d) \o e) \o f = a \o (b \o (((c \o d) \o e) \o f))

LEMMA PartsOfAttribute ==
    ASSUME NEW D, NEW a \in Seq(D), NEW b \in Seq(D), NEW c \in Seq(D), NEW d \in Seq(D),
           NEW e \in Seq(D), NEW f \in Seq(D)
    PROVE  SameParts(a, b, c, d, e, f)
<1>1. \A x, y \in Seq(D) : Cat(x, y) \in Seq(D)
  BY CatTexts, Zenon
<1>2. ASSUME NEW x \in Seq(D), NEW y \in Seq(D), NEW z \in Seq(D)
      PROVE  Cat(Cat(x, y), z) = Cat(x, Cat(y, z))
  BY CatAssociative
<1>3. \A x, y, z, u \in Seq(D) : Cat(Cat(Cat(x, y), z), u) = Cat(x, Cat(y, Cat(z, u)))
  <2> TAKE x, y, z, u \in Seq(D)
  <2>1. Cat(Cat(Cat(x, y), z), u) = Cat(Cat(x, y), Cat(z, u))
    <3>1. Cat(x, y) \in Seq(D)
      BY <1>1
    <3> QED BY <3>1, <1>2
  <2>2. Cat(z, u) \in Seq(D)
    BY <1>1
  <2>3. Cat(Cat(x, y), Cat(z, u)) = Cat(x, Cat(y, Cat(z, u)))
    BY <2>2, <1>2
  <2> QED BY <2>1, <2>3
<1>4. Cat(Cat(Cat(Cat(a, b), c), d), e) = Cat(Cat(a, b), Cat(Cat(c, d), e))
  <2>1. Cat(a, b) \in Seq(D) /\ Cat(c, d) \in Seq(D)
    BY <1>1
  <2>2. Cat(Cat(Cat(Cat(a, b), c), d), e) = Cat(Cat(a, b), Cat(c, Cat(d, e)))
    BY <2>1, <1>3
  <2>3. Cat(Cat(c, d), e) = Cat(c, Cat(d, e))
    BY <1>2
  <2> QED BY <2>2, <2>3
<1> DEFINE g == Cat(Cat(c, d), e)
<1>5. g \in Seq(D) /\ Cat(a, b) \in Seq(D) /\ Cat(g, f) \in Seq(D)
  <2>1. g \in Seq(D)
    <3>1. Cat(c, d) \in Seq(D)
      BY <1>1
    <3> QED BY <3>1, <1>1
  <2> HIDE DEF g
  <2> QED BY <2>1, <1>1
<1> HIDE DEF g
<1>6. Cat(Cat(Cat(a, b), g), f) = Cat(a, Cat(b, Cat(g, f)))
  BY <1>5, <1>3
<1>7. Cat(Cat(Cat(Cat(Cat(a, b), c), d), e), f) = Cat(a, Cat(b, Cat(Cat(Cat(c, d), e), f)))
  BY <1>4, <1>6, Zenon DEF g
<1> QED BY <1>7, Zenon DEF Cat, SameParts

(* What is written last belongs to the last of the parts.                  *)
WrittenAdded(a, b, c, x, t) == (a \o (b \o (c \o x))) \o t = a \o (b \o (c \o (x \o t)))

LEMMA PartsGoOn ==
    ASSUME NEW D, NEW a \in Seq(D), NEW b \in Seq(D), NEW c \in Seq(D), NEW x \in Seq(D),
           NEW t \in Seq(D)
    PROVE  WrittenAdded(a, b, c, x, t)
<1>1. \A y, z \in Seq(D) : Cat(y, z) \in Seq(D)
  BY CatTexts, Zenon
<1>2. ASSUME NEW y \in Seq(D), NEW z \in Seq(D), NEW u \in Seq(D)
      PROVE  Cat(Cat(y, z), u) = Cat(y, Cat(z, u))
  BY CatAssociative
<1> DEFINE cx == Cat(c, x)
           bcx == Cat(b, cx)
<1>3. cx \in Seq(D)
  BY <1>1
<1>4. Cat(cx, t) = Cat(c, Cat(x, t))
  BY <1>2
<1> HIDE DEF cx
<1>5. bcx \in Seq(D)
  BY <1>1, <1>3
<1>6. Cat(bcx, t) = Cat(b, Cat(cx, t))
  BY <1>2, <1>3
<1> HIDE DEF bcx
<1>7. Cat(Cat(a, bcx), t) = Cat(a, Cat(bcx, t))
  BY <1>2, <1>5
<1>8. Cat(Cat(a, Cat(b, Cat(c, x))), t) = Cat(a, Cat(b, Cat(c, Cat(x, t))))
  BY <1>4, <1>6, <1>7, Zenon DEF cx, bcx
<1> QED BY <1>8, Zenon DEF Cat, WrittenAdded

PartsAdded(b, c, x, t) == (b \o (c \o x)) \o t = b \o (c \o (x \o t))

LEMMA PairGoesOn ==
    ASSUME NEW D, NEW b \in Seq(D), NEW c \in Seq(D), NEW x \in Seq(D), NEW t \in Seq(D)
    PROVE  PartsAdded(b, c, x, t)
<1>1. Cat(c, x) \in Seq(D)
  BY CatTexts
<1>2. Cat(Cat(b, Cat(c, x)), t) = Cat(b, Cat(Cat(c, x), t))
  BY <1>1, CatAssociative
<1>3. Cat(Cat(c, x), t) = Cat(c, Cat(x, t))
  BY CatAssociative
<1> QED BY <1>2, <1>3, Zenon DEF Cat, PartsAdded

(* The texts are the ones that are expected.                               *)
LEMMA TextsExpected ==
    ASSUME RenderingInv
    PROVE  Attributes = FlattenSeq(AttributeTexts) /\ Expected(parsed.main) = FlattenSeq(MainTexts)
<1> DEFINE Value(k) == appendAttributeValue(record.fields[order[k]])
           Whole(k) == Separator(k) \o Plain(parsed.prefix) \o order[k] \o request.delimiter
                         \o Value(k) \o Plain(parsed.suffix)
<1>1. Attributes = FlattenSeq([k \in DOMAIN order |-> Whole(k)])
  BY Zenon DEF Attributes, Separator, Space
<1>2. ASSUME NEW k \in DOMAIN order
      PROVE  Whole(k) = Separator(k) \o (Plain(parsed.prefix) \o (Pair(k) \o Plain(parsed.suffix)))
  <2>1. k \in 1 .. Len(order)
    BY LenProperties DEF RenderingInv, WalkInv
  <2>2. /\ Separator(k) \in Seq(Units) /\ Plain(parsed.prefix) \in Seq(Units)
        /\ Plain(parsed.suffix) \in Seq(Units)
    BY <2>1, TextsType DEF Parts
  <2>3. order[k] \in Seq(Units) /\ request.delimiter \in Seq(Units) /\ Value(k) \in Seq(Units)
    BY <2>1, PairType
  <2> HIDE DEF Value
  <2>4. SameParts(Separator(k), Plain(parsed.prefix), order[k], request.delimiter, Value(k),
                  Plain(parsed.suffix))
    BY <2>2, <2>3, PartsOfAttribute
  <2> QED BY <2>4, Zenon DEF SameParts, Pair, Value
<1>3. Attributes = FlattenSeq(AttributeTexts)
  BY <1>1, <1>2 DEF AttributeTexts
<1> DEFINE segs == parsed.main.segments
           text == parsed.main.text
<1>4. ASSUME NEW i \in DOMAIN segs, segs[i].kind # "AllAttributes"
      PROVE  Plain([text |-> text, segments |-> <<segs[i]>>]) = Piece(segs[i], text)
  <2> DEFINE one == [j \in DOMAIN <<segs[i]>> |-> Piece(<<segs[i]>>[j], text)]
  <2>1. Plain([text |-> text, segments |-> <<segs[i]>>]) = FlattenSeq(one)
    BY DEF Plain, Piece
  <2>2. Len(one) = 1 /\ one[1] = Piece(segs[i], text)
    OBVIOUS
  <2> HIDE DEF one
  <2> QED BY <2>1, <2>2, FlattenOne
<1>5. Expected(parsed.main)
          = FlattenSeq([i \in DOMAIN segs |->
                IF segs[i].kind = "AllAttributes" THEN Attributes
                ELSE Plain([text |-> text, segments |-> <<segs[i]>>])])
  BY DEF Expected
<1> QED BY <1>3, <1>4, <1>5 DEF MainTexts

(* While a record is formatted the texts stay as they are.                 *)
LEMMA TextsStay ==
    ASSUME UNCHANGED <<request, parsed, record, order>>
    PROVE  /\ MainTexts' = MainTexts /\ AttributeTexts' = AttributeTexts
           /\ \A f, k : InMarker(f, k)' = InMarker(f, k)
           /\ \A k : Separator(k)' = Separator(k) /\ Pair(k)' = Pair(k)
<1>1. \A s, t : Content(s, t)' = Content(s, t)
  <2>1. \A s, t : FormatLevel(s, t)' = FormatLevel(s, t)
    BY DEF FormatLevel
  <2>2. \A s : FormatLogger(s)' = FormatLogger(s)
    BY DEF FormatLogger
  <2>3. \A s, t : FormatAttribute(s, t)' = FormatAttribute(s, t)
    BY DEF FormatAttribute
  <2>4. \A s, t : FormatTimestamp(s, t)' = FormatTimestamp(s, t)
    BY Zenon DEF FormatTimestamp
  <2> QED BY <2>1, <2>2, <2>3, <2>4, Zenon DEF Content
<1>2. \A s, t : Piece(s, t)' = Piece(s, t)
  BY <1>1 DEF Piece
<1>3. \A p : Pieces(p)' = Pieces(p) /\ Plain(p)' = Plain(p)
  BY <1>1, <1>2 DEF Pieces, Plain
<1>4. \A k : Separator(k)' = Separator(k) /\ Pair(k)' = Pair(k)
  BY DEF Separator, Pair
<1>5. AttributeTexts' = AttributeTexts
  BY <1>3, <1>4 DEF AttributeTexts
<1>6. MainTexts' = MainTexts
  BY <1>2, <1>5 DEF MainTexts
<1>7. \A f, k : InMarker(f, k)' = InMarker(f, k)
  BY <1>3, <1>4 DEF InMarker, Joined
<1> QED BY <1>4, <1>5, <1>6, <1>7

(* No texts at all.                                                        *)
LEMMA JoinedNone ==
    ASSUME NEW texts
    PROVE  Joined(texts, 0) = <<>>
<1>1. [i \in 1 .. 0 |-> texts[i]] = <<>>
  OBVIOUS
<1> QED BY <1>1 DEF Joined, FlattenSeq

(* What should be seen after a step depends on where the walk is then.     *)
LEMMA WrittenStays ==
    ASSUME UNCHANGED <<request, parsed, record, order>>,
           NEW fs, frames' = fs, NEW k, field' = k
    PROVE  WrittenAt(frames, field)' = WrittenAt(fs, k)
<1>1. /\ MainTexts' = MainTexts /\ AttributeTexts' = AttributeTexts
      /\ InMarker(fs[2], k)' = InMarker(fs[2], k) /\ Separator(k)' = Separator(k)
  BY TextsStay
<1>2. WrittenAt(frames, field)' = WrittenAt(fs, k)'
  BY DEF WrittenAt, InMarker, Separator, Pair
<1>3. WrittenAt(fs, k)' = WrittenAt(fs, k)
  BY <1>1 DEF WrittenAt
<1> QED BY <1>2, <1>3

(* What is seen of a sequence of items, and of one item more.              *)
TextOf(items) == FlattenSeq([i \in DOMAIN items |-> items[i].text])

LEMMA ItemAdded ==
    ASSUME NEW D, NEW T, NEW q \in Seq(T), \A i \in DOMAIN q : q[i].text \in Seq(D),
           NEW e, e.text \in Seq(D)
    PROVE  /\ TextOf(q) \in Seq(D)
           /\ TextOf(Append(q, e)) = TextOf(q) \o e.text
           /\ \A i \in DOMAIN Append(q, e) : Append(q, e)[i].text \in Seq(D)
<1> DEFINE n == Len(q)
           texts == [i \in DOMAIN q |-> q[i].text]
           new == Append(q, e)
           t == e.text
<1>1. n \in Nat /\ DOMAIN q = 1 .. n
  BY LenProperties
<1>2. texts \in Seq(Seq(D)) /\ Len(texts) = n
  BY <1>1
<1>3. new \in Seq(T \cup {e}) /\ Len(new) = n + 1 /\ DOMAIN new = 1 .. n + 1
      /\ (\A i \in 1 .. n : new[i] = q[i]) /\ new[n + 1] = e
  <2>1. q \in Seq(T \cup {e}) /\ e \in T \cup {e}
    BY SeqMonotonic, T \subseteq T \cup {e}
  <2> QED BY <2>1, AppendElements, LenProperties
<1> HIDE DEF n, new
<1>4. [i \in DOMAIN new |-> new[i].text] = Append(texts, t)
  <2> DEFINE more == [i \in DOMAIN new |-> new[i].text]
             last == Append(texts, t)
  <2>1. \A i \in 1 .. n + 1 : more[i] = IF i = n + 1 THEN t ELSE texts[i]
    BY <1>1, <1>3
  <2>2. more \in Seq(Seq(D)) /\ Len(more) = n + 1
    <3>1. \A i \in 1 .. n + 1 : new[i].text \in Seq(D)
      BY <1>1, <1>3
    <3> QED BY <1>1, <1>3, <3>1
  <2> HIDE DEF more, texts, t
  <2>3. t \in Seq(D)
    BY DEF t
  <2>4. /\ last \in Seq(Seq(D)) /\ Len(last) = n + 1
        /\ (\A i \in 1 .. n : last[i] = texts[i]) /\ last[n + 1] = t
    BY <1>2, <2>3, AppendElements
  <2>5. \A i \in 1 .. n + 1 : more[i] = last[i]
    BY <1>1, <2>1, <2>4
  <2> HIDE DEF last
  <2>6. more = last
    BY <1>1, <2>2, <2>4, <2>5, SeqEqual
  <2> QED BY <2>6 DEF more, last
<1>5. TextOf(new) = TextOf(q) \o t
  <2>1. t \in Seq(D)
    OBVIOUS
  <2> HIDE DEF texts, t
  <2>2. FlattenSeq(Append(texts, t)) = FlattenSeq(texts) \o t
    BY <1>2, <2>1, FlattenAppend
  <2> QED BY <1>4, <2>2 DEF TextOf, texts
<1>6. TextOf(q) \in Seq(D)
  <2> HIDE DEF texts
  <2> QED BY <1>2, FlattenType DEF TextOf, texts
<1>7. \A i \in DOMAIN new : new[i].text \in Seq(D)
  BY <1>1, <1>3
<1> QED BY <1>5, <1>6, <1>7 DEF new

(* The text of a segment is seen at the end of what was seen.              *)
LEMMA EmittedWritten ==
    ASSUME RenderingInv, WrittenInv, stage = "formatting", AtSegment,
           Current.kind # "AllAttributes",
           NEW t, t = Piece(Current, Walked.text), NEW fs, fs = Advanced
    PROVE  WrittenAt(fs, field) = WrittenAt(frames, field) \o t
<1> DEFINE n == Len(frames)
           i == Frame.next
<1>1. FormatterInv /\ KeptRead /\ WalkInv
  BY DEF RenderingInv
<1>2. /\ n \in {1, 2} /\ Frame = frames[n] /\ Flat(frames) /\ frames # <<>>
      /\ DOMAIN frames = 1 .. n
      /\ Frame.pattern \in Parts /\ (Frame.pattern = "main" <=> n = 1)
      /\ i \in 1 .. Len(Walked.segments) /\ Len(Walked.segments) \in Nat
      /\ DOMAIN Walked.segments = 1 .. Len(Walked.segments)
  BY <1>1, WalkAt
<1>3. /\ Len(fs) = n /\ fs[n].next = i + 1 /\ fs[n].pattern = Frame.pattern
      /\ n = 2 => fs[1] = frames[1]
  BY <1>2, FramesMove DEF Advanced
<1>4. Walked.segments[i] = Current
  BY DEF Current
<1> HIDE DEF n
<1>5. CASE n = 1
  <2>1. Walked = parsed.main
    BY <1>2, <1>5 DEF Walked
  <2>2. MainTexts[i] = t
    BY <1>2, <1>4, <2>1, Zenon DEF MainTexts
  <2>3. Joined(MainTexts, i) = Joined(MainTexts, i - 1) \o MainTexts[i]
    BY <1>2, <2>1, TextsType, JoinedTexts
  <2>4. WrittenAt(fs, field) = Joined(MainTexts, i)
    BY <1>2, <1>3, <1>5 DEF WrittenAt, n
  <2>5. WrittenAt(frames, field) = Joined(MainTexts, i - 1)
    BY <1>2, <1>5 DEF WrittenAt, n
  <2> QED BY <2>2, <2>3, <2>4, <2>5, Zenon
<1>6. CASE n = 2
  <2> DEFINE m == Joined(MainTexts, frames[1].next - 2)
             a == Joined(AttributeTexts, field - 1)
             b == Separator(field)
             x == InMarker(frames[2], field)
  <2>1. PICK p \in {"prefix", "suffix"} : p = Frame.pattern /\ Walked = parsed[p]
    BY <1>2, <1>6 DEF Walked, Parts
  <2>2. Pieces(parsed[p])[i] = t
    BY <1>2, <1>4, <2>1, Zenon DEF Pieces
  <2>3. /\ Pieces(parsed[p]) \in Seq(Seq(Units))
        /\ Len(Pieces(parsed[p])) = Len(Walked.segments)
        /\ Plain(parsed.prefix) \in Seq(Units)
    BY <2>1, TextsType DEF Parts
  <2> DEFINE j == Joined(Pieces(parsed[p]), i - 1)
  <2>4. Joined(Pieces(parsed[p]), i) = j \o t /\ j \in Seq(Units) /\ t \in Seq(Units)
    <3>1. i - 1 \in 0 .. Len(Walked.segments) /\ i \in 1 .. Len(Walked.segments)
      BY <1>2
    <3>2. Pieces(parsed[p])[i] \in Seq(Units)
      BY <2>3, <3>1, ElementOfSeq
    <3> QED BY <2>2, <2>3, <3>1, <3>2, JoinedTexts
  <2>5. field \in 1 .. Len(order) /\ Len(order) \in Nat
    BY <1>1, <1>6, LenProperties DEF WalkInv, n
  <2>6. Pair(field) \in Seq(Units) /\ b \in Seq(Units)
    BY <2>5, TextsType
  <2>7. m \in Seq(Units)
    <3>1. frames[1].next \in 1 .. Len(parsed.main.segments) + 1 /\ frames[1].next # 1
      BY <1>1, <1>2, <1>6, SMTT(40) DEF WalkInv, n, Flat, Walking
    <3>2. frames[1].next - 2 \in 0 .. Len(MainTexts)
      BY <3>1, TextsType, LenProperties
    <3> QED BY <3>2, TextsType, JoinedTexts
  <2>8. a \in Seq(Units)
    <3>1. field - 1 \in 0 .. Len(AttributeTexts)
      BY <2>5, TextsType
    <3> QED BY <3>1, TextsType, JoinedTexts
  <2>9. InMarker(fs[2], field) = x \o t /\ x \in Seq(Units)
    <3>1. fs[2].next - 1 = i /\ frames[2].next = i /\ fs[2].pattern = p /\ frames[2].pattern = p
      BY <1>2, <1>3, <1>6, <2>1
    <3>2. CASE p = "prefix"
      BY <2>4, <3>1, <3>2, Zenon DEF InMarker
    <3>3. CASE p = "suffix"
      <4>1. x = Plain(parsed.prefix) \o (Pair(field) \o j)
        BY <3>1, <3>3 DEF InMarker
      <4>2. InMarker(fs[2], field) = Plain(parsed.prefix) \o (Pair(field) \o (j \o t))
        BY <2>4, <3>1, <3>3 DEF InMarker
      <4> HIDE DEF j, x
      <4>3. PartsAdded(Plain(parsed.prefix), Pair(field), j, t)
        BY <2>3, <2>4, <2>6, PairGoesOn
      <4>4. x \in Seq(Units)
        BY <2>3, <2>4, <2>6, <4>1, ConcatProperties
      <4> QED BY <4>1, <4>2, <4>3, <4>4, Zenon DEF PartsAdded
    <3> QED BY <3>2, <3>3
  <2>10. WrittenAt(fs, field) = m \o (a \o (b \o (x \o t)))
    <3>1. Len(fs) # 1 /\ fs[1] = frames[1]
      BY <1>3, <1>6
    <3> QED BY <2>9, <3>1, Zenon DEF WrittenAt
  <2>11. WrittenAt(frames, field) = m \o (a \o (b \o x))
    BY <1>6 DEF WrittenAt, n
  <2> HIDE DEF m, a, b, x
  <2>12. WrittenAdded(m, a, b, x, t)
    BY <2>4, <2>6, <2>7, <2>8, <2>9, PartsGoOn
  <2> QED BY <2>10, <2>11, <2>12, Zenon DEF WrittenAdded
<1> QED BY <1>2, <1>5, <1>6

(* A step of the walk that shows a text shows it at the end.               *)
Shows(t) ==
    /\ Visible' = Visible \o t
    /\ (\A i \in DOMAIN out : out[i].text \in Seq(Units))'

LEMMA ItemShown ==
    ASSUME WalkInv, WrittenInv, NEW e, e.text \in Seq(Units), out' = Append(out, e)
    PROVE  Shows(e.text) /\ Visible \in Seq(Units)
<1>1. /\ out \in Seq(ToSet(out)) /\ \A i \in DOMAIN out : out[i].text \in Seq(Units)
  BY DEF WalkInv, WrittenInv
<1>2. /\ TextOf(out) \in Seq(Units)
      /\ TextOf(Append(out, e)) = TextOf(out) \o e.text
      /\ \A i \in DOMAIN Append(out, e) : Append(out, e)[i].text \in Seq(Units)
  BY <1>1, ItemAdded
<1>3. Visible = TextOf(out) /\ Visible' = TextOf(Append(out, e))
  BY Zenon DEF Visible, TextOf
<1>4. (\A i \in DOMAIN out : out[i].text \in Seq(Units))'
  BY <1>2
<1> QED BY <1>2, <1>3, <1>4, Zenon DEF Shows

(* The step of a segment.                                                  *)
LEMMA EmittedKeepsText ==
    ASSUME RenderingInv, WrittenInv, Emitted, Still
    PROVE  WrittenInv'
<1>1. /\ stage = "formatting" /\ AtSegment /\ stage' = "formatting" /\ field' = field
      /\ frames' = Advanced /\ Current.kind # "AllAttributes"
  BY DEF Emitted, AtSegment
<1>2. FormatterInv /\ KeptRead /\ WalkInv /\ Visible = WrittenAt(frames, field)
      /\ (\A i \in DOMAIN out : out[i].text \in Seq(Units))
  BY <1>1 DEF RenderingInv, WrittenInv
<1>3. PICK t : t = Piece(Current, Walked.text)
  OBVIOUS
<1>4. PICK fs : fs = Advanced
  OBVIOUS
<1>5. WrittenAt(fs, field) = WrittenAt(frames, field) \o t
  BY <1>1, <1>3, <1>4, EmittedWritten
<1>6. WrittenAt(frames, field)' = WrittenAt(fs, field)
  BY <1>1, <1>4, WrittenStays DEF Still
<1>7. CASE Current.kind \in StyleStarts \cup {"StyleEnd"}
  <2>1. t = <<>>
    BY <1>3, <1>7 DEF Piece
  <2>2. Visible' = Visible \o <<>> /\ (\A i \in DOMAIN out : out[i].text \in Seq(Units))'
    <3>1. CASE isColorsEnabled
      <4>1. PICK rgb : out' = Append(out, StyleItem(Current.kind, rgb))
        BY <1>7, <3>1 DEF Emitted
      <4>2. PICK e : e = StyleItem(Current.kind, rgb)
        OBVIOUS
      <4>3. e.text = <<>> /\ <<>> \in Seq(Units)
        BY <4>2, EmptySeq DEF StyleItem
      <4> QED BY <1>2, <4>1, <4>2, <4>3, ItemShown DEF Shows
    <3>2. CASE ~isColorsEnabled
      <4>1. out' = out
        BY <1>7, <3>2 DEF Emitted
      <4>2. Visible \in Seq(Units)
        <5>1. out \in Seq(ToSet(out))
          BY <1>2 DEF WalkInv
        <5> DEFINE e == [text |-> <<>>]
        <5>2. e.text \in Seq(Units)
          BY EmptySeq
        <5> HIDE DEF e
        <5>3. TextOf(out) \in Seq(Units)
          BY <1>2, <5>1, <5>2, ItemAdded
        <5> QED BY <5>3, Zenon DEF TextOf, Visible
      <4>3. Visible' = Visible
        BY <4>1 DEF Visible
      <4>4. Visible \o <<>> = Visible
        BY <4>2, ConcatEmptySeq
      <4> QED BY <1>2, <4>1, <4>3, <4>4
    <3> QED BY <3>1, <3>2
  <2> QED BY <1>1, <1>2, <1>5, <1>6, <2>1, <2>2 DEF WrittenInv
<1>8. CASE Current.kind \notin StyleStarts \cup {"StyleEnd"}
  <2>1. t = Content(Current, Walked.text)
    BY <1>1, <1>3, <1>8 DEF Piece
  <2>2. PICK e : e = TextItem(t)
    OBVIOUS
  <2>3. out' = Append(out, e) /\ e.text = t
    BY <1>8, <2>1, <2>2 DEF Emitted, TextItem
  <2>4. t \in Seq(Units)
    <3>1. Typed(Walked) /\ Walked.segments[Frame.next] = Current
          /\ Frame.next \in DOMAIN Walked.segments /\ Current \in SegmentType
      BY <1>1, <1>2, WalkAt DEF Current
    <3>2. Measured(Current.directive) /\ Walked.text \in Seq(STRING)
      BY <3>1 DEF Typed
    <3> QED BY <1>1, <1>8, <2>1, <3>1, <3>2, ContentType
  <2>5. Shows(t)
    BY <1>2, <2>3, <2>4, ItemShown
  <2> QED BY <1>1, <1>2, <1>5, <1>6, <2>5 DEF WrittenInv, Shows
<1> QED BY <1>7, <1>8

(* Where the texts of a marker stand: below the directive for all          *)
(* attributes, for one of the fields.                                      *)
LEMMA MarkerAt ==
    ASSUME RenderingInv, stage = "formatting", Len(frames) = 2
    PROVE  /\ frames[1].next - 1 \in 1 .. Len(MainTexts)
           /\ MainTexts[frames[1].next - 1] = FlattenSeq(AttributeTexts)
           /\ field \in 1 .. Len(order) /\ Len(order) \in Nat
           /\ Joined(MainTexts, frames[1].next - 2) \in Seq(Units)
           /\ Joined(MainTexts, frames[1].next - 1)
                 = Joined(MainTexts, frames[1].next - 2) \o FlattenSeq(AttributeTexts)
           /\ Joined(AttributeTexts, field - 1) \in Seq(Units)
           /\ Joined(AttributeTexts, field)
                 = Joined(AttributeTexts, field - 1) \o AttributeTexts[field]
           /\ AttributeTexts[field]
                 = Separator(field) \o (Plain(parsed.prefix) \o (Pair(field) \o Plain(parsed.suffix)))
<1> DEFINE i == frames[1].next - 1
<1>1. FormatterInv /\ KeptRead /\ WalkInv
  BY DEF RenderingInv
<1>2. frames[1].pattern = "main" /\ DOMAIN frames = {1, 2}
  BY <1>1, WalkAt
<1>3. /\ Len(parsed.main.segments) \in Nat /\ Len(parsed.main.segments) = Len(MainTexts)
      /\ DOMAIN parsed.main.segments = 1 .. Len(parsed.main.segments)
  BY <1>1, TextsType, LenProperties DEF KeptRead, Typed, Parts
<1>4. i \in 1 .. Len(MainTexts) /\ parsed.main.segments[i].kind = "AllAttributes"
  BY <1>1, <1>2, <1>3, SMTT(40) DEF WalkInv
<1>5. field \in 1 .. Len(order) /\ Len(order) \in Nat
  BY <1>1, LenProperties DEF WalkInv
<1>6. /\ frames[1].next - 2 = i - 1 /\ i - 1 \in 0 .. Len(MainTexts)
      /\ field - 1 \in 0 .. Len(AttributeTexts) /\ field \in 1 .. Len(AttributeTexts)
      /\ DOMAIN order = 1 .. Len(order)
  <2>1. frames[1].next \in Nat
    BY <1>1, <1>2, <1>3 DEF WalkInv
  <2>2. Len(AttributeTexts) = Len(order)
    BY TextsType
  <2>3. DOMAIN order = 1 .. Len(order)
    BY <1>1, LenProperties DEF WalkInv
  <2> QED BY <1>3, <1>4, <1>5, <2>1, <2>2, <2>3
<1> HIDE DEF i
<1>7. MainTexts[i] = FlattenSeq(AttributeTexts)
  BY <1>3, <1>4 DEF MainTexts
<1>8. AttributeTexts[field]
        = Separator(field) \o (Plain(parsed.prefix) \o (Pair(field) \o Plain(parsed.suffix)))
  BY <1>5, <1>6, Zenon DEF AttributeTexts
<1>9. /\ Joined(MainTexts, i - 1) \in Seq(Units)
      /\ Joined(MainTexts, i) = Joined(MainTexts, i - 1) \o MainTexts[i]
      /\ Joined(AttributeTexts, field - 1) \in Seq(Units)
      /\ Joined(AttributeTexts, field) = Joined(AttributeTexts, field - 1) \o AttributeTexts[field]
  BY <1>4, <1>6, TextsType, JoinedTexts
<1> QED BY <1>4, <1>5, <1>6, <1>7, <1>8, <1>9, Zenon DEF i

(* From the pattern to the prefix of the first attribute.                  *)
LEMMA BeginKeepsText ==
    ASSUME RenderingInv, WrittenInv, BeginAttributes
    PROVE  WrittenInv'
<1>1. /\ stage = "formatting" /\ stage' = "formatting" /\ AtSegment
      /\ Current.kind = "AllAttributes" /\ out' = out
      /\ UNCHANGED <<request, parsed, record, order>>
  BY DEF BeginAttributes, AtSegment
<1>2. FormatterInv /\ KeptRead /\ WalkInv /\ Visible = WrittenAt(frames, field)
      /\ (\A i \in DOMAIN out : out[i].text \in Seq(Units))
  BY <1>1 DEF RenderingInv, WrittenInv
<1>3. Visible' = Visible /\ (\A i \in DOMAIN out : out[i].text \in Seq(Units))'
  BY <1>1, <1>2 DEF Visible
<1>4. SUFFICES WrittenAt(frames, field)' = WrittenAt(frames, field)
  BY <1>1, <1>2, <1>3 DEF WrittenInv
<1> DEFINE n == frames[1].next
<1>5. /\ Len(frames) = 1 /\ Frame = frames[1] /\ frames[1].pattern = "main" /\ Flat(frames)
      /\ frames # <<>> /\ n \in 1 .. Len(Walked.segments) /\ Walked = parsed.main
  <2>1. /\ Len(frames) = 1 /\ Frame = frames[1] /\ frames[1].pattern = "main" /\ Flat(frames)
        /\ frames # <<>> /\ Frame.next \in 1 .. Len(Walked.segments)
    BY <1>1, <1>2, WalkAt
  <2> QED BY <2>1 DEF Walked
<1>6. Len(parsed.main.segments) \in Nat /\ Len(parsed.main.segments) = Len(MainTexts)
      /\ DOMAIN parsed.main.segments = 1 .. Len(parsed.main.segments)
  BY <1>2, TextsType, LenProperties DEF KeptRead, Typed, Parts
<1>7. MainTexts[n] = FlattenSeq(AttributeTexts)
  BY <1>1, <1>5, <1>6 DEF MainTexts, Current
<1>8. PICK fs : fs = Advanced
  OBVIOUS
<1>9. Len(fs) = 1 /\ fs[1].next = n + 1 /\ Flat(fs) /\ fs # <<>>
  BY <1>5, <1>8, FramesMove, FlatAdvanced DEF Advanced
<1>10. WrittenAt(frames, field) = Joined(MainTexts, n - 1)
  BY <1>5 DEF WrittenAt
<1> HIDE DEF n
<1>11. Joined(MainTexts, n - 1) \in Seq(Units)
       /\ Joined(MainTexts, n) = Joined(MainTexts, n - 1) \o FlattenSeq(AttributeTexts)
  <2>1. n - 1 \in 0 .. Len(MainTexts) /\ n \in 1 .. Len(MainTexts)
    BY <1>5, <1>6
  <2> QED BY <1>7, <2>1, TextsType, JoinedTexts
<1>12. CASE order = <<>>
  <2>1. frames' = fs /\ field' = 0
    BY <1>8, <1>12 DEF BeginAttributes
  <2>2. WrittenAt(frames, field)' = WrittenAt(fs, 0)
    BY <1>1, <2>1, WrittenStays
  <2>3. WrittenAt(fs, 0) = Joined(MainTexts, n)
    <3>1. fs[1].next - 1 = n
      BY <1>5, <1>6, <1>9
    <3> QED BY <1>9, <3>1 DEF WrittenAt
  <2>4. FlattenSeq(AttributeTexts) = <<>>
    <3>1. AttributeTexts = <<>>
      BY <1>12, EmptySeq, TextsType
    <3> QED BY <3>1, EmptySeq, FlattenAppend
  <2>5. Joined(MainTexts, n) = Joined(MainTexts, n - 1)
    BY <1>11, <2>4, ConcatEmptySeq
  <2> QED BY <1>10, <2>2, <2>3, <2>5
<1>13. CASE order # <<>>
  <2>1. PICK gs : gs = Append(fs, Activation("prefix"))
    OBVIOUS
  <2>2. frames' = gs /\ field' = 1
    BY <1>8, <1>13, <2>1 DEF BeginAttributes
  <2>3. Len(gs) = 2 /\ gs[1] = fs[1] /\ gs[2].next = 1 /\ gs[2].pattern = "prefix"
    BY <1>9, <2>1, FramesMove DEF Activation
  <2>4. WrittenAt(frames, field)' = WrittenAt(gs, 1)
    BY <1>1, <2>2, WrittenStays
  <2>5. WrittenAt(gs, 1) = Joined(MainTexts, n - 1)
           \o (Joined(AttributeTexts, 0) \o (Separator(1) \o Joined(Pieces(parsed.prefix), 0)))
    <3>1. gs[1].next - 2 = n - 1 /\ gs[2].next - 1 = 0 /\ 1 - 1 = 0 /\ Len(gs) # 1
      BY <1>5, <1>6, <1>9, <2>3
    <3> QED BY <2>3, <3>1, Zenon DEF WrittenAt, InMarker
  <2>6. /\ Joined(AttributeTexts, 0) = <<>> /\ Joined(Pieces(parsed.prefix), 0) = <<>>
        /\ Separator(1) = <<>>
    BY JoinedNone DEF Separator
  <2>7. <<>> \o <<>> = <<>> /\ Joined(MainTexts, n - 1) \o <<>> = Joined(MainTexts, n - 1)
    BY <1>11, ConcatEmptySeq, EmptySeq
  <2> QED BY <1>10, <2>4, <2>5, <2>6, <2>7, Zenon
<1> QED BY <1>12, <1>13

(* The key, the delimiter and the value, between prefix and suffix.        *)
LEMMA PrefixKeepsText ==
    ASSUME RenderingInv, WrittenInv, EndPrefix
    PROVE  WrittenInv'
<1>1. /\ stage = "formatting" /\ stage' = "formatting" /\ field' = field
      /\ Frame.pattern = "prefix" /\ Frame.next > Len(Walked.segments)
      /\ UNCHANGED <<request, parsed, record, order>>
  BY DEF EndPrefix, AtEnd
<1>2. FormatterInv /\ KeptRead /\ WalkInv /\ Visible = WrittenAt(frames, field)
  BY <1>1 DEF RenderingInv, WrittenInv
<1>3. /\ Len(frames) = 2 /\ Frame = frames[2] /\ Flat(frames) /\ frames # <<>>
      /\ Frame.next \in 1 .. Len(Walked.segments) + 1 /\ Len(Walked.segments) \in Nat
  BY <1>1, <1>2, WalkAt
<1>4. Walked = parsed.prefix /\ frames[2].next - 1 = Len(parsed.prefix.segments)
  <2>1. Walked = parsed.prefix
    BY <1>1 DEF Walked
  <2> QED BY <1>1, <1>3, <2>1
<1> DEFINE m == Joined(MainTexts, frames[1].next - 2)
           a == Joined(AttributeTexts, field - 1)
           b == Separator(field)
           x == Plain(parsed.prefix)
           t == Pair(field)
<1>5. InMarker(frames[2], field) = x
  <2>1. InMarker(frames[2], field) = Joined(Pieces(parsed.prefix), Len(parsed.prefix.segments))
    BY <1>1, <1>3, <1>4, Zenon DEF InMarker
  <2> QED BY <2>1, TextsType, JoinedTexts DEF Parts
<1>6. WrittenAt(frames, field) = m \o (a \o (b \o x))
  <2>1. Len(frames) # 1
    BY <1>3
  <2> QED BY <1>5, <2>1, Zenon DEF WrittenAt
<1>7. PICK fs : fs = Front(frames)
  OBVIOUS
<1>8. PICK gs : gs = Append(fs, Activation("suffix"))
  OBVIOUS
<1>9. /\ Len(gs) = 2 /\ gs[1] = frames[1] /\ gs[2].next = 1 /\ gs[2].pattern = "suffix"
      /\ frames' = gs
  <2>1. Len(fs) = 1 /\ fs[1] = frames[1] /\ Flat(fs) /\ fs # <<>>
    BY <1>3, <1>7, FramesMove
  <2> QED BY <1>7, <1>8, <2>1, FramesMove DEF Activation, EndPrefix
<1>10. WrittenAt(frames, field)' = WrittenAt(gs, field)
  BY <1>1, <1>9, WrittenStays
<1>11. /\ m \in Seq(Units) /\ a \in Seq(Units) /\ b \in Seq(Units) /\ x \in Seq(Units)
       /\ t \in Seq(Units)
  BY <1>1, <1>3, MarkerAt, TextsType DEF Parts
<1>12. InMarker(gs[2], field) = x \o t
  <2>1. gs[2].next - 1 = 0 /\ gs[2].pattern # "prefix"
    BY <1>9
  <2>2. InMarker(gs[2], field) = x \o (t \o <<>>)
    BY <2>1, JoinedNone, Zenon DEF InMarker
  <2> HIDE DEF t
  <2>3. t \o <<>> = t
    BY <1>11, ConcatEmptySeq
  <2> QED BY <2>2, <2>3
<1>13. WrittenAt(gs, field) = m \o (a \o (b \o (x \o t)))
  <2>1. Len(gs) # 1
    BY <1>9
  <2> QED BY <1>9, <1>12, <2>1, Zenon DEF WrittenAt
<1>14. PICK e : e = TextItem(order[field] \o request.delimiter
                              \o appendAttributeValue(record.fields[order[field]]))
  OBVIOUS
<1>15. out' = Append(out, e) /\ e.text = t
  BY <1>14 DEF EndPrefix, TextItem, Pair
<1> HIDE DEF m, a, b, x, t
<1>16. Shows(t)
  <2>1. e.text \in Seq(Units)
    BY <1>11, <1>15
  <2>2. Shows(e.text)
    BY <1>2, <1>15, <2>1, ItemShown
  <2> QED BY <1>15, <2>2 DEF Shows
<1>17. WrittenAdded(m, a, b, x, t)
  BY <1>11, PartsGoOn
<1>18. Visible' = WrittenAt(frames, field)'
  BY <1>2, <1>6, <1>10, <1>13, <1>16, <1>17, Zenon DEF WrittenAdded, Shows
<1> QED BY <1>1, <1>16, <1>18 DEF WrittenInv, Shows

(* The space and the next prefix, or the pattern again.                    *)
LEMMA SuffixKeepsText ==
    ASSUME RenderingInv, WrittenInv, EndSuffix
    PROVE  WrittenInv'
<1>1. /\ stage = "formatting" /\ stage' = "formatting"
      /\ Frame.pattern = "suffix" /\ Frame.next > Len(Walked.segments)
      /\ UNCHANGED <<request, parsed, record, order>>
  BY DEF EndSuffix, AtEnd
<1>2. FormatterInv /\ KeptRead /\ WalkInv /\ Visible = WrittenAt(frames, field)
      /\ (\A i \in DOMAIN out : out[i].text \in Seq(Units))
  BY <1>1 DEF RenderingInv, WrittenInv
<1>3. /\ Len(frames) = 2 /\ Frame = frames[2] /\ Flat(frames) /\ frames # <<>>
      /\ Frame.next \in 1 .. Len(Walked.segments) + 1 /\ Len(Walked.segments) \in Nat
  BY <1>1, <1>2, WalkAt
<1>4. Walked = parsed.suffix /\ frames[2].next - 1 = Len(parsed.suffix.segments)
  <2>1. Walked = parsed.suffix
    BY <1>1 DEF Walked
  <2> QED BY <1>1, <1>3, <2>1
<1>5. InMarker(frames[2], field)
        = Plain(parsed.prefix) \o (Pair(field) \o Plain(parsed.suffix))
  <2>1. frames[2].pattern # "prefix"
    BY <1>1, <1>3
  <2>2. Joined(Pieces(parsed.suffix), Len(parsed.suffix.segments)) = Plain(parsed.suffix)
    BY TextsType, JoinedTexts DEF Parts
  <2> QED BY <1>4, <2>1, <2>2, Zenon DEF InMarker
<1> DEFINE m == Joined(MainTexts, frames[1].next - 2)
           a == Joined(AttributeTexts, field)
<1>6. WrittenAt(frames, field) = m \o a
  <2>1. Len(frames) # 1
    BY <1>3
  <2>2. WrittenAt(frames, field)
          = m \o (Joined(AttributeTexts, field - 1) \o AttributeTexts[field])
    BY <1>1, <1>3, <1>5, <2>1, MarkerAt, Zenon DEF WrittenAt
  <2> QED BY <1>1, <1>3, <2>2, MarkerAt, Zenon
<1>7. PICK fs : fs = Front(frames)
  OBVIOUS
<1>8. Len(fs) = 1 /\ fs[1] = frames[1] /\ Flat(fs) /\ fs # <<>>
  BY <1>3, <1>7, FramesMove
<1>9. field \in 1 .. Len(order) /\ Len(order) \in Nat /\ m \in Seq(Units)
      /\ a \in Seq(Units) /\ frames[1].next \in Int
  <2>1. field \in 1 .. Len(order) /\ Len(order) \in Nat /\ m \in Seq(Units)
    BY <1>1, <1>3, MarkerAt
  <2>2. a \in Seq(Units)
    <3>1. field \in 0 .. Len(AttributeTexts)
      BY <2>1, TextsType
    <3> QED BY <3>1, TextsType, JoinedTexts
  <2>3. frames[1].pattern = "main" /\ DOMAIN frames = 1 .. 2
    BY <1>1, <1>2, <1>3, WalkAt
  <2>4. Len(parsed.main.segments) \in Nat
    BY LenProperties, <1>2 DEF KeptRead, Typed, Parts
  <2>5. frames[1].next \in Int
    BY <1>2, <2>3, <2>4 DEF WalkInv
  <2> QED BY <2>1, <2>2, <2>5
<1>10. CASE field < Len(order)
  <2>1. PICK gs : gs = Append(fs, Activation("prefix"))
    OBVIOUS
  <2>2. PICK k : k = field + 1
    OBVIOUS
  <2>3. frames' = gs /\ field' = k
    BY <1>7, <1>10, <2>1, <2>2, Zenon DEF EndSuffix
  <2>4. Len(gs) = 2 /\ gs[1] = frames[1] /\ gs[2].next = 1 /\ gs[2].pattern = "prefix"
    BY <1>8, <2>1, FramesMove DEF Activation
  <2>5. WrittenAt(frames, field)' = WrittenAt(gs, k)
    BY <1>1, <2>3, WrittenStays
  <2>6. Separator(k) = <<Space>> /\ k - 1 = field /\ k \in 1 .. Len(order)
    BY <1>9, <1>10, <2>2 DEF Separator
  <2> DEFINE t == Separator(k)
  <2>7. WrittenAt(gs, k) = m \o (a \o (t \o <<>>))
    <3>1. gs[2].next - 1 = 0 /\ Len(gs) # 1
      BY <2>4
    <3> QED BY <2>4, <2>6, <3>1, JoinedNone, Zenon DEF WrittenAt, InMarker
  <2>8. t \in Seq(Units)
    BY <2>6, TextsType
  <2>9. PICK e : e = TextItem(t)
    OBVIOUS
  <2>10. out' = Append(out, e) /\ e.text = t
    <3>1. e = TextItem(<<" ">>)
      BY <2>6, <2>9, Zenon DEF Space
    <3>2. out' = Append(out, e)
      BY <1>10, <3>1, Zenon DEF EndSuffix
    <3>3. e.text = t
      BY <2>9 DEF TextItem
    <3> QED BY <3>2, <3>3
  <2> HIDE DEF m, a, t
  <2>11. Shows(t)
    <3>1. e.text \in Seq(Units)
      BY <2>8, <2>10
    <3>2. Shows(e.text)
      BY <1>2, <2>10, <3>1, ItemShown
    <3> QED BY <2>10, <3>2 DEF Shows
  <2>12. PartsAdded(m, a, <<>>, t) /\ t \o <<>> = t /\ a \o <<>> = a /\ <<>> \o t = t
    <3>1. <<>> \in Seq(Units)
      BY EmptySeq
    <3> QED BY <1>9, <2>8, <3>1, PairGoesOn, ConcatEmptySeq
  <2>13. Visible' = WrittenAt(frames, field)'
    BY <1>2, <1>6, <2>5, <2>7, <2>11, <2>12, Zenon DEF PartsAdded, Shows
  <2> QED BY <1>1, <2>11, <2>13 DEF WrittenInv, Shows
<1>11. CASE ~(field < Len(order))
  <2>1. frames' = fs /\ field' = 0 /\ out' = out
    BY <1>7, <1>11, Zenon DEF EndSuffix
  <2>2. WrittenAt(frames, field)' = WrittenAt(fs, 0)
    BY <1>1, <2>1, WrittenStays
  <2>3. WrittenAt(fs, 0) = Joined(MainTexts, frames[1].next - 1)
    BY <1>8 DEF WrittenAt
  <2>4. field = Len(AttributeTexts)
    BY <1>9, <1>11, TextsType
  <2>5. a = FlattenSeq(AttributeTexts)
    BY <2>4, TextsType, JoinedTexts
  <2>6. WrittenAt(fs, 0) = m \o a
    BY <1>1, <1>3, <2>3, <2>5, MarkerAt, Zenon
  <2>7. Visible' = Visible /\ (\A i \in DOMAIN out : out[i].text \in Seq(Units))'
    BY <1>2, <2>1 DEF Visible
  <2> QED BY <1>1, <1>2, <1>6, <2>2, <2>6, <2>7, Zenon DEF WrittenInv
<1> QED BY <1>10, <1>11

(* Every step of the program.                                              *)
LEMMA NextKeepsText ==
    RenderingInv /\ WrittenInv /\ [Next]_vars => WrittenInv'
<1> SUFFICES ASSUME RenderingInv, WrittenInv, [Next]_vars PROVE WrittenInv'
  OBVIOUS
<1>1. FormatterInv /\ KeptRead /\ RecordInv /\ WalkInv
  BY DEF RenderingInv
<1>2. ASSUME UNCHANGED <<request, parsed, record, order, field, frames, out, stage>>
      PROVE  WrittenInv'
  <2>1. PICK fs, k : fs = frames /\ k = field
    OBVIOUS
  <2>2. WrittenAt(frames, field)' = WrittenAt(frames, field)
    BY <1>2, <2>1, WrittenStays
  <2>3. Visible' = Visible
    BY <1>2 DEF Visible
  <2> QED BY <1>2, <2>2, <2>3 DEF WrittenInv
<1>3. ASSUME out' = out, stage' \notin {"formatting", "formatted"}
      PROVE  WrittenInv'
  BY <1>3 DEF WrittenInv
<1>4. CASE Setup
  <2>1. stage \in {"main", "prefix", "suffix"} /\ out' = out
    BY <1>4 DEF Setup, ParseStep, ParsePrefix, ParseSuffix, Construct, ParseFails, ParsePattern,
                Parsing, formatterVars, callVars
  <2>2. stage' \notin {"formatting", "formatted"}
    BY <1>4, <2>1 DEF Setup, ParseStep, ParsePrefix, ParseSuffix, Construct, ParseFails,
                ParsePattern, formatterVars
  <2> QED BY <1>3, <2>1, <2>2
<1>5. CASE With
  BY <1>3, <1>5 DEF With
<1>6. CASE Format
  <2>1. /\ stage = "ready" /\ out' = out /\ frames' = <<Activation("main")>>
        /\ stage' = "formatting"
    BY <1>6 DEF Format
  <2>2. out' = <<>> /\ out = <<>>
    BY <1>1, <2>1 DEF WalkInv
  <2>3. Visible' = <<>>
    <3>1. [i \in DOMAIN <<>> |-> <<>>[i].text] = <<>>
      BY EmptySeq
    <3>2. Visible' = FlattenSeq([i \in DOMAIN <<>> |-> <<>>[i].text])
      BY <2>2 DEF Visible
    <3> QED BY <3>1, <3>2 DEF FlattenSeq
  <2>4. Len(frames') = 1 /\ frames'[1].next = 1
    BY <2>1 DEF Activation
  <2>5. WrittenAt(frames, field)' = Joined(MainTexts, 0)'
    <3>1. frames'[1].next - 1 = 0
      BY <2>4
    <3> QED BY <2>4, <3>1 DEF WrittenAt, Joined
  <2>6. Joined(MainTexts, 0)' = <<>>
    BY JoinedNone DEF Joined
  <2>7. (\A i \in DOMAIN out : out[i].text \in Seq(Units))'
    BY <2>2, EmptySeq
  <2> QED BY <2>3, <2>5, <2>6, <2>7 DEF WrittenInv
<1>7. CASE Walk
  <2>1. Still /\ (Emitted \/ BeginAttributes \/ EndPrefix \/ EndSuffix \/ EndMain)
    BY <1>1, <1>7, WalkIs
  <2>2. CASE EndMain
    <3>1. stage = "formatting" /\ UNCHANGED <<request, parsed, callVars>>
      BY <2>2 DEF EndMain, AtEnd
    <3>2. WrittenAt(frames, field)' = WrittenAt(frames, field)
      <4>1. PICK fs, k : fs = frames /\ k = field
        OBVIOUS
      <4> QED BY <3>1, <4>1, WrittenStays DEF callVars
    <3>3. Visible' = Visible /\ out' = out
      BY <3>1 DEF Visible, callVars
    <3> QED BY <3>1, <3>2, <3>3 DEF WrittenInv
  <2> QED BY <2>1, <2>2, EmittedKeepsText, BeginKeepsText, PrefixKeepsText, SuffixKeepsText
<1>8. CASE SetColourChoice
  BY <1>2, <1>8 DEF SetColourChoice
<1>9. CASE ToJson \/ (\E asserts \in BOOLEAN : Export(asserts)) \/ UNCHANGED vars
  <2>1. UNCHANGED formatterVars
    BY <1>9 DEF ToJson, Export, vars
  <2> QED BY <1>2, <2>1 DEF formatterVars
<1> QED BY <1>4, <1>5, <1>6, <1>7, <1>8, <1>9 DEF Next, FormatRecord, Ended

(* What was written is what should have been, at every step.               *)
LEMMA TextInvariance == Spec => [](RenderingInv /\ WrittenInv)
<1>1. Init => WrittenInv
  <2> SUFFICES ASSUME Init PROVE WrittenInv
    OBVIOUS
  <2>1. stage = "main" /\ out = <<>>
    BY DEF Init, FormatterInit
  <2> QED BY <2>1, EmptySeq DEF WrittenInv
<1> QED BY <1>1, NextKeepsText, RenderingInvariance, PTL DEF Spec

(* A text that was formatted is what its directives write, in order, with  *)
(* the attributes inside their markers, for any colours and however their  *)
(* choice changed; without a formatter the segments give the same text,    *)
(* but for levels and attributes.                                          *)
THEOREM TextsAreRendered == Spec => []Rendered
<1>1. ASSUME RenderingInv, WrittenInv, stage = "formatted" PROVE Rendered
  <2>1. /\ Len(frames) = 1 /\ frames[1].next > Len(parsed.main.segments)
        /\ KeptRead /\ FormatterInv /\ WalkInv
    BY <1>1 DEF RenderingInv, WalkInv
  <2>2. Visible = Joined(MainTexts, frames[1].next - 1)
    BY <1>1, <2>1 DEF WrittenInv, WrittenAt
  <2>3. frames[1].next - 1 = Len(MainTexts)
    <3>1. frames[1].pattern = "main" /\ DOMAIN frames = {1}
      BY <1>1, <2>1, FlatLast DEF FormatterInv, Walking, Flat
    <3>2. Len(parsed.main.segments) \in Nat /\ Len(MainTexts) = Len(parsed.main.segments)
      BY <1>1, <2>1, LenProperties, TextsType DEF KeptRead, Typed, Parts
    <3>3. frames[1].next \in 1 .. Len(parsed.main.segments) + 1
      BY <2>1, <3>1 DEF WalkInv
    <3> QED BY <2>1, <3>2, <3>3
  <2>4. Visible = FlattenSeq(MainTexts)
    BY <1>1, <2>2, <2>3, TextsType, JoinedTexts
  <2>5. Visible = Expected(parsed.main)
    BY <1>1, <2>4, TextsExpected
  <2>6. ASSUME Kinds(parsed.main) \cap {"Level", "AllAttributes"} = {}
        PROVE  FormatSegments(parsed.main) = FlattenSeq(MainTexts)
    <3> DEFINE segs == parsed.main.segments
               text == parsed.main.text
    <3>1. ASSUME NEW i \in DOMAIN segs
          PROVE  FormatSegment(segs[i], text) = MainTexts[i]
      <4>1. segs[i].kind \in SegmentKind \ {"Level", "AllAttributes"}
        <5>1. segs[i].kind \in Kinds(parsed.main)
          BY DEF Kinds
        <5>2. segs[i] \in SegmentType
          BY <2>1, ElementOfSeq, LenProperties DEF KeptRead, Typed, Parts
        <5> QED BY <2>6, <5>1, <5>2 DEF SegmentType
      <4>2. MainTexts[i] = Piece(segs[i], text)
        BY <4>1 DEF MainTexts
      <4>3. CASE segs[i].kind \in StyleStarts \cup {"StyleEnd"}
        BY <4>2, <4>3 DEF Piece, FormatSegment, StyleStarts
      <4>4. CASE segs[i].kind \notin StyleStarts \cup {"StyleEnd"}
        BY <4>1, <4>2, <4>4 DEF Piece, FormatSegment, StyleStarts, SegmentKind
      <4> QED BY <4>3, <4>4
    <3>2. FormatSegments(parsed.main) = FlattenSeq([i \in DOMAIN segs |-> FormatSegment(segs[i], text)])
      BY DEF FormatSegments
    <3>3. MainTexts = [i \in DOMAIN segs |-> MainTexts[i]]
      BY DEF MainTexts
    <3> QED BY <3>1, <3>2, <3>3
  <2> QED BY <2>4, <2>5, <2>6, Zenon DEF Rendered
<1>2. RenderingInv /\ WrittenInv => Rendered
  BY <1>1 DEF Rendered
<1> QED BY <1>2, TextInvariance, PTL

-----------------------------------------------------------------------------
(* The escape sequences                                                    *)

\* Those of the first n segments of a pattern, and whether an end of a style
\* is the last of them; the directives for all attributes among the first n.
EscapesTo(pattern, n) ==
    {i \in 1 .. n : pattern.segments[i].kind \in StyleStarts \cup {"StyleEnd"}}
EndsBy(pattern, n) ==
    \/ EscapesTo(pattern, n) = {}
    \/ pattern.segments[Max(EscapesTo(pattern, n))].kind = "StyleEnd"
AllTo(n) == {i \in 1 .. n : parsed.main.segments[i].kind = "AllAttributes"}

\* The escape sequences of one attribute, and those that are due when the walk
\* is where it is.
OfMarkers == Cardinality(Escapes(parsed.prefix)) + Cardinality(Escapes(parsed.suffix))
DueInMarker(frame) ==
    IF frame.pattern = "prefix" THEN Cardinality(EscapesTo(parsed.prefix, frame.next - 1))
    ELSE Cardinality(Escapes(parsed.prefix))
            + Cardinality(EscapesTo(parsed.suffix, frame.next - 1))
DueIn(n) == Cardinality(EscapesTo(parsed.main, n)) + Cardinality(AllTo(n)) * Len(order) * OfMarkers
DueAt(fs, k) ==
    IF Len(fs) = 1 THEN DueIn(fs[1].next - 1)
    ELSE DueIn(fs[1].next - 2) + ((k - 1) * OfMarkers + DueInMarker(fs[2]))

\* Whether the last one that was written must have been an end.
EndsInMarker(frame) ==
    IF frame.pattern = "prefix" THEN EndsBy(parsed.prefix, frame.next - 1)
    ELSE IF EscapesTo(parsed.suffix, frame.next - 1) = {} THEN Closes(parsed.prefix)
    ELSE EndsBy(parsed.suffix, frame.next - 1)
MustEnd(fs) ==
    IF Len(fs) = 1 THEN EndsBy(parsed.main, fs[1].next - 1)
    ELSE EndsBy(parsed.main, fs[1].next - 2) /\ EndsInMarker(fs[2])

\* The markers close what they open, as the user is asked to have them do.
MarkersClose ==
    Closes(parsed.suffix) /\ (Closes(parsed.prefix) \/ Escapes(parsed.suffix) # {})

\* It was an end, or there was none.
Ends == Styles = {} \/ out[Max(Styles)].op = "StyleEnd"

\* What is known of the escape sequences while a record is formatted.
ColoursInv ==
    stage \in {"formatting", "formatted"} =>
        /\ request.useColours = "on" => Cardinality(Styles) = DueAt(frames, field)
        /\ request.useColours = "off" => Styles = {}
        /\ request.useColours = "on" /\ MarkersClose /\ MustEnd(frames) => Ends

(* One segment more counts if it writes an escape sequence.                *)
LEMMA EscapesGrow ==
    ASSUME NEW pattern, NEW n \in Nat \ {0},
           NEW kind, kind = pattern.segments[n].kind
    PROVE  /\ Cardinality(EscapesTo(pattern, n - 1)) \in Nat
           /\ Cardinality(EscapesTo(pattern, n)) \in Nat
           /\ kind \in StyleStarts \cup {"StyleEnd"} =>
                 /\ EscapesTo(pattern, n) # {}
                 /\ Cardinality(EscapesTo(pattern, n)) = Cardinality(EscapesTo(pattern, n - 1)) + 1
                 /\ EndsBy(pattern, n) => kind = "StyleEnd"
           /\ kind \notin StyleStarts \cup {"StyleEnd"} =>
                 /\ EscapesTo(pattern, n) = EscapesTo(pattern, n - 1)
                 /\ EndsBy(pattern, n) => EndsBy(pattern, n - 1)
<1> DEFINE A == EscapesTo(pattern, n - 1)
           B == EscapesTo(pattern, n)
<1>1. /\ A \in SUBSET (1 .. n - 1) /\ B \subseteq 0 .. n
      /\ kind \in StyleStarts \cup {"StyleEnd"} => B = A \cup {n}
      /\ kind \notin StyleStarts \cup {"StyleEnd"} => B = A
  BY DEF EscapesTo
<1>2. Cardinality(A) \in Nat /\ Cardinality(A \cup {n}) = Cardinality(A) + 1
  <2>1. PICK m \in Nat : m = n - 1 /\ m + 1 = n
    OBVIOUS
  <2> HIDE DEF A
  <2>2. Cardinality(A) \in Nat /\ Cardinality(A \cup {m + 1}) = Cardinality(A) + 1
    BY <1>1, <2>1, CountOneMore
  <2> QED BY <2>1, <2>2
<1> HIDE DEF A, B
<1>3. CASE kind \in StyleStarts \cup {"StyleEnd"}
  <2>1. n \in B /\ B # {}
    BY <1>1, <1>3
  <2>2. Max(B) \in B /\ \A i \in B : i <= Max(B)
    BY <1>1, <2>1, MaxIsMax
  <2>3. Max(B) = n
    <3>1. n <= Max(B) /\ Max(B) \in 0 .. n
      BY <1>1, <2>1, <2>2
    <3> QED BY <3>1
  <2>4. EndsBy(pattern, n) => kind = "StyleEnd"
    BY <2>1, <2>3 DEF EndsBy, B
  <2>5. Cardinality(B) = Cardinality(A) + 1 /\ Cardinality(B) \in Nat
    BY <1>1, <1>2, <1>3
  <2> QED BY <1>2, <1>3, <2>1, <2>4, <2>5, Zenon DEF A, B
<1>4. CASE kind \notin StyleStarts \cup {"StyleEnd"}
  BY <1>1, <1>2, <1>4 DEF A, B, EndsBy
<1> QED BY <1>3, <1>4

(* None of the segments, and all of them.                                  *)
LEMMA EscapesAll ==
    ASSUME NEW pattern, NEW n \in Nat, DOMAIN pattern.segments = 1 .. n
    PROVE  /\ EscapesTo(pattern, 0) = {} /\ Cardinality(EscapesTo(pattern, 0)) = 0
           /\ EndsBy(pattern, 0)
           /\ EscapesTo(pattern, n) = Escapes(pattern)
           /\ EndsBy(pattern, n) <=> Closes(pattern)
           /\ Cardinality(Escapes(pattern)) \in Nat
<1>1. EscapesTo(pattern, 0) = {}
  BY DEF EscapesTo
<1>2. EscapesTo(pattern, n) = Escapes(pattern)
  BY DEF EscapesTo, Escapes
<1>3. EndsBy(pattern, n) <=> Closes(pattern)
  BY <1>2 DEF EndsBy, Closes
<1>4. Cardinality(Escapes(pattern)) \in Nat
  <2>1. Escapes(pattern) \in SUBSET (1 .. n)
    BY DEF Escapes
  <2> QED BY <2>1, CountOneMore
<1> QED BY <1>1, <1>2, <1>3, <1>4, FS_EmptySet DEF EndsBy

(* One directive for all attributes more.                                  *)
LEMMA AllGrows ==
    ASSUME NEW n \in Nat \ {0}
    PROVE  /\ Cardinality(AllTo(n - 1)) \in Nat /\ Cardinality(AllTo(n)) \in Nat
           /\ parsed.main.segments[n].kind = "AllAttributes" =>
                 Cardinality(AllTo(n)) = Cardinality(AllTo(n - 1)) + 1
           /\ parsed.main.segments[n].kind # "AllAttributes" => AllTo(n) = AllTo(n - 1)
<1> DEFINE A == AllTo(n - 1)
           kind == parsed.main.segments[n].kind
<1>1. /\ A \in SUBSET (1 .. n - 1)
      /\ kind = "AllAttributes" => AllTo(n) = A \cup {n}
      /\ kind # "AllAttributes" => AllTo(n) = A
  BY DEF AllTo
<1>2. Cardinality(A) \in Nat /\ Cardinality(A \cup {n}) = Cardinality(A) + 1
  <2>1. PICK m \in Nat : m = n - 1 /\ m + 1 = n
    OBVIOUS
  <2> HIDE DEF A
  <2>2. Cardinality(A) \in Nat /\ Cardinality(A \cup {m + 1}) = Cardinality(A) + 1
    BY <1>1, <2>1, CountOneMore
  <2> QED BY <2>1, <2>2
<1> HIDE DEF A
<1>3. CASE kind = "AllAttributes"
  <2>1. Cardinality(AllTo(n)) = Cardinality(A) + 1 /\ Cardinality(AllTo(n)) \in Nat
    BY <1>1, <1>2, <1>3
  <2> QED BY <1>2, <1>3, <2>1, Zenon DEF A
<1>4. CASE kind # "AllAttributes"
  BY <1>1, <1>2, <1>4, Zenon DEF A
<1> QED BY <1>3, <1>4

(* What is due does not depend on more than the place of the walk.         *)
LEMMA DueStays ==
    ASSUME UNCHANGED <<request, parsed, order>>, NEW fs, frames' = fs, NEW k, field' = k
    PROVE  /\ DueAt(frames, field)' = DueAt(fs, k)
           /\ MustEnd(frames)' <=> MustEnd(fs)
           /\ MarkersClose' <=> MarkersClose
<1>1. DueAt(frames, field)' = DueAt(fs, k)
  BY DEF DueAt, DueIn, DueInMarker, OfMarkers, AllTo
<1>2. MustEnd(frames)' <=> MustEnd(fs)
  BY DEF MustEnd, EndsInMarker
<1>3. MarkersClose' <=> MarkersClose
  BY DEF MarkersClose
<1> QED BY <1>1, <1>2, <1>3

(* What an item that is written does to the escape sequences.              *)
LEMMA StylesAdded ==
    ASSUME WalkInv, NEW e, out' = Append(out, e)
    PROVE  /\ Cardinality(Styles) \in Nat
           /\ e.op = "text" => Styles' = Styles /\ (Ends => Ends')
           /\ e.op # "text" => /\ Cardinality(Styles') = Cardinality(Styles) + 1
                               /\ e.op = "StyleEnd" => Ends'
<1> DEFINE n == Len(out)
<1>1. n \in Nat /\ DOMAIN out = 1 .. n
  BY LenProperties DEF WalkInv
<1>2. DOMAIN out' = 1 .. n + 1 /\ (\A i \in 1 .. n : out'[i] = out[i]) /\ out'[n + 1] = e
  <2>1. out \in Seq(ToSet(out) \cup {e}) /\ e \in ToSet(out) \cup {e}
    BY SeqMonotonic, ToSet(out) \subseteq ToSet(out) \cup {e} DEF WalkInv
  <2> QED BY <2>1, AppendElements, LenProperties
<1> HIDE DEF n
<1>3. Styles \in SUBSET (1 .. n) /\ Styles' = {i \in DOMAIN out' : out'[i].op # "text"}
  BY <1>1 DEF Styles
<1>4. Cardinality(Styles) \in Nat /\ Cardinality(Styles \cup {n + 1}) = Cardinality(Styles) + 1
  BY <1>1, <1>3, CountOneMore
<1>5. CASE e.op = "text"
  <2>1. Styles' = Styles
    BY <1>1, <1>2, <1>3, <1>5 DEF Styles
  <2>2. ASSUME Ends, Styles # {} PROVE out'[Max(Styles)].op = "StyleEnd"
    <3>1. Max(Styles) \in Styles
      <4>1. Styles \subseteq 0 .. n
        BY <1>3
      <4> QED BY <1>1, <2>2, <4>1, MaxIsMax
    <3> QED BY <1>2, <1>3, <2>2, <3>1 DEF Ends
  <2> QED BY <1>4, <1>5, <2>1, <2>2 DEF Ends
<1>6. CASE e.op # "text"
  <2>1. Styles' = Styles \cup {n + 1}
    BY <1>1, <1>2, <1>3, <1>6 DEF Styles
  <2>2. PICK T : T = Styles'
    OBVIOUS
  <2>3. Max(T) = n + 1
    <3>1. T \subseteq 0 .. n + 1 /\ n + 1 \in T /\ n + 1 \in Nat
      BY <1>1, <1>3, <2>1, <2>2
    <3>2. Max(T) \in T /\ \A i \in T : i <= Max(T)
      BY <3>1, MaxIsMax
    <3>3. Max(T) \in 0 .. n + 1 /\ n + 1 <= Max(T)
      BY <3>1, <3>2
    <3> QED BY <1>1, <3>3
  <2>4. e.op = "StyleEnd" => Ends'
    BY <1>2, <2>2, <2>3 DEF Ends
  <2> QED BY <1>4, <1>6, <2>1, <2>4
<1> QED BY <1>4, <1>5, <1>6

(* One attribute more, and all of them.                                    *)
LEMMA Products ==
    ASSUME NEW c \in Nat, NEW l \in Nat, NEW m \in Nat
    PROVE  /\ c * l * m \in Nat /\ l * m \in Nat
           /\ (c + 1) * l * m = c * l * m + l * m
           /\ \A k \in Int : (k - 1) * m + m = k * m /\ k * m \in Int
<1>1. c * l * m \in Nat /\ l * m \in Nat
  OBVIOUS
<1>2. (c + 1) * l * m = c * l * m + l * m
  OBVIOUS
<1>3. ASSUME NEW k \in Int PROVE (k - 1) * m + m = k * m /\ k * m \in Int
  OBVIOUS
<1> QED BY <1>1, <1>2, <1>3

(* What is due after one segment more of the pattern.                      *)
LEMMA DueGrows ==
    ASSUME NEW n \in Nat \ {0}, Len(order) \in Nat, OfMarkers \in Nat,
           NEW kind, kind = parsed.main.segments[n].kind
    PROVE  /\ DueIn(n - 1) \in Nat
           /\ kind \in StyleStarts \cup {"StyleEnd"} => DueIn(n) = DueIn(n - 1) + 1
           /\ kind = "AllAttributes" => DueIn(n) = DueIn(n - 1) + Len(order) * OfMarkers
           /\ kind \notin StyleStarts \cup {"StyleEnd", "AllAttributes"} => DueIn(n) = DueIn(n - 1)
<1> DEFINE a == Cardinality(EscapesTo(parsed.main, n - 1))
           b == Cardinality(EscapesTo(parsed.main, n))
           c == Cardinality(AllTo(n - 1))
           d == Cardinality(AllTo(n))
           l == Len(order)
           m == OfMarkers
<1>1. DueIn(n - 1) = a + c * l * m /\ DueIn(n) = b + d * l * m
  BY DEF DueIn
<1>2. /\ a \in Nat /\ b \in Nat
      /\ kind \in StyleStarts \cup {"StyleEnd"} => b = a + 1
      /\ kind \notin StyleStarts \cup {"StyleEnd"} => b = a
  BY EscapesGrow
<1>3. /\ c \in Nat /\ d \in Nat
      /\ kind = "AllAttributes" => d = c + 1
      /\ kind # "AllAttributes" => d = c
  BY AllGrows
<1>4. kind = "AllAttributes" => kind \notin StyleStarts \cup {"StyleEnd"}
  BY DEF StyleStarts
<1> HIDE DEF a, b, c, d, l, m
<1>5. l \in Nat /\ m \in Nat
  BY DEF l, m
<1>6. c * l * m \in Nat /\ l * m \in Nat /\ (c + 1) * l * m = c * l * m + l * m
  BY <1>3, <1>5, Products
<1>7. CASE kind = "AllAttributes"
  <2>1. b = a /\ d * l * m = c * l * m + l * m
    BY <1>2, <1>3, <1>4, <1>6, <1>7
  <2> QED BY <1>1, <1>2, <1>4, <1>6, <1>7, <2>1 DEF l, m
<1>8. CASE kind # "AllAttributes"
  <2>1. d * l * m = c * l * m
    BY <1>3, <1>8
  <2> QED BY <1>1, <1>2, <1>6, <1>8, <2>1
<1> QED BY <1>7, <1>8

(* What is known of the patterns where the walk is.                        *)
LEMMA DueAbout ==
    ASSUME RenderingInv
    PROVE  /\ Len(order) \in Nat /\ OfMarkers \in Nat
           /\ \A p \in Parts : /\ Len(parsed[p].segments) \in Nat
                               /\ DOMAIN parsed[p].segments = 1 .. Len(parsed[p].segments)
                               /\ Cardinality(Escapes(parsed[p])) \in Nat
<1>1. Len(order) \in Nat
  BY LenProperties DEF RenderingInv, WalkInv
<1>2. ASSUME NEW p \in Parts
      PROVE  /\ Len(parsed[p].segments) \in Nat
             /\ DOMAIN parsed[p].segments = 1 .. Len(parsed[p].segments)
             /\ Cardinality(Escapes(parsed[p])) \in Nat
  <2>1. /\ Len(parsed[p].segments) \in Nat
        /\ DOMAIN parsed[p].segments = 1 .. Len(parsed[p].segments)
    BY LenProperties DEF RenderingInv, KeptRead, Typed
  <2> QED BY <2>1, EscapesAll
<1>3. OfMarkers \in Nat
  BY <1>2 DEF OfMarkers, Parts
<1> QED BY <1>1, <1>2, <1>3

(* The step of a segment: what is due, and which end must be there.        *)
LEMMA SegmentDue ==
    ASSUME RenderingInv, stage = "formatting", AtSegment, Current.kind # "AllAttributes",
           NEW fs, fs = Advanced, NEW kind, kind = Current.kind
    PROVE  /\ DueAt(frames, field) \in Int
           /\ kind \in StyleStarts \cup {"StyleEnd"} =>
                 /\ DueAt(fs, field) = DueAt(frames, field) + 1
                 /\ MustEnd(fs) => kind = "StyleEnd"
           /\ kind \notin StyleStarts \cup {"StyleEnd"} =>
                 /\ DueAt(fs, field) = DueAt(frames, field)
                 /\ MustEnd(fs) => MustEnd(frames)
<1> DEFINE n == Len(frames)
           i == Frame.next
           style == kind \in StyleStarts \cup {"StyleEnd"}
<1>1. FormatterInv /\ KeptRead /\ WalkInv
  BY DEF RenderingInv
<1>2. /\ n \in {1, 2} /\ Frame = frames[n] /\ Flat(frames) /\ frames # <<>>
      /\ DOMAIN frames = 1 .. n /\ frames[1].pattern = "main"
      /\ Frame.pattern \in Parts /\ (Frame.pattern = "main" <=> n = 1)
      /\ i \in 1 .. Len(Walked.segments) /\ Len(Walked.segments) \in Nat
      /\ DOMAIN Walked.segments = 1 .. Len(Walked.segments)
  BY <1>1, WalkAt
<1>3. /\ Len(fs) = n /\ fs[n].next = i + 1 /\ fs[n].pattern = Frame.pattern
      /\ n = 2 => fs[1] = frames[1]
  BY <1>2, FramesMove DEF Advanced
<1>4. i \in Nat \ {0} /\ kind = Walked.segments[i].kind
  BY <1>2 DEF Current
<1>5. fs[n].next - 1 = i /\ frames[n].next - 1 = i - 1
  BY <1>2, <1>3, <1>4
<1> HIDE DEF n, i
<1>6. CASE n = 1
  <2>1. Walked = parsed.main
    BY <1>2, <1>6 DEF Walked
  <2>2. /\ DueAt(fs, field) = DueIn(i) /\ DueAt(frames, field) = DueIn(i - 1)
        /\ MustEnd(fs) <=> EndsBy(parsed.main, i)
        /\ MustEnd(frames) <=> EndsBy(parsed.main, i - 1)
    BY <1>3, <1>5, <1>6, Zenon DEF DueAt, MustEnd, n
  <2>3. /\ DueIn(i - 1) \in Nat
        /\ style => DueIn(i) = DueIn(i - 1) + 1
        /\ ~style => DueIn(i) = DueIn(i - 1)
    BY <1>4, <2>1, DueAbout, DueGrows
  <2>4. /\ style /\ EndsBy(parsed.main, i) => kind = "StyleEnd"
        /\ ~style /\ EndsBy(parsed.main, i) => EndsBy(parsed.main, i - 1)
    BY <1>4, <2>1, EscapesGrow
  <2> HIDE DEF style
  <2>5. /\ DueAt(frames, field) \in Int
        /\ style => DueAt(fs, field) = DueAt(frames, field) + 1
        /\ ~style => DueAt(fs, field) = DueAt(frames, field)
    BY <2>2, <2>3
  <2> QED BY <2>2, <2>4, <2>5, Zenon DEF style
<1>7. CASE n = 2
  <2>1. PICK p \in {"prefix", "suffix"} : p = Frame.pattern /\ Walked = parsed[p]
    BY <1>2, <1>7 DEF Walked, Parts
  <2> DEFINE a == Cardinality(EscapesTo(parsed[p], i - 1))
             b == Cardinality(EscapesTo(parsed[p], i))
             due == DueIn(frames[1].next - 2)
             m == OfMarkers
             main == EndsBy(parsed.main, frames[1].next - 2)
  <2>2. /\ a \in Nat /\ b \in Nat
        /\ style => b = a + 1 /\ EscapesTo(parsed[p], i) # {}
        /\ ~style => b = a /\ EscapesTo(parsed[p], i) = EscapesTo(parsed[p], i - 1)
        /\ style /\ EndsBy(parsed[p], i) => kind = "StyleEnd"
        /\ ~style /\ EndsBy(parsed[p], i) => EndsBy(parsed[p], i - 1)
    BY <1>4, <2>1, EscapesGrow
  <2>3. /\ frames[2].next - 1 = i - 1 /\ fs[2].next - 1 = i /\ fs[1] = frames[1]
        /\ frames[2].pattern = p /\ fs[2].pattern = p /\ Len(fs) # 1 /\ Len(frames) # 1
    BY <1>2, <1>3, <1>5, <1>7, <2>1 DEF n
  <2>4. /\ DueAt(frames, field) = due + ((field - 1) * m + DueInMarker(frames[2]))
        /\ DueAt(fs, field) = due + ((field - 1) * m + DueInMarker(fs[2]))
        /\ MustEnd(frames) <=> main /\ EndsInMarker(frames[2])
        /\ MustEnd(fs) <=> main /\ EndsInMarker(fs[2])
    BY <2>3, Zenon DEF DueAt, MustEnd
  <2>5. due \in Nat /\ m \in Nat /\ field \in Int
    <3>1. frames[1].next - 1 \in Nat \ {0}
      <4>1. frames[1].next - 1 \in 1 .. Len(MainTexts)
        BY <1>7, MarkerAt DEF n
      <4> QED BY <4>1
    <3>2. PICK k : k = frames[1].next - 1
      OBVIOUS
    <3>3. k \in Nat \ {0} /\ frames[1].next - 2 = k - 1
      <4>1. frames[1].next \in Int
        BY <1>1, <1>2, <1>7, DueAbout DEF WalkInv, n, Parts
      <4> QED BY <3>1, <3>2, <4>1
    <3>4. DueIn(k - 1) \in Nat
      BY <3>3, DueAbout, DueGrows
    <3>5. field \in Int
      BY <1>1, DueAbout DEF WalkInv
    <3> QED BY <3>3, <3>4, <3>5, DueAbout
  <2>6. CASE p = "prefix"
    <3>1. DueInMarker(frames[2]) = a /\ DueInMarker(fs[2]) = b
      BY <2>3, <2>6 DEF DueInMarker
    <3>2. /\ EndsInMarker(frames[2]) <=> EndsBy(parsed[p], i - 1)
          /\ EndsInMarker(fs[2]) <=> EndsBy(parsed[p], i)
      BY <2>3, <2>6 DEF EndsInMarker
    <3> HIDE DEF a, b, due, m, main, style
    <3>3. /\ DueAt(frames, field) \in Int
          /\ style => DueAt(fs, field) = DueAt(frames, field) + 1
          /\ ~style => DueAt(fs, field) = DueAt(frames, field)
      <4>1. (field - 1) * m \in Int
        BY <2>5
      <4> QED BY <2>2, <2>4, <2>5, <3>1, <4>1
    <3> QED BY <2>2, <2>4, <3>2, <3>3, Zenon DEF style
  <2>7. CASE p = "suffix"
    <3>1. DueInMarker(frames[2]) = Cardinality(Escapes(parsed.prefix)) + a
          /\ DueInMarker(fs[2]) = Cardinality(Escapes(parsed.prefix)) + b
      BY <2>3, <2>7 DEF DueInMarker
    <3>2. /\ EndsInMarker(frames[2]) <=> IF EscapesTo(parsed[p], i - 1) = {} THEN Closes(parsed.prefix)
                                         ELSE EndsBy(parsed[p], i - 1)
          /\ EndsInMarker(fs[2]) <=> IF EscapesTo(parsed[p], i) = {} THEN Closes(parsed.prefix)
                                     ELSE EndsBy(parsed[p], i)
      BY <2>3, <2>7 DEF EndsInMarker
    <3>3. Cardinality(Escapes(parsed.prefix)) \in Nat
      BY DueAbout DEF Parts
    <3> HIDE DEF a, b, due, m, main, style
    <3>4. /\ DueAt(frames, field) \in Int
          /\ style => DueAt(fs, field) = DueAt(frames, field) + 1
          /\ ~style => DueAt(fs, field) = DueAt(frames, field)
      <4>1. (field - 1) * m \in Int
        BY <2>5
      <4> QED BY <2>2, <2>4, <2>5, <3>1, <3>3, <4>1
    <3> QED BY <2>2, <2>4, <3>2, <3>4, Zenon DEF style
  <2> QED BY <2>6, <2>7
<1> QED BY <1>2, <1>6, <1>7

(* The step of a segment.                                                  *)
LEMMA EmittedKeepsColours ==
    ASSUME RenderingInv, ColoursInv, Emitted, Still
    PROVE  ColoursInv'
<1>1. /\ stage = "formatting" /\ AtSegment /\ stage' = "formatting" /\ field' = field
      /\ frames' = Advanced /\ Current.kind # "AllAttributes" /\ WalkInv
      /\ UNCHANGED <<request, parsed, order>>
  BY DEF Emitted, AtSegment, Still, RenderingInv
<1>2. PICK fs, kind : fs = Advanced /\ kind = Current.kind
  OBVIOUS
<1> DEFINE style == kind \in StyleStarts \cup {"StyleEnd"}
           was == DueAt(frames, field)
           due == DueAt(fs, field)
<1>3. /\ was \in Int
      /\ style => due = was + 1 /\ (MustEnd(fs) => kind = "StyleEnd")
      /\ ~style => due = was /\ (MustEnd(fs) => MustEnd(frames))
  BY <1>1, <1>2, SegmentDue
<1>4. /\ DueAt(frames, field)' = due
      /\ MustEnd(frames)' <=> MustEnd(fs)
      /\ MarkersClose' <=> MarkersClose
      /\ request' = request
  BY <1>1, <1>2, DueStays
<1>5. /\ request.useColours = "on" => Cardinality(Styles) = was
      /\ request.useColours = "off" => Styles = {}
      /\ request.useColours = "on" /\ MarkersClose /\ MustEnd(frames) => Ends
  BY <1>1 DEF ColoursInv
<1> HIDE DEF was, due
<1>6. CASE style
  <2>1. request.useColours = "on" =>
           \E rgb : out' = Append(out, StyleItem(kind, rgb))
    BY <1>2, <1>6, Zenon DEF Emitted, isColorsEnabled
  <2>2. request.useColours = "off" => out' = out
    <3>1. request.useColours = "off" => ~isColorsEnabled
      BY DEF isColorsEnabled
    <3> QED BY <1>2, <1>6, <3>1 DEF Emitted
  <2>3. kind # "text"
    BY <1>6 DEF StyleStarts
  <2>4. CASE request.useColours = "on"
    <3>1. PICK rgb : out' = Append(out, StyleItem(kind, rgb))
      BY <2>1, <2>4
    <3>2. PICK e : e = StyleItem(kind, rgb)
      OBVIOUS
    <3>3. e.op = kind /\ out' = Append(out, e)
      BY <3>1, <3>2 DEF StyleItem
    <3>4. Cardinality(Styles') = Cardinality(Styles) + 1 /\ (kind = "StyleEnd" => Ends')
      BY <1>1, <2>3, <3>3, StylesAdded
    <3>5. Cardinality(Styles') = due
      BY <1>3, <1>5, <1>6, <2>4, <3>4
    <3>6. request.useColours # "off"
      BY <2>4
    <3> QED BY <1>1, <1>3, <1>4, <1>6, <2>4, <3>4, <3>5, <3>6 DEF ColoursInv
  <2>5. CASE request.useColours = "off"
    <3>1. Styles' = Styles /\ request.useColours # "on"
      BY <2>2, <2>5 DEF Styles
    <3> QED BY <1>1, <1>4, <1>5, <2>5, <3>1 DEF ColoursInv
  <2> QED BY <1>1, <1>4, <2>4, <2>5 DEF ColoursInv
<1>7. CASE ~style
  <2>1. PICK e : e = TextItem(Content(Current, Walked.text))
    OBVIOUS
  <2>2. out' = Append(out, e) /\ e.op = "text"
    BY <1>2, <1>7, <2>1 DEF Emitted, TextItem
  <2>3. Styles' = Styles /\ (Ends => Ends')
    BY <1>1, <2>2, StylesAdded
  <2>4. /\ request.useColours = "on" => Cardinality(Styles') = due
        /\ request.useColours = "off" => Styles' = {}
    BY <1>3, <1>5, <1>7, <2>3
  <2>5. request.useColours = "on" /\ MarkersClose /\ MustEnd(fs) => Ends'
    BY <1>3, <1>5, <1>7, <2>3
  <2> QED BY <1>1, <1>4, <2>4, <2>5 DEF ColoursInv
<1> QED BY <1>6, <1>7

(* A step that writes text, or nothing, and by which nothing becomes due.  *)
LEMMA TextKeepsColours ==
    ASSUME WalkInv, ColoursInv, stage = "formatting", stage' = "formatting",
           UNCHANGED <<request, parsed, order>>,
           out' = out \/ \E text : out' = Append(out, TextItem(text)),
           NEW fs, frames' = fs, NEW k, field' = k,
           DueAt(fs, k) = DueAt(frames, field),
           MarkersClose /\ MustEnd(fs) => MustEnd(frames)
    PROVE  ColoursInv'
<1>1. /\ DueAt(frames, field)' = DueAt(frames, field)
      /\ MustEnd(frames)' <=> MustEnd(fs)
      /\ MarkersClose' <=> MarkersClose
  BY DueStays
<1>2. Styles' = Styles /\ (Ends => Ends')
  <2>1. CASE out' = out
    BY <2>1 DEF Styles, Ends
  <2>2. ASSUME NEW text, out' = Append(out, TextItem(text))
        PROVE  Styles' = Styles /\ (Ends => Ends')
    <3>1. PICK e : e = TextItem(text)
      OBVIOUS
    <3>2. out' = Append(out, e) /\ e.op = "text"
      BY <2>2, <3>1 DEF TextItem
    <3> QED BY <3>2, StylesAdded
  <2> QED BY <2>1, <2>2
<1> QED BY <1>1, <1>2 DEF ColoursInv

(* From the pattern to the prefix of the first attribute.                  *)
LEMMA BeginKeepsColours ==
    ASSUME RenderingInv, ColoursInv, BeginAttributes
    PROVE  ColoursInv'
<1>1. /\ stage = "formatting" /\ stage' = "formatting" /\ AtSegment
      /\ Current.kind = "AllAttributes" /\ out' = out
      /\ UNCHANGED <<request, parsed, order>>
  BY DEF BeginAttributes, AtSegment
<1>2. FormatterInv /\ KeptRead /\ WalkInv
  BY DEF RenderingInv
<1> DEFINE n == frames[1].next
<1>3. /\ Len(frames) = 1 /\ Frame = frames[1] /\ frames[1].pattern = "main" /\ Flat(frames)
      /\ frames # <<>> /\ n \in 1 .. Len(Walked.segments) /\ Walked = parsed.main
  <2>1. /\ Len(frames) = 1 /\ Frame = frames[1] /\ frames[1].pattern = "main" /\ Flat(frames)
        /\ frames # <<>> /\ Frame.next \in 1 .. Len(Walked.segments)
    BY <1>1, <1>2, WalkAt
  <2> QED BY <2>1 DEF Walked
<1>4. n \in Nat \ {0} /\ parsed.main.segments[n].kind = "AllAttributes"
  BY <1>1, <1>3 DEF Current
<1>5. PICK fs : fs = Advanced
  OBVIOUS
<1>6. Len(fs) = 1 /\ fs[1].next = n + 1 /\ Flat(fs) /\ fs # <<>>
  BY <1>3, <1>5, FramesMove, FlatAdvanced DEF Advanced
<1>7. /\ DueAt(frames, field) = DueIn(n - 1)
      /\ MustEnd(frames) <=> EndsBy(parsed.main, n - 1)
  BY <1>3 DEF DueAt, MustEnd
<1> HIDE DEF n
<1>8. /\ DueIn(n) = DueIn(n - 1) + Len(order) * OfMarkers /\ DueIn(n - 1) \in Nat
      /\ Len(order) \in Nat /\ OfMarkers \in Nat
      /\ EndsBy(parsed.main, n) => EndsBy(parsed.main, n - 1)
  <2>1. PICK kind : kind = parsed.main.segments[n].kind
    OBVIOUS
  <2>2. kind = "AllAttributes" /\ kind \notin StyleStarts \cup {"StyleEnd"}
    BY <1>4, <2>1 DEF StyleStarts
  <2> QED BY <1>4, <2>1, <2>2, DueAbout, DueGrows, EscapesGrow
<1>9. CASE order = <<>>
  <2>1. frames' = fs /\ field' = 0
    BY <1>5, <1>9 DEF BeginAttributes
  <2>2. DueAt(fs, 0) = DueIn(n) /\ (MustEnd(fs) <=> EndsBy(parsed.main, n))
    <3>1. fs[1].next - 1 = n
      BY <1>4, <1>6
    <3> QED BY <1>6, <3>1, Zenon DEF DueAt, MustEnd
  <2>3. DueIn(n) = DueIn(n - 1)
    <3>1. Len(order) = 0
      BY <1>9, EmptySeq
    <3> QED BY <1>8, <3>1
  <2> QED BY <1>1, <1>2, <1>7, <1>8, <2>1, <2>2, <2>3, TextKeepsColours
<1>10. CASE order # <<>>
  <2>1. PICK gs : gs = Append(fs, Activation("prefix"))
    OBVIOUS
  <2>2. frames' = gs /\ field' = 1
    BY <1>5, <1>10, <2>1 DEF BeginAttributes
  <2>3. /\ gs[1].next - 2 = n - 1 /\ gs[2].next - 1 = 0 /\ gs[2].pattern = "prefix"
        /\ Len(gs) # 1
    <3>1. Len(gs) = 2 /\ gs[1] = fs[1] /\ gs[2].next = 1 /\ gs[2].pattern = "prefix"
      BY <1>6, <2>1, FramesMove DEF Activation
    <3> QED BY <1>4, <1>6, <3>1
  <2>4. Cardinality(EscapesTo(parsed.prefix, 0)) = 0
    BY DueAbout, EscapesAll DEF Parts
  <2>5. DueAt(gs, 1) = DueIn(n - 1)
    <3>1. DueAt(gs, 1) = DueIn(n - 1) + ((1 - 1) * OfMarkers + 0)
      BY <2>3, <2>4, Zenon DEF DueAt, DueInMarker
    <3> QED BY <1>8, <3>1
  <2>6. MustEnd(gs) => EndsBy(parsed.main, n - 1)
    BY <2>3 DEF MustEnd
  <2> QED BY <1>1, <1>2, <1>7, <2>2, <2>5, <2>6, TextKeepsColours
<1> QED BY <1>9, <1>10

(* From the prefix of an attribute to its suffix.                          *)
LEMMA PrefixKeepsColours ==
    ASSUME RenderingInv, ColoursInv, EndPrefix
    PROVE  ColoursInv'
<1>1. /\ stage = "formatting" /\ stage' = "formatting" /\ field' = field
      /\ Frame.pattern = "prefix" /\ Frame.next > Len(Walked.segments)
      /\ UNCHANGED <<request, parsed, order>>
      /\ \E text : out' = Append(out, TextItem(text))
  BY DEF EndPrefix, AtEnd
<1>2. FormatterInv /\ KeptRead /\ WalkInv
  BY DEF RenderingInv
<1>3. /\ Len(frames) = 2 /\ Frame = frames[2] /\ Flat(frames) /\ frames # <<>>
      /\ Frame.next \in 1 .. Len(Walked.segments) + 1 /\ Len(Walked.segments) \in Nat
  BY <1>1, <1>2, WalkAt
<1>4. /\ frames[2].next - 1 = Len(parsed.prefix.segments) /\ frames[2].pattern = "prefix"
      /\ Len(frames) # 1
  <2>1. Walked = parsed.prefix
    BY <1>1 DEF Walked
  <2> QED BY <1>1, <1>3, <2>1, SMTT(40)
<1>5. PICK fs : fs = Front(frames)
  OBVIOUS
<1>6. PICK gs : gs = Append(fs, Activation("suffix"))
  OBVIOUS
<1>7. /\ Len(gs) = 2 /\ gs[1] = frames[1] /\ gs[2].next = 1 /\ gs[2].pattern = "suffix"
      /\ frames' = gs
  <2>1. Len(fs) = 1 /\ fs[1] = frames[1] /\ Flat(fs) /\ fs # <<>>
    BY <1>3, <1>5, FramesMove
  <2> QED BY <1>5, <1>6, <2>1, FramesMove DEF Activation, EndPrefix
<1>8. Len(gs) # 1 /\ gs[2].pattern # "prefix" /\ gs[2].next - 1 = 0
  BY <1>7
<1>9. /\ EscapesTo(parsed.prefix, Len(parsed.prefix.segments)) = Escapes(parsed.prefix)
      /\ EndsBy(parsed.prefix, Len(parsed.prefix.segments)) <=> Closes(parsed.prefix)
      /\ EscapesTo(parsed.suffix, 0) = {} /\ Cardinality(EscapesTo(parsed.suffix, 0)) = 0
      /\ Cardinality(Escapes(parsed.prefix)) \in Nat
  BY DueAbout, EscapesAll DEF Parts
<1>10. DueInMarker(gs[2]) = DueInMarker(frames[2])
  <2>1. DueInMarker(gs[2]) = Cardinality(Escapes(parsed.prefix)) + 0
    BY <1>8, <1>9, Zenon DEF DueInMarker
  <2>2. DueInMarker(frames[2]) = Cardinality(Escapes(parsed.prefix))
    BY <1>4, <1>9, Zenon DEF DueInMarker
  <2> QED BY <1>9, <2>1, <2>2
<1>11. EndsInMarker(gs[2]) <=> EndsInMarker(frames[2])
  BY <1>4, <1>8, <1>9, Zenon DEF EndsInMarker
<1>12. DueAt(gs, field) = DueAt(frames, field) /\ (MustEnd(gs) => MustEnd(frames))
  BY <1>4, <1>7, <1>8, <1>10, <1>11, Zenon DEF DueAt, MustEnd
<1>13. PICK k : k = field
  OBVIOUS
<1> QED BY <1>1, <1>2, <1>7, <1>12, <1>13, TextKeepsColours

(* From the suffix of an attribute to the next one, or to the pattern.     *)
LEMMA SuffixKeepsColours ==
    ASSUME RenderingInv, ColoursInv, EndSuffix
    PROVE  ColoursInv'
<1>1. /\ stage = "formatting" /\ stage' = "formatting"
      /\ Frame.pattern = "suffix" /\ Frame.next > Len(Walked.segments)
      /\ UNCHANGED <<request, parsed, order>>
  BY DEF EndSuffix, AtEnd
<1>2. FormatterInv /\ KeptRead /\ WalkInv
  BY DEF RenderingInv
<1>3. /\ Len(frames) = 2 /\ Frame = frames[2] /\ Flat(frames) /\ frames # <<>>
      /\ Frame.next \in 1 .. Len(Walked.segments) + 1 /\ Len(Walked.segments) \in Nat
      /\ frames[1].pattern = "main"
  BY <1>1, <1>2, WalkAt
<1>4. /\ frames[2].next - 1 = Len(parsed.suffix.segments) /\ frames[2].pattern # "prefix"
      /\ Len(frames) # 1
  <2>1. Walked = parsed.suffix
    BY <1>1 DEF Walked
  <2> QED BY <1>1, <1>3, <2>1
<1>5. PICK fs : fs = Front(frames)
  OBVIOUS
<1>6. Len(fs) = 1 /\ fs[1] = frames[1] /\ Flat(fs) /\ fs # <<>>
  BY <1>3, <1>5, FramesMove
<1>7. PICK n : n = frames[1].next - 1
  OBVIOUS
<1>8. /\ n \in Nat \ {0} /\ frames[1].next - 2 = n - 1 /\ frames[1].next - 1 = n
      /\ parsed.main.segments[n].kind = "AllAttributes"
      /\ field \in 1 .. Len(order)
  <2>1. n \in 1 .. Len(MainTexts) /\ field \in 1 .. Len(order)
    BY <1>1, <1>3, <1>7, MarkerAt
  <2>2. frames[1].next \in Int
    BY <1>2, <1>3, WalkAt, DueAbout DEF WalkInv, Parts
  <2>3. parsed.main.segments[n].kind = "AllAttributes"
    BY <1>2, <1>3, <1>7 DEF WalkInv
  <2> QED BY <1>7, <2>1, <2>2, <2>3
<1> DEFINE l == Len(order)
           m == OfMarkers
           p == Cardinality(Escapes(parsed.prefix))
           s == Cardinality(Escapes(parsed.suffix))
<1>9. /\ l \in Nat /\ m = p + s /\ p \in Nat /\ s \in Nat
      /\ EscapesTo(parsed.suffix, Len(parsed.suffix.segments)) = Escapes(parsed.suffix)
      /\ EndsBy(parsed.suffix, Len(parsed.suffix.segments)) <=> Closes(parsed.suffix)
      /\ EndsBy(parsed.prefix, 0) /\ Cardinality(EscapesTo(parsed.prefix, 0)) = 0
  BY DueAbout, EscapesAll DEF Parts, OfMarkers
<1>10. DueAt(frames, field) = DueIn(n - 1) + field * m
  <2>1. DueInMarker(frames[2]) = p + s
    BY <1>4, <1>9, Zenon DEF DueInMarker
  <2>2. DueAt(frames, field) = DueIn(n - 1) + ((field - 1) * m + (p + s))
    BY <1>4, <1>8, <2>1, Zenon DEF DueAt
  <2>3. (field - 1) * m + m = field * m
    BY <1>8, <1>9, Products
  <2> QED BY <1>9, <2>2, <2>3
<1>11. MarkersClose => EndsInMarker(frames[2])
  BY <1>4, <1>9 DEF EndsInMarker, MarkersClose
<1>12. MustEnd(frames) <=> EndsBy(parsed.main, n - 1) /\ EndsInMarker(frames[2])
  BY <1>4, <1>8, Zenon DEF MustEnd
<1>13. /\ DueIn(n) = DueIn(n - 1) + l * m /\ DueIn(n - 1) \in Nat
       /\ EndsBy(parsed.main, n) => EndsBy(parsed.main, n - 1)
  <2>1. PICK kind : kind = parsed.main.segments[n].kind
    OBVIOUS
  <2>2. kind = "AllAttributes" /\ kind \notin StyleStarts \cup {"StyleEnd"}
    BY <1>8, <2>1 DEF StyleStarts
  <2> QED BY <1>8, <2>1, <2>2, DueAbout, DueGrows, EscapesGrow
<1>14. field * m \in Int
  BY <1>8, <1>9, Products
<1>15. CASE field < l
  <2>1. PICK gs : gs = Append(fs, Activation("prefix"))
    OBVIOUS
  <2>2. PICK k : k = field + 1
    OBVIOUS
  <2>3. frames' = gs /\ field' = k /\ \E text : out' = Append(out, TextItem(text))
    <3>1. frames' = gs /\ field' = k
      BY <1>5, <1>15, <2>1, <2>2, Zenon DEF EndSuffix
    <3>2. out' = Append(out, TextItem(<<" ">>))
      BY <1>15, Zenon DEF EndSuffix
    <3>3. \E text : out' = Append(out, TextItem(text))
      BY <3>2, Zenon
    <3> QED BY <3>1, <3>3
  <2>4. /\ Len(gs) # 1 /\ gs[1] = frames[1] /\ gs[2].next - 1 = 0 /\ gs[2].pattern = "prefix"
    <3>1. Len(gs) = 2 /\ gs[1] = fs[1] /\ gs[2].next = 1 /\ gs[2].pattern = "prefix"
      BY <1>6, <2>1, FramesMove DEF Activation
    <3> QED BY <1>6, <3>1
  <2>5. DueAt(gs, k) = DueAt(frames, field)
    <3>1. DueAt(gs, k) = DueIn(n - 1) + ((k - 1) * m + 0)
      BY <1>8, <1>9, <2>4, Zenon DEF DueAt, DueInMarker
    <3>2. k - 1 = field
      BY <1>8, <2>2
    <3> HIDE DEF m
    <3> QED BY <1>10, <1>13, <1>14, <3>1, <3>2
  <2>6. MarkersClose /\ MustEnd(gs) => MustEnd(frames)
    <3>1. MustEnd(gs) => EndsBy(parsed.main, n - 1)
      BY <1>8, <2>4, Zenon DEF MustEnd
    <3> QED BY <1>11, <1>12, <3>1
  <2> QED BY <1>1, <1>2, <2>3, <2>5, <2>6, TextKeepsColours
<1>16. CASE ~(field < l)
  <2>1. frames' = fs /\ field' = 0 /\ out' = out
    BY <1>5, <1>16, Zenon DEF EndSuffix
  <2>2. DueAt(fs, 0) = DueIn(n) /\ (MustEnd(fs) <=> EndsBy(parsed.main, n))
    BY <1>6, <1>8, Zenon DEF DueAt, MustEnd
  <2>3. field = l
    BY <1>8, <1>9, <1>16
  <2>4. DueAt(fs, 0) = DueAt(frames, field)
    BY <1>10, <1>13, <2>2, <2>3, Zenon
  <2> QED BY <1>1, <1>2, <1>11, <1>12, <1>13, <2>1, <2>2, <2>4, TextKeepsColours
<1> QED BY <1>15, <1>16

(* Every step of the program.                                              *)
LEMMA NextKeepsColours ==
    RenderingInv /\ ColoursInv /\ [Next]_vars => ColoursInv'
<1> SUFFICES ASSUME RenderingInv, ColoursInv, [Next]_vars PROVE ColoursInv'
  OBVIOUS
<1>1. FormatterInv /\ KeptRead /\ RecordInv /\ WalkInv
  BY DEF RenderingInv
<1>2. ASSUME UNCHANGED <<request, parsed, order, field, frames, out>>,
             stage' = stage \/ (stage = "formatting" /\ stage' = "formatted")
      PROVE  ColoursInv'
  <2>1. PICK fs, k : fs = frames /\ k = field
    OBVIOUS
  <2>2. /\ DueAt(frames, field)' = DueAt(frames, field)
        /\ MustEnd(frames)' <=> MustEnd(frames)
        /\ MarkersClose' <=> MarkersClose
    BY <1>2, <2>1, DueStays
  <2>3. Styles' = Styles /\ (Ends' <=> Ends)
    BY <1>2 DEF Styles, Ends
  <2> QED BY <1>2, <2>2, <2>3 DEF ColoursInv
<1>3. ASSUME stage' \notin {"formatting", "formatted"} PROVE ColoursInv'
  BY <1>3 DEF ColoursInv
<1>4. CASE Setup
  <2>1. stage \in {"main", "prefix", "suffix"}
    BY <1>4 DEF Setup, ParseStep, ParsePrefix, ParseSuffix, Construct, ParseFails, ParsePattern,
                Parsing
  <2>2. stage' \notin {"formatting", "formatted"}
    BY <1>4, <2>1 DEF Setup, ParseStep, ParsePrefix, ParseSuffix, Construct, ParseFails,
                ParsePattern, formatterVars
  <2> QED BY <1>3, <2>2
<1>5. CASE With
  BY <1>3, <1>5 DEF With
<1>6. CASE Format
  <2>1. /\ stage = "ready" /\ out' = out /\ frames' = <<Activation("main")>>
        /\ stage' = "formatting" /\ parsed' = parsed
    BY <1>6 DEF Format
  <2>2. out' = <<>>
    BY <1>1, <2>1 DEF WalkInv
  <2>3. Styles' = {}
    BY <2>2, EmptySeq DEF Styles
  <2>4. Ends' /\ Cardinality(Styles') = 0
    BY <2>3, FS_EmptySet DEF Ends
  <2>5. DueAt(frames, field)' = 0
    <3>1. Len(frames') = 1 /\ frames'[1].next - 1 = 0
      BY <2>1 DEF Activation
    <3>2. DueAt(frames, field)' = DueIn(0)'
      BY <3>1 DEF DueAt, DueIn, AllTo, OfMarkers
    <3>3. EscapesTo(parsed.main, 0)' = {} /\ AllTo(0)' = {}
      BY DEF EscapesTo, AllTo
    <3>4. OfMarkers' \in Nat
      <4>1. OfMarkers' = OfMarkers
        BY <2>1 DEF OfMarkers
      <4> QED BY <4>1, DueAbout
    <3>5. Len(order') \in Nat
      BY <1>1, <1>6, OrderType, LenProperties DEF WalkInv, Format
    <3>6. DueIn(0)' = 0 + 0 * Len(order') * OfMarkers'
      BY <3>3, FS_EmptySet, Zenon DEF DueIn
    <3> QED BY <3>2, <3>4, <3>5, <3>6
  <2> QED BY <2>3, <2>4, <2>5 DEF ColoursInv
<1>7. CASE Walk
  <2>1. Still /\ (Emitted \/ BeginAttributes \/ EndPrefix \/ EndSuffix \/ EndMain)
    BY <1>1, <1>7, WalkIs
  <2>2. CASE EndMain
    BY <1>2, <2>2 DEF EndMain, AtEnd, callVars
  <2> QED BY <2>1, <2>2, EmittedKeepsColours, BeginKeepsColours, PrefixKeepsColours,
             SuffixKeepsColours
<1>8. CASE SetColourChoice
  BY <1>2, <1>8 DEF SetColourChoice
<1>9. CASE ToJson \/ (\E asserts \in BOOLEAN : Export(asserts)) \/ UNCHANGED vars
  <2>1. UNCHANGED formatterVars
    BY <1>9 DEF ToJson, Export, vars
  <2> QED BY <1>2, <2>1 DEF formatterVars
<1> QED BY <1>4, <1>5, <1>6, <1>7, <1>8, <1>9 DEF Next, FormatRecord, Ended

(* The escape sequences are as they should be at every step.               *)
LEMMA ColoursInvariance == Spec => [](RenderingInv /\ ColoursInv)
<1>1. Init => ColoursInv
  BY DEF Init, FormatterInit, ColoursInv
<1> QED BY <1>1, NextKeepsColours, RenderingInvariance, PTL DEF Spec

(* When the walk has reached the end of the pattern.                       *)
LEMMA AtTheEnd ==
    ASSUME RenderingInv, stage = "formatted"
    PROVE  /\ DueAt(frames, field) = EscapesDue
           /\ MustEnd(frames)
<1>1. KeptRead /\ FormatterInv /\ WalkInv
  BY DEF RenderingInv
<1>2. PICK n \in Nat : n = Len(parsed.main.segments) /\ DOMAIN parsed.main.segments = 1 .. n
  BY DueAbout DEF Parts
<1>3. Len(frames) = 1 /\ frames[1].next - 1 = n
  <2>1. Len(frames) = 1 /\ frames[1].next > n
    BY <1>1, <1>2 DEF WalkInv
  <2>2. frames[1].pattern = "main" /\ DOMAIN frames = {1}
    BY <1>1, <2>1, FlatLast DEF FormatterInv, Walking, Flat
  <2>3. frames[1].next \in 1 .. n + 1
    BY <1>1, <1>2, <2>2 DEF WalkInv
  <2> QED BY <1>2, <2>1, <2>3
<1>4. DueAt(frames, field) = DueIn(n) /\ (MustEnd(frames) <=> EndsBy(parsed.main, n))
  BY <1>3 DEF DueAt, MustEnd
<1>5. /\ EscapesTo(parsed.main, n) = Escapes(parsed.main)
      /\ EndsBy(parsed.main, n) <=> Closes(parsed.main)
  BY <1>2, EscapesAll
<1>6. Closes(parsed.main)
  BY <1>1 DEF KeptRead
<1>7. AllTo(n) = {i \in DOMAIN parsed.main.segments : parsed.main.segments[i].kind = "AllAttributes"}
  BY <1>2 DEF AllTo
<1> QED BY <1>4, <1>5, <1>6, <1>7, Zenon DEF DueIn, EscapesDue, OfMarkers

(* A formatter whose colours are forced on writes every escape sequence    *)
(* that its patterns ask for, once for each attribute, and one that has    *)
(* them forced off writes none, however the process' choice changes.       *)
THEOREM ColoursAreForced == Spec => []ColoursForced
<1>1. RenderingInv /\ ColoursInv => ColoursForced
  BY AtTheEnd DEF ColoursInv, ColoursForced
<1> QED BY <1>1, ColoursInvariance, PTL

(* The last escape sequence of a text resets the style, if the markers     *)
(* close what they open; the parser has seen to it for the pattern.        *)
THEOREM StylesAreClosed == Spec => []StylesClosed
<1>1. RenderingInv /\ ColoursInv => StylesClosed
  BY AtTheEnd DEF ColoursInv, StylesClosed, MarkersClose, Ends
<1> QED BY <1>1, ColoursInvariance, PTL

-----------------------------------------------------------------------------
(* The numbers of a colour                                                 *)

Comma == ","

\* The places of the numbers, and of what is not blank at all.
Commaless(text) == {i \in DOMAIN text : text[i] \notin {Space, Comma}}
CommasTo(text, n) == {i \in 1 .. n : text[i] = Comma}
PartPlaces(text, k) == {i \in Commaless(text) : Cardinality(CommasTo(text, i)) = k}
Inked(text) == {i \in DOMAIN text : text[i] # Space}

LEMMA Places ==
    ASSUME NEW text
    PROVE  /\ Trim(text) = Span(text, Inked(text))
           /\ \A k : Part(text, k) = Span(text, PartPlaces(text, k))
           /\ Comma # Space
<1>1. Trim(text) = Span(text, Inked(text))
  BY Zenon DEF Trim, Inked, Space
<1>2. ASSUME NEW k PROVE Part(text, k) = Span(text, PartPlaces(text, k))
  <2>1. \A i : Commas(text, i) = Cardinality(CommasTo(text, i))
    BY Zenon DEF Commas, CommasTo, Comma
  <2>2. Part(text, k)
          = Span(text, {i \in DOMAIN text : text[i] \notin {Space, Comma} /\ Commas(text, i) = k})
    BY Zenon DEF Part, Space, Comma
  <2>3. {i \in DOMAIN text : text[i] \notin {Space, Comma} /\ Commas(text, i) = k}
          = PartPlaces(text, k)
    BY <2>1 DEF PartPlaces, Commaless
  <2> QED BY <2>2, <2>3
<1>3. Comma # Space
  BY Zenon DEF Comma, Space
<1> QED BY <1>1, <1>2, <1>3

(* Some places moved by a distance are as many.                            *)
LEMMA MovedCount ==
    ASSUME NEW n \in Nat, NEW P \in SUBSET (1 .. n), NEW d \in Nat
    PROVE  Cardinality({i + d : i \in P}) = Cardinality(P)
<1> DEFINE Q == {i + d : i \in P}
           f == [i \in P |-> i + d]
<1>1. IsFiniteSet(P)
  <2>1. IsFiniteSet(1 .. n)
    BY FS_Interval
  <2> QED BY <2>1, FS_Subset
<1>2. f \in [P -> Q] /\ IsInjective(f) /\ (\A q \in Q : \E i \in P : f[i] = q)
  BY DEF IsInjective
<1>3. f \in Bijection(P, Q)
  BY <1>2 DEF Bijection, Injection, Surjection, IsInjective
<1>4. ExistsBijection(P, Q)
  BY <1>3 DEF ExistsBijection
<1> HIDE DEF Q
<1> QED BY <1>1, <1>4, FS_Bijection DEF Q

(* What is between some places of a text is between the same places of a   *)
(* longer one.                                                             *)
LEMMA MovedSpan ==
    ASSUME NEW D, NEW long \in Seq(D), NEW text \in Seq(D), NEW d \in Nat,
           Len(text) + d <= Len(long), \A i \in 1 .. Len(text) : text[i] = long[i + d],
           NEW P \in SUBSET (1 .. Len(text)), NEW Q, Q = {i + d : i \in P}
    PROVE  Span(long, Q) = Span(text, P)
<1>1. Len(text) \in Nat /\ Len(long) \in Nat
  BY LenProperties
<1>2. CASE P = {}
  BY <1>2 DEF Span
<1>3. CASE P # {}
  <2>1. Min(P) \in P /\ Max(P) \in P /\ \A i \in P : Min(P) <= i /\ i <= Max(P)
    <3>1. P \subseteq Nat /\ P \subseteq 0 .. Len(text)
      BY <1>1
    <3> QED BY <1>1, <1>3, <3>1, MinIsMin, MaxIsMax
  <2>2. Min(Q) \in Q /\ Max(Q) \in Q /\ \A i \in Q : Min(Q) <= i /\ i <= Max(Q)
    <3>1. \A i \in P : i + d \in Nat /\ i + d \in 0 .. Len(long)
      BY <1>1
    <3>2. Q \subseteq Nat /\ Q \subseteq 0 .. Len(long) /\ Q # {}
      BY <1>3, <3>1
    <3> QED BY <1>1, <3>2, MinIsMin, MaxIsMax
  <2>3. PICK from \in P, to \in P : from = Min(P) /\ to = Max(P)
    BY <2>1
  <2>4. /\ from \in Nat \ {0} /\ to \in from .. Len(text)
        /\ from + d \in Q /\ to + d \in Q
    BY <1>1, <2>1, <2>3
  <2>5. Min(Q) = from + d
    <3>1. PICK y \in P : Min(Q) = y + d
      BY <2>2
    <3>2. from <= y /\ Min(Q) <= from + d /\ y \in Int
      <4>1. y \in 1 .. Len(text)
        OBVIOUS
      <4>2. from <= y
        BY <2>1, <2>3
      <4>3. Min(Q) <= from + d
        BY <2>2, <2>4
      <4> QED BY <4>1, <4>2, <4>3
    <3> QED BY <2>4, <3>1, <3>2
  <2>6. Max(Q) = to + d
    <3>1. PICK y \in P : Max(Q) = y + d
      BY <2>2
    <3>2. y <= to /\ to + d <= Max(Q) /\ y \in Int
      <4>1. y \in 1 .. Len(text)
        OBVIOUS
      <4>2. y <= to
        BY <2>1, <2>3
      <4>3. to + d <= Max(Q)
        BY <2>2, <2>4
      <4> QED BY <4>1, <4>2, <4>3
    <3> QED BY <2>4, <3>1, <3>2
  <2>7. /\ Span(text, P) = SubSeq(text, from, to)
        /\ Span(long, Q) = SubSeq(long, from + d, to + d)
    <3>1. Q # {}
      BY <1>3
    <3> QED BY <1>3, <2>3, <2>5, <2>6, <3>1 DEF Span
  <2>8. /\ SubSeq(text, from, to) \in Seq(D) /\ Len(SubSeq(text, from, to)) = to - from + 1
        /\ \A i \in 1 .. to - from + 1 : SubSeq(text, from, to)[i] = text[from + i - 1]
    <3>1. to \in from - 1 .. Len(text)
      BY <1>1, <2>4
    <3> QED BY <2>4, <3>1, SubSeqElements
  <2>9. /\ SubSeq(long, from + d, to + d) \in Seq(D)
        /\ Len(SubSeq(long, from + d, to + d)) = to - from + 1
        /\ \A i \in 1 .. to - from + 1 :
              SubSeq(long, from + d, to + d)[i] = long[from + d + i - 1]
    <3>1. PICK a \in Nat \ {0}, b \in Nat : a = from + d /\ b = to + d
      BY <1>1, <2>4
    <3>2. a \in Nat \ {0} /\ b \in a - 1 .. Len(long)
      BY <1>1, <2>4, <3>1
    <3>3. b - a + 1 = to - from + 1
      BY <2>4, <3>1
    <3>4. /\ SubSeq(long, a, b) \in Seq(D) /\ Len(SubSeq(long, a, b)) = b - a + 1
          /\ \A i \in 1 .. b - a + 1 : SubSeq(long, a, b)[i] = long[a + i - 1]
      BY ONLY <3>2, long \in Seq(D), SubSeqElements, Zenon
    <3> QED BY <3>1, <3>3, <3>4
  <2>10. \A i \in 1 .. to - from + 1 : text[from + i - 1] = long[from + d + i - 1]
    <3> TAKE i \in 1 .. to - from + 1
    <3>1. from + i - 1 \in 1 .. Len(text) /\ (from + i - 1) + d = from + d + i - 1
      BY <1>1, <2>4
    <3> QED BY <3>1
  <2> DEFINE a == SubSeq(text, from, to)
             b == SubSeq(long, from + d, to + d)
  <2> HIDE DEF a, b
  <2>11. a = b
    <3>1. a \in Seq(D) /\ b \in Seq(D) /\ Len(a) = Len(b)
      BY <2>8, <2>9 DEF a, b
    <3>2. \A i \in 1 .. Len(a) : a[i] = b[i]
      BY <2>8, <2>9, <2>10 DEF a, b
    <3> QED BY <3>1, <3>2, SeqEqual
  <2> QED BY <2>7, <2>11 DEF a, b
<1> QED BY <1>2, <1>3

(* The blanks around a text do not matter for its parts.                   *)
LEMMA TrimmedParts ==
    ASSUME NEW D, NEW spec \in Seq(D), Contains(spec, Comma), NEW text, text = Trim(spec)
    PROVE  /\ text \in Seq(D) /\ Contains(text, Comma)
           /\ \A k : Part(text, k) = Part(spec, k)
<1> DEFINE P == Inked(spec)
<1>1. Len(spec) \in Nat /\ DOMAIN spec = 1 .. Len(spec)
  BY LenProperties
<1>2. PICK c \in 1 .. Len(spec) : spec[c] = Comma
  BY DEF Contains
<1>3. c \in P /\ P \subseteq 1 .. Len(spec) /\ \A i \in 1 .. Len(spec) : i \notin P => spec[i] = Space
  BY <1>1, <1>2, Places DEF Inked
<1> HIDE DEF P
<1>4. PICK from \in P, to \in P : /\ from = Min(P) /\ to = Max(P)
                                  /\ \A i \in P : from <= i /\ i <= to
  <2>1. P \subseteq Nat /\ P \subseteq 0 .. Len(spec) /\ P # {}
    BY <1>1, <1>3
  <2> QED BY <1>1, <2>1, MinIsMin, MaxIsMax
<1>5. text = SubSeq(spec, from, to)
  BY <1>3, <1>4, Places DEF Span, P
<1>6. PICK d \in Nat : d = from - 1
  BY <1>1, <1>3
<1>7. /\ text \in Seq(D) /\ Len(text) = to - d /\ DOMAIN text = 1 .. Len(text)
      /\ from = d + 1 /\ to \in d + 1 .. Len(spec) /\ Len(text) \in Nat
      /\ Len(text) + d <= Len(spec) /\ \A i \in 1 .. Len(text) : text[i] = spec[i + d]
  <2>1. from \in Nat \ {0} /\ to \in from - 1 .. Len(spec) /\ from <= to
    BY <1>1, <1>3, <1>4
  <2>2. /\ text \in Seq(D) /\ Len(text) = to - from + 1
        /\ \A i \in 1 .. to - from + 1 : text[i] = spec[from + i - 1]
    BY <1>5, <2>1, SubSeqElements
  <2>3. from = d + 1 /\ to - from + 1 = to - d /\ to \in d + 1 .. Len(spec)
    BY <1>1, <1>6, <2>1
  <2>4. \A i \in 1 .. to - d : from + i - 1 = i + d
    BY <2>3
  <2> QED BY <1>1, <2>2, <2>3, <2>4, LenProperties
<1>8. Contains(text, Comma)
  <2>1. c - d \in 1 .. Len(text) /\ (c - d) + d = c
    BY <1>3, <1>4, <1>7
  <2> QED BY <1>2, <1>7, <2>1 DEF Contains
<1>9. ASSUME NEW i \in 1 .. Len(text)
      PROVE  Cardinality(CommasTo(spec, i + d)) = Cardinality(CommasTo(text, i))
  <2> DEFINE A == CommasTo(text, i)
             B == CommasTo(spec, i + d)
  <2>1. A \in SUBSET (1 .. i) /\ i \in Nat
    BY DEF CommasTo
  <2>2. ASSUME NEW j \in B PROVE \E a \in A : j = a + d
    <3>1. j \in 1 .. i + d /\ spec[j] = Comma /\ j \in 1 .. Len(spec)
      BY <1>7 DEF CommasTo
    <3>2. j \in P
      BY <1>1, <3>1, Places DEF P, Inked
    <3>3. j - d \in 1 .. i /\ (j - d) + d = j
      BY <1>4, <1>7, <3>1, <3>2
    <3>4. text[j - d] = Comma
      BY <1>7, <3>1, <3>3
    <3>5. j - d \in A
      BY <3>3, <3>4 DEF CommasTo
    <3> QED BY <3>3, <3>5
  <2>3. ASSUME NEW a \in A PROVE a + d \in B
    BY <1>7 DEF CommasTo
  <2>4. B = {a + d : a \in A}
    BY <2>2, <2>3
  <2> HIDE DEF A, B
  <2>5. Cardinality({a + d : a \in A}) = Cardinality(A)
    BY <2>1, MovedCount
  <2> QED BY <2>4, <2>5 DEF A, B
<1>10. ASSUME NEW k PROVE Part(text, k) = Part(spec, k)
  <2> DEFINE A == PartPlaces(text, k)
             B == PartPlaces(spec, k)
  <2>1. A \in SUBSET (1 .. Len(text))
    BY <1>7 DEF PartPlaces, Commaless
  <2>2. ASSUME NEW j \in B PROVE \E a \in A : j = a + d
    <3>1. /\ j \in 1 .. Len(spec) /\ spec[j] \notin {Space, Comma}
          /\ Cardinality(CommasTo(spec, j)) = k
      BY <1>1 DEF PartPlaces, Commaless
    <3>2. j \in P
      BY <1>3, <3>1
    <3>3. j - d \in 1 .. Len(text) /\ (j - d) + d = j
      BY <1>4, <1>7, <3>1, <3>2
    <3>4. text[j - d] = spec[j] /\ Cardinality(CommasTo(text, j - d)) = k
      BY <1>7, <1>9, <3>1, <3>3
    <3>5. j - d \in A
      BY <1>7, <3>1, <3>3, <3>4 DEF PartPlaces, Commaless
    <3> QED BY <3>3, <3>5
  <2>3. ASSUME NEW a \in A PROVE a + d \in B
    <3>1. /\ a \in 1 .. Len(text) /\ text[a] \notin {Space, Comma}
          /\ Cardinality(CommasTo(text, a)) = k
      BY <1>7 DEF PartPlaces, Commaless
    <3>2. a + d \in 1 .. Len(spec) /\ spec[a + d] = text[a]
      BY <1>1, <1>7, <3>1
    <3>3. Cardinality(CommasTo(spec, a + d)) = k
      BY <1>9, <3>1
    <3> QED BY <1>1, <3>1, <3>2, <3>3 DEF PartPlaces, Commaless
  <2>4. B = {a + d : a \in A}
    BY <2>2, <2>3
  <2> HIDE DEF A, B
  <2>5. Span(spec, B) = Span(text, A)
    BY <1>7, <2>1, <2>4, MovedSpan
  <2> QED BY <2>5, Places DEF A, B
<1> QED BY <1>7, <1>8, <1>10

(* A part of a text is a text.                                             *)
LEMMA PartType ==
    ASSUME NEW D, NEW text \in Seq(D), NEW k
    PROVE  Part(text, k) \in Seq(D)
<1> DEFINE P == PartPlaces(text, k)
<1>1. Len(text) \in Nat /\ DOMAIN text = 1 .. Len(text)
  BY LenProperties
<1>2. P \subseteq 1 .. Len(text)
  BY <1>1 DEF PartPlaces, Commaless
<1>3. Part(text, k) = Span(text, P)
  BY Places
<1> HIDE DEF P
<1>4. CASE P = {}
  BY <1>3, <1>4, EmptySeq DEF Span
<1>5. CASE P # {}
  <2>1. /\ Min(P) \in P /\ Max(P) \in P /\ Min(P) <= Max(P)
    <3>1. P \subseteq Nat /\ P \subseteq 0 .. Len(text)
      BY <1>1, <1>2
    <3>2. Min(P) \in P /\ Max(P) \in P /\ \A i \in P : i <= Max(P)
      BY <1>1, <1>5, <3>1, MinIsMin, MaxIsMax
    <3> QED BY <3>2
  <2>2. Part(text, k) = SubSeq(text, Min(P), Max(P))
    BY <1>3, <1>5 DEF Span
  <2>3. PICK from \in P, to \in P : from = Min(P) /\ to = Max(P) /\ from <= to
    BY <2>1
  <2>4. from \in Nat \ {0} /\ to \in from - 1 .. Len(text)
    BY <1>1, <1>2, <2>3
  <2> QED BY <2>2, <2>3, <2>4, SubSeqElements
<1> QED BY <1>4, <1>5

(* A text with a comma is a colour only as three numbers.                  *)
LEMMA CommaColours ==
    ASSUME NEW D, NEW text \in Seq(D), Contains(text, Comma), ColorOf(text) # {}
    PROVE  ColorOf(text) = RgbColor(text)
<1> DEFINE hash == "#"
<1>1. Len(text) \in Nat
  BY LenProperties
<1>2. PICK c \in 1 .. Len(text) : text[c] = Comma
  BY DEF Contains
<1>3. text # <<>>
  BY <1>1, <1>2, EmptySeq
<1>4. Comma # hash /\ Comma \notin DOMAIN HexDigit
  BY Zenon DEF Comma, HexDigit
<1>5. /\ text[1] = hash => ColorOf(text) = HexColor(Tail(text))
      /\ text[1] # hash => ColorOf(text) = RgbColor(text)
  BY <1>3, Zenon DEF ColorOf, Comma
<1> HIDE DEF hash
<1>6. ASSUME text[1] = hash PROVE FALSE
  <2>1. c - 1 \in 1 .. Len(Tail(text)) /\ Tail(text)[c - 1] = Comma
    <3>1. c # 1
      BY <1>2, <1>4, <1>6
    <3>2. /\ Len(Tail(text)) = Len(text) - 1
          /\ \A i \in 1 .. Len(text) - 1 : Tail(text)[i] = text[i + 1]
      BY <1>3, HeadTailProperties
    <3>3. c - 1 \in 1 .. Len(text) - 1 /\ (c - 1) + 1 = c
      BY <1>1, <3>1
    <3> QED BY <1>2, <3>2, <3>3
  <2>2. Comma \in ToSet(Tail(text))
    <3>1. DOMAIN Tail(text) = 1 .. Len(Tail(text))
      BY <1>3, HeadTailProperties, LenProperties
    <3> QED BY <2>1, <3>1 DEF ToSet
  <2>3. HexColor(Tail(text)) = {}
    BY <1>4, <2>2 DEF HexColor
  <2> QED BY <1>5, <1>6, <2>3
<1> QED BY <1>5, <1>6

(* A spec that is not there is empty.                                      *)
LEMMA NoSpecification ==
    ASSUME NEW text \in Seq(STRING), NEW directive \in Directives, ~HasSpecification(directive)
    PROVE  Len(Specification(directive, text)) = 0
<1>1. directive.offset \in Nat /\ directive.length = 0
  BY ShortPowerAssumption DEF Directives, Shorts, HasSpecification
<1>2. PICK offset \in Nat : offset = directive.offset
  BY <1>1
<1>3. Specification(directive, text) = Substr(text, offset, 0)
  BY <1>1, <1>2 DEF Specification
<1>4. PICK to \in Nat : to < offset + 1 /\ Substr(text, offset, 0) = SubSeq(text, offset + 1, to)
  <2>1. Len(text) \in Nat
    BY LenProperties
  <2>2. /\ (IF offset + 0 > Len(text) THEN Len(text) ELSE offset + 0) \in Nat
        /\ (IF offset + 0 > Len(text) THEN Len(text) ELSE offset + 0) < offset + 1
    BY <2>1
  <2> QED BY <2>2 DEF Substr, Slice
<1>5. SubSeq(text, offset + 1, to) = <<>>
  BY <1>4, SubSeqEmpty
<1> QED BY <1>3, <1>4, <1>5, EmptySeq

(* The numbers of a colour are those that are spelled, for any width of    *)
(* the numbers they are read into.                                         *)
THEOREM ColoursAreTrue == Spec => []ColoursTrue
<1>1. ASSUME RenderingInv,
             NEW i \in DOMAIN parsed.main.segments,
             NEW segment, segment = parsed.main.segments[i],
             NEW spec, spec = Specification(segment.directive, parsed.main.text),
             segment.kind \in ColorStarts, Contains(spec, Comma),
             \A k \in 1 .. 3 : Numbers(spec)[k] < 2^ShortBits
      PROVE  /\ parseColorSpec(spec) = {Numbers(spec)}
             /\ \A k \in 1 .. 3 : Numbers(spec)[k] <= MaxComponent
  <2>1. /\ Typed(parsed.main) /\ Validated(parsed.main)
    BY <1>1 DEF RenderingInv, KeptRead, FormatterInv, Kept, Parts
  <2>2. segment.directive \in Directives /\ parsed.main.text \in Seq(STRING)
    <3>1. segment \in SegmentType
      BY <1>1, <2>1, ElementOfSeq, LenProperties DEF Typed
    <3> QED BY <2>1, <3>1 DEF Typed, SegmentType
  <2>3. spec \in Seq(STRING)
    BY <1>1, <2>2, SpecificationType
  <2>4. HasSpecification(segment.directive)
    <3>1. Len(spec) # 0
      BY <1>1, <2>3, LenProperties DEF Contains
    <3> QED BY <1>1, <2>2, <3>1, NoSpecification
  <2>5. parseColorSpec(spec) # {}
    BY <1>1, <2>1, <2>4 DEF Validated
  <2>6. PICK text : text = Trim(spec)
    OBVIOUS
  <2>7. parseColorSpec(spec) = ColorOf(text)
    BY <2>6 DEF parseColorSpec
  <2>8. /\ text \in Seq(STRING) /\ Contains(text, Comma)
        /\ \A k : Part(text, k) = Part(spec, k)
    BY <1>1, <2>3, <2>6, TrimmedParts
  <2>9. parseColorSpec(spec) = RgbColor(text) /\ RgbColor(text) # {}
    BY <2>5, <2>7, <2>8, CommaColours
  <2>10. /\ ThreeNumbers(text)
         /\ \A k \in 0 .. 2 : ShortSpelled(Part(text, k)) <= MaxComponent
         /\ RgbColor(text) = {<<ShortSpelled(Part(text, 0)), ShortSpelled(Part(text, 1)),
                                ShortSpelled(Part(text, 2))>>}
    BY <2>9, Zenon DEF RgbColor
  <2>11. ASSUME NEW k \in 0 .. 2, NumberSpelled(Part(spec, k)) < 2^ShortBits
         PROVE  /\ ShortSpelled(Part(text, k)) = NumberSpelled(Part(spec, k))
                /\ NumberSpelled(Part(spec, k)) <= MaxComponent
    <3> DEFINE digits == Part(text, k)
    <3>1. AllDigits(digits) /\ digits = Part(spec, k)
      BY <2>8, <2>10 DEF ThreeNumbers
    <3>2. Len(digits) \in Nat /\ DOMAIN digits = 1 .. Len(digits)
      BY <2>8, PartType, LenProperties
    <3> HIDE DEF digits
    <3>3. \A j \in 1 .. Len(digits) : DigitValue[digits[j]] \in 0 .. 9
      BY <3>1, <3>2, DigitsHaveValues DEF AllDigits
    <3>4. ShortSpelled(digits) = NumberSpelled(digits)
      BY <2>11, <3>1, <3>2, <3>3, Spelled
    <3>5. ShortSpelled(digits) <= MaxComponent
      BY <2>10 DEF digits
    <3> QED BY <3>1, <3>4, <3>5 DEF digits
  <2> DEFINE a == NumberSpelled(Part(spec, 0))
             b == NumberSpelled(Part(spec, 1))
             c == NumberSpelled(Part(spec, 2))
  <2>12. Numbers(spec) = <<a, b, c>>
    BY Zenon DEF Numbers
  <2>13. a < 2^ShortBits /\ b < 2^ShortBits /\ c < 2^ShortBits
    <3>1. Numbers(spec)[1] < 2^ShortBits /\ Numbers(spec)[2] < 2^ShortBits
          /\ Numbers(spec)[3] < 2^ShortBits
      BY <1>1
    <3> HIDE DEF a, b, c
    <3> QED BY <2>12, <3>1
  <2>14. /\ ShortSpelled(Part(text, 0)) = a /\ ShortSpelled(Part(text, 1)) = b
         /\ ShortSpelled(Part(text, 2)) = c
         /\ a <= MaxComponent /\ b <= MaxComponent /\ c <= MaxComponent
    BY <2>11, <2>13
  <2>15. parseColorSpec(spec) = {Numbers(spec)}
    BY <2>9, <2>10, <2>12, <2>14, Zenon
  <2> HIDE DEF a, b, c
  <2> QED BY <2>12, <2>14, <2>15
<1>2. RenderingInv => ColoursTrue
  <2> SUFFICES ASSUME RenderingInv PROVE ColoursTrue
    OBVIOUS
  <2>1. ASSUME NEW i \in DOMAIN parsed.main.segments
        PROVE  LET segment == parsed.main.segments[i]
                   spec == Specification(segment.directive, parsed.main.text)
               IN  segment.kind \in ColorStarts /\ Contains(spec, Comma)
                      /\ (\A k \in 1 .. 3 : Numbers(spec)[k] < 2^ShortBits) =>
                          /\ parseColorSpec(spec) = {Numbers(spec)}
                          /\ \A k \in 1 .. 3 : Numbers(spec)[k] <= MaxComponent
    BY <1>1, Zenon
  <2> QED BY <2>1, Zenon DEF ColoursTrue, Comma
<1> QED BY <1>2, RenderingInvariance, PTL
=============================================================================
