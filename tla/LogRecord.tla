------------------------------ MODULE LogRecord ------------------------------
(***************************************************************************)
(* logrin::LogRecord and AttributeValue: how a value a client attaches is  *)
(* stored, and what the JSON formatter and the OpenTelemetry sink make of  *)
(* a record. A client's value is [type, num, text]: num is its value, or   *)
(* the whole part of it, if it is a number or a bool; text is how it is    *)
(* shown if it is a double or a string.                                    *)
(***************************************************************************)
EXTENDS Integers, Sequences, TLC

CONSTANT LongBits   \* the width of an UInt64

ASSUME LongBitsAssumption == LongBits \in Nat \ {0}

\* Arithmetic that the prover does not know.
ASSUME LongPowersAssumption ==
    2^(LongBits - 1) \in Nat \ {0} /\ 2^LongBits = 2 * 2^(LongBits - 1)

Int64Max == 2^(LongBits - 1) - 1

LogLevel == {"Trace", "Debug", "Info", "Warning", "Error", "Fatal", "Off"}

-----------------------------------------------------------------------------
(* Attributes                                                              *)

\* What a client may attach, and what a record holds of it.
ClientValues ==
    [type : {"bool"}, num : {0, 1}, text : Seq(STRING)]
    \cup [type : {"int", "unsigned", "float", "double", "string", "empty"},
          num : Int, text : Seq(STRING)]
Values == [tag : {"Mono", "bool", "UInt64", "double", "string"},
           num : 0 .. 2^LongBits - 1, text : Seq(STRING)]

\* The constructor a value selects. The one for Int64 has a parameter that
\* cannot be deduced; every arithmetic type but bool and double converts to
\* UInt64, by value and without a sign.
AttributeValue(v) ==
    CASE v.type = "bool" -> [tag |-> "bool", num |-> v.num, text |-> <<>>]
      [] v.type \in {"int", "unsigned", "float"} ->
            [tag |-> "UInt64", num |-> v.num % 2^LongBits, text |-> <<>>]
      [] v.type \in {"double", "string"} -> [tag |-> v.type, num |-> 0, text |-> v.text]
      [] v.type = "empty" -> [tag |-> "Mono", num |-> 0, text |-> <<>>]

\* A record without attributes. The parts of its location that are known are
\* the ones AsJson shows.
Now(level, message, logger, location) ==
    [level |-> level, message |-> message, logger |-> logger, location |-> location,
     fields |-> <<>>]

\* LogRecord::With emplaces: the first value of a name is kept.
WithField(record, name, value) ==
    [record EXCEPT !.fields =
        [n \in DOMAIN @ \cup {name} |-> IF n \in DOMAIN @ THEN @[n]
                                      ELSE AttributeValue(value)]]

\* The names of the attributes that hold something.
Held(record) == {n \in DOMAIN record.fields : record.fields[n].tag # "Mono"}

\* appendAttributeValue: an attribute as text.
appendAttributeValue(value) ==
    CASE value.tag = "bool" -> IF value.num = 1 THEN <<"true">> ELSE <<"false">>
      [] value.tag \in {"Int64", "UInt64"} -> <<ToString(value.num)>>
      [] OTHER -> value.text

-----------------------------------------------------------------------------
(* JSON                                                                    *)

Number(n) == [type |-> "number", num |-> n, text |-> <<>>]
Bool(n) == [type |-> "bool", num |-> n, text |-> <<>>]
Text(text) == [type |-> "text", num |-> 0, text |-> text]

JsonValue(value) ==
    CASE value.tag \in {"Int64", "UInt64"} -> Number(value.num)
      [] value.tag = "bool" -> Bool(value.num)
      [] OTHER -> Text(value.text)

\* Empty attributes are left out, and so are the unknown parts of the source.
AsJson(record) ==
    [level |-> record.level, message |-> record.message, logger |-> record.logger,
     source |-> record.location,
     attributes |-> [n \in Held(record) |-> JsonValue(record.fields[n])]]

-----------------------------------------------------------------------------
(* OpenTelemetry                                                           *)

logLevelToSeverity ==
    [Trace |-> "kTrace", Debug |-> "kDebug", Info |-> "kInfo", Warning |-> "kWarn",
     Error |-> "kError", Fatal |-> "kFatal"]

\* Mutant: the largest Int64 is taken for too large.
WideOrLargest(value) == value.tag = "UInt64" /\ value.num >= Int64Max

\* A number that an Int64 does not hold, which trips an assertion.
Wide(value) == value.tag = "UInt64" /\ value.num > Int64Max

\* Without assertions the bits are read as an Int64.
convertLogrinAttributeValue(value) ==
    CASE value.tag = "UInt64" /\ value.num > Int64Max ->
            Number(value.num - 2^LongBits)
      [] value.tag \in {"Int64", "UInt64"} /\ value.num <= Int64Max -> Number(value.num)
      [] value.tag = "bool" -> Bool(value.num)
      [] OTHER -> Text(value.text)

\* The conversion of a record comes to an end in the worker: its level has a
\* severity, and no assertion is tripped, if the build has them.
Convertible(record, asserts) ==
    /\ record.level \in DOMAIN logLevelToSeverity
    /\ asserts => \A n \in Held(record) : ~Wide(record.fields[n])

logRecordToOpenTelemetry(record) ==
    [severity |-> logLevelToSeverity[record.level], body |-> record.message,
     attributes |-> [n \in Held(record) |-> convertLogrinAttributeValue(record.fields[n])]]
=============================================================================
