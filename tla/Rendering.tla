------------------------------ MODULE Rendering ------------------------------
(***************************************************************************)
(* One record from its LogEntry to its sinks: attributes are attached to   *)
(* it, then the pattern formatter, the JSON formatter and the worker of    *)
(* the OpenTelemetry sink each make of it what they can show. They only    *)
(* read the record, so the order they do it in does not matter.            *)
(***************************************************************************)
EXTENDS PatternFormatter

VARIABLES attached,  \* how many of the calls of With were made
          json,      \* what AsJson returned: empty, or that one result
          otel       \* the same of the OpenTelemetry sink's worker

vars == <<parserVars, formatterVars, attached, json, otel>>
renderVars == <<attached, json, otel>>

Init ==
    /\ FormatterInit
    /\ attached = 0
    /\ json = <<>>
    /\ otel = <<>>

\* LogEntry::With, with the next [name, value] of request.calls.
With ==
    /\ stage = "ready"
    /\ attached < Len(request.calls)
    /\ attached' = attached + 1
    /\ LET call == request.calls[attached + 1]
       IN  record' = WithField(record, call.name, call.value)
    /\ UNCHANGED <<parserVars, request, stage, parsed, choice, choices, order, field,
                   frames, out, json, otel>>

\* The entry is destroyed: its record is formatted.
FormatRecord ==
    /\ attached = Len(request.calls)
    /\ Format
    /\ UNCHANGED renderVars

ToJson ==
    /\ stage = "formatted" /\ json = <<>>
    /\ json' = <<AsJson(record)>>
    /\ UNCHANGED <<parserVars, formatterVars, attached, otel>>

\* The worker converts the record, or the program ends: in the assertion, if
\* the build has it, or for a level that has no severity.
Export(asserts) ==
    /\ json # <<>> /\ otel = <<>>
    /\ otel' = <<IF Convertible(record, asserts)
                 THEN [ended |-> FALSE, log |-> logRecordToOpenTelemetry(record)]
                 ELSE [ended |-> TRUE]>>
    /\ UNCHANGED <<parserVars, formatterVars, attached, json>>

\* The record has been shown, or there is no formatter to show it.
Ended ==
    /\ stage \in {"failed", "aborted"} \/ otel # <<>>
    /\ UNCHANGED vars

Next ==
    \/ (Setup \/ Walk \/ SetColourChoice) /\ UNCHANGED renderVars
    \/ With \/ FormatRecord \/ ToJson
    \/ \E asserts \in BOOLEAN : Export(asserts)
    \/ Ended

Spec == Init /\ [][Next]_vars

-----------------------------------------------------------------------------
(* Type invariant                                                          *)

Stages == {"main", "prefix", "suffix", "ready", "formatting", "formatted", "failed",
           "aborted"}

\* The parser's variables are well typed for each of the three patterns, what
\* was parsed is kept, and the walk is inside what was parsed.
TypeOK ==
    /\ ParserTypeOK
    /\ stage \in Stages
    /\ \A p \in {"main", "prefix", "suffix"} : Len(parsed[p].segments) <= MaxSegments
    /\ DOMAIN record.fields \subseteq {request.calls[i].name : i \in DOMAIN request.calls}
    /\ \A n \in DOMAIN record.fields : record.fields[n] \in Values
    /\ choice \in BOOLEAN /\ choices \in 0 .. MaxChoices
    /\ ToSet(order) \subseteq DOMAIN record.fields
    /\ field \in 0 .. Len(order)
    /\ \A i \in DOMAIN frames :
          frames[i].next \in 1 .. Len(parsed[frames[i].pattern].segments) + 1
    /\ stage = "formatting" => frames # <<>>
    /\ attached \in 0 .. Len(request.calls)
    /\ Len(json) <= 1 /\ Len(otel) <= 1

-----------------------------------------------------------------------------
(* Safety                                                                  *)

\* A number the OpenTelemetry sink can represent, or no number.
Representable(value) == value.tag = "UInt64" => value.num <= Int64Max

\* What a value of JSON or OpenTelemetry looks like in a pattern.
Shown(value) ==
    CASE value.type = "number" -> <<ToString(value.num)>>
      [] value.type = "bool" -> IF value.num = 1 THEN <<"true">> ELSE <<"false">>
      [] OTHER -> value.text

(* logRecordToOpenTelemetry, "a lossly conversion": a record of any level  *)
(* but Off whose numbers an Int64 holds, the largest one included, reaches *)
(* the collector, with the attributes and values that JSON and the pattern *)
(* show; empty attributes are in neither. What is not so ends the program  *)
(* in the sink's thread, or is shown as a negative number.                 *)
RenderingsAgree ==
    /\ json # <<>> => DOMAIN json[1].attributes = Held(record)
    /\ otel # <<>> /\ record.level # "Off"
           /\ (\A n \in Held(record) : Representable(record.fields[n])) =>
          /\ ~otel[1].ended
          /\ otel[1].log.attributes = json[1].attributes
          /\ \A n \in Held(record) :
                Shown(json[1].attributes[n]) = appendAttributeValue(record.fields[n])

\* The value the first call for a name was made with.
FirstValue(name) ==
    request.calls[Min({i \in 1 .. attached : request.calls[i].name = name})].value

(* "Constructs a signed 64-bit integer attribute value" (LogRecord.h): an  *)
(* integer that is attached is the integer the record holds.               *)
SignedKept ==
    \A n \in DOMAIN record.fields :
        FirstValue(n).type = "int" => record.fields[n].num = FirstValue(n).num
=============================================================================
