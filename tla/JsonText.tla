------------------------------- MODULE JsonText -------------------------------
(***************************************************************************)
(* Writer and parser together.  A program writes a document, encodes it    *)
(* and parses what it got; or it parses a text from elsewhere.  What was   *)
(* parsed is turned into text again by cardano_json_object_to_json_string  *)
(* (lib/src/json/json_object.c).  A writer, a parse and a parsed object    *)
(* are used by one thread at a time, one after the other.                  *)
(***************************************************************************)
EXTENDS JsonWriter, JsonParser, FiniteSets

VARIABLE json_string    \* the text cached in the parsed object

all_vars == <<vars, parser_vars, json_string>>

TextInit ==
    /\ Init
    /\ calls = <<>> /\ parsed = <<>> /\ dropped = FALSE /\ json_string = <<"none">>
    /\ \/ step = "idle" /\ Start(<<>>)
       \/ step = "value" /\ \E input \in Inputs : Start(input)

Write == /\ step = "idle"
         /\ Next
         /\ UNCHANGED <<parser_vars, json_string>>

\* An empty text is refused before it is parsed.
ParseEncoded ==
    /\ step = "idle"
    /\ encoded[1] = "ok" /\ encoded[2] # <<>>
    /\ ctx' = [input |-> encoded[2], offset |-> 0, depth |-> 0]
    /\ step' = "value"
    /\ UNCHANGED <<vars, calls, parsed, dropped, json_string>>

Parse == ParserNext /\ UNCHANGED <<vars, json_string>>

\* Mutant: the text is returned without asking encode whether it is complete.
ToJsonString_unasked ==
    /\ step = "done"
    /\ json_string' = <<"ok", write_object(NewWriter, parsed).out>>
    /\ step' = "printed"
    /\ UNCHANGED <<vars, ctx, calls, parsed, dropped>>

\* cardano_json_object_to_json_string, the first call: a new writer, the object
\* and nothing else, encode.  Later calls return the cached text.
ToJsonString ==
    /\ step = "done"
    /\ LET w == write_object(NewWriter, parsed)
       IN  json_string' = IF \/ w.last_error # "SUCCESS"
                             \/ Top(w).context # "ROOT"
                             \/ Top(w).expect_value
                          THEN <<"error">>
                          ELSE <<"ok", w.out>>
    /\ step' = "printed"
    /\ UNCHANGED <<vars, ctx, calls, parsed, dropped>>

TextNext == Write \/ ParseEncoded \/ Parse \/ ToJsonString

TextSpec == TextInit /\ [][TextNext]_all_vars

-----------------------------------------------------------------------------
(* Properties.                                                             *)

\* A comma before a closing bracket, and a quote that is missing at the end,
\* are forgiven by the parser.
Forgiven[input \in Seq(InputTokens)] ==
    IF input = <<>> THEN <<>>
    ELSE LET before == Forgiven[Front(input)]
             token  == Last(input)
             late   == token \in Closing /\ before # <<>> /\ Last(before) = "comma"
         IN  Append(IF late THEN Front(before) ELSE before,
                    IF token = "cut" THEN "str" ELSE token)

Empties(text) == {i \in 1..Len(text) - 1 : /\ text[i] \in Opening
                                           /\ text[i + 1] \in Closing}

\* What the parser returns is JSON, and every token of the input is in it, once
\* and in order, up to what it forgives (cardano_parse_value,
\* cardano_parse_array_value, cardano_parse_object_value,
\* cardano_json_object_parse), unless an array could not grow.
ParsedIsInput ==
    step = "done" => IsJson(parsed) /\ (dropped \/ parsed = Forgiven[ctx.input])

\* JSON is never refused while its nesting and its empty containers together stay
\* below the limit: the depth of the parser and of the writer agree.
JsonIsAccepted ==
    step = "NULL" /\ IsJson(ctx.input) => ~Fits(ctx.input, Cardinality(Empties(ctx.input)))

\* What the parser returns is the input up to what it forgives or drops, and it
\* refuses JSON for its depth only.
ParsesJson == ParsedIsInput /\ JsonIsAccepted

\* cardano_json_object_parse: "NULL if the input is invalid, the JSON string is
\* malformed, or there is insufficient memory", with depth "the current depth of
\* the JSON structure being parsed" (json_parser.h): JSON within the limit of
\* the writer is parsed.
NestingDecides ==
    step = "NULL" /\ IsJson(ctx.input) => ~Fits(ctx.input, 0)

\* An object that was parsed turns into the text of what was parsed, which is
\* the input without what was forgiven or dropped.  Only an object nested one level deeper than the writer
\* goes has no text.
PrintedIsParsed ==
    step = "printed" => json_string = IF Fits(parsed, 0) THEN <<"ok", parsed>> ELSE <<"error">>
=============================================================================
