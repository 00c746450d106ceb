------------------------------ MODULE JsonWriter ------------------------------
(***************************************************************************)
(* The forward-only JSON writer: lib/src/json/json_writer.c.  The output   *)
(* is a sequence of tokens; white space, which is all the two formats      *)
(* differ in, is left out.  A writer is one record, and every write        *)
(* function an operator from writer to writer.                             *)
(* Beside the writer runs its caller: the JSON text that the calls so far  *)
(* mean, by the rules of JSON alone.  The caller may break the rules at    *)
(* any time; from then on it is no longer legal.  Two flags of the caller  *)
(* are history, for the properties: late, that it wrote a raw value or an  *)
(* object behind another value, and lost, that a comma was not written.    *)
(***************************************************************************)
EXTENDS JsonTokens

CONSTANTS
    Objects,         \* texts of the objects that write_object is called with
    AllocMayFail,    \* whether the buffer may fail to grow
    MaxOut           \* bound: no call is made once the output is this long

ASSUME ObjectsAssumption == \A object \in Objects : IsJson(object)
ASSUME AllocAssumption == AllocMayFail \in BOOLEAN
ASSUME MaxOutAssumption == MaxOut \in Nat

VARIABLES
    writer,   \* struct cardano_json_writer_t
    caller,   \* the text the calls describe
    encoded   \* what the last call returned: a document, an error or nothing

vars == <<writer, caller, encoded>>

-----------------------------------------------------------------------------
(* The writer.                                                             *)

Contexts == {"ROOT", "ARRAY", "OBJECT"}
Errors   == {"ENCODING", "ARGUMENT", "MEMORY"}

NewFrame(context) ==
    [context |-> context, item_count |-> 0, expect_value |-> context = "ARRAY"]

NewWriter == [frames |-> <<NewFrame("ROOT")>>, last_error |-> "SUCCESS",
              has_buffer |-> TRUE, out |-> <<>>]

depth(w) == Len(w.frames) - 1
Top(w)   == w.frames[Len(w.frames)]
Failed(w, error) == [w EXCEPT !.last_error = error]

\* cardano_buffer_write on a buffer that reset could not allocate again fails,
\* and set_message_if_error keeps the first error.
Emit(w, tokens) ==
    IF w.has_buffer \/ tokens = <<>> THEN [w EXCEPT !.out = @ \o tokens]
                                     ELSE Failed(w, "ARGUMENT")

SetFrame(w, i, frame) == [w EXCEPT !.frames[i] = frame]
SetTop(w, frame) == SetFrame(w, Len(w.frames), frame)

can_write(frame) ==
    \/ frame.context = "ROOT" /\ frame.item_count = 0
    \/ frame.expect_value

Comma(frame) ==
    IF frame.item_count > 0 /\ frame.context = "ARRAY" THEN <<"comma">> ELSE <<>>

\* write_raw_value and write_object look at the count only.
CommaOfRaw(frame) == IF frame.item_count > 0 THEN <<"comma">> ELSE <<>>

Written(frame) ==
    [frame EXCEPT !.item_count = @ + 1, !.expect_value = frame.context = "ARRAY"]

write_value(w, separator, token) ==
    IF can_write(Top(w))
    THEN SetTop(Emit(w, separator \o <<token>>), Written(Top(w)))
    ELSE Failed(w, "ENCODING")

write_scalar(w, token)      == write_value(w, Comma(Top(w)), token)
write_raw_value(w)          == write_value(w, CommaOfRaw(Top(w)), "raw")

\* Runs in the builds without assertions also when the bracket could not be
\* written; a refusal then replaces that error.
push_context(w, context) ==
    IF \/ depth(w) >= MAX_JSON_DEPTH - 1
       \/ Top(w).context = "OBJECT" /\ ~Top(w).expect_value
    THEN Failed(w, "ENCODING")
    ELSE [w EXCEPT !.frames = Append(@, NewFrame(context))]

write_start_array(w) ==
    IF can_write(Top(w))
    THEN push_context(Emit(w, Comma(Top(w)) \o <<"begin_array">>), "ARRAY")
    ELSE Failed(w, "ENCODING")

\* At the root there is no check: a second object may follow the first value.
write_start_object(w) ==
    IF Top(w).expect_value \/ depth(w) = 0
    THEN push_context(Emit(w, Comma(Top(w)) \o <<"begin_object">>), "OBJECT")
    ELSE Failed(w, "ENCODING")

pop_context(w) == [w EXCEPT !.frames = SubSeq(@, 1, Len(@) - 1)]

\* Mutant: the value that ends is not counted in the context around it.
write_end_uncounted(w, context, token) ==
    IF Top(w).context = context
    THEN Emit(pop_context(w), <<token>>)
    ELSE Failed(w, "ENCODING")

\* The value that ends counts as an item of the context around it, whose
\* expect_value stays as it was.
write_end(w, context, token) ==
    IF Top(w).context = context
    THEN LET closed == Emit(pop_context(w), <<token>>)
         IN  SetTop(closed, [Top(closed) EXCEPT !.item_count = @ + 1])
    ELSE Failed(w, "ENCODING")

write_end_array(w)  == write_end(w, "ARRAY", "end_array")
write_end_object(w) == write_end(w, "OBJECT", "end_object")

\* Mutant: a comma also before the first name.
write_property_name_always_comma(w) ==
    IF Top(w).context = "OBJECT"
    THEN SetTop(Emit(w, <<"comma", "str", "colon">>), [Top(w) EXCEPT !.expect_value = TRUE])
    ELSE Failed(w, "ENCODING")

\* A name may follow a name: expect_value is not asked.
write_property_name(w) ==
    IF Top(w).context = "OBJECT"
    THEN SetTop(Emit(w, CommaOfRaw(Top(w)) \o <<"str", "colon">>),
                [Top(w) EXCEPT !.expect_value = TRUE])
    ELSE Failed(w, "ENCODING")

\* cardano_write_json_object walks an object and makes one call for each
\* bracket, name and scalar of its text; it stops at the first that fails.
WriteToken(w, before, token) ==
    CASE token = "begin_array" -> write_start_array(w)
      [] token = "end_array" -> write_end_array(w)
      [] token = "begin_object" -> write_start_object(w)
      [] token = "end_object" -> write_end_object(w)
      [] token \in {"comma", "colon"} -> w
      [] token \in {"str", "lit", "raw"} ->
           IF TakesName(before) THEN write_property_name(w) ELSE write_scalar(w, token)

Serialized(w, object) ==
    LET written[text \in Seq(Tokens)] ==
            IF text = <<>> THEN w
            ELSE LET v == written[Front(text)]
                 IN  IF v.last_error # "SUCCESS" THEN v
                     ELSE WriteToken(v, After[Front(text)], Last(text))
    IN  written[object]

\* The frame is counted once by the call for the value and once more here.
write_object(w, object) ==
    IF can_write(Top(w))
    THEN LET written == Serialized(Emit(w, CommaOfRaw(Top(w))), object)
         IN  SetFrame(written, Len(w.frames), Written(written.frames[Len(w.frames)]))
    ELSE Failed(w, "ENCODING")

-----------------------------------------------------------------------------
(* A write that fails and is not noticed.                                  *)

\* The brackets of a text that are still open, the innermost last, whether or
\* not the text is JSON.
OpenBrackets[text \in Seq(Tokens)] ==
    IF text = <<>> THEN <<>>
    ELSE LET before == OpenBrackets[Front(text)]
         IN  CASE Last(text) = "begin_array" -> Append(before, "ARRAY")
               [] Last(text) = "begin_object" -> Append(before, "OBJECT")
               [] Last(text) \in Closing -> Front(before)
               [] OTHER -> before

\* write_signed_int throws the result of writing its comma away; every other
\* write is looked at.  The commas of a text, behind what it began with, that
\* stand before a literal in an array and may be missing in the output.
UncheckedCommas(before, text) ==
    {i \in Len(before) + 1..Len(text) - 1 :
        /\ text[i] = "comma" /\ text[i + 1] = "lit"
        /\ LET open == OpenBrackets[SubSeq(text, 1, i)]
           IN  open # <<>> /\ Last(open) = "ARRAY"}

\* A text without the tokens at some positions.
Without(text, lost) ==
    LET kept[t \in Seq(Tokens)] ==
            IF t = <<>> THEN <<>>
            ELSE IF Len(t) \in lost THEN kept[Front(t)]
            ELSE Append(kept[Front(t)], Last(t))
    IN  kept[text]

-----------------------------------------------------------------------------
(* The caller.  A call continues the text, behind a comma where JSON wants *)
(* one.                                                                    *)

NewCaller == [legal |-> TRUE, late |-> FALSE, lost |-> FALSE, text |-> <<>>]

Separator == IF TakesComma(After[caller.text]) THEN <<"comma">> ELSE <<>>

Due == After[caller.text \o Separator]

WantsValue     == TakesValue(Due)
WantsName      == TakesName(Due)
WantsEnd(kind) == TakesEnd(After[caller.text], kind)

MayOpen         == WantsValue /\ Len(Due.open) + 1 < MAX_JSON_DEPTH
MayHold(object) == WantsValue /\ Fits(object, Len(Due.open))

Gave(tokens) == [caller EXCEPT !.text = @ \o Separator \o tokens]
Ended(kind)  == [caller EXCEPT !.text = Append(@, CloseOf(kind))]

\* The container that the text stands in has a value already: in an object, a
\* comma stands before the name.
HasValues ==
    \/ Separator # <<>>
    \/ /\ Due.wants = "value" /\ Len(caller.text) > 2
       /\ caller.text[Len(caller.text) - 2] = "comma"

\* A raw value or an object behind another value.
GaveText(tokens) == [Gave(tokens) EXCEPT !.late = @ \/ HasValues]

-----------------------------------------------------------------------------
(* One action per function.  A call on a writer in error has no effect.    *)

Init == writer = NewWriter /\ caller = NewCaller /\ encoded = <<"none">>

Broken == [NewCaller EXCEPT !.legal = FALSE]

\* w is the writer after the call, if memory lasts.  When the buffer cannot
\* grow, what part of the text arrived is never seen again; unless only commas
\* were lost that nobody looks after, and the next write has the memory again.
Call(w, allowed, meant) ==
    /\ Len(writer.out) < MaxOut
    /\ encoded' = <<"none">>
    /\ \/ /\ writer' = IF writer.last_error = "SUCCESS" THEN w ELSE writer
          /\ caller' = IF caller.legal /\ allowed THEN meant ELSE Broken
       \/ /\ AllocMayFail
          /\ writer.last_error = "SUCCESS"
          /\ w.out # writer.out
          /\ \E error \in {"MEMORY", w.last_error} \ {"SUCCESS"} :
                writer' = [w EXCEPT !.last_error = error, !.out = writer.out]
          /\ caller' = Broken
       \/ /\ AllocMayFail
          /\ writer.last_error = "SUCCESS"
          /\ \E lost \in SUBSET UncheckedCommas(writer.out, w.out) \ {{}} :
                writer' = [w EXCEPT !.out = Without(@, lost)]
          /\ caller' = IF caller.legal /\ allowed THEN [meant EXCEPT !.lost = TRUE] ELSE Broken

\* write_bool, write_null, write_uint, write_signed_int and write_double write
\* a literal; write_string, write_bigint, write_*_as_string, write_*_as_hex and
\* write_*_as_bech32 text in quotes.
WriteScalar(token) ==
    Call(write_scalar(writer, token), WantsValue, Gave(<<token>>))

WriteRawValue == Call(write_raw_value(writer), WantsValue, GaveText(<<"raw">>))

WriteObject(object) ==
    Call(write_object(writer, object), MayHold(object), GaveText(object))

WriteStartArray == Call(write_start_array(writer), MayOpen, Gave(<<"begin_array">>))

WriteStartObject == Call(write_start_object(writer), MayOpen, Gave(<<"begin_object">>))

WriteEndArray == Call(write_end_array(writer), WantsEnd("ARRAY"), Ended("ARRAY"))

WriteEndObject == Call(write_end_object(writer), WantsEnd("OBJECT"), Ended("OBJECT"))

WritePropertyName == Call(write_property_name(writer), WantsName, Gave(<<"str", "colon">>))

\* A NULL or empty argument, or a conversion to hex, bech32 or digits that
\* fails before anything is written.  The bech32 functions return without a
\* word on a NULL, and do not ask for the last error before they set it; the
\* others leave a writer in error as it is.
RejectArgument ==
    /\ writer' \in {writer} \cup {Failed(writer, error) : error \in {"ARGUMENT", "MEMORY"}}
    /\ caller' = Broken
    /\ encoded' = <<"none">>

\* cardano_json_writer_encode with a buffer that is large enough.
Encode ==
    /\ encoded' = IF \/ writer.last_error # "SUCCESS"
                     \/ Top(writer).context # "ROOT"
                     \/ Top(writer).expect_value
                  THEN <<"error">>
                  ELSE <<"ok", writer.out>>
    /\ UNCHANGED <<writer, caller>>

\* cardano_json_writer_encode_in_buffer: the text so far, complete or not.
EncodeInBuffer ==
    /\ \/ encoded' = IF writer.last_error # "SUCCESS" \/ writer.out = <<>>
                     THEN <<"error">>
                     ELSE <<"text", writer.out>>
       \/ AllocMayFail /\ encoded' = <<"error">>
    /\ UNCHANGED <<writer, caller>>

\* SUCCESS is returned whether or not there is a buffer.
Reset ==
    /\ \/ writer' = NewWriter /\ caller' = NewCaller
       \/ AllocMayFail /\ writer' = [NewWriter EXCEPT !.has_buffer = FALSE]
                       /\ caller' = Broken
    /\ encoded' = <<"none">>

Next ==
    \/ \E token \in Scalars : WriteScalar(token)
    \/ WriteRawValue
    \/ \E object \in Objects : WriteObject(object)
    \/ WriteStartArray
    \/ WriteStartObject
    \/ WriteEndArray
    \/ WriteEndObject
    \/ WritePropertyName
    \/ RejectArgument
    \/ Encode
    \/ EncodeInBuffer
    \/ Reset

Spec == Init /\ [][Next]_vars

-----------------------------------------------------------------------------
(* Properties.                                                             *)

Frame == [context : Contexts, item_count : Nat, expect_value : BOOLEAN]

WriterType == [frames : Seq(Frame), last_error : {"SUCCESS"} \cup Errors,
               has_buffer : BOOLEAN, out : Seq(Tokens)]

CallerType == [legal : BOOLEAN, late : BOOLEAN, lost : BOOLEAN, text : Seq(Tokens)]

\* The writer keeps the shape of its struct, and the frames never outgrow its
\* array current_frame, whatever is called (push_context).
TypeOK ==
    /\ writer \in WriterType
    /\ Len(writer.frames) \in 1..MAX_JSON_DEPTH
    /\ caller \in CallerType
    /\ encoded \in {<<"none">>, <<"error">>} \cup ({"ok", "text"} \X Seq(Tokens))

\* As long as no error is recorded, the contexts on the stack are the brackets
\* of the output that are open, whatever was called: a push that is refused has
\* written its bracket already and must leave an error (push_context).
FramesMatchBrackets ==
    writer.last_error = "SUCCESS" =>
        [i \in 1..depth(writer) |-> writer.frames[i + 1].context]
            = OpenBrackets[writer.out]

\* A caller that keeps to JSON and to the depth limit is never refused: item
\* counts and expect_value, kept across any nesting of containers, allow the
\* next call whenever JSON does.
LegalCallsAccepted == caller.legal => writer.last_error = "SUCCESS"

\* What makes LegalCallsAccepted inductive: the writer's view of a legal text.
\* The frames are the containers that are open.  An array always expects a
\* value, an object behind a name; behind the end of a container in an object
\* expect_value stays set (write_end_array, write_end_object), which does no
\* harm.  The innermost count tells whether there is a value.
WriterFollowsCaller ==
    caller.legal =>
        LET now == After[caller.text]
        IN  /\ writer.last_error = "SUCCESS"
            /\ writer.has_buffer
            /\ depth(writer) = Len(now.open)
            /\ writer.frames[1].context = "ROOT" /\ ~writer.frames[1].expect_value
            /\ \A i \in 1..Len(now.open) :
                 /\ writer.frames[i + 1].context = now.open[i]
                 /\ now.open[i] = "ARRAY" => writer.frames[i + 1].expect_value
            /\ now.wants \in {"value", "first", "next"}
            /\ now.wants = "value" /\ now.open # <<>> => Top(writer).expect_value
            /\ Top(writer).item_count > 0 <=> HasValues \/ now.wants = "next"

\* The stack of frames is in step with the output and with a legal caller.
FramesInStep ==
    TypeOK /\ FramesMatchBrackets /\ LegalCallsAccepted /\ WriterFollowsCaller

\* Nothing that the caller did, and no comma that was lost, makes the output
\* differ from the text.
Exact(c) == ~c.late /\ ~c.lost

\* The output of a legal caller is at every moment the text that its calls mean,
\* each separator in its place, as long as no raw value and no object was
\* written behind another value, and write_signed_int lost no comma.
OutputIsText ==
    caller.legal /\ Exact(caller) => writer.out = caller.text

\* What a legal caller gets from encode is, with the same exceptions, its complete
\* document, and is JSON: no container is open, no value is missing, nothing of
\* an earlier document is left over from before a reset.  A writer nothing was
\* written to encodes to "".
EncodedIsDocument ==
    caller.legal /\ Exact(caller) /\ encoded[1] = "ok" =>
        encoded[2] = caller.text /\ (caller.text = <<>> \/ IsJson(caller.text))

\* A legal caller gets its document, while it is written and when it is encoded:
\* also when memory runs out, but for the one write that is not looked at.
WritesDocument == OutputIsText /\ EncodedIsDocument
=============================================================================
