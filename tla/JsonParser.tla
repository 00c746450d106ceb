------------------------------ MODULE JsonParser ------------------------------
(***************************************************************************)
(* The recursive-descent JSON parser: lib/src/json/internals/json_parser.c *)
(* and cardano_json_object_parse.  The input is a sequence of tokens, as   *)
(* JsonWriter writes them ("cut" is a string whose closing quote is        *)
(* missing: it takes the rest of the input).  The call stack of the        *)
(* recursion is a sequence of the containers being parsed; an object that  *)
(* was parsed is represented by its text in canonical form.                *)
(***************************************************************************)
EXTENDS JsonTokens

CONSTANTS
    Inputs,          \* the inputs that are parsed
    ParseAllocFails, \* whether an object or array may fail to be allocated
    GrowAt           \* the sizes at which an array has to grow for one more
                     \* item: 31 and on, with the 32 places it begins with

ASSUME ParserAllocAssumption == ParseAllocFails \in BOOLEAN
ASSUME GrowAtAssumption == GrowAt \subseteq Nat \ {0}

ValueTokens == {"str", "lit", "raw", "cut"}
InputTokens == Tokens \cup {"cut"}

ASSUME InputsAssumption == Inputs \subseteq Seq(InputTokens)

VARIABLES
    ctx,      \* struct cardano_json_parse_context_t
    calls,    \* the calls of parse_array_value and parse_object_value in progress
    step,     \* where the innermost call stands
    parsed,   \* the value the last call that returned has returned
    dropped   \* history: whether an item was read and not kept

parser_vars == <<ctx, calls, step, parsed, dropped>>

-----------------------------------------------------------------------------

AtEnd     == ctx.offset >= Len(ctx.input)
Sees(token) == ~AtEnd /\ ctx.input[ctx.offset + 1] = token
Running == calls[Len(calls)]
Outer == SubSeq(calls, 1, Len(calls) - 1)

Start(input) == ctx = [input |-> input, offset |-> 0, depth |-> 0]

ParserInit == /\ \E input \in Inputs : Start(input)
              /\ calls = <<>>
              /\ step = "value"
              /\ parsed = <<>>
              /\ dropped = FALSE

Fail == step' = "NULL" /\ UNCHANGED <<ctx, calls, parsed>>

\* A call of cardano_parse_value returns text, with open the calls around it.
\* cardano_json_object_parse refuses what is left over behind its value.
Return(text, open, after) ==
    /\ ctx' = after
    /\ calls' = open
    /\ parsed' = text
    /\ step' = CASE open # <<>> -> "returned"
                 [] open = <<>> /\ after.offset < Len(after.input) -> "NULL"
                 [] OTHER -> "done"

Closed(call) ==
    <<OpenOf(call.kind)>> \o call.text \o <<CloseOf(call.kind)>>

EndContainer ==
    Return(Closed(Running), Outer,
           [ctx EXCEPT !.offset = @ + 1, !.depth = @ - 1])

Advanced(n) == [ctx EXCEPT !.offset = @ + n]

\* cardano_parse_value on a string, a number or a literal.
ParseScalar ==
    /\ step = "value"
    /\ \E token \in ValueTokens :
          /\ Sees(token)
          /\ Return(<<IF token = "cut" THEN "str" ELSE token>>, calls, Advanced(1))

\* cardano_parse_value on the end of the input, or on what starts no value.
ParseNothing ==
    /\ step = "value"
    /\ ~\E token \in ValueTokens \cup Opening : Sees(token)
    /\ Fail

EmptyContainer(kind) ==
    Sees(OpenOf(kind)) /\ ctx.offset + 1 < Len(ctx.input)
        /\ ctx.input[ctx.offset + 2] = CloseOf(kind)

Enter(kind) ==
    /\ ctx' = [ctx EXCEPT !.offset = @ + 1, !.depth = @ + 1]
    /\ calls' = Append(calls, [kind |-> kind, count |-> 0, text |-> <<>>])
    /\ step' = "item"
    /\ UNCHANGED parsed

\* cardano_parse_array_value up to its loop.  An empty array returns before the
\* loop, and the level it entered is not left.
ParseArray ==
    /\ step = "value"
    /\ Sees("begin_array")
    /\ CASE ctx.depth + 1 >= MAX_JSON_DEPTH -> Fail
         [] ctx.depth + 1 < MAX_JSON_DEPTH /\ EmptyContainer("ARRAY") ->
              Return(<<"begin_array", "end_array">>, calls,
                     [ctx EXCEPT !.offset = @ + 2, !.depth = @ + 1])
         [] OTHER -> Enter("ARRAY")

\* cardano_parse_object_value up to its loop: the depth is not asked here.
ParseObject ==
    /\ step = "value"
    /\ Sees("begin_object")
    /\ CASE ctx.offset + 1 >= Len(ctx.input) -> Fail
         [] ctx.offset + 1 < Len(ctx.input) /\ EmptyContainer("OBJECT") ->
              Return(<<"begin_object", "end_object">>, calls,
                     [ctx EXCEPT !.offset = @ + 2, !.depth = @ + 1])
         [] OTHER -> Enter("OBJECT")

SeparatorOf(call) == IF call.count > 0 THEN <<"comma">> ELSE <<>>

\* The head of the loop over the elements of an array.  A bracket behind a
\* comma ends the array too.
ParseElement ==
    /\ step = "item"
    /\ Running.kind = "ARRAY"
    /\ CASE AtEnd -> Fail
         [] Sees("end_array") -> EndContainer
         [] OTHER -> /\ calls' = [calls EXCEPT ![Len(calls)].text =
                                      @ \o SeparatorOf(Running)]
                     /\ step' = "value"
                     /\ UNCHANGED <<ctx, parsed>>

\* The head of the loop over the members of an object: name, colon and the
\* check of the depth.
ParseMember ==
    /\ step = "item"
    /\ Running.kind = "OBJECT"
    /\ CASE AtEnd -> Fail
         [] Sees("end_object") -> EndContainer
         [] \/ ~AtEnd /\ ~Sees("end_object") /\ ~Sees("str")
            \/ Sees("str") /\ (\/ ctx.offset + 1 >= Len(ctx.input)
                               \/ ctx.input[ctx.offset + 2] # "colon"
                               \/ ctx.depth >= MAX_JSON_DEPTH) -> Fail
         [] OTHER -> /\ ctx' = Advanced(2)
                     /\ calls' = [calls EXCEPT ![Len(calls)].text =
                                      @ \o SeparatorOf(Running) \o <<"str", "colon">>]
                     /\ step' = "value"
                     /\ UNCHANGED parsed

\* A value came back: it is added, and a comma or the end has to follow.
AddItem ==
    /\ step = "returned"
    /\ calls' = [calls EXCEPT ![Len(calls)] =
                    [Running EXCEPT !.count = @ + 1, !.text = @ \o parsed]]
    /\ step' = "next"
    /\ UNCHANGED <<ctx, parsed>>

\* Mutant: a comma between two items may be missing.
NextItem_no_comma ==
    /\ step = "next"
    /\ CASE Sees("comma") -> /\ ctx' = Advanced(1)
                         /\ step' = "item"
                         /\ UNCHANGED <<calls, parsed>>
         [] Sees(CloseOf(Running.kind)) -> EndContainer
         [] OTHER -> step' = "item" /\ UNCHANGED <<ctx, calls, parsed>>

NextItem ==
    /\ step = "next"
    /\ CASE Sees("comma") -> /\ ctx' = Advanced(1)
                         /\ step' = "item"
                         /\ UNCHANGED <<calls, parsed>>
         [] Sees(CloseOf(Running.kind)) -> EndContainer
         [] OTHER -> Fail

\* An object, array or buffer that could not be allocated.
OutOfMemory ==
    /\ ParseAllocFails
    /\ step \in {"value", "item", "returned"}
    /\ ~AtEnd
    /\ step' = "OUT_OF_MEMORY"
    /\ UNCHANGED <<ctx, calls, parsed>>

ParserStep ==
    \/ ParseScalar
    \/ ParseNothing
    \/ ParseArray
    \/ ParseObject
    \/ ParseElement
    \/ ParseMember
    \/ AddItem
    \/ NextItem
    \/ OutOfMemory

\* What the text has of the item that is being read: its separator and name.
BegunItem(call) == Len(SeparatorOf(call)) + (IF call.kind = "OBJECT" THEN 2 ELSE 0)

\* cardano_array_push cannot grow the array, and its result is not looked at:
\* the value, with its name, is released and the loop goes on.
DropItem ==
    /\ ParseAllocFails
    /\ step = "returned" /\ Running.count \in GrowAt
    /\ calls' = [calls EXCEPT ![Len(calls)].text = SubSeq(@, 1, Len(@) - BegunItem(Running))]
    /\ step' = "next"
    /\ dropped' = TRUE
    /\ UNCHANGED <<ctx, parsed>>

ParserNext == (ParserStep /\ UNCHANGED dropped) \/ DropItem
=============================================================================
