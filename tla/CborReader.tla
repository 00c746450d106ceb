------------------------------ MODULE CborReader ------------------------------
(***************************************************************************)
(* The pull decoder behind every from_cbor function: lib/src/cbor/         *)
(* cbor_reader.  A reader walks one buffer; its frames count the items of  *)
(* the containers that are open, and the state it announces is cached.     *)
(* The buffer is modelled byte by byte, because a header, the argument     *)
(* behind it and a payload are told apart only by position.  The widths    *)
(* of int64_t and size_t are constants.  cardano_cbor_reader_skip_value    *)
(* and read_encoded_value loop over the nodes of an item: the loop is run  *)
(* node by node, and no other call of the reader happens meanwhile.        *)
(* frame.current_key_offset is never read by the code and is left out.     *)
(***************************************************************************)
EXTENDS Integers, Sequences

CONSTANTS
    Buffers,       \* the byte strings a reader may be created on
    INT64_MAX,     \* the largest length a container or string may announce
    SIZE_MAX,      \* depth of the skip loop is a size_t
    AllocMayFail   \* whether a stack frame may fail to be allocated

ASSUME BuffersAssumption == Buffers \subseteq Seq(0..255)
ASSUME Int64Assumption   == INT64_MAX \in Nat
ASSUME SizeAssumption    == /\ SIZE_MAX \in Nat
                            /\ \A b \in Buffers : Len(b) < SIZE_MAX
ASSUME AllocAssumption   == AllocMayFail \in BOOLEAN

VARIABLES
    buffer,   \* the bytes; never written
    reader,   \* struct cardano_cbor_reader_t
    skip,     \* the locals of cardano_cbor_reader_read_encoded_value
    lost      \* a header was consumed whose frame could not be allocated

vars == <<buffer, reader, skip, lost>>

-----------------------------------------------------------------------------
(* Initial bytes.  The upper three bits are the major type, the lower five *)
(* the additional information.                                             *)

UINT   == 0
NEGINT == 1
BYTES  == 2
TEXT   == 3
ARRAY  == 4
MAP    == 5
TAG    == 6
SIMPLE == 7
UNDEFINED_TYPE == -1

INDEFINITE_LENGTH == -1
BREAK == 255

Major(b) == b \div 32
Info(b)  == b % 32

At(p) == buffer[p + 1]
Size  == Len(buffer)

\* How many bytes of argument follow an initial byte; -1 where there is none.
ArgumentBytes(b) ==
    CASE Info(b) < 24 -> 0 [] Info(b) = 24 -> 1 [] Info(b) = 25 -> 2
      [] Info(b) = 26 -> 4 [] Info(b) = 27 -> 8 [] OTHER -> -1

U16(p) == At(p) * 256 + At(p + 1)
U32(p) == U16(p) * 65536 + U16(p + 2)
U64(p) == U32(p) * 65536 * 65536 + U32(p + 4)

Argument(p) ==
    CASE Info(At(p)) = 24 -> At(p + 1)  [] Info(At(p)) = 25 -> U16(p + 1)
      [] Info(At(p)) = 26 -> U32(p + 1) [] Info(At(p)) = 27 -> U64(p + 1)
      [] OTHER -> Info(At(p))

HeaderBytes(p) == 1 + ArgumentBytes(At(p))

\* _cbor_reader_decode_unsigned_integer succeeds at p.
Decodable(p) == ArgumentBytes(At(p)) >= 0 /\ p + HeaderBytes(p) <= Size

\* peek_definite_length succeeds at p.
HasLength(p) == Decodable(p) /\ Argument(p) <= INT64_MAX

-----------------------------------------------------------------------------
(* The reader and its internal helpers.                                    *)

Frame == [type : {UNDEFINED_TYPE, BYTES, TEXT, ARRAY, MAP},
          definite_length : Nat \cup {INDEFINITE_LENGTH},
          items_read : Nat, frame_offset : Nat]

RootFrame == [type |-> UNDEFINED_TYPE, definite_length |-> INDEFINITE_LENGTH,
              items_read |-> 0, frame_offset |-> 0]

NewReader == [offset |-> 0, nested_items |-> <<>>, current_frame |-> RootFrame,
              is_tag_context |-> FALSE, cached_state |-> "UNDEFINED"]

Definite(f)  == f.definite_length # INDEFINITE_LENGTH
Exhausted(f) == Definite(f) /\ f.definite_length - f.items_read = 0

StringStates   == {"BYTESTRING", "TEXTSTRING"}
StartStrStates == {"START_INDEFINITE_BYTESTRING", "START_INDEFINITE_TEXTSTRING"}
EndStrStates   == {"END_INDEFINITE_BYTESTRING", "END_INDEFINITE_TEXTSTRING"}
EndStates      == {"END_ARRAY", "END_MAP"} \cup EndStrStates
FloatStates    == {"HALF_FLOAT", "SINGLE_FLOAT", "DOUBLE_FLOAT"}
SimpleStates   == {"NULL", "BOOLEAN", "SIMPLE_VALUE"}
ReaderStates   == {"UNSIGNED_INTEGER", "NEGATIVE_INTEGER", "TAG", "START_ARRAY",
                   "START_MAP", "FINISHED"}
                  \cup StringStates \cup StartStrStates \cup EndStates
                  \cup FloatStates \cup SimpleStates

map_simple_value_data_to_reader_state(info) ==
    CASE info = 22 -> "NULL" [] info \in {20, 21} -> "BOOLEAN"
      [] info = 25 -> "HALF_FLOAT" [] info = 26 -> "SINGLE_FLOAT"
      [] info = 27 -> "DOUBLE_FLOAT" [] OTHER -> "SIMPLE_VALUE"

map_major_type_to_reader_state(b) ==
    LET indefinite == Info(b) = 31
    IN  CASE Major(b) = UINT   -> "UNSIGNED_INTEGER"
          [] Major(b) = NEGINT -> "NEGATIVE_INTEGER"
          [] Major(b) = BYTES  -> IF indefinite THEN "START_INDEFINITE_BYTESTRING"
                                                ELSE "BYTESTRING"
          [] Major(b) = TEXT   -> IF indefinite THEN "START_INDEFINITE_TEXTSTRING"
                                                ELSE "TEXTSTRING"
          [] Major(b) = ARRAY  -> "START_ARRAY"
          [] Major(b) = MAP    -> "START_MAP"
          [] Major(b) = TAG    -> "TAG"
          [] OTHER             -> map_simple_value_data_to_reader_state(Info(b))

\* A definite frame that is exhausted.  Frames of strings are never definite.
process_end_of_definite_length(f) ==
    CASE f.type = ARRAY -> "END_ARRAY" [] f.type = MAP -> "END_MAP"
      [] f.type = UNDEFINED_TYPE -> "FINISHED" [] OTHER -> "ERROR"

\* A break byte comes next.
process_end_of_indefinite_length(r) ==
    LET f == r.current_frame
    IN  IF r.is_tag_context \/ Definite(f) THEN "ERROR"
        ELSE CASE f.type = BYTES -> "END_INDEFINITE_BYTESTRING"
               [] f.type = TEXT  -> "END_INDEFINITE_TEXTSTRING"
               [] f.type = ARRAY -> "END_ARRAY"
               [] f.type = MAP /\ f.items_read % 2 = 0 -> "END_MAP"
               [] OTHER -> "ERROR"

\* Mutant: the end of the buffer ends an indefinite container too.
process_end_of_buffer_lenient(f) ==
    IF ~Definite(f) THEN "FINISHED" ELSE "ERROR"

process_end_of_buffer(f) ==
    IF f.type = UNDEFINED_TYPE /\ ~Definite(f) THEN "FINISHED" ELSE "ERROR"

peek_state_core(r) ==
    CASE Exhausted(r.current_frame) ->
             process_end_of_definite_length(r.current_frame)
      [] ~Exhausted(r.current_frame) /\ r.offset >= Size ->
             process_end_of_buffer(r.current_frame)
      [] ~Exhausted(r.current_frame) /\ r.offset < Size ->
             IF At(r.offset) = BREAK THEN process_end_of_indefinite_length(r)
             ELSE map_major_type_to_reader_state(At(r.offset))

\* _cbor_reader_peek_initial_byte succeeds.
peek_initial_byte(r, expected) ==
    /\ r.offset < Size
    /\ ~Exhausted(r.current_frame)
    /\ r.current_frame.type \in {BYTES, TEXT} =>
           At(r.offset) = BREAK \/ Major(At(r.offset)) = r.current_frame.type
    /\ expected \in {UNDEFINED_TYPE, Major(At(r.offset))}

advance_buffer(r, length) ==
    [r EXCEPT !.offset = @ + length, !.cached_state = "UNDEFINED"]

advance_data_item_counters(r) ==
    [r EXCEPT !.current_frame.items_read = @ + 1, !.is_tag_context = FALSE]

push_data_item(r, type, length) ==
    [r EXCEPT !.nested_items = Append(@, r.current_frame),
              !.current_frame = [type |-> type, definite_length |-> length,
                                 items_read |-> 0, frame_offset |-> r.offset],
              !.is_tag_context = FALSE]

\* _cbor_reader_pop_data_item succeeds.
CanPop(r, type) ==
    /\ r.current_frame.type # UNDEFINED_TYPE
    /\ r.nested_items # <<>>
    /\ r.current_frame.type = type
    /\ Definite(r.current_frame) =>
           r.current_frame.definite_length - r.current_frame.items_read <= 0
    /\ ~r.is_tag_context

\* Mutant: the state announced inside the container stays cached.
pop_data_item_keeps_cache(r) ==
    LET n == Len(r.nested_items)
    IN  [r EXCEPT !.current_frame = r.nested_items[n],
                  !.nested_items = SubSeq(@, 1, n - 1)]

pop_data_item(r) ==
    LET n == Len(r.nested_items)
    IN  [r EXCEPT !.current_frame = r.nested_items[n],
                  !.nested_items = SubSeq(@, 1, n - 1),
                  !.cached_state = "UNDEFINED"]

-----------------------------------------------------------------------------
(* The calls.  Each yields whether it succeeded and the reader it leaves;  *)
(* a call that fails leaves the reader as it was unless said otherwise.    *)

Ok(r)   == [ok |-> TRUE,  r |-> r, pushed |-> FALSE]
Fail(r) == [ok |-> FALSE, r |-> r, pushed |-> FALSE]

Consume(r, length) == Ok(advance_data_item_counters(advance_buffer(r, length)))

\* The numbers and simple values: which initial bytes each call accepts.
Scalars == {"int", "uint", "double", "simple", "bool", "null"}

AcceptsByte(call, b) ==
    CASE call = "int"    -> Major(b) \in {UINT, NEGINT}
      [] call = "uint"   -> Major(b) = UINT
      [] call = "double" -> Major(b) = SIMPLE /\ Info(b) \in 25..27
      [] call = "simple" -> Major(b) = SIMPLE /\ Info(b) <= 24
      [] call = "bool"   -> Major(b) = SIMPLE /\ Info(b) \in {20, 21}
      [] call = "null"   -> Major(b) = SIMPLE /\ Info(b) = 22

read_scalar(r, call) ==
    IF /\ peek_initial_byte(r, UNDEFINED_TYPE)
       /\ AcceptsByte(call, At(r.offset))
       /\ Decodable(r.offset)
    THEN Consume(r, HeaderBytes(r.offset))
    ELSE Fail(r)

read_tag(r) ==
    IF peek_initial_byte(r, TAG) /\ Decodable(r.offset)
    THEN Ok([advance_buffer(r, HeaderBytes(r.offset)) EXCEPT !.is_tag_context = TRUE])
    ELSE Fail(r)

\* The break bytes at which the chunks of the indefinite string at p may end:
\* there is a chain of chunks from p + 1 to q.  The type of a chunk is not
\* looked at, only its length.
ChunkEnds(p) ==
    {q \in (p + 1)..(Size - 1) :
        \E chain \in SUBSET ((p + 1)..q) :
            /\ {p + 1, q} \subseteq chain
            /\ At(q) = BREAK
            /\ \A i \in chain \ {q} :
                   /\ At(i) # BREAK
                   /\ HasLength(i)
                   /\ i + HeaderBytes(i) + Argument(i) \in chain}

read_string(r, type) ==
    LET p == r.offset
    IN  IF ~peek_initial_byte(r, type) THEN Fail(r)
        ELSE IF Info(At(p)) = 31
             THEN IF ChunkEnds(p) = {} THEN Fail(r)
                  ELSE Consume(r, (CHOOSE q \in ChunkEnds(p) : TRUE) + 1 - p)
        ELSE IF HasLength(p) /\ p + HeaderBytes(p) + Argument(p) <= Size
             THEN Consume(r, HeaderBytes(p) + Argument(p))
             ELSE Fail(r)

\* A header is consumed and a frame pushed; the caller of Enter decides
\* whether the frame could be allocated.
Enter(r, type, bytes, length) ==
    LET moved == advance_buffer(r, bytes)
    IN  [ok |-> TRUE, r |-> push_data_item(moved, type, length), pushed |-> TRUE]

read_start_indefinite_length_string(r, type) ==
    IF peek_initial_byte(r, type) /\ Info(At(r.offset)) = 31
    THEN Enter(r, type, 1, INDEFINITE_LENGTH)
    ELSE Fail(r)

read_start_array(r) ==
    LET p == r.offset
    IN  IF ~peek_initial_byte(r, ARRAY) THEN Fail(r)
        ELSE IF Info(At(p)) = 31 THEN Enter(r, ARRAY, 1, INDEFINITE_LENGTH)
        ELSE IF HasLength(p) THEN Enter(r, ARRAY, HeaderBytes(p), Argument(p))
        ELSE Fail(r)

\* A definite map that cannot fit in the rest of the buffer is refused.
read_start_map(r) ==
    LET p == r.offset
    IN  IF ~peek_initial_byte(r, MAP) THEN Fail(r)
        ELSE IF Info(At(p)) = 31 THEN Enter(r, MAP, 1, INDEFINITE_LENGTH)
        ELSE IF HasLength(p) /\ 2 * Argument(p) <= Size - p
             THEN Enter(r, MAP, HeaderBytes(p), 2 * Argument(p))
             ELSE Fail(r)

\* read_end_array, read_end_map and the end of an indefinite string.
read_end(r, type) ==
    LET f == r.current_frame
        atBreak == /\ peek_initial_byte(r, UNDEFINED_TYPE)
                   /\ At(r.offset) = BREAK
    IN  IF Definite(f)
        THEN IF CanPop(r, type)
             THEN Ok(advance_data_item_counters(pop_data_item(r)))
             ELSE Fail(r)
        ELSE IF /\ atBreak
                /\ type = MAP => f.items_read % 2 = 0
                /\ CanPop(r, type)
             THEN Ok(advance_buffer(advance_data_item_counters(pop_data_item(r)), 1))
             ELSE Fail(r)

\* A tag and a byte string; the tag stays consumed when no byte string follows.
read_bigint(r) ==
    LET tagged == read_tag(r)
    IN  IF tagged.ok THEN read_string(tagged.r, BYTES) ELSE tagged

\* One node of skip_next_node, and what it adds to the depth.
SkipCall(r, state) ==
    CASE state = "UNSIGNED_INTEGER" -> read_scalar(r, "uint")
      [] state = "NEGATIVE_INTEGER" -> read_scalar(r, "int")
      [] state = "TAG"              -> read_tag(r)
      [] state = "BYTESTRING"       -> read_string(r, BYTES)
      [] state = "TEXTSTRING"       -> read_string(r, TEXT)
      [] state = "START_INDEFINITE_BYTESTRING" ->
             read_start_indefinite_length_string(r, BYTES)
      [] state = "START_INDEFINITE_TEXTSTRING" ->
             read_start_indefinite_length_string(r, TEXT)
      [] state = "END_INDEFINITE_BYTESTRING" -> read_end(r, BYTES)
      [] state = "END_INDEFINITE_TEXTSTRING" -> read_end(r, TEXT)
      [] state = "START_ARRAY"      -> read_start_array(r)
      [] state = "START_MAP"        -> read_start_map(r)
      [] state = "END_ARRAY"        -> read_end(r, ARRAY)
      [] state = "END_MAP"          -> read_end(r, MAP)
      [] state \in FloatStates      -> read_scalar(r, "double")
      [] state \in SimpleStates     -> read_scalar(r, "simple")
      [] OTHER                      -> Fail(r)

\* Mutant: indefinite strings do not nest.
DepthAfterFlat(depth, state) ==
    CASE state \in {"START_ARRAY", "START_MAP"} -> (depth + 1) % (SIZE_MAX + 1)
      [] state \in {"END_ARRAY", "END_MAP"} -> (depth - 1) % (SIZE_MAX + 1)
      [] OTHER -> depth

DepthAfter(depth, state) ==
    CASE state \in {"START_ARRAY", "START_MAP"} \cup StartStrStates ->
             (depth + 1) % (SIZE_MAX + 1)
      [] state \in EndStates -> (depth - 1) % (SIZE_MAX + 1)
      [] OTHER -> depth

-----------------------------------------------------------------------------
(* The specification.                                                      *)

\* from: the reader the loop was started on (initial_offset, and more of it
\* for the properties to speak about).
Idle == [phase |-> "idle", depth |-> 0, from |-> NewReader]
Ended(how) == [Idle EXCEPT !.phase = how]

Init ==
    /\ buffer \in {b \in Buffers : Len(b) > 0}
    /\ reader = NewReader
    /\ skip = Idle
    /\ lost = FALSE

\* A call other than the skip loop returns.  A frame that is not allocated
\* leaves its header consumed: the push comes after the buffer is advanced.
Return(res) ==
    /\ skip.phase # "running"
    /\ skip' = Idle
    /\ \/ reader' = res.r /\ lost' = lost
       \/ /\ AllocMayFail /\ res.pushed
          /\ reader' = advance_buffer(reader, res.r.offset - reader.offset)
          /\ lost' = TRUE
    /\ UNCHANGED buffer

\* The cached state is filled on the first success and kept until the reader moves.
PeekState ==
    LET state == IF reader.cached_state = "UNDEFINED" THEN peek_state_core(reader)
                 ELSE reader.cached_state
    IN  Return(Ok([reader EXCEPT !.cached_state =
                       IF state = "ERROR" THEN "UNDEFINED" ELSE state]))

ReadScalar(call) == Return(read_scalar(reader, call))
ReadTag          == Return(read_tag(reader))
ReadString(type) == Return(read_string(reader, type))
ReadStartArray   == Return(read_start_array(reader))
ReadStartMap     == Return(read_start_map(reader))
ReadEndArray     == Return(read_end(reader, ARRAY))
ReadEndMap       == Return(read_end(reader, MAP))
ReadBigint       == Return(read_bigint(reader))

SkipValue ==
    /\ skip.phase # "running"
    /\ skip' = [phase |-> "running", depth |-> 0, from |-> reader]
    /\ UNCHANGED <<buffer, reader, lost>>

\* Mutant: the loop goes on after an error.
SkipNextNodeRetries ==
    LET state == peek_state_core(reader)
        res   == SkipCall(reader, state)
        depth == DepthAfter(skip.depth, state)
    IN  /\ skip.phase = "running"
        /\ skip' = IF res.ok /\ state # "TAG" /\ depth = 0 THEN Ended("done")
                   ELSE [skip EXCEPT !.depth = depth]
        /\ reader' = res.r
        /\ UNCHANGED <<buffer, lost>>

\* skip_next_node; a tag is followed by the node it belongs to before the
\* depth is looked at.
SkipNextNode ==
    LET state == peek_state_core(reader)
        res   == SkipCall(reader, state)
        depth == DepthAfter(skip.depth, state)
    IN  /\ skip.phase = "running"
        /\ \/ /\ ~res.ok
              /\ skip' = Ended("failed")
              /\ reader' = res.r /\ lost' = lost
           \/ /\ res.ok
              /\ skip' = IF state # "TAG" /\ depth = 0 THEN Ended("done")
                         ELSE [skip EXCEPT !.depth = depth]
              /\ reader' = res.r /\ lost' = lost
           \/ /\ res.ok /\ res.pushed /\ AllocMayFail
              /\ skip' = Ended("failed")
              /\ reader' = advance_buffer(reader, res.r.offset - reader.offset)
              /\ lost' = TRUE
        /\ UNCHANGED buffer

Next ==
    \/ PeekState \/ ReadTag \/ ReadBigint
    \/ \E call \in Scalars : ReadScalar(call)
    \/ \E type \in {BYTES, TEXT} : ReadString(type)
    \/ ReadStartArray \/ ReadStartMap \/ ReadEndArray \/ ReadEndMap
    \/ SkipValue \/ SkipNextNode

\* The loop of a skip runs on its own: only it is fair.
Spec == Init /\ [][Next]_vars /\ WF_vars(SkipNextNode)

-----------------------------------------------------------------------------
(* The reference: well-formed CBOR, by the grammar of RFC 8949.            *)

NoEnd       == -1
UntilBreak  == -1   \* items up to a break
UntilKey    == -2   \* pairs up to a break, a key or the break comes next
UntilValue  == -3   \* ... a value comes next
ToTheEnd    == -4   \* items up to the end of the buffer
Chunks(type) == -10 - type

\* after[p, k]: the offset behind k items that start at p (or behind as many
\* as k says, when it is negative), NoEnd if they are not well formed.
Items ==
    LET Length(q, n) == IF q + n <= Size THEN q + n ELSE NoEnd
        after[p \in Int, k \in Int] ==
        LET h == HeaderBytes(p)
            rest(q) == after[q, CASE k > 0 -> k - 1 [] k = UntilKey -> UntilValue
                                  [] k = UntilValue -> UntilKey [] OTHER -> k]
        IN  IF p = NoEnd \/ k = 0 THEN p
            ELSE IF p = Size THEN IF k = ToTheEnd THEN p ELSE NoEnd
            ELSE IF At(p) = BREAK
                 THEN IF k < 0 /\ k \notin {UntilValue, ToTheEnd} THEN p + 1 ELSE NoEnd
                 ELSE IF k <= -10 /\ (Chunks(Major(At(p))) # k \/ Info(At(p)) = 31)
                 THEN NoEnd
                 ELSE IF Info(At(p)) = 31
                 THEN CASE Major(At(p)) \in {BYTES, TEXT} ->
                               rest(after[p + 1, Chunks(Major(At(p)))])
                        [] Major(At(p)) = ARRAY -> rest(after[p + 1, UntilBreak])
                        [] Major(At(p)) = MAP   -> rest(after[p + 1, UntilKey])
                        [] OTHER -> NoEnd
                 ELSE IF ~Decodable(p) THEN NoEnd
                 ELSE CASE Major(At(p)) \in {BYTES, TEXT} -> rest(Length(p + h, Argument(p)))
                        [] Major(At(p)) = ARRAY -> rest(after[p + h, Argument(p)])
                        [] Major(At(p)) = MAP   -> rest(after[p + h, 2 * Argument(p)])
                        [] Major(At(p)) = TAG   -> rest(after[p + h, 1])
                        [] OTHER -> rest(p + h)
    IN  after

WellFormed == Items[0, ToTheEnd] = Size

IndefiniteStrings == \E p \in 0..(Size - 1) : Major(At(p)) \in {BYTES, TEXT} /\ Info(At(p)) = 31

\* Tags, and nothing else, lie between the offsets p and q.
OnlyTags(p, q) ==
    LET run[i \in 0..Size] ==
            \/ i = q
            \/ i < q /\ Major(At(i)) = TAG /\ Decodable(i) /\ run[i + HeaderBytes(i)]
    IN  run[p]

\* The header at h opens the frame f.
Opens(h, f) ==
    /\ h < Size /\ Major(At(h)) = f.type
    /\ IF Info(At(h)) = 31
       THEN f.definite_length = INDEFINITE_LENGTH /\ f.frame_offset = h + 1
       ELSE /\ f.frame_offset = h + HeaderBytes(h)
            /\ f.definite_length = Argument(h) * (IF f.type = MAP THEN 2 ELSE 1)

-----------------------------------------------------------------------------
(* Properties.                                                             *)

Frames(r) == Append(r.nested_items, r.current_frame)

ItemFollows(r) == peek_state_core(r) \notin EndStates \cup {"FINISHED", "ERROR"}

\* The values the fields of the reader and of the loop of a skip take: the
\* offset stays in the buffer, the root frame is the bottom of the stack and
\* only there, and only arrays and maps have a definite length.
TypeOK ==
    /\ buffer \in Buffers
    /\ reader \in [offset : 0..Size, nested_items : Seq(Frame), current_frame : Frame,
                   is_tag_context : BOOLEAN, cached_state : ReaderStates \cup {"UNDEFINED"}]
    /\ skip.phase \in {"idle", "running", "done", "failed"}
    /\ skip.depth \in 0..SIZE_MAX
    /\ lost \in BOOLEAN
    /\ \A i \in 1..Len(Frames(reader)) :
           /\ Frames(reader)[i].type = UNDEFINED_TYPE <=> i = 1
           /\ Definite(Frames(reader)[i]) => Frames(reader)[i].type \in {ARRAY, MAP}

\* The state peek_state caches is never stale: whenever a state is cached, the
\* reader would announce the same one if it looked again, whatever calls moved
\* the reader, failed or skipped since it was cached.
CacheFresh ==
    reader.cached_state # "UNDEFINED" => reader.cached_state = peek_state_core(reader)

\* The counters of the open containers never run past the length their header
\* announced, and a container with another open inside it still has room for
\* that one: closing the inner one cannot overrun the outer one.
CountersFit ==
    \A i \in 1..Len(Frames(reader)) :
        LET f == Frames(reader)[i]
        IN  Definite(f) => IF i = Len(Frames(reader)) THEN f.items_read <= f.definite_length
                                                      ELSE f.items_read < f.definite_length

\* The reader's own state - frames, counters, offset and cached state - fits
\* together after any calls on any buffer, failed calls included.
ReaderConsistent == TypeOK /\ CacheFresh /\ CountersFit

\* The frames describe where the reader really is: behind the header of every
\* open container lie exactly the well-formed items it has counted, then the
\* tags read, then the header of the next open container, and the offset is at
\* the end of that chain.  It holds until a frame cannot be allocated, and on a
\* malformed buffer as long as it has no indefinite-length string (read_string
\* does not look at the type of the chunks).
Aligned ==
    ~lost /\ (WellFormed \/ ~IndefiniteStrings) =>
        \A i \in 1..Len(Frames(reader)) :
            LET f   == Frames(reader)[i]
                end == Items[f.frame_offset, f.items_read]
            IN  /\ end # NoEnd
                /\ IF i < Len(Frames(reader))
                   THEN \E h \in end..(Size - 1) :
                            OnlyTags(end, h) /\ Opens(h, Frames(reader)[i + 1])
                   ELSE OnlyTags(end, reader.offset)
                        /\ (reader.is_tag_context <=> end # reader.offset)

\* A well-formed document is never refused: wherever the calls made so far have
\* left the reader, it announces a state, and the call that state asks for
\* succeeds.
NeverStuck ==
    WellFormed /\ ~lost =>
        LET state == peek_state_core(reader)
        IN  /\ state # "ERROR"
            /\ state # "FINISHED" => SkipCall(reader, state).ok
            /\ state \in StartStrStates /\ skip.phase # "running" =>
                   \E type \in {BYTES, TEXT} : read_string(reader, type).ok

\* The reader announces FINISHED only when the whole buffer is a sequence of
\* complete items: a truncated or malformed document is never taken for a
\* finished one (indefinite strings and a tag at the very end apart).
FinishedIsComplete ==
    peek_state_core(reader) = "FINISHED" /\ ~lost /\ ~reader.is_tag_context
        => WellFormed \/ IndefiniteStrings

\* The reader is where its frames say it is in the document; a well-formed
\* document can be read to its end, and nothing else is taken for one, within
\* the limits stated above.
AcceptsDocuments == Aligned /\ NeverStuck /\ FinishedIsComplete

\* A skip begun in front of an item that succeeds has read one item of the frame
\* it started in and left every frame below alone, however deeply the item
\* nests: the depth counter of read_encoded_value comes back to zero exactly
\* when that frame is current again.
SkipExact ==
    [][skip.phase = "running" /\ skip'.phase = "done" /\ ItemFollows(skip.from) =>
          /\ reader'.nested_items = skip.from.nested_items
          /\ reader'.current_frame = [skip.from.current_frame EXCEPT !.items_read = @ + 1]
          /\ ~reader'.is_tag_context]_vars

\* Every skip ends, also on a malformed buffer.
SkipTerminates == skip.phase = "running" ~> skip.phase # "running"
=============================================================================
