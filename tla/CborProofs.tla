----------------------------- MODULE CborProofs ------------------------------
(***************************************************************************)
(* What the CBOR reader keeps true on every buffer, whatever is called in  *)
(* whatever order and wherever a frame cannot be allocated.                *)
(*                                                                         *)
(* A call that succeeds does one of four things to the reader: it reads an *)
(* item, it reads a tag, it enters a container or it leaves one (Read,     *)
(* Tagged, Entered, Left).  The invariant is proved for these four, and    *)
(* every function of the reader is shown to do nothing else.               *)
(*                                                                         *)
(* And, in the second part, what the codec of transactions keeps true, for *)
(* all received transactions, witnesses and codecs of Plutus data.         *)
(***************************************************************************)
EXTENDS CborReader, TxCodec, ValueTheorems

CachedStates == ReaderStates \cup {"UNDEFINED"}

Reader == [offset : 0..Size, nested_items : Seq(Frame), current_frame : Frame,
           is_tag_context : BOOLEAN, cached_state : CachedStates]

(* Only the bottom frame is the root, only containers have a length. *)
Bottom(i, f) == /\ f.type = UNDEFINED_TYPE <=> i = 1
                /\ Definite(f) => f.type \in {ARRAY, MAP}

(* A frame with another one inside it has room for that one; frames are no *)
(* more than the bytes that were read, each has taken one.                 *)
Sound(r) ==
  /\ r \in Reader
  /\ \A i \in 1..Len(r.nested_items) :
       /\ Bottom(i, r.nested_items[i])
       /\ Definite(r.nested_items[i]) => r.nested_items[i].items_read < r.nested_items[i].definite_length
  /\ Bottom(Len(r.nested_items) + 1, r.current_frame)
  /\ Definite(r.current_frame) => r.current_frame.items_read <= r.current_frame.definite_length
  /\ Len(r.nested_items) <= r.offset

(* A reader that moved announces nothing from before. *)
Moved(r, s) == s \in Reader /\ s.offset >= r.offset /\ s.cached_state = "UNDEFINED"

Counted(f) == [f EXCEPT !.items_read = @ + 1]

Read(r, s) ==
  /\ Moved(r, s)
  /\ ~Exhausted(r.current_frame)
  /\ s.nested_items = r.nested_items
  /\ s.current_frame = Counted(r.current_frame)
  /\ ~s.is_tag_context

Tagged(r, s) ==
  /\ Moved(r, s)
  /\ ~Exhausted(r.current_frame)
  /\ s.nested_items = r.nested_items
  /\ s.current_frame = r.current_frame
  /\ s.is_tag_context

Entered(r, s) ==
  /\ Moved(r, s)
  /\ ~Exhausted(r.current_frame)
  /\ s.offset > r.offset
  /\ s.nested_items = Append(r.nested_items, r.current_frame)
  /\ s.current_frame.type # UNDEFINED_TYPE
  /\ Definite(s.current_frame) => s.current_frame.type \in {ARRAY, MAP}
  /\ s.current_frame.items_read = 0
  /\ ~s.is_tag_context

Left(r, s) ==
  /\ Moved(r, s)
  /\ r.nested_items # <<>>
  /\ s.nested_items = SubSeq(r.nested_items, 1, Len(r.nested_items) - 1)
  /\ s.current_frame = Counted(r.nested_items[Len(r.nested_items)])
  /\ ~s.is_tag_context

-----------------------------------------------------------------------------
(* Bytes and headers.                                                        *)

InBuffer == buffer \in Seq(0..255)

LEMMA BytesAreNumbers ==
  ASSUME InBuffer
  PROVE  Size \in Nat /\ \A p \in 0..(Size - 1) : At(p) \in 0..255
<1> DEFINE Byte == 0..255
<1>1. Len(buffer) \in Nat /\ \A i \in 1..Len(buffer) : buffer[i] \in 0..255
  <2>1. buffer \in Seq(Byte)
    BY DEF InBuffer
  <2> HIDE DEF Byte
  <2>2. Len(buffer) \in Nat /\ \A i \in 1..Len(buffer) : buffer[i] \in Byte
    BY <2>1
  <2> QED BY <2>2 DEF Byte
<1>2. Size = Len(buffer)
  BY DEF Size
<1> SUFFICES ASSUME NEW p \in 0..(Size - 1) PROVE At(p) \in 0..255
  BY <1>1, <1>2
<1>3. p + 1 \in 1..Len(buffer)
  BY <1>1, <1>2
<1> QED BY <1>1, <1>3 DEF At

LEMMA Remainders ==
  ASSUME NEW b \in 0..255
  PROVE  Info(b) \in 0..31 /\ Major(b) \in 0..7
BY DEF Info, Major

LEMMA ArgumentFits ==
  ASSUME InBuffer, NEW p \in Nat, p < Size, Decodable(p)
  PROVE  HeaderBytes(p) \in Nat \ {0} /\ p + HeaderBytes(p) <= Size /\ Argument(p) \in Nat
<1>1. Size \in Nat /\ \A q \in 0..(Size - 1) : At(q) \in 0..255
  BY BytesAreNumbers
<1>2. At(p) \in 0..255 /\ Info(At(p)) \in 0..31
  <2>1. At(p) \in 0..255
    BY <1>1
  <2> QED BY <2>1, Remainders
<1>3. ArgumentBytes(At(p)) \in {0, 1, 2, 4, 8} /\ p + HeaderBytes(p) <= Size
  BY <1>2 DEF Decodable, ArgumentBytes
<1>4. HeaderBytes(p) = 1 + ArgumentBytes(At(p))
  BY DEF HeaderBytes
<1>5. HeaderBytes(p) \in Nat \ {0}
  BY <1>3, <1>4
<1> DEFINE byte(q) == At(q) \in Nat
<1>6. \A q \in Nat : q < p + HeaderBytes(p) => byte(q)
  BY <1>1, <1>3, <1>5
<1>7. CASE Info(At(p)) < 24 \/ Info(At(p)) > 27
  BY <1>2, <1>3, <1>5, <1>7 DEF Argument
<1>8. CASE Info(At(p)) = 24
  <2>1. ArgumentBytes(At(p)) = 1
    BY <1>8 DEF ArgumentBytes
  <2>2. byte(p + 1)
    BY <1>4, <1>6, <2>1
  <2> QED BY <1>3, <1>5, <1>8, <2>2 DEF Argument
<1>9. CASE Info(At(p)) = 25
  <2>1. ArgumentBytes(At(p)) = 2
    BY <1>9 DEF ArgumentBytes
  <2>2. byte(p + 1) /\ byte(p + 1 + 1)
    BY <1>4, <1>6, <2>1
  <2>3. U16(p + 1) \in Nat
    BY <2>2 DEF U16
  <2> QED BY <1>3, <1>5, <1>9, <2>3 DEF Argument
<1>10. CASE Info(At(p)) = 26
  <2>1. ArgumentBytes(At(p)) = 4
    BY <1>10 DEF ArgumentBytes
  <2>2. byte(p + 1) /\ byte(p + 1 + 1) /\ byte(p + 1 + 2) /\ byte(p + 1 + 2 + 1)
    BY <1>4, <1>6, <2>1
  <2>3. U16(p + 1) \in Nat /\ U16(p + 1 + 2) \in Nat
    BY <2>2 DEF U16
  <2>4. U32(p + 1) \in Nat
    BY <2>3 DEF U32
  <2> QED BY <1>3, <1>5, <1>10, <2>4 DEF Argument
<1>11. CASE Info(At(p)) = 27
  <2>1. ArgumentBytes(At(p)) = 8
    BY <1>11 DEF ArgumentBytes
  <2>2. /\ byte(p + 1) /\ byte(p + 1 + 1) /\ byte(p + 1 + 2) /\ byte(p + 1 + 2 + 1)
        /\ byte(p + 1 + 4) /\ byte(p + 1 + 4 + 1) /\ byte(p + 1 + 4 + 2) /\ byte(p + 1 + 4 + 2 + 1)
    BY <1>4, <1>6, <2>1
  <2>3. U16(p + 1) \in Nat /\ U16(p + 1 + 2) \in Nat /\ U16(p + 1 + 4) \in Nat /\ U16(p + 1 + 4 + 2) \in Nat
    BY <2>2 DEF U16
  <2>4. U32(p + 1) \in Nat /\ U32(p + 1 + 4) \in Nat
    BY <2>3 DEF U32
  <2>5. U64(p + 1) \in Nat
    BY <2>4 DEF U64
  <2> QED BY <1>3, <1>5, <1>11, <2>5 DEF Argument
<1>12. Info(At(p)) < 24 \/ Info(At(p)) > 27 \/ Info(At(p)) = 24 \/ Info(At(p)) = 25 \/ Info(At(p)) = 26 \/ Info(At(p)) = 27
  BY <1>2
<1>13. Argument(p) \in Nat
  BY <1>7, <1>8, <1>9, <1>10, <1>11, <1>12
<1> QED BY <1>3, <1>5, <1>13

-----------------------------------------------------------------------------
(* The helpers of the reader.                                                *)

LEMMA Advanced ==
  ASSUME NEW r \in Reader, NEW n \in Nat, r.offset + n <= Size
  PROVE  LET s == advance_buffer(r, n)
         IN  /\ Moved(r, s) /\ s.offset = r.offset + n
             /\ s.nested_items = r.nested_items /\ s.current_frame = r.current_frame
             /\ s.is_tag_context = r.is_tag_context
<1> DEFINE s == advance_buffer(r, n)
<1>0. s = [r EXCEPT !.offset = r.offset + n, !.cached_state = "UNDEFINED"]
  BY DEF advance_buffer, Reader
<1>1. /\ s.offset = r.offset + n /\ s.nested_items = r.nested_items /\ s.current_frame = r.current_frame
      /\ s.is_tag_context = r.is_tag_context /\ s.cached_state = "UNDEFINED"
  BY <1>0 DEF Reader
<1>2. r.offset \in Nat /\ r.offset + n \in 0..Size /\ r.offset + n >= r.offset
  BY DEF Reader
<1>3. s \in Reader
  BY <1>0, <1>2 DEF Reader, CachedStates
<1> QED BY <1>1, <1>2, <1>3 DEF Moved

LEMMA CountedFrame ==
  ASSUME NEW f \in Frame
  PROVE  /\ Counted(f) \in Frame
         /\ Counted(f).items_read = f.items_read + 1
         /\ Counted(f).type = f.type /\ Counted(f).definite_length = f.definite_length
         /\ f.items_read \in Nat
BY DEF Counted, Frame

LEMMA CountersAdvanced ==
  ASSUME NEW r \in Reader
  PROVE  LET s == advance_data_item_counters(r)
         IN  /\ s \in Reader /\ s.offset = r.offset /\ s.cached_state = r.cached_state
             /\ s.nested_items = r.nested_items /\ s.current_frame = Counted(r.current_frame)
             /\ ~s.is_tag_context
<1> DEFINE s == advance_data_item_counters(r)
           f == Counted(r.current_frame)
<1>0. r.current_frame \in Frame /\ f \in Frame
  BY CountedFrame DEF Reader
<1>1. s = [r EXCEPT !.current_frame = f, !.is_tag_context = FALSE]
  BY <1>0 DEF advance_data_item_counters, Reader, Counted, Frame
<1> HIDE DEF f
<1>2. /\ s.offset = r.offset /\ s.cached_state = r.cached_state
      /\ s.nested_items = r.nested_items /\ s.current_frame = f /\ ~s.is_tag_context
  BY <1>1 DEF Reader
<1>3. s \in Reader
  BY <1>0, <1>1 DEF Reader
<1> QED BY <1>2, <1>3 DEF f

LEMMA Pushed ==
  ASSUME NEW r \in Reader, NEW n \in Nat \ {0}, r.offset + n <= Size, ~Exhausted(r.current_frame),
         NEW type \in {BYTES, TEXT, ARRAY, MAP}, NEW length \in Nat \cup {INDEFINITE_LENGTH},
         length # INDEFINITE_LENGTH => type \in {ARRAY, MAP}
  PROVE  LET res == Enter(r, type, n, length)
         IN  res.ok /\ res.pushed /\ Entered(r, res.r)
<1> DEFINE m == advance_buffer(r, n)
           f == [type |-> type, definite_length |-> length, items_read |-> 0, frame_offset |-> m.offset]
           k == Append(m.nested_items, m.current_frame)
           s == push_data_item(m, type, length)
<1>1. /\ Moved(r, m) /\ m.offset = r.offset + n
      /\ m.nested_items = r.nested_items /\ m.current_frame = r.current_frame
  BY Advanced
<1>2. r.offset \in Nat /\ m \in Reader /\ m.offset \in Nat /\ m.offset > r.offset
  BY <1>1 DEF Reader, Moved
<1>3. s = [m EXCEPT !.nested_items = k, !.current_frame = f, !.is_tag_context = FALSE]
  BY <1>2 DEF push_data_item, Reader
<1> HIDE DEF m
<1>4. /\ f \in Frame /\ f.type = type /\ f.definite_length = length /\ f.items_read = 0
  BY <1>2 DEF Frame
<1>5. k \in Seq(Frame)
  BY <1>2 DEF Reader
<1> HIDE DEF f, k
<1>6. /\ s.offset = m.offset /\ s.cached_state = m.cached_state
      /\ s.nested_items = k /\ s.current_frame = f /\ ~s.is_tag_context
  BY <1>2, <1>3 DEF Reader
<1>7. s \in Reader
  BY <1>2, <1>3, <1>4, <1>5 DEF Reader
<1>8. k = Append(r.nested_items, r.current_frame)
  BY <1>1 DEF k
<1>9. f.type # UNDEFINED_TYPE
  BY <1>4 DEF UNDEFINED_TYPE, BYTES, TEXT, ARRAY, MAP
<1>10. Definite(f) => f.type \in {ARRAY, MAP}
  BY <1>4 DEF Definite
<1>11. Entered(r, s)
  <2>1. Moved(r, s)
    BY <1>1, <1>2, <1>6, <1>7 DEF Moved
  <2> HIDE DEF s
  <2> QED BY <1>2, <1>4, <1>6, <1>8, <1>9, <1>10, <2>1 DEF Entered
<1> QED BY <1>11 DEF Enter, m

LEMMA Popped ==
  ASSUME NEW r \in Reader, r.nested_items # <<>>
  PROVE  LET s == pop_data_item(r)
             n == Len(r.nested_items)
         IN  /\ s \in Reader /\ s.offset = r.offset /\ s.cached_state = "UNDEFINED"
             /\ s.is_tag_context = r.is_tag_context
             /\ n \in Nat \ {0}
             /\ s.nested_items = SubSeq(r.nested_items, 1, n - 1)
             /\ s.current_frame = r.nested_items[n]
<1> DEFINE n == Len(r.nested_items)
           k == SubSeq(r.nested_items, 1, n - 1)
           f == r.nested_items[n]
           s == pop_data_item(r)
<1>1. r.nested_items \in Seq(Frame)
  BY DEF Reader
<1> DEFINE ns == r.nested_items
<1>2. n \in Nat \ {0} /\ k \in Seq(Frame) /\ f \in Frame
  <2>1. ns \in Seq(Frame) /\ ns # <<>>
    BY <1>1
  <2> HIDE DEF ns
  <2>2. Len(ns) \in Nat \ {0} /\ SubSeq(ns, 1, Len(ns) - 1) \in Seq(Frame) /\ ns[Len(ns)] \in Frame
    BY <2>1
  <2> QED BY <2>2 DEF ns
<1>3. s = [r EXCEPT !.current_frame = f, !.nested_items = k, !.cached_state = "UNDEFINED"]
  BY DEF pop_data_item, Reader
<1> HIDE DEF f, k, n, ns
<1>4. /\ s.offset = r.offset /\ s.cached_state = "UNDEFINED" /\ s.is_tag_context = r.is_tag_context
      /\ s.nested_items = k /\ s.current_frame = f
  BY <1>3 DEF Reader
<1>5. s \in Reader
  BY <1>2, <1>3 DEF Reader, CachedStates
<1> QED BY <1>2, <1>4, <1>5 DEF n, k, f

(* What a call may do. *)
Refused(r, res) == ~res.ok /\ ~res.pushed /\ res.r = r
Reads(r, res)  == Refused(r, res) \/ (res.ok /\ ~res.pushed /\ Read(r, res.r))
Tags(r, res)   == Refused(r, res) \/ (res.ok /\ ~res.pushed /\ Tagged(r, res.r))
Enters(r, res) == Refused(r, res) \/ (res.ok /\ res.pushed /\ Entered(r, res.r))
Leaves(r, res) == Refused(r, res) \/ (res.ok /\ ~res.pushed /\ Left(r, res.r))

LEMMA FailRefuses ==
  ASSUME NEW r
  PROVE  Refused(r, Fail(r))
BY DEF Refused, Fail

LEMMA Consumed ==
  ASSUME NEW r \in Reader, NEW n \in Nat, r.offset + n <= Size, ~Exhausted(r.current_frame)
  PROVE  Reads(r, Consume(r, n))
<1> DEFINE m == advance_buffer(r, n)
           s == advance_data_item_counters(m)
<1>1. /\ Moved(r, m) /\ m.nested_items = r.nested_items /\ m.current_frame = r.current_frame
      /\ m \in Reader /\ m.cached_state = "UNDEFINED" /\ m.offset >= r.offset
  BY Advanced DEF Moved
<1> HIDE DEF m
<1>2. /\ s \in Reader /\ s.offset = m.offset /\ s.cached_state = m.cached_state
      /\ s.nested_items = m.nested_items /\ s.current_frame = Counted(m.current_frame)
      /\ ~s.is_tag_context
  BY <1>1, CountersAdvanced
<1> HIDE DEF s
<1>3. Read(r, s)
  BY <1>1, <1>2 DEF Read, Moved
<1>4. Consume(r, n) = Ok(s)
  BY DEF Consume, s, m
<1> QED BY <1>3, <1>4 DEF Reads, Ok

LEMMA Peeked ==
  ASSUME NEW r \in Reader, NEW e, peek_initial_byte(r, e)
  PROVE  r.offset \in Nat /\ r.offset < Size /\ ~Exhausted(r.current_frame)
BY DEF peek_initial_byte, Reader

LEMMA ScalarsAreRead ==
  ASSUME InBuffer, NEW r \in Reader, NEW call
  PROVE  Reads(r, read_scalar(r, call))
<1> DEFINE ready == peek_initial_byte(r, UNDEFINED_TYPE) /\ AcceptsByte(call, At(r.offset)) /\ Decodable(r.offset)
<1>1. CASE ready
  <2>1. read_scalar(r, call) = Consume(r, HeaderBytes(r.offset))
    BY <1>1 DEF read_scalar
  <2>2. r.offset \in Nat /\ r.offset < Size /\ ~Exhausted(r.current_frame)
    BY <1>1, Peeked
  <2>3. HeaderBytes(r.offset) \in Nat /\ r.offset + HeaderBytes(r.offset) <= Size
    BY <1>1, <2>2, ArgumentFits
  <2>4. Reads(r, Consume(r, HeaderBytes(r.offset)))
    BY <2>2, <2>3, Consumed
  <2> QED BY <2>1, <2>4
<1>2. CASE ~ready
  <2>1. read_scalar(r, call) = Fail(r)
    BY <1>2 DEF read_scalar
  <2> QED BY <2>1, FailRefuses DEF Reads
<1> QED BY <1>1, <1>2

LEMMA TagsAreRead ==
  ASSUME InBuffer, NEW r \in Reader
  PROVE  Tags(r, read_tag(r))
<1> DEFINE ready == peek_initial_byte(r, TAG) /\ Decodable(r.offset)
           m == advance_buffer(r, HeaderBytes(r.offset))
           s == [m EXCEPT !.is_tag_context = TRUE]
<1>1. CASE ready
  <2>1. read_tag(r) = Ok(s)
    BY <1>1 DEF read_tag
  <2>2. r.offset \in Nat /\ r.offset < Size /\ ~Exhausted(r.current_frame)
    BY <1>1, Peeked
  <2>3. HeaderBytes(r.offset) \in Nat /\ r.offset + HeaderBytes(r.offset) <= Size
    BY <1>1, <2>2, ArgumentFits
  <2>4. /\ m \in Reader /\ m.nested_items = r.nested_items /\ m.current_frame = r.current_frame
        /\ m.offset >= r.offset /\ m.cached_state = "UNDEFINED"
    BY <2>3, Advanced DEF Moved
  <2> HIDE DEF m
  <2>5. /\ s \in Reader /\ s.nested_items = m.nested_items /\ s.current_frame = m.current_frame
        /\ s.offset = m.offset /\ s.cached_state = m.cached_state /\ s.is_tag_context
    BY <2>4 DEF Reader
  <2> HIDE DEF s
  <2>6. Tagged(r, s)
    BY <2>2, <2>4, <2>5 DEF Tagged, Moved
  <2> QED BY <2>1, <2>6 DEF Tags, Ok
<1>2. CASE ~ready
  <2>1. read_tag(r) = Fail(r)
    BY <1>2 DEF read_tag
  <2> QED BY <2>1, FailRefuses DEF Tags
<1> QED BY <1>1, <1>2

LEMMA StringsAreRead ==
  ASSUME InBuffer, NEW r \in Reader, NEW type
  PROVE  Reads(r, read_string(r, type))
<1> DEFINE p == r.offset
           q == CHOOSE e \in ChunkEnds(p) : TRUE
<1>1. CASE ~peek_initial_byte(r, type)
  <2>1. read_string(r, type) = Fail(r)
    BY <1>1 DEF read_string
  <2> QED BY <2>1, FailRefuses DEF Reads
<1>2. CASE peek_initial_byte(r, type) /\ Info(At(p)) = 31
  <2>0. p \in Nat /\ p < Size /\ ~Exhausted(r.current_frame) /\ Size \in Nat
    BY <1>2, Peeked, BytesAreNumbers
  <2>1. CASE ChunkEnds(p) = {}
    <3>1. read_string(r, type) = Fail(r)
      BY <1>2, <2>1 DEF read_string
    <3> QED BY <3>1, FailRefuses DEF Reads
  <2>2. CASE ChunkEnds(p) # {}
    <3>1. read_string(r, type) = Consume(r, q + 1 - p)
      BY <1>2, <2>2, Zenon DEF read_string
    <3>2. q \in ChunkEnds(p)
      BY <2>2
    <3>3. q \in (p + 1)..(Size - 1)
      <4> HIDE DEF q
      <4> QED BY <3>2 DEF ChunkEnds
    <3> HIDE DEF q
    <3>4. q + 1 - p \in Nat /\ p + (q + 1 - p) <= Size
      BY <2>0, <3>3
    <3> DEFINE n == q + 1 - p
    <3> HIDE DEF n
    <3>5. Reads(r, Consume(r, n))
      BY <2>0, <3>4, Consumed DEF n
    <3> QED BY <3>1, <3>5 DEF n
  <2> QED BY <2>1, <2>2
<1>3. CASE peek_initial_byte(r, type) /\ Info(At(p)) # 31
  <2>0. p \in Nat /\ p < Size /\ ~Exhausted(r.current_frame) /\ Size \in Nat
    BY <1>3, Peeked, BytesAreNumbers
  <2>1. CASE HasLength(p) /\ p + HeaderBytes(p) + Argument(p) <= Size
    <3> DEFINE n == HeaderBytes(p) + Argument(p)
    <3>1. read_string(r, type) = Consume(r, n)
      BY <1>3, <2>1, Zenon DEF read_string
    <3>2. HeaderBytes(p) \in Nat /\ Argument(p) \in Nat
      BY <2>0, <2>1, ArgumentFits DEF HasLength
    <3>3. n \in Nat /\ p + n <= Size
      BY <2>0, <2>1, <3>2
    <3> HIDE DEF n
    <3>4. Reads(r, Consume(r, n))
      BY <2>0, <3>3, Consumed
    <3> QED BY <3>1, <3>4
  <2>2. CASE ~(HasLength(p) /\ p + HeaderBytes(p) + Argument(p) <= Size)
    <3>1. read_string(r, type) = Fail(r)
      BY <1>3, <2>2, Zenon DEF read_string
    <3> QED BY <3>1, FailRefuses DEF Reads
  <2> QED BY <2>1, <2>2
<1> QED BY <1>1, <1>2, <1>3

LEMMA StringsAreEntered ==
  ASSUME InBuffer, NEW r \in Reader, NEW type \in {BYTES, TEXT}
  PROVE  Enters(r, read_start_indefinite_length_string(r, type))
<1> DEFINE ready == peek_initial_byte(r, type) /\ Info(At(r.offset)) = 31
           res == Enter(r, type, 1, INDEFINITE_LENGTH)
<1>1. CASE ready
  <2>1. read_start_indefinite_length_string(r, type) = res
    BY <1>1 DEF read_start_indefinite_length_string
  <2>2. r.offset \in Nat /\ r.offset < Size /\ ~Exhausted(r.current_frame) /\ Size \in Nat
    BY <1>1, Peeked, BytesAreNumbers
  <2>3. 1 \in Nat \ {0} /\ r.offset + 1 <= Size
    BY <2>2
  <2>4. res.ok /\ res.pushed /\ Entered(r, res.r)
    BY <2>2, <2>3, Pushed
  <2> QED BY <2>1, <2>4 DEF Enters
<1>2. CASE ~ready
  <2>1. read_start_indefinite_length_string(r, type) = Fail(r)
    BY <1>2 DEF read_start_indefinite_length_string
  <2> QED BY <2>1, FailRefuses DEF Enters
<1> QED BY <1>1, <1>2

LEMMA ArraysAreEntered ==
  ASSUME InBuffer, NEW r \in Reader
  PROVE  Enters(r, read_start_array(r))
<1> DEFINE p == r.offset
<1>1. CASE ~peek_initial_byte(r, ARRAY)
  <2>1. read_start_array(r) = Fail(r)
    BY <1>1 DEF read_start_array
  <2> QED BY <2>1, FailRefuses DEF Enters
<1>2. CASE peek_initial_byte(r, ARRAY)
  <2>0. p \in Nat /\ p < Size /\ ~Exhausted(r.current_frame) /\ Size \in Nat
    BY <1>2, Peeked, BytesAreNumbers
  <2>1. CASE Info(At(p)) = 31
    <3> DEFINE res == Enter(r, ARRAY, 1, INDEFINITE_LENGTH)
    <3>1. read_start_array(r) = res
      BY <1>2, <2>1 DEF read_start_array
    <3>2. 1 \in Nat \ {0} /\ p + 1 <= Size
      BY <2>0
    <3>3. res.ok /\ res.pushed /\ Entered(r, res.r)
      BY <2>0, <3>2, Pushed
    <3> QED BY <3>1, <3>3 DEF Enters
  <2>2. CASE Info(At(p)) # 31 /\ HasLength(p)
    <3> DEFINE n == HeaderBytes(p)
               l == Argument(p)
               res == Enter(r, ARRAY, n, l)
    <3>1. read_start_array(r) = res
      BY <1>2, <2>2 DEF read_start_array
    <3>2. n \in Nat \ {0} /\ p + n <= Size /\ l \in Nat
      BY <2>0, <2>2, ArgumentFits DEF HasLength
    <3> HIDE DEF n, l
    <3>3. res.ok /\ res.pushed /\ Entered(r, res.r)
      BY <2>0, <3>2, Pushed
    <3> QED BY <3>1, <3>3 DEF Enters
  <2>3. CASE Info(At(p)) # 31 /\ ~HasLength(p)
    <3>1. read_start_array(r) = Fail(r)
      BY <1>2, <2>3 DEF read_start_array
    <3> QED BY <3>1, FailRefuses DEF Enters
  <2> QED BY <2>1, <2>2, <2>3
<1> QED BY <1>1, <1>2

LEMMA MapsAreEntered ==
  ASSUME InBuffer, NEW r \in Reader
  PROVE  Enters(r, read_start_map(r))
<1> DEFINE p == r.offset
           fits == HasLength(p) /\ 2 * Argument(p) <= Size - p
<1>1. CASE ~peek_initial_byte(r, MAP)
  <2>1. read_start_map(r) = Fail(r)
    BY <1>1 DEF read_start_map
  <2> QED BY <2>1, FailRefuses DEF Enters
<1>2. CASE peek_initial_byte(r, MAP)
  <2>0. p \in Nat /\ p < Size /\ ~Exhausted(r.current_frame) /\ Size \in Nat
    BY <1>2, Peeked, BytesAreNumbers
  <2>1. CASE Info(At(p)) = 31
    <3> DEFINE res == Enter(r, MAP, 1, INDEFINITE_LENGTH)
    <3>1. read_start_map(r) = res
      BY <1>2, <2>1 DEF read_start_map
    <3>2. 1 \in Nat \ {0} /\ p + 1 <= Size
      BY <2>0
    <3>3. res.ok /\ res.pushed /\ Entered(r, res.r)
      BY <2>0, <3>2, Pushed
    <3> QED BY <3>1, <3>3 DEF Enters
  <2>2. CASE Info(At(p)) # 31 /\ fits
    <3> DEFINE n == HeaderBytes(p)
               l == 2 * Argument(p)
               res == Enter(r, MAP, n, l)
    <3>1. read_start_map(r) = res
      BY <1>2, <2>2, Zenon DEF read_start_map
    <3>2. n \in Nat \ {0} /\ p + n <= Size /\ Argument(p) \in Nat
      BY <2>0, <2>2, ArgumentFits DEF HasLength
    <3>3. l \in Nat
      BY <3>2
    <3> HIDE DEF n, l
    <3>4. res.ok /\ res.pushed /\ Entered(r, res.r)
      BY <2>0, <3>2, <3>3, Pushed
    <3> QED BY <3>1, <3>4 DEF Enters
  <2>3. CASE Info(At(p)) # 31 /\ ~fits
    <3>1. read_start_map(r) = Fail(r)
      BY <1>2, <2>3, Zenon DEF read_start_map
    <3> QED BY <3>1, FailRefuses DEF Enters
  <2> QED BY <2>1, <2>2, <2>3
<1> QED BY <1>1, <1>2

LEMMA ContainersAreLeft ==
  ASSUME InBuffer, NEW r \in Reader, NEW type
  PROVE  Leaves(r, read_end(r, type))
<1> DEFINE pop == pop_data_item(r)
           s == advance_data_item_counters(pop)
           t == advance_buffer(s, 1)
           f == r.current_frame
           atBreak == peek_initial_byte(r, UNDEFINED_TYPE) /\ At(r.offset) = BREAK
           closes == atBreak /\ (type = MAP => f.items_read % 2 = 0) /\ CanPop(r, type)
<1>1. ASSUME CanPop(r, type)
      PROVE  /\ Left(r, s) /\ s \in Reader /\ s.offset = r.offset /\ r.nested_items # <<>>
  <2>1. r.nested_items # <<>>
    BY <1>1 DEF CanPop
  <2>2. /\ pop \in Reader /\ pop.offset = r.offset /\ pop.cached_state = "UNDEFINED"
        /\ pop.nested_items = SubSeq(r.nested_items, 1, Len(r.nested_items) - 1)
        /\ pop.current_frame = r.nested_items[Len(r.nested_items)]
    BY <2>1, Popped
  <2> HIDE DEF pop
  <2>3. /\ s \in Reader /\ s.offset = pop.offset /\ s.cached_state = pop.cached_state
        /\ s.nested_items = pop.nested_items /\ s.current_frame = Counted(pop.current_frame)
        /\ ~s.is_tag_context
    BY <2>2, CountersAdvanced
  <2> HIDE DEF s
  <2>4. r.offset \in Nat
    BY DEF Reader
  <2>5. s.offset >= r.offset
    BY <2>2, <2>3, <2>4
  <2> QED BY <2>1, <2>2, <2>3, <2>5 DEF Left, Moved
<1>2. CASE Definite(f) /\ CanPop(r, type)
  <2>1. read_end(r, type) = Ok(s)
    BY <1>2 DEF read_end
  <2> QED BY <1>1, <1>2, <2>1 DEF Leaves, Ok
<1>3. CASE Definite(f) /\ ~CanPop(r, type)
  <2>1. read_end(r, type) = Fail(r)
    BY <1>3 DEF read_end
  <2> QED BY <2>1, FailRefuses DEF Leaves
<1>4. CASE ~Definite(f) /\ closes
  <2>1. read_end(r, type) = Ok(t)
    BY <1>4, Zenon DEF read_end
  <2>2. r.offset \in Nat /\ r.offset < Size /\ Size \in Nat
    BY <1>4, Peeked, BytesAreNumbers
  <2>3. Left(r, s) /\ s \in Reader /\ s.offset = r.offset /\ r.nested_items # <<>>
    BY <1>1, <1>4
  <2> HIDE DEF s
  <2>4. s.offset + 1 <= Size
    BY <2>2, <2>3
  <2>5. /\ Moved(s, t) /\ t.nested_items = s.nested_items /\ t.current_frame = s.current_frame
        /\ t.is_tag_context = s.is_tag_context /\ t.offset = s.offset + 1
    BY <2>3, <2>4, Advanced
  <2> HIDE DEF t
  <2>6. t.offset >= r.offset
    BY <2>2, <2>3, <2>5
  <2>7. Left(r, t)
    BY <2>3, <2>5, <2>6 DEF Left, Moved
  <2> QED BY <2>1, <2>7 DEF Leaves, Ok
<1>5. CASE ~Definite(f) /\ ~closes
  <2>1. read_end(r, type) = Fail(r)
    BY <1>5, Zenon DEF read_end
  <2> QED BY <2>1, FailRefuses DEF Leaves
<1> QED BY <1>2, <1>3, <1>4, <1>5

(* A bignum: its tag stays consumed when no byte string follows. *)
Bignum(r, res) ==
  \/ Refused(r, res)
  \/ /\ ~res.pushed
     /\ \E t : Tagged(r, t) /\ t \in Reader /\ Reads(t, res)

LEMMA BignumsAreRead ==
  ASSUME InBuffer, NEW r \in Reader
  PROVE  Bignum(r, read_bigint(r))
<1> DEFINE tagged == read_tag(r)
           t == tagged.r
<1>1. Tags(r, tagged)
  BY TagsAreRead
<1>2. CASE tagged.ok
  <2>1. read_bigint(r) = read_string(t, BYTES)
    BY <1>2 DEF read_bigint
  <2>2. Tagged(r, t)
    BY <1>1, <1>2 DEF Tags, Refused
  <2>3. t \in Reader
    BY <2>2 DEF Tagged, Moved
  <2> HIDE DEF t
  <2>4. Reads(t, read_string(t, BYTES))
    BY <2>3, StringsAreRead
  <2>5. ~read_string(t, BYTES).pushed
    BY <2>4 DEF Reads, Refused
  <2> QED BY <2>1, <2>2, <2>3, <2>4, <2>5 DEF Bignum
<1>3. CASE ~tagged.ok
  <2>1. read_bigint(r) = tagged
    BY <1>3 DEF read_bigint
  <2> HIDE DEF tagged
  <2>2. Refused(r, tagged)
    BY <1>1, <1>3 DEF Tags
  <2> QED BY <2>1, <2>2 DEF Bignum
<1> QED BY <1>2, <1>3

(* The frames are left alone, the buffer may have been advanced. *)
Dropped(r, s) ==
  Moved(r, s) /\ s.nested_items = r.nested_items /\ s.current_frame = r.current_frame

LEMMA DroppedIsSound ==
  ASSUME NEW r, NEW s, Sound(r), Dropped(r, s)
  PROVE  Sound(s)
<1>1. s \in Reader /\ s.offset >= r.offset /\ s.nested_items = r.nested_items /\ s.current_frame = r.current_frame
  BY DEF Dropped, Moved
<1>2. r.offset \in Nat /\ s.offset \in Nat /\ r.nested_items \in Seq(Frame) /\ Len(r.nested_items) <= r.offset
  BY <1>1 DEF Sound, Reader
<1>3. Len(r.nested_items) \in Nat
  BY <1>2
<1>4. Len(s.nested_items) <= s.offset
  BY <1>1, <1>2, <1>3
<1> QED BY <1>1, <1>4, Zenon DEF Sound

LEMMA ReadIsSound ==
  ASSUME NEW r, NEW s, Sound(r), Read(r, s)
  PROVE  Sound(s)
<1> DEFINE f == r.current_frame
           g == s.current_frame
           n == Len(r.nested_items) + 1
<1>1. s \in Reader /\ s.offset >= r.offset /\ s.nested_items = r.nested_items /\ g = Counted(f) /\ ~Exhausted(f)
  BY DEF Read, Moved
<1>2. /\ r.offset \in Nat /\ s.offset \in Nat /\ r.nested_items \in Seq(Frame) /\ Len(r.nested_items) <= r.offset
      /\ f \in Frame /\ Bottom(n, f) /\ (Definite(f) => f.items_read <= f.definite_length)
  BY <1>1 DEF Sound, Reader
<1>3. Len(r.nested_items) \in Nat
  BY <1>2
<1>4. Len(s.nested_items) <= s.offset
  BY <1>1, <1>2, <1>3
<1>5. g.items_read = f.items_read + 1 /\ g.type = f.type /\ g.definite_length = f.definite_length /\ f.items_read \in Nat
  BY <1>1, <1>2, CountedFrame
<1>6. Bottom(n, g)
  BY <1>2, <1>5 DEF Bottom, Definite
<1>7. Definite(f) => f.definite_length \in Nat /\ f.definite_length - f.items_read # 0
  BY <1>1, <1>2 DEF Exhausted, Definite, Frame
<1>8. Definite(g) => Definite(f)
  BY <1>5 DEF Definite
<1>9. Definite(g) => g.items_read <= g.definite_length
  BY <1>2, <1>5, <1>7, <1>8
<1> QED BY <1>1, <1>4, <1>6, <1>9, Zenon DEF Sound

LEMMA EnteredIsSound ==
  ASSUME NEW r, NEW s, Sound(r), Entered(r, s)
  PROVE  Sound(s)
<1> DEFINE f == r.current_frame
           g == s.current_frame
           k == r.nested_items
           n == Len(k)
<1>1. /\ s \in Reader /\ s.offset > r.offset /\ s.nested_items = Append(k, f) /\ ~Exhausted(f)
      /\ g.type # UNDEFINED_TYPE /\ g.items_read = 0 /\ (Definite(g) => g.type \in {ARRAY, MAP})
  BY DEF Entered, Moved
<1>2. /\ r.offset \in Nat /\ s.offset \in Nat /\ k \in Seq(Frame) /\ n <= r.offset
      /\ f \in Frame /\ g \in Frame /\ Bottom(n + 1, f) /\ (Definite(f) => f.items_read <= f.definite_length)
      /\ \A i \in 1..n : Bottom(i, k[i]) /\ (Definite(k[i]) => k[i].items_read < k[i].definite_length)
  BY <1>1 DEF Sound, Reader
<1> HIDE DEF k
<1>3. n \in Nat /\ Len(Append(k, f)) = n + 1 /\ Append(k, f)[n + 1] = f /\ \A i \in 1..n : Append(k, f)[i] = k[i]
  BY <1>2
<1>4. Len(s.nested_items) = n + 1 /\ n + 1 <= s.offset
  BY <1>1, <1>2, <1>3
<1>5. Definite(f) => f.items_read < f.definite_length
  BY <1>1, <1>2 DEF Exhausted, Definite, Frame, INDEFINITE_LENGTH
<1>6. Bottom(n + 1 + 1, g)
  BY <1>1, <1>3 DEF Bottom
<1>7. Definite(g) => g.items_read <= g.definite_length
  BY <1>1, <1>2 DEF Definite, Frame, INDEFINITE_LENGTH
<1>8. ASSUME NEW i \in 1..(n + 1)
      PROVE  /\ Bottom(i, s.nested_items[i])
             /\ Definite(s.nested_items[i]) => s.nested_items[i].items_read < s.nested_items[i].definite_length
  <2>1. CASE i = n + 1
    BY <1>1, <1>2, <1>3, <1>5, <2>1
  <2>2. CASE i # n + 1
    <3>1. i \in 1..n
      BY <1>3, <2>2
    <3> QED BY <1>1, <1>2, <1>3, <3>1
  <2> QED BY <2>1, <2>2
<1> HIDE DEF n, f, g
<1>9. s.current_frame = g
  BY DEF g
<1> QED BY <1>1, <1>4, <1>6, <1>7, <1>8, <1>9, Zenon DEF Sound

(* The stack without its top. *)
LEMMA OneShorter ==
  ASSUME NEW k \in Seq(Frame), k # <<>>
  PROVE  LET n == Len(k)
             t == SubSeq(k, 1, n - 1)
         IN  /\ n \in Nat \ {0} /\ n \in 1..n /\ k[n] \in Frame
             /\ t \in Seq(Frame) /\ Len(t) = n - 1 /\ \A i \in 1..(n - 1) : t[i] = k[i]
<1> DEFINE n == Len(k)
           t == SubSeq(k, 1, n - 1)
           m == n - 1
           one == 1
<1>1. n \in Nat \ {0} /\ n \in 1..n /\ m \in Nat
  OBVIOUS
<1>2. k[n] \in Frame
  BY <1>1
<1>3. m \in Int /\ one \in Int /\ \A i \in one..m : k[i] \in Frame
  BY <1>1
<1> HIDE DEF m, one
<1>4. /\ SubSeq(k, one, m) \in Seq(Frame)
      /\ Len(SubSeq(k, one, m)) = IF one <= m THEN m - one + 1 ELSE 0
      /\ \A i \in 1..(m - one + 1) : SubSeq(k, one, m)[i] = k[one + i - 1]
  BY <1>3, SubSeqProperties
<1>5. t = SubSeq(k, one, m)
  BY DEF m, one
<1>6. Len(t) = m
  BY <1>1, <1>4, <1>5 DEF one
<1>7. ASSUME NEW i \in 1..m PROVE t[i] = k[i]
  <2>1. i \in 1..(m - one + 1) /\ one + i - 1 = i
    BY <1>3 DEF one
  <2> QED BY <1>4, <1>5, <2>1
<1> QED BY <1>1, <1>2, <1>4, <1>5, <1>6, <1>7 DEF m

LEMMA LeftIsSound ==
  ASSUME NEW r, NEW s, Sound(r), Left(r, s)
  PROVE  Sound(s)
<1> DEFINE g == s.current_frame
           k == r.nested_items
           n == Len(k)
           f == k[n]
           t == SubSeq(k, 1, n - 1)
<1>1. s \in Reader /\ s.offset >= r.offset /\ k # <<>> /\ s.nested_items = t /\ g = Counted(f)
  BY DEF Left, Moved
<1>2. /\ r.offset \in Nat /\ s.offset \in Nat /\ k \in Seq(Frame) /\ n <= r.offset
      /\ \A i \in 1..n : Bottom(i, k[i]) /\ (Definite(k[i]) => k[i].items_read < k[i].definite_length)
  BY <1>1 DEF Sound, Reader
<1> HIDE DEF k
<1>3. n \in Nat \ {0} /\ n \in 1..n /\ f \in Frame /\ Len(t) = n - 1 /\ \A i \in 1..(n - 1) : t[i] = k[i]
  BY <1>1, <1>2, OneShorter
<1>4. g.items_read = f.items_read + 1 /\ g.type = f.type /\ g.definite_length = f.definite_length /\ f.items_read \in Nat
  BY <1>1, <1>3, CountedFrame
<1>5. Bottom(n, f) /\ (Definite(f) => f.items_read < f.definite_length)
  BY <1>2, <1>3
<1>6. Bottom(n, g)
  BY <1>4, <1>5 DEF Bottom, Definite
<1>7. Definite(g) => g.items_read <= g.definite_length
  BY <1>3, <1>4, <1>5 DEF Definite, Frame, INDEFINITE_LENGTH
<1>8. Len(s.nested_items) = n - 1 /\ n - 1 <= s.offset /\ n - 1 + 1 = n
  BY <1>1, <1>2, <1>3
<1>9. ASSUME NEW i \in 1..(n - 1)
      PROVE  /\ Bottom(i, s.nested_items[i])
             /\ Definite(s.nested_items[i]) => s.nested_items[i].items_read < s.nested_items[i].definite_length
  <2>1. i \in 1..n /\ s.nested_items[i] = k[i]
    BY <1>1, <1>3
  <2> QED BY <1>2, <2>1
<1> HIDE DEF n, f, g
<1>10. s.current_frame = g
  BY DEF g
<1> QED BY <1>1, <1>6, <1>7, <1>8, <1>9, <1>10, Zenon DEF Sound

-----------------------------------------------------------------------------
(* What the reader announces.                                                *)

Starts == {"START_ARRAY", "START_MAP"} \cup StartStrStates

LEMMA MapsToItems ==
  ASSUME NEW b \in 0..255
  PROVE  map_major_type_to_reader_state(b) \in ReaderStates \ (EndStates \cup {"FINISHED"})
<1>1. map_simple_value_data_to_reader_state(Info(b)) \in FloatStates \cup SimpleStates
  BY DEF map_simple_value_data_to_reader_state, FloatStates, SimpleStates
<1>2. map_simple_value_data_to_reader_state(Info(b)) \in ReaderStates \ (EndStates \cup {"FINISHED"})
  BY <1>1 DEF ReaderStates, FloatStates, SimpleStates, EndStates, EndStrStates
<1> DEFINE m == map_simple_value_data_to_reader_state(Info(b))
<1> HIDE DEF m
<1>3. map_major_type_to_reader_state(b) \in {"UNSIGNED_INTEGER", "NEGATIVE_INTEGER", "START_INDEFINITE_BYTESTRING",
        "BYTESTRING", "START_INDEFINITE_TEXTSTRING", "TEXTSTRING", "START_ARRAY", "START_MAP", "TAG", m}
  BY DEF map_major_type_to_reader_state, m
<1> QED BY <1>2, <1>3 DEF m, ReaderStates, StringStates, StartStrStates, EndStates, EndStrStates

LEMMA Announced ==
  ASSUME InBuffer, NEW r \in Reader
  PROVE  peek_state_core(r) \in ReaderStates \cup {"ERROR"}
<1> DEFINE f == r.current_frame
<1>1. process_end_of_definite_length(f) \in ReaderStates \cup {"ERROR"}
  BY DEF process_end_of_definite_length, ReaderStates, EndStates
<1>2. process_end_of_buffer(f) \in ReaderStates \cup {"ERROR"}
  BY DEF process_end_of_buffer, ReaderStates
<1>3. process_end_of_indefinite_length(r) \in ReaderStates \cup {"ERROR"}
  BY DEF process_end_of_indefinite_length, ReaderStates, EndStates, EndStrStates
<1>4. r.offset \in Nat /\ Size \in Nat
  BY BytesAreNumbers DEF Reader
<1>5. r.offset < Size => map_major_type_to_reader_state(At(r.offset)) \in ReaderStates \cup {"ERROR"}
  <2>1. r.offset < Size => At(r.offset) \in 0..255
    BY <1>4, BytesAreNumbers
  <2> QED BY <2>1, MapsToItems
<1>6. CASE Exhausted(f)
  BY <1>1, <1>6 DEF peek_state_core
<1>7. CASE ~Exhausted(f) /\ r.offset >= Size /\ ~(r.offset < Size)
  <2>1. peek_state_core(r) = process_end_of_buffer(f)
    BY <1>7, Zenon DEF peek_state_core
  <2> QED BY <1>2, <2>1
<1>8. CASE ~Exhausted(f) /\ r.offset < Size /\ ~(r.offset >= Size)
  <2>1. peek_state_core(r) = IF At(r.offset) = BREAK THEN process_end_of_indefinite_length(r)
                             ELSE map_major_type_to_reader_state(At(r.offset))
    BY <1>8, Zenon DEF peek_state_core
  <2> QED BY <1>3, <1>5, <1>8, <2>1
<1> QED BY <1>4, <1>6, <1>7, <1>8

(* Behind a tag the end of a container is no state of the reader. *)
LEMMA NoEndBehindATag ==
  ASSUME InBuffer, NEW r \in Reader, r.is_tag_context, ~Exhausted(r.current_frame)
  PROVE  peek_state_core(r) \notin EndStates
<1> DEFINE f == r.current_frame
<1>2. process_end_of_buffer(f) \notin EndStates
  BY DEF process_end_of_buffer, EndStates, EndStrStates
<1>3. process_end_of_indefinite_length(r) = "ERROR"
  <2>1. r.is_tag_context = TRUE
    BY DEF Reader
  <2> QED BY <2>1 DEF process_end_of_indefinite_length
<1>4. r.offset \in Nat /\ Size \in Nat
  BY BytesAreNumbers DEF Reader
<1>5. r.offset < Size => map_major_type_to_reader_state(At(r.offset)) \notin EndStates
  <2>1. r.offset < Size => At(r.offset) \in 0..255
    BY <1>4, BytesAreNumbers
  <2> QED BY <2>1, MapsToItems
<1>7. CASE r.offset >= Size /\ ~(r.offset < Size)
  <2>1. peek_state_core(r) = process_end_of_buffer(f)
    BY <1>7, Zenon DEF peek_state_core
  <2> QED BY <1>2, <2>1
<1>8. CASE r.offset < Size /\ ~(r.offset >= Size)
  <2>1. "ERROR" \notin EndStates
    BY DEF EndStates, EndStrStates
  <2>2. peek_state_core(r) = IF At(r.offset) = BREAK THEN process_end_of_indefinite_length(r)
                             ELSE map_major_type_to_reader_state(At(r.offset))
    BY <1>8, Zenon DEF peek_state_core
  <2> QED BY <1>3, <1>5, <1>8, <2>1, <2>2
<1> QED BY <1>4, <1>7, <1>8

(* An item is announced only where the frame has room for one. *)
LEMMA RoomForAnItem ==
  ASSUME NEW r, ItemFollows(r)
  PROVE  ~Exhausted(r.current_frame)
<1> SUFFICES ASSUME Exhausted(r.current_frame) PROVE FALSE
  OBVIOUS
<1>1. peek_state_core(r) = process_end_of_definite_length(r.current_frame)
  BY DEF peek_state_core
<1>2. process_end_of_definite_length(r.current_frame) \in EndStates \cup {"FINISHED", "ERROR"}
  BY DEF process_end_of_definite_length, EndStates
<1> QED BY <1>1, <1>2 DEF ItemFollows

(* The state a reader announces does not depend on the one it has cached. *)
LEMMA CacheIsNotRead ==
  ASSUME NEW r \in Reader, NEW c \in CachedStates
  PROVE  LET s == [r EXCEPT !.cached_state = c]
         IN  /\ s \in Reader /\ s.cached_state = c /\ s.offset = r.offset
             /\ s.nested_items = r.nested_items /\ s.current_frame = r.current_frame
             /\ s.is_tag_context = r.is_tag_context
             /\ peek_state_core(s) = peek_state_core(r)
<1> DEFINE s == [r EXCEPT !.cached_state = c]
<1>1. /\ s \in Reader /\ s.cached_state = c /\ s.offset = r.offset
      /\ s.nested_items = r.nested_items /\ s.current_frame = r.current_frame
      /\ s.is_tag_context = r.is_tag_context
  BY DEF Reader
<1> HIDE DEF s
<1>2. process_end_of_indefinite_length(s) = process_end_of_indefinite_length(r)
  BY <1>1 DEF process_end_of_indefinite_length
<1>3. peek_state_core(s) = peek_state_core(r)
  BY <1>1, <1>2 DEF peek_state_core
<1> QED BY <1>1, <1>3 DEF s

(* What skip_next_node calls in each state. *)
Calls(r, state, res) ==
  /\ state \in Starts => Enters(r, res)
  /\ state \in EndStates => Leaves(r, res)
  /\ state = "TAG" => Tags(r, res)
  /\ state \notin Starts \cup EndStates \cup {"TAG"} => Reads(r, res)

LEMMA NodesAreCalls ==
  ASSUME InBuffer, NEW r \in Reader, NEW state
  PROVE  Calls(r, state, SkipCall(r, state))
<1> DEFINE res == SkipCall(r, state)
<1>1. CASE state \in Starts
  <2>1. ASSUME state = "START_ARRAY" PROVE Enters(r, res)
    <3>1. res = read_start_array(r)
      BY <2>1 DEF SkipCall, FloatStates, SimpleStates
    <3> HIDE DEF res
    <3> QED BY <3>1, ArraysAreEntered
  <2>2. ASSUME state = "START_MAP" PROVE Enters(r, res)
    <3>1. res = read_start_map(r)
      BY <2>2 DEF SkipCall, FloatStates, SimpleStates
    <3> HIDE DEF res
    <3> QED BY <3>1, MapsAreEntered
  <2>3. ASSUME state = "START_INDEFINITE_BYTESTRING" PROVE Enters(r, res)
    <3>1. res = read_start_indefinite_length_string(r, BYTES)
      BY <2>3 DEF SkipCall, FloatStates, SimpleStates
    <3> HIDE DEF res
    <3> QED BY <3>1, StringsAreEntered
  <2>4. ASSUME state = "START_INDEFINITE_TEXTSTRING" PROVE Enters(r, res)
    <3>1. res = read_start_indefinite_length_string(r, TEXT)
      BY <2>4 DEF SkipCall, FloatStates, SimpleStates
    <3> HIDE DEF res
    <3> QED BY <3>1, StringsAreEntered
  <2>5. Enters(r, res)
    <3> HIDE DEF res
    <3> QED BY <1>1, <2>1, <2>2, <2>3, <2>4 DEF Starts, StartStrStates
  <2>6. state \notin EndStates /\ state # "TAG"
    BY <1>1 DEF Starts, StartStrStates, EndStates, EndStrStates
  <2> HIDE DEF res
  <2>7. Calls(r, state, res)
    BY <1>1, <2>5, <2>6, Zenon DEF Calls
  <2> QED BY <2>7 DEF res
<1>2. CASE state \in EndStates
  <2>1. res \in {read_end(r, BYTES), read_end(r, TEXT), read_end(r, ARRAY), read_end(r, MAP)}
    <3>1. CASE state = "END_ARRAY"
      BY <3>1 DEF SkipCall, FloatStates, SimpleStates
    <3>2. CASE state = "END_MAP"
      BY <3>2 DEF SkipCall, FloatStates, SimpleStates
    <3>3. CASE state = "END_INDEFINITE_BYTESTRING"
      BY <3>3 DEF SkipCall, FloatStates, SimpleStates
    <3>4. CASE state = "END_INDEFINITE_TEXTSTRING"
      BY <3>4 DEF SkipCall, FloatStates, SimpleStates
    <3> HIDE DEF res
    <3> QED BY <1>2, <3>1, <3>2, <3>3, <3>4 DEF EndStates, EndStrStates
  <2> HIDE DEF res
  <2>2. Leaves(r, res)
    BY <2>1, ContainersAreLeft
  <2>3. state \notin Starts /\ state # "TAG"
    BY <1>2 DEF Starts, StartStrStates, EndStates, EndStrStates
  <2>4. Calls(r, state, res)
    BY <1>2, <2>2, <2>3, Zenon DEF Calls
  <2> QED BY <2>4 DEF res
<1>3. CASE state = "TAG"
  <2>1. res = read_tag(r)
    BY <1>3 DEF SkipCall, FloatStates, SimpleStates
  <2> HIDE DEF res
  <2>2. Tags(r, res)
    BY <2>1, TagsAreRead
  <2>3. state \notin Starts /\ state \notin EndStates
    BY <1>3 DEF Starts, StartStrStates, EndStates, EndStrStates
  <2>4. Calls(r, state, res)
    BY <1>3, <2>2, <2>3, Zenon DEF Calls
  <2> QED BY <2>4 DEF res
<1>4. CASE state \notin Starts \cup EndStates \cup {"TAG"}
  <2>1. res \in {read_scalar(r, "uint"), read_scalar(r, "int"), read_scalar(r, "double"),
                 read_scalar(r, "simple"), read_string(r, BYTES), read_string(r, TEXT), Fail(r)}
    BY <1>4 DEF SkipCall, FloatStates, SimpleStates, Starts, StartStrStates, EndStates, EndStrStates
  <2> HIDE DEF res
  <2>2. Reads(r, Fail(r))
    BY FailRefuses DEF Reads
  <2>3. Reads(r, res)
    BY <2>1, <2>2, ScalarsAreRead, StringsAreRead
  <2>4. Calls(r, state, res)
    BY <1>4, <2>3, Zenon DEF Calls
  <2> QED BY <2>4 DEF res
<1> QED BY <1>1, <1>2, <1>3, <1>4

(* A call of the loop that succeeded did what its state announced. *)
LEMMA NodesAreSound ==
  ASSUME InBuffer, NEW r, Sound(r), NEW state
  PROVE  LET res == SkipCall(r, state)
         IN  /\ Sound(res.r)
             /\ res.r = r \/ (Moved(r, res.r) /\ res.r.cached_state = "UNDEFINED")
             /\ res.pushed => Entered(r, res.r)
             /\ ~res.ok => res.r = r
<1> DEFINE res == SkipCall(r, state)
<1>1. r \in Reader
  BY DEF Sound
<1>2. Calls(r, state, res)
  BY <1>1, NodesAreCalls
<1> HIDE DEF res
<1>3. \/ Refused(r, res) \/ (res.ok /\ ~res.pushed /\ Read(r, res.r)) \/ (res.ok /\ ~res.pushed /\ Tagged(r, res.r))
      \/ (res.ok /\ res.pushed /\ Entered(r, res.r)) \/ (res.ok /\ ~res.pushed /\ Left(r, res.r))
  BY <1>2, Zenon DEF Calls, Reads, Tags, Enters, Leaves
<1>4. Tagged(r, res.r) => Dropped(r, res.r)
  BY DEF Tagged, Dropped
<1>5. Sound(res.r)
  BY <1>3, <1>4, ReadIsSound, DroppedIsSound, EnteredIsSound, LeftIsSound, Zenon DEF Refused
<1>6. res.r = r \/ Moved(r, res.r)
  BY <1>3, Zenon DEF Refused, Read, Tagged, Entered, Left
<1>7. (res.pushed => Entered(r, res.r)) /\ (~res.ok => res.r = r)
  BY <1>3, Zenon DEF Refused
<1> QED BY <1>5, <1>6, <1>7 DEF res, Moved

-----------------------------------------------------------------------------
(* The loop of a skip.                                                       *)

(* The frames the skip was started on lie unchanged under d newer ones. *)
Inside(from, d, r) ==
  LET n == Len(from.nested_items)
  IN  /\ Len(r.nested_items) = n + d
      /\ \A i \in 1..n : r.nested_items[i] = from.nested_items[i]
      /\ r.nested_items[n + 1] = from.current_frame

AtStart(from, r) ==
  /\ r.nested_items = from.nested_items /\ r.current_frame = from.current_frame
  /\ ~Exhausted(r.current_frame)
  /\ peek_state_core(r) \notin EndStates

Within(from, depth, r) == IF depth = 0 THEN AtStart(from, r) ELSE Inside(from, depth, r)

OneItemRead(from, s) ==
  /\ s.nested_items = from.nested_items
  /\ s.current_frame = Counted(from.current_frame)
  /\ ~s.is_tag_context

LEMMA DepthMoves ==
  ASSUME NEW d \in Nat, d < SIZE_MAX
  PROVE  /\ (d + 1) % (SIZE_MAX + 1) = d + 1
         /\ d # 0 => (d - 1) % (SIZE_MAX + 1) = d - 1
BY SizeAssumption

LEMMA DepthIsTyped ==
  ASSUME NEW d \in 0..SIZE_MAX, NEW state
  PROVE  DepthAfter(d, state) \in 0..SIZE_MAX
<1>1. SIZE_MAX + 1 \in Nat \ {0}
  BY SizeAssumption
<1>2. (d + 1) % (SIZE_MAX + 1) \in 0..SIZE_MAX
  BY <1>1, SizeAssumption
<1>3. (d - 1) % (SIZE_MAX + 1) \in 0..SIZE_MAX
  BY <1>1, SizeAssumption
<1> DEFINE up == (d + 1) % (SIZE_MAX + 1)
           down == (d - 1) % (SIZE_MAX + 1)
<1> HIDE DEF up, down
<1>4. DepthAfter(d, state) \in {up, down, d}
  BY DEF DepthAfter, up, down
<1> QED BY <1>2, <1>3, <1>4 DEF up, down

LEMMA DepthIsSmall ==
  ASSUME buffer \in Buffers, NEW from \in Reader, NEW r, Sound(r), NEW d \in Nat, Within(from, d, r)
  PROVE  d < SIZE_MAX
<1>1. Len(buffer) < SIZE_MAX /\ Size = Len(buffer) /\ Len(buffer) \in Nat
  BY SizeAssumption, BuffersAssumption DEF Size
<1>2. /\ Len(r.nested_items) <= r.offset /\ r.offset \in 0..Size /\ r.nested_items \in Seq(Frame)
      /\ from.nested_items \in Seq(Frame)
  BY DEF Sound, Reader
<1>3. Len(r.nested_items) \in Nat /\ Len(from.nested_items) \in Nat
  BY <1>2
<1>4. CASE d = 0
  BY <1>1, <1>4, SizeAssumption
<1>5. CASE d # 0
  <2>1. Len(r.nested_items) = Len(from.nested_items) + d
    BY <1>5 DEF Within, Inside
  <2> QED BY <1>1, <1>2, <1>3, <2>1, SizeAssumption
<1> QED BY <1>4, <1>5

(* A node at depth d: the loop either goes on within the frames it started *)
(* in or has read one item of the frame it started in.                     *)
LEMMA StartsGoDeeper ==
  ASSUME NEW from \in Reader, NEW r \in Reader, NEW d \in Nat, Within(from, d, r), NEW s, Entered(r, s)
  PROVE  Inside(from, d + 1, s)
<1> DEFINE k == r.nested_items
           f == r.current_frame
           n == Len(from.nested_items)
<1>1. k \in Seq(Frame) /\ f \in Frame /\ from.nested_items \in Seq(Frame) /\ s.nested_items = Append(k, f)
  BY DEF Reader, Entered
<1>2. n \in Nat
  BY <1>1
<1>3. /\ Len(Append(k, f)) = Len(k) + 1 /\ Len(k) \in Nat
      /\ Append(k, f)[Len(k) + 1] = f /\ \A i \in 1..Len(k) : Append(k, f)[i] = k[i]
  <2> HIDE DEF k, f
  <2> QED BY <1>1
<1>4. CASE d = 0
  <2>1. k = from.nested_items /\ f = from.current_frame
    BY <1>4 DEF Within, AtStart
  <2>2. d + 1 = 1
    BY <1>4
  <2> HIDE DEF k, f
  <2> QED BY <1>1, <1>2, <1>3, <2>1, <2>2 DEF Inside
<1>5. CASE d # 0
  <2>1. Len(k) = n + d /\ (\A i \in 1..n : k[i] = from.nested_items[i]) /\ k[n + 1] = from.current_frame
    BY <1>5 DEF Within, Inside
  <2>2. n + 1 \in 1..Len(k) /\ (\A i \in 1..n : i \in 1..Len(k)) /\ Len(k) + 1 = n + (d + 1)
    <3> DEFINE m == Len(k)
    <3>1. m \in Nat /\ m = n + d
      BY <1>3, <2>1
    <3> HIDE DEF m, n
    <3>2. n + 1 \in 1..m /\ (\A i \in 1..n : i \in 1..m) /\ m + 1 = n + (d + 1)
      BY <1>2, <1>5, <3>1
    <3> QED BY <3>2 DEF m
  <2> HIDE DEF k, f
  <2> QED BY <1>1, <1>3, <2>1, <2>2 DEF Inside
<1> QED BY <1>4, <1>5

LEMMA EndsComeBack ==
  ASSUME NEW from \in Reader, NEW r \in Reader, NEW d \in Nat \ {0}, Inside(from, d, r), NEW s, Left(r, s)
  PROVE  IF d - 1 = 0 THEN OneItemRead(from, s) ELSE Inside(from, d - 1, s)
<1> DEFINE k == r.nested_items
           n == Len(from.nested_items)
           m == Len(k)
           t == SubSeq(k, 1, m - 1)
           b == from.nested_items
<1>1. /\ k \in Seq(Frame) /\ b \in Seq(Frame) /\ k # <<>> /\ s.nested_items = t /\ s.current_frame = Counted(k[m])
      /\ ~s.is_tag_context
  BY DEF Reader, Left
<1>2. m = n + d /\ (\A i \in 1..n : k[i] = b[i]) /\ k[n + 1] = from.current_frame /\ n \in Nat
  BY <1>1 DEF Inside
<1>3. t \in Seq(Frame) /\ Len(t) = m - 1 /\ \A i \in 1..(m - 1) : t[i] = k[i]
  <2> HIDE DEF k
  <2> QED BY <1>1, OneShorter
<1> HIDE DEF k, t
<1>4. CASE d - 1 = 0
  <2>1. m - 1 = n /\ m = n + 1
    BY <1>2, <1>4
  <2>2. t = b
    <3>1. Len(t) = Len(b) /\ \A i \in 1..Len(b) : t[i] = b[i]
      BY <1>2, <1>3, <2>1
    <3> HIDE DEF b
    <3> QED BY <1>1, <1>3, <3>1
  <2>3. OneItemRead(from, s)
    BY <1>1, <1>2, <2>1, <2>2 DEF OneItemRead
  <2> QED BY <1>4, <2>3
<1>5. CASE d - 1 # 0
  <2>1. m - 1 = n + (d - 1) /\ n + 1 \in 1..(m - 1) /\ \A i \in 1..n : i \in 1..(m - 1)
    BY <1>2, <1>5
  <2>2. Inside(from, d - 1, s)
    BY <1>1, <1>2, <1>3, <2>1 DEF Inside
  <2> QED BY <1>5, <2>2
<1> QED BY <1>4, <1>5

LEMMA LoopStep ==
  ASSUME InBuffer, buffer \in Buffers, NEW from \in Reader, NEW r, Sound(r), NEW d \in 0..SIZE_MAX,
         Within(from, d, r), SkipCall(r, peek_state_core(r)).ok
  PROVE  LET state == peek_state_core(r)
             s == SkipCall(r, state).r
             e == DepthAfter(d, state)
         IN  IF state # "TAG" /\ e = 0 THEN OneItemRead(from, s) ELSE Within(from, e, s)
<1> DEFINE state == peek_state_core(r)
           res == SkipCall(r, state)
           s == res.r
           e == DepthAfter(d, state)
<1>1. r \in Reader /\ d \in Nat
  BY SizeAssumption DEF Sound
<1>2. Calls(r, state, res) /\ res.ok
  BY <1>1, NodesAreCalls
<1>3. d < SIZE_MAX
  BY <1>1, DepthIsSmall
<1>4. d = 0 => state \notin EndStates
  BY DEF Within, AtStart
<1> HIDE DEF state, res
<1>5. CASE state \in Starts
  <2>1. Entered(r, s)
    BY <1>2, <1>5, Zenon DEF Calls, Enters, Refused
  <2>2. e = d + 1
    <3>1. e = (d + 1) % (SIZE_MAX + 1)
      BY <1>5 DEF DepthAfter, Starts, StartStrStates, EndStates, EndStrStates
    <3> QED BY <1>1, <1>3, <3>1, DepthMoves
  <2> HIDE DEF e, s
  <2>3. Inside(from, d + 1, s)
    BY <1>1, <2>1, StartsGoDeeper
  <2>4. e # 0
    BY <1>1, <2>2
  <2> QED BY <2>2, <2>3, <2>4, Zenon DEF Within, e, s, state, res
<1>6. CASE state \in EndStates
  <2>1. Left(r, s)
    BY <1>2, <1>6, Zenon DEF Calls, Leaves, Refused
  <2>2. d # 0 /\ d \in Nat \ {0}
    BY <1>1, <1>4, <1>6
  <2>3. e = d - 1
    <3>1. e = (d - 1) % (SIZE_MAX + 1)
      BY <1>6 DEF DepthAfter, Starts, StartStrStates, EndStates, EndStrStates
    <3> QED BY <1>1, <1>3, <2>2, <3>1, DepthMoves
  <2> HIDE DEF e, s
  <2>4. Inside(from, d, r)
    BY <2>2, Zenon DEF Within
  <2>5. IF d - 1 = 0 THEN OneItemRead(from, s) ELSE Inside(from, d - 1, s)
    BY <1>1, <2>1, <2>2, <2>4, EndsComeBack
  <2>6. state # "TAG"
    BY <1>6 DEF EndStates, EndStrStates
  <2> QED BY <2>3, <2>5, <2>6, Zenon DEF Within, e, s, state, res
<1>7. CASE state = "TAG"
  <2>1. Tagged(r, s)
    BY <1>2, <1>7, Zenon DEF Calls, Tags, Refused
  <2>2. e = d
    BY <1>7 DEF DepthAfter, Starts, StartStrStates, EndStates, EndStrStates
  <2> HIDE DEF e, s
  <2>3. /\ s \in Reader /\ s.nested_items = r.nested_items /\ s.current_frame = r.current_frame
        /\ s.is_tag_context /\ ~Exhausted(s.current_frame)
    BY <2>1, Zenon DEF Tagged, Moved
  <2>4. peek_state_core(s) \notin EndStates
    BY <2>3, NoEndBehindATag
  <2>5. Within(from, d, s)
    BY <2>3, <2>4, Zenon DEF Within, AtStart, Inside
  <2> QED BY <1>7, <2>2, <2>5, Zenon DEF e, s, state, res
<1>8. CASE state \notin Starts \cup EndStates \cup {"TAG"}
  <2>1. Read(r, s)
    BY <1>2, <1>8, Zenon DEF Calls, Reads, Refused
  <2>2. e = d
    BY <1>8 DEF DepthAfter, Starts
  <2> HIDE DEF e, s
  <2>3. s.nested_items = r.nested_items /\ s.current_frame = Counted(r.current_frame) /\ ~s.is_tag_context
    BY <2>1, Zenon DEF Read
  <2>4. CASE d = 0
    <3>1. OneItemRead(from, s)
      BY <2>3, <2>4, Zenon DEF Within, AtStart, OneItemRead
    <3>2. state # "TAG"
      BY <1>8
    <3> QED BY <2>2, <2>4, <3>1, <3>2, Zenon DEF e, s, state, res
  <2>5. CASE d # 0
    <3>1. Within(from, d, s)
      BY <2>3, <2>5, Zenon DEF Within, Inside
    <3> QED BY <2>2, <2>5, <3>1, Zenon DEF e, s, state, res
  <2> QED BY <2>4, <2>5
<1> QED BY <1>5, <1>6, <1>7, <1>8

-----------------------------------------------------------------------------
(* The invariant.                                                            *)

Fresh(r) == r.cached_state # "UNDEFINED" => r.cached_state = peek_state_core(r)

LoopTyped == skip \in [phase : {"idle", "running", "done", "failed"}, depth : 0..SIZE_MAX, from : Reader]

(* A skip begun in front of an item has not left the frame it began in. *)
LoopKept ==
  skip.phase = "running" /\ ItemFollows(skip.from) => Within(skip.from, skip.depth, reader)

IInv ==
  /\ buffer \in Buffers
  /\ Sound(reader)
  /\ CacheFresh
  /\ LoopTyped
  /\ lost \in BOOLEAN
  /\ LoopKept

LEMMA BuffersAreBytes ==
  ASSUME buffer \in Buffers
  PROVE  InBuffer
BY BuffersAssumption DEF InBuffer

LEMMA NewReaderIsTyped ==
  ASSUME buffer \in Buffers
  PROVE  NewReader \in Reader
<1>1. Size \in Nat
  BY BuffersAreBytes, BytesAreNumbers
<1>2. RootFrame \in Frame
  BY DEF RootFrame, Frame
<1> QED BY <1>1, <1>2 DEF NewReader, Reader, CachedStates

(* What a call leaves, whatever it did. *)
Outcome(r, res) ==
  /\ Sound(res.r) /\ Fresh(res.r) /\ (res.pushed => Entered(r, res.r))

LEMMA MovedIsFresh ==
  ASSUME NEW r, NEW s, Moved(r, s)
  PROVE  Fresh(s)
BY DEF Moved, Fresh

LEMMA CallsHaveOutcomes ==
  ASSUME NEW r, Sound(r), Fresh(r), NEW res,
         Reads(r, res) \/ Tags(r, res) \/ Enters(r, res) \/ Leaves(r, res)
  PROVE  Outcome(r, res) /\ (~res.ok => res.r = r)
<1>1. CASE Refused(r, res)
  BY <1>1, Zenon DEF Refused, Outcome
<1>2. CASE res.ok /\ ~res.pushed /\ Read(r, res.r)
  BY <1>2, ReadIsSound, MovedIsFresh, Zenon DEF Read, Outcome
<1>3. CASE res.ok /\ ~res.pushed /\ Tagged(r, res.r)
  <2>1. Dropped(r, res.r) /\ Moved(r, res.r)
    BY <1>3, Zenon DEF Tagged, Dropped
  <2> QED BY <1>3, <2>1, DroppedIsSound, MovedIsFresh, Zenon DEF Outcome
<1>4. CASE res.ok /\ res.pushed /\ Entered(r, res.r)
  BY <1>4, EnteredIsSound, MovedIsFresh, Zenon DEF Entered, Outcome
<1>5. CASE res.ok /\ ~res.pushed /\ Left(r, res.r)
  BY <1>5, LeftIsSound, MovedIsFresh, Zenon DEF Left, Outcome
<1> QED BY <1>1, <1>2, <1>3, <1>4, <1>5, Zenon DEF Reads, Tags, Enters, Leaves

LEMMA BignumsHaveOutcomes ==
  ASSUME NEW r, Sound(r), Fresh(r), NEW res, Bignum(r, res)
  PROVE  Outcome(r, res)
<1>1. CASE Refused(r, res)
  BY <1>1, Zenon DEF Refused, Outcome
<1>2. CASE ~Refused(r, res)
  <2>1. ~res.pushed /\ \E t : Tagged(r, t) /\ t \in Reader /\ Reads(t, res)
    BY <1>2 DEF Bignum
  <2>2. PICK t : Tagged(r, t) /\ Reads(t, res)
    BY <2>1
  <2>3. Dropped(r, t) /\ Moved(r, t)
    BY <2>2, Zenon DEF Tagged, Dropped
  <2>4. Sound(t) /\ Fresh(t)
    BY <2>3, DroppedIsSound, MovedIsFresh
  <2>5. Outcome(t, res)
    BY <2>2, <2>4, CallsHaveOutcomes
  <2> QED BY <2>1, <2>5, Zenon DEF Outcome
<1> QED BY <1>1, <1>2

(* A header was consumed and its frame could not be allocated. *)
LEMMA UnallocatedIsSound ==
  ASSUME NEW r, Sound(r), NEW s, Entered(r, s)
  PROVE  LET t == advance_buffer(r, s.offset - r.offset)
         IN  Sound(t) /\ Fresh(t)
<1> DEFINE n == s.offset - r.offset
           t == advance_buffer(r, n)
<1>1. r \in Reader /\ s \in Reader /\ s.offset > r.offset
  BY DEF Sound, Entered, Moved
<1>2. r.offset \in Nat /\ s.offset \in Nat /\ s.offset <= Size
  BY <1>1 DEF Reader
<1>3. n \in Nat /\ r.offset + n <= Size
  BY <1>1, <1>2
<1> HIDE DEF n
<1>4. Moved(r, t) /\ Dropped(r, t)
  BY <1>1, <1>3, Advanced DEF Dropped
<1> HIDE DEF t
<1>5. Sound(t) /\ Fresh(t)
  BY <1>4, DroppedIsSound, MovedIsFresh
<1> QED BY <1>5 DEF t, n

-----------------------------------------------------------------------------
(* The next state: the buffer is the same.                                   *)

LEMMA ReaderNext ==
  ASSUME buffer' = buffer, NEW s, reader' = s, Sound(s), Fresh(s)
  PROVE  Sound(reader)' /\ CacheFresh'
<1>1. Size' = Size /\ Reader' = Reader
  BY DEF Size, Reader
<1>2. peek_state_core(reader)' = peek_state_core(s)
  BY <1>1 DEF peek_state_core, At
<1>3. Sound(reader)'
  BY <1>1, Zenon DEF Sound
<1>4. CacheFresh'
  BY <1>2, Zenon DEF CacheFresh, Fresh
<1> QED BY <1>3, <1>4

LEMMA ReturnKeeps ==
  ASSUME IInv, NEW res, Outcome(reader, res), Return(res)
  PROVE  IInv'
<1>1. /\ skip.phase # "running" /\ skip' = Idle /\ buffer' = buffer
      /\ \/ reader' = res.r /\ lost' = lost
         \/ /\ AllocMayFail /\ res.pushed
            /\ reader' = advance_buffer(reader, res.r.offset - reader.offset)
            /\ lost' = TRUE
  BY DEF Return
<1>2. Sound(reader) /\ buffer \in Buffers /\ lost \in BOOLEAN
  BY DEF IInv
<1>3. PICK s : reader' = s /\ Sound(s) /\ Fresh(s)
  <2>1. CASE reader' = res.r
    BY <2>1, Zenon DEF Outcome
  <2>2. CASE res.pushed /\ reader' = advance_buffer(reader, res.r.offset - reader.offset)
    <3>1. Entered(reader, res.r)
      BY <2>2, Zenon DEF Outcome
    <3> DEFINE t == advance_buffer(reader, res.r.offset - reader.offset)
    <3>2. Sound(t) /\ Fresh(t)
      BY <1>2, <3>1, UnallocatedIsSound
    <3> QED BY <2>2, <3>2
  <2> QED BY <1>1, <2>1, <2>2
<1>4. Sound(reader)' /\ CacheFresh'
  BY <1>1, <1>3, ReaderNext
<1>5. LoopTyped' /\ LoopKept'
  <2>1. Size' = Size /\ Reader' = Reader
    BY <1>1 DEF Size, Reader
  <2>2. NewReader \in Reader
    BY <1>2, NewReaderIsTyped
  <2>3. skip'.phase = "idle" /\ skip' \in [phase : {"idle", "running", "done", "failed"}, depth : 0..SIZE_MAX, from : Reader]
    BY <1>1, <2>2, SizeAssumption DEF Idle
  <2> QED BY <2>1, <2>3 DEF LoopTyped, LoopKept
<1>6. buffer' \in Buffers /\ lost' \in BOOLEAN
  BY <1>1, <1>2
<1> QED BY <1>4, <1>5, <1>6 DEF IInv

LEMMA InitHolds ==
  ASSUME Init
  PROVE  IInv
<1>1. buffer \in Buffers /\ reader = NewReader /\ skip = Idle /\ lost = FALSE
  BY DEF Init
<1>2. NewReader \in Reader
  BY <1>1, NewReaderIsTyped
<1>3. Sound(reader)
  <2>1. /\ NewReader.nested_items = <<>> /\ NewReader.current_frame = RootFrame /\ NewReader.offset = 0
        /\ RootFrame.type = UNDEFINED_TYPE /\ RootFrame.definite_length = INDEFINITE_LENGTH
    BY DEF NewReader, RootFrame
  <2>2. ~Definite(RootFrame)
    BY <2>1 DEF Definite
  <2>3. Bottom(0 + 1, RootFrame)
    BY <2>1, <2>2 DEF Bottom
  <2>4. Len(NewReader.nested_items) = 0
    BY <2>1
  <2>5. Len(NewReader.nested_items) <= NewReader.offset
    BY <2>1, <2>4
  <2>6. \A i \in 1..0 : FALSE
    OBVIOUS
  <2> QED BY <1>1, <1>2, <2>1, <2>2, <2>3, <2>4, <2>5, <2>6 DEF Sound
<1>4. CacheFresh
  BY <1>1 DEF CacheFresh, NewReader
<1>5. LoopTyped /\ LoopKept
  BY <1>1, <1>2, SizeAssumption DEF LoopTyped, LoopKept, Idle
<1> QED BY <1>1, <1>3, <1>4, <1>5 DEF IInv

LEMMA PeekKeeps ==
  ASSUME IInv, PeekState
  PROVE  IInv'
<1> DEFINE state == IF reader.cached_state = "UNDEFINED" THEN peek_state_core(reader) ELSE reader.cached_state
           c == IF state = "ERROR" THEN "UNDEFINED" ELSE state
           s == [reader EXCEPT !.cached_state = c]
<1>1. Sound(reader) /\ reader \in Reader /\ CacheFresh /\ InBuffer
  BY BuffersAreBytes DEF IInv, Sound
<1>2. state \in ReaderStates \cup {"ERROR"} /\ (c # "UNDEFINED" => c = peek_state_core(reader))
  <2>1. CASE reader.cached_state = "UNDEFINED"
    BY <1>1, <2>1, Announced
  <2>2. CASE reader.cached_state # "UNDEFINED"
    <3>1. state = reader.cached_state /\ reader.cached_state = peek_state_core(reader)
      BY <1>1, <2>2 DEF CacheFresh
    <3>2. reader.cached_state \in ReaderStates
      BY <1>1, <2>2 DEF Reader, CachedStates
    <3> QED BY <3>1, <3>2
  <2> QED BY <2>1, <2>2
<1>3. c \in CachedStates
  BY <1>2 DEF CachedStates
<1>4. Return(Ok(s))
  BY DEF PeekState
<1> HIDE DEF c
<1>5. /\ s \in Reader /\ s.cached_state = c /\ s.offset = reader.offset
      /\ s.nested_items = reader.nested_items /\ s.current_frame = reader.current_frame
      /\ peek_state_core(s) = peek_state_core(reader)
  BY <1>1, <1>3, CacheIsNotRead
<1> HIDE DEF s
<1>6. Sound(s)
  BY <1>1, <1>5, Zenon DEF Sound
<1>7. Fresh(s)
  BY <1>2, <1>5 DEF Fresh
<1>8. Outcome(reader, Ok(s))
  BY <1>6, <1>7 DEF Outcome, Ok
<1> QED BY <1>4, <1>8, ReturnKeeps

LEMMA CallsKeep ==
  ASSUME IInv, NEW res, Return(res),
         Reads(reader, res) \/ Tags(reader, res) \/ Enters(reader, res) \/ Leaves(reader, res)
  PROVE  IInv'
<1>1. Sound(reader) /\ Fresh(reader)
  BY DEF IInv, CacheFresh, Fresh
<1>2. Outcome(reader, res)
  BY <1>1, CallsHaveOutcomes
<1> QED BY <1>2, ReturnKeeps

LEMMA SkipValueKeeps ==
  ASSUME IInv, SkipValue
  PROVE  IInv'
<1>1. /\ skip' = [phase |-> "running", depth |-> 0, from |-> reader]
      /\ buffer' = buffer /\ reader' = reader /\ lost' = lost
  BY DEF SkipValue
<1>2. Sound(reader) /\ reader \in Reader /\ Fresh(reader) /\ buffer \in Buffers /\ lost \in BOOLEAN
  BY DEF IInv, Sound, CacheFresh, Fresh
<1>3. Sound(reader)' /\ CacheFresh'
  BY <1>1, <1>2, ReaderNext
<1>4. Size' = Size /\ Reader' = Reader
  BY <1>1 DEF Size, Reader
<1>5. LoopTyped'
  BY <1>1, <1>2, <1>4, SizeAssumption DEF LoopTyped
<1>6. ItemFollows(reader) => AtStart(reader, reader)
  BY RoomForAnItem DEF AtStart, ItemFollows
<1>7. peek_state_core(reader)' = peek_state_core(reader)
  BY <1>1, <1>4 DEF peek_state_core, At
<1>8. LoopKept'
  <2> SUFFICES ASSUME ItemFollows(skip.from)' PROVE Within(skip.from, skip.depth, reader)'
    BY DEF LoopKept
  <2>1. skip'.from = reader /\ skip'.depth = 0
    BY <1>1
  <2>2. peek_state_core(skip.from)' = peek_state_core(reader)
    BY <1>1, <1>4, <2>1 DEF peek_state_core, At
  <2>3. ItemFollows(reader)
    BY <2>2, Zenon DEF ItemFollows
  <2>4. AtStart(reader, reader)
    BY <1>6, <2>3
  <2>5. AtStart(skip.from, reader)'
    BY <1>1, <1>7, <2>1, <2>4, Zenon DEF AtStart
  <2> QED BY <2>1, <2>5, Zenon DEF Within
<1> QED BY <1>1, <1>2, <1>3, <1>5, <1>8 DEF IInv

(* A step of the loop, and what it leaves when it is the last. *)
LEMMA SkipStep ==
  ASSUME IInv, SkipNextNode
  PROVE  /\ IInv'
         /\ skip'.phase = "done" /\ ItemFollows(skip.from) => OneItemRead(skip.from, reader')
<1> DEFINE state == peek_state_core(reader)
           res   == SkipCall(reader, state)
           depth == DepthAfter(skip.depth, state)
           from  == skip.from
<1>0. /\ skip.phase = "running" /\ buffer' = buffer
      /\ \/ ~res.ok /\ skip' = Ended("failed") /\ reader' = res.r /\ lost' = lost
         \/ /\ res.ok /\ reader' = res.r /\ lost' = lost
            /\ skip' = IF state # "TAG" /\ depth = 0 THEN Ended("done") ELSE [skip EXCEPT !.depth = depth]
         \/ /\ res.ok /\ res.pushed /\ skip' = Ended("failed")
            /\ reader' = advance_buffer(reader, res.r.offset - reader.offset) /\ lost' = TRUE
  BY Zenon DEF SkipNextNode
<1>1. /\ buffer \in Buffers /\ InBuffer /\ Sound(reader) /\ reader \in Reader /\ Fresh(reader) /\ lost \in BOOLEAN
      /\ from \in Reader /\ skip.depth \in 0..SIZE_MAX
      /\ skip \in [phase : {"idle", "running", "done", "failed"}, depth : 0..SIZE_MAX, from : Reader]
  BY BuffersAreBytes DEF IInv, Sound, CacheFresh, Fresh, LoopTyped
<1>2. Outcome(reader, res)
  <2>1. Calls(reader, state, res)
    BY <1>1, NodesAreCalls
  <2> HIDE DEF state, res
  <2>2. Reads(reader, res) \/ Tags(reader, res) \/ Enters(reader, res) \/ Leaves(reader, res)
    BY <2>1, Zenon DEF Calls
  <2> QED BY <1>1, <2>2, CallsHaveOutcomes
<1>3. ItemFollows(from) /\ res.ok =>
        IF state # "TAG" /\ depth = 0 THEN OneItemRead(from, res.r) ELSE Within(from, depth, res.r)
  <2> SUFFICES ASSUME ItemFollows(from), res.ok
               PROVE IF state # "TAG" /\ depth = 0 THEN OneItemRead(from, res.r) ELSE Within(from, depth, res.r)
    OBVIOUS
  <2>1. Within(from, skip.depth, reader)
    BY <1>0 DEF IInv, LoopKept
  <2> QED BY <1>1, <2>1, LoopStep
<1>4. depth \in 0..SIZE_MAX
  BY <1>1, DepthIsTyped
<1>5. NewReader \in Reader
  BY <1>1, NewReaderIsTyped
<1> HIDE DEF state, res, depth
<1>6. PICK s : reader' = s /\ Sound(s) /\ Fresh(s)
  <2>1. CASE reader' = res.r
    BY <1>2, <2>1, Zenon DEF Outcome
  <2>2. CASE res.pushed /\ reader' = advance_buffer(reader, res.r.offset - reader.offset)
    <3>1. Entered(reader, res.r)
      BY <1>2, <2>2, Zenon DEF Outcome
    <3> DEFINE t == advance_buffer(reader, res.r.offset - reader.offset)
    <3>2. Sound(t) /\ Fresh(t)
      BY <1>1, <3>1, UnallocatedIsSound
    <3> QED BY <2>2, <3>2
  <2> QED BY <1>0, <2>1, <2>2
<1>7. Sound(reader)' /\ CacheFresh'
  BY <1>0, <1>6, ReaderNext
<1>8. Size' = Size /\ Reader' = Reader
  BY <1>0 DEF Size, Reader
<1>9. buffer' \in Buffers /\ lost' \in BOOLEAN
  BY <1>0, <1>1
<1>10. CASE skip' = Ended("failed")
  <2>1. skip'.phase = "failed" /\ skip' = [phase |-> "failed", depth |-> 0, from |-> NewReader]
    BY <1>10 DEF Ended, Idle
  <2>2. LoopTyped' /\ LoopKept'
    BY <1>5, <1>8, <2>1, SizeAssumption DEF LoopTyped, LoopKept
  <2> QED BY <1>7, <1>9, <2>1, <2>2 DEF IInv
<1>11. CASE res.ok /\ reader' = res.r /\ state # "TAG" /\ depth = 0 /\ skip' = Ended("done")
  <2>1. skip'.phase = "done" /\ skip' = [phase |-> "done", depth |-> 0, from |-> NewReader]
    BY <1>11 DEF Ended, Idle
  <2>2. LoopTyped' /\ LoopKept'
    BY <1>5, <1>8, <2>1, SizeAssumption DEF LoopTyped, LoopKept
  <2>3. ItemFollows(from) => OneItemRead(from, reader')
    BY <1>3, <1>11, Zenon
  <2> QED BY <1>7, <1>9, <2>2, <2>3 DEF IInv
<1>12. CASE res.ok /\ reader' = res.r /\ ~(state # "TAG" /\ depth = 0) /\ skip' = [skip EXCEPT !.depth = depth]
  <2>1. /\ skip'.phase = "running" /\ skip'.depth = depth /\ skip'.from = from
        /\ skip' \in [phase : {"idle", "running", "done", "failed"}, depth : 0..SIZE_MAX, from : Reader]
    BY <1>0, <1>1, <1>4, <1>12
  <2>2. LoopTyped'
    BY <1>8, <2>1 DEF LoopTyped
  <2>3. LoopKept'
    <3> SUFFICES ASSUME ItemFollows(skip.from)' PROVE Within(skip.from, skip.depth, reader)'
      BY DEF LoopKept
    <3>1. peek_state_core(skip.from)' = peek_state_core(from)
      BY <1>0, <1>8, <2>1 DEF peek_state_core, At
    <3>2. ItemFollows(from)
      BY <3>1, Zenon DEF ItemFollows
    <3>3. Within(from, depth, reader')
      BY <1>3, <1>12, <3>2, Zenon
    <3>4. peek_state_core(reader)' = peek_state_core(res.r)
      BY <1>0, <1>8, <1>12 DEF peek_state_core, At
    <3>5. peek_state_core(reader') = peek_state_core(res.r)
      BY <1>12
    <3>6. CASE depth = 0
      <4>1. AtStart(from, res.r)
        BY <1>12, <3>3, <3>6, Zenon DEF Within
      <4>2. AtStart(skip.from, reader)'
        BY <1>12, <2>1, <3>4, <4>1, Zenon DEF AtStart
      <4> QED BY <2>1, <3>6, <4>2, Zenon DEF Within
    <3>7. CASE depth # 0
      <4>1. Inside(from, depth, res.r)
        BY <1>12, <3>3, <3>7, Zenon DEF Within
      <4>2. Inside(skip.from, skip.depth, reader)'
        BY <1>12, <2>1, <4>1, Zenon DEF Inside
      <4> QED BY <2>1, <3>7, <4>2, Zenon DEF Within
    <3> QED BY <3>6, <3>7
  <2> QED BY <1>7, <1>9, <2>1, <2>2, <2>3 DEF IInv
<1> QED BY <1>0, <1>10, <1>11, <1>12, Zenon

LEMMA NextKeeps ==
  ASSUME IInv, [Next]_vars
  PROVE  IInv'
<1>0. InBuffer /\ reader \in Reader /\ Sound(reader) /\ Fresh(reader) /\ buffer \in Buffers /\ lost \in BOOLEAN
  BY BuffersAreBytes DEF IInv, Sound, CacheFresh, Fresh
<1>1. CASE PeekState
  BY <1>1, PeekKeeps
<1>2. CASE ReadTag
  BY <1>0, <1>2, TagsAreRead, CallsKeep DEF ReadTag
<1>3. CASE ReadBigint
  <2>1. Outcome(reader, read_bigint(reader))
    BY <1>0, BignumsAreRead, BignumsHaveOutcomes
  <2> QED BY <1>3, <2>1, ReturnKeeps DEF ReadBigint
<1>4. ASSUME NEW call \in Scalars, ReadScalar(call) PROVE IInv'
  BY <1>0, <1>4, ScalarsAreRead, CallsKeep DEF ReadScalar
<1>5. ASSUME NEW type \in {BYTES, TEXT}, ReadString(type) PROVE IInv'
  BY <1>0, <1>5, StringsAreRead, CallsKeep DEF ReadString
<1>6. CASE ReadStartArray
  BY <1>0, <1>6, ArraysAreEntered, CallsKeep DEF ReadStartArray
<1>7. CASE ReadStartMap
  BY <1>0, <1>7, MapsAreEntered, CallsKeep DEF ReadStartMap
<1>8. CASE ReadEndArray
  BY <1>0, <1>8, ContainersAreLeft, CallsKeep DEF ReadEndArray
<1>9. CASE ReadEndMap
  BY <1>0, <1>9, ContainersAreLeft, CallsKeep DEF ReadEndMap
<1>10. CASE SkipValue
  BY <1>10, SkipValueKeeps
<1>11. CASE SkipNextNode
  BY <1>11, SkipStep
<1>12. CASE UNCHANGED vars
  <2>1. buffer' = buffer /\ reader' = reader /\ skip' = skip /\ lost' = lost
    BY <1>12 DEF vars
  <2>2. Sound(reader)' /\ CacheFresh'
    BY <1>0, <2>1, ReaderNext
  <2>3. Size' = Size /\ Reader' = Reader
    BY <2>1 DEF Size, Reader
  <2>4. LoopTyped /\ LoopKept
    BY DEF IInv
  <2>5. LoopTyped'
    BY <2>1, <2>3, <2>4 DEF LoopTyped
  <2>6. peek_state_core(skip.from)' = peek_state_core(skip.from) /\ peek_state_core(reader)' = peek_state_core(reader)
    BY <2>1, <2>3 DEF peek_state_core, At
  <2>7. LoopKept'
    BY <2>1, <2>4, <2>6, Zenon DEF LoopKept, ItemFollows, Within, AtStart, Inside
  <2> QED BY <1>0, <2>1, <2>2, <2>5, <2>7 DEF IInv
<1> QED BY <1>1, <1>2, <1>3, <1>4, <1>5, <1>6, <1>7, <1>8, <1>9, <1>10, <1>11, <1>12, Zenon DEF Next

LEMMA InvariantHolds == Spec => []IInv
<1>1. Init => IInv
  BY InitHolds
<1>2. IInv /\ [Next]_vars => IInv'
  BY NextKeeps
<1> QED BY <1>1, <1>2, PTL DEF Spec

LEMMA InvariantSuffices ==
  ASSUME IInv
  PROVE  ReaderConsistent
<1> DEFINE k == reader.nested_items
           f == reader.current_frame
           n == Len(k)
           fs == Frames(reader)
<1>1. /\ reader \in Reader /\ CacheFresh /\ buffer \in Buffers /\ lost \in BOOLEAN /\ LoopTyped
      /\ \A i \in 1..n : Bottom(i, k[i]) /\ (Definite(k[i]) => k[i].items_read < k[i].definite_length)
      /\ Bottom(n + 1, f) /\ (Definite(f) => f.items_read <= f.definite_length)
  BY Zenon DEF IInv, Sound
<1>2. k \in Seq(Frame) /\ f \in Frame /\ fs = Append(k, f)
  BY <1>1 DEF Reader, Frames
<1> HIDE DEF k, f, fs
<1>3. n \in Nat /\ Len(fs) = n + 1 /\ fs[n + 1] = f /\ \A i \in 1..n : fs[i] = k[i]
  BY <1>2
<1>4. ASSUME NEW i \in 1..Len(fs)
      PROVE  /\ Bottom(i, fs[i])
             /\ Definite(fs[i]) => IF i = Len(fs) THEN fs[i].items_read <= fs[i].definite_length
                                                  ELSE fs[i].items_read < fs[i].definite_length
  <2>1. CASE i = n + 1
    BY <1>1, <1>3, <2>1
  <2>2. CASE i # n + 1
    <3>1. i \in 1..n
      BY <1>3, <2>2
    <3> QED BY <1>1, <1>3, <2>2, <3>1
  <2> QED BY <2>1, <2>2
<1>5. TypeOK
  <2>1. skip.phase \in {"idle", "running", "done", "failed"} /\ skip.depth \in 0..SIZE_MAX
    BY <1>1 DEF LoopTyped
  <2>2. \A i \in 1..Len(Frames(reader)) :
           /\ Frames(reader)[i].type = UNDEFINED_TYPE <=> i = 1
           /\ Definite(Frames(reader)[i]) => Frames(reader)[i].type \in {ARRAY, MAP}
    BY <1>4, Zenon DEF Bottom, fs
  <2> QED BY <1>1, <2>1, <2>2, Zenon DEF TypeOK, Reader, CachedStates
<1>6. CountersFit
  BY <1>4, Zenon DEF CountersFit, fs
<1> QED BY <1>1, <1>5, <1>6 DEF ReaderConsistent

-----------------------------------------------------------------------------
(* The theorems.                                                             *)

(* Whatever is called on whatever buffer, in whatever order and with what- *)
(* ever result, the offset stays in the buffer, the root frame is the      *)
(* bottom of the stack and only there, no frame has counted more items     *)
(* than its header announced and none with another open inside is full,    *)
(* and a cached state is the one the reader would announce again.          *)
THEOREM ReaderIsConsistent == Spec => []ReaderConsistent
<1>1. IInv => ReaderConsistent
  BY InvariantSuffices
<1> QED BY <1>1, InvariantHolds, PTL

(* cardano_cbor_reader_skip_value, begun in front of an item and done, has *)
(* read exactly one item of the frame it began in: its depth counter comes *)
(* back to zero when that frame is current again, and it never wraps.      *)
THEOREM SkipIsExact == Spec => SkipExact
<1> DEFINE A == skip.phase = "running" /\ skip'.phase = "done" /\ ItemFollows(skip.from) =>
                  /\ reader'.nested_items = skip.from.nested_items
                  /\ reader'.current_frame = [skip.from.current_frame EXCEPT !.items_read = @ + 1]
                  /\ ~reader'.is_tag_context
<1>1. IInv /\ [Next]_vars => [A]_vars
  <2> SUFFICES ASSUME IInv, Next, skip.phase = "running", skip'.phase = "done", ItemFollows(skip.from)
               PROVE  /\ reader'.nested_items = skip.from.nested_items
                      /\ reader'.current_frame = [skip.from.current_frame EXCEPT !.items_read = @ + 1]
                      /\ ~reader'.is_tag_context
    BY Zenon
  <2>1. ASSUME NEW res PROVE ~Return(res)
    BY DEF Return
  <2>2. ~SkipValue
    BY DEF SkipValue
  <2>3. SkipNextNode
    BY <2>1, <2>2, Zenon DEF Next, PeekState, ReadTag, ReadBigint, ReadScalar, ReadString, ReadStartArray,
       ReadStartMap, ReadEndArray, ReadEndMap
  <2>4. OneItemRead(skip.from, reader')
    BY <2>3, SkipStep
  <2> QED BY <2>4, Zenon DEF OneItemRead, Counted
<1>2. Spec => [][A]_vars
  BY <1>1, InvariantHolds, PTL DEF Spec
<1> QED BY <1>2 DEF SkipExact

-----------------------------------------------------------------------------
(***************************************************************************)
(* The codec of transactions.  The sequences of TxCodec have elements of   *)
(* no set in particular; the first lemmas say of them what the theorems of *)
(* the library say of Seq(S).                                              *)
(***************************************************************************)

\* The instance has its own copy of the library, and sorts as the library does.
LEMMA SameOrders ==
  /\ \A S : Cardinality(S) = Cardinality(S)
  /\ \A S, R : InOrder(S, R) = InOrder(S, R)
  /\ \A S : Ascending(S) = Ascending(S)
<1>1. \A S : Cardinality(S) = Cardinality(S)
  BY Zenon DEF Cardinality, Cardinality, IsFiniteSet, IsFiniteSet
<1>2. \A S, R : InOrder(S, R) = InOrder(S, R)
  BY Zenon DEF InOrder, InOrder, Cardinality, Cardinality, IsFiniteSet, IsFiniteSet
<1>3. \A S : Ascending(S) = Ascending(S)
  BY <1>2 DEF Ascending, Ascending
<1> QED BY <1>1, <1>2, <1>3

-----------------------------------------------------------------------------
(* Sequences of whatever there is.                                         *)

LEMMA SequencesOf ==
  /\ \A s : IsSequence(s) => s \in Seq({s[i] : i \in 1 .. Len(s)})
  /\ \A S : \A s \in Seq(S) : IsSequence(s)
  BY DEF IsSequence

LEMMA TableIsSequence ==
  ASSUME NEW n \in Nat, NEW f, f = [i \in 1 .. n |-> f[i]]
  PROVE  IsSequence(f) /\ Len(f) = n
  BY DEF IsSequence

LEMMA AppendedIsSequence ==
  ASSUME NEW s, IsSequence(s), NEW x
  PROVE  /\ IsSequence(Append(s, x)) /\ Len(Append(s, x)) = Len(s) + 1 /\ Len(s) \in Nat
         /\ \A i \in 1 .. Len(s) : Append(s, x)[i] = s[i]
         /\ Append(s, x)[Len(s) + 1] = x
<1> DEFINE S == {s[i] : i \in 1 .. Len(s)} \cup {x}
<1>1. s \in Seq(S) /\ x \in S
  BY DEF IsSequence
<1> HIDE DEF S
<1>2. /\ Append(s, x) \in Seq(S) /\ Len(Append(s, x)) = Len(s) + 1 /\ Len(s) \in Nat
      /\ \A i \in 1 .. Len(s) : Append(s, x)[i] = s[i]
      /\ Append(s, x)[Len(s) + 1] = x
  BY <1>1
<1> QED BY <1>2, SequencesOf

LEMMA ReplacedIsSequence ==
  ASSUME NEW s, IsSequence(s), NEW x, NEW i \in 1 .. Len(s), NEW t, t = [s EXCEPT ![i] = x]
  PROVE  /\ IsSequence(t) /\ Len(t) = Len(s)
         /\ t[i] = x /\ \A j \in 1 .. Len(s) : j # i => t[j] = s[j]
<1> DEFINE S == {s[j] : j \in 1 .. Len(s)} \cup {x}
<1>1. s \in Seq(S) /\ x \in S
  BY DEF IsSequence
<1> HIDE DEF S
<1>2. /\ t \in Seq(S) /\ Len(t) = Len(s)
      /\ t[i] = x /\ \A j \in 1 .. Len(s) : j # i => t[j] = s[j]
  BY <1>1
<1> QED BY <1>2, SequencesOf

LEMMA JoinedIsSequence ==
  ASSUME NEW s, IsSequence(s), NEW t, IsSequence(t)
  PROVE  /\ IsSequence(s \o t) /\ Len(s \o t) = Len(s) + Len(t)
         /\ Len(s) \in Nat /\ Len(t) \in Nat
         /\ \A i \in 1 .. Len(s) : (s \o t)[i] = s[i]
         /\ \A i \in 1 .. Len(t) : (s \o t)[Len(s) + i] = t[i]
<1> DEFINE S == {s[j] : j \in 1 .. Len(s)} \cup {t[j] : j \in 1 .. Len(t)}
<1>1. s \in Seq(S) /\ t \in Seq(S)
  BY DEF IsSequence
<1> HIDE DEF S
<1>2. /\ s \o t \in Seq(S) /\ Len(s \o t) = Len(s) + Len(t)
      /\ Len(s) \in Nat /\ Len(t) \in Nat
      /\ \A i \in 1 .. Len(s) : (s \o t)[i] = s[i]
      /\ \A i \in 1 .. Len(t) : (s \o t)[Len(s) + i] = t[i]
  BY <1>1
<1> QED BY <1>2, SequencesOf

LEMMA SortedIsSequence ==
  ASSUME NEW s, IsSequence(s)
  PROVE  IsSequence(array_sort(s)) /\ Len(array_sort(s)) = Len(s)
<1> DEFINE r == array_sort(s)
<1>1. Len(s) \in Nat
  BY DEF IsSequence
<1>2. r = [i \in 1 .. Len(s) |-> r[i]]
  BY Zenon DEF array_sort
<1> HIDE DEF r
<1> QED BY <1>1, <1>2, TableIsSequence DEF r

\* Two sequences are equal that have the same elements.
LEMMA SameElements ==
  ASSUME NEW s, IsSequence(s), NEW t, IsSequence(t), Len(s) = Len(t),
         \A i \in 1 .. Len(s) : s[i] = t[i]
  PROVE  s = t
<1>1. s = [i \in 1 .. Len(s) |-> s[i]] /\ t = [i \in 1 .. Len(s) |-> t[i]]
  BY DEF IsSequence
<1>2. [i \in 1 .. Len(s) |-> s[i]] = [i \in 1 .. Len(s) |-> t[i]]
  OBVIOUS
<1> QED BY <1>1, <1>2, Zenon

-----------------------------------------------------------------------------
(* The objects.                                                            *)

IsCache(c) == c = NULL \/ IsSetBytes(c)

IsObject(k, o) ==
  /\ IsSequence(o.items)
  /\ k \in {0, 1, 4} => o = [tagged |-> o.tagged, items |-> o.items, cache |-> o.cache]
  /\ k = 5 => o = [items |-> o.items, cache |-> o.cache]
  /\ k \in {4, 5} => IsCache(o.cache)
  /\ k = 0 => EachKeyOnce(o.items)

IsField(k, f) == f = NULL \/ (f = <<f[1]>> /\ IsObject(k, f[1]))

AreWitnesses(w) ==
  /\ w = [order |-> w.order, field |-> w.field]
  /\ w.order \in Seq(FieldKeys) /\ Len(w.order) = 4
  /\ \A i, j \in 1 .. 4 : w.order[i] = w.order[j] => i = j
  /\ w.field = [k \in FieldKeys |-> w.field[k]]
  /\ \A k \in FieldKeys : IsField(k, w.field[k])

IsBody(b) == b = [cache |-> b.cache, fee |-> b.fee] /\ (b.cache = NULL \/ IsPair(b.cache))

IsAux(a) ==
  \/ a = NULL
  \/ /\ a = <<a[1]>>
     /\ a[1] = [cache |-> a[1].cache, metadata |-> a[1].metadata]
     /\ a[1].cache = NULL \/ IsPair(a[1].cache)

IsTx(t) ==
  /\ t = [body |-> t.body, wits |-> t.wits, aux |-> t.aux, is_valid |-> t.is_valid,
          frame_size |-> t.frame_size]
  /\ IsBody(t.body) /\ AreWitnesses(t.wits) /\ IsAux(t.aux)
  /\ t.is_valid \in BOOLEAN /\ t.frame_size \in {3, 4}

LEMMA BytesAreNotNull ==
  /\ \A b : IsSetBytes(b) => b # NULL
  /\ \A b : IsPair(b) => b # NULL
  /\ \A x : <<x>> # NULL
  BY DEF IsSetBytes, IsPair, NULL

LEMMA DecodedIsObject ==
  ASSUME NEW k \in FieldKeys, NEW b, IsSetBytes(b), k = 0 => EachKeyOnce(b[3])
  PROVE  /\ IsObject(k, Decoded(k, b))
         /\ Len(Decoded(k, b).items) = Len(b[3])
         /\ k \in {4, 5} => Decoded(k, b).cache = b
         /\ k \in {0, 1} => /\ Decoded(k, b).items = b[3]
                            /\ Decoded(k, b).tagged = b[1]
<1> DEFINE o == Decoded(k, b)
<1>1. IsSequence(b[3]) /\ Len(b[3]) \in Nat
  BY DEF IsSetBytes, IsSequence
<1>2. CASE k \in {0, 1}
  <2>1. o = [tagged |-> b[1], items |-> b[3], cache |-> NULL]
    BY <1>2 DEF Decoded, set_from_cbor, SetObject
  <2> HIDE DEF o
  <2>2. IsObject(k, o)
    BY <1>1, <1>2, <2>1 DEF IsObject
  <2> QED BY <1>2, <2>1, <2>2 DEF o
<1>3. CASE k = 4
  <2> DEFINE items == [i \in 1 .. Len(b[3]) |-> data_from_cbor(b[3][i])]
  <2>1. o = [tagged |-> b[1], items |-> items, cache |-> b]
    <3>1. o = [[tagged |-> b[1], items |-> items, cache |-> NULL] EXCEPT !.cache = b]
      BY <1>3 DEF Decoded, plutus_data_set_from_cbor, SetObject
    <3> HIDE DEF o, items
    <3> QED BY <3>1
  <2>2. IsSequence(items) /\ Len(items) = Len(b[3])
    <3>1. items = [i \in 1 .. Len(b[3]) |-> items[i]]
      OBVIOUS
    <3> HIDE DEF items
    <3> QED BY <1>1, <3>1, TableIsSequence
  <2> HIDE DEF o, items
  <2>3. IsObject(k, o)
    BY <1>1, <1>3, <2>1, <2>2 DEF IsObject, IsCache
  <2> QED BY <1>3, <2>1, <2>2, <2>3 DEF o
<1>4. CASE k = 5
  <2> DEFINE read == [i \in 1 .. Len(b[3]) |-> redeemer_from_cbor(b[3][i], b[1])]
  <2>1. o = [items |-> array_sort(read), cache |-> b]
    BY <1>4 DEF Decoded, redeemer_list_from_cbor
  <2>2. IsSequence(read) /\ Len(read) = Len(b[3])
    <3>1. read = [i \in 1 .. Len(b[3]) |-> read[i]]
      OBVIOUS
    <3> HIDE DEF read
    <3> QED BY <1>1, <3>1, TableIsSequence
  <2> HIDE DEF o, read
  <2>3. IsSequence(array_sort(read)) /\ Len(array_sort(read)) = Len(b[3])
    BY <2>2, SortedIsSequence
  <2>4. IsObject(k, o)
    BY <1>1, <1>4, <2>1, <2>3 DEF IsObject, IsCache
  <2> QED BY <1>4, <2>1, <2>3, <2>4 DEF o
<1> QED BY <1>2, <1>3, <1>4 DEF FieldKeys

LEMMA EncodedIsBytes ==
  ASSUME NEW k \in FieldKeys, NEW o, IsObject(k, o)
  PROVE  /\ IsSetBytes(Encoded(k, o))
         /\ k = 0 => EachKeyOnce(Encoded(k, o)[3])
         /\ k \in {0, 1} => Encoded(k, o) = <<o.tagged, FALSE, o.items>>
         /\ k \in {4, 5} => IF o.cache # NULL THEN Encoded(k, o) = o.cache
                            ELSE Len(Encoded(k, o)[3]) = Len(o.items)
<1> DEFINE b == Encoded(k, o)
<1>1. IsSequence(o.items) /\ Len(o.items) \in Nat
  BY DEF IsObject, IsSequence
<1>2. CASE k \in {0, 1}
  <2>1. b = <<o.tagged, FALSE, o.items>>
    <3>1. b = set_to_cbor(o)
      BY <1>2 DEF Encoded
    <3> QED BY <3>1 DEF set_to_cbor
  <2> HIDE DEF b
  <2>2. IsSetBytes(b)
    BY <1>1, <2>1 DEF IsSetBytes
  <2>3. b[3] = o.items
    BY <2>1
  <2>4. k = 0 => EachKeyOnce(b[3])
    BY <2>3 DEF IsObject
  <2>5. k \notin {4, 5}
    BY <1>2
  <2> QED BY <2>1, <2>2, <2>4, <2>5, Zenon DEF b
<1>3. CASE k = 4
  <2> DEFINE items == [i \in 1 .. Len(o.items) |-> data_to_cbor(o.items[i])]
  <2>1. b = IF o.cache # NULL THEN o.cache ELSE <<o.tagged, FALSE, items>>
    BY <1>3 DEF Encoded, plutus_data_set_to_cbor, OrCache
  <2>2. IsSequence(items) /\ Len(items) = Len(o.items)
    <3>1. items = [i \in 1 .. Len(o.items) |-> items[i]]
      OBVIOUS
    <3> HIDE DEF items
    <3> QED BY <1>1, <3>1, TableIsSequence
  <2> HIDE DEF b, items
  <2>3. IsSetBytes(<<o.tagged, FALSE, items>>)
    BY <2>2 DEF IsSetBytes
  <2>4. o.cache # NULL => IsSetBytes(o.cache)
    BY <1>3 DEF IsObject, IsCache
  <2>5. IF o.cache # NULL THEN b = o.cache ELSE Len(b[3]) = Len(o.items)
    BY <2>1, <2>2
  <2>6. k # 0 /\ k \notin {0, 1}
    BY <1>3
  <2>7. IsSetBytes(b)
    BY <2>1, <2>3, <2>4, Zenon
  <2> QED BY <2>5, <2>6, <2>7, Zenon DEF b
<1>4. CASE k = 5
  <2> DEFINE items == [i \in 1 .. Len(o.items) |->
                         <<o.items[i].tag, o.items[i].index, data_to_cbor(o.items[i].data), o.items[i].units>>]
  <2>1. b = IF o.cache # NULL THEN o.cache ELSE <<TRUE, FALSE, items>>
    BY <1>4 DEF Encoded, redeemer_list_to_cbor, OrCache
  <2>2. IsSequence(items) /\ Len(items) = Len(o.items)
    <3>1. items = [i \in 1 .. Len(o.items) |-> items[i]]
      OBVIOUS
    <3> HIDE DEF items
    <3> QED BY <1>1, <3>1, TableIsSequence
  <2> HIDE DEF b, items
  <2>3. IsSetBytes(<<TRUE, FALSE, items>>)
    BY <2>2 DEF IsSetBytes
  <2>4. o.cache # NULL => IsSetBytes(o.cache)
    BY <1>4 DEF IsObject, IsCache
  <2>5. IF o.cache # NULL THEN b = o.cache ELSE Len(b[3]) = Len(o.items)
    BY <2>1, <2>2
  <2>6. k # 0 /\ k \notin {0, 1}
    BY <1>4
  <2>7. IsSetBytes(b)
    BY <2>1, <2>3, <2>4, Zenon
  <2> QED BY <2>5, <2>6, <2>7, Zenon DEF b
<1> QED BY <1>2, <1>3, <1>4 DEF FieldKeys

-----------------------------------------------------------------------------
(* The witness set.                                                        *)

LEMMA FieldKeysCount == IsFiniteSet(FieldKeys) /\ Cardinality(FieldKeys) = 4
<1>1. IsFiniteSet({}) /\ Cardinality({}) = 0
  BY FS_EmptySet
<1>2. IsFiniteSet({} \cup {0}) /\ Cardinality({} \cup {0}) = 1
  BY <1>1, FS_AddElement
<1>3. IsFiniteSet({0} \cup {1}) /\ Cardinality({0} \cup {1}) = 2
  <2>1. {} \cup {0} = {0} /\ 1 \notin {0}
    OBVIOUS
  <2> QED BY <1>2, <2>1, FS_AddElement
<1>4. IsFiniteSet({0, 1} \cup {4}) /\ Cardinality({0, 1} \cup {4}) = 3
  <2>1. {0} \cup {1} = {0, 1} /\ 4 \notin {0, 1}
    OBVIOUS
  <2> QED BY <1>3, <2>1, FS_AddElement
<1>5. IsFiniteSet({0, 1, 4} \cup {5}) /\ Cardinality({0, 1, 4} \cup {5}) = 4
  <2>1. {0, 1} \cup {4} = {0, 1, 4} /\ 5 \notin {0, 1, 4}
    OBVIOUS
  <2> QED BY <1>4, <2>1, FS_AddElement
<1>6. {0, 1, 4} \cup {5} = FieldKeys
  BY DEF FieldKeys
<1> QED BY <1>5, <1>6

LEMMA CountedTo == \A n \in Nat : IsFiniteSet(1 .. n) /\ Cardinality(1 .. n) = n
  BY FS_Interval

LEMMA FourPlaces == IsFiniteSet(1 .. 4) /\ Cardinality(1 .. 4) = 4
<1>1. 4 \in Nat
  OBVIOUS
<1> QED BY <1>1, CountedTo, Zenon

\* Every field has its place in the order.
LEMMA OrderIsComplete ==
  ASSUME NEW w, AreWitnesses(w)
  PROVE  \A k \in FieldKeys : \E i \in 1 .. 4 : w.order[i] = k
<1>1. w.order \in [1 .. 4 -> FieldKeys]
  BY DEF AreWitnesses
<1>2. w.order \in Injection(1 .. 4, FieldKeys)
  BY <1>1 DEF AreWitnesses, Injection, IsInjective
<1>3. IsFiniteSet(1 .. 4) /\ Cardinality(1 .. 4) = 4
  BY FourPlaces
<1>4. w.order \in Surjection(1 .. 4, FieldKeys)
  BY <1>2, <1>3, FieldKeysCount, FS_Injection
<1> QED BY <1>4 DEF Surjection

\* The places of the fields that are written.
Present(w) == {i \in 1 .. Len(w.order) : get_length(w, w.order[i]) > 0}

LEMMA PresentIsFinite ==
  ASSUME NEW w, AreWitnesses(w)
  PROVE  /\ Present(w) \in SUBSET (1 .. 4) /\ Present(w) \in SUBSET Nat /\ IsFiniteSet(Present(w))
         /\ Cardinality(Present(w)) \in Nat
         /\ Ascending(Present(w)) \in [1 .. Cardinality(Present(w)) -> Present(w)]
<1>1. Present(w) \in SUBSET (1 .. 4) /\ Present(w) \in SUBSET Nat
  BY DEF Present, AreWitnesses
<1>2. IsFiniteSet(1 .. 4)
  BY FourPlaces
<1>3. IsFiniteSet(Present(w))
  BY <1>1, <1>2, FS_Subset
<1>4. /\ Cardinality(Present(w)) \in Nat
      /\ Ascending(Present(w)) \in [1 .. Cardinality(Present(w)) -> Present(w)]
  BY <1>1, <1>3, AscendingFacts
<1> QED BY <1>1, <1>3, <1>4

\* As many are counted as are written.
LEMMA MapSizeIsPresent ==
  ASSUME NEW w, AreWitnesses(w)
  PROVE  get_map_size(w) = Cardinality(Present(w))
<1> DEFINE P == Present(w)
           K == {k \in FieldKeys : get_length(w, k) > 0}
           f == [i \in P |-> w.order[i]]
<1>1. P \in SUBSET (1 .. 4) /\ IsFiniteSet(P)
  BY PresentIsFinite
<1>2. get_map_size(w) = Cardinality(K)
  BY SameOrders DEF get_map_size
<1>3. w.order \in [1 .. 4 -> FieldKeys] /\ Len(w.order) = 4
  BY DEF AreWitnesses
<1>4. ASSUME NEW i \in 1 .. 4 PROVE i \in P <=> w.order[i] \in K
  BY <1>3 DEF Present
<1>5. \A k \in K : \E i \in 1 .. 4 : w.order[i] = k
  BY OrderIsComplete
<1> HIDE DEF P, K
<1>6. f \in [P -> K]
  BY <1>1, <1>4
<1>7. \A i, j \in P : f[i] = f[j] => i = j
  BY <1>1 DEF AreWitnesses
<1>8. \A k \in K : \E i \in P : f[i] = k
  BY <1>1, <1>4, <1>5
<1>9. f \in Bijection(P, K)
  BY <1>6, <1>7, <1>8 DEF Bijection, Injection, Surjection, IsInjective
<1>10. Cardinality(P) = Cardinality(K)
  BY <1>1, <1>9, FS_Bijection DEF ExistsBijection
<1> QED BY <1>2, <1>10 DEF P

LEMMA WhereIs ==
  ASSUME NEW s, NEW S
  PROVE  Where(s, S) = [i \in 1 .. Cardinality(S) |-> s[Ascending(S)[i]]]
<1>1. Ascending(S) = Ascending(S) /\ Cardinality(S) = Cardinality(S)
  BY SameOrders
<1> QED BY <1>1, Zenon DEF Where

LEMMA WrittenWitnesses ==
  ASSUME NEW w, AreWitnesses(w), NEW b, b = witness_set_to_cbor(w)
  PROVE  /\ IsPair(b) /\ b[1] = Cardinality(Present(w))
         /\ IsSequence(b[2]) /\ Len(b[2]) = Cardinality(Present(w))
         /\ \A j \in 1 .. Len(b[2]) :
              b[2][j] = write_field_if_present(w, w.order[Ascending(Present(w))[j]])
<1> DEFINE P == Present(w)
           at == Ascending(P)
           n == Cardinality(P)
           present == [i \in 1 .. n |-> w.order[at[i]]]
           fields == [i \in 1 .. Len(present) |-> write_field_if_present(w, present[i])]
<1>1. n \in Nat
  BY PresentIsFinite
<1>2. Where(w.order, P) = present
  BY WhereIs
<1>3. b = <<get_map_size(w), fields>>
  BY <1>2, Zenon DEF witness_set_to_cbor, Present
<1>4. Len(present) = n /\ \A i \in 1 .. n : present[i] = w.order[at[i]]
  BY <1>1
<1> HIDE DEF present, n, at, P
<1>5. fields = [i \in 1 .. n |-> fields[i]] /\ \A i \in 1 .. n : fields[i] = write_field_if_present(w, present[i])
  BY <1>4
<1> HIDE DEF fields
<1>6. IsSequence(fields) /\ Len(fields) = n
  BY <1>1, <1>5, TableIsSequence
<1>7. get_map_size(w) = n
  BY MapSizeIsPresent DEF n, P
<1>8. b[1] = n /\ b[2] = fields /\ IsPair(b)
  BY <1>3, <1>7 DEF IsPair
<1>9. \A j \in 1 .. n : fields[j] = write_field_if_present(w, w.order[at[j]])
  BY <1>4, <1>5
<1> QED BY <1>6, <1>8, <1>9 DEF n, P, at

\* The choice of one position among those of a key, where there is at most one.
LEMMA ReadField ==
  ASSUME NEW fields, NEW i \in 1 .. Len(fields),
         \A x, y \in 1 .. Len(fields) : fields[x][1] = fields[y][1] => x = y
  PROVE  LET at == {x \in 1 .. Len(fields) : fields[x][1] = fields[i][1]}
         IN  at # {} /\ (CHOOSE x \in at : TRUE) = i
<1> DEFINE at == {x \in 1 .. Len(fields) : fields[x][1] = fields[i][1]}
<1>1. at = {i}
  OBVIOUS
<1> HIDE DEF at
<1>2. at # {} /\ (CHOOSE x \in at : TRUE) = i
  BY <1>1
<1> QED BY <1>2 DEF at

\* The object of a field is what was decoded from its bytes.
IsRead(w, fields, i) ==
  /\ fields[i][1] \in FieldKeys /\ w.order[i] = fields[i][1]
  /\ w.field[fields[i][1]] = <<Decoded(fields[i][1], fields[i][2])>>

HasKey(fields, k) == \E i \in 1 .. Len(fields) : fields[i][1] = k

EachFieldOnce(fields) == \A x, y \in 1 .. Len(fields) : fields[x][1] = fields[y][1] => x = y

OthersAreNull(w, fields) == \A k \in FieldKeys : ~HasKey(fields, k) => w.field[k] = NULL

LEMMA ReadWitnesses ==
  ASSUME NEW b, NEW fields, NEW n, NEW w, fields = b[2], n = Len(fields),
         IsSequence(fields), \A i \in 1 .. n : IsFieldBytes(fields[i]),
         FieldsDecodable(b), w = witness_set_from_cbor(b)
  PROVE  /\ AreWitnesses(w) /\ n \in 0 .. 4
         /\ \A i \in 1 .. n : IsRead(w, fields, i)
         /\ OthersAreNull(w, fields)
<1> DEFINE at(k) == {i \in 1 .. Len(fields) : fields[i][1] = k}
           seen == [i \in 1 .. Len(fields) |-> fields[i][1]]
           U == {k \in FieldKeys : at(k) = {}}
           V == FieldKeys \ U
           one(k) == CHOOSE i \in at(k) : TRUE
           read(k) == IF at(k) = {} THEN NULL ELSE <<Decoded(k, fields[one(k)][2])>>
           of(f) == LET here(k) == {i \in 1 .. Len(f) : f[i][1] = k}
                    IN  [order |-> [i \in 1 .. Len(f) |-> f[i][1]]
                                     \o Ascending({k \in FieldKeys : here(k) = {}}),
                         field |-> [k \in FieldKeys |->
                                      IF here(k) = {} THEN NULL
                                      ELSE <<Decoded(k, f[CHOOSE i \in here(k) : TRUE][2])>>]]
<1>1. w = [order |-> seen \o Ascending(U), field |-> [k \in FieldKeys |-> read(k)]]
  <2>1. w = of(b[2])
    BY Zenon DEF witness_set_from_cbor
  <2> HIDE DEF of
  <2>2. w = of(fields)
    BY <2>1
  <2> QED BY <2>2, Zenon DEF of
<1>2. /\ n \in Nat
      /\ \A i \in 1 .. n : fields[i][1] \in FieldKeys
      /\ \A i, j \in 1 .. n : fields[i][1] = fields[j][1] => i = j
  BY DEF FieldsDecodable, IsSequence
<1>3. Ascending(U) = Ascending(U)
  BY SameOrders
<1>4. /\ U \in SUBSET FieldKeys
      /\ \A i \in 1 .. n : fields[i][1] \in V
      /\ \A k \in V : \E i \in 1 .. n : fields[i][1] = k
  BY <1>2
<1>5. \A k \in FieldKeys : (\A i \in 1 .. n : fields[i][1] # k) => read(k) = NULL
  OBVIOUS
<1>a. ASSUME NEW i \in 1 .. n PROVE at(fields[i][1]) # {} /\ one(fields[i][1]) = i
  BY <1>2, ReadField
<1>b. \A k : read(k) = IF at(k) = {} THEN NULL ELSE <<Decoded(k, fields[one(k)][2])>>
  BY Zenon
<1> HIDE DEF at, one, read
<1>6. ASSUME NEW i \in 1 .. n PROVE read(fields[i][1]) = <<Decoded(fields[i][1], fields[i][2])>>
  BY <1>a, <1>b
<1>7. w.field = [k \in FieldKeys |-> read(k)] /\ w.order = seen \o Ascending(U)
  <2> DEFINE o == seen \o Ascending(U)
             f == [k \in FieldKeys |-> read(k)]
  <2>1. w = [order |-> o, field |-> f]
    BY <1>1, <1>3
  <2> HIDE DEF o, f
  <2>2. w.field = f /\ w.order = o
    BY <2>1
  <2> QED BY <2>2 DEF o, f
<1>8. ASSUME NEW k \in FieldKeys PROVE IsField(k, read(k))
  <2>1. CASE \A i \in 1 .. n : fields[i][1] # k
    <3>1. read(k) = NULL
      BY <1>5, <2>1
    <3> QED BY <3>1 DEF IsField
  <2>2. CASE \E i \in 1 .. n : fields[i][1] = k
    <3>1. PICK i \in 1 .. n : fields[i][1] = k
      BY <2>2
    <3>2. read(k) = <<Decoded(k, fields[i][2])>>
      BY <1>6, <3>1
    <3>3. IsSetBytes(fields[i][2]) /\ (k = 0 => EachKeyOnce(fields[i][2][3]))
      <4>1. IsFieldBytes(fields[i])
        OBVIOUS
      <4> QED BY <3>1, <4>1 DEF IsFieldBytes
    <3>4. IsObject(k, Decoded(k, fields[i][2]))
      BY <3>3, DecodedIsObject
    <3> QED BY <3>2, <3>4 DEF IsField
  <2> QED BY <2>1, <2>2
<1>9. seen \in [1 .. n -> V] /\ \A i \in 1 .. n : seen[i] = fields[i][1]
  BY <1>4
<1> HIDE DEF seen, U, V, of
<1>10. IsFiniteSet(U) /\ IsFiniteSet(V) /\ Cardinality(V) = 4 - Cardinality(U) /\ Cardinality(U) \in Nat
  <2>1. IsFiniteSet(U)
    BY <1>4, FieldKeysCount, FS_Subset
  <2>2. FieldKeys \cap U = U
    BY <1>4
  <2>3. IsFiniteSet(V) /\ Cardinality(V) = Cardinality(FieldKeys) - Cardinality(U)
    <3>1. /\ IsFiniteSet(FieldKeys \ U)
          /\ Cardinality(FieldKeys \ U) =
               Cardinality(FieldKeys) - Cardinality(FieldKeys \cap U)
      BY FieldKeysCount, FS_Difference
    <3> QED BY <2>2, <3>1 DEF V
  <2>4. Cardinality(U) \in Nat
    BY <2>1, FS_CardinalityType
  <2> QED BY <2>1, <2>3, <2>4, FieldKeysCount
<1>11. Cardinality(V) = n
  <2>1. seen \in Bijection(1 .. n, V)
    BY <1>2, <1>4, <1>9 DEF Bijection, Injection, Surjection, IsInjective
  <2>2. IsFiniteSet(1 .. n) /\ Cardinality(1 .. n) = n
    BY <1>2, CountedTo
  <2> QED BY <2>1, <2>2, FS_Bijection DEF ExistsBijection
<1>12. n \in 0 .. 4 /\ Cardinality(U) = 4 - n
  <2>1. n \in Nat
    BY <1>2
  <2>2. n = 4 - Cardinality(U) /\ Cardinality(U) \in Nat
    BY <1>10, <1>11
  <2> QED BY <2>1, <2>2
<1>13. /\ Ascending(U) \in [1 .. Cardinality(U) -> U]
       /\ \A i, j \in 1 .. Cardinality(U) : i < j => Ascending(U)[i] < Ascending(U)[j]
  <2>1. U \in SUBSET Nat
    BY <1>4 DEF FieldKeys
  <2> QED BY <1>10, <2>1, AscendingFacts
<1>14. IsSequence(seen) /\ Len(seen) = n
  <2>1. seen = [i \in 1 .. n |-> seen[i]]
    BY <1>9
  <2> QED BY <1>2, <2>1, TableIsSequence
<1>15. IsSequence(Ascending(U)) /\ Len(Ascending(U)) = 4 - n
  <2>1. Ascending(U) = [i \in 1 .. Cardinality(U) |-> Ascending(U)[i]]
    BY <1>13
  <2> QED BY <1>10, <1>12, <2>1, TableIsSequence
<1>16. /\ IsSequence(w.order) /\ Len(w.order) = 4
       /\ \A i \in 1 .. n : w.order[i] = fields[i][1]
       /\ \A i \in 1 .. 4 - n : w.order[n + i] = Ascending(U)[i]
  <2> DEFINE s == seen
             t == Ascending(U)
  <2>0. IsSequence(s) /\ IsSequence(t)
    BY <1>14, <1>15
  <2> HIDE DEF s, t
  <2>1. /\ IsSequence(s \o t) /\ Len(s \o t) = Len(s) + Len(t)
        /\ \A i \in 1 .. Len(s) : (s \o t)[i] = s[i]
        /\ \A i \in 1 .. Len(t) : (s \o t)[Len(s) + i] = t[i]
    BY <2>0, JoinedIsSequence
  <2>2. Len(s) = n /\ Len(t) = 4 - n /\ w.order = s \o t
    BY <1>7, <1>14, <1>15 DEF s, t
  <2>3. Len(w.order) = 4 /\ IsSequence(w.order)
    BY <1>12, <2>1, <2>2
  <2>4. \A i \in 1 .. n : w.order[i] = s[i]
    BY <2>1, <2>2
  <2>5. \A i \in 1 .. 4 - n : w.order[n + i] = t[i]
    BY <2>1, <2>2
  <2> QED BY <1>9, <2>3, <2>4, <2>5 DEF s, t
<1>17. \A i \in 1 .. 4 : i <= n => w.order[i] = fields[i][1] /\ w.order[i] \in V
  BY <1>4, <1>12, <1>16
<1>18. /\ \A i \in 1 .. 4 : i > n => /\ w.order[i] = Ascending(U)[i - n]
                                   /\ w.order[i] \in U /\ i - n \in 1 .. Cardinality(U)
       /\ \A i, j \in 1 .. 4 : w.order[i] = w.order[j] => i = j
  <2>1. ASSUME NEW i \in 1 .. 4, i > n
        PROVE  w.order[i] = Ascending(U)[i - n] /\ w.order[i] \in U /\ i - n \in 1 .. Cardinality(U)
    <3>1. i - n \in 1 .. 4 - n /\ n + (i - n) = i
      BY <1>12, <2>1
    <3>2. w.order[i] = Ascending(U)[i - n]
      BY <1>16, <3>1
    <3>3. i - n \in 1 .. Cardinality(U)
      BY <1>12, <3>1
    <3> QED BY <1>13, <3>2, <3>3
  <2> SUFFICES ASSUME NEW i \in 1 .. 4, NEW j \in 1 .. 4, w.order[i] = w.order[j] PROVE i = j
    BY <2>1
  <2>2. U \cap V = {}
    BY DEF V
  <2>3. CASE i <= n /\ j <= n
    <3>1. i \in 1 .. n /\ j \in 1 .. n
      BY <1>12, <2>3
    <3>2. fields[i][1] = fields[j][1]
      BY <1>17, <2>3, Zenon
    <3> QED BY <1>2, <3>1, <3>2
  <2>4. CASE i > n /\ j > n
    <3> DEFINE x == i - n
               y == j - n
    <3>1. Ascending(U)[x] = Ascending(U)[y] /\ x \in 1 .. Cardinality(U) /\ y \in 1 .. Cardinality(U)
      BY <2>1, <2>4
    <3>2. x \in Int /\ y \in Int /\ (x = y => i = j)
      BY <1>12
    <3> HIDE DEF x, y
    <3>3. Ascending(U)[x] \in Nat /\ Ascending(U)[y] \in Nat
      <4>1. Ascending(U)[x] \in U /\ Ascending(U)[y] \in U
        BY <1>13, <3>1
      <4> QED BY <1>4, <4>1 DEF FieldKeys
    <3>4. ~(x < y) /\ ~(y < x)
      BY <1>13, <3>1, <3>3
    <3> QED BY <3>2, <3>4
  <2>5. CASE (i <= n /\ j > n) \/ (i > n /\ j <= n)
    BY <1>17, <2>1, <2>2, <2>5
  <2> QED BY <1>12, <2>3, <2>4, <2>5
<1>19. w.order \in Seq(FieldKeys)
  <2>1. \A i \in 1 .. 4 : w.order[i] \in FieldKeys
    BY <1>4, <1>12, <1>17, <1>18 DEF V
  <2>2. w.order = [i \in 1 .. 4 |-> w.order[i]]
    BY <1>16 DEF IsSequence
  <2> QED BY <2>1, <2>2
<1>20. AreWitnesses(w)
  <2>1. w = [order |-> w.order, field |-> w.field]
    <3> DEFINE o == seen \o Ascending(U)
               f == [k \in FieldKeys |-> read(k)]
    <3> HIDE DEF o, f
    <3>1. w = [order |-> o, field |-> f]
      BY <1>1, Zenon DEF o, f
    <3> QED BY <3>1
  <2>2. w.field = [k \in FieldKeys |-> w.field[k]] /\ \A k \in FieldKeys : w.field[k] = read(k)
    BY <1>7
  <2>3. \A k \in FieldKeys : IsField(k, w.field[k])
    BY <1>8, <2>2
  <2> QED BY <1>16, <1>18, <1>19, <2>1, <2>2, <2>3 DEF AreWitnesses
<1>21. \A k \in FieldKeys : w.field[k] = read(k)
  BY <1>7
<1>22. \A i \in 1 .. n : IsRead(w, fields, i)
  BY <1>2, <1>6, <1>16, <1>21 DEF IsRead
<1>23. OthersAreNull(w, fields)
  BY <1>5, <1>21 DEF HasKey, OthersAreNull
<1> QED BY <1>12, <1>20, <1>22, <1>23

-----------------------------------------------------------------------------
(* Signatures.                                                             *)

KeysOf(s) == {s[i][1] : i \in 1 .. Len(s)}

\* The last witness of a key.
IsLast(s, key, i) ==
  i \in 1 .. Len(s) /\ s[i][1] = key /\ \A j \in 1 .. Len(s) : s[j][1] = key => j <= i

LEMMA HasLast ==
  ASSUME NEW s, IsSequence(s), NEW key \in KeysOf(s)
  PROVE  \E i : IsLast(s, key, i)
<1> DEFINE n == Len(s)
           T == {m \in 0 .. n : s[n - m][1] = key /\ n - m >= 1}
<1>1. n \in Nat
  BY DEF IsSequence
<1>2. PICK i \in 1 .. n : s[i][1] = key
  BY DEF KeysOf
<1> HIDE DEF n
<1>3. T \in SUBSET Nat /\ n - i \in T
  BY <1>1, <1>2
<1>4. PICK m \in T : \A y \in T : m <= y
  BY <1>3, LeastNatural
<1>5. n - m \in 1 .. n /\ s[n - m][1] = key
  BY <1>1, <1>4
<1>6. ASSUME NEW j \in 1 .. n, s[j][1] = key PROVE j <= n - m
  <2>1. n - j \in 0 .. n /\ n - (n - j) = j
    BY <1>1
  <2>2. n - j \in T
    BY <1>1, <1>6, <2>1
  <2>3. m <= n - j
    BY <1>4, <2>2
  <2>4. m \in Int
    BY <1>4
  <2> QED BY <1>1, <2>3, <2>4
<1>7. IsLast(s, key, n - m)
  BY <1>5, <1>6 DEF IsLast, n
<1> QED BY <1>7

LEMMA SignedAt ==
  ASSUME NEW s, IsSequence(s)
  PROVE  /\ Signed(s) = [key \in KeysOf(s) |-> Signed(s)[key]]
         /\ \A key, i : IsLast(s, key, i) => key \in KeysOf(s) /\ Signed(s)[key] = s[i][2]
<1> DEFINE of(key) == {i \in 1 .. Len(s) : s[i][1] = key}
           last(key) == CHOOSE i \in of(key) : \A j \in of(key) : j <= i
<1>1. Signed(s) = [key \in KeysOf(s) |-> s[last(key)][2]]
  BY Zenon DEF Signed, KeysOf
<1>2. ASSUME NEW key, NEW i, IsLast(s, key, i) PROVE key \in KeysOf(s) /\ last(key) = i
  <2>1. key \in KeysOf(s)
    BY <1>2 DEF IsLast, KeysOf
  <2>2. i \in of(key) /\ \A j \in of(key) : j <= i
    BY <1>2 DEF IsLast
  <2>3. \A j \in of(key) : j \in Int
    OBVIOUS
  <2> DEFINE P(x) == \A j \in of(key) : j <= x
  <2>4. last(key) \in of(key) /\ P(last(key))
    <3>1. \E x \in of(key) : P(x)
      BY <2>2
    <3>2. last(key) = CHOOSE x \in of(key) : P(x)
      OBVIOUS
    <3> HIDE DEF P, last, of
    <3> QED BY <3>1, <3>2
  <2> HIDE DEF last, of
  <2>5. last(key) = i
    BY <2>2, <2>3, <2>4
  <2> QED BY <2>1, <2>5 DEF last, of
<1> HIDE DEF last
<1>3. \A key \in KeysOf(s) : Signed(s)[key] = s[last(key)][2]
  BY <1>1
<1>4. Signed(s) = [key \in KeysOf(s) |-> Signed(s)[key]]
  BY <1>1
<1> QED BY <1>2, <1>3, <1>4

\* One more witness, over what is signed already.
Over(f, witness) ==
  [key \in DOMAIN f \cup {witness[1]} |-> IF key = witness[1] THEN witness[2] ELSE f[key]]

LEMMA SignedOver ==
  ASSUME NEW s, IsSequence(s), NEW t, IsSequence(t), NEW witness,
         KeysOf(t) = KeysOf(s) \cup {witness[1]},
         \A i : IsLast(t, witness[1], i) => t[i][2] = witness[2],
         \A key, i : key # witness[1] /\ IsLast(s, key, i) => \E j : IsLast(t, key, j) /\ t[j][2] = s[i][2]
  PROVE  Signed(t) = Over(Signed(s), witness)
<1> DEFINE f == Signed(s)
           g == Signed(t)
<1>1. /\ f = [key \in KeysOf(s) |-> f[key]]
      /\ \A key, i : IsLast(s, key, i) => f[key] = s[i][2]
      /\ g = [key \in KeysOf(t) |-> g[key]]
      /\ \A key, i : IsLast(t, key, i) => g[key] = t[i][2]
  BY SignedAt
<1> HIDE DEF f, g
<1>2. DOMAIN f \cup {witness[1]} = KeysOf(t)
  BY <1>1
<1>3. ASSUME NEW key \in KeysOf(t)
      PROVE  g[key] = IF key = witness[1] THEN witness[2] ELSE f[key]
  <2>1. CASE key = witness[1]
    <3>1. PICK i : IsLast(t, key, i)
      BY HasLast
    <3>2. t[i][2] = witness[2] /\ g[key] = t[i][2]
      BY <1>1, <2>1, <3>1, Zenon
    <3> QED BY <2>1, <3>2
  <2>2. CASE key # witness[1]
    <3>1. key \in KeysOf(s)
      BY <2>2
    <3>2. PICK i : IsLast(s, key, i)
      BY <3>1, HasLast
    <3>3. PICK j : IsLast(t, key, j) /\ t[j][2] = s[i][2]
      BY <2>2, <3>2
    <3>4. g[key] = t[j][2] /\ f[key] = s[i][2]
      BY <1>1, <3>2, <3>3, Zenon
    <3> QED BY <2>2, <3>3, <3>4
  <2> QED BY <2>1, <2>2
<1>4. Over(f, witness) = [key \in KeysOf(t) |-> IF key = witness[1] THEN witness[2] ELSE f[key]]
  BY <1>2 DEF Over
<1> QED BY <1>1, <1>3, <1>4 DEF f, g

LEMMA SignedAppended ==
  ASSUME NEW s, IsSequence(s), NEW witness
  PROVE  Signed(Append(s, witness)) = Over(Signed(s), witness)
<1> DEFINE t == Append(s, witness)
           n == Len(s)
<1>1. /\ IsSequence(t) /\ Len(t) = n + 1 /\ n \in Nat
      /\ \A i \in 1 .. n : t[i] = s[i]
      /\ t[n + 1] = witness
  BY AppendedIsSequence
<1> HIDE DEF t, n
<1>2. KeysOf(t) = KeysOf(s) \cup {witness[1]}
  <2>1. KeysOf(t) \subseteq KeysOf(s) \cup {witness[1]}
    BY <1>1 DEF KeysOf, n
  <2>2. ASSUME NEW i \in 1 .. n PROVE s[i][1] \in KeysOf(t)
    BY <1>1 DEF KeysOf
  <2>3. witness[1] \in KeysOf(t)
    BY <1>1 DEF KeysOf
  <2>4. KeysOf(s) \subseteq KeysOf(t)
    BY <2>2 DEF KeysOf, n
  <2> QED BY <2>1, <2>3, <2>4
<1>3. \A i : IsLast(t, witness[1], i) => t[i][2] = witness[2]
  <2> SUFFICES ASSUME NEW i, IsLast(t, witness[1], i) PROVE i = n + 1
    BY <1>1
  <2>1. n + 1 <= i /\ i \in 1 .. n + 1
    BY <1>1 DEF IsLast
  <2> QED BY <1>1, <2>1
<1>4. \A key, i : key # witness[1] /\ IsLast(s, key, i) => IsLast(t, key, i) /\ t[i][2] = s[i][2]
  <2> SUFFICES ASSUME NEW key, NEW i, key # witness[1], IsLast(s, key, i)
               PROVE  IsLast(t, key, i) /\ t[i][2] = s[i][2]
    OBVIOUS
  <2>1. i \in 1 .. n /\ s[i][1] = key /\ \A j \in 1 .. n : s[j][1] = key => j <= i
    BY DEF IsLast, n
  <2>2. \A j \in 1 .. n + 1 : t[j][1] = key => j <= i
    BY <1>1, <2>1
  <2> QED BY <1>1, <2>1, <2>2 DEF IsLast
<1>5. Signed(t) = Over(Signed(s), witness)
  BY <1>1, <1>2, <1>3, <1>4, SignedOver
<1> QED BY <1>5 DEF t

LEMMA SignedReplaced ==
  ASSUME NEW s, IsSequence(s), EachKeyOnce(s), NEW witness,
         NEW x \in 1 .. Len(s), s[x][1] = witness[1]
  PROVE  /\ EachKeyOnce([s EXCEPT ![x] = witness])
         /\ Signed([s EXCEPT ![x] = witness]) = Over(Signed(s), witness)
<1> DEFINE t == [s EXCEPT ![x] = witness]
           n == Len(s)
<1>1. /\ IsSequence(t) /\ Len(t) = n
      /\ \A i \in 1 .. n : t[i] = IF i = x THEN witness ELSE s[i]
  <2>1. t = [s EXCEPT ![x] = witness]
    OBVIOUS
  <2> HIDE DEF t
  <2>2. IsSequence(t) /\ Len(t) = Len(s)
    BY <2>1, ReplacedIsSequence, Zenon
  <2>3. t[x] = witness /\ \A i \in 1 .. Len(s) : i # x => t[i] = s[i]
    <3>1. DOMAIN s = 1 .. Len(s)
      BY DEF IsSequence
    <3> QED BY <2>1, <3>1
  <2> QED BY <2>2, <2>3
<1>2. n \in Nat /\ x \in 1 .. n
  BY DEF IsSequence
<1>3. \A i, j \in 1 .. n : s[i][1] = s[j][1] => i = j
  BY DEF EachKeyOnce
<1> HIDE DEF t, n
<1>4. \A i \in 1 .. n : t[i][1] = s[i][1]
  BY <1>1
<1>5. EachKeyOnce(t)
  BY <1>1, <1>3, <1>4 DEF EachKeyOnce
<1>6. KeysOf(t) = KeysOf(s)
  <2>1. KeysOf(t) = {t[i][1] : i \in 1 .. n} /\ KeysOf(s) = {s[i][1] : i \in 1 .. n}
    BY <1>1 DEF KeysOf, n
  <2> QED BY <1>4, <2>1
<1>7. witness[1] \in KeysOf(s)
  BY DEF KeysOf
<1>8. \A i : IsLast(t, witness[1], i) => t[i][2] = witness[2]
  <2> SUFFICES ASSUME NEW i, IsLast(t, witness[1], i) PROVE i = x
    BY <1>1, <1>2
  <2>1. i \in 1 .. n /\ t[i][1] = witness[1]
    BY <1>1 DEF IsLast
  <2> QED BY <1>2, <1>3, <1>4, <2>1
<1>9. \A key, i : key # witness[1] /\ IsLast(s, key, i) => IsLast(t, key, i) /\ t[i][2] = s[i][2]
  <2> SUFFICES ASSUME NEW key, NEW i, key # witness[1], IsLast(s, key, i)
               PROVE  IsLast(t, key, i) /\ t[i][2] = s[i][2]
    OBVIOUS
  <2>1. i \in 1 .. n /\ s[i][1] = key /\ \A j \in 1 .. n : s[j][1] = key => j <= i
    BY DEF IsLast, n
  <2>2. t[i] = s[i]
    BY <1>1, <2>1
  <2>3. \A j \in 1 .. n : t[j][1] = key => j <= i
    BY <1>4, <2>1
  <2> QED BY <1>1, <2>1, <2>2, <2>3 DEF IsLast
<1>10. KeysOf(t) = KeysOf(s) \cup {witness[1]}
  BY <1>6, <1>7
<1>11. Signed(t) = Over(Signed(s), witness)
  BY <1>1, <1>8, <1>9, <1>10, SignedOver
<1> QED BY <1>5, <1>11 DEF t

LEMMA AddedWitness ==
  ASSUME NEW set, IsObject(0, set), NEW witness, NEW more, more = vkey_witness_set_add(set, witness)
  PROVE  /\ IsObject(0, more)
         /\ Signed(more.items) = Over(Signed(set.items), witness)
<1> DEFINE items == set.items
           known == {i \in 1 .. Len(items) : items[i][1] = witness[1]}
           first == CHOOSE i \in known : \A j \in known : i <= j
<1>1. /\ IsSequence(items) /\ EachKeyOnce(items)
      /\ set = [tagged |-> set.tagged, items |-> items, cache |-> set.cache]
  BY DEF IsObject
<1>2. more = IF known = {} THEN [set EXCEPT !.items = Append(@, witness)]
             ELSE [set EXCEPT !.items[first] = witness]
  BY DEF vkey_witness_set_add
<1>3. CASE known = {}
  <2> DEFINE t == Append(items, witness)
  <2>1. more = [set EXCEPT !.items = t]
    BY <1>2, <1>3
  <2>2. /\ IsSequence(t) /\ Len(t) = Len(items) + 1 /\ Len(items) \in Nat
        /\ \A i \in 1 .. Len(items) : t[i] = items[i]
        /\ t[Len(items) + 1] = witness
    BY <1>1, AppendedIsSequence
  <2>3. Signed(t) = Over(Signed(items), witness)
    BY <1>1, SignedAppended
  <2>4. \A i \in 1 .. Len(items) : items[i][1] # witness[1]
    BY <1>3
  <2> HIDE DEF t, items, known
  <2>5. EachKeyOnce(t)
    BY <1>1, <2>2, <2>4 DEF EachKeyOnce
  <2>6. more = [tagged |-> set.tagged, items |-> t, cache |-> set.cache]
    BY <1>1, <2>1
  <2>7. IsObject(0, more) /\ more.items = t
    BY <2>2, <2>5, <2>6 DEF IsObject
  <2> QED BY <2>3, <2>7 DEF items
<1>4. CASE known # {}
  <2>1. first \in 1 .. Len(items) /\ items[first][1] = witness[1]
    <3> DEFINE P(i) == \A j \in known : i <= j
    <3>1. known \in SUBSET Nat
      OBVIOUS
    <3>2. \E i \in known : P(i)
      BY <1>4, <3>1, LeastNatural
    <3>3. first = CHOOSE i \in known : P(i)
      OBVIOUS
    <3> HIDE DEF P, first
    <3>4. first \in known
      BY <3>2, <3>3
    <3> QED BY <3>4
  <2> HIDE DEF first
  <2> DEFINE t == [items EXCEPT ![first] = witness]
  <2>2. more = [set EXCEPT !.items = t]
    BY <1>2, <1>4
  <2>3. EachKeyOnce(t) /\ Signed(t) = Over(Signed(items), witness)
    <3> HIDE DEF items, known
    <3> QED BY <1>1, <2>1, SignedReplaced, Zenon
  <2>4. t = [items EXCEPT ![first] = witness]
    OBVIOUS
  <2> HIDE DEF t, items, known
  <2>5. IsSequence(t)
    BY <1>1, <2>1, <2>4, ReplacedIsSequence, Zenon
  <2>6. more = [tagged |-> set.tagged, items |-> t, cache |-> set.cache]
    BY <1>1, <2>2
  <2>7. IsObject(0, more) /\ more.items = t
    BY <2>3, <2>5, <2>6 DEF IsObject
  <2> QED BY <2>3, <2>7 DEF items
<1> QED BY <1>3, <1>4

\* The function that applies the first witnesses is well defined.
ApplyStep(set, new, g, n) == IF n = 0 THEN set ELSE vkey_witness_set_add(g[n - 1], new[n])

LEMMA AppliedExists ==
  ASSUME NEW set, NEW new, IsSequence(new)
  PROVE  \E g : g = [n \in 0 .. Len(new) |-> ApplyStep(set, new, g, n)]
<1> DEFINE step(g, n) == IF n = 0 THEN set ELSE vkey_witness_set_add(g[n - 1], new[n])
           Good(m) == \E g : g = [n \in 0 .. m |-> step(g, n)]
           G == {m \in Nat : Good(m)}
<1>1. Good(0)
  <2> DEFINE g == [n \in 0 .. 0 |-> set]
  <2>1. \A n \in 0 .. 0 : n = 0
    OBVIOUS
  <2>2. g = [n \in 0 .. 0 |-> step(g, n)]
    BY <2>1
  <2> HIDE DEF g, step
  <2> QED BY <2>2
<1>2. ASSUME NEW m \in Nat, Good(m) PROVE Good(m + 1)
  <2>1. PICK g : g = [n \in 0 .. m |-> step(g, n)]
    BY <1>2
  <2> DEFINE h == [n \in 0 .. m + 1 |-> IF n = m + 1 THEN vkey_witness_set_add(g[m], new[m + 1]) ELSE g[n]]
  <2>2. ASSUME NEW n \in 0 .. m + 1 PROVE h[n] = step(h, n)
    <3>1. CASE n = m + 1
      <4>1. n # 0 /\ n - 1 = m /\ h[m] = g[m]
        BY <3>1
      <4>2. h[n] = vkey_witness_set_add(g[m], new[m + 1])
        BY <3>1
      <4> HIDE DEF h
      <4> QED BY <3>1, <4>1, <4>2
    <3>2. CASE n # m + 1
      <4>1. n \in 0 .. m /\ h[n] = g[n]
        BY <3>2
      <4>2. g[n] = step(g, n)
        BY <2>1, <4>1
      <4>3. n # 0 => n - 1 \in 0 .. m /\ h[n - 1] = g[n - 1]
        BY <4>1
      <4> HIDE DEF h
      <4> QED BY <4>1, <4>2, <4>3
    <3> QED BY <3>1, <3>2
  <2>3. h = [n \in 0 .. m + 1 |-> h[n]]
    OBVIOUS
  <2> HIDE DEF h, step
  <2>4. h = [n \in 0 .. m + 1 |-> step(h, n)]
    BY <2>2, <2>3
  <2> QED BY <2>4
<1> HIDE DEF Good
<1>3. 0 \in G /\ \A m \in Nat : m \in G => m + 1 \in G
  BY <1>1, <1>2
<1> HIDE DEF G
<1>4. Nat \subseteq G
  BY <1>3, Induction
<1>5. Len(new) \in Nat
  BY DEF IsSequence
<1>6. Good(Len(new))
  BY <1>4, <1>5 DEF G
<1> QED BY <1>6, Zenon DEF Good, ApplyStep

LEMMA AppliedWitnesses ==
  ASSUME NEW set, IsObject(0, set), NEW new, IsSequence(new), NEW s, IsSequence(s),
         Signed(s) = Signed(set.items),
         NEW more, more = vkey_witness_set_apply(set, new)
  PROVE  IsObject(0, more) /\ Signed(more.items) = Signed(s \o new)
<1> DEFINE applied == CHOOSE g : g = [n \in 0 .. Len(new) |->
                         IF n = 0 THEN set ELSE vkey_witness_set_add(g[n - 1], new[n])]
           k == Len(new)
           front(n) == [i \in 1 .. n |-> new[i]]
           G == {n \in Nat : n <= k => /\ IsObject(0, applied[n])
                                       /\ Signed(applied[n].items) = Signed(s \o front(n))}
<1>1. applied = [n \in 0 .. Len(new) |->
                   IF n = 0 THEN set ELSE vkey_witness_set_add(applied[n - 1], new[n])]
  <2>1. PICK g : g = [n \in 0 .. Len(new) |-> ApplyStep(set, new, g, n)]
    BY AppliedExists
  <2> QED BY <2>1, Zenon DEF ApplyStep
<1>2. more = applied[k]
  BY Zenon DEF vkey_witness_set_apply
<1>3. k \in Nat /\ new = front(k)
  BY DEF IsSequence
<1> HIDE DEF applied, k
<1>4. applied[0] = set /\ \A n \in 1 .. k : applied[n] = vkey_witness_set_add(applied[n - 1], new[n])
  <2>1. \A n \in 0 .. k : applied[n] = IF n = 0 THEN set ELSE vkey_witness_set_add(applied[n - 1], new[n])
    BY <1>1 DEF k
  <2>2. 0 \in 0 .. k /\ \A n \in 1 .. k : n \in 0 .. k /\ n # 0
    BY <1>3
  <2> QED BY <2>1, <2>2
<1>5. \A n \in Nat : IsSequence(front(n)) /\ Len(front(n)) = n
  <2> SUFFICES ASSUME NEW n \in Nat PROVE IsSequence(front(n)) /\ Len(front(n)) = n
    OBVIOUS
  <2> DEFINE f == front(n)
  <2>1. f = [i \in 1 .. n |-> f[i]]
    OBVIOUS
  <2> HIDE DEF f
  <2>2. IsSequence(f) /\ Len(f) = n
    BY <2>1, TableIsSequence
  <2> QED BY <2>2 DEF f
<1>6. \A n \in Nat : \A i \in 1 .. n : front(n)[i] = new[i]
  OBVIOUS
<1> HIDE DEF front
<1>7. 0 \in G
  <2>1. s \o front(0) = s
    <3> DEFINE t == front(0)
    <3>1. IsSequence(t) /\ Len(t) = 0
      BY <1>5
    <3> HIDE DEF t
    <3>2. /\ IsSequence(s \o t) /\ Len(s \o t) = Len(s) + Len(t) /\ Len(s) \in Nat
          /\ \A i \in 1 .. Len(s) : (s \o t)[i] = s[i]
      BY <3>1, JoinedIsSequence
    <3>3. Len(s \o t) = Len(s)
      BY <3>1, <3>2
    <3>4. s \o t = s
      BY <3>2, <3>3, SameElements, Zenon
    <3> QED BY <3>4 DEF t
  <2> QED BY <1>4, <2>1
<1>8. ASSUME NEW n \in Nat, n \in G PROVE n + 1 \in G
  <2> SUFFICES ASSUME n + 1 <= k
               PROVE  /\ IsObject(0, applied[n + 1])
                      /\ Signed(applied[n + 1].items) = Signed(s \o front(n + 1))
    OBVIOUS
  <2> DEFINE t == front(n)
             u == front(n + 1)
             w == new[n + 1]
             set1 == applied[n]
  <2>1. IsObject(0, set1) /\ Signed(set1.items) = Signed(s \o t)
    BY <1>3, <1>8
  <2>2. applied[n + 1] = vkey_witness_set_add(set1, w)
    <3>1. n + 1 \in 1 .. k /\ (n + 1) - 1 = n
      BY <1>3
    <3> QED BY <1>4, <3>1
  <2>3. /\ IsSequence(t) /\ Len(t) = n /\ IsSequence(u) /\ Len(u) = n + 1
        /\ (\A i \in 1 .. n : t[i] = new[i]) /\ (\A i \in 1 .. n + 1 : u[i] = new[i])
    BY <1>5, <1>6
  <2> HIDE DEF t, u, w, set1
  <2>4. s \o u = Append(s \o t, w)
    <3>1. /\ IsSequence(s \o t) /\ Len(s \o t) = Len(s) + n /\ Len(s) \in Nat
          /\ \A i \in 1 .. Len(s) : (s \o t)[i] = s[i]
          /\ \A i \in 1 .. n : (s \o t)[Len(s) + i] = t[i]
      <4>0. IsSequence(s) /\ IsSequence(t)
        BY <2>3
      <4>1. /\ IsSequence(s \o t) /\ Len(s \o t) = Len(s) + Len(t) /\ Len(s) \in Nat
            /\ \A i \in 1 .. Len(s) : (s \o t)[i] = s[i]
            /\ \A i \in 1 .. Len(t) : (s \o t)[Len(s) + i] = t[i]
        BY <4>0, JoinedIsSequence
      <4> QED BY <2>3, <4>1
    <3>2. /\ IsSequence(s \o u) /\ Len(s \o u) = Len(s) + (n + 1)
          /\ \A i \in 1 .. Len(s) : (s \o u)[i] = s[i]
          /\ \A i \in 1 .. n + 1 : (s \o u)[Len(s) + i] = u[i]
      <4>0. IsSequence(s) /\ IsSequence(u)
        BY <2>3
      <4>1. /\ IsSequence(s \o u) /\ Len(s \o u) = Len(s) + Len(u)
            /\ \A i \in 1 .. Len(s) : (s \o u)[i] = s[i]
            /\ \A i \in 1 .. Len(u) : (s \o u)[Len(s) + i] = u[i]
        BY <4>0, JoinedIsSequence
      <4> QED BY <2>3, <4>1
    <3> DEFINE a == s \o t
               b == s \o u
               c == Append(a, w)
    <3>0. IsSequence(a)
      BY <3>1
    <3> HIDE DEF a, b
    <3>3. /\ IsSequence(c) /\ Len(c) = Len(a) + 1
          /\ \A i \in 1 .. Len(a) : c[i] = a[i]
          /\ c[Len(a) + 1] = w
      BY <3>0, AppendedIsSequence
    <3> HIDE DEF c
    <3>4. IsSequence(b) /\ Len(b) = Len(c)
      BY <3>1, <3>2, <3>3 DEF a, b
    <3>5. ASSUME NEW i \in 1 .. Len(b) PROVE b[i] = c[i]
      <4>1. Len(b) = Len(s) + (n + 1) /\ Len(a) = Len(s) + n /\ Len(s) \in Nat
        BY <3>1, <3>2 DEF a, b
      <4>2. CASE i \in 1 .. Len(s)
        BY <3>1, <3>2, <3>3, <4>1, <4>2 DEF a, b
      <4>3. CASE i \in Len(s) + 1 .. Len(s) + n
        <5>1. i - Len(s) \in 1 .. n /\ i - Len(s) \in 1 .. n + 1 /\ i = Len(s) + (i - Len(s))
          BY <4>1, <4>3
        <5>2. a[i] = t[i - Len(s)] /\ b[i] = u[i - Len(s)]
          BY <3>1, <3>2, <5>1 DEF a, b
        <5>3. c[i] = a[i]
          BY <3>3, <4>1, <4>3
        <5> QED BY <2>3, <5>1, <5>2, <5>3
      <4>4. CASE i = Len(s) + (n + 1)
        <5>1. n + 1 \in 1 .. n + 1 /\ i = Len(a) + 1
          BY <4>1, <4>4
        <5>2. b[i] = u[n + 1]
          BY <3>2, <4>4, <5>1 DEF b
        <5> QED BY <2>3, <3>3, <5>1, <5>2 DEF w
      <4> QED BY <4>1, <4>2, <4>3, <4>4
    <3>6. b = c
      BY <3>3, <3>4, <3>5, SameElements
    <3> QED BY <3>6 DEF a, b, c
  <2>5. IsSequence(s \o t)
    BY <2>3, JoinedIsSequence
  <2>6. Signed(s \o u) = Over(Signed(s \o t), w)
    BY <2>4, <2>5, SignedAppended
  <2>7. /\ IsObject(0, applied[n + 1])
        /\ Signed(applied[n + 1].items) = Over(Signed(set1.items), w)
    BY <2>1, <2>2, AddedWitness
  <2> QED BY <2>1, <2>6, <2>7 DEF u
<1> HIDE DEF G
<1>9. Nat \subseteq G
  BY <1>7, <1>8, Induction
<1>10. /\ IsObject(0, applied[k])
       /\ Signed(applied[k].items) = Signed(s \o front(k))
  BY <1>3, <1>9 DEF G
<1> QED BY <1>2, <1>3, <1>10

-----------------------------------------------------------------------------
(* The transaction.                                                        *)

\* A field that is written.
IsWritten(w, k, o, f) ==
  /\ w.field[k] # NULL /\ w.field[k] = <<o>>
  /\ IsObject(k, o) /\ Len(o.items) \in Nat \ {0} /\ get_length(w, k) = Len(o.items)
  /\ f[1] = k /\ f[2] = Encoded(k, o) /\ IsFieldBytes(f)

LEMMA WrittenField ==
  ASSUME NEW w, AreWitnesses(w), NEW i \in Present(w), NEW k, k = w.order[i], NEW o, o = w.field[k][1],
         NEW f, f = write_field_if_present(w, k)
  PROVE  k \in FieldKeys /\ IsWritten(w, k, o, f)
<1>1. i \in 1 .. 4 /\ get_length(w, k) > 0
  BY PresentIsFinite DEF Present
<1>2. k \in FieldKeys
  BY <1>1 DEF AreWitnesses
<1>3. IsField(k, w.field[k])
  BY <1>2 DEF AreWitnesses
<1>4. w.field[k] # NULL
  <2>1. w.field[k] = NULL => get_length(w, k) = 0
    BY DEF get_length
  <2> QED BY <1>1, <2>1
<1>5. w.field[k] = <<o>> /\ IsObject(k, o)
  BY <1>3, <1>4 DEF IsField
<1>6. get_length(w, k) = Len(o.items)
  BY <1>4 DEF get_length
<1>7. Len(o.items) \in Nat \ {0}
  <2>1. Len(o.items) \in Nat
    <3>1. IsSequence(o.items)
      BY <1>5, Zenon DEF IsObject
    <3> QED BY <3>1, Zenon DEF IsSequence
  <2> QED BY <1>1, <1>6, <2>1
<1>8. f = <<k, Encoded(k, o)>>
  BY DEF write_field_if_present
<1>9. IsFieldBytes(f)
  <2>1. /\ IsSetBytes(Encoded(k, o))
        /\ k = 0 => EachKeyOnce(Encoded(k, o)[3])
    BY <1>2, <1>5, EncodedIsBytes
  <2> DEFINE e == Encoded(k, o)
  <2> HIDE DEF e
  <2>2. f = <<k, e>> /\ f[1] = k /\ f[2] = e
    BY <1>8 DEF e
  <2> QED BY <2>1, <2>2 DEF IsFieldBytes, e
<1> QED BY <1>2, <1>4, <1>5, <1>6, <1>7, <1>8, <1>9 DEF IsWritten

LEMMA WrittenIsDecodable ==
  ASSUME NEW w, AreWitnesses(w), NEW b, b = witness_set_to_cbor(w)
  PROVE  FieldsDecodable(b) /\ \A j \in 1 .. Len(b[2]) : IsFieldBytes(b[2][j])
<1> DEFINE P == Present(w)
           at == Ascending(P)
           n == Len(b[2])
           fields == b[2]
<1>1. /\ b[1] = n /\ n = Cardinality(P)
      /\ \A j \in 1 .. n : fields[j] = write_field_if_present(w, w.order[at[j]])
  BY WrittenWitnesses
<1>2. P \in SUBSET Nat /\ P \in SUBSET (1 .. 4) /\ n \in Nat /\ at \in [1 .. n -> P]
  BY <1>1, PresentIsFinite
<1>3. \A i, j \in 1 .. n : i < j => at[i] < at[j]
  BY <1>1, PresentIsFinite, AscendingFacts
<1> HIDE DEF P, at, n, fields
<1>4. ASSUME NEW j \in 1 .. n
      PROVE  /\ at[j] \in 1 .. 4 /\ fields[j][1] = w.order[at[j]]
             /\ fields[j][1] \in FieldKeys /\ IsFieldBytes(fields[j])
  <2> DEFINE k == w.order[at[j]]
             o == w.field[k][1]
             f == fields[j]
  <2>1. at[j] \in Present(w)
    BY <1>2 DEF P
  <2>2. f = write_field_if_present(w, k)
    BY <1>1
  <2>3. k \in FieldKeys /\ f[1] = k /\ IsFieldBytes(f)
    <3>1. k = w.order[at[j]] /\ o = w.field[k][1]
      OBVIOUS
    <3> HIDE DEF k, o, f
    <3>2. k \in FieldKeys /\ IsWritten(w, k, o, f)
      BY <2>1, <2>2, <3>1, WrittenField
    <3> QED BY <3>2 DEF IsWritten
  <2> QED BY <1>2, <2>3
<1>5. ASSUME NEW i \in 1 .. n, NEW j \in 1 .. n, fields[i][1] = fields[j][1] PROVE i = j
  <2>1. w.order[at[i]] = w.order[at[j]] /\ at[i] \in 1 .. 4 /\ at[j] \in 1 .. 4
    BY <1>4, <1>5
  <2>2. at[i] = at[j]
    BY <2>1 DEF AreWitnesses
  <2>3. ~(i < j) /\ ~(j < i)
    BY <1>3, <2>1, <2>2
  <2> QED BY <1>2, <2>3
<1>6. FieldsDecodable(b)
  <2>1. fields = b[2] /\ Len(b[2]) = n
    BY DEF fields, n
  <2> QED BY <1>1, <1>4, <1>5, <2>1 DEF FieldsDecodable
<1> QED BY <1>4, <1>6 DEF fields, n

LEMMA WrittenIsTransaction ==
  ASSUME NEW t, IsTx(t), NEW b, b = transaction_to_cbor(t)
  PROVE  /\ IsTransaction(b) /\ FieldsDecodable(b[3])
         /\ b[1] = (IF t.is_valid THEN t.frame_size ELSE 4)
         /\ b[2] = body_to_cbor(t.body)
         /\ b[3] = witness_set_to_cbor(t.wits)
         /\ b[4] = (IF b[1] = 4 THEN <<t.is_valid>> ELSE <<>>)
         /\ b[5] = aux_to_cbor(t.aux)
<1> DEFINE frame == IF t.is_valid THEN t.frame_size ELSE 4
           body == body_to_cbor(t.body)
           wits == witness_set_to_cbor(t.wits)
           valid == IF frame = 4 THEN <<t.is_valid>> ELSE <<>>
           aux == aux_to_cbor(t.aux)
<1>1. b = <<frame, body, wits, valid, aux>>
  BY DEF transaction_to_cbor
<1>2. <<frame, valid>> \in {<<3, <<>>>>, <<4, <<TRUE>>>>, <<4, <<FALSE>>>>}
  <2>1. t.is_valid \in BOOLEAN /\ t.frame_size \in {3, 4}
    BY DEF IsTx
  <2>2. CASE t.is_valid /\ t.frame_size = 3
    <3>1. frame = 3 /\ valid = <<>>
      BY <2>2
    <3> QED BY <3>1
  <2>3. CASE t.is_valid /\ t.frame_size = 4
    <3>1. frame = 4 /\ valid = <<TRUE>>
      BY <2>3
    <3> QED BY <3>1
  <2>4. CASE ~t.is_valid
    <3>1. t.is_valid = FALSE
      BY <2>1, <2>4
    <3>2. frame = 4 /\ valid = <<FALSE>>
      BY <3>1
    <3> QED BY <3>2
  <2> QED BY <2>1, <2>2, <2>3, <2>4
<1>3. IsPair(body)
  <2>1. t.body.cache = NULL \/ IsPair(t.body.cache)
    BY DEF IsTx, IsBody
  <2>2. IsPair(<<TRUE, t.body.fee>>)
    BY DEF IsPair
  <2> QED BY <2>1, <2>2, Zenon DEF body_to_cbor, OrCache
<1>4. aux = NULL \/ IsPair(aux)
  <2>1. t.aux # NULL => t.aux[1].cache = NULL \/ IsPair(t.aux[1].cache)
    BY DEF IsTx, IsAux
  <2>2. IsPair(<<"tagged", t.aux[1].metadata>>)
    BY DEF IsPair
  <2> QED BY <2>1, <2>2, Zenon DEF aux_to_cbor, OrCache
<1>5. AreWitnesses(t.wits)
  BY DEF IsTx
<1>6. /\ IsPair(wits) /\ IsSequence(wits[2]) /\ FieldsDecodable(wits)
      /\ \A j \in 1 .. Len(wits[2]) : IsFieldBytes(wits[2][j])
  BY <1>5, WrittenWitnesses, WrittenIsDecodable
<1> HIDE DEF body, wits, aux
<1>7. /\ b[1] = frame /\ b[2] = body /\ b[3] = wits /\ b[4] = valid /\ b[5] = aux
      /\ b = <<b[1], b[2], b[3], b[4], b[5]>>
  <2> HIDE DEF frame, valid
  <2> QED BY <1>1
<1> HIDE DEF valid
<1>8. IsTransaction(b)
  <2>1. b[1] = frame
    BY <1>7
  <2> HIDE DEF frame
  <2>2. <<b[1], b[4]>> \in {<<3, <<>>>>, <<4, <<TRUE>>>>, <<4, <<FALSE>>>>}
    BY <1>2, <1>7 DEF frame
  <2> QED BY <1>3, <1>4, <1>6, <1>7, <2>2, Zenon DEF IsTransaction
<1>9. b[4] = (IF b[1] = 4 THEN <<t.is_valid>> ELSE <<>>)
  BY <1>7 DEF valid
<1> QED BY <1>6, <1>7, <1>8, <1>9, Zenon DEF frame, body, wits, aux

\* All but the witnesses is what was decoded from these bytes.
IsFromBytes(t, b) ==
  /\ t.body = [cache |-> b[2], fee |-> b[2][2]]
  /\ t.aux = (IF b[5] = NULL THEN NULL ELSE <<[cache |-> b[5], metadata |-> b[5][2]]>>)
  /\ t.is_valid = (b[4] = <<>> \/ b[4] = <<TRUE>>)
  /\ t.frame_size = b[1]

LEMMA ReadIsTx ==
  ASSUME NEW b, IsTransaction(b), FieldsDecodable(b[3]), NEW t, t = transaction_from_cbor(b)
  PROVE  IsTx(t) /\ IsFromBytes(t, b) /\ t.wits = witness_set_from_cbor(b[3])
<1> DEFINE body == [cache |-> b[2], fee |-> b[2][2]]
           wits == witness_set_from_cbor(b[3])
           aux == IF b[5] = NULL THEN NULL ELSE <<[cache |-> b[5], metadata |-> b[5][2]]>>
           valid == b[4] = <<>> \/ b[4] = <<TRUE>>
<1>1. t = [body |-> body, wits |-> wits, aux |-> aux, is_valid |-> valid, frame_size |-> b[1]]
  <2> DEFINE n == transaction_new(body, wits, aux)
  <2>1. n = [body |-> body, wits |-> wits, aux |-> aux, is_valid |-> TRUE, frame_size |-> 4]
    BY Zenon DEF transaction_new
  <2>2. t = [n EXCEPT !.is_valid = valid, !.frame_size = b[1]]
    BY Zenon DEF transaction_from_cbor
  <2> HIDE DEF n, body, wits, aux, valid
  <2> QED BY <2>1, <2>2
<1>2. IsBody(body)
  <2>1. IsPair(b[2])
    BY DEF IsTransaction
  <2> HIDE DEF body
  <2>2. body = [cache |-> b[2], fee |-> b[2][2]]
    BY DEF body
  <2> QED BY <2>1, <2>2 DEF IsBody
<1>3. IsAux(aux)
  <2>1. b[5] = NULL \/ IsPair(b[5])
    BY DEF IsTransaction
  <2>2. CASE b[5] = NULL
    BY <2>2 DEF IsAux
  <2>3. CASE b[5] # NULL
    <3> DEFINE r == [cache |-> b[5], metadata |-> b[5][2]]
    <3>1. aux = <<r>> /\ r.cache = b[5] /\ r = [cache |-> r.cache, metadata |-> r.metadata]
      BY <2>3
    <3> HIDE DEF r, aux
    <3>2. aux[1] = r
      BY <3>1
    <3> QED BY <2>1, <2>3, <3>1, <3>2 DEF IsAux
  <2> QED BY <2>2, <2>3
<1>4. AreWitnesses(wits)
  <2> DEFINE fields == b[3][2]
             n == Len(fields)
  <2>1. IsSequence(fields) /\ \A i \in 1 .. n : IsFieldBytes(fields[i])
    BY Zenon DEF IsTransaction
  <2>2. fields = b[3][2] /\ n = Len(fields) /\ wits = witness_set_from_cbor(b[3])
    OBVIOUS
  <2> HIDE DEF fields, n, wits
  <2> QED BY <2>1, <2>2, ReadWitnesses
<1>5. valid \in BOOLEAN
  OBVIOUS
<1>6. b[1] \in {3, 4}
  <2>1. <<b[1], b[4]>> \in {<<3, <<>>>>, <<4, <<TRUE>>>>, <<4, <<FALSE>>>>}
    BY Zenon DEF IsTransaction
  <2> DEFINE x == b[1]
             y == b[4]
  <2>2. <<x, y>> \in {<<3, <<>>>>, <<4, <<TRUE>>>>, <<4, <<FALSE>>>>}
    BY <2>1
  <2> HIDE DEF x, y
  <2>3. x \in {3, 4}
    BY <2>2
  <2> QED BY <2>3 DEF x
<1> HIDE DEF body, wits, aux, valid
<1>7. /\ t.body = body /\ t.wits = wits /\ t.aux = aux /\ t.is_valid = valid /\ t.frame_size = b[1]
      /\ t = [body |-> t.body, wits |-> t.wits, aux |-> t.aux, is_valid |-> t.is_valid,
              frame_size |-> t.frame_size]
  BY <1>1
<1>8. IsTx(t)
  BY <1>2, <1>3, <1>4, <1>5, <1>6, <1>7 DEF IsTx
<1> QED BY <1>7, <1>8 DEF body, wits, aux, valid, IsFromBytes

-----------------------------------------------------------------------------
(* What was written is written again.                                      *)

LEMMA NotEmpty ==
  ASSUME NEW s, IsSequence(s)
  PROVE  (s # <<>> <=> Len(s) > 0) /\ Len(s) \in Nat
<1>1. Len(s) \in Nat /\ s = [i \in 1 .. Len(s) |-> s[i]]
  BY DEF IsSequence
<1>2. Len(s) = 0 => s = <<>>
  <2> SUFFICES ASSUME Len(s) = 0 PROVE s = <<>>
    OBVIOUS
  <2>1. 1 .. Len(s) = {}
    OBVIOUS
  <2> QED BY <1>1, <2>1
<1>3. s = <<>> => Len(s) = 0
  OBVIOUS
<1> QED BY <1>1, <1>2, <1>3

LEMMA Third == \A x, y, z, b : b = <<x, y, z>> => b[1] = x /\ b[3] = z
  OBVIOUS

\* Added to, though its bytes are still those of an empty set.
EmptyCache(k, o) == k \in {4, 5} /\ o.cache # NULL /\ o.cache[3] = <<>>

LEMMA RewrittenField ==
  ASSUME NEW k \in FieldKeys, NEW o, IsObject(k, o), Len(o.items) > 0, ~EmptyCache(k, o),
         NEW b, b = Encoded(k, o), NEW d, d = Decoded(k, b)
  PROVE  /\ IsObject(k, d) /\ Len(d.items) > 0 /\ Encoded(k, d) = b
         /\ b[3] # <<>>
<1>1. /\ IsSetBytes(b) /\ (k = 0 => EachKeyOnce(b[3]))
      /\ k \in {0, 1} => b = <<o.tagged, FALSE, o.items>>
      /\ k \in {4, 5} => IF o.cache # NULL THEN b = o.cache ELSE Len(b[3]) = Len(o.items)
  BY EncodedIsBytes
<1>2. /\ IsObject(k, d) /\ Len(d.items) = Len(b[3])
      /\ k \in {4, 5} => d.cache = b
      /\ k \in {0, 1} => d.items = b[3] /\ d.tagged = b[1]
  BY <1>1, DecodedIsObject
<1>3. k \in {0, 1} \/ k \in {4, 5}
  BY DEF FieldKeys
<1>4. IsSequence(b[3]) /\ b # NULL
  BY <1>1, BytesAreNotNull DEF IsSetBytes
<1>5. Len(b[3]) > 0
  <2>1. CASE k \in {0, 1}
    <3>1. b = <<o.tagged, FALSE, o.items>>
      BY <1>1, <2>1, Zenon
    <3>2. b[3] = o.items
      BY <3>1, Third
    <3> QED BY <3>2
  <2>2. CASE k \in {4, 5} /\ o.cache # NULL
    <3>1. b = o.cache /\ o.cache[3] # <<>>
      BY <1>1, <2>2 DEF EmptyCache
    <3> QED BY <1>4, <3>1, NotEmpty
  <2>3. CASE k \in {4, 5} /\ o.cache = NULL
    BY <1>1, <2>3
  <2> QED BY <1>3, <2>1, <2>2, <2>3
<1>6. /\ k \in {0, 1} => Encoded(k, d) = <<d.tagged, FALSE, d.items>>
      /\ k \in {4, 5} => (d.cache # NULL => Encoded(k, d) = d.cache)
  BY <1>2, EncodedIsBytes
<1>7. Encoded(k, d) = b
  <2>1. CASE k \in {0, 1}
    <3>0. b = <<o.tagged, FALSE, o.items>>
      BY <1>1, <2>1, Zenon
    <3>1. b = <<o.tagged, FALSE, o.items>> /\ b[1] = o.tagged /\ b[3] = o.items
      BY <3>0, Third
    <3> QED BY <1>2, <1>6, <2>1, <3>1
  <2>2. CASE k \in {4, 5}
    BY <1>2, <1>4, <1>6, <2>2, Zenon
  <2> QED BY <1>3, <2>1, <2>2
<1>8. b[3] # <<>>
  BY <1>4, <1>5, NotEmpty
<1> QED BY <1>2, <1>5, <1>7, <1>8

LEMMA AscendingToThere ==
  ASSUME NEW p \in Nat
  PROVE  IsFiniteSet(1 .. p) /\ Cardinality(1 .. p) = p /\ \A i \in 1 .. p : Ascending(1 .. p)[i] = i
<1> DEFINE h == [i \in 1 .. p |-> i]
           S == 1 .. p
<1>1. /\ S \in SUBSET Nat /\ h \in [1 .. p -> S]
      /\ \A x \in S : \E i \in 1 .. p : h[i] = x
      /\ \A i, j \in 1 .. p : i < j => h[i] < h[j]
      /\ \A i \in 1 .. p : h[i] = i
  OBVIOUS
<1> HIDE DEF h, S
<1>2. IsFiniteSet(S) /\ Cardinality(S) = p /\ Ascending(S) = h
  BY <1>1, AscendingIsUnique
<1> QED BY <1>1, <1>2 DEF S

LEMMA RewrittenWitnesses ==
  ASSUME NEW w, AreWitnesses(w),
         \A k \in {4, 5} : get_length(w, k) > 0 => ~EmptyCache(k, w.field[k][1]),
         NEW b, b = witness_set_to_cbor(w), NEW v, v = witness_set_from_cbor(b)
  PROVE  witness_set_to_cbor(v) = b
<1> DEFINE at == Ascending(Present(w))
           fields == b[2]
           p == Len(fields)
           c == witness_set_to_cbor(v)
<1>1. /\ IsPair(b) /\ b[1] = p /\ IsSequence(fields) /\ p = Cardinality(Present(w))
      /\ \A j \in 1 .. p : fields[j] = write_field_if_present(w, w.order[at[j]])
  BY WrittenWitnesses
<1>2. p \in Nat /\ at \in [1 .. p -> Present(w)]
  BY <1>1, PresentIsFinite
<1>3. FieldsDecodable(b) /\ \A j \in 1 .. p : IsFieldBytes(fields[j])
  BY WrittenIsDecodable
<1>4. fields = b[2] /\ p = Len(fields)
  OBVIOUS
<1> HIDE DEF fields, p, at
<1>5. /\ AreWitnesses(v) /\ p \in 0 .. 4
      /\ \A i \in 1 .. p : IsRead(v, fields, i)
      /\ OthersAreNull(v, fields)
  <2>1. IsSequence(fields)
    BY <1>1
  <2> QED BY <1>3, <1>4, <2>1, ReadWitnesses
<1>6. ASSUME NEW i \in 1 .. p
      PROVE  /\ get_length(v, v.order[i]) > 0
             /\ write_field_if_present(v, v.order[i]) = fields[i]
  <2> DEFINE k == w.order[at[i]]
             o == w.field[k][1]
             f == fields[i]
             d == Decoded(k, f[2])
  <2>1. at[i] \in Present(w) /\ f = write_field_if_present(w, k)
    BY <1>1, <1>2
  <2>2. k = w.order[at[i]] /\ o = w.field[k][1]
    OBVIOUS
  <2>3. v.order[i] = f[1] /\ v.field[f[1]] = <<Decoded(f[1], f[2])>>
    BY <1>5 DEF IsRead
  <2>4. d = Decoded(k, f[2])
    OBVIOUS
  <2> HIDE DEF k, o, f, d
  <2>5. /\ k \in FieldKeys /\ w.field[k] = <<o>> /\ IsObject(k, o)
        /\ Len(o.items) \in Nat \ {0} /\ get_length(w, k) = Len(o.items)
        /\ f[1] = k /\ f[2] = Encoded(k, o) /\ IsFieldBytes(f)
    <3>1. k \in FieldKeys /\ IsWritten(w, k, o, f)
      BY <2>1, <2>2, WrittenField
    <3> QED BY <3>1 DEF IsWritten
  <2>6. Len(o.items) > 0 /\ ~EmptyCache(k, o)
    <3>1. Len(o.items) > 0
      BY <2>5
    <3>2. k \in {4, 5} => ~EmptyCache(k, o)
      BY <2>2, <2>5, <3>1
    <3> QED BY <3>1, <3>2 DEF EmptyCache
  <2>7. IsObject(k, d) /\ Len(d.items) > 0 /\ Encoded(k, d) = f[2]
    BY <2>4, <2>5, <2>6, RewrittenField
  <2>8. v.order[i] = k /\ v.field[k] = <<d>>
    BY <2>3, <2>4, <2>5
  <2>9. v.field[k] # NULL /\ v.field[k][1] = d
    BY <2>8, BytesAreNotNull
  <2>10. get_length(v, k) > 0
    BY <2>7, <2>9 DEF get_length
  <2>11. f = <<k, f[2]>>
    BY <2>5 DEF IsFieldBytes
  <2>12. write_field_if_present(v, k) = f
    BY <2>7, <2>9, <2>11 DEF write_field_if_present
  <2> QED BY <2>8, <2>10, <2>12 DEF f
<1>7. Len(v.order) = 4 /\ \A i, j \in 1 .. 4 : v.order[i] = v.order[j] => i = j
  BY <1>5 DEF AreWitnesses
<1>8. ASSUME NEW i \in 1 .. 4, i > p PROVE ~(get_length(v, v.order[i]) > 0)
  <2>1. v.order[i] \in FieldKeys
    BY <1>5 DEF AreWitnesses
  <2>2. ASSUME NEW j \in 1 .. p PROVE fields[j][1] # v.order[i]
    <3>1. j \in 1 .. 4 /\ j # i /\ v.order[j] = fields[j][1]
      BY <1>5, <1>8 DEF IsRead
    <3> QED BY <1>7, <3>1
  <2>3. v.field[v.order[i]] = NULL
    BY <1>4, <1>5, <2>1, <2>2 DEF HasKey, OthersAreNull
  <2>4. get_length(v, v.order[i]) = 0
    BY <2>3 DEF get_length
  <2> QED BY <2>4
<1>9. Present(v) = 1 .. p
  <2>1. Present(v) = {i \in 1 .. 4 : get_length(v, v.order[i]) > 0}
    BY <1>7 DEF Present
  <2>2. ASSUME NEW i \in 1 .. 4 PROVE (get_length(v, v.order[i]) > 0) <=> i \in 1 .. p
    BY <1>5, <1>6, <1>8
  <2>3. 1 .. p \subseteq 1 .. 4
    BY <1>5
  <2> DEFINE here(i) == get_length(v, v.order[i]) > 0
  <2> HIDE DEF here
  <2>4. Present(v) = {i \in 1 .. 4 : here(i)} /\ \A i \in 1 .. 4 : here(i) <=> i \in 1 .. p
    BY <2>1, <2>2, Zenon DEF here
  <2> QED BY <2>3, <2>4
<1>10. Cardinality(1 .. p) = p /\ \A i \in 1 .. p : Ascending(1 .. p)[i] = i
  BY <1>2, AscendingToThere
<1>11. /\ IsPair(c) /\ c[1] = p /\ IsSequence(c[2]) /\ Len(c[2]) = p
       /\ \A j \in 1 .. p : c[2][j] = write_field_if_present(v, v.order[j])
  <2>1. /\ IsPair(c) /\ c[1] = Cardinality(Present(v))
        /\ IsSequence(c[2]) /\ Len(c[2]) = Cardinality(Present(v))
        /\ \A j \in 1 .. Len(c[2]) :
             c[2][j] = write_field_if_present(v, v.order[Ascending(Present(v))[j]])
    BY <1>5, WrittenWitnesses
  <2> HIDE DEF c
  <2> QED BY <1>9, <1>10, <2>1
<1> HIDE DEF c
<1>12. \A j \in 1 .. p : c[2][j] = fields[j]
  BY <1>6, <1>11
<1>13. c[2] = fields
  BY <1>1, <1>4, <1>11, <1>12, SameElements
<1>14. c = b
  BY <1>1, <1>4, <1>11, <1>13 DEF IsPair
<1> QED BY <1>14 DEF c

\* The body and the auxiliary data are written from their caches.
LEMMA RewrittenCached ==
  ASSUME NEW b, IsTransaction(b), NEW u, u.body = [cache |-> b[2], fee |-> b[2][2]],
         u.aux = (IF b[5] = NULL THEN NULL ELSE <<[cache |-> b[5], metadata |-> b[5][2]]>>)
  PROVE  body_to_cbor(u.body) = b[2] /\ aux_to_cbor(u.aux) = b[5]
<1>1. b[2] # NULL
  <2>1. IsPair(b[2])
    BY Zenon DEF IsTransaction
  <2> QED BY <2>1, BytesAreNotNull
<1>2. u.body.cache = b[2]
  OBVIOUS
<1>3. body_to_cbor(u.body) = b[2]
  BY <1>1, <1>2, Zenon DEF body_to_cbor, OrCache
<1>4. CASE b[5] = NULL
  <2>1. u.aux = NULL
    BY <1>4
  <2> QED BY <1>3, <1>4, <2>1, Zenon DEF aux_to_cbor
<1>5. CASE b[5] # NULL
  <2> DEFINE r == [cache |-> b[5], metadata |-> b[5][2]]
  <2>1. u.aux = <<r>> /\ r.cache = b[5]
    BY <1>5
  <2> HIDE DEF r
  <2>2. u.aux # NULL /\ u.aux[1] = r
    BY <2>1, BytesAreNotNull
  <2>3. aux_to_cbor(u.aux) = b[5]
    BY <1>5, <2>1, <2>2, Zenon DEF aux_to_cbor, OrCache
  <2> QED BY <1>3, <2>3
<1> QED BY <1>4, <1>5

\* All but the witnesses is written as it was received.
LEMMA SentAsReceived ==
  ASSUME NEW b, IsTransaction(b), NEW u, IsTx(u), IsFromBytes(u, b),
         NEW c, c = transaction_to_cbor(u)
  PROVE  c[1] = b[1] /\ c[2] = b[2] /\ c[4] = b[4] /\ c[5] = b[5]
<1>1. /\ u.body = [cache |-> b[2], fee |-> b[2][2]]
      /\ u.aux = (IF b[5] = NULL THEN NULL ELSE <<[cache |-> b[5], metadata |-> b[5][2]]>>)
      /\ u.is_valid = (b[4] = <<>> \/ b[4] = <<TRUE>>)
      /\ u.frame_size = b[1]
  BY Zenon DEF IsFromBytes
<1>2. /\ c[1] = (IF u.is_valid THEN u.frame_size ELSE 4)
      /\ c[2] = body_to_cbor(u.body)
      /\ c[4] = (IF c[1] = 4 THEN <<u.is_valid>> ELSE <<>>)
      /\ c[5] = aux_to_cbor(u.aux)
  BY WrittenIsTransaction
<1>3. c[2] = b[2] /\ c[5] = b[5]
  BY <1>1, <1>2, RewrittenCached
<1>4. c[1] = b[1] /\ c[4] = b[4]
  <2> DEFINE x == b[1]
             y == b[4]
             v == u.is_valid
             f == c[1]
             g == c[4]
  <2>1. <<x, y>> \in {<<3, <<>>>>, <<4, <<TRUE>>>>, <<4, <<FALSE>>>>}
    BY Zenon DEF IsTransaction
  <2>2. v \in BOOLEAN /\ (v <=> y = <<>> \/ y = <<TRUE>>)
    BY <1>1
  <2>3. f = (IF v THEN x ELSE 4) /\ g = (IF f = 4 THEN <<v>> ELSE <<>>)
    BY <1>1, <1>2
  <2> HIDE DEF x, y, v, f, g
  <2>4. f = x /\ g = y
    <3>1. (x = 3 /\ y = <<>>) \/ (x = 4 /\ y = <<TRUE>>) \/ (x = 4 /\ y = <<FALSE>>)
      BY <2>1
    <3>2. CASE x = 3 /\ y = <<>>
      <4>1. v = TRUE /\ f = 3
        BY <2>2, <2>3, <3>2
      <4>2. g = <<>>
        BY <2>3, <4>1
      <4> QED BY <3>2, <4>1, <4>2
    <3>3. CASE x = 4 /\ y = <<TRUE>>
      <4>1. v = TRUE /\ f = 4
        BY <2>2, <2>3, <3>3
      <4>2. g = <<TRUE>>
        BY <2>3, <4>1
      <4> QED BY <3>3, <4>1, <4>2
    <3>4. CASE x = 4 /\ y = <<FALSE>>
      <4>1. y # <<>> /\ y # <<TRUE>>
        BY <3>4
      <4>2. v = FALSE /\ f = 4
        BY <2>2, <2>3, <3>4, <4>1
      <4>3. g = <<FALSE>>
        BY <2>3, <4>2
      <4> QED BY <3>4, <4>2, <4>3
    <3> QED BY <3>1, <3>2, <3>3, <3>4
  <2> QED BY <2>4 DEF x, y, f, g
<1> QED BY <1>3, <1>4

LEMMA RewrittenTransaction ==
  ASSUME NEW t, IsTx(t),
         \A k \in {4, 5} : get_length(t.wits, k) > 0 => ~EmptyCache(k, t.wits.field[k][1]),
         NEW b, b = transaction_to_cbor(t), NEW u, u = transaction_from_cbor(b)
  PROVE  transaction_to_cbor(u) = b
<1> DEFINE c == transaction_to_cbor(u)
<1>1. /\ IsTransaction(b) /\ FieldsDecodable(b[3])
      /\ b[3] = witness_set_to_cbor(t.wits)
  BY WrittenIsTransaction
<1>2. IsTx(u) /\ IsFromBytes(u, b) /\ u.wits = witness_set_from_cbor(b[3])
  BY <1>1, ReadIsTx
<1>3. IsTransaction(c) /\ c[3] = witness_set_to_cbor(u.wits)
  BY <1>2, WrittenIsTransaction
<1>4. c[1] = b[1] /\ c[2] = b[2] /\ c[4] = b[4] /\ c[5] = b[5]
  BY <1>1, <1>2, SentAsReceived
<1> HIDE DEF c
<1>5. c[3] = b[3]
  <2>1. AreWitnesses(t.wits)
    BY DEF IsTx
  <2> QED BY <1>1, <1>2, <1>3, <2>1, RewrittenWitnesses
<1>6. b = <<b[1], b[2], b[3], b[4], b[5]>> /\ c = <<c[1], c[2], c[3], c[4], c[5]>>
  BY <1>1, <1>3, Zenon DEF IsTransaction
<1> QED BY <1>4, <1>5, <1>6 DEF c

-----------------------------------------------------------------------------
(* What signing keeps.                                                     *)

LEMMA ItemsAt ==
  ASSUME NEW b, NEW fields, fields = b[3][2], EachFieldOnce(fields), NEW key
  PROVE  /\ \A i \in 1 .. Len(fields) : fields[i][1] = key => ItemsOf(b, key) = fields[i][2][3]
         /\ ~HasKey(fields, key) => ItemsOf(b, key) = <<>>
<1> DEFINE at(f) == {i \in 1 .. Len(f) : f[i][1] = key}
           of(f) == IF at(f) = {} THEN <<>> ELSE f[CHOOSE i \in at(f) : TRUE][2][3]
<1>1. ItemsOf(b, key) = of(b[3][2])
  BY Zenon DEF ItemsOf
<1> HIDE DEF of
<1>2. ItemsOf(b, key) = of(fields)
  BY <1>1
<1>3. ASSUME NEW i \in 1 .. Len(fields), fields[i][1] = key PROVE of(fields) = fields[i][2][3]
  <2>1. at(fields) # {} /\ (CHOOSE x \in at(fields) : TRUE) = i
    BY <1>3, ReadField DEF EachFieldOnce
  <2> QED BY <2>1 DEF of
<1>4. ASSUME ~HasKey(fields, key) PROVE of(fields) = <<>>
  <2>1. at(fields) = {}
    BY <1>4 DEF HasKey
  <2> QED BY <2>1 DEF of
<1> QED BY <1>2, <1>3, <1>4

Vkeys(w) == IF w.field[0] = NULL THEN <<>> ELSE w.field[0][1].items

LEMMA VkeysAre ==
  ASSUME NEW w, AreWitnesses(w)
  PROVE  /\ IsSequence(Vkeys(w)) /\ EachKeyOnce(Vkeys(w))
         /\ (get_length(w, 0) > 0 <=> Vkeys(w) # <<>>)
<1>1. IsField(0, w.field[0])
  BY DEF AreWitnesses, FieldKeys
<1>2. CASE w.field[0] = NULL
  <2>1. Vkeys(w) = <<>> /\ get_length(w, 0) = 0
    BY <1>2 DEF Vkeys, get_length
  <2>2. IsSequence(<<>>) /\ EachKeyOnce(<<>>)
    BY DEF IsSequence, EachKeyOnce
  <2> QED BY <2>1, <2>2
<1>3. CASE w.field[0] # NULL
  <2> DEFINE items == w.field[0][1].items
  <2>1. Vkeys(w) = items /\ get_length(w, 0) = Len(items)
    BY <1>3 DEF Vkeys, get_length
  <2>2. IsSequence(items) /\ EachKeyOnce(items)
    BY <1>1, <1>3 DEF IsField, IsObject
  <2> HIDE DEF items
  <2>3. items # <<>> <=> Len(items) > 0
    BY <2>2, NotEmpty
  <2> QED BY <2>1, <2>2, <2>3
<1> QED BY <1>2, <1>3

\* The witnesses that are written.
LEMMA WrittenVkeys ==
  ASSUME NEW w, AreWitnesses(w), NEW b, b[3] = witness_set_to_cbor(w)
  PROVE  ItemsOf(b, 0) = Vkeys(w)
<1> DEFINE P == Present(w)
           at == Ascending(P)
           fields == b[3][2]
           n == Len(fields)
<1>1. /\ n = Cardinality(P)
      /\ \A j \in 1 .. n : fields[j] = write_field_if_present(w, w.order[at[j]])
  BY WrittenWitnesses
<1>2. /\ at \in [1 .. n -> P] /\ P \in SUBSET (1 .. 4)
      /\ \A x \in P : \E j \in 1 .. n : at[j] = x
  BY <1>1, PresentIsFinite, AscendingFacts
<1>3. EachFieldOnce(fields)
  BY WrittenIsDecodable DEF FieldsDecodable, EachFieldOnce
<1>4. fields = b[3][2]
  OBVIOUS
<1> HIDE DEF fields, at, P
<1>5. ASSUME NEW j \in 1 .. n
      PROVE  /\ at[j] \in 1 .. 4 /\ fields[j][1] = w.order[at[j]]
             /\ get_length(w, fields[j][1]) > 0
             /\ fields[j][1] = 0 => w.field[0] # NULL /\ fields[j][2][3] = w.field[0][1].items
  <2> DEFINE k == w.order[at[j]]
             o == w.field[k][1]
             f == fields[j]
  <2>1. at[j] \in Present(w) /\ f = write_field_if_present(w, k)
    BY <1>1, <1>2 DEF P
  <2>2. k = w.order[at[j]] /\ o = w.field[k][1]
    OBVIOUS
  <2> HIDE DEF k, o, f
  <2>3. k \in FieldKeys /\ IsWritten(w, k, o, f)
    BY <2>1, <2>2, WrittenField
  <2>4. /\ w.field[k] # NULL /\ IsObject(k, o) /\ f[1] = k /\ f[2] = Encoded(k, o)
        /\ get_length(w, k) > 0
    BY <2>3 DEF IsWritten
  <2>5. ASSUME k = 0 PROVE f[2][3] = o.items
    <3>1. Encoded(k, o) = <<o.tagged, FALSE, o.items>>
      BY <2>3, <2>4, <2>5, EncodedIsBytes
    <3>2. f[2] = <<o.tagged, FALSE, o.items>>
      BY <2>4, <3>1
    <3> QED BY <3>2, Third
  <2>6. at[j] \in 1 .. 4
    BY <1>2
  <2>7. f[1] = 0 => w.field[0] # NULL /\ f[2][3] = w.field[0][1].items
    BY <2>2, <2>4, <2>5
  <2> QED BY <2>2, <2>4, <2>6, <2>7 DEF f
<1>6. CASE get_length(w, 0) > 0
  <2>1. PICK i \in 1 .. 4 : w.order[i] = 0
    BY OrderIsComplete DEF FieldKeys
  <2>2. i \in P
    BY <1>6, <2>1 DEF P, Present, AreWitnesses
  <2>3. PICK j \in 1 .. n : at[j] = i
    BY <1>2, <2>2
  <2>4. fields[j][1] = 0 /\ w.field[0] # NULL /\ fields[j][2][3] = w.field[0][1].items
    BY <1>5, <2>1, <2>3
  <2>5. ItemsOf(b, 0) = fields[j][2][3]
    <3>1. \A i1 \in 1 .. Len(fields) : fields[i1][1] = 0 => ItemsOf(b, 0) = fields[i1][2][3]
      BY <1>3, <1>4, ItemsAt
    <3> QED BY <2>4, <3>1
  <2> QED BY <2>4, <2>5 DEF Vkeys
<1>7. CASE ~(get_length(w, 0) > 0)
  <2>1. ~HasKey(fields, 0)
    BY <1>5, <1>7 DEF HasKey
  <2>2. ItemsOf(b, 0) = <<>>
    BY <1>3, <1>4, <2>1, ItemsAt
  <2>3. Vkeys(w) = <<>>
    BY <1>7, VkeysAre
  <2> QED BY <2>2, <2>3
<1> QED BY <1>6, <1>7

\* The witnesses that are read.
LEMMA ReadVkeys ==
  ASSUME NEW b, IsTransaction(b), FieldsDecodable(b[3]), NEW w, w = witness_set_from_cbor(b[3])
  PROVE  Vkeys(w) = ItemsOf(b, 0) /\ AreWitnesses(w)
<1> DEFINE c == b[3]
           fields == c[2]
           n == Len(fields)
<1>1. IsSequence(fields) /\ \A i \in 1 .. n : IsFieldBytes(fields[i])
  BY Zenon DEF IsTransaction
<1>2. EachFieldOnce(fields)
  BY DEF FieldsDecodable, EachFieldOnce
<1>3. fields = c[2] /\ n = Len(fields) /\ w = witness_set_from_cbor(c) /\ FieldsDecodable(c) /\ fields = b[3][2]
  OBVIOUS
<1> HIDE DEF c, fields, n
<1>4. AreWitnesses(w) /\ \A i \in 1 .. n : IsRead(w, fields, i)
  BY <1>1, <1>3, ReadWitnesses
<1>5. OthersAreNull(w, fields)
  BY <1>1, <1>3, ReadWitnesses
<1>6. CASE ~HasKey(fields, 0)
  <2>1. w.field[0] = NULL
    BY <1>5, <1>6 DEF FieldKeys, OthersAreNull
  <2>2. ItemsOf(b, 0) = <<>>
    BY <1>2, <1>3, <1>6, ItemsAt
  <2> QED BY <1>4, <2>1, <2>2 DEF Vkeys
<1>7. CASE HasKey(fields, 0)
  <2>1. PICK i \in 1 .. n : fields[i][1] = 0
    BY <1>3, <1>7 DEF HasKey
  <2>2. ItemsOf(b, 0) = fields[i][2][3]
    <3>1. \A i1 \in 1 .. Len(fields) : fields[i1][1] = 0 => ItemsOf(b, 0) = fields[i1][2][3]
      BY <1>2, <1>3, ItemsAt
    <3> QED BY <1>3, <2>1, <3>1
  <2>3. w.field[0] = <<Decoded(0, fields[i][2])>>
    BY <1>4, <2>1 DEF IsRead
  <2>4. IsSetBytes(fields[i][2]) /\ EachKeyOnce(fields[i][2][3])
    BY <1>1, <2>1 DEF IsFieldBytes
  <2>5. Decoded(0, fields[i][2]).items = fields[i][2][3]
    <3>1. 0 \in FieldKeys /\ 0 \in {0, 1}
      BY DEF FieldKeys
    <3> QED BY <2>4, <3>1, DecodedIsObject
  <2>6. w.field[0] # NULL /\ w.field[0][1] = Decoded(0, fields[i][2])
    BY <2>3, BytesAreNotNull
  <2> QED BY <1>4, <2>2, <2>5, <2>6 DEF Vkeys
<1> QED BY <1>6, <1>7

\* The places of the datums and redeemers among the fields.
HashedAt(fields) == {i \in 1 .. Len(fields) : fields[i][1] \in {4, 5} /\ fields[i][2][3] # <<>>}

LEMMA HashedIs ==
  ASSUME NEW b, NEW fields, fields = b[3][2]
  PROVE  DatumsAndRedeemers(b) =
           [i \in 1 .. Cardinality(HashedAt(fields)) |-> fields[Ascending(HashedAt(fields))[i]]]
<1> DEFINE of(f) == Where(f, {i \in 1 .. Len(f) : f[i][1] \in {4, 5} /\ f[i][2][3] # <<>>})
<1>1. DatumsAndRedeemers(b) = of(b[3][2])
  BY Zenon DEF DatumsAndRedeemers
<1> HIDE DEF of
<1>2. DatumsAndRedeemers(b) = of(fields)
  BY <1>1
<1>3. of(fields) = Where(fields, HashedAt(fields))
  BY Zenon DEF of, HashedAt
<1>4. Where(fields, HashedAt(fields)) =
        [i \in 1 .. Cardinality(HashedAt(fields)) |-> fields[Ascending(HashedAt(fields))[i]]]
  BY WhereIs
<1> QED BY <1>2, <1>3, <1>4

\* All but the signatures is as it was decoded.
SameButVkeys(w, v) == w.order = v.order /\ \A k \in FieldKeys \ {0} : w.field[k] = v.field[k]

LEMMA SentDatums ==
  ASSUME NEW r, IsTransaction(r), FieldsDecodable(r[3]),
         NEW v, v = witness_set_from_cbor(r[3]),
         NEW w, AreWitnesses(w), SameButVkeys(w, v),
         NEW b, b[3] = witness_set_to_cbor(w)
  PROVE  DatumsAndRedeemers(b) = DatumsAndRedeemers(r)
<1> DEFINE P == Present(w)
           at == Ascending(P)
           G == b[3][2]
           m == Len(G)
           c == r[3]
           F == c[2]
           n == Len(F)
           Q == HashedAt(G)
           R == HashedAt(F)
<1>1. /\ m = Cardinality(P)
      /\ \A j \in 1 .. m : G[j] = write_field_if_present(w, w.order[at[j]])
  BY WrittenWitnesses
<1>2. /\ at \in [1 .. m -> P] /\ P \in SUBSET (1 .. 4) /\ m \in Nat
      /\ \A x \in P : \E j \in 1 .. m : at[j] = x
  BY <1>1, PresentIsFinite, AscendingFacts
<1>3. IsSequence(F) /\ \A i \in 1 .. n : IsFieldBytes(F[i])
  BY Zenon DEF IsTransaction
<1>4. F = c[2] /\ n = Len(F) /\ v = witness_set_from_cbor(c) /\ FieldsDecodable(c)
  OBVIOUS
<1>5. P \in SUBSET Nat /\ IsFiniteSet(P) /\ Q \in SUBSET (1 .. m)
  BY PresentIsFinite DEF HashedAt
<1>6. DatumsAndRedeemers(b) = [i \in 1 .. Cardinality(Q) |-> G[Ascending(Q)[i]]]
  BY HashedIs
<1>7. DatumsAndRedeemers(r) = [i \in 1 .. Cardinality(R) |-> F[Ascending(R)[i]]]
  BY HashedIs
<1> HIDE DEF F, n, c
<1>8. /\ AreWitnesses(v) /\ n \in 0 .. 4 /\ OthersAreNull(v, F) /\ \A i \in 1 .. n : IsRead(v, F, i)
  <2>1. IsSequence(F) /\ \A i \in 1 .. n : IsFieldBytes(F[i])
    BY <1>3
  <2>2. AreWitnesses(v) /\ n \in 0 .. 4 /\ OthersAreNull(v, F)
    BY <1>4, <2>1, ReadWitnesses
  <2>3. \A i \in 1 .. n : IsRead(v, F, i)
    BY <1>4, <2>1, ReadWitnesses
  <2> QED BY <2>2, <2>3
<1>9. /\ w.order = v.order /\ \A k \in {4, 5} : k \in FieldKeys /\ w.field[k] = v.field[k]
      /\ \A i, j \in 1 .. 4 : w.order[i] = w.order[j] => i = j
      /\ Len(w.order) = 4
  BY SMTT(30) DEF SameButVkeys, AreWitnesses, FieldKeys
\* A field that was received with something in it is written.
<1>10. ASSUME NEW i \in R PROVE i \in P /\ i \in 1 .. n /\ w.order[i] = F[i][1] /\ F[i][1] \in {4, 5}
  <2> DEFINE k == F[i][1]
             d == Decoded(k, F[i][2])
  <2>1. i \in 1 .. n /\ k \in {4, 5} /\ F[i][2][3] # <<>>
    BY <1>4 DEF HashedAt
  <2>2. IsRead(v, F, i) /\ IsFieldBytes(F[i])
    BY <1>3, <1>8, <2>1
  <2>3. v.order[i] = k /\ v.field[k] = <<d>> /\ k \in FieldKeys
    BY <2>2 DEF IsRead
  <2>4. IsSetBytes(F[i][2]) /\ IsSequence(F[i][2][3])
    BY <2>2 DEF IsFieldBytes, IsSetBytes
  <2>5. Len(d.items) = Len(F[i][2][3])
    <3>1. k # 0
      BY <2>1
    <3> QED BY <2>3, <2>4, <3>1, DecodedIsObject
  <2>6. Len(F[i][2][3]) > 0
    BY <2>1, <2>4, NotEmpty
  <2> HIDE DEF d, k
  <2>7. w.field[k] # NULL /\ w.field[k][1] = d
    <3>1. w.field[k] = v.field[k] /\ v.field[k] = <<d>>
      BY <1>9, <2>1, <2>3 DEF k, d
    <3>2. w.field[k] = <<d>>
      BY <3>1
    <3> QED BY <3>2, BytesAreNotNull
  <2>8. get_length(w, k) > 0
    BY <2>5, <2>6, <2>7 DEF get_length
  <2>9. i \in 1 .. 4 /\ w.order[i] = k
    BY <1>8, <1>9, <2>1, <2>3
  <2>10. i \in P
    BY <1>9, <2>8, <2>9 DEF Present
  <2> QED BY <2>1, <2>9, <2>10 DEF k
\* What is written of these fields are the received bytes.
<1>11. ASSUME NEW j \in 1 .. m, G[j][1] \in {4, 5} PROVE at[j] \in 1 .. n /\ G[j] = F[at[j]]
  <2> DEFINE k == w.order[at[j]]
             o == w.field[k][1]
             f == G[j]
             i == at[j]
  <2>1. i \in Present(w) /\ f = write_field_if_present(w, k)
    BY <1>1, <1>2
  <2>2. k = w.order[i] /\ o = w.field[k][1] /\ f[1] \in {4, 5} /\ i \in 1 .. 4
    BY <1>2, <1>11
  <2> HIDE DEF k, o, f, i
  <2>3. k \in FieldKeys /\ IsWritten(w, k, o, f)
    BY <2>1, <2>2, WrittenField
  <2>4. /\ w.field[k] # NULL /\ f[1] = k /\ f[2] = Encoded(k, o)
        /\ IsObject(k, o) /\ IsFieldBytes(f)
    BY <2>3 DEF IsWritten
  <2>5. HasKey(F, k)
    BY <1>8, <1>9, <2>2, <2>3, <2>4 DEF OthersAreNull
  <2>6. PICK x \in 1 .. n : F[x][1] = k
    BY <1>4, <2>5 DEF HasKey
  <2>7. IsRead(v, F, x) /\ IsFieldBytes(F[x]) /\ x \in 1 .. 4
    BY <1>3, <1>8, <2>6
  <2>8. v.order[x] = k /\ v.field[k] = <<Decoded(k, F[x][2])>>
    BY <2>6, <2>7 DEF IsRead
  <2>9. x = i
    BY <1>9, <2>2, <2>7, <2>8
  <2>10. o = Decoded(k, F[i][2])
    BY <1>9, <2>2, <2>4, <2>8, <2>9, SMTT(30)
  <2>11. IsSetBytes(F[i][2]) /\ F[i] = <<k, F[i][2]>> /\ f = <<k, f[2]>>
    BY <2>4, <2>6, <2>7, <2>9 DEF IsFieldBytes
  <2>12. o.cache = F[i][2]
    <3>1. k # 0 /\ k \in {4, 5}
      BY <2>2, <2>4
    <3> QED BY <2>3, <2>10, <2>11, <3>1, DecodedIsObject
  <2>13. f[2] = F[i][2]
    <3>1. F[i][2] # NULL
      BY <2>11, BytesAreNotNull
    <3>2. k \in {4, 5}
      BY <2>2, <2>4
    <3>3. Encoded(k, o) = o.cache
      BY <2>3, <2>4, <2>12, <3>1, <3>2, EncodedIsBytes
    <3> QED BY <2>4, <2>12, <3>3
  <2>14. i \in 1 .. n /\ f = F[i]
    BY <2>6, <2>9, <2>11, <2>13
  <2> QED BY <2>14 DEF f, i
<1> HIDE DEF P, at, Q, R, G, m
<1>12. R = {at[j] : j \in Q}
  <2>1. ASSUME NEW i \in R PROVE \E j \in Q : at[j] = i
    <3>1. /\ i \in P /\ i \in 1 .. n /\ w.order[i] = F[i][1] /\ F[i][1] \in {4, 5}
          /\ F[i][2][3] # <<>>
      BY <1>10 DEF R, HashedAt
    <3>2. PICK j \in 1 .. m : at[j] = i
      BY <1>2, <3>1
    <3>3. G[j][1] = w.order[at[j]]
      BY <1>1, <3>2 DEF write_field_if_present
    <3>4. G[j] = F[i]
      BY <1>11, <3>1, <3>2, <3>3
    <3>5. j \in Q
      BY <3>1, <3>2, <3>4 DEF Q, HashedAt, m
    <3> QED BY <3>2, <3>5
  <2>2. ASSUME NEW j \in Q PROVE at[j] \in R
    <3>1. j \in 1 .. m /\ G[j][1] \in {4, 5} /\ G[j][2][3] # <<>>
      BY DEF Q, HashedAt, m
    <3>2. at[j] \in 1 .. n /\ G[j] = F[at[j]]
      BY <1>11, <3>1
    <3> QED BY <1>4, <3>1, <3>2 DEF R, HashedAt
  <2> QED BY <2>1, <2>2
<1>13. /\ Cardinality(R) = Cardinality(Q)
       /\ \A x \in 1 .. Cardinality(Q) : Ascending(R)[x] = at[Ascending(Q)[x]]
  <2>1. /\ P \in SUBSET Nat /\ IsFiniteSet(P) /\ Q \in SUBSET (1 .. Cardinality(P))
        /\ R = {Ascending(P)[j] : j \in Q}
    BY <1>1, <1>5, <1>12 DEF at
  <2>2. /\ IsFiniteSet(R) /\ IsFiniteSet(Q) /\ Cardinality(R) = Cardinality(Q)
        /\ \A x \in 1 .. Cardinality(Q) : Ascending(R)[x] = Ascending(P)[Ascending(Q)[x]]
    BY <2>1, AscendingOfSome
  <2> QED BY <2>2 DEF at
<1>14. ASSUME NEW x \in 1 .. Cardinality(Q) PROVE G[Ascending(Q)[x]] = F[Ascending(R)[x]]
  <2>1. Ascending(Q)[x] \in Q
    <3>1. Q \in SUBSET Nat /\ IsFiniteSet(Q)
      <4>1. IsFiniteSet(1 .. m)
        BY <1>2, CountedTo
      <4>2. IsFiniteSet(Q)
        BY <1>5, <4>1, FS_Subset
      <4> QED BY <1>2, <1>5, <4>2
    <3>2. Ascending(Q) \in [1 .. Cardinality(Q) -> Q]
      BY <3>1, AscendingFacts
    <3> QED BY <3>2
  <2> DEFINE j == Ascending(Q)[x]
  <2> HIDE DEF j
  <2>2. j \in 1 .. m /\ G[j][1] \in {4, 5}
    BY <2>1 DEF Q, HashedAt, m, j
  <2>3. G[j] = F[at[j]]
    BY <1>11, <2>2
  <2> QED BY <1>13, <2>3 DEF j
<1>15. [i \in 1 .. Cardinality(Q) |-> G[Ascending(Q)[i]]] = [i \in 1 .. Cardinality(R) |-> F[Ascending(R)[i]]]
  BY <1>13, <1>14
<1> QED BY <1>6, <1>7, <1>15, Zenon DEF Q, R, G, F, c

-----------------------------------------------------------------------------
(* The invariant.                                                          *)

\* The transaction is the received one, with these signatures over its own.
IsSignedFrom(t, bytes, new) ==
  /\ IsFromBytes(t, bytes)
  /\ SameButVkeys(t.wits, witness_set_from_cbor(bytes[3]))
  /\ Signed(Vkeys(t.wits)) = Signed(ItemsOf(bytes, 0) \o new)

IsReceived(bytes) == IsTransaction(bytes) /\ FieldsDecodable(bytes[3])

CodecInv ==
  tx # NULL =>
    /\ IsTx(tx)
    /\ received # NULL =>
         /\ IsReceived(received) /\ IsSequence(signatures)
         /\ pristine => IsSignedFrom(tx, received, signatures)

\* What was signed is what was received.
LEMMA SignedIsKept ==
  ASSUME CodecInv
  PROVE  SigningKeepsBytes
<1> SUFFICES ASSUME tx # NULL, received # NULL, pristine
             PROVE  LET out == transaction_to_cbor(tx)
                    IN  /\ <<out[1], out[2], out[4], out[5]>> =
                              <<received[1], received[2], received[4], received[5]>>
                        /\ DatumsAndRedeemers(out) = DatumsAndRedeemers(received)
                        /\ Signed(ItemsOf(out, 0)) =
                              Signed(ItemsOf(received, 0) \o signatures)
                        /\ EachKeyOnce(ItemsOf(out, 0))
  BY DEF SigningKeepsBytes
<1> DEFINE out == transaction_to_cbor(tx)
           v == witness_set_from_cbor(received[3])
<1>1. /\ IsTx(tx) /\ IsTransaction(received) /\ FieldsDecodable(received[3])
      /\ IsFromBytes(tx, received) /\ SameButVkeys(tx.wits, v) /\ AreWitnesses(tx.wits)
      /\ Signed(Vkeys(tx.wits)) = Signed(ItemsOf(received, 0) \o signatures)
  BY DEF CodecInv, IsReceived, IsSignedFrom, IsTx
<1>2. out[3] = witness_set_to_cbor(tx.wits)
  BY <1>1, WrittenIsTransaction
<1>3. out[1] = received[1] /\ out[2] = received[2] /\ out[4] = received[4] /\ out[5] = received[5]
  BY <1>1, SentAsReceived
<1> HIDE DEF out
<1>4. DatumsAndRedeemers(out) = DatumsAndRedeemers(received)
  BY <1>1, <1>2, SentDatums
<1>5. ItemsOf(out, 0) = Vkeys(tx.wits)
  BY <1>1, <1>2, WrittenVkeys
<1>6. EachKeyOnce(Vkeys(tx.wits))
  BY <1>1, VkeysAre
<1> QED BY <1>1, <1>3, <1>4, <1>5, <1>6 DEF out

\* What is written stays as it is.
LEMMA EncodedIsStable ==
  ASSUME CodecInv
  PROVE  EncodingIsStable
<1> SUFFICES ASSUME tx # NULL
             PROVE  LET bytes == transaction_to_cbor(tx)
                    IN  /\ FieldsDecodable(bytes[3])
                        /\ \/ AddedToEmpty
                           \/ transaction_to_cbor(transaction_from_cbor(bytes)) = bytes
  BY DEF EncodingIsStable
<1> DEFINE bytes == transaction_to_cbor(tx)
<1>1. IsTx(tx)
  BY DEF CodecInv
<1>2. FieldsDecodable(bytes[3])
  BY <1>1, WrittenIsTransaction
<1>3. ASSUME ~AddedToEmpty
      PROVE  transaction_to_cbor(transaction_from_cbor(bytes)) = bytes
  <2>1. \A k \in {4, 5} : get_length(tx.wits, k) > 0 => ~EmptyCache(k, tx.wits.field[k][1])
    BY <1>3 DEF AddedToEmpty, EmptyCache
  <2> QED BY <1>1, <2>1, RewrittenTransaction
<1> QED BY <1>2, <1>3

-----------------------------------------------------------------------------
(* Every call keeps it.                                                    *)

\* Nothing but one field of the witnesses is another.
IsWith(t, k, f, u) ==
  /\ u.body = t.body /\ u.aux = t.aux
  /\ u.is_valid = t.is_valid /\ u.frame_size = t.frame_size
  /\ u.wits.order = t.wits.order /\ u.wits.field[k] = f
  /\ \A x \in FieldKeys \ {k} : u.wits.field[x] = t.wits.field[x]

LEMMA WithFieldIs ==
  ASSUME NEW t, IsTx(t), NEW k \in FieldKeys, NEW f, IsField(k, f),
         NEW u, u = WithField(t, k, f)
  PROVE  IsTx(u) /\ IsWith(t, k, f, u)
<1> DEFINE w == t.wits
           g == [w.field EXCEPT ![k] = f]
           w2 == [w EXCEPT !.field = g]
<1>1. AreWitnesses(w) /\ t = [body |-> t.body, wits |-> t.wits, aux |-> t.aux, is_valid |-> t.is_valid,
                              frame_size |-> t.frame_size]
  BY DEF IsTx
<1>2. u = [t EXCEPT !.wits = w2]
  BY DEF WithField
<1>3. w = [order |-> w.order, field |-> w.field] /\ w.field = [x \in FieldKeys |-> w.field[x]]
  BY <1>1 DEF AreWitnesses
<1>4. g = [x \in FieldKeys |-> g[x]] /\ \A x \in FieldKeys : g[x] = IF x = k THEN f ELSE w.field[x]
  <2> DEFINE h == w.field
  <2>1. h = [x \in FieldKeys |-> h[x]]
    BY <1>3
  <2> HIDE DEF h
  <2> QED BY <2>1 DEF h
<1> HIDE DEF g
<1>5. w2 = [order |-> w.order, field |-> g]
  <2> HIDE DEF w
  <2> QED BY <1>3
<1> HIDE DEF w2
<1>6. w2.order = w.order /\ w2.field = g
  BY <1>5
<1>7. \A x \in FieldKeys : IsField(x, g[x])
  BY <1>1, <1>4 DEF AreWitnesses
<1>8. AreWitnesses(w2)
  BY <1>1, <1>4, <1>5, <1>6, <1>7 DEF AreWitnesses
<1>9. u = [body |-> t.body, wits |-> w2, aux |-> t.aux, is_valid |-> t.is_valid, frame_size |-> t.frame_size]
  BY <1>1, <1>2
<1>10. u.wits = w2 /\ u.body = t.body /\ u.aux = t.aux /\ u.is_valid = t.is_valid /\ u.frame_size = t.frame_size
  BY <1>9
<1>11. IsTx(u)
  BY <1>8, <1>9, <1>10 DEF IsTx
<1> QED BY <1>4, <1>6, <1>10, <1>11 DEF IsWith

LEMMA EmptySetIsObject ==
  \A k \in {0, 1, 4} : IsObject(k, SetObject(TRUE, <<>>)) /\ SetObject(TRUE, <<>>).items = <<>>
<1> DEFINE set == SetObject(TRUE, <<>>)
<1>1. set = [tagged |-> TRUE, items |-> <<>>, cache |-> NULL]
  BY DEF SetObject
<1> HIDE DEF set
<1>2. set.items = <<>> /\ set.cache = NULL
  BY <1>1
<1>3. set = [tagged |-> set.tagged, items |-> set.items, cache |-> set.cache]
  BY <1>1
<1>4. IsSequence(<<>>) /\ EachKeyOnce(<<>>)
  BY DEF IsSequence, EachKeyOnce
<1>5. \A k \in {0, 1, 4} : IsObject(k, set)
  BY <1>2, <1>3, <1>4 DEF IsObject, IsCache
<1> QED BY <1>2, <1>5 DEF set

LEMMA NewOrder ==
  /\ WitnessSet.order \in Seq(FieldKeys) /\ Len(WitnessSet.order) = 4
  /\ \A i, j \in 1 .. 4 : WitnessSet.order[i] = WitnessSet.order[j] => i = j
<1> DEFINE o == WitnessSet.order
<1>1. o = <<0, 1, 4, 5>>
  BY DEF WitnessSet
<1> HIDE DEF o
<1>2. o \in Seq(FieldKeys) /\ Len(o) = 4 /\ \A i, j \in 1 .. 4 : o[i] = o[j] => i = j
  BY <1>1 DEF FieldKeys
<1> QED BY <1>2 DEF o

LEMMA NewIsTx ==
  IsTx(transaction_new([cache |-> NULL, fee |-> 0], WitnessSet, NULL))
<1> DEFINE w == WitnessSet
           body == [cache |-> NULL, fee |-> 0]
           t == transaction_new(body, w, NULL)
<1>1. w = [order |-> <<0, 1, 4, 5>>, field |-> [k \in FieldKeys |-> NULL]]
  BY DEF WitnessSet
<1> HIDE DEF w
<1>2. w = [order |-> w.order, field |-> w.field] /\ w.order = <<0, 1, 4, 5>>
      /\ w.field = [k \in FieldKeys |-> NULL]
  BY <1>1
<1>3. /\ w.order \in Seq(FieldKeys) /\ Len(w.order) = 4
      /\ \A i, j \in 1 .. 4 : w.order[i] = w.order[j] => i = j
  BY <1>2 DEF FieldKeys
<1>4. w.field = [k \in FieldKeys |-> w.field[k]] /\ \A k \in FieldKeys : IsField(k, w.field[k])
  BY <1>2 DEF IsField
<1>5. AreWitnesses(w)
  BY <1>2, <1>3, <1>4 DEF AreWitnesses
<1>6. IsBody(body)
  BY DEF IsBody
<1> HIDE DEF body
<1>7. t = [body |-> body, wits |-> w, aux |-> NULL, is_valid |-> TRUE, frame_size |-> 4]
  BY DEF transaction_new
<1> HIDE DEF t
<1>8. IsTx(t)
  BY <1>5, <1>6, <1>7 DEF IsTx, IsAux
<1> QED BY <1>8 DEF t, body, w

LEMMA ReceivedIsSigned ==
  ASSUME NEW b, IsReceived(b), NEW t, t = transaction_from_cbor(b)
  PROVE  IsTx(t) /\ IsSignedFrom(t, b, <<>>) /\ IsSequence(<<>>)
<1>1. IsTx(t) /\ IsFromBytes(t, b) /\ t.wits = witness_set_from_cbor(b[3])
  BY ReadIsTx DEF IsReceived
<1> DEFINE s == ItemsOf(b, 0)
<1>2. Vkeys(t.wits) = s /\ AreWitnesses(t.wits)
  BY <1>1, ReadVkeys DEF IsReceived
<1>3. IsSequence(Vkeys(t.wits)) /\ IsSequence(<<>>)
  BY <1>2, VkeysAre DEF IsSequence
<1> HIDE DEF s
<1>4. s \o <<>> = s
  <2>1. IsSequence(s)
    BY <1>2, <1>3
  <2> QED BY <2>1 DEF IsSequence
<1>5. SameButVkeys(t.wits, witness_set_from_cbor(b[3]))
  BY <1>1 DEF SameButVkeys
<1> QED BY <1>1, <1>2, <1>3, <1>4, <1>5 DEF IsSignedFrom, s

LEMMA ThreeSequences ==
  ASSUME NEW s, IsSequence(s), NEW t, IsSequence(t), NEW u, IsSequence(u)
  PROVE  \E S : s \in Seq(S) /\ t \in Seq(S) /\ u \in Seq(S)
<1> DEFINE S == {s[j] : j \in 1 .. Len(s)} \cup {t[j] : j \in 1 .. Len(t)} \cup {u[j] : j \in 1 .. Len(u)}
<1>1. s \in Seq(S) /\ t \in Seq(S) /\ u \in Seq(S)
  BY SMTT(40) DEF IsSequence
<1> HIDE DEF S
<1> QED BY <1>1

LEMMA JoinedTwice ==
  ASSUME NEW s, IsSequence(s), NEW t, IsSequence(t), NEW u, IsSequence(u),
         NEW a, a = s \o t, NEW b, b = t \o u
  PROVE  a \o u = s \o b
<1>1. PICK S : s \in Seq(S) /\ t \in Seq(S) /\ u \in Seq(S)
  BY ThreeSequences
<1>2. (s \o t) \o u = s \o (t \o u)
  BY <1>1, ConcatAssociative
<1> QED BY <1>2, Zenon

\* Signing a transaction: what it held is what it holds, with the new ones over.
LEMMA AppliedIsSigned ==
  ASSUME NEW t, IsTx(t), NEW new, IsSequence(new), NEW old, old = t.wits.field[0],
         NEW set, set = (IF old = NULL THEN SetObject(TRUE, <<>>) ELSE old[1]),
         NEW u, u = WithField(t, 0, <<vkey_witness_set_apply(set, new)>>)
  PROVE  /\ IsTx(u)
         /\ \A b, sigs : IsReceived(b) /\ IsSequence(sigs) /\ IsSignedFrom(t, b, sigs)
                           => IsSignedFrom(u, b, sigs \o new)
<1> DEFINE w == t.wits
           more == vkey_witness_set_apply(set, new)
<1>1. AreWitnesses(w) /\ IsField(0, old) /\ 0 \in FieldKeys
  BY DEF IsTx, AreWitnesses, FieldKeys
<1>2. IsObject(0, set) /\ set.items = Vkeys(w)
  <2>1. CASE old = NULL
    <3>1. set = SetObject(TRUE, <<>>)
      BY <2>1
    <3>2. Vkeys(w) = <<>>
      BY <2>1 DEF Vkeys
    <3>3. IsObject(0, set) /\ set.items = <<>>
      BY <3>1, EmptySetIsObject
    <3> QED BY <3>2, <3>3
  <2>2. CASE old # NULL
    <3>1. set = old[1]
      BY <2>2
    <3>2. Vkeys(w) = old[1].items
      BY <2>2 DEF Vkeys
    <3> QED BY <1>1, <2>2, <3>1, <3>2 DEF IsField
  <2> QED BY <2>1, <2>2
<1>3. IsSequence(Vkeys(w))
  BY <1>1, VkeysAre
<1>4. IsObject(0, more)
  BY <1>2, <1>3, AppliedWitnesses
<1> DEFINE f == <<more>>
<1>5. IsField(0, f) /\ f # NULL /\ f[1] = more
  <2> HIDE DEF more
  <2> QED BY <1>4, BytesAreNotNull DEF IsField
<1> HIDE DEF f
<1>6. /\ IsTx(u) /\ u.body = t.body /\ u.aux = t.aux
      /\ u.is_valid = t.is_valid /\ u.frame_size = t.frame_size
      /\ u.wits.order = w.order /\ u.wits.field[0] = f
      /\ \A x \in FieldKeys \ {0} : u.wits.field[x] = w.field[x]
  <2>1. u = WithField(t, 0, f)
    BY DEF f
  <2>2. IsTx(u) /\ IsWith(t, 0, f, u)
    BY <1>1, <1>5, <2>1, WithFieldIs
  <2> QED BY <2>2 DEF IsWith
<1>7. Vkeys(u.wits) = more.items
  BY <1>5, <1>6 DEF Vkeys
<1>8. ASSUME NEW b, NEW sigs, IsReceived(b), IsSequence(sigs), IsSignedFrom(t, b, sigs)
      PROVE  IsSignedFrom(u, b, sigs \o new)
  <2> DEFINE s == ItemsOf(b, 0)
             v == witness_set_from_cbor(b[3])
  <2>1. IsFromBytes(t, b) /\ SameButVkeys(w, v) /\ Signed(Vkeys(w)) = Signed(s \o sigs)
    BY <1>8 DEF IsSignedFrom
  <2>2. IsSequence(s)
    <3>1. Vkeys(v) = s /\ AreWitnesses(v)
      BY <1>8, ReadVkeys DEF IsReceived
    <3> QED BY <3>1, VkeysAre
  <2> HIDE DEF s, v
  <2>3. IsSequence(s \o sigs) /\ (s \o sigs) \o new = s \o (sigs \o new)
    <3>1. IsSequence(s \o sigs)
      BY <1>8, <2>2, JoinedIsSequence
    <3>2. IsSequence(s) /\ IsSequence(sigs) /\ IsSequence(new)
      BY <1>8, <2>2
    <3> DEFINE a == s \o sigs
               d == sigs \o new
    <3>3. a = s \o sigs /\ d = sigs \o new
      OBVIOUS
    <3> HIDE DEF a, d
    <3>4. a \o new = s \o d
      BY <3>2, <3>3, JoinedTwice
    <3> QED BY <3>1, <3>3, <3>4, Zenon
  <2> DEFINE a == s \o sigs
             c == s \o (sigs \o new)
  <2>4. IsSequence(a) /\ a \o new = c /\ Signed(a) = Signed(set.items)
    BY <1>2, <2>1, <2>3
  <2> HIDE DEF a, c
  <2>5. Signed(more.items) = Signed(a \o new)
    <3>1. more = vkey_witness_set_apply(set, new)
      OBVIOUS
    <3> HIDE DEF more
    <3>2. IsObject(0, set) /\ IsSequence(a) /\ Signed(a) = Signed(set.items)
      BY <1>2, <2>4
    <3>3. IsObject(0, more) /\ Signed(more.items) = Signed(a \o new)
      BY <3>1, <3>2, AppliedWitnesses, ZenonT(60)
    <3> QED BY <3>3
  <2>6. Signed(Vkeys(u.wits)) = Signed(c)
    BY <1>7, <2>4, <2>5
  <2>7. IsFromBytes(u, b)
    BY <1>6, <2>1 DEF IsFromBytes
  <2>8. SameButVkeys(u.wits, v)
    BY <1>6, <2>1 DEF SameButVkeys
  <2> QED BY <2>6, <2>7, <2>8 DEF IsSignedFrom, s, c, v
<1> QED BY <1>6, <1>8

LEMMA ItemsChanged ==
  ASSUME NEW k \in {1, 4, 5}, NEW o, IsObject(k, o), NEW items, IsSequence(items),
         NEW u, u = [o EXCEPT !.items = items]
  PROVE  IsObject(k, u)
<1>1. CASE k \in {1, 4}
  <2>1. o = [tagged |-> o.tagged, items |-> o.items, cache |-> o.cache] /\ (k = 4 => IsCache(o.cache))
    BY <1>1 DEF IsObject
  <2>2. u = [tagged |-> o.tagged, items |-> items, cache |-> o.cache]
    BY <2>1
  <2>3. u.items = items /\ u.cache = o.cache /\ u = [tagged |-> u.tagged, items |-> u.items, cache |-> u.cache]
    BY <2>2
  <2> QED BY <1>1, <2>1, <2>3 DEF IsObject
<1>2. CASE k = 5
  <2>1. o = [items |-> o.items, cache |-> o.cache] /\ IsCache(o.cache)
    BY <1>2 DEF IsObject
  <2>2. u = [items |-> items, cache |-> o.cache]
    BY <2>1
  <2>3. u.items = items /\ u.cache = o.cache /\ u = [items |-> u.items, cache |-> u.cache]
    BY <2>2
  <2> QED BY <1>2, <2>1, <2>3 DEF IsObject
<1> QED BY <1>1, <1>2

LEMMA ItemAppended ==
  ASSUME NEW k \in {1, 4, 5}, NEW o, IsObject(k, o), NEW x
  PROVE  IsObject(k, [o EXCEPT !.items = Append(@, x)])
<1> DEFINE items == Append(o.items, x)
           u == [o EXCEPT !.items = items]
<1>1. IsSequence(items)
  BY AppendedIsSequence DEF IsObject
<1>2. u = [o EXCEPT !.items = items]
  OBVIOUS
<1> HIDE DEF items, u
<1>3. IsObject(k, u)
  BY <1>1, <1>2, ItemsChanged
<1> QED BY <1>3 DEF u, items

LEMMA ItemReplaced ==
  ASSUME NEW k \in {1, 4, 5}, NEW o, IsObject(k, o), NEW i \in 1 .. Len(o.items), NEW x
  PROVE  IsObject(k, [o EXCEPT !.items[i] = x])
<1> DEFINE items == [o.items EXCEPT ![i] = x]
           u == [o EXCEPT !.items = items]
<1>1. IsSequence(items)
  <2> DEFINE s == o.items
             t == items
  <2>1. IsSequence(s) /\ i \in 1 .. Len(s) /\ t = [s EXCEPT ![i] = x]
    BY DEF IsObject
  <2> HIDE DEF s, t
  <2>2. IsSequence(t)
    BY <2>1, ReplacedIsSequence, Zenon
  <2> QED BY <2>2 DEF t
<1>2. u = [o EXCEPT !.items = items]
  OBVIOUS
<1> HIDE DEF items, u
<1>3. IsObject(k, u)
  BY <1>1, <1>2, ItemsChanged
<1> QED BY <1>3 DEF u, items

LEMMA ObjectIsField ==
  ASSUME NEW k, NEW o, IsObject(k, o)
  PROVE  IsField(k, <<o>>)
  BY DEF IsField

\* What the caches of a field are cleared to.
ClearedField(k, object) ==
  CASE k \in {0, 1} -> [object EXCEPT !.tagged = TRUE]
    [] k = 4 -> plutus_data_set_clear_cbor_cache(object)
    [] k = 5 -> redeemer_list_clear_cbor_cache(object)

LEMMA ClearedListIsObject ==
  ASSUME NEW list, IsSequence(list.items)
  PROVE  IsObject(5, redeemer_list_clear_cbor_cache(list))
<1> DEFINE items == [i \in 1 .. Len(list.items) |-> redeemer_clear_cbor_cache(list.items[i])]
           u == redeemer_list_clear_cbor_cache(list)
<1>1. u = [items |-> items, cache |-> NULL]
  BY DEF redeemer_list_clear_cbor_cache
<1>2. items = [i \in 1 .. Len(list.items) |-> items[i]] /\ Len(list.items) \in Nat
  BY DEF IsSequence
<1> HIDE DEF items, u
<1>3. IsSequence(items)
  BY <1>2, TableIsSequence
<1>4. u.items = items /\ u.cache = NULL /\ u = [items |-> u.items, cache |-> u.cache]
  BY <1>1
<1>5. IsObject(5, u)
  BY <1>3, <1>4 DEF IsObject, IsCache
<1> QED BY <1>5 DEF u

LEMMA ClearedIsObject ==
  ASSUME NEW k \in FieldKeys, NEW o, IsObject(k, o), NEW u, u = ClearedField(k, o)
  PROVE  IsObject(k, u)
<1>1. CASE k \in {0, 1}
  <2>1. u = [o EXCEPT !.tagged = TRUE]
    BY <1>1 DEF ClearedField
  <2>2. /\ o = [tagged |-> o.tagged, items |-> o.items, cache |-> o.cache]
        /\ IsSequence(o.items) /\ (k = 0 => EachKeyOnce(o.items))
    BY <1>1 DEF IsObject
  <2>3. u = [tagged |-> TRUE, items |-> o.items, cache |-> o.cache]
    BY <2>1, <2>2
  <2>4. u.items = o.items /\ u = [tagged |-> u.tagged, items |-> u.items, cache |-> u.cache]
    BY <2>3
  <2> QED BY <1>1, <2>2, <2>4 DEF IsObject
<1>2. CASE k = 4
  <2>1. u = [o EXCEPT !.cache = NULL, !.tagged = TRUE]
    BY <1>2 DEF ClearedField, plutus_data_set_clear_cbor_cache
  <2>2. o = [tagged |-> o.tagged, items |-> o.items, cache |-> o.cache] /\ IsSequence(o.items)
    BY <1>2 DEF IsObject
  <2>3. u = [tagged |-> TRUE, items |-> o.items, cache |-> NULL]
    BY <2>1, <2>2
  <2>4. u.items = o.items /\ u.cache = NULL /\ u = [tagged |-> u.tagged, items |-> u.items, cache |-> u.cache]
    BY <2>3
  <2> QED BY <1>2, <2>2, <2>4 DEF IsObject, IsCache
<1>3. CASE k = 5
  <2>1. u = redeemer_list_clear_cbor_cache(o)
    BY <1>3 DEF ClearedField
  <2>2. IsSequence(o.items)
    BY DEF IsObject
  <2> QED BY <1>3, <2>1, <2>2, ClearedListIsObject
<1> QED BY <1>1, <1>2, <1>3 DEF FieldKeys

LEMMA ClearedAreWitnesses ==
  ASSUME NEW w, AreWitnesses(w), NEW v, v = witness_set_clear_cbor_cache(w)
  PROVE  AreWitnesses(v)
<1> DEFINE f == [k \in FieldKeys |-> IF w.field[k] = NULL THEN NULL
                                            ELSE <<ClearedField(k, w.field[k][1])>>]
<1>1. v = [order |-> WitnessSet.order, field |-> f]
  BY Zenon DEF witness_set_clear_cbor_cache, ClearedField
<1>2. /\ f = [k \in FieldKeys |-> f[k]]
      /\ \A k \in FieldKeys : f[k] = IF w.field[k] = NULL THEN NULL
                                            ELSE <<ClearedField(k, w.field[k][1])>>
  OBVIOUS
<1> HIDE DEF f
<1>3. ASSUME NEW k \in FieldKeys PROVE IsField(k, f[k])
  <2>1. IsField(k, w.field[k])
    BY DEF AreWitnesses
  <2>2. CASE w.field[k] = NULL
    BY <1>2, <2>2 DEF IsField
  <2>3. CASE w.field[k] # NULL
    <3> DEFINE o == w.field[k][1]
               u == ClearedField(k, o)
    <3>1. IsObject(k, o)
      BY <2>1, <2>3 DEF IsField
    <3>2. f[k] = <<u>>
      BY <1>2, <2>3
    <3>3. IsObject(k, u)
      BY <3>1, ClearedIsObject
    <3> HIDE DEF u
    <3> QED BY <3>2, <3>3, ObjectIsField
  <2> QED BY <2>2, <2>3
<1>4. /\ WitnessSet.order \in Seq(FieldKeys) /\ Len(WitnessSet.order) = 4
      /\ \A i, j \in 1 .. 4 : WitnessSet.order[i] = WitnessSet.order[j] => i = j
  BY NewOrder
<1> DEFINE o == WitnessSet.order
<1> HIDE DEF o
<1>5. v = [order |-> o, field |-> f]
  BY <1>1 DEF o
<1>6. v.order = o /\ v.field = f /\ v = [order |-> v.order, field |-> v.field]
  BY <1>5
<1> QED BY <1>2, <1>3, <1>4, <1>6 DEF AreWitnesses, o

LEMMA ClearedIsTx ==
  ASSUME NEW t, IsTx(t), NEW u, u = transaction_clear_cbor_cache(t)
  PROVE  IsTx(u)
<1> DEFINE body == [t.body EXCEPT !.cache = NULL]
           wits == witness_set_clear_cbor_cache(t.wits)
           part == [t.aux[1] EXCEPT !.cache = NULL]
           aux == IF t.aux = NULL THEN NULL ELSE <<part>>
<1>1. t = [body |-> t.body, wits |-> t.wits, aux |-> t.aux, is_valid |-> t.is_valid, frame_size |-> t.frame_size]
  BY DEF IsTx
<1>2. u = [body |-> body, wits |-> wits, aux |-> aux, is_valid |-> t.is_valid, frame_size |-> t.frame_size]
  <2>1. u = [t EXCEPT !.body = body, !.wits = wits, !.aux = aux]
    BY DEF transaction_clear_cbor_cache
  <2> HIDE DEF body, wits, aux
  <2> QED BY <1>1, <2>1
<1>3. IsBody(body)
  <2> DEFINE b == t.body
  <2>1. b = [cache |-> b.cache, fee |-> b.fee]
    BY DEF IsTx, IsBody
  <2> HIDE DEF b
  <2>2. [b EXCEPT !.cache = NULL] = [cache |-> NULL, fee |-> b.fee]
    BY <2>1
  <2>3. body = [cache |-> NULL, fee |-> b.fee]
    BY <2>2 DEF b
  <2> HIDE DEF body
  <2> QED BY <2>3 DEF IsBody
<1>4. AreWitnesses(wits)
  BY ClearedAreWitnesses DEF IsTx
<1>5. IsAux(aux)
  <2>1. CASE t.aux = NULL
    BY <2>1 DEF IsAux
  <2>2. CASE t.aux # NULL
    <3> DEFINE a == t.aux[1]
    <3>1. a = [cache |-> a.cache, metadata |-> a.metadata]
      BY <2>2 DEF IsTx, IsAux
    <3> HIDE DEF a
    <3>2. [a EXCEPT !.cache = NULL] = [cache |-> NULL, metadata |-> a.metadata]
      BY <3>1
    <3>3. part = [cache |-> NULL, metadata |-> a.metadata]
      BY <3>2 DEF a
    <3>4. aux = <<part>>
      BY <2>2
    <3> HIDE DEF part, aux
    <3>5. aux[1] = part
      BY <3>4
    <3> QED BY <3>3, <3>4, <3>5 DEF IsAux
  <2> QED BY <2>1, <2>2
<1> HIDE DEF body, wits, aux
<1>6. u.body = body /\ u.wits = wits /\ u.aux = aux /\ u.is_valid = t.is_valid /\ u.frame_size = t.frame_size
  BY <1>2
<1> QED BY <1>2, <1>3, <1>4, <1>5, <1>6 DEF IsTx

\* An edit gives up nothing but the claim that only signatures were added.
LEMMA EditKeeps ==
  ASSUME CodecInv, NEW new, tx # NULL, IsTx(new), NEW reached, Edit(new, reached)
  PROVE  CodecInv'
<1>1. tx' = new /\ pristine' = FALSE /\ received' = received /\ signatures' = signatures
  BY DEF Edit
<1>2. received # NULL => IsReceived(received) /\ IsSequence(signatures)
  BY DEF CodecInv
<1> QED BY <1>1, <1>2 DEF CodecInv

LEMMA EditFieldKeeps ==
  ASSUME CodecInv, tx # NULL, NEW k \in FieldKeys, NEW f, IsField(k, f), NEW reached,
         Edit(WithField(tx, k, f), reached)
  PROVE  CodecInv'
<1> DEFINE new == WithField(tx, k, f)
<1>1. IsTx(tx)
  BY DEF CodecInv
<1>2. IsTx(new)
  BY <1>1, WithFieldIs
<1>3. Edit(new, reached)
  OBVIOUS
<1> HIDE DEF new
<1> QED BY <1>2, <1>3, EditKeeps

LEMMA StartedKeeps ==
  ASSUME NEW b, IsReceived(b), Started(transaction_from_cbor(b), b)
  PROVE  CodecInv'
<1>1. tx' = transaction_from_cbor(b) /\ received' = b /\ signatures' = <<>>
  BY DEF Started
<1>2. IsTx(transaction_from_cbor(b)) /\ IsSignedFrom(transaction_from_cbor(b), b, <<>>) /\ IsSequence(<<>>)
  BY ReceivedIsSigned
<1> QED BY <1>1, <1>2 DEF CodecInv

LEMMA NewKeeps ==
  ASSUME New
  PROVE  CodecInv'
<1> DEFINE t == transaction_new([cache |-> NULL, fee |-> 0], WitnessSet, NULL)
<1>1. tx' = t /\ received' = NULL
  BY DEF New, Started
<1>2. IsTx(t)
  BY NewIsTx
<1> HIDE DEF t
<1> QED BY <1>1, <1>2 DEF CodecInv

LEMMA FromCborKeeps ==
  ASSUME NEW bytes \in Docs, FromCbor(bytes)
  PROVE  CodecInv'
<1>1. IsReceived(bytes)
  BY CodecAssumption DEF FromCbor, IsReceived
<1>2. Started(transaction_from_cbor(bytes), bytes)
  BY DEF FromCbor
<1> QED BY <1>1, <1>2, StartedKeeps

LEMMA SendAndReceiveKeeps ==
  ASSUME CodecInv, SendAndReceive
  PROVE  CodecInv'
<1> DEFINE bytes == transaction_to_cbor(tx)
<1>1. IsTx(tx)
  BY DEF CodecInv, SendAndReceive, Call
<1>2. IsReceived(bytes)
  BY <1>1, WrittenIsTransaction DEF IsReceived
<1>3. Started(transaction_from_cbor(bytes), bytes)
  BY DEF SendAndReceive
<1> HIDE DEF bytes
<1> QED BY <1>2, <1>3, StartedKeeps

LEMMA ApplyKeeps ==
  ASSUME CodecInv, NEW new \in NewWitnesses, ApplyVkeyWitnesses(new)
  PROVE  CodecInv'
<1> DEFINE old == tx.wits.field[0]
           set == IF old = NULL THEN SetObject(TRUE, <<>>) ELSE old[1]
           u == WithField(tx, 0, <<vkey_witness_set_apply(set, new)>>)
<1>1. /\ tx # NULL /\ tx' = u /\ signatures' = signatures \o new
      /\ received' = received /\ pristine' = pristine
  BY DEF ApplyVkeyWitnesses, Call
<1>2. IsTx(tx) /\ IsSequence(new)
  BY <1>1, CodecAssumption DEF CodecInv
<1>3. old = tx.wits.field[0] /\ set = (IF old = NULL THEN SetObject(TRUE, <<>>) ELSE old[1])
      /\ u = WithField(tx, 0, <<vkey_witness_set_apply(set, new)>>)
  OBVIOUS
<1> HIDE DEF old, set, u
<1>4. IsTx(u)
  BY <1>2, <1>3, AppliedIsSigned
<1>5. \A b, sigs : IsReceived(b) /\ IsSequence(sigs) /\ IsSignedFrom(tx, b, sigs)
                     => IsSignedFrom(u, b, sigs \o new)
  BY <1>2, <1>3, AppliedIsSigned
<1>6. received # NULL =>
        /\ IsReceived(received) /\ IsSequence(signatures)
        /\ pristine => IsSignedFrom(tx, received, signatures)
  BY <1>1 DEF CodecInv
<1>7. received # NULL => IsSequence(signatures \o new)
  BY <1>2, <1>6, JoinedIsSequence
<1> QED BY <1>1, <1>4, <1>5, <1>6, <1>7 DEF CodecInv

LEMMA ClearCborCacheKeeps ==
  ASSUME CodecInv, ClearCborCache
  PROVE  CodecInv'
<1>1. /\ tx # NULL /\ tx' = transaction_clear_cbor_cache(tx) /\ pristine' = FALSE
      /\ received' = received /\ signatures' = signatures
  BY DEF ClearCborCache, Call
<1>2. IsTx(tx)
  BY <1>1 DEF CodecInv
<1>3. IsTx(transaction_clear_cbor_cache(tx))
  BY <1>2, ClearedIsTx
<1>4. received # NULL => IsReceived(received) /\ IsSequence(signatures)
  BY <1>1 DEF CodecInv
<1> QED BY <1>1, <1>3, <1>4 DEF CodecInv

LEMMA SetIsValidKeeps ==
  ASSUME CodecInv, SetIsValid
  PROVE  CodecInv'
<1> DEFINE u == [tx EXCEPT !.is_valid = ~@]
<1>1. tx # NULL /\ Edit(u, TRUE)
  BY DEF SetIsValid
<1>2. IsTx(tx)
  BY <1>1 DEF CodecInv
<1>3. tx = [body |-> tx.body, wits |-> tx.wits, aux |-> tx.aux, is_valid |-> tx.is_valid, frame_size |-> tx.frame_size]
  BY <1>2 DEF IsTx
<1>4. u = [body |-> tx.body, wits |-> tx.wits, aux |-> tx.aux, is_valid |-> ~tx.is_valid, frame_size |-> tx.frame_size]
  BY <1>3
<1> HIDE DEF u
<1>5. u.body = tx.body /\ u.wits = tx.wits /\ u.aux = tx.aux /\ u.is_valid = ~tx.is_valid /\ u.frame_size = tx.frame_size
  BY <1>4
<1>6. IsTx(u)
  BY <1>2, <1>4, <1>5 DEF IsTx
<1> QED BY <1>1, <1>6, EditKeeps, Zenon

LEMMA SetFeeKeeps ==
  ASSUME CodecInv, SetFee
  PROVE  CodecInv'
<1> DEFINE b == tx.body
           body == [b EXCEPT !.fee = b.fee + 1]
           u == [tx EXCEPT !.body = body]
<1>1. tx # NULL /\ Edit(u, TRUE)
  BY DEF SetFee
<1>2. IsTx(tx)
  BY <1>1 DEF CodecInv
<1>3. tx = [body |-> tx.body, wits |-> tx.wits, aux |-> tx.aux, is_valid |-> tx.is_valid, frame_size |-> tx.frame_size]
  BY <1>2 DEF IsTx
<1>4. b = [cache |-> b.cache, fee |-> b.fee] /\ (b.cache = NULL \/ IsPair(b.cache))
  BY <1>2 DEF IsTx, IsBody
<1> HIDE DEF b
<1>5. body = [cache |-> b.cache, fee |-> b.fee + 1]
  BY <1>4
<1> HIDE DEF body
<1>6. body.cache = b.cache /\ body = [cache |-> body.cache, fee |-> body.fee]
  BY <1>5
<1>7. u = [body |-> body, wits |-> tx.wits, aux |-> tx.aux, is_valid |-> tx.is_valid, frame_size |-> tx.frame_size]
  BY <1>3
<1> HIDE DEF u
<1>8. u.body = body /\ u.wits = tx.wits /\ u.aux = tx.aux /\ u.is_valid = tx.is_valid /\ u.frame_size = tx.frame_size
  BY <1>7
<1>9. IsBody(body)
  BY <1>4, <1>6 DEF IsBody
<1>10. IsTx(u)
  BY <1>2, <1>7, <1>8, <1>9 DEF IsTx
<1> QED BY <1>1, <1>10, EditKeeps, Zenon

LEMMA WithAux ==
  ASSUME NEW t, IsTx(t), NEW aux, IsAux(aux), NEW u, u = [t EXCEPT !.aux = aux]
  PROVE  IsTx(u)
<1>1. t = [body |-> t.body, wits |-> t.wits, aux |-> t.aux, is_valid |-> t.is_valid, frame_size |-> t.frame_size]
  BY DEF IsTx
<1>2. u = [body |-> t.body, wits |-> t.wits, aux |-> aux, is_valid |-> t.is_valid, frame_size |-> t.frame_size]
  BY <1>1
<1>3. u.body = t.body /\ u.wits = t.wits /\ u.aux = aux /\ u.is_valid = t.is_valid /\ u.frame_size = t.frame_size
  BY <1>2
<1> QED BY <1>2, <1>3 DEF IsTx

LEMMA SetMetadataKeeps ==
  ASSUME CodecInv, SetMetadata
  PROVE  CodecInv'
<1> DEFINE a == tx.aux
           part == [a[1] EXCEPT !.metadata = a[1].metadata + 1]
           aux == [a EXCEPT ![1] = part]
           u == [tx EXCEPT !.aux = aux]
<1>1. tx # NULL /\ a # NULL /\ Edit(u, TRUE)
  BY DEF SetMetadata
<1>2. IsTx(tx)
  BY <1>1 DEF CodecInv
<1>3. /\ a = <<a[1]>> /\ a[1] = [cache |-> a[1].cache, metadata |-> a[1].metadata]
      /\ a[1].cache = NULL \/ IsPair(a[1].cache)
  BY <1>1, <1>2 DEF IsTx, IsAux
<1>4. u = [tx EXCEPT !.aux = aux]
  OBVIOUS
<1> HIDE DEF a, u
<1>5. part = [cache |-> a[1].cache, metadata |-> a[1].metadata + 1]
  <2> DEFINE r == a[1]
  <2>1. r = [cache |-> r.cache, metadata |-> r.metadata]
    BY <1>3
  <2> HIDE DEF r
  <2>2. [r EXCEPT !.metadata = r.metadata + 1] = [cache |-> r.cache, metadata |-> r.metadata + 1]
    BY <2>1
  <2> QED BY <2>2 DEF r
<1> HIDE DEF part
<1>6. part.cache = a[1].cache /\ part = [cache |-> part.cache, metadata |-> part.metadata]
  BY <1>5
<1>7. aux = <<part>>
  BY <1>3
<1> HIDE DEF aux
<1>8. aux[1] = part
  BY <1>7
<1>9. IsAux(aux)
  BY <1>3, <1>6, <1>7, <1>8 DEF IsAux
<1>10. IsTx(u)
  BY <1>2, <1>4, <1>9, WithAux
<1> QED BY <1>1, <1>10, EditKeeps, Zenon

LEMMA SetAuxiliaryDataKeeps ==
  ASSUME CodecInv, SetAuxiliaryData
  PROVE  CodecInv'
<1>1. PICK aux \in {NULL, <<[cache |-> NULL, metadata |-> 5]>>} :
        tx # NULL /\ Edit([tx EXCEPT !.aux = aux], TRUE)
  BY DEF SetAuxiliaryData
<1>2. IsTx(tx)
  BY <1>1 DEF CodecInv
<1>3. IsAux(aux)
  <2> DEFINE r == [cache |-> NULL, metadata |-> 5]
  <2>1. r.cache = NULL /\ r = [cache |-> r.cache, metadata |-> r.metadata]
    OBVIOUS
  <2>2. aux = NULL \/ aux = <<r>>
    BY <1>1
  <2> HIDE DEF r
  <2>3. aux = <<r>> => aux[1] = r
    OBVIOUS
  <2> QED BY <2>1, <2>2, <2>3 DEF IsAux
<1> DEFINE u == [tx EXCEPT !.aux = aux]
<1>4. u = [tx EXCEPT !.aux = aux] /\ Edit(u, TRUE)
  BY <1>1
<1> HIDE DEF u
<1>5. IsTx(u)
  BY <1>2, <1>3, <1>4, WithAux
<1> QED BY <1>1, <1>4, <1>5, EditKeeps

\* A field that is not NULL is an object.
LEMMA FieldIsObject ==
  ASSUME CodecInv, tx # NULL, NEW k \in FieldKeys, tx.wits.field[k] # NULL
  PROVE  IsObject(k, tx.wits.field[k][1])
<1>1. IsField(k, tx.wits.field[k])
  BY DEF CodecInv, IsTx, AreWitnesses
<1> QED BY <1>1 DEF IsField

LEMMA SetPlutusDataKeeps ==
  ASSUME CodecInv, SetPlutusData
  PROVE  CodecInv'
<1> DEFINE none == SetObject(TRUE, <<>>)
           one == SetObject(TRUE, <<data_new(7)>>)
<1>1. PICK f \in {NULL, <<none>>, <<one>>} : tx # NULL /\ Edit(WithField(tx, 4, f), TRUE)
  BY DEF SetPlutusData
<1>2. IsObject(4, none)
  BY EmptySetIsObject
<1>3. IsObject(4, one)
  <2> DEFINE items == <<data_new(7)>>
  <2>1. IsSequence(items)
    BY DEF IsSequence
  <2>2. one = [tagged |-> TRUE, items |-> items, cache |-> NULL]
    BY DEF SetObject
  <2> HIDE DEF items, one
  <2>3. one.items = items /\ one.cache = NULL
        /\ one = [tagged |-> one.tagged, items |-> one.items, cache |-> one.cache]
    BY <2>2
  <2> QED BY <2>1, <2>3 DEF IsObject, IsCache
<1> HIDE DEF none, one
<1>4. IsField(4, f) /\ 4 \in FieldKeys
  <2>1. IsField(4, <<none>>) /\ IsField(4, <<one>>)
    BY <1>2, <1>3, ObjectIsField
  <2>2. IsField(4, NULL) /\ 4 \in FieldKeys
    BY DEF IsField, FieldKeys
  <2> QED BY <1>1, <2>1, <2>2, Zenon
<1> QED BY <1>1, <1>4, EditFieldKeeps

LEMMA AddPlutusDataKeeps ==
  ASSUME CodecInv, AddPlutusData
  PROVE  CodecInv'
<1> DEFINE set == tx.wits.field[4][1]
           o == [set EXCEPT !.items = Append(@, data_new(6))]
<1>1. tx # NULL /\ tx.wits.field[4] # NULL /\ Edit(WithField(tx, 4, <<o>>), TRUE)
  BY DEF AddPlutusData
<1>2. 4 \in FieldKeys /\ IsObject(4, set)
  BY <1>1, FieldIsObject DEF FieldKeys
<1>3. IsObject(4, o)
  <2> HIDE DEF set
  <2>1. 4 \in {1, 4, 5}
    OBVIOUS
  <2> QED BY <1>2, <2>1, ItemAppended, Zenon
<1> HIDE DEF o
<1>4. IsField(4, <<o>>)
  BY <1>3, ObjectIsField
<1> QED BY <1>1, <1>2, <1>4, EditFieldKeeps

LEMMA EditPlutusDataKeeps ==
  ASSUME CodecInv, EditPlutusData
  PROVE  CodecInv'
<1> DEFINE set == tx.wits.field[4][1]
<1>1. /\ tx # NULL /\ tx.wits.field[4] # NULL
      /\ \E i \in 1 .. Len(set.items) : \E edit \in DataEdits(set.items[i], FALSE) :
           Edit(WithField(tx, 4, <<[set EXCEPT !.items[i] = edit[1]]>>), edit[2])
  BY DEF EditPlutusData
<1>2. 4 \in FieldKeys /\ IsObject(4, set)
  BY <1>1, FieldIsObject DEF FieldKeys
<1> HIDE DEF set
<1>3. PICK i \in 1 .. Len(set.items) : \E edit \in DataEdits(set.items[i], FALSE) :
           Edit(WithField(tx, 4, <<[set EXCEPT !.items[i] = edit[1]]>>), edit[2])
  BY <1>1
<1>4. PICK edit : Edit(WithField(tx, 4, <<[set EXCEPT !.items[i] = edit[1]]>>), edit[2])
  BY <1>3
<1> DEFINE o == [set EXCEPT !.items[i] = edit[1]]
<1>5. IsObject(4, o) /\ Edit(WithField(tx, 4, <<o>>), edit[2])
  <2>1. 4 \in {1, 4, 5}
    OBVIOUS
  <2> QED BY <1>2, <1>4, <2>1, ItemReplaced, Zenon
<1> HIDE DEF o
<1>6. IsField(4, <<o>>)
  BY <1>5, ObjectIsField
<1> QED BY <1>1, <1>2, <1>5, <1>6, EditFieldKeeps

LEMMA AddScriptKeeps ==
  ASSUME CodecInv, AddScript
  PROVE  CodecInv'
<1> DEFINE old == tx.wits.field[1]
           set == IF old = NULL THEN SetObject(TRUE, <<>>) ELSE old[1]
           o == [set EXCEPT !.items = Append(@, calls)]
<1>1. tx # NULL /\ Edit(WithField(tx, 1, <<o>>), TRUE)
  BY DEF AddScript
<1>2. 1 \in FieldKeys /\ (old # NULL => IsObject(1, old[1]))
  BY <1>1, FieldIsObject DEF FieldKeys
<1>3. IsObject(1, SetObject(TRUE, <<>>))
  BY EmptySetIsObject
<1>4. IsObject(1, set)
  BY <1>2, <1>3, Zenon
<1>5. IsObject(1, o)
  <2> HIDE DEF set
  <2>1. 1 \in {1, 4, 5}
    OBVIOUS
  <2> QED BY <1>4, <2>1, ItemAppended, Zenon
<1> HIDE DEF o
<1>6. IsField(1, <<o>>)
  BY <1>5, ObjectIsField
<1> QED BY <1>1, <1>2, <1>6, EditFieldKeeps

LEMMA SetRedeemerKeeps ==
  ASSUME CodecInv, tx # NULL, tx.wits.field[5] # NULL, NEW i \in 1 .. get_length(tx.wits, 5),
         NEW redeemer, NEW reached, SetRedeemer(i, redeemer, reached)
  PROVE  CodecInv'
<1> DEFINE list == tx.wits.field[5][1]
           o == [list EXCEPT !.items[i] = redeemer]
<1>1. Edit(WithField(tx, 5, <<o>>), reached)
  BY DEF SetRedeemer
<1>2. 5 \in FieldKeys /\ IsObject(5, list)
  BY FieldIsObject DEF FieldKeys
<1>3. i \in 1 .. Len(list.items)
  BY DEF get_length
<1>4. IsObject(5, o)
  <2> HIDE DEF list
  <2>1. 5 \in {1, 4, 5}
    OBVIOUS
  <2> QED BY <1>2, <1>3, <2>1, ItemReplaced, Zenon
<1> HIDE DEF o
<1>5. IsField(5, <<o>>)
  BY <1>4, ObjectIsField
<1> QED BY <1>1, <1>2, <1>5, EditFieldKeeps

LEMMA EditRedeemerKeeps ==
  ASSUME CodecInv, EditRedeemer
  PROVE  CodecInv'
<1>1. /\ tx # NULL /\ tx.wits.field[5] # NULL
      /\ \E i \in 1 .. get_length(tx.wits, 5) : \E redeemer, reached : SetRedeemer(i, redeemer, reached)
  BY Zenon DEF EditRedeemer
<1>2. PICK i \in 1 .. get_length(tx.wits, 5) : \E redeemer, reached : SetRedeemer(i, redeemer, reached)
  BY <1>1
<1>3. PICK redeemer, reached : SetRedeemer(i, redeemer, reached)
  BY <1>2
<1> QED BY <1>1, <1>3, SetRedeemerKeeps

LEMMA AddRedeemerKeeps ==
  ASSUME CodecInv, AddRedeemer
  PROVE  CodecInv'
<1> DEFINE old == tx.wits.field[5]
           empty == [items |-> <<>>, cache |-> NULL]
           list == IF old = NULL THEN empty ELSE old[1]
           added == [tag |-> 0, index |-> 1, data |-> data_new(4), units |-> 1, cache |-> NULL]
           o == redeemer_list_add(list, added)
<1>1. tx # NULL /\ Edit(WithField(tx, 5, <<o>>), TRUE)
  BY DEF AddRedeemer
<1>2. 5 \in FieldKeys /\ (old # NULL => IsObject(5, old[1]))
  BY <1>1, FieldIsObject DEF FieldKeys
<1>3. IsObject(5, empty)
  <2>1. empty.items = <<>> /\ empty.cache = NULL /\ empty = [items |-> empty.items, cache |-> empty.cache]
    OBVIOUS
  <2> HIDE DEF empty
  <2>2. IsSequence(<<>>)
    BY DEF IsSequence
  <2> QED BY <2>1, <2>2 DEF IsObject, IsCache
<1>4. IsObject(5, list)
  BY <1>2, <1>3, Zenon
<1> HIDE DEF added, list
<1>5. IsObject(5, o)
  <2> DEFINE items == array_sort(Append(list.items, added))
  <2>1. o = [list EXCEPT !.items = items]
    BY DEF redeemer_list_add
  <2>2. IsSequence(Append(list.items, added))
    BY <1>4, AppendedIsSequence DEF IsObject
  <2>3. IsSequence(items)
    BY <2>2, SortedIsSequence
  <2>4. 5 \in {1, 4, 5}
    OBVIOUS
  <2> HIDE DEF items, o
  <2> QED BY <1>4, <2>1, <2>3, <2>4, ItemsChanged, Zenon
<1> HIDE DEF o
<1>6. IsField(5, <<o>>)
  BY <1>5, ObjectIsField
<1> QED BY <1>1, <1>2, <1>6, EditFieldKeeps

LEMMA SetClonedRedeemersKeeps ==
  ASSUME CodecInv, SetClonedRedeemers
  PROVE  CodecInv'
<1> DEFINE list == tx.wits.field[5][1]
           bytes == redeemer_list_to_cbor(list)
           read == redeemer_list_from_cbor(bytes)
           o == redeemer_list_clone(list)
<1>1. tx # NULL /\ tx.wits.field[5] # NULL /\ Edit(WithField(tx, 5, <<o>>), TRUE)
  BY DEF SetClonedRedeemers
<1>2. 5 \in FieldKeys /\ IsObject(5, list)
  BY <1>1, FieldIsObject DEF FieldKeys
<1> HIDE DEF list
<1>3. IsSetBytes(bytes)
  <2>1. Encoded(5, list) = bytes
    BY DEF Encoded
  <2> QED BY <1>2, <2>1, EncodedIsBytes
<1>4. IsObject(5, read)
  <2>1. Decoded(5, bytes) = read
    BY DEF Decoded
  <2> HIDE DEF bytes, read
  <2>2. 5 # 0
    OBVIOUS
  <2> QED BY <1>2, <1>3, <2>1, <2>2, DecodedIsObject
<1>5. o = redeemer_list_clear_cbor_cache(read)
  BY DEF redeemer_list_clone
<1> HIDE DEF o, read
<1>6. IsObject(5, o)
  <2>1. IsSequence(read.items)
    BY <1>4 DEF IsObject
  <2> QED BY <1>5, <2>1, ClearedListIsObject
<1>7. IsField(5, <<o>>)
  BY <1>6, ObjectIsField
<1> QED BY <1>1, <1>2, <1>7, EditFieldKeeps

LEMMA CodecNextKeeps ==
  ASSUME CodecInv, [CodecNext]_codec_vars
  PROVE  CodecInv'
<1>1. CASE New
  BY <1>1, NewKeeps
<1>2. CASE \E bytes \in Docs : FromCbor(bytes)
  BY <1>2, FromCborKeeps
<1>3. CASE SendAndReceive
  BY <1>3, SendAndReceiveKeeps
<1>4. CASE \E new \in NewWitnesses : ApplyVkeyWitnesses(new)
  BY <1>4, ApplyKeeps
<1>5. CASE ClearCborCache
  BY <1>5, ClearCborCacheKeeps
<1>6. CASE SetIsValid
  BY <1>6, SetIsValidKeeps
<1>7. CASE SetFee
  BY <1>7, SetFeeKeeps
<1>8. CASE SetMetadata
  BY <1>8, SetMetadataKeeps
<1>9. CASE SetAuxiliaryData
  BY <1>9, SetAuxiliaryDataKeeps
<1>10. CASE SetPlutusData
  BY <1>10, SetPlutusDataKeeps
<1>11. CASE AddPlutusData
  BY <1>11, AddPlutusDataKeeps
<1>12. CASE EditPlutusData
  BY <1>12, EditPlutusDataKeeps
<1>13. CASE AddScript
  BY <1>13, AddScriptKeeps
<1>14. CASE EditRedeemer
  BY <1>14, EditRedeemerKeeps
<1>15. CASE AddRedeemer
  BY <1>15, AddRedeemerKeeps
<1>16. CASE SetClonedRedeemers
  BY <1>16, SetClonedRedeemersKeeps
<1>17. CASE UNCHANGED codec_vars
  <2>1. tx' = tx /\ received' = received /\ pristine' = pristine /\ signatures' = signatures
    BY <1>17 DEF codec_vars
  <2> QED BY <2>1 DEF CodecInv
<1> QED BY <1>1, <1>2, <1>3, <1>4, <1>5, <1>6, <1>7, <1>8, <1>9, <1>10, <1>11, <1>12, <1>13,
           <1>14, <1>15, <1>16, <1>17 DEF CodecNext

LEMMA CodecInvariant == CodecSpec => []CodecInv
<1>1. CodecInit => CodecInv
  BY DEF CodecInit, CodecInv
<1>2. CodecInv /\ [CodecNext]_codec_vars => CodecInv'
  BY CodecNextKeeps
<1> QED BY <1>1, <1>2, PTL DEF CodecSpec

\* Signing changes nothing that is signed or hashed (SigningKeepsBytes of TxCodec):
\* whatever transactions are received, whatever is applied to them and however
\* often they are sent on, the bytes that are hashed stay, for every codec of
\* Plutus data (transaction.c:538, witness_set.c).
THEOREM SigningKeeps == CodecSpec => []SigningKeepsBytes
<1>1. CodecInv => SigningKeepsBytes
  BY SignedIsKept
<1> QED BY <1>1, CodecInvariant, PTL

\* What is written can be read and is written again as the same bytes
\* (EncodingIsStable of TxCodec), after whatever edits and clearings.
THEOREM EncodingStays == CodecSpec => []EncodingIsStable
<1>1. CodecInv => EncodingIsStable
  BY EncodedIsStable
<1> QED BY <1>1, CodecInvariant, PTL
=============================================================================
