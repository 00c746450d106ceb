------------------------ MODULE SecureKeyHandlerProofs ------------------------
(***************************************************************************)
(* What the key handler keeps true, for any secrets, passphrases and paths *)
(* (fewer than fill a witness set), with a failure of any step, restarts   *)
(* and damaged storage.                                                    *)
(*                                                                         *)
(* The inductive invariant says of every step of a call which secrets are  *)
(* in memory (Memory), what has been checked and signed so far (Progress), *)
(* and of the storage that it reads as the handler written to it or as     *)
(* none (Restorable).                                                      *)
(***************************************************************************)
EXTENDS SecureKeyHandler, SequenceTheorems, TLAPS

Early == {"passphrase", "decrypt", "key"}
Loop  == {"to_ed25519", "sign", "witness_key", "witness"}
Steps == Early \cup Loop \cup {"hash", "derive", "public", "finish"}

Calls == [op : AllOperations, tx : Txs, paths : Seq(Paths), step : Steps, i : Nat]

\* The secrets that are in memory before a step.
Live(type, step) ==
    CASE step = "decrypt"               -> {"passphrase"}
      [] step = "key"                   -> {"decrypted_data"}
      [] step \in {"hash", "derive"}    -> {"root"}
      [] step = "to_ed25519"            -> {"root", "derived"}
      [] step = "public"                -> IF type = "BIP32" THEN {"derived"} ELSE {"root"}
      [] step \in {"sign", "witness_key"} ->
             IF type = "BIP32" THEN {"root", "signing"} ELSE {"root"}
      [] step \in {"witness", "finish"} -> IF type = "BIP32" THEN {"root"} ELSE {}
      [] OTHER                          -> {}

Memory ==
    secret = [o \in Objects |->
                IF call # Idle /\ o \in Live(handler.type, call.step) THEN "live" ELSE "none"]

\* The witnesses of the first n paths.
WitnessesOf(n) ==
    {[vkey |-> Derive(handler.encrypted_data[1], call.paths[j]), tx |-> call.tx] : j \in 1..n}

Witness == [vkey |-> handler.encrypted_data[1], tx |-> call.tx]

\* The call is within the loop over the paths.
InLoop(step, op) == step \in Loop \/ (step = "derive" /\ Signs(op))
Signing == InLoop(call.step, call.op)

\* The call that runs belongs to the handler, and each step to the call.
Fits ==
    /\ handler \in Handlers
    /\ call \in Calls
    /\ call.op \in Operations(handler.type)
    /\ call.step \in Loop \cup {"hash", "finish"} => Signs(call.op)
    /\ call.step = "public" => ~Signs(call.op)
    /\ call.step \in {"derive", "to_ed25519"} => handler.type = "BIP32"

Progress ==
    call # Idle =>
      /\ Fits
      /\ result = NoResult
      /\ call.step \notin {"passphrase", "decrypt"} => given = handler.encrypted_data[2]
      /\ ~Signing /\ call.step # "finish" => set = NULL /\ call.i = 1
      /\ call.i \in 1..Len(call.paths) + 1
      /\ Signing /\ handler.type = "BIP32" =>
             call.i \in 1..Len(call.paths) /\ set = WitnessesOf(call.i - 1)
      /\ Signing /\ handler.type = "ED25519" => set = {}
      /\ call.step = "finish" =>
             set = IF handler.type = "BIP32" THEN WitnessesOf(Len(call.paths)) ELSE {Witness}

\* What the storage holds reads as the handler that was saved, or as none.
Restorable ==
    deserialize(storage).error = "" => deserialize(storage).h = saved

Typed ==
    /\ handler \in Handlers \cup {NoHandler}
    /\ saved \in Handlers \cup {NoHandler}
    /\ given \in Passphrases \cup {NULL}

IInv ==
    /\ Typed /\ Memory /\ Progress /\ Restorable
    /\ AllWitnessesOrNone /\ OnlyWithPassphrase /\ RestoredIsSaved

-----------------------------------------------------------------------------
(* Lemmas about the operators of the model.                                *)

\* A call is not the idle one.
LEMMA CallIsNotIdle == \A c \in Calls : c # Idle
  BY DEF Calls, Idle, AllOperations, Operations

\* A call moves on: to another step, with everything else as it was.
LEMMA GotoKeeps ==
  ASSUME call \in Calls, NEW step \in Steps, Goto(step)
  PROVE  /\ call' \in Calls /\ call' # Idle
         /\ call'.step = step
         /\ call'.op = call.op /\ call'.tx = call.tx
         /\ call'.paths = call.paths /\ call'.i = call.i
<1>1. call' = [call EXCEPT !.step = step]
  BY DEF Goto
<1>2. call' \in Calls
  BY <1>1 DEF Calls
<1> QED
  BY <1>1, <1>2, CallIsNotIdle DEF Calls

\* What is released and what is added.
LEMMA MemoryKept ==
  /\ \A mem, objects : Without(mem, objects) =
        [o \in Objects |-> IF o \in objects THEN "none" ELSE mem[o]]
  /\ \A mem, object : With(mem, object) = [mem EXCEPT ![object] = "live"]
  BY DEF Without, With

LEMMA PathListsAreSequences == PathLists \subseteq Seq(Paths)
  BY DEF PathLists

-----------------------------------------------------------------------------
(* The storage.                                                            *)

Fields(h) == <<"magic", "version", h.type, 1, h.encrypted_data>>

IsSequence(s) == \E S : s \in Seq(S)

\* What Append does to a sequence, whatever its elements, and what undoes it.
LEMMA AppendToSequence ==
  ASSUME NEW s, IsSequence(s), NEW x
  PROVE  /\ IsSequence(Append(s, x))
         /\ Len(s) \in Nat
         /\ Len(Append(s, x)) = Len(s) + 1
         /\ \A i \in 1..Len(s) : Append(s, x)[i] = s[i]
         /\ Append(s, x)[Len(s) + 1] = x
         /\ SubSeq(Append(s, x), 1, Len(s)) = s
<1>1. PICK S : s \in Seq(S)
  BY DEF IsSequence
<1> DEFINE T == S \cup {x}
<1>2. s \in Seq(T) /\ x \in T
  BY <1>1, SeqMonotonic
<1> HIDE DEF T
<1>3. /\ Append(s, x) \in Seq(T)
      /\ Len(s) \in Nat
      /\ Len(Append(s, x)) = Len(s) + 1
      /\ \A i \in 1..Len(s) : Append(s, x)[i] = s[i]
      /\ Append(s, x)[Len(s) + 1] = x
  BY <1>2
<1>4. \A i \in 1..Len(s) : Append(s, x)[i] \in T
  BY <1>2, <1>3, ElementOfSeq
<1>5. /\ SubSeq(Append(s, x), 1, Len(s)) \in Seq(T)
      /\ Len(SubSeq(Append(s, x), 1, Len(s))) = Len(s)
      /\ \A i \in 1..Len(s) : SubSeq(Append(s, x), 1, Len(s))[i] = Append(s, x)[i]
  BY <1>3, <1>4, SubSeqProperties
<1>6. SubSeq(Append(s, x), 1, Len(s)) = s
  BY <1>2, <1>3, <1>5, SeqEqual
<1> QED
  BY <1>3, <1>6 DEF IsSequence

\* Two sequences of the same length and elements are the same.
LEMMA SameSequence ==
  ASSUME NEW s, IsSequence(s), NEW t, IsSequence(t), Len(s) = Len(t),
         \A i \in 1..Len(s) : s[i] = t[i]
  PROVE  s = t
<1>1. PICK S : s \in Seq(S)
  BY DEF IsSequence
<1>2. PICK T : t \in Seq(T)
  BY DEF IsSequence
<1> DEFINE U == S \cup T
<1>3. s \in Seq(U) /\ t \in Seq(U)
  BY <1>1, <1>2, SeqMonotonic
<1> HIDE DEF U
<1> QED BY <1>3, SeqEqual

\* The six fields of the bytes a handler is written as.
LEMMA Serialized ==
  ASSUME NEW h
  PROVE  /\ IsSequence(Fields(h)) /\ IsSequence(serialize(h))
         /\ Len(Fields(h)) = 5 /\ Len(serialize(h)) = 6
         /\ \A i \in 1..5 : serialize(h)[i] = Fields(h)[i]
         /\ serialize(h)[6] = Checksum(Fields(h))
         /\ SubSeq(serialize(h), 1, 5) = Fields(h)
<1>1. Fields(h) \in Seq({"magic", "version", h.type, 1, h.encrypted_data}) /\ Len(Fields(h)) = 5
  BY DEF Fields
<1>2. IsSequence(Fields(h))
  BY <1>1 DEF IsSequence
<1>3. serialize(h) = Append(Fields(h), Checksum(Fields(h)))
  BY DEF serialize, Fields
<1>4. Len(Fields(h)) = 5
  BY <1>1
<1> DEFINE s == Fields(h)
           x == Checksum(Fields(h))
           f == Append(s, x)
<1> HIDE DEF s, x
<1>5. /\ IsSequence(f)
      /\ Len(f) = Len(s) + 1
      /\ \A i \in 1..Len(s) : f[i] = s[i]
      /\ f[Len(s) + 1] = x
      /\ SubSeq(f, 1, Len(s)) = s
  <2>1. IsSequence(s)
    BY <1>2 DEF s
  <2> QED BY <2>1, AppendToSequence
<1> HIDE DEF f
<1>6. Len(s) = 5
  BY <1>4 DEF s
<1>7. /\ IsSequence(f) /\ Len(f) = 6 /\ f[6] = x
      /\ \A i \in 1..5 : f[i] = s[i]
      /\ SubSeq(f, 1, 5) = s
  BY <1>5, <1>6
<1> QED
  BY <1>2, <1>3, <1>4, <1>7 DEF s, x, f

\* The storage reads as the handler that was written to it.
LEMMA WrittenIsRead ==
  ASSUME NEW h \in Handlers
  PROVE  /\ deserialize(serialize(h)).error = ""
         /\ deserialize(serialize(h)).h = h
<1> DEFINE f == serialize(h)
<1>1. Len(f) = 6 /\ SubSeq(f, 1, 5) = Fields(h) /\ f[6] = Checksum(Fields(h))
  BY Serialized
<1>2. /\ f[1] = "magic" /\ f[2] = "version" /\ f[3] = h.type
      /\ f[4] = 1 /\ f[5] = h.encrypted_data
  <2>1. f[1] = Fields(h)[1] /\ f[2] = Fields(h)[2] /\ f[3] = Fields(h)[3]
        /\ f[4] = Fields(h)[4] /\ f[5] = Fields(h)[5]
    BY Serialized
  <2> QED BY <2>1 DEF Fields
<1> HIDE DEF f
<1>3. f # <<>>
  BY <1>1
<1>4. HeaderError(f) = ""
  BY <1>1, <1>2, <1>3 DEF HeaderError
<1>5. f[4 + f[4] + 1] = Checksum(SubSeq(f, 1, Len(f) - 1))
  <2>1. 4 + f[4] + 1 = 6 /\ Len(f) - 1 = 5
    BY <1>1, <1>2
  <2> QED BY <1>1, <2>1
<1>6. h = [type |-> f[3], encrypted_data |-> f[5]] /\ f[3] \in Types
  BY <1>2 DEF Handlers
<1> QED
  BY <1>2, <1>4, <1>5, <1>6 DEF deserialize, f

\* The field that the checksum is read from.
ReadSum(f) == f[4 + f[4] + 1]

LEMMA SumIsSixth == ASSUME NEW f, f[4] = 1 PROVE ReadSum(f) = f[6]
<1>1. \A n : n = 1 => 4 + n + 1 = 6
  OBVIOUS
<1>2. 4 + f[4] + 1 = 6
  BY <1>1, Zenon
<1> QED BY <1>2, Zenon DEF ReadSum

Whole(f) == ReadSum(f) = Checksum(SubSeq(f, 1, Len(f) - 1))

\* A handler is read only from fields that all are as they should be.
LEMMA ReadIsChecked ==
  ASSUME NEW f, deserialize(f).error = ""
  PROVE  HeaderError(f) = "" /\ Whole(f)
<1>1. CASE HeaderError(f) # ""
  <2>1. deserialize(f) = [error |-> HeaderError(f), h |-> NoHandler]
    BY <1>1, Zenon DEF deserialize
  <2>2. [error |-> HeaderError(f), h |-> NoHandler].error = HeaderError(f)
    OBVIOUS
  <2> QED BY <1>1, <2>1, <2>2, Zenon
<1>2. CASE HeaderError(f) = "" /\ ~Whole(f)
  <2>1. deserialize(f) = [error |-> "CHECKSUM_MISMATCH", h |-> NoHandler]
    BY <1>2, Zenon DEF deserialize, ReadSum, Whole
  <2>2. [error |-> "CHECKSUM_MISMATCH", h |-> NoHandler].error # ""
    OBVIOUS
  <2> QED BY <2>1, <2>2, Zenon
<1> QED BY <1>1, <1>2

\* The first five of six fields.
LEMMA FirstFive ==
  ASSUME NEW f, IsSequence(f), Len(f) = 6
  PROVE  /\ IsSequence(SubSeq(f, 1, 5)) /\ Len(SubSeq(f, 1, 5)) = 5
         /\ \A j \in 1..5 : SubSeq(f, 1, 5)[j] = f[j]
<1>1. PICK S : f \in Seq(S)
  BY DEF IsSequence
<1>2. \A j \in 1..5 : f[j] \in S
  <2>1. \A j \in 1..Len(f) : f[j] \in S
    BY <1>1, ElementOfSeq
  <2> QED BY <2>1
<1>3. /\ SubSeq(f, 1, 5) \in Seq(S) /\ Len(SubSeq(f, 1, 5)) = 5
      /\ \A j \in 1..5 : SubSeq(f, 1, 5)[j] = f[1 + j - 1]
  BY <1>1, <1>2, SubSeqProperties
<1>4. \A j \in 1..5 : 1 + j - 1 = j
  OBVIOUS
<1> QED BY <1>3, <1>4 DEF IsSequence

\* One field that reads differently.
Changed(s, i, new) == [s EXCEPT ![i] = new]

LEMMA FieldChanged ==
  ASSUME NEW s, IsSequence(s), NEW i \in 1..Len(s), NEW new
  PROVE  /\ IsSequence(Changed(s, i, new)) /\ Len(Changed(s, i, new)) = Len(s)
         /\ Changed(s, i, new)[i] = new
         /\ \A j \in 1..Len(s) : j # i => Changed(s, i, new)[j] = s[j]
         /\ new = s[i] => Changed(s, i, new) = s
<1> DEFINE f == [s EXCEPT ![i] = new]
<1>0. SUFFICES /\ IsSequence(f) /\ Len(f) = Len(s) /\ f[i] = new
               /\ \A j \in 1..Len(s) : j # i => f[j] = s[j]
               /\ new = s[i] => f = s
  BY DEF Changed
<1>1. PICK S : s \in Seq(S)
  BY DEF IsSequence
<1> DEFINE T == S \cup {new}
<1>2. s \in Seq(T) /\ new \in T
  BY <1>1, SeqMonotonic
<1> HIDE DEF T
<1>3. f \in Seq(T) /\ Len(f) = Len(s)
  BY <1>2, ExceptSeq
<1>4. DOMAIN s = 1..Len(s)
  BY <1>1
<1>5. f[i] = new /\ \A j \in 1..Len(s) : j # i => f[j] = s[j]
  BY <1>4
<1>6. new = s[i] => f = s
  BY <1>2, <1>3, <1>5, SeqEqual
<1> QED BY <1>3, <1>5, <1>6 DEF IsSequence

\* The fields of a handler, one by one.
LEMMA SerializedFields ==
  ASSUME NEW h
  PROVE  /\ Fields(h)[1] = "magic" /\ Fields(h)[2] = "version" /\ Fields(h)[4] = 1
         /\ serialize(h)[1] = "magic" /\ serialize(h)[2] = "version" /\ serialize(h)[4] = 1
<1>1. Fields(h)[1] = "magic" /\ Fields(h)[2] = "version" /\ Fields(h)[4] = 1
  BY DEF Fields
<1>2. /\ serialize(h)[1] = Fields(h)[1] /\ serialize(h)[2] = Fields(h)[2]
      /\ serialize(h)[4] = Fields(h)[4]
  BY Serialized
<1> QED BY <1>1, <1>2, Zenon

LEMMA ChecksumsDiffer == \A a, b : Checksum(a) = Checksum(b) => a = b
  BY DEF Checksum

\* Bytes that lost their end yield no handler.
LEMMA CutIsNoticed ==
  ASSUME NEW h
  PROVE  HeaderError(SubSeq(serialize(h), 1, 5)) # ""
<1> DEFINE f == SubSeq(serialize(h), 1, 5)
<1>1. Len(f) = 5 /\ f[4] = 1
  <2>1. f = Fields(h) /\ Len(Fields(h)) = 5 /\ Fields(h)[4] = 1
    BY Serialized, SerializedFields, Zenon
  <2> QED BY <2>1, Zenon
<1> HIDE DEF f
<1>2. HeaderError(f) # ""
  BY <1>1 DEF HeaderError
<1> QED BY <1>2 DEF f

\* Nor do bytes with something behind them.
LEMMA MoreIsNoticed ==
  ASSUME NEW h, NEW x
  PROVE  ~Whole(Append(serialize(h), x))
<1> DEFINE s == serialize(h)
           f == Append(s, x)
<1>1. /\ Len(f) = Len(s) + 1 /\ SubSeq(f, 1, Len(s)) = s
      /\ \A i \in 1..Len(s) : f[i] = s[i]
  <2>1. IsSequence(s)
    BY Serialized
  <2> HIDE DEF s
  <2> QED BY <2>1, AppendToSequence
<1>2. Len(s) = 6 /\ s[6] = Checksum(Fields(h)) /\ Len(Fields(h)) = 5 /\ s[4] = 1
  BY Serialized, SerializedFields, Zenon
<1> HIDE DEF f, s
<1>3. Len(f) - 1 = 6 /\ SubSeq(f, 1, 6) = s /\ f[6] = s[6] /\ f[4] = 1
  BY <1>1, <1>2
<1>4. ReadSum(f) = s[6]
  BY <1>3, SumIsSixth, Zenon
<1>5. s # Fields(h)
  BY <1>2
<1>6. ~Whole(f)
  BY <1>2, <1>3, <1>4, <1>5, ChecksumsDiffer, Zenon DEF Whole
<1> QED BY <1>6 DEF f, s

\* Bytes with one field that reads differently are the ones written, or yield
\* no handler.
LEMMA ChangeIsNoticed ==
  ASSUME NEW h, NEW i \in 1..6, NEW new, i = 4 => new \in {0, 2}
  PROVE  \/ Changed(serialize(h), i, new) = serialize(h)
         \/ HeaderError(Changed(serialize(h), i, new)) # ""
         \/ ~Whole(Changed(serialize(h), i, new))
<1> DEFINE s == serialize(h)
           f == Changed(s, i, new)
           g == SubSeq(f, 1, 5)
<1>0. SUFFICES f = s \/ HeaderError(f) # "" \/ ~Whole(f)
  OBVIOUS
<1>1. /\ IsSequence(s) /\ Len(s) = 6 /\ s[6] = Checksum(Fields(h))
      /\ IsSequence(Fields(h)) /\ Len(Fields(h)) = 5
      /\ \A j \in 1..5 : s[j] = Fields(h)[j]
      /\ s[1] = "magic" /\ s[2] = "version" /\ s[4] = 1
  BY Serialized, SerializedFields, Zenon
<1> HIDE DEF s
<1>2. /\ IsSequence(f) /\ Len(f) = Len(s) /\ f[i] = new
      /\ \A j \in 1..Len(s) : j # i => f[j] = s[j]
      /\ new = s[i] => f = s
  <2>1. i \in 1..Len(s)
    BY <1>1
  <2>3. IsSequence(s)
    BY <1>1
  <2>4. /\ IsSequence(Changed(s, i, new)) /\ Len(Changed(s, i, new)) = Len(s)
    BY <2>1, <2>3, FieldChanged
  <2>5. Changed(s, i, new)[i] = new
    BY <2>1, <2>3, FieldChanged
  <2>6. \A j \in 1..Len(s) : j # i => Changed(s, i, new)[j] = s[j]
    BY <2>1, <2>3, FieldChanged
  <2>7. new = s[i] => Changed(s, i, new) = s
    BY <2>1, <2>3, FieldChanged
  <2> QED BY <2>4, <2>5, <2>6, <2>7
<1> HIDE DEF f
<1>3. Len(f) = 6 /\ \A j \in 1..6 : j # i => f[j] = s[j]
  BY <1>1, <1>2
<1>4. CASE new = s[i]
  BY <1>2, <1>4, Zenon
<1>5. CASE new # s[i] /\ i \in {1, 2, 4}
  <2>1. CASE i = 1
    BY <1>1, <1>2, <1>3, <1>5, <2>1 DEF HeaderError
  <2>2. CASE i = 2
    BY <1>1, <1>2, <1>3, <1>5, <2>2 DEF HeaderError
  <2>3. CASE i = 4
    BY <1>1, <1>2, <1>3, <1>5, <2>3 DEF HeaderError
  <2> QED BY <1>5, <2>1, <2>2, <2>3
<1>6. CASE new # s[i] /\ i \in {3, 5, 6}
  <2>1. f[4] = 1
    BY <1>1, <1>3, <1>6
  <2>2. ReadSum(f) = f[6] /\ Len(f) - 1 = 5
    BY <1>3, <2>1, SumIsSixth
  <2>3. IsSequence(g) /\ Len(g) = 5 /\ \A j \in 1..5 : g[j] = f[j]
    BY <1>2, <1>3, FirstFive, Zenon
  <2>4. ~Whole(f)
    <3>1. SUFFICES ASSUME f[6] = Checksum(g) PROVE FALSE
      BY <2>2, Zenon DEF Whole
    <3> HIDE DEF g
    <3>2. CASE i \in {3, 5}
      <4>1. f[6] = s[6]
        BY <1>3, <3>2
      <4>2. g = Fields(h)
        BY <1>1, <3>1, <4>1, ChecksumsDiffer, ZenonT(60)
      <4>3. g[i] = f[i] /\ s[i] = Fields(h)[i]
        <5>1. i \in 1..5
          BY <3>2
        <5>2. g[i] = f[i]
          BY <2>3, <5>1, Zenon
        <5>3. s[i] = Fields(h)[i]
          BY <1>1, <3>2
        <5> QED BY <5>2, <5>3
      <4> QED BY <1>2, <1>6, <4>2, <4>3, Zenon
    <3>3. CASE i = 6
      <4>1. \A j \in 1..5 : g[j] = Fields(h)[j]
        BY <1>1, <1>3, <2>3, <3>3
      <4>2. g = Fields(h)
        BY <1>1, <2>3, <4>1, SameSequence
      <4> QED BY <1>1, <1>2, <1>6, <3>1, <3>3, <4>2, Zenon
    <3> QED BY <1>6, <3>2, <3>3
  <2> QED BY <2>4
<1>7. i \in {1, 2, 4} \/ i \in {3, 5, 6}
  OBVIOUS
<1> QED BY <1>4, <1>5, <1>6, <1>7, Zenon

\* Where nothing is read, there is no handler.
LEMMA NoneIsRead ==
  ASSUME NEW f, deserialize(f).error # ""
  PROVE  deserialize(f).h = NoHandler
<1>1. CASE HeaderError(f) # ""
  <2>1. deserialize(f) = [error |-> HeaderError(f), h |-> NoHandler]
    BY <1>1, Zenon DEF deserialize
  <2>2. [error |-> HeaderError(f), h |-> NoHandler].h = NoHandler
    OBVIOUS
  <2> QED BY <2>1, <2>2, Zenon
<1>2. CASE HeaderError(f) = "" /\ ~Whole(f)
  <2>1. deserialize(f) = [error |-> "CHECKSUM_MISMATCH", h |-> NoHandler]
    BY <1>2, Zenon DEF deserialize, ReadSum, Whole
  <2>2. [error |-> "CHECKSUM_MISMATCH", h |-> NoHandler].h = NoHandler
    OBVIOUS
  <2> QED BY <2>1, <2>2, Zenon
<1>3. CASE HeaderError(f) = "" /\ Whole(f) /\ f[3] \notin Types
  <2>1. deserialize(f) = [error |-> "DECODING", h |-> NoHandler]
    BY <1>3, Zenon DEF deserialize, ReadSum, Whole
  <2>2. [error |-> "DECODING", h |-> NoHandler].h = NoHandler
    OBVIOUS
  <2> QED BY <2>1, <2>2, Zenon
<1>4. CASE HeaderError(f) = "" /\ Whole(f) /\ f[3] \in Types
  <2> DEFINE x == [type |-> f[3],
                   encrypted_data |-> IF f[4] = 1 THEN f[5] ELSE SubSeq(f, 5, 4 + f[4])]
  <2>1. deserialize(f) = [error |-> "", h |-> x]
    BY <1>4, Zenon DEF deserialize, ReadSum, Whole
  <2> HIDE DEF x
  <2>2. [error |-> "", h |-> x].error = ""
    OBVIOUS
  <2> QED BY <2>1, <2>2, Zenon
<1> QED BY <1>1, <1>2, <1>3, <1>4, Zenon

\* An empty storage yields no handler.
LEMMA NothingIsRead == deserialize(<<>>).error # ""
<1> DEFINE f == <<>>
<1>1. HeaderError(f) # ""
  BY DEF HeaderError
<1> QED BY <1>1, ReadIsChecked, Zenon

-----------------------------------------------------------------------------
(* What every step of a call, and every return, keeps.                     *)

LEMMA NoHandlerIsNone == NoHandler \notin Handlers
  BY DEF NoHandler, Handlers, Types

LEMMA OperationNames ==
  /\ \A type \in Types : Operations(type) \subseteq AllOperations
  /\ \A op \in AllOperations : op \notin {"none", "new", "serialize", "deserialize"}
  /\ \A op : Signs(op) => op \in AllOperations
  /\ Operations("BIP32") \cap Operations("ED25519") = {}
  BY DEF Types, Operations, AllOperations, Signs

\* A call that moves on.
LEMMA MovesOn ==
  ASSUME IInv, call # Idle, call' # Idle, UNCHANGED <<handler, saved, storage, result>>,
         given' \in Passphrases \cup {NULL}, Memory', Progress'
  PROVE  IInv'
<1>1. result = NoResult
  BY DEF IInv, Progress
<1>2. Typed' /\ Restorable'
  BY DEF IInv, Typed, Restorable
<1>3. AllWitnessesOrNone' /\ OnlyWithPassphrase'
  BY DEF AllWitnessesOrNone, OnlyWithPassphrase, Signed
<1>4. RestoredIsSaved'
  BY <1>1 DEF RestoredIsSaved, NoResult
<1> QED BY <1>2, <1>3, <1>4 DEF IInv

\* A call that returns.
LEMMA Returns ==
  ASSUME IInv, call # Idle, NEW status, NEW released, Return(status, released),
         UNCHANGED <<handler, saved, given, storage>>,
         Live(handler.type, call.step) \subseteq released,
         status # "SUCCESS" /\ Signs(call.op) => set' = NULL,
         status = "SUCCESS" => given = handler.encrypted_data[2],
         status = "SUCCESS" /\ Signs(call.op) =>
             set' = {[vkey |-> k, tx |-> call.tx] : k \in KeysFor(handler, call.paths)}
  PROVE  IInv'
<1>1. Typed' /\ Restorable'
  BY DEF IInv, Typed, Restorable
<1>2. call' = Idle /\ Progress'
  BY DEF Return, Progress
<1>3. Memory'
  <2>1. secret' = [o \in Objects |-> IF o \in released THEN "none" ELSE secret[o]]
    BY DEF Return, Without
  <2>2. secret = [o \in Objects |-> IF o \in Live(handler.type, call.step) THEN "live" ELSE "none"]
    BY DEF IInv, Memory
  <2>3. secret' = [o \in Objects |-> "none"]
    BY <2>1, <2>2
  <2> QED BY <1>2, <2>3 DEF Memory
<1>4. result'.op = call.op /\ result'.status = status /\ result'.tx = call.tx
      /\ result'.paths = call.paths
  BY DEF Return
<1>5. AllWitnessesOrNone'
  BY <1>4 DEF AllWitnessesOrNone, Signed, KeysFor
<1>6. OnlyWithPassphrase'
  BY <1>4 DEF OnlyWithPassphrase
<1>7. RestoredIsSaved'
  <2>1. call.op \in AllOperations
    BY DEF IInv, Progress, Fits, Calls
  <2>2. result'.op # "deserialize"
    BY <1>4, <2>1, OperationNames
  <2> QED BY <2>2 DEF RestoredIsSaved
<1> QED BY <1>1, <1>2, <1>3, <1>5, <1>6, <1>7 DEF IInv

-----------------------------------------------------------------------------
(* Creation and storage.                                                   *)

\* A step between calls, whose result is not the one of a call.
LEMMA StaysIdle ==
  ASSUME IInv, call = Idle, UNCHANGED <<call, secret>>, Typed', Restorable', RestoredIsSaved',
         result'.op \notin AllOperations
  PROVE  IInv'
<1>1. Memory' /\ Progress'
  BY DEF IInv, Memory, Progress
<1>2. AllWitnessesOrNone' /\ OnlyWithPassphrase'
  BY OperationNames DEF AllWitnessesOrNone, Signed, OnlyWithPassphrase
<1> QED BY <1>1, <1>2 DEF IInv

LEMMA HandlerNewKeeps ==
  ASSUME IInv, NEW type \in Types, NEW s \in Secrets, NEW p \in Passphrases,
         HandlerNew(type, s, p)
  PROVE  IInv'
<1>1. result'.op = "new" /\ call = Idle /\ UNCHANGED <<call, secret>>
  BY DEF HandlerNew
<1>2. handler' = handler \/ handler' \in Handlers
  BY DEF HandlerNew, Handlers, Seal
<1>3. Typed' /\ Restorable'
  BY <1>2 DEF HandlerNew, IInv, Typed, Restorable
<1>4. RestoredIsSaved'
  BY <1>1 DEF RestoredIsSaved
<1> QED BY <1>1, <1>3, <1>4, StaysIdle, OperationNames

LEMMA UnrefKeeps == ASSUME IInv, Unref PROVE IInv'
<1>1. Typed' /\ Restorable' /\ RestoredIsSaved'
  BY DEF Unref, IInv, Typed, Restorable, RestoredIsSaved
<1>2. Memory' /\ Progress'
  BY DEF Unref, IInv, Memory, Progress
<1>3. AllWitnessesOrNone' /\ OnlyWithPassphrase'
  BY DEF Unref, IInv, AllWitnessesOrNone, Signed, OnlyWithPassphrase
<1> QED BY <1>1, <1>2, <1>3 DEF IInv

LEMMA SerializeKeeps == ASSUME IInv, Serialize PROVE IInv'
<1>1. result'.op = "serialize" /\ call = Idle /\ UNCHANGED <<call, secret>>
  BY DEF Serialize
<1>2. handler \in Handlers
  BY DEF Serialize, IInv, Typed
<1>3. Typed'
  BY DEF Serialize, IInv, Typed
<1>4. Restorable'
  <2>1. CASE storage' = serialize(handler) /\ saved' = handler
    BY <1>2, <2>1, WrittenIsRead, Zenon DEF Restorable
  <2>2. CASE UNCHANGED <<storage, saved>>
    BY <2>2 DEF Restorable, IInv
  <2> QED BY <2>1, <2>2 DEF Serialize
<1>5. RestoredIsSaved'
  BY <1>1 DEF RestoredIsSaved
<1> QED BY <1>1, <1>3, <1>4, <1>5, StaysIdle, OperationNames

LEMMA DeserializeKeeps == ASSUME IInv, Deserialize PROVE IInv'
<1>1. result'.op = "deserialize" /\ call = Idle /\ UNCHANGED <<call, secret>>
  <2>1. \E status : result' = [op |-> "deserialize", status |-> status]
    BY Zenon DEF Deserialize
  <2>2. result'.op = "deserialize"
    BY <2>1
  <2> QED BY <2>2, Zenon DEF Deserialize
<1>2. deserialize(storage).h \in {saved, NoHandler}
  BY NoneIsRead DEF IInv, Restorable
<1>3. Typed' /\ Restorable'
  BY <1>2 DEF Deserialize, IInv, Typed, Restorable
<1>4. RestoredIsSaved'
  BY <1>2 DEF Deserialize, RestoredIsSaved
<1> QED BY <1>1, <1>3, <1>4, StaysIdle, OperationNames

LEMMA StorageDamagedKeeps == ASSUME IInv, StorageDamaged PROVE IInv'
<1>1. saved \in Handlers /\ storage = serialize(saved) /\ Len(storage) = 6
  BY Serialized DEF StorageDamaged, IInv, Typed
<1>2. Restorable'
  <2>1. SUFFICES ASSUME deserialize(storage').error = "" PROVE deserialize(storage').h = saved
    BY DEF StorageDamaged, Restorable
  <2>2. HeaderError(storage') = "" /\ Whole(storage')
    BY <2>1, ReadIsChecked, Zenon
  <2>3. CASE storage' = SubSeq(storage, 1, Len(storage) - 1)
    <3>1. Len(storage) - 1 = 5
      BY <1>1
    <3> QED BY <1>1, <2>2, <2>3, <3>1, CutIsNoticed, Zenon
  <2>4. CASE storage' = Append(storage, Junk)
    BY <1>1, <2>2, <2>4, MoreIsNoticed, Zenon
  <2>5. ASSUME NEW i \in 1..6, NEW new, i = 4 => new \in {0, 2},
               storage' = [storage EXCEPT ![i] = new]
        PROVE  deserialize(storage').h = saved
    <3>1. storage' = Changed(serialize(saved), i, new)
      BY <1>1, <2>5, Zenon DEF Changed
    <3> DEFINE f == Changed(serialize(saved), i, new)
    <3>2. f = serialize(saved) \/ HeaderError(f) # "" \/ ~Whole(f)
      BY <2>5, ChangeIsNoticed
    <3>3. storage' = serialize(saved)
      BY <2>2, <3>1, <3>2, Zenon
    <3> QED BY <1>1, <3>3, WrittenIsRead, Zenon
  <2>6. \/ storage' = SubSeq(storage, 1, Len(storage) - 1)
        \/ storage' = Append(storage, Junk)
        \/ \E i \in 1..6 : \E new : /\ i = 4 => new \in {0, 2}
                                    /\ storage' = [storage EXCEPT ![i] = new]
    BY <1>1 DEF StorageDamaged
  <2> QED BY <2>3, <2>4, <2>5, <2>6, Zenon
<1>3. UNCHANGED <<handler, saved, call, secret, given, set, result>>
  BY DEF StorageDamaged
<1> HIDE DEF StorageDamaged
<1>4. Typed' /\ RestoredIsSaved' /\ Memory' /\ Progress'
  BY <1>3 DEF IInv, Typed, RestoredIsSaved, Memory, Progress, Fits, Signing, InLoop, WitnessesOf, Witness
<1>5. AllWitnessesOrNone' /\ OnlyWithPassphrase'
  BY <1>3 DEF IInv, AllWitnessesOrNone, Signed, OnlyWithPassphrase
<1> QED BY <1>2, <1>4, <1>5 DEF IInv

LEMMA RestartKeeps == ASSUME IInv, Restart PROVE IInv'
<1>1. result'.op = "none" /\ call' = Idle /\ handler' = NoHandler
  BY DEF Restart, NoResult
<1>2. Typed' /\ Restorable' /\ RestoredIsSaved'
  BY <1>1 DEF Restart, IInv, Typed, Restorable, RestoredIsSaved
<1>3. Memory' /\ Progress'
  BY <1>1 DEF Restart, Memory, Progress, AllGone
<1>4. AllWitnessesOrNone' /\ OnlyWithPassphrase'
  BY <1>1, OperationNames DEF AllWitnessesOrNone, Signed, OnlyWithPassphrase
<1> QED BY <1>2, <1>3, <1>4 DEF IInv

-----------------------------------------------------------------------------
(* The steps of a call.                                                    *)

LiveMemory(type, step) ==
    [o \in Objects |-> IF o \in Live(type, step) THEN "live" ELSE "none"]

\* What a call that runs has behind it.
LEMMA InCall ==
  ASSUME IInv, call # Idle
  PROVE  /\ Fits /\ result = NoResult /\ secret = LiveMemory(handler.type, call.step)
         /\ given \in Passphrases \cup {NULL}
         /\ call.step \notin {"passphrase", "decrypt"} => given = handler.encrypted_data[2]
         /\ ~Signing /\ call.step # "finish" => set = NULL /\ call.i = 1
         /\ call.i \in 1..Len(call.paths) + 1
         /\ Signing /\ handler.type = "BIP32" =>
                call.i \in 1..Len(call.paths) /\ set = WitnessesOf(call.i - 1)
         /\ Signing /\ handler.type = "ED25519" => set = {}
         /\ call.step = "finish" =>
                set = IF handler.type = "BIP32" THEN WitnessesOf(Len(call.paths)) ELSE {Witness}
         /\ handler.type \in Types
  BY DEF IInv, Progress, Typed, Memory, LiveMemory, Fits, Handlers

\* A step of a call that went well: the next step finds in memory and in the set
\* what it needs.
LEMMA GoesOn ==
  ASSUME IInv, call # Idle, NEW step \in Steps, Goto(step),
         UNCHANGED <<handler, saved, storage, result>>,
         given' \in Passphrases \cup {NULL},
         secret' = LiveMemory(handler.type, step),
         step \in Loop \cup {"hash", "finish"} => Signs(call.op),
         step = "public" => ~Signs(call.op),
         step \in {"derive", "to_ed25519"} => handler.type = "BIP32",
         step \notin {"passphrase", "decrypt"} => given' = handler.encrypted_data[2],
         ~InLoop(step, call.op) /\ step # "finish" => set' = NULL /\ call.i = 1,
         InLoop(step, call.op) /\ handler.type = "BIP32" =>
             call.i \in 1..Len(call.paths) /\ set' = WitnessesOf(call.i - 1),
         InLoop(step, call.op) /\ handler.type = "ED25519" => set' = {},
         step = "finish" =>
             set' = IF handler.type = "BIP32" THEN WitnessesOf(Len(call.paths)) ELSE {Witness}
  PROVE  IInv'
<1>1. Fits /\ result = NoResult /\ call.i \in 1..Len(call.paths) + 1
  BY InCall
<1>2. /\ call' \in Calls /\ call' # Idle
      /\ call'.step = step
      /\ call'.op = call.op /\ call'.tx = call.tx
      /\ call'.paths = call.paths /\ call'.i = call.i
  BY <1>1, GotoKeeps DEF Fits
<1>3. Memory'
  BY <1>2 DEF Memory, LiveMemory
<1>4. Progress'
  <2>1. Fits'
    BY <1>1, <1>2 DEF Fits
  <2>3. Witness' = Witness
    BY <1>2 DEF Witness
  <2>4. Signing' = InLoop(step, call.op)
    BY <1>2 DEF Signing
  <2>5. /\ (result = NoResult)'
        /\ call'.step \notin {"passphrase", "decrypt"} => given' = handler'.encrypted_data[2]
        /\ ~Signing' /\ call'.step # "finish" => set' = NULL /\ call'.i = 1
        /\ call'.i \in 1..Len(call'.paths) + 1
        /\ Signing' /\ handler'.type = "BIP32" =>
               call'.i \in 1..Len(call'.paths) /\ set' = WitnessesOf(call.i - 1)
        /\ Signing' /\ handler'.type = "ED25519" => set' = {}
        /\ call'.step = "finish" =>
               set' = IF handler'.type = "BIP32" THEN WitnessesOf(Len(call.paths)) ELSE {Witness}
    BY <1>1, <1>2, <2>4 DEF NoResult
  <2>6. /\ WitnessesOf(call.i - 1)' = WitnessesOf(call.i - 1)
        /\ WitnessesOf(Len(call.paths))' = WitnessesOf(Len(call.paths))
    BY <1>2 DEF WitnessesOf
  <2> HIDE DEF Witness, WitnessesOf
  <2> QED BY <2>1, <2>3, <2>5, <2>6 DEF Progress
<1> QED BY <1>2, <1>3, <1>4, MovesOn

\* A call begins, or the handler has no such function.
LEMMA BeginKeeps ==
  ASSUME IInv, NEW op \in AllOperations, NEW tx \in Txs, NEW paths \in PathLists,
         Begin(op, tx, paths)
  PROVE  IInv'
<1>1. handler \in Handlers /\ call = Idle /\ UNCHANGED <<handler, saved, secret, storage>>
      /\ given' = NULL /\ set' = NULL
  BY DEF Begin, IInv, Typed
<1>2. paths \in Seq(Paths)
  BY PathListsAreSequences
<1>3. Typed' /\ Restorable'
  BY <1>1 DEF IInv, Typed, Restorable
<1>4. CASE op \in Operations(handler.type)
  <2>1. /\ call' = [op |-> op, tx |-> tx, paths |-> paths, step |-> "passphrase", i |-> 1]
        /\ result' = NoResult
    BY <1>4 DEF Begin
  <2>2. /\ call'.op = op /\ call'.step = "passphrase" /\ call'.i = 1 /\ call'.paths = paths
        /\ call' \in Calls
    BY <1>2, <2>1 DEF Calls, Steps, Early
  <2>3. call' # Idle
    BY <2>2, CallIsNotIdle
  <2>4. Memory'
    BY <1>1, <2>2 DEF IInv, Memory, Live
  <2>5. Progress'
    <3>1. Fits'
      BY <1>1, <1>4, <2>2 DEF Fits, Loop
    <3>2. ~Signing'
      BY <2>2 DEF Signing, InLoop, Loop
    <3>3. call'.i \in 1..Len(call'.paths) + 1
      BY <1>2, <2>2
    <3> QED BY <1>1, <2>1, <2>2, <3>1, <3>2, <3>3 DEF Progress, NoResult
  <2>6. AllWitnessesOrNone' /\ OnlyWithPassphrase'
    BY <2>3 DEF AllWitnessesOrNone, Signed, OnlyWithPassphrase
  <2>7. RestoredIsSaved'
    BY <2>1 DEF RestoredIsSaved, NoResult
  <2> QED BY <1>3, <2>4, <2>5, <2>6, <2>7 DEF IInv
<1>5. CASE op \notin Operations(handler.type)
  <2>1. UNCHANGED call /\ result' = [op |-> op, status |-> "NOT_IMPLEMENTED"]
    BY <1>5 DEF Begin
  <2>2. Memory' /\ Progress'
    BY <1>1, <2>1 DEF IInv, Memory, Progress
  <2>3. AllWitnessesOrNone' /\ OnlyWithPassphrase' /\ RestoredIsSaved'
    BY <1>1, <2>1 DEF AllWitnessesOrNone, Signed, OnlyWithPassphrase, RestoredIsSaved
  <2> QED BY <1>3, <2>2, <2>3 DEF IInv
<1> QED BY <1>4, <1>5

LEMMA GetPassphraseKeeps == ASSUME IInv, GetPassphrase PROVE IInv'
<1>1. call # Idle /\ call.step = "passphrase" /\ Goto("decrypt")
      /\ UNCHANGED <<handler, saved, set, result, storage>>
      /\ given' \in Passphrases \cup {NULL}
  BY DEF GetPassphrase, At
<1>2. set = NULL /\ call.i = 1 /\ secret = LiveMemory(handler.type, "passphrase")
  BY <1>1, InCall DEF Signing, InLoop, Loop
<1>3. secret' = LiveMemory(handler.type, "decrypt")
  BY <1>2 DEF GetPassphrase, With, LiveMemory, Live, Objects
<1>4. "decrypt" \in Steps /\ ~InLoop("decrypt", call.op) /\ "decrypt" \notin Loop
  BY DEF Steps, Early, InLoop, Loop
<1> QED BY <1>1, <1>2, <1>3, <1>4, GoesOn

LEMMA DecryptKeeps == ASSUME IInv, Decrypt PROVE IInv'
<1>1. call # Idle /\ call.step = "decrypt" /\ UNCHANGED <<handler, saved, given, set, storage>>
  BY DEF Decrypt, At
<1>2. /\ Fits /\ set = NULL /\ call.i = 1 /\ secret = LiveMemory(handler.type, "decrypt")
      /\ given \in Passphrases \cup {NULL}
  BY <1>1, InCall DEF Signing, InLoop, Loop
<1>3. CASE \E s \in Secrets : handler.encrypted_data = Seal(s, given)
           /\ secret' = With(Without(secret, {"passphrase"}), "decrypted_data")
           /\ Goto("key") /\ UNCHANGED result
  <2>1. given = handler.encrypted_data[2] /\ Goto("key") /\ UNCHANGED result
        /\ secret' = With(Without(secret, {"passphrase"}), "decrypted_data")
    BY <1>3 DEF Seal
  <2>2. secret' = LiveMemory(handler.type, "key")
    BY <1>2, <2>1 DEF With, Without, LiveMemory, Live, Objects
  <2>3. "key" \in Steps /\ ~InLoop("key", call.op) /\ "key" \notin Loop
    BY DEF Steps, Early, InLoop, Loop
  <2> QED BY <1>1, <1>2, <2>1, <2>2, <2>3, GoesOn
<1>4. CASE Return(IF given = NULL THEN "INVALID_PASSPHRASE" ELSE "FAILED",
                  {"passphrase", "decrypted_data"})
  <2> DEFINE status == IF given = NULL THEN "INVALID_PASSPHRASE" ELSE "FAILED"
             released == {"passphrase", "decrypted_data"}
  <2>1. Live(handler.type, call.step) \subseteq released
    BY <1>1 DEF Live
  <2>2. status # "SUCCESS" /\ Return(status, released)
    BY <1>4
  <2> HIDE DEF status, released
  <2> QED BY <1>1, <1>2, <2>1, <2>2, Returns
<1> QED BY <1>3, <1>4 DEF Decrypt

LEMMA MakeKeyStepKeeps == ASSUME IInv, MakeKey PROVE IInv'
<1>1. call # Idle /\ call.step = "key" /\ UNCHANGED <<handler, saved, given, set, storage>>
  BY DEF MakeKey, At
<1>2. /\ Fits /\ set = NULL /\ call.i = 1 /\ secret = LiveMemory(handler.type, "key")
      /\ given \in Passphrases \cup {NULL} /\ given = handler.encrypted_data[2]
      /\ handler.type \in Types
  BY <1>1, InCall DEF Signing, InLoop, Loop
<1>3. ASSUME secret' = With(Without(secret, {"decrypted_data"}), "root"),
             Goto(IF Signs(call.op) THEN "hash"
                  ELSE IF handler.type = "BIP32" THEN "derive" ELSE "public"),
             UNCHANGED result
      PROVE  IInv'
  <2> DEFINE step == IF Signs(call.op) THEN "hash"
                     ELSE IF handler.type = "BIP32" THEN "derive" ELSE "public"
  <2>1. secret' = LiveMemory(handler.type, step)
    BY <1>2, <1>3 DEF With, Without, LiveMemory, Live, Objects
  <2>2. /\ step \in Steps /\ ~InLoop(step, call.op) /\ step \notin Loop \cup {"finish", "to_ed25519"}
        /\ step = "hash" => Signs(call.op)
        /\ step = "public" => ~Signs(call.op)
        /\ step = "derive" => handler.type = "BIP32"
    BY DEF Steps, InLoop, Loop
  <2>3. Goto(step)
    BY <1>3
  <2> HIDE DEF step
  <2> QED BY <1>1, <1>2, <1>3, <2>1, <2>2, <2>3, GoesOn
<1>4. CASE Return("FAILED", {"decrypted_data"})
  <2>1. Live(handler.type, call.step) \subseteq {"decrypted_data"}
    BY <1>1 DEF Live
  <2> QED BY <1>1, <1>2, <1>4, <2>1, Returns
<1> QED BY <1>3, <1>4 DEF MakeKey

LEMMA DeriveAccountKeeps == ASSUME IInv, DeriveAccount PROVE IInv'
<1>1. call # Idle /\ call.step = "derive" /\ ~Signs(call.op)
      /\ UNCHANGED <<handler, saved, given, set, storage>>
  BY DEF DeriveAccount, At
<1>2. /\ Fits /\ set = NULL /\ call.i = 1 /\ secret = LiveMemory(handler.type, "derive")
      /\ given \in Passphrases \cup {NULL} /\ given = handler.encrypted_data[2]
  BY <1>1, InCall DEF Signing, InLoop, Loop
<1>3. handler.type = "BIP32"
  BY <1>1, <1>2 DEF Fits
<1>4. ASSUME secret' = With(Without(secret, {"root"}), "derived"), Goto("public"),
             UNCHANGED result
      PROVE  IInv'
  <2>1. secret' = LiveMemory(handler.type, "public")
    BY <1>2, <1>3, <1>4 DEF With, Without, LiveMemory, Live, Objects
  <2>2. "public" \in Steps /\ ~InLoop("public", call.op) /\ "public" \notin Loop
    BY DEF Steps, InLoop, Loop
  <2> QED BY <1>1, <1>2, <1>4, <2>1, <2>2, GoesOn
<1>5. CASE Return("FAILED", {"root"})
  <2>1. Live(handler.type, call.step) \subseteq {"root"}
    BY <1>1 DEF Live
  <2> QED BY <1>1, <1>2, <1>5, <2>1, Returns
<1> QED BY <1>4, <1>5 DEF DeriveAccount

LEMMA GetPublicKeyKeeps == ASSUME IInv, GetPublicKey PROVE IInv'
<1>1. call # Idle /\ call.step = "public" /\ ~Signs(call.op)
      /\ UNCHANGED <<handler, saved, given, set, storage>>
  BY DEF GetPublicKey, At
<1>2. given = handler.encrypted_data[2] /\ handler.type \in Types
  BY <1>1, InCall
<1> DEFINE released == IF handler.type = "BIP32" THEN {"derived"} ELSE {"root"}
<1>3. Live(handler.type, call.step) \subseteq released
  BY <1>1 DEF Live
<1>4. PICK status \in {"SUCCESS", "FAILED"} : Return(status, released)
  BY DEF GetPublicKey
<1> HIDE DEF released
<1> QED BY <1>1, <1>2, <1>3, <1>4, Returns

LEMMA StartSigningKeeps == ASSUME IInv, StartSigning PROVE IInv'
<1>1. call # Idle /\ call.step = "hash" /\ UNCHANGED <<handler, saved, given, storage>>
  BY DEF StartSigning, At
<1>2. /\ Fits /\ set = NULL /\ call.i = 1 /\ secret = LiveMemory(handler.type, "hash")
      /\ given \in Passphrases \cup {NULL} /\ given = handler.encrypted_data[2]
      /\ handler.type \in Types
  BY <1>1, InCall DEF Signing, InLoop, Loop
<1>3. Signs(call.op) /\ call.paths \in Seq(Paths)
  BY <1>1, <1>2 DEF Fits, Calls
<1>4. WitnessesOf(0) = {}
  BY DEF WitnessesOf
<1>5. ASSUME set' = {}, UNCHANGED <<secret, result>>,
             Goto(CASE handler.type = "ED25519" -> "sign"
                    [] handler.type = "BIP32" /\ call.paths = <<>> -> "finish"
                    [] OTHER -> "derive")
      PROVE  IInv'
  <2>1. CASE handler.type = "ED25519"
    <3>1. Goto("sign")
      BY <1>5, <2>1
    <3>2. secret' = LiveMemory(handler.type, "sign")
      BY <1>2, <1>5, <2>1 DEF LiveMemory, Live
    <3>3. "sign" \in Steps /\ InLoop("sign", call.op)
      BY DEF Steps, InLoop, Loop
    <3> QED BY <1>1, <1>2, <1>3, <1>5, <2>1, <3>1, <3>2, <3>3, GoesOn
  <2>2. CASE handler.type = "BIP32" /\ call.paths = <<>>
    <3>1. Goto("finish") /\ Len(call.paths) = 0
      BY <1>5, <2>2
    <3>2. secret' = LiveMemory(handler.type, "finish")
      BY <1>2, <1>5, <2>2 DEF LiveMemory, Live
    <3>3. "finish" \in Steps /\ ~InLoop("finish", call.op)
      BY DEF Steps, InLoop, Loop
    <3> QED BY <1>1, <1>2, <1>3, <1>4, <1>5, <2>2, <3>1, <3>2, <3>3, GoesOn
  <2>3. CASE handler.type = "BIP32" /\ call.paths # <<>>
    <3>1. Goto("derive") /\ 1 \in 1..Len(call.paths) /\ call.i - 1 = 0
      BY <1>2, <1>3, <1>5, <2>3
    <3>2. secret' = LiveMemory(handler.type, "derive")
      BY <1>2, <1>5, <2>3 DEF LiveMemory, Live
    <3>3. "derive" \in Steps /\ InLoop("derive", call.op) /\ "derive" \notin Loop
      BY <1>3 DEF Steps, InLoop, Loop
    <3> QED BY <1>1, <1>2, <1>3, <1>4, <1>5, <2>3, <3>1, <3>2, <3>3, GoesOn
  <2> QED BY <1>2, <2>1, <2>2, <2>3 DEF Types
<1>6. CASE Return("FAILED", {"root"}) /\ UNCHANGED set
  <2>1. Live(handler.type, call.step) \subseteq {"root"}
    BY <1>1 DEF Live
  <2> QED BY <1>1, <1>2, <1>6, <2>1, Returns
<1> QED BY <1>5, <1>6 DEF StartSigning

\* A failure within the loop over the paths.
LEMMA FailSigningKeeps ==
  ASSUME IInv, call # Idle, UNCHANGED <<handler, saved, given, storage>>,
         NEW released, FailSigning(released), Live(handler.type, call.step) \subseteq released
  PROVE  IInv'
<1>1. Return("FAILED", released) /\ set' = NULL
  BY DEF FailSigning
<1> QED BY <1>1, Returns

\* A step within the loop that leaves the set as it is.
LEMMA GoesOnInLoop ==
  ASSUME IInv, call # Idle, Signing, NEW step \in Loop, Goto(step),
         UNCHANGED <<handler, saved, given, storage, result, set>>,
         secret' = LiveMemory(handler.type, step),
         step = "to_ed25519" => handler.type = "BIP32"
  PROVE  IInv'
<1>1. /\ given \in Passphrases \cup {NULL}
      /\ call.step \notin {"passphrase", "decrypt"} => given = handler.encrypted_data[2]
      /\ handler.type = "BIP32" =>
             call.i \in 1..Len(call.paths) /\ set = WitnessesOf(call.i - 1)
      /\ handler.type = "ED25519" => set = {}
  BY InCall
<1>2. Signs(call.op) /\ call.step \notin {"passphrase", "decrypt"}
  BY InCall DEF Signing, InLoop, Loop, Fits
<1>3. step \in Steps /\ InLoop(step, call.op) /\ step \notin {"derive", "finish", "hash", "public"}
  BY DEF Steps, InLoop, Loop
<1> QED BY <1>1, <1>2, <1>3, GoesOn

LEMMA DeriveKeyKeeps == ASSUME IInv, DeriveKey PROVE IInv'
<1>1. call # Idle /\ call.step = "derive" /\ Signs(call.op)
      /\ UNCHANGED <<handler, saved, given, storage>>
  BY DEF DeriveKey, At
<1>2. Signing /\ handler.type = "BIP32" /\ secret = LiveMemory(handler.type, "derive")
  BY <1>1, InCall DEF Signing, InLoop, Fits
<1>3. ASSUME secret' = With(secret, "derived"), Goto("to_ed25519"), UNCHANGED <<result, set>>
      PROVE  IInv'
  <2>1. secret' = LiveMemory(handler.type, "to_ed25519")
    BY <1>2, <1>3 DEF With, LiveMemory, Live, Objects
  <2>2. "to_ed25519" \in Loop
    BY DEF Loop
  <2> QED BY <1>1, <1>2, <1>3, <2>1, <2>2, GoesOnInLoop
<1>4. CASE FailSigning({"root"})
  <2>1. Live(handler.type, call.step) \subseteq {"root"}
    BY <1>1 DEF Live
  <2> QED BY <1>1, <1>4, <2>1, FailSigningKeeps
<1> QED BY <1>3, <1>4 DEF DeriveKey

LEMMA ToEd25519Keeps == ASSUME IInv, ToEd25519 PROVE IInv'
<1>1. call # Idle /\ call.step = "to_ed25519" /\ UNCHANGED <<handler, saved, given, storage>>
  BY DEF ToEd25519, At
<1>2. Signing /\ handler.type = "BIP32" /\ secret = LiveMemory(handler.type, "to_ed25519")
  BY <1>1, InCall DEF Signing, InLoop, Loop, Fits
<1>3. ASSUME secret' = With(Without(secret, {"derived"}), "signing"), Goto("sign"),
             UNCHANGED <<result, set>>
      PROVE  IInv'
  <2>1. secret' = LiveMemory(handler.type, "sign")
    BY <1>2, <1>3 DEF With, Without, LiveMemory, Live, Objects
  <2>2. "sign" \in Loop
    BY DEF Loop
  <2> QED BY <1>1, <1>2, <1>3, <2>1, <2>2, GoesOnInLoop
<1>4. CASE FailSigning({"derived", "root"})
  <2>1. Live(handler.type, call.step) \subseteq {"derived", "root"}
    BY <1>1 DEF Live
  <2> QED BY <1>1, <1>4, <2>1, FailSigningKeeps
<1> QED BY <1>3, <1>4 DEF ToEd25519

LEMMA SignKeeps == ASSUME IInv, Sign PROVE IInv'
<1>1. call # Idle /\ call.step = "sign" /\ UNCHANGED <<handler, saved, given, storage>>
  BY DEF Sign, At
<1>2. Signing /\ handler.type \in Types /\ secret = LiveMemory(handler.type, "sign")
  BY <1>1, InCall DEF Signing, InLoop, Loop
<1>3. ASSUME Goto("witness_key"), UNCHANGED <<result, secret, set>>
      PROVE  IInv'
  <2>1. secret' = LiveMemory(handler.type, "witness_key")
    BY <1>2, <1>3 DEF LiveMemory, Live
  <2>2. "witness_key" \in Loop
    BY DEF Loop
  <2> QED BY <1>1, <1>2, <1>3, <2>1, <2>2, GoesOnInLoop
<1>4. CASE FailSigning({"signing", "root"})
  <2>1. Live(handler.type, call.step) \subseteq {"signing", "root"}
    BY <1>1 DEF Live
  <2> QED BY <1>1, <1>4, <2>1, FailSigningKeeps
<1> QED BY <1>3, <1>4 DEF Sign

LEMMA WitnessKeyKeeps == ASSUME IInv, WitnessKey PROVE IInv'
<1>1. call # Idle /\ call.step = "witness_key" /\ UNCHANGED <<handler, saved, given, storage>>
  BY DEF WitnessKey, At
<1>2. Signing /\ handler.type \in Types /\ secret = LiveMemory(handler.type, "witness_key")
  BY <1>1, InCall DEF Signing, InLoop, Loop
<1>3. ASSUME secret' = Without(secret, {SigningKey}), Goto("witness"), UNCHANGED <<result, set>>
      PROVE  IInv'
  <2>1. secret' = LiveMemory(handler.type, "witness")
    BY <1>2, <1>3 DEF SigningKey, Without, LiveMemory, Live, Objects
  <2>2. "witness" \in Loop
    BY DEF Loop
  <2> QED BY <1>1, <1>2, <1>3, <2>1, <2>2, GoesOnInLoop
<1>4. CASE FailSigning({SigningKey, "root"})
  <2>1. Live(handler.type, call.step) \subseteq {SigningKey, "root"}
    BY <1>1, <1>2 DEF Live, SigningKey, Types
  <2> QED BY <1>1, <1>4, <2>1, FailSigningKeeps
<1> QED BY <1>3, <1>4 DEF WitnessKey

\* The witness of the next path joins those of the paths before it.
LEMMA OneMoreWitness ==
  ASSUME NEW n \in Nat, n > 0
  PROVE  WitnessesOf(n) = WitnessesOf(n - 1) \cup
           {[vkey |-> Derive(handler.encrypted_data[1], call.paths[n]), tx |-> call.tx]}
<1> DEFINE W(j) == [vkey |-> Derive(handler.encrypted_data[1], call.paths[j]), tx |-> call.tx]
<1>1. 1..n = 1..(n - 1) \cup {n}
  OBVIOUS
<1>2. WitnessesOf(n) = {W(j) : j \in 1..n} /\ WitnessesOf(n - 1) = {W(j) : j \in 1..(n - 1)}
  BY DEF WitnessesOf
<1> HIDE DEF W
<1>3. {W(j) : j \in 1..n} = {W(j) : j \in 1..(n - 1)} \cup {W(n)}
  BY <1>1, Zenon
<1> QED BY <1>2, <1>3 DEF W

LEMMA AddWitnessKeeps == ASSUME IInv, AddWitness PROVE IInv'
<1>1. call # Idle /\ call.step = "witness" /\ UNCHANGED <<handler, saved, given, storage>>
  BY DEF AddWitness, At
<1>2. /\ Fits /\ Signing /\ handler.type \in Types /\ secret = LiveMemory(handler.type, "witness")
      /\ given \in Passphrases \cup {NULL} /\ given = handler.encrypted_data[2]
      /\ result = NoResult /\ call.i \in 1..Len(call.paths) + 1
      /\ handler.type = "BIP32" =>
             call.i \in 1..Len(call.paths) /\ set = WitnessesOf(call.i - 1)
      /\ handler.type = "ED25519" => set = {}
  BY <1>1, InCall DEF Signing, InLoop, Loop
<1>3. Signs(call.op) /\ call \in Calls /\ call.i \in Nat /\ Len(call.paths) \in Nat
      /\ call.paths \in Seq(Paths) /\ handler \in Handlers /\ call.op \in Operations(handler.type)
  BY <1>1, <1>2 DEF Fits, Calls, Loop
<1> DEFINE s    == handler.encrypted_data[1]
           key  == IF handler.type = "BIP32" THEN Derive(s, call.paths[call.i]) ELSE s
           more == handler.type = "BIP32" /\ call.i < Len(call.paths)
           step == IF more THEN "derive" ELSE "finish"
           j    == IF more THEN call.i + 1 ELSE call.i
<1>4. ASSUME set' = set \cup {[vkey |-> key, tx |-> call.tx]},
             call' = [call EXCEPT !.i = IF more THEN @ + 1 ELSE @,
                                  !.step = IF more THEN "derive" ELSE "finish"],
             UNCHANGED <<secret, result>>
      PROVE  IInv'
  <2>1. j \in Nat /\ step \in Steps
    BY <1>3 DEF Steps
  <2>2. call' = [call EXCEPT !.i = j, !.step = step]
    BY <1>3, <1>4 DEF Calls
  <2> HIDE DEF step, j
  <2>3. /\ call' \in Calls /\ call'.step = step /\ call'.i = j
        /\ call'.op = call.op /\ call'.tx = call.tx /\ call'.paths = call.paths
    BY <1>3, <2>1, <2>2 DEF Calls
  <2>4. call' # Idle
    BY <2>3, CallIsNotIdle
  <2>5. Memory'
    <3>1. secret' = LiveMemory(handler.type, step)
      BY <1>2, <1>4 DEF LiveMemory, Live, step, Types
    <3> QED BY <1>1, <2>3, <2>4, <3>1 DEF Memory, LiveMemory
  <2>6. Fits'
    BY <1>1, <1>3, <2>3 DEF Fits, step, Loop
  <2>7. Witness' = Witness
    BY <1>1, <2>3 DEF Witness
  <2>8. handler.type = "BIP32" => set' = WitnessesOf(call.i)
    BY <1>2, <1>3, <1>4, OneMoreWitness
  <2>9. handler.type = "ED25519" => set' = {Witness}
    BY <1>2, <1>4 DEF Witness
  <2>10. CASE more
    <3>1. /\ step = "derive" /\ j = call.i + 1 /\ handler.type = "BIP32"
          /\ call.i + 1 \in 1..Len(call.paths) /\ j - 1 = call.i
      BY <1>3, <2>10 DEF step, j
    <3>2. Signing'
      BY <1>3, <2>3, <3>1 DEF Signing, InLoop
    <3>3. call'.i - 1 = call.i /\ call'.i \in 1..Len(call'.paths)
          /\ call'.i \in 1..Len(call'.paths) + 1
      BY <1>3, <2>3, <3>1
    <3>4. (set = WitnessesOf(call.i - 1))'
      <4>1. WitnessesOf(call.i - 1)' = WitnessesOf(call.i)
        BY <1>1, <2>3, <3>3 DEF WitnessesOf
      <4> QED BY <2>8, <3>1, <4>1
    <3>5. Progress'
      BY <1>1, <1>2, <1>4, <2>3, <2>6, <3>1, <3>2, <3>3, <3>4 DEF Progress, NoResult
    <3> QED BY <1>1, <1>2, <1>4, <2>4, <2>5, <3>5, MovesOn
  <2>11. CASE ~more
    <3>1. step = "finish" /\ j = call.i /\ (handler.type = "BIP32" => call.i = Len(call.paths))
      BY <1>2, <1>3, <2>11 DEF step, j
    <3>2. ~Signing'
      BY <2>3, <3>1 DEF Signing, InLoop, Loop
    <3>3. (set = IF handler.type = "BIP32" THEN WitnessesOf(Len(call.paths)) ELSE {Witness})'
      <4>1. CASE handler.type = "BIP32"
        <5>1. WitnessesOf(Len(call.paths))' = WitnessesOf(call.i)
          BY <1>1, <2>3, <3>1, <4>1 DEF WitnessesOf
        <5> QED BY <1>1, <2>8, <4>1, <5>1
      <4>2. CASE handler.type = "ED25519"
        BY <1>1, <2>7, <2>9, <4>2
      <4> QED BY <1>2, <4>1, <4>2 DEF Types
    <3>4. call'.i \in 1..Len(call'.paths) + 1
      BY <1>2, <2>3, <3>1
    <3>5. Progress'
      BY <1>1, <1>2, <1>4, <2>3, <2>6, <3>1, <3>2, <3>3, <3>4 DEF Progress, NoResult
    <3> QED BY <1>1, <1>2, <1>4, <2>4, <2>5, <3>5, MovesOn
  <2> QED BY <2>10, <2>11
<1>5. CASE FailSigning({"root"})
  <2>1. Live(handler.type, call.step) \subseteq {"root"}
    BY <1>1 DEF Live
  <2> QED BY <1>1, <1>5, <2>1, FailSigningKeeps
<1> QED BY <1>4, <1>5 DEF AddWitness

LEMMA FinishKeeps == ASSUME IInv, Finish PROVE IInv'
<1>1. call # Idle /\ call.step = "finish" /\ UNCHANGED <<handler, saved, given, set, storage>>
  BY DEF Finish, At
<1>2. /\ handler.type \in Types /\ given = handler.encrypted_data[2]
      /\ set = IF handler.type = "BIP32" THEN WitnessesOf(Len(call.paths)) ELSE {Witness}
  BY <1>1, InCall
<1>3. set = {[vkey |-> k, tx |-> call.tx] : k \in KeysFor(handler, call.paths)}
  BY <1>2 DEF KeysFor, WitnessesOf, Witness, Types
<1> DEFINE released == IF handler.type = "BIP32" THEN {"root"} ELSE {}
<1>4. Live(handler.type, call.step) \subseteq released /\ Return("SUCCESS", released)
  BY <1>1 DEF Live, Finish
<1> HIDE DEF released
<1> QED BY <1>1, <1>2, <1>3, <1>4, Returns

-----------------------------------------------------------------------------
(* The theorems.                                                           *)

LEMMA InitIsSafe == Init => IInv
<1> SUFFICES ASSUME Init PROVE IInv
  OBVIOUS
<1>1. Typed /\ Memory /\ Progress
  BY DEF Init, Typed, Memory, Progress, AllGone
<1>2. Restorable
  BY NothingIsRead, Zenon DEF Init, Restorable
<1>3. result.op = "none"
  BY DEF Init, NoResult
<1>4. AllWitnessesOrNone /\ OnlyWithPassphrase /\ RestoredIsSaved
  BY <1>3, OperationNames DEF AllWitnessesOrNone, Signed, OnlyWithPassphrase, RestoredIsSaved
<1> QED BY <1>1, <1>2, <1>4 DEF IInv

LEMMA StutterIsSafe == ASSUME IInv, UNCHANGED vars PROVE IInv'
<1>1. UNCHANGED <<handler, saved, call, secret, given, set, result, storage>>
  BY DEF vars
<1>2. Typed' /\ Restorable' /\ RestoredIsSaved' /\ Memory'
  BY <1>1 DEF IInv, Typed, Restorable, RestoredIsSaved, Memory
<1>3. Progress'
  BY <1>1 DEF IInv, Progress, Fits, Signing, InLoop, WitnessesOf, Witness
<1>4. AllWitnessesOrNone' /\ OnlyWithPassphrase'
  BY <1>1 DEF IInv, AllWitnessesOrNone, Signed, OnlyWithPassphrase
<1> QED BY <1>2, <1>3, <1>4 DEF IInv

LEMMA StepIsSafe == ASSUME IInv, [Next]_vars PROVE IInv'
<1>1. ASSUME NEW type \in Types, NEW s \in Secrets, NEW p \in Passphrases,
             HandlerNew(type, s, p)
      PROVE  IInv'
  BY <1>1, HandlerNewKeeps
<1>2. ASSUME NEW op \in AllOperations, NEW tx \in Txs, NEW paths \in PathLists,
             Begin(op, tx, paths)
      PROVE  IInv'
  BY <1>2, BeginKeeps
<1>3. CASE Unref \/ Serialize \/ Deserialize \/ StorageDamaged \/ Restart
  BY <1>3, UnrefKeeps, SerializeKeeps, DeserializeKeeps, StorageDamagedKeeps, RestartKeeps
<1>4. CASE Step
  BY <1>4, GetPassphraseKeeps, DecryptKeeps, MakeKeyStepKeeps, DeriveAccountKeeps,
     GetPublicKeyKeeps, StartSigningKeeps, DeriveKeyKeeps, ToEd25519Keeps, SignKeeps,
     WitnessKeyKeeps, AddWitnessKeeps, FinishKeeps DEF Step
<1>5. CASE UNCHANGED vars
  BY <1>5, StutterIsSafe
<1> QED BY <1>1, <1>2, <1>3, <1>4, <1>5 DEF Next

LEMMA IInvIsInvariant == Spec => []IInv
  BY InitIsSafe, StepIsSafe, PTL DEF Spec

\* The copies that are left are those of the functions that leave one, and none is
\* left before the secret was decrypted.
KnownCopies ==
    /\ residue \subseteq Copies
    /\ call # Idle /\ call.step \in {"passphrase", "decrypt"} => residue = {}
    /\ CopiesNeedPassphrase

\* A step behind the decryption, which leaves copies or does not.
LEMMA CopiesAfterDecrypt ==
  ASSUME IInv, IInv', KnownCopies, call # Idle, call.step \notin {"passphrase", "decrypt"},
         UNCHANGED <<handler, given>>, residue' \subseteq Copies,
         call' # Idle => call'.step \notin {"passphrase", "decrypt"}
  PROVE  KnownCopies'
<1>1. given = handler.encrypted_data[2]
  BY InCall
<1> QED BY <1>1 DEF KnownCopies, CopiesNeedPassphrase

LEMMA CopiesAreKnown == Spec => []KnownCopies
<1>1. Init => KnownCopies
  BY DEF Init, KnownCopies, CopiesNeedPassphrase
<1>2. ASSUME KnownCopies, IInv, IInv', [Next]_vars PROVE KnownCopies'
  <2>1. \A c \in SUBSET Copies : LeavesCopies(c) \/ MayLeaveCopies(c) => residue' \subseteq Copies
    BY <1>2 DEF KnownCopies, LeavesCopies, MayLeaveCopies
  <2>2. {} \in SUBSET Copies /\ \A c \in Copies : {c} \in SUBSET Copies
    OBVIOUS
  <2>3. "pbkdf2_key" \in Copies /\ "derived_key" \in Copies /\ "sk" \in Copies
    BY DEF Copies
  <2>4. UNCHANGED residue => residue' \subseteq Copies
    BY <1>2 DEF KnownCopies
  <2>5. residue' = {} => KnownCopies'
    BY DEF KnownCopies, CopiesNeedPassphrase
  <2>6. MakeKey \/ DeriveAccount \/ DeriveKey \/ Sign => residue' \subseteq Copies
    BY <2>1, <2>2, <2>3 DEF MakeKey, DeriveAccount, DeriveKey, Sign
  <2>7. ASSUME NEW op \in AllOperations, NEW tx \in Txs, NEW paths \in PathLists,
               Begin(op, tx, paths)
        PROVE  KnownCopies'
    BY <2>5, <2>7 DEF Begin
  <2>8. ASSUME NEW type \in Types, NEW s \in Secrets, NEW p \in Passphrases,
               HandlerNew(type, s, p)
        PROVE  KnownCopies'
    <3>1. /\ call' = Idle /\ result'.op = "new"
          /\ UNCHANGED residue
      BY <2>8 DEF HandlerNew
    <3> QED BY <1>2, <3>1 DEF KnownCopies, CopiesNeedPassphrase, AllOperations, Operations
  <2>9. CASE Restart
    BY <2>5, <2>9 DEF Restart
  <2>10. CASE Unref
    BY <1>2, <2>10 DEF Unref, KnownCopies, CopiesNeedPassphrase
  <2>11. CASE Serialize \/ Deserialize
    <3>1. Serialize => call' = Idle /\ result'.op = "serialize" /\ UNCHANGED residue
      BY DEF Serialize
    <3>2. Deserialize => call' = Idle /\ result'.op = "deserialize" /\ UNCHANGED residue
      <4> DEFINE read == deserialize(storage)
                 status == IF read.error = "" THEN "SUCCESS" ELSE read.error
      <4>1. Deserialize => /\ call = Idle /\ UNCHANGED <<call, residue>>
                           /\ \/ result' = [op |-> "deserialize", status |-> status]
                              \/ result' = [op |-> "deserialize", status |-> "FAILED"]
        BY Zenon DEF Deserialize
      <4> HIDE DEF status
      <4> QED BY <4>1
    <3> QED BY <2>11, <3>2, <1>2, <3>1 DEF KnownCopies, CopiesNeedPassphrase, AllOperations, Operations
  <2>12. CASE StorageDamaged \/ UNCHANGED vars
    BY <1>2, <2>12 DEF StorageDamaged, vars, KnownCopies, CopiesNeedPassphrase
  <2>13. CASE GetPassphrase \/ Decrypt
    <3>1. residue' = {}
      BY <1>2, <2>13 DEF GetPassphrase, Decrypt, At, KnownCopies
    <3> QED BY <2>5, <3>1
  <2>14. CASE Step /\ ~(GetPassphrase \/ Decrypt)
    <3>1. residue' \subseteq Copies
      BY <2>4, <2>6, <2>14 DEF Step, GetPublicKey, StartSigning, ToEd25519, WitnessKey,
         AddWitness, Finish
    <3>2. /\ call # Idle /\ call.step \notin {"passphrase", "decrypt"}
          /\ UNCHANGED <<handler, given>>
      BY <2>14 DEF Step, MakeKey, DeriveAccount, GetPublicKey, StartSigning, DeriveKey,
         ToEd25519, Sign, WitnessKey, AddWitness, Finish, At
    <3>3. call \in Calls
      BY <1>2, <3>2, InCall DEF Fits
    <3>4. call' # Idle => call'.step \notin {"passphrase", "decrypt"}
      BY <2>14, <3>3 DEF Step, MakeKey, DeriveAccount, GetPublicKey, StartSigning, DeriveKey,
         ToEd25519, Sign, WitnessKey, AddWitness, Finish, Goto, Return, FailSigning, Calls
    <3> QED BY <1>2, <3>1, <3>2, <3>4, CopiesAfterDecrypt
  <2> QED BY <1>2, <2>7, <2>8, <2>9, <2>10, <2>11, <2>12, <2>13, <2>14 DEF Next
<1> QED BY <1>1, <1>2, IInvIsInvariant, PTL DEF Spec

\* Whatever step of a call fails and whenever the program ends, once the call has
\* returned the handler has zeroed and released the five objects it holds secrets
\* in (the passphrase, the decrypted data, the root key, the derived key and the
\* signing key), and no call succeeds unless the callback gave the passphrase the
\* secret was sealed with (software_secure_key_handler.c).  The copies that the
\* functions it calls leave in arrays of their own (residue) are not among them;
\* of those it says that they too are left with that passphrase only.
THEOREM SecretsAreGuarded == Spec => []SecretsGuarded
<1>1. IInv /\ KnownCopies => SecretsGuarded
  <2> SUFFICES ASSUME IInv, KnownCopies PROVE SecretsGuarded
    OBVIOUS
  <2>1. SecretsReleased
    BY DEF IInv, Memory, SecretsReleased, AllGone
  <2>2. secret \in [Objects -> {"none", "live"}]
    BY DEF IInv, Memory
  <2>3. ASSUME call # Idle
        PROVE  /\ call.op \in Operations(handler.type)
               /\ call.i \in 1..Len(call.paths) + 1
               /\ call.step \in {"derive", "to_ed25519", "witness"} /\ Signs(call.op) =>
                    (secret["root"] = "live") = (handler.type = "BIP32")
    <3>1. Fits /\ call.i \in 1..Len(call.paths) + 1 /\ handler.type \in Types
          /\ secret = LiveMemory(handler.type, call.step)
      BY <2>3, InCall
    <3>2. call.step \in {"derive", "to_ed25519", "witness"} =>
            (secret["root"] = "live") = (handler.type = "BIP32")
      BY <3>1 DEF Fits, LiveMemory, Live, Objects, Types
    <3> QED BY <3>1, <3>2 DEF Fits
  <2>4. TypeOK
    BY <2>2, <2>3 DEF TypeOK, KnownCopies, IInv, Typed
  <2> QED BY <2>1, <2>4 DEF SecretsGuarded, IInv, KnownCopies
<1> QED BY <1>1, IInvIsInvariant, CopiesAreKnown, PTL

\* A caller gets the witnesses of all paths it asked for and of no other key, or
\* after any failure no set at all (bip32_sign_transaction, ed25519_sign_transaction),
\* as long as the paths are too few to make the array of the witness set grow.
THEOREM WitnessesAreComplete == Spec => []AllWitnessesOrNone
<1>1. IInv => AllWitnessesOrNone
  BY DEF IInv
<1> QED BY <1>1, IInvIsInvariant, PTL

\* A handler read from storage is the one that was written, whatever place of the
\* bytes was damaged (cardano_software_secure_key_handler_deserialize).
THEOREM StorageIsSafe == Spec => []RestoredIsSaved
<1>1. IInv => RestoredIsSaved
  BY DEF IInv
<1> QED BY <1>1, IInvIsInvariant, PTL
=============================================================================
