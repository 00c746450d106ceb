--------------------------- MODULE TxBuilderProofs ---------------------------
(***************************************************************************)
(* What the transaction builder keeps true for every program that calls it.*)
(*                                                                         *)
(* Shape says what the transaction looks like, Sticky how the recorded     *)
(* error, the history and the result of build go together, and Pointers    *)
(* what links the maps, the redeemers and the items.  Their conjunction is *)
(* inductive and implies the properties of the first part.  The second     *)
(* part adds Links: how the redeemers go with the inputs, the withdrawals, *)
(* the callbacks and the calls that supplied them.                         *)
(***************************************************************************)
EXTENDS TxBuilder, ValueTheorems

IsSequence(s) == \E S : s \in Seq(S)

RedeemerKeys == {"tag", "item", "index", "data"}
BodyKeys == {"mint", "withdrawals", "votes", "certificates", "proposals", "fields", "outputs",
             "reference_inputs", "inputs", "script_data_hash"}

MapTags == {"mint", "reward", "vote"}

AreRedeemers(rs) == IsSequence(rs) /\ \A r \in DOMAIN rs : DOMAIN rs[r] = RedeemerKeys

Shape ==
  /\ DOMAIN body = BodyKeys
  /\ AreRedeemers(redeemers)
  /\ DOMAIN maps = MapTags

(* As long as no error is recorded nothing was built and nothing failed; the *)
(* error of a failed call stays, and a build that succeeds leaves its own.   *)
Sticky ==
  /\ last_error = "success" => /\ first_failure = "none"
                               /\ result = "none"
                               /\ body.script_data_hash = NoHash
  /\ result = "success" => last_error = "illegal_state"
  /\ first_failure \notin {"success", "illegal_state"}
  /\ FirstFailureReported

(* An entry of a map is NULL or a redeemer of the item, and the redeemer of an *)
(* item is the entry of the map and has the position of the item as its index. *)
Mapped(tag) ==
  /\ \A k \in DOMAIN maps[tag] :
       LET r == maps[tag][k]
       IN  r # 0 => r \in DOMAIN redeemers /\ redeemers[r].tag = tag /\ redeemers[r].item = k
  /\ \A r \in DOMAIN redeemers :
       redeemers[r].tag = tag =>
         /\ redeemers[r].item \in DOMAIN maps[tag]
         /\ maps[tag][redeemers[r].item] = r
         /\ redeemers[r].index = Position(redeemers[r].item, DOMAIN maps[tag])

(* The redeemer of an item of a list has the place of the item as its index. *)
Listed(tag, items) ==
  \A r \in DOMAIN redeemers :
    redeemers[r].tag = tag =>
      /\ redeemers[r].index \in Nat
      /\ redeemers[r].index < Len(items)
      /\ items[redeemers[r].index + 1] = redeemers[r].item

SpendOnly ==
  \A i \in DOMAIN inputs :
    inputs[i].redeemer # 0 =>
      inputs[i].redeemer \in DOMAIN redeemers /\ redeemers[inputs[i].redeemer].tag = "spend"

Pointers ==
  /\ \A tag \in MapTags : Mapped(tag)
  /\ DOMAIN maps["mint"] = body.mint /\ DOMAIN maps["vote"] = body.votes
  /\ body.mint \subseteq Identity /\ IsFiniteSet(body.mint)
  /\ body.votes \subseteq Credential /\ IsFiniteSet(body.votes)
  /\ IsSequence(body.certificates) /\ Listed("certifying", body.certificates)
  /\ IsSequence(body.proposals) /\ Listed("proposing", body.proposals)
  /\ IsSequence(inputs) /\ SpendOnly

IInv == Shape /\ Sticky /\ HashCoversWitnesses /\ Pointers

(* A step that only appends redeemers with tags of the given set, and changes *)
(* the index of such redeemers only.                                          *)
Kept(tags) ==
  /\ DOMAIN redeemers \subseteq DOMAIN redeemers'
  /\ \A r \in DOMAIN redeemers :
       /\ redeemers'[r].tag = redeemers[r].tag
       /\ redeemers'[r].item = redeemers[r].item
       /\ redeemers[r].tag \notin tags => redeemers'[r].index = redeemers[r].index
  /\ \A r \in DOMAIN redeemers' \ DOMAIN redeemers : redeemers'[r].tag \in tags

-----------------------------------------------------------------------------
(* What Append does to a sequence, whatever its elements. *)
LEMMA AppendToSequence ==
  ASSUME NEW s, IsSequence(s), NEW x
  PROVE  /\ IsSequence(Append(s, x))
         /\ Len(s) \in Nat
         /\ DOMAIN s = 1..Len(s)
         /\ Len(Append(s, x)) = Len(s) + 1
         /\ DOMAIN Append(s, x) = 1..(Len(s) + 1)
         /\ \A i \in 1..Len(s) : Append(s, x)[i] = s[i]
         /\ Append(s, x)[Len(s) + 1] = x
<1>1. PICK S : s \in Seq(S)
  BY DEF IsSequence
<1>2. s \in Seq(S \cup {x}) /\ x \in S \cup {x}
  BY <1>1
<1>3. Append(s, x) \in Seq(S \cup {x})
  BY <1>2
<1>4. QED
  BY <1>2, <1>3 DEF IsSequence

(* A function on 1..n is a sequence of length n. *)
LEMMA FunctionIsSequence ==
  ASSUME NEW n \in Nat, NEW f, f = [i \in 1..n |-> f[i]]
  PROVE  IsSequence(f) /\ Len(f) = n /\ DOMAIN f = 1..n
<1>1. f \in [1..n -> {f[i] : i \in 1..n}]
  OBVIOUS
<1>2. f \in Seq({f[i] : i \in 1..n})
  BY <1>1
<1>3. IsSequence(f)
  BY <1>2 DEF IsSequence
<1>4. Len(f) \in Nat /\ DOMAIN f = 1..Len(f)
  BY <1>2
<1>5. DOMAIN f = 1..n
  BY <1>1
<1>6. Len(f) = n
  BY <1>4, <1>5
<1>7. QED
  BY <1>3, <1>5, <1>6

LEMMA LenOfSequence ==
  ASSUME NEW s, IsSequence(s)
  PROVE  Len(s) \in Nat /\ DOMAIN s = 1..Len(s) /\ (s = <<>> <=> Len(s) = 0)
<1>1. PICK S : s \in Seq(S)
  BY DEF IsSequence
<1>2. QED
  BY <1>1

(* Appending a redeemer. *)
LEMMA AppendRedeemer ==
  ASSUME NEW rs, AreRedeemers(rs), NEW tag, NEW item, NEW index, NEW given
  PROVE  LET new == Append(rs, NewRedeemer(tag, item, index, given))
         IN /\ AreRedeemers(new)
            /\ DOMAIN rs = 1..Len(rs) /\ Len(rs) \in Nat
            /\ DOMAIN new = 1..(Len(rs) + 1)
            /\ \A r \in DOMAIN rs : new[r] = rs[r]
            /\ new[Len(rs) + 1].tag = tag
            /\ new[Len(rs) + 1].item = item
            /\ new[Len(rs) + 1].index = index
            /\ new[Len(rs) + 1].data = IF given = "callback" THEN "placeholder" ELSE "literal"
<1> DEFINE x   == NewRedeemer(tag, item, index, given)
           new == Append(rs, x)
<1>1. IsSequence(rs) /\ \A r \in DOMAIN rs : DOMAIN rs[r] = RedeemerKeys
  BY DEF AreRedeemers
<1>2. /\ DOMAIN x = RedeemerKeys /\ x.tag = tag /\ x.item = item /\ x.index = index
      /\ x.data = IF given = "callback" THEN "placeholder" ELSE "literal"
  BY DEF NewRedeemer, RedeemerKeys
<1>3. /\ IsSequence(new)
      /\ Len(rs) \in Nat
      /\ DOMAIN rs = 1..Len(rs)
      /\ DOMAIN new = 1..(Len(rs) + 1)
      /\ \A i \in 1..Len(rs) : new[i] = rs[i]
      /\ new[Len(rs) + 1] = x
  <2> HIDE DEF x
  <2> QED BY <1>1, AppendToSequence
<1>4. \A r \in DOMAIN new : DOMAIN new[r] = RedeemerKeys
  <2> HIDE DEF x, new
  <2> QED BY <1>1, <1>2, <1>3
<1>5. QED
  <2> HIDE DEF x
  <2>1. AreRedeemers(new)
    BY <1>3, <1>4 DEF AreRedeemers
  <2>2. /\ new[Len(rs) + 1].tag = tag /\ new[Len(rs) + 1].item = item /\ new[Len(rs) + 1].index = index
        /\ new[Len(rs) + 1].data = IF given = "callback" THEN "placeholder" ELSE "literal"
    BY <1>2, <1>3
  <2> QED BY <1>3, <2>1, <2>2 DEF x

(* Reindexing keeps all of a redeemer but its index. *)
LEMMA ReindexedRedeemers ==
  ASSUME NEW rs, AreRedeemers(rs), NEW map
  PROVE  /\ AreRedeemers(Reindexed(rs, map))
         /\ DOMAIN Reindexed(rs, map) = DOMAIN rs
         /\ \A r \in DOMAIN rs :
              LET keys == {key \in DOMAIN map : map[key] = r}
              IN /\ Reindexed(rs, map)[r].tag = rs[r].tag
                 /\ Reindexed(rs, map)[r].item = rs[r].item
                 /\ Reindexed(rs, map)[r].data = rs[r].data
                 /\ keys = {} => Reindexed(rs, map)[r] = rs[r]
                 /\ \A key : keys = {key} => Reindexed(rs, map)[r].index = Position(key, DOMAIN map)
<1> DEFINE new == Reindexed(rs, map)
<1>1. IsSequence(rs) /\ \A r \in DOMAIN rs : DOMAIN rs[r] = RedeemerKeys
  BY DEF AreRedeemers
<1>2. Len(rs) \in Nat /\ DOMAIN rs = 1..Len(rs)
  BY <1>1, LenOfSequence
<1>3. DOMAIN new = DOMAIN rs /\ new = [r \in DOMAIN rs |-> new[r]]
  BY DEF Reindexed
<1>4. IsSequence(new)
  <2> HIDE DEF new
  <2>1. new = [r \in 1..Len(rs) |-> new[r]]
    BY <1>2, <1>3
  <2>2. QED BY <1>2, <2>1, FunctionIsSequence, Zenon
<1>5. ASSUME NEW r \in DOMAIN rs
      PROVE  LET keys == {key \in DOMAIN map : map[key] = r}
             IN /\ DOMAIN new[r] = RedeemerKeys
                /\ new[r].tag = rs[r].tag
                /\ new[r].item = rs[r].item
                /\ new[r].data = rs[r].data
                /\ keys = {} => new[r] = rs[r]
                /\ \A key : keys = {key} => new[r].index = Position(key, DOMAIN map)
  <2> DEFINE keys == {key \in DOMAIN map : map[key] = r}
             k == CHOOSE key \in DOMAIN map : map[key] = r
  <2>1. DOMAIN rs[r] = RedeemerKeys
    BY <1>1
  <2>2. CASE keys = {}
    <3>1. new[r] = rs[r]
      BY <2>2 DEF Reindexed
    <3>2. QED BY <2>1, <2>2, <3>1
  <2>3. CASE keys # {}
    <3>1. new[r] = [rs[r] EXCEPT !.index = Position(k, DOMAIN map)]
      BY <2>3 DEF Reindexed
    <3>2. DOMAIN new[r] = RedeemerKeys /\ new[r].tag = rs[r].tag /\ new[r].item = rs[r].item
          /\ new[r].data = rs[r].data /\ new[r].index = Position(k, DOMAIN map)
      <4> HIDE DEF k, new
      <4> QED BY <2>1, <3>1 DEF RedeemerKeys
    <3>3. k \in keys
      BY <2>3
    <3>4. QED
      <4> HIDE DEF k, new
      <4> QED BY <2>3, <3>2, <3>3
  <2>4. QED BY <2>2, <2>3
<1>6. QED
  <2> HIDE DEF new
  <2>1. AreRedeemers(new)
    BY <1>3, <1>4, <1>5 DEF AreRedeemers
  <2>2. QED BY <1>3, <1>5, <2>1 DEF new

(* Balancing keeps the tags and items of the redeemers. *)
LEMMA BalancedRedeemers ==
  ASSUME AreRedeemers(redeemers), NEW laid
  PROVE  /\ AreRedeemers(Balanced(laid))
         /\ DOMAIN Balanced(laid) = DOMAIN redeemers
         /\ Balanced(laid) = <<>> <=> redeemers = <<>>
         /\ \A r \in DOMAIN redeemers :
              /\ Balanced(laid)[r].tag = redeemers[r].tag
              /\ Balanced(laid)[r].item = redeemers[r].item
              /\ Balanced(laid)[r].index = SpendIndex(r, laid)
              /\ Balanced(laid)[r].data = IF r \in deferred THEN "resolved" ELSE redeemers[r].data
<1> DEFINE new == Balanced(laid)
<1>1. IsSequence(redeemers) /\ \A r \in DOMAIN redeemers : DOMAIN redeemers[r] = RedeemerKeys
  BY DEF AreRedeemers
<1>2. Len(redeemers) \in Nat /\ DOMAIN redeemers = 1..Len(redeemers) /\ (redeemers = <<>> <=> Len(redeemers) = 0)
  BY <1>1, LenOfSequence
<1>3. DOMAIN new = DOMAIN redeemers /\ new = [r \in DOMAIN redeemers |-> new[r]]
  BY DEF Balanced
<1>4. IsSequence(new) /\ Len(new) = Len(redeemers)
  <2> HIDE DEF new
  <2>1. new = [r \in 1..Len(redeemers) |-> new[r]]
    BY <1>2, <1>3
  <2>2. QED BY <1>2, <2>1, FunctionIsSequence, Zenon
<1>5. ASSUME NEW r \in DOMAIN redeemers
      PROVE  /\ DOMAIN new[r] = RedeemerKeys
             /\ new[r].tag = redeemers[r].tag
             /\ new[r].item = redeemers[r].item
             /\ new[r].index = SpendIndex(r, laid)
             /\ new[r].data = IF r \in deferred THEN "resolved" ELSE redeemers[r].data
  <2> DEFINE n == SpendIndex(r, laid)
             d == IF r \in deferred THEN "resolved" ELSE redeemers[r].data
  <2>1. DOMAIN redeemers[r] = RedeemerKeys
    BY <1>1
  <2>2. new[r] = [redeemers[r] EXCEPT !.index = n, !.data = d]
    BY <2>1 DEF Balanced, RedeemerKeys
  <2>3. QED
    <3> HIDE DEF n, d, new
    <3>1. /\ DOMAIN new[r] = RedeemerKeys
          /\ new[r].tag = redeemers[r].tag
          /\ new[r].item = redeemers[r].item
          /\ new[r].index = n /\ new[r].data = d
      BY <2>1, <2>2 DEF RedeemerKeys
    <3>2. QED BY <3>1 DEF n, d
<1>6. QED
  <2> HIDE DEF new
  <2>1. AreRedeemers(new)
    BY <1>3, <1>4, <1>5 DEF AreRedeemers
  <2>2. new = <<>> <=> Len(new) = 0
    BY <1>4, LenOfSequence
  <2>3. QED BY <1>2, <1>3, <1>4, <1>5, <2>1, <2>2 DEF new

(* The map of the inputs gives an input a redeemer that some entry has. *)
LEMMA FirstRedeemerIsOne ==
  ASSUME NEW ins, IsSequence(ins), NEW i \in DOMAIN ins, ins[i].redeemer # 0
  PROVE  \E j \in DOMAIN ins :
           ins[j].redeemer # 0 /\ FirstRedeemer(ins, ins[i].id) = ins[j].redeemer
<1> DEFINE entries == {j \in DOMAIN ins : ins[j].id = ins[i].id /\ ins[j].redeemer # 0}
           m == CHOOSE j \in entries : \A q \in entries : j <= q
<1>1. entries # {} /\ entries \in SUBSET Nat
  BY LenOfSequence
<1>2. m \in entries
  <2> HIDE DEF entries
  <2>1. \E j \in entries : \A q \in entries : j <= q
    BY <1>1, LeastNatural
  <2>2. QED BY <2>1
<1>3. QED
  BY <1>2 DEF FirstRedeemer

(* Balancing changes the index of spending redeemers only. *)
LEMMA SpendIndexOfOthers ==
  ASSUME IsSequence(inputs), SpendOnly, NEW laid,
         NEW r \in DOMAIN redeemers, redeemers[r].tag # "spend"
  PROVE  SpendIndex(r, laid) = redeemers[r].index
<1>1. ASSUME NEW i \in DOMAIN inputs, inputs[i].redeemer # 0, FirstRedeemer(inputs, inputs[i].id) = r
      PROVE  FALSE
  <2>1. PICK j \in DOMAIN inputs : inputs[j].redeemer # 0 /\ r = inputs[j].redeemer
    BY <1>1, FirstRedeemerIsOne
  <2>2. QED BY <2>1 DEF SpendOnly
<1>2. QED
  BY <1>1 DEF SpendIndex

-----------------------------------------------------------------------------
(* A step that leaves the maps alone keeps them right if it leaves the mapped *)
(* redeemers alone.                                                           *)
LEMMA KeptMapped ==
  ASSUME NEW tags, Kept(tags), NEW tag \in MapTags, tag \notin tags, Mapped(tag), maps'[tag] = maps[tag]
  PROVE  Mapped(tag)'
BY DEF Kept, Mapped

LEMMA KeptSpendOnly ==
  ASSUME NEW tags, Kept(tags), SpendOnly, inputs' = inputs
  PROVE  SpendOnly'
BY DEF Kept, SpendOnly

(* Nothing happened to the redeemers. *)
LEMMA SameKept ==
  ASSUME redeemers' = redeemers
  PROVE  Kept({})
BY DEF Kept

(* A redeemer of a list was appended. *)
LEMMA AppendKept ==
  ASSUME AreRedeemers(redeemers), NEW tag, NEW item, NEW index, NEW given,
         redeemers' = Append(redeemers, NewRedeemer(tag, item, index, given))
  PROVE  AreRedeemers(redeemers') /\ Kept({tag})
BY AppendRedeemer DEF Kept

(* A redeemer of a map was added, or a NULL entry: the other maps and their    *)
(* redeemers are as before, and those of this map have their new positions.    *)
LEMMA AddRedeemerKept ==
  ASSUME AreRedeemers(redeemers), DOMAIN maps = MapTags,
         NEW tag \in MapTags, NEW item, NEW given,
         Mapped(tag), AddRedeemer(tag, item, given)
  PROVE  /\ AreRedeemers(redeemers')
         /\ Kept({tag})
         /\ DOMAIN maps' = MapTags
         /\ \A t \in MapTags \ {tag} : maps'[t] = maps[t]
         /\ DOMAIN maps'[tag] = DOMAIN maps[tag] \cup {item}
         /\ Mapped(tag)'
<1>1. CASE item \in DOMAIN maps[tag]
  <2>1. redeemers' = redeemers /\ maps' = maps
    BY <1>1 DEF AddRedeemer
  <2>2. QED
    BY <1>1, <2>1 DEF Kept, Mapped
<1>2. CASE item \notin DOMAIN maps[tag]
  <2> DEFINE old == maps[tag]
             n   == Len(redeemers) + 1
             new == WithKey(old, item, IF given = "null" THEN 0 ELSE n)
             rs  == IF given = "null" THEN redeemers
                                      ELSE Append(redeemers, NewRedeemer(tag, item, 0, given))
  <2>1. maps' = [maps EXCEPT ![tag] = new] /\ redeemers' = Reindexed(rs, new)
    BY <1>2 DEF AddRedeemer
  <2>2. /\ DOMAIN maps' = MapTags
        /\ \A t \in MapTags \ {tag} : maps'[t] = maps[t]
        /\ maps'[tag] = new
    <3> HIDE DEF new
    <3> QED BY <2>1
  <2>3. /\ DOMAIN new = DOMAIN old \cup {item}
        /\ \A k \in DOMAIN old : new[k] = old[k]
        /\ new[item] = IF given = "null" THEN 0 ELSE n
    BY <1>2 DEF WithKey
  <2>4. Len(redeemers) \in Nat /\ DOMAIN redeemers = 1..Len(redeemers) /\ n \in Nat /\ n \notin DOMAIN redeemers
    BY LenOfSequence DEF AreRedeemers
  <2>5. /\ AreRedeemers(rs)
        /\ DOMAIN rs = DOMAIN redeemers \cup (IF given = "null" THEN {} ELSE {n})
        /\ \A r \in DOMAIN redeemers : rs[r] = redeemers[r]
        /\ given # "null" => rs[n].tag = tag /\ rs[n].item = item
    <3>1. CASE given = "null"
      BY <3>1
    <3>2. CASE given # "null"
      <4>1. rs = Append(redeemers, NewRedeemer(tag, item, 0, given))
        BY <3>2
      <4>2. /\ AreRedeemers(rs)
            /\ DOMAIN rs = 1..n
            /\ \A r \in DOMAIN redeemers : rs[r] = redeemers[r]
            /\ rs[n].tag = tag
            /\ rs[n].item = item
        <5> HIDE DEF rs
        <5> QED BY <4>1, AppendRedeemer
      <4>3. QED
        <5> HIDE DEF rs
        <5> QED BY <2>4, <3>2, <4>2
    <3>3. QED BY <3>1, <3>2
  <2> HIDE DEF new, rs
  <2>6. /\ AreRedeemers(redeemers')
        /\ DOMAIN redeemers' = DOMAIN rs
        /\ \A r \in DOMAIN rs :
              LET keys == {key \in DOMAIN new : new[key] = r}
              IN /\ redeemers'[r].tag = rs[r].tag
                 /\ redeemers'[r].item = rs[r].item
                 /\ keys = {} => redeemers'[r] = rs[r]
                 /\ \A key : keys = {key} => redeemers'[r].index = Position(key, DOMAIN new)
    BY <2>1, <2>5, ReindexedRedeemers
  <2>7. ASSUME NEW r \in DOMAIN rs, rs[r].tag = tag
        PROVE  {key \in DOMAIN new : new[key] = r} = {rs[r].item}
    <3>1. CASE r \in DOMAIN redeemers
      <4>1. redeemers[r].item \in DOMAIN old /\ old[redeemers[r].item] = r /\ rs[r].item = redeemers[r].item
        BY <2>5, <2>7, <3>1 DEF Mapped
      <4>2. ASSUME NEW key \in DOMAIN new, new[key] = r PROVE key = redeemers[r].item
        <5>1. r # 0 /\ r # n
          BY <2>4, <3>1
        <5>2. key \in DOMAIN old /\ old[key] = r
          BY <2>3, <4>2, <5>1
        <5>3. QED BY <5>1, <5>2 DEF Mapped
      <4>3. QED BY <2>3, <4>1, <4>2
    <3>2. CASE r \notin DOMAIN redeemers
      <4>1. r = n /\ given # "null" /\ rs[r].item = item
        BY <2>5, <3>2
      <4>2. ASSUME NEW key \in DOMAIN old PROVE old[key] # n
        BY <2>4 DEF Mapped
      <4>3. QED BY <2>3, <4>1, <4>2
    <3>3. QED BY <3>1, <3>2
  <2>8. ASSUME NEW r \in DOMAIN rs, rs[r].tag # tag
        PROVE  {key \in DOMAIN new : new[key] = r} = {}
    <3>1. r \in DOMAIN redeemers /\ redeemers[r].tag # tag
      BY <2>5, <2>8
    <3>2. r # 0 /\ r # n
      BY <2>4, <3>1
    <3>3. ASSUME NEW key \in DOMAIN old PROVE old[key] # r
      BY <3>1, <3>2 DEF Mapped
    <3>4. QED BY <2>3, <3>2, <3>3
  <2>9. Kept({tag})
    <3>1. DOMAIN redeemers \subseteq DOMAIN redeemers'
      BY <2>5, <2>6
    <3>2. ASSUME NEW r \in DOMAIN redeemers
          PROVE  /\ redeemers'[r].tag = redeemers[r].tag
                 /\ redeemers'[r].item = redeemers[r].item
                 /\ redeemers[r].tag \notin {tag} => redeemers'[r].index = redeemers[r].index
      <4>1. r \in DOMAIN rs /\ rs[r] = redeemers[r]
        BY <2>5
      <4>2. redeemers[r].tag # tag => redeemers'[r] = redeemers[r]
        BY <2>6, <2>8, <4>1
      <4>3. QED BY <2>6, <4>1, <4>2
    <3>3. ASSUME NEW r \in DOMAIN redeemers' \ DOMAIN redeemers PROVE redeemers'[r].tag = tag
      BY <2>5, <2>6, <3>3
    <3>4. QED BY <3>1, <3>2, <3>3 DEF Kept
  <2>10. Mapped(tag)'
    <3>1. ASSUME NEW r \in DOMAIN redeemers', redeemers'[r].tag = tag
          PROVE  /\ redeemers'[r].item \in DOMAIN maps'[tag]
                 /\ maps'[tag][redeemers'[r].item] = r
                 /\ redeemers'[r].index = Position(redeemers'[r].item, DOMAIN maps'[tag])
      <4>1. r \in DOMAIN rs /\ rs[r].tag = tag /\ redeemers'[r].item = rs[r].item
        BY <2>6, <3>1
      <4>2. {key \in DOMAIN new : new[key] = r} = {rs[r].item}
        BY <2>7, <4>1
      <4>3. rs[r].item \in DOMAIN new /\ new[rs[r].item] = r
        BY <4>2
      <4>4. redeemers'[r].index = Position(rs[r].item, DOMAIN new)
        BY <2>6, <4>1, <4>2
      <4>5. QED BY <2>2, <4>1, <4>3, <4>4
    <3>2. ASSUME NEW k \in DOMAIN maps'[tag], maps'[tag][k] # 0
          PROVE  /\ maps'[tag][k] \in DOMAIN redeemers'
                 /\ redeemers'[maps'[tag][k]].tag = tag
                 /\ redeemers'[maps'[tag][k]].item = k
      <4>1. CASE k = item
        BY <2>2, <2>3, <2>5, <2>6, <3>2, <4>1
      <4>2. CASE k # item
        <5>1. k \in DOMAIN old /\ new[k] = old[k]
          BY <2>2, <2>3, <3>2, <4>2
        <5>2. old[k] \in DOMAIN redeemers /\ redeemers[old[k]].tag = tag /\ redeemers[old[k]].item = k
          BY <2>2, <3>2, <5>1 DEF Mapped
        <5>3. QED BY <2>2, <2>5, <2>6, <5>1, <5>2
      <4>3. QED BY <4>1, <4>2
    <3>3. QED BY <3>1, <3>2 DEF Mapped
  <2>11. QED BY <2>2, <2>3, <2>6, <2>9, <2>10
<1>3. QED BY <1>1, <1>2

-----------------------------------------------------------------------------
(* compare_by_bytes orders the hashes and the voters. *)
LEMMA BeforeIdentity ==
  ASSUME NEW a \in Identity, NEW b \in Identity
  PROVE  /\ Before(a, b) <=> a[1] < b[1]
         /\ a[1] \in Nat /\ b[1] \in Nat
         /\ a[1] = b[1] => a = b
BY DEF Before, Identity

LEMMA BeforeCredential ==
  ASSUME NEW a \in Credential, NEW b \in Credential
  PROVE  /\ Before(a, b) <=> voter_before(a, b)
         /\ a[1] \in Nat /\ b[1] \in Nat /\ a[2] \in Nat /\ b[2] \in Nat
         /\ a[1] = b[1] /\ a[2] = b[2] => a = b
<1>1. DOMAIN a = 1..2 /\ a[1] \in Nat /\ a[2] \in Nat /\ b[1] \in Nat /\ b[2] \in Nat
  BY DEF Credential
<1>2. a[1] = b[1] /\ a[2] = b[2] => a = b
  BY DEF Credential
<1>3. Before(a, b) <=> voter_before(a, b)
  BY <1>1 DEF Before, voter_before
<1>4. QED BY <1>1, <1>2, <1>3

(* Of two keys of a finite set the later one has more keys before it. *)
LEMMA LaterIsHigher ==
  ASSUME NEW S, IsFiniteSet(S), NEW a \in S, NEW b \in S,
         Before(a, b), ~Before(a, a),
         \A k \in S : Before(k, a) => Before(k, b)
  PROVE  Position(a, S) # Position(b, S)
<1> DEFINE A == {k \in S : Before(k, a)}
           B == {k \in S : Before(k, b)}
<1>1. A \subseteq B /\ a \in B /\ a \notin A
  OBVIOUS
<1>2. B \in SUBSET S
  OBVIOUS
<1>3. IsFiniteSet(B)
  BY <1>2, FS_Subset
<1>4. Cardinality(A) # Cardinality(B)
  <2> HIDE DEF A, B
  <2> QED BY <1>1, <1>3, FS_Subset
<1>5. QED BY <1>4 DEF Position

LEMMA PolicyPositions ==
  ASSUME NEW S, S \subseteq Identity, IsFiniteSet(S), NEW a \in S, NEW b \in S,
         Position(a, S) = Position(b, S)
  PROVE  a = b
<1>1. \A x, y \in S : x[1] \in Nat /\ y[1] \in Nat /\ (Before(x, y) <=> x[1] < y[1]) /\ (x[1] = y[1] => x = y)
  BY BeforeIdentity
<1>2. ASSUME NEW x \in S, NEW y \in S, Before(x, y) PROVE Position(x, S) # Position(y, S)
  <2>1. ~Before(x, x) /\ \A k \in S : Before(k, x) => Before(k, y)
    BY <1>1, <1>2
  <2>2. QED BY <1>2, <2>1, LaterIsHigher
<1>3. a[1] \in Nat /\ b[1] \in Nat /\ ~(a[1] < b[1]) /\ ~(b[1] < a[1])
  BY <1>1, <1>2
<1>4. QED BY <1>1, <1>3

LEMMA VoterPositions ==
  ASSUME NEW S, S \subseteq Credential, IsFiniteSet(S), NEW a \in S, NEW b \in S,
         Position(a, S) = Position(b, S)
  PROVE  a = b
<1>1. \A x, y \in S : /\ x[1] \in Nat /\ y[1] \in Nat /\ x[2] \in Nat /\ y[2] \in Nat
                      /\ Before(x, y) <=> voter_before(x, y)
                      /\ x[1] = y[1] /\ x[2] = y[2] => x = y
  BY BeforeCredential
<1>2. ASSUME NEW x \in S, NEW y \in S, Before(x, y) PROVE Position(x, S) # Position(y, S)
  <2>1. ~Before(x, x)
    BY <1>1 DEF voter_before
  <2>2. ASSUME NEW k \in S, Before(k, x) PROVE Before(k, y)
    <3>1. voter_before(k, x) /\ voter_before(x, y)
      BY <1>1, <1>2, <2>2
    <3>2. voter_before(k, y)
      BY <1>1, <3>1 DEF voter_before
    <3>3. QED BY <1>1, <3>2
  <2>3. QED BY <1>2, <2>1, <2>2, LaterIsHigher
<1>3. ~voter_before(a, b) /\ ~voter_before(b, a)
  BY <1>1, <1>2
<1>4. a[1] = b[1] /\ a[2] = b[2]
  BY <1>1, <1>3 DEF voter_before
<1>5. QED BY <1>1, <1>4

(* The links between maps, redeemers and items make the redeemers point right. *)
LEMMA PointersFind ==
  ASSUME Pointers
  PROVE  PointersFindTheirItem
<1> SUFFICES ASSUME NEW r \in DOMAIN redeemers,
                    redeemers[r].tag \in {"mint", "vote", "certifying", "proposing"}
             PROVE  PointedAt(r) = {redeemers[r].item}
  BY DEF PointersFindTheirItem
<1> DEFINE item == redeemers[r].item
           n    == redeemers[r].index
<1>1. CASE redeemers[r].tag = "mint"
  <2>1. /\ body.mint \subseteq Identity /\ IsFiniteSet(body.mint)
        /\ item \in body.mint /\ n = Position(item, body.mint)
    BY <1>1 DEF Pointers, Mapped, MapTags
  <2>2. PointedAt(r) = {p \in body.mint : Cardinality({q \in body.mint : q[1] < p[1]}) = n}
    BY <1>1 DEF PointedAt
  <2>3. ASSUME NEW p \in body.mint
        PROVE  Cardinality({q \in body.mint : q[1] < p[1]}) = Position(p, body.mint)
    <3>1. {q \in body.mint : q[1] < p[1]} = {q \in body.mint : Before(q, p)}
      BY <2>1, BeforeIdentity
    <3>2. QED BY <3>1 DEF Position
  <2>4. PointedAt(r) = {p \in body.mint : Position(p, body.mint) = n}
    BY <2>2, <2>3
  <2>5. \A p \in body.mint : Position(p, body.mint) = n => p = item
    BY <2>1, PolicyPositions
  <2>6. QED BY <2>1, <2>4, <2>5
<1>2. CASE redeemers[r].tag = "vote"
  <2>1. /\ body.votes \subseteq Credential /\ IsFiniteSet(body.votes)
        /\ item \in body.votes /\ n = Position(item, body.votes)
    BY <1>2 DEF Pointers, Mapped, MapTags
  <2>2. PointedAt(r) = {v \in body.votes : Cardinality({w \in body.votes : voter_before(w, v)}) = n}
    BY <1>2 DEF PointedAt
  <2>3. ASSUME NEW p \in body.votes
        PROVE  Cardinality({w \in body.votes : voter_before(w, p)}) = Position(p, body.votes)
    <3>1. {w \in body.votes : voter_before(w, p)} = {w \in body.votes : Before(w, p)}
      BY <2>1, BeforeCredential
    <3>2. QED BY <3>1 DEF Position
  <2>4. PointedAt(r) = {p \in body.votes : Position(p, body.votes) = n}
    BY <2>2, <2>3
  <2>5. \A p \in body.votes : Position(p, body.votes) = n => p = item
    BY <2>1, VoterPositions
  <2>6. QED BY <2>1, <2>4, <2>5
<1>3. CASE redeemers[r].tag = "certifying"
  BY <1>3 DEF Pointers, Listed, PointedAt
<1>4. CASE redeemers[r].tag = "proposing"
  BY <1>4 DEF Pointers, Listed, PointedAt
<1>5. QED BY <1>1, <1>2, <1>3, <1>4

-----------------------------------------------------------------------------
LEMMA InitIInv ==
  ASSUME Init
  PROVE  IInv
<1>1. Shape
  <2>1. IsSequence(redeemers)
    BY DEF Init, IsSequence
  <2>2. QED BY <2>1 DEF Init, Shape, AreRedeemers, BodyKeys, MapTags
<1>2. Sticky
  BY DEF Init, Sticky, FirstFailureReported
<1>3. HashCoversWitnesses
  BY DEF Init, HashCoversWitnesses, HandedOut
<1>4. Pointers
  <2>1. DOMAIN redeemers = {} /\ DOMAIN inputs = {} /\ IsSequence(inputs)
    BY DEF Init, IsSequence
  <2>2. body.mint = {} /\ body.votes = {} /\ IsFiniteSet(body.mint) /\ IsFiniteSet(body.votes)
    BY FS_EmptySet DEF Init
  <2>3. IsSequence(body.certificates) /\ IsSequence(body.proposals)
    BY DEF Init, IsSequence
  <2>4. \A tag \in MapTags : DOMAIN maps[tag] = {}
    BY DEF Init, MapTags
  <2>5. \A tag \in MapTags : Mapped(tag)
    BY <2>1, <2>4 DEF Mapped
  <2>6. Listed("certifying", body.certificates) /\ Listed("proposing", body.proposals) /\ SpendOnly
    BY <2>1 DEF Listed, SpendOnly
  <2>7. QED BY <2>1, <2>2, <2>3, <2>4, <2>5, <2>6 DEF Pointers, MapTags
<1>5. QED BY <1>1, <1>2, <1>3, <1>4 DEF IInv

(* A step that keeps the items of the body except those of the given fields. *)
ItemsKept(fields) ==
  /\ DOMAIN body' = BodyKeys
  /\ \A f \in {"mint", "votes", "certificates", "proposals"} \ fields : body'[f] = body[f]

(* A step that leaves maps and inputs alone, and of the redeemers all but the *)
(* spending ones.                                                             *)
LEMMA QuietStep ==
  ASSUME Pointers, ItemsKept({}), maps' = maps, inputs' = inputs, Kept({"spend"})
  PROVE  Pointers'
<1>1. /\ body'.mint = body.mint /\ body'.votes = body.votes
      /\ body'.certificates = body.certificates /\ body'.proposals = body.proposals
  BY DEF ItemsKept
<1>2. \A tag \in MapTags : Mapped(tag)'
  BY KeptMapped DEF Pointers, MapTags
<1>3. Listed("certifying", body.certificates)' /\ Listed("proposing", body.proposals)'
  <2>1. Listed("certifying", body.certificates) /\ Listed("proposing", body.proposals)
    BY DEF Pointers
  <2>2. QED BY <1>1, <2>1 DEF Kept, Listed
<1>4. SpendOnly'
  BY KeptSpendOnly DEF Pointers
<1>5. QED BY <1>1, <1>2, <1>3, <1>4 DEF Pointers

(* A step that adds an item, with its redeemer or NULL, to a map. *)
LEMMA MapStep ==
  ASSUME Pointers, Shape, NEW tag \in MapTags, NEW item, NEW given,
         AddRedeemer(tag, item, given),
         ItemsKept({"mint", "votes"}), inputs' = inputs,
         tag = "mint" => item \in Identity, tag = "vote" => item \in Credential,
         body'.mint  = IF tag = "mint" THEN body.mint \cup {item} ELSE body.mint,
         body'.votes = IF tag = "vote" THEN body.votes \cup {item} ELSE body.votes
  PROVE  Pointers' /\ Shape'
<1>1. body'.certificates = body.certificates /\ body'.proposals = body.proposals
  BY DEF ItemsKept
<1>2. /\ AreRedeemers(redeemers')
      /\ Kept({tag})
      /\ DOMAIN maps' = MapTags
      /\ \A t \in MapTags \ {tag} : maps'[t] = maps[t]
      /\ DOMAIN maps'[tag] = DOMAIN maps[tag] \cup {item}
      /\ Mapped(tag)'
  BY AddRedeemerKept DEF Pointers, Shape
<1>3. ASSUME NEW t \in MapTags PROVE Mapped(t)'
  <2>1. CASE t = tag
    BY <1>2, <2>1
  <2>2. CASE t # tag
    <3>1. Mapped(t) /\ maps'[t] = maps[t] /\ t \notin {tag}
      BY <1>2, <2>2 DEF Pointers
    <3>2. QED BY <1>2, <3>1, KeptMapped
  <2>3. QED BY <2>1, <2>2
<1>4. DOMAIN maps'["mint"] = body'.mint /\ DOMAIN maps'["vote"] = body'.votes
  <2>1. DOMAIN maps["mint"] = body.mint /\ DOMAIN maps["vote"] = body.votes
    BY DEF Pointers
  <2>2. QED BY <1>2, <2>1 DEF MapTags
<1>5. /\ body'.mint \subseteq Identity /\ IsFiniteSet(body'.mint)
      /\ body'.votes \subseteq Credential /\ IsFiniteSet(body'.votes)
  <2>1. /\ body.mint \subseteq Identity /\ IsFiniteSet(body.mint)
        /\ body.votes \subseteq Credential /\ IsFiniteSet(body.votes)
    BY DEF Pointers
  <2>2. IsFiniteSet(body.mint \cup {item}) /\ IsFiniteSet(body.votes \cup {item})
    BY <2>1, FS_AddElement
  <2>3. QED BY <2>1, <2>2
<1>6. Listed("certifying", body.certificates)' /\ Listed("proposing", body.proposals)'
  <2>1. Listed("certifying", body.certificates) /\ Listed("proposing", body.proposals)
    BY DEF Pointers
  <2>2. "certifying" \notin {tag} /\ "proposing" \notin {tag}
    BY DEF MapTags
  <2>3. QED BY <1>1, <1>2, <2>1, <2>2 DEF Kept, Listed
<1>7. SpendOnly'
  BY <1>2, KeptSpendOnly DEF Pointers
<1>8. Pointers'
  BY <1>1, <1>3, <1>4, <1>5, <1>6, <1>7 DEF Pointers
<1>9. Shape'
  BY <1>2 DEF Shape, ItemsKept
<1>10. QED BY <1>8, <1>9

(* The redeemer of an item appended to a list. *)
LEMMA ListStep ==
  ASSUME AreRedeemers(redeemers), NEW tag, NEW items, IsSequence(items), NEW item, NEW given, NEW present \in BOOLEAN,
         Listed(tag, items),
         redeemers' = IF present THEN Append(redeemers, NewRedeemer(tag, item, Len(items), given)) ELSE redeemers
  PROVE  /\ AreRedeemers(redeemers')
         /\ Kept({tag})
         /\ IsSequence(Append(items, item))
         /\ \A more : more = Append(items, item) => Listed(tag, more)'
<1> DEFINE more == Append(items, item)
<1>1. /\ IsSequence(more) /\ Len(items) \in Nat /\ Len(more) = Len(items) + 1
      /\ \A i \in 1..Len(items) : more[i] = items[i]
      /\ more[Len(items) + 1] = item
  BY AppendToSequence
<1>2. CASE ~present
  <2>1. redeemers' = redeemers
    BY <1>2
  <2>2. Listed(tag, more)'
    <3> HIDE DEF more
    <3> QED BY <1>1, <2>1 DEF Listed
  <2>3. QED BY <1>1, <2>1, <2>2 DEF Kept
<1>3. CASE present
  <2>1. /\ AreRedeemers(redeemers')
        /\ DOMAIN redeemers' = 1..(Len(redeemers) + 1)
        /\ DOMAIN redeemers = 1..Len(redeemers) /\ Len(redeemers) \in Nat
        /\ \A r \in DOMAIN redeemers : redeemers'[r] = redeemers[r]
        /\ redeemers'[Len(redeemers) + 1].tag = tag
        /\ redeemers'[Len(redeemers) + 1].item = item
        /\ redeemers'[Len(redeemers) + 1].index = Len(items)
    BY <1>3, AppendRedeemer
  <2>2. Kept({tag})
    BY <2>1 DEF Kept
  <2>3. ASSUME NEW r \in DOMAIN redeemers', redeemers'[r].tag = tag
        PROVE  /\ redeemers'[r].index \in Nat
               /\ redeemers'[r].index < Len(more)
               /\ more[redeemers'[r].index + 1] = redeemers'[r].item
    <3> HIDE DEF more
    <3>1. CASE r \in DOMAIN redeemers
      <4>1. redeemers'[r] = redeemers[r]
        BY <2>1, <3>1
      <4>2. redeemers[r].index \in Nat /\ redeemers[r].index < Len(items)
            /\ items[redeemers[r].index + 1] = redeemers[r].item
        BY <2>3, <3>1, <4>1 DEF Listed
      <4> DEFINE x == redeemers[r].index
      <4> HIDE DEF x
      <4>3. x \in Nat /\ x < Len(items) /\ items[x + 1] = redeemers[r].item
        BY <4>2 DEF x
      <4>4. x < Len(more) /\ more[x + 1] = items[x + 1]
        BY <1>1, <4>3
      <4>5. QED BY <4>1, <4>3, <4>4 DEF x
    <3>2. CASE r \notin DOMAIN redeemers
      <4>1. r = Len(redeemers) + 1
        BY <2>1, <3>2
      <4>2. QED BY <1>1, <2>1, <4>1
    <3>3. QED BY <3>1, <3>2
  <2>4. Listed(tag, more)'
    BY <2>3 DEF Listed
  <2>5. QED BY <1>1, <2>1, <2>2, <2>4
<1>4. QED BY <1>2, <1>3

(* Every step keeps the shape of the transaction and the links. *)
LEMMA PointersStep ==
  ASSUME Shape, Pointers, [Next]_vars
  PROVE  Shape' /\ Pointers'
<1> USE DEF tx, state
<1>1. AreRedeemers(redeemers) /\ DOMAIN body = BodyKeys /\ DOMAIN maps = MapTags
  BY DEF Shape
<1>2. ASSUME redeemers' = redeemers, maps' = maps, inputs' = inputs, ItemsKept({})
      PROVE  Shape' /\ Pointers'
  <2>1. Kept({"spend"})
    BY <1>2 DEF Kept
  <2>2. Pointers'
    BY <1>2, <2>1, QuietStep
  <2>3. QED BY <1>1, <1>2, <2>2 DEF Shape, ItemsKept, AreRedeemers
<1>3. body' = body => ItemsKept({})
  BY <1>1 DEF ItemsKept
<1>4. ASSUME NEW c \in Calls, Method(c) PROVE Shape' /\ Pointers'
  <2>1. CASE Configure(c)
    BY <1>2, <1>3, <2>1 DEF Configure
  <2>2. CASE SetBodyField(c)
    <3>1. ItemsKept({})
      BY <1>1, <2>2 DEF SetBodyField, ItemsKept, BodyKeys
    <3>2. QED BY <1>2, <2>2, <3>1 DEF SetBodyField
  <2>3. CASE InvalidArgument(c)
    BY <1>2, <1>3, <2>3 DEF InvalidArgument
  <2>4. CASE AddOutput(c)
    <3>1. ItemsKept({})
      BY <1>1, <2>4 DEF AddOutput, ItemsKept, BodyKeys
    <3>2. QED BY <1>2, <2>4, <3>1 DEF AddOutput
  <2>5. CASE AddReferenceInput(c)
    <3>1. ItemsKept({})
      BY <1>1, <2>5 DEF AddReferenceInput, ItemsKept, BodyKeys
    <3>2. QED BY <1>2, <2>5, <3>1 DEF AddReferenceInput
  <2>6. CASE AddDatum(c)
    BY <1>2, <1>3, <2>6 DEF AddDatum
  <2>7. CASE AddScript(c)
    BY <1>2, <1>3, <2>7 DEF AddScript
  <2>8. CASE AddInput(c)
    <3> DEFINE own == IF c.redeemer = "null" THEN 0 ELSE Len(redeemers) + 1
               entry == [id |-> c.item, redeemer |-> own]
    <3>1. /\ redeemers' = (IF c.redeemer = "null" THEN redeemers
                           ELSE Append(redeemers, NewRedeemer("spend", c.item, 0, c.redeemer)))
          /\ inputs' = Append(inputs, entry) /\ body' = body /\ maps' = maps
      BY <2>8 DEF AddInput
    <3>2. /\ AreRedeemers(redeemers') /\ Kept({"spend"})
          /\ own # 0 => own \in DOMAIN redeemers' /\ redeemers'[own].tag = "spend"
      <4>1. CASE c.redeemer = "null"
        BY <1>1, <3>1, <4>1, SameKept DEF Kept
      <4>2. CASE c.redeemer # "null"
        <5>1. /\ redeemers' = Append(redeemers, NewRedeemer("spend", c.item, 0, c.redeemer))
              /\ own = Len(redeemers) + 1
          BY <3>1, <4>2
        <5>2. AreRedeemers(redeemers') /\ Kept({"spend"})
          BY <1>1, <5>1, AppendKept
        <5>3. own \in DOMAIN redeemers' /\ redeemers'[own].tag = "spend"
          BY <1>1, <5>1, AppendRedeemer
        <5>4. QED BY <5>2, <5>3
      <4>3. QED BY <4>1, <4>2
    <3>3. /\ IsSequence(inputs') /\ DOMAIN inputs = 1..Len(inputs) /\ Len(inputs) \in Nat
          /\ DOMAIN inputs' = 1..(Len(inputs) + 1)
          /\ \A i \in 1..Len(inputs) : inputs'[i] = inputs[i]
          /\ inputs'[Len(inputs) + 1] = entry
      <4> HIDE DEF entry
      <4>1. IsSequence(inputs)
        BY DEF Pointers
      <4>2. QED BY <3>1, <4>1, AppendToSequence
    <3>4. SpendOnly'
      <4> SUFFICES ASSUME NEW i \in DOMAIN inputs', inputs'[i].redeemer # 0
                   PROVE  /\ inputs'[i].redeemer \in DOMAIN redeemers'
                          /\ redeemers'[inputs'[i].redeemer].tag = "spend"
        BY DEF SpendOnly
      <4>1. CASE i \in DOMAIN inputs
        <5>1. inputs'[i] = inputs[i]
          BY <3>3, <4>1
        <5>2. inputs[i].redeemer \in DOMAIN redeemers /\ redeemers[inputs[i].redeemer].tag = "spend"
          BY <4>1, <5>1 DEF Pointers, SpendOnly
        <5>3. QED BY <3>2, <5>1, <5>2 DEF Kept
      <4>2. CASE i \notin DOMAIN inputs
        <5>1. i = Len(inputs) + 1
          BY <3>3, <4>2
        <5>2. inputs'[i].redeemer = own
          BY <3>3, <5>1
        <5>3. QED
          <6> HIDE DEF own
          <6> QED BY <3>2, <5>2
      <4>3. QED BY <4>1, <4>2
    <3>5. \A tag \in MapTags : Mapped(tag)'
      BY <3>1, <3>2, KeptMapped DEF Pointers, MapTags
    <3>6. Listed("certifying", body.certificates)' /\ Listed("proposing", body.proposals)'
      <4>1. Listed("certifying", body.certificates) /\ Listed("proposing", body.proposals)
        BY DEF Pointers
      <4>2. QED BY <3>1, <3>2, <4>1 DEF Kept, Listed
    <3>7. Pointers'
      BY <3>1, <3>3, <3>4, <3>5, <3>6 DEF Pointers
    <3>8. QED BY <1>1, <3>1, <3>2, <3>7 DEF Shape
  <2>9. CASE MintToken(c)
    <3>1. /\ c.item \in Identity /\ inputs' = inputs
          /\ AddRedeemer("mint", c.item, c.redeemer)
          /\ body' = [body EXCEPT !.mint = @ \cup {c.item}]
      BY <2>9, CallsAssumption DEF MintToken
    <3>2. ItemsKept({"mint", "votes"}) /\ body'.mint = body.mint \cup {c.item} /\ body'.votes = body.votes
      BY <1>1, <3>1 DEF ItemsKept, BodyKeys
    <3>3. "mint" \in MapTags
      BY DEF MapTags
    <3>4. QED BY <3>1, <3>2, <3>3, MapStep
  <2>10. CASE WithdrawRewards(c)
    <3>1. /\ inputs' = inputs
          /\ body' = [body EXCEPT !.withdrawals = InsertWithdrawal(@, c.item)]
          /\ \/ redeemers' = redeemers /\ maps' = maps
             \/ AddRedeemer("reward", c.item, c.redeemer)
      BY <2>10 DEF WithdrawRewards
    <3>2. ItemsKept({}) /\ ItemsKept({"mint", "votes"}) /\ body'.mint = body.mint /\ body'.votes = body.votes
      <4> DEFINE ws == InsertWithdrawal(body.withdrawals, c.item)
      <4>1. body' = [body EXCEPT !.withdrawals = ws]
        BY <3>1
      <4>2. QED
        <5> HIDE DEF ws
        <5> QED BY <1>1, <4>1 DEF ItemsKept, BodyKeys
    <3>3. "reward" \in MapTags
      BY DEF MapTags
    <3>4. CASE redeemers' = redeemers /\ maps' = maps
      BY <1>2, <3>1, <3>2, <3>4
    <3>5. CASE AddRedeemer("reward", c.item, c.redeemer)
      BY <3>1, <3>2, <3>3, <3>5, MapStep
    <3>6. QED BY <3>1, <3>4, <3>5
  <2>11. CASE Vote(c)
    <3>1. /\ c.item \in Credential /\ inputs' = inputs
          /\ AddRedeemer("vote", c.item, c.redeemer)
          /\ body' = [body EXCEPT !.votes = @ \cup {c.item}]
      BY <2>11, CallsAssumption DEF Vote
    <3>2. ItemsKept({"mint", "votes"}) /\ body'.mint = body.mint /\ body'.votes = body.votes \cup {c.item}
      BY <1>1, <3>1 DEF ItemsKept, BodyKeys
    <3>3. "vote" \in MapTags
      BY DEF MapTags
    <3>4. QED BY <3>1, <3>2, <3>3, MapStep
  <2>12. CASE AddCertificate(c)
    <3>1. /\ maps' = maps /\ inputs' = inputs
          /\ body' = [body EXCEPT !.certificates = Append(@, c.item)]
          /\ redeemers' = IF c.redeemer # "null"
                          THEN Append(redeemers, NewRedeemer("certifying", c.item, Len(body.certificates), c.redeemer))
                          ELSE redeemers
      BY <2>12 DEF AddCertificate
    <3>2. /\ DOMAIN body' = BodyKeys /\ body'.certificates = Append(body.certificates, c.item)
          /\ body'.mint = body.mint /\ body'.votes = body.votes /\ body'.proposals = body.proposals
      BY <1>1, <3>1 DEF BodyKeys
    <3>3. IsSequence(body.certificates) /\ Listed("certifying", body.certificates)
      BY DEF Pointers
    <3>4. /\ AreRedeemers(redeemers')
          /\ Kept({"certifying"})
          /\ IsSequence(body'.certificates)
          /\ Listed("certifying", body.certificates)'
      <4> DEFINE present == c.redeemer # "null"
      <4>1. present \in BOOLEAN
        OBVIOUS
      <4>2. redeemers' = IF present
                         THEN Append(redeemers, NewRedeemer("certifying", c.item, Len(body.certificates), c.redeemer))
                         ELSE redeemers
        BY <3>1
      <4>3. /\ AreRedeemers(redeemers')
            /\ Kept({"certifying"})
            /\ IsSequence(Append(body.certificates, c.item))
            /\ \A more : more = Append(body.certificates, c.item) => Listed("certifying", more)'
        <5> HIDE DEF present
        <5> QED BY <1>1, <3>3, <4>1, <4>2, ListStep
      <4>4. QED BY <3>2, <4>3 DEF Listed
    <3>5. \A tag \in MapTags : Mapped(tag)'
      BY <3>1, <3>4, KeptMapped DEF Pointers, MapTags
    <3>6. Listed("proposing", body.proposals)'
      <4>1. Listed("proposing", body.proposals)
        BY DEF Pointers
      <4>2. QED BY <3>2, <3>4, <4>1 DEF Kept, Listed
    <3>7. SpendOnly'
      BY <3>1, <3>4, KeptSpendOnly DEF Pointers
    <3>8. Pointers'
      BY <3>1, <3>2, <3>4, <3>5, <3>6, <3>7 DEF Pointers
    <3>9. QED BY <1>1, <3>1, <3>2, <3>4, <3>8 DEF Shape
  <2>13. CASE Propose(c)
    <3>1. /\ maps' = maps /\ inputs' = inputs
          /\ body' = [body EXCEPT !.proposals = Append(@, c.item)]
          /\ redeemers' = IF c.guarded
                          THEN Append(redeemers, NewRedeemer("proposing", c.item, Len(body.proposals), "literal"))
                          ELSE redeemers
      BY <2>13 DEF Propose
    <3>2. /\ DOMAIN body' = BodyKeys /\ body'.proposals = Append(body.proposals, c.item)
          /\ body'.mint = body.mint /\ body'.votes = body.votes /\ body'.certificates = body.certificates
      BY <1>1, <3>1 DEF BodyKeys
    <3>3. IsSequence(body.proposals) /\ Listed("proposing", body.proposals) /\ c.guarded \in BOOLEAN
      BY <2>13, CallsAssumption DEF Pointers, Propose
    <3>4. /\ AreRedeemers(redeemers')
          /\ Kept({"proposing"})
          /\ IsSequence(body'.proposals)
          /\ Listed("proposing", body.proposals)'
      <4>1. /\ AreRedeemers(redeemers')
            /\ Kept({"proposing"})
            /\ IsSequence(Append(body.proposals, c.item))
            /\ \A more : more = Append(body.proposals, c.item) => Listed("proposing", more)'
        BY <1>1, <3>1, <3>3, ListStep
      <4>2. QED BY <3>2, <4>1 DEF Listed
    <3>5. \A tag \in MapTags : Mapped(tag)'
      BY <3>1, <3>4, KeptMapped DEF Pointers, MapTags
    <3>6. Listed("certifying", body.certificates)'
      <4>1. Listed("certifying", body.certificates)
        BY DEF Pointers
      <4>2. QED BY <3>2, <3>4, <4>1 DEF Kept, Listed
    <3>7. SpendOnly'
      BY <3>1, <3>4, KeptSpendOnly DEF Pointers
    <3>8. Pointers'
      BY <3>1, <3>2, <3>4, <3>5, <3>6, <3>7 DEF Pointers
    <3>9. QED BY <1>1, <3>1, <3>2, <3>4, <3>8 DEF Shape
  <2>14. QED
    BY <1>4, <2>1, <2>2, <2>3, <2>4, <2>5, <2>6, <2>7, <2>8, <2>9, <2>10, <2>11, <2>12, <2>13 DEF Method
<1>5. CASE BuildFails
  <2>1. ItemsKept({})
    BY <1>1, <1>3, <1>5 DEF BuildFails, ItemsKept, BodyKeys
  <2>2. QED BY <1>2, <1>5, <2>1 DEF BuildFails
<1>6. CASE Build
  <2>1. PICK laid : redeemers' = Balanced(laid)
    BY <1>6 DEF Build
  <2>2. maps' = maps /\ inputs' = inputs
    BY <1>6 DEF Build
  <2>3. ItemsKept({})
    BY <1>1, <1>6 DEF Build, ItemsKept, BodyKeys
  <2>4. /\ AreRedeemers(redeemers')
        /\ DOMAIN redeemers' = DOMAIN redeemers
        /\ \A r \in DOMAIN redeemers :
             /\ redeemers'[r].tag = redeemers[r].tag
             /\ redeemers'[r].item = redeemers[r].item
             /\ redeemers'[r].index = SpendIndex(r, laid)
    BY <1>1, <2>1, BalancedRedeemers
  <2>5. \A r \in DOMAIN redeemers : redeemers[r].tag # "spend" => SpendIndex(r, laid) = redeemers[r].index
    BY SpendIndexOfOthers DEF Pointers
  <2>6. Kept({"spend"})
    BY <2>4, <2>5 DEF Kept
  <2>7. Pointers'
    BY <2>2, <2>3, <2>6, QuietStep
  <2>8. QED BY <1>1, <2>2, <2>3, <2>4, <2>7 DEF Shape, ItemsKept
<1>7. CASE BuildAgain
  BY <1>2, <1>3, <1>7 DEF BuildAgain
<1>8. CASE UNCHANGED vars
  BY <1>2, <1>3, <1>8 DEF vars
<1>9. QED
  BY <1>4, <1>5, <1>6, <1>7, <1>8 DEF Next, Finished

-----------------------------------------------------------------------------
(* A call of a method needs a builder without an error, and records a failure *)
(* only as the first one.                                                     *)
LEMMA MethodStep ==
  ASSUME NEW c \in Calls, Method(c), Shape
  PROVE  /\ last_error = "success"
         /\ result' = result
         /\ body'.script_data_hash = body.script_data_hash
         /\ \/ last_error' = "success" /\ first_failure' = first_failure
            \/ \E e \in {"invalid_argument", "pointer_is_null", "duplicated_key"} :
                 /\ last_error' = e
                 /\ first_failure' = IF first_failure # "none" THEN first_failure ELSE e
<1> DEFINE Tracked == \/ last_error' = last_error /\ first_failure' = first_failure
                      \/ \E e \in {"invalid_argument", "pointer_is_null", "duplicated_key"} :
                           /\ last_error' = e
                           /\ first_failure' = IF first_failure # "none" THEN first_failure ELSE e
<1>1. ASSUME NEW e \in {"success", "invalid_argument", "pointer_is_null", "duplicated_key"}, Track(e) PROVE Tracked
  BY <1>1 DEF Track
<1>2. DOMAIN body = BodyKeys
  BY DEF Shape
<1>3. ASSUME NEW tag, NEW item, NEW given, RegisterDeferred(tag, item, given) PROVE Tracked
  <2>1. Track("success") \/ Track("pointer_is_null")
    BY <1>3 DEF RegisterDeferred
  <2>2. QED BY <1>1, <2>1
<1> HIDE DEF Tracked
<1> USE DEF tx, state
<1>4. Ready /\ result' = result
  BY DEF Method, Configure, SetBodyField, InvalidArgument, AddOutput, AddInput, AddReferenceInput, MintToken,
         WithdrawRewards, Vote, AddCertificate, Propose, AddDatum, AddScript
<1>5. Tracked
  <2>1. CASE MintToken(c) \/ Vote(c)
    BY <1>3, <2>1 DEF MintToken, Vote
  <2>2. CASE WithdrawRewards(c)
    BY <1>1, <1>3, <2>2 DEF WithdrawRewards
  <2>3. CASE ~(MintToken(c) \/ Vote(c) \/ WithdrawRewards(c))
    <3>1. Track("success") \/ Track("invalid_argument")
      BY <2>3 DEF Method, Configure, SetBodyField, InvalidArgument, AddOutput, AddInput, AddReferenceInput,
                  AddCertificate, Propose, AddDatum, AddScript
    <3>2. QED BY <1>1, <3>1
  <2>4. QED BY <2>1, <2>2, <2>3
<1>6. body'.script_data_hash = body.script_data_hash
  <2>1. \/ body' = body
        \/ \E f \in BodyKeys \ {"script_data_hash"} : \E x : body' = [body EXCEPT ![f] = x]
    <3>1. CASE WithdrawRewards(c)
      <4> DEFINE ws == InsertWithdrawal(body.withdrawals, c.item)
      <4>1. body' = [body EXCEPT !.withdrawals = ws]
        BY <3>1 DEF WithdrawRewards
      <4>2. QED
        <5> HIDE DEF ws
        <5> QED BY <4>1 DEF BodyKeys
    <3>2. CASE MintToken(c)
      BY <3>2 DEF MintToken, BodyKeys
    <3>3. CASE Vote(c)
      BY <3>3 DEF Vote, BodyKeys
    <3>4. CASE AddCertificate(c)
      BY <3>4 DEF AddCertificate, BodyKeys
    <3>5. CASE Propose(c)
      BY <3>5 DEF Propose, BodyKeys
    <3>6. CASE SetBodyField(c) \/ AddOutput(c) \/ AddReferenceInput(c)
      BY <3>6 DEF SetBodyField, AddOutput, AddReferenceInput, BodyKeys
    <3>7. CASE Configure(c) \/ InvalidArgument(c) \/ AddInput(c) \/ AddDatum(c) \/ AddScript(c)
      BY <3>7 DEF Configure, InvalidArgument, AddInput, AddDatum, AddScript
    <3>8. QED BY <3>1, <3>2, <3>3, <3>4, <3>5, <3>6, <3>7 DEF Method
  <2>2. QED BY <1>2, <2>1 DEF BodyKeys
<1>7. QED
  BY <1>4, <1>5, <1>6 DEF Ready, Tracked

LEMMA StickyStep ==
  ASSUME Shape, Sticky, [Next]_vars
  PROVE  Sticky'
<1> USE DEF tx, state
<1>1. ASSUME NEW c \in Calls, Method(c) PROVE Sticky'
  <2>1. /\ last_error = "success"
        /\ result' = result
        /\ body'.script_data_hash = body.script_data_hash
        /\ \/ last_error' = "success" /\ first_failure' = first_failure
           \/ \E e \in {"invalid_argument", "pointer_is_null", "duplicated_key"} :
                /\ last_error' = e
                /\ first_failure' = IF first_failure # "none" THEN first_failure ELSE e
    BY <1>1, MethodStep
  <2>2. first_failure = "none" /\ result = "none" /\ body.script_data_hash = NoHash
    BY <2>1 DEF Sticky
  <2>3. QED BY <2>1, <2>2 DEF Sticky, FirstFailureReported, NoHash
<1>2. CASE BuildFails
  BY <1>2 DEF BuildFails, Ready, Track, Sticky, FirstFailureReported, NoHash
<1>3. CASE Build
  BY <1>3 DEF Build, Ready, Sticky, FirstFailureReported, NoHash
<1>4. CASE BuildAgain
  BY <1>4 DEF BuildAgain, Sticky, FirstFailureReported, NoHash
<1>5. CASE UNCHANGED vars
  BY <1>5 DEF vars, Sticky, FirstFailureReported, NoHash
<1>6. QED
  BY <1>1, <1>2, <1>3, <1>4, <1>5 DEF Next, Finished

(* A transaction that is handed out does not change. *)
LEMMA HandedOutStep ==
  ASSUME Sticky, HandedOut, [Next]_vars, Shape
  PROVE  UNCHANGED <<last_error, tx, state>>
<1>1. last_error = "illegal_state"
  BY DEF Sticky, HandedOut
<1>2. ASSUME NEW c \in Calls, Method(c) PROVE FALSE
  BY <1>1, <1>2, MethodStep
<1>3. ~BuildFails /\ ~Build
  BY <1>1 DEF BuildFails, Build, Ready
<1>4. QED
  BY <1>2, <1>3 DEF Next, BuildAgain, Finished, vars, tx, state

(* A step that does not hand out the transaction. *)
LEMMA StillOpen ==
  ASSUME Shape, Sticky, ~HandedOut, [Next]_vars, ~Build
  PROVE  ~HandedOut'
<1>1. last_error # "illegal_state" /\ result # "success"
  BY DEF HandedOut
<1>2. ASSUME NEW c \in Calls, Method(c) PROVE ~HandedOut'
  BY <1>1, <1>2, MethodStep DEF HandedOut
<1>3. CASE BuildFails
  BY <1>1, <1>3 DEF BuildFails, Track, HandedOut
<1>4. CASE BuildAgain
  BY <1>1, <1>4 DEF BuildAgain, HandedOut
<1>5. CASE UNCHANGED vars
  BY <1>1, <1>5 DEF vars, HandedOut
<1> QED BY <1>2, <1>3, <1>4, <1>5 DEF Next, Finished

LEMMA HashStep ==
  ASSUME Shape, Sticky, HashCoversWitnesses, [Next]_vars
  PROVE  HashCoversWitnesses'
<1> USE DEF HashCoversWitnesses, has_script_data
<1>1. CASE HandedOut
  <2>1. UNCHANGED <<last_error, tx, state>>
    BY <1>1, HandedOutStep
  <2>2. QED
    BY <1>1, <2>1 DEF tx, state, NoHash
<1>2. CASE ~HandedOut
  <2>1. CASE Build
    <3>1. last_error = "success" /\ body.script_data_hash = NoHash /\ DOMAIN body = BodyKeys /\ AreRedeemers(redeemers)
      BY <2>1 DEF Build, Ready, Sticky, Shape
    <3>2. PICK laid :
            /\ redeemers' = Balanced(laid)
            /\ body' = [body EXCEPT !.inputs = laid,
                                   !.script_data_hash =
                                      IF redeemers # <<>> \/ datums > 0
                                      THEN [kind |-> "real", covers |-> <<redeemers', datums, languages>>]
                                      ELSE @]
      BY <2>1 DEF Build
    <3>3. datums' = datums /\ languages' = languages
      BY <2>1 DEF Build, state
    <3>4. redeemers' = <<>> <=> redeemers = <<>>
      BY <3>1, <3>2, BalancedRedeemers
    <3>5. body'.script_data_hash = IF redeemers # <<>> \/ datums > 0
                                   THEN [kind |-> "real", covers |-> <<redeemers', datums, languages>>]
                                   ELSE NoHash
      <4> DEFINE h == IF redeemers # <<>> \/ datums > 0
                      THEN [kind |-> "real", covers |-> <<redeemers', datums, languages>>]
                      ELSE body.script_data_hash
      <4>1. body' = [body EXCEPT !.inputs = laid, !.script_data_hash = h]
        BY <3>1, <3>2 DEF BodyKeys
      <4>2. body'.script_data_hash = h
        <5> HIDE DEF h
        <5> QED BY <3>1, <4>1 DEF BodyKeys
      <4>3. QED BY <3>1, <4>2
    <3>6. QED BY <3>3, <3>4, <3>5 DEF NoHash
  <2>2. CASE ~Build
    <3>1. ~HandedOut'
      BY <1>2, <2>2, StillOpen
    <3>2. QED BY <3>1
  <2>3. QED BY <2>1, <2>2
<1>3. QED BY <1>1, <1>2

(* The invariant holds in every state of every program. *)
THEOREM BuilderInvariant == Spec => []IInv
<1>1. Init => IInv
  BY InitIInv
<1>2. IInv /\ [Next]_vars => IInv'
  <2> SUFFICES ASSUME IInv, [Next]_vars PROVE IInv'
    OBVIOUS
  <2>1. Shape /\ Sticky /\ HashCoversWitnesses /\ Pointers
    BY DEF IInv
  <2>2. Shape' /\ Pointers'
    BY <2>1, PointersStep
  <2>3. Sticky'
    BY <2>1, StickyStep
  <2>4. HashCoversWitnesses'
    BY <2>1, HashStep
  <2>5. QED BY <2>2, <2>3, <2>4 DEF IInv
<1>3. QED
  BY <1>1, <1>2, PTL DEF Spec

(* The redeemer of a mint, a vote, a certificate or a proposal points at its  *)
(* item at every moment, in whatever order a program adds them: the position  *)
(* in the builder's sorted map is that in the transaction.                    *)
THEOREM PointersAlwaysFindTheirItem == Spec => []PointersFindTheirItem
<1>1. IInv => PointersFindTheirItem
  BY PointersFind DEF IInv
<1>2. QED
  BY <1>1, BuilderInvariant, PTL

(* The error that build reports is that of the first call that failed. *)
THEOREM FirstFailureAlwaysReported == Spec => []FirstFailureReported
<1>1. IInv => FirstFailureReported
  BY DEF IInv, Sticky
<1>2. QED
  BY <1>1, BuilderInvariant, PTL

(* The script data hash of a transaction that is handed out covers exactly the *)
(* redeemers and datums of its witness set and the languages of its scripts.   *)
THEOREM HashAlwaysCoversWitnesses == Spec => []HashCoversWitnesses
<1>1. IInv => HashCoversWitnesses
  BY DEF IInv
<1>2. QED
  BY <1>1, BuilderInvariant, PTL

(* No call of the builder changes a transaction that build has handed out. *)
THEOREM HandedOutStaysFinal == Spec => HandedOutIsFinal
<1>1. IInv /\ [Next]_vars => [HandedOut => UNCHANGED tx]_vars
  <2> SUFFICES ASSUME IInv, [Next]_vars, HandedOut PROVE UNCHANGED tx
    OBVIOUS
  <2>1. QED BY HandedOutStep DEF IInv
<1>2. QED
  BY <1>1, BuilderInvariant, PTL DEF Spec, HandedOutIsFinal

-----------------------------------------------------------------------------
(* Sorting by bytes.                                                         *)

(* Bytes that compare_by_bytes orders. *)
Comparable(B) ==
  /\ \A a, b \in B : a = b \/ Before(a, b) \/ Before(b, a)
  /\ \A a \in B : ~Before(a, a)
  /\ \A a, b, c \in B : Before(a, b) /\ Before(b, c) => Before(a, c)

LEMMA IdentitiesCompare == Comparable(Identity)
<1>1. \A a, b \in Identity : /\ Before(a, b) <=> a[1] < b[1]
                             /\ a[1] \in Nat /\ b[1] \in Nat
                             /\ a[1] = b[1] => a = b
  BY BeforeIdentity
<1>2. \A a, b \in Identity : a = b \/ Before(a, b) \/ Before(b, a)
  BY <1>1
<1>3. \A a \in Identity : ~Before(a, a)
  BY <1>1
<1>4. \A a, b, c \in Identity : Before(a, b) /\ Before(b, c) => Before(a, c)
  <2> SUFFICES ASSUME NEW a \in Identity, NEW b \in Identity, NEW c \in Identity, Before(a, b), Before(b, c)
               PROVE  Before(a, c)
    OBVIOUS
  <2>1. a[1] \in Nat /\ b[1] \in Nat /\ c[1] \in Nat /\ a[1] < b[1] /\ b[1] < c[1]
    BY <1>1
  <2> QED BY <1>1, <2>1
<1> QED BY <1>2, <1>3, <1>4 DEF Comparable

LEMMA CredentialsCompare == Comparable(Credential)
<1>1. \A a, b \in Credential : /\ Before(a, b) <=> voter_before(a, b)
                               /\ a[1] \in Nat /\ b[1] \in Nat /\ a[2] \in Nat /\ b[2] \in Nat
                               /\ a[1] = b[1] /\ a[2] = b[2] => a = b
  BY BeforeCredential
<1>2. \A a, b \in Credential : a = b \/ Before(a, b) \/ Before(b, a)
  <2> SUFFICES ASSUME NEW a \in Credential, NEW b \in Credential PROVE a = b \/ Before(a, b) \/ Before(b, a)
    OBVIOUS
  <2>1. (a[1] = b[1] /\ a[2] = b[2]) \/ voter_before(a, b) \/ voter_before(b, a)
    BY <1>1 DEF voter_before
  <2> QED BY <1>1, <2>1
<1>3. \A a \in Credential : ~Before(a, a)
  BY <1>1 DEF voter_before
<1>4. \A a, b, c \in Credential : Before(a, b) /\ Before(b, c) => Before(a, c)
  <2> SUFFICES ASSUME NEW a \in Credential, NEW b \in Credential, NEW c \in Credential, Before(a, b), Before(b, c)
               PROVE  Before(a, c)
    OBVIOUS
  <2>1. voter_before(a, b) /\ voter_before(b, c)
    BY <1>1
  <2>2. voter_before(a, c)
    BY <1>1, <2>1 DEF voter_before
  <2> QED BY <1>1, <2>2
<1> QED BY <1>2, <1>3, <1>4 DEF Comparable

(* p brings n items into an order s with the bytes ascending. *)
Rearranges(p, s, n, items, bytes) ==
  /\ p \in [1..n -> 1..n]
  /\ \A i \in 1..n : \E k \in 1..n : p[k] = i
  /\ \A k, l \in 1..n : p[k] = p[l] => k = l
  /\ s = [k \in 1..n |-> items[p[k]]]
  /\ \A k, l \in 1..n : k < l => Before(bytes[p[k]], bytes[p[l]]) \/ bytes[p[k]] = bytes[p[l]]

LEMMA ByteOrderRearranges ==
  ASSUME NEW n \in Nat, NEW items, DOMAIN items = 1..n, NEW B, Comparable(B), NEW bytes \in [1..n -> B]
  PROVE  \E p : Rearranges(p, InByteOrder(items, bytes), n, items, bytes)
<1> DEFINE D == 1..n
           below(i, j) == Before(bytes[i], bytes[j]) \/ (bytes[i] = bytes[j] /\ i < j)
           R == {p \in D \X D : below(p[1], p[2])}
           order == InOrder(D, R)
<1>1. IsFiniteSet(D) /\ Cardinality(D) = n
  BY FS_Interval
<1>2. \A i, j \in D : <<i, j>> \in R <=> below(i, j)
  OBVIOUS
<1>3. IsOrder(D, R)
  <2>0. \A i \in D : bytes[i] \in B /\ i \in Nat
    OBVIOUS
  <2>1. \A i, j \in D : i = j \/ below(i, j) \/ below(j, i)
    <3> SUFFICES ASSUME NEW i \in D, NEW j \in D PROVE i = j \/ below(i, j) \/ below(j, i)
      OBVIOUS
    <3>1. bytes[i] = bytes[j] \/ Before(bytes[i], bytes[j]) \/ Before(bytes[j], bytes[i])
      BY <2>0 DEF Comparable
    <3> QED BY <2>0, <3>1
  <2>2. \A i \in D : ~below(i, i)
    BY <2>0 DEF Comparable
  <2>3. \A i, j, k \in D : below(i, j) /\ below(j, k) => below(i, k)
    <3> SUFFICES ASSUME NEW i \in D, NEW j \in D, NEW k \in D, below(i, j), below(j, k) PROVE below(i, k)
      OBVIOUS
    <3>1. Before(bytes[i], bytes[j]) /\ Before(bytes[j], bytes[k]) => Before(bytes[i], bytes[k])
      BY <2>0 DEF Comparable
    <3>2. i < j /\ j < k => i < k
      BY <2>0
    <3> QED BY <3>1, <3>2
  <2> HIDE DEF below, R
  <2> QED BY <1>2, <2>1, <2>2, <2>3 DEF IsOrder
<1> HIDE DEF R
<1>4. /\ order \in [D -> D]
      /\ \A x \in D : \E i \in D : order[i] = x
      /\ \A i, j \in D : order[i] = order[j] => i = j
      /\ \A i, j \in D : i < j => <<order[i], order[j]>> \in R
  <2> HIDE DEF D
  <2>1. /\ InOrder(D, R) \in [1 .. Cardinality(D) -> D]
        /\ \A x \in D : \E i \in 1 .. Cardinality(D) : InOrder(D, R)[i] = x
        /\ \A i, j \in 1 .. Cardinality(D) : InOrder(D, R)[i] = InOrder(D, R)[j] => i = j
        /\ \A i, j \in 1 .. Cardinality(D) : i < j => <<InOrder(D, R)[i], InOrder(D, R)[j]>> \in R
    BY <1>1, <1>3, InOrderProperties
  <2>2. 1 .. Cardinality(D) = D
    BY <1>1 DEF D
  <2> QED BY <2>1, <2>2
<1>5. InByteOrder(items, bytes) = [k \in 1..n |-> items[order[k]]]
  BY Zenon DEF InByteOrder, R
<1> HIDE DEF order
<1>6. \A k, l \in D : k < l => Before(bytes[order[k]], bytes[order[l]]) \/ bytes[order[k]] = bytes[order[l]]
  <2> SUFFICES ASSUME NEW k \in D, NEW l \in D, k < l
               PROVE  Before(bytes[order[k]], bytes[order[l]]) \/ bytes[order[k]] = bytes[order[l]]
    OBVIOUS
  <2>1. order[k] \in D /\ order[l] \in D /\ <<order[k], order[l]>> \in R
    BY <1>4
  <2> QED BY <1>2, <2>1
<1> HIDE DEF below
<1>7. Rearranges(order, InByteOrder(items, bytes), n, items, bytes)
  BY <1>4, <1>5, <1>6, Zenon DEF Rearranges
<1> QED BY <1>7

-----------------------------------------------------------------------------
(* The withdrawals of the body.                                              *)

ByAddress(ws) ==
  \A i, j \in DOMAIN ws : i < j => ~Before(address_bytes(ws[j]), address_bytes(ws[i]))

LEMMA AddressesCompare ==
  ASSUME NEW a \in Credential, NEW b \in Credential
  PROVE  /\ address_bytes(a) \in Credential
         /\ Before(address_bytes(a), address_bytes(b)) <=> Before(a, b)
         /\ address_bytes(a) = address_bytes(b) => a = b
<1>1. a[1] \in Nat /\ a[2] \in Nat /\ b[1] \in Nat /\ b[2] \in Nat /\ a = <<a[1], a[2]>> /\ b = <<b[1], b[2]>>
  BY DEF Credential
<1>2. address_bytes(a) \in Credential /\ address_bytes(b) \in Credential
  BY <1>1 DEF address_bytes, Credential
<1>3. /\ address_bytes(a)[1] = 14 + a[1] /\ address_bytes(a)[2] = a[2]
      /\ address_bytes(b)[1] = 14 + b[1] /\ address_bytes(b)[2] = b[2]
  BY DEF address_bytes
<1>4. voter_before(address_bytes(a), address_bytes(b)) <=> voter_before(a, b)
  BY <1>1, <1>3 DEF voter_before
<1>5. Before(address_bytes(a), address_bytes(b)) <=> Before(a, b)
  BY <1>2, <1>4, BeforeCredential
<1>6. address_bytes(a) = address_bytes(b) => a = b
  BY <1>1, <1>3
<1> QED BY <1>2, <1>5, <1>6

LEMMA WithdrawalInserted ==
  ASSUME NEW ws \in Seq(Credential), NEW w \in Credential
  PROVE  LET new == InsertWithdrawal(ws, w)
         IN  /\ new \in Seq(Credential) /\ ByAddress(new)
             /\ \A i \in DOMAIN new : new[i] = w \/ \E j \in DOMAIN ws : new[i] = ws[j]
             /\ \E i \in DOMAIN new : new[i] = w
             /\ \A j \in DOMAIN ws : \E i \in DOMAIN new : new[i] = ws[j]
<1> DEFINE all == Append(ws, w)
           n == Len(ws) + 1
           bytes == [i \in DOMAIN all |-> address_bytes(all[i])]
           new == InByteOrder(all, bytes)
<1>1. /\ n \in Nat /\ DOMAIN all = 1..n /\ all \in Seq(Credential) /\ all[n] = w /\ n \in 1..n
      /\ DOMAIN ws = 1..Len(ws) /\ Len(ws) \in Nat
      /\ \A i \in 1..Len(ws) : all[i] = ws[i] /\ i \in 1..n /\ i # n
      /\ \A i \in 1..n : all[i] \in Credential /\ (i = n \/ i \in 1..Len(ws))
  OBVIOUS
<1>2. bytes \in [1..n -> Credential] /\ \A i \in 1..n : bytes[i] = address_bytes(all[i])
  BY <1>1, AddressesCompare
<1> HIDE DEF all, bytes
<1>3. \E p : Rearranges(p, new, n, all, bytes)
  <2> HIDE DEF n, new
  <2> QED BY <1>1, <1>2, ByteOrderRearranges, CredentialsCompare DEF new
<1>4. InsertWithdrawal(ws, w) = new
  BY Zenon DEF InsertWithdrawal, all, bytes
<1> HIDE DEF new
<1>p. PICK p : Rearranges(p, new, n, all, bytes)
  BY <1>3
<1>5. /\ p \in [1..n -> 1..n]
      /\ \A i \in 1..n : \E k \in 1..n : p[k] = i
      /\ \A k, l \in 1..n : p[k] = p[l] => k = l
      /\ new = [k \in 1..n |-> all[p[k]]]
      /\ \A k, l \in 1..n : k < l => Before(bytes[p[k]], bytes[p[l]]) \/ bytes[p[k]] = bytes[p[l]]
  BY <1>p, Zenon DEF Rearranges
<1>6. DOMAIN new = 1..n /\ \A k \in 1..n : new[k] = all[p[k]] /\ p[k] \in 1..n
  BY <1>5
<1>7. new \in Seq(Credential)
  <2>1. new \in [1..n -> Credential]
    BY <1>1, <1>5
  <2> QED BY <1>1, <2>1
<1>8. ByAddress(new)
  <2> SUFFICES ASSUME NEW i \in 1..n, NEW j \in 1..n, i < j
               PROVE  ~Before(address_bytes(new[j]), address_bytes(new[i]))
    BY <1>6 DEF ByAddress
  <2>1. /\ address_bytes(new[i]) = bytes[p[i]] /\ address_bytes(new[j]) = bytes[p[j]]
        /\ bytes[p[i]] \in Credential /\ bytes[p[j]] \in Credential
    BY <1>2, <1>6
  <2>2. Before(bytes[p[i]], bytes[p[j]]) \/ bytes[p[i]] = bytes[p[j]]
    BY <1>5
  <2> QED BY <2>1, <2>2, CredentialsCompare DEF Comparable
<1>9. \A i \in DOMAIN new : new[i] = w \/ \E j \in DOMAIN ws : new[i] = ws[j]
  BY <1>1, <1>6
<1>10. (\E i \in DOMAIN new : new[i] = w) /\ \A j \in DOMAIN ws : \E i \in DOMAIN new : new[i] = ws[j]
  <2>1. \A i \in 1..n : \E k \in 1..n : new[k] = all[i]
    BY <1>5, <1>6
  <2> QED BY <1>1, <1>6, <2>1
<1> QED BY <1>4, <1>7, <1>8, <1>9, <1>10, Zenon

-----------------------------------------------------------------------------
(* Spent inputs.                                                             *)

(* An input and its redeemer name each other. *)
Spent ==
  /\ \A i \in DOMAIN inputs : inputs[i].id \in Identity
  /\ \A i \in DOMAIN inputs :
       inputs[i].redeemer # 0 => redeemers[inputs[i].redeemer].item = inputs[i].id
  /\ \A r \in DOMAIN redeemers :
       redeemers[r].tag = "spend" => \E i \in DOMAIN inputs : inputs[i].redeemer = r

(* Whatever the selector takes, the inputs that were added are laid out. *)
LEMMA AddedInputsAreLaidOut ==
  ASSUME IsSequence(inputs), \A i \in DOMAIN inputs : inputs[i].id \in Identity,
         NEW taken \in SUBSET WalletIds
  PROVE  /\ LaidOut(taken) \in Seq(Identity)
         /\ \A i \in DOMAIN inputs : \E k \in DOMAIN LaidOut(taken) : LaidOut(taken)[k] = inputs[i].id
<1> DEFINE m == Len(inputs)
           own == [i \in DOMAIN inputs |-> inputs[i].id]
           R == {p \in taken \X taken : Before(p[1], p[2])}
           more == InOrder(taken, R)
           ids == own \o more
           n == Len(ids)
           laid == InByteOrder(ids, ids)
<1>1. m \in Nat /\ DOMAIN inputs = 1..m
  BY LenOfSequence
<1>2. own \in Seq(Identity) /\ Len(own) = m /\ \A i \in 1..m : own[i] = inputs[i].id
  <2>1. own \in [1..m -> Identity]
    BY <1>1
  <2>2. own \in Seq(Identity) /\ Len(own) = m
    BY <1>1, <2>1
  <2> QED BY <1>1, <2>2
<1>3. more \in Seq(Identity)
  <2>1. taken \in SUBSET Identity /\ IsFiniteSet(taken)
    BY BoundsAssumption, FS_Subset
  <2>2. \A x, y \in taken : <<x, y>> \in R <=> Before(x, y)
    OBVIOUS
  <2> HIDE DEF R
  <2>3. IsOrder(taken, R)
    BY <2>1, <2>2, IdentitiesCompare DEF Comparable, IsOrder
  <2>4. Cardinality(taken) \in Nat /\ more \in [1 .. Cardinality(taken) -> taken]
    BY <2>1, <2>3, InOrderProperties
  <2> DEFINE c == Cardinality(taken)
  <2>5. c \in Nat /\ more \in [1..c -> Identity]
    BY <2>1, <2>4
  <2> HIDE DEF c, more
  <2> QED BY <2>5
<1> HIDE DEF own, more
<1>4. ids \in Seq(Identity) /\ \A i \in 1..m : ids[i] = inputs[i].id /\ i \in 1..n
  BY <1>1, <1>2, <1>3
<1> HIDE DEF ids
<1>5. n \in Nat /\ DOMAIN ids = 1..n /\ ids \in [1..n -> Identity]
  BY <1>4
<1>6. LaidOut(taken) = laid
  BY Zenon DEF LaidOut, ids, own, more, R
<1>7. PICK p : Rearranges(p, laid, n, ids, ids)
  <2> HIDE DEF n
  <2> QED BY <1>5, ByteOrderRearranges, IdentitiesCompare
<1> HIDE DEF laid, n
<1>8. p \in [1..n -> 1..n] /\ (\A i \in 1..n : \E k \in 1..n : p[k] = i) /\ laid = [k \in 1..n |-> ids[p[k]]]
  BY <1>7, Zenon DEF Rearranges
<1>9. laid \in [1..n -> Identity] /\ \A i \in 1..n : \E k \in 1..n : laid[k] = ids[i]
  BY <1>5, <1>8
<1>10. laid \in Seq(Identity) /\ DOMAIN laid = 1..n
  BY <1>5, <1>9
<1>11. \A i \in DOMAIN inputs : \E k \in DOMAIN laid : laid[k] = inputs[i].id
  BY <1>1, <1>4, <1>9, <1>10
<1> QED BY <1>6, <1>10, <1>11

(* update_redeemer_index leaves an index that is the place of an input whose *)
(* first redeemer this is, or leaves the index alone.                        *)
LEMMA SpendIndexPlace ==
  ASSUME IsSequence(inputs), \A i \in DOMAIN inputs : inputs[i].id \in Identity,
         NEW taken \in SUBSET WalletIds, NEW r \in DOMAIN redeemers, redeemers[r].index \in Nat
  PROVE  LET laid == LaidOut(taken)
             own == {i \in DOMAIN inputs : inputs[i].redeemer # 0 /\ FirstRedeemer(inputs, inputs[i].id) = r}
             n == SpendIndex(r, laid)
         IN  /\ n \in Nat
             /\ own # {} => n < Len(laid) /\ \E o \in own : laid[n + 1] = inputs[o].id
<1> DEFINE laid == LaidOut(taken)
           own == {i \in DOMAIN inputs : inputs[i].redeemer # 0 /\ FirstRedeemer(inputs, inputs[i].id) = r}
           at == {k \in DOMAIN laid : \E o \in own : laid[k] = inputs[o].id}
           top == CHOOSE k \in at : \A j \in at : j <= k
<1>1. laid \in Seq(Identity) /\ \A i \in DOMAIN inputs : \E k \in DOMAIN laid : laid[k] = inputs[i].id
  BY AddedInputsAreLaidOut
<1>2. SpendIndex(r, laid) = IF own = {} THEN redeemers[r].index ELSE top - 1
  BY Zenon DEF SpendIndex
<1> HIDE DEF laid
<1>3. CASE own = {}
  BY <1>2, <1>3 DEF laid
<1>4. CASE own # {}
  <2>1. at # {}
    BY <1>1, <1>4
  <2>2. Len(laid) \in Nat /\ DOMAIN laid = 1..Len(laid)
    BY <1>1
  <2>3. at \in SUBSET (0 .. Len(laid))
    BY <2>2
  <2>4. \E k \in at : \A j \in at : j <= k
    <3> HIDE DEF at
    <3> QED BY <2>1, <2>2, <2>3, MaxIsGreatest
  <2>5. top \in at
    <3> HIDE DEF at
    <3> QED BY <2>4
  <2> HIDE DEF top
  <2>6. top \in 1..Len(laid) /\ \E o \in own : laid[top] = inputs[o].id
    BY <2>2, <2>5
  <2>7. SpendIndex(r, laid) = top - 1 /\ top - 1 \in Nat /\ top - 1 < Len(laid) /\ (top - 1) + 1 = top
    BY <1>2, <1>4, <2>2, <2>6
  <2> QED BY <1>4, <2>6, <2>7 DEF laid
<1> QED BY <1>3, <1>4

(* If no input was added twice, an input has one redeemer. *)
LEMMA OnlyRedeemer ==
  ASSUME NEW ins, NEW i \in DOMAIN ins, ins[i].redeemer # 0, i \in Nat,
         \A j \in DOMAIN ins : ins[j].id = ins[i].id => j = i
  PROVE  FirstRedeemer(ins, ins[i].id) = ins[i].redeemer
<1> DEFINE entries == {j \in DOMAIN ins : ins[j].id = ins[i].id /\ ins[j].redeemer # 0}
<1>1. entries = {i}
  OBVIOUS
<1>2. (CHOOSE j \in entries : \A q \in entries : j <= q) = i
  <2> HIDE DEF entries
  <2> QED BY <1>1
<1>3. FirstRedeemer(ins, ins[i].id) = ins[CHOOSE j \in entries : \A q \in entries : j <= q].redeemer
  BY Zenon DEF FirstRedeemer
<1> QED BY <1>2, <1>3

(* A build makes the redeemers of the inputs point at their inputs. *)
LEMMA SpendPointersBuilt ==
  ASSUME Shape, Pointers, Spent, DistinctInputs, NEW taken \in SUBSET WalletIds,
         NEW r \in DOMAIN redeemers, redeemers[r].tag = "spend", redeemers[r].index \in Nat
  PROVE  LET laid == LaidOut(taken)
             n == SpendIndex(r, laid)
         IN  n \in Nat /\ n < Len(laid) /\ laid[n + 1] = redeemers[r].item
<1> DEFINE laid == LaidOut(taken)
           own == {i \in DOMAIN inputs : inputs[i].redeemer # 0 /\ FirstRedeemer(inputs, inputs[i].id) = r}
           n == SpendIndex(r, laid)
<1>1. IsSequence(inputs) /\ \A i \in DOMAIN inputs : inputs[i].id \in Identity /\ i \in Nat
  BY LenOfSequence DEF Pointers, Spent
<1>2. PICK i \in DOMAIN inputs : inputs[i].redeemer = r
  BY DEF Spent
<1>3. r # 0
  BY LenOfSequence DEF Shape, AreRedeemers
<1>4. \A j \in DOMAIN inputs : inputs[j].redeemer # 0 => FirstRedeemer(inputs, inputs[j].id) = inputs[j].redeemer
  BY <1>1, OnlyRedeemer DEF DistinctInputs
<1>5. i \in own
  BY <1>2, <1>3, <1>4
<1>6. n \in Nat /\ n < Len(laid) /\ \E o \in own : laid[n + 1] = inputs[o].id
  BY <1>1, <1>5, SpendIndexPlace
<1>7. \A o \in own : inputs[o].id = redeemers[r].item
  BY <1>4 DEF Spent
<1> HIDE DEF own, n
<1> QED BY <1>6, <1>7 DEF n

-----------------------------------------------------------------------------
(* Withdrawals.                                                              *)

(* The withdrawals stand in the order of their addresses, and the map has the *)
(* ones of scripts and, of the others, only some that are withdrawn from.     *)
Withdrawn ==
  LET ws == body.withdrawals
  IN  /\ ws \in Seq(Credential) /\ ByAddress(ws)
      /\ IsFiniteSet(DOMAIN maps["reward"])
      /\ \A k \in DOMAIN maps["reward"] : \E i \in DOMAIN ws : ws[i] = k
      /\ \A i \in DOMAIN ws : ws[i][1] = ScriptHash => ws[i] \in DOMAIN maps["reward"]

(* In an ascending list without repetitions as many keys stand before one as *)
(* there are places before its own.                                          *)
LEMMA PlaceIsPosition ==
  ASSUME NEW ws \in Seq(Credential), ByAddress(ws), \A i, j \in DOMAIN ws : ws[i] = ws[j] => i = j,
         NEW k \in DOMAIN ws
  PROVE  Position(ws[k], {ws[i] : i \in DOMAIN ws}) = k - 1
<1> DEFINE n == Len(ws)
           K == {ws[i] : i \in DOMAIN ws}
           B == {x \in K : Before(x, ws[k])}
           I == 1 .. (k - 1)
           f == [i \in I |-> ws[i]]
<1>1. n \in Nat /\ DOMAIN ws = 1..n /\ k \in 1..n /\ \A i \in 1..n : ws[i] \in Credential
  OBVIOUS
<1>2. \A i \in I : i \in 1..n /\ i < k
  BY <1>1
<1>3. ASSUME NEW i \in 1..n PROVE Before(ws[i], ws[k]) <=> i < k
  <2>1. ws[i] \in Credential /\ ws[k] \in Credential
    BY <1>1
  <2>2. ASSUME i < k PROVE Before(ws[i], ws[k])
    <3>1. ~Before(address_bytes(ws[k]), address_bytes(ws[i]))
      BY <1>1, <2>2 DEF ByAddress
    <3>2. ~Before(ws[k], ws[i]) /\ ws[i] # ws[k]
      BY <1>1, <2>1, <2>2, <3>1, AddressesCompare
    <3> QED BY <2>1, <3>2, CredentialsCompare DEF Comparable
  <2>3. ASSUME i = k PROVE ~Before(ws[i], ws[k])
    BY <2>1, <2>3, CredentialsCompare DEF Comparable
  <2>4. ASSUME k < i PROVE ~Before(ws[i], ws[k])
    <3>1. ~Before(address_bytes(ws[i]), address_bytes(ws[k]))
      BY <1>1, <2>4 DEF ByAddress
    <3> QED BY <2>1, <3>1, AddressesCompare
  <2> QED BY <1>1, <2>2, <2>3, <2>4
<1>4. B = {ws[i] : i \in I}
  BY <1>1, <1>2, <1>3
<1>5. f \in Bijection(I, B)
  <2>1. f \in [I -> B] /\ \A b \in B : \E i \in I : f[i] = b
    BY <1>4
  <2>2. \A i, j \in I : f[i] = f[j] => i = j
    BY <1>1, <1>2
  <2> HIDE DEF f, B, I
  <2>3. IsInjective(f)
    BY <2>1, <2>2 DEF IsInjective
  <2>4. f \in Injection(I, B) /\ f \in Surjection(I, B)
    BY <2>1, <2>3, Zenon DEF Injection, Surjection
  <2> QED BY <2>4, Zenon DEF Bijection
<1>6. IsFiniteSet(I) /\ Cardinality(I) = k - 1
  <2>1. k - 1 \in Nat /\ 1 \in Nat
    BY <1>1
  <2> QED BY <2>1, FS_Interval
<1>7. Cardinality(B) = k - 1
  <2> HIDE DEF B, I, f
  <2>1. ExistsBijection(I, B)
    BY <1>5 DEF ExistsBijection
  <2> QED BY <1>6, <2>1, FS_Bijection
<1> QED BY <1>7, Zenon DEF Position

(* If all withdrawals are from scripts and no account is named twice, the *)
(* redeemers of withdrawals point right.                                  *)
LEMMA RewardPointersFind ==
  ASSUME Shape, Pointers, Withdrawn
  PROVE  ScriptRewardPointers
<1> DEFINE ws == body.withdrawals
           map == maps["reward"]
<1> SUFFICES ASSUME \A i, j \in DOMAIN ws : ws[i][1] = ScriptHash /\ (ws[i] = ws[j] => i = j),
                    NEW r \in DOMAIN redeemers, redeemers[r].tag = "reward"
             PROVE  PointedAt(r) = {redeemers[r].item}
  BY Zenon DEF ScriptRewardPointers, RewardPointersFindTheirWithdrawal
<1>1. redeemers[r].item \in DOMAIN map /\ redeemers[r].index = Position(redeemers[r].item, DOMAIN map)
  BY DEF Pointers, Mapped, MapTags
<1>2. /\ ws \in Seq(Credential) /\ ByAddress(ws)
      /\ \A k \in DOMAIN map : \E i \in DOMAIN ws : ws[i] = k
      /\ \A i \in DOMAIN ws : ws[i] \in DOMAIN map
  BY DEF Withdrawn
<1>3. DOMAIN map = {ws[i] : i \in DOMAIN ws}
  BY <1>2
<1>4. PICK k \in DOMAIN ws : ws[k] = redeemers[r].item
  BY <1>1, <1>2
<1>5. redeemers[r].index = k - 1
  <2> HIDE DEF ws, map
  <2> QED BY <1>1, <1>2, <1>3, <1>4, PlaceIsPosition
<1>6. k - 1 \in Nat /\ k - 1 < Len(ws) /\ (k - 1) + 1 = k
  BY <1>2
<1>7. PointedAt(r) = IF redeemers[r].index < Len(ws) THEN {ws[redeemers[r].index + 1]} ELSE {}
  BY DEF PointedAt
<1> HIDE DEF ws
<1> QED BY <1>4, <1>5, <1>6, <1>7

(* A withdrawal with its place in the map, or without one if it is of a key. *)
LEMMA WithdrawnStep ==
  ASSUME Withdrawn, NEW w \in Credential,
         body'.withdrawals = InsertWithdrawal(body.withdrawals, w),
         \/ DOMAIN maps'["reward"] = DOMAIN maps["reward"] \cup {w}
         \/ DOMAIN maps'["reward"] = DOMAIN maps["reward"] /\ (w[1] # ScriptHash \/ w \in DOMAIN maps["reward"])
  PROVE  Withdrawn'
<1> DEFINE ws == body.withdrawals
           new == body'.withdrawals
           keys == DOMAIN maps["reward"]
           more == DOMAIN maps'["reward"]
<1>1. /\ ws \in Seq(Credential)
      /\ IsFiniteSet(keys)
      /\ \A k \in keys : \E i \in DOMAIN ws : ws[i] = k
      /\ \A i \in DOMAIN ws : ws[i][1] = ScriptHash => ws[i] \in keys
  BY DEF Withdrawn
<1>2. /\ new \in Seq(Credential) /\ ByAddress(new)
      /\ \A i \in DOMAIN new : new[i] = w \/ \E j \in DOMAIN ws : new[i] = ws[j]
      /\ \E i \in DOMAIN new : new[i] = w
      /\ \A j \in DOMAIN ws : \E i \in DOMAIN new : new[i] = ws[j]
  <2> DEFINE ins == InsertWithdrawal(ws, w)
  <2>1. new = ins
    OBVIOUS
  <2>2. /\ ins \in Seq(Credential) /\ ByAddress(ins)
        /\ \A i \in DOMAIN ins : ins[i] = w \/ \E j \in DOMAIN ws : ins[i] = ws[j]
        /\ \E i \in DOMAIN ins : ins[i] = w
        /\ \A j \in DOMAIN ws : \E i \in DOMAIN ins : ins[i] = ws[j]
    <3> HIDE DEF ws
    <3> QED BY <1>1, WithdrawalInserted, Zenon
  <2> HIDE DEF ins, new, ws
  <2> QED BY <2>1, <2>2, Zenon
<1>3. more = keys \cup {w} \/ (more = keys /\ (w[1] # ScriptHash \/ w \in keys))
  OBVIOUS
<1>4. IsFiniteSet(more)
  <2> HIDE DEF more, keys
  <2> QED BY <1>1, <1>3, FS_AddElement
<1>5. \A k \in more : \E i \in DOMAIN new : new[i] = k
  <2> HIDE DEF more, keys, new, ws
  <2> QED BY <1>1, <1>2, <1>3
<1>6. \A i \in DOMAIN new : new[i][1] = ScriptHash => new[i] \in more
  <2> HIDE DEF more, keys, new, ws
  <2> QED BY <1>1, <1>2, <1>3
<1>7. ByAddress(body.withdrawals)'
  BY <1>2 DEF ByAddress
<1> QED BY <1>2, <1>4, <1>5, <1>6, <1>7 DEF Withdrawn

-----------------------------------------------------------------------------
(* Every redeemer that a call supplies has what it needs.                    *)

Payload(given) == IF given = "callback" THEN "placeholder" ELSE "literal"

(* The redeemers and the callbacks are what they should be. *)
Typed ==
  /\ \A r \in DOMAIN redeemers :
       /\ redeemers[r].tag \in Tag
       /\ redeemers[r].index \in Nat
       /\ redeemers[r].data \in {"literal", "placeholder", "resolved"}
  /\ deferred \subseteq DOMAIN redeemers

(* A placeholder has a callback that will replace it. *)
Deferral ==
  DistinctInputs => \A r \in DOMAIN redeemers : redeemers[r].data = "placeholder" => r \in deferred

(* An item has a redeemer, or had a NULL entry before. *)
Answered(s) ==
  \/ \E r \in DOMAIN redeemers : redeemers[r].tag = s[1] /\ redeemers[r].item = s[2]
  \/ s[1] \in DOMAIN maps /\ s[2] \in DOMAIN maps[s[1]] /\ maps[s[1]][s[2]] = 0

Supplied == \A s \in supplied : Answered(s)

(* A step that appends at most the redeemer of one item. *)
Grown(tag, item, given) ==
  /\ Kept({tag})
  /\ \A r \in DOMAIN redeemers : redeemers'[r].data = redeemers[r].data
  /\ \A r \in DOMAIN redeemers' \ DOMAIN redeemers :
       redeemers'[r].item = item /\ redeemers'[r].data = Payload(given)

(* A step that keeps what the maps have. *)
EntriesKept ==
  /\ DOMAIN maps \subseteq DOMAIN maps'
  /\ \A t \in DOMAIN maps : \A k \in DOMAIN maps[t] : k \in DOMAIN maps'[t] /\ maps'[t][k] = maps[t][k]

(* What a step with one new redeemer has to do about it. *)
LEMMA GrownStep ==
  ASSUME Typed, Deferral, Supplied, NEW tag \in Tag, NEW item, NEW given,
         Grown(tag, item, given), EntriesKept,
         deferred \subseteq deferred', deferred' \subseteq DOMAIN redeemers',
         DistinctInputs' => DistinctInputs,
         DistinctInputs' /\ given = "callback" => \A r \in DOMAIN redeemers' \ DOMAIN redeemers : r \in deferred',
         \A r \in DOMAIN redeemers' : redeemers'[r].index \in Nat,
         \A s \in supplied' \ supplied : Answered(s)'
  PROVE  Typed' /\ Deferral' /\ Supplied'
<1>1. /\ DOMAIN redeemers \subseteq DOMAIN redeemers'
      /\ \A r \in DOMAIN redeemers :
           /\ redeemers'[r].tag = redeemers[r].tag
           /\ redeemers'[r].item = redeemers[r].item
           /\ redeemers'[r].data = redeemers[r].data
      /\ \A r \in DOMAIN redeemers' \ DOMAIN redeemers :
           /\ redeemers'[r].tag = tag
           /\ redeemers'[r].item = item
           /\ redeemers'[r].data = Payload(given)
  BY DEF Grown, Kept
<1>2. Typed'
  <2>1. \A r \in DOMAIN redeemers' : redeemers'[r].tag \in Tag
    BY <1>1 DEF Typed
  <2>2. \A r \in DOMAIN redeemers' : redeemers'[r].data \in {"literal", "placeholder", "resolved"}
    BY <1>1 DEF Typed, Payload
  <2> QED BY <2>1, <2>2 DEF Typed
<1>3. Deferral'
  <2> SUFFICES ASSUME DistinctInputs', NEW r \in DOMAIN redeemers', redeemers'[r].data = "placeholder"
               PROVE  r \in deferred'
    BY DEF Deferral
  <2>1. CASE r \in DOMAIN redeemers
    BY <1>1, <2>1 DEF Deferral
  <2>2. CASE r \notin DOMAIN redeemers
    BY <1>1, <2>2 DEF Payload
  <2> QED BY <2>1, <2>2
<1>4. Supplied'
  <2> SUFFICES ASSUME NEW s \in supplied' PROVE Answered(s)'
    BY DEF Supplied
  <2>1. CASE s \in supplied
    <3>1. Answered(s)
      BY <2>1 DEF Supplied
    <3> QED BY <1>1, <3>1 DEF Answered, EntriesKept
  <2>2. CASE s \notin supplied
    BY <2>2
  <2> QED BY <2>1, <2>2
<1> QED BY <1>2, <1>3, <1>4

(* Nothing happened to the redeemers, the maps and the inputs. *)
LEMMA SameGrown ==
  ASSUME redeemers' = redeemers, NEW tag, NEW item, NEW given
  PROVE  Grown(tag, item, given)
BY DEF Grown, Kept

LEMMA AppendGrown ==
  ASSUME AreRedeemers(redeemers), NEW tag, NEW item, NEW index, NEW given,
         redeemers' = Append(redeemers, NewRedeemer(tag, item, index, given))
  PROVE  /\ Grown(tag, item, given)
         /\ DOMAIN redeemers' = DOMAIN redeemers \cup {Len(redeemers) + 1}
         /\ Len(redeemers) + 1 \notin DOMAIN redeemers
         /\ Len(redeemers) \in Nat
         /\ redeemers'[Len(redeemers) + 1].tag = tag
         /\ redeemers'[Len(redeemers) + 1].item = item
         /\ redeemers'[Len(redeemers) + 1].index = index
         /\ \A r \in DOMAIN redeemers : redeemers'[r] = redeemers[r]
<1> DEFINE n == Len(redeemers)
<1>1. /\ DOMAIN redeemers = 1..n /\ n \in Nat
      /\ DOMAIN redeemers' = 1..(n + 1)
      /\ \A r \in DOMAIN redeemers : redeemers'[r] = redeemers[r]
      /\ redeemers'[n + 1].tag = tag
      /\ redeemers'[n + 1].item = item
      /\ redeemers'[n + 1].index = index
      /\ redeemers'[n + 1].data = Payload(given)
  BY AppendRedeemer DEF Payload
<1>2. Kept({tag})
  BY AppendKept
<1>3. DOMAIN redeemers' = DOMAIN redeemers \cup {n + 1} /\ n + 1 \notin DOMAIN redeemers
  BY <1>1
<1> QED BY <1>1, <1>2, <1>3 DEF Grown

LEMMA AddRedeemerGrown ==
  ASSUME AreRedeemers(redeemers), DOMAIN maps = MapTags, NEW tag \in MapTags, NEW item, NEW given,
         Mapped(tag), AddRedeemer(tag, item, given)
  PROVE  Grown(tag, item, given) /\ EntriesKept
<1>0. Kept({tag})
  BY AddRedeemerKept
<1>1. CASE item \in DOMAIN maps[tag]
  <2>1. redeemers' = redeemers /\ maps' = maps
    BY <1>1 DEF AddRedeemer
  <2> QED BY <2>1, SameGrown DEF EntriesKept
<1>2. CASE item \notin DOMAIN maps[tag]
  <2> DEFINE old == maps[tag]
             n   == Len(redeemers) + 1
             new == WithKey(old, item, IF given = "null" THEN 0 ELSE n)
             rs  == IF given = "null" THEN redeemers
                                      ELSE Append(redeemers, NewRedeemer(tag, item, 0, given))
  <2>1. maps' = [maps EXCEPT ![tag] = new] /\ redeemers' = Reindexed(rs, new)
    BY <1>2 DEF AddRedeemer
  <2>2. \A k \in DOMAIN old : k \in DOMAIN new /\ new[k] = old[k]
    BY <1>2 DEF WithKey
  <2>3. EntriesKept
    <3> HIDE DEF new
    <3> QED BY <2>1, <2>2 DEF EntriesKept
  <2>4. /\ AreRedeemers(rs)
        /\ DOMAIN redeemers \subseteq DOMAIN rs
        /\ \A r \in DOMAIN redeemers : rs[r] = redeemers[r]
        /\ \A r \in DOMAIN rs \ DOMAIN redeemers : rs[r].item = item /\ rs[r].data = Payload(given)
    <3>1. CASE given = "null"
      BY <3>1
    <3>2. CASE given # "null"
      <4>1. rs = Append(redeemers, NewRedeemer(tag, item, 0, given))
        BY <3>2
      <4>2. /\ AreRedeemers(rs)
            /\ DOMAIN redeemers = 1..Len(redeemers) /\ Len(redeemers) \in Nat
            /\ DOMAIN rs = 1..(Len(redeemers) + 1)
            /\ \A r \in DOMAIN redeemers : rs[r] = redeemers[r]
            /\ rs[n].item = item
            /\ rs[n].data = Payload(given)
        <5> HIDE DEF rs
        <5> QED BY <4>1, AppendRedeemer DEF Payload
      <4> QED
        <5> HIDE DEF rs
        <5> QED BY <4>2
    <3> QED BY <3>1, <3>2
  <2> HIDE DEF new, rs
  <2>5. /\ DOMAIN redeemers' = DOMAIN rs
        /\ \A r \in DOMAIN rs : redeemers'[r].item = rs[r].item /\ redeemers'[r].data = rs[r].data
    BY <2>1, <2>4, ReindexedRedeemers
  <2>6. Grown(tag, item, given)
    BY <1>0, <2>4, <2>5 DEF Grown
  <2> QED BY <2>3, <2>6
<1> QED BY <1>1, <1>2

(* A call that adds an item with its redeemer to a map. *)
LEMMA MapEffect ==
  ASSUME Shape, Pointers, Typed, Deferral, Supplied,
         NEW tag \in MapTags, NEW item, NEW given,
         AddRedeemer(tag, item, given), RegisterDeferred(tag, item, given), Supply(tag, item, given),
         IsFiniteSet(DOMAIN maps'[tag]), inputs' = inputs
  PROVE  Typed' /\ Deferral' /\ Supplied'
<1>1. AreRedeemers(redeemers) /\ DOMAIN maps = MapTags /\ Mapped(tag)
  BY DEF Shape, Pointers
<1>2. /\ AreRedeemers(redeemers')
      /\ DOMAIN maps' = MapTags
      /\ DOMAIN maps'[tag] = DOMAIN maps[tag] \cup {item}
      /\ Mapped(tag)'
  BY <1>1, AddRedeemerKept
<1>3. Grown(tag, item, given) /\ EntriesKept
  BY <1>1, AddRedeemerGrown
<1> DEFINE entry == maps'[tag][item]
<1>4. \A r \in DOMAIN redeemers' : r # 0
  BY <1>2, LenOfSequence DEF AreRedeemers
<1>5. entry # 0 => entry \in DOMAIN redeemers' /\ redeemers'[entry].tag = tag /\ redeemers'[entry].item = item
  BY <1>2 DEF Mapped
<1>6. \A r \in DOMAIN redeemers' \ DOMAIN redeemers : r = entry
  BY <1>2, <1>3 DEF Grown, Kept, Mapped
<1>7. deferred' = IF given = "callback" /\ entry # 0 THEN deferred \cup {entry} ELSE deferred
  BY DEF RegisterDeferred
<1>8. deferred \subseteq DOMAIN redeemers /\ DOMAIN redeemers \subseteq DOMAIN redeemers'
  BY <1>3 DEF Typed, Grown, Kept
<1>9. Answered(<<tag, item>>)'
  <2>1. CASE entry = 0
    BY <1>2, <2>1 DEF Answered
  <2>2. CASE entry # 0
    BY <1>5, <2>2 DEF Answered
  <2> QED BY <2>1, <2>2
<1>10. \A s \in supplied' \ supplied : Answered(s)'
  BY <1>9 DEF Supply
<1>11. \A r \in DOMAIN redeemers' : redeemers'[r].index \in Nat
  <2> SUFFICES ASSUME NEW r \in DOMAIN redeemers' PROVE redeemers'[r].index \in Nat
    OBVIOUS
  <2>1. CASE redeemers'[r].tag = tag
    <3> DEFINE K == DOMAIN maps'[tag]
               B == {k \in K : Before(k, redeemers'[r].item)}
    <3>1. redeemers'[r].index = Cardinality(B)
      BY <1>2, <2>1 DEF Mapped, Position
    <3>2. B \in SUBSET K
      OBVIOUS
    <3>3. Cardinality(B) \in Nat
      <4> HIDE DEF B
      <4>1. IsFiniteSet(B)
        BY <3>2, FS_Subset
      <4> QED BY <4>1, FS_CardinalityType
    <3> QED BY <3>1, <3>3
  <2>2. CASE redeemers'[r].tag # tag
    BY <1>3, <2>2 DEF Grown, Kept, Typed
  <2> QED BY <2>1, <2>2
<1>12. tag \in Tag
  BY DEF MapTags, Tag
<1>13. DistinctInputs' => DistinctInputs
  BY DEF DistinctInputs
<1> HIDE DEF entry
<1>14. /\ deferred \subseteq deferred' /\ deferred' \subseteq DOMAIN redeemers'
       /\ given = "callback" => \A r \in DOMAIN redeemers' \ DOMAIN redeemers : r \in deferred'
  BY <1>4, <1>5, <1>6, <1>7, <1>8
<1> QED BY <1>3, <1>10, <1>11, <1>12, <1>13, <1>14, GrownStep

(* A call that appends the redeemer of an item. *)
LEMMA ListEffect ==
  ASSUME Shape, Typed, Deferral, Supplied, maps' = maps,
         NEW tag \in Tag, NEW item, NEW index \in Nat, NEW given,
         redeemers' = IF given = "null" THEN redeemers ELSE Append(redeemers, NewRedeemer(tag, item, index, given)),
         Supply(tag, item, given),
         deferred \subseteq deferred', deferred' \subseteq DOMAIN redeemers',
         DistinctInputs' => DistinctInputs,
         DistinctInputs' /\ given = "callback" => Len(redeemers) + 1 \in deferred'
  PROVE  Typed' /\ Deferral' /\ Supplied'
<1>1. AreRedeemers(redeemers)
  BY DEF Shape
<1>2. EntriesKept
  BY DEF EntriesKept
<1>3. CASE given = "null"
  <2>1. redeemers' = redeemers /\ supplied' = supplied
    BY <1>3 DEF Supply
  <2>2. Grown(tag, item, given)
    BY <2>1, SameGrown
  <2>3. \A r \in DOMAIN redeemers' : redeemers'[r].index \in Nat
    BY <2>1 DEF Typed
  <2> QED BY <1>2, <2>1, <2>2, <2>3, GrownStep
<1>4. CASE given # "null"
  <2>1. redeemers' = Append(redeemers, NewRedeemer(tag, item, index, given)) /\ supplied' = supplied \cup {<<tag, item>>}
    BY <1>4 DEF Supply
  <2> DEFINE n == Len(redeemers) + 1
  <2>2. /\ Grown(tag, item, given)
        /\ DOMAIN redeemers' = DOMAIN redeemers \cup {n}
        /\ redeemers'[n].tag = tag
        /\ redeemers'[n].item = item
        /\ redeemers'[n].index = index
        /\ \A r \in DOMAIN redeemers : redeemers'[r] = redeemers[r]
    BY <1>1, <2>1, AppendGrown
  <2> HIDE DEF n
  <2>3. \A r \in DOMAIN redeemers' : redeemers'[r].index \in Nat
    BY <2>2 DEF Typed
  <2>4. Answered(<<tag, item>>)'
    BY <2>2 DEF Answered
  <2>5. \A s \in supplied' \ supplied : Answered(s)'
    BY <2>1, <2>4
  <2>6. DistinctInputs' /\ given = "callback" => \A r \in DOMAIN redeemers' \ DOMAIN redeemers : r \in deferred'
    BY <2>2 DEF n
  <2> QED BY <1>2, <2>2, <2>3, <2>5, <2>6, GrownStep
<1> QED BY <1>3, <1>4

-----------------------------------------------------------------------------
(* What links the redeemers to the inputs, the withdrawals, the callbacks and *)
(* the calls that supplied them.                                              *)
Links == Typed /\ Spent /\ Withdrawn /\ Deferral /\ Supplied

LEMMA SpentKept ==
  ASSUME Spent, SpendOnly, NEW tag, tag # "spend", Kept({tag}), inputs' = inputs
  PROVE  Spent'
BY DEF Spent, SpendOnly, Kept

LEMMA WithdrawnKept ==
  ASSUME Withdrawn, body'.withdrawals = body.withdrawals, maps'["reward"] = maps["reward"]
  PROVE  Withdrawn'
BY DEF Withdrawn, ByAddress

LEMMA QuietLinks ==
  ASSUME Links, UNCHANGED <<redeemers, maps, inputs, deferred, supplied>>, body'.withdrawals = body.withdrawals
  PROVE  Links'
<1>1. Withdrawn'
  BY WithdrawnKept DEF Links
<1>2. Spent' /\ Typed'
  BY DEF Links, Spent, Typed
<1>3. Deferral'
  BY DEF Links, Deferral, DistinctInputs
<1>4. Supplied'
  BY DEF Links, Supplied, Answered
<1> QED BY <1>1, <1>2, <1>3, <1>4 DEF Links

(* A spent input. *)
LEMMA InputLinks ==
  ASSUME Shape, Pointers, Links, Shape', Pointers', NEW c \in Calls, AddInput(c)
  PROVE  Links'
<1> USE DEF tx, state
<1> DEFINE n == Len(redeemers) + 1
           entry == [id |-> c.item, redeemer |-> IF c.redeemer = "null" THEN 0 ELSE n]
           m == Len(inputs) + 1
<1>1. /\ c.item \in Identity /\ c.redeemer \in Given
      /\ maps' = maps /\ body' = body
      /\ redeemers' = IF c.redeemer = "null" THEN redeemers
                      ELSE Append(redeemers, NewRedeemer("spend", c.item, 0, c.redeemer))
      /\ inputs' = Append(inputs, entry)
      /\ Supply("spend", c.item, c.redeemer)
      /\ deferred' = IF c.redeemer = "callback" THEN deferred \cup {FirstRedeemer(inputs', c.item)} ELSE deferred
  BY CallsAssumption, Zenon DEF AddInput
<1>2. entry.id = c.item /\ entry.redeemer = IF c.redeemer = "null" THEN 0 ELSE n
  OBVIOUS
<1> HIDE DEF entry
<1>3. IsSequence(inputs) /\ AreRedeemers(redeemers) /\ SpendOnly /\ SpendOnly' /\ AreRedeemers(redeemers')
  BY DEF Pointers, Shape
<1>4. /\ DOMAIN inputs = 1..Len(inputs) /\ Len(inputs) \in Nat
      /\ DOMAIN inputs' = 1..(Len(inputs) + 1)
      /\ \A i \in 1..Len(inputs) : inputs'[i] = inputs[i]
      /\ inputs'[Len(inputs) + 1] = entry
      /\ IsSequence(inputs')
  BY <1>1, <1>3, AppendToSequence
<1>5. /\ m \in Nat /\ DOMAIN inputs' = DOMAIN inputs \cup {m} /\ m \notin DOMAIN inputs
      /\ \A i \in DOMAIN inputs : inputs'[i] = inputs[i]
      /\ inputs'[m] = entry
  BY <1>4
<1>6. Len(redeemers) \in Nat /\ n # 0
  BY <1>3, LenOfSequence DEF AreRedeemers
<1>7. DistinctInputs' => DistinctInputs
  BY <1>5 DEF DistinctInputs
<1>8. DOMAIN redeemers \subseteq DOMAIN redeemers'
  <2>1. CASE c.redeemer = "null"
    BY <1>1, <2>1
  <2>2. CASE c.redeemer # "null"
    <3>1. redeemers' = Append(redeemers, NewRedeemer("spend", c.item, 0, c.redeemer))
      BY <1>1, <2>2
    <3>2. Kept({"spend"})
      BY <1>3, <3>1, AppendKept
    <3> QED BY <3>2 DEF Kept
  <2> QED BY <2>1, <2>2
<1> HIDE DEF m, n
<1>9. deferred \subseteq deferred' /\ deferred' \subseteq DOMAIN redeemers'
  <2>1. deferred \subseteq DOMAIN redeemers'
    BY <1>8 DEF Links, Typed
  <2>2. CASE c.redeemer # "callback"
    BY <1>1, <2>1, <2>2
  <2>3. CASE c.redeemer = "callback"
    <3>1. m \in DOMAIN inputs' /\ inputs'[m].id = c.item /\ inputs'[m].redeemer # 0
      BY <1>2, <1>5, <1>6, <2>3
    <3>2. PICK j \in DOMAIN inputs' :
            inputs'[j].redeemer # 0 /\ FirstRedeemer(inputs', inputs'[m].id) = inputs'[j].redeemer
      <4> DEFINE ins == inputs'
      <4>1. IsSequence(ins) /\ m \in DOMAIN ins /\ ins[m].redeemer # 0
        BY <1>4, <3>1
      <4> HIDE DEF ins
      <4>2. \E j \in DOMAIN ins : ins[j].redeemer # 0 /\ FirstRedeemer(ins, ins[m].id) = ins[j].redeemer
        BY <4>1, FirstRedeemerIsOne
      <4> QED BY <4>2 DEF ins
    <3>3. FirstRedeemer(inputs', c.item) \in DOMAIN redeemers'
      BY <1>3, <3>1, <3>2 DEF SpendOnly
    <3> QED BY <1>1, <2>1, <2>3, <3>3
  <2> QED BY <2>2, <2>3
<1>10. ASSUME DistinctInputs', c.redeemer = "callback" PROVE n \in deferred'
  <2>1. m \in DOMAIN inputs' /\ inputs'[m].id = c.item /\ inputs'[m].redeemer = n
    BY <1>2, <1>5, <1>10
  <2>2. \A j \in DOMAIN inputs' : inputs'[j].id = inputs'[m].id => j = m
    BY <1>10, <2>1 DEF DistinctInputs
  <2>3. FirstRedeemer(inputs', c.item) = n
    <3> DEFINE ins == inputs'
    <3>1. /\ m \in DOMAIN ins /\ ins[m].id = c.item /\ ins[m].redeemer = n /\ m \in Nat /\ ins[m].redeemer # 0
          /\ \A j \in DOMAIN ins : ins[j].id = ins[m].id => j = m
      BY <1>5, <1>6, <2>1, <2>2
    <3> HIDE DEF ins
    <3>2. FirstRedeemer(ins, ins[m].id) = ins[m].redeemer
      BY <3>1, OnlyRedeemer
    <3>3. FirstRedeemer(ins, c.item) = n
      BY <3>1, <3>2
    <3> QED BY <3>3 DEF ins
  <2> QED BY <1>1, <1>10, <2>3
<1>11. Typed' /\ Deferral' /\ Supplied'
  <2>1. Typed /\ Deferral /\ Supplied /\ "spend" \in Tag /\ 0 \in Nat
    BY DEF Links, Tag
  <2>2. DistinctInputs' /\ c.redeemer = "callback" => Len(redeemers) + 1 \in deferred'
    BY <1>10 DEF n
  <2> QED BY <1>1, <1>7, <1>9, <2>1, <2>2, ListEffect
<1>12. Withdrawn'
  BY <1>1, WithdrawnKept DEF Links
<1>13. Spent'
  <2>1. CASE c.redeemer = "null"
    <3>1. redeemers' = redeemers /\ inputs'[m].redeemer = 0 /\ inputs'[m].id = c.item
      BY <1>1, <1>2, <1>5, <2>1
    <3> QED BY <1>1, <1>5, <3>1 DEF Links, Spent
  <2>2. CASE c.redeemer # "null"
    <3>1. redeemers' = Append(redeemers, NewRedeemer("spend", c.item, 0, c.redeemer))
      BY <1>1, <2>2
    <3>2. /\ DOMAIN redeemers' = DOMAIN redeemers \cup {n}
          /\ redeemers'[n].item = c.item
          /\ \A r \in DOMAIN redeemers : redeemers'[r] = redeemers[r]
      BY <1>3, <3>1, AppendGrown DEF n
    <3>3. inputs'[m].redeemer = n /\ inputs'[m].id = c.item
      BY <1>2, <1>5, <2>2
    <3>4. \A i \in DOMAIN inputs : inputs[i].redeemer # 0 => inputs[i].redeemer \in DOMAIN redeemers
      BY <1>3 DEF SpendOnly
    <3> QED BY <1>1, <1>5, <3>2, <3>3, <3>4 DEF Links, Spent
  <2> QED BY <2>1, <2>2
<1> QED BY <1>11, <1>12, <1>13 DEF Links

(* An item of a map, with its redeemer or NULL. *)
LEMMA MapLinks ==
  ASSUME Shape, Pointers, Links, Shape', Pointers', NEW tag \in MapTags, NEW item, NEW given,
         AddRedeemer(tag, item, given), RegisterDeferred(tag, item, given), Supply(tag, item, given),
         inputs' = inputs,
         IF tag = "reward"
         THEN item \in Credential /\ body'.withdrawals = InsertWithdrawal(body.withdrawals, item)
         ELSE body'.withdrawals = body.withdrawals
  PROVE  Links'
<1>1. AreRedeemers(redeemers) /\ DOMAIN maps = MapTags /\ Mapped(tag) /\ SpendOnly
  BY DEF Shape, Pointers
<1>2. /\ Kept({tag})
      /\ \A t \in MapTags \ {tag} : maps'[t] = maps[t]
      /\ DOMAIN maps'[tag] = DOMAIN maps[tag] \cup {item}
  BY <1>1, AddRedeemerKept
<1>3. Typed /\ Spent /\ Withdrawn /\ Deferral /\ Supplied
  BY DEF Links
<1>4. IsFiniteSet(DOMAIN maps[tag])
  <2>1. /\ IsFiniteSet(DOMAIN maps["reward"])
        /\ IsFiniteSet(DOMAIN maps["mint"])
        /\ IsFiniteSet(DOMAIN maps["vote"])
    BY <1>3 DEF Withdrawn, Pointers
  <2> QED BY <2>1 DEF MapTags
<1>5. IsFiniteSet(DOMAIN maps'[tag])
  BY <1>2, <1>4, FS_AddElement
<1>6. Typed' /\ Deferral' /\ Supplied'
  BY <1>3, <1>5, MapEffect
<1>7. tag # "spend"
  BY DEF MapTags
<1>8. Spent'
  BY <1>1, <1>2, <1>3, <1>7, SpentKept
<1>9. Withdrawn'
  <2>1. CASE tag = "reward"
    <3>1. /\ item \in Credential /\ body'.withdrawals = InsertWithdrawal(body.withdrawals, item)
          /\ DOMAIN maps'["reward"] = DOMAIN maps["reward"] \cup {item}
      BY <1>2, <2>1
    <3> QED BY <1>3, <3>1, WithdrawnStep
  <2>2. CASE tag # "reward"
    <3>1. body'.withdrawals = body.withdrawals /\ maps'["reward"] = maps["reward"]
      BY <1>2, <2>2 DEF MapTags
    <3> QED BY <1>3, <3>1, WithdrawnKept
  <2> QED BY <2>1, <2>2
<1> QED BY <1>6, <1>8, <1>9 DEF Links

LEMMA WithdrawalLinks ==
  ASSUME Shape, Pointers, Links, Shape', Pointers', NEW c \in Calls, WithdrawRewards(c)
  PROVE  Links'
<1> USE DEF tx, state
<1> DEFINE plain == c.redeemer = "null" /\ c.item[1] # ScriptHash
           twice == c.redeemer = "null" /\ ~plain /\ c.item \in DOMAIN maps["reward"]
           ws == InsertWithdrawal(body.withdrawals, c.item)
<1>1. /\ c.item \in Credential /\ inputs' = inputs
      /\ body' = [body EXCEPT !.withdrawals = ws]
      /\ Supply("reward", c.item, c.redeemer)
      /\ \/ plain /\ UNCHANGED <<redeemers, maps, deferred>>
         \/ twice /\ UNCHANGED <<redeemers, maps, deferred>>
         \/ AddRedeemer("reward", c.item, c.redeemer) /\ RegisterDeferred("reward", c.item, c.redeemer)
  BY CallsAssumption DEF WithdrawRewards
<1>2. body'.withdrawals = ws
  <2> HIDE DEF ws, plain, twice
  <2> QED BY <1>1 DEF Shape, BodyKeys
<1>3. CASE (plain \/ twice) /\ UNCHANGED <<redeemers, maps, deferred>>
  <2>1. Typed /\ Spent /\ Withdrawn /\ Deferral /\ Supplied
    BY DEF Links
  <2>2. supplied' = supplied
    BY <1>1, <1>3 DEF Supply
  <2>3. Withdrawn'
    <3>1. DOMAIN maps'["reward"] = DOMAIN maps["reward"] /\ (c.item[1] # ScriptHash \/ c.item \in DOMAIN maps["reward"])
      BY <1>3
    <3> QED BY <1>1, <1>2, <2>1, <3>1, WithdrawnStep
  <2>4. Typed' /\ Spent'
    BY <1>1, <1>3, <2>1 DEF Typed, Spent
  <2>5. Deferral' /\ Supplied'
    BY <1>1, <1>3, <2>1, <2>2 DEF Deferral, DistinctInputs, Supplied, Answered
  <2> QED BY <2>3, <2>4, <2>5 DEF Links
<1>4. CASE AddRedeemer("reward", c.item, c.redeemer) /\ RegisterDeferred("reward", c.item, c.redeemer)
  <2>1. "reward" \in MapTags
    BY DEF MapTags
  <2> HIDE DEF plain, twice
  <2> QED BY <1>1, <1>2, <1>4, <2>1, MapLinks
<1> QED BY <1>1, <1>3, <1>4

LEMMA CertificateLinks ==
  ASSUME Shape, Pointers, Links, NEW c \in Calls, AddCertificate(c)
  PROVE  Links'
<1> USE DEF tx, state
<1> DEFINE index == Len(body.certificates)
           own == {r \in DOMAIN redeemers' : redeemers'[r].tag = "certifying" /\ redeemers'[r].index = index}
           n == Len(redeemers) + 1
<1>1. /\ maps' = maps /\ inputs' = inputs
      /\ body' = [body EXCEPT !.certificates = Append(@, c.item)]
      /\ redeemers' = IF c.redeemer = "null" THEN redeemers
                      ELSE Append(redeemers, NewRedeemer("certifying", c.item, index, c.redeemer))
      /\ deferred' = IF c.redeemer = "callback" THEN deferred \cup {CHOOSE r \in own : TRUE} ELSE deferred
      /\ Supply("certifying", c.item, c.redeemer)
  BY DEF AddCertificate, RegisterCertificate
<1>2. AreRedeemers(redeemers) /\ Listed("certifying", body.certificates) /\ SpendOnly /\ IsSequence(body.certificates)
  BY DEF Shape, Pointers
<1>3. index \in Nat /\ "certifying" \in Tag
  BY <1>2, LenOfSequence DEF Tag
<1>4. Typed /\ Spent /\ Withdrawn /\ Deferral /\ Supplied
  BY DEF Links
<1>5. Kept({"certifying"}) /\ DOMAIN redeemers \subseteq DOMAIN redeemers'
  <2>1. CASE c.redeemer = "null"
    BY <1>1, <2>1 DEF Kept
  <2>2. CASE c.redeemer # "null"
    <3>1. redeemers' = Append(redeemers, NewRedeemer("certifying", c.item, index, c.redeemer))
      BY <1>1, <2>2
    <3>2. Kept({"certifying"})
      BY <1>2, <3>1, AppendKept
    <3> QED BY <3>2 DEF Kept
  <2> QED BY <2>1, <2>2
<1>6. ASSUME c.redeemer = "callback" PROVE (CHOOSE r \in own : TRUE) = n /\ n \in DOMAIN redeemers'
  <2>1. redeemers' = Append(redeemers, NewRedeemer("certifying", c.item, index, c.redeemer))
    BY <1>1, <1>6
  <2>2. /\ DOMAIN redeemers' = DOMAIN redeemers \cup {n}
        /\ redeemers'[n].tag = "certifying"
        /\ redeemers'[n].index = index
        /\ \A r \in DOMAIN redeemers : redeemers'[r] = redeemers[r]
    BY <1>2, <2>1, AppendGrown
  <2> HIDE DEF n
  <2>3. \A r \in DOMAIN redeemers : redeemers[r].tag = "certifying" => redeemers[r].index # index
    BY <1>2, <1>3 DEF Listed
  <2>4. own = {n}
    BY <2>2, <2>3
  <2> HIDE DEF own
  <2> QED BY <2>2, <2>4
<1> HIDE DEF own
<1>7. /\ deferred \subseteq deferred' /\ deferred' \subseteq DOMAIN redeemers'
      /\ c.redeemer = "callback" => n \in deferred'
  BY <1>1, <1>4, <1>5, <1>6 DEF Typed
<1>8. DistinctInputs' => DistinctInputs
  BY <1>1 DEF DistinctInputs
<1>9. Typed' /\ Deferral' /\ Supplied'
  <2> HIDE DEF index
  <2> QED BY <1>1, <1>3, <1>4, <1>7, <1>8, ListEffect
<1>10. Spent'
  BY <1>1, <1>2, <1>4, <1>5, SpentKept
<1>11. body'.withdrawals = body.withdrawals
  BY <1>1 DEF Shape, BodyKeys
<1>12. Withdrawn'
  BY <1>1, <1>4, <1>11, WithdrawnKept
<1> QED BY <1>9, <1>10, <1>12 DEF Links

LEMMA ProposalLinks ==
  ASSUME Shape, Pointers, Links, NEW c \in Calls, Propose(c)
  PROVE  Links'
<1> USE DEF tx, state
<1> DEFINE index == Len(body.proposals)
           given == IF c.guarded THEN "literal" ELSE "null"
<1>1. /\ maps' = maps /\ inputs' = inputs /\ deferred' = deferred /\ c.guarded \in BOOLEAN
      /\ body' = [body EXCEPT !.proposals = Append(@, c.item)]
      /\ redeemers' = IF c.guarded THEN Append(redeemers, NewRedeemer("proposing", c.item, index, "literal"))
                      ELSE redeemers
      /\ Supply("proposing", c.item, given)
  BY CallsAssumption DEF Propose
<1>2. redeemers' = IF given = "null" THEN redeemers
                   ELSE Append(redeemers, NewRedeemer("proposing", c.item, index, given))
  BY <1>1
<1>3. given # "callback"
  OBVIOUS
<1> HIDE DEF given
<1>4. AreRedeemers(redeemers) /\ SpendOnly /\ IsSequence(body.proposals)
  BY DEF Shape, Pointers
<1>5. index \in Nat /\ "proposing" \in Tag
  BY <1>4, LenOfSequence DEF Tag
<1> HIDE DEF index
<1>6. Typed /\ Spent /\ Withdrawn /\ Deferral /\ Supplied
  BY DEF Links
<1>7. Kept({"proposing"}) /\ DOMAIN redeemers \subseteq DOMAIN redeemers'
  <2>1. CASE given = "null"
    BY <1>2, <2>1 DEF Kept
  <2>2. CASE given # "null"
    <3>1. redeemers' = Append(redeemers, NewRedeemer("proposing", c.item, index, given))
      BY <1>2, <2>2
    <3>2. Kept({"proposing"})
      BY <1>4, <3>1, AppendKept
    <3> QED BY <3>2 DEF Kept
  <2> QED BY <2>1, <2>2
<1>8. /\ deferred \subseteq deferred' /\ deferred' \subseteq DOMAIN redeemers'
      /\ DistinctInputs' => DistinctInputs
  BY <1>1, <1>6, <1>7 DEF Typed, DistinctInputs
<1>9. Typed' /\ Deferral' /\ Supplied'
  BY <1>1, <1>2, <1>3, <1>5, <1>6, <1>8, ListEffect
<1>10. Spent'
  BY <1>1, <1>4, <1>6, <1>7, SpentKept
<1>11. body'.withdrawals = body.withdrawals
  BY <1>1 DEF Shape, BodyKeys
<1>12. Withdrawn'
  BY <1>1, <1>6, <1>11, WithdrawnKept
<1> QED BY <1>9, <1>10, <1>12 DEF Links

(* A build that succeeds. *)
LEMMA BuildLinks ==
  ASSUME Shape, Pointers, Links, Build
  PROVE  Links' /\ SpendPointersFindTheirInput' /\ NoPlaceholderLeft'
<1> USE DEF tx, state
<1>1. PICK taken \in SUBSET WalletIds :
        LET laid == LaidOut(taken)
        IN  /\ redeemers' = Balanced(laid)
            /\ body' = [body EXCEPT !.inputs = laid,
                                    !.script_data_hash =
                                       IF has_script_data
                                       THEN [kind |-> "real", covers |-> <<redeemers', datums, languages>>]
                                       ELSE @]
  BY DEF Build
<1> DEFINE laid == LaidOut(taken)
           hash == IF has_script_data THEN [kind |-> "real", covers |-> <<redeemers', datums, languages>>]
                   ELSE body.script_data_hash
<1>2. maps' = maps /\ inputs' = inputs /\ deferred' = deferred /\ supplied' = supplied
  BY DEF Build
<1>3. redeemers' = Balanced(laid)
  BY <1>1
<1>4. body'.inputs = laid /\ body'.withdrawals = body.withdrawals
  <2>1. body' = [body EXCEPT !.inputs = laid, !.script_data_hash = hash]
    BY <1>1 DEF Shape, BodyKeys
  <2> HIDE DEF laid, hash
  <2> QED BY <2>1 DEF Shape, BodyKeys
<1>5. Typed /\ Spent /\ Withdrawn /\ Deferral /\ Supplied
  BY DEF Links
<1>6. /\ DOMAIN redeemers' = DOMAIN redeemers
      /\ \A r \in DOMAIN redeemers :
           /\ redeemers'[r].tag = redeemers[r].tag
           /\ redeemers'[r].item = redeemers[r].item
           /\ redeemers'[r].index = SpendIndex(r, laid)
           /\ redeemers'[r].data = IF r \in deferred THEN "resolved" ELSE redeemers[r].data
  <2> HIDE DEF laid
  <2> QED BY <1>3, BalancedRedeemers DEF Shape
<1>7. Typed'
  <2>1. \A r \in DOMAIN redeemers : SpendIndex(r, laid) \in Nat
    <3>1. IsSequence(inputs) /\ \A i \in DOMAIN inputs : inputs[i].id \in Identity
      BY <1>5 DEF Pointers, Spent
    <3> SUFFICES ASSUME NEW r \in DOMAIN redeemers PROVE SpendIndex(r, laid) \in Nat
      OBVIOUS
    <3>2. redeemers[r].index \in Nat
      BY <1>5 DEF Typed
    <3> QED BY <3>1, <3>2, SpendIndexPlace
  <2> HIDE DEF laid
  <2> QED BY <1>2, <1>5, <1>6, <2>1 DEF Typed
<1>8. DistinctInputs' => DistinctInputs
  BY <1>2 DEF DistinctInputs
<1> HIDE DEF laid
<1>9. DistinctInputs => \A r \in DOMAIN redeemers' : redeemers'[r].data # "placeholder"
  BY <1>5, <1>6 DEF Deferral
<1>10. Deferral' /\ NoPlaceholderLeft'
  BY <1>8, <1>9 DEF Deferral, NoPlaceholderLeft
<1>11. Spent'
  BY <1>2, <1>5, <1>6 DEF Spent, Pointers, SpendOnly
<1>12. Withdrawn'
  BY <1>2, <1>4, <1>5, WithdrawnKept
<1>13. Supplied'
  BY <1>2, <1>5, <1>6 DEF Supplied, Answered
<1>14. SpendPointersFindTheirInput'
  <2> SUFFICES ASSUME DistinctInputs', NEW r \in DOMAIN redeemers', redeemers'[r].tag = "spend"
               PROVE  PointedAt(r)' = {redeemers'[r].item}
    BY DEF SpendPointersFindTheirInput
  <2>1. DistinctInputs /\ r \in DOMAIN redeemers /\ redeemers[r].tag = "spend" /\ redeemers[r].index \in Nat
    BY <1>5, <1>6, <1>8 DEF Typed
  <2> DEFINE k == SpendIndex(r, laid)
  <2>2. k \in Nat /\ k < Len(laid) /\ laid[k + 1] = redeemers[r].item
    BY <1>5, <2>1, SpendPointersBuilt DEF laid
  <2>3. redeemers'[r].index = k /\ redeemers'[r].item = redeemers[r].item
    BY <1>6, <2>1
  <2>4. PointedAt(r)' = IF redeemers'[r].index < Len(body'.inputs) THEN {body'.inputs[redeemers'[r].index + 1]} ELSE {}
    BY <2>1 DEF PointedAt
  <2> HIDE DEF k
  <2> QED BY <1>4, <2>2, <2>3, <2>4
<1> QED BY <1>7, <1>10, <1>11, <1>12, <1>13, <1>14 DEF Links

(* What TypeOK says beyond the links. *)
Recorded ==
  /\ last_error \in {"success", "invalid_argument", "pointer_is_null", "duplicated_key", "build_failed",
                     "illegal_state"}
  /\ config \subseteq ConfigFields
  /\ languages \subseteq Versions
  /\ calls \in 0..MaxCalls

CInv == IInv /\ Links /\ Recorded /\ SpendPointersFindTheirInput /\ NoPlaceholderLeft

LEMMA MethodLinks ==
  ASSUME Shape, Pointers, Links, Shape', Pointers', NEW c \in Calls, Method(c)
  PROVE  Links'
<1> USE DEF tx, state
<1>1. CASE Configure(c) \/ SetBodyField(c) \/ InvalidArgument(c) \/ AddOutput(c) \/ AddReferenceInput(c)
           \/ AddDatum(c) \/ AddScript(c)
  <2>1. UNCHANGED <<redeemers, maps, inputs, deferred, supplied>>
    BY <1>1 DEF Configure, SetBodyField, InvalidArgument, AddOutput, AddReferenceInput, AddDatum, AddScript
  <2>2. body'.withdrawals = body.withdrawals
    <3>1. DOMAIN body = BodyKeys
      BY DEF Shape
    <3>2. \/ body' = body
          \/ \E f \in BodyKeys \ {"withdrawals"} : \E x : body' = [body EXCEPT ![f] = x]
      BY <1>1 DEF Configure, SetBodyField, InvalidArgument, AddOutput, AddReferenceInput, AddDatum, AddScript, BodyKeys
    <3> QED BY <3>1, <3>2 DEF BodyKeys
  <2> QED BY <2>1, <2>2, QuietLinks
<1>2. CASE AddInput(c)
  BY <1>2, InputLinks
<1>3. CASE MintToken(c)
  <2>1. /\ AddRedeemer("mint", c.item, c.redeemer) /\ RegisterDeferred("mint", c.item, c.redeemer)
        /\ Supply("mint", c.item, c.redeemer) /\ inputs' = inputs
        /\ body' = [body EXCEPT !.mint = @ \cup {c.item}]
    BY <1>3 DEF MintToken
  <2>2. body'.withdrawals = body.withdrawals /\ "mint" \in MapTags
    BY <2>1 DEF Shape, BodyKeys, MapTags
  <2> QED BY <2>1, <2>2, MapLinks
<1>4. CASE Vote(c)
  <2>1. /\ AddRedeemer("vote", c.item, c.redeemer) /\ RegisterDeferred("vote", c.item, c.redeemer)
        /\ Supply("vote", c.item, c.redeemer) /\ inputs' = inputs
        /\ body' = [body EXCEPT !.votes = @ \cup {c.item}]
    BY <1>4 DEF Vote
  <2>2. body'.withdrawals = body.withdrawals /\ "vote" \in MapTags
    BY <2>1 DEF Shape, BodyKeys, MapTags
  <2> QED BY <2>1, <2>2, MapLinks
<1>5. CASE WithdrawRewards(c)
  BY <1>5, WithdrawalLinks
<1>6. CASE AddCertificate(c)
  BY <1>6, CertificateLinks
<1>7. CASE Propose(c)
  BY <1>7, ProposalLinks
<1> QED BY <1>1, <1>2, <1>3, <1>4, <1>5, <1>6, <1>7 DEF Method

LEMMA LinksStep ==
  ASSUME IInv, Links, SpendPointersFindTheirInput, NoPlaceholderLeft, [Next]_vars, Shape', Pointers'
  PROVE  Links' /\ SpendPointersFindTheirInput' /\ NoPlaceholderLeft'
<1> USE DEF tx, state
<1>1. Shape /\ Sticky /\ Pointers /\ DOMAIN body = BodyKeys
  BY DEF IInv, Shape
<1>2. CASE Build
  BY <1>1, <1>2, BuildLinks
<1>3. CASE ~Build
  <2>1. Links'
    <3>1. ASSUME NEW c \in Calls, Method(c) PROVE Links'
      BY <1>1, <3>1, MethodLinks
    <3>2. CASE BuildFails
      <4>1. body'.withdrawals = body.withdrawals
        BY <1>1, <3>2 DEF BuildFails, BodyKeys
      <4> QED BY <3>2, <4>1, QuietLinks DEF BuildFails
    <3>3. CASE BuildAgain
      BY <3>3, QuietLinks DEF BuildAgain
    <3>4. CASE UNCHANGED vars
      BY <3>4, QuietLinks DEF vars
    <3> QED BY <1>3, <3>1, <3>2, <3>3, <3>4 DEF Next, Finished
  <2>2. SpendPointersFindTheirInput' /\ NoPlaceholderLeft'
    <3>1. CASE HandedOut
      <4>1. UNCHANGED <<last_error, body, redeemers, inputs>>
        BY <1>1, <3>1, HandedOutStep
      <4>2. DistinctInputs' => DistinctInputs
        BY <4>1 DEF DistinctInputs
      <4>3. NoPlaceholderLeft'
        BY <3>1, <4>1, <4>2 DEF NoPlaceholderLeft
      <4>4. \A r : PointedAt(r)' = PointedAt(r)
        BY <4>1 DEF PointedAt
      <4>5. SpendPointersFindTheirInput'
        BY <3>1, <4>1, <4>2, <4>4 DEF SpendPointersFindTheirInput
      <4> QED BY <4>3, <4>5
    <3>2. CASE ~HandedOut
      <4>1. ~HandedOut'
        BY <1>1, <1>3, <3>2, StillOpen
      <4> QED BY <4>1 DEF SpendPointersFindTheirInput, NoPlaceholderLeft
    <3> QED BY <3>1, <3>2
  <2> QED BY <2>1, <2>2
<1> QED BY <1>2, <1>3

LEMMA RecordedStep ==
  ASSUME Shape, Recorded, [Next]_vars
  PROVE  Recorded'
<1> USE DEF tx, state
<1>1. calls' \in 0..MaxCalls
  <2>1. calls' = calls \/ (calls < MaxCalls /\ calls' = calls + 1)
    <3>1. ASSUME NEW c \in Calls, Method(c) PROVE calls < MaxCalls /\ calls' = calls + 1
      BY <3>1 DEF Method, Configure, SetBodyField, InvalidArgument, AddOutput, AddInput, AddReferenceInput, MintToken,
           WithdrawRewards, Vote, AddCertificate, Propose, AddDatum, AddScript, Ready, RegisterDeferred, Track
    <3>2. CASE BuildFails \/ Build \/ BuildAgain
      BY <3>2 DEF BuildFails, Build, BuildAgain, Ready, Track
    <3>3. CASE UNCHANGED vars
      BY <3>3 DEF vars
    <3> QED BY <3>1, <3>2, <3>3 DEF Next, Finished
  <2> QED BY <2>1, BoundsAssumption DEF Recorded
<1>2. last_error' \in {"success", "invalid_argument", "pointer_is_null", "duplicated_key", "build_failed", "illegal_state"}
  <2>1. ASSUME NEW c \in Calls, Method(c)
        PROVE  last_error' \in {"success", "invalid_argument", "pointer_is_null", "duplicated_key"}
    BY <2>1, MethodStep
  <2>2. CASE BuildFails \/ Build \/ BuildAgain
    BY <2>2 DEF BuildFails, Build, BuildAgain, Track, Recorded
  <2>3. CASE UNCHANGED vars
    BY <2>3 DEF vars, Recorded
  <2> QED BY <2>1, <2>2, <2>3 DEF Next, Finished
<1>3. config' \subseteq ConfigFields /\ languages' \subseteq Versions
  <2>1. ASSUME NEW c \in Calls, Method(c)
        PROVE  /\ config' = config \/ (c.item \in ConfigFields /\ config' = config \cup {c.item})
               /\ languages' = languages \/ languages' = languages \cup ({c.language} \cap Versions)
    BY <2>1, CallsAssumption
       DEF Method, Configure, SetBodyField, InvalidArgument, AddOutput, AddInput, AddReferenceInput, MintToken,
           WithdrawRewards, Vote, AddCertificate, Propose, AddDatum, AddScript
  <2>2. ASSUME NEW c \in Calls, Method(c) PROVE config' \subseteq ConfigFields /\ languages' \subseteq Versions
    BY <2>1, <2>2 DEF Recorded
  <2>3. CASE BuildFails \/ Build \/ BuildAgain
    BY <2>3 DEF BuildFails, Build, BuildAgain, Recorded
  <2>4. CASE UNCHANGED vars
    BY <2>4 DEF vars, Recorded
  <2> QED BY <2>2, <2>3, <2>4 DEF Next, Finished
<1> QED BY <1>1, <1>2, <1>3 DEF Recorded

LEMMA InitCInv ==
  ASSUME Init
  PROVE  CInv
<1>1. IInv
  BY InitIInv
<1>2. DOMAIN redeemers = {} /\ DOMAIN inputs = {} /\ deferred = {} /\ supplied = {}
  BY DEF Init
<1>3. Typed /\ Spent /\ Deferral /\ Supplied
  BY <1>2 DEF Typed, Spent, Deferral, Supplied
<1>4. Withdrawn
  <2>1. body.withdrawals = <<>> /\ DOMAIN maps["reward"] = {}
    BY DEF Init
  <2>2. <<>> \in Seq(Credential) /\ DOMAIN <<>> = {}
    OBVIOUS
  <2> QED BY <2>1, <2>2, FS_EmptySet DEF Withdrawn, ByAddress
<1>5. Recorded
  BY BoundsAssumption DEF Init, Recorded
<1>6. SpendPointersFindTheirInput /\ NoPlaceholderLeft
  BY <1>2 DEF SpendPointersFindTheirInput, NoPlaceholderLeft
<1> QED BY <1>1, <1>3, <1>4, <1>5, <1>6 DEF CInv, Links

LEMMA LinksComplete ==
  ASSUME CInv
  PROVE  RedeemersComplete
<1>1. Shape /\ Pointers /\ Links /\ Typed /\ Withdrawn /\ Supplied /\ Recorded
  BY DEF CInv, IInv, Links
<1>2. TypeOK
  <2>1. \A tag \in DOMAIN maps : \A k \in DOMAIN maps[tag] : maps[tag][k] \in {0} \cup DOMAIN redeemers
    BY <1>1 DEF Shape, Pointers, Mapped
  <2>2. body.mint \subseteq Identity /\ body.votes \subseteq Credential /\ body.withdrawals \in Seq(Credential)
    BY <1>1 DEF Pointers, Withdrawn
  <2> QED BY <1>1, <2>1, <2>2 DEF TypeOK, Typed, Recorded
<1>3. ScriptRewardPointers
  BY <1>1, RewardPointersFind
<1>4. SuppliedRedeemersKept
  BY <1>1 DEF Supplied, Answered, SuppliedRedeemersKept
<1> QED BY <1>2, <1>3, <1>4 DEF RedeemersComplete, CInv

(* A redeemer that comes with the first mention of its item is in the          *)
(* transaction, points at the input or the withdrawal it is for, and has its   *)
(* payload when handed out.                                                    *)
THEOREM RedeemersAreComplete == Spec => []RedeemersComplete
<1>1. Init => CInv
  BY InitCInv
<1>2. CInv /\ IInv' /\ [Next]_vars => CInv'
  <2> SUFFICES ASSUME CInv, IInv', [Next]_vars PROVE CInv'
    OBVIOUS
  <2>1. IInv /\ Links /\ Recorded /\ SpendPointersFindTheirInput /\ NoPlaceholderLeft /\ Shape /\ Shape' /\ Pointers'
    BY DEF CInv, IInv
  <2>2. Links' /\ SpendPointersFindTheirInput' /\ NoPlaceholderLeft'
    BY <2>1, LinksStep
  <2>3. Recorded'
    BY <2>1, RecordedStep
  <2> QED BY <2>2, <2>3 DEF CInv
<1>3. CInv => RedeemersComplete
  BY LinksComplete
<1> QED BY <1>1, <1>2, <1>3, BuilderInvariant, PTL DEF Spec
=============================================================================
