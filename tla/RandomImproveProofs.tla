------------------------ MODULE RandomImproveProofs ------------------------
(***************************************************************************)
(* Safety of the random-improve selection index, for every pool, request   *)
(* and order of draws.                                                     *)
(*                                                                         *)
(* PickFindsAll is not inductive: whether a later pick finds an entry      *)
(* depends on what the buckets hold while other processors draw stale      *)
(* copies, and on what an undo puts back.  IInv says where the copies of a *)
(* free entry are, what the most recent pick took, and which processors    *)
(* have used up their token.  That change is made for the selected entries *)
(* needs, besides, that the picks on record are the entries selected since *)
(* the pre-selected ones, and how far the list may lag behind them.        *)
(***************************************************************************)
EXTENDS RandomImprove, ValueTheorems

(* Entry e is registered in tier t of processor p. *)
Registered(p, t, e) == Quantity(e, p) > 0 /\ (t = 2 \/ t = TierOf(e))

(* A bucket holds an entry at most once, and only where it is registered. *)
BucketSound ==
  \A p \in Procs, t \in Tiers, e \in Entries :
    \/ buckets[p][t][e] = 0
    \/ buckets[p][t][e] = 1 /\ Registered(p, t, e)

(* A free entry is in every bucket it is registered in. *)
FreeListed ==
  ~AllocMayFail =>
    \A p \in Procs, t \in Tiers, e \in Entries \ selected :
      Registered(p, t, e) => buckets[p][t][e] = 1

(* The buckets of the tiers already drawn from are empty. *)
DrawnEmpty ==
  /\ pc = "draw" => \A t \in Tiers, e \in Entries : t < tier => buckets[proc][t][e] = 0
  /\ pc = "nopick" /\ ~AllocMayFail =>
       \A t \in Tiers, e \in Entries : buckets[proc][t][e] = 0

LastPick == picks[Len(picks)]

(* A pick that may still be undone came from the current bucket, and its *)
(* entry is in every other bucket it is registered in.                   *)
PickUndoable ==
  pc = "picked" =>
    /\ picks # <<>>
    /\ LastPick.proc = proc
    /\ LastPick.tier = tier
    /\ LastPick.entry \in selected
    /\ Registered(proc, tier, LastPick.entry)
    /\ buckets[proc][tier][LastPick.entry] = 0
    /\ ~AllocMayFail =>
         \A p \in Procs, t \in Tiers :
           Registered(p, t, LastPick.entry) /\ (p # proc \/ t # tier)
             => buckets[p][t][LastPick.entry] = 1

(* All entries that hold the token of p are in the set s. *)
Exhausted(p, s) == \A e \in Entries : Quantity(e, p) > 0 => e \in s

(* A processor left the round above its minimum or with its token used up, *)
(* and that stays so when the most recent pick is undone.                  *)
InactiveDone ==
  ~AllocMayFail =>
    /\ \A p \in Procs \ active : Short(p) => Exhausted(p, selected)
    /\ pc = "picked" =>
         \A p \in Procs \ active :
           total[p] - Quantity(LastPick.entry, p) < Minimum(p)
             => Exhausted(p, selected \ {LastPick.entry})

(* What the total of the processor was when its turn began. *)
BeforeExact ==
  caller = "robin" =>
    /\ pc = "draw" => before = total[proc]
    /\ pc = "picked" => before = total[proc] - Quantity(LastPick.entry, proc)

(* A pass without progress so far leaves no active processor behind; the *)
(* processor whose turn it is is active.                                 *)
PassInv ==
  /\ pc \in {"preselect", "robin"} \/ (pc \in {"draw", "picked", "nopick"} /\ caller = "robin") =>
       (~progress => \A p \in active : proc <= p)
  /\ pc = "preselect" => active = Procs
  /\ pc = "check" => active = {}
  /\ pc \in {"draw", "picked", "nopick"} /\ caller = "robin" => proc \in active

PickRecord == [entry : Entries, proc : Procs, tier : Tiers]

(* The picks that stand are the entries selected beyond the pre-selected     *)
(* ones, each recorded once.                                                 *)
Recorded ==
  /\ \A i, j \in 1 .. Len(picks) : picks[i].entry = picks[j].entry => i = j
  /\ \A i \in 1 .. Len(picks) : picks[i].entry \in selected \ Pre
  /\ \A e \in selected \ Pre : \E i \in 1 .. Len(picks) : picks[i].entry = e
  /\ pc = "preselect" \/ Pre \subseteq selected

(* The list of the selection lags behind the picks by the one that           *)
(* pick_additional_ada has just made.                                        *)
Collected ==
  /\ pc \in {"change", "done"} \/ (caller = "extra" /\ pc \in {"draw", "nopick"})
       => selection = PreEntries \o PickedEntries
  /\ caller = "extra" /\ pc = "picked"
       => Append(selection, LastPick.entry) = PreEntries \o PickedEntries

IInv ==
  /\ TypeOK
  /\ BucketSound
  /\ FreeListed
  /\ DrawnEmpty
  /\ PickUndoable
  /\ InactiveDone
  /\ BeforeExact
  /\ PassInv
  /\ TotalsExact
  /\ Recorded
  /\ Collected

-----------------------------------------------------------------------------
(* The elements of a sequence over S are in S. *)
LEMMA SeqElement ==
  ASSUME NEW S, NEW s \in Seq(S), NEW i \in DOMAIN s
  PROVE  s[i] \in S
  OBVIOUS

(* A non-empty sequence over S has its last element in S, and dropping that *)
(* element leaves a sequence over S.                                        *)
LEMMA SeqLast ==
  ASSUME NEW S, NEW s \in Seq(S), s # <<>>
  PROVE  s[Len(s)] \in S /\ SubSeq(s, 1, Len(s) - 1) \in Seq(S)
<1>1. Len(s) \in Nat \ {0}
  BY EmptySeq
<1>2. s[Len(s)] \in S
  BY <1>1
<1>3. SubSeq(s, 1, Len(s) - 1) \in Seq(S)
  BY <1>1, SubSeqProperties
<1> QED  BY <1>2, <1>3

(* What the assumptions on the constants say of the current request: pool   *)
(* quantities are naturals (register_pool_entry reads them from UTXOs), and *)
(* the processors are tokens.                                               *)
LEMMA RequestFacts ==
  ASSUME TypeOK
  PROVE  /\ Ada \in Procs
         /\ Procs \subseteq Tokens
         /\ Tokens \subseteq Nat
         /\ Tokens = 1 .. Ada
         /\ Ada \in Nat
         /\ \A e \in Entries : \A p \in Procs : Quantity(e, p) \in Nat
         /\ \A p \in Procs : Minimum(p) \in Nat
         /\ \A e \in Entries : TierOf(e) \in Tiers
<1>1. Ada \in Nat /\ Tokens = 1 .. Ada /\ Assets \subseteq Tokens
  BY ValuesAssumption DEF Ada, Tokens, Assets
<1>2. Ada \in Procs /\ Procs \subseteq Tokens /\ Tokens \subseteq Nat
  <2>1. Ada \in Tokens /\ Tokens \subseteq Nat
    BY ValuesAssumption DEF Ada, Tokens
  <2>2. Ada \in Procs /\ Procs \subseteq Tokens
    BY <1>1, <2>1 DEF Procs
  <2> QED  BY <2>1, <2>2
<1>3. req \in Requests
  BY DEF TypeOK
<1>4. \A e \in Entries : \A p \in Procs : Quantity(e, p) \in Nat
  <2> SUFFICES ASSUME NEW e \in Entries, NEW p \in Procs
               PROVE  Quantity(e, p) \in Nat
    OBVIOUS
  <2>1. req.pool \in Seq([id : Nat, val : Bundle])
    BY <1>3, RequestsAssumption
  <2>2. req.pool[e] \in [id : Nat, val : Bundle]
    BY <2>1, SeqElement, Zenon DEF Entries
  <2>3. req.pool[e].val \in [Tokens -> Nat]
    BY <2>2 DEF Bundle
  <2> QED
    BY <1>2, <2>3 DEF Quantity
<1>5. \A p \in Procs : Minimum(p) \in Nat
  BY <1>2, <1>3, RequestsAssumption DEF Minimum, Value
<1>6. \A e \in Entries : TierOf(e) \in Tiers
  BY DEF TierOf, Tiers
<1> QED
  BY <1>1, <1>2, <1>4, <1>5, <1>6

(* Every step keeps the request, and with it the pool and the processors. *)
LEMMA RequestFixed ==
  ASSUME [Next]_vars
  PROVE  /\ req' = req
         /\ Entries' = Entries
         /\ Procs' = Procs
<1>1. req' = req
  BY DEF Next, SelectionStep, PreSelect, StartRobin, DrawStale, DrawFresh,
         DrawUnrecorded, NextTier, SkipProcessor, StartTurn, KeepPick, UndoPick,
         NothingToPick, EndPass, FailSelection, EnsureInput, CollectSelection,
         NoInput, MakeChange, RetryWithMoreAda, NoMoreAda, Terminated, vars
<1> QED
  BY <1>1 DEF Entries, Procs

(* What the proofs about a single step use of the request. *)
LEMMA StepFacts ==
  ASSUME TypeOK, [Next]_vars
  PROVE  /\ Ada \in Nat
         /\ Ada \in Procs
         /\ Procs \subseteq 1 .. Ada
         /\ Tokens = 1 .. Ada
         /\ \A e \in Entries : \A p \in Procs : Quantity(e, p) \in Nat
         /\ req' = req /\ Entries' = Entries /\ Procs' = Procs
         /\ AllocMayFail' = AllocMayFail
  BY RequestFacts, RequestFixed DEF AllocMayFail

(* The control state keeps its type: a turn, a pick and their returns leave *)
(* proc at a processor whenever index_pick uses it.                         *)
LEMMA DriverStep ==
  ASSUME TypeOK, [Next]_vars
  PROVE  DriverOK'
<1>a. /\ Ada \in Nat /\ Ada \in Procs /\ Procs \subseteq 1 .. Ada /\ Tokens = 1 .. Ada
      /\ Procs' = Procs
  BY StepFacts
<1>b. DriverOK /\ active \subseteq Procs /\ total \in [Procs -> Int]
  BY DEF TypeOK, IndexOK
<1> USE <1>a, <1>b DEF DriverOK, Tiers
<1>1. CASE \E e \in Entries : PreSelect(e)
  BY <1>1 DEF PreSelect, driver
<1>2. CASE StartRobin
  BY <1>2 DEF StartRobin, driver
<1>3. CASE \E e \in Entries : DrawStale(e)
  BY <1>3 DEF DrawStale, driver
<1>4. CASE \E e \in Entries : DrawFresh(e)
  BY <1>4 DEF DrawFresh, driver
<1>5. CASE \E e \in Entries : DrawUnrecorded(e)
  BY <1>5 DEF DrawUnrecorded, driver
<1>6. CASE NextTier
  BY <1>6 DEF NextTier, driver
<1>7. CASE SkipProcessor
  BY <1>7 DEF SkipProcessor, driver
<1>8. CASE StartTurn
  BY <1>8 DEF StartTurn, CallPick, driver
<1>9. CASE KeepPick
  BY <1>9 DEF KeepPick, EndTurn, driver
<1>10. CASE UndoPick
  BY <1>10 DEF UndoPick, EndTurn, driver
<1>11. CASE NothingToPick
  BY <1>11 DEF NothingToPick, EndTurn, driver
<1>12. CASE EndPass
  <2>1. pc' \in {"robin", "check"} /\ proc' = 1 /\ progress' = FALSE
    BY <1>12, Zenon DEF EndPass
  <2>2. tier' = tier /\ caller' = caller /\ before' = before
    BY <1>12 DEF EndPass
  <2>3. /\ pc' \in {"preselect", "robin", "draw", "picked", "nopick", "check", "change",
                  "done", "failed"}
        /\ proc' \in 1 .. (Ada + 1)
        /\ pc' \notin {"draw", "picked", "nopick"}
    BY <2>1
  <2>4. progress' \in BOOLEAN
    BY <2>1
  <2> QED
    BY <2>2, <2>3, <2>4
<1>13. CASE FailSelection
  BY <1>13 DEF FailSelection, driver
<1>14. CASE EnsureInput
  BY <1>14 DEF EnsureInput, CallPick, driver
<1>15. CASE CollectSelection
  BY <1>15 DEF CollectSelection, driver
<1>16. CASE NoInput
  BY <1>16 DEF NoInput, driver
<1>17. CASE RetryWithMoreAda
  BY <1>17 DEF RetryWithMoreAda, driver
<1>18. CASE NoMoreAda
  BY <1>18 DEF NoMoreAda, driver
<1>19. CASE MakeChange
  BY <1>19 DEF MakeChange, CallPick, driver
<1>20. CASE Terminated
  BY <1>20 DEF Terminated, driver, vars
<1>21. CASE UNCHANGED vars
  BY <1>21 DEF vars, driver
<1> QED
  BY <1>1, <1>2, <1>3, <1>4, <1>5, <1>6, <1>7, <1>8, <1>9, <1>10, <1>11, <1>12, <1>13, <1>14, <1>15, <1>16, <1>17, <1>18, <1>19, <1>20, <1>21 DEF Next, SelectionStep

(* The index keeps its type.  An undo needs a pick to undo: PickUndoable. *)
LEMMA IndexStep ==
  ASSUME TypeOK, PickUndoable, [Next]_vars
  PROVE  IndexOK'
<1>a. /\ \A e \in Entries : \A p \in Procs : Quantity(e, p) \in Nat
      /\ Entries' = Entries /\ Procs' = Procs
  BY StepFacts
<1>b. IndexOK
  BY DEF TypeOK
<1>c. pc \in {"draw", "picked", "nopick"} => proc \in Procs
  BY DEF TypeOK, DriverOK
<1>d. tier \in Tiers
  BY DEF TypeOK, DriverOK
<1>e. ASSUME UNCHANGED index
      PROVE  IndexOK'
  BY <1>a, <1>b, <1>e DEF index, IndexOK
<1>f. ASSUME NEW e \in Entries, NEW sign \in {1, -1}
      PROVE  apply_to_totals(e, sign) \in [Procs -> Int]
  BY <1>a, <1>b, <1>f DEF apply_to_totals, IndexOK
<1>g. ASSUME NEW p \in Procs, NEW t \in Tiers, NEW e \in Entries
      PROVE  /\ Drop(buckets, p, t, e) \in [Procs -> [Tiers -> [Entries -> Int]]]
             /\ Append1(buckets, p, t, e) \in [Procs -> [Tiers -> [Entries -> Int]]]
  BY <1>b DEF IndexOK, Drop, Append1
<1>1. ASSUME NEW e \in Entries, PreSelect(e) PROVE IndexOK'
  BY <1>a, <1>b, <1>f, <1>1 DEF PreSelect, IndexOK
<1>2. ASSUME NEW e \in Entries, DrawStale(e) PROVE IndexOK'
  BY <1>a, <1>b, <1>c, <1>d, <1>g, <1>2 DEF DrawStale, IndexOK
<1>3. ASSUME NEW e \in Entries, DrawFresh(e) PROVE IndexOK'
  <2>1. proc \in Procs
    BY <1>c, <1>3 DEF DrawFresh
  <2>2. picks' \in Seq([entry : Entries, proc : Procs, tier : Tiers])
    BY <1>b, <1>d, <1>3, <2>1 DEF DrawFresh, IndexOK
  <2>3. buckets' \in [Procs -> [Tiers -> [Entries -> Int]]]
    BY <1>d, <1>g, <1>3, <2>1 DEF DrawFresh
  <2>4. total' \in [Procs -> Int]
    BY <1>f, <1>3 DEF DrawFresh
  <2>5. pickCap' \in Nat /\ selected' \subseteq Entries /\ active' \subseteq Procs
    BY <1>b, <1>3 DEF DrawFresh, IndexOK
  <2> QED
    BY <1>a, <2>2, <2>3, <2>4, <2>5 DEF IndexOK
<1>4. ASSUME NEW e \in Entries, DrawUnrecorded(e) PROVE IndexOK'
  BY <1>a, <1>b, <1>c, <1>d, <1>g, <1>4 DEF DrawUnrecorded, IndexOK
<1>5. CASE KeepPick \/ NothingToPick
  BY <1>a, <1>b, <1>5 DEF KeepPick, NothingToPick, EndTurn, IndexOK
<1>6. CASE UndoPick
  <2>1. /\ picks # <<>>
        /\ LastPick \in [entry : Entries, proc : Procs, tier : Tiers]
    <3>1. picks # <<>> /\ picks \in Seq([entry : Entries, proc : Procs, tier : Tiers])
      BY <1>b, <1>6 DEF UndoPick, PickUndoable, IndexOK
    <3> QED  BY <3>1, SeqLast, Zenon DEF LastPick
  <2>2. picks' \in Seq([entry : Entries, proc : Procs, tier : Tiers])
    <3>1. picks \in Seq([entry : Entries, proc : Procs, tier : Tiers])
      BY <1>b DEF IndexOK
    <3>2. picks' = SubSeq(picks, 1, Len(picks) - 1)
      BY <1>6 DEF UndoPick, undo_last_pick
    <3> QED  BY <2>1, <3>1, <3>2, SeqLast, Zenon
  <2>3. buckets' \in [Procs -> [Tiers -> [Entries -> Int]]]
    BY <1>g, <1>6, <2>1 DEF UndoPick, undo_last_pick, LastPick
  <2>4. total' \in [Procs -> Int]
    BY <1>f, <1>6, <2>1 DEF UndoPick, undo_last_pick, LastPick
  <2>5. pickCap' \in Nat /\ selected' \subseteq Entries /\ active' \subseteq Procs
    BY <1>b, <1>6 DEF UndoPick, undo_last_pick, EndTurn, IndexOK
  <2> QED
    BY <1>a, <2>2, <2>3, <2>4, <2>5 DEF IndexOK
<1>7. CASE \/ StartRobin \/ NextTier \/ SkipProcessor \/ StartTurn \/ EndPass
           \/ FailSelection \/ EnsureInput \/ CollectSelection \/ NoInput
           \/ RetryWithMoreAda \/ NoMoreAda \/ MakeChange \/ Terminated
           \/ UNCHANGED vars
  BY <1>e, <1>7 DEF StartRobin, NextTier, SkipProcessor, StartTurn, EndPass,
         FailSelection, EnsureInput, CollectSelection, NoInput, RetryWithMoreAda,
         NoMoreAda, MakeChange, Terminated, vars
<1> QED
  BY <1>1, <1>2, <1>3, <1>4, <1>5, <1>6, <1>7 DEF Next, SelectionStep

(* How one removal from or one addition to a bucket changes the buckets. *)
LEMMA BucketUpdate ==
  ASSUME TypeOK, NEW p \in Procs, NEW t \in Tiers, NEW e \in Entries,
         NEW q \in Procs, NEW u \in Tiers, NEW f \in Entries
  PROVE  /\ Drop(buckets, p, t, e)[q][u][f] =
              IF q = p /\ u = t /\ f = e THEN buckets[p][t][e] - 1 ELSE buckets[q][u][f]
         /\ Append1(buckets, p, t, e)[q][u][f] =
              IF q = p /\ u = t /\ f = e THEN buckets[p][t][e] + 1 ELSE buckets[q][u][f]
  BY DEF TypeOK, IndexOK, Drop, Append1

(* Derived attributes of entries and processors do not change in a step. *)
LEMMA AttributesFixed ==
  ASSUME [Next]_vars
  PROVE  /\ \A e, p : Quantity(e, p)' = Quantity(e, p)
         /\ \A p : Minimum(p)' = Minimum(p)
         /\ \A p, t, e : Registered(p, t, e)' = Registered(p, t, e)
<1>1. req' = req
  BY RequestFixed
<1>2. \A e : TierOf(e)' = TierOf(e)
  BY <1>1 DEF TierOf, TokensOf
<1>3. \A e, p : Quantity(e, p)' = Quantity(e, p)
  BY <1>1 DEF Quantity
<1>4. \A p, t, e : Registered(p, t, e)' = Registered(p, t, e)
  BY <1>2, <1>3 DEF Registered
<1>5. \A p : Minimum(p)' = Minimum(p)
  BY <1>1 DEF Minimum
<1> QED
  BY <1>3, <1>4, <1>5

(* The steps that touch the index; every other step leaves it alone, up to *)
(* the set of active processors.                                           *)
LEMMA IndexCases ==
  ASSUME [Next]_vars
  PROVE  \/ \E e \in Entries : PreSelect(e) \/ DrawStale(e) \/ DrawFresh(e) \/ DrawUnrecorded(e)
         \/ UndoPick
         \/ UNCHANGED <<selected, total, buckets, picks>>
  BY DEF Next, SelectionStep, StartRobin, NextTier, SkipProcessor, StartTurn, KeepPick,
         NothingToPick, EndTurn, EndPass, FailSelection, EnsureInput, CollectSelection,
         NoInput, MakeChange, RetryWithMoreAda, NoMoreAda, Terminated, vars, index

(* An undo takes back the most recent pick from the current bucket. *)
LEMMA UndoFacts ==
  ASSUME TypeOK, PickUndoable, UndoPick
  PROVE  /\ proc \in Procs /\ tier \in Tiers
         /\ LastPick.entry \in Entries
         /\ LastPick.entry \in selected
         /\ selected' = selected \ {LastPick.entry}
         /\ buckets' = Append1(buckets, proc, tier, LastPick.entry)
         /\ \A p \in Procs : total'[p] = total[p] - Quantity(LastPick.entry, p)
<1>1. pc = "picked" /\ proc \in Procs /\ tier \in Tiers
  BY DEF UndoPick, TypeOK, DriverOK
<1>2. LastPick.proc = proc /\ LastPick.tier = tier /\ LastPick.entry \in selected
  BY <1>1 DEF PickUndoable
<1>3. LastPick.entry \in Entries
  BY <1>2 DEF TypeOK, IndexOK
<1>4. /\ selected' = selected \ {LastPick.entry}
      /\ buckets' = Append1(buckets, proc, tier, LastPick.entry)
      /\ total' = apply_to_totals(LastPick.entry, -1)
  BY <1>2 DEF UndoPick, undo_last_pick, LastPick
<1>5. \A p \in Procs : Quantity(LastPick.entry, p) \in Nat /\ total[p] \in Int
  BY <1>3, RequestFacts DEF TypeOK, IndexOK
<1>6. \A p \in Procs : total'[p] = total[p] - Quantity(LastPick.entry, p)
  BY <1>4, <1>5 DEF apply_to_totals
<1> QED
  BY <1>1, <1>2, <1>3, <1>4, <1>6

(* A draw removes the only copy of the entry from the current bucket. *)
LEMMA DrawFacts ==
  ASSUME TypeOK, BucketSound, NEW d \in Entries,
         DrawStale(d) \/ DrawFresh(d) \/ DrawUnrecorded(d)
  PROVE  /\ pc = "draw" /\ proc \in Procs /\ tier \in Tiers
         /\ buckets[proc][tier][d] = 1
         /\ Registered(proc, tier, d)
         /\ \A q \in Procs, u \in Tiers, f \in Entries :
              buckets'[q][u][f] = IF q = proc /\ u = tier /\ f = d THEN 0
                                  ELSE buckets[q][u][f]
<1>1. /\ pc = "draw" /\ InBucket(d) /\ buckets' = Drop(buckets, proc, tier, d)
  BY DEF DrawStale, DrawFresh, DrawUnrecorded
<1>2. proc \in Procs /\ tier \in Tiers
  BY <1>1 DEF TypeOK, DriverOK
<1>3. buckets[proc][tier][d] = 1 /\ Registered(proc, tier, d)
  BY <1>1, <1>2 DEF BucketSound, InBucket
<1>4. ASSUME NEW q \in Procs, NEW u \in Tiers, NEW f \in Entries
      PROVE  buckets'[q][u][f] = IF q = proc /\ u = tier /\ f = d THEN 0
                                 ELSE buckets[q][u][f]
  BY <1>1, <1>2, <1>3, BucketUpdate
<1> QED
  BY <1>1, <1>2, <1>3, <1>4

(* Buckets never hold an entry twice nor where it is not registered. *)
LEMMA BucketSoundStep ==
  ASSUME TypeOK, BucketSound, PickUndoable, [Next]_vars
  PROVE  BucketSound'
<1>a. Entries' = Entries /\ Procs' = Procs
  BY StepFacts
<1> SUFFICES ASSUME NEW p \in Procs, NEW t \in Tiers, NEW e \in Entries
             PROVE  \/ buckets'[p][t][e] = 0
                    \/ buckets'[p][t][e] = 1 /\ Registered(p, t, e)
  BY <1>a, AttributesFixed DEF BucketSound
<1>b. \/ buckets[p][t][e] = 0
      \/ buckets[p][t][e] = 1 /\ Registered(p, t, e)
  BY DEF BucketSound
<1>1. ASSUME NEW d \in Entries, DrawStale(d) \/ DrawFresh(d) \/ DrawUnrecorded(d)
      PROVE  \/ buckets'[p][t][e] = 0
             \/ buckets'[p][t][e] = 1 /\ Registered(p, t, e)
  BY <1>b, <1>1, DrawFacts
<1>2. CASE UndoPick
  <2>1. /\ buckets[proc][tier][LastPick.entry] = 0
        /\ Registered(proc, tier, LastPick.entry)
    BY <1>2 DEF PickUndoable, UndoPick
  <2>2. /\ proc \in Procs /\ tier \in Tiers /\ LastPick.entry \in Entries
        /\ buckets' = Append1(buckets, proc, tier, LastPick.entry)
    BY <1>2, UndoFacts
  <2>3. buckets'[p][t][e] = IF p = proc /\ t = tier /\ e = LastPick.entry
                            THEN 1 ELSE buckets[p][t][e]
    BY <2>1, <2>2, BucketUpdate
  <2> QED
    BY <1>b, <2>1, <2>3
<1>3. ASSUME NEW d \in Entries, PreSelect(d)
      PROVE  buckets' = buckets
  BY <1>3 DEF PreSelect
<1>4. CASE UNCHANGED <<selected, total, buckets, picks>>
  BY <1>b, <1>4
<1> QED
  BY <1>b, <1>1, <1>2, <1>3, <1>4, IndexCases

(* Free entries stay in all their buckets, undone ones return to them. *)
LEMMA FreeListedStep ==
  ASSUME TypeOK, BucketSound, FreeListed, PickUndoable, [Next]_vars
  PROVE  FreeListed'
<1>a. Entries' = Entries /\ Procs' = Procs /\ AllocMayFail' = AllocMayFail
  BY StepFacts
<1> SUFFICES ASSUME ~AllocMayFail,
                    NEW p \in Procs, NEW t \in Tiers, NEW e \in Entries,
                    e \notin selected', Registered(p, t, e)
             PROVE  buckets'[p][t][e] = 1
  BY <1>a, AttributesFixed DEF FreeListed
<1>b. e \notin selected => buckets[p][t][e] = 1
  BY DEF FreeListed
<1>1. ASSUME NEW d \in Entries, DrawStale(d) \/ DrawFresh(d) \/ DrawUnrecorded(d)
      PROVE  buckets'[p][t][e] = 1
  <2>1. e # d /\ e \notin selected
    BY <1>1 DEF DrawStale, DrawFresh, DrawUnrecorded
  <2> QED
    BY <1>b, <1>1, <2>1, DrawFacts
<1>2. CASE UndoPick
  <2>1. /\ buckets[proc][tier][LastPick.entry] = 0
        /\ \A q \in Procs, u \in Tiers :
             Registered(q, u, LastPick.entry) /\ (q # proc \/ u # tier)
               => buckets[q][u][LastPick.entry] = 1
    BY <1>2 DEF PickUndoable, UndoPick
  <2>2. /\ proc \in Procs /\ tier \in Tiers /\ LastPick.entry \in Entries
        /\ selected' = selected \ {LastPick.entry}
        /\ buckets' = Append1(buckets, proc, tier, LastPick.entry)
    BY <1>2, UndoFacts
  <2>3. buckets'[p][t][e] = IF p = proc /\ t = tier /\ e = LastPick.entry
                            THEN 1 ELSE buckets[p][t][e]
    BY <2>1, <2>2, BucketUpdate
  <2>4. e \notin selected \/ e = LastPick.entry
    BY <2>2
  <2> QED
    BY <1>b, <2>1, <2>3, <2>4
<1>3. ASSUME NEW d \in Entries, PreSelect(d)
      PROVE  buckets' = buckets /\ e \notin selected
  BY <1>3 DEF PreSelect
<1>4. CASE UNCHANGED <<selected, total, buckets, picks>>
  BY <1>b, <1>4
<1> QED
  BY <1>b, <1>1, <1>2, <1>3, <1>4, IndexCases


(* index_pick leaves the tiers it went through empty. *)
LEMMA DrawnEmptyStep ==
  ASSUME TypeOK, BucketSound, DrawnEmpty, [Next]_vars
  PROVE  DrawnEmpty'
<1>a. Entries' = Entries /\ Procs' = Procs /\ AllocMayFail' = AllocMayFail
  BY StepFacts
<1>b. tier \in 0 .. 2 /\ (pc = "draw" => proc \in Procs)
  BY DEF TypeOK, DriverOK, Tiers
<1>1. ASSUME NEW d \in Entries, DrawStale(d)
      PROVE  DrawnEmpty'
  <2>1. pc' = "draw" /\ pc = "draw" /\ proc' = proc /\ tier' = tier
    BY <1>1 DEF DrawStale, driver
  <2>2. \A t \in Tiers, e \in Entries : t < tier => buckets'[proc][t][e] = 0
    BY <1>b, <1>1, <2>1, DrawFacts DEF DrawnEmpty
  <2> QED
    BY <1>a, <2>1, <2>2 DEF DrawnEmpty
<1>2. ASSUME NEW d \in Entries, DrawFresh(d)
      PROVE  DrawnEmpty'
  BY <1>2 DEF DrawFresh, DrawnEmpty
<1>3. ASSUME NEW d \in Entries, DrawUnrecorded(d)
      PROVE  DrawnEmpty'
  BY <1>3, <1>a DEF DrawUnrecorded, DrawnEmpty
<1>4. CASE NextTier
  <2>1. pc = "draw" /\ proc' = proc /\ buckets' = buckets
    BY <1>4 DEF NextTier, index
  <2>2. \A e \in Entries : buckets[proc][tier][e] = 0
    BY <1>4, <1>b, <2>1 DEF NextTier, InBucket, BucketSound, Tiers
  <2>3. \A t \in Tiers, e \in Entries : t <= tier => buckets'[proc'][t][e] = 0
    BY <1>b, <2>1, <2>2 DEF DrawnEmpty, Tiers
  <2>4. \/ tier < 2 /\ tier' = tier + 1 /\ pc' = "draw"
        \/ tier = 2 /\ pc' = "nopick"
    BY <1>4, <1>b, <2>1 DEF NextTier
  <2> QED
    BY <1>a, <1>b, <2>3, <2>4 DEF DrawnEmpty, Tiers
<1>5. CASE StartTurn \/ EnsureInput \/ MakeChange
  <2>1. (pc' = "draw" /\ tier' = 0) \/ pc' = "done"
    BY <1>5 DEF StartTurn, EnsureInput, MakeChange, CallPick
  <2> QED
    BY <2>1 DEF DrawnEmpty, Tiers
<1>6. CASE \/ \E e \in Entries : PreSelect(e)
           \/ StartRobin \/ SkipProcessor \/ KeepPick \/ UndoPick \/ NothingToPick
           \/ EndPass \/ FailSelection \/ CollectSelection \/ NoInput
           \/ RetryWithMoreAda \/ NoMoreAda \/ Terminated
  <2>1. pc' \notin {"draw", "nopick"}
    BY <1>6 DEF PreSelect, StartRobin, SkipProcessor, KeepPick, UndoPick, NothingToPick,
       EndTurn, EndPass, FailSelection, CollectSelection, NoInput, RetryWithMoreAda,
       NoMoreAda, Terminated, driver, vars
  <2> QED
    BY <2>1 DEF DrawnEmpty
<1>7. CASE UNCHANGED vars
  BY <1>7, <1>a DEF vars, index, driver, DrawnEmpty
<1> QED
  BY <1>1, <1>2, <1>3, <1>4, <1>5, <1>6, <1>7 DEF Next, SelectionStep

(* What recording a fresh draw does to the picks and the totals. *)
LEMMA FreshFacts ==
  ASSUME TypeOK, NEW d \in Entries, DrawFresh(d)
  PROVE  /\ picks' # <<>>
         /\ picks'[Len(picks')] = [entry |-> d, proc |-> proc, tier |-> tier]
         /\ \A p \in Procs : total'[p] = total[p] + Quantity(d, p)
<1>1. picks \in Seq([entry : Entries, proc : Procs, tier : Tiers])
  BY DEF TypeOK, IndexOK
<1>2. picks' = Append(picks, [entry |-> d, proc |-> proc, tier |-> tier])
  BY DEF DrawFresh
<1>3. Len(picks') = Len(picks) + 1 /\ Len(picks) \in Nat
  BY <1>1, <1>2
<1>4. picks'[Len(picks')] = [entry |-> d, proc |-> proc, tier |-> tier]
  BY <1>1, <1>2, <1>3
<1>5. picks' # <<>>
  BY <1>1, <1>2
<1>6. \A p \in Procs : Quantity(d, p) \in Nat /\ total[p] \in Int
  BY RequestFacts DEF TypeOK, IndexOK
<1>7. \A p \in Procs : total'[p] = total[p] + Quantity(d, p)
  BY <1>6 DEF DrawFresh, apply_to_totals
<1> QED
  BY <1>4, <1>5, <1>7

(* Only a fresh draw makes a pick that may be undone. *)
LEMMA PickedOnlyByDraw ==
  ASSUME [Next]_vars, pc' = "picked", ~UNCHANGED vars
  PROVE  \E d \in Entries : DrawFresh(d)
  BY DEF Next, SelectionStep, PreSelect, StartRobin, DrawStale, DrawUnrecorded, NextTier,
     SkipProcessor, StartTurn, CallPick, KeepPick, UndoPick, NothingToPick, EndTurn,
     EndPass, FailSelection, EnsureInput, CollectSelection, NoInput, MakeChange,
     RetryWithMoreAda, NoMoreAda, Terminated, driver, vars

(* A pick that was just made can be undone exactly. *)
LEMMA PickUndoableStep ==
  ASSUME TypeOK, BucketSound, FreeListed, PickUndoable, [Next]_vars
  PROVE  PickUndoable'
<1>a. Entries' = Entries /\ Procs' = Procs /\ AllocMayFail' = AllocMayFail
  BY StepFacts
<1>1. ASSUME NEW d \in Entries, DrawFresh(d)
      PROVE  PickUndoable'
  <2>1. /\ proc' = proc /\ tier' = tier /\ d \notin selected /\ d \in selected'
    BY <1>1 DEF DrawFresh
  <2>2. /\ picks' # <<>>
        /\ picks'[Len(picks')] = [entry |-> d, proc |-> proc, tier |-> tier]
    BY <1>1, FreshFacts
  <2>3. LastPick' = [entry |-> d, proc |-> proc, tier |-> tier]
    BY <2>2 DEF LastPick
  <2>4. /\ proc \in Procs /\ tier \in Tiers
        /\ Registered(proc, tier, d)
        /\ \A q \in Procs, u \in Tiers, f \in Entries :
             buckets'[q][u][f] = IF q = proc /\ u = tier /\ f = d THEN 0
                                 ELSE buckets[q][u][f]
    BY <1>1, DrawFacts
  <2>5. buckets'[proc][tier][d] = 0
    BY <2>4
  <2>6. ~AllocMayFail =>
          \A p \in Procs, t \in Tiers :
            Registered(p, t, d) /\ (p # proc \/ t # tier) => buckets'[p][t][d] = 1
    BY <2>1, <2>4 DEF FreeListed
  <2>7. LastPick'.entry = d /\ LastPick'.proc = proc /\ LastPick'.tier = tier
    BY <2>3
  <2>8. \A p, t, e : Registered(p, t, e)' = Registered(p, t, e)
    BY AttributesFixed
  <2>9. Registered(proc, tier, LastPick.entry)' = Registered(proc, tier, d)
    BY <2>1, <2>7, <2>8
  <2>10. \A p, t : Registered(p, t, LastPick.entry)' = Registered(p, t, d)
    BY <2>1, <2>7, <2>8
  <2> QED
    BY <1>a, <2>1, <2>2, <2>4, <2>5, <2>6, <2>7, <2>9, <2>10 DEF PickUndoable
<1>2. CASE UNCHANGED vars
  <2>1. \A p, t, e : Registered(p, t, e)' = Registered(p, t, e)
    BY AttributesFixed
  <2>2. LastPick' = LastPick
    BY <1>2 DEF vars, index, LastPick
  <2>3. \A p, t : Registered(p, t, LastPick.entry)' = Registered(p, t, LastPick.entry)
    BY <2>1, <2>2
  <2>4. Registered(proc, tier, LastPick.entry)' = Registered(proc, tier, LastPick.entry)
    BY <1>2, <2>1, <2>2 DEF vars, driver
  <2> QED
    BY <1>2, <1>a, <2>2, <2>3, <2>4 DEF vars, index, driver, PickUndoable
<1>3. CASE pc' # "picked"
  BY <1>3 DEF PickUndoable
<1> QED
  BY <1>1, <1>2, <1>3, PickedOnlyByDraw


(* A step that leaves selected, total and active alone, and makes no pick, *)
(* keeps InactiveDone.                                                     *)
LEMMA InactiveKept ==
  ASSUME TypeOK, InactiveDone, [Next]_vars,
         selected' = selected, total' = total, active' = active,
         pc' # "picked" \/ (pc' = pc /\ picks' = picks)
  PROVE  InactiveDone'
<1>a. Entries' = Entries /\ Procs' = Procs /\ AllocMayFail' = AllocMayFail
  BY StepFacts
<1>b. /\ \A e, p : Quantity(e, p)' = Quantity(e, p)
      /\ \A p : Minimum(p)' = Minimum(p)
  BY AttributesFixed
<1>1. \A p : Short(p)' = Short(p)
  BY <1>b DEF Short
<1>2. \A p : Exhausted(p, selected)' = Exhausted(p, selected)
  BY <1>a, <1>b DEF Exhausted
<1>3. CASE pc' # "picked"
  BY <1>1, <1>2, <1>3, <1>a DEF InactiveDone
<1>4. CASE pc' = pc /\ picks' = picks
  <2>1. LastPick' = LastPick
    BY <1>4 DEF LastPick
  <2>2. \A p : /\ Quantity(LastPick.entry, p)' = Quantity(LastPick.entry, p)
               /\ Exhausted(p, selected \ {LastPick.entry})'
                    = Exhausted(p, selected \ {LastPick.entry})
    BY <2>1, <1>a, <1>b DEF Exhausted
  <2> QED
    BY <1>1, <1>2, <1>4, <1>a, <1>b, <2>2 DEF InactiveDone
<1> QED
  BY <1>3, <1>4

(* A processor leaves the round robin above its minimum or with its token *)
(* used up, and no later pick or undo changes that.                       *)
LEMMA InactiveStep ==
  ASSUME TypeOK, BucketSound, FreeListed, DrawnEmpty, PickUndoable, InactiveDone,
         BeforeExact, PassInv, [Next]_vars
  PROVE  InactiveDone'
<1>a. /\ Entries' = Entries /\ Procs' = Procs /\ AllocMayFail' = AllocMayFail
      /\ \A e \in Entries : \A p \in Procs : Quantity(e, p) \in Nat
      /\ \A p \in Procs : Minimum(p) \in Nat /\ total[p] \in Int
  BY StepFacts, RequestFacts DEF TypeOK, IndexOK
<1>b. /\ \A e, p : Quantity(e, p)' = Quantity(e, p)
      /\ \A p : Minimum(p)' = Minimum(p)
  BY AttributesFixed
<1>c. \A p, s : (\A e \in Entries : Quantity(e, p) > 0 => e \in s) => Exhausted(p, s)
  BY DEF Exhausted
<1>d. \A p : Exhausted(p, selected)' <=> Exhausted(p, selected')
  BY <1>a, <1>b DEF Exhausted
<1>1. ASSUME NEW e \in Entries, PreSelect(e)
      PROVE  InactiveDone'
  <2>1. active' = Procs' /\ pc' = "preselect"
    BY <1>1, <1>a DEF PreSelect, PassInv, driver
  <2> QED
    BY <2>1 DEF InactiveDone
<1>2. ASSUME NEW d \in Entries, DrawFresh(d)
      PROVE  InactiveDone'
  <2>1. /\ d \notin selected /\ selected' = selected \cup {d} /\ active' = active
        /\ \A p \in Procs : total'[p] = total[p] + Quantity(d, p)
    BY <1>2, FreshFacts DEF DrawFresh
  <2>2. LastPick'.entry = d
    <3>1. picks'[Len(picks')] = [entry |-> d, proc |-> proc, tier |-> tier]
      BY <1>2, FreshFacts
    <3> QED  BY <3>1 DEF LastPick
  <2>3. ASSUME ~AllocMayFail, NEW p \in Procs \ active, total[p] < Minimum(p)
        PROVE  Exhausted(p, selected)
    BY <2>3 DEF InactiveDone, Short
  <2>4. ASSUME ~AllocMayFail, NEW p \in Procs \ active, Short(p)'
        PROVE  Exhausted(p, selected)'
    <3>1. total[p] < Minimum(p)
      BY <1>a, <1>b, <2>1, <2>4 DEF Short
    <3>2. Exhausted(p, selected')
      BY <2>1, <2>3, <2>4, <3>1 DEF Exhausted
    <3> QED  BY <1>d, <3>2
  <2>5. ASSUME ~AllocMayFail, NEW p \in Procs \ active,
               (total[p] - Quantity(LastPick.entry, p) < Minimum(p))'
        PROVE  Exhausted(p, selected \ {LastPick.entry})'
    <3>1. total'[p] - Quantity(d, p) < Minimum(p)
      BY <1>b, <2>2, <2>5
    <3>2. total[p] < Minimum(p)
      BY <1>a, <2>1, <3>1
    <3>3. (selected \ {LastPick.entry})' = selected
      BY <2>1, <2>2
    <3>4. Exhausted(p, selected)
      BY <2>3, <2>5, <3>2
    <3> QED  BY <1>a, <1>b, <3>3, <3>4 DEF Exhausted
  <2> QED
    BY <1>a, <2>1, <2>4, <2>5 DEF InactiveDone
<1>3. CASE UndoPick
  <2>1. /\ pc = "picked" /\ caller = "robin" /\ ~Improves /\ pc' = "robin"
        /\ active' = active \ {proc}
    BY <1>3 DEF UndoPick, EndTurn
  <2>2. /\ proc \in Procs
        /\ selected' = selected \ {LastPick.entry}
        /\ LastPick.entry \in Entries
        /\ \A p \in Procs : total'[p] = total[p] - Quantity(LastPick.entry, p)
    BY <1>3, UndoFacts
  <2>3. before = total[proc] - Quantity(LastPick.entry, proc)
    BY <2>1 DEF BeforeExact
  <2>4. ~(total'[proc] < Minimum(proc))
    BY <2>1, <2>2, <2>3 DEF Improves
  <2>5. ASSUME ~AllocMayFail, NEW p \in Procs \ active', Short(p)'
        PROVE  Exhausted(p, selected)'
    <3>1. total'[p] < Minimum(p)
      BY <1>b, <2>5 DEF Short
    <3>2. p # proc
      BY <2>4, <3>1
    <3>3. p \in Procs \ active
      BY <2>1, <3>2
    <3>4. total[p] - Quantity(LastPick.entry, p) < Minimum(p)
      BY <2>2, <3>1
    <3>5. Exhausted(p, selected')
      BY <2>1, <2>2, <2>5, <3>3, <3>4 DEF InactiveDone
    <3> QED  BY <1>d, <3>5
  <2> QED
    BY <1>a, <2>1, <2>5 DEF InactiveDone
<1>4. CASE NothingToPick
  <2>1. /\ pc = "nopick" /\ pc' = "robin" /\ active' = active \ {proc}
        /\ selected' = selected /\ total' = total
    BY <1>4 DEF NothingToPick, EndTurn
  <2>2. proc \in Procs
    BY <2>1 DEF TypeOK, DriverOK
  <2>3. ~AllocMayFail => Exhausted(proc, selected)
    <3> SUFFICES ASSUME ~AllocMayFail, NEW e \in Entries, Quantity(e, proc) > 0
                 PROVE  e \in selected
      BY <1>c
    <3>1. 2 \in Tiers /\ Registered(proc, 2, e)
      BY DEF Registered, Tiers
    <3>2. buckets[proc][2][e] = 0
      BY <2>1, <3>1 DEF DrawnEmpty
    <3> QED
      BY <2>2, <3>1, <3>2 DEF FreeListed
  <2>4. ASSUME ~AllocMayFail, NEW p \in Procs \ active', Short(p)'
        PROVE  Exhausted(p, selected)'
    <3>1. Short(p)
      BY <1>b, <2>1, <2>4 DEF Short
    <3>2. Exhausted(p, selected)
      BY <2>1, <2>3, <2>4, <3>1 DEF InactiveDone
    <3> QED  BY <1>d, <2>1, <3>2
  <2> QED
    BY <1>a, <2>1, <2>4 DEF InactiveDone
<1>5. ASSUME \/ \E e \in Entries : DrawStale(e) \/ DrawUnrecorded(e)
             \/ StartRobin \/ NextTier \/ SkipProcessor \/ StartTurn \/ KeepPick \/ EndPass
             \/ FailSelection \/ EnsureInput \/ CollectSelection \/ NoInput
             \/ RetryWithMoreAda \/ NoMoreAda \/ MakeChange \/ Terminated
             \/ UNCHANGED vars
      PROVE  InactiveDone'
  <2>1. selected' = selected /\ total' = total /\ active' = active
    BY <1>5 DEF DrawStale, DrawUnrecorded, StartRobin, NextTier, SkipProcessor, StartTurn,
       KeepPick, EndTurn, EndPass, FailSelection, EnsureInput, CollectSelection, NoInput,
       RetryWithMoreAda, NoMoreAda, MakeChange, Terminated, vars, index
  <2>2. pc' # "picked" \/ (pc' = pc /\ picks' = picks)
    BY <1>5 DEF DrawStale, DrawUnrecorded, StartRobin, NextTier, SkipProcessor, StartTurn,
       CallPick, KeepPick, EndTurn, EndPass, FailSelection, EnsureInput, CollectSelection,
       NoInput, RetryWithMoreAda, NoMoreAda, MakeChange, Terminated, vars, index, driver
  <2> QED
    BY <2>1, <2>2, InactiveKept
<1> QED
  BY <1>1, <1>2, <1>3, <1>4, <1>5 DEF Next, SelectionStep


(* The remembered total stays what the turn began with. *)
LEMMA BeforeStep ==
  ASSUME TypeOK, BeforeExact, [Next]_vars
  PROVE  BeforeExact'
<1>a. /\ \A e \in Entries : \A p \in Procs : Quantity(e, p) \in Nat
      /\ \A p \in Procs : total[p] \in Int
      /\ pc = "draw" => proc \in Procs
  BY StepFacts DEF TypeOK, IndexOK, DriverOK
<1>b. \A e, p : Quantity(e, p)' = Quantity(e, p)
  BY AttributesFixed
<1>1. ASSUME NEW d \in Entries, DrawFresh(d)
      PROVE  BeforeExact'
  <2>1. /\ pc = "draw" /\ pc' = "picked" /\ proc' = proc /\ before' = before
        /\ caller' = caller
    BY <1>1 DEF DrawFresh
  <2>2. /\ \A p \in Procs : total'[p] = total[p] + Quantity(d, p)
        /\ picks'[Len(picks')] = [entry |-> d, proc |-> proc, tier |-> tier]
    BY <1>1, FreshFacts
  <2>3. LastPick'.entry = d
    BY <2>2 DEF LastPick
  <2>4. caller = "robin" => before = total[proc]
    BY <2>1 DEF BeforeExact
  <2>5. caller = "robin" => before = total'[proc] - Quantity(d, proc)
    BY <1>a, <2>1, <2>2, <2>4
  <2>6. Quantity(LastPick.entry, proc)' = Quantity(d, proc)
    BY <1>b, <2>1, <2>3
  <2> QED
    BY <2>1, <2>5, <2>6 DEF BeforeExact
<1>2. ASSUME NEW d \in Entries, DrawStale(d)
      PROVE  BeforeExact'
  BY <1>2 DEF DrawStale, driver, BeforeExact
<1>3. CASE NextTier
  BY <1>3 DEF NextTier, index, BeforeExact
<1>4. CASE StartTurn
  BY <1>4 DEF StartTurn, CallPick, index, BeforeExact
<1>5. CASE EnsureInput \/ MakeChange
  BY <1>5 DEF EnsureInput, MakeChange, CallPick, BeforeExact
<1>6. CASE \/ \E e \in Entries : PreSelect(e) \/ DrawUnrecorded(e)
           \/ StartRobin \/ SkipProcessor \/ KeepPick \/ UndoPick \/ NothingToPick
           \/ EndPass \/ FailSelection \/ CollectSelection \/ NoInput
           \/ RetryWithMoreAda \/ NoMoreAda \/ Terminated
  <2>1. pc' \notin {"draw", "picked"}
    BY <1>6 DEF PreSelect, DrawUnrecorded, StartRobin, SkipProcessor, KeepPick, UndoPick,
       NothingToPick, EndTurn, EndPass, FailSelection, CollectSelection, NoInput,
       RetryWithMoreAda, NoMoreAda, Terminated, driver, vars
  <2> QED
    BY <2>1 DEF BeforeExact
<1>7. CASE UNCHANGED vars
  <2>1. Quantity(LastPick.entry, proc)' = Quantity(LastPick.entry, proc)
    BY <1>7, <1>b DEF vars, index, driver, LastPick
  <2> QED
    BY <1>7, <2>1 DEF vars, index, driver, BeforeExact
<1> QED
  BY <1>1, <1>2, <1>3, <1>4, <1>5, <1>6, <1>7 DEF Next, SelectionStep

(* The part of PassInv about the pass under way, as one formula. *)
Passing == pc \in {"preselect", "robin"}
             \/ (pc \in {"draw", "picked", "nopick"} /\ caller = "robin")

(* A pass without progress deactivates the processors it went through; the *)
(* round robin ends with none active.                                      *)
LEMMA PassStep ==
  ASSUME TypeOK, PassInv, [Next]_vars
  PROVE  PassInv'
<1>a. /\ Ada \in Nat /\ Procs \subseteq 1 .. Ada /\ Tokens = 1 .. Ada
      /\ Procs' = Procs /\ active \subseteq Procs /\ proc \in 1 .. (Ada + 1)
  BY StepFacts DEF TypeOK, IndexOK, DriverOK
<1>b. Passing => (~progress => \A p \in active : proc <= p)
  BY DEF PassInv, Passing
<1>c. /\ pc = "preselect" => active = Procs
      /\ pc = "check" => active = {}
      /\ pc \in {"draw", "picked", "nopick"} /\ caller = "robin" => proc \in active
  BY DEF PassInv
<1>d. SUFFICES /\ Passing' => (~progress' => \A p \in active' : proc' <= p)
               /\ pc' = "preselect" => active' = Procs
               /\ pc' = "check" => active' = {}
               /\ pc' \in {"draw", "picked", "nopick"} /\ caller' = "robin" => proc' \in active'
  BY <1>a DEF PassInv, Passing
<1>1. CASE \E e \in Entries : PreSelect(e)
  BY <1>1, <1>b, <1>c DEF PreSelect, driver, Passing
<1>2. CASE StartRobin
  BY <1>2, <1>b DEF StartRobin, index, Passing
<1>3. CASE \E e \in Entries : DrawStale(e) \/ DrawFresh(e) \/ DrawUnrecorded(e)
  BY <1>3, <1>b, <1>c DEF DrawStale, DrawFresh, DrawUnrecorded, driver, Passing
<1>4. CASE NextTier
  BY <1>4, <1>b, <1>c DEF NextTier, index, Passing
<1>5. CASE SkipProcessor
  <2>1. /\ pc = "robin" /\ pc' = "robin" /\ proc' = proc + 1 /\ proc \notin active
        /\ progress' = progress /\ active' = active
    BY <1>5 DEF SkipProcessor, index
  <2>2. ~progress => \A p \in active : proc <= p
    BY <1>b, <2>1 DEF Passing
  <2>3. (\A p \in active : proc <= p) => \A p \in active' : proc' <= p
    BY <1>a, <2>1
  <2> QED
    BY <2>1, <2>2, <2>3
<1>6. CASE StartTurn
  BY <1>6, <1>b DEF StartTurn, CallPick, index, Passing
<1>7. CASE KeepPick
  <2>1. pc' = "robin" /\ progress'
    BY <1>7, Zenon DEF KeepPick, EndTurn
  <2> QED
    BY <2>1
<1>8. CASE UndoPick \/ NothingToPick
  <2>1. /\ pc \in {"picked", "nopick"} /\ caller = "robin" /\ pc' = "robin"
        /\ proc' = proc + 1 /\ active' = active \ {proc}
    BY <1>8 DEF UndoPick, NothingToPick, EndTurn
  <2>2. progress' => progress \/ FALSE
    BY <1>8, Zenon DEF UndoPick, NothingToPick, EndTurn
  <2>3. progress => progress'
    BY <1>8, Zenon DEF UndoPick, NothingToPick, EndTurn
  <2>4. ~progress => \A p \in active : proc <= p
    BY <1>b, <2>1 DEF Passing
  <2>5. (\A p \in active : proc <= p) => \A p \in active' : proc' <= p
    BY <1>a, <2>1
  <2>6. pc' = "robin"
    BY <2>1
  <2>7. ~progress' => \A p \in active' : proc' <= p
    BY <2>3, <2>4, <2>5
  <2> QED
    BY <2>6, <2>7
<1>9. CASE EndPass
  <2>1. pc = "robin" /\ proc \notin Tokens /\ proc' = 1 /\ active' = active
    BY <1>9 DEF EndPass, index
  <2>2. pc' = "robin" \/ (pc' = "check" /\ ~progress)
    BY <1>9, Zenon DEF EndPass
  <2>3. \A p \in active' : proc' <= p
    BY <1>a, <2>1
  <2>4. ~progress => \A p \in active : proc <= p
    BY <1>b, <2>1 DEF Passing
  <2>5. (\A p \in active : proc <= p) => active' = {}
    BY <1>a, <2>1
  <2>6. pc' = "check" => active' = {}
    BY <2>2, <2>4, <2>5
  <2>7. pc' \notin {"preselect", "draw", "picked", "nopick"}
    BY <2>2
  <2> QED
    BY <2>3, <2>6, <2>7
<1>10. CASE \/ FailSelection \/ EnsureInput \/ CollectSelection \/ NoInput
            \/ RetryWithMoreAda \/ NoMoreAda \/ MakeChange \/ Terminated
  <2>1. /\ pc' \notin {"preselect", "robin", "check"}
        /\ pc' \in {"draw", "picked", "nopick"} => caller' # "robin"
    BY <1>10 DEF FailSelection, EnsureInput, CallPick, CollectSelection, NoInput,
       RetryWithMoreAda, NoMoreAda, MakeChange, Terminated, driver, vars
  <2> QED
    BY <2>1 DEF Passing
<1>11. CASE UNCHANGED vars
  BY <1>11, <1>a, <1>b, <1>c DEF vars, index, driver, Passing
<1> QED
  BY <1>1, <1>2, <1>3, <1>4, <1>5, <1>6, <1>7, <1>8, <1>9, <1>10, <1>11
     DEF Next, SelectionStep
-----------------------------------------------------------------------------
(* The totals and the list of the selection.                                *)

(* Over the entries of a pool, sums can be taken in any order. *)
LEMMA Summable ==
  ASSUME TypeOK, NEW p \in Procs, NEW S \in SUBSET Entries
  PROVE  LET f == [e \in Entries |-> Quantity(e, p)]
         IN  /\ SumFunctionOnSet(f, {}) = 0 /\ SumFunctionOnSet(f, S) \in Int
             /\ \A x \in S : SumFunctionOnSet(f, S) = SumFunctionOnSet(f, S \ {x}) + Quantity(x, p)
<1> DEFINE f == [e \in Entries |-> Quantity(e, p)]
<1>1. IsFiniteSet(Entries)
  <2>1. Len(req.pool) \in Nat /\ Entries = 1 .. Len(req.pool)
    BY RequestsAssumption DEF TypeOK, Entries
  <2> QED BY <2>1, FS_Interval
<1>2. \A e \in Entries : f[e] = Quantity(e, p) /\ f[e] \in Int
  BY RequestFacts
<1> HIDE DEF f
<1>3. /\ SumFunctionOnSet(f, {}) = 0 /\ SumFunctionOnSet(f, S) \in Int
      /\ \A x \in S : SumFunctionOnSet(f, S) = SumFunctionOnSet(f, S \ {x}) + f[x]
  BY <1>1, <1>2, SetSums
<1> QED BY <1>2, <1>3 DEF f

(* The totals with one entry more, or one less. *)
LEMMA TotalsAfter ==
  ASSUME TypeOK, NEW p \in Procs, NEW d \in Entries, TotalsExact
  PROVE  LET f == [e \in Entries |-> Quantity(e, p)]
         IN  /\ d \notin selected => SumFunctionOnSet(f, selected \cup {d}) = total[p] + Quantity(d, p)
             /\ d \in selected => SumFunctionOnSet(f, selected \ {d}) = total[p] - Quantity(d, p)
<1> DEFINE f == [e \in Entries |-> Quantity(e, p)]
<1>1. selected \in SUBSET Entries /\ total[p] = SumFunctionOnSet(f, selected) /\ Quantity(d, p) \in Int
  <2>1. total[p] = SumFunctionOnSet(f, selected)
    BY Zenon DEF TotalsExact
  <2>2. selected \in SUBSET Entries
    BY DEF TypeOK, IndexOK
  <2>3. Quantity(d, p) \in Int
    BY RequestFacts
  <2> QED BY <2>1, <2>2, <2>3
<1>2. ASSUME NEW S \in SUBSET Entries
      PROVE  /\ SumFunctionOnSet(f, S) \in Int
             /\ \A x \in S : SumFunctionOnSet(f, S) = SumFunctionOnSet(f, S \ {x}) + Quantity(x, p)
  BY Summable
<1> HIDE DEF f
<1>3. CASE d \notin selected
  <2>1. selected \cup {d} \in SUBSET Entries /\ d \in selected \cup {d} /\ (selected \cup {d}) \ {d} = selected
    BY <1>1, <1>3
  <2>2. SumFunctionOnSet(f, selected \cup {d}) = SumFunctionOnSet(f, (selected \cup {d}) \ {d}) + Quantity(d, p)
    BY <1>2, <2>1
  <2> QED BY <1>1, <1>3, <2>1, <2>2 DEF f
<1>4. CASE d \in selected
  <2>1. SumFunctionOnSet(f, selected \ {d}) \in Int
    BY <1>1, <1>2
  <2>2. SumFunctionOnSet(f, selected) = SumFunctionOnSet(f, selected \ {d}) + Quantity(d, p)
    BY <1>1, <1>2, <1>4
  <2> QED BY <1>1, <1>4, <2>1, <2>2 DEF f
<1> QED BY <1>3, <1>4

(* A pre-selected entry, a pick and an undo each move the totals by what the *)
(* entry holds.                                                              *)
LEMMA TotalsStep ==
  ASSUME TypeOK, PickUndoable, TotalsExact, [Next]_vars
  PROVE  TotalsExact'
<1>a. Entries' = Entries /\ Procs' = Procs
  BY StepFacts
<1>b. \A p : [e \in Entries |-> Quantity(e, p)]' = [e \in Entries |-> Quantity(e, p)]
  BY <1>a, AttributesFixed
<1> SUFFICES ASSUME NEW p \in Procs
             PROVE  total'[p] = SumFunctionOnSet([e \in Entries |-> Quantity(e, p)], selected')
  BY <1>a, AttributesFixed DEF TotalsExact
<1>1. ASSUME NEW d \in Entries, PreSelect(d) \/ DrawFresh(d)
      PROVE  total'[p] = SumFunctionOnSet([e \in Entries |-> Quantity(e, p)], selected')
  <2>1. d \notin selected /\ selected' = selected \cup {d} /\ total' = apply_to_totals(d, 1)
    BY <1>1 DEF PreSelect, DrawFresh
  <2>2. total[p] \in Int /\ Quantity(d, p) \in Int
    BY RequestFacts DEF TypeOK, IndexOK
  <2>3. total'[p] = total[p] + Quantity(d, p)
    BY <2>1, <2>2 DEF apply_to_totals
  <2> QED BY <2>1, <2>3, TotalsAfter
<1>2. CASE UndoPick
  BY <1>2, UndoFacts, TotalsAfter
<1>3. ASSUME UNCHANGED <<selected, total>>
      PROVE  total'[p] = SumFunctionOnSet([e \in Entries |-> Quantity(e, p)], selected')
  BY <1>3 DEF TotalsExact
<1>4. ASSUME NEW d \in Entries, DrawStale(d) \/ DrawUnrecorded(d) PROVE UNCHANGED <<selected, total>>
  BY <1>4 DEF DrawStale, DrawUnrecorded
<1> QED BY <1>1, <1>2, <1>3, <1>4, IndexCases

(* A sequence without its last element. *)
LEMMA AllButLast ==
  ASSUME NEW S, NEW s \in Seq(S), Len(s) >= 1
  PROVE  LET r == SubSeq(s, 1, Len(s) - 1)
         IN  Len(r) = Len(s) - 1 /\ \A i \in 1 .. Len(s) - 1 : r[i] = s[i]
<1> DEFINE m == Len(s) - 1
           r == SubSeq(s, 1, m)
<1>1. m \in Int /\ 1 \in Int /\ m >= 0 /\ \A i \in 1 .. m : s[i] \in S
  OBVIOUS
<1> HIDE DEF m
<1>2. /\ Len(r) = IF 1 <= m THEN m - 1 + 1 ELSE 0
      /\ \A i \in 1 .. m - 1 + 1 : r[i] = s[1 + i - 1]
  BY <1>1, SubSeqProperties
<1> HIDE DEF r
<1>3. \A i \in 1 .. m : r[i] = s[i]
  BY <1>1, <1>2
<1>4. Len(r) = m
  BY <1>1, <1>2
<1> QED BY <1>3, <1>4 DEF r, m

(* What is recorded is selected: a pick appends, an undo removes the last.   *)
LEMMA RecordedStep ==
  ASSUME TypeOK, PickUndoable, Recorded, [Next]_vars
  PROVE  Recorded'
<1>a. Entries' = Entries /\ Pre' = Pre
  BY StepFacts DEF Pre
<1>b. picks \in Seq(PickRecord) /\ Len(picks) \in Nat /\ selected \in SUBSET Entries
  BY DEF TypeOK, IndexOK, PickRecord
<1>1. ASSUME NEW d \in Entries, DrawFresh(d) PROVE Recorded'
  <2>1. /\ picks' = Append(picks, [entry |-> d, proc |-> proc, tier |-> tier])
        /\ d \notin selected /\ selected' = selected \cup {d} /\ pc = "draw" /\ pc' = "picked"
    BY <1>1 DEF DrawFresh
  <2>2. Len(picks') = Len(picks) + 1 /\ picks'[Len(picks) + 1].entry = d
        /\ \A i \in 1 .. Len(picks) : picks'[i] = picks[i]
    BY <1>b, <2>1
  <2>3. Pre \subseteq selected
    BY <2>1 DEF Recorded
  <2>4. \A i \in 1 .. Len(picks') : i = Len(picks) + 1 \/ i \in 1 .. Len(picks)
    BY <1>b, <2>2
  <2>5. \A i, j \in 1 .. Len(picks') : picks'[i].entry = picks'[j].entry => i = j
    BY <2>1, <2>2, <2>4 DEF Recorded
  <2>6. \A i \in 1 .. Len(picks') : picks'[i].entry \in selected' \ Pre
    BY <2>1, <2>2, <2>3, <2>4 DEF Recorded
  <2>7. \A e \in selected' \ Pre : \E i \in 1 .. Len(picks') : picks'[i].entry = e
    <3> SUFFICES ASSUME NEW e \in selected' \ Pre PROVE \E i \in 1 .. Len(picks') : picks'[i].entry = e
      OBVIOUS
    <3>1. CASE e = d
      <4>1. Len(picks) + 1 \in 1 .. Len(picks')
        BY <1>b, <2>2
      <4> QED BY <2>2, <3>1, <4>1
    <3>2. CASE e # d
      <4>1. PICK i \in 1 .. Len(picks) : picks[i].entry = e
        BY <2>1, <3>2 DEF Recorded
      <4>2. i \in 1 .. Len(picks')
        BY <1>b, <2>2
      <4> QED BY <2>2, <4>1, <4>2
    <3> QED BY <3>1, <3>2
  <2> QED BY <1>a, <2>1, <2>3, <2>5, <2>6, <2>7 DEF Recorded
<1>2. CASE UndoPick
  <2>1. /\ picks # <<>> /\ picks' = SubSeq(picks, 1, Len(picks) - 1)
        /\ selected' = selected \ {LastPick.entry} /\ pc = "picked" /\ pc' = "robin"
    BY <1>2 DEF PickUndoable, UndoPick, undo_last_pick, EndTurn, LastPick
  <2>2. Len(picks) >= 1
    BY <1>b, <2>1
  <2>3. Len(picks') = Len(picks) - 1 /\ \A i \in 1 .. Len(picks) - 1 : picks'[i] = picks[i]
    BY <1>b, <2>1, <2>2, AllButLast
  <2>4. /\ 1 .. Len(picks') = 1 .. Len(picks) - 1 /\ Len(picks) \in 1 .. Len(picks)
        /\ \A i \in 1 .. Len(picks) : i = Len(picks) \/ i \in 1 .. Len(picks) - 1
        /\ \A i \in 1 .. Len(picks) - 1 : i \in 1 .. Len(picks) /\ i # Len(picks)
    BY <1>b, <2>2, <2>3
  <2>5. Pre \subseteq selected'
    <3>1. LastPick.entry \notin Pre
      BY <2>4 DEF Recorded, LastPick
    <3> QED BY <2>1, <3>1 DEF Recorded
  <2>6. \A i, j \in 1 .. Len(picks') : picks'[i].entry = picks'[j].entry => i = j
    <3> TAKE i, j \in 1 .. Len(picks')
    <3>1. /\ i \in 1 .. Len(picks) /\ j \in 1 .. Len(picks)
          /\ picks'[i] = picks[i] /\ picks'[j] = picks[j]
      BY <2>3, <2>4, Zenon
    <3> QED BY <3>1, Zenon DEF Recorded
  <2>7. \A i \in 1 .. Len(picks') : picks'[i].entry \in selected' \ Pre
    BY <2>1, <2>3, <2>4 DEF Recorded, LastPick
  <2>8. \A e \in selected' \ Pre : \E i \in 1 .. Len(picks') : picks'[i].entry = e
    <3> TAKE e \in selected' \ Pre
    <3>1. e \in selected \ Pre /\ e # picks[Len(picks)].entry
      BY <2>1 DEF LastPick
    <3>2. PICK i \in 1 .. Len(picks) : picks[i].entry = e
      BY <3>1, Zenon DEF Recorded
    <3>3. i \in 1 .. Len(picks')
      BY <2>4, <3>1, <3>2, Zenon
    <3> QED BY <2>3, <2>4, <3>2, <3>3, Zenon
  <2> QED BY <1>a, <2>1, <2>5, <2>6, <2>7, <2>8 DEF Recorded
<1>3. ASSUME NEW d \in Entries, PreSelect(d) PROVE Recorded'
  <2>1. /\ d \in Pre /\ selected' = selected \cup {d} /\ picks' = picks /\ pc' = "preselect"
    BY <1>3 DEF PreSelect, driver
  <2>2. selected' \ Pre = selected \ Pre
    BY <2>1
  <2> QED BY <1>a, <2>1, <2>2 DEF Recorded
<1>4. CASE StartRobin
  BY <1>a, <1>4 DEF StartRobin, index, Recorded
<1>5. ASSUME picks' = picks, selected' = selected, pc' # "preselect" => pc # "preselect"
      PROVE  Recorded'
  BY <1>a, <1>5 DEF Recorded
<1>6. ASSUME NEW d \in Entries, DrawStale(d) \/ DrawUnrecorded(d) PROVE Recorded'
  <2>1. picks' = picks /\ selected' = selected /\ pc = "draw"
    BY <1>6 DEF DrawStale, DrawUnrecorded
  <2> QED BY <1>5, <2>1
<1>7. CASE UNCHANGED <<selected, total, buckets, picks>> /\ ~StartRobin
  <2>1. pc' # "preselect" => pc # "preselect"
    BY <1>7 DEF Next, SelectionStep, PreSelect, DrawStale, DrawFresh, DrawUnrecorded, NextTier,
     SkipProcessor, StartTurn, CallPick, KeepPick, UndoPick, NothingToPick, EndTurn,
     EndPass, FailSelection, EnsureInput, CollectSelection, NoInput, MakeChange,
     RetryWithMoreAda, NoMoreAda, Terminated, driver, vars
  <2> QED BY <1>5, <1>7, <2>1
<1> QED BY <1>1, <1>2, <1>3, <1>4, <1>6, <1>7, IndexCases

(* The two parts of the selection list are lists of pool entries. *)
LEMMA ListFacts ==
  ASSUME TypeOK
  PROVE  /\ req.pre \in Nat /\ req.pre <= Len(req.pool) /\ Pre \in SUBSET Entries
         /\ PreEntries \in Seq(Entries) /\ Len(PreEntries) = req.pre
         /\ PickedEntries \in Seq(Entries) /\ Len(PickedEntries) = Len(picks)
<1>1. /\ Len(req.pool) \in Nat /\ Entries = 1 .. Len(req.pool)
      /\ req.pre \in 0 .. Len(req.pool)
  BY RequestsAssumption DEF TypeOK, Entries
<1>2. Pre \in SUBSET Entries
  BY <1>1 DEF Pre
<1>3. PreEntries \in [1 .. req.pre -> Entries]
  BY <1>1 DEF PreEntries
<1>4. picks \in Seq(PickRecord) /\ Len(picks) \in Nat
  BY DEF TypeOK, IndexOK, PickRecord
<1>5. \A i \in 1 .. Len(picks) : picks[i].entry \in Entries
  <2>1. \A i \in 1 .. Len(picks) : picks[i] \in PickRecord
    <3> HIDE DEF PickRecord
    <3> QED BY <1>4
  <2> QED BY <2>1 DEF PickRecord
<1>6. PickedEntries \in [1 .. Len(picks) -> Entries]
  BY <1>5 DEF PickedEntries
<1>7. \A k \in Nat : \A f \in [1 .. k -> Entries] : f \in Seq(Entries) /\ Len(f) = k
  OBVIOUS
<1>8. req.pre \in Nat /\ req.pre <= Len(req.pool)
  BY <1>1
<1> QED BY <1>2, <1>3, <1>4, <1>6, <1>7, <1>8

(* One more pick is one more entry at the end of the list. *)
LEMMA PickedAppend ==
  ASSUME TypeOK, NEW d \in Entries, DrawFresh(d)
  PROVE  PickedEntries' = Append(PickedEntries, d) /\ LastPick'.entry = d
<1>1. picks \in Seq(PickRecord) /\ Len(picks) \in Nat
  BY DEF TypeOK, IndexOK, PickRecord
<1>2. picks' = Append(picks, [entry |-> d, proc |-> proc, tier |-> tier])
  BY DEF DrawFresh
<1>3. /\ Len(picks') = Len(picks) + 1 /\ picks'[Len(picks) + 1].entry = d
      /\ \A i \in 1 .. Len(picks) : picks'[i] = picks[i]
  BY <1>1, <1>2
<1>4. PickedEntries \in Seq(Entries) /\ Len(PickedEntries) = Len(picks)
  BY ListFacts
<1>5. /\ Len(Append(PickedEntries, d)) = Len(picks) + 1
      /\ Append(PickedEntries, d) \in Seq(Entries)
      /\ \A i \in 1 .. Len(picks) : Append(PickedEntries, d)[i] = picks[i].entry
      /\ Append(PickedEntries, d)[Len(picks) + 1] = d
  <2>1. \A i \in 1 .. Len(picks) : PickedEntries[i] = picks[i].entry
    BY DEF PickedEntries
  <2> HIDE DEF PickedEntries
  <2> QED BY <1>1, <1>4, <2>1
<1>6. Append(PickedEntries, d) = [i \in 1 .. Len(picks) + 1 |-> picks'[i].entry]
  <2> DEFINE a == Append(PickedEntries, d)
  <2>1. a = [i \in 1 .. Len(a) |-> a[i]]
    <3>1. a \in Seq(Entries)
      BY <1>5
    <3> HIDE DEF a
    <3> QED BY <3>1
  <2>2. \A i \in 1 .. Len(picks) + 1 : a[i] = picks'[i].entry
    <3>1. \A i \in 1 .. Len(picks) + 1 : i = Len(picks) + 1 \/ i \in 1 .. Len(picks)
      BY <1>1
    <3> QED BY <1>3, <1>5, <3>1
  <2>3. Len(a) = Len(picks) + 1
    BY <1>5
  <2> HIDE DEF a
  <2>4. a = [i \in 1 .. Len(picks) + 1 |-> picks'[i].entry]
    BY <2>1, <2>2, <2>3
  <2> QED BY <2>4 DEF a
<1>7. PickedEntries' = [i \in 1 .. Len(picks) + 1 |-> picks'[i].entry]
  BY <1>3 DEF PickedEntries
<1> QED BY <1>3, <1>6, <1>7 DEF LastPick

(* The list is brought up to date before change is made for it again. *)
LEMMA CollectedStep ==
  ASSUME TypeOK, PickUndoable, Collected, [Next]_vars
  PROVE  Collected'
<1>a. req' = req /\ PreEntries' = PreEntries
  BY StepFacts DEF PreEntries
<1> DEFINE All == PreEntries \o PickedEntries
<1>1. ASSUME NEW d \in Entries, DrawFresh(d) PROVE Collected'
  <2>1. pc = "draw" /\ pc' = "picked" /\ caller' = caller /\ selection' = selection
    BY <1>1 DEF DrawFresh
  <2>2. PickedEntries' = Append(PickedEntries, d) /\ LastPick'.entry = d
    BY <1>1, PickedAppend
  <2>3. ASSUME caller = "extra" PROVE Append(selection', LastPick'.entry) = PreEntries \o PickedEntries'
    <3>1. selection = PreEntries \o PickedEntries
      BY <2>1, <2>3 DEF Collected
    <3>2. PreEntries \in Seq(Entries) /\ PickedEntries \in Seq(Entries)
      BY ListFacts
    <3>3. \A x, y \in Seq(Entries) : Append(x \o y, d) = x \o Append(y, d)
      OBVIOUS
    <3> QED BY <2>1, <2>2, <3>1, <3>2, <3>3
  <2> QED BY <1>a, <2>1, <2>3 DEF Collected
<1>2. CASE UndoPick
  <2>1. pc' = "robin"
    BY <1>2 DEF UndoPick, EndTurn
  <2> QED BY <2>1 DEF Collected
<1>3. ASSUME UNCHANGED picks PROVE PickedEntries' = PickedEntries /\ LastPick' = LastPick
  BY <1>3 DEF PickedEntries, LastPick
<1>4. CASE CollectSelection
  <2>1. pc' = "change" /\ UNCHANGED picks /\ selection' = PreEntries \o PickedEntries
    BY <1>4 DEF CollectSelection, index
  <2> QED BY <1>a, <1>3, <2>1 DEF Collected
<1>5. CASE RetryWithMoreAda
  <2>1. /\ pc' = "change" /\ UNCHANGED picks /\ pc = "picked" /\ caller = "extra"
        /\ selection' = Append(selection, LastPick.entry)
    BY <1>5 DEF RetryWithMoreAda, index, LastPick
  <2> QED BY <1>a, <1>3, <2>1 DEF Collected
<1>6. CASE MakeChange
  <2>1. /\ pc = "change" /\ UNCHANGED <<picks, selection>> /\ pc' \in {"done", "draw"}
    BY <1>6 DEF MakeChange, index, CallPick
  <2> QED BY <1>a, <1>3, <2>1 DEF Collected
<1>7. CASE NoMoreAda
  <2>1. /\ pc = "nopick" /\ caller = "extra" /\ UNCHANGED <<picks, selection, caller>>
        /\ pc' \in {"done", "failed"}
    BY <1>7, Zenon DEF NoMoreAda, index
  <2> QED BY <1>a, <1>3, <2>1 DEF Collected
<1>8. CASE NextTier \/ \E d \in Entries : DrawStale(d) \/ DrawUnrecorded(d)
  <2>1. /\ pc = "draw" /\ pc' \in {"draw", "nopick"} /\ UNCHANGED <<picks, selection, caller>>
    BY <1>8 DEF NextTier, DrawStale, DrawUnrecorded, driver, index
  <2> QED BY <1>a, <1>3, <2>1 DEF Collected
<1>9. CASE StartTurn \/ EnsureInput
  <2>1. pc' = "draw" /\ caller' \in {"robin", "ensure"}
    BY <1>9 DEF StartTurn, EnsureInput, CallPick
  <2> QED BY <2>1 DEF Collected
<1>10. CASE Terminated \/ UNCHANGED vars
  <2>1. UNCHANGED <<picks, selection, caller, pc>>
    BY <1>10 DEF Terminated, vars, index, driver
  <2> QED BY <1>a, <1>3, <2>1 DEF Collected
<1>11. CASE \/ (\E d \in Entries : PreSelect(d)) \/ StartRobin \/ SkipProcessor \/ KeepPick
            \/ NothingToPick \/ EndPass \/ FailSelection \/ NoInput
  <2>1. pc' \in {"preselect", "robin", "check", "failed"}
    BY <1>11 DEF PreSelect, StartRobin, SkipProcessor, KeepPick, NothingToPick, EndTurn, EndPass,
                FailSelection, NoInput, driver
  <2> QED BY <2>1 DEF Collected
<1> QED BY <1>1, <1>2, <1>4, <1>5, <1>6, <1>7, <1>8, <1>9, <1>10, <1>11 DEF Next, SelectionStep

(* A list without repetitions is as long as the set of its elements. *)
LEMMA DistinctLength ==
  ASSUME NEW S, NEW s \in Seq(S), \A i, j \in 1 .. Len(s) : s[i] = s[j] => i = j
  PROVE  Len(s) = Cardinality(ToSet(s))
<1> DEFINE D == 1 .. Len(s)
<1>1. Len(s) \in Nat /\ DOMAIN s = D
  OBVIOUS
<1>2. IsFiniteSet(D) /\ Cardinality(D) = Len(s)
  BY <1>1, FS_Interval
<1>3. ToSet(s) = {s[i] : i \in D}
  BY <1>1, Zenon DEF ToSet
<1>4. s \in Bijection(D, ToSet(s))
  <2>1. s \in [D -> ToSet(s)]
    BY <1>1, <1>3
  <2>2. \A x \in ToSet(s) : \E i \in D : s[i] = x
    BY <1>3
  <2>3. \A i, j \in D : s[i] = s[j] => i = j
    OBVIOUS
  <2> HIDE DEF D
  <2> QED BY <2>1, <2>2, <2>3 DEF Bijection, Injection, Surjection, IsInjective
<1> HIDE DEF D
<1>5. Cardinality(ToSet(s)) = Cardinality(D)
  BY <1>2, <1>4, FS_Bijection DEF ExistsBijection
<1> QED BY <1>2, <1>5

(* A list that repeats nothing and lists every selected entry. *)
LEMMA SelectionMatches ==
  ASSUME TypeOK, Recorded, Collected
  PROVE  SelectionMatchesIndex
<1> SUFFICES ASSUME pc \in {"change", "done"}
             PROVE  ToSet(selection) = selected /\ Len(selection) = Cardinality(selected)
  BY DEF SelectionMatchesIndex
<1> DEFINE m == req.pre
           n == Len(picks)
           D == 1 .. m + n
<1>1. /\ m \in Nat /\ n \in Nat /\ PreEntries \in Seq(Entries) /\ Len(PreEntries) = m
      /\ PickedEntries \in Seq(Entries) /\ Len(PickedEntries) = n
  BY ListFacts DEF TypeOK, IndexOK
<1>2. selection = PreEntries \o PickedEntries
  BY DEF Collected
<1>3. /\ selection \in Seq(Entries) /\ Len(selection) = m + n
      /\ \A i \in 1 .. m : selection[i] = PreEntries[i]
      /\ \A i \in 1 .. n : selection[m + i] = PickedEntries[i]
  <2>1. \A x, y \in Seq(Entries) :
          /\ x \o y \in Seq(Entries) /\ Len(x \o y) = Len(x) + Len(y)
          /\ \A i \in 1 .. Len(x) : (x \o y)[i] = x[i]
          /\ \A i \in 1 .. Len(y) : (x \o y)[Len(x) + i] = y[i]
    OBVIOUS
  <2> HIDE DEF m, n
  <2>2. /\ selection \in Seq(Entries) /\ Len(selection) = Len(PreEntries) + Len(PickedEntries)
        /\ \A i \in 1 .. Len(PreEntries) : selection[i] = PreEntries[i]
        /\ \A i \in 1 .. Len(PickedEntries) : selection[Len(PreEntries) + i] = PickedEntries[i]
    BY <1>1, <1>2, <2>1, Zenon
  <2> QED BY <1>1, <2>2, Zenon
<1>4. /\ \A i \in 1 .. m : selection[i] = i
      /\ \A i \in 1 .. n : selection[m + i] = picks[i].entry
  BY <1>3 DEF PreEntries, PickedEntries
<1>5. \A k \in D : k \in 1 .. m \/ (k - m \in 1 .. n /\ k = m + (k - m))
  BY <1>1
<1>6. Pre = 1 .. m /\ Pre \subseteq selected
  BY DEF Pre, Recorded
<1>7. ToSet(selection) = selected
  <2>1. ToSet(selection) = {selection[k] : k \in D}
    <3>1. DOMAIN selection = D
      BY <1>3
    <3> QED BY <3>1, Zenon DEF ToSet
  <2>2. \A k \in D : selection[k] \in selected
    BY <1>4, <1>5, <1>6 DEF Recorded
  <2>3. \A e \in selected : \E k \in D : selection[k] = e
    <3> SUFFICES ASSUME NEW e \in selected PROVE \E k \in D : selection[k] = e
      OBVIOUS
    <3>1. CASE e \in Pre
      <4>1. e \in D /\ selection[e] = e
        BY <1>1, <1>4, <1>6, <3>1
      <4> QED BY <4>1
    <3>2. CASE e \notin Pre
      <4>1. PICK i \in 1 .. n : picks[i].entry = e
        BY <3>2 DEF Recorded
      <4>2. m + i \in D
        BY <1>1
      <4> QED BY <1>4, <4>1, <4>2
    <3> QED BY <3>1, <3>2
  <2> QED BY <2>1, <2>2, <2>3
<1>8. \A k, l \in 1 .. Len(selection) : selection[k] = selection[l] => k = l
  <2> SUFFICES ASSUME NEW k \in D, NEW l \in D, selection[k] = selection[l] PROVE k = l
    BY <1>3
  <2>1. CASE k \in 1 .. m /\ l \in 1 .. m
    BY <1>4, <2>1
  <2>2. CASE k \in 1 .. m /\ l \notin 1 .. m
    <3>1. selection[k] \in Pre /\ selection[l] \notin Pre
      BY <1>4, <1>5, <1>6, <2>2 DEF Recorded
    <3> QED BY <3>1
  <2>3. CASE k \notin 1 .. m /\ l \in 1 .. m
    <3>1. selection[k] \notin Pre /\ selection[l] \in Pre
      BY <1>4, <1>5, <1>6, <2>3 DEF Recorded
    <3> QED BY <3>1
  <2>4. CASE k \notin 1 .. m /\ l \notin 1 .. m
    <3>1. k - m \in 1 .. n /\ l - m \in 1 .. n /\ picks[k - m].entry = picks[l - m].entry
      BY <1>4, <1>5, <2>4
    <3>2. k - m = l - m
      BY <3>1 DEF Recorded
    <3> QED BY <1>1, <3>2
  <2> QED BY <2>1, <2>2, <2>3, <2>4
<1>9. Len(selection) = Cardinality(ToSet(selection))
  BY <1>3, <1>8, DistinctLength
<1> QED BY <1>7, <1>9

-----------------------------------------------------------------------------
(* The index that index_init builds satisfies the invariant. *)
LEMMA InitIInv == Init => IInv
<1> SUFFICES ASSUME Init PROVE IInv
  OBVIOUS
<1>1. /\ req \in Requests /\ selected = {} /\ total = [p \in Procs |-> 0]
      /\ active = Procs /\ buckets = InitialBuckets(req) /\ picks = <<>> /\ pickCap = 0
      /\ pc = "preselect" /\ proc = 1 /\ tier = 0 /\ caller = "robin" /\ before = 0
  BY DEF Init
<1>2. Ada \in Nat /\ 1 <= Ada /\ Procs \subseteq 1 .. Ada
  BY ValuesAssumption DEF Ada, Procs, Assets
<1>3. DriverOK
  <2>1. progress \in BOOLEAN
    BY DEF Init
  <2> QED
    BY <1>1, <1>2, <2>1 DEF DriverOK, Tiers
<1>4. ASSUME NEW p \in Procs, NEW t \in Tiers, NEW e \in Entries
      PROVE  /\ buckets[p][t][e] \in {0, 1}
             /\ buckets[p][t][e] = 1 <=> Registered(p, t, e)
  <2>1. buckets[p][t][e] =
          IF req.pool[e].val[p] > 0
             /\ (t = 2 \/ Cardinality(TokensOf(req.pool[e].val)) = t + 1)
          THEN 1 ELSE 0
    BY <1>1 DEF InitialBuckets, Procs, Entries
  <2>2. t = 2 \/ (Cardinality(TokensOf(req.pool[e].val)) = t + 1 <=> t = TierOf(e))
    BY DEF TierOf, Tiers
  <2> QED
    BY <2>1, <2>2 DEF Registered, Quantity
<1>5. buckets \in [Procs -> [Tiers -> [Entries -> Int]]]
  BY <1>1 DEF InitialBuckets, Procs, Entries
<1>6. IndexOK
  BY <1>1, <1>5 DEF IndexOK
<1>7. TypeOK
  BY <1>1, <1>3, <1>6 DEF TypeOK
<1>8. BucketSound /\ FreeListed
  BY <1>4 DEF BucketSound, FreeListed
<1>9. DrawnEmpty /\ PickUndoable /\ InactiveDone /\ BeforeExact
  BY <1>1 DEF DrawnEmpty, PickUndoable, InactiveDone, BeforeExact
<1>10. PassInv
  BY <1>1, <1>2 DEF PassInv
<1>11. TotalsExact
  <2>1. ASSUME NEW p \in Procs
        PROVE  total[p] = SumFunctionOnSet([e \in Entries |-> Quantity(e, p)], selected)
    BY <1>1, <1>7, Summable
  <2> QED  BY <2>1 DEF TotalsExact
<1>12. Recorded /\ Collected
  BY <1>1 DEF Recorded, Collected
<1> QED
  BY <1>7, <1>8, <1>9, <1>10, <1>11, <1>12 DEF IInv

(* Every step of the selector keeps the invariant. *)
LEMMA StepIInv == IInv /\ [Next]_vars => IInv'
<1> SUFFICES ASSUME IInv, [Next]_vars PROVE IInv'
  OBVIOUS
<1>1. /\ TypeOK /\ BucketSound /\ FreeListed /\ DrawnEmpty /\ PickUndoable
      /\ InactiveDone /\ BeforeExact /\ PassInv
      /\ TotalsExact /\ Recorded /\ Collected
  BY DEF IInv
<1>2. TypeOK'
  BY <1>1, DriverStep, IndexStep, RequestFixed DEF TypeOK
<1>3. BucketSound' /\ FreeListed' /\ DrawnEmpty'
  BY <1>1, BucketSoundStep, FreeListedStep, DrawnEmptyStep
<1>4. PickUndoable' /\ InactiveDone'
  BY <1>1, PickUndoableStep, InactiveStep
<1>5. BeforeExact' /\ PassInv'
  BY <1>1, BeforeStep, PassStep
<1>6. TotalsExact' /\ Recorded' /\ Collected'
  BY <1>1, TotalsStep, RecordedStep, CollectedStep
<1> QED
  BY <1>2, <1>3, <1>4, <1>5, <1>6 DEF IInv

(* The invariant holds in every state of every call. *)
THEOREM Invariance == Spec => []IInv
  BY InitIInv, StepIInv, PTL DEF Spec

(* index_pick reports that there is nothing to pick only when no unselected  *)
(* entry holds the token, in spite of lazy deletion and undone picks.        *)
THEOREM PickIsComplete == Spec => []PickFindsAll
<1>1. IInv => PickFindsAll
  <2> SUFFICES ASSUME IInv, ~AllocMayFail, pc = "nopick", NEW e \in Entries \ selected
               PROVE  Quantity(e, proc) = 0
    BY DEF PickFindsAll
  <2>1. TypeOK /\ FreeListed /\ DrawnEmpty
    BY DEF IInv
  <2>2. proc \in Procs
    BY <2>1 DEF TypeOK, DriverOK
  <2>3. Quantity(e, proc) \in Nat
    BY <2>1, <2>2, RequestFacts
  <2>4. 2 \in Tiers /\ buckets[proc][2][e] = 0
    BY <2>1 DEF DrawnEmpty, Tiers
  <2>5. ~Registered(proc, 2, e)
    BY <2>1, <2>2, <2>4 DEF FreeListed
  <2> QED
    BY <2>3, <2>5 DEF Registered
<1> QED
  BY <1>1, Invariance, PTL

(* The selection phase fails only for want of tokens: when a requirement is  *)
(* not met after the round robin, every entry with the token is selected.    *)
THEOREM FailureIsShortage == Spec => []ShortfallIsReal
<1>1. IInv => ShortfallIsReal
  <2> SUFFICES ASSUME IInv, ~AllocMayFail, pc = "check", NEW p \in Procs, Short(p),
                      NEW e \in Entries, Quantity(e, p) > 0
               PROVE  e \in selected
    BY DEF ShortfallIsReal
  <2>1. p \in Procs \ active
    BY DEF IInv, PassInv
  <2>2. Exhausted(p, selected)
    BY <2>1 DEF IInv, InactiveDone
  <2> QED
    BY <2>2 DEF Exhausted
<1> QED
  BY <1>1, Invariance, PTL

(* The running totals are the sums over the selected entries, and change is  *)
(* made for exactly the entries that the index holds as selected, each once: *)
(* whatever was picked, undone, drawn stale or could not be recorded.  Index *)
(* and driver keep their types: index_pick and undo_last_pick only ever use  *)
(* a processor of the request and a pick that exists.                        *)
THEOREM SelectionIsAccounted == Spec => []SelectionAccounted
<1>1. IInv => SelectionAccounted
  BY SelectionMatches DEF IInv, SelectionAccounted
<1> QED
  BY <1>1, Invariance, PTL

(* A turn whose pick does not help ends with the total it began with.        *)
THEOREM UndoIsExact == Spec => UndoRestoresTotal
<1>1. IInv /\ [Next]_vars =>
        [(pc = "picked" /\ pc' = "robin" /\ proc \notin active') => total'[proc] = before]_vars
  <2> SUFFICES ASSUME IInv, [Next]_vars, ~UNCHANGED vars,
                      pc = "picked", pc' = "robin", proc \notin active'
               PROVE  total'[proc] = before
    OBVIOUS
  <2>1. TypeOK /\ PickUndoable /\ BeforeExact
    BY DEF IInv
  <2>2. CASE UndoPick
    <3>1. proc \in Procs /\ total'[proc] = total[proc] - Quantity(LastPick.entry, proc)
      BY <2>1, <2>2, UndoFacts
    <3>2. before = total[proc] - Quantity(LastPick.entry, proc)
      BY <2>1, <2>2 DEF BeforeExact, UndoPick
    <3> QED  BY <3>1, <3>2
  <2>3. CASE KeepPick
    BY <2>3 DEF IInv, PassInv, KeepPick, EndTurn
  <2>4. UndoPick \/ KeepPick
    BY DEF Next, SelectionStep, PreSelect, StartRobin, DrawStale, DrawFresh, DrawUnrecorded,
       NextTier, SkipProcessor, StartTurn, NothingToPick, EndPass, FailSelection,
       EnsureInput, CollectSelection, NoInput, MakeChange, RetryWithMoreAda, NoMoreAda,
       Terminated
  <2> QED
    BY <2>2, <2>3, <2>4
<1> QED
  BY <1>1, Invariance, PTL DEF Spec, UndoRestoresTotal

=============================================================================
