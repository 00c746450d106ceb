---------------------------- MODULE RandomImprove ----------------------------
(***************************************************************************)
(* The Round-Robin Random-Improve coin selector: one call of               *)
(* random_improve_select (random_improve_coin_selector.c) over the         *)
(* selection index of random_improve_selection_index.c.                    *)
(*                                                                         *)
(* The pool is the pre-selected UTXOs followed by the available ones.  For *)
(* each processor (a token the target requires) the index keeps three      *)
(* buckets of candidate entries.  Deletion is lazy: an entry another       *)
(* processor picked stays in the buckets until a draw meets it.  The       *)
(* random generator starts from an arbitrary seed, so a draw takes any     *)
(* entry of the bucket.                                                    *)
(***************************************************************************)
EXTENDS RandomImproveChange

CONSTANT Requests   \* the selection requests

(* A request meets a machine with plenty of memory, or one where the list of *)
(* picks may fail to grow.                                                   *)
ASSUME RequestsAssumption ==
  \A r \in Requests :
    /\ r.pool \in Seq([id : Nat, val : Bundle])
    /\ r.pre \in 0 .. Len(r.pool)
    /\ r.target \in Value
    /\ r.outs \in Seq(Bundle)
    /\ r.multiplier \in {1, 2}
    /\ r.memory \in {"plenty", "scarce"}

VARIABLES
  req,        \* the request, fixed during the call
  selected,   \* pool_selected: the pool entries that are selected
  total,      \* selected_total of each processor
  active,     \* the processors still taking turns
  buckets,    \* buckets[p][t][e]: occurrences of entry e in tier t of p
  picks,      \* the picks, oldest first, each with the bucket it came from
  pickCap,    \* pick_capacity
  pc,         \* where the call is
  proc,       \* the processor of the turn or of the pick
  tier,       \* the tier being drawn from
  caller,     \* who called index_pick
  before,     \* the processor's total when its turn began
  progress,   \* whether a processor made progress in this pass
  selection,  \* the list of selected entries that change is made for
  change      \* the change outputs, ok = FALSE when there are none

index  == <<selected, total, active, buckets, picks, pickCap>>
driver == <<pc, proc, tier, caller, before, progress>>
vars   == <<req, index, driver, selection, change>>

Entries == DOMAIN req.pool
Pre     == 1 .. req.pre
Procs   == {a \in Assets : req.target[a] > 0} \cup {Ada}
Tiers   == 0 .. 2

AllocMayFail == req.memory = "scarce"

Minimum(p)     == IF req.target[p] > 0 THEN req.target[p] ELSE 0
Quantity(e, p) == req.pool[e].val[p]

(* The tier an entry is registered in, by its asset count. *)
TierOf(e) == LET n == Cardinality(TokensOf(req.pool[e].val))
             IN  CASE n = 1 -> 0 [] n = 2 -> 1 [] OTHER -> 2

Distance(a, b) == IF a > b THEN a - b ELSE b - a

(* Mutant: only the total of the processor that picked is adjusted. *)
apply_to_own_total(e, sign) ==
  [total EXCEPT ![proc] = @ + sign * Quantity(e, proc)]

(* What an entry adds to, or an undo takes from, every running total. *)
apply_to_totals(e, sign) ==
  [p \in Procs |-> total[p] + sign * Quantity(e, p)]

Drop(b, p, t, e)   == [b EXCEPT ![p][t][e] = @ - 1]
Append1(b, p, t, e) == [b EXCEPT ![p][t][e] = @ + 1]

-----------------------------------------------------------------------------
(* _cardano_random_improve_index_init *)

(* register_pool_entry: an entry goes to its tier and also to the last one. *)
InitialBuckets(r) ==
  LET held(e, p)  == r.pool[e].val[p] > 0
      count(e)    == Cardinality(TokensOf(r.pool[e].val))
      in(e, p, t) == held(e, p) /\ (t = 2 \/ count(e) = t + 1)
  IN [p \in {a \in Assets : r.target[a] > 0} \cup {Ada} |->
       [t \in Tiers |->
         [e \in DOMAIN r.pool |-> IF in(e, p, t) THEN 1 ELSE 0]]]

Init ==
  /\ req \in Requests
  /\ selected = {}
  /\ total = [p \in Procs |-> 0]
  /\ active = Procs
  /\ buckets = InitialBuckets(req)
  /\ picks = <<>>
  /\ pickCap = 0
  /\ pc = "preselect"
  /\ proc = 1
  /\ tier = 0
  /\ caller = "robin"
  /\ before = 0
  /\ progress = FALSE
  /\ selection = <<>>
  /\ change = Insufficient

(* The pre-selected entries are marked and counted one after the other. *)
PreSelect(e) ==
  /\ pc = "preselect"
  /\ e \in Pre \ selected
  /\ \A f \in Pre \ selected : e <= f
  /\ selected' = selected \cup {e}
  /\ total' = apply_to_totals(e, 1)
  /\ UNCHANGED <<req, active, buckets, picks, pickCap, driver, selection, change>>

StartRobin ==
  /\ pc = "preselect"
  /\ Pre \subseteq selected
  /\ pc' = "robin"
  /\ UNCHANGED <<req, index, proc, tier, caller, before, progress, selection, change>>

-----------------------------------------------------------------------------
(* _cardano_random_improve_index_pick, entered with pc = "draw" *)

CallPick(p, who) ==
  /\ pc' = "draw"
  /\ proc' = p
  /\ tier' = 0
  /\ caller' = who

InBucket(e) == buckets[proc][tier][e] > 0

(* Mutant: a stale draw ends the search of the tier. *)
DrawStaleGivesUp(e) ==
  /\ pc = "draw"
  /\ InBucket(e)
  /\ e \in selected
  /\ buckets' = Drop(buckets, proc, tier, e)
  /\ IF tier < 2 THEN tier' = tier + 1 /\ pc' = pc
                 ELSE tier' = tier /\ pc' = "nopick"
  /\ UNCHANGED <<req, selected, total, active, picks, pickCap, proc, caller, before,
                 progress, selection, change>>

(* The drawn entry was selected through another bucket: it is dropped. *)
DrawStale(e) ==
  /\ pc = "draw"
  /\ InBucket(e)
  /\ e \in selected
  /\ buckets' = Drop(buckets, proc, tier, e)
  /\ UNCHANGED <<req, selected, total, active, picks, pickCap, driver,
                 selection, change>>

(* The drawn entry is free: the pick is recorded and applied. *)
DrawFresh(e) ==
  /\ pc = "draw"
  /\ InBucket(e)
  /\ e \notin selected
  /\ buckets' = Drop(buckets, proc, tier, e)
  /\ picks' = Append(picks, [entry |-> e, proc |-> proc, tier |-> tier])
  /\ pickCap' = IF Len(picks) < pickCap THEN pickCap
                ELSE IF pickCap = 0 THEN 8 ELSE 2 * pickCap
  /\ selected' = selected \cup {e}
  /\ total' = apply_to_totals(e, 1)
  /\ pc' = "picked"
  /\ UNCHANGED <<req, active, proc, tier, caller, before, progress,
                 selection, change>>

(* record_pick cannot grow the list: the entry is out of its bucket, is not *)
(* selected, and the pick reports that there was nothing to pick.           *)
DrawUnrecorded(e) ==
  /\ AllocMayFail
  /\ pc = "draw"
  /\ InBucket(e)
  /\ e \notin selected
  /\ Len(picks) = pickCap
  /\ buckets' = Drop(buckets, proc, tier, e)
  /\ pc' = "nopick"
  /\ UNCHANGED <<req, selected, total, active, picks, pickCap, proc, tier,
                 caller, before, progress, selection, change>>

(* The bucket is empty: the next tier, or nothing to pick. *)
NextTier ==
  /\ pc = "draw"
  /\ \A e \in Entries : ~InBucket(e)
  /\ IF tier < 2 THEN tier' = tier + 1 /\ pc' = pc
                 ELSE tier' = tier /\ pc' = "nopick"
  /\ UNCHANGED <<req, index, proc, caller, before, progress, selection, change>>

(* Mutant: the pick that does not improve is kept. *)
undo_forgotten == UNCHANGED <<picks, selected, total, buckets>>

(* _cardano_random_improve_index_undo_last_pick *)
undo_last_pick ==
  LET last == picks[Len(picks)]
  IN /\ picks' = SubSeq(picks, 1, Len(picks) - 1)
     /\ selected' = selected \ {last.entry}
     /\ total' = apply_to_totals(last.entry, -1)
     /\ buckets' = Append1(buckets, last.proc, last.tier, last.entry)

-----------------------------------------------------------------------------
(* run_round_robin and run_selection_step *)

(* Mutant: a processor that made no progress stays in the round. *)
EndTurnStaysActive(made) ==
  /\ pc' = "robin"
  /\ proc' = proc + 1
  /\ progress' = TRUE
  /\ UNCHANGED active

EndTurn(made) ==
  /\ pc' = "robin"
  /\ proc' = proc + 1
  /\ progress' = (progress \/ made)
  /\ active' = IF made THEN active ELSE active \ {proc}

SkipProcessor ==
  /\ pc = "robin"
  /\ proc \in Tokens \ active
  /\ proc' = proc + 1
  /\ UNCHANGED <<req, index, pc, tier, caller, before, progress, selection, change>>

StartTurn ==
  /\ pc = "robin"
  /\ proc \in active
  /\ CallPick(proc, "robin")
  /\ before' = total[proc]
  /\ UNCHANGED <<req, index, progress, selection, change>>

(* Mutant: a pick below the minimum is judged by its distance, too. *)
ImprovesAlways ==
  LET target == Minimum(proc) * req.multiplier
  IN  Distance(target, total[proc]) < Distance(target, before)

(* Below the minimum every pick is kept; above it, one that comes nearer to *)
(* the target.                                                              *)
Improves ==
  \/ before < Minimum(proc)
  \/ LET target == Minimum(proc) * req.multiplier
     IN  Distance(target, total[proc]) < Distance(target, before)

KeepPick ==
  /\ pc = "picked" /\ caller = "robin"
  /\ Improves
  /\ EndTurn(TRUE)
  /\ UNCHANGED <<req, selected, total, buckets, picks, pickCap, tier, caller,
                 before, selection, change>>

UndoPick ==
  /\ pc = "picked" /\ caller = "robin"
  /\ ~Improves
  /\ undo_last_pick
  /\ EndTurn(FALSE)
  /\ UNCHANGED <<req, pickCap, tier, caller, before, selection, change>>

NothingToPick ==
  /\ pc = "nopick" /\ caller = "robin"
  /\ EndTurn(FALSE)
  /\ UNCHANGED <<req, selected, total, buckets, picks, pickCap, tier, caller,
                 before, selection, change>>

EndPass ==
  /\ pc = "robin"
  /\ proc \notin Tokens
  /\ proc' = 1
  /\ progress' = FALSE
  /\ pc' = IF progress THEN "robin" ELSE "check"
  /\ UNCHANGED <<req, index, tier, caller, before, selection, change>>

-----------------------------------------------------------------------------
(* run_selection_phase after the round robin, and random_improve_select *)

Short(p) == total[p] < Minimum(p)

PickedEntries == [i \in 1 .. Len(picks) |-> picks[i].entry]
PreEntries    == [i \in 1 .. req.pre |-> i]

FailSelection ==
  /\ pc = "check"
  /\ \E p \in Procs : Short(p)
  /\ pc' = "failed"
  /\ UNCHANGED <<req, index, proc, tier, caller, before, progress, selection, change>>

(* A transaction needs an input: one is picked for its ada. *)
EnsureInput ==
  /\ pc = "check"
  /\ \A p \in Procs : ~Short(p)
  /\ req.pre = 0 /\ picks = <<>>
  /\ CallPick(Ada, "ensure")
  /\ UNCHANGED <<req, index, before, progress, selection, change>>

CollectSelection ==
  /\ \/ pc = "check" /\ (\A p \in Procs : ~Short(p)) /\ ~(req.pre = 0 /\ picks = <<>>)
     \/ pc = "picked" /\ caller = "ensure"
  /\ selection' = PreEntries \o PickedEntries
  /\ pc' = "change"
  /\ UNCHANGED <<req, index, proc, tier, caller, before, progress, change>>

NoInput ==
  /\ pc = "nopick" /\ caller = "ensure"
  /\ pc' = "failed"
  /\ UNCHANGED <<req, index, proc, tier, caller, before, progress, selection, change>>

-----------------------------------------------------------------------------
(* generate_change_with_retries *)

ValuesOf(es) == [i \in DOMAIN es |-> req.pool[es[i]].val]

DesiredMapCount == MapCount(req.outs)

MakeChange ==
  /\ pc = "change"
  /\ \E c \in {make_change(ValuesOf(selection), req.target, req.outs)} :
       /\ change' = c
       /\ IF c.ok /\ Len(c.outputs) >= DesiredMapCount
          THEN pc' = "done" /\ UNCHANGED <<proc, tier, caller>>
          ELSE CallPick(Ada, "extra")
  /\ UNCHANGED <<req, index, before, progress, selection>>

(* pick_additional_ada found one: any change made so far is released.  That the *)
(* list cannot take it, and the pick is undone, and that make_change cannot     *)
(* allocate, are left out: requests with scarce memory lack it for picks only.  *)
RetryWithMoreAda ==
  /\ pc = "picked" /\ caller = "extra"
  /\ selection' = Append(selection, picks[Len(picks)].entry)
  /\ change' = Insufficient
  /\ pc' = "change"
  /\ UNCHANGED <<req, index, proc, tier, caller, before, progress>>

(* pick_additional_ada found none: the last attempt stands. *)
NoMoreAda ==
  /\ pc = "nopick" /\ caller = "extra"
  /\ pc' = IF change.ok THEN "done" ELSE "failed"
  /\ UNCHANGED <<req, index, proc, tier, caller, before, progress, selection, change>>

Terminated ==
  /\ pc \in {"done", "failed"}
  /\ UNCHANGED vars

SelectionStep ==
  \/ \E e \in Entries : PreSelect(e)
  \/ StartRobin
  \/ \E e \in Entries : DrawStale(e) \/ DrawFresh(e) \/ DrawUnrecorded(e)
  \/ NextTier
  \/ SkipProcessor \/ StartTurn \/ KeepPick \/ UndoPick \/ NothingToPick
  \/ EndPass
  \/ FailSelection \/ EnsureInput \/ CollectSelection \/ NoInput
  \/ RetryWithMoreAda \/ NoMoreAda

Next == SelectionStep \/ MakeChange \/ Terminated

(* The call runs to its end: nothing it does waits for anyone.  MakeChange is *)
(* enabled whenever pc is "change" and is then the only step, so its fairness *)
(* is that of leaving "change".                                               *)
LeaveChange ==
  /\ pc = "change"
  /\ pc' \in {"done", "draw"}

Fairness == WF_vars(SelectionStep) /\ WF_pc(LeaveChange)

Spec == Init /\ [][Next]_vars /\ Fairness
-----------------------------------------------------------------------------
IndexOK ==
  /\ selected \subseteq Entries
  /\ total \in [Procs -> Int]
  /\ active \subseteq Procs
  /\ buckets \in [Procs -> [Tiers -> [Entries -> Int]]]
  /\ picks \in Seq([entry : Entries, proc : Procs, tier : Tiers])
  /\ pickCap \in Nat

DriverOK ==
  /\ pc \in {"preselect", "robin", "draw", "picked", "nopick", "check", "change",
            "done", "failed"}
  /\ proc \in 1 .. (Ada + 1)
  /\ pc \in {"draw", "picked", "nopick"} => proc \in Procs
  /\ tier \in Tiers
  /\ caller \in {"robin", "ensure", "extra"}
  /\ before \in Int
  /\ progress \in BOOLEAN

(* Type correctness of the request, the selection index and the driver: in   *)
(* particular a pick is always for one of the processors.                    *)
TypeOK == req \in Requests /\ IndexOK /\ DriverOK

(* The header of random_improve_selection_index.h: index_pick returns "false  *)
(* if no unselected entry holds the processor's asset".  Lazy deletion, the   *)
(* draws of the other processors and undone picks never hide a candidate.     *)
PickFindsAll ==
  ~AllocMayFail /\ pc = "nopick" =>
    \A e \in Entries \ selected : Quantity(e, proc) = 0

(* The running totals, which picks and undone picks adjust incrementally, are *)
(* the sums over the selected entries.                                        *)
TotalsExact ==
  \A p \in Procs :
    total[p] = SumFunctionOnSet([e \in Entries |-> Quantity(e, p)], selected)

(* The selection phase gives up on a requirement only when every entry that   *)
(* holds the token is selected already: the failure is a real shortage.       *)
ShortfallIsReal ==
  ~AllocMayFail /\ pc = "check" =>
    \A p \in Procs : Short(p) =>
      \A e \in Entries : Quantity(e, p) > 0 => e \in selected

(* The list that change is made for is the pre-selected entries and the picks *)
(* that still stand, each once.                                               *)
SelectionMatchesIndex ==
  pc \in {"change", "done"} =>
    /\ ToSet(selection) = selected
    /\ Len(selection) = Cardinality(selected)

(* Picks, undone picks and picks that could not be recorded leave index and   *)
(* list in agreement: no value is counted that is not selected, none twice.   *)
SelectionAccounted == TypeOK /\ TotalsExact /\ SelectionMatchesIndex

(* An improvement that does not help leaves the totals of the turn's start.   *)
UndoRestoresTotal ==
  [][(pc = "picked" /\ pc' = "robin" /\ proc \notin active') => total'[proc] = before]_vars

(* What the caller sees of a call is what the contract of coin_selector_impl.h *)
(* allows: a balanced selection with min-ADA compliant change that splits the  *)
(* pool into the selected and the remaining UTXOs, or a failure.               *)
Promised == INSTANCE CoinSelection WITH
  req       <- [pre       |-> SubSeq(req.pool, 1, req.pre),
                available |-> SubSeq(req.pool, req.pre + 1, Len(req.pool)),
                target    |-> req.target],
  status    <- IF pc = "done" THEN "ok" ELSE IF pc = "failed" THEN "failed" ELSE "pending",
  selection <- IF pc = "done" THEN [i \in DOMAIN selection |-> req.pool[selection[i]]] ELSE <<>>,
  remaining <- IF pc = "done"
               THEN LET left == SetToSortSeq(Entries \ selected, <)
                    IN  [i \in DOMAIN left |-> req.pool[left[i]]]
               ELSE <<>>,
  change    <- IF pc = "done" THEN change.outputs ELSE <<>>

ImplementsCoinSelection == Promised!Spec

(* Every call ends: stale draws, retries for more ada and improvement rounds  *)
(* cannot go on for ever.                                                     *)
Termination == <>(pc \in {"done", "failed"})
=============================================================================
