---------------------------- MODULE TargetLevels ----------------------------
(***************************************************************************)
(* blockforest/BlockForest::refresh, first stage: the processes agree on   *)
(* which blocks of the forest of octrees are split and which octets are    *)
(* merged.  A callback asks for a least level for every block; then the    *)
(* processes exchange the target levels of their blocks with the processes *)
(* around them, round by round, first to split what 2:1 balance requires,  *)
(* then to merge what it allows.  No process sees more than its blocks'    *)
(* neighbours, and that one round old.                                     *)
(***************************************************************************)
EXTENDS Integers, Sequences, FiniteSets, Functions

CONSTANTS
  Block, Process,
  Level,           \* [Block -> Nat]  level of a block in its octree
  Nbr,             \* [Block -> SUBSET Block]  getNeighborId
  Siblings,        \* [Block -> SUBSET Block]  neighbours with the same father
  OctetSize,       \* children of a block
  Local,           \* [Process -> Seq(Block)]  blocks_, by BlockID
  ProcOf,          \* [Block -> Process]
  Depth,           \* depth_
  Request,         \* [Block -> SUBSET Nat]  levels the callback may ask for
  Options          \* flags of the forest the runs are made with

(* allowMultipleRefreshCycles_, checkForEarlyOutInRefresh_ and
   reevaluateMinTargetLevelsAfterForcedRefinement_ *)
Flags == [multiple : BOOLEAN, earlyOut : BOOLEAN, reevaluate : BOOLEAN]

ASSUME ForestAssumption ==
  /\ Depth \in Nat \ {0} /\ OctetSize \in Nat \ {0, 1}
  /\ Level \in [Block -> 0..Depth]
  /\ Nbr \in [Block -> SUBSET Block]
  /\ \A b, n \in Block : n \in Nbr[b] =>
       n # b /\ b \in Nbr[n] /\ Level[n] \in (Level[b] - 1)..(Level[b] + 1)
  /\ Siblings \in [Block -> SUBSET Block]
  /\ \A b \in Block, s \in Block : s \in Siblings[b] =>
       /\ s \in Nbr[b] /\ Level[s] = Level[b] /\ Level[b] > 0
       /\ Siblings[s] \cup {s} = Siblings[b] \cup {b}

ASSUME PartitionAssumption ==
  /\ ProcOf \in [Block -> Process]
  /\ Local \in [Process -> Seq(Block)]
  /\ \A p \in Process :
       /\ Range(Local[p]) = {b \in Block : ProcOf[b] = p}
       /\ IsInjective(Local[p])

ASSUME RequestAssumption ==
  /\ \A b \in Block : Request[b] \subseteq Nat /\ Level[b] \in Request[b]
  /\ Options \subseteq Flags

VARIABLES
  opt,          \* the flags of this forest
  target,       \* target[b]: targetLevel_ of block b
  minTarget,    \* minTarget[b]: minTargetLevels of its process
  asked,        \* asked[b]: what the callback last asked for b (history)
  pc,           \* pc[p]: where p is in determineBlockTargetLevels
  round,        \* round[p]: iterations p has ended, splits before merges
  forced,       \* forced[p]: forcedRefinement
  more,         \* more[p]: additionalRefreshCycleRequired
  rerun,        \* rerun[p]
  levelMail,    \* target levels under way (tag 1182)
  mergeMail,    \* blocks willing to merge under way (tag 1183)
  willing       \* willing[p]: intentToMerge[process_] of the last merge iteration

vars == <<opt, target, minTarget, asked, pc, round, forced, more, rerun,
          levelMail, mergeMail, willing>>

-----------------------------------------------------------------------------
BlocksOf(p) == {b \in Block : ProcOf[b] = p}

(* Blocks of p next to blocks of q: keys of localTargetLevelsForNeighbors[q] *)
Border(p, q) == {b \in BlocksOf(p) : \E n \in Nbr[b] : ProcOf[n] = q}

(* ranksToRecvFrom *)
Partners == [p \in Process |-> {q \in Process \ {p} : Border(p, q) # {}}]

(* Blocks already marked for refinement are not shown to the callback again. *)
Marked(b) == target[b] > Level[b]

(* Without further cycles a callback that asks for more than one level fails a
   WALBERLA_CHECK. *)
Askable(b) ==
  IF Marked(b) THEN {target[b]}
  ELSE {l \in Request[b] : opt.multiple \/ l <= Level[b] + 1}

(* Mutant: the request is cut to one level, and the rest of it forgotten. *)
WantsMoreForgotten(req, p) == FALSE

(* A request for more than one level needs another cycle. *)
WantsMore(req, p) == \E b \in BlocksOf(p) : req[b] > Level[b] + 1

Lesser(a, b) == IF a < b THEN a ELSE b

Greater(a, b) == IF a < b THEN b ELSE a

(* From the start of determineBlockTargetLevels to its reductions *)
Evaluate(p) ==
  /\ pc[p] = "start"
  /\ \E req \in [BlocksOf(p) -> UNION {Request[b] \cup {target[b]} : b \in BlocksOf(p)}] :
       /\ \A b \in BlocksOf(p) : req[b] \in Askable(b)
       /\ minTarget' = [b \in Block |-> IF ProcOf[b] = p THEN Lesser(req[b], Level[b] + 1)
                                                         ELSE minTarget[b]]
       /\ asked' = [b \in Block |-> IF ProcOf[b] = p /\ ~Marked(b) THEN req[b] ELSE asked[b]]
       /\ more' = [more EXCEPT ![p] = WantsMore(req, p)]
  /\ target' = [b \in Block |-> IF ProcOf[b] = p THEN Greater(Level[b], minTarget'[b])
                                                 ELSE target[b]]
  /\ pc' = [pc EXCEPT ![p] = IF opt.multiple \/ opt.earlyOut THEN "evaluated" ELSE "send"]
  /\ forced' = [forced EXCEPT ![p] = FALSE]
  /\ rerun' = [rerun EXCEPT ![p] = FALSE]
  /\ UNCHANGED <<opt, round, levelMail, mergeMail, willing>>

(* The reductions over all processes: is anything to change at all, and does
   anyone want another cycle? *)
Agree ==
  /\ \A p \in Process : pc[p] = "evaluated"
  /\ IF opt.earlyOut /\ \A b \in Block : minTarget[b] = Level[b]
     THEN pc' = [p \in Process |-> "done"]
     ELSE pc' = [p \in Process |-> "send"]
  /\ more' = [p \in Process |-> opt.multiple /\ \E q \in Process : more[q]]
  /\ UNCHANGED <<opt, target, minTarget, asked, round, forced, rerun, levelMail, mergeMail, willing>>

(* Send the target levels of the border to every partner: the beginning of an
   iteration, of a split or of a merge *)
SendLevels(p) ==
  /\ pc[p] = "send"
  /\ levelMail' = [c \in Process \X Process |->
       IF c[1] = p /\ c[2] \in Partners[p]
       THEN Append(levelMail[c], [b \in Border(p, c[2]) |-> target[b]])
       ELSE levelMail[c]]
  /\ pc' = [pc EXCEPT ![p] = IF round[p] < Depth THEN "split" ELSE "intend"]
  /\ UNCHANGED <<opt, target, minTarget, asked, round, forced, more, rerun, mergeMail, willing>>

-----------------------------------------------------------------------------
(* The level p knows block b to have: its own, up to date, or as received *)
Seen(p, b, own) ==
  IF ProcOf[b] = p THEN own[b] ELSE Head(levelMail[<<ProcOf[b], p>>])[b]

AllMail(mail, p) == \A q \in Partners[p] : mail[<<q, p>>] # <<>>

(* One message of every partner is consumed. *)
Taken(mail, p) ==
  [c \in Process \X Process |-> IF c[2] = p /\ c[1] \in Partners[p]
                                THEN Tail(mail[c]) ELSE mail[c]]

MustSplit(p, b, own) ==
  own[b] = Level[b] /\ \E n \in Nbr[b] : Seen(p, n, own) > own[b] + 1

(* Target levels once the blocks of S are split *)
AfterSplits(S) == [b \in Block |-> IF b \in S THEN Level[b] + 1 ELSE target[b]]

(* The blocks of p are visited one after the other; a block sees what this visit
   has changed before it.  S are the blocks that are split. *)
Splits(p, S) ==
  \A i \in DOMAIN Local[p] :
    LET before == {Local[p][j] : j \in 1..(i - 1)}
    IN  Local[p][i] \in S <=> MustSplit(p, Local[p][i], AfterSplits(S \cap before))

(* Mutant: one iteration too few. *)
RoundsShort == Depth - 1

(* Iterations that let a split reach blocks Depth levels away *)
Rounds == Depth

Split(p) ==
  /\ pc[p] = "split"
  /\ AllMail(levelMail, p)
  /\ \E S \in SUBSET BlocksOf(p) :
       /\ Splits(p, S)
       /\ target' = AfterSplits(S)
       /\ forced' = [forced EXCEPT ![p] = @ \/ S # {}]
  /\ levelMail' = Taken(levelMail, p)
  /\ round' = [round EXCEPT ![p] = IF @ + 1 < Rounds THEN @ + 1 ELSE Depth]
  /\ pc' = [pc EXCEPT ![p] = IF round'[p] = Depth /\ opt.reevaluate THEN "reduce" ELSE "send"]
  /\ UNCHANGED <<opt, minTarget, asked, more, rerun, mergeMail, willing>>

(* Mutant: what was forced in an earlier pass counts again. *)
RerunAnyMark == \E b \in Block : Marked(b)

RerunNeeded == \E p \in Process : forced[p]

(* The callback is to be asked again after a split for balance. *)
Reduce ==
  /\ \A p \in Process : pc[p] = "reduce"
  /\ rerun' = [p \in Process |-> RerunNeeded]
  /\ pc' = [p \in Process |-> "send"]
  /\ UNCHANGED <<opt, target, minTarget, asked, round, forced, more, levelMail, mergeMail, willing>>

-----------------------------------------------------------------------------
(* Mutant: what has merged already is not taken off the list. *)
InOctetTwice(b) ==
  /\ Level[b] > 0 /\ target[b] <= Level[b] /\ minTarget[b] < Level[b]
  /\ Cardinality(Siblings[b]) = OctetSize - 1

(* octetMember: blocks of complete octets that may merge and have not *)
InOctet(b) ==
  /\ Level[b] > 0 /\ target[b] = Level[b] /\ minTarget[b] < Level[b]
  /\ Cardinality(Siblings[b]) = OctetSize - 1

(* Mutant: a block merges only if its neighbours are coarser. *)
MergeCapableStrict(p, b) == \A n \in Nbr[b] : Seen(p, n, target) < target[b]

MergeCapable(p, b) == \A n \in Nbr[b] : Seen(p, n, target) <= target[b]

(* An iteration of merges: receive levels, tell who is willing to merge *)
Intend(p) ==
  /\ pc[p] = "intend"
  /\ AllMail(levelMail, p)
  /\ levelMail' = Taken(levelMail, p)
  /\ willing' = [willing EXCEPT ![p] = {b \in BlocksOf(p) : InOctet(b) /\ MergeCapable(p, b)}]
  /\ mergeMail' = [c \in Process \X Process |->
       IF c[1] = p /\ c[2] \in Partners[p] THEN Append(mergeMail[c], willing'[p])
                                           ELSE mergeMail[c]]
  /\ pc' = [pc EXCEPT ![p] = "merge"]
  /\ UNCHANGED <<opt, target, minTarget, asked, round, forced, more, rerun>>

WillingAt(p, q) == IF p = q THEN willing[p] ELSE Head(mergeMail[<<q, p>>])

MergePossible(p, b) ==
  b \in willing[p] /\ \A s \in Siblings[b] : s \in WillingAt(p, ProcOf[s])

(* ... and merge the octets all of whose members are. *)
Merge(p) ==
  /\ pc[p] = "merge"
  /\ AllMail(mergeMail, p)
  /\ mergeMail' = Taken(mergeMail, p)
  /\ target' = [b \in Block |-> IF ProcOf[b] = p /\ MergePossible(p, b)
                                THEN target[b] - 1 ELSE target[b]]
  /\ round' = [round EXCEPT ![p] = @ + 1]
  /\ pc' = [pc EXCEPT ![p] = IF round'[p] < 2 * Depth THEN "send" ELSE "done"]
  /\ UNCHANGED <<opt, minTarget, asked, forced, more, rerun, levelMail, willing>>

(* refresh calls determineBlockTargetLevels as long as it asks for it. *)
Again(p) ==
  /\ pc[p] = "done" /\ rerun[p]
  /\ pc' = [pc EXCEPT ![p] = "start"]
  /\ round' = [round EXCEPT ![p] = 0]
  /\ UNCHANGED <<opt, target, minTarget, asked, forced, more, rerun,
                 levelMail, mergeMail, willing>>

Decided == \A p \in Process : pc[p] = "done" /\ ~rerun[p]

Stay == Decided /\ UNCHANGED vars

-----------------------------------------------------------------------------
Init ==
  /\ opt \in Options
  /\ target = Level
  /\ minTarget = Level
  /\ asked = Level
  /\ pc = [p \in Process |-> "start"]
  /\ round = [p \in Process |-> 0]
  /\ forced = [p \in Process |-> FALSE]
  /\ more = [p \in Process |-> FALSE]
  /\ rerun = [p \in Process |-> FALSE]
  /\ levelMail = [c \in Process \X Process |-> <<>>]
  /\ mergeMail = [c \in Process \X Process |-> <<>>]
  /\ willing = [p \in Process |-> {}]

Next ==
  \/ \E p \in Process : Evaluate(p)
  \/ Agree
  \/ \E p \in Process : SendLevels(p)
  \/ \E p \in Process : Split(p)
  \/ Reduce
  \/ \E p \in Process : Intend(p)
  \/ \E p \in Process : Merge(p)
  \/ \E p \in Process : Again(p)
  \/ Stay

Spec == Init /\ [][Next]_vars

Advance(p) ==
  Evaluate(p) \/ SendLevels(p) \/ Split(p) \/ Intend(p) \/ Merge(p) \/ Again(p)

(* All processes go on, and no message or reduction gets stuck in MPI. *)
Fairness == WF_vars(Agree) /\ WF_vars(Reduce) /\ \A p \in Process : WF_vars(Advance(p))

FairSpec == Spec /\ Fairness

-----------------------------------------------------------------------------
(* Properties *)

(* Type invariant: a target level differs by at most one from the level. *)
TypeOK ==
  /\ opt \in Options
  /\ target \in [Block -> Int]
  /\ \A b \in Block : target[b] \in (Level[b] - 1)..(Level[b] + 1) /\ target[b] >= 0
  /\ minTarget \in [Block -> Nat]
  /\ asked \in [Block -> Nat]
  /\ pc \in [Process -> {"start", "evaluated", "send", "split", "reduce", "intend",
                         "merge", "done"}]
  /\ round \in [Process -> 0..(2 * Depth)]
  /\ forced \in [Process -> BOOLEAN] /\ more \in [Process -> BOOLEAN]
  /\ rerun \in [Process -> BOOLEAN]
  /\ DOMAIN levelMail = Process \X Process
  /\ DOMAIN mergeMail = Process \X Process
  /\ \A p, q \in Process :
       /\ levelMail[<<p, q>>] \in Seq([Border(p, q) -> Nat])
       /\ mergeMail[<<p, q>>] \in Seq(SUBSET BlocksOf(p))
  /\ willing \in [Process -> SUBSET Block]

(* The levels decided on keep 2:1 balance: neighbours differ by at most one. *)
Balanced ==
  Decided => \A b \in Block : \A n \in Nbr[b] :
               target[n] \in (target[b] - 1)..(target[b] + 1)

(* A block is merged only with all of its octet, wherever the members live. *)
OctetsTogether ==
  Decided => \A b \in Block : target[b] < Level[b] =>
               /\ Cardinality(Siblings[b]) = OctetSize - 1
               /\ \A s \in Siblings[b] : target[s] = target[b]

(* No split without a reason: each is asked for or needed for balance. *)
SplitsNeeded ==
  Decided => \A b \in Block : target[b] > Level[b] =>
               \/ asked[b] > Level[b]
               \/ \E n \in Nbr[b] : target[n] = Level[b] + 2

(* No merge is missed: an octet that is left could not be merged. *)
MergesDone ==
  Decided => \A b \in Block : InOctet(b) =>
               \E s \in Siblings[b] \cup {b} :
                 ~InOctet(s) \/ \E n \in Nbr[s] : target[n] > target[s]

(* The forest decided on can exist. *)
ForestValid == Balanced /\ OctetsTogether

(* The decision splits no more and merges no less than it has to. *)
DecisionTight == SplitsNeeded /\ MergesDone

(* What the callback asks for is a "guaranteed minimal block level"
   (BlockForest.h): reached now, or another cycle is announced. *)
LevelGuaranteed ==
  Decided => \A b \in Block : asked[b] <= target[b] \/ \A p \in Process : more[p]

(* The levels are decided on, however often the callback is asked again. *)
Decides == <>Decided
=============================================================================
