-------------------------- MODULE PhantomMigration --------------------------
(***************************************************************************)
(* blockforest/BlockForest::refresh, second and third stage: the blocks    *)
(* whose new levels are decided are not moved themselves while the load is *)
(* balanced.  Every process makes phantoms of the blocks to be, the        *)
(* processes tell each other where the phantoms around them are, a         *)
(* callback sends them from process to process in several rounds, and only *)
(* then the data of each block is sent once, from where the block was to   *)
(* where its phantom has come to rest.  A phantom knows the processes of   *)
(* its source blocks, which stay; a block knows the processes of its       *)
(* phantoms, which move, and is told of each move.                         *)
(***************************************************************************)
EXTENDS Naturals, Sequences, FiniteSets, SequencesExt

CONSTANTS
  Rank,        \* the MPI processes
  Id,          \* block identifiers
  Children,    \* [Id -> Seq(Id)]  children of a block, none for the smallest
  Touch,       \* [Id -> SUBSET Id]  blocks that would touch a block
  Jobs,        \* what a refresh may have to do, see Job
  NoData       \* contents of a block that is only allocated

ASSUME TreeAssumption ==
  /\ IsFiniteSet(Id)
  /\ Children \in [Id -> Seq(Id)]
  /\ \A f \in Id : Len(Children[f]) # 1
  /\ \A f, g \in Id : f # g => ToSet(Children[f]) \cap ToSet(Children[g]) = {}
  /\ \A f \in Id : \A i, j \in DOMAIN Children[f] : i # j =>
       Children[f][i] \in Touch[Children[f][j]]
  /\ Touch \in [Id -> SUBSET Id]
  /\ \A x \in Id : x \notin Touch[x] /\ \A y \in Touch[x] : x \in Touch[y]

(* Given to a refresh: the blocks with their processes, what is to become of
   each, the process network with buffer processes or without, whether an early
   out after load balancing is checked for, and what the load balancing callback
   will answer in each of its rounds.  No leaf has a leaf or a block to be above
   it, what splits has children, and what merges does so with all its siblings. *)
Job(j) ==
  LET L == DOMAIN j.place
  IN  /\ L \subseteq Id /\ j.place \in [L -> Rank]
      /\ j.mark \in [L -> {"keep", "split", "merge"}]
      /\ j.network \in [Rank -> SUBSET Rank]
      /\ \A p, q \in Rank : q \in j.network[p] <=> p \in j.network[q]
      /\ j.buffers \in BOOLEAN /\ j.earlyOut \in BOOLEAN
      /\ j.rounds \in Seq([Id -> Rank])
      /\ \A f \in Id : \A b \in L \cap ToSet(Children[f]) :
           /\ f \notin L
           /\ j.mark[b] = "merge" =>
                /\ \A s \in ToSet(Children[f]) : s \in L /\ j.mark[s] = "merge"
                /\ \A g \in Id : f \in ToSet(Children[g]) => g \notin L
      /\ \A b \in L :
           /\ j.mark[b] = "split" => Children[b] # <<>>
           /\ j.mark[b] = "merge" => \E f \in Id : b \in ToSet(Children[f])

ASSUME JobsAssumption == \A j \in Jobs : Job(j)

VARIABLES
  job,         \* what this refresh has to do
  blocks,      \* blocks[p]: blocks_ of the BlockForest of p
  phantoms,    \* phantoms[p]: blocks_ of its PhantomBlockForest
  known,       \* known[p]: blockNeighborhood[process] while phantoms meet
  network,     \* network[p]: neighborhood_ of the PhantomBlockForest
  pc,          \* pc[p]: what p does next
  iter,        \* iter[p]: rounds of load balancing p has ended
  await,       \* await[p]: processes p receives from next
  mail         \* mail[t][<<s, d>>]: messages of kind t under way

vars == <<job, blocks, phantoms, known, network, pc, iter, await, mail>>

-----------------------------------------------------------------------------
(* The buffer systems of a refresh, in the order of their first use *)
Tag == {"meet", "network", "moves", "links", "phantoms", "states", "data"}

Leaves == DOMAIN job.place

(* Where a child belongs: getFatherId, and getBranchId counted from 1 *)
Father == [x \in UNION {ToSet(Children[f]) : f \in Id} |->
             CHOOSE f \in Id : x \in ToSet(Children[f])]

Branch == [x \in DOMAIN Father |-> CHOOSE i \in DOMAIN Children[Father[x]] :
                                    Children[Father[x]][i] = x]

(* Phantoms begun by a leaf: a father by its first child only *)
BegunBy(j, b) ==
  CASE j.mark[b] = "keep" -> {b}
    [] j.mark[b] = "split" -> ToSet(Children[b])
    [] j.mark[b] = "merge" -> {f \in {Father[b]} : Branch[b] = 1}

(* Blocks a block will be: itself, its children or its father *)
Targets(b) == CASE job.mark[b] = "keep" -> <<b>>
                [] job.mark[b] = "split" -> Children[b]
                [] job.mark[b] = "merge" -> <<Father[b]>>

(* Blocks a block to be is made of *)
Sources(x) == IF x \in Leaves THEN <<x>>
              ELSE IF x \in DOMAIN Father /\ Father[x] \in Leaves THEN <<Father[x]>>
              ELSE Children[x]

(* sourceBlockHasTheSameSize *)
SameSize(x) == x \in Leaves

(* Where the refresh is to lead to: the blocks to be, and their process after
   n rounds.  A father is begun where its first child is. *)
NewLeaves == UNION {ToSet(Targets(b)) : b \in Leaves}

PlaceAt(x, n) == IF n = 0 THEN job.place[Sources(x)[1]] ELSE job.rounds[n][x]

Rounds == Len(job.rounds)

-----------------------------------------------------------------------------
(* Messages *)
Arrived(t, p) == \A q \in await[p] : mail[t][<<q, p>>] # <<>>

Msg(t, q, p) == Head(mail[t][<<q, p>>])

(* One message of every awaited process is taken. *)
Taken(t, p) ==
  [mail EXCEPT ![t] = [c \in Rank \X Rank |->
     IF c[2] = p /\ c[1] \in await[p] THEN Tail(@[c]) ELSE @[c]]]

(* p sends msg[q] to every q of its domain. *)
Post(m, t, p, msg) ==
  [m EXCEPT ![t] = [c \in Rank \X Rank |->
     IF c[1] = p /\ c[2] \in DOMAIN msg THEN Append(@[c], msg[c[2]]) ELSE @[c]]]

Await(p, from) == await' = [await EXCEPT ![p] = from]

Goto(p, l) == pc' = [pc EXCEPT ![p] = l]

Range2(f) == {f[x] : x \in DOMAIN f}

(* Several maps in one.  What is in two of them is the same in both: KnownOnce. *)
Merged(maps) ==
  [x \in UNION {DOMAIN m : m \in maps} |-> (CHOOSE m \in maps : x \in DOMAIN m)[x]]

(* Processes of the neighbours of some blocks or phantoms *)
Around(p, bs) == (UNION {Range2(bs[x].nbr) : x \in DOMAIN bs}) \ {p}

-----------------------------------------------------------------------------
(* PhantomBlockForest::initialize *)

(* The sources of a father: its first child knows its siblings' processes. *)
SourceOfFather(p, f) ==
  LET nbr == blocks[p][Children[f][1]].nbr
  IN  [i \in DOMAIN Children[f] |->
         IF Children[f][i] \in DOMAIN nbr THEN nbr[Children[f][i]] ELSE p]

(* Phantoms p begins with *)
Begun(p) == UNION {BegunBy(job, b) : b \in DOMAIN blocks[p]}

(* Mutant: one target process for all children. *)
FirstTargetOne(p, b) ==
  IF job.mark[b] # "merge" \/ Branch[b] = 1 THEN <<p>>
  ELSE <<blocks[p][b].nbr[Children[Father[b]][1]]>>

(* targetProcess_ of a block whose phantoms have just been made *)
FirstTarget(p, b) ==
  IF job.mark[b] # "merge" THEN [i \in DOMAIN Targets(b) |-> p]
  ELSE IF Branch[b] = 1 THEN <<p>> ELSE <<blocks[p][b].nbr[Children[Father[b]][1]]>>

Create(p) ==
  /\ pc[p] = "create"
  /\ phantoms' = [phantoms EXCEPT ![p] = [x \in Begun(p) |->
       [from |-> IF SameSize(x) \/ Len(Sources(x)) = 1 THEN <<p>> ELSE SourceOfFather(p, x),
        to |-> p, nbr |-> <<>>]]]
  /\ blocks' = [blocks EXCEPT ![p] = [b \in DOMAIN @ |-> [@[b] EXCEPT !.to = FirstTarget(p, b)]]]
  /\ known' = [known EXCEPT ![p] = [x \in Begun(p) |-> p]]
  /\ Await(p, Around(p, blocks[p]))
  /\ mail' = Post(mail, "meet", p, [q \in Around(p, blocks[p]) |-> known'[p]])
  /\ Goto(p, "meet")
  /\ UNCHANGED <<job, network, iter>>

(* What p knows, and what its neighbours have sent *)
Heard(p) == {known[p]} \cup {Msg("meet", q, p) : q \in await[p]}

Learned(p) == Merged(Heard(p))

(* Mutant: the second message repeats the first. *)
MeetOnlyOwn(p) ==
  /\ pc[p] = "meet"
  /\ Arrived("meet", p)
  /\ known' = [known EXCEPT ![p] = Learned(p)]
  /\ mail' = Post(Taken("meet", p), "meet", p, [q \in await[p] |-> known[p]])
  /\ Goto(p, "reconstruct")
  /\ UNCHANGED <<job, blocks, phantoms, network, iter, await>>

(* ... sent on once more, so that two processes apart know of each other *)
Meet(p) ==
  /\ pc[p] = "meet"
  /\ Arrived("meet", p)
  /\ known' = [known EXCEPT ![p] = Learned(p)]
  /\ mail' = Post(Taken("meet", p), "meet", p, [q \in await[p] |-> known'[p]])
  /\ Goto(p, "reconstruct")
  /\ UNCHANGED <<job, blocks, phantoms, network, iter, await>>

(* Neighbours of a phantom, reconstructed from all that is known *)
Reconstructed(x, k) == [y \in DOMAIN k \cap Touch[x] |-> k[y]]

(* updateNeighborhood; with buffer processes the neighbours first tell each
   other whether they have phantoms. *)
UpdateNeighborhood(p, m) ==
  IF job.buffers
  THEN /\ Await(p, network[p])
       /\ mail' = Post(m, "network", p, [q \in network[p] |-> DOMAIN phantoms'[p] = {}])
       /\ Goto(p, "network")
       /\ UNCHANGED network
  ELSE /\ network' = [network EXCEPT ![p] = Around(p, phantoms'[p])]
       /\ mail' = m
       /\ Goto(p, "balance")
       /\ UNCHANGED await

Reconstruct(p) ==
  /\ pc[p] = "reconstruct"
  /\ Arrived("meet", p)
  /\ known' = [known EXCEPT ![p] = <<>>]
  /\ phantoms' = [phantoms EXCEPT ![p] = [x \in DOMAIN @ |->
                    [@[x] EXCEPT !.nbr = Reconstructed(x, Learned(p))]]]
  /\ UpdateNeighborhood(p, Taken("meet", p))
  /\ UNCHANGED <<job, blocks, iter>>

(* Empty neighbours stay in the network, and all stay in that of an empty one. *)
Kept(p) ==
  {q \in await[p] : Msg("network", q, p)}
    \cup (IF DOMAIN phantoms[p] = {} THEN network[p] ELSE {})

Network(p) ==
  /\ pc[p] = "network"
  /\ Arrived("network", p)
  /\ network' = [network EXCEPT ![p] = Kept(p) \cup Around(p, phantoms[p])]
  /\ mail' = Taken("network", p)
  /\ Goto(p, "balance")
  /\ UNCHANGED <<job, blocks, phantoms, known, iter, await>>

-----------------------------------------------------------------------------
(* One round of load balancing *)

(* calculateMigrationInformation, then every phantom tells its neighbours where
   it will go to. *)
Balance(p) ==
  /\ pc[p] = "balance" /\ iter[p] < Rounds
  /\ phantoms' = [phantoms EXCEPT ![p] = [x \in DOMAIN @ |->
                    [@[x] EXCEPT !.to = job.rounds[iter[p] + 1][x]]]]
  /\ Await(p, Around(p, phantoms[p]))
  /\ mail' = Post(mail, "moves", p, [q \in Around(p, phantoms[p]) |->
                    [x \in DOMAIN phantoms[p] |-> phantoms'[p][x].to]])
  /\ Goto(p, "moves")
  /\ UNCHANGED <<job, blocks, known, network, iter>>

(* Where the neighbour y of a phantom of p is going *)
Going(p, x, y) ==
  LET q == phantoms[p][x].nbr[y]
  IN  IF q = p THEN phantoms[p][y].to ELSE Msg("moves", q, p)[y]

(* Mutant: a child's move is noted as that of the first child. *)
LinksToIndexOne(p, s) ==
  UNION {{<<Sources(x)[i], 1, phantoms[p][x].to>> :
          i \in {j \in DOMAIN phantoms[p][x].from : phantoms[p][x].from[j] = s}} :
         x \in DOMAIN phantoms[p]}

(* The blocks of process s a phantom of p comes from, told that it moves:
   <<block, index of the phantom among its targets, new process>> *)
LinksTo(p, s) ==
  UNION {{<<Sources(x)[i],
            IF Len(Sources(x)) = 1 /\ ~SameSize(x) THEN Branch[x] ELSE 1,
            phantoms[p][x].to>> :
          i \in {j \in DOMAIN phantoms[p][x].from : phantoms[p][x].from[j] = s}} :
         x \in DOMAIN phantoms[p]}

(* setTargetProcess for every link *)
Relinked(bs, links) ==
  [b \in DOMAIN bs |-> [bs[b] EXCEPT !.to = [i \in DOMAIN @ |->
     IF \E l \in links : l[1] = b /\ l[2] = i
     THEN (CHOOSE l \in links : l[1] = b /\ l[2] = i)[3] ELSE @[i]]]]

BlockTargets(p, bs) == (UNION {ToSet(bs[b].to) : b \in DOMAIN bs}) \ {p}

Link(p) ==
  /\ pc[p] = "moves"
  /\ Arrived("moves", p)
  /\ phantoms' = [phantoms EXCEPT ![p] = [x \in DOMAIN @ |->
       [@[x] EXCEPT !.nbr = [y \in DOMAIN phantoms[p][x].nbr |-> Going(p, x, y)]]]]
  /\ blocks' = [blocks EXCEPT ![p] = Relinked(@, LinksTo(p, p))]
  /\ Await(p, BlockTargets(p, blocks[p]))
  /\ mail' = Post(Taken("moves", p), "links", p,
                  [s \in {q \in Rank \ {p} : LinksTo(p, q) # {}} |-> LinksTo(p, s)])
  /\ Goto(p, "links")
  /\ UNCHANGED <<job, known, network, iter>>

(* Mutant: a process awaits itself, too. *)
SendersSelf(p, n) == {PlaceAt(x, n - 1) : x \in {y \in NewLeaves : PlaceAt(y, n) = p}}

(* What the callback told p of whom phantoms will come from in round n.  That it
   names them all, and no others, is its contract: load balancers find out by asking
   their neighbours or by a gathering of all answers, and PhantomBlockForest takes
   processesToRecvFrom_ as it comes. *)
Senders(p, n) == {PlaceAt(x, n - 1) : x \in {y \in NewLeaves : PlaceAt(y, n) = p}} \ {p}

Leaving(p, q) == {x \in DOMAIN phantoms[p] : phantoms[p][x].to = q}

(* Links arrive, phantoms leave. *)
Depart(p) ==
  /\ pc[p] = "links"
  /\ Arrived("links", p)
  /\ blocks' = [blocks EXCEPT ![p] = Relinked(@, UNION {Msg("links", q, p) : q \in await[p]})]
  /\ phantoms' = [phantoms EXCEPT ![p] = [x \in Leaving(p, p) |-> @[x]]]
  /\ mail' = Post(Taken("links", p), "phantoms", p,
                  [q \in {r \in Rank \ {p} : Leaving(p, r) # {}} |->
                    [x \in Leaving(p, q) |-> phantoms[p][x]]])
  /\ Await(p, Senders(p, iter[p] + 1))
  /\ Goto(p, "phantoms")
  /\ UNCHANGED <<job, known, network, iter>>

Arrive(p) ==
  /\ pc[p] = "phantoms"
  /\ Arrived("phantoms", p)
  /\ phantoms' = [phantoms EXCEPT ![p] =
                    Merged({@} \cup {Msg("phantoms", q, p) : q \in await[p]})]
  /\ iter' = [iter EXCEPT ![p] = @ + 1]
  /\ UpdateNeighborhood(p, Taken("phantoms", p))
  /\ UNCHANGED <<job, blocks, known>>

-----------------------------------------------------------------------------
(* BlockForest::update *)

(* The phantoms are at rest. *)
Rest(p) ==
  /\ pc[p] = "balance" /\ iter[p] = Rounds
  /\ Goto(p, IF job.earlyOut THEN "vote" ELSE "update")
  /\ UNCHANGED <<job, blocks, phantoms, known, network, iter, await, mail>>

(* Some phantom has a source on another process. *)
PerformUpdate ==
  \E p \in Rank : \E x \in DOMAIN phantoms[p] : ToSet(phantoms[p][x].from) # {p}

(* checkForEarlyOutAfterLoadBalancing *)
Vote ==
  /\ \A p \in Rank : pc[p] = "vote"
  /\ pc' = [p \in Rank |-> IF PerformUpdate THEN "update" ELSE "done"]
  /\ UNCHANGED <<job, blocks, phantoms, known, network, iter, await, mail>>

(* Phantoms that become blocks of p anew *)
Fresh(p) == {x \in DOMAIN phantoms[p] : ~SameSize(x) \/ phantoms[p][x].from[1] # p}

(* Blocks of p that are packed and deleted *)
Gone(p) == {b \in DOMAIN blocks[p] : job.mark[b] # "keep" \/ blocks[p][b].to[1] # p}

FreshSources(p) == (UNION {ToSet(phantoms[p][x].from) : x \in Fresh(p)}) \ {p}

(* The states of the blocks to be are sent to their sources. *)
SendStates(p) ==
  /\ pc[p] = "update"
  /\ mail' = Post(mail, "states", p, [q \in FreshSources(p) |->
                    {x \in Fresh(p) : q \in ToSet(phantoms[p][x].from)}])
  /\ Await(p, BlockTargets(p, [b \in Gone(p) |-> blocks[p][b]]))
  /\ Goto(p, "states")
  /\ UNCHANGED <<job, blocks, phantoms, known, network, iter>>

(* Buffers packed on p for q, one for every target of a block *)
BuffersTo(p, q) ==
  UNION {{[from |-> b, to |-> Targets(b)[i], data |-> blocks[p][b].data] :
            i \in {k \in DOMAIN Targets(b) : blocks[p][b].to[k] = q}} :
         b \in Gone(p)}

(* Pack, delete, send, create.  Buffers of p for itself are kept aside. *)
Pack(p) ==
  /\ pc[p] = "states"
  /\ Arrived("states", p)
  /\ mail' = Post(Taken("states", p), "data", p,
                  [r \in {q \in Rank : BuffersTo(p, q) # {}} |-> BuffersTo(p, r)])
  /\ blocks' = [blocks EXCEPT ![p] = [x \in DOMAIN phantoms[p] |->
       [to |-> <<>>, nbr |-> phantoms[p][x].nbr,
        data |-> IF x \in Fresh(p) THEN NoData ELSE blocks[p][x].data]]]
  /\ Await(p, FreshSources(p) \cup {q \in {p} : BuffersTo(p, p) # {}})
  /\ Goto(p, "data")
  /\ UNCHANGED <<job, phantoms, known, network, iter>>

(* Mutant: the children's data in another order. *)
UnpackedReversed(x, bufs) ==
  IF Len(Sources(x)) = 1 THEN (CHOOSE b \in bufs : b.to = x).data
  ELSE Reverse([i \in DOMAIN Sources(x) |->
                  (CHOOSE b \in bufs : b.to = x /\ b.from = Sources(x)[i]).data])

(* Contents of the block x, from the buffers for it *)
Unpacked(x, bufs) ==
  IF Len(Sources(x)) = 1 THEN (CHOOSE b \in bufs : b.to = x).data
  ELSE [i \in DOMAIN Sources(x) |->
          (CHOOSE b \in bufs : b.to = x /\ b.from = Sources(x)[i]).data]

Unpack(p) ==
  /\ pc[p] = "data"
  /\ Arrived("data", p)
  /\ LET bufs == UNION {Msg("data", q, p) : q \in await[p]}
     IN  blocks' = [blocks EXCEPT ![p] = [x \in DOMAIN @ |->
           IF x \in Fresh(p) THEN [@[x] EXCEPT !.data = Unpacked(x, bufs)] ELSE @[x]]]
  /\ mail' = Taken("data", p)
  /\ Goto(p, "done")
  /\ UNCHANGED <<job, phantoms, known, network, iter, await>>

AllDone == \A p \in Rank : pc[p] = "done"

Stay == AllDone /\ UNCHANGED vars

-----------------------------------------------------------------------------
Init ==
  /\ job \in Jobs
  /\ blocks = [p \in Rank |-> [b \in {c \in Leaves : job.place[c] = p} |->
       [to |-> <<>>, nbr |-> [n \in Leaves \cap Touch[b] |-> job.place[n]], data |-> b]]]
  /\ phantoms = [p \in Rank |-> <<>>]
  /\ known = [p \in Rank |-> <<>>]
  /\ network = job.network
  /\ pc = [p \in Rank |-> "create"]
  /\ iter = [p \in Rank |-> 0]
  /\ await = [p \in Rank |-> {}]
  /\ mail = [t \in Tag |-> [c \in Rank \X Rank |-> <<>>]]

Step(p) ==
  \/ Create(p) \/ Meet(p) \/ Reconstruct(p) \/ Network(p)
  \/ Balance(p) \/ Link(p) \/ Depart(p) \/ Arrive(p)
  \/ Rest(p) \/ SendStates(p) \/ Pack(p) \/ Unpack(p)

Next == (\E p \in Rank : Step(p)) \/ Vote \/ Stay

Spec == Init /\ [][Next]_vars

(* All processes go on, and no message or reduction gets stuck in MPI. *)
Fairness == WF_vars(Vote) /\ \A p \in Rank : WF_vars(Step(p))

FairSpec == Spec /\ Fairness

-----------------------------------------------------------------------------
(* Properties *)

(* Type invariant: blocks and phantoms are of the forest before and after. *)
TypeOK ==
  /\ \A p \in Rank :
       /\ DOMAIN blocks[p] \subseteq Leaves \cup NewLeaves
       /\ \A b \in DOMAIN blocks[p] :
            /\ ToSet(blocks[p][b].to) \subseteq Rank
            /\ b \in Leaves /\ pc[p] \notin {"create", "data", "done"} =>
                 Len(blocks[p][b].to) = Len(Targets(b))
            /\ Range2(blocks[p][b].nbr) \subseteq Rank
       /\ DOMAIN phantoms[p] \subseteq NewLeaves
       /\ \A x \in DOMAIN phantoms[p] :
            /\ phantoms[p][x].from \in [DOMAIN Sources(x) -> Rank]
            /\ phantoms[p][x].to \in Rank
            /\ Range2(phantoms[p][x].nbr) \subseteq Rank
       /\ DOMAIN known[p] \subseteq NewLeaves /\ Range2(known[p]) \subseteq Rank
  /\ network \in [Rank -> SUBSET Rank]
  /\ pc \in [Rank -> {"create", "meet", "reconstruct", "network", "balance", "moves",
                       "links", "phantoms", "vote", "update", "states", "data", "done"}]
  /\ iter \in [Rank -> 0..Rounds]
  /\ await \in [Rank -> SUBSET Rank]
  /\ DOMAIN mail = Tag

(* Phantoms of p are known to be around p after this many rounds. *)
Round(p) == iter[p] + (IF pc[p] = "phantoms" THEN 1 ELSE 0)

(* Two hops are enough for two blocks to be that touch: the leaves they are begun
   by have at most one leaf between them. *)
OneBetween ==
  \A j \in Jobs : \A b, c \in DOMAIN j.place :
    \A x \in BegunBy(j, b), y \in BegunBy(j, c) :
      y \in Touch[x] =>
        \E d \in DOMAIN j.place : d \in {b} \cup Touch[b] /\ d \in {c} \cup Touch[c]

(* An early out is checked for only where no level changes. *)
LevelsKept ==
  \A j \in Jobs : j.earlyOut => \A b \in DOMAIN j.mark : j.mark[b] = "keep"

(* After every round, whatever else is under way, a phantom has all blocks to be
   around it for neighbours, on the processes they are on after the same round
   (prepareMigration: "after phantom migration the block neighborhood data is in
   a valid state"), and a new block takes them over. *)
NeighborsKnown ==
  \A p \in Rank :
    /\ pc[p] \in {"network", "balance", "moves", "phantoms", "vote", "update", "states"} =>
         \A x \in DOMAIN phantoms[p] :
           phantoms[p][x].nbr = [y \in NewLeaves \cap Touch[x] |-> PlaceAt(y, Round(p))]
    /\ pc[p] = "done" => \A b \in DOMAIN blocks[p] :
         blocks[p][b].nbr = [y \in NewLeaves \cap Touch[b] |-> PlaceAt(y, Rounds)]

(* The assertions of update: a block that is packed has been told the state of
   each of its targets by the process its link points to, and every process is
   sent as many buffers as its phantoms have sources there. *)
TargetsAnswer ==
  \A p \in Rank :
    /\ pc[p] = "states" /\ Arrived("states", p) =>
         \A b \in Gone(p) : \A i \in DOMAIN Targets(b) :
           LET q == blocks[p][b].to[i]
           IN  Targets(b)[i] \in IF q = p THEN Fresh(p) ELSE Msg("states", q, p)
    /\ pc[p] = "data" /\ Arrived("data", p) =>
         \A q \in await[p] \ {p} :
           Cardinality(Msg("data", q, p)) =
             Cardinality(UNION {{<<x, i>> : i \in {k \in DOMAIN Sources(x) :
                                                    phantoms[p][x].from[k] = q}} :
                                x \in Fresh(p)})

(* Processes that have ended the same round agree on who is in whose network:
   it is what the next exchange and diffusive balancing wait for. *)
NetworkSymmetric ==
  \A p, q \in Rank :
    /\ iter[p] = iter[q]
    /\ {pc[p], pc[q]} \cap {"create", "meet", "reconstruct", "network"} = {}
    => (q \in network[p] <=> p \in network[q])

(* What a process is told twice of a block to be is the same (the assertion on
   localMap in initialize). *)
KnownOnce ==
  \A p \in Rank :
    pc[p] \in {"meet", "reconstruct"} /\ Arrived("meet", p) =>
      \A k, m \in Heard(p) : \A x \in DOMAIN k \cap DOMAIN m : k[x] = m[x]

(* What processes know of each other's phantoms *)
NeighborhoodsRight == NeighborsKnown /\ NetworkSymmetric /\ KnownOnce

(* What the block x is to hold in the end *)
Expected(x) == IF Len(Sources(x)) = 1 THEN Sources(x)[1] ELSE Sources(x)

(* The refresh does what was decided: the blocks to be, each on the one process
   its phantom came to rest on, with the data of the block it was, of its father,
   or of all its children in their order. *)
BlocksRight ==
  AllDone => \A p \in Rank :
    /\ DOMAIN blocks[p] = {x \in NewLeaves : PlaceAt(x, Rounds) = p}
    /\ \A x \in DOMAIN blocks[p] : blocks[p][x].data = Expected(x)

(* Every refresh ends on all processes: whoever is awaited sends. *)
RefreshEnds == <>AllDone
=============================================================================
