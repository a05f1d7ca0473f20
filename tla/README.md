# waLBerla in TLA+

waLBerla is a framework for block-structured simulations (lattice Boltzmann,
rigid particles) that runs as one MPI program on very many processes. There is
no server, no shared memory and no lock; what is hard about it is what the
processes have to agree on by messages alone, while each of them may be a step
ahead of its neighbours. This directory models the parts of the code that carry
those agreements, checks them with TLC on small instances, and proves the
central ones with TLAPS.

Paths below are relative to the `src/src/` tree. `PROJECT.json` maps every
definition to the lines it stands for and lists the runs, mutants, hazards,
findings and theorems.

## 1. Inventory

| Part | State | Operations | Interacts with | Hard behaviour | Correct when | Status |
|---|---|---|---|---|---|---|
| `mesa_pd/mpi/SyncNextNeighbors` + `ParseMessage` | particle slots: flags, owner, ghost owners, position | walk and send, parse one buffer | BufferSystem, domain, storage, kernels | buffers arrive in any order; neighbours a step ahead; two-message hand-over | one owner per particle, none lost, ghost registry exact, ghosts fresh, no check fails, calls end | modelled, safety proved |
| `mesa_pd/mpi/SyncGhostOwners` | as above, and the neighbour state of each copy | two exchanges per call, clearing of ghosts | two BufferSystems | new ghosts announced by other ghosts, racing with removals | what copies note of each other is true; ghosts reach everywhere; calls end | modelled, safety proved |
| `mesa_pd/mpi` property reduction and broadcast | the property of each copy | one exchange each | registry of the sync, same tag as the sync | awaited and sending processes derived from different copies | each contribution counted once, copies agree, no buffer read by another kernel | partly, safety proved |
| `mesa_pd/data/ParticleStorage` | slots, uid map | create, erase, iterate | all kernels | erasing while iterating | same content as seen through uid | partly (as slots) |
| `mesa_pd/domain/BlockForestDomain` | cached local boxes, neighbour boxes | who owns a point, what a sphere meets | BlockForest, sync | -1 means two things | answers agree between processes | partly (as constant functions) |
| `core/mpi/BufferSystem` | way to communicate, remembered sizes, running flag | set-ups, send, receive loop, end | MPI; nearly every module | mode switches on each process alone; size and content under one tag | receivers never mistake a message; steps never mix; steps end | partly (no empty buffers, no runs without MPI), safety proved |
| `blockforest/BlockForest::refresh`, level decision | target levels, refresh flags | callback, split rounds, merge rounds, re-evaluation | user callback, BufferSystem, reductions | decisions of one process on data one round old | 2:1 balance, octets whole, nothing missed, guarantee kept | partly, safety proved for any forest |
| `PhantomBlockForest`, `BlockForest::update` | proxies with links, target processes | initialize, migrate rounds, data transfer | load balancers, BufferSystem | links across moving proxies | every block from the right sources, once | partly, safety proved for any forest |
| `BlockForest` snapshots | own and partner's blocks | create, restore | user mapping | loss of processes at any moment | every block restored once, of one snapshot | partly, safety proved |
| `lbm/free_surface/bubble_model` | bubble ids, merge register, split hints, volumes | convert, update, create | ghost layer exchange, reductions | chains of merges found on several processes; splits seen on stale ids | ids are the connected regions, the same everywhere | partly (ids and volumes, two dimensions) |
| `timeloop`, `executiontree` | step, stop flag | run, single step, stop, agreed stop | user functions, reductions | stop seen by some processes only | all processes make the same number of steps | not modelled |
| `blockforest/communication` schemes | per-scheme buffer systems, set-up flag | start, wait | BufferSystem, pack infos | change of forest between | each direction packed and unpacked once | not modelled |
| `core/mpi` collectives, `OpenMPBufferSystem`; `lbm/refinement/TimeStep`; `BlockID`; `boundary/BoundaryHandling` | | | | fixed order of calls, local bookkeeping | | not modelled |
| static set-up, load balancers, fields, LBM kernels, generated code, GPU, geometry, mesh, PDE, FFT, I/O, Python, SIMD, apps | | | | sequential or numeric | | not modelled |

The reasons for what is not modelled are in section 7 and, component by
component, in `PROJECT.json`.

## 2. Modules

### Particle synchronization

`ParticleSync` models one call of `SyncNextNeighbors::operator()` per time step
and process.

* `ps[r][u]` is what `ParticleStorage` of process `r` holds of particle `u`:
  nothing, a master, or a ghost (flag GHOST), with owner, ghost owners, position.
* `chan[<<s, d>>]` holds the buffers under way. A buffer is a function from
  particles to two notifications, what the loop over the neighbours wrote and
  what the ownership part wrote; notifications on different particles commute.
* `pending[r]` are the processes the receive loop of `r` still awaits, `phase`
  where `r` is in its time step, `gone` (history) what outflow deleted,
  `aborted` whether a `WALBERLA_CHECK` failed.

| Action | Code |
|---|---|
| `Integrate(r)` | an integration kernel moves the masters that are not FIXED, within `Reach` |
| `Sync(r)` | `generateSynchronizationMessages` for every particle, dummy bytes, `setReceiverInfo`, `sendAll`; or a failed check |
| `Parse(r, s)` | one turn of the receive loop: `ParseMessage` for all notifications of the buffer of `s`, in the order written; or a failed check |

`Sync` is one step although it sends several messages: nothing is received
between its sends, and a buffer's contents do not depend on when it leaves. The
geometry is constant functions (`OwnerOf`, `Overlap`, `Inside`, `Wrap`,
`Image`); `MCGrid` computes them for grids of blocks of cells, open or periodic,
for all three particle modules. What some of the theorems ask of the geometry is
named beside the constants: `SmallParticles` (a sphere reaches no further than
the neighbours of its centre's subdomain), `SmallSteps` (nor does one time step
take it further than the neighbours of where it started) and `StepsToNeighbors`
(the centre, at least, gets no further than these). `MCParticleSync` and
`MCPropertyExchange` have TLC evaluate them on the grids of the runs.
`GhostOwnerSync` names two others: `ImagesAgree` (processes see a point of the
domain at the same place, whichever image of it they are told) and `StepsSeen` (a
time step takes a particle only to a neighbour its sphere has met before), which
`MCGhostOwnerSync` has TLC evaluate.

`ParticleOwnership` is what both synchronizations promise of ownership: each
particle is held by one process, on its way to one neighbour of its last holder,
or out for good. `ParticleSync` and `GhostOwnerSync` implement it with `Holder`
(property `ImplementsOwnership`).

`GhostOwnerSync` models `SyncGhostOwners::operator()`, for particles larger than
a subdomain. Slots get `told`, the neighbour state of a copy; `migrating` and
`resolving` are the buffers of the two exchanges.

| Action | Code |
|---|---|
| `Integrate(r)`, `ComeToRest` | time integration, which ends to move particles at some time |
| `UpdateAndMigrate(r)` | first exchange up to `sendAll`: updates for ghosts, hand-over |
| `ParseMigration(r, s)` | one turn of its receive loop |
| `CheckAndResolveOverlap(r)` | second exchange up to `sendAll`: every copy, master or ghost, serves the neighbours of its process |
| `ParseResolution(r, s)` | one turn of its receive loop |
| `ClearGhosts` | `ClearGhostOwnerSync` on all processes between two calls |

`PropertyExchange` extends `ParticleSync` by the rounds of a contact solver
between two synchronizations: `Relax` (kernels that add to a property of all
copies), `SendReduction`/`ParseReduction` (`ReduceProperty`),
`SendBroadcast`/`ParseBroadcast` (`BroadcastProperty`). `wire` keeps which kernel
wrote each buffer: the code does not, and `NoConfusion` is what it relies on.
A property is what it was added from: the number of contributions of each
process to it; the relaxation factor scales all of them and is left out.
The synchronization runs inside of it unchanged (`SyncStep`, `ParseSync`).

### Exchange of buffers

`BufferSystem` models `GenericBufferSystem` with the three classes of
`BufferSystemHelper`. `comm`, `changes`, `running`, `size` are `currentComm_`,
`sizeChangesEverytime_`, `communicationRunning_` and the sizes of `recvInfos_`;
`from` is the set of keys of `recvInfos_`, `want` the state of the receives of the
running step, `chan` MPI's queue for a pair of processes. `to`, `plan`, `load`,
`mode` are chosen at the start: who fills a buffer for whom in each step, the
set-ups the program makes, how much it sends, whether `IProbe` is used and
whether MPI completes a send before its receive. Who sends to whom may differ
from step to step, need not be mutual (a reduction of properties goes from ghosts
to masters only) and may include the process itself (`SyncGhostOwners`).
`ProgramOK` is what a program must keep to: it begins with a set-up, the ranks
registered in each step are those a buffer comes from, and sizes it gives itself
(`SizesGiven`) do not change.

| Action | Code |
|---|---|
| `SetUpStep(r)` | `setReceiverInfo` (both forms), `setReceiverInfoFromSendBufferState`, `sizeHasChanged`, or no call |
| `Start(r)` | `startCommunication`: the receives of the chosen way are scheduled |
| `Send(r, d)` | `send` or one turn of `sendAll`: the messages of one buffer |
| `ReceiveSize`, `ReceiveContent`, `ProbeContent` | `waitForNextReceive` of the three ways |
| `End(r)` | `endCommunication`: wait for sends, perhaps switch to known sizes |
| `Over` | the program has ended, or MPI has reported an error |

`BufferExchange` is the promise: in every step each process hears exactly once
from each process that sends to it in that step, with what was sent in that same
step.
`ParticleSync` relies on it: its channels keep the order of two processes and
lose and duplicate nothing.

### Target levels

`TargetLevels` models `determineBlockTargetLevels` and the loop of `refresh`
around it. `target` and `minTarget` are `targetLevel_` and `minTargetLevels`;
`levelMail` and `mergeMail` are the two buffer systems of the function.

| Action | Code |
|---|---|
| `Evaluate(p)` | the callback, the cut to one level up, the initial target levels |
| `Agree` | the reductions for early out and further cycles (all processes) |
| `SendLevels(p)` | the first half of an iteration of either loop |
| `Split(p)` | the second half of a split iteration: blocks visited in the order of `Local[p]`, each seeing what the visit changed before (`Splits`) |
| `Reduce` | the reduction that asks for a re-evaluation |
| `Intend(p)`, `Merge(p)` | the two halves of a merge iteration |
| `Again(p)` | `refresh` calls again |

A reduction is one step of all processes: none can leave it before all are in.

### Migration of blocks

`PhantomMigration` models the second and third stage of `refresh`, from the
levels `TargetLevels` decides to the new blocks. What is decided, the process
network, the answers of the load balancing callback in each round and the early
out flag are a `job`, chosen at the start.

| Action | Code |
|---|---|
| `Create(p)` | phantoms of the blocks to be; what they tell their neighbours |
| `Meet(p)`, `Reconstruct(p)` | two exchanges of what is known around; neighbourhoods of the phantoms |
| `Network(p)` | `updateNeighborhood` |
| `Balance(p)`, `Link(p)` | the callback's answer; `prepareMigration`: blocks and phantoms are told of the moves |
| `Depart(p)`, `Arrive(p)` | `migrate` |
| `Rest(p)`, `Vote` | end of a round; the reduction for the early out |
| `SendStates(p)`, `Pack(p)`, `Unpack(p)` | `BlockForest::update` |

`Merged` is a map made of several; what two of them say of a block is the same
(`KnownOnce`), so the order in which the code writes them over each other does
not matter. `Job` says what a refresh may be given: leaves of one forest, levels
that keep octets whole, a network that is mutual. Two conditions are named beside
it and asked for only by the theorems and runs that need them: `OneBetween` (two
leaves whose phantoms touch have at most one leaf between them) and `LevelsKept`
(an early out is checked for only where no level changes). `MCPhantomMigration`
has TLC evaluate both; the instance of `MCPhantomCorner` does not have the first.
That the callback names in each round exactly the processes phantoms will come
from is its contract, too, and `Senders` is the right answer: load balancers get
it by asking their neighbours (`DynamicDiffusive`) or by gathering all answers
(`DynamicCurve`), which is not modelled, and nothing is checked of a callback that
forgets a sender.

A message with its size is one message. Bulk actions of one process stand for
code between two of its exchanges; the processes run apart.

### Snapshots

`BlockSnapshot` models `createSnapshot` and `restoreSnapshot`. Both leave a choice
to the caller. Who the partners are is taken from `SnapshotSimulator` of
`apps/benchmarks/SchaeferTurek` (`SendTo`, `RecvFrom`). The mapping of former
ranks is external: `ProcessMapping` gives survivors their new rank and a lost
rank to the holder of its copy. `SnapshotSimulator` clears the data of some
ranks but loses no process, so its mapping follows the same rule with ranks that
do not change. All results are for `ProcessMapping`. A process
works (`Work`), sends its blocks to its partner (`Send`), receives
(`Receive`), passes a `Barrier` and stores (`Store`). `Crash` takes any process
at any of these moments; the others come to `Fail` wherever they next need it,
`Restart` with a smaller communicator, `Restore` and `Resume`. `Recoverable` keeps
losses to those the scheme is made for: a process and its partner are not lost
at once, and a snapshot must have been completed since the last restart. MPI's
part is external: an operation that involves a lost process fails, and the ranks
of a shrunk communicator keep their order (`Shrinks`).

### Bubbles

`BubbleModel` models the ids of gas bubbles across blocks of several processes.
`content` is the kind of each cell, `id[p]` the id field of a process with its
ghost layer, `rename` and `merged` its `MergeInformation`, `hints` its
`splitsToProcess_`, `bubbles` its copy of the global list, `change` the volume
differences.

| Action | Code |
|---|---|
| `Create` | `initFromFillLevelField` up to its exchange |
| `Convert` | `CellConversionSweep` on all blocks, with the reports to the bubble model |
| `Exchange(first)` | the ghost layer exchange of `update`, with `lookForMerges`, from either side first |
| `Merge` | the reduction, `communicateMerges`, `mergeAndReorderBubbleVector`, `renameOnBubbleField` |
| `Split`, `Settle(first)` | `handleSplits` up to the new bubbles; its exchange and merges. `Settle` also ends `initFromFillLevelField` |

Between two collective calls a process reads and writes only its own state, so
one action of all processes stands for every interleaving. A volume is a number
of cells; densities and fill levels are abstracted. The region growing of
`SplitSeen`, `Regions` and of the property's `Reached` are separate uses of one
closure operator, with the neighbourhood and the range the code takes. Two
neighbourhoods occur in the code: merges are looked for among all neighbours of a
cell, the new bubbles of a split are filled by faces. So `IdsAreRegions` says that
cells which face each other have one id, and that cells with one id hang together
by any of their neighbours; cells that touch in a corner only may have one or two.

## 3. Runs

| Run | Instance | Shows |
|---|---|---|
| `particle_corner` | 2 x 2 blocks of 3 x 3 cells on three processes, open domain, one particle | type invariant, no failed check, one owner, none lost, exact registry, refinement |
| `particle_ring` | periodic ring of four blocks of three cells, steps of up to two cells | fresh ghosts across the period, copies where they are needed; opposite processes know nothing of each other |
| `property_exchange` | a line of three, a moving and a FIXED particle and a wall, two rounds, `ExchangeSpec` (fair) | three kernels on one tag never mix, sums exact, copies agree, time steps end, nothing inside of the domain is taken for outflow |
| `ghost_owner_line` | a line of three, a sphere over all of them, `FairSpec` | no failed check, notes true, refinement, calls end, ghosts spread |
| `buffer_steps` | two processes, both ways or one way, three steps, all mixes of set-ups, contents of length 1 or 2; three in a ring, a chain or a star, with partners that change, with `IProbe` and with sends that complete only at the receiver; a process that sends to itself; `FairSpec` | no message mistaken, refinement of `BufferExchange`, steps end |
| `levels_cycle` | six blocks of levels 0 1 2 2 1 1 on three processes, requests from -1 to +2, several cycles or re-evaluation, `FairSpec` | guarantee, valid forest, tight decision, it is reached |
| `levels_guarantee` | the same with both refresh flags | finding 1 |
| `phantom_refresh` | three binary trees, every split, merge and keep, three placements, up to two rounds with three answers each, with and without buffer processes, `FairSpec` | neighbourhoods and links right, blocks with the right data in the right place, ends |
| `phantom_corner` | two dimensions, four trees of two levels around a corner, four processes; three families at the corner merge | finding 2 |
| `snapshot_losses` | four processes, a line of four blocks, one move, up to two losses, two time steps, `FairSpec` | restored exactly, also from a loss during a snapshot; the simulation ends |
| `bubble_update` | a row of three blocks of 2 x 3 cells, four shapes, two time steps with one or two cells converted | ids are the connected regions, volumes follow |
| `bubble_race` | the same, one step, facing border cells converted together | finding 3 |

Bounds, and why they are enough to be interesting:

* Particles: the protocol treats each particle on its own, except for the
  buffers that carry several, so one particle on a geometry with three
  processes meeting in a point exercises every exchange of roles (old owner,
  new owner, third process with a ghost, process that gains or loses one).
  `property_exchange` has several in one buffer. Blocks of the corner have 3
  cells so that a sphere fits inside of one (the branch that removes all ghosts
  at once). In `ghost_owner_line` the ends of the line are no neighbours: ghosts
  there are created by the ghost in the middle.
* `Reach` keeps a step within the neighbour subdomains. A step that is longer
  than that the code takes for outflow; this is a limit of the kernel, and an
  assumption here. What is checked is that no sequence of shorter steps comes to
  the same: on the line of `property_exchange` the ends are no neighbours, and a
  particle that its owner keeps too long is deleted in the middle of the domain
  (mutant `LeavesLate`).
* `CopiesPlaced` needs processes that do not all know each other: on the ring of
  `particle_ring` a particle moves to a process that has a neighbour the old
  owner has not, so the old owner cannot order the ghost there. With `SmallSteps`
  the sphere does not reach that process before the new owner has walked; blocks
  of three cells are the smallest for which steps of two cells satisfy it.
* Nothing bounds the length of the particle behaviours: the state spaces are
  finite because neighbours are at most one synchronization apart, and TLC
  covers them completely.
* BufferSystem: three steps are enough for a set-up, a mode kept and a mode
  changed again; two lengths distinguish a content that fits from one that does
  not. Loads are positive: a buffer without content is not sent, and callers
  add a dummy byte. All processes make the same set-ups, and what is registered
  are the senders, without which a program would wait for ever or leave messages
  behind; who they are is up to the program. Two processes make every mix of
  `Mixes`, both ways or one way only, where the sender may be steps ahead;
  `AllWays` is a selection for three, and partners change by registering ranks
  anew, as each call of the particle kernels does.
* Target levels: the forest is a line of blocks with two children per father
  in place of eight, `Depth` 2. A split of a finest block spreads over two
  levels and three process boundaries; an octet can merge only after another
  has; every block has a neighbour elsewhere. Deeper forests are not covered,
  and the geometry of three dimensions (26 neighbours) only through the
  abstract neighbour relation. `levels_cycle` takes one of the two refresh flags at
  a time; both together occur in `levels_guarantee` only.
* Migration: two children per father again, so an octet comes from at most two
  processes. Two rounds let a phantom move, and move again while links of the
  first move are one round old; one of the placements makes a process empty.
  The callback's answers are three assignments in every order. On a line no two
  merging families have more than one leaf between their first children;
  `phantom_corner` is the smallest forest we know where they have.
* Snapshots: four processes are the fewest with partners that are no neighbours
  and a communicator that still has partners after a loss. Two losses cover a
  loss while the first one is being noticed.
* Bubbles: the middle block has both neighbours, so chains of renames over three
  processes occur; the dumbbell and the layers split and merge across borders,
  the ring must be cut twice, the drops join. `Races = FALSE` in `bubble_update`
  excludes exactly the case of finding 3 (two border cells that face each other
  convert in one step, one of them to liquid). Two time steps let a split follow
  a merge and the other way round.

All passing runs cover their state space completely.

Deadlock is checked in every run; `Over` and `Stay` are the ends of programs
that do end.

Every property of a passing run is paired with a mutant, a definition changed
the way a plausible bug would change it (named in a `Mutant` comment beside the
original), for which TLC finds that property violated.

Fairness: weak fairness of each process's step, and of each reduction or barrier.
The processes are loops without waiting except for messages and collective
calls, and MPI guarantees progress, so a process that can go on does. No strong
fairness is used. `ParticleSync` alone and `BubbleModel` state safety only: the
former's calls end within `property_exchange`, and the latter has no choice but
which cells convert. `ComeToRest` and `ClearGhosts` of `GhostOwnerSync`, and
losses and moves of `BlockSnapshot`, are not fair: nothing makes them happen.

## 4. Findings

1. `allowMultipleRefreshCycles` together with
   `reevaluateMinTargetLevelsAfterForcedRefinement`: each pass of the
   re-evaluation resets the request for another cycle, and blocks already marked
   are not asked again, so a block that wanted two levels gets one and no other
   cycle (`levels_guarantee`).
2. `PhantomBlockForest::initialize` exchanges twice what is known of phantoms, so
   a phantom finds neighbours that are begun at most two hops away. A father is
   begun where its first child is, perhaps at the far end of the family. When
   three families around a corner merge in one refresh, one to the level above the
   other two, two fathers that touch are begun three hops apart, and each misses
   the other in its neighbourhood (`phantom_corner`); the blocks made of them
   inherit that. The merge loop decides on such families in two iterations.
3. Two facing cells on both sides of a border between processes that fill in the
   same time step: each process still sees the other's id in its ghost layer and
   takes the bubble for connected, no split is registered, and two separate
   bubbles keep one id and one volume (`bubble_race`).

Seen while reading, without a run:

* `checkForEarlyOutAfterLoadBalancing`: when all phantoms rest on the processes
  of their sources, `update` is skipped, and with it the splits and merges that
  were decided. The one user of the flag in the repository switches level changes
  off, which is what `LevelsKept` says.
* `ReduceProperty.h` documents at its head that the property "stays unchanged" on
  ghosts, while the kernel resets it there.
* A master without ghosts never gets the velocity correction applied by the
  broadcast: `VelocityUpdateNotification` applies it while it is serialized, so
  only where there is somebody to send it to.
* `BufferSystem::setReceiverInfoFromSendBufferState(true, true)` is documented
  to exchange sizes from the second step on; `endCommunication` never changes
  the mode in that direction. Nothing in the repository sets it up so.
* `Timeloop::synchronizedStop(false)` takes back an earlier `stop()` or agreed stop
  of the same time step. Nothing calls it.
* `restoreSnapshot` reads the stored receive buffers by reference and so uses
  them up: a second loss after a restart and before the next snapshot cannot be
  restored. The comment in `createSnapshot` on older snapshots does not say so.
* The bubble constructor from volume and density keeps a volume multiplied by
  the density, and what a process receives of a split bubble has the inverse
  density: the sum of volumes is kept over a split only at density 1, which the
  tests use. A bubble with constant density (atmosphere) loses that mark when it
  is merged into one with a lower id.

## 5. Proofs

All theorems hold for any number of processes and for any values of the
constants that satisfy the named ASSUMEs of the module they are about; what a
theorem asks on top of that stands in its own ASSUME. TLC evaluates all of these
on the instances of the runs.

| Module | Proves | Besides the ASSUMEs of the model |
|---|---|---|
| `ParticleSyncProofs` | `ParticleSync`: `TypeOK`, `AtMostOneOwner`, `Conserved`, `ImplementsOwnership` | |
| `ParticleRegistryProofs` | `NoAbort`, `RegistryExact`, `GhostsFresh` | `SmallParticles` |
| the same | `CopiesPlaced` | `SmallParticles`, `SmallSteps` |
| the same | `OutflowIsOutside` | `StepsToNeighbors` |
| `PropertyExchangeProofs` | `ExchangeTypeOK`, `NoConfusion`, `ReductionExact`, `CopiesAgree`, `NoAbort`; `ExchangeSpec` implements `Spec` of `ParticleSync` | `SmallParticles` |
| the same | `OutflowIsOutside` under `ExchangeSpec` | `SmallParticles`, `StepsToNeighbors` |
| `GhostOwnerProofs` | `GhostOwnerSync`: the shape of slots and buffers, one owner, `ImplementsOwnership` | |
| the same | `TypeOK`, `NoAbort`, `NotesTrue` | `ImagesAgree`, `StepsSeen` |
| `BufferSystemProofs` | `TypeOK`, `NoFault`, `ImplementsExchange` | |
| `TargetLevelsProofs` | `TypeOK`, `ForestValid`, `DecisionTight`, `LevelGuaranteed` | for the last: not both refresh flags |
| `BlockSnapshotProofs` | `TypeOK`, `RestoreExact` | |
| `PhantomMigrationProofs` | `TypeOK`, `NetworkSymmetric`, `KnownOnce`, `TargetsAnswer` | |
| the same | `BlocksRight` | `LevelsKept` |
| the same | `NeighborhoodsRight` | `OneBetween`, `LevelsKept` |

### Ownership of particles

`ParticleSync!TypeOK` is inductive: it contains the shape of slots (`SlotOK`)
and of notifications by receiver (`NoteOK`), and the fact that only the ownership
part of a buffer migrates. `AtMostOneOwner` and `Conserved` are not inductive.
The strengthening `OwnerInv` says of each particle that it is in exactly one of
three places: one master and no migration under way, one migration under way and
no master, or deleted. Each action moves it along at most one arrow between
those (`Moved`). The walk needs that a migration opens exactly one buffer
(`TransitsAfterSync`), parsing that the queue shifts by one
(`TransitsAfterParse`), and that a notification which passes its checks never
touches a master (`ParsedMaster`); a failed check changes nothing, so these
theorems do not depend on `NoAbort`. The refinement mapping `Holder` is read off
`OwnerInv` (`HolderRead`), and each arrow of `Moved` is a step of
`ParticleOwnership` or a stutter.

`GhostOwnerProofs` goes the same way for the two exchanges of `SyncGhostOwners`.
`Shape` is the part of `TypeOK` that does not depend on who knows whom: that a
ghost never gets a list of ghosts holds only because the registry of the second
exchange is right, and is proved with it. `Placed` needs nothing of the geometry:
wherever particles jump, ownership is neither doubled nor lost.

### The registry of ghosts

`RegistryExact` says that three processes agree (old owner, new owner, a third
with a ghost) when all of them are between two synchronizations. No invariant of
the current state alone implies it, since what a process holds is right as of the
number of walks its neighbours have sent it. The invariant of
`ParticleRegistryProofs` therefore says that there are two histories the program
does not keep: `k`, the number of walks of each process, which the messages keep
within one of its neighbours' (`Paced`), and for each particle its story, the
sequence of its owners and of their ghostOwners. Chapter j + 1 of a story is
written by walk j + 1 of the owner in chapter j (`Coherent`), the buffer of that
walk tells each neighbour how to get from one chapter to the next, and a process
shows every particle as the chapter it has reached says (`Page`, `Shows`). A walk
adds a chapter or none, a parse turns a page. When nobody is inside of the
kernel all have read every story to its end: the registry is exact and the
ghosts are fresh. Each check that could fail compares what a process shows with
the chapter its buffer comes from, which is why `NoAbort` follows.

`SmallParticles` is what this kernel is made for: it asks only the processes next
to its own whether a particle overlaps them (larger particles need
`SyncGhostOwners`). Without it a new owner inherits ghosts on processes it never
sends to, and the registry is wrong.

`CopiesPlaced` follows from an invariant on masters and hand-overs: after a walk
or a hand-over, the ghosts noted and the owner cover what the sphere meets
(`Covered`), and while it is moved it stays within what the process can see
(`Approached`). The latter is `SmallSteps`. `OutflowIsOutside` asks for less, and
nothing of the size of particles. Its invariant `MastersNear` says that a master
lies in its process's subdomain except between integration and the next walk,
when it is there, in a neighbour's, or outside of the domain: an
integration starts from its own subdomain, a walk keeps only what still lies in
it, and the check of a migration accepts only what has arrived.

### The registry of the second exchange

With `SyncGhostOwners` a ghost may sit where its master's process does not reach,
ghosts create ghosts, and several holders may create the same one at once.
`RegistryInv` says again that there are two histories the program does not keep:
`k`, the number of times each process has called `updateAndMigrate`, and a story
for each particle (`Tale`). A chapter says where the particle is, who has a copy,
which of them is the owner, and whom each holder has marked as served. `ends[j]`
is what all have once j synchronizations are over, `mids[j]` what they have
between the two exchanges of the j-th one; the second follows from the first by
`Resolved`, which gives all the copies that holders owe to their neighbours and
drops those that are out of reach. A process shows each particle as its phase and
its clock say (`Shows`): while it parses the second exchange with the buffers of
P still to come, it has done its own part and that of all processes but P
(`Partly`), in whatever order they arrive.

From the stories follow the buffers. In round j the owner writes to each of its
ghosts, and in the second exchange every process to its neighbours and to the
owners of the particles it has (`Sends1`, `Sends2`); a channel holds what is
written and not yet read, in the order of the rounds (`Firsts`, `Seconds`). A
ghost awaits the process its slot names as owner, a master the processes on its
list of ghosts, which is why both notes have to be right for nothing to be
awaited that is never written, or read that is meant for a later call. That a
note passes its checks is shown for each kind from the chapter it was written
from (`FirstRead`, `PartlyRead`), and that the order of buffers does
not matter by `Partly` being a function of the set still to come.

Two things are specific to this kernel. Neighbours are not the only ones who
exchange messages, so clocks are compared along them: who has ended the reading
of round j from s knows that s has written it. Hence when nobody is inside of
the kernel neighbours have made equally many calls; holders of one particle may
lie far apart, but they spread from neighbour to neighbour, so each story stays
within a set of processes closed under neighbourhood (the last part of `Tale`),
in which all clocks are equal. That is what `NotesTrue` needs. And `ClearGhosts`
takes back what the histories say: all stories begin anew with the masters as
they stand (`Begins`, `BeginsTraced`).

`ImagesAgree` and `StepsSeen` are what the code relies on. Copies are compared by
position and asked by position whom their sphere meets. "New owner has to be
former ghost owner!" is a check that fails unless the process a particle moves
to has got a copy before; the owner serves its neighbours in each call
(`Surrounded`), so it is enough that the sphere has met the neighbour. A particle
that leaves for a process that is no neighbour is deleted, as by the other kernel.
Nor may a particle move between `ClearGhostOwnerSync` and the next
synchronization: `ClearGhosts` is followed by one, and clearing happens between
two calls on all processes, never while some are inside.

### Properties on the tag of the synchronization

Three kernels send on one tag, and no buffer says which kernel wrote it.
`PropertyExchangeProofs` shows that none has to. Each exchange of a process has a
place in its program, its tick: the number of its walk, the round after it, the
kernel of the round. `SendsNext` and `ReadsNext` are the tick a process writes,
and awaits, next. The stories of `ParticleRegistryProofs` say for each tick
between which processes it applies (`Applies`): a reduction goes from ghosts to
the owner of a chapter, a broadcast back, a walk to all neighbours. The
invariant says that a queue holds exactly the ticks that apply, have been
written and not yet read (`UnderWay`), in their order (`Lined`), each as the
kernel of the tick wrote it (`Carries`), and that a process awaits another one
exactly if its present tick applies between them and has not come.

What has to be shown is that the tick a process awaits is the least one under
way, i.e. the head of the queue. Both ends take the links of a tick from the
same chapter: a process that is in the rounds after walk k has turned the pages
of all its neighbours up to k, and a neighbour can be no further than the next
walk, whose rounds it cannot enter before this process has walked too
(`NearClocks`). So the links of a chapter one of the two has not read yet are
not written about yet. `NoConfusion` follows directly, and so does that the
synchronization inside of the rounds runs as it does alone
(`ExchangeSynchronizes`), with which all theorems on `ParticleSync` hold here too.

The sums are a second invariant. While the round is with the reduction, the
master has its own contributions and those of the ghosts whose buffer is read,
and each other contribution is in one place, in its ghost or in its buffer
(`MasterSums`, `GhostSums`); at the end of the reduction nothing is left to come,
which is `ReductionExact`, and what a broadcast carries is that sum, which is
`CopiesAgree`. Lengths of queues come from a bijection between a queue and the
finite set of the ticks under way.

### Exchange of buffers

The switch of each process to known sizes depends only on the set-ups made so
far and the number of the step, which are the same everywhere. So the way of a
step is a function of the program (`Way`), and each process's bookkeeping follows
it (`ProcessInv`); that the function is defined, i.e. that some set-up is in
force, would need an induction over the plan and is carried along by the
processes instead (`SetUpInv`). A process that hears nothing back may be any
number of steps ahead, so a channel is not described by its content but by the
program: it holds the messages of all steps the sender has come to and the
receiver has not (`Pending`), each once and in their order (`Holds`,
`ChannelInv`). The receiver waits for the least of these, and has neither taken
nor passed one that is still to be sent (`NotMissed`), which is why a step whose
receives are complete has heard everybody. From that no message is mistaken, and
each delivery is a delivery of `BufferExchange`.
`ProgramOK` excludes sizes that are given and yet said to change: there the code
does not do what its documentation says (section 4), and nothing uses it.

### Target levels

`ForestValid` and `DecisionTight` say that `depth_` iterations of two loops are
enough, on data that are one exchange old. Iteration i of the splits is the last
that can change a block of level `Depth` - i, since what forces it is one level
finer (`Settled`); iteration k of the merges is the last that can change one of
level `Depth` - k (`Refused`, `Hindered`). Partners are at most one iteration
apart, so a message holds what its sender has decided for good (`ChannelInv`),
except where one has begun another pass while the other has still to end one
(`Ahead`). The order in which a process visits its blocks matters within one
iteration; the one place where that needs an induction, over the positions of
`Local[p]`, takes the least position instead.

`LevelGuaranteed` is proved as long as no option switches on several cycles and
re-evaluation together. This is the exact condition: with both,
`levels_guarantee` refutes it (finding 1).

### Snapshots

The snapshot completed last is a function from ranks to what was packed, and no
variable holds it. The invariant (`KeptInv`) says that there is one, and where
its parts are: between a barrier and the next, each rank's part is with the
process of that rank and with its partner, in one of three places: in `blocks_`
(and in the message to the partner) before it is stored, in `snapshot_` after
that, in `blocks_` again when it is restored (`Kept`). It is the whole forest:
each block has one place, and links lead to the places of the neighbours
(`Whole`). The messages satisfy `MailInv`: partners are at most one snapshot
apart, and what a process has sent is what it would send again until it has
stored it, also when it is lost meanwhile. `RestoreBack` shows that a process
finds exactly its parts in `snapshot_`, although entries of older snapshots
under ranks of larger communicators are there too (`FoundAgain`), and
`RestoredWhole` that the mapping of ranks keeps the forest whole.

### Migration of blocks

Once the job is chosen, nothing in a refresh is left to chance but the order of
the processes' steps. The invariant (`MigrationInv`) says so: what process p holds
at place l of its program, in round n, is a function of the job, p, l and n
(`Determined`), and so is what it writes for process d in the n-th exchange of a
kind, if it writes at all (`Said`, `Applies`). A queue holds what its sender has
written and its receiver has not yet taken, in order (`Lined`, `Channel`), where
both counts follow from the places of the two (`SentOf`, `ReadOf`). No bound on
how far processes run apart is needed. That the message a process awaits is the
head of the queue follows once it is known to have been written (`ChannelTake`).

What has to be shown for each action is that sender and receiver mean the same
exchange: a process awaits another one exactly if the other writes to it. Each
kind of message has a lemma of its own for that, and these are where a mistake
in the code would be. The two exchanges of `initialize` and those of moves are
mutual because touching is (`NearSymmetric`, `AroundSymmetric`); the networks are
mutual in every round, although an empty process keeps its neighbours and they
keep it for different reasons (`NetMutual`); links and phantoms meet because a
block is a source of each of its targets under the index the link has
(`LinksDual`); and the three exchanges of `update` agree because a block is packed
exactly if each of its targets is fresh where it rests (`GoneFresh`, `FreshDual`,
`DataDual`). `TargetsAnswer` compares two counts by a bijection between the
buffers and the sources of fresh blocks (`DataCounted`).

Geometry enters at one place. A phantom knows the blocks to be that it touches
and that are begun within two hops (`NbOf`); that these are all is `OneBetween`
(`NeighborsAll`). It cannot be left out: in `phantom_corner` it does not hold, and
neither does `NeighborsKnown`. Everything else, the links, the data and where the
blocks end, is proved without it.

### Only model-checked

* Liveness (`StepsEnd`, `SyncEnds`, `TimeStepEnds`, `Decides`, `SimulationEnds` and
  the like), which is out of reach of TLAPS.
* `BubbleModel`: its regions are RECURSIVE, and what a recursive definition
  computes for every input needs an induction the provers cannot do.

## 6. Plan

Done: particle synchronization by both kernels, properties on top of it, the
buffer system, refresh in its three stages, snapshots, bubbles, each with its
runs; safety proved of `ParticleSync`, `GhostOwnerSync`, `PropertyExchange`,
`BufferSystem`, `TargetLevels`, `PhantomMigration` and `BlockSnapshot`.

What is left: conditions on the geometry of a forest and on what merges in one
refresh that give `OneBetween`, and the regions of `BubbleModel`.

## 7. Not modelled

* Numerics: kernels, fields, lattice models, geometry, PDE, FFT, coupling. The
  state is floating-point data of one process, and no order of events is left
  open.
* Sequential set-up and containers: initial forest, static load balancing, block
  identifiers, storage, boundary handling, serialization, output, scripting.
* Dynamic load balancing: `PhantomMigration` takes any answer of the callback
  that keeps its contract; which answer is best, and how a load balancer finds out
  who sends to it, is not modelled.
* Ghost layer schemes, refined time steps and OpenMP buffers: fixed sequences of
  calls over `BufferSystem`; what is open between processes is there.
* Time loops: a step and a stop flag. `stop` is to be called on all processes,
  and nothing calls `synchronizedStop`.
* `SetReduction` and `Tokenizing`: blocking exchanges in a fixed order.
* In the modelled parts: empty buffers, runs without MPI, GLOBAL particles,
  uid maps, the refresh of cached domains, SUID states and phantom data, a second
  loss before the next snapshot, densities and atmosphere of bubbles, conversion
  for inflow and wetting.
