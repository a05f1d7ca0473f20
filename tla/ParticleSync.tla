---------------------------- MODULE ParticleSync ----------------------------
(***************************************************************************)
(* mesa_pd/mpi/SyncNextNeighbors: the ownership protocol of the particle   *)
(* dynamics module.  Every particle has one master copy, on the process    *)
(* whose subdomain holds its centre, and ghost copies on the processes its *)
(* interaction sphere reaches.  After each integration step all processes  *)
(* call the kernel: a process walks its masters, creates, updates and      *)
(* removes ghosts on its neighbours, hands over what has left its          *)
(* subdomain, sends one buffer to every neighbour and parses the buffers   *)
(* it gets in the order in which they happen to arrive.  Nothing keeps two *)
(* neighbours in step but these messages.                                  *)
(***************************************************************************)
EXTENDS Naturals, Sequences, FiniteSets

CONSTANTS
  Rank,              \* the MPI processes
  Particle,          \* particle uids
  Pos,               \* positions; some may lie outside of the domain
  NoRank,            \* -1, "no process"
  Nbr,               \* [Rank -> SUBSET Rank]  neighbour processes
  OwnerOf,           \* [Pos -> Rank or NoRank]  the subdomain that contains a point
  Overlap,           \* [Pos -> SUBSET Rank]  subdomains the interaction sphere meets
  Inside,            \* [Rank -> SUBSET Pos]  the whole sphere is in one local block
  Wrap,              \* [Pos -> Pos]  periodicallyMapToDomain
  Image,             \* [Rank -> [Pos -> Pos]]  correctParticlePosition of a process
  Reach,             \* [Pos -> SUBSET Pos]  where one time step can take a particle
  Fixed,             \* particles flagged FIXED
  NonCommunicating   \* particles flagged NON_COMMUNICATING

ASSUME RankAssumption == NoRank \notin Rank /\ \E r, s \in Rank : r # s

ASSUME ParticleAssumption == Fixed \subseteq Particle /\ NonCommunicating \subseteq Particle

ASSUME GeometryAssumption ==
  /\ Pos # {}
  /\ Nbr \in [Rank -> SUBSET Rank]
  /\ OwnerOf \in [Pos -> Rank \cup {NoRank}]
  /\ Overlap \in [Pos -> SUBSET Rank]
  /\ Inside \in [Rank -> SUBSET Pos]
  /\ Wrap \in [Pos -> Pos]
  /\ Image \in [Rank -> [Pos -> Pos]]
  /\ Reach \in [Pos -> SUBSET Pos]

(* The neighbourhood relation of the block forest is symmetric. *)
ASSUME NeighborAssumption ==
  \A r, s \in Rank : s \in Nbr[r] => s # r /\ r \in Nbr[s]

(* What the registry of ghosts needs on top, for no check to fail: an interaction
   sphere reaches the subdomain of its centre and the neighbours of that one at
   most, and a point that lies in a subdomain is its own image there. *)
SmallParticles ==
  \A p \in Pos : OwnerOf[p] # NoRank =>
    /\ OwnerOf[p] \in Overlap[p]
    /\ Overlap[p] \subseteq Nbr[OwnerOf[p]] \cup {OwnerOf[p]}
    /\ Image[OwnerOf[p]][p] = p

(* And for the copies to be where they are needed: wrapping leaves the domain
   alone, a sphere inside of a block meets no other subdomain, and one time step
   takes a sphere no further than the neighbours of the subdomain it starts in. *)
SmallSteps ==
  /\ \A p \in Pos : OwnerOf[p] # NoRank => Wrap[p] = p
  /\ \A r \in Rank : \A p \in Inside[r] : OwnerOf[p] = r /\ Overlap[p] \subseteq {r}
  /\ \A p \in Pos : \A q \in Reach[p] :
       OwnerOf[p] # NoRank /\ OwnerOf[Wrap[q]] # NoRank
         => Overlap[Wrap[q]] \subseteq Nbr[OwnerOf[p]] \cup {OwnerOf[p]}

(* For none but those outside to be deleted, less is enough: one time step takes a
   particle no further than into a neighbour subdomain. *)
StepsToNeighbors ==
  /\ \A p \in Pos : OwnerOf[p] # NoRank => Wrap[p] = p
  /\ \A r \in Rank : \A p \in Inside[r] : OwnerOf[p] = r
  /\ \A p \in Pos : \A q \in Reach[p] :
       OwnerOf[p] # NoRank
         => OwnerOf[Wrap[q]] \in Nbr[OwnerOf[p]] \cup {OwnerOf[p], NoRank}

VARIABLES
  ps,        \* ps[r][u]: what the ParticleStorage of r holds of particle u
  chan,      \* chan[<<s, d>>]: buffers sent by s that d has not parsed yet
  pending,   \* pending[r]: processes r still expects a buffer from
  phase,     \* phase[r]: where r is in its time step
  gone,      \* particles deleted by the outflow branch (history)
  aborted    \* a WALBERLA_CHECK or WALBERLA_ABORT has ended the job

vars == <<ps, chan, pending, phase, gone, aborted>>

-----------------------------------------------------------------------------
(* Slots of a ParticleStorage and notifications *)

Slot == [kind : {"none", "master", "ghost"}, owner : Rank \cup {NoRank},
         ghosts : SUBSET Rank, pos : Pos]

(* The position of what does not exist; any one will do. *)
Nowhere == CHOOSE p \in Pos : TRUE

Absent == [kind |-> "none", owner |-> NoRank, ghosts |-> {}, pos |-> Nowhere]

Ghost(o, p) == [kind |-> "ghost", owner |-> o, ghosts |-> {}, pos |-> p]

Master(r, g, p) == [kind |-> "master", owner |-> r, ghosts |-> g, pos |-> p]

NoteType == {"none", "copy", "update", "removal", "migration", "remoteMigration"}

Note == [type : NoteType, owner : Rank \cup {NoRank}, ghosts : SUBSET Rank, pos : Pos]

(* A notification that carries no data beyond the uid, or nothing at all. *)
Bare(t) == [type |-> t, owner |-> NoRank, ghosts |-> {}, pos |-> Nowhere]

(* A buffer: for each particle what the neighbour loop wrote about it, then
   what the ownership part wrote.  Notes about different particles commute. *)
Batch == [Particle -> [ghost : Note, own : Note]]

EmptyBatch == [u \in Particle |-> [ghost |-> Bare("none"), own |-> Bare("none")]]

-----------------------------------------------------------------------------
(* generateSynchronizationMessages, for one particle u on process r *)

(* findContainingProcessRank asks the process itself and its neighbours only. *)
FindContaining(r, p) ==
  IF OwnerOf[p] \in Nbr[r] \cup {r} THEN OwnerOf[p] ELSE NoRank

IsHandled(r, u) == ps[r][u].kind = "master" /\ u \notin NonCommunicating

(* Mutant: the interaction radius is forgotten. *)
IsInsideCentre(r, u) == OwnerOf[ps[r][u].pos] = r

IsInside(r, u) == ps[r][u].pos \in Inside[r]

MappedPos(r, u) == IF u \in Fixed THEN ps[r][u].pos ELSE Wrap[ps[r][u].pos]

Near(r, u) == Overlap[MappedPos(r, u)] \cap Nbr[r]

(* ghostOwners after the loop over the neighbours *)
GhostOwners(r, u) == (ps[r][u].ghosts \ Nbr[r]) \cup Near(r, u)

NewOwner(r, u) == FindContaining(r, MappedPos(r, u))

(* Mutant: a particle is given up only when its sphere has left, too. *)
LeavesLate(r, u) ==
  /\ IsHandled(r, u) /\ ~IsInside(r, u) /\ NewOwner(r, u) # r
  /\ r \notin Overlap[MappedPos(r, u)]

Leaves(r, u) == IsHandled(r, u) /\ ~IsInside(r, u) /\ NewOwner(r, u) # r

FlowsOut(r, u) == Leaves(r, u) /\ NewOwner(r, u) = NoRank

Migrates(r, u) == Leaves(r, u) /\ NewOwner(r, u) # NoRank

(* The two WALBERLA_CHECKs of the walk *)
SyncChecks(r) ==
  \A u \in Particle :
    /\ IsHandled(r, u) /\ ~IsInside(r, u) => ps[r][u].owner = r
    /\ Migrates(r, u) => NewOwner(r, u) \in GhostOwners(r, u)

(* Mutant: the old owner forgets to set the GHOST flag. *)
SlotAfterSyncMaster(r, u) ==
  LET p == MappedPos(r, u) IN
  CASE ~IsHandled(r, u)                    -> ps[r][u]
    [] IsHandled(r, u) /\ IsInside(r, u)   -> [ps[r][u] EXCEPT !.ghosts = {}]
    [] FlowsOut(r, u)                      -> Absent
    [] OTHER                               -> [ps[r][u] EXCEPT !.pos = p,
                                                               !.ghosts = GhostOwners(r, u)]

SlotAfterSync(r, u) ==
  LET p == MappedPos(r, u) IN
  CASE ~IsHandled(r, u)                    -> ps[r][u]
    [] IsHandled(r, u) /\ IsInside(r, u)   -> [ps[r][u] EXCEPT !.ghosts = {}]
    [] FlowsOut(r, u)                      -> Absent
    [] Migrates(r, u)                      -> Ghost(NewOwner(r, u), Image[r][p])
    [] OTHER                               -> [ps[r][u] EXCEPT !.pos = p,
                                                               !.ghosts = GhostOwners(r, u)]

(* What the loop over ghostOwners (sphere inside) or over the neighbours
   (otherwise) writes about u into the buffer for d *)
GhostNote(r, d, u) ==
  LET s == ps[r][u] IN
  CASE ~IsHandled(r, u)                                    -> Bare("none")
    [] IsHandled(r, u) /\ IsInside(r, u)                   ->
         Bare(IF d \in s.ghosts THEN "removal" ELSE "none")
    [] IsHandled(r, u) /\ ~IsInside(r, u) /\ d \in Near(r, u) ->
         [type |-> IF d \in s.ghosts THEN "update" ELSE "copy",
          owner |-> s.owner, ghosts |-> {}, pos |-> MappedPos(r, u)]
    [] OTHER                                               ->
         Bare(IF d \in s.ghosts \cap Nbr[r] THEN "removal" ELSE "none")

(* Mutant: the new owner is left on its own list. *)
OwnNoteKeepsOwner(r, d, u) ==
  CASE FlowsOut(r, u) /\ d \in GhostOwners(r, u) -> Bare("removal")
    [] Migrates(r, u) /\ d = NewOwner(r, u)      ->
         [Bare("migration") EXCEPT !.ghosts = GhostOwners(r, u) \cup {r}]
    [] OTHER                                     -> Bare("none")

(* Mutant: the other ghost owners are not told of the new owner. *)
OwnNoteSilent(r, d, u) ==
  CASE FlowsOut(r, u) /\ d \in GhostOwners(r, u) -> Bare("removal")
    [] Migrates(r, u) /\ d = NewOwner(r, u)      ->
         [Bare("migration") EXCEPT !.ghosts = (GhostOwners(r, u) \ {d}) \cup {r}]
    [] OTHER                                     -> Bare("none")

(* Mutant: all ghost owners are told that they own the particle now. *)
OwnNoteToAll(r, d, u) ==
  CASE FlowsOut(r, u) /\ d \in GhostOwners(r, u) -> Bare("removal")
    [] Migrates(r, u) /\ d \in GhostOwners(r, u) ->
         [Bare("migration") EXCEPT !.ghosts = (GhostOwners(r, u) \ {d}) \cup {r}]
    [] OTHER                                     -> Bare("none")

(* What the ownership part writes about u into the buffer for d *)
OwnNote(r, d, u) ==
  LET o == NewOwner(r, u)
      g == GhostOwners(r, u) IN
  CASE FlowsOut(r, u) /\ d \in g               -> Bare("removal")
    [] Migrates(r, u) /\ d = o                 ->
         [Bare("migration") EXCEPT !.ghosts = (g \ {o}) \cup {r}]
    [] Migrates(r, u) /\ d # o /\ d \in g      ->
         [Bare("remoteMigration") EXCEPT !.owner = o]
    [] OTHER                                   -> Bare("none")

BatchFor(r, d) ==
  [u \in Particle |-> [ghost |-> GhostNote(r, d, u), own |-> OwnNote(r, d, u)]]

(* Mutant: no dummy byte, so buffers without a notification are not sent. *)
OpenedIfNeeded(r) == {d \in Rank : BatchFor(r, d) # EmptyBatch}

(* Send buffers opened: the neighbours get a dummy byte in any case.  The
   ranks r expects a buffer from are those it opened one for. *)
Opened(r) == Nbr[r] \cup {d \in Rank : BatchFor(r, d) # EmptyBatch}

-----------------------------------------------------------------------------
(* ParseMessage, for one notification n from s about a particle whose slot on
   the receiver r is sl *)

NoteChecks(r, s, sl, n) ==
  CASE n.type = "none" -> TRUE
    [] n.type = "copy" -> sl.kind = "none"
    [] OTHER           ->
         /\ sl.kind = "ghost"
         /\ sl.owner = s
         /\ n.type = "migration" => OwnerOf[sl.pos] = r
         /\ n.type = "remoteMigration" => n.owner # r

(* Mutant: the new owner forgets to unset the GHOST flag. *)
ParsedStillGhost(r, sl, n) ==
  CASE n.type = "copy"   -> Ghost(n.owner, Image[r][n.pos])
    [] n.type = "update" -> [sl EXCEPT !.pos = Image[r][n.pos]]
    [] n.type = "migration" -> [sl EXCEPT !.owner = sl.owner]
    [] n.type = "remoteMigration" -> [sl EXCEPT !.owner = n.owner]
    [] n.type = "removal" -> Absent
    [] OTHER -> sl

(* Mutant: a ghost's position is not moved to the image near the receiver. *)
ParsedUncorrected(r, sl, n) ==
  CASE n.type = "copy"   -> Ghost(n.owner, Image[r][n.pos])
    [] n.type = "update" -> [sl EXCEPT !.pos = n.pos]
    [] n.type = "migration" -> Master(r, n.ghosts, sl.pos)
    [] n.type = "remoteMigration" -> [sl EXCEPT !.owner = n.owner]
    [] n.type = "removal" -> Absent
    [] OTHER -> sl

Parsed(r, sl, n) ==
  CASE n.type = "copy"            -> Ghost(n.owner, Image[r][n.pos])
    [] n.type = "update"          -> [sl EXCEPT !.pos = Image[r][n.pos]]
    [] n.type = "migration"       -> Master(r, n.ghosts, sl.pos)
    [] n.type = "remoteMigration" -> [sl EXCEPT !.owner = n.owner]
    [] n.type = "removal"         -> Absent
    [] OTHER                      -> sl

AfterGhostNote(r, b, u) == Parsed(r, ps[r][u], b[u].ghost)

BatchChecks(r, s, b) ==
  \A u \in Particle : /\ NoteChecks(r, s, ps[r][u], b[u].ghost)
                      /\ NoteChecks(r, s, AfterGhostNote(r, b, u), b[u].own)

SlotAfterBatch(r, b, u) == Parsed(r, AfterGhostNote(r, b, u), b[u].own)

-----------------------------------------------------------------------------
Init ==
  /\ \E at \in [Particle -> {p \in Pos : OwnerOf[p] # NoRank}] :
       ps = [r \in Rank |-> [u \in Particle |->
               IF OwnerOf[at[u]] = r THEN Master(r, {}, at[u]) ELSE Absent]]
  /\ chan = [c \in Rank \X Rank |-> <<>>]
  /\ pending = [r \in Rank |-> {}]
  /\ phase = [r \in Rank |-> "sync"]
  /\ gone = {}
  /\ aborted = FALSE

(* The time integration kernels move the masters of r. *)
Integrate(r) ==
  /\ ~aborted
  /\ phase[r] = "integrate"
  /\ \E to \in [Particle -> Pos] :
       /\ \A u \in Particle :
            IF ps[r][u].kind = "master" /\ u \notin Fixed
            THEN to[u] \in Reach[ps[r][u].pos]
            ELSE to[u] = ps[r][u].pos
       /\ ps' = [ps EXCEPT ![r] = [u \in Particle |-> [ps[r][u] EXCEPT !.pos = to[u]]]]
  /\ phase' = [phase EXCEPT ![r] = "sync"]
  /\ UNCHANGED <<chan, pending, gone, aborted>>

(* A failed check ends the whole MPI job. *)
Abort == aborted' = TRUE /\ UNCHANGED <<ps, chan, pending, phase, gone>>

(* operator() up to sendAll: walk the masters, fill the buffers, send them. *)
WalkAndSend(r) ==
  LET opened == Opened(r) IN
  /\ ps' = [ps EXCEPT ![r] = [u \in Particle |-> SlotAfterSync(r, u)]]
  /\ chan' = [c \in Rank \X Rank |->
                IF c[1] = r /\ c[2] \in opened
                THEN Append(chan[c], BatchFor(r, c[2])) ELSE chan[c]]
  /\ pending' = [pending EXCEPT ![r] = opened]
  /\ phase' = [phase EXCEPT ![r] = IF opened = {} THEN "integrate" ELSE "parse"]
  /\ gone' = gone \cup {u \in Particle : FlowsOut(r, u)}
  /\ UNCHANGED aborted

Sync(r) ==
  /\ ~aborted
  /\ phase[r] = "sync"
  /\ IF SyncChecks(r) THEN WalkAndSend(r) ELSE Abort

(* One turn of the receive loop: parse the buffer of whoever answers next. *)
ParseBuffer(r, s) ==
  LET b == Head(chan[<<s, r>>]) IN
  /\ ps' = [ps EXCEPT ![r] = [u \in Particle |-> SlotAfterBatch(r, b, u)]]
  /\ chan' = [chan EXCEPT ![<<s, r>>] = Tail(@)]
  /\ pending' = [pending EXCEPT ![r] = @ \ {s}]
  /\ phase' = [phase EXCEPT ![r] = IF pending[r] = {s} THEN "integrate" ELSE "parse"]
  /\ UNCHANGED <<gone, aborted>>

Parse(r, s) ==
  /\ ~aborted
  /\ phase[r] = "parse"
  /\ s \in pending[r]
  /\ chan[<<s, r>>] # <<>>
  /\ IF BatchChecks(r, s, Head(chan[<<s, r>>])) THEN ParseBuffer(r, s) ELSE Abort

Next ==
  \/ \E r \in Rank : Integrate(r)
  \/ \E r \in Rank : Sync(r)
  \/ \E r, s \in Rank : Parse(r, s)

Spec == Init /\ [][Next]_vars

-----------------------------------------------------------------------------
(* Properties *)

(* What can be stored on process r: a master is its own and not its own
   ghost; a ghost has an owner elsewhere and keeps no list. *)
SlotOK(r, sl) ==
  /\ sl \in Slot
  /\ sl.kind = "none" => sl = Absent
  /\ sl.kind = "ghost" => sl.owner \in Rank \ {r} /\ sl.ghosts = {}
  /\ sl.kind = "master" => sl.owner = r /\ r \notin sl.ghosts

(* What can be sent to process r. *)
NoteOK(r, n) ==
  /\ n \in Note
  /\ n.type = "copy" => n.owner \in Rank \ {r}
  /\ n.type = "remoteMigration" => n.owner \in Rank
  /\ n.type = "migration" => r \notin n.ghosts

(* Type invariant, with the shape of slots and notifications. *)
TypeOK ==
  /\ ps \in [Rank -> [Particle -> Slot]]
  /\ \A r \in Rank, u \in Particle : SlotOK(r, ps[r][u])
  /\ chan \in [Rank \X Rank -> Seq(Batch)]
  /\ \A s, d \in Rank : \A i \in DOMAIN chan[<<s, d>>], u \in Particle :
       /\ NoteOK(d, chan[<<s, d>>][i][u].ghost)
       /\ chan[<<s, d>>][i][u].ghost.type \notin {"migration", "remoteMigration"}
       /\ NoteOK(d, chan[<<s, d>>][i][u].own)
  /\ pending \in [Rank -> SUBSET Rank]
  /\ phase \in [Rank -> {"integrate", "sync", "parse"}]
  /\ gone \subseteq Particle
  /\ aborted \in BOOLEAN

IsMaster(r, u) == ps[r][u].kind = "master"

(* The i-th buffer under way from s to d hands u over to d. *)
InTransit(s, d, i, u) ==
  /\ i \in DOMAIN chan[<<s, d>>]
  /\ chan[<<s, d>>][i][u].own.type = "migration"

(* None of the WALBERLA_CHECKs of SyncNextNeighbors and ParseMessage can fail,
   in whatever order buffers of different senders arrive. *)
NoAbort == ~aborted

(* A particle never has two owners: not two masters, not a master and a
   migration notification under way, not two such notifications. *)
AtMostOneOwner ==
  \A u \in Particle :
    /\ \A r, q \in Rank : IsMaster(r, u) /\ IsMaster(q, u) => r = q
    /\ \A r, s, d \in Rank : \A i \in DOMAIN chan[<<s, d>>] :
         ~(IsMaster(r, u) /\ InTransit(s, d, i, u))
    /\ \A s, d, t, e \in Rank :
         \A i \in DOMAIN chan[<<s, d>>], j \in DOMAIN chan[<<t, e>>] :
           InTransit(s, d, i, u) /\ InTransit(t, e, j, u)
             => s = t /\ d = e /\ i = j

(* A particle is never lost: it has a master, is being handed over, or was
   deleted by the outflow branch; and then nothing of it comes back. *)
Conserved ==
  \A u \in Particle :
    u \notin gone <=> \/ \E r \in Rank : IsMaster(r, u)
                     \/ \E s, d \in Rank : \E i \in DOMAIN chan[<<s, d>>] :
                          InTransit(s, d, i, u)

(* No process is inside of the kernel. *)
Settled == \A r \in Rank : phase[r] = "integrate"

Tracked(r, u) == IsMaster(r, u) /\ u \notin NonCommunicating

(* The processes that have d on the list of their master of u *)
Listing(u, d) == {r \in Rank : Tracked(r, u) /\ d \in ps[r][u].ghosts}

(* After a synchronization a master's ghostOwners are the processes with a
   ghost, and every ghost names the process of the master as its owner: the
   copies, removals and remote migrations of all senders have met. *)
RegistryExact ==
  Settled =>
    \A u \in Particle \ NonCommunicating, d \in Rank :
      /\ ps[d][u].kind = "ghost" <=> Listing(u, d) # {}
      /\ ps[d][u].kind = "ghost" => ps[d][u].owner \in Listing(u, d)

(* After a synchronization a ghost is at its master's position, seen from the
   process of the ghost. *)
GhostsFresh ==
  Settled =>
    \A u \in Particle, d, r \in Rank :
      Tracked(r, u) /\ ps[d][u].kind = "ghost"
        => ps[d][u].pos = Image[d][ps[r][u].pos]

(* After a synchronization every subdomain an interaction sphere reaches holds
   the particle: contact detection there misses nothing. *)
GhostCoverage ==
  Settled =>
    \A u \in Particle, r \in Rank :
      Tracked(r, u) => \A d \in Overlap[MappedPos(r, u)] :
                         d = r \/ ps[d][u].kind = "ghost"

(* After a synchronization a master lies in the subdomain of its process. *)
MasterAtHome ==
  Settled =>
    \A u \in Particle, r \in Rank :
      Tracked(r, u) => OwnerOf[MappedPos(r, u)] = r

(* After a synchronization the copies of a particle are where they are needed. *)
CopiesPlaced == MasterAtHome /\ GhostCoverage

(* The outflow branch deletes only particles outside of the whole domain, though
   findContainingProcessRank cannot tell these from particles beyond the neighbours
   of the process that asks: a particle is handed over before it gets so far. *)
OutflowIsOutside ==
  [][\A u \in gone' \ gone : \E r \in Rank :
       IsMaster(r, u) /\ OwnerOf[MappedPos(r, u)] = NoRank]_vars

-----------------------------------------------------------------------------
(* Refinement of ParticleOwnership *)

Holder(u) ==
  IF \E r \in Rank : IsMaster(r, u)
  THEN [state |-> "held", by |-> {r \in Rank : IsMaster(r, u)}]
  ELSE LET to == {d \in Rank : \E s \in Rank :
                    \E i \in DOMAIN chan[<<s, d>>] : InTransit(s, d, i, u)}
       IN [state |-> IF to = {} THEN "out" ELSE "moving", by |-> to]

Ownership == INSTANCE ParticleOwnership WITH holder <- [u \in Particle |-> Holder(u)]

(* Synchronization hands every particle from owner to owner one neighbour at a
   time, without ever showing it owned twice or nowhere in between. *)
ImplementsOwnership == Ownership!Spec
=============================================================================
