--------------------------- MODULE GhostOwnerSync ---------------------------
(***************************************************************************)
(* mesa_pd/mpi/SyncGhostOwners: the synchronization for particles larger   *)
(* than a subdomain.  A ghost may sit several processes away from its      *)
(* master, where the master's process does not reach: it is created by the *)
(* neighbour that has the particle already, be it master or ghost, and     *)
(* announced to the master's process by a second message.  A call runs two *)
(* exchanges, each with a BufferSystem of its own.  In the first a process *)
(* updates the ghosts of its masters and hands over the masters that have  *)
(* left its subdomain; in the second holders create and delete ghosts.     *)
(* Whom to wait for is read off the ghosts in the first, and off the       *)
(* masters' lists of ghosts in the second exchange.                        *)
(***************************************************************************)
EXTENDS Naturals, Sequences, FiniteSets

CONSTANTS
  Rank,              \* the MPI processes
  Particle,          \* particle uids
  Pos,               \* positions; some may lie outside of the domain
  NoRank,            \* -1, "no process"
  Nbr,               \* [Rank -> SUBSET Rank]  neighbour processes
  OwnerOf,           \* [Pos -> Rank or NoRank]  the subdomain that contains a point
  Overlap,           \* [Pos -> SUBSET Rank]  subdomains the sphere (and dx) meets
  Wrap,              \* [Pos -> Pos]  periodicallyMapToDomain
  Image,             \* [Rank -> [Pos -> Pos]]  correctParticlePosition of a process
  Reach,             \* [Pos -> SUBSET Pos]  where one time step can take a particle
  Fixed,             \* particles flagged FIXED
  NonCommunicating   \* particles flagged NON_COMMUNICATING

ASSUME RankAssumption == NoRank \notin Rank /\ \E r, s \in Rank : r # s

ASSUME ParticleAssumption == Fixed \subseteq Particle /\ NonCommunicating \subseteq Particle

ASSUME GeometryAssumption ==
  /\ Pos # {}
  /\ Nbr \in [Rank -> SUBSET Rank]
  /\ OwnerOf \in [Pos -> Rank \cup {NoRank}]
  /\ Overlap \in [Pos -> SUBSET Rank]
  /\ Wrap \in [Pos -> Pos]
  /\ Image \in [Rank -> [Pos -> Pos]]
  /\ Reach \in [Pos -> SUBSET Pos]

(* The neighbourhood relation of the block forest is symmetric. *)
ASSUME NeighborAssumption ==
  \A r, s \in Rank : s \in Nbr[r] => s # r /\ r \in Nbr[s]

(* What the copies of a particle need of the geometry to agree: wrapping leaves
   the domain alone, a point that lies in a subdomain is its own image there, and
   from whichever image it starts, a process arrives at the same image and at the
   same subdomains the sphere meets. *)
ImagesAgree ==
  \A p \in Pos : OwnerOf[p] # NoRank =>
    /\ Wrap[p] = p
    /\ Image[OwnerOf[p]][p] = p
    /\ \A r, s \in Rank : /\ Image[r][Image[s][p]] = Image[r][p]
                          /\ Overlap[Image[r][p]] = Overlap[p]

(* And for a new owner to have a ghost: a time step takes a particle only into
   neighbouring subdomains that its sphere has met before. *)
StepsSeen ==
  \A p \in Pos : \A q \in Reach[p] :
    OwnerOf[p] # NoRank /\ OwnerOf[Wrap[q]] \in Nbr[OwnerOf[p]]
      => OwnerOf[Wrap[q]] \in Overlap[p]

VARIABLES
  ps,         \* ps[r][u]: what the ParticleStorage of r holds of particle u
  migrating,  \* migrating[<<s, d>>]: buffers of the first exchange not parsed yet
  resolving,  \* resolving[<<s, d>>]: buffers of the second exchange
  pending,    \* pending[r]: processes r still expects a buffer from
  phase,      \* phase[r]: where r is in its time step
  resting,    \* no force acts any more: the particles stay where they are
  aborted     \* a WALBERLA_CHECK has ended the job

vars == <<ps, migrating, resolving, pending, phase, resting, aborted>>

-----------------------------------------------------------------------------
(* Slots of a ParticleStorage and notifications *)

Slot == [kind : {"none", "master", "ghost"}, owner : Rank \cup {NoRank},
         ghosts : SUBSET Rank,    \* ghostOwners
         told : SUBSET Rank,      \* neighborState: neighbours known to have a copy
         pos : Pos]

(* The position of what does not exist; any one will do. *)
Nowhere == CHOOSE p \in Pos : TRUE

Absent == [kind |-> "none", owner |-> NoRank, ghosts |-> {}, told |-> {}, pos |-> Nowhere]

NewGhost(o, p) == [kind |-> "ghost", owner |-> o, ghosts |-> {}, told |-> {}, pos |-> p]

NewMaster(r, p) == [kind |-> "master", owner |-> r, ghosts |-> {}, told |-> {}, pos |-> p]

Communicates(u) == u \notin NonCommunicating

Holds(r, u) == ps[r][u].kind # "none"
IsMaster(r, u) == ps[r][u].kind = "master"
IsGhost(r, u) == ps[r][u].kind = "ghost"

(* What the first exchange says of a particle: an update of the position, then
   what has become of the master.  "none" when it says nothing. *)
Fate == [type : {"none", "removal", "migration", "remoteMigration"},
         owner : Rank \cup {NoRank}, ghosts : SUBSET Rank]

NoFate == [type |-> "none", owner |-> NoRank, ghosts |-> {}]

MigrationNote == [update : BOOLEAN, pos : Pos, fate : Fate]

Silence == [update |-> FALSE, pos |-> Nowhere, fate |-> NoFate]

(* What the second exchange says of a particle, in the order in which it is
   written: here is a copy of a particle of owner; the ranks in fresh got one;
   mine is gone (gone names the owner). *)
ResolutionNote == [copy : BOOLEAN, owner : Rank \cup {NoRank}, pos : Pos,
                   fresh : SUBSET Rank, gone : BOOLEAN]

Nothing == [copy |-> FALSE, owner |-> NoRank, pos |-> Nowhere, fresh |-> {}, gone |-> FALSE]

-----------------------------------------------------------------------------
(* updateAndMigrate, for one particle u on process r *)

FindContaining(r, p) ==
  IF OwnerOf[p] \in Nbr[r] \cup {r} THEN OwnerOf[p] ELSE NoRank

IsHandled(r, u) == IsMaster(r, u) /\ Communicates(u)

MappedPos(r, u) == IF u \in Fixed THEN ps[r][u].pos ELSE Wrap[ps[r][u].pos]

NewOwner(r, u) == FindContaining(r, MappedPos(r, u))

FlowsOut(r, u) == IsHandled(r, u) /\ NewOwner(r, u) = NoRank

Migrates(r, u) == IsHandled(r, u) /\ NewOwner(r, u) \notin {NoRank, r}

(* "New owner has to be former ghost owner!" *)
MigrationChecks(r) ==
  \A u \in Particle : Migrates(r, u) => NewOwner(r, u) \in ps[r][u].ghosts

(* Mutant: the old owner keeps its list of ghosts. *)
SlotAfterMigrationListed(r, u) ==
  LET p == MappedPos(r, u) IN
  CASE FlowsOut(r, u) -> Absent
    [] Migrates(r, u) -> [ps[r][u] EXCEPT !.kind = "ghost", !.owner = NewOwner(r, u),
                                          !.pos = Image[r][p]]
    [] OTHER          -> [ps[r][u] EXCEPT !.pos = IF IsHandled(r, u) THEN p ELSE @]

SlotAfterMigration(r, u) ==
  LET p == MappedPos(r, u) IN
  CASE FlowsOut(r, u) -> Absent
    [] Migrates(r, u) -> [ps[r][u] EXCEPT !.kind = "ghost", !.owner = NewOwner(r, u),
                                          !.ghosts = {}, !.pos = Image[r][p]]
    [] OTHER          -> [ps[r][u] EXCEPT !.pos = IF IsHandled(r, u) THEN p ELSE @]

FateFor(r, d, u) ==
  LET o == NewOwner(r, u) IN
  CASE FlowsOut(r, u)            -> [NoFate EXCEPT !.type = "removal"]
    [] Migrates(r, u) /\ d = o   -> [NoFate EXCEPT !.type = "migration",
                                        !.ghosts = (ps[r][u].ghosts \ {o}) \cup {r}]
    [] Migrates(r, u) /\ d # o   -> [NoFate EXCEPT !.type = "remoteMigration", !.owner = o]
    [] OTHER                     -> NoFate

MigrationNoteFor(r, d, u) ==
  IF IsHandled(r, u) /\ d \in ps[r][u].ghosts
  THEN [update |-> TRUE, pos |-> MappedPos(r, u), fate |-> FateFor(r, d, u)]
  ELSE Silence

(* Who gets a buffer, and whose buffer is awaited, in the first exchange *)
UpdateReceivers(r) == UNION {ps[r][u].ghosts : u \in {v \in Particle : IsHandled(r, v)}}

(* Mutant: the neighbours are awaited as in the second exchange. *)
UpdateSendersNear(r) ==
  Nbr[r] \cup {ps[r][u].owner : u \in {v \in Particle : IsGhost(r, v) /\ Communicates(v)}}

UpdateSenders(r) == {ps[r][u].owner : u \in {v \in Particle : IsGhost(r, v) /\ Communicates(v)}}

-----------------------------------------------------------------------------
(* ParseMessage in the first exchange: note n from s on a slot sl of r.  All of
   it concerns ghosts of s. *)

FateChecks(r, sl, f) ==
  /\ f.type = "migration" => OwnerOf[sl.pos] = r
  /\ f.type = "remoteMigration" => f.owner # r

Updated(r, sl, n) == [sl EXCEPT !.pos = Image[r][n.pos]]

MigrationNoteChecks(r, s, sl, n) ==
  n.update => /\ sl.kind = "ghost"
              /\ sl.owner = s
              /\ FateChecks(r, Updated(r, sl, n), n.fate)

(* Mutant: the new owner forgets to unset the GHOST flag. *)
SlotAfterMigrationStillGhost(r, sl, n) ==
  LET up == IF n.update THEN Updated(r, sl, n) ELSE sl IN
  CASE n.fate.type = "removal"         -> Absent
    [] n.fate.type = "remoteMigration" -> [up EXCEPT !.owner = n.fate.owner]
    [] OTHER                           -> up

SlotAfterMigrationNote(r, sl, n) ==
  LET up == IF n.update THEN Updated(r, sl, n) ELSE sl IN
  CASE n.fate.type = "removal"         -> Absent
    [] n.fate.type = "migration"       -> [up EXCEPT !.kind = "master", !.owner = r,
                                                     !.ghosts = n.fate.ghosts]
    [] n.fate.type = "remoteMigration" -> [up EXCEPT !.owner = n.fate.owner]
    [] OTHER                           -> up

-----------------------------------------------------------------------------
(* checkAndResolveOverlap, for one particle u on process r *)

Resolves(r, u) == Holds(r, u) /\ Communicates(u)

(* Neighbours that get a ghost from r: not the owner, not those known to have it *)
(* Mutant: only masters create ghosts. *)
NewNeighborsOfMaster(r, u) ==
  IF IsHandled(r, u)
  THEN (Nbr[r] \cap Overlap[ps[r][u].pos]) \ ({ps[r][u].owner} \cup ps[r][u].told)
  ELSE {}

NewNeighbors(r, u) ==
  IF Resolves(r, u)
  THEN (Nbr[r] \cap Overlap[ps[r][u].pos]) \ ({ps[r][u].owner} \cup ps[r][u].told)
  ELSE {}

(* A ghost whose subdomain the sphere has left is deleted. *)
Retires(r, u) == IsGhost(r, u) /\ Communicates(u) /\ r \notin Overlap[ps[r][u].pos]

SlotAfterResolution(r, u) ==
  IF Retires(r, u) THEN Absent
  ELSE [ps[r][u] EXCEPT !.told = @ \cup NewNeighbors(r, u)]

(* Mutant: the owner is not told of the ghosts another process has created. *)
ResolutionNoteUnannounced(r, d, u) ==
  LET sl    == ps[r][u]
      fresh == IF IsMaster(r, u) /\ Communicates(u) /\ d = r THEN NewNeighbors(r, u) ELSE {} IN
  [copy |-> d \in NewNeighbors(r, u), owner |-> sl.owner, pos |-> sl.pos, fresh |-> fresh,
   gone |-> Retires(r, u) /\ d \in Nbr[r] \cup {sl.owner}]

(* Mutant: only the owner is told that a ghost has been deleted. *)
ResolutionNoteToOwner(r, d, u) ==
  LET sl    == ps[r][u]
      fresh == IF Resolves(r, u) /\ d = sl.owner THEN NewNeighbors(r, u) ELSE {} IN
  [copy |-> d \in NewNeighbors(r, u), owner |-> sl.owner, pos |-> sl.pos, fresh |-> fresh,
   gone |-> Retires(r, u) /\ d = sl.owner]

ResolutionNoteFor(r, d, u) ==
  LET sl    == ps[r][u]
      copy  == d \in NewNeighbors(r, u)
      fresh == IF Resolves(r, u) /\ d = sl.owner THEN NewNeighbors(r, u) ELSE {}
      gone  == Retires(r, u) /\ d \in Nbr[r] \cup {sl.owner} IN
  IF copy \/ fresh # {} \/ gone
  THEN [copy |-> copy, owner |-> sl.owner, pos |-> sl.pos, fresh |-> fresh, gone |-> gone]
  ELSE Nothing

(* Who gets a buffer, and whose buffer is awaited, in the second exchange: r
   writes to itself, too.  The list of those awaited is made after the walk. *)
ResolutionReceivers(r) ==
  Nbr[r] \cup {r} \cup {ps[r][u].owner : u \in {v \in Particle : Resolves(r, v)}}

ResolutionSenders(r) ==
  Nbr[r] \cup {r} \cup UNION {ps[r][u].ghosts : u \in {v \in Particle : IsHandled(r, v)}}

-----------------------------------------------------------------------------
(* ParseMessage in the second exchange.  Superfluous copies are allowed. *)

AfterCopy(r, sl, n) ==
  IF n.copy /\ sl.kind = "none" THEN NewGhost(n.owner, Image[r][n.pos]) ELSE sl

ResolutionNoteChecks(r, sl, n) ==
  LET got == AfterCopy(r, sl, n) IN
  /\ n.fresh # {} => got.kind # "none"
  /\ n.gone /\ n.owner = r => got.kind = "master"
  /\ n.gone /\ n.owner # r => got.kind # "master"

SlotAfterResolutionNote(r, s, sl, n) ==
  LET got == AfterCopy(r, sl, n) IN
  [got EXCEPT !.ghosts = (@ \cup n.fresh) \ IF n.gone /\ n.owner = r THEN {s} ELSE {},
              !.told = @ \ IF n.gone THEN {s} ELSE {}]

-----------------------------------------------------------------------------
Channels == Rank \X Rank

Init ==
  /\ \E at \in [Particle -> {p \in Pos : OwnerOf[p] # NoRank}] :
       ps = [r \in Rank |-> [u \in Particle |->
               IF OwnerOf[at[u]] = r THEN NewMaster(r, at[u]) ELSE Absent]]
  /\ migrating = [c \in Channels |-> <<>>]
  /\ resolving = [c \in Channels |-> <<>>]
  /\ pending = [r \in Rank |-> {}]
  /\ phase = [r \in Rank |-> "migrate"]
  /\ resting = FALSE
  /\ aborted = FALSE

Abort ==
  /\ aborted' = TRUE
  /\ UNCHANGED <<ps, migrating, resolving, pending, phase, resting>>

(* The time integration kernels move the masters of r. *)
Integrate(r) ==
  /\ ~aborted
  /\ phase[r] = "integrate"
  /\ \E to \in [Particle -> Pos] :
       /\ \A u \in Particle :
            IF IsMaster(r, u) /\ u \notin Fixed /\ ~resting
            THEN to[u] \in Reach[ps[r][u].pos]
            ELSE to[u] = ps[r][u].pos
       /\ ps' = [ps EXCEPT ![r] = [u \in Particle |-> [ps[r][u] EXCEPT !.pos = to[u]]]]
  /\ phase' = [phase EXCEPT ![r] = "migrate"]
  /\ UNCHANGED <<migrating, resolving, pending, resting, aborted>>

(* The environment: forces vanish, and the domain is not cut anew any more. *)
ComeToRest ==
  /\ ~resting
  /\ resting' = TRUE
  /\ UNCHANGED <<ps, migrating, resolving, pending, phase, aborted>>

(* updateAndMigrate up to sendAll *)
WalkMasters(r) ==
  /\ ps' = [ps EXCEPT ![r] = [u \in Particle |-> SlotAfterMigration(r, u)]]
  /\ migrating' = [c \in Channels |->
       IF c[1] = r /\ c[2] \in UpdateReceivers(r)
       THEN Append(migrating[c], [u \in Particle |-> MigrationNoteFor(r, c[2], u)])
       ELSE migrating[c]]
  /\ pending' = [pending EXCEPT ![r] = UpdateSenders(r)]
  /\ phase' = [phase EXCEPT ![r] = IF UpdateSenders(r) = {} THEN "resolve" ELSE "update"]
  /\ UNCHANGED <<resolving, resting, aborted>>

UpdateAndMigrate(r) ==
  /\ ~aborted
  /\ phase[r] = "migrate"
  /\ IF MigrationChecks(r) THEN WalkMasters(r) ELSE Abort

(* One turn of the receive loop of the first exchange *)
ParseMigration(r, s) ==
  /\ ~aborted
  /\ phase[r] = "update"
  /\ s \in pending[r]
  /\ migrating[<<s, r>>] # <<>>
  /\ LET b == Head(migrating[<<s, r>>]) IN
     IF \A u \in Particle : MigrationNoteChecks(r, s, ps[r][u], b[u])
     THEN /\ ps' = [ps EXCEPT ![r] =
                      [u \in Particle |-> SlotAfterMigrationNote(r, ps[r][u], b[u])]]
          /\ migrating' = [migrating EXCEPT ![<<s, r>>] = Tail(@)]
          /\ pending' = [pending EXCEPT ![r] = @ \ {s}]
          /\ phase' = [phase EXCEPT ![r] = IF pending[r] = {s} THEN "resolve" ELSE "update"]
          /\ UNCHANGED <<resolving, resting, aborted>>
     ELSE Abort

(* checkAndResolveOverlap up to sendAll *)
CheckAndResolveOverlap(r) ==
  /\ ~aborted
  /\ phase[r] = "resolve"
  /\ ps' = [ps EXCEPT ![r] = [u \in Particle |-> SlotAfterResolution(r, u)]]
  /\ resolving' = [c \in Channels |->
       IF c[1] = r /\ c[2] \in ResolutionReceivers(r)
       THEN Append(resolving[c], [u \in Particle |-> ResolutionNoteFor(r, c[2], u)])
       ELSE resolving[c]]
  /\ pending' = [pending EXCEPT ![r] = ResolutionSenders(r)]
  /\ phase' = [phase EXCEPT ![r] = "parse"]
  /\ UNCHANGED <<migrating, resting, aborted>>

(* One turn of the receive loop of the second exchange *)
ParseResolution(r, s) ==
  /\ ~aborted
  /\ phase[r] = "parse"
  /\ s \in pending[r]
  /\ resolving[<<s, r>>] # <<>>
  /\ LET b == Head(resolving[<<s, r>>]) IN
     IF \A u \in Particle : ResolutionNoteChecks(r, ps[r][u], b[u])
     THEN /\ ps' = [ps EXCEPT ![r] =
                      [u \in Particle |-> SlotAfterResolutionNote(r, s, ps[r][u], b[u])]]
          /\ resolving' = [resolving EXCEPT ![<<s, r>>] = Tail(@)]
          /\ pending' = [pending EXCEPT ![r] = @ \ {s}]
          /\ phase' = [phase EXCEPT ![r] = IF pending[r] = {s} THEN "integrate" ELSE "parse"]
          /\ UNCHANGED <<migrating, resting, aborted>>
     ELSE Abort

(* No process is inside of the kernel. *)
Settled == \A r \in Rank : phase[r] = "integrate"

(* ClearGhostOwnerSync on all processes, followed by a synchronization.  It
   touches no message and no other process, so doing it on all processes in one
   step reorders nothing that can be told apart. *)
ClearGhosts ==
  /\ ~aborted
  /\ ~resting
  /\ Settled
  /\ ps' = [r \in Rank |-> [u \in Particle |->
              IF IsMaster(r, u) THEN [ps[r][u] EXCEPT !.ghosts = {}, !.told = {}] ELSE Absent]]
  /\ phase' = [r \in Rank |-> "migrate"]
  /\ UNCHANGED <<migrating, resolving, pending, resting, aborted>>

(* What process r does next *)
Advance(r) ==
  \/ Integrate(r)
  \/ UpdateAndMigrate(r)
  \/ \E s \in Rank : ParseMigration(r, s)
  \/ CheckAndResolveOverlap(r)
  \/ \E s \in Rank : ParseResolution(r, s)

Next ==
  \/ \E r \in Rank : Advance(r)
  \/ ComeToRest
  \/ ClearGhosts

Spec == Init /\ [][Next]_vars

(* Every process keeps running its time loop and MPI delivers what was sent. *)
Fairness == \A r \in Rank : WF_vars(Advance(r))

FairSpec == Spec /\ Fairness

-----------------------------------------------------------------------------
(* Properties *)

(* What a process can store: a master is its own and not its own ghost, a
   ghost's owner is elsewhere and only masters keep a list of ghosts. *)
SlotOK(r, sl) ==
  /\ sl \in Slot
  /\ sl.kind = "none" => sl = Absent
  /\ sl.kind = "ghost" => sl.owner \in Rank \ {r} /\ sl.ghosts = {}
  /\ sl.kind = "master" => sl.owner = r /\ r \notin sl.ghosts
  /\ sl.told \subseteq Nbr[r]

(* Type invariant, with the shape of the slots. *)
TypeOK ==
  /\ ps \in [Rank -> [Particle -> Slot]]
  /\ \A r \in Rank, u \in Particle : SlotOK(r, ps[r][u])
  /\ migrating \in [Channels -> Seq([Particle -> MigrationNote])]
  /\ resolving \in [Channels -> Seq([Particle -> ResolutionNote])]
  /\ pending \in [Rank -> SUBSET Rank]
  /\ phase \in [Rank -> {"integrate", "migrate", "update", "resolve", "parse"}]
  /\ resting \in BOOLEAN
  /\ aborted \in BOOLEAN

(* No WALBERLA_CHECK of SyncGhostOwners and ParseMessage can fail: a particle
   always finds a ghost where it moves to, an announcement always finds the
   master, in whatever order the buffers of different senders arrive. *)
NoAbort == ~aborted

(* After a synchronization the ghostOwners of a master are the processes with
   a ghost, also those the master's process did not serve itself; every ghost
   names that process and lies where the master lies, seen from there. *)
RegistryExact ==
  Settled =>
    \A u \in Particle \ NonCommunicating, d \in Rank :
      /\ IsGhost(d, u) <=> \E r \in Rank : IsMaster(r, u) /\ d \in ps[r][u].ghosts
      /\ \A r \in Rank : IsMaster(r, u) /\ IsGhost(d, u) =>
           ps[d][u].owner = r /\ ps[d][u].pos = Image[d][ps[r][u].pos]

(* A neighbour marked as knowing the particle has it: a stale mark would keep
   its ghost from being created ever again. *)
MarksTrue ==
  Settled => \A r \in Rank, u \in Particle : \A d \in ps[r][u].told : Holds(d, u)

(* After a synchronization, what the copies of a particle note of each other
   is true, on its master's process and on every other. *)
NotesTrue == RegistryExact /\ MarksTrue

(* Every synchronization a process enters ends: the process is back in its
   time step again and again. *)
SyncEnds == \A r \in Rank : []<>(phase[r] = "integrate")

(* Every subdomain the sphere of a particle meets has a copy of it. *)
Covered ==
  \A u \in Particle \ NonCommunicating, r \in Rank :
    IsMaster(r, u) => \A d \in Overlap[ps[r][u].pos] : Holds(d, u)

(* Ghosts spread from neighbour to neighbour, one synchronization each; once
   the particles rest, every process the spheres reach gets its copies, and
   keeps them. *)
GhostsSpread == []<>resting => <>[](Settled => Covered)

-----------------------------------------------------------------------------
(* Refinement of ParticleOwnership *)

(* A buffer under way to d that makes d the owner of u *)
InTransit(d, u) ==
  \E s \in Rank : \E i \in DOMAIN migrating[<<s, d>>] :
    migrating[<<s, d>>][i][u].fate.type = "migration"

Holder(u) ==
  LET masters == {r \in Rank : IsMaster(r, u)}
      to      == {d \in Rank : InTransit(d, u)} IN
  IF masters # {} THEN [state |-> "held", by |-> masters \cup to]
  ELSE [state |-> IF to = {} THEN "out" ELSE "moving", by |-> to]

Ownership == INSTANCE ParticleOwnership WITH holder <- [u \in Particle |-> Holder(u)]

(* Also with ghosts several processes away, a particle is owned by exactly one
   process or on its way to one neighbour of its last owner. *)
ImplementsOwnership == Ownership!Spec

=============================================================================
