-------------------------- MODULE PropertyExchange --------------------------
(***************************************************************************)
(* A time step of a particle simulation: SyncNextNeighbors, then rounds in *)
(* which contact kernels change a property on masters and ghosts alike,    *)
(* mesa_pd/mpi/ReduceProperty sums it up on the master and                 *)
(* mesa_pd/mpi/BroadcastProperty hands the result back to the ghosts, then *)
(* time integration.  The property is the velocity correction of the hard  *)
(* contact solver (VelocityCorrectionNotification is reduced,              *)
(* VelocityUpdateNotification is broadcast).  All three kernels use buffer *)
(* systems with the default tag: only the order of the messages of two     *)
(* processes says which kernel a buffer is for.  A velocity is kept as the *)
(* sum it is: how many contributions of the kernels of each process it     *)
(* holds; the relaxation factor, the same on all processes, is left out.   *)
(***************************************************************************)
EXTENDS ParticleSync

CONSTANT
  Rounds      \* relaxation rounds in a time step

ASSUME RoundsAssumption == Rounds \in Nat \ {0}

VARIABLES
  stage,      \* stage[r]: what r does in its time step
  round,      \* round[r]: relaxation rounds done in this time step
  dv,         \* dv[r][u]: velocity correction of the copy of u on r
  vel,        \* vel[r][u]: its velocity, counted from the start of the relaxation
  wire,       \* wire[<<s, d>>]: the kernels whose buffers are under way, in order
  values,     \* values[<<s, d>>]: contents of the buffers with property values
  awaited,    \* awaited[r]: processes r expects property values from
  confused    \* a kernel was handed a buffer of another kernel

solver == <<stage, round, dv, vel>>
comm == <<wire, values, awaited, confused>>
allVars == <<vars, solver, comm>>

-----------------------------------------------------------------------------
(* Sums of contributions *)
Amount == [Rank -> Nat]

Nothing == [q \in Rank |-> 0]

Share(r) == [q \in Rank |-> IF q = r THEN 1 ELSE 0]

Plus(a, b) == [q \in Rank |-> a[q] + b[q]]

IsGhost(r, u) == ps[r][u].kind = "ghost"

Ghosts(r) == {u \in Particle : IsGhost(r, u)}
Masters(r) == {u \in Particle : IsMaster(r, u)}

GhostRanks(r) == UNION {ps[r][u].ghosts : u \in Masters(r)}

OwnerRanks(r) == {ps[r][u].owner : u \in Ghosts(r)}

(* What a ghost contributes, and what a master tells its ghosts: functions on
   the particles the buffer for d speaks of *)
Reduction(r, d) == [u \in {v \in Ghosts(r) : ps[r][v].owner = d} |-> dv[r][u]]

(* Mutant: the velocity is written before the correction is added. *)
BroadcastEarly(r, d) ==
  [u \in {v \in Masters(r) : d \in ps[r][v].ghosts} |-> vel[r][u]]

Broadcast(r, d) ==
  [u \in {v \in Masters(r) : d \in ps[r][v].ghosts} |-> Plus(vel[r][u], dv[r][u])]

(* s writes one buffer for each rank in to, with contents c[d]. *)
Send(s, to, kernel, c) ==
  /\ wire' = [w \in Rank \X Rank |->
       IF w[1] = s /\ w[2] \in to THEN Append(wire[w], kernel) ELSE wire[w]]
  /\ values' = [w \in Rank \X Rank |->
       IF w[1] = s /\ w[2] \in to /\ kernel # "sync"
       THEN Append(values[w], c[w[2]]) ELSE values[w]]

(* r takes the next buffer of s, whatever kernel it is from. *)
Arrives(r, s) == wire[<<s, r>>] # <<>>

Take(r, s) ==
  /\ wire' = [wire EXCEPT ![<<s, r>>] = Tail(@)]
  /\ values' = IF Head(wire[<<s, r>>]) = "sync" THEN values
               ELSE [values EXCEPT ![<<s, r>>] = Tail(@)]

Misread ==
  /\ confused' = TRUE
  /\ UNCHANGED <<vars, solver, wire, values, awaited>>

(* A failed check ends the job. *)
Fail == Abort /\ UNCHANGED <<solver, comm>>

-----------------------------------------------------------------------------
ExchangeInit ==
  /\ Init
  /\ stage = [r \in Rank |-> "sync"]
  /\ round = [r \in Rank |-> 0]
  /\ dv = [r \in Rank |-> [u \in Particle |-> Nothing]]
  /\ vel = [r \in Rank |-> [u \in Particle |-> Nothing]]
  /\ wire = [c \in Rank \X Rank |-> <<>>]
  /\ values = [c \in Rank \X Rank |-> <<>>]
  /\ awaited = [r \in Rank |-> {}]
  /\ confused = FALSE

(* Erased copies lose the property, created ones start with the default. *)
ForgetErased(r) ==
  /\ dv' = [dv EXCEPT ![r] = [u \in Particle |->
               IF ps'[r][u].kind = "none" THEN Nothing ELSE @[u]]]
  /\ vel' = [vel EXCEPT ![r] = [u \in Particle |->
                IF ps'[r][u].kind = "none" THEN Nothing ELSE @[u]]]

AfterSync(r) ==
  /\ ForgetErased(r)
  /\ stage' = [stage EXCEPT ![r] = IF phase'[r] = "integrate" THEN "relax" ELSE "sync"]
  /\ UNCHANGED <<round, awaited, confused>>

SyncStep(r) ==
  /\ stage[r] = "sync"
  /\ Sync(r)
  /\ IF aborted' THEN UNCHANGED <<solver, comm>>
     ELSE AfterSync(r) /\ Send(r, Opened(r), "sync", <<>>)

ParseSync(r, s) ==
  /\ ~aborted
  /\ phase[r] = "parse"
  /\ s \in pending[r]
  /\ Arrives(r, s)
  /\ IF Head(wire[<<s, r>>]) # "sync" THEN Misread
     ELSE /\ Parse(r, s)
          /\ IF aborted' THEN UNCHANGED <<solver, comm>>
             ELSE AfterSync(r) /\ Take(r, s)

(* Contact kernels add to dv on all copies; the first round starts with what
   external forces contribute (InitParticlesForHCSITS assigns it). *)
Relax(r) ==
  /\ ~aborted
  /\ stage[r] = "relax"
  /\ LET c == [u \in Particle |-> IF ps[r][u].kind = "none" THEN Nothing ELSE Share(r)] IN
     IF round[r] = 0
     THEN /\ dv' = [dv EXCEPT ![r] = c]
          /\ vel' = [vel EXCEPT ![r] = [u \in Particle |-> Nothing]]
     ELSE /\ dv' = [dv EXCEPT ![r] = [u \in Particle |-> Plus(@[u], c[u])]]
          /\ UNCHANGED vel
  /\ stage' = [stage EXCEPT ![r] = "reduce"]
  /\ UNCHANGED <<vars, round, comm>>

(* Mutant: who is awaited is never set. *)
SendReductionUnawaited(r) ==
  /\ ~aborted
  /\ stage[r] = "reduce"
  /\ Send(r, OwnerRanks(r), "reduce", [d \in Rank |-> Reduction(r, d)])
  /\ dv' = [dv EXCEPT ![r] = [u \in Particle |-> IF IsGhost(r, u) THEN Nothing ELSE @[u]]]
  /\ stage' = [stage EXCEPT ![r] = "broadcast"]
  /\ UNCHANGED <<vars, round, vel, awaited, confused>>

(* ReduceProperty up to sendAll: ghosts send their share and are reset. *)
SendReduction(r) ==
  /\ ~aborted
  /\ stage[r] = "reduce"
  /\ Send(r, OwnerRanks(r), "reduce", [d \in Rank |-> Reduction(r, d)])
  /\ dv' = [dv EXCEPT ![r] = [u \in Particle |-> IF IsGhost(r, u) THEN Nothing ELSE @[u]]]
  /\ awaited' = [awaited EXCEPT ![r] = GhostRanks(r)]
  /\ stage' = [stage EXCEPT ![r] = IF GhostRanks(r) = {} THEN "broadcast" ELSE "reducing"]
  /\ UNCHANGED <<vars, round, vel, confused>>

(* Mutant: a share replaces what is there. *)
SummedLast(r, b) == [u \in Particle |-> IF u \in DOMAIN b THEN b[u] ELSE dv[r][u]]

Summed(r, b) ==
  [u \in Particle |-> IF u \in DOMAIN b THEN Plus(dv[r][u], b[u]) ELSE dv[r][u]]

(* One turn of the receive loop of ReduceProperty *)
ParseReduction(r, s) ==
  /\ ~aborted
  /\ stage[r] = "reducing"
  /\ s \in awaited[r]
  /\ Arrives(r, s)
  /\ LET b == Head(values[<<s, r>>]) IN
     CASE Head(wire[<<s, r>>]) # "reduce"                      -> Misread
       [] Head(wire[<<s, r>>]) = "reduce"
            /\ \E u \in DOMAIN b : ps[r][u].kind = "none"      -> Fail
       [] OTHER ->
            /\ Take(r, s)
            /\ dv' = [dv EXCEPT ![r] = Summed(r, b)]
            /\ awaited' = [awaited EXCEPT ![r] = @ \ {s}]
            /\ stage' = [stage EXCEPT ![r] = IF awaited[r] = {s} THEN "broadcast" ELSE @]
            /\ UNCHANGED <<vars, round, vel, confused>>

(* Mutant: the rounds are not counted anew. *)
NextRoundOn(r) ==
  /\ round' = [round EXCEPT ![r] = @ + 1]
  /\ stage' = [stage EXCEPT ![r] = IF round[r] + 1 = Rounds THEN "done" ELSE "relax"]

(* Where a process goes after a round *)
NextRound(r) ==
  /\ round' = [round EXCEPT ![r] = IF @ + 1 = Rounds THEN 0 ELSE @ + 1]
  /\ stage' = [stage EXCEPT ![r] = IF round[r] + 1 = Rounds THEN "done" ELSE "relax"]

(* BroadcastProperty up to sendAll.  Writing a VelocityUpdateNotification for
   the first ghost applies the correction and clears it, so a master without
   a ghost keeps its own. *)
SendBroadcast(r) ==
  /\ ~aborted
  /\ stage[r] = "broadcast"
  /\ Send(r, GhostRanks(r), "broadcast", [d \in Rank |-> Broadcast(r, d)])
  /\ LET written == {u \in Masters(r) : ps[r][u].ghosts # {}} IN
     /\ vel' = [vel EXCEPT ![r] = [u \in Particle |->
                  IF u \in written THEN Plus(@[u], dv[r][u]) ELSE @[u]]]
     /\ dv' = [dv EXCEPT ![r] = [u \in Particle |-> IF u \in written THEN Nothing ELSE @[u]]]
  /\ awaited' = [awaited EXCEPT ![r] = OwnerRanks(r)]
  /\ IF OwnerRanks(r) = {} THEN NextRound(r)
     ELSE stage' = [stage EXCEPT ![r] = "broadcasting"] /\ UNCHANGED round
  /\ UNCHANGED <<vars, confused>>

(* One turn of the receive loop of BroadcastProperty *)
ParseBroadcast(r, s) ==
  /\ ~aborted
  /\ stage[r] = "broadcasting"
  /\ s \in awaited[r]
  /\ Arrives(r, s)
  /\ LET b == Head(values[<<s, r>>]) IN
     CASE Head(wire[<<s, r>>]) # "broadcast"                   -> Misread
       [] Head(wire[<<s, r>>]) = "broadcast"
            /\ \E u \in DOMAIN b : ps[r][u].kind = "none"      -> Fail
       [] OTHER ->
            /\ Take(r, s)
            /\ vel' = [vel EXCEPT ![r] = [u \in Particle |->
                         IF u \in DOMAIN b THEN b[u] ELSE @[u]]]
            /\ dv' = [dv EXCEPT ![r] = [u \in Particle |->
                        IF u \in DOMAIN b THEN Nothing ELSE @[u]]]
            /\ awaited' = [awaited EXCEPT ![r] = @ \ {s}]
            /\ IF awaited[r] = {s} THEN NextRound(r) ELSE UNCHANGED <<stage, round>>
            /\ UNCHANGED <<vars, confused>>

IntegrateStep(r) ==
  /\ stage[r] = "done"
  /\ Integrate(r)
  /\ stage' = [stage EXCEPT ![r] = "sync"]
  /\ UNCHANGED <<round, dv, vel, comm>>

TimeStep(r) ==
  \/ SyncStep(r)
  \/ \E s \in Rank : ParseSync(r, s)
  \/ Relax(r)
  \/ SendReduction(r)
  \/ \E s \in Rank : ParseReduction(r, s)
  \/ SendBroadcast(r)
  \/ \E s \in Rank : ParseBroadcast(r, s)
  \/ IntegrateStep(r)

ExchangeNext == \E r \in Rank : TimeStep(r)

ExchangeSpec ==
  ExchangeInit /\ [][ExchangeNext]_allVars /\ \A r \in Rank : WF_allVars(TimeStep(r))

-----------------------------------------------------------------------------
(* Properties *)

Kernel == {"sync", "reduce", "broadcast"}

(* What a buffer with property values holds: an amount for some of the particles *)
IsContents(b) == \E U \in SUBSET Particle : b \in [U -> Amount]

(* Places in the queue of c of buffers with, and without, property values *)
WithValues(c) == {i \in DOMAIN wire[c] : wire[c][i] # "sync"}
WithNotes(c) == {i \in DOMAIN wire[c] : wire[c][i] = "sync"}

(* Type invariant of what is added to ParticleSync; buffers with values, and with
   notifications, are as many as the wire says. *)
ExchangeTypeOK ==
  /\ stage \in [Rank -> {"sync", "relax", "reduce", "reducing", "broadcast", "broadcasting", "done"}]
  /\ round \in [Rank -> 0 .. Rounds - 1]
  /\ dv \in [Rank -> [Particle -> Amount]]
  /\ vel \in [Rank -> [Particle -> Amount]]
  /\ wire \in [Rank \X Rank -> Seq(Kernel)]
  /\ \A c \in Rank \X Rank :
       /\ \A i \in DOMAIN values[c] : IsContents(values[c][i])
       /\ Len(values[c]) = Cardinality(WithValues(c))
       /\ Len(chan[c]) = Cardinality(WithNotes(c))
  /\ awaited \in [Rank -> SUBSET Rank]
  /\ confused \in BOOLEAN

(* Although synchronization, reduction and broadcast share one tag and keep no
   barrier between them, no kernel is ever handed a buffer of another. *)
NoConfusion == ~confused

(* When the reduction is over, the master has every contribution of its copies
   in this time step exactly once, and no others: applied already, or in its
   correction. *)
ReductionExact ==
  \A r \in Rank : stage[r] = "broadcast" =>
    \A u \in Masters(r), q \in Rank :
      vel[r][u][q] + dv[r][u][q]
        = IF q \in ps[r][u].ghosts \cup {r} THEN round[r] + 1 ELSE 0

(* After the last round all copies of a particle have the same velocity. *)
CopiesAgree ==
  \A r, d \in Rank : stage[r] = "done" /\ stage[d] = "done" =>
    \A u \in Masters(r) : d \in ps[r][u].ghosts => vel[d][u] = vel[r][u]

(* Every time step ends. *)
TimeStepEnds == \A r \in Rank : []<>(stage[r] = "sync")
=============================================================================
