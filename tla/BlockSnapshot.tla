---------------------------- MODULE BlockSnapshot ----------------------------
(***************************************************************************)
(* blockforest/BlockForest::createSnapshot and restoreSnapshot: every      *)
(* process keeps a copy of its own blocks and of a partner's in memory.    *)
(* When processes are lost, the others stop with an MPI error, go on with a *)
(* smaller communicator, and restore the blocks of the lost ones from the  *)
(* partners' copies.  A loss may come at any moment, also while the next   *)
(* snapshot is being made: its data are sent and received first, and       *)
(* stored only after a barrier.  Who the partners are, and which process   *)
(* takes over the blocks of a former rank, are callbacks.  The partners    *)
(* are the ones of SnapshotSimulator in apps/benchmarks/SchaeferTurek; the *)
(* mapping is one that fits them when the communicator shrinks, which it   *)
(* does not there.                                                         *)
(***************************************************************************)
EXTENDS Naturals, Sequences, FiniteSets, SequencesExt

CONSTANTS
  Proc,         \* processes
  First,        \* communicator at the beginning, a sequence of them
  Block,        \* blocks of the forest
  Adj,          \* [Block -> SUBSET Block]  neighbours of a block
  Home,         \* [Block -> Nat]  rank of a block at the beginning
  MaxTime,      \* bound: time steps
  MaxLosses,    \* bound: processes lost
  MaxMoves      \* bound: blocks moved by load balancing

ASSUME CommAssumption ==
  /\ First \in Seq(Proc) /\ Len(First) > MaxLosses + 1
  /\ \A i, j \in DOMAIN First : First[i] = First[j] => i = j

ASSUME BlockAssumption ==
  /\ Adj \in [Block -> SUBSET Block]
  /\ Home \in [Block -> 0..(Len(First) - 1)]
  /\ MaxTime \in Nat /\ MaxLosses \in Nat /\ MaxMoves \in Nat

VARIABLES
  comm,       \* the communicator: rank r is process comm[r + 1]
  dead,       \* processes lost that are still in the communicator
  pc,         \* pc[p]: what p is doing
  time,       \* time[p]: time steps done by p
  blocks,     \* blocks[p]: blocks_ of p, with time step and neighbours' ranks
  hood,       \* hood[p]: neighborhood_ of p
  snapshot,   \* snapshot[p]: snapshot_ of p, by rank
  mail,       \* mail[<<p, q>>]: snapshots sent by p to q (tags 880, 881)
  saved,      \* communicator of the last snapshot stored (history)
  savedTime,  \* time step of the last snapshot stored (history)
  moves,      \* blocks moved (history)
  losses      \* processes lost (history)

state == <<time, blocks, hood>>
history == <<saved, savedTime, moves, losses>>
vars == <<comm, dead, pc, state, snapshot, mail, history>>

-----------------------------------------------------------------------------
Alive == ToSet(comm) \ dead

(* rank of a process in a communicator *)
RankIn(c, p) == (CHOOSE i \in DOMAIN c : c[i] = p) - 1

Me(p) == RankIn(comm, p)

(* sendTo: the process half the communicator away *)
SendTo(c, r) == (r + (Len(c) \div 2)) % Len(c)

(* Mutant: the partner is taken for the one whose partner one is. *)
RecvFromPartner(c, r) == SendTo(c, r)

(* recvFrom: the process whose partner one is *)
RecvFrom(c, r) ==
  LET shift == Len(c) \div 2 IN IF shift > r THEN Len(c) - (shift - r) ELSE r - shift

(* Ranks around the blocks of a process *)
Around(bs) == UNION {{bs[b].nbr[n] : n \in DOMAIN bs[b].nbr} : b \in DOMAIN bs}

-----------------------------------------------------------------------------
(* A time step; the functor then asks for a snapshot. *)
Work(p) ==
  /\ p \in Alive /\ pc[p] = "run" /\ time[p] < MaxTime
  /\ time' = [time EXCEPT ![p] = @ + 1]
  /\ blocks' = [blocks EXCEPT ![p] = [b \in DOMAIN @ |-> [@[b] EXCEPT !.step = time'[p]]]]
  /\ pc' = [pc EXCEPT ![p] = "snap"]
  /\ UNCHANGED <<comm, dead, hood, snapshot, mail, history>>

(* Load balancing moves a block while all processes are between time steps. *)
Move(b, r) ==
  /\ moves < MaxMoves /\ dead = {}
  /\ \A p \in Alive : pc[p] = "run" /\ time[p] = savedTime
  /\ \E p \in Alive :
       /\ b \in DOMAIN blocks[p] /\ Me(p) # r
       /\ LET place(n) == IF n = b THEN r ELSE Me(CHOOSE q \in Alive : n \in DOMAIN blocks[q])
              held(q) == IF Me(q) = r THEN DOMAIN blocks[q] \cup {b} ELSE DOMAIN blocks[q] \ {b}
          IN  /\ blocks' = [q \in Proc |-> IF q \notin Alive THEN blocks[q] ELSE
                   [c \in held(q) |-> [step |-> savedTime, nbr |-> [n \in Adj[c] |-> place(n)]]]]
              /\ hood' = [q \in Proc |-> IF q \notin Alive THEN hood[q]
                                         ELSE Around(blocks'[q]) \ {Me(q)}]
  /\ moves' = moves + 1
  /\ UNCHANGED <<comm, dead, pc, time, snapshot, mail, saved, savedTime, losses>>

-----------------------------------------------------------------------------
(* What is packed: a buffer that has not been read from *)
Packed(p) == [hood |-> hood[p], blocks |-> blocks[p], read |-> FALSE]

(* createSnapshot: the blocks are packed and sent, *)
Send(p) ==
  /\ p \in Alive /\ pc[p] = "snap"
  /\ mail' = [mail EXCEPT ![<<p, comm[SendTo(comm, Me(p)) + 1]>>] =
                Append(@, Packed(p))]
  /\ pc' = [pc EXCEPT ![p] = "exchange"]
  /\ UNCHANGED <<comm, dead, state, snapshot, history>>

Partner(p) == comm[RecvFrom(comm, Me(p)) + 1]

(* the partner's are waited for, *)
Receive(p) ==
  /\ p \in Alive /\ pc[p] = "exchange"
  /\ mail[<<Partner(p), p>>] # <<>>
  /\ pc' = [pc EXCEPT ![p] = "barrier"]
  /\ UNCHANGED <<comm, dead, state, snapshot, mail, history>>

(* "make sure everybody is ready to store the new snapshot": the barrier ends on
   all processes or on none. *)
Barrier ==
  /\ dead = {}
  /\ \A p \in Alive : pc[p] = "barrier"
  /\ pc' = [p \in Proc |-> IF p \in Alive THEN "store" ELSE pc[p]]
  /\ saved' = comm
  /\ \E p \in Alive : savedTime' = time[p]
  /\ UNCHANGED <<comm, dead, state, snapshot, mail, moves, losses>>

(* and both are stored.  What was stored for other ranks stays. *)
Store(p) ==
  /\ p \in Alive /\ pc[p] = "store"
  /\ snapshot' = [snapshot EXCEPT ![p] =
       [k \in DOMAIN @ \cup {Me(p), RecvFrom(comm, Me(p))} |->
          IF k = RecvFrom(comm, Me(p)) THEN Head(mail[<<Partner(p), p>>])
          ELSE IF k = Me(p) THEN Packed(p) ELSE @[k]]]
  /\ mail' = [mail EXCEPT ![<<Partner(p), p>>] = Tail(@)]
  /\ pc' = [pc EXCEPT ![p] = "run"]
  /\ UNCHANGED <<comm, dead, state, history>>

-----------------------------------------------------------------------------
(* The lost processes' partners are not lost. *)
Recoverable(d) ==
  \A p \in d \cap ToSet(saved) : saved[SendTo(saved, RankIn(saved, p)) + 1] \notin d

(* A process is lost, with all it has; the loss is one the copies provide for if
   a snapshot was stored since the last restart, which reads them to their end. *)
Crash(p) ==
  /\ p \in Alive /\ losses < MaxLosses
  /\ saved = comm
  /\ Recoverable(ToSet(saved) \ (Alive \ {p}))
  /\ dead' = dead \cup {p}
  /\ losses' = losses + 1
  /\ blocks' = [blocks EXCEPT ![p] = <<>>]
  /\ snapshot' = [snapshot EXCEPT ![p] = <<>>]
  /\ UNCHANGED <<comm, pc, time, hood, mail, saved, savedTime, moves>>

(* Some MPI call of a process fails; what it received is given up. *)
Fail(p) ==
  /\ p \in Alive /\ dead # {}
  /\ pc[p] \in {"run", "snap", "exchange", "barrier", "restored"}
  /\ pc' = [pc EXCEPT ![p] = "failed"]
  /\ UNCHANGED <<comm, dead, state, snapshot, mail, history>>

(* c is what is left of the communicator: the ranks close up in their order. *)
Shrinks(c) ==
  /\ ToSet(c) = Alive
  /\ \A i, j \in DOMAIN c : i < j => Me(c[i]) < Me(c[j])

(* The survivors go on with a communicator of their own. *)
Restart ==
  /\ dead # {}
  /\ \A p \in Alive : pc[p] = "failed"
  /\ \E c \in [1..Cardinality(Alive) -> Alive] : Shrinks(c) /\ comm' = c
  /\ dead' = {}
  /\ pc' = [p \in Proc |-> IF p \in Alive THEN "restore" ELSE "lost"]
  /\ mail' = [c \in Proc \X Proc |-> <<>>]
  /\ UNCHANGED <<state, snapshot, history>>

(* Mutant: the partner is looked up in the communicator that is left. *)
ProcessMappingShrunk(k) ==
  IF k >= Len(saved) THEN k
  ELSE IF saved[k + 1] \in ToSet(comm) THEN Me(saved[k + 1]) ELSE SendTo(comm, k % Len(comm))

(* processMapping, which the caller of restoreSnapshot gives: the new rank of a former
   process that is left, or of the one that has the copy of its blocks; other ranks
   are none of this snapshot.  SnapshotSimulator follows the same rule where ranks do
   not change: it only clears the data of some processes, for which it answers
   (previousProcess + shift) % processes, and previousProcess for the others. *)
ProcessMapping(k) ==
  IF k >= Len(saved) THEN k
  ELSE IF saved[k + 1] \in ToSet(comm) THEN Me(saved[k + 1])
  ELSE Me(saved[SendTo(saved, k) + 1])

(* Mutant: neighbours keep their former ranks. *)
MappedNot(bs) == bs

(* The constructor of a block maps the processes of its neighbours. *)
Mapped(bs) ==
  [b \in DOMAIN bs |-> [bs[b] EXCEPT !.nbr = [n \in DOMAIN @ |-> ProcessMapping(@[n])]]]

(* restoreSnapshot: the copies are read through a reference.  One that was read
   before is at its end, and nothing comes of it. *)
Restore(p) ==
  /\ p \in Alive /\ pc[p] = "restore"
  /\ LET mine == {k \in DOMAIN snapshot[p] : ProcessMapping(k) = Me(p)}
         usable == {k \in mine : ~snapshot[p][k].read}
         copy(k) == snapshot[p][k].blocks
     IN  /\ blocks' = [blocks EXCEPT ![p] =
                         [b \in UNION {DOMAIN copy(k) : k \in usable} |->
                            Mapped(copy(CHOOSE k \in usable : b \in DOMAIN copy(k)))[b]]]
         /\ hood' = [hood EXCEPT ![p] = {ProcessMapping(n) : n \in
                         UNION {snapshot[p][k].hood : k \in usable}}]
         /\ snapshot' = [snapshot EXCEPT ![p] =
                           [k \in DOMAIN @ |-> IF k \in mine THEN [@[k] EXCEPT !.read = TRUE]
                                                  ELSE @[k]]]
  /\ time' = [time EXCEPT ![p] = savedTime]
  /\ pc' = [pc EXCEPT ![p] = "restored"]
  /\ UNCHANGED <<comm, dead, mail, history>>

Restored == dead = {} /\ \A p \in Alive : pc[p] = "restored"

(* The communicator of the processes with blocks is rebuilt by all of them. *)
Resume ==
  /\ Restored
  /\ pc' = [p \in Proc |-> IF p \in Alive THEN "run" ELSE pc[p]]
  /\ UNCHANGED <<comm, dead, state, snapshot, mail, history>>

Ended == dead = {} /\ \A p \in Alive : pc[p] = "run" /\ time[p] = MaxTime

Stay == Ended /\ UNCHANGED vars

-----------------------------------------------------------------------------
(* SnapshotCreationFunctor is due before the first time step. *)
Init ==
  /\ comm = First
  /\ dead = {}
  /\ pc = [p \in Proc |-> "snap"]
  /\ time = [p \in Proc |-> 0]
  /\ blocks = [p \in Proc |-> [b \in {c \in Block : Home[c] = RankIn(First, p)} |->
                  [step |-> 0, nbr |-> [n \in Adj[b] |-> Home[n]]]]]
  /\ hood = [p \in Proc |-> Around(blocks[p]) \ {RankIn(First, p)}]
  /\ snapshot = [p \in Proc |-> <<>>]
  /\ mail = [c \in Proc \X Proc |-> <<>>]
  /\ saved = <<>>
  /\ savedTime = 0
  /\ moves = 0
  /\ losses = 0

Step(p) == Work(p) \/ Send(p) \/ Receive(p) \/ Store(p) \/ Fail(p) \/ Restore(p)

Next ==
  \/ \E p \in Proc : Step(p) \/ Crash(p)
  \/ \E b \in Block : \E r \in 0..(Len(comm) - 1) : Move(b, r)
  \/ Barrier \/ Restart \/ Resume \/ Stay

Spec == Init /\ [][Next]_vars

(* Processes that are alive go on, and hear of the ones that are not. *)
Fairness ==
  /\ \A p \in Proc : WF_vars(Step(p))
  /\ WF_vars(Barrier) /\ WF_vars(Restart) /\ WF_vars(Resume)

FairSpec == Spec /\ Fairness

-----------------------------------------------------------------------------
(* Properties *)

(* Type invariant: ranks are ranks of the communicator in use. *)
TypeOK ==
  /\ comm \in Seq(Proc) /\ dead \subseteq ToSet(comm)
  /\ pc \in [Proc -> {"run", "snap", "exchange", "barrier", "store", "failed", "restore",
                      "restored", "lost"}]
  /\ time \in [Proc -> 0..MaxTime]
  /\ \A p \in Alive : pc[p] # "restore" =>
       /\ DOMAIN blocks[p] \subseteq Block
       /\ \A b \in DOMAIN blocks[p] :
            blocks[p][b] \in [step : 0..MaxTime, nbr : [Adj[b] -> 0..(Len(comm) - 1)]]
       /\ hood[p] \subseteq 0..(Len(comm) - 1)
  /\ \A p \in Alive : \A k \in DOMAIN snapshot[p] :
       /\ k \in 0..(Len(First) - 1)
       /\ DOMAIN snapshot[p][k].blocks \subseteq Block
       /\ snapshot[p][k].read \in BOOLEAN
  /\ \A c \in Proc \X Proc : Len(mail[c]) <= 2
  /\ saved \in Seq(Proc) /\ savedTime \in 0..MaxTime
  /\ moves \in 0..MaxMoves /\ losses \in 0..MaxLosses

(* After a restart every block is on exactly one process again, in the state of
   the last snapshot that was completed, and every process knows the processes
   of the blocks around its own.  A loss while a snapshot is being made is no
   exception: "if a MPI error occurs, we cannot store this snapshot, but must
   rely on an older snapshot" (createSnapshot). *)
RestoreExact ==
  Restored =>
    /\ \A b \in Block : Cardinality({p \in Alive : b \in DOMAIN blocks[p]}) = 1
    /\ \A p \in Alive : \A b \in DOMAIN blocks[p] :
         /\ blocks[p][b].step = savedTime
         /\ \A n \in Adj[b] : n \in DOMAIN blocks[comm[blocks[p][b].nbr[n] + 1]]
    /\ \A p \in Alive : Around(blocks[p]) \ {Me(p)} = hood[p] \ {Me(p)}

(* The simulation goes on to its end whenever processes are lost. *)
SimulationEnds == <>Ended
=============================================================================
