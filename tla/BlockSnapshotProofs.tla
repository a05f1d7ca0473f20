------------------------ MODULE BlockSnapshotProofs ------------------------
(* Theorems about BlockSnapshot: whatever processes are lost and whenever, the
   others restore every block once, out of the last snapshot that was completed.

   The snapshot last completed is a function g from ranks to what was packed.
   Between its barrier and the next one, every rank's part of it is with the
   process of that rank and with its partner, in one of three places: still in
   blocks_ (or in the message to the partner) before it is stored, in snapshot_
   afterwards, back in blocks_ after a restart.  g itself is in no variable: the
   invariant says that there is one.  What older snapshots left in snapshot_
   under ranks of larger communicators is never taken for a part of it. *)
EXTENDS BlockSnapshot, FiniteSetTheorems, TLAPS

-----------------------------------------------------------------------------
(* Communicators *)

Ring(c) ==
  /\ c \in Seq(Proc) /\ Len(c) \in 1..Len(First)
  /\ \A i, j \in DOMAIN c : c[i] = c[j] => i = j

Ranks(c) == 0..(Len(c) - 1)

(* Blocks and snapshots *)

State == [step : Nat, nbr : UNION {[A -> Nat] : A \in SUBSET Block}]

Blocks == UNION {[D -> State] : D \in SUBSET Block}

Copy == [hood : SUBSET Nat, blocks : Blocks, read : BOOLEAN]

(* What is packed fits a communicator of n processes and a time step. *)
Fits(s, n, t) ==
  /\ \A b \in DOMAIN s.blocks : s.blocks[b] \in [step : {t}, nbr : [Adj[b] -> 0..(n - 1)]]
  /\ s.hood \subseteq 0..(n - 1)

(* What n processes hold is the whole forest: every block has one place, and the
   links to its neighbours lead to theirs. *)
Whole(g, n) ==
  \E place \in [Block -> 0..(n - 1)] : \A k \in 0..(n - 1) :
    /\ DOMAIN g[k].blocks = {b \in Block : place[b] = k}
    /\ \A b \in DOMAIN g[k].blocks : \A m \in Adj[b] : g[k].blocks[b].nbr[m] = place[m]
    /\ Around(g[k].blocks) \ {k} = g[k].hood \ {k}

-----------------------------------------------------------------------------
(* The invariant *)

CommInv ==
  /\ Ring(comm)
  /\ dead \subseteq ToSet(comm)
  /\ saved = <<>> => dead = {}
  /\ saved # <<>> =>
       /\ Ring(saved)
       /\ ToSet(comm) \subseteq ToSet(saved) /\ Len(comm) <= Len(saved)
       /\ Recoverable(ToSet(saved) \ Alive)
  /\ dead # {} => saved = comm

Restoring == \E p \in Alive : pc[p] \in {"restore", "restored"}

(* Where the processes are in a time step, a snapshot or a restart *)
PhaseInv ==
  /\ pc \in [Proc -> {"run", "snap", "exchange", "barrier", "store", "failed", "restore",
                      "restored", "lost"}]
  /\ time \in [Proc -> 0..MaxTime]
  /\ savedTime \in 0..MaxTime /\ moves \in 0..MaxMoves /\ losses \in 0..MaxLosses
  /\ \A p \in Alive :
       /\ pc[p] # "lost"
       /\ pc[p] = "failed" => dead # {}
       /\ pc[p] = "store" => saved = comm
       /\ Restoring => saved # comm /\ pc[p] \in {"restore", "restored"}
       /\ saved = <<>> => pc[p] \in {"snap", "exchange", "barrier"}
       /\ pc[p] \in {"run", "store", "restored"} => time[p] = savedTime
       /\ pc[p] \in {"snap", "exchange", "barrier"} =>
            time[p] = IF saved = <<>> THEN 0 ELSE savedTime + 1

View == [k \in Ranks(comm) |-> Packed(comm[k + 1])]

(* The blocks in use.  Without a loss they are the whole forest. *)
BlocksInv ==
  /\ DOMAIN blocks = Proc /\ DOMAIN hood = Proc
  /\ \A p \in Alive : Packed(p) \in Copy
  /\ \A p \in Alive : pc[p] # "restore" => Fits(Packed(p), Len(comm), time[p])
  /\ dead = {} /\ ~Restoring => Whole(View, Len(comm))

StoredInv ==
  /\ DOMAIN snapshot = Proc
  /\ \A p \in Proc : \A k \in DOMAIN snapshot[p] : k \in Ranks(First) /\ snapshot[p][k] \in Copy

To(p) == comm[SendTo(comm, Me(p)) + 1]

Waits(q) == IF pc[q] = "store" THEN 1 ELSE 0

Sent(p) == IF pc[p] \in {"exchange", "barrier", "failed"} THEN 1 ELSE 0

(* Partners are at most one snapshot apart.  What a process has sent last is
   what it would send again, until it stores it. *)
MailInv ==
  /\ mail \in [Proc \X Proc -> Seq(Copy)]
  /\ \A p, q \in Proc : mail[<<p, q>>] # <<>> => p \in ToSet(comm) /\ q = To(p)
  /\ \A p, q \in ToSet(comm) : q = To(p) =>
       LET m == mail[<<p, q>>] IN
       /\ Len(m) <= Waits(q) + Sent(p)
       /\ p \in Alive /\ pc[p] \in {"exchange", "barrier"} =>
            Len(m) = Waits(q) + 1 /\ m[Len(m)] = Packed(p)

(* p has stored its part of the snapshot g and its partner's. *)
Holds(p, g) ==
  LET k == RankIn(saved, p) IN
  \A l \in {k, RecvFrom(saved, k)} : l \in DOMAIN snapshot[p] /\ snapshot[p][l] = g[l]

(* The ranks of the snapshot that p is to restore *)
Mine(p) == {k \in Ranks(saved) : ProcessMapping(k) = Me(p)}

(* p has restored its parts of g. *)
Back(p, g) ==
  /\ DOMAIN blocks[p] = UNION {DOMAIN g[k].blocks : k \in Mine(p)}
  /\ \A k \in Mine(p) : \A b \in DOMAIN g[k].blocks : \A n \in Adj[b] :
       blocks[p][b].nbr[n] = ProcessMapping(g[k].blocks[b].nbr[n])
  /\ hood[p] = {ProcessMapping(n) : n \in UNION {g[k].hood : k \in Mine(p)}}

(* g is the snapshot that was completed last, and the processes have it. *)
Kept(g) ==
  /\ \A k \in Ranks(saved) : g[k] \in Copy /\ ~g[k].read /\ Fits(g[k], Len(saved), savedTime)
  /\ Whole(g, Len(saved))
  /\ \A p \in Alive : (saved = comm /\ pc[p] # "store") \/ pc[p] = "restore" => Holds(p, g)
  /\ \A p \in Alive : pc[p] = "restored" => Back(p, g)
  /\ \A p \in ToSet(comm) : pc[p] = "store" =>
       /\ p \in Alive => Packed(p) = g[Me(p)]
       /\ mail[<<Partner(p), p>>] # <<>> /\ Head(mail[<<Partner(p), p>>]) = g[Me(Partner(p))]

KeptInv == saved # <<>> => \E g : Kept(g)

SnapshotInv == CommInv /\ PhaseInv /\ BlocksInv /\ StoredInv /\ MailInv /\ KeptInv

-----------------------------------------------------------------------------
(* Ranks and partners *)

LEMMA RankFacts ==
  ASSUME NEW c, Ring(c), NEW p \in ToSet(c)
  PROVE  RankIn(c, p) \in Ranks(c) /\ c[RankIn(c, p) + 1] = p /\ p \in Proc
  <1>1. PICK i \in DOMAIN c : c[i] = p
    BY DEF ToSet
  <1>2. i \in 1..Len(c) /\ \A j \in DOMAIN c : c[j] = p => j = i
    BY <1>1 DEF Ring
  <1>3. (CHOOSE j \in DOMAIN c : c[j] = p) = i
    BY <1>1, <1>2
  <1>4. RankIn(c, p) = i - 1
    BY <1>3 DEF RankIn
  <1> QED
    BY <1>1, <1>2, <1>4 DEF Ranks, Ring

LEMMA RankOfMember ==
  ASSUME NEW c, Ring(c), NEW k \in Ranks(c)
  PROVE  c[k + 1] \in ToSet(c) /\ RankIn(c, c[k + 1]) = k
  <1>1. k + 1 \in DOMAIN c
    BY DEF Ring, Ranks
  <1>2. c[k + 1] \in ToSet(c)
    BY <1>1 DEF ToSet
  <1>3. RankIn(c, c[k + 1]) \in Ranks(c) /\ c[RankIn(c, c[k + 1]) + 1] = c[k + 1]
    BY <1>2, RankFacts
  <1> QED
    BY <1>1, <1>2, <1>3 DEF Ring, Ranks

LEMMA SomeMember ==
  ASSUME NEW c, Ring(c)
  PROVE  ToSet(c) # {}
  <1>1. Len(c) \in Nat /\ Len(c) >= 1
    BY DEF Ring
  <1>2. 0 \in Ranks(c)
    BY <1>1 DEF Ranks
  <1> QED
    BY <1>2, RankOfMember

LEMMA Wraps ==
  ASSUME NEW n \in Nat \ {0}, NEW x \in 0..(2 * n - 1)
  PROVE  x % n = IF x < n THEN x ELSE x - n
  OBVIOUS

LEMMA Half ==
  ASSUME NEW n \in Nat \ {0}
  PROVE  n \div 2 \in 0..(n - 1)
  OBVIOUS

(* recvFrom and sendTo are inverse to each other: whatever the number of
   processes, the partner one has a copy of sends it. *)
LEMMA PartnerFacts ==
  ASSUME NEW c, Ring(c), NEW k \in Ranks(c)
  PROVE  /\ SendTo(c, k) \in Ranks(c) /\ RecvFrom(c, k) \in Ranks(c)
         /\ RecvFrom(c, SendTo(c, k)) = k
         /\ SendTo(c, RecvFrom(c, k)) = k
  <1> DEFINE n == Len(c)
             h == n \div 2
  <1>1. n \in Nat \ {0} /\ k \in 0..(n - 1)
    BY DEF Ring, Ranks
  <1>2. h \in 0..(n - 1)
    BY <1>1, Half
  <1>3. \A l \in 0..(n - 1) : SendTo(c, l) = IF l + h < n THEN l + h ELSE (l + h) - n
    <2> SUFFICES ASSUME NEW l \in 0..(n - 1)
                 PROVE  SendTo(c, l) = IF l + h < n THEN l + h ELSE (l + h) - n
      OBVIOUS
    <2>1. SendTo(c, l) = (l + h) % n
      BY DEF SendTo
    <2> HIDE DEF n, h
    <2>2. l + h \in 0..(2 * n - 1)
      BY <1>1, <1>2
    <2>3. (l + h) % n = IF l + h < n THEN l + h ELSE (l + h) - n
      BY ONLY <1>1, <2>2, Wraps
    <2> QED
      BY <2>1, <2>3
  <1>4. \A l \in 0..(n - 1) : RecvFrom(c, l) = IF h > l THEN n - (h - l) ELSE l - h
    BY DEF RecvFrom
  <1> HIDE DEF n, h
  <1>5. Ranks(c) = 0..(n - 1)
    BY DEF Ranks, n
  <1> QED
    BY <1>1, <1>2, <1>3, <1>4, <1>5

LEMMA MeFacts ==
  ASSUME Ring(comm), NEW p \in ToSet(comm)
  PROVE  /\ p \in Proc /\ Me(p) \in Ranks(comm) /\ comm[Me(p) + 1] = p
         /\ Partner(p) \in ToSet(comm) /\ To(p) \in ToSet(comm)
         /\ To(Partner(p)) = p /\ Partner(To(p)) = p
         /\ Me(Partner(p)) = RecvFrom(comm, Me(p))
         /\ \A q \in ToSet(comm) : Me(q) = Me(p) => q = p
  <1>1. Me(p) \in Ranks(comm) /\ comm[Me(p) + 1] = p /\ p \in Proc
    BY RankFacts DEF Me
  <1>2. /\ RecvFrom(comm, Me(p)) \in Ranks(comm) /\ SendTo(comm, Me(p)) \in Ranks(comm)
        /\ SendTo(comm, RecvFrom(comm, Me(p))) = Me(p)
        /\ RecvFrom(comm, SendTo(comm, Me(p))) = Me(p)
    BY <1>1, PartnerFacts
  <1>3. Partner(p) \in ToSet(comm) /\ Me(Partner(p)) = RecvFrom(comm, Me(p))
    BY <1>2, RankOfMember DEF Partner, Me
  <1>4. To(p) \in ToSet(comm) /\ Me(To(p)) = SendTo(comm, Me(p))
    BY <1>2, RankOfMember DEF To, Me
  <1>5. To(Partner(p)) = p
    BY <1>1, <1>2, <1>3 DEF To
  <1>6. Partner(To(p)) = p
    BY <1>1, <1>2, <1>4 DEF Partner
  <1>7. ASSUME NEW q \in ToSet(comm), Me(q) = Me(p)
        PROVE  q = p
    BY <1>1, <1>7, RankFacts DEF Me
  <1> QED
    BY <1>1, <1>3, <1>4, <1>5, <1>6, <1>7

LEMMA ViewFacts ==
  ASSUME Ring(comm), NEW p \in ToSet(comm)
  PROVE  View[Me(p)] = Packed(p)
  BY MeFacts DEF View

(* What a constructor for the blocks of a process makes *)
LEMMA BlocksType ==
  ASSUME NEW D \in SUBSET Block, NEW f, f = [b \in D |-> f[b]],
         \A b \in D : \E n \in Nat : f[b] \in [step : Nat, nbr : [Adj[b] -> 0..n]]
  PROVE  f \in Blocks
  <1>1. ASSUME NEW b \in D
        PROVE  f[b] \in State
    <2>1. PICK n \in Nat : f[b] \in [step : Nat, nbr : [Adj[b] -> 0..n]]
      OBVIOUS
    <2>2. Adj[b] \in SUBSET Block
      BY BlockAssumption
    <2>3. f[b].nbr \in [Adj[b] -> Nat]
      BY <2>1
    <2>4. f[b].nbr \in UNION {[A -> Nat] : A \in SUBSET Block}
      BY <2>2, <2>3
    <2> QED
      BY <2>1, <2>4 DEF State
  <1>2. f \in [D -> State]
    BY <1>1
  <1> QED
    BY <1>2 DEF Blocks

LEMMA BlocksDomain ==
  ASSUME NEW s \in Copy
  PROVE  DOMAIN s.blocks \subseteq Block
  BY DEF Copy, Blocks

LEMMA CopyType ==
  ASSUME NEW h \in SUBSET Nat, NEW bs \in Blocks
  PROVE  [hood |-> h, blocks |-> bs, read |-> FALSE] \in Copy
  BY DEF Copy

-----------------------------------------------------------------------------
(* The communicators *)

LEMMA SurvivorExists ==
  ASSUME CommInv, dead # {}
  PROVE  Alive # {}
  <1>1. saved = comm /\ saved # <<>> /\ Ring(saved)
    BY DEF CommInv
  <1>2. PICK p \in dead : p \in ToSet(saved)
    BY <1>1 DEF CommInv
  <1> DEFINE q == saved[SendTo(saved, RankIn(saved, p)) + 1]
  <1>3. q \in ToSet(saved)
    BY <1>1, <1>2, RankFacts, PartnerFacts, RankOfMember
  <1>4. q \notin ToSet(saved) \ Alive
    BY <1>1, <1>2 DEF CommInv, Recoverable, Alive
  <1> QED
    BY <1>3, <1>4

LEMMA MembersCounted ==
  ASSUME Ring(comm)
  PROVE  /\ IsFiniteSet(Alive) /\ Cardinality(Alive) \in Nat
         /\ Cardinality(Alive) <= Len(comm)
         /\ Alive # {} => Cardinality(Alive) > 0
  <1> DEFINE n == Len(comm)
  <1>1. n \in Nat /\ comm \in [1..n -> Proc]
    BY DEF Ring
  <1>2. comm \in Surjection(1..n, ToSet(comm))
    BY <1>1 DEF Surjection, ToSet
  <1>3. IsFiniteSet(1..n) /\ Cardinality(1..n) = n
    BY <1>1, FS_Interval
  <1> HIDE DEF n
  <1>4. IsFiniteSet(ToSet(comm)) /\ Cardinality(ToSet(comm)) <= n
    BY <1>2, <1>3, FS_Surjection
  <1>5. Alive \in SUBSET ToSet(comm)
    BY DEF Alive
  <1>6. IsFiniteSet(Alive) /\ Cardinality(Alive) <= Cardinality(ToSet(comm))
    BY <1>4, <1>5, FS_Subset
  <1>7. Cardinality(Alive) \in Nat /\ Cardinality(ToSet(comm)) \in Nat
    BY <1>4, <1>6, FS_CardinalityType
  <1>8. Alive # {} => Cardinality(Alive) # 0
    BY <1>6, FS_EmptySet
  <1> QED
    BY <1>1, <1>4, <1>6, <1>7, <1>8 DEF n

LEMMA Shrunk ==
  ASSUME CommInv, Restart
  PROVE  /\ Ring(comm') /\ ToSet(comm') = Alive /\ Len(comm') <= Len(comm)
         /\ Alive' = Alive
  <1> DEFINE n == Cardinality(Alive)
  <1>1. n \in Nat /\ n > 0 /\ n <= Len(comm)
    BY SurvivorExists, MembersCounted DEF CommInv, Restart
  <1>2. comm' \in [1..n -> Alive] /\ Shrinks(comm') /\ dead' = {}
    BY DEF Restart
  <1>3. Alive \subseteq ToSet(comm) /\ Ring(comm)
    BY DEF Alive, CommInv
  <1>4. \A p \in Alive : p \in Proc /\ Me(p) \in Nat
    BY <1>3, MeFacts DEF Ranks
  <1> HIDE DEF n
  <1>5. comm' \in Seq(Proc) /\ Len(comm') = n /\ DOMAIN comm' = 1..n
    BY <1>1, <1>2, <1>4
  <1>6. \A i, j \in 1..n : comm'[i] = comm'[j] => i = j
    BY <1>2, <1>4, <1>5 DEF Shrinks
  <1>7. ToSet(comm') = Alive
    BY <1>2 DEF Shrinks
  <1>8. Ring(comm')
    BY <1>1, <1>3, <1>5, <1>6 DEF Ring
  <1>9. Alive' = Alive
    BY <1>2, <1>7 DEF Alive
  <1> QED
    BY <1>1, <1>5, <1>7, <1>8, <1>9

LEMMA CommInit == Init => CommInv
  <1> SUFFICES ASSUME Init
               PROVE  CommInv
    OBVIOUS
  <1>1. Ring(comm)
    BY CommAssumption, BlockAssumption DEF Init, Ring
  <1> QED
    BY <1>1 DEF Init, CommInv

LEMMA CommFrame ==
  ASSUME CommInv, UNCHANGED <<comm, dead, saved>>
  PROVE  CommInv' /\ Alive' = Alive
  BY DEF CommInv, Alive, Ring, Recoverable, SendTo, RankIn

LEMMA CommNext ==
  ASSUME CommInv, [Next]_vars
  PROVE  CommInv'
  <1>1. CASE Barrier
    <2>1. comm' = comm /\ dead' = {} /\ dead = {} /\ saved' = comm /\ Alive' = ToSet(comm)
      BY <1>1 DEF Barrier, Alive
    <2>2. Ring(comm) /\ comm # <<>>
      BY DEF CommInv, Ring
    <2>3. Recoverable(ToSet(saved) \ Alive)'
      BY <2>1 DEF Recoverable
    <2> QED
      BY <2>1, <2>2, <2>3 DEF CommInv, Ring
  <1>2. ASSUME NEW p \in Proc, Crash(p)
        PROVE  CommInv'
    <2>1. /\ comm' = comm /\ saved' = saved /\ saved = comm /\ dead' = dead \cup {p} /\ p \in Alive
          /\ Recoverable(ToSet(saved) \ (Alive \ {p}))
      BY <1>2 DEF Crash
    <2>2. Alive' = Alive \ {p}
      BY <2>1 DEF Alive
    <2>3. Ring(comm) /\ comm # <<>>
      BY DEF CommInv, Ring
    <2>4. Recoverable(ToSet(saved) \ Alive)'
      BY <2>1, <2>2 DEF Recoverable, SendTo, RankIn
    <2> QED
      BY <2>1, <2>3, <2>4 DEF CommInv, Alive
  <1>3. CASE Restart
    <2>1. Ring(comm') /\ ToSet(comm') = Alive /\ Len(comm') <= Len(comm) /\ Alive' = Alive
      BY <1>3, Shrunk
    <2>2. dead # {} /\ dead' = {} /\ saved' = saved
      BY <1>3 DEF Restart, history
    <2>3. saved = comm /\ saved # <<>> /\ Ring(saved) /\ Recoverable(ToSet(saved) \ Alive)
      BY <2>2 DEF CommInv
    <2>4. Recoverable(ToSet(saved) \ Alive)'
      BY <2>1, <2>2, <2>3 DEF Recoverable, SendTo, RankIn
    <2> QED
      BY <2>1, <2>2, <2>3, <2>4 DEF CommInv, Alive
  <1>4. CASE UNCHANGED <<comm, dead, saved>>
    BY <1>4, CommFrame
  <1> QED
    BY <1>1, <1>2, <1>3, <1>4
    DEF Next, Step, Work, Move, Send, Receive, Store, Fail, Restore, Resume, Stay, vars,
        history, state

-----------------------------------------------------------------------------
(* Time steps and phases *)

LEMMA PhaseInit == Init => PhaseInv
  <1> SUFFICES ASSUME Init
               PROVE  PhaseInv
    OBVIOUS
  <1>1. \A p \in Proc : pc[p] = "snap" /\ time[p] = 0
    BY DEF Init
  <1>2. Alive \subseteq Proc
    BY CommInit, MeFacts DEF Alive, CommInv
  <1> QED
    BY <1>1, <1>2, BlockAssumption DEF Init, PhaseInv, Restoring

LEMMA AliveIn == CommInv => Alive \subseteq Proc
  BY MeFacts DEF Alive, CommInv

(* One process of those that are not restarting goes on. *)
LEMMA PhaseMoves ==
  ASSUME CommInv, PhaseInv, UNCHANGED <<comm, dead, saved, savedTime, moves, losses>>,
         NEW p \in Alive, pc[p] \notin {"restore", "restored"},
         NEW to, pc' = [pc EXCEPT ![p] = to],
         to \in {"run", "snap", "exchange", "barrier", "failed"},
         time' \in [Proc -> 0..MaxTime], \A q \in Proc \ {p} : time'[q] = time[q],
         to = "failed" => dead # {},
         to \in {"run", "failed"} => saved # <<>>,
         to = "run" => time'[p] = savedTime,
         to \in {"snap", "exchange", "barrier"} =>
           time'[p] = IF saved = <<>> THEN 0 ELSE savedTime + 1
  PROVE  PhaseInv'
  <1>1. Alive' = Alive /\ p \in Proc /\ Alive \subseteq Proc
    BY AliveIn DEF Alive
  <1>2. \A q \in Proc : pc'[q] = IF q = p THEN to ELSE pc[q]
    BY DEF PhaseInv
  <1>3. ~Restoring /\ ~Restoring'
    BY <1>1, <1>2 DEF Restoring, PhaseInv
  <1>4. pc' \in [Proc -> {"run", "snap", "exchange", "barrier", "store", "failed", "restore",
                          "restored", "lost"}]
    BY <1>1 DEF PhaseInv
  <1>5. ASSUME NEW q \in Alive
        PROVE  /\ pc'[q] # "lost"
               /\ pc'[q] = "failed" => dead # {}
               /\ pc'[q] = "store" => saved = comm
               /\ saved = <<>> => pc'[q] \in {"snap", "exchange", "barrier"}
               /\ pc'[q] \in {"run", "store", "restored"} => time'[q] = savedTime
               /\ pc'[q] \in {"snap", "exchange", "barrier"} =>
                    time'[q] = IF saved = <<>> THEN 0 ELSE savedTime + 1
    <2>1. CASE q = p
      BY <1>1, <1>2, <2>1
    <2>2. CASE q # p
      BY <1>1, <1>2, <2>2 DEF PhaseInv
    <2> QED
      BY <2>1, <2>2
  <1> QED
    BY <1>1, <1>3, <1>4, <1>5 DEF PhaseInv

LEMMA PhaseNext ==
  ASSUME CommInv, PhaseInv, [Next]_vars
  PROVE  PhaseInv'
  <1>a. Alive \subseteq Proc
    BY AliveIn
  <1>1. ASSUME NEW p \in Proc, Work(p)
        PROVE  PhaseInv'
    <2>1. /\ p \in Alive /\ pc[p] = "run" /\ pc' = [pc EXCEPT ![p] = "snap"]
          /\ time[p] < MaxTime /\ time' = [time EXCEPT ![p] = @ + 1]
          /\ UNCHANGED <<comm, dead, saved, savedTime, moves, losses>>
      BY <1>1 DEF Work, history
    <2>2. time[p] = savedTime /\ saved # <<>>
      BY <2>1 DEF PhaseInv
    <2>3. time' \in [Proc -> 0..MaxTime] /\ time'[p] = savedTime + 1
      BY <2>1, <2>2, BlockAssumption DEF PhaseInv
    <2> QED
      BY <2>1, <2>2, <2>3, PhaseMoves DEF PhaseInv
  <1>2. ASSUME NEW p \in Proc, Send(p)
        PROVE  PhaseInv'
    <2>1. /\ p \in Alive /\ pc[p] = "snap" /\ pc' = [pc EXCEPT ![p] = "exchange"]
          /\ UNCHANGED <<comm, dead, time, saved, savedTime, moves, losses>>
      BY <1>2 DEF Send, history, state
    <2> QED
      BY <2>1, PhaseMoves DEF PhaseInv
  <1>3. ASSUME NEW p \in Proc, Receive(p)
        PROVE  PhaseInv'
    <2>1. /\ p \in Alive /\ pc[p] = "exchange" /\ pc' = [pc EXCEPT ![p] = "barrier"]
          /\ UNCHANGED <<comm, dead, time, saved, savedTime, moves, losses>>
      BY <1>3 DEF Receive, history, state
    <2> QED
      BY <2>1, PhaseMoves DEF PhaseInv
  <1>4. ASSUME NEW p \in Proc, Store(p)
        PROVE  PhaseInv'
    <2>1. /\ p \in Alive /\ pc[p] = "store" /\ pc' = [pc EXCEPT ![p] = "run"]
          /\ UNCHANGED <<comm, dead, time, saved, savedTime, moves, losses>>
      BY <1>4 DEF Store, history, state
    <2> QED
      BY <2>1, PhaseMoves DEF PhaseInv
  <1>5. ASSUME NEW p \in Proc, Fail(p)
        PROVE  PhaseInv'
    <2>1. /\ p \in Alive /\ dead # {} /\ pc' = [pc EXCEPT ![p] = "failed"]
          /\ UNCHANGED <<comm, dead, time, saved, savedTime, moves, losses>>
          /\ pc[p] \in {"run", "snap", "exchange", "barrier", "restored"}
      BY <1>5 DEF Fail, history, state
    <2>2. saved = comm /\ saved # <<>>
      BY <2>1 DEF CommInv
    <2>3. pc[p] \notin {"restore", "restored"}
      BY <2>1, <2>2 DEF PhaseInv, Restoring
    <2> QED
      BY <2>1, <2>2, <2>3, PhaseMoves DEF PhaseInv
  <1>6. ASSUME NEW p \in Proc, Crash(p)
        PROVE  PhaseInv'
    <2>1. /\ UNCHANGED <<comm, pc, time, saved, savedTime, moves>>
          /\ saved = comm /\ losses < MaxLosses /\ losses' = losses + 1 /\ dead' = dead \cup {p}
      BY <1>6 DEF Crash
    <2>2. Alive' \subseteq Alive /\ comm # <<>>
      BY <2>1 DEF Alive, CommInv, Ring
    <2>3. Restoring' => Restoring
      BY <2>1, <2>2 DEF Restoring
    <2>4. losses' \in 0..MaxLosses
      BY <2>1, BlockAssumption DEF PhaseInv
    <2> QED
      BY <2>1, <2>2, <2>3, <2>4 DEF PhaseInv
  <1>7. CASE Barrier
    <2>1. /\ dead = {} /\ UNCHANGED <<comm, dead, time, moves, losses>> /\ Alive' = Alive
          /\ saved' = comm /\ \E p \in Alive : savedTime' = time[p]
          /\ \A p \in Alive : pc[p] = "barrier"
          /\ \A p \in Alive : pc'[p] = "store"
      BY <1>7, <1>a DEF Barrier, state, Alive
    <2>2. pc' \in [Proc -> {"run", "snap", "exchange", "barrier", "store", "failed", "restore",
                            "restored", "lost"}]
      BY <1>7 DEF Barrier, PhaseInv
    <2>3. savedTime' \in 0..MaxTime /\ \A p \in Alive : time[p] = savedTime'
      BY <2>1, <1>a DEF PhaseInv
    <2>4. comm # <<>> /\ ~Restoring'
      BY <2>1 DEF CommInv, Ring, Restoring
    <2> QED
      BY <2>1, <2>2, <2>3, <2>4 DEF PhaseInv
  <1>8. CASE Restart
    <2>1. /\ dead # {} /\ dead' = {} /\ UNCHANGED <<time, saved, savedTime, moves, losses>>
          /\ pc' = [p \in Proc |-> IF p \in Alive THEN "restore" ELSE "lost"]
      BY <1>8 DEF Restart, state, history
    <2>2. Alive' = Alive /\ ToSet(comm') = Alive
      BY <1>8, Shrunk
    <2>3. saved = comm /\ saved # <<>>
      BY <2>1 DEF CommInv
    <2>4. comm' # comm
      BY <2>1, <2>2 DEF CommInv, Alive
    <2>5. \A p \in Alive : pc'[p] = "restore"
      BY <2>1, <1>a
    <2> QED
      BY <2>1, <2>2, <2>3, <2>4, <2>5 DEF PhaseInv
  <1>9. ASSUME NEW p \in Proc, Restore(p)
        PROVE  PhaseInv'
    <2>1. /\ p \in Alive /\ pc[p] = "restore" /\ pc' = [pc EXCEPT ![p] = "restored"]
          /\ time' = [time EXCEPT ![p] = savedTime]
          /\ UNCHANGED <<comm, dead, saved, savedTime, moves, losses>>
      BY <1>9 DEF Restore, history
    <2>2. Alive' = Alive /\ Restoring
      BY <2>1 DEF Alive, Restoring
    <2>3. \A q \in Alive : pc[q] \in {"restore", "restored"}
      BY <2>2 DEF PhaseInv
    <2>4. \A q \in Alive : /\ pc'[q] \in {"restore", "restored"}
                           /\ pc'[q] = "restored" => time'[q] = savedTime
      BY <2>1, <2>3, <1>a DEF PhaseInv
    <2>5. saved # comm /\ saved # <<>>
      BY <2>1, <2>2 DEF PhaseInv
    <2> QED
      BY <2>1, <2>2, <2>4, <2>5 DEF PhaseInv
  <1>10. CASE Resume
    <2>1. /\ \A p \in Alive : pc[p] = "restored"
          /\ pc' = [p \in Proc |-> IF p \in Alive THEN "run" ELSE pc[p]]
          /\ UNCHANGED <<comm, dead, time, saved, savedTime, moves, losses>>
      BY <1>10 DEF Resume, Restored, state, history
    <2>2. Alive' = Alive /\ \A p \in Alive : pc'[p] = "run"
      BY <2>1, <1>a DEF Alive
    <2>3. \A p \in Alive : time[p] = savedTime /\ saved # <<>>
      BY <2>1 DEF PhaseInv
    <2>4. ~Restoring'
      BY <2>2 DEF Restoring
    <2>5. pc' \in [Proc -> {"run", "snap", "exchange", "barrier", "store", "failed", "restore",
                            "restored", "lost"}]
      BY <2>1 DEF PhaseInv
    <2> QED
      BY <2>1, <2>2, <2>3, <2>4, <2>5 DEF PhaseInv
  <1>11. ASSUME NEW b \in Block, NEW r \in 0..(Len(comm) - 1), Move(b, r)
         PROVE  PhaseInv'
    <2>1. /\ moves < MaxMoves /\ moves' = moves + 1
          /\ UNCHANGED <<comm, dead, pc, time, saved, savedTime, losses>>
      BY <1>11 DEF Move
    <2>2. moves' \in 0..MaxMoves
      BY <2>1, BlockAssumption DEF PhaseInv
    <2> QED
      BY <2>1, <2>2 DEF PhaseInv, Restoring, Alive
  <1>12. CASE UNCHANGED vars
    BY <1>12 DEF vars, state, history, PhaseInv, Restoring, Alive
  <1> QED
    BY <1>1, <1>2, <1>3, <1>4, <1>5, <1>6, <1>7, <1>8, <1>9, <1>10, <1>11, <1>12
    DEF Next, Step, Stay

-----------------------------------------------------------------------------
(* Who restores what *)

LEMMA AroundFits ==
  ASSUME NEW s, NEW n, NEW t, Fits(s, n, t), NEW x
  PROVE  x \in Around(s.blocks)
           <=> \E b \in DOMAIN s.blocks : \E m \in Adj[b] : x = s.blocks[b].nbr[m]
  <1>1. \A b \in DOMAIN s.blocks : DOMAIN s.blocks[b].nbr = Adj[b]
    BY DEF Fits
  <1> QED
    BY <1>1 DEF Around

LEMMA MappingFacts ==
  ASSUME CommInv, saved # <<>>, dead = {}, NEW k \in Ranks(saved)
  PROVE  /\ ProcessMapping(k) \in Ranks(comm)
         /\ saved[k + 1] \in ToSet(comm) => comm[ProcessMapping(k) + 1] = saved[k + 1]
         /\ saved[k + 1] \notin ToSet(comm) =>
              comm[ProcessMapping(k) + 1] = saved[SendTo(saved, k) + 1]
  <1>1. /\ Ring(comm) /\ Ring(saved) /\ ToSet(comm) \subseteq ToSet(saved) /\ Alive = ToSet(comm)
        /\ Recoverable(ToSet(saved) \ ToSet(comm))
    BY DEF CommInv, Alive
  <1>2. ~(k >= Len(saved))
    BY <1>1 DEF Ranks, Ring
  <1>3. CASE saved[k + 1] \in ToSet(comm)
    <2>1. ProcessMapping(k) = Me(saved[k + 1])
      BY <1>2, <1>3 DEF ProcessMapping
    <2> QED
      BY <1>1, <1>3, <2>1, MeFacts
  <1>4. CASE saved[k + 1] \notin ToSet(comm)
    <2>1. saved[k + 1] \in ToSet(saved) /\ RankIn(saved, saved[k + 1]) = k
      BY <1>1, RankOfMember
    <2>2. saved[SendTo(saved, k) + 1] \in ToSet(saved)
      BY <1>1, PartnerFacts, RankOfMember
    <2>3. saved[SendTo(saved, k) + 1] \in ToSet(comm)
      BY <1>1, <1>4, <2>1, <2>2 DEF Recoverable
    <2>4. ProcessMapping(k) = Me(saved[SendTo(saved, k) + 1])
      BY <1>2, <1>4 DEF ProcessMapping
    <2> QED
      BY <1>1, <1>4, <2>3, <2>4, MeFacts
  <1> QED
    BY <1>3, <1>4

(* A process restores its own part and, if its process is lost, the one it has a
   copy of.  Ranks of older, larger communicators are mapped to nobody. *)
LEMMA MineFacts ==
  ASSUME CommInv, saved # <<>>, dead = {}, NEW p \in ToSet(comm)
  PROVE  /\ RankIn(saved, p) \in Ranks(saved)
         /\ Mine(p) \subseteq {RankIn(saved, p), RecvFrom(saved, RankIn(saved, p))}
         /\ \A k \in Nat \ Ranks(saved) : ProcessMapping(k) # Me(p)
  <1> DEFINE o == RankIn(saved, p)
  <1>1. Ring(comm) /\ Ring(saved) /\ p \in ToSet(saved) /\ Len(comm) <= Len(saved)
    BY DEF CommInv
  <1>2. o \in Ranks(saved) /\ saved[o + 1] = p
    BY <1>1, RankFacts
  <1>3. Me(p) \in Ranks(comm) /\ comm[Me(p) + 1] = p
    BY <1>1, MeFacts
  <1>4. ASSUME NEW k \in Mine(p)
        PROVE  k = o \/ k = RecvFrom(saved, o)
    <2>1. k \in Ranks(saved) /\ ProcessMapping(k) = Me(p)
      BY DEF Mine
    <2>2. CASE saved[k + 1] \in ToSet(comm)
      <3>1. saved[k + 1] = p
        BY <1>3, <2>1, <2>2, MappingFacts
      <3> QED
        BY <1>1, <2>1, <3>1, RankOfMember
    <2>3. CASE saved[k + 1] \notin ToSet(comm)
      <3>1. saved[SendTo(saved, k) + 1] = p
        BY <1>3, <2>1, <2>3, MappingFacts
      <3>2. SendTo(saved, k) \in Ranks(saved) /\ RecvFrom(saved, SendTo(saved, k)) = k
        BY <1>1, <2>1, PartnerFacts
      <3>3. o = SendTo(saved, k)
        BY <1>1, <3>1, <3>2, RankOfMember
      <3> QED
        BY <3>2, <3>3
    <2> QED
      BY <2>2, <2>3
  <1>5. ASSUME NEW k \in Nat \ Ranks(saved)
        PROVE  ProcessMapping(k) # Me(p)
    <2>1. Len(saved) \in Nat /\ Len(comm) \in Nat
      BY <1>1 DEF Ring
    <2>2. k >= Len(saved)
      BY <2>1 DEF Ranks
    <2>3. ProcessMapping(k) = k
      BY <2>2 DEF ProcessMapping
    <2> QED
      BY <1>1, <1>3, <2>1, <2>2, <2>3 DEF Ranks
  <1> QED
    BY <1>2, <1>4, <1>5

LEMMA FoundAgain ==
  ASSUME CommInv, saved # <<>>, dead = {}, NEW p \in ToSet(comm), StoredInv,
         NEW g, Holds(p, g)
  PROVE  /\ {k \in DOMAIN snapshot[p] : ProcessMapping(k) = Me(p)} = Mine(p)
         /\ \A k \in Mine(p) : snapshot[p][k] = g[k]
  <1>1. p \in Proc
    BY MeFacts DEF CommInv
  <1>2. DOMAIN snapshot[p] \subseteq Nat
    BY <1>1 DEF StoredInv, Ranks
  <1>3. \A k \in Mine(p) : k \in DOMAIN snapshot[p] /\ snapshot[p][k] = g[k]
    BY MineFacts DEF Holds
  <1>4. \A k \in DOMAIN snapshot[p] : ProcessMapping(k) = Me(p) => k \in Ranks(saved)
    BY <1>2, MineFacts
  <1> QED
    BY <1>3, <1>4 DEF Mine

(* What a process restores is its part of the snapshot, with the links mapped to
   the communicator that is left. *)
LEMMA RestoreBack ==
  ASSUME CommInv, PhaseInv, StoredInv, BlocksInv, NEW p \in Proc, Restore(p), NEW g, Kept(g)
  PROVE  /\ Back(p, g)'
         /\ Packed(p)' \in Copy
         /\ Fits(Packed(p)', Len(comm), savedTime)
  <1>1. p \in Alive /\ pc[p] = "restore" /\ UNCHANGED <<comm, dead, saved, savedTime>>
    BY DEF Restore, history
  <1>2. saved # comm /\ saved # <<>>
    BY <1>1 DEF PhaseInv, Restoring
  <1>3. dead = {} /\ p \in ToSet(comm) /\ Ring(saved)
    BY <1>1, <1>2 DEF CommInv, Alive
  <1>4. Holds(p, g)
    BY <1>1 DEF Kept
  <1>5. /\ {k \in DOMAIN snapshot[p] : ProcessMapping(k) = Me(p)} = Mine(p)
        /\ \A k \in Mine(p) : snapshot[p][k] = g[k]
    BY <1>2, <1>3, <1>4, FoundAgain
  <1>6. \A k \in Mine(p) : k \in Ranks(saved) /\ ~g[k].read /\ g[k] \in Copy
                           /\ Fits(g[k], Len(saved), savedTime)
    BY DEF Mine, Kept
  <1>7. {k \in Mine(p) : ~snapshot[p][k].read} = Mine(p)
    BY <1>5, <1>6
  <1> DEFINE all == UNION {DOMAIN g[k].blocks : k \in Mine(p)}
             copies == UNION {DOMAIN snapshot[p][k].blocks : k \in Mine(p)}
             source(b) == CHOOSE k \in Mine(p) : b \in DOMAIN snapshot[p][k].blocks
             usable == {k \in {l \in DOMAIN snapshot[p] : ProcessMapping(l) = Me(p)} :
                          ~snapshot[p][k].read}
             made(K) == [b \in UNION {DOMAIN snapshot[p][k].blocks : k \in K} |->
                           Mapped(snapshot[p][CHOOSE k \in K :
                                                b \in DOMAIN snapshot[p][k].blocks].blocks)[b]]
  <1>8. blocks'[p] = [b \in copies |-> Mapped(snapshot[p][source(b)].blocks)[b]]
    <2>1. blocks'[p] = made(usable)
      BY DEF Restore, BlocksInv
    <2>2. usable = Mine(p)
      BY <1>5, <1>7
    <2> HIDE DEF made, usable
    <2>3. blocks'[p] = made(Mine(p))
      BY <2>1, <2>2
    <2> QED
      BY <2>3 DEF made
  <1>9. hood'[p] = {ProcessMapping(n) : n \in UNION {snapshot[p][k].hood : k \in Mine(p)}}
    BY <1>5, <1>7 DEF Restore, BlocksInv
  <1>10. copies = all
    BY <1>5
  <1>11. ASSUME NEW k \in Mine(p), NEW b \in DOMAIN g[k].blocks
         PROVE  /\ b \in all /\ blocks'[p][b] = Mapped(g[k].blocks)[b]
    <2>1. PICK place \in [Block -> Ranks(saved)] : \A l \in Ranks(saved) :
            DOMAIN g[l].blocks = {c \in Block : place[c] = l}
      BY DEF Kept, Whole, Ranks
    <2>2. \A l \in Mine(p) : b \in DOMAIN g[l].blocks => l = k
      BY <1>6, <2>1
    <2>3. \A l \in Mine(p) : b \in DOMAIN snapshot[p][l].blocks <=> l = k
      BY <1>5, <2>2
    <2>4. source(b) = k
      BY <2>3
    <2> QED
      BY <1>5, <1>8, <1>10, <2>4
  <1> HIDE DEF all, copies, source
  <1>12. ASSUME NEW k \in Mine(p), NEW b \in DOMAIN g[k].blocks
         PROVE  /\ b \in Block
                /\ blocks'[p][b] \in [step : {savedTime}, nbr : [Adj[b] -> Ranks(comm)]]
                /\ \A n \in Adj[b] :
                     blocks'[p][b].nbr[n] = ProcessMapping(g[k].blocks[b].nbr[n])
    <2>1. g[k].blocks[b] \in [step : {savedTime}, nbr : [Adj[b] -> Ranks(saved)]]
      BY <1>6 DEF Fits, Ranks
    <2>2. Mapped(g[k].blocks)[b] =
            [g[k].blocks[b] EXCEPT !.nbr = [n \in DOMAIN @ |-> ProcessMapping(@[n])]]
      BY DEF Mapped
    <2>3. \A n \in Adj[b] : ProcessMapping(g[k].blocks[b].nbr[n]) \in Ranks(comm)
      BY <1>2, <1>3, <2>1, MappingFacts
    <2>4. blocks'[p][b] = [step |-> savedTime,
                           nbr |-> [n \in Adj[b] |-> ProcessMapping(g[k].blocks[b].nbr[n])]]
      BY <1>11, <2>1, <2>2
    <2>5. b \in Block
      BY <1>6, BlocksDomain
    <2> QED
      BY <2>3, <2>4, <2>5
  <1>13. DOMAIN blocks'[p] = all
    BY <1>8, <1>10
  <1>14. hood'[p] = {ProcessMapping(n) : n \in UNION {g[k].hood : k \in Mine(p)}}
    <2>1. UNION {snapshot[p][k].hood : k \in Mine(p)} = UNION {g[k].hood : k \in Mine(p)}
      BY <1>5
    <2> QED
      BY <1>9, <2>1
  <1>15. Mine(p)' = Mine(p) /\ \A k : ProcessMapping(k)' = ProcessMapping(k)
    BY <1>1 DEF Mine, ProcessMapping, Me, SendTo, RankIn, Ranks
  <1>16. Back(p, g)'
    BY <1>12, <1>13, <1>14, <1>15 DEF Back, all
  <1>17. hood'[p] \subseteq Ranks(comm)
    <2>1. \A k \in Mine(p) : g[k].hood \subseteq Ranks(saved)
      BY <1>6 DEF Fits, Ranks
    <2> QED
      BY <1>2, <1>3, <1>14, <2>1, MappingFacts
  <1>18. \A b \in DOMAIN blocks'[p] : /\ b \in Block
           /\ blocks'[p][b] \in [step : {savedTime}, nbr : [Adj[b] -> Ranks(comm)]]
    BY <1>12, <1>13 DEF all
  <1>19. Packed(p)' = [hood |-> hood'[p], blocks |-> blocks'[p], read |-> FALSE]
    BY DEF Packed
  <1>20. Fits(Packed(p)', Len(comm), savedTime)
    BY <1>17, <1>18, <1>19 DEF Fits, Ranks
  <1>21. blocks'[p] \in Blocks
    <2>1. DOMAIN blocks'[p] \in SUBSET Block
      BY <1>18
    <2>2. blocks'[p] = [b \in DOMAIN blocks'[p] |-> blocks'[p][b]]
      BY <1>8
    <2>3. Len(comm) - 1 \in Nat /\ savedTime \in Nat
      BY <1>3, BlockAssumption DEF CommInv, Ring, PhaseInv
    <2>4. \A b \in DOMAIN blocks'[p] : \E n \in Nat :
            blocks'[p][b] \in [step : Nat, nbr : [Adj[b] -> 0..n]]
      BY <1>18, <2>3 DEF Ranks
    <2> QED
      BY <2>1, <2>2, <2>4, BlocksType
  <1>22. Packed(p)' \in Copy
    BY <1>17, <1>19, <1>21 DEF Copy, Ranks
  <1> QED
    BY <1>16, <1>20, <1>22

(* Restored by all, the snapshot is the whole forest again, on the processes that
   are left. *)
LEMMA RestoredWhole ==
  ASSUME CommInv, PhaseInv, BlocksInv, Restored, NEW g, Kept(g)
  PROVE  Whole(View, Len(comm))
  <1>1. dead = {} /\ Alive = ToSet(comm) /\ Ring(comm) /\ \A p \in ToSet(comm) : pc[p] = "restored"
    BY DEF Restored, CommInv, Alive
  <1>2. saved # <<>>
    <2>1. ToSet(comm) # {}
      BY <1>1, SomeMember
    <2> QED
      BY <1>1, <2>1 DEF PhaseInv
  <1>3. PICK place \in [Block -> Ranks(saved)] : \A k \in Ranks(saved) :
          /\ DOMAIN g[k].blocks = {b \in Block : place[b] = k}
          /\ \A b \in DOMAIN g[k].blocks : \A m \in Adj[b] : g[k].blocks[b].nbr[m] = place[m]
          /\ Around(g[k].blocks) \ {k} = g[k].hood \ {k}
    BY DEF Kept, Whole, Ranks
  <1> DEFINE home == [b \in Block |-> ProcessMapping(place[b])]
  <1>4. home \in [Block -> 0..(Len(comm) - 1)]
    BY <1>1, <1>2, <1>3, MappingFacts DEF Ranks
  <1>5. ASSUME NEW p \in ToSet(comm)
        PROVE  /\ DOMAIN blocks[p] = {b \in Block : home[b] = Me(p)}
               /\ \A b \in DOMAIN blocks[p] : \A m \in Adj[b] : blocks[p][b].nbr[m] = home[m]
               /\ Around(blocks[p]) \ {Me(p)} = hood[p] \ {Me(p)}
    <2>1. Back(p, g) /\ Fits(Packed(p), Len(comm), time[p])
      BY <1>1 DEF Kept, BlocksInv
    <2>2. \A b \in Block : place[b] \in Mine(p) <=> home[b] = Me(p)
      BY <1>3 DEF Mine
    <2>3. DOMAIN blocks[p] = UNION {DOMAIN g[k].blocks : k \in Mine(p)}
      BY <2>1 DEF Back
    <2>4. DOMAIN blocks[p] = {b \in Block : place[b] \in Mine(p)}
      BY <1>3, <2>3 DEF Mine
    <2>5. ASSUME NEW b \in DOMAIN blocks[p], NEW m \in Adj[b]
          PROVE  /\ place[b] \in Mine(p) /\ b \in DOMAIN g[place[b]].blocks /\ m \in Block
                 /\ g[place[b]].blocks[b].nbr[m] = place[m]
                 /\ blocks[p][b].nbr[m] = home[m]
      <3>1. b \in Block /\ place[b] \in Mine(p) /\ m \in Block
        BY <2>4, BlockAssumption
      <3>2. b \in DOMAIN g[place[b]].blocks
        BY <1>3, <3>1
      <3>3. g[place[b]].blocks[b].nbr[m] = place[m]
        BY <1>3, <3>1, <3>2
      <3> QED
        BY <2>1, <3>1, <3>2, <3>3 DEF Back
    <2>6. ASSUME NEW x
          PROVE  x \in Around(blocks[p]) <=> \E k \in Mine(p) : \E n \in Around(g[k].blocks) :
                                               x = ProcessMapping(n)
      <3>1. x \in Around(blocks[p])
              <=> \E b \in DOMAIN blocks[p] : \E m \in Adj[b] : x = blocks[p][b].nbr[m]
        <4>1. \A b \in DOMAIN blocks[p] : DOMAIN blocks[p][b].nbr = Adj[b]
          BY <2>1 DEF Fits, Packed
        <4> QED
          BY <4>1 DEF Around
      <3>2. ASSUME NEW k \in Mine(p), NEW n
            PROVE  n \in Around(g[k].blocks)
                     <=> \E b \in DOMAIN g[k].blocks : \E m \in Adj[b] : n = g[k].blocks[b].nbr[m]
        <4>1. Fits(g[k], Len(saved), savedTime)
          BY DEF Kept, Mine
        <4> QED
          BY ONLY <4>1, AroundFits
      <3>3. ASSUME NEW k \in Mine(p), NEW b \in DOMAIN g[k].blocks, NEW m \in Adj[b]
            PROVE  /\ b \in DOMAIN blocks[p]
                   /\ blocks[p][b].nbr[m] = ProcessMapping(g[k].blocks[b].nbr[m])
        BY <2>1, <2>3 DEF Back
      <3>4. ASSUME x \in Around(blocks[p])
            PROVE  \E k \in Mine(p) : \E n \in Around(g[k].blocks) : x = ProcessMapping(n)
        <4>1. PICK b \in DOMAIN blocks[p] : \E m \in Adj[b] : x = blocks[p][b].nbr[m]
          BY <3>1, <3>4
        <4>2. PICK m \in Adj[b] : x = blocks[p][b].nbr[m]
          BY <4>1
        <4>3. place[b] \in Mine(p) /\ b \in DOMAIN g[place[b]].blocks
          BY <2>5, <4>1
        <4>4. g[place[b]].blocks[b].nbr[m] \in Around(g[place[b]].blocks)
          BY <3>2, <4>3
        <4> QED
          BY <3>3, <4>2, <4>3, <4>4
      <3>5. ASSUME NEW k \in Mine(p), NEW n \in Around(g[k].blocks), x = ProcessMapping(n)
            PROVE  x \in Around(blocks[p])
        <4>1. PICK b \in DOMAIN g[k].blocks : \E m \in Adj[b] : n = g[k].blocks[b].nbr[m]
          BY <3>2
        <4> QED
          BY <3>1, <3>3, <3>5, <4>1
      <3> QED
        BY <3>4, <3>5
    <2>7. ASSUME NEW x
          PROVE  x \in hood[p] <=> \E k \in Mine(p) : \E n \in g[k].hood : x = ProcessMapping(n)
      BY <2>1 DEF Back
    <2>8. \A k \in Mine(p) : Around(g[k].blocks) \ {k} = g[k].hood \ {k} /\ ProcessMapping(k) = Me(p)
      BY <1>3 DEF Mine
    <2>9. \A x : x # Me(p) => (x \in Around(blocks[p]) <=> x \in hood[p])
      <3> SUFFICES ASSUME NEW x, x # Me(p)
                   PROVE  x \in Around(blocks[p]) <=> x \in hood[p]
        OBVIOUS
      <3>1. \A k \in Mine(p) : \A n : x = ProcessMapping(n) =>
              (n \in Around(g[k].blocks) <=> n \in g[k].hood)
        BY <2>8
      <3> QED
        BY <2>6, <2>7, <3>1
    <2> QED
      BY <2>2, <2>4, <2>5, <2>9
  <1>6. ASSUME NEW k \in 0..(Len(comm) - 1)
        PROVE  /\ DOMAIN View[k].blocks = {b \in Block : home[b] = k}
               /\ \A b \in DOMAIN View[k].blocks : \A m \in Adj[b] :
                    View[k].blocks[b].nbr[m] = home[m]
               /\ Around(View[k].blocks) \ {k} = View[k].hood \ {k}
    <2> DEFINE p == comm[k + 1]
    <2>1. p \in ToSet(comm) /\ Me(p) = k
      BY <1>1, RankOfMember DEF Me, Ranks
    <2>2. View[k] = [hood |-> hood[p], blocks |-> blocks[p], read |-> FALSE]
      BY DEF View, Ranks, Packed
    <2> HIDE DEF home
    <2> QED
      BY <1>5, <2>1, <2>2
  <1> QED
    BY <1>4, <1>6 DEF Whole

-----------------------------------------------------------------------------
(* The blocks in use *)

LEMMA BlocksInit == Init => BlocksInv
  <1> SUFFICES ASSUME Init
               PROVE  BlocksInv
    OBVIOUS
  <1>1. CommInv /\ Alive = ToSet(comm) /\ comm = First /\ Ring(comm)
    BY CommInit DEF Init, Alive, CommInv
  <1>2. ASSUME NEW p \in ToSet(comm)
        PROVE  /\ p \in Proc /\ time[p] = 0
               /\ Me(p) \in Ranks(comm)
               /\ blocks[p] = [b \in {c \in Block : Home[c] = Me(p)} |->
                                 [step |-> 0, nbr |-> [n \in Adj[b] |-> Home[n]]]]
               /\ hood[p] = Around(blocks[p]) \ {Me(p)}
    BY <1>1, MeFacts DEF Init, Me
  <1>3. Home \in [Block -> 0..(Len(comm) - 1)] /\ Len(comm) - 1 \in Nat
    BY <1>1, BlockAssumption DEF Ring
  <1>4. ASSUME NEW p \in ToSet(comm)
        PROVE  /\ DOMAIN blocks[p] = {b \in Block : Home[b] = Me(p)}
               /\ \A b \in DOMAIN blocks[p] :
                    /\ blocks[p][b] \in [step : {0}, nbr : [Adj[b] -> 0..(Len(comm) - 1)]]
                    /\ \A m \in Adj[b] : blocks[p][b].nbr[m] = Home[m]
               /\ hood[p] \subseteq 0..(Len(comm) - 1)
               /\ blocks[p] \in Blocks
    <2>1. DOMAIN blocks[p] = {b \in Block : Home[b] = Me(p)}
      BY <1>2
    <2>2. ASSUME NEW b \in DOMAIN blocks[p]
          PROVE  /\ blocks[p][b] \in [step : {0}, nbr : [Adj[b] -> 0..(Len(comm) - 1)]]
                 /\ \A m \in Adj[b] : blocks[p][b].nbr[m] = Home[m]
      <3>1. blocks[p][b] = [step |-> 0, nbr |-> [n \in Adj[b] |-> Home[n]]]
        BY <1>2, <2>1
      <3>2. \A m \in Adj[b] : Home[m] \in 0..(Len(comm) - 1)
        BY <1>3, <2>1, BlockAssumption
      <3> QED
        BY <3>1, <3>2
    <2>3. Around(blocks[p]) \subseteq 0..(Len(comm) - 1)
      BY <2>2 DEF Around
    <2>4. blocks[p] = [b \in DOMAIN blocks[p] |-> blocks[p][b]]
      BY <1>2
    <2>5. blocks[p] \in Blocks
      <3>1. DOMAIN blocks[p] \in SUBSET Block
        BY <2>1
      <3>2. \A b \in DOMAIN blocks[p] : \E n \in Nat :
              blocks[p][b] \in [step : Nat, nbr : [Adj[b] -> 0..n]]
        BY <1>3, <2>2
      <3> QED
        BY <2>4, <3>1, <3>2, BlocksType
    <2> QED
      BY <1>2, <2>1, <2>2, <2>3, <2>5
  <1>5. \A p \in ToSet(comm) : Packed(p) \in Copy
    BY <1>4 DEF Packed, Copy
  <1>6. \A p \in ToSet(comm) : Fits(Packed(p), Len(comm), time[p])
    BY <1>2, <1>4 DEF Packed, Fits
  <1>7. ASSUME NEW k \in 0..(Len(comm) - 1)
        PROVE  /\ DOMAIN View[k].blocks = {b \in Block : Home[b] = k}
               /\ \A b \in DOMAIN View[k].blocks : \A m \in Adj[b] :
                    View[k].blocks[b].nbr[m] = Home[m]
               /\ Around(View[k].blocks) \ {k} = View[k].hood \ {k}
    <2> DEFINE p == comm[k + 1]
    <2>1. p \in ToSet(comm) /\ Me(p) = k
      BY <1>1, RankOfMember DEF Me, Ranks
    <2>2. View[k] = [hood |-> hood[p], blocks |-> blocks[p], read |-> FALSE]
      BY DEF View, Ranks, Packed
    <2> HIDE DEF p
    <2>3. Around(blocks[p]) \ {k} = hood[p] \ {k}
      BY <1>2, <2>1
    <2> QED
      BY <1>4, <2>1, <2>2, <2>3
  <1>8. Whole(View, Len(comm))
    BY <1>3, <1>7 DEF Whole
  <1>9. DOMAIN blocks = Proc /\ DOMAIN hood = Proc
    BY DEF Init
  <1> QED
    BY <1>1, <1>5, <1>6, <1>8, <1>9 DEF BlocksInv

(* Load balancing leaves every block in one place, and every link says where. *)
LEMMA BlocksMove ==
  ASSUME CommInv, PhaseInv, BlocksInv, NEW b \in Block, NEW r \in 0..(Len(comm) - 1), Move(b, r)
  PROVE  BlocksInv'
  <1>1. /\ dead = {} /\ UNCHANGED <<comm, dead, pc, time, saved, savedTime>>
        /\ \A p \in Alive : pc[p] = "run" /\ time[p] = savedTime
    BY DEF Move
  <1>2. /\ Alive = ToSet(comm) /\ Alive' = Alive /\ Ring(comm) /\ Len(comm) - 1 \in Nat
        /\ ~Restoring /\ savedTime \in Nat
    BY <1>1, BlockAssumption DEF Alive, Restoring, CommInv, Ring, PhaseInv
  <1>3. PICK place \in [Block -> 0..(Len(comm) - 1)] : \A k \in 0..(Len(comm) - 1) :
          DOMAIN View[k].blocks = {c \in Block : place[c] = k}
    BY <1>1, <1>2 DEF BlocksInv, Whole
  <1>4. \A p \in Alive : Me(p) \in 0..(Len(comm) - 1) /\ p \in Proc
    BY <1>2, MeFacts DEF Ranks
  <1>5. \A p \in Alive : DOMAIN blocks[p] = {c \in Block : place[c] = Me(p)}
    <2> SUFFICES ASSUME NEW p \in Alive
                 PROVE  DOMAIN blocks[p] = {c \in Block : place[c] = Me(p)}
      OBVIOUS
    <2>1. View[Me(p)] = [hood |-> hood[p], blocks |-> blocks[p], read |-> FALSE]
      BY <1>2, ViewFacts DEF Packed
    <2> QED
      BY <1>3, <1>4, <2>1
  <1> DEFINE holder(n) == CHOOSE q \in Alive : n \in DOMAIN blocks[q]
             to(n) == IF n = b THEN r ELSE Me(holder(n))
             held(q) == IF Me(q) = r THEN DOMAIN blocks[q] \cup {b} ELSE DOMAIN blocks[q] \ {b}
             home == [n \in Block |-> IF n = b THEN r ELSE place[n]]
  <1>6. ASSUME NEW q \in Alive
        PROVE  /\ blocks'[q] = [c \in held(q) |->
                                  [step |-> savedTime, nbr |-> [n \in Adj[c] |-> to(n)]]]
               /\ hood'[q] = Around(blocks'[q]) \ {Me(q)}
    BY <1>4 DEF Move
  <1>7. ASSUME NEW n \in Block
        PROVE  to(n) = home[n] /\ home[n] \in 0..(Len(comm) - 1)
    <2>1. CASE n = b
      BY <2>1
    <2>2. CASE n # b
      <3>1. comm[place[n] + 1] \in Alive /\ Me(comm[place[n] + 1]) = place[n]
        BY <1>2, RankOfMember DEF Me, Ranks
      <3>2. n \in DOMAIN blocks[comm[place[n] + 1]]
        BY <1>5, <3>1
      <3>3. holder(n) \in Alive /\ n \in DOMAIN blocks[holder(n)]
        BY <3>1, <3>2
      <3>4. Me(holder(n)) = place[n]
        BY <1>5, <3>3
      <3> QED
        BY <2>2, <3>4
    <2> QED
      BY <2>1, <2>2
  <1>8. \A q \in Alive : held(q) = {c \in Block : home[c] = Me(q)}
    BY <1>5
  <1> HIDE DEF to, held, holder
  <1>9. ASSUME NEW q \in Alive
        PROVE  /\ DOMAIN blocks'[q] = {c \in Block : home[c] = Me(q)}
               /\ \A c \in DOMAIN blocks'[q] :
                    /\ blocks'[q][c] \in [step : {savedTime}, nbr : [Adj[c] -> 0..(Len(comm) - 1)]]
                    /\ \A m \in Adj[c] : blocks'[q][c].nbr[m] = home[m]
               /\ hood'[q] \subseteq 0..(Len(comm) - 1)
               /\ blocks'[q] \in Blocks
    <2>1. DOMAIN blocks'[q] = {c \in Block : home[c] = Me(q)}
      BY <1>6, <1>8
    <2>2. ASSUME NEW c \in DOMAIN blocks'[q]
          PROVE  /\ blocks'[q][c] \in [step : {savedTime}, nbr : [Adj[c] -> 0..(Len(comm) - 1)]]
                 /\ \A m \in Adj[c] : blocks'[q][c].nbr[m] = home[m]
      <3>1. blocks'[q][c] = [step |-> savedTime, nbr |-> [n \in Adj[c] |-> to(n)]]
        BY <1>6
      <3>2. \A m \in Adj[c] : to(m) = home[m] /\ home[m] \in 0..(Len(comm) - 1)
        BY <1>7, <2>1, BlockAssumption
      <3> HIDE DEF home
      <3> QED
        BY <3>1, <3>2
    <2>3. Around(blocks'[q]) \subseteq 0..(Len(comm) - 1)
      BY <2>2 DEF Around
    <2>4. blocks'[q] \in Blocks
      <3>1. DOMAIN blocks'[q] \in SUBSET Block
        BY <2>1
      <3>2. \A c \in DOMAIN blocks'[q] : \E n \in Nat :
              blocks'[q][c] \in [step : Nat, nbr : [Adj[c] -> 0..n]]
        BY <1>2, <2>2
      <3>3. blocks'[q] = [c \in DOMAIN blocks'[q] |-> blocks'[q][c]]
        BY <1>6
      <3> QED
        BY <3>1, <3>2, <3>3, BlocksType
    <2> QED
      BY <1>6, <2>1, <2>2, <2>3, <2>4
  <1>10. \A q \in Alive : Packed(q)' = [hood |-> hood'[q], blocks |-> blocks'[q], read |-> FALSE]
    BY DEF Packed
  <1>11. \A q \in Alive : Packed(q)' \in Copy
    <2>1. \A q \in Alive : hood'[q] \in SUBSET Nat /\ blocks'[q] \in Blocks
      BY <1>9
    <2> HIDE DEF home
    <2> QED
      BY <1>10, <2>1, CopyType
  <1>12. \A q \in Alive : Fits(Packed(q)', Len(comm), savedTime)
    BY <1>9, <1>10 DEF Fits
  <1>13. ASSUME NEW k \in 0..(Len(comm) - 1)
         PROVE  /\ DOMAIN View'[k].blocks = {c \in Block : home[c] = k}
                /\ \A c \in DOMAIN View'[k].blocks : \A m \in Adj[c] :
                     View'[k].blocks[c].nbr[m] = home[m]
                /\ Around(View'[k].blocks) \ {k} = View'[k].hood \ {k}
    <2> DEFINE q == comm[k + 1]
    <2>1. q \in Alive /\ Me(q) = k
      BY <1>2, RankOfMember DEF Me, Ranks
    <2>3. View'[k] = [hood |-> hood'[q], blocks |-> blocks'[q], read |-> FALSE]
      BY <1>1 DEF View, Ranks, Packed
    <2> HIDE DEF q, home
    <2>4. Around(blocks'[q]) \ {k} = hood'[q] \ {k}
      BY <1>6, <2>1
    <2> QED
      BY <1>9, <2>1, <2>3, <2>4
  <1>14. home \in [Block -> 0..(Len(comm) - 1)]
    BY <1>7
  <1> HIDE DEF home
  <1>15. Whole(View', Len(comm))
    BY <1>13, <1>14 DEF Whole
  <1>16. DOMAIN blocks' = Proc /\ DOMAIN hood' = Proc
    BY DEF Move
  <1> QED
    BY <1>1, <1>2, <1>11, <1>12, <1>15, <1>16 DEF BlocksInv

LEMMA BlocksFrame ==
  ASSUME BlocksInv, UNCHANGED <<comm, dead, time, blocks, hood>>,
         Restoring => Restoring',
         \A p \in Alive : pc'[p] # "restore" => pc[p] # "restore"
  PROVE  BlocksInv'
  <1>1. Alive' = Alive /\ View' = View /\ \A p : Packed(p)' = Packed(p)
    BY DEF Alive, View, Packed, Ranks
  <1> QED
    BY <1>1 DEF BlocksInv

LEMMA BlocksWork ==
  ASSUME CommInv, PhaseInv, BlocksInv, NEW p \in Proc, Work(p)
  PROVE  BlocksInv'
  <1>1. /\ p \in Alive /\ pc[p] = "run" /\ time[p] < MaxTime
        /\ time' = [time EXCEPT ![p] = @ + 1]
        /\ UNCHANGED <<comm, dead, hood, saved>> /\ Alive' = Alive
        /\ pc' = [pc EXCEPT ![p] = "snap"]
    BY DEF Work, history, Alive
  <1>2. /\ Alive \subseteq Proc /\ \A q \in Alive \ {p} : time'[q] = time[q] /\ pc'[q] = pc[q]
        /\ time'[p] = time[p] + 1 /\ time'[p] \in Nat
        /\ Ring(comm) /\ Len(comm) - 1 \in Nat
    BY <1>1, AliveIn, BlockAssumption DEF PhaseInv, CommInv, Ring
  <1>3. /\ blocks'[p] = [b \in DOMAIN blocks[p] |-> [blocks[p][b] EXCEPT !.step = time'[p]]]
        /\ DOMAIN blocks' = Proc /\ DOMAIN hood' = Proc
        /\ \A q \in Alive \ {p} : blocks'[q] = blocks[q]
    BY <1>2 DEF Work, BlocksInv
  <1>4. /\ \A b \in DOMAIN blocks[p] :
             blocks[p][b] \in [step : {time[p]}, nbr : [Adj[b] -> 0..(Len(comm) - 1)]]
        /\ hood[p] \subseteq 0..(Len(comm) - 1) /\ DOMAIN blocks[p] \subseteq Block
    BY <1>1, BlocksDomain DEF BlocksInv, Fits, Packed
  <1>5. \A b \in DOMAIN blocks[p] :
          /\ blocks'[p][b] \in [step : {time'[p]}, nbr : [Adj[b] -> 0..(Len(comm) - 1)]]
          /\ blocks'[p][b].nbr = blocks[p][b].nbr
    BY <1>3, <1>4
  <1>6. DOMAIN blocks'[p] = DOMAIN blocks[p]
    BY <1>3
  <1>7. \A q \in Alive : Packed(q)' = [hood |-> hood[q], blocks |-> blocks'[q], read |-> FALSE]
    BY <1>1 DEF Packed
  <1>8. blocks'[p] \in Blocks
    <2>1. \A b \in DOMAIN blocks'[p] : \E n \in Nat :
            blocks'[p][b] \in [step : Nat, nbr : [Adj[b] -> 0..n]]
      BY <1>2, <1>5, <1>6
    <2>2. blocks'[p] = [b \in DOMAIN blocks'[p] |-> blocks'[p][b]] /\ DOMAIN blocks'[p] \in SUBSET Block
      BY <1>3, <1>4, <1>6
    <2> QED
      BY <2>1, <2>2, BlocksType
  <1>9. \A q \in Alive : Packed(q)' \in Copy
    <2>1. Packed(p)' \in Copy
      <3>1. hood[p] \in SUBSET Nat
        BY <1>4
      <3> QED
        BY <1>1, <1>7, <1>8, <3>1, CopyType
    <2>2. \A q \in Alive \ {p} : Packed(q)' = Packed(q)
      BY <1>3, <1>7 DEF Packed
    <2> QED
      BY <2>1, <2>2 DEF BlocksInv
  <1>10. \A q \in Alive : pc'[q] # "restore" => Fits(Packed(q)', Len(comm), time'[q])
    <2>1. Fits(Packed(p)', Len(comm), time'[p])
      BY <1>1, <1>4, <1>5, <1>6, <1>7 DEF Fits
    <2>2. \A q \in Alive \ {p} : Packed(q)' = Packed(q)
      BY <1>3, <1>7 DEF Packed
    <2> QED
      BY <1>2, <2>1, <2>2 DEF BlocksInv
  <1>11. ~Restoring
    BY <1>1 DEF PhaseInv
  <1>12. ASSUME dead = {}
         PROVE  Whole(View', Len(comm))
    <2>1. PICK place \in [Block -> 0..(Len(comm) - 1)] : \A k \in 0..(Len(comm) - 1) :
            /\ DOMAIN View[k].blocks = {b \in Block : place[b] = k}
            /\ \A b \in DOMAIN View[k].blocks : \A m \in Adj[b] :
                 View[k].blocks[b].nbr[m] = place[m]
            /\ Around(View[k].blocks) \ {k} = View[k].hood \ {k}
      BY <1>11, <1>12 DEF BlocksInv, Whole
    <2>2. ASSUME NEW k \in 0..(Len(comm) - 1)
          PROVE  /\ DOMAIN View'[k].blocks = DOMAIN View[k].blocks
                 /\ \A b \in DOMAIN View[k].blocks :
                      View'[k].blocks[b].nbr = View[k].blocks[b].nbr
                 /\ Around(View'[k].blocks) = Around(View[k].blocks)
                 /\ View'[k].hood = View[k].hood
      <3> DEFINE q == comm[k + 1]
      <3>1. q \in Alive
        BY <1>2, <1>12, RankOfMember DEF Alive, Ranks
      <3>2. /\ View[k] = [hood |-> hood[q], blocks |-> blocks[q], read |-> FALSE]
            /\ View'[k] = [hood |-> hood[q], blocks |-> blocks'[q], read |-> FALSE]
        BY <1>1 DEF View, Ranks, Packed
      <3> HIDE DEF q
      <3>3. CASE q = p
        <4>1. Around(blocks'[p]) = Around(blocks[p])
          BY <1>5, <1>6 DEF Around
        <4> QED
          BY <1>5, <1>6, <3>2, <3>3, <4>1
      <3>4. CASE q # p
        BY <1>3, <3>1, <3>2, <3>4
      <3> QED
        BY <3>3, <3>4
    <2> QED
      BY <2>1, <2>2 DEF Whole
  <1> QED
    BY <1>1, <1>3, <1>9, <1>10, <1>12 DEF BlocksInv

LEMMA BlocksNext ==
  ASSUME CommInv, PhaseInv, BlocksInv, StoredInv, KeptInv, [Next]_vars
  PROVE  BlocksInv'
  <1>a. Alive \subseteq Proc
    BY AliveIn
  <1>1. ASSUME NEW p \in Proc, Crash(p)
        PROVE  BlocksInv'
    <2>1. /\ dead' = dead \cup {p} /\ UNCHANGED <<comm, pc, time, hood>>
          /\ blocks' = [blocks EXCEPT ![p] = <<>>] /\ p \in Alive
      BY <1>1 DEF Crash
    <2>2. Alive' = Alive \ {p}
      BY <2>1 DEF Alive
    <2>3. \A q \in Alive \ {p} : Packed(q)' = Packed(q)
      BY <2>1, <1>a DEF Packed, BlocksInv
    <2>4. DOMAIN blocks' = Proc
      BY <2>1 DEF BlocksInv
    <2> QED
      BY <2>1, <2>2, <2>3, <2>4 DEF BlocksInv
  <1>2. CASE Restart
    <2>1. /\ dead # {} /\ UNCHANGED <<blocks, hood>> /\ Alive' = Alive
          /\ \A p \in Alive : pc'[p] = "restore"
      BY <1>2, <1>a, Shrunk DEF Restart, state
    <2>2. Alive # {}
      BY <2>1, SurvivorExists
    <2>3. Restoring' /\ \A p : Packed(p)' = Packed(p)
      BY <2>1, <2>2 DEF Restoring, Packed
    <2> QED
      BY <2>1, <2>3 DEF BlocksInv
  <1>3. ASSUME NEW p \in Proc, Restore(p)
        PROVE  BlocksInv'
    <2>1. /\ p \in Alive /\ pc' = [pc EXCEPT ![p] = "restored"] /\ pc[p] = "restore"
          /\ time' = [time EXCEPT ![p] = savedTime]
          /\ UNCHANGED <<comm, dead, saved, savedTime>> /\ Alive' = Alive
      BY <1>3 DEF Restore, history, Alive
    <2>2. /\ \A q \in Alive \ {p} : blocks'[q] = blocks[q] /\ hood'[q] = hood[q]
          /\ DOMAIN blocks' = Proc /\ DOMAIN hood' = Proc
      BY <1>3, <1>a DEF Restore, BlocksInv
    <2>3. \A q \in Alive \ {p} : /\ Packed(q)' = Packed(q)
                                 /\ pc'[q] = pc[q] /\ time'[q] = time[q]
      BY <2>1, <2>2, <1>a DEF Packed, PhaseInv
    <2>4. pc'[p] = "restored" /\ time'[p] = savedTime
      BY <2>1 DEF PhaseInv
    <2>5. Restoring'
      BY <2>1, <2>4 DEF Restoring
    <2>6. PICK g : Kept(g)
      BY <2>1 DEF KeptInv, PhaseInv, Restoring
    <2>7. Packed(p)' \in Copy /\ Fits(Packed(p)', Len(comm), savedTime)
      BY <1>3, <2>6, RestoreBack
    <2>8. \A q \in Alive : Packed(q)' \in Copy
      BY <2>3, <2>7 DEF BlocksInv
    <2>9. \A q \in Alive : pc'[q] # "restore" => Fits(Packed(q)', Len(comm), time'[q])
      BY <2>3, <2>4, <2>7 DEF BlocksInv
    <2> QED
      BY <2>1, <2>2, <2>5, <2>8, <2>9 DEF BlocksInv
  <1>4. CASE Resume
    <2>1. /\ Restored /\ UNCHANGED <<comm, dead, time, blocks, hood>>
          /\ pc' = [p \in Proc |-> IF p \in Alive THEN "run" ELSE pc[p]]
      BY <1>4 DEF Resume, state
    <2>2. /\ Alive' = Alive /\ View' = View /\ \A p : Packed(p)' = Packed(p)
          /\ \A p \in Alive : pc[p] = "restored"
      BY <2>1 DEF Alive, View, Packed, Ranks, Restored
    <2>3. Alive # {}
      <3>1. Ring(comm)
        BY DEF CommInv
      <3> QED
        BY <2>1, <3>1, SomeMember DEF Restored, Alive
    <2>4. saved # <<>>
      BY <2>2, <2>3 DEF PhaseInv
    <2>5. Whole(View, Len(comm))
      BY <2>1, <2>4, RestoredWhole DEF KeptInv
    <2> QED
      BY <2>1, <2>2, <2>5 DEF BlocksInv
  <1>5. ASSUME NEW p \in Proc, Send(p) \/ Receive(p) \/ Store(p) \/ Fail(p)
        PROVE  BlocksInv'
    <2>1. /\ UNCHANGED <<comm, dead, time, blocks, hood>> /\ p \in Alive
          /\ pc[p] \notin {"restore"}
      BY <1>5 DEF Send, Receive, Store, Fail, state
    <2>2. PICK to : pc' = [pc EXCEPT ![p] = to] /\ to # "restore"
      BY <1>5 DEF Send, Receive, Store, Fail
    <2>3. \A q \in Alive : pc'[q] # "restore" => pc[q] # "restore"
      BY <2>1, <2>2, <1>a DEF PhaseInv
    <2>4. ~Restoring
      <3>1. CASE pc[p] # "restored"
        BY <2>1, <3>1 DEF PhaseInv
      <3>2. CASE pc[p] = "restored"
        <4>1. dead # {}
          BY <1>5, <3>2 DEF Send, Receive, Store, Fail
        <4> QED
          BY <4>1 DEF CommInv, PhaseInv, Restoring
      <3> QED
        BY <3>1, <3>2
    <2> QED
      BY <2>1, <2>3, <2>4, BlocksFrame
  <1>6. CASE Barrier
    <2>1. /\ UNCHANGED <<comm, dead, time, blocks, hood>>
          /\ \A p \in Alive : pc[p] = "barrier"
      BY <1>6 DEF Barrier, state
    <2>2. ~Restoring
      BY <2>1 DEF Restoring
    <2> QED
      BY <2>1, <2>2, BlocksFrame
  <1>7. CASE UNCHANGED vars
    <2>1. UNCHANGED <<comm, dead, time, blocks, hood, pc>>
      BY <1>7 DEF vars, state
    <2>2. Restoring' = Restoring
      BY <2>1 DEF Restoring, Alive
    <2> QED
      BY <2>1, <2>2, BlocksFrame
  <1> QED
    BY <1>1, <1>2, <1>3, <1>4, <1>5, <1>6, <1>7, BlocksWork, BlocksMove DEF Next, Step, Stay

-----------------------------------------------------------------------------
(* What is stored and what is under way *)

(* For a process that is to store a snapshot its partner's part is there, even if
   one of the two is lost by now. *)
LEMMA Delivered ==
  ASSUME CommInv, PhaseInv, MailInv, KeptInv, NEW p \in ToSet(comm), pc[p] = "store"
  PROVE  /\ saved = comm /\ saved # <<>>
         /\ Partner(p) \in ToSet(comm) /\ Partner(p) \in Proc /\ p \in Proc
         /\ mail[<<Partner(p), p>>] \in Seq(Copy) /\ mail[<<Partner(p), p>>] # <<>>
         /\ \A g : Kept(g) => Head(mail[<<Partner(p), p>>]) = g[Me(Partner(p))]
  <1>1. Ring(comm) /\ comm # <<>>
    BY DEF CommInv, Ring
  <1>2. saved = comm
    <2>1. CASE p \in Alive
      BY <2>1 DEF PhaseInv
    <2>2. CASE p \notin Alive
      BY <2>2 DEF Alive, CommInv
    <2> QED
      BY <2>1, <2>2
  <1>3. Partner(p) \in ToSet(comm) /\ Partner(p) \in Proc /\ p \in Proc
    BY <1>1, MeFacts
  <1>4. mail[<<Partner(p), p>>] \in Seq(Copy)
    BY <1>3 DEF MailInv
  <1>5. \A g : Kept(g) => /\ mail[<<Partner(p), p>>] # <<>>
                          /\ Head(mail[<<Partner(p), p>>]) = g[Me(Partner(p))]
    BY DEF Kept
  <1> QED
    BY <1>1, <1>2, <1>3, <1>4, <1>5 DEF KeptInv

LEMMA StoredInit == Init => StoredInv
  BY DEF Init, StoredInv

LEMMA StoredNext ==
  ASSUME CommInv, PhaseInv, BlocksInv, StoredInv, MailInv, KeptInv, [Next]_vars
  PROVE  StoredInv'
  <1>1. ASSUME NEW p \in Proc, Store(p)
        PROVE  StoredInv'
    <2>1. p \in Alive /\ pc[p] = "store" /\ p \in ToSet(comm) /\ Ring(comm)
      BY <1>1 DEF Store, Alive, CommInv
    <2>2. Head(mail[<<Partner(p), p>>]) \in Copy /\ Packed(p) \in Copy
      BY <2>1, Delivered DEF BlocksInv
    <2>3. Me(p) \in Ranks(First) /\ RecvFrom(comm, Me(p)) \in Ranks(First)
      <3>1. Me(p) \in Ranks(comm) /\ RecvFrom(comm, Me(p)) \in Ranks(comm)
        BY <2>1, MeFacts, PartnerFacts
      <3> QED
        BY <2>1, <3>1, BlockAssumption, CommAssumption DEF Ring, Ranks
    <2>4. /\ DOMAIN snapshot'[p] = DOMAIN snapshot[p] \cup {Me(p), RecvFrom(comm, Me(p))}
          /\ \A k \in DOMAIN snapshot'[p] :
               snapshot'[p][k] \in {Head(mail[<<Partner(p), p>>]), Packed(p), snapshot[p][k]}
          /\ \A k \in DOMAIN snapshot'[p] :
               k \notin DOMAIN snapshot[p] => snapshot'[p][k] \in {Head(mail[<<Partner(p), p>>]), Packed(p)}
      BY <1>1 DEF Store, StoredInv
    <2>5. \A q \in Proc \ {p} : snapshot'[q] = snapshot[q]
      BY <1>1 DEF Store, StoredInv
    <2>6. DOMAIN snapshot' = Proc
      BY <1>1 DEF Store, StoredInv
    <2> QED
      BY <2>2, <2>3, <2>4, <2>5, <2>6 DEF StoredInv
  <1>2. ASSUME NEW p \in Proc, Crash(p)
        PROVE  StoredInv'
    BY <1>2 DEF Crash, StoredInv
  <1>3. ASSUME NEW p \in Proc, Restore(p)
        PROVE  StoredInv'
    <2>1. PICK mine : snapshot' = [snapshot EXCEPT ![p] =
                        [k \in DOMAIN @ |-> IF k \in mine THEN [@[k] EXCEPT !.read = TRUE]
                                           ELSE @[k]]]
      BY <1>3 DEF Restore
    <2>2. /\ DOMAIN snapshot' = Proc /\ DOMAIN snapshot'[p] = DOMAIN snapshot[p]
          /\ \A q \in Proc \ {p} : snapshot'[q] = snapshot[q]
          /\ \A k \in DOMAIN snapshot[p] :
               snapshot'[p][k] \in {snapshot[p][k], [snapshot[p][k] EXCEPT !.read = TRUE]}
      BY <2>1 DEF StoredInv
    <2>3. \A k \in DOMAIN snapshot[p] : snapshot'[p][k] \in Copy
      <3> SUFFICES ASSUME NEW k \in DOMAIN snapshot[p]
                   PROVE  snapshot'[p][k] \in Copy
        OBVIOUS
      <3>1. snapshot[p][k] \in Copy
        BY DEF StoredInv
      <3> QED
        BY <2>2, <3>1 DEF Copy
    <2> QED
      BY <2>2, <2>3 DEF StoredInv
  <1>4. CASE UNCHANGED snapshot
    BY <1>4 DEF StoredInv
  <1> QED
    BY <1>1, <1>2, <1>3, <1>4
    DEF Next, Step, Work, Move, Send, Receive, Fail, Barrier, Restart, Resume, Stay, vars

LEMMA MailInit == Init => MailInv
  <1> SUFFICES ASSUME Init
               PROVE  MailInv
    OBVIOUS
  <1>1. \A c \in Proc \X Proc : mail[c] = <<>>
    BY DEF Init
  <1>2. mail \in [Proc \X Proc -> Seq(Copy)]
    BY <1>1 DEF Init
  <1>3. ASSUME NEW p \in ToSet(comm), NEW q \in ToSet(comm)
        PROVE  /\ Len(mail[<<p, q>>]) = 0 /\ p \in Proc /\ pc[p] = "snap"
               /\ Waits(q) + Sent(p) >= 0
    <2>1. p \in Proc /\ q \in Proc
      BY CommInit, MeFacts DEF CommInv
    <2> QED
      BY <1>1, <2>1 DEF Init, Waits, Sent
  <1> QED
    BY <1>1, <1>2, <1>3 DEF MailInv

LEMMA MailFrame ==
  ASSUME CommInv, MailInv, UNCHANGED <<comm, mail>>,
         \A q \in ToSet(comm) :
           /\ Waits(q)' = Waits(q) /\ Sent(q) <= Sent(q)'
           /\ q \in Alive' /\ pc'[q] \in {"exchange", "barrier"} =>
                q \in Alive /\ pc[q] \in {"exchange", "barrier"} /\ Packed(q)' = Packed(q)
  PROVE  MailInv'
  <1>1. \A p : To(p)' = To(p)
    BY DEF To, SendTo, Me, RankIn
  <1>2. ASSUME NEW p \in ToSet(comm), NEW q \in ToSet(comm), q = To(p)
        PROVE  LET m == mail[<<p, q>>] IN
               /\ Len(m) <= Waits(q)' + Sent(p)'
               /\ p \in Alive' /\ pc'[p] \in {"exchange", "barrier"} =>
                    Len(m) = Waits(q)' + 1 /\ m[Len(m)] = Packed(p)'
    <2>1. p \in Proc /\ q \in Proc
      BY MeFacts DEF CommInv
    <2>2. Len(mail[<<p, q>>]) \in Nat
      BY <2>1 DEF MailInv
    <2>3. Waits(q)' = Waits(q) /\ Waits(q) \in Nat
      BY DEF Waits
    <2>4. Sent(p) <= Sent(p)' /\ Sent(p) \in Nat /\ Sent(p)' \in Nat
      BY DEF Sent
    <2>5. Len(mail[<<p, q>>]) <= Waits(q)' + Sent(p)'
      <3>1. Len(mail[<<p, q>>]) <= Waits(q) + Sent(p)
        BY <1>2 DEF MailInv
      <3> QED
        BY <2>2, <2>3, <2>4, <3>1
    <2>6. p \in Alive' /\ pc'[p] \in {"exchange", "barrier"} =>
            /\ Len(mail[<<p, q>>]) = Waits(q)' + 1
            /\ mail[<<p, q>>][Len(mail[<<p, q>>])] = Packed(p)'
      BY <1>2, <2>3 DEF MailInv
    <2> QED
      BY <2>5, <2>6
  <1> QED
    BY <1>1, <1>2 DEF MailInv

LEMMA MailStep ==
  ASSUME comm' = comm, mail' \in [Proc \X Proc -> Seq(Copy)],
         \A x, y \in Proc : mail'[<<x, y>>] # <<>> => x \in ToSet(comm) /\ y = To(x),
         \A x, y \in ToSet(comm) : y = To(x) =>
           /\ Len(mail'[<<x, y>>]) <= Waits(y)' + Sent(x)'
           /\ x \in Alive' /\ pc'[x] \in {"exchange", "barrier"} =>
                /\ Len(mail'[<<x, y>>]) = Waits(y)' + 1
                /\ mail'[<<x, y>>][Len(mail'[<<x, y>>])] = Packed(x)'
  PROVE  MailInv'
  <1>1. \A x : To(x)' = To(x)
    BY DEF To, SendTo, Me, RankIn
  <1> QED
    BY <1>1 DEF MailInv

LEMMA MailSend ==
  ASSUME CommInv, PhaseInv, BlocksInv, MailInv, KeptInv, NEW p \in Proc, Send(p)
  PROVE  MailInv'
  <1>1. /\ p \in Alive /\ pc[p] = "snap" /\ pc' = [pc EXCEPT ![p] = "exchange"]
        /\ mail' = [mail EXCEPT ![<<p, To(p)>>] = Append(@, Packed(p))]
        /\ UNCHANGED <<comm, dead, blocks, hood>>
    BY DEF Send, state, To
  <1>2. /\ \A x : To(x)' = To(x) /\ Packed(x)' = Packed(x)
        /\ Alive' = Alive /\ p \in ToSet(comm) /\ Ring(comm)
    BY <1>1 DEF To, SendTo, Me, RankIn, Packed, Alive, CommInv
  <1>3. PICK t \in ToSet(comm) : t = To(p) /\ t \in Proc
    BY <1>2, MeFacts
  <1>4. \A x \in Proc : x # p => pc'[x] = pc[x] /\ pc'[p] = "exchange"
    BY <1>1 DEF PhaseInv
  <1>5. \A x \in Proc : Waits(x)' = Waits(x) /\ Waits(x) \in {0, 1}
    BY <1>1, <1>4 DEF Waits, PhaseInv
  <1>6. \A x \in Proc : Sent(x)' >= Sent(x) /\ Sent(p) = 0 /\ Sent(p)' = 1
                         /\ Sent(x) \in {0, 1} /\ Sent(x)' \in {0, 1}
    BY <1>1, <1>4 DEF Sent, PhaseInv
  <1>7. Packed(p) \in Copy
    BY <1>1 DEF BlocksInv
  <1> DEFINE m == mail[<<p, t>>]
  <1>8. m \in Seq(Copy) /\ Len(m) = Waits(t)
    <2>1. m \in Seq(Copy)
      BY <1>3 DEF MailInv
    <2>2. Len(m) <= Waits(t)
      <3>1. Len(m) <= Waits(t) + Sent(p)
        BY <1>2, <1>3 DEF MailInv
      <3> QED
        BY <1>3, <1>5, <1>6, <2>1, <3>1
    <2>3. pc[t] = "store" => m # <<>>
      <3>1. Partner(t) = p
        BY <1>2, <1>3, MeFacts
      <3> QED
        BY <1>3, <3>1, Delivered
    <2> QED
      BY <2>1, <2>2, <2>3 DEF Waits
  <1>9. /\ mail' \in [Proc \X Proc -> Seq(Copy)]
        /\ mail'[<<p, t>>] = Append(m, Packed(p))
        /\ \A x, y \in Proc : x # p \/ y # t => mail'[<<x, y>>] = mail[<<x, y>>]
    BY <1>1, <1>3, <1>7 DEF MailInv
  <1> HIDE DEF m
  <1>10. Len(mail'[<<p, t>>]) = Waits(t) + 1 /\ mail'[<<p, t>>][Waits(t) + 1] = Packed(p)
    BY <1>7, <1>8, <1>9
  <1>11. ASSUME NEW x \in ToSet(comm), NEW y \in ToSet(comm), y = To(x)
         PROVE  /\ Len(mail'[<<x, y>>]) <= Waits(y)' + Sent(x)'
                /\ x \in Alive' /\ pc'[x] \in {"exchange", "barrier"} =>
                     /\ Len(mail'[<<x, y>>]) = Waits(y)' + 1
                     /\ mail'[<<x, y>>][Len(mail'[<<x, y>>])] = Packed(x)'
    <2>1. x \in Proc /\ y \in Proc
      BY <1>2, MeFacts
    <2>2. CASE x = p
      BY <1>2, <1>3, <1>5, <1>6, <1>10, <1>11, <2>1, <2>2
    <2>3. CASE x # p
      <3>1. mail'[<<x, y>>] = mail[<<x, y>>] /\ pc'[x] = pc[x]
        BY <1>4, <1>9, <2>1, <2>3
      <3>2. Waits(y)' = Waits(y) /\ Sent(x)' = Sent(x)
        BY <1>5, <2>1, <3>1 DEF Sent
      <3> QED
        BY <1>2, <1>11, <3>1, <3>2 DEF MailInv
    <2> QED
      BY <2>2, <2>3
  <1>12. ASSUME NEW x \in Proc, NEW y \in Proc, mail'[<<x, y>>] # <<>>
         PROVE  x \in ToSet(comm) /\ y = To(x)
    BY <1>2, <1>3, <1>9, <1>12 DEF MailInv
  <1> QED
    BY <1>1, <1>9, <1>11, <1>12, MailStep

(* Storing takes the older message, the partner's next one stays. *)
LEMMA MailStore ==
  ASSUME CommInv, PhaseInv, MailInv, KeptInv, NEW p \in Proc, Store(p)
  PROVE  MailInv'
  <1>1. /\ p \in Alive /\ pc[p] = "store" /\ pc' = [pc EXCEPT ![p] = "run"]
        /\ mail' = [mail EXCEPT ![<<Partner(p), p>>] = Tail(@)]
        /\ UNCHANGED <<comm, dead, blocks, hood>>
    BY DEF Store, state
  <1>2. /\ \A x : To(x)' = To(x) /\ Packed(x)' = Packed(x)
        /\ Alive' = Alive /\ p \in ToSet(comm) /\ Ring(comm)
    BY <1>1 DEF To, SendTo, Me, RankIn, Packed, Alive, CommInv
  <1>3. PICK s \in ToSet(comm) : s = Partner(p) /\ s \in Proc
    BY <1>2, MeFacts
  <1> DEFINE m == mail[<<s, p>>]
  <1>4. m \in Seq(Copy) /\ m # <<>>
    BY <1>1, <1>2, <1>3, Delivered
  <1>5. \A x \in Proc : pc'[x] = IF x = p THEN "run" ELSE pc[x]
    BY <1>1 DEF PhaseInv
  <1>6. /\ mail' \in [Proc \X Proc -> Seq(Copy)]
        /\ mail'[<<s, p>>] = Tail(m)
        /\ \A x, y \in Proc : x # s \/ y # p => mail'[<<x, y>>] = mail[<<x, y>>]
    BY <1>1, <1>3, <1>4 DEF MailInv
  <1> HIDE DEF m
  <1>7. Len(Tail(m)) = Len(m) - 1 /\ Len(m) \in Nat /\ Len(m) > 0
        /\ (Len(m) > 1 => Tail(m)[Len(m) - 1] = m[Len(m)])
    BY <1>4
  <1>8. ASSUME NEW x \in ToSet(comm), NEW y \in ToSet(comm), y = To(x)
        PROVE  /\ Len(mail'[<<x, y>>]) <= Waits(y)' + Sent(x)'
               /\ x \in Alive' /\ pc'[x] \in {"exchange", "barrier"} =>
                    /\ Len(mail'[<<x, y>>]) = Waits(y)' + 1
                    /\ mail'[<<x, y>>][Len(mail'[<<x, y>>])] = Packed(x)'
    <2>1. x \in Proc /\ y \in Proc
      BY <1>2, MeFacts
    <2>2. Sent(x)' = Sent(x) /\ (x # p => pc'[x] = pc[x])
      BY <1>1, <1>5, <2>1 DEF Sent
    <2>3. CASE y = p
      <3>1. x = s
        BY <1>2, <1>3, <1>8, <2>3, MeFacts
      <3>2. Waits(p) = 1 /\ Waits(p)' = 0
        BY <1>1, <1>5 DEF Waits
      <3>3. Sent(x) \in {0, 1}
        BY DEF Sent
      <3>4. Len(m) <= Waits(p) + Sent(x)
        BY <1>8, <2>3, <3>1 DEF MailInv, m
      <3>5. x \in Alive /\ pc'[x] \in {"exchange", "barrier"} =>
              Len(m) = Waits(p) + 1 /\ m[Len(m)] = Packed(x)
        <4>1. pc'[x] \in {"exchange", "barrier"} => pc[x] \in {"exchange", "barrier"}
          BY <1>5, <2>1
        <4>2. mail[<<x, y>>] = m
          BY <2>3, <3>1 DEF m
        <4>3. x \in Alive /\ pc[x] \in {"exchange", "barrier"} =>
                /\ Len(mail[<<x, y>>]) = Waits(y) + 1
                /\ mail[<<x, y>>][Len(mail[<<x, y>>])] = Packed(x)
          BY <1>8 DEF MailInv
        <4> QED
          BY <1>2, <2>3, <4>1, <4>2, <4>3
      <3> QED
        <4>1. mail'[<<x, y>>] = Tail(m)
          BY <1>6, <2>3, <3>1
        <4>2. Len(Tail(m)) <= Waits(p)' + Sent(x)'
          BY <1>7, <2>2, <3>2, <3>3, <3>4
        <4>3. x \in Alive' /\ pc'[x] \in {"exchange", "barrier"} =>
                /\ Len(Tail(m)) = Waits(p)' + 1
                /\ Tail(m)[Len(Tail(m))] = Packed(x)'
          <5> SUFFICES ASSUME x \in Alive', pc'[x] \in {"exchange", "barrier"}
                       PROVE  /\ Len(Tail(m)) = Waits(p)' + 1
                              /\ Tail(m)[Len(Tail(m))] = Packed(x)'
            OBVIOUS
          <5>1. Len(m) = 2 /\ m[2] = Packed(x)
            BY <1>2, <3>2, <3>5
          <5>2. Len(Tail(m)) = 1 /\ Tail(m)[1] = m[2]
            BY <1>7, <5>1
          <5>3. Packed(x)' = Packed(x)
            BY <1>2
          <5>4. Len(Tail(m)) = Waits(p)' + 1
            BY <3>2, <5>2
          <5>5. Tail(m)[Len(Tail(m))] = Packed(x)'
            BY <5>1, <5>2, <5>3
          <5> QED
            BY <5>4, <5>5
        <4> QED
          BY <2>3, <4>1, <4>2, <4>3
    <2>4. CASE y # p
      <3>1. mail'[<<x, y>>] = mail[<<x, y>>] /\ Waits(y)' = Waits(y)
        BY <1>5, <1>6, <2>1, <2>4 DEF Waits
      <3>2. pc'[x] \in {"exchange", "barrier"} => pc[x] \in {"exchange", "barrier"}
        BY <1>5, <2>1
      <3> QED
        BY <1>2, <1>8, <2>2, <3>1, <3>2 DEF MailInv
    <2> QED
      BY <2>3, <2>4
  <1>9. ASSUME NEW x \in Proc, NEW y \in Proc, mail'[<<x, y>>] # <<>>
        PROVE  x \in ToSet(comm) /\ y = To(x)
    <2>1. mail[<<x, y>>] # <<>>
      BY <1>4, <1>6, <1>9 DEF m
    <2> QED
      BY <2>1 DEF MailInv
  <1> QED
    BY <1>1, <1>6, <1>8, <1>9, MailStep

(* At the barrier exactly the messages of this snapshot are under way. *)
LEMMA MailBarrier ==
  ASSUME CommInv, PhaseInv, MailInv, Barrier
  PROVE  /\ MailInv'
         /\ \A p \in ToSet(comm) : /\ mail[<<Partner(p), p>>] # <<>>
                                   /\ Head(mail[<<Partner(p), p>>]) = Packed(Partner(p))
  <1>1. /\ UNCHANGED <<comm, dead, mail, blocks, hood>>
        /\ dead = {} /\ Alive = ToSet(comm)
        /\ \A p \in Alive : pc[p] = "barrier"
    BY DEF Barrier, state, Alive
  <1>2. /\ Ring(comm) /\ \A p \in ToSet(comm) : p \in Proc
        /\ \A x : To(x)' = To(x) /\ Packed(x)' = Packed(x)
        /\ Alive' = Alive
    BY <1>1, AliveIn DEF CommInv, To, SendTo, Me, RankIn, Packed, Alive
  <1>3. \A p \in ToSet(comm) : pc'[p] = "store"
    BY <1>1, <1>2 DEF Barrier
  <1>4. ASSUME NEW p \in ToSet(comm), NEW q \in ToSet(comm), q = To(p)
        PROVE  /\ mail[<<p, q>>] \in Seq(Copy) /\ Len(mail[<<p, q>>]) = 1
               /\ mail[<<p, q>>][1] = Packed(p)
    <2>1. Waits(q) = 0
      BY <1>1 DEF Waits
    <2>2. mail[<<p, q>>] \in Seq(Copy)
      BY <1>2 DEF MailInv
    <2>3. /\ Len(mail[<<p, q>>]) = Waits(q) + 1
          /\ mail[<<p, q>>][Len(mail[<<p, q>>])] = Packed(p)
      BY <1>1, <1>4 DEF MailInv
    <2> QED
      BY <2>1, <2>2, <2>3
  <1>5. \A p \in ToSet(comm) : Waits(p)' = 1 /\ Sent(p)' = 0
    BY <1>3 DEF Waits, Sent
  <1>6. MailInv'
    BY <1>1, <1>2, <1>3, <1>4, <1>5 DEF MailInv
  <1>7. ASSUME NEW p \in ToSet(comm)
        PROVE  /\ mail[<<Partner(p), p>>] # <<>>
               /\ Head(mail[<<Partner(p), p>>]) = Packed(Partner(p))
    <2>1. Partner(p) \in ToSet(comm) /\ p = To(Partner(p))
      BY <1>2, MeFacts
    <2> QED
      BY <1>4, <2>1
  <1> QED
    BY <1>6, <1>7

LEMMA MailNext ==
  ASSUME CommInv, PhaseInv, BlocksInv, MailInv, KeptInv, [Next]_vars
  PROVE  MailInv'
  <1>a. ToSet(comm) \subseteq Proc /\ Alive \subseteq ToSet(comm)
    BY MeFacts DEF CommInv, Alive
  <1>1. ASSUME NEW p \in Proc, Work(p) \/ Receive(p) \/ Fail(p) \/ Restore(p)
        PROVE  MailInv'
    <2>1. /\ UNCHANGED <<comm, dead, mail>> /\ p \in Alive
          /\ \A q \in Proc \ {p} : blocks'[q] = blocks[q] /\ hood'[q] = hood[q]
      BY <1>1 DEF Work, Receive, Fail, Restore, state, BlocksInv
    <2> DEFINE to == pc'[p]
    <2>2. /\ pc' = [pc EXCEPT ![p] = to] /\ to # "store" /\ pc[p] \notin {"store", "failed"}
          /\ pc[p] \in {"exchange", "barrier"} => to \in {"barrier", "failed"}
          /\ to \in {"exchange", "barrier"} => pc[p] = "exchange" /\ Packed(p)' = Packed(p)
      <3>1. CASE Work(p)
        BY <3>1 DEF Work, PhaseInv
      <3>2. CASE Receive(p)
        BY <3>2 DEF Receive, PhaseInv, state, Packed
      <3>3. CASE Fail(p)
        BY <3>3 DEF Fail, PhaseInv
      <3>4. CASE Restore(p)
        BY <3>4 DEF Restore, PhaseInv
      <3> QED
        BY <1>1, <3>1, <3>2, <3>3, <3>4
    <2> HIDE DEF to
    <2>3. \A q \in Proc : pc'[q] = IF q = p THEN to ELSE pc[q]
      BY <2>2 DEF PhaseInv
    <2>4. ASSUME NEW q \in ToSet(comm)
          PROVE  /\ Waits(q)' = Waits(q) /\ Sent(q) <= Sent(q)'
                 /\ q \in Alive' /\ pc'[q] \in {"exchange", "barrier"} =>
                      q \in Alive /\ pc[q] \in {"exchange", "barrier"} /\ Packed(q)' = Packed(q)
      <3>1. Waits(q)' = Waits(q) /\ Sent(q) <= Sent(q)'
        BY <1>a, <2>2, <2>3 DEF Waits, Sent
      <3>2. Alive' = Alive
        BY <2>1 DEF Alive
      <3>3. CASE q = p
        BY <1>a, <2>1, <2>2, <2>3, <3>1, <3>2, <3>3
      <3>4. CASE q # p
        BY <1>a, <2>1, <2>3, <3>1, <3>2, <3>4 DEF Packed
      <3> QED
        BY <3>3, <3>4
    <2> QED
      BY <2>1, <2>4, MailFrame
  <1>2. ASSUME NEW b \in Block, NEW r \in 0..(Len(comm) - 1), Move(b, r)
        PROVE  MailInv'
    <2>1. /\ UNCHANGED <<comm, dead, mail, pc>> /\ \A p \in Alive : pc[p] = "run"
      BY <1>2 DEF Move
    <2>2. \A q : Waits(q)' = Waits(q) /\ Sent(q) <= Sent(q)'
      BY <2>1 DEF Waits, Sent
    <2>3. Alive' = Alive
      BY <2>1 DEF Alive
    <2> QED
      BY <2>1, <2>2, <2>3, MailFrame
  <1>3. ASSUME NEW p \in Proc, Crash(p)
        PROVE  MailInv'
    <2>1. UNCHANGED <<comm, mail, pc, hood>> /\ Alive' = Alive \ {p}
      BY <1>3 DEF Crash, Alive
    <2>2. \A q : Waits(q)' = Waits(q) /\ Sent(q) <= Sent(q)'
      BY <2>1 DEF Waits, Sent
    <2>3. \A q \in Alive' : Packed(q)' = Packed(q)
      BY <1>3, <1>a, <2>1 DEF Crash, BlocksInv, Packed
    <2> QED
      BY <2>1, <2>2, <2>3, MailFrame
  <1>4. CASE Restart
    <2>1. /\ \A c \in Proc \X Proc : mail'[c] = <<>>
          /\ mail' \in [Proc \X Proc -> Seq(Copy)]
      BY <1>4 DEF Restart
    <2>2. Ring(comm') /\ ToSet(comm') = Alive /\ Alive' = Alive
      BY <1>4, Shrunk
    <2>3. \A p \in Alive : pc'[p] = "restore"
      BY <1>4, <1>a DEF Restart
    <2>4. \A p, q \in ToSet(comm') : /\ Len(mail'[<<p, q>>]) = 0
                                      /\ Waits(q)' = 0 /\ Sent(p)' = 0
                                      /\ pc'[p] = "restore"
      BY <1>a, <2>1, <2>2, <2>3 DEF Waits, Sent
    <2>5. \A p, q \in Proc : mail'[<<p, q>>] = <<>>
      BY <2>1
    <2> QED
      BY <2>1, <2>4, <2>5 DEF MailInv
  <1>5. CASE Resume
    <2>1. /\ UNCHANGED <<comm, dead, mail>> /\ dead = {}
          /\ \A p \in Alive : pc[p] = "restored"
          /\ \A p \in Alive : pc'[p] = "run"
      BY <1>5, <1>a DEF Resume, Restored
    <2>2. Alive = ToSet(comm)
      BY <2>1 DEF Alive
    <2>3. \A q \in ToSet(comm) : /\ Waits(q)' = Waits(q) /\ Sent(q) <= Sent(q)'
                                 /\ pc'[q] \notin {"exchange", "barrier"}
      BY <2>1, <2>2 DEF Waits, Sent
    <2> QED
      BY <2>1, <2>3, MailFrame
  <1>6. CASE UNCHANGED vars
    <2>1. UNCHANGED <<comm, dead, mail, pc, blocks, hood>>
      BY <1>6 DEF vars, state
    <2>2. /\ Alive' = Alive
          /\ \A q : Waits(q)' = Waits(q) /\ Sent(q) <= Sent(q)' /\ Packed(q)' = Packed(q)
      BY <2>1 DEF Alive, Waits, Sent, Packed
    <2> QED
      BY <2>1, <2>2, MailFrame
  <1> QED
    BY <1>1, <1>2, <1>3, <1>4, <1>5, <1>6, MailSend, MailStore, MailBarrier DEF Next, Step, Stay

-----------------------------------------------------------------------------
(* The snapshot completed last is kept. *)

(* What a step has to leave of the snapshot g *)
LEMMA KeptStep ==
  ASSUME NEW g, Kept(g), UNCHANGED <<saved, savedTime>>,
         \A p \in Alive' :
           (saved = comm' /\ pc'[p] # "store") \/ pc'[p] = "restore" => Holds(p, g)',
         \A p \in Alive' : pc'[p] = "restored" => Back(p, g)',
         \A p \in ToSet(comm') : pc'[p] = "store" =>
           LET m == mail'[<<Partner(p)', p>>] IN
           /\ p \in Alive' => Packed(p)' = g[Me(p)']
           /\ m # <<>> /\ Head(m) = g[Me(Partner(p))']
  PROVE  Kept(g)'
  BY DEF Kept, Ranks

LEMMA HoldsFrame ==
  ASSUME NEW g, NEW p, Holds(p, g), saved' = saved, snapshot'[p] = snapshot[p]
  PROVE  Holds(p, g)'
  BY DEF Holds, RankIn, RecvFrom

LEMMA BackFrame ==
  ASSUME NEW g, NEW p, Back(p, g), UNCHANGED <<comm, saved>>,
         blocks'[p] = blocks[p], hood'[p] = hood[p]
  PROVE  Back(p, g)'
  <1>1. Mine(p)' = Mine(p) /\ \A k : ProcessMapping(k)' = ProcessMapping(k)
    BY DEF Mine, ProcessMapping, Me, SendTo, RankIn, Ranks
  <1> QED
    BY <1>1 DEF Back

(* Steps that store nothing and restore nothing *)
LEMMA KeptFrame ==
  ASSUME NEW g, Kept(g), UNCHANGED <<comm, saved, savedTime>>, Alive' \subseteq Alive,
         \A p \in Alive' :
           /\ snapshot'[p] = snapshot[p]
           /\ saved = comm /\ pc'[p] # "store" => pc[p] # "store"
           /\ pc'[p] = "restore" => pc[p] = "restore"
           /\ pc'[p] = "restored" =>
                pc[p] = "restored" /\ blocks'[p] = blocks[p] /\ hood'[p] = hood[p],
         \A p \in ToSet(comm) : pc'[p] = "store" =>
           LET m == mail[<<Partner(p), p>>]
               n == mail'[<<Partner(p), p>>]
           IN  /\ pc[p] = "store"
               /\ p \in Alive' => Packed(p)' = Packed(p)
               /\ m # <<>> => n # <<>> /\ Head(n) = Head(m)
  PROVE  Kept(g)'
  <1>1. ASSUME NEW p \in Alive', (saved = comm' /\ pc'[p] # "store") \/ pc'[p] = "restore"
        PROVE  Holds(p, g)'
    <2>1. Holds(p, g)
      BY <1>1 DEF Kept
    <2> QED
      BY <2>1, HoldsFrame
  <1>2. ASSUME NEW p \in Alive', pc'[p] = "restored"
        PROVE  Back(p, g)'
    <2>1. Back(p, g)
      BY <1>2 DEF Kept
    <2> QED
      BY <1>2, <2>1, BackFrame
  <1>3. \A x : Partner(x)' = Partner(x) /\ Me(x)' = Me(x) /\ Me(Partner(x))' = Me(Partner(x))
    BY DEF Partner, RecvFrom, Me, RankIn
  <1>4. ASSUME NEW p \in ToSet(comm), pc'[p] = "store"
        PROVE  LET m == mail'[<<Partner(p)', p>>] IN
               /\ p \in Alive' => Packed(p)' = g[Me(p)']
               /\ m # <<>> /\ Head(m) = g[Me(Partner(p))']
    BY <1>3, <1>4 DEF Kept
  <1> QED
    BY <1>1, <1>2, <1>4, KeptStep

(* When the barrier ends, what the processes have packed is the snapshot. *)
LEMMA KeptBarrier ==
  ASSUME CommInv, PhaseInv, BlocksInv, MailInv, Barrier
  PROVE  KeptInv'
  <1>1. /\ UNCHANGED <<comm, dead, mail, blocks, hood>> /\ saved' = comm
        /\ dead = {} /\ Alive = ToSet(comm) /\ Alive' = Alive
        /\ \A p \in Alive : pc[p] = "barrier"
    BY DEF Barrier, state, Alive
  <1>2. Ring(comm) /\ \A p \in Alive : p \in Proc
    BY AliveIn DEF CommInv
  <1>3. \A p \in Alive : pc'[p] = "store" /\ pc[p] # "restore"
    BY <1>1, <1>2 DEF Barrier
  <1>4. \A p \in Alive : time[p] = savedTime'
    BY <1>1 DEF Barrier, PhaseInv
  <1> DEFINE g == View
  <1>5. ASSUME NEW k \in Ranks(comm)
        PROVE  g[k] \in Copy /\ ~g[k].read /\ Fits(g[k], Len(comm), savedTime')
    <2>1. comm[k + 1] \in Alive
      BY <1>1, <1>2, RankOfMember
    <2>2. g[k] = Packed(comm[k + 1])
      BY DEF View
    <2>3. ~Packed(comm[k + 1]).read
      BY DEF Packed
    <2>4. Packed(comm[k + 1]) \in Copy /\ Fits(Packed(comm[k + 1]), Len(comm), savedTime')
      BY <1>3, <1>4, <2>1 DEF BlocksInv
    <2> QED
      BY <2>2, <2>3, <2>4
  <1>6. Whole(g, Len(comm))
    BY <1>1 DEF BlocksInv, Restoring
  <1>7. ASSUME NEW p \in ToSet(comm)
        PROVE  LET m == mail[<<Partner(p), p>>] IN
               /\ Packed(p) = g[Me(p)] /\ m # <<>> /\ Head(m) = g[Me(Partner(p))]
    <2>1. Partner(p) \in ToSet(comm)
      BY <1>2, MeFacts
    <2>2. g[Me(p)] = Packed(p) /\ g[Me(Partner(p))] = Packed(Partner(p))
      BY <1>2, <2>1, ViewFacts
    <2> QED
      BY <2>2, MailBarrier
  <1> HIDE DEF g
  <1>8. PICK h : h = g
    OBVIOUS
  <1>9. \A x : /\ Partner(x)' = Partner(x) /\ Me(x)' = Me(x)
               /\ Me(Partner(x))' = Me(Partner(x)) /\ Packed(x)' = Packed(x)
    BY <1>1 DEF Partner, RecvFrom, Me, RankIn, Packed
  <1>10. Kept(h)'
    BY <1>1, <1>3, <1>5, <1>6, <1>7, <1>8, <1>9 DEF Kept, Ranks
  <1> QED
    BY <1>10 DEF KeptInv

(* Storing moves a process's parts of the snapshot to snapshot_. *)
LEMMA KeptStore ==
  ASSUME CommInv, PhaseInv, StoredInv, MailInv, KeptInv, NEW p \in Proc, Store(p), NEW g, Kept(g)
  PROVE  Kept(g)'
  <1>1. /\ p \in Alive /\ pc[p] = "store" /\ pc' = [pc EXCEPT ![p] = "run"]
        /\ mail' = [mail EXCEPT ![<<Partner(p), p>>] = Tail(@)]
        /\ UNCHANGED <<comm, dead, blocks, hood, saved, savedTime>> /\ Alive' = Alive
    BY DEF Store, state, history, Alive
  <1>2. /\ Ring(comm) /\ p \in ToSet(comm) /\ Alive \subseteq Proc /\ Alive \subseteq ToSet(comm)
        /\ ToSet(comm) \subseteq Proc
    BY <1>1, AliveIn, MeFacts DEF CommInv, Alive
  <1>3. saved = comm /\ Head(mail[<<Partner(p), p>>]) = g[Me(Partner(p))]
    BY <1>1, <1>2, Delivered
  <1>4. Packed(p) = g[Me(p)] /\ Me(Partner(p)) = RecvFrom(comm, Me(p))
    BY <1>1, <1>2, MeFacts DEF Kept
  <1>5. \A x \in Proc : pc'[x] = IF x = p THEN "run" ELSE pc[x]
    BY <1>1 DEF PhaseInv
  <1>6. /\ \A x \in Proc \ {p} : snapshot'[x] = snapshot[x]
        /\ \A l \in {Me(p), RecvFrom(comm, Me(p))} :
             l \in DOMAIN snapshot'[p] /\ snapshot'[p][l] = g[l]
    <2> DEFINE r == RecvFrom(comm, Me(p))
               head == Head(mail[<<Partner(p), p>>])
    <2>1. snapshot' = [snapshot EXCEPT ![p] =
             [k \in DOMAIN @ \cup {Me(p), r} |->
                IF k = r THEN head ELSE IF k = Me(p) THEN Packed(p) ELSE @[k]]]
      BY DEF Store
    <2>2. head = g[r] /\ Packed(p) = g[Me(p)]
      BY <1>3, <1>4
    <2>3. r = RecvFrom(comm, Me(p))
      OBVIOUS
    <2> HIDE DEF r, head
    <2>4. \A x \in Proc \ {p} : snapshot'[x] = snapshot[x]
      BY <2>1 DEF StoredInv
    <2>5. snapshot'[p] = [k \in DOMAIN snapshot[p] \cup {Me(p), r} |->
                            IF k = r THEN head ELSE IF k = Me(p) THEN Packed(p) ELSE snapshot[p][k]]
      BY <2>1 DEF StoredInv
    <2>6. r \in DOMAIN snapshot'[p] /\ snapshot'[p][r] = head
      BY <2>5
    <2>7. Me(p) \in DOMAIN snapshot'[p] /\ (Me(p) # r => snapshot'[p][Me(p)] = Packed(p))
      BY <2>5
    <2> QED
      BY <2>2, <2>3, <2>4, <2>6, <2>7
  <1>7. ASSUME NEW q \in Alive, (saved = comm /\ pc'[q] # "store") \/ pc'[q] = "restore"
        PROVE  Holds(q, g)'
    <2>1. CASE q = p
      <3>1. RankIn(saved, p)' = Me(p) /\ RecvFrom(saved, RankIn(saved, p))' = RecvFrom(comm, Me(p))
        BY <1>1, <1>3 DEF Me, RankIn, RecvFrom
      <3> QED
        BY <1>6, <2>1, <3>1 DEF Holds
    <2>2. CASE q # p
      <3>1. Holds(q, g)
        BY <1>2, <1>5, <1>7, <2>2 DEF Kept
      <3> QED
        BY <1>1, <1>2, <1>6, <2>2, <3>1, HoldsFrame
    <2> QED
      BY <2>1, <2>2
  <1>8. ASSUME NEW q \in Alive, pc'[q] = "restored"
        PROVE  Back(q, g)'
    <2>1. Back(q, g)
      BY <1>2, <1>5, <1>8 DEF Kept
    <2> QED
      BY <1>1, <2>1, BackFrame
  <1>9. \A x : /\ Partner(x)' = Partner(x) /\ Me(x)' = Me(x)
               /\ Me(Partner(x))' = Me(Partner(x)) /\ Packed(x)' = Packed(x)
    BY <1>1 DEF Partner, RecvFrom, Me, RankIn, Packed
  <1>10. ASSUME NEW q \in ToSet(comm), pc'[q] = "store"
         PROVE  LET m == mail'[<<Partner(q)', q>>] IN
                /\ q \in Alive => Packed(q)' = g[Me(q)']
                /\ m # <<>> /\ Head(m) = g[Me(Partner(q))']
    <2>1. q # p /\ pc[q] = "store"
      BY <1>2, <1>5, <1>10
    <2>2. mail'[<<Partner(q), q>>] = mail[<<Partner(q), q>>]
      <3>1. Partner(q) \in Proc /\ q \in Proc
        BY <1>2, MeFacts
      <3> QED
        BY <1>1, <2>1, <3>1 DEF MailInv
    <2> QED
      BY <1>9, <2>1, <2>2 DEF Kept
  <1> QED
    BY <1>1, <1>7, <1>8, <1>10, KeptStep

LEMMA KeptRestore ==
  ASSUME CommInv, PhaseInv, BlocksInv, StoredInv, NEW p \in Proc, Restore(p), NEW g, Kept(g)
  PROVE  Kept(g)'
  <1>1. /\ p \in Alive /\ pc[p] = "restore" /\ pc' = [pc EXCEPT ![p] = "restored"]
        /\ UNCHANGED <<comm, dead, mail, saved, savedTime>> /\ Alive' = Alive
    BY DEF Restore, history, Alive
  <1>2. saved # comm /\ dead = {} /\ \A q \in Alive : pc[q] \in {"restore", "restored"}
    BY <1>1 DEF PhaseInv, CommInv, Restoring
  <1>3. Alive = ToSet(comm) /\ Alive \subseteq Proc
    BY <1>2, AliveIn DEF Alive
  <1>4. \A q \in Proc : pc'[q] = IF q = p THEN "restored" ELSE pc[q]
    BY <1>1 DEF PhaseInv
  <1>5. \A q \in Proc \ {p} : /\ snapshot'[q] = snapshot[q]
                              /\ blocks'[q] = blocks[q] /\ hood'[q] = hood[q]
    BY DEF Restore, StoredInv, BlocksInv
  <1>6. ASSUME NEW q \in Alive, pc'[q] = "restore"
        PROVE  Holds(q, g)'
    <2>1. q # p /\ Holds(q, g)
      BY <1>3, <1>4, <1>6 DEF Kept
    <2> QED
      BY <1>1, <1>3, <1>5, <2>1, HoldsFrame
  <1>7. ASSUME NEW q \in Alive, pc'[q] = "restored"
        PROVE  Back(q, g)'
    <2>1. CASE q = p
      BY <2>1, RestoreBack
    <2>2. CASE q # p
      <3>1. Back(q, g)
        BY <1>3, <1>4, <1>7, <2>2 DEF Kept
      <3> QED
        BY <1>1, <1>3, <1>5, <2>2, <3>1, BackFrame
    <2> QED
      BY <2>1, <2>2
  <1>8. \A q \in ToSet(comm) : pc'[q] # "store"
    BY <1>2, <1>3, <1>4
  <1> QED
    BY <1>1, <1>2, <1>6, <1>7, <1>8, KeptStep

LEMMA KeptRestart ==
  ASSUME CommInv, PhaseInv, Restart, NEW g, Kept(g)
  PROVE  Kept(g)'
  <1>1. /\ dead # {} /\ \A p \in Alive : pc[p] = "failed"
        /\ UNCHANGED <<saved, savedTime, snapshot>>
    BY DEF Restart, state, history
  <1>2. saved = comm /\ Alive' = Alive /\ ToSet(comm') = Alive /\ Alive \subseteq Proc
    BY <1>1, AliveIn, Shrunk DEF CommInv
  <1>3. \A p \in Alive : pc'[p] = "restore"
    BY <1>2 DEF Restart
  <1>4. ASSUME NEW p \in Alive
        PROVE  Holds(p, g)'
    <2>1. Holds(p, g)
      BY <1>1, <1>2 DEF Kept
    <2> QED
      BY <1>1, <2>1, HoldsFrame
  <1> QED
    BY <1>1, <1>2, <1>3, <1>4, KeptStep

LEMMA KeptNext ==
  ASSUME CommInv, PhaseInv, BlocksInv, StoredInv, MailInv, KeptInv, [Next]_vars
  PROVE  KeptInv'
  <1>a. Ring(comm) /\ Alive \subseteq ToSet(comm) /\ ToSet(comm) \subseteq Proc
    BY MeFacts DEF CommInv, Alive
  <1> SUFFICES ASSUME ~Barrier, saved' # <<>>
               PROVE  KeptInv'
    BY KeptBarrier DEF KeptInv
  <1>b. saved' = saved
    BY DEF Next, Step, Work, Move, Send, Receive, Store, Crash, Fail, Restart, Restore, Resume,
           Stay, vars, history
  <1> SUFFICES ASSUME NEW g, Kept(g)
               PROVE  Kept(g)'
    BY <1>b DEF KeptInv
  <1>1. ASSUME NEW p \in Proc, Work(p) \/ Receive(p) \/ Fail(p)
        PROVE  Kept(g)'
    <2>1. /\ UNCHANGED <<comm, dead, mail, snapshot, saved, savedTime>> /\ p \in Alive
          /\ Alive' = Alive
          /\ \A q \in Proc \ {p} : blocks'[q] = blocks[q] /\ hood'[q] = hood[q]
      BY <1>1 DEF Work, Receive, Fail, state, history, BlocksInv, Alive
    <2> DEFINE to == pc'[p]
    <2>2. /\ pc' = [pc EXCEPT ![p] = to] /\ pc[p] # "store"
          /\ to \notin {"store", "restore", "restored"}
      <3>1. CASE Work(p)
        BY <3>1 DEF Work, PhaseInv
      <3>2. CASE Receive(p)
        BY <3>2 DEF Receive, PhaseInv
      <3>3. CASE Fail(p)
        BY <3>3 DEF Fail, PhaseInv
      <3> QED
        BY <1>1, <3>1, <3>2, <3>3
    <2> HIDE DEF to
    <2>3. \A q \in Proc : pc'[q] = IF q = p THEN to ELSE pc[q]
      BY <2>2 DEF PhaseInv
    <2>4. \A q \in Proc \ {p} : Packed(q)' = Packed(q)
      BY <2>1 DEF Packed
    <2> QED
      BY <1>a, <2>1, <2>2, <2>3, <2>4, KeptFrame
  <1>2. ASSUME NEW p \in Proc, Send(p)
        PROVE  Kept(g)'
    <2>1. /\ UNCHANGED <<comm, dead, blocks, hood, snapshot, saved, savedTime>>
          /\ p \in Alive /\ pc[p] = "snap" /\ pc' = [pc EXCEPT ![p] = "exchange"]
          /\ mail' = [mail EXCEPT ![<<p, To(p)>>] = Append(@, Packed(p))]
      BY <1>2 DEF Send, state, history, To
    <2>2. Alive' = Alive /\ \A q : Packed(q)' = Packed(q)
      BY <2>1 DEF Alive, Packed
    <2>3. \A q \in Proc : pc'[q] = IF q = p THEN "exchange" ELSE pc[q]
      BY <2>1 DEF PhaseInv
    <2>4. ASSUME NEW q \in ToSet(comm), mail[<<Partner(q), q>>] # <<>>
          PROVE  /\ mail'[<<Partner(q), q>>] # <<>>
                 /\ Head(mail'[<<Partner(q), q>>]) = Head(mail[<<Partner(q), q>>])
      <3>1. <<Partner(q), q>> \in Proc \X Proc
        BY <1>a, MeFacts
      <3>2. mail[<<Partner(q), q>>] \in Seq(Copy) /\ Packed(p) \in Copy
        BY <2>1, <3>1 DEF MailInv, BlocksInv
      <3>3. \/ mail'[<<Partner(q), q>>] = mail[<<Partner(q), q>>]
            \/ mail'[<<Partner(q), q>>] = Append(mail[<<Partner(q), q>>], Packed(p))
        BY <2>1, <3>1 DEF MailInv
      <3>4. \A m \in Seq(Copy) : \A c \in Copy :
              m # <<>> => Append(m, c) # <<>> /\ Head(Append(m, c)) = Head(m)
        OBVIOUS
      <3> QED
        BY <2>4, <3>2, <3>3, <3>4
    <2> QED
      BY <1>a, <2>1, <2>2, <2>3, <2>4, KeptFrame
  <1>3. ASSUME NEW p \in Proc, Crash(p)
        PROVE  Kept(g)'
    <2>1. /\ UNCHANGED <<comm, pc, hood, mail, saved, savedTime>> /\ Alive' = Alive \ {p}
          /\ \A q \in Proc \ {p} : blocks'[q] = blocks[q] /\ snapshot'[q] = snapshot[q]
      BY <1>3 DEF Crash, Alive, BlocksInv, StoredInv
    <2>2. \A q \in Proc \ {p} : Packed(q)' = Packed(q)
      BY <2>1 DEF Packed
    <2>3. Alive' \subseteq Alive /\ Alive' \subseteq Proc \ {p}
      BY <1>a, <2>1
    <2> QED
      BY <1>a, <2>1, <2>2, <2>3, KeptFrame
  <1>4. ASSUME NEW b \in Block, NEW r \in 0..(Len(comm) - 1), Move(b, r)
        PROVE  Kept(g)'
    <2>1. /\ UNCHANGED <<comm, dead, mail, snapshot, saved, savedTime, pc>>
          /\ Alive' = Alive /\ Alive = ToSet(comm)
          /\ \A p \in Alive : pc[p] = "run"
      BY <1>4 DEF Move, Alive
    <2> QED
      BY <2>1, KeptFrame
  <1>5. CASE Resume
    <2>1. /\ UNCHANGED <<comm, dead, mail, snapshot, saved, savedTime>>
          /\ Alive' = Alive /\ Alive = ToSet(comm)
          /\ \A p \in Alive : pc[p] = "restored" /\ pc'[p] = "run"
      BY <1>5, <1>a DEF Resume, Restored, state, history, Alive
    <2>2. \A p \in Alive : saved # comm
      BY <2>1 DEF PhaseInv, Restoring
    <2> QED
      BY <2>1, <2>2, KeptFrame
  <1>6. CASE UNCHANGED vars
    <2>1. UNCHANGED <<comm, dead, pc, blocks, hood, snapshot, mail, saved, savedTime>>
      BY <1>6 DEF vars, state, history
    <2>2. Alive' = Alive /\ \A q : Packed(q)' = Packed(q)
      BY <2>1 DEF Alive, Packed
    <2> QED
      BY <2>1, <2>2, KeptFrame
  <1> QED
    BY <1>1, <1>2, <1>3, <1>4, <1>5, <1>6, KeptStore, KeptRestore, KeptRestart
    DEF Next, Step, Stay

(* THEOREM Invariance: in every reachable state the snapshot completed last is
   with the processes that are left, every part of it where the step of its
   process says (createSnapshot, restoreSnapshot). *)
THEOREM Invariance == Spec => []SnapshotInv
  <1>1. Init => SnapshotInv
    BY CommInit, PhaseInit, BlocksInit, StoredInit, MailInit DEF SnapshotInv, KeptInv, Init
  <1>2. SnapshotInv /\ [Next]_vars => SnapshotInv'
    BY CommNext, PhaseNext, BlocksNext, StoredNext, MailNext, KeptNext DEF SnapshotInv
  <1> QED
    BY <1>1, <1>2, PTL DEF Spec

-----------------------------------------------------------------------------
(* What the invariant is for *)

(* THEOREM TypeInvariant: ranks kept are ranks, and at most two snapshots are on
   their way between two processes, however their steps interleave. *)
THEOREM TypeInvariant == Spec => []TypeOK
  <1> SUFFICES ASSUME SnapshotInv
               PROVE  TypeOK
    BY Invariance, PTL
  <1>1. /\ Ring(comm) /\ Alive \subseteq ToSet(comm)
        /\ CommInv /\ PhaseInv /\ BlocksInv /\ StoredInv /\ MailInv
    BY DEF SnapshotInv, CommInv, Alive
  <1>2. ASSUME NEW p \in Alive, pc[p] # "restore"
        PROVE  /\ DOMAIN blocks[p] \subseteq Block
               /\ \A b \in DOMAIN blocks[p] :
                    blocks[p][b] \in [step : 0..MaxTime, nbr : [Adj[b] -> 0..(Len(comm) - 1)]]
               /\ hood[p] \subseteq 0..(Len(comm) - 1)
    <2>1. Packed(p) \in Copy /\ Fits(Packed(p), Len(comm), time[p])
      BY <1>1, <1>2 DEF BlocksInv
    <2>2. time[p] \in 0..MaxTime
      BY <1>1, AliveIn DEF PhaseInv
    <2> QED
      BY <2>1, <2>2, BlocksDomain DEF Fits, Packed
  <1>3. ASSUME NEW p \in Alive, NEW k \in DOMAIN snapshot[p]
        PROVE  /\ k \in 0..(Len(First) - 1)
               /\ DOMAIN snapshot[p][k].blocks \subseteq Block
               /\ snapshot[p][k].read \in BOOLEAN
    <2>1. k \in Ranks(First) /\ snapshot[p][k] \in Copy
      BY <1>1, AliveIn DEF StoredInv
    <2> QED
      BY <2>1, BlocksDomain DEF Ranks, Copy
  <1>4. ASSUME NEW p \in Proc, NEW q \in Proc
        PROVE  Len(mail[<<p, q>>]) <= 2
    <2>1. mail[<<p, q>>] \in Seq(Copy)
      BY <1>1 DEF MailInv
    <2>2. CASE mail[<<p, q>>] = <<>>
      BY <2>2
    <2>3. CASE mail[<<p, q>>] # <<>>
      <3>1. p \in ToSet(comm) /\ q = To(p)
        BY <1>1, <2>3 DEF MailInv
      <3>2. q \in ToSet(comm)
        BY <1>1, <3>1, MeFacts
      <3>3. Len(mail[<<p, q>>]) <= Waits(q) + Sent(p)
        BY <1>1, <3>1, <3>2 DEF MailInv
      <3>4. Waits(q) \in {0, 1} /\ Sent(p) \in {0, 1}
        BY DEF Waits, Sent
      <3> QED
        BY <2>1, <3>3, <3>4
    <2> QED
      BY <2>2, <2>3
  <1>5. comm \in Seq(Proc) /\ dead \subseteq ToSet(comm) /\ saved \in Seq(Proc)
    <2>1. CASE saved = <<>>
      BY <1>1, <2>1 DEF CommInv, Ring
    <2>2. CASE saved # <<>>
      BY <1>1, <2>2 DEF CommInv, Ring
    <2> QED
      BY <2>1, <2>2
  <1> QED
    BY <1>1, <1>2, <1>3, <1>4, <1>5 DEF TypeOK, PhaseInv

(* THEOREM RestoredExactly: whenever all processes that are left have restored,
   every block is on one of them, in the state of the snapshot completed last, and
   its links lead to the processes of its neighbours. *)
THEOREM RestoredExactly == Spec => []RestoreExact
  <1> SUFFICES ASSUME SnapshotInv
               PROVE  RestoreExact
    BY Invariance, PTL
  <1> SUFFICES ASSUME Restored
               PROVE  /\ \A b \in Block : Cardinality({p \in Alive : b \in DOMAIN blocks[p]}) = 1
                      /\ \A p \in Alive : \A b \in DOMAIN blocks[p] :
                           /\ blocks[p][b].step = savedTime
                           /\ \A n \in Adj[b] :
                                n \in DOMAIN blocks[comm[blocks[p][b].nbr[n] + 1]]
                      /\ \A p \in Alive : Around(blocks[p]) \ {Me(p)} = hood[p] \ {Me(p)}
    BY DEF RestoreExact
  <1>1. /\ Ring(comm) /\ Alive = ToSet(comm)
        /\ \A p \in Alive : pc[p] = "restored"
        /\ CommInv /\ PhaseInv /\ BlocksInv
    BY DEF SnapshotInv, CommInv, Restored, Alive
  <1>2. saved # <<>>
    <2>1. Alive # {}
      BY <1>1, SomeMember
    <2> QED
      BY <1>1, <2>1 DEF PhaseInv
  <1>3. Whole(View, Len(comm))
    BY <1>1, <1>2, RestoredWhole DEF SnapshotInv, KeptInv
  <1>4. PICK place \in [Block -> Ranks(comm)] : \A k \in Ranks(comm) :
          /\ DOMAIN View[k].blocks = {b \in Block : place[b] = k}
          /\ \A b \in DOMAIN View[k].blocks : \A m \in Adj[b] : View[k].blocks[b].nbr[m] = place[m]
          /\ Around(View[k].blocks) \ {k} = View[k].hood \ {k}
    BY <1>3 DEF Whole, Ranks
  <1>5. ASSUME NEW p \in Alive
        PROVE  /\ DOMAIN blocks[p] = {b \in Block : place[b] = Me(p)}
               /\ \A b \in DOMAIN blocks[p] : \A m \in Adj[b] : blocks[p][b].nbr[m] = place[m]
               /\ Around(blocks[p]) \ {Me(p)} = hood[p] \ {Me(p)}
    <2>1. Me(p) \in Ranks(comm) /\ View[Me(p)] = Packed(p)
      BY <1>1, MeFacts, ViewFacts
    <2>2. Packed(p).blocks = blocks[p] /\ Packed(p).hood = hood[p]
      BY DEF Packed
    <2> QED
      BY <1>4, <2>1, <2>2
  <1>6. ASSUME NEW b \in Block
        PROVE  /\ comm[place[b] + 1] \in Alive /\ Me(comm[place[b] + 1]) = place[b]
               /\ b \in DOMAIN blocks[comm[place[b] + 1]]
    <2>1. comm[place[b] + 1] \in Alive /\ Me(comm[place[b] + 1]) = place[b]
      BY <1>1, <1>4, RankOfMember DEF Me
    <2> QED
      BY <1>5, <2>1
  <1>7. ASSUME NEW b \in Block
        PROVE  Cardinality({p \in Alive : b \in DOMAIN blocks[p]}) = 1
    <2>1. {p \in Alive : b \in DOMAIN blocks[p]} = {comm[place[b] + 1]}
      <3>1. ASSUME NEW p \in Alive, b \in DOMAIN blocks[p]
            PROVE  p = comm[place[b] + 1]
        BY <1>1, <1>5, <3>1, MeFacts
      <3> QED
        BY <1>6, <3>1
    <2> QED
      BY <2>1, FS_Singleton
  <1>8. ASSUME NEW p \in Alive, NEW b \in DOMAIN blocks[p]
        PROVE  /\ blocks[p][b].step = savedTime
               /\ \A n \in Adj[b] : n \in DOMAIN blocks[comm[blocks[p][b].nbr[n] + 1]]
    <2>1. time[p] = savedTime /\ Fits(Packed(p), Len(comm), time[p])
      BY <1>1 DEF PhaseInv, BlocksInv
    <2>2. blocks[p][b] \in [step : {savedTime}, nbr : [Adj[b] -> 0..(Len(comm) - 1)]]
      BY <2>1 DEF Fits, Packed
    <2>3. b \in Block /\ Adj[b] \subseteq Block
      BY <1>5, BlockAssumption
    <2> QED
      BY <1>5, <1>6, <2>2, <2>3
  <1> QED
    BY <1>5, <1>7, <1>8
=============================================================================
