----------------------- MODULE PropertyExchangeProofs -----------------------
(***************************************************************************)
(* In a time step with reductions and broadcasts on the tag of the         *)
(* synchronization no buffer is mistaken for one of another kernel, every  *)
(* contribution is counted once, and in the end all copies agree.          *)
(*                                                                         *)
(* The argument gives every buffer a tick: the walk, the round and the     *)
(* kernel it is of.  Ticks are ordered as a process writes.  How far a     *)
(* process has written, and how far it has read from each other process,   *)
(* can be told from its walk count k and its stage (SendsNext, ReadsNext); *)
(* at which ticks one process writes to another at all, from the stories   *)
(* of ParticleRegistryProofs: a ghost listed in chapter j of a particle    *)
(* reports in the rounds after walk j, and is told (Applies).  So what is  *)
(* under way between two processes is a set of ticks, and the queue holds  *)
(* it in order (Carries).  Whoever is waited for has the waited-for tick   *)
(* as the least of that set, since sender and receiver take it from the    *)
(* same chapter, however many kernels one of them is ahead.                *)
(***************************************************************************)
EXTENDS PropertyExchange, ParticleRegistryProofs, FiniteSetTheorems

-----------------------------------------------------------------------------
(* The order of buffers *)

(* The place of a buffer in the order in which one process writes to another: the
   walk, the round and the kernel it belongs to, 0 for synchronization, 1 for the
   reduction and 2 for the broadcast *)
Tick == Nat \X Nat \X Nat

Before(a, b) ==
  \/ a[1] < b[1]
  \/ a[1] = b[1] /\ a[2] < b[2]
  \/ a[1] = b[1] /\ a[2] = b[2] /\ a[3] < b[3]

LEMMA BeforeOrders ==
  ASSUME NEW a \in Tick, NEW b \in Tick
  PROVE  /\ Before(a, b) => ~Before(b, a) /\ a # b
         /\ a = b \/ Before(a, b) \/ Before(b, a)
         /\ \A c \in Tick : Before(a, b) /\ Before(b, c) => Before(a, c)
  BY DEF Tick, Before

KernelAt == [t \in Tick |->
  IF t[3] = 0 THEN "sync" ELSE IF t[3] = 1 THEN "reduce" ELSE "broadcast"]

(* Queue w holds what K says for the ticks of Q, in their order. *)
Lined(w, Q, K) ==
  \E f \in [1 .. Len(w) -> Q] :
    /\ \A a, b \in 1 .. Len(w) : a < b => Before(f[a], f[b])
    /\ \A t \in Q : \E a \in 1 .. Len(w) : f[a] = t
    /\ \A a \in 1 .. Len(w) : w[a] = K[f[a]]

LEMMA LinedBy ==
  ASSUME NEW w, NEW Q, NEW K, NEW f \in [1 .. Len(w) -> Q],
         \A a, b \in 1 .. Len(w) : a < b => Before(f[a], f[b]),
         \A t \in Q : \E a \in 1 .. Len(w) : f[a] = t,
         \A a \in 1 .. Len(w) : w[a] = K[f[a]]
  PROVE  Lined(w, Q, K)
  BY DEF Lined

LEMMA LinedEmpty ==
  ASSUME NEW K
  PROVE  Lined(<<>>, {}, K)
  <1> DEFINE f == [a \in 1 .. Len(<<>>) |-> 0]
  <1>1. Len(<<>>) = 0
    OBVIOUS
  <1>2. f \in [1 .. Len(<<>>) -> {}]
    BY <1>1
  <1> QED
    BY <1>1, <1>2 DEF Lined

LEMMA LinedSame ==
  ASSUME NEW w, NEW Q, NEW K, Lined(w, Q, K), NEW L, \A t \in Q : L[t] = K[t]
  PROVE  Lined(w, Q, L)
  BY DEF Lined

LEMMA LinedSome ==
  ASSUME NEW S, NEW w \in Seq(S), NEW Q, NEW K, Lined(w, Q, K), w # <<>>
  PROVE  Q # {}
  <1>1. 1 \in 1 .. Len(w)
    OBVIOUS
  <1> QED
    BY <1>1 DEF Lined

LEMMA LinedAppend ==
  ASSUME NEW S, NEW w \in Seq(S), NEW Q \in SUBSET Tick, NEW K, Lined(w, Q, K),
         NEW t \in Tick, \A q \in Q : Before(q, t), NEW x \in S, x = K[t]
  PROVE  Lined(Append(w, x), Q \cup {t}, K)
  <1> DEFINE l == Len(w)
             v == Append(w, x)
  <1>1. PICK f \in [1 .. l -> Q] :
          /\ \A a, b \in 1 .. l : a < b => Before(f[a], f[b])
          /\ \A q \in Q : \E a \in 1 .. l : f[a] = q
          /\ \A a \in 1 .. l : w[a] = K[f[a]]
    BY DEF Lined
  <1>2. /\ l \in Nat /\ Len(v) = l + 1 /\ v[l + 1] = x
        /\ \A a \in 1 .. l : v[a] = w[a]
    OBVIOUS
  <1> HIDE DEF l, v
  <1> DEFINE g == [a \in 1 .. l + 1 |-> IF a = l + 1 THEN t ELSE f[a]]
  <1>3. /\ g[l + 1] = t
        /\ \A a \in 1 .. l : g[a] = f[a] /\ g[a] \in Q
    BY <1>1, <1>2
  <1>4. \A a \in 1 .. l + 1 : a = l + 1 \/ a \in 1 .. l
    BY <1>2
  <1>5. g \in [1 .. l + 1 -> Q \cup {t}]
    BY <1>1, <1>2, <1>4
  <1> HIDE DEF g
  <1>6. \A a, b \in 1 .. l + 1 : a < b => Before(g[a], g[b])
    <2> SUFFICES ASSUME NEW a \in 1 .. l + 1, NEW b \in 1 .. l + 1, a < b
                 PROVE  Before(g[a], g[b])
      OBVIOUS
    <2>1. a \in 1 .. l
      BY <1>2
    <2>2. CASE b = l + 1
      BY <1>3, <2>1, <2>2
    <2>3. CASE b \in 1 .. l
      BY <1>1, <1>3, <2>1, <2>3
    <2> QED
      BY <1>4, <2>2, <2>3
  <1>7. \A q \in Q \cup {t} : \E a \in 1 .. l + 1 : g[a] = q
    <2>1. l + 1 \in 1 .. l + 1 /\ \A a \in 1 .. l : a \in 1 .. l + 1
      BY <1>2
    <2> QED
      BY <1>1, <1>3, <2>1
  <1>8. \A a \in 1 .. l + 1 : v[a] = K[g[a]]
    BY <1>1, <1>2, <1>3, <1>4
  <1>9. Lined(v, Q \cup {t}, K)
    <2>1. Len(v) = l + 1
      BY <1>2
    <2>2. /\ g \in [1 .. Len(v) -> Q \cup {t}]
          /\ \A a, b \in 1 .. Len(v) : a < b => Before(g[a], g[b])
      BY ONLY <1>5, <1>6, <2>1
    <2>3. /\ \A q \in Q \cup {t} : \E a \in 1 .. Len(v) : g[a] = q
          /\ \A a \in 1 .. Len(v) : v[a] = K[g[a]]
      BY ONLY <1>7, <1>8, <2>1
    <2> QED
      BY ONLY <2>2, <2>3, LinedBy
  <1> QED
    BY <1>9 DEF v

LEMMA LinedTake ==
  ASSUME NEW S, NEW w \in Seq(S), NEW Q \in SUBSET Tick, NEW K, Lined(w, Q, K),
         NEW m \in Q, \A q \in Q : q = m \/ Before(m, q)
  PROVE  /\ w # <<>> /\ Head(w) = K[m]
         /\ Lined(Tail(w), Q \ {m}, K)
  <1> DEFINE l == Len(w)
             v == Tail(w)
  <1>1. PICK f \in [1 .. l -> Q] :
          /\ \A a, b \in 1 .. l : a < b => Before(f[a], f[b])
          /\ \A q \in Q : \E a \in 1 .. l : f[a] = q
          /\ \A a \in 1 .. l : w[a] = K[f[a]]
    BY DEF Lined
  <1>2. PICK e \in 1 .. l : f[e] = m
    BY <1>1
  <1>3. l \in Nat /\ l # 0 /\ 1 \in 1 .. l
    BY <1>2
  <1>4. e = 1
    <2> SUFFICES ASSUME e # 1 PROVE FALSE
      OBVIOUS
    <2>1. Before(f[1], m) /\ f[1] \in Q
      BY <1>1, <1>2, <1>3
    <2>2. f[1] = m \/ Before(m, f[1])
      BY <2>1
    <2> QED
      BY <2>1, <2>2, BeforeOrders
  <1>5. /\ w # <<>> /\ Head(w) = w[1]
        /\ Len(v) = l - 1
        /\ \A a \in 1 .. l - 1 : v[a] = w[a + 1]
    BY <1>3
  <1> HIDE DEF l, v
  <1> DEFINE g == [a \in 1 .. l - 1 |-> f[a + 1]]
  <1>6. \A a \in 1 .. l - 1 : a + 1 \in 1 .. l /\ a + 1 # 1 /\ g[a] = f[a + 1]
    BY <1>3
  <1>7. \A a \in 1 .. l - 1 : f[a + 1] \in Q \ {m}
    <2> SUFFICES ASSUME NEW a \in 1 .. l - 1 PROVE f[a + 1] \in Q \ {m}
      OBVIOUS
    <2>1. Before(f[1], f[a + 1]) /\ f[a + 1] \in Q
      BY <1>1, <1>3, <1>6
    <2> QED
      BY <1>2, <1>4, <2>1, BeforeOrders
  <1>8. g \in [1 .. l - 1 -> Q \ {m}]
    BY <1>7
  <1> HIDE DEF g
  <1>9. \A a, b \in 1 .. l - 1 : a < b => Before(g[a], g[b])
    BY <1>1, <1>6
  <1>10. \A q \in Q \ {m} : \E a \in 1 .. l - 1 : g[a] = q
    <2> SUFFICES ASSUME NEW q \in Q \ {m} PROVE \E a \in 1 .. l - 1 : g[a] = q
      OBVIOUS
    <2>1. PICK c \in 1 .. l : f[c] = q
      BY <1>1
    <2>2. c # 1
      BY <1>2, <1>4, <2>1
    <2>3. c - 1 \in 1 .. l - 1 /\ (c - 1) + 1 = c
      BY <1>3, <2>2
    <2>4. g[c - 1] = q
      BY <1>6, <2>1, <2>3
    <2> QED
      BY <2>3, <2>4
  <1>11. \A a \in 1 .. l - 1 : v[a] = K[g[a]]
    BY <1>1, <1>5, <1>6
  <1>12. Lined(v, Q \ {m}, K)
    <2>1. Len(v) = l - 1
      BY <1>5
    <2> QED
      BY ONLY <1>8, <1>9, <1>10, <1>11, <2>1, LinedBy
  <1>13. Head(w) = K[m]
    BY <1>1, <1>2, <1>3, <1>4, <1>5
  <1> QED
    BY <1>5, <1>12, <1>13 DEF v

LEMMA LinedHas ==
  ASSUME NEW w, NEW Q, NEW K, Lined(w, Q, K), NEW m \in Q
  PROVE  w # <<>>
  <1>1. \E a \in 1 .. Len(w) : TRUE
    BY DEF Lined
  <1> QED
    BY <1>1

(* The kernels on the wire and the contents that belong to them *)
Valued(Q) == {t \in Q : t[3] # 0}

Buffered(w, v, Q, K) == Lined(w, Q, KernelAt) /\ Lined(v, Valued(Q), K)

LEMMA KernelReads ==
  ASSUME NEW t \in Tick
  PROVE  /\ KernelAt[t] \in Kernel
         /\ KernelAt[t] = "sync" <=> t[3] = 0
         /\ KernelAt[t] = "reduce" <=> t[3] = 1
         /\ t[3] = 2 => KernelAt[t] = "broadcast"
  BY DEF KernelAt, Kernel

LEMMA BufferedSend ==
  ASSUME NEW S, NEW w \in Seq(Kernel), NEW v \in Seq(S), NEW Q \in SUBSET Tick, NEW K,
         Buffered(w, v, Q, K), NEW t \in Tick, \A q \in Q : Before(q, t),
         NEW x, t[3] # 0 => x \in S /\ x = K[t]
  PROVE  Buffered(Append(w, KernelAt[t]), IF t[3] = 0 THEN v ELSE Append(v, x), Q \cup {t}, K)
  <1>1. Lined(Append(w, KernelAt[t]), Q \cup {t}, KernelAt)
    BY LinedAppend, KernelReads DEF Buffered
  <1>2. CASE t[3] = 0
    <2>1. Valued(Q \cup {t}) = Valued(Q)
      BY <1>2 DEF Valued
    <2> QED
      BY <1>1, <1>2, <2>1 DEF Buffered
  <1>3. CASE t[3] # 0
    <2>1. Valued(Q \cup {t}) = Valued(Q) \cup {t}
      BY <1>3 DEF Valued
    <2>2. Valued(Q) \in SUBSET Tick /\ \A q \in Valued(Q) : Before(q, t)
      BY DEF Valued
    <2>3. Lined(Append(v, x), Valued(Q) \cup {t}, K)
      BY <1>3, <2>2, LinedAppend DEF Buffered
    <2> QED
      BY <1>1, <1>3, <2>1, <2>3 DEF Buffered
  <1> QED
    BY <1>2, <1>3

LEMMA BufferedHead ==
  ASSUME NEW S, NEW w \in Seq(Kernel), NEW v \in Seq(S), NEW Q \in SUBSET Tick, NEW K,
         Buffered(w, v, Q, K), NEW m \in Q, \A q \in Q : q = m \/ Before(m, q)
  PROVE  Head(w) = KernelAt[m]
  BY LinedTake DEF Buffered

LEMMA BufferedValue ==
  ASSUME NEW S, NEW w \in Seq(Kernel), NEW v \in Seq(S), NEW Q \in SUBSET Tick, NEW K,
         Buffered(w, v, Q, K), NEW m \in Q, \A q \in Q : q = m \/ Before(m, q),
         m[3] # 0
  PROVE  Head(v) = K[m]
  <1> DEFINE V == Valued(Q)
  <1>1. V \in SUBSET Tick /\ m \in V
    BY DEF Valued
  <1>2. \A q \in V : q = m \/ Before(m, q)
    BY DEF Valued
  <1>3. Lined(v, V, K)
    BY DEF Buffered
  <1> HIDE DEF V
  <1> QED
    BY ONLY v \in Seq(S), <1>1, <1>2, <1>3, LinedTake

LEMMA BufferedTake ==
  ASSUME NEW S, NEW w \in Seq(Kernel), NEW v \in Seq(S), NEW Q \in SUBSET Tick, NEW K,
         Buffered(w, v, Q, K), NEW m \in Q, \A q \in Q : q = m \/ Before(m, q)
  PROVE  Buffered(Tail(w), IF m[3] = 0 THEN v ELSE Tail(v), Q \ {m}, K)
  <1>1. Lined(Tail(w), Q \ {m}, KernelAt)
    BY LinedTake DEF Buffered
  <1>2. CASE m[3] = 0
    <2>1. Valued(Q \ {m}) = Valued(Q)
      BY <1>2 DEF Valued
    <2> QED
      BY <1>1, <1>2, <2>1 DEF Buffered
  <1>3. CASE m[3] # 0
    <2>1. Valued(Q \ {m}) = Valued(Q) \ {m}
      BY DEF Valued
    <2>2. /\ Valued(Q) \in SUBSET Tick /\ m \in Valued(Q)
          /\ \A q \in Valued(Q) : q = m \/ Before(m, q)
      BY <1>3 DEF Valued
    <2>3. Lined(Tail(v), Valued(Q) \ {m}, K)
      BY <2>2, LinedTake DEF Buffered
    <2> QED
      BY <1>1, <1>3, <2>1, <2>3 DEF Buffered
  <1> QED
    BY <1>2, <1>3

LEMMA BufferedSame ==
  ASSUME NEW w, NEW v, NEW Q, NEW K, Buffered(w, v, Q, K),
         NEW L, \A t \in Valued(Q) : L[t] = K[t]
  PROVE  Buffered(w, v, Q, L)
  BY LinedSame DEF Buffered

-----------------------------------------------------------------------------
(* The invariant, for histories k, h and n of the synchronization *)

(* In chapter j of its story u is owned by o and has a ghost on g. *)
Linked(h, n, u, j, o, g) ==
  u \notin NonCommunicating /\ j <= n[u] /\ h[u][j].owner = o /\ g \in h[u][j].ghosts

(* s writes to d at t: neighbours synchronize, ghosts report to owners, and owners
   to ghosts. *)
Applies(h, n, s, d, t) ==
  /\ t[2] < Rounds
  /\ \/ t[3] = 0 /\ t[2] = 0 /\ d \in Nbr[s]
     \/ t[3] = 1 /\ \E u \in Particle : Linked(h, n, u, t[1], d, s)
     \/ t[3] = 2 /\ \E u \in Particle : Linked(h, n, u, t[1], s, d)

(* r has written all of its buffers before this tick and none from it on. *)
SendsNext(k, r) ==
  CASE stage[r] = "done" \/ phase[r] = "sync" -> <<k[r] + 1, 0, 0>>
    [] stage[r] = "sync" /\ phase[r] # "sync" -> <<k[r], 0, 1>>
    [] stage[r] \in {"relax", "reduce"}       -> <<k[r], round[r], 1>>
    [] stage[r] \in {"reducing", "broadcast"} -> <<k[r], round[r], 2>>
    [] stage[r] = "broadcasting"              -> <<k[r], round[r], 3>>

(* r has read all buffers of s before this tick and none from it on. *)
ReadsNext(k, r, s) ==
  CASE stage[r] = "done" \/ phase[r] = "sync" -> <<k[r] + 1, 0, 0>>
    [] stage[r] = "sync" /\ phase[r] # "sync" -> <<k[r], 0, IF s \in pending[r] THEN 0 ELSE 1>>
    [] stage[r] \in {"relax", "reduce"}       -> <<k[r], round[r], 1>>
    [] stage[r] = "reducing"     -> <<k[r], round[r], IF s \in awaited[r] THEN 1 ELSE 2>>
    [] stage[r] = "broadcast"                 -> <<k[r], round[r], 2>>
    [] stage[r] = "broadcasting" -> <<k[r], round[r], IF s \in awaited[r] THEN 2 ELSE 3>>

(* What s has written to d so far, and what d has read of it *)
Sent(k, h, n, s, d) ==
  {t \in Tick : Applies(h, n, s, d, t) /\ Before(t, SendsNext(k, s))}

Read(k, h, n, s, d) ==
  {t \in Tick : Applies(h, n, s, d, t) /\ Before(t, ReadsNext(k, d, s))}

UnderWay(k, h, n, s, d) == Sent(k, h, n, s, d) \ Read(k, h, n, s, d)

(* m contributions of each process in S *)
Times(m, S) == [q \in Rank |-> IF q \in S THEN m ELSE 0]

(* The particles whose links between owner o and ghost g carry values in chapter j *)
Joint(h, n, j, o, g) == {u \in Particle : Linked(h, n, u, j, o, g)}

(* What s says to d at t: its own share to the owners, all shares of the rounds so
   far to the ghosts *)
Said(h, n, s, d) == [t \in Tick |->
  IF t[3] = 1
  THEN [u \in Joint(h, n, t[1], d, s) |-> Times(1, {s})]
  ELSE [u \in Joint(h, n, t[1], s, d) |-> Times(t[2] + 1, h[u][t[1]].ghosts \cup {s})]]

(* Between s and d is under way what s has written and d not read, and d has read
   nothing that s has not written. *)
Carries(k, h, n, s, d) ==
  /\ Buffered(wire[<<s, d>>], values[<<s, d>>], UnderWay(k, h, n, s, d), Said(h, n, s, d))
  /\ Read(k, h, n, s, d) \subseteq Sent(k, h, n, s, d)

WiresCarry(k, h, n) == \A s, d \in Rank : Carries(k, h, n, s, d)

Has(r, u, v, c) == vel[r][u] = v /\ dv[r][u] = c

(* A master without a ghost keeps its corrections. *)
LoneSums(r, u) ==
  /\ stage[r] = "relax" /\ round[r] # 0 => Has(r, u, Nothing, Times(round[r], {r}))
  /\ stage[r] \in {"reduce", "reducing", "broadcast", "broadcasting"}
       => Has(r, u, Nothing, Times(round[r] + 1, {r}))
  /\ stage[r] = "done" => Has(r, u, Nothing, Times(Rounds, {r}))

(* A master with ghosts collects the shares of all and applies them. *)
SharedSums(r, u, all) ==
  /\ stage[r] = "relax" /\ round[r] # 0 => Has(r, u, Times(round[r], all), Nothing)
  /\ stage[r] = "reduce"       => Has(r, u, Times(round[r], all), Times(1, {r}))
  /\ stage[r] = "reducing"     => Has(r, u, Times(round[r], all), Times(1, all \ awaited[r]))
  /\ stage[r] = "broadcast"    => Has(r, u, Times(round[r], all), Times(1, all))
  /\ stage[r] = "broadcasting" => Has(r, u, Times(round[r] + 1, all), Nothing)
  /\ stage[r] = "done"         => Has(r, u, Times(Rounds, all), Nothing)

MasterSums(r, u) ==
  /\ ps[r][u].ghosts = {} => LoneSums(r, u)
  /\ ps[r][u].ghosts # {} => SharedSums(r, u, ps[r][u].ghosts \cup {r})

(* A ghost of o keeps its share for a moment only, and takes over what the owner
   says. *)
GhostSums(r, u, o, all) ==
  /\ stage[r] = "relax" /\ round[r] # 0 => dv[r][u] = Nothing
  /\ stage[r] = "reduce" => dv[r][u] = Times(1, {r})
  /\ stage[r] \in {"reducing", "broadcast", "broadcasting", "done"} => dv[r][u] = Nothing
  /\ stage[r] = "broadcasting" /\ o \notin awaited[r] => vel[r][u] = Times(round[r] + 1, all)
  /\ stage[r] = "done" => vel[r][u] = Times(Rounds, all)

CopySums(k, h, r, u) ==
  /\ IsMaster(r, u) => MasterSums(r, u)
  /\ IsGhost(r, u) =>
       GhostSums(r, u, ps[r][u].owner, h[u][k[r]].ghosts \cup {ps[r][u].owner})

SumsRight(k, h) ==
  \A r \in Rank, u \in Particle : stage[r] # "sync" => CopySums(k, h, r, u)

Staged ==
  \A r \in Rank :
    /\ stage[r] = "sync" <=> phase[r] # "integrate"
    /\ stage[r] \in {"sync", "done"} => round[r] = 0
    /\ stage[r] = "reducing" => awaited[r] # {} /\ awaited[r] \subseteq GhostRanks(r)
    /\ stage[r] = "broadcasting" => awaited[r] # {} /\ awaited[r] \subseteq OwnerRanks(r)

(* Walls stay out of it. *)
Walled ==
  \A u \in NonCommunicating, r \in Rank : ps[r][u].kind # "ghost" /\ ps[r][u].ghosts = {}

Stage == {"sync", "relax", "reduce", "reducing", "broadcast", "broadcasting", "done"}

Contents == UNION {[U -> Amount] : U \in SUBSET Particle}

SolverType ==
  /\ stage \in [Rank -> Stage]
  /\ round \in [Rank -> 0 .. Rounds - 1]
  /\ dv \in [Rank -> [Particle -> Amount]]
  /\ vel \in [Rank -> [Particle -> Amount]]
  /\ wire \in [Rank \X Rank -> Seq(Kernel)]
  /\ values \in [Rank \X Rank -> Seq(Contents)]
  /\ awaited \in [Rank -> SUBSET Rank]
  /\ confused \in BOOLEAN

Solved(k, h, n) ==
  /\ TypeOK /\ SolverType /\ Staged /\ Walled
  /\ Histories(k, h, n)
  /\ Traced(k, h, n)
  /\ WiresCarry(k, h, n)
  /\ SumsRight(k, h)

ExchangeInv == ~aborted /\ ~confused /\ \E k, h, n : Solved(k, h, n)

-----------------------------------------------------------------------------
(* Clocks *)

LEMMA ClockType ==
  ASSUME SolverType, NEW k \in [Rank -> Nat], NEW r \in Rank, NEW s
  PROVE  SendsNext(k, r) \in Tick /\ ReadsNext(k, r, s) \in Tick
  <1>1. k[r] \in Nat /\ round[r] \in Nat /\ stage[r] \in Stage
    BY RoundsAssumption DEF SolverType
  <1> QED
    BY <1>1 DEF SendsNext, ReadsNext, Tick, Stage

(* What is waited for is the first that is under way. *)
LEMMA UnderWayFirst ==
  ASSUME SolverType, NEW k, NEW h, NEW n, Histories(k, h, n), WiresCarry(k, h, n),
         NEW s \in Rank, NEW d \in Rank, wire[<<s, d>>] # <<>>,
         Applies(h, n, s, d, ReadsNext(k, d, s))
  PROVE  LET m == ReadsNext(k, d, s) IN
         /\ m \in UnderWay(k, h, n, s, d)
         /\ \A q \in UnderWay(k, h, n, s, d) : q = m \/ Before(m, q)
         /\ Head(wire[<<s, d>>]) = KernelAt[m]
         /\ m[3] # 0 => values[<<s, d>>] # <<>> /\ Head(values[<<s, d>>]) = Said(h, n, s, d)[m]
  <1> DEFINE Q == UnderWay(k, h, n, s, d)
             w == wire[<<s, d>>]
             v == values[<<s, d>>]
             e == SendsNext(k, s)
             m == ReadsNext(k, d, s)
             K == Said(h, n, s, d)
  <1>1. Q \in SUBSET Tick /\ w \in Seq(Kernel) /\ v \in Seq(Contents) /\ e \in Tick /\ m \in Tick
    BY ClockType DEF UnderWay, Sent, SolverType, Histories
  <1>2. Buffered(w, v, Q, K)
    BY DEF WiresCarry, Carries
  <1>3. \A q \in Q : Before(q, e) /\ ~Before(q, m)
    BY DEF UnderWay, Sent, Read
  <1>4. Before(m, e) /\ ~Before(m, m) => m \in Q
    BY <1>1 DEF UnderWay, Sent, Read
  <1> HIDE DEF Q, w, v, e, m, K
  <1>5. \A q \in Q : q = m \/ Before(m, q)
    BY <1>1, <1>3, BeforeOrders
  <1>6. PICK q : q \in Q
    <2>1. Lined(w, Q, KernelAt) /\ w # <<>>
      BY <1>2 DEF Buffered, w
    <2> QED
      BY <1>1, <2>1, LinedSome
  <1>7. Before(m, e)
    BY <1>1, <1>3, <1>5, <1>6, BeforeOrders
  <1>8. m \in Q
    BY <1>1, <1>4, <1>7, BeforeOrders
  <1>9. Head(w) = KernelAt[m]
    BY <1>1, <1>2, <1>5, <1>8, BufferedHead
  <1>10. m[3] # 0 => Head(v) = K[m]
    BY <1>1, <1>2, <1>5, <1>8, BufferedValue
  <1>11. m[3] # 0 => v # <<>>
    BY <1>2, <1>8, LinedHas DEF Buffered, Valued
  <1> QED
    BY <1>5, <1>8, <1>9, <1>10, <1>11 DEF Q, w, v, m, K

-----------------------------------------------------------------------------
(* Links *)

LEMMA LinkedNbr ==
  ASSUME NEW k, NEW h, NEW n, Histories(k, h, n), Traced(k, h, n),
         NEW u \in Particle, NEW j \in Nat, NEW o \in Rank, NEW g, Linked(h, n, u, j, o, g)
  PROVE  g \in Nbr[o] /\ g \in Rank /\ g # o /\ o \in Nbr[g]
  <1>1. Coherent(k, h[u], n[u])
    BY DEF Traced, StoriesCohere, Linked
  <1>2. h[u][j].ghosts \subseteq Nbr[h[u][j].owner]
    BY <1>1, RankAssumption DEF Coherent, Linked
  <1>3. g \in Nbr[o]
    BY <1>2 DEF Linked
  <1> QED
    BY <1>3, NotOwnNbr, NeighborAssumption

(* A process past its synchronization shows the chapter of its number of walks. *)
LEMMA CopiesShow ==
  ASSUME TypeOK, Walled, NEW k, NEW h, NEW n, Histories(k, h, n), Traced(k, h, n),
         NEW r \in Rank, phase[r] = "integrate", NEW u \in Particle
  PROVE  /\ u \notin NonCommunicating /\ k[r] <= n[u] => Shows(r, h[u][k[r]], ps[r][u])
         /\ IsGhost(r, u) => u \notin NonCommunicating /\ k[r] <= n[u]
         /\ IsMaster(r, u) /\ u \notin NonCommunicating => k[r] = n[u]
  <1>1. pending[r] = {} /\ Paced(k)
    BY DEF Traced, Paced
  <1>2. k \in [Rank -> Nat] /\ k[r] \in Nat /\ n[u] \in Nat /\ h[u] \in [Nat -> Chapter]
    BY DEF Histories
  <1> SUFFICES ASSUME u \notin NonCommunicating
               PROVE  /\ k[r] <= n[u] => Shows(r, h[u][k[r]], ps[r][u])
                      /\ IsGhost(r, u) => k[r] <= n[u]
                      /\ IsMaster(r, u) => k[r] = n[u]
    BY DEF Walled, IsGhost
  <1>3. Coherent(k, h[u], n[u]) /\ Shows(r, h[u][Page(k, h[u], n[u], r)], ps[r][u])
    BY DEF Traced, StoriesCohere, SlotsShow
  <1>4. Page(k, h[u], n[u], r) = IF n[u] < k[r] THEN n[u] ELSE k[r]
    BY <1>1 DEF Page
  <1>5. k[r] <= n[u] => Shows(r, h[u][k[r]], ps[r][u])
    BY <1>2, <1>3, <1>4
  <1>6. IsMaster(r, u) => k[r] = n[u]
    BY <1>1, <1>2, <1>3, MasterReads DEF IsMaster
  <1>7. ASSUME IsGhost(r, u), n[u] < k[r] PROVE FALSE
    <2> DEFINE o == h[u][n[u]].owner
    <2>1. Shows(r, h[u][n[u]], ps[r][u])
      BY <1>3, <1>4, <1>7
    <2>2. r # o /\ r \in h[u][n[u]].ghosts
      BY <1>7, <2>1 DEF Shows, IsGhost
    <2>3. o # NoRank /\ r \in Nbr[o] /\ k[o] <= n[u]
      BY <1>2, <1>3, <2>2 DEF Coherent
    <2>4. o \in Rank
      BY <1>2, <2>3 DEF Chapter
    <2>5. o \in Nbr[r]
      BY <2>3, <2>4, NeighborAssumption
    <2> HIDE DEF o
    <2>6. k[r] <= k[o]
      BY <1>1, <1>2, <2>5, Apart
    <2> QED
      BY <1>2, <1>7, <2>3, <2>4, <2>6
  <1> QED
    BY <1>2, <1>5, <1>6, <1>7

(* Its lists and the owners of its ghosts are the links of that chapter. *)
LEMMA CopiesLinked ==
  ASSUME TypeOK, Walled, NEW k, NEW h, NEW n, Histories(k, h, n), Traced(k, h, n),
         NEW r \in Rank, phase[r] = "integrate", NEW u \in Particle
  PROVE  /\ \A g \in Rank : IsMaster(r, u) /\ g \in ps[r][u].ghosts
                              <=> Linked(h, n, u, k[r], r, g)
         /\ \A o \in Rank : IsGhost(r, u) /\ ps[r][u].owner = o
                              <=> Linked(h, n, u, k[r], o, r)
         /\ IsMaster(r, u) /\ ps[r][u].ghosts # {}
              => ps[r][u].ghosts = h[u][k[r]].ghosts
         /\ ps[r][u].ghosts \subseteq Rank
  <1>1. k[r] \in Nat /\ n[u] \in Nat
    BY DEF Histories
  <1>2. /\ u \notin NonCommunicating /\ k[r] <= n[u] => Shows(r, h[u][k[r]], ps[r][u])
        /\ IsGhost(r, u) => u \notin NonCommunicating /\ k[r] <= n[u]
        /\ IsMaster(r, u) /\ u \notin NonCommunicating => k[r] = n[u]
    BY CopiesShow
  <1>3. IsMaster(r, u) /\ ps[r][u].ghosts # {} => u \notin NonCommunicating
    BY DEF Walled
  <1>4. IsMaster(r, u) /\ ps[r][u].ghosts # {}
          => Linked(h, n, u, k[r], r, r) \/ (h[u][k[r]].owner = r /\ ps[r][u].ghosts = h[u][k[r]].ghosts)
    BY <1>1, <1>2, <1>3 DEF Shows, IsMaster
  <1>5. ~Linked(h, n, u, k[r], r, r)
    BY <1>1, LinkedNbr
  <1>6. ps[r][u].ghosts \subseteq Rank
    BY DEF TypeOK, Slot
  <1>7. ASSUME NEW g \in Rank
        PROVE  IsMaster(r, u) /\ g \in ps[r][u].ghosts <=> Linked(h, n, u, k[r], r, g)
    <2>1. IsMaster(r, u) /\ g \in ps[r][u].ghosts => Linked(h, n, u, k[r], r, g)
      BY <1>1, <1>2, <1>3, <1>4, <1>5 DEF Linked
    <2>2. Linked(h, n, u, k[r], r, g) => IsMaster(r, u) /\ g \in ps[r][u].ghosts
      BY <1>2 DEF Linked, Shows, IsMaster
    <2> QED
      BY <2>1, <2>2
  <1>8. ASSUME NEW o \in Rank
        PROVE  IsGhost(r, u) /\ ps[r][u].owner = o <=> Linked(h, n, u, k[r], o, r)
    <2>1. IsGhost(r, u) /\ ps[r][u].owner = o => Linked(h, n, u, k[r], o, r)
      BY <1>2 DEF Linked, Shows, IsGhost
    <2>2. Linked(h, n, u, k[r], o, r) => IsGhost(r, u) /\ ps[r][u].owner = o
      <3>1. Linked(h, n, u, k[r], o, r) => o # r
        BY <1>5
      <3> QED
        BY <1>2, <3>1 DEF Linked, Shows, IsGhost
    <2> QED
      BY <2>1, <2>2
  <1> QED
    BY <1>4, <1>5, <1>6, <1>7, <1>8
-----------------------------------------------------------------------------
(* What a step does to the buffers between two processes *)

LEMMA CarriesSame ==
  ASSUME NEW k, NEW h, NEW n, NEW k2, NEW h2, NEW n2, NEW s, NEW d,
         Carries(k, h, n, s, d),
         wire'[<<s, d>>] = wire[<<s, d>>], values'[<<s, d>>] = values[<<s, d>>],
         Sent(k2, h2, n2, s, d)' = Sent(k, h, n, s, d),
         Read(k2, h2, n2, s, d)' = Read(k, h, n, s, d),
         \A t \in Sent(k, h, n, s, d) : t[3] # 0 => Said(h2, n2, s, d)[t] = Said(h, n, s, d)[t]
  PROVE  Carries(k2, h2, n2, s, d)'
  <1> DEFINE Q == UnderWay(k, h, n, s, d)
             K == Said(h, n, s, d)
             L == Said(h2, n2, s, d)
  <1>1. UnderWay(k2, h2, n2, s, d)' = Q
    BY DEF UnderWay
  <1>2. Buffered(wire[<<s, d>>], values[<<s, d>>], Q, K)
    BY DEF Carries
  <1>3. \A t \in Valued(Q) : L[t] = K[t]
    BY DEF Valued, UnderWay
  <1> HIDE DEF Q, K, L
  <1>4. Buffered(wire[<<s, d>>], values[<<s, d>>], Q, L)
    BY <1>2, <1>3, BufferedSame
  <1>5. Buffered(wire'[<<s, d>>], values'[<<s, d>>], UnderWay(k2, h2, n2, s, d)', L)
    BY <1>1, <1>4
  <1>6. Read(k2, h2, n2, s, d)' \subseteq Sent(k2, h2, n2, s, d)'
    BY DEF Carries
  <1> QED
    BY <1>5, <1>6 DEF Carries, L

LEMMA CarriesTake ==
  ASSUME SolverType, NEW k, NEW h, NEW n, Histories(k, h, n), WiresCarry(k, h, n),
         NEW s \in Rank, NEW d \in Rank, wire[<<s, d>>] # <<>>,
         NEW m, m = ReadsNext(k, d, s), Applies(h, n, s, d, m),
         wire'[<<s, d>>] = Tail(wire[<<s, d>>]),
         values'[<<s, d>>] = IF m[3] = 0 THEN values[<<s, d>>] ELSE Tail(values[<<s, d>>]),
         Sent(k, h, n, s, d)' = Sent(k, h, n, s, d),
         Read(k, h, n, s, d)' = Read(k, h, n, s, d) \cup {m}
  PROVE  Carries(k, h, n, s, d)'
  <1> DEFINE Q == UnderWay(k, h, n, s, d)
             K == Said(h, n, s, d)
             w == wire[<<s, d>>]
             v == values[<<s, d>>]
  <1>1. Applies(h, n, s, d, ReadsNext(k, d, s))
    OBVIOUS
  <1>2. /\ ReadsNext(k, d, s) \in Q
        /\ \A q \in Q : q = ReadsNext(k, d, s) \/ Before(ReadsNext(k, d, s), q)
    BY <1>1, UnderWayFirst
  <1>3. m \in Q /\ \A q \in Q : q = m \/ Before(m, q)
    BY <1>2
  <1>4. UnderWay(k, h, n, s, d)' = Q \ {m}
    BY DEF UnderWay
  <1>5. Buffered(w, v, Q, K)
    BY DEF WiresCarry, Carries
  <1>6. Q \in SUBSET Tick /\ w \in Seq(Kernel) /\ v \in Seq(Contents)
    BY DEF UnderWay, Sent, SolverType
  <1>7. Read(k, h, n, s, d)' \subseteq Sent(k, h, n, s, d)'
    <2>1. Read(k, h, n, s, d) \subseteq Sent(k, h, n, s, d)
      BY DEF WiresCarry, Carries
    <2>2. m \in Sent(k, h, n, s, d)
      BY <1>3 DEF UnderWay
    <2> QED
      BY <2>1, <2>2
  <1> HIDE DEF Q, K, w, v
  <1>8. Buffered(Tail(w), IF m[3] = 0 THEN v ELSE Tail(v), Q \ {m}, K)
    BY <1>3, <1>5, <1>6, BufferedTake
  <1>9. Buffered(wire'[<<s, d>>], values'[<<s, d>>], UnderWay(k, h, n, s, d)', K)
    <2>1. wire'[<<s, d>>] = Tail(w)
      BY DEF w
    <2>2. values'[<<s, d>>] = IF m[3] = 0 THEN v ELSE Tail(v)
      BY DEF v
    <2> QED
      BY <1>4, <1>8, <2>1, <2>2
  <1> QED
    BY <1>7, <1>9 DEF Carries, K
-----------------------------------------------------------------------------
(* What a step does to all wires *)

LEMMA SendReads ==
  ASSUME SolverType, NEW r \in Rank, NEW to, NEW kernel, NEW c, Send(r, to, kernel, c),
         NEW s \in Rank, NEW d \in Rank
  PROVE  /\ wire'[<<s, d>>] = IF s = r /\ d \in to THEN Append(wire[<<s, d>>], kernel)
                              ELSE wire[<<s, d>>]
         /\ values'[<<s, d>>] = IF s = r /\ d \in to /\ kernel # "sync"
                                THEN Append(values[<<s, d>>], c[d]) ELSE values[<<s, d>>]
  BY DEF Send

LEMMA SendPuts ==
  ASSUME SolverType, NEW r \in Rank, NEW to, NEW kernel, NEW c, Send(r, to, kernel, c),
         NEW d \in Rank, d \in to
  PROVE  wire'[<<r, d>>] = Append(wire[<<r, d>>], kernel)
  BY DEF Send

LEMMA SendType ==
  ASSUME SolverType, NEW r \in Rank, NEW to, NEW kernel \in Kernel, NEW c, Send(r, to, kernel, c),
         \A d \in Rank : d \in to /\ kernel # "sync" => c[d] \in Contents
  PROVE  /\ wire' \in [Rank \X Rank -> Seq(Kernel)]
         /\ values' \in [Rank \X Rank -> Seq(Contents)]
  <1>1. /\ wire \in [Rank \X Rank -> Seq(Kernel)]
        /\ values \in [Rank \X Rank -> Seq(Contents)]
    BY DEF SolverType
  <1>2. wire' = [w \in Rank \X Rank |->
          IF w[1] = r /\ w[2] \in to THEN Append(wire[w], kernel) ELSE wire[w]]
    BY DEF Send
  <1>3. values' = [w \in Rank \X Rank |->
          IF w[1] = r /\ w[2] \in to /\ kernel # "sync"
          THEN Append(values[w], c[w[2]]) ELSE values[w]]
    BY DEF Send
  <1>4. ASSUME NEW w \in Rank \X Rank PROVE w[2] \in Rank /\ wire[w] \in Seq(Kernel) /\ values[w] \in Seq(Contents)
    BY <1>1
  <1> HIDE DEF Contents, Kernel
  <1>5. wire' \in [Rank \X Rank -> Seq(Kernel)]
    BY <1>2, <1>4
  <1>6. values' \in [Rank \X Rank -> Seq(Contents)]
    BY <1>3, <1>4
  <1> QED
    BY <1>5, <1>6

LEMMA TakeReads ==
  ASSUME SolverType, NEW r \in Rank, NEW q \in Rank, Take(r, q), NEW s \in Rank, NEW d \in Rank
  PROVE  /\ wire'[<<s, d>>] = IF s = q /\ d = r THEN Tail(wire[<<s, d>>]) ELSE wire[<<s, d>>]
         /\ values'[<<s, d>>] = IF s = q /\ d = r /\ Head(wire[<<q, r>>]) # "sync"
                                THEN Tail(values[<<s, d>>]) ELSE values[<<s, d>>]
  BY DEF Take, SolverType

LEMMA TakeType ==
  ASSUME SolverType, NEW r \in Rank, NEW q \in Rank, Take(r, q), wire[<<q, r>>] # <<>>,
         Head(wire[<<q, r>>]) # "sync" => values[<<q, r>>] # <<>>
  PROVE  /\ wire' \in [Rank \X Rank -> Seq(Kernel)]
         /\ values' \in [Rank \X Rank -> Seq(Contents)]
  <1> HIDE DEF Contents, Kernel
  <1>1. /\ wire \in [Rank \X Rank -> Seq(Kernel)]
        /\ values \in [Rank \X Rank -> Seq(Contents)]
        /\ <<q, r>> \in Rank \X Rank
    BY DEF SolverType
  <1>2. wire' = [wire EXCEPT ![<<q, r>>] = Tail(wire[<<q, r>>])]
    BY DEF Take
  <1>3. wire' \in [Rank \X Rank -> Seq(Kernel)]
    BY <1>1, <1>2
  <1>4. CASE Head(wire[<<q, r>>]) = "sync"
    BY <1>1, <1>3, <1>4 DEF Take
  <1>5. CASE Head(wire[<<q, r>>]) # "sync"
    <2>1. values' = [values EXCEPT ![<<q, r>>] = Tail(values[<<q, r>>])]
      BY <1>5 DEF Take
    <2>2. Tail(values[<<q, r>>]) \in Seq(Contents)
      BY <1>1, <1>5
    <2> QED
      BY <1>1, <1>3, <2>1, <2>2
  <1> QED
    BY <1>4, <1>5

LEMMA WiresSame ==
  ASSUME NEW k, NEW h, NEW n, WiresCarry(k, h, n),
         wire' = wire, values' = values,
         \A s, d \in Rank : /\ Sent(k, h, n, s, d)' = Sent(k, h, n, s, d)
                            /\ Read(k, h, n, s, d)' = Read(k, h, n, s, d)
  PROVE  WiresCarry(k, h, n)'
  <1> SUFFICES ASSUME NEW s \in Rank, NEW d \in Rank PROVE Carries(k, h, n, s, d)'
    BY DEF WiresCarry
  <1>1. Carries(k, h, n, s, d)
    BY DEF WiresCarry
  <1> QED
    BY <1>1, CarriesSame

LEMMA CarriesSend ==
  ASSUME SolverType, NEW k, NEW h, NEW n, NEW k2, NEW h2, NEW n2, NEW r \in Rank, NEW d \in Rank,
         Carries(k, h, n, r, d), NEW t \in Tick, NEW x,
         wire'[<<r, d>>] = Append(wire[<<r, d>>], KernelAt[t]),
         values'[<<r, d>>] = IF t[3] = 0 THEN values[<<r, d>>] ELSE Append(values[<<r, d>>], x),
         Sent(k2, h2, n2, r, d)' = Sent(k, h, n, r, d) \cup {t},
         Read(k2, h2, n2, r, d)' = Read(k, h, n, r, d),
         \A q \in Sent(k, h, n, r, d) : q[3] # 0 => Said(h2, n2, r, d)[q] = Said(h, n, r, d)[q],
         \A q \in Sent(k, h, n, r, d) : Before(q, t),
         t[3] # 0 => x \in Contents /\ x = Said(h2, n2, r, d)[t]
  PROVE  Carries(k2, h2, n2, r, d)'
  <1> DEFINE Q == UnderWay(k, h, n, r, d)
             K == Said(h, n, r, d)
             L == Said(h2, n2, r, d)
             w == wire[<<r, d>>]
             v == values[<<r, d>>]
  <1>1. /\ wire'[<<r, d>>] = Append(w, KernelAt[t])
        /\ values'[<<r, d>>] = IF t[3] = 0 THEN v ELSE Append(v, x)
        /\ t[3] # 0 => x \in Contents /\ x = L[t]
    OBVIOUS
  <1>2. /\ Buffered(w, v, Q, K)
        /\ Read(k, h, n, r, d) \subseteq Sent(k, h, n, r, d)
    BY DEF Carries
  <1>3. t \notin Sent(k, h, n, r, d)
    BY BeforeOrders
  <1>4. UnderWay(k2, h2, n2, r, d)' = Q \cup {t}
    BY <1>2, <1>3 DEF UnderWay
  <1>5. (\A q \in Valued(Q) : L[q] = K[q]) /\ (\A q \in Q : Before(q, t))
    BY DEF Valued, UnderWay
  <1>6. Q \in SUBSET Tick /\ w \in Seq(Kernel) /\ v \in Seq(Contents)
    BY DEF UnderWay, Sent, SolverType
  <1>7. Read(k2, h2, n2, r, d)' \subseteq Sent(k2, h2, n2, r, d)'
    BY <1>2
  <1> HIDE DEF Q, K, L, w, v
  <1>8. Buffered(w, v, Q, L)
    BY <1>2, <1>5, BufferedSame
  <1>9. Buffered(Append(w, KernelAt[t]), IF t[3] = 0 THEN v ELSE Append(v, x), Q \cup {t}, L)
    BY <1>1, <1>5, <1>6, <1>8, BufferedSend
  <1>10. Buffered(wire'[<<r, d>>], values'[<<r, d>>], UnderWay(k2, h2, n2, r, d)', L)
    BY <1>1, <1>4, <1>9
  <1> QED
    BY <1>7, <1>10 DEF Carries, L

LEMMA WiresSend ==
  ASSUME SolverType, NEW k, NEW h, NEW n, NEW k2, NEW h2, NEW n2, WiresCarry(k, h, n),
         NEW r \in Rank, NEW t \in Tick, NEW to, NEW c, Send(r, to, KernelAt[t], c),
         \A s, d \in Rank :
           /\ Sent(k2, h2, n2, s, d)' = IF s = r /\ d \in to THEN Sent(k, h, n, s, d) \cup {t}
                                        ELSE Sent(k, h, n, s, d)
           /\ Read(k2, h2, n2, s, d)' = Read(k, h, n, s, d)
           /\ \A q \in Sent(k, h, n, s, d) : q[3] # 0 => Said(h2, n2, s, d)[q] = Said(h, n, s, d)[q],
         \A d \in Rank : d \in to =>
           /\ \A q \in Sent(k, h, n, r, d) : Before(q, t)
           /\ t[3] # 0 => c[d] \in Contents /\ c[d] = Said(h2, n2, r, d)[t]
  PROVE  WiresCarry(k2, h2, n2)'
  <1> SUFFICES ASSUME NEW s \in Rank, NEW d \in Rank PROVE Carries(k2, h2, n2, s, d)'
    BY DEF WiresCarry
  <1>1. Carries(k, h, n, s, d)
    BY DEF WiresCarry
  <1>2. /\ Read(k2, h2, n2, s, d)' = Read(k, h, n, s, d)
        /\ \A q \in Sent(k, h, n, s, d) : q[3] # 0 => Said(h2, n2, s, d)[q] = Said(h, n, s, d)[q]
    OBVIOUS
  <1>3. ASSUME d \in to PROVE Carries(k2, h2, n2, r, d)'
    <2>1. wire'[<<r, d>>] = Append(wire[<<r, d>>], KernelAt[t])
      BY <1>3, SendPuts
    <2>2. values'[<<r, d>>] = IF t[3] = 0 THEN values[<<r, d>>] ELSE Append(values[<<r, d>>], c[d])
      <3>1. values'[<<r, d>>] = IF KernelAt[t] # "sync" THEN Append(values[<<r, d>>], c[d])
                                ELSE values[<<r, d>>]
        BY <1>3, SendReads
      <3> QED
        BY <3>1, KernelReads
    <2>3. /\ Sent(k2, h2, n2, r, d)' = Sent(k, h, n, r, d) \cup {t}
          /\ Read(k2, h2, n2, r, d)' = Read(k, h, n, r, d)
          /\ \A q \in Sent(k, h, n, r, d) : q[3] # 0 => Said(h2, n2, r, d)[q] = Said(h, n, r, d)[q]
      BY <1>3
    <2>4. /\ \A q \in Sent(k, h, n, r, d) : Before(q, t)
          /\ t[3] # 0 => c[d] \in Contents /\ c[d] = Said(h2, n2, r, d)[t]
      BY <1>3
    <2>5. Carries(k, h, n, r, d)
      BY DEF WiresCarry
    <2> QED
      BY <2>1, <2>2, <2>3, <2>4, <2>5, CarriesSend
  <1>4. CASE ~(s = r /\ d \in to)
    <2>1. wire'[<<s, d>>] = wire[<<s, d>>] /\ values'[<<s, d>>] = values[<<s, d>>]
      BY <1>4, SendReads
    <2>2. Sent(k2, h2, n2, s, d)' = Sent(k, h, n, s, d)
      BY <1>4
    <2> QED
      BY <1>1, <1>2, <2>1, <2>2, CarriesSame
  <1> QED
    BY <1>3, <1>4

LEMMA WiresTake ==
  ASSUME SolverType, NEW k, NEW h, NEW n, Histories(k, h, n), WiresCarry(k, h, n),
         NEW r \in Rank, NEW q \in Rank, wire[<<q, r>>] # <<>>, Take(r, q),
         NEW m \in Tick, m = ReadsNext(k, r, q), Applies(h, n, q, r, m),
         \A s, d \in Rank :
           /\ Sent(k, h, n, s, d)' = Sent(k, h, n, s, d)
           /\ Read(k, h, n, s, d)' = IF s = q /\ d = r THEN Read(k, h, n, s, d) \cup {m}
                                     ELSE Read(k, h, n, s, d)
  PROVE  WiresCarry(k, h, n)'
  <1>1. Head(wire[<<q, r>>]) = KernelAt[m]
    BY UnderWayFirst
  <1>2. Head(wire[<<q, r>>]) = "sync" <=> m[3] = 0
    BY <1>1, KernelReads
  <1> SUFFICES ASSUME NEW s \in Rank, NEW d \in Rank PROVE Carries(k, h, n, s, d)'
    BY DEF WiresCarry
  <1>3. Carries(k, h, n, s, d)
    BY DEF WiresCarry
  <1>4. Sent(k, h, n, s, d)' = Sent(k, h, n, s, d)
    OBVIOUS
  <1>5. CASE s = q /\ d = r
    <2>1. wire'[<<q, r>>] = Tail(wire[<<q, r>>])
      BY TakeReads
    <2>2. values'[<<q, r>>] = IF m[3] = 0 THEN values[<<q, r>>] ELSE Tail(values[<<q, r>>])
      BY <1>2, TakeReads
    <2>3. /\ Sent(k, h, n, q, r)' = Sent(k, h, n, q, r)
          /\ Read(k, h, n, q, r)' = Read(k, h, n, q, r) \cup {m}
      OBVIOUS
    <2>4. Carries(k, h, n, q, r)'
      BY <2>1, <2>2, <2>3, CarriesTake
    <2> QED
      BY <1>5, <2>4
  <1>6. CASE ~(s = q /\ d = r)
    <2>1. wire'[<<s, d>>] = wire[<<s, d>>] /\ values'[<<s, d>>] = values[<<s, d>>]
      BY <1>6, TakeReads
    <2>2. Read(k, h, n, s, d)' = Read(k, h, n, s, d)
      BY <1>6
    <2> QED
      BY <1>3, <1>4, <2>1, <2>2, CarriesSame
  <1> QED
    BY <1>5, <1>6
-----------------------------------------------------------------------------
(* How the clocks move *)

(* The clock of a process at the end of round i of walk j *)
AfterRound(j, i) == IF i + 1 = Rounds THEN <<j + 1, 0, 0>> ELSE <<j, i + 1, 1>>

(* A tick lies before the next reading of the clock exactly when it lay before
   the last one, or is the tick in between *)
Passed(t, j, i) ==
  /\ Before(t, <<j, 0, 1>>) <=> Before(t, <<j, 0, 0>>) \/ t = <<j, 0, 0>>
  /\ Before(t, <<j, i, 2>>) <=> Before(t, <<j, i, 1>>) \/ t = <<j, i, 1>>
  /\ Before(t, <<j, i, 3>>) <=> Before(t, <<j, i, 2>>) \/ t = <<j, i, 2>>
  /\ Before(t, AfterRound(j, i)) <=> Before(t, <<j, i, 3>>)

LEMMA TicksPass ==
  ASSUME NEW h, NEW n, NEW s, NEW d, NEW t \in Tick, Applies(h, n, s, d, t),
         NEW j \in Nat, NEW i \in 0 .. Rounds - 1
  PROVE  Passed(t, j, i)
  <1>1. /\ t[1] \in Nat /\ t[2] \in Nat /\ t[3] \in 0 .. 2 /\ t[2] < Rounds
        /\ t[3] = 0 => t[2] = 0
        /\ \A a, b, c : t = <<a, b, c>> <=> t[1] = a /\ t[2] = b /\ t[3] = c
    BY DEF Tick, Applies
  <1>2. Rounds \in Nat /\ i \in Nat /\ i < Rounds
    BY RoundsAssumption
  <1>3. \A a, b, c \in Nat :
          Before(t, <<a, b, c>>) <=> \/ t[1] < a
                                     \/ t[1] = a /\ t[2] < b
                                     \/ t[1] = a /\ t[2] = b /\ t[3] < c
    BY DEF Before
  <1>4. /\ Before(t, <<j, 0, 1>>) <=> Before(t, <<j, 0, 0>>) \/ t = <<j, 0, 0>>
        /\ Before(t, <<j, i, 2>>) <=> Before(t, <<j, i, 1>>) \/ t = <<j, i, 1>>
        /\ Before(t, <<j, i, 3>>) <=> Before(t, <<j, i, 2>>) \/ t = <<j, i, 2>>
    BY <1>1, <1>2, <1>3
  <1>5. Before(t, AfterRound(j, i)) <=> Before(t, <<j, i, 3>>)
    <2>1. CASE i + 1 = Rounds
      <3>1. Before(t, <<j + 1, 0, 0>>) <=> t[1] < j + 1
        BY <1>1, <1>3
      <3>2. Before(t, <<j, i, 3>>) <=> t[1] < j \/ t[1] = j
        BY <1>1, <1>2, <1>3, <2>1
      <3> QED
        BY <1>1, <2>1, <3>1, <3>2 DEF AfterRound
    <2>2. CASE i + 1 # Rounds
      <3>1. i + 1 \in Nat /\ j \in Nat /\ i \in Nat /\ 1 \in Nat /\ 3 \in Nat
        BY <1>2
      <3>2. Before(t, <<j, i + 1, 1>>) <=> \/ t[1] < j
                                           \/ t[1] = j /\ t[2] < i + 1
                                           \/ t[1] = j /\ t[2] = i + 1 /\ t[3] < 1
        BY ONLY <1>3, <3>1
      <3>3. Before(t, <<j, i, 3>>) <=> \/ t[1] < j
                                       \/ t[1] = j /\ t[2] < i
                                       \/ t[1] = j /\ t[2] = i /\ t[3] < 3
        BY ONLY <1>3, <3>1
      <3>4. Before(t, <<j, i + 1, 1>>) <=> Before(t, <<j, i, 3>>)
        BY ONLY <1>1, <3>1, <3>2, <3>3
      <3> QED
        BY <2>2, <3>4 DEF AfterRound
    <2> QED
      BY <2>1, <2>2
  <1> QED
    BY <1>4, <1>5 DEF Passed

LEMMA SentStill ==
  ASSUME NEW k, NEW h, NEW n, NEW s, NEW d,
         \A t \in Tick : Applies(h, n, s, d, t)
           => (Before(t, SendsNext(k, s)') <=> Before(t, SendsNext(k, s)))
  PROVE  Sent(k, h, n, s, d)' = Sent(k, h, n, s, d)
  BY DEF Sent

LEMMA SentMore ==
  ASSUME NEW k, NEW h, NEW n, NEW s, NEW d, NEW x \in Tick,
         \A t \in Tick : Applies(h, n, s, d, t)
           => (Before(t, SendsNext(k, s)') <=> Before(t, SendsNext(k, s)) \/ t = x)
  PROVE  Sent(k, h, n, s, d)' = IF Applies(h, n, s, d, x) THEN Sent(k, h, n, s, d) \cup {x}
                                ELSE Sent(k, h, n, s, d)
  BY DEF Sent

LEMMA ReadStill ==
  ASSUME NEW k, NEW h, NEW n, NEW s, NEW d,
         \A t \in Tick : Applies(h, n, s, d, t)
           => (Before(t, ReadsNext(k, d, s)') <=> Before(t, ReadsNext(k, d, s)))
  PROVE  Read(k, h, n, s, d)' = Read(k, h, n, s, d)
  BY DEF Read

LEMMA ReadMore ==
  ASSUME NEW k, NEW h, NEW n, NEW s, NEW d, NEW x \in Tick,
         \A t \in Tick : Applies(h, n, s, d, t)
           => (Before(t, ReadsNext(k, d, s)') <=> Before(t, ReadsNext(k, d, s)) \/ t = x)
  PROVE  Read(k, h, n, s, d)' = IF Applies(h, n, s, d, x) THEN Read(k, h, n, s, d) \cup {x}
                                ELSE Read(k, h, n, s, d)
  BY DEF Read

(* Nothing of another process changes. *)
Untouched(q) ==
  /\ stage'[q] = stage[q] /\ round'[q] = round[q]
  /\ phase'[q] = phase[q] /\ pending'[q] = pending[q] /\ awaited'[q] = awaited[q]
  /\ ps'[q] = ps[q] /\ dv'[q] = dv[q] /\ vel'[q] = vel[q]

LEMMA UntouchedClocks ==
  ASSUME NEW k, NEW q, Untouched(q)
  PROVE  SendsNext(k, q)' = SendsNext(k, q) /\ \A s : ReadsNext(k, q, s)' = ReadsNext(k, q, s)
  BY DEF Untouched, SendsNext, ReadsNext

LEMMA UntouchedSets ==
  ASSUME NEW k, NEW h, NEW n, NEW q, Untouched(q), NEW p
  PROVE  Sent(k, h, n, q, p)' = Sent(k, h, n, q, p) /\ Read(k, h, n, p, q)' = Read(k, h, n, p, q)
  BY UntouchedClocks, SentStill, ReadStill

(* Whom a process reduces to and from *)
LEMMA RanksLinked ==
  ASSUME NEW k, NEW h, NEW n, Solved(k, h, n), NEW r \in Rank, stage[r] # "sync"
  PROVE  /\ k[r] \in Nat /\ phase[r] = "integrate"
         /\ GhostRanks(r) \subseteq Rank \ {r} /\ OwnerRanks(r) \subseteq Rank \ {r}
         /\ \A g \in Rank : g \in GhostRanks(r) <=> \E u \in Particle : Linked(h, n, u, k[r], r, g)
         /\ \A o \in Rank : o \in OwnerRanks(r) <=> \E u \in Particle : Linked(h, n, u, k[r], o, r)
  <1>1. /\ TypeOK /\ Walled /\ Histories(k, h, n) /\ Traced(k, h, n)
        /\ k[r] \in Nat /\ phase[r] = "integrate"
    BY DEF Solved, Staged, Histories
  <1>2. ASSUME NEW u \in Particle
        PROVE  /\ \A g \in Rank : IsMaster(r, u) /\ g \in ps[r][u].ghosts
                                   <=> Linked(h, n, u, k[r], r, g)
               /\ \A o \in Rank : IsGhost(r, u) /\ ps[r][u].owner = o
                                   <=> Linked(h, n, u, k[r], o, r)
               /\ ps[r][u].ghosts \subseteq Rank
               /\ IsMaster(r, u) => r \notin ps[r][u].ghosts
               /\ IsGhost(r, u) => ps[r][u].owner \in Rank \ {r}
    <2>1. SlotOK(r, ps[r][u])
      BY <1>1 DEF TypeOK
    <2>2. /\ IsMaster(r, u) => r \notin ps[r][u].ghosts
          /\ IsGhost(r, u) => ps[r][u].owner \in Rank \ {r}
      BY <2>1 DEF SlotOK, IsMaster, IsGhost
    <2>3. /\ \A g \in Rank : IsMaster(r, u) /\ g \in ps[r][u].ghosts
                              <=> Linked(h, n, u, k[r], r, g)
          /\ \A o \in Rank : IsGhost(r, u) /\ ps[r][u].owner = o
                              <=> Linked(h, n, u, k[r], o, r)
          /\ ps[r][u].ghosts \subseteq Rank
      BY <1>1, CopiesLinked
    <2> QED
      BY <2>2, <2>3
  <1>3. \A g : g \in GhostRanks(r) <=> \E u \in Particle : IsMaster(r, u) /\ g \in ps[r][u].ghosts
    BY DEF GhostRanks, Masters
  <1>4. \A o : o \in OwnerRanks(r) <=> \E u \in Particle : IsGhost(r, u) /\ o = ps[r][u].owner
    BY DEF OwnerRanks, Ghosts
  <1>5. GhostRanks(r) \subseteq Rank \ {r} /\ OwnerRanks(r) \subseteq Rank \ {r}
    BY <1>2, <1>3, <1>4
  <1>6. \A g \in Rank : g \in GhostRanks(r) <=> \E u \in Particle : Linked(h, n, u, k[r], r, g)
    BY <1>2, <1>3
  <1>7. \A o \in Rank : o \in OwnerRanks(r) <=> \E u \in Particle : Linked(h, n, u, k[r], o, r)
    BY <1>2, <1>4
  <1> QED
    BY <1>1, <1>5, <1>6, <1>7
(* When the links of a chapter let a buffer be written *)
LEMMA KernelApplies ==
  ASSUME NEW k, NEW h, NEW n, Solved(k, h, n), NEW r \in Rank, stage[r] # "sync",
         NEW i \in 0 .. Rounds - 1, NEW q \in Rank
  PROVE  /\ Applies(h, n, r, q, <<k[r], i, 1>>) <=> q \in OwnerRanks(r)
         /\ Applies(h, n, q, r, <<k[r], i, 1>>) <=> q \in GhostRanks(r)
         /\ Applies(h, n, r, q, <<k[r], i, 2>>) <=> q \in GhostRanks(r)
         /\ Applies(h, n, q, r, <<k[r], i, 2>>) <=> q \in OwnerRanks(r)
         /\ <<k[r], i, 1>> \in Tick /\ <<k[r], i, 2>> \in Tick
  <1>1. /\ q \in GhostRanks(r) <=> \E u \in Particle : Linked(h, n, u, k[r], r, q)
        /\ q \in OwnerRanks(r) <=> \E u \in Particle : Linked(h, n, u, k[r], q, r)
        /\ k[r] \in Nat
    BY RanksLinked
  <1>2. i < Rounds /\ i \in Nat
    BY RoundsAssumption
  <1> QED
    BY <1>1, <1>2 DEF Applies, Tick

(* How far a process has got after its part of round i *)
LEMMA RoundClocks ==
  ASSUME NEW k, NEW r, NEW i, NextRound(r), round[r] = i, i \in 0 .. Rounds - 1, NEW j, j = k[r],
         phase'[r] = "integrate", round \in [Rank -> 0 .. Rounds - 1], r \in Rank,
         stage \in [Rank -> Stage]
  PROVE  /\ SendsNext(k, r)' = AfterRound(j, i)
         /\ \A s : ReadsNext(k, r, s)' = AfterRound(j, i)
  <1>1. CASE i + 1 = Rounds
    <2>1. stage'[r] = "done"
      BY <1>1 DEF NextRound
    <2> QED
      BY <1>1, <2>1 DEF AfterRound, SendsNext, ReadsNext
  <1>2. CASE i + 1 # Rounds
    <2>1. stage'[r] = "relax" /\ round'[r] = i + 1
      BY <1>2 DEF NextRound
    <2> QED
      BY <1>2, <2>1 DEF AfterRound, SendsNext, ReadsNext
  <1> QED
    BY <1>1, <1>2

LEMMA ReductionSentSets ==
  ASSUME NEW k, NEW h, NEW n, Solved(k, h, n), NEW r \in Rank, SendReduction(r),
         NEW s \in Rank, NEW d \in Rank
  PROVE  LET t == <<k[r], round[r], 1>> IN
         /\ Sent(k, h, n, s, d)' = IF s = r /\ d \in OwnerRanks(r)
                                   THEN Sent(k, h, n, s, d) \cup {t} ELSE Sent(k, h, n, s, d)
         /\ Read(k, h, n, s, d)' = Read(k, h, n, s, d)
  <1> DEFINE i == round[r]
             j == k[r]
             a == <<j, i, 1>>
             b == <<j, i, 2>>
  <1>1. /\ stage[r] = "reduce" /\ stage'[r] \in {"broadcast", "reducing"}
        /\ stage'[r] = "broadcast" <=> GhostRanks(r) = {}
        /\ awaited'[r] = GhostRanks(r)
        /\ round' = round /\ phase' = phase
    BY DEF Solved, SolverType, SendReduction, vars
  <1>2. /\ j \in Nat /\ i \in 0 .. Rounds - 1 /\ phase[r] = "integrate"
        /\ a \in Tick
    BY <1>1, RanksLinked, KernelApplies DEF Solved, SolverType
  <1>3. ASSUME NEW q \in Rank \ {r} PROVE Untouched(q)
    BY DEF Solved, SolverType, SendReduction, vars, Untouched
  <1>4. /\ SendsNext(k, r) = a /\ SendsNext(k, r)' = b
        /\ \A q : ReadsNext(k, r, q) = a
        /\ \A q : ReadsNext(k, r, q)' = IF q \in GhostRanks(r) THEN a ELSE b
    BY <1>1, <1>2 DEF SendsNext, ReadsNext
  <1>5. \A q, p \in Rank, t \in Tick : Applies(h, n, q, p, t) => (Before(t, b) <=> Before(t, a) \/ t = a)
    <2> SUFFICES ASSUME NEW q \in Rank, NEW p \in Rank, NEW t \in Tick, Applies(h, n, q, p, t)
                 PROVE  Before(t, b) <=> Before(t, a) \/ t = a
      OBVIOUS
    <2>1. j \in Nat /\ i \in 0 .. Rounds - 1
      BY <1>2
    <2> HIDE DEF i, j, a, b
    <2>2. Passed(t, j, i)
      BY <2>1, TicksPass
    <2> QED
      BY ONLY <2>2 DEF Passed, a, b
  <1> HIDE DEF a, b
  <1>6. Sent(k, h, n, s, d)' = IF s = r /\ d \in OwnerRanks(r)
                               THEN Sent(k, h, n, s, d) \cup {a} ELSE Sent(k, h, n, s, d)
    <2>1. CASE s = r
      <3>1. Applies(h, n, r, d, a) <=> d \in OwnerRanks(r)
        BY <1>1, <1>2, KernelApplies DEF a
      <3>2. Sent(k, h, n, r, d)' = IF Applies(h, n, r, d, a) THEN Sent(k, h, n, r, d) \cup {a}
                                   ELSE Sent(k, h, n, r, d)
        BY <1>2, <1>4, <1>5, SentMore
      <3> QED
        BY <2>1, <3>1, <3>2
    <2>2. CASE s # r
      BY <1>3, <2>2, UntouchedSets
    <2> QED
      BY <2>1, <2>2
  <1>7. Read(k, h, n, s, d)' = Read(k, h, n, s, d)
    <2>1. CASE d # r
      BY <1>3, <2>1, UntouchedSets
    <2>2. CASE d = r /\ s \in GhostRanks(r)
      BY <1>4, <2>2, ReadStill
    <2>3. CASE d = r /\ s \notin GhostRanks(r)
      <3>1. ~Applies(h, n, s, r, a)
        BY <1>1, <1>2, <2>3, KernelApplies DEF a
      <3>2. Read(k, h, n, s, r)' = IF Applies(h, n, s, r, a) THEN Read(k, h, n, s, r) \cup {a}
                                   ELSE Read(k, h, n, s, r)
        BY <1>2, <1>4, <1>5, <2>3, ReadMore
      <3> QED
        BY <2>3, <3>1, <3>2
    <2> QED
      BY <2>1, <2>2, <2>3
  <1> QED
    BY <1>6, <1>7 DEF a
(* The receive loops when the buffer is the right one *)
TakesReduction(r, s) ==
  LET b == Head(values[<<s, r>>]) IN
  /\ stage[r] = "reducing" /\ s \in awaited[r] /\ Arrives(r, s)
  /\ Take(r, s)
  /\ dv' = [dv EXCEPT ![r] = Summed(r, b)]
  /\ awaited' = [awaited EXCEPT ![r] = @ \ {s}]
  /\ stage' = [stage EXCEPT ![r] = IF awaited[r] = {s} THEN "broadcast" ELSE @]
  /\ UNCHANGED <<vars, round, vel, confused>>

TakesBroadcast(r, s) ==
  LET b == Head(values[<<s, r>>]) IN
  /\ stage[r] = "broadcasting" /\ s \in awaited[r] /\ Arrives(r, s)
  /\ Take(r, s)
  /\ vel' = [vel EXCEPT ![r] = [u \in Particle |-> IF u \in DOMAIN b THEN b[u] ELSE @[u]]]
  /\ dv' = [dv EXCEPT ![r] = [u \in Particle |-> IF u \in DOMAIN b THEN Nothing ELSE @[u]]]
  /\ awaited' = [awaited EXCEPT ![r] = @ \ {s}]
  /\ IF awaited[r] = {s} THEN NextRound(r) ELSE UNCHANGED <<stage, round>>
  /\ UNCHANGED <<vars, confused>>

LEMMA ReductionReadSets ==
  ASSUME NEW k, NEW h, NEW n, Solved(k, h, n), NEW r \in Rank, NEW q \in Rank,
         TakesReduction(r, q), NEW s \in Rank, NEW d \in Rank
  PROVE  LET m == <<k[r], round[r], 1>> IN
         /\ m = ReadsNext(k, r, q) /\ m \in Tick /\ Applies(h, n, q, r, m)
         /\ Sent(k, h, n, s, d)' = Sent(k, h, n, s, d)
         /\ Read(k, h, n, s, d)' = IF s = q /\ d = r THEN Read(k, h, n, s, d) \cup {m}
                                   ELSE Read(k, h, n, s, d)
  <1> DEFINE i == round[r]
             j == k[r]
             a == <<j, i, 1>>
             b == <<j, i, 2>>
  <1>1. /\ stage[r] = "reducing" /\ stage'[r] = IF awaited[r] = {q} THEN "broadcast" ELSE "reducing"
        /\ q \in awaited[r] /\ awaited[r] \subseteq GhostRanks(r)
        /\ awaited'[r] = awaited[r] \ {q}
        /\ round' = round /\ phase' = phase
    BY DEF Solved, SolverType, Staged, TakesReduction, vars
  <1>2. /\ j \in Nat /\ i \in 0 .. Rounds - 1 /\ phase[r] = "integrate"
        /\ a \in Tick /\ Applies(h, n, q, r, a)
    BY <1>1, RanksLinked, KernelApplies DEF Solved, SolverType
  <1>3. ASSUME NEW p \in Rank \ {r} PROVE Untouched(p)
    BY DEF Solved, SolverType, TakesReduction, vars, Untouched
  <1>4. /\ SendsNext(k, r) = b /\ SendsNext(k, r)' = b
        /\ \A p : ReadsNext(k, r, p) = IF p \in awaited[r] THEN a ELSE b
        /\ \A p : ReadsNext(k, r, p)' = IF p \in awaited[r] \ {q} THEN a ELSE b
    BY <1>1, <1>2 DEF SendsNext, ReadsNext
  <1>5. \A x, y \in Rank, t \in Tick : Applies(h, n, x, y, t) => (Before(t, b) <=> Before(t, a) \/ t = a)
    <2> SUFFICES ASSUME NEW x \in Rank, NEW y \in Rank, NEW t \in Tick, Applies(h, n, x, y, t)
                 PROVE  Before(t, b) <=> Before(t, a) \/ t = a
      OBVIOUS
    <2>1. j \in Nat /\ i \in 0 .. Rounds - 1
      BY <1>2
    <2> HIDE DEF i, j, a, b
    <2>2. Passed(t, j, i)
      BY <2>1, TicksPass
    <2> QED
      BY ONLY <2>2 DEF Passed, a, b
  <1> HIDE DEF a, b
  <1>6. Sent(k, h, n, s, d)' = Sent(k, h, n, s, d)
    BY <1>3, <1>4, UntouchedSets, SentStill
  <1>7. Read(k, h, n, q, r)' = Read(k, h, n, q, r) \cup {a}
    <2>1. ReadsNext(k, r, q) = a /\ ReadsNext(k, r, q)' = b
      BY <1>1, <1>4
    <2> QED
      BY <1>2, <1>5, <2>1, ReadMore
  <1>8. ASSUME ~(s = q /\ d = r)
        PROVE  Read(k, h, n, s, d)' = Read(k, h, n, s, d)
    <2>1. CASE d # r
      BY <1>3, <2>1, UntouchedSets
    <2>2. CASE d = r
      <3>1. ReadsNext(k, r, s)' = ReadsNext(k, r, s)
        BY <1>4, <1>8, <2>2
      <3> QED
        BY <2>2, <3>1, ReadStill
    <2> QED
      BY <2>1, <2>2
  <1>9. a = ReadsNext(k, r, q)
    BY <1>1, <1>4
  <1> QED
    BY <1>2, <1>6, <1>7, <1>8, <1>9 DEF a

LEMMA BroadcastSentSets ==
  ASSUME NEW k, NEW h, NEW n, Solved(k, h, n), NEW r \in Rank, SendBroadcast(r),
         NEW s \in Rank, NEW d \in Rank
  PROVE  LET t == <<k[r], round[r], 2>> IN
         /\ Sent(k, h, n, s, d)' = IF s = r /\ d \in GhostRanks(r)
                                   THEN Sent(k, h, n, s, d) \cup {t} ELSE Sent(k, h, n, s, d)
         /\ Read(k, h, n, s, d)' = Read(k, h, n, s, d)
  <1> DEFINE i == round[r]
             j == k[r]
             b == <<j, i, 2>>
             c == <<j, i, 3>>
             e == IF OwnerRanks(r) = {} THEN AfterRound(j, i) ELSE c
  <1>1. /\ stage[r] = "broadcast"
        /\ awaited'[r] = OwnerRanks(r)
        /\ OwnerRanks(r) = {} => NextRound(r)
        /\ OwnerRanks(r) # {} => stage'[r] = "broadcasting" /\ round' = round
        /\ phase' = phase
    BY DEF Solved, SolverType, SendBroadcast, vars
  <1>2. /\ j \in Nat /\ i \in 0 .. Rounds - 1 /\ phase[r] = "integrate"
        /\ b \in Tick /\ round \in [Rank -> 0 .. Rounds - 1] /\ stage \in [Rank -> Stage]
    BY <1>1, RanksLinked, KernelApplies DEF Solved, SolverType
  <1>3. ASSUME NEW q \in Rank \ {r} PROVE Untouched(q)
    BY DEF Solved, SolverType, SendBroadcast, vars, Untouched, NextRound
  <1>4. /\ SendsNext(k, r) = b /\ SendsNext(k, r)' = e
        /\ \A q : ReadsNext(k, r, q) = b
        /\ \A q : ReadsNext(k, r, q)' = IF q \in OwnerRanks(r) THEN b ELSE e
    <2>1. SendsNext(k, r) = b /\ \A q : ReadsNext(k, r, q) = b
      BY <1>1, <1>2 DEF SendsNext, ReadsNext
    <2>2. CASE OwnerRanks(r) = {}
      <3>1. phase'[r] = "integrate" /\ NextRound(r)
        BY <1>1, <1>2, <2>2
      <3>2. SendsNext(k, r)' = AfterRound(j, i) /\ \A q : ReadsNext(k, r, q)' = AfterRound(j, i)
        BY <1>2, <3>1, RoundClocks
      <3> QED
        BY <2>1, <2>2, <3>2
    <2>3. CASE OwnerRanks(r) # {}
      BY <1>1, <1>2, <2>1, <2>3 DEF SendsNext, ReadsNext
    <2> QED
      BY <2>2, <2>3
  <1>5. \A q, p \in Rank, t \in Tick : Applies(h, n, q, p, t) => (Before(t, e) <=> Before(t, b) \/ t = b)
    <2> SUFFICES ASSUME NEW q \in Rank, NEW p \in Rank, NEW t \in Tick, Applies(h, n, q, p, t)
                 PROVE  Before(t, e) <=> Before(t, b) \/ t = b
      OBVIOUS
    <2>1. j \in Nat /\ i \in 0 .. Rounds - 1
      BY <1>2
    <2> HIDE DEF i, j, b, c, e
    <2>2. Passed(t, j, i)
      BY <2>1, TicksPass
    <2> QED
      BY ONLY <2>2 DEF Passed, b, c, e
  <1> HIDE DEF b, e
  <1>6. Sent(k, h, n, s, d)' = IF s = r /\ d \in GhostRanks(r)
                               THEN Sent(k, h, n, s, d) \cup {b} ELSE Sent(k, h, n, s, d)
    <2>1. CASE s = r
      <3>1. Applies(h, n, r, d, b) <=> d \in GhostRanks(r)
        BY <1>1, <1>2, KernelApplies DEF b
      <3>2. Sent(k, h, n, r, d)' = IF Applies(h, n, r, d, b) THEN Sent(k, h, n, r, d) \cup {b}
                                   ELSE Sent(k, h, n, r, d)
        BY <1>2, <1>4, <1>5, SentMore
      <3> QED
        BY <2>1, <3>1, <3>2
    <2>2. CASE s # r
      BY <1>3, <2>2, UntouchedSets
    <2> QED
      BY <2>1, <2>2
  <1>7. Read(k, h, n, s, d)' = Read(k, h, n, s, d)
    <2>1. CASE d # r
      BY <1>3, <2>1, UntouchedSets
    <2>2. CASE d = r /\ s \in OwnerRanks(r)
      BY <1>4, <2>2, ReadStill
    <2>3. CASE d = r /\ s \notin OwnerRanks(r)
      <3>1. ~Applies(h, n, s, r, b)
        BY <1>1, <1>2, <2>3, KernelApplies DEF b
      <3>2. Read(k, h, n, s, r)' = IF Applies(h, n, s, r, b) THEN Read(k, h, n, s, r) \cup {b}
                                   ELSE Read(k, h, n, s, r)
        BY <1>2, <1>4, <1>5, <2>3, ReadMore
      <3> QED
        BY <2>3, <3>1, <3>2
    <2> QED
      BY <2>1, <2>2, <2>3
  <1> QED
    BY <1>6, <1>7 DEF b

LEMMA BroadcastReadSets ==
  ASSUME NEW k, NEW h, NEW n, Solved(k, h, n), NEW r \in Rank, NEW q \in Rank,
         TakesBroadcast(r, q), NEW s \in Rank, NEW d \in Rank
  PROVE  LET m == <<k[r], round[r], 2>> IN
         /\ m = ReadsNext(k, r, q) /\ m \in Tick /\ Applies(h, n, q, r, m)
         /\ Sent(k, h, n, s, d)' = Sent(k, h, n, s, d)
         /\ Read(k, h, n, s, d)' = IF s = q /\ d = r THEN Read(k, h, n, s, d) \cup {m}
                                   ELSE Read(k, h, n, s, d)
  <1> DEFINE i == round[r]
             j == k[r]
             b == <<j, i, 2>>
             c == <<j, i, 3>>
             e == IF awaited[r] = {q} THEN AfterRound(j, i) ELSE c
  <1>1. /\ stage[r] = "broadcasting"
        /\ q \in awaited[r] /\ awaited[r] \subseteq OwnerRanks(r)
        /\ awaited'[r] = awaited[r] \ {q}
        /\ awaited[r] = {q} => NextRound(r)
        /\ awaited[r] # {q} => stage' = stage /\ round' = round
        /\ phase' = phase
    BY DEF Solved, SolverType, Staged, TakesBroadcast, vars
  <1>2. /\ j \in Nat /\ i \in 0 .. Rounds - 1 /\ phase[r] = "integrate"
        /\ b \in Tick /\ Applies(h, n, q, r, b)
        /\ round \in [Rank -> 0 .. Rounds - 1] /\ stage \in [Rank -> Stage]
    BY <1>1, RanksLinked, KernelApplies DEF Solved, SolverType
  <1>3. ASSUME NEW p \in Rank \ {r} PROVE Untouched(p)
    BY DEF Solved, SolverType, TakesBroadcast, vars, Untouched, NextRound
  <1>4. /\ SendsNext(k, r) = c /\ SendsNext(k, r)' = e
        /\ \A p : ReadsNext(k, r, p) = IF p \in awaited[r] THEN b ELSE c
        /\ \A p : ReadsNext(k, r, p)' = IF p \in awaited[r] \ {q} THEN b ELSE e
    <2>1. SendsNext(k, r) = c /\ \A p : ReadsNext(k, r, p) = IF p \in awaited[r] THEN b ELSE c
      BY <1>1, <1>2 DEF SendsNext, ReadsNext
    <2>2. CASE awaited[r] = {q}
      <3>1. phase'[r] = "integrate" /\ NextRound(r)
        BY <1>1, <1>2, <2>2
      <3>2. SendsNext(k, r)' = AfterRound(j, i) /\ \A p : ReadsNext(k, r, p)' = AfterRound(j, i)
        BY <1>2, <3>1, RoundClocks
      <3> QED
        BY <2>1, <2>2, <3>2
    <2>3. CASE awaited[r] # {q}
      BY <1>1, <1>2, <2>1, <2>3 DEF SendsNext, ReadsNext
    <2> QED
      BY <2>2, <2>3
  <1>5. \A x, y \in Rank, t \in Tick : Applies(h, n, x, y, t) =>
          /\ Before(t, e) <=> Before(t, b) \/ t = b
          /\ Before(t, e) <=> Before(t, c)
    <2> SUFFICES ASSUME NEW x \in Rank, NEW y \in Rank, NEW t \in Tick, Applies(h, n, x, y, t)
                 PROVE  /\ Before(t, e) <=> Before(t, b) \/ t = b
                        /\ Before(t, e) <=> Before(t, c)
      OBVIOUS
    <2>1. j \in Nat /\ i \in 0 .. Rounds - 1
      BY <1>2
    <2> HIDE DEF i, j, b, c, e
    <2>2. Passed(t, j, i)
      BY <2>1, TicksPass
    <2> QED
      BY ONLY <2>2 DEF Passed, b, c, e
  <1> HIDE DEF b, c, e
  <1>6. Sent(k, h, n, s, d)' = Sent(k, h, n, s, d)
    <2>1. CASE s # r
      BY <1>3, <2>1, UntouchedSets
    <2>2. CASE s = r
      BY <1>4, <1>5, <2>2, SentStill
    <2> QED
      BY <2>1, <2>2
  <1>7. Read(k, h, n, q, r)' = Read(k, h, n, q, r) \cup {b}
    <2>1. ReadsNext(k, r, q) = b /\ ReadsNext(k, r, q)' = e
      BY <1>1, <1>4
    <2> QED
      BY <1>2, <1>5, <2>1, ReadMore
  <1>8. ASSUME ~(s = q /\ d = r)
        PROVE  Read(k, h, n, s, d)' = Read(k, h, n, s, d)
    <2>1. CASE d # r
      BY <1>3, <2>1, UntouchedSets
    <2>2. CASE d = r
      <3>1. \/ ReadsNext(k, r, s)' = ReadsNext(k, r, s)
            \/ ReadsNext(k, r, s)' = e /\ ReadsNext(k, r, s) = c
        BY <1>4, <1>8, <2>2
      <3> QED
        BY <1>5, <2>2, <3>1, ReadStill
    <2> QED
      BY <2>1, <2>2
  <1>9. b = ReadsNext(k, r, q)
    BY <1>1, <1>4
  <1> QED
    BY <1>2, <1>6, <1>7, <1>8, <1>9 DEF b
LEMMA RelaxSets ==
  ASSUME NEW k, NEW h, NEW n, Solved(k, h, n), NEW r \in Rank, Relax(r) \/ IntegrateStep(r),
         NEW s \in Rank, NEW d \in Rank
  PROVE  Sent(k, h, n, s, d)' = Sent(k, h, n, s, d) /\ Read(k, h, n, s, d)' = Read(k, h, n, s, d)
  <1>1. SendsNext(k, r)' = SendsNext(k, r) /\ \A p : ReadsNext(k, r, p)' = ReadsNext(k, r, p)
    <2>1. CASE Relax(r)
      <3>1. stage[r] = "relax" /\ stage'[r] = "reduce" /\ phase[r] = "integrate"
            /\ round' = round /\ phase' = phase
        BY <2>1 DEF Solved, SolverType, Staged, Relax, vars
      <3> QED
        BY <3>1 DEF SendsNext, ReadsNext
    <2>2. CASE IntegrateStep(r)
      <3>1. stage[r] = "done" /\ stage'[r] = "sync" /\ phase'[r] = "sync"
        BY <2>2 DEF Solved, SolverType, TypeOK, IntegrateStep, Integrate
      <3> QED
        BY <3>1 DEF SendsNext, ReadsNext
    <2> QED
      BY <2>1, <2>2
  <1>2. ASSUME NEW q \in Rank \ {r}
        PROVE  SendsNext(k, q)' = SendsNext(k, q) /\ \A p : ReadsNext(k, q, p)' = ReadsNext(k, q, p)
    <2>1. /\ stage'[q] = stage[q] /\ round'[q] = round[q]
          /\ phase'[q] = phase[q] /\ pending'[q] = pending[q] /\ awaited'[q] = awaited[q]
      BY DEF Solved, SolverType, TypeOK, Relax, IntegrateStep, Integrate, vars, comm
    <2> QED
      BY <2>1 DEF SendsNext, ReadsNext
  <1>3. Sent(k, h, n, s, d)' = Sent(k, h, n, s, d)
    BY <1>1, <1>2, SentStill
  <1>4. Read(k, h, n, s, d)' = Read(k, h, n, s, d)
    BY <1>1, <1>2, ReadStill
  <1> QED
    BY <1>3, <1>4

(* Synchronization without a failed check *)
TakesNotes(r, s) ==
  /\ phase[r] = "parse" /\ s \in pending[r] /\ Arrives(r, s) /\ chan[<<s, r>>] # <<>>
  /\ ParseBuffer(r, s) /\ AfterSync(r) /\ Take(r, s)

Walks(r) ==
  /\ stage[r] = "sync" /\ phase[r] = "sync"
  /\ WalkAndSend(r) /\ AfterSync(r) /\ Send(r, Opened(r), "sync", <<>>)

LEMMA SyncReadSets ==
  ASSUME NEW k, NEW h, NEW n, Solved(k, h, n), NEW r \in Rank, NEW q \in Rank,
         TakesNotes(r, q), NEW s \in Rank, NEW d \in Rank
  PROVE  LET m == <<k[r], 0, 0>> IN
         /\ m = ReadsNext(k, r, q) /\ m \in Tick /\ Applies(h, n, q, r, m)
         /\ Sent(k, h, n, s, d)' = Sent(k, h, n, s, d)
         /\ Read(k, h, n, s, d)' = IF s = q /\ d = r THEN Read(k, h, n, s, d) \cup {m}
                                   ELSE Read(k, h, n, s, d)
  <1> DEFINE j == k[r]
             a == <<j, 0, 0>>
             b == <<j, 0, 1>>
             done == pending[r] = {q}
  <1>1. /\ TypeOK /\ SolverType /\ Staged /\ Paced(k) /\ j \in Nat /\ ParseBuffer(r, q)
        /\ phase[r] = "parse" /\ q \in pending[r] /\ AfterSync(r)
    BY DEF Solved, Traced, Histories, TakesNotes
  <1>2. /\ \A p \in Rank : pending'[p] = IF p = r THEN pending[p] \ {q} ELSE pending[p]
        /\ \A p \in Rank : phase'[p] = IF p # r THEN phase[p]
                                       ELSE IF pending[p] = {q} THEN "integrate" ELSE "parse"
    BY <1>1, ParseWaits
  <1>3. /\ stage[r] = "sync" /\ round[r] = 0
        /\ stage'[r] = IF done THEN "relax" ELSE "sync"
        /\ \A p \in Rank : round'[p] = round[p] /\ awaited'[p] = awaited[p]
        /\ \A p \in Rank \ {r} : stage'[p] = stage[p]
    BY <1>1, <1>2 DEF Staged, SolverType, AfterSync
  <1>4. /\ SendsNext(k, r) = b /\ SendsNext(k, r)' = b
        /\ \A p : ReadsNext(k, r, p) = IF p \in pending[r] THEN a ELSE b
        /\ \A p : ReadsNext(k, r, p)' = IF p \in pending[r] \ {q} THEN a ELSE b
    <2>1. SendsNext(k, r) = b /\ \A p : ReadsNext(k, r, p) = IF p \in pending[r] THEN a ELSE b
      BY <1>1, <1>3 DEF SendsNext, ReadsNext
    <2>2. CASE done
      <3>1. phase'[r] = "integrate" /\ stage'[r] = "relax" /\ round'[r] = 0
        BY <1>2, <1>3, <2>2
      <3> QED
        BY <2>1, <2>2, <3>1 DEF SendsNext, ReadsNext
    <2>3. CASE ~done
      <3>1. phase'[r] = "parse" /\ stage'[r] = "sync" /\ pending'[r] = pending[r] \ {q}
        BY <1>2, <1>3, <2>3
      <3> QED
        BY <2>1, <3>1 DEF SendsNext, ReadsNext
    <2> QED
      BY <2>2, <2>3
  <1>5. ASSUME NEW p \in Rank \ {r}
        PROVE  SendsNext(k, p)' = SendsNext(k, p) /\ \A e : ReadsNext(k, p, e)' = ReadsNext(k, p, e)
    <2>1. /\ stage'[p] = stage[p] /\ round'[p] = round[p]
          /\ phase'[p] = phase[p] /\ pending'[p] = pending[p] /\ awaited'[p] = awaited[p]
      BY <1>2, <1>3
    <2> QED
      BY <2>1 DEF SendsNext, ReadsNext
  <1>6. a \in Tick /\ Applies(h, n, q, r, a)
    <2>1. q \in Nbr[r]
      BY <1>1 DEF Paced
    <2>2. r \in Nbr[q]
      BY <2>1, NeighborAssumption
    <2> QED
      BY <1>1, <2>2, RoundsAssumption DEF Applies, Tick
  <1>7. \A x, y \in Rank, t \in Tick : Applies(h, n, x, y, t) => (Before(t, b) <=> Before(t, a) \/ t = a)
    <2> SUFFICES ASSUME NEW x \in Rank, NEW y \in Rank, NEW t \in Tick, Applies(h, n, x, y, t)
                 PROVE  Before(t, b) <=> Before(t, a) \/ t = a
      OBVIOUS
    <2>1. j \in Nat /\ 0 \in 0 .. Rounds - 1
      BY <1>1, RoundsAssumption
    <2> HIDE DEF j, a, b
    <2>2. Passed(t, j, 0)
      BY <2>1, TicksPass
    <2> QED
      BY ONLY <2>2 DEF Passed, a, b
  <1> HIDE DEF a, b, done
  <1>8. Sent(k, h, n, s, d)' = Sent(k, h, n, s, d)
    BY <1>4, <1>5, SentStill
  <1>9. Read(k, h, n, q, r)' = Read(k, h, n, q, r) \cup {a}
    <2>1. ReadsNext(k, r, q) = a /\ ReadsNext(k, r, q)' = b
      BY <1>1, <1>4
    <2> QED
      BY <1>6, <1>7, <2>1, ReadMore
  <1>10. ASSUME ~(s = q /\ d = r)
         PROVE  Read(k, h, n, s, d)' = Read(k, h, n, s, d)
    <2>1. ReadsNext(k, d, s)' = ReadsNext(k, d, s)
      BY <1>4, <1>5, <1>10
    <2> QED
      BY <2>1, ReadStill
  <1>11. a = ReadsNext(k, r, q)
    BY <1>1, <1>4
  <1> QED
    BY <1>6, <1>8, <1>9, <1>10, <1>11 DEF a
-----------------------------------------------------------------------------
(* A walk of the masters adds chapters *)

(* The links it adds are of its own chapter, between itself and its neighbours. *)
LEMMA WalkLinks ==
  ASSUME SmallParticles, NEW k, NEW h, NEW n, Solved(k, h, n), NEW r \in Rank, phase[r] = "sync",
         NEW k2, NEW h2, NEW n2, Recorded(r, k, h, n, k2, h2, n2),
         NEW u \in Particle, NEW j \in Nat, NEW o \in Rank, NEW g \in Rank
  PROVE  /\ Linked(h, n, u, j, o, g) => Linked(h2, n2, u, j, o, g) /\ h2[u][j] = h[u][j]
         /\ Linked(h2, n2, u, j, o, g) =>
              \/ Linked(h, n, u, j, o, g)
              \/ j = k[r] + 1 /\ o \in Nbr[r] \cup {r} /\ g \in Nbr[r] \cup {r}
  <1>1. TypeOK /\ Histories(k, h, n) /\ Traced(k, h, n)
    BY DEF Solved
  <1>2. /\ IsHandled(r, u) => n2[u] = n[u] + 1 /\ h2[u][n[u] + 1] = Written(r, u)
        /\ ~IsHandled(r, u) => n2[u] = n[u] /\ h2[u] = h[u]
        /\ \A i \in Nat : i <= n[u] => h2[u][i] = h[u][i]
    BY <1>1, RecordedType
  <1>3. n[u] \in Nat
    BY <1>1 DEF Histories
  <1>4. Linked(h, n, u, j, o, g) => Linked(h2, n2, u, j, o, g) /\ h2[u][j] = h[u][j]
    BY <1>2, <1>3 DEF Linked
  <1>5. ASSUME Linked(h2, n2, u, j, o, g), ~Linked(h, n, u, j, o, g)
        PROVE  j = k[r] + 1 /\ o \in Nbr[r] \cup {r} /\ g \in Nbr[r] \cup {r}
    <2>1. ~(j <= n[u])
      BY <1>2, <1>5 DEF Linked
    <2>2. IsHandled(r, u) /\ j = n[u] + 1
      BY <1>2, <1>3, <1>5, <2>1 DEF Linked
    <2>3. u \in Particle \ NonCommunicating /\ k[r] = n[u]
      BY <1>1, <2>2, WalkReads DEF IsHandled
    <2>4. o = Written(r, u).owner /\ g \in Written(r, u).ghosts
      BY <1>2, <1>5, <2>2 DEF Linked
    <2>5. /\ Written(r, u).owner \in Nbr[r] \cup {r, NoRank}
          /\ Written(r, u).ghosts \subseteq Nbr[r] \cup {r}
      BY <1>1, WrittenOK
    <2> QED
      BY <2>2, <2>3, <2>4, <2>5, RankAssumption
  <1> QED
    BY <1>4, <1>5

(* Nobody near r is past the synchronization of that chapter. *)
LEMMA NearClocks ==
  ASSUME NEW k, NEW h, NEW n, Solved(k, h, n), NEW r \in Rank, phase[r] = "sync",
         NEW s \in Nbr[r], NEW t \in Tick, t[1] = k[r] + 1, t[3] # 0
  PROVE  ~Before(t, SendsNext(k, s)) /\ \A p : ~Before(t, ReadsNext(k, s, p))
  <1>1. /\ TypeOK /\ SolverType /\ Staged /\ k \in [Rank -> Nat] /\ Paced(k)
        /\ s \in Rank /\ k[s] \in Nat /\ k[r] \in Nat
    BY NotOwnNbr DEF Solved, Histories, Traced
  <1>2. pending[r] = {}
    BY <1>1 DEF Paced
  <1>3. k[s] <= k[r] + 1 /\ (r \notin pending[s] => k[s] <= k[r])
    BY <1>1, Apart
  <1>4. t[1] \in Nat /\ t[2] \in Nat /\ t[3] \in Nat
    BY DEF Tick
  <1>5. round[s] \in Nat /\ stage[s] \in Stage
    BY <1>1, RoundsAssumption DEF SolverType
  <1>6. CASE k[s] <= k[r]
    <2>1. /\ SendsNext(k, s)[1] <= k[s] /\ SendsNext(k, s)[1] \in Nat
          \/ SendsNext(k, s) = <<k[s] + 1, 0, 0>>
      BY <1>1, <1>5 DEF SendsNext, Stage
    <2>2. ASSUME NEW p
          PROVE  /\ ReadsNext(k, s, p)[1] <= k[s] /\ ReadsNext(k, s, p)[1] \in Nat
                 \/ ReadsNext(k, s, p) = <<k[s] + 1, 0, 0>>
      BY <1>1, <1>5 DEF ReadsNext, Stage
    <2> HIDE DEF SendsNext, ReadsNext
    <2>3. ~Before(t, SendsNext(k, s))
      BY <1>1, <1>4, <1>6, <2>1 DEF Before
    <2>4. ASSUME NEW p PROVE ~Before(t, ReadsNext(k, s, p))
      BY <1>1, <1>4, <1>6, <2>2 DEF Before
    <2> QED
      BY <2>3, <2>4
  <1>7. CASE ~(k[s] <= k[r])
    <2>1. k[s] = k[r] + 1 /\ r \in pending[s]
      BY <1>1, <1>3, <1>7
    <2>2. phase[s] = "parse"
      BY <1>1, <2>1 DEF Paced
    <2>3. stage[s] = "sync"
      BY <1>1, <2>2 DEF Staged
    <2>4. SendsNext(k, s) = <<k[s], 0, 1>>
      BY <2>2, <2>3 DEF SendsNext
    <2>5. \A p : ReadsNext(k, s, p) = <<k[s], 0, IF p \in pending[s] THEN 0 ELSE 1>>
      BY <2>2, <2>3 DEF ReadsNext
    <2>6. ~Before(t, SendsNext(k, s))
      BY <1>1, <1>4, <2>1, <2>4 DEF Before
    <2>7. ASSUME NEW p PROVE ~Before(t, ReadsNext(k, s, p))
      BY <1>1, <1>4, <2>1, <2>5 DEF Before
    <2> QED
      BY <2>6, <2>7
  <1> QED
    BY <1>6, <1>7

(* The clocks after a walk *)
LEMMA WalkClocks ==
  ASSUME SmallParticles, NEW k, NEW h, NEW n, Solved(k, h, n), NEW r \in Rank, Walks(r),
         NEW k2, NEW h2, NEW n2, Recorded(r, k, h, n, k2, h2, n2)
  PROVE  /\ k[r] \in Nat
         /\ SendsNext(k, r) = <<k[r] + 1, 0, 0>> /\ SendsNext(k2, r)' = <<k[r] + 1, 0, 1>>
         /\ \A p : ReadsNext(k, r, p) = <<k[r] + 1, 0, 0>>
         /\ \A p : ReadsNext(k2, r, p)' = <<k[r] + 1, 0, IF p \in Nbr[r] THEN 0 ELSE 1>>
         /\ \A q \in Rank \ {r} : /\ SendsNext(k2, q)' = SendsNext(k, q)
                                  /\ \A p : ReadsNext(k2, q, p)' = ReadsNext(k, q, p)
  <1>1. /\ TypeOK /\ SolverType /\ Staged /\ Histories(k, h, n) /\ Traced(k, h, n)
        /\ phase[r] = "sync" /\ stage[r] = "sync" /\ WalkAndSend(r) /\ AfterSync(r)
    BY DEF Solved, Walks
  <1>2. /\ \A d \in Rank : pending'[d] = IF d = r THEN Nbr[r] ELSE pending[d]
        /\ phase'[r] = IF Nbr[r] = {} THEN "integrate" ELSE "parse"
        /\ \A d \in Rank \ {r} : phase'[d] = phase[d]
    BY <1>1, WalkSteps
  <1>3. k[r] \in Nat /\ k2[r] = k[r] + 1 /\ \A d \in Rank \ {r} : k2[d] = k[d]
    BY <1>1, RecordedType DEF Histories
  <1>4. /\ round[r] = 0
        /\ stage'[r] = IF Nbr[r] = {} THEN "relax" ELSE "sync"
        /\ \A d \in Rank : round'[d] = round[d] /\ awaited'[d] = awaited[d]
        /\ \A d \in Rank \ {r} : stage'[d] = stage[d]
    BY <1>1, <1>2 DEF Staged, SolverType, AfterSync
  <1>5. SendsNext(k, r) = <<k[r] + 1, 0, 0>> /\ \A p : ReadsNext(k, r, p) = <<k[r] + 1, 0, 0>>
    BY <1>1 DEF SendsNext, ReadsNext
  <1>6. /\ SendsNext(k2, r)' = <<k[r] + 1, 0, 1>>
        /\ \A p : ReadsNext(k2, r, p)' = <<k[r] + 1, 0, IF p \in Nbr[r] THEN 0 ELSE 1>>
    <2>1. CASE Nbr[r] = {}
      <3>1. stage'[r] = "relax" /\ phase'[r] = "integrate" /\ round'[r] = 0
        BY <1>2, <1>4, <2>1
      <3> QED
        BY <1>3, <2>1, <3>1 DEF SendsNext, ReadsNext
    <2>2. CASE Nbr[r] # {}
      <3>1. stage'[r] = "sync" /\ phase'[r] = "parse" /\ pending'[r] = Nbr[r]
        BY <1>2, <1>4, <2>2
      <3> QED
        BY <1>3, <3>1 DEF SendsNext, ReadsNext
    <2> QED
      BY <2>1, <2>2
  <1>7. ASSUME NEW q \in Rank \ {r}
        PROVE  SendsNext(k2, q)' = SendsNext(k, q) /\ \A p : ReadsNext(k2, q, p)' = ReadsNext(k, q, p)
    <2>1. /\ stage'[q] = stage[q] /\ round'[q] = round[q] /\ k2[q] = k[q]
          /\ phase'[q] = phase[q] /\ pending'[q] = pending[q] /\ awaited'[q] = awaited[q]
      BY <1>2, <1>3, <1>4
    <2> QED
      BY <2>1 DEF SendsNext, ReadsNext
  <1> QED
    BY <1>3, <1>5, <1>6, <1>7
(* So the links of the new chapter are not written about yet. *)
LEMMA NewNotYet ==
  ASSUME SmallParticles, NEW k, NEW h, NEW n, Solved(k, h, n), NEW r \in Rank, Walks(r),
         NEW k2, NEW h2, NEW n2, Recorded(r, k, h, n, k2, h2, n2),
         NEW q \in Nbr[r] \cup {r}, NEW t \in Tick, t[1] = k[r] + 1, t[3] # 0
  PROVE  ~Before(t, SendsNext(k2, q)') /\ \A p : ~Before(t, ReadsNext(k2, q, p)')
  <1>1. CASE q = r
    <2>1. /\ k[r] \in Nat /\ SendsNext(k2, r)' = <<k[r] + 1, 0, 1>>
          /\ \A p : ReadsNext(k2, r, p)' = <<k[r] + 1, 0, IF p \in Nbr[r] THEN 0 ELSE 1>>
      BY WalkClocks
    <2>2. t[1] \in Nat /\ t[2] \in Nat /\ t[3] \in Nat
      BY DEF Tick
    <2>3. ~Before(t, <<k[r] + 1, 0, 1>>) /\ ~Before(t, <<k[r] + 1, 0, 0>>)
      BY <2>1, <2>2 DEF Before
    <2>4. ASSUME NEW p PROVE ~Before(t, ReadsNext(k2, r, p)')
      <3>1. \/ ReadsNext(k2, r, p)' = <<k[r] + 1, 0, 1>>
            \/ ReadsNext(k2, r, p)' = <<k[r] + 1, 0, 0>>
        BY <2>1
      <3> QED
        BY <2>3, <3>1
    <2> QED
      BY <1>1, <2>1, <2>3, <2>4
  <1>2. CASE q \in Nbr[r]
    <2>1. q \in Rank \ {r} /\ phase[r] = "sync"
      BY <1>2, NotOwnNbr DEF Walks
    <2>2. ~Before(t, SendsNext(k, q)) /\ \A p : ~Before(t, ReadsNext(k, q, p))
      BY <1>2, <2>1, NearClocks
    <2>3. SendsNext(k2, q)' = SendsNext(k, q) /\ \A p : ReadsNext(k2, q, p)' = ReadsNext(k, q, p)
      BY <2>1, WalkClocks
    <2> QED
      BY <2>2, <2>3
  <1> QED
    BY <1>1, <1>2

LEMMA WalkApplies ==
  ASSUME SmallParticles, NEW k, NEW h, NEW n, Solved(k, h, n), NEW r \in Rank, Walks(r),
         NEW k2, NEW h2, NEW n2, Recorded(r, k, h, n, k2, h2, n2),
         NEW s \in Rank, NEW d \in Rank, NEW t \in Tick,
         Before(t, SendsNext(k2, s)') \/ Before(t, ReadsNext(k2, d, s)')
  PROVE  /\ Applies(h2, n2, s, d, t) <=> Applies(h, n, s, d, t)
         /\ t[3] # 0 => Said(h2, n2, s, d)[t] = Said(h, n, s, d)[t]
  <1>1. /\ phase[r] = "sync" /\ t[1] \in Nat
    BY DEF Walks, Tick
  <1>2. ~(t[1] = k[r] + 1 /\ t[3] # 0 /\ s \in Nbr[r] \cup {r} /\ d \in Nbr[r] \cup {r})
    BY NewNotYet
  <1>3. ASSUME NEW u \in Particle, t[3] # 0
        PROVE  /\ Linked(h2, n2, u, t[1], s, d) <=> Linked(h, n, u, t[1], s, d)
               /\ Linked(h2, n2, u, t[1], d, s) <=> Linked(h, n, u, t[1], d, s)
               /\ Linked(h, n, u, t[1], s, d) => h2[u][t[1]] = h[u][t[1]]
    <2>1. /\ Linked(h, n, u, t[1], s, d) => Linked(h2, n2, u, t[1], s, d) /\ h2[u][t[1]] = h[u][t[1]]
          /\ Linked(h2, n2, u, t[1], s, d) =>
               \/ Linked(h, n, u, t[1], s, d)
               \/ t[1] = k[r] + 1 /\ s \in Nbr[r] \cup {r} /\ d \in Nbr[r] \cup {r}
      BY <1>1, WalkLinks
    <2>2. /\ Linked(h, n, u, t[1], d, s) => Linked(h2, n2, u, t[1], d, s)
          /\ Linked(h2, n2, u, t[1], d, s) =>
               \/ Linked(h, n, u, t[1], d, s)
               \/ t[1] = k[r] + 1 /\ d \in Nbr[r] \cup {r} /\ s \in Nbr[r] \cup {r}
      BY <1>1, WalkLinks
    <2> QED
      BY <1>2, <1>3, <2>1, <2>2
  <1>4. Applies(h2, n2, s, d, t) <=> Applies(h, n, s, d, t)
    BY <1>3 DEF Applies
  <1>5. ASSUME t[3] # 0 PROVE Said(h2, n2, s, d)[t] = Said(h, n, s, d)[t]
    <2>1. /\ Joint(h2, n2, t[1], d, s) = Joint(h, n, t[1], d, s)
          /\ Joint(h2, n2, t[1], s, d) = Joint(h, n, t[1], s, d)
          /\ \A u \in Joint(h, n, t[1], s, d) : h2[u][t[1]] = h[u][t[1]]
      BY <1>3, <1>5 DEF Joint
    <2> QED
      BY <2>1 DEF Said
  <1> QED
    BY <1>4, <1>5

(* A walk puts one buffer to each neighbour under way, takes none, and leaves what is
   under way as it is. *)
WalkSends(k, h, n, r, k2, h2, n2, s, d) ==
  LET t == <<k[r] + 1, 0, 0>> IN
  /\ t \in Tick
  /\ Sent(k2, h2, n2, s, d)' = IF s = r /\ d \in Nbr[r] THEN Sent(k, h, n, s, d) \cup {t}
                               ELSE Sent(k, h, n, s, d)
  /\ Read(k2, h2, n2, s, d)' = Read(k, h, n, s, d)
  /\ \A q \in Sent(k, h, n, s, d) : q[3] # 0 => Said(h2, n2, s, d)[q] = Said(h, n, s, d)[q]
  /\ s = r => \A q \in Sent(k, h, n, s, d) : Before(q, t)

LEMMA WalkSets ==
  ASSUME SmallParticles, NEW k, NEW h, NEW n, Solved(k, h, n), NEW r \in Rank, Walks(r),
         NEW k2, NEW h2, NEW n2, Recorded(r, k, h, n, k2, h2, n2),
         NEW s \in Rank, NEW d \in Rank
  PROVE  WalkSends(k, h, n, r, k2, h2, n2, s, d)
  <1> DEFINE a == <<k[r] + 1, 0, 0>>
             b == <<k[r] + 1, 0, 1>>
  <1>1. /\ k[r] \in Nat
        /\ SendsNext(k, r) = a /\ SendsNext(k2, r)' = b
        /\ \A p : ReadsNext(k, r, p) = a
        /\ \A p : ReadsNext(k2, r, p)' = IF p \in Nbr[r] THEN a ELSE b
    <2>1. \A p : ReadsNext(k2, r, p)' = <<k[r] + 1, 0, IF p \in Nbr[r] THEN 0 ELSE 1>>
      BY WalkClocks
    <2>2. \A p : ReadsNext(k2, r, p)' = IF p \in Nbr[r] THEN a ELSE b
      BY <2>1
    <2> QED
      BY <2>2, WalkClocks
  <1>2. \A q \in Rank \ {r} : /\ SendsNext(k2, q)' = SendsNext(k, q)
                              /\ \A p : ReadsNext(k2, q, p)' = ReadsNext(k, q, p)
    BY WalkClocks
  <1>3. a \in Tick
    BY <1>1 DEF Tick
  <1>4. ASSUME NEW p \in Rank, NEW q \in Rank, NEW t \in Tick, Applies(h, n, p, q, t)
        PROVE  Before(t, b) <=> Before(t, a) \/ t = a
    <2>1. 0 \in 0 .. Rounds - 1 /\ k[r] + 1 \in Nat
      BY <1>1, RoundsAssumption
    <2> HIDE DEF a, b
    <2>2. Passed(t, k[r] + 1, 0)
      BY <1>4, <2>1, TicksPass
    <2> QED
      BY ONLY <2>2 DEF Passed, a, b
  <1>5. ASSUME NEW p \in Rank
        PROVE  /\ Applies(h, n, r, p, a) <=> p \in Nbr[r]
               /\ Applies(h, n, p, r, a) <=> p \in Nbr[r]
    BY <1>1, RoundsAssumption, NeighborAssumption DEF Applies
  <1> HIDE DEF a, b
  <1>6. ASSUME NEW t \in Tick, Before(t, SendsNext(k2, s)') \/ Before(t, ReadsNext(k2, d, s)')
        PROVE  /\ Applies(h2, n2, s, d, t) <=> Applies(h, n, s, d, t)
               /\ t[3] # 0 => Said(h2, n2, s, d)[t] = Said(h, n, s, d)[t]
    BY <1>6, WalkApplies
  <1>7. Sent(k2, h2, n2, s, d)' = {t \in Tick : Applies(h, n, s, d, t) /\ Before(t, SendsNext(k2, s)')}
    BY <1>6 DEF Sent
  <1>8. Read(k2, h2, n2, s, d)' = {t \in Tick : Applies(h, n, s, d, t) /\ Before(t, ReadsNext(k2, d, s)')}
    BY <1>6 DEF Read
  <1>9. Sent(k2, h2, n2, s, d)' = IF s = r /\ d \in Nbr[r] THEN Sent(k, h, n, s, d) \cup {a}
                                  ELSE Sent(k, h, n, s, d)
    <2>1. CASE s # r
      BY <1>2, <1>7, <2>1 DEF Sent
    <2>2. CASE s = r
      <3>1. \A t \in Tick : Applies(h, n, r, d, t) =>
              (Before(t, SendsNext(k2, r)') <=> Before(t, SendsNext(k, r)) \/ t = a)
        BY <1>1, <1>4
      <3>2. Sent(k2, h2, n2, s, d)' = {t \in Tick : Applies(h, n, r, d, t) /\ (Before(t, SendsNext(k, r)) \/ t = a)}
        BY <1>7, <2>2, <3>1
      <3>3. Sent(k, h, n, s, d) = {t \in Tick : Applies(h, n, r, d, t) /\ Before(t, SendsNext(k, r))}
        BY <2>2 DEF Sent
      <3> QED
        BY <1>3, <1>5, <2>2, <3>2, <3>3
    <2> QED
      BY <2>1, <2>2
  <1>10. Read(k2, h2, n2, s, d)' = Read(k, h, n, s, d)
    <2>1. \A t \in Tick : Applies(h, n, s, d, t) =>
            (Before(t, ReadsNext(k2, d, s)') <=> Before(t, ReadsNext(k, d, s)))
      <3>1. CASE d # r
        BY <1>2, <3>1
      <3>2. CASE d = r /\ s \in Nbr[r]
        BY <1>1, <3>2
      <3>3. CASE d = r /\ s \notin Nbr[r]
        <4>1. ~Applies(h, n, s, r, a)
          BY <1>5, <3>3
        <4> QED
          BY <1>1, <1>4, <3>3, <4>1
      <3> QED
        BY <3>1, <3>2, <3>3
    <2> QED
      BY <1>8, <2>1 DEF Read
  <1>11. ASSUME NEW q \in Sent(k, h, n, s, d)
         PROVE  /\ q[3] # 0 => Said(h2, n2, s, d)[q] = Said(h, n, s, d)[q]
                /\ s = r => Before(q, a)
    <2>1. q \in Tick /\ q \in Sent(k2, h2, n2, s, d)' /\ Before(q, SendsNext(k, s))
      BY <1>9 DEF Sent
    <2>2. Before(q, SendsNext(k2, s)')
      BY <1>7, <2>1
    <2> QED
      BY <1>1, <1>6, <2>1, <2>2
  <1> QED
    BY <1>3, <1>9, <1>10, <1>11 DEF a, WalkSends
-----------------------------------------------------------------------------
(* Sums *)

LEMMA TimesType ==
  ASSUME NEW m \in Nat, NEW S
  PROVE  Times(m, S) \in Amount
  BY DEF Times, Amount

LEMMA TimesReads ==
  ASSUME NEW S, NEW i \in Nat
  PROVE  /\ Times(0, S) = Nothing
         /\ \A r \in Rank : Share(r) = Times(1, {r})
         /\ \A a \in Amount : Plus(Nothing, a) = a
         /\ Plus(Times(i, S), Times(1, S)) = Times(i + 1, S)
         /\ \A s : s \notin S => Plus(Times(1, S), Times(1, {s})) = Times(1, S \cup {s})
  <1>1. Times(0, S) = Nothing
    BY DEF Times, Nothing
  <1>2. \A r \in Rank : Share(r) = Times(1, {r})
    BY DEF Times, Share
  <1>3. ASSUME NEW a \in Amount PROVE Plus(Nothing, a) = a
    BY DEF Plus, Nothing, Amount
  <1>4. Plus(Times(i, S), Times(1, S)) = Times(i + 1, S)
    BY DEF Plus, Times
  <1>5. ASSUME NEW s, s \notin S PROVE Plus(Times(1, S), Times(1, {s})) = Times(1, S \cup {s})
    BY <1>5 DEF Plus, Times
  <1> QED
    BY <1>1, <1>2, <1>3, <1>4, <1>5

LEMMA SumTypes ==
  /\ Nothing \in Amount
  /\ \A r \in Rank : Share(r) \in Amount
  /\ \A a, b \in Amount : Plus(a, b) \in Amount
  BY DEF Nothing, Share, Plus, Amount

LEMMA SumsFrame ==
  ASSUME NEW k, NEW h, NEW k2, NEW h2, NEW q, NEW u, Untouched(q), CopySums(k, h, q, u),
         IsGhost(q, u) => h2[u][k2[q]].ghosts = h[u][k[q]].ghosts
  PROVE  CopySums(k2, h2, q, u)'
  <1>1. /\ stage'[q] = stage[q] /\ round'[q] = round[q] /\ awaited'[q] = awaited[q]
        /\ ps'[q] = ps[q] /\ dv'[q] = dv[q] /\ vel'[q] = vel[q]
    BY DEF Untouched
  <1>2. IsMaster(q, u)' => MasterSums(q, u)'
    BY <1>1 DEF CopySums, MasterSums, LoneSums, SharedSums, Has, IsMaster
  <1>3. ASSUME IsGhost(q, u)
        PROVE  GhostSums(q, u, ps[q][u].owner, h2[u][k2[q]].ghosts \cup {ps[q][u].owner})'
    <2>1. GhostSums(q, u, ps[q][u].owner, h2[u][k2[q]].ghosts \cup {ps[q][u].owner})
      BY <1>3 DEF CopySums
    <2> QED
      BY <1>1, <2>1 DEF GhostSums
  <1>4. IsGhost(q, u)' <=> IsGhost(q, u)
    BY <1>1 DEF IsGhost
  <1> QED
    BY <1>2, <1>3, <1>4 DEF CopySums
LEMMA RelaxSums ==
  ASSUME NEW k, NEW h, NEW n, Solved(k, h, n), NEW r \in Rank, Relax(r), NEW u \in Particle
  PROVE  CopySums(k, h, r, u)'
  <1> DEFINE i == round[r]
  <1>1. /\ SolverType /\ SumsRight(k, h) /\ stage[r] = "relax" /\ stage'[r] = "reduce"
        /\ round' = round /\ ps' = ps /\ awaited' = awaited
        /\ i \in Nat /\ dv[r][u] \in Amount /\ vel[r][u] \in Amount
    BY RoundsAssumption DEF Solved, SolverType, Relax, vars, comm
  <1>2. CopySums(k, h, r, u)
    BY <1>1 DEF SumsRight
  <1>3. ASSUME ps[r][u].kind # "none"
        PROVE  /\ vel'[r][u] = IF i = 0 THEN Nothing ELSE vel[r][u]
               /\ dv'[r][u] = IF i = 0 THEN Times(1, {r}) ELSE Plus(dv[r][u], Times(1, {r}))
    <2>1. Share(r) = Times(1, {r})
      BY TimesReads
    <2>2. CASE i = 0
      <3>1. /\ dv' = [dv EXCEPT ![r] = [v \in Particle |->
                        IF ps[r][v].kind = "none" THEN Nothing ELSE Share(r)]]
            /\ vel' = [vel EXCEPT ![r] = [v \in Particle |-> Nothing]]
        BY <2>2 DEF Relax
      <3> QED
        BY <1>1, <1>3, <2>1, <2>2, <3>1 DEF SolverType
    <2>3. CASE i # 0
      <3>1. /\ dv' = [dv EXCEPT ![r] = [v \in Particle |->
                        Plus(dv[r][v], [w \in Particle |->
                               IF ps[r][w].kind = "none" THEN Nothing ELSE Share(r)][v])]]
            /\ vel' = vel
        BY <1>1, <2>3 DEF Relax, SolverType
      <3> QED
        BY <1>1, <1>3, <2>1, <2>3, <3>1 DEF SolverType
    <2> QED
      BY <2>2, <2>3
  <1>4. /\ Plus(Nothing, Times(1, {r})) = Times(1, {r})
        /\ Plus(Times(i, {r}), Times(1, {r})) = Times(i + 1, {r})
        /\ \A S : Times(0, S) = Nothing
    BY <1>1, TimesReads, TimesType
  <1> HIDE DEF i
  <1>5. IsMaster(r, u)' => MasterSums(r, u)'
    <2> SUFFICES ASSUME IsMaster(r, u) PROVE MasterSums(r, u)'
      BY <1>1 DEF IsMaster
    <2>1. ps[r][u].kind # "none"
      BY DEF IsMaster
    <2>2. CASE ps[r][u].ghosts = {}
      <3>1. i # 0 => vel[r][u] = Nothing /\ dv[r][u] = Times(i, {r})
        BY <1>1, <1>2, <2>2 DEF CopySums, MasterSums, LoneSums, Has, i
      <3>2. vel'[r][u] = Nothing /\ dv'[r][u] = Times(i + 1, {r})
        BY <1>1, <1>3, <1>4, <2>1, <3>1
      <3> QED
        BY <1>1, <2>2, <3>2 DEF MasterSums, LoneSums, Has, i
    <2>3. CASE ps[r][u].ghosts # {}
      <3> DEFINE all == ps[r][u].ghosts \cup {r}
      <3>1. i # 0 => vel[r][u] = Times(i, all) /\ dv[r][u] = Nothing
        BY <1>1, <1>2, <2>3 DEF CopySums, MasterSums, SharedSums, Has, i
      <3>2. vel'[r][u] = Times(i, all) /\ dv'[r][u] = Times(1, {r})
        BY <1>1, <1>3, <1>4, <2>1, <3>1
      <3> QED
        BY <1>1, <2>3, <3>2 DEF MasterSums, SharedSums, Has, i
    <2> QED
      BY <2>2, <2>3
  <1>6. IsGhost(r, u) => dv'[r][u] = Times(1, {r})
    <2> SUFFICES ASSUME IsGhost(r, u) PROVE dv'[r][u] = Times(1, {r})
      OBVIOUS
    <2>1. ps[r][u].kind # "none"
      BY DEF IsGhost
    <2>2. i # 0 => dv[r][u] = Nothing
      BY <1>1, <1>2 DEF CopySums, GhostSums, i
    <2> QED
      BY <1>3, <1>4, <2>1, <2>2
  <1>7. ASSUME IsGhost(r, u)
        PROVE  GhostSums(r, u, ps[r][u].owner, h[u][k[r]].ghosts \cup {ps[r][u].owner})'
    BY <1>1, <1>6, <1>7 DEF GhostSums
  <1>8. IsGhost(r, u)' <=> IsGhost(r, u)
    BY <1>1 DEF IsGhost
  <1> QED
    BY <1>5, <1>7, <1>8 DEF CopySums

LEMMA ReductionSentSums ==
  ASSUME NEW k, NEW h, NEW n, Solved(k, h, n), NEW r \in Rank, SendReduction(r), NEW u \in Particle
  PROVE  CopySums(k, h, r, u)'
  <1>1. /\ SolverType /\ SumsRight(k, h) /\ stage[r] = "reduce" /\ round' = round
        /\ stage'[r] = IF GhostRanks(r) = {} THEN "broadcast" ELSE "reducing"
        /\ ps' = ps /\ awaited'[r] = GhostRanks(r)
        /\ vel' = vel /\ dv'[r][u] = IF IsGhost(r, u) THEN Nothing ELSE dv[r][u]
    BY DEF Solved, SolverType, SendReduction, vars, comm
  <1>2. CopySums(k, h, r, u)
    BY <1>1 DEF SumsRight
  <1>3. r \notin GhostRanks(r)
    BY <1>1, RanksLinked
  <1>4. IsMaster(r, u)' => MasterSums(r, u)'
    <2> SUFFICES ASSUME IsMaster(r, u) PROVE MasterSums(r, u)'
      BY <1>1 DEF IsMaster
    <2>1. dv'[r][u] = dv[r][u] /\ vel'[r][u] = vel[r][u]
      BY <1>1 DEF IsMaster, IsGhost
    <2>2. CASE ps[r][u].ghosts = {}
      BY <1>1, <1>2, <2>1, <2>2 DEF CopySums, MasterSums, LoneSums, Has
    <2>3. CASE ps[r][u].ghosts # {}
      <3> DEFINE all == ps[r][u].ghosts \cup {r}
      <3>1. ps[r][u].ghosts \subseteq GhostRanks(r)
        BY DEF GhostRanks, Masters
      <3>2. all \ GhostRanks(r) = {r} /\ GhostRanks(r) # {}
        BY <1>3, <2>3, <3>1
      <3>3. vel[r][u] = Times(round[r], all) /\ dv[r][u] = Times(1, {r})
        BY <1>1, <1>2, <2>3 DEF CopySums, MasterSums, SharedSums, Has
      <3> QED
        BY <1>1, <2>1, <2>3, <3>2, <3>3 DEF MasterSums, SharedSums, Has
    <2> QED
      BY <2>2, <2>3
  <1>5. ASSUME IsGhost(r, u)
        PROVE  GhostSums(r, u, ps[r][u].owner, h[u][k[r]].ghosts \cup {ps[r][u].owner})'
    BY <1>1, <1>5 DEF GhostSums
  <1>6. IsGhost(r, u)' <=> IsGhost(r, u)
    BY <1>1 DEF IsGhost
  <1> QED
    BY <1>4, <1>5, <1>6 DEF CopySums
LEMMA SaidReduction ==
  ASSUME NEW h, NEW n, NEW s, NEW d, NEW m \in Tick, m[3] = 1
  PROVE  /\ DOMAIN Said(h, n, s, d)[m] = Joint(h, n, m[1], d, s)
         /\ \A u \in Joint(h, n, m[1], d, s) : Said(h, n, s, d)[m][u] = Times(1, {s})
  BY DEF Said

(* What owner o tells its ghost u on r in the round of r *)
Result(k, h, r, o, u) == Times(round[r] + 1, h[u][k[r]].ghosts \cup {o})

(* The next buffer is the one waited for. *)
LEMMA HeadReduction ==
  ASSUME NEW k, NEW h, NEW n, Solved(k, h, n), NEW r \in Rank, NEW q \in Rank,
         stage[r] = "reducing", q \in awaited[r], Arrives(r, q)
  PROVE  /\ Head(wire[<<q, r>>]) = "reduce" /\ values[<<q, r>>] # <<>>
         /\ DOMAIN Head(values[<<q, r>>]) = {v \in Particle : IsMaster(r, v) /\ q \in ps[r][v].ghosts}
         /\ \A u \in DOMAIN Head(values[<<q, r>>]) : Head(values[<<q, r>>])[u] = Times(1, {q})
  <1> DEFINE m == <<k[r], round[r], 1>>
             b == Head(values[<<q, r>>])
             U == Joint(h, n, k[r], r, q)
  <1>1. /\ TypeOK /\ SolverType /\ Walled /\ Histories(k, h, n) /\ Traced(k, h, n) /\ WiresCarry(k, h, n)
        /\ wire[<<q, r>>] # <<>> /\ awaited[r] \subseteq GhostRanks(r) /\ round[r] \in 0 .. Rounds - 1
    BY DEF Solved, SolverType, Staged, Arrives
  <1>2. phase[r] = "integrate" /\ m \in Tick /\ Applies(h, n, q, r, m)
    BY <1>1, RanksLinked, KernelApplies
  <1>3. ReadsNext(k, r, q) = m
    BY <1>2 DEF ReadsNext
  <1>4. /\ Head(wire[<<q, r>>]) = KernelAt[m]
        /\ m[3] # 0 => values[<<q, r>>] # <<>> /\ b = Said(h, n, q, r)[m]
    BY <1>1, <1>2, <1>3, UnderWayFirst
  <1>5. KernelAt[m] = "reduce"
    BY <1>2, KernelReads
  <1>6. DOMAIN Said(h, n, q, r)[m] = U /\ \A u \in U : Said(h, n, q, r)[m][u] = Times(1, {q})
    <2>1. m \in Tick /\ m[1] = k[r] /\ m[3] = 1
      BY <1>2
    <2> HIDE DEF m
    <2> QED
      BY <2>1, SaidReduction
  <1>7. values[<<q, r>>] # <<>> /\ b = Said(h, n, q, r)[m]
    BY <1>4
  <1>8. U = {v \in Particle : IsMaster(r, v) /\ q \in ps[r][v].ghosts}
    <2>1. \A v \in Particle : IsMaster(r, v) /\ q \in ps[r][v].ghosts <=> Linked(h, n, v, k[r], r, q)
      BY <1>1, <1>2, CopiesLinked
    <2> QED
      BY <2>1 DEF Joint
  <1> HIDE DEF b, m, U
  <1>9. DOMAIN b = U /\ \A u \in DOMAIN b : b[u] = Times(1, {q})
    BY <1>6, <1>7
  <1> QED
    BY <1>4, <1>5, <1>7, <1>8, <1>9 DEF b

LEMMA HeadBroadcast ==
  ASSUME NEW k, NEW h, NEW n, Solved(k, h, n), NEW r \in Rank, NEW q \in Rank,
         stage[r] = "broadcasting", q \in awaited[r], Arrives(r, q)
  PROVE  /\ Head(wire[<<q, r>>]) = "broadcast" /\ values[<<q, r>>] # <<>>
         /\ DOMAIN Head(values[<<q, r>>]) = {v \in Particle : IsGhost(r, v) /\ ps[r][v].owner = q}
         /\ \A u \in DOMAIN Head(values[<<q, r>>]) :
              Head(values[<<q, r>>])[u] = Result(k, h, r, q, u)
  <1> DEFINE m == <<k[r], round[r], 2>>
             b == Head(values[<<q, r>>])
             U == Joint(h, n, k[r], q, r)
  <1>1. /\ TypeOK /\ SolverType /\ Walled /\ Histories(k, h, n) /\ Traced(k, h, n) /\ WiresCarry(k, h, n)
        /\ wire[<<q, r>>] # <<>> /\ awaited[r] \subseteq OwnerRanks(r) /\ round[r] \in 0 .. Rounds - 1
    BY DEF Solved, SolverType, Staged, Arrives
  <1>2. phase[r] = "integrate" /\ m \in Tick /\ Applies(h, n, q, r, m)
    BY <1>1, RanksLinked, KernelApplies
  <1>3. ReadsNext(k, r, q) = m
    BY <1>2 DEF ReadsNext
  <1>4. /\ Head(wire[<<q, r>>]) = KernelAt[m]
        /\ m[3] # 0 => values[<<q, r>>] # <<>> /\ b = Said(h, n, q, r)[m]
    BY <1>1, <1>2, <1>3, UnderWayFirst
  <1>5. KernelAt[m] = "broadcast"
    BY <1>2, KernelReads
  <1>6. DOMAIN Said(h, n, q, r)[m] = U /\ \A u \in U : Said(h, n, q, r)[m][u] = Result(k, h, r, q, u)
    <2>1. m \in Tick /\ m[1] = k[r] /\ m[2] = round[r] /\ m[3] = 2
      BY <1>2
    <2> HIDE DEF m
    <2>2. m \in Tick /\ m[3] = 2
      BY <2>1
    <2>3. Said(h, n, q, r)[m] = [u \in Joint(h, n, m[1], q, r) |->
                                   Times(m[2] + 1, h[u][m[1]].ghosts \cup {q})]
      BY <2>2 DEF Said
    <2> QED
      BY <2>1, <2>3 DEF Result
  <1>7. values[<<q, r>>] # <<>> /\ b = Said(h, n, q, r)[m]
    BY <1>4
  <1>8. U = {v \in Particle : IsGhost(r, v) /\ ps[r][v].owner = q}
    <2>1. \A v \in Particle : IsGhost(r, v) /\ ps[r][v].owner = q <=> Linked(h, n, v, k[r], q, r)
      BY <1>1, <1>2, CopiesLinked
    <2> QED
      BY <2>1 DEF Joint
  <1> HIDE DEF b, m, U
  <1>9. DOMAIN b = U /\ \A u \in DOMAIN b : b[u] = Result(k, h, r, q, u)
    BY <1>6, <1>7
  <1> QED
    BY <1>4, <1>5, <1>7, <1>8, <1>9 DEF b

LEMMA ReductionReadSums ==
  ASSUME NEW k, NEW h, NEW n, Solved(k, h, n), NEW r \in Rank, NEW q \in Rank,
         TakesReduction(r, q), NEW u \in Particle
  PROVE  CopySums(k, h, r, u)'
  <1> DEFINE b == Head(values[<<q, r>>])
             told == IsMaster(r, u) /\ q \in ps[r][u].ghosts
  <1>1. /\ SolverType /\ SumsRight(k, h) /\ stage[r] = "reducing" /\ q \in awaited[r] /\ Arrives(r, q)
        /\ stage'[r] = IF awaited[r] = {q} THEN "broadcast" ELSE "reducing"
        /\ awaited'[r] = awaited[r] \ {q} /\ awaited[r] \subseteq GhostRanks(r)
        /\ round' = round /\ ps' = ps /\ vel' = vel
        /\ dv'[r][u] = IF u \in DOMAIN b THEN Plus(dv[r][u], b[u]) ELSE dv[r][u]
    BY DEF Solved, SolverType, Staged, TakesReduction, vars, Summed
  <1>2. CopySums(k, h, r, u)
    BY <1>1 DEF SumsRight
  <1>3. q # r /\ r \notin awaited[r]
    BY <1>1, RanksLinked
  <1>4. /\ DOMAIN b = {w \in Particle : IsMaster(r, w) /\ q \in ps[r][w].ghosts}
        /\ \A v \in DOMAIN b : b[v] = Times(1, {q})
    BY <1>1, HeadReduction
  <1>5. dv'[r][u] = IF told THEN Plus(dv[r][u], Times(1, {q})) ELSE dv[r][u]
    BY <1>1, <1>4
  <1> HIDE DEF b
  <1>6. IsMaster(r, u)' => MasterSums(r, u)'
    <2> SUFFICES ASSUME IsMaster(r, u) PROVE MasterSums(r, u)'
      BY <1>1 DEF IsMaster
    <2>1. CASE ps[r][u].ghosts = {}
      BY <1>1, <1>2, <1>5, <2>1 DEF CopySums, MasterSums, LoneSums, Has
    <2>2. CASE ps[r][u].ghosts # {}
      <3> DEFINE all == ps[r][u].ghosts \cup {r}
                 rest == awaited[r] \ {q}
      <3>1. vel[r][u] = Times(round[r], all) /\ dv[r][u] = Times(1, all \ awaited[r])
        BY <1>1, <1>2, <2>2 DEF CopySums, MasterSums, SharedSums, Has
      <3>2. dv'[r][u] = Times(1, all \ rest)
        <4>1. CASE told
          <5>1. q \notin all \ awaited[r] /\ (all \ awaited[r]) \cup {q} = all \ rest
            BY <1>1, <4>1
          <5>2. Plus(Times(1, all \ awaited[r]), Times(1, {q})) = Times(1, (all \ awaited[r]) \cup {q})
            BY <5>1, TimesReads
          <5> QED
            BY <1>5, <3>1, <4>1, <5>1, <5>2
        <4>2. CASE ~told
          <5>1. all \ awaited[r] = all \ rest
            BY <1>3, <4>2
          <5> QED
            BY <1>5, <3>1, <4>2, <5>1
        <4> QED
          BY <4>1, <4>2
      <3>3. awaited[r] = {q} => all \ rest = all
        OBVIOUS
      <3> QED
        BY <1>1, <2>2, <3>1, <3>2, <3>3 DEF MasterSums, SharedSums, Has
    <2> QED
      BY <2>1, <2>2
  <1>7. ASSUME IsGhost(r, u)
        PROVE  GhostSums(r, u, ps[r][u].owner, h[u][k[r]].ghosts \cup {ps[r][u].owner})'
    <2>1. dv[r][u] = Nothing
      BY <1>1, <1>2, <1>7 DEF CopySums, GhostSums
    <2>2. dv'[r][u] = Nothing
      BY <1>5, <1>7, <2>1 DEF IsMaster, IsGhost
    <2> QED
      BY <1>1, <2>2 DEF GhostSums
  <1>8. IsGhost(r, u)' <=> IsGhost(r, u)
    BY <1>1 DEF IsGhost
  <1> QED
    BY <1>6, <1>7, <1>8 DEF CopySums

(* Where the end of a round leaves the sums *)
LEMMA RoundSums ==
  ASSUME NEW r \in Rank, NextRound(r), SolverType, NEW i, i = round[r]
  PROVE  /\ i \in Nat
         /\ \/ stage'[r] = "done" /\ i + 1 = Rounds
            \/ stage'[r] = "relax" /\ round'[r] = i + 1
  <1>1. i \in Nat /\ round[r] \in 0 .. Rounds - 1
    BY RoundsAssumption DEF SolverType
  <1> QED
    BY <1>1 DEF NextRound, SolverType

LEMMA RoundMoves ==
  ASSUME NEW r \in Rank, NextRound(r), SolverType
  PROVE  /\ stage' \in [Rank -> Stage] /\ round' \in [Rank -> 0 .. Rounds - 1]
         /\ stage'[r] \in {"done", "relax"} /\ (stage'[r] = "done" => round'[r] = 0)
         /\ \A q \in Rank \ {r} : stage'[q] = stage[q] /\ round'[q] = round[q]
  <1>1. /\ stage \in [Rank -> Stage] /\ round \in [Rank -> 0 .. Rounds - 1]
        /\ "done" \in Stage /\ "relax" \in Stage
    BY DEF SolverType, Stage
  <1> DEFINE i == IF round[r] + 1 = Rounds THEN 0 ELSE round[r] + 1
             g == IF round[r] + 1 = Rounds THEN "done" ELSE "relax"
  <1>2. i \in 0 .. Rounds - 1
    BY <1>1, RoundsAssumption
  <1>3. /\ round' = [round EXCEPT ![r] = i] /\ stage' = [stage EXCEPT ![r] = g]
        /\ g \in {"done", "relax"} /\ (g = "done" => i = 0) /\ g \in Stage
    BY <1>1 DEF NextRound
  <1> HIDE DEF i, g
  <1> QED
    BY <1>1, <1>2, <1>3

LEMMA BroadcastSentSums ==
  ASSUME NEW k, NEW h, NEW n, Solved(k, h, n), NEW r \in Rank, SendBroadcast(r), NEW u \in Particle
  PROVE  CopySums(k, h, r, u)'
  <1> DEFINE i == round[r]
             written == IsMaster(r, u) /\ ps[r][u].ghosts # {}
             on == stage'[r] = "broadcasting" /\ round'[r] = i
             over == \/ stage'[r] = "done" /\ i + 1 = Rounds
                     \/ stage'[r] = "relax" /\ round'[r] = i + 1
  <1>1. /\ SolverType /\ SumsRight(k, h) /\ stage[r] = "broadcast" /\ ps' = ps
        /\ awaited'[r] = OwnerRanks(r)
        /\ OwnerRanks(r) = {} => NextRound(r)
        /\ OwnerRanks(r) # {} => on
        /\ vel'[r][u] = IF written THEN Plus(vel[r][u], dv[r][u]) ELSE vel[r][u]
        /\ dv'[r][u] = IF written THEN Nothing ELSE dv[r][u]
    BY DEF Solved, SolverType, SendBroadcast, vars, comm, Masters
  <1>2. CopySums(k, h, r, u)
    BY <1>1 DEF SumsRight
  <1>3. i \in Nat /\ (OwnerRanks(r) = {} => over)
    <2>1. i \in Nat
      BY <1>1, RoundsAssumption DEF SolverType
    <2> QED
      BY <1>1, <2>1, RoundSums
  <1>4. on \/ over
    BY <1>1, <1>3
  <1>5. IsMaster(r, u)' => MasterSums(r, u)'
    <2> SUFFICES ASSUME IsMaster(r, u) PROVE MasterSums(r, u)'
      BY <1>1 DEF IsMaster
    <2>1. CASE ps[r][u].ghosts = {}
      <3>1. vel'[r][u] = Nothing /\ dv'[r][u] = Times(i + 1, {r})
        BY <1>1, <1>2, <2>1 DEF CopySums, MasterSums, LoneSums, Has
      <3>2. LoneSums(r, u)'
        BY <1>4, <3>1 DEF LoneSums, Has
      <3> QED
        BY <1>1, <2>1, <3>2 DEF MasterSums
    <2>2. CASE ps[r][u].ghosts # {}
      <3> DEFINE all == ps[r][u].ghosts \cup {r}
      <3>1. vel[r][u] = Times(i, all) /\ dv[r][u] = Times(1, all)
        BY <1>1, <1>2, <2>2 DEF CopySums, MasterSums, SharedSums, Has
      <3>2. Plus(Times(i, all), Times(1, all)) = Times(i + 1, all)
        BY <1>3, TimesReads
      <3>3. vel'[r][u] = Times(i + 1, all) /\ dv'[r][u] = Nothing
        BY <1>1, <2>2, <3>1, <3>2
      <3> QED
        BY <1>1, <1>4, <2>2, <3>3 DEF MasterSums, SharedSums, Has
    <2> QED
      BY <2>1, <2>2
  <1>6. ASSUME IsGhost(r, u)
        PROVE  GhostSums(r, u, ps[r][u].owner, h[u][k[r]].ghosts \cup {ps[r][u].owner})'
    <2>1. dv'[r][u] = Nothing
      BY <1>1, <1>2, <1>6 DEF CopySums, GhostSums, IsMaster, IsGhost
    <2>2. ps[r][u].owner \in OwnerRanks(r)
      BY <1>6 DEF OwnerRanks, Ghosts
    <2>3. on
      BY <1>1, <2>2
    <2> QED
      BY <1>1, <2>1, <2>2, <2>3 DEF GhostSums
  <1>7. IsGhost(r, u)' <=> IsGhost(r, u)
    BY <1>1 DEF IsGhost
  <1> QED
    BY <1>5, <1>6, <1>7 DEF CopySums

LEMMA BroadcastReadSums ==
  ASSUME NEW k, NEW h, NEW n, Solved(k, h, n), NEW r \in Rank, NEW q \in Rank,
         TakesBroadcast(r, q), NEW u \in Particle
  PROVE  CopySums(k, h, r, u)'
  <1> DEFINE b == Head(values[<<q, r>>])
             i == round[r]
             told == IsGhost(r, u) /\ ps[r][u].owner = q
             all == h[u][k[r]].ghosts \cup {ps[r][u].owner}
             on == stage'[r] = "broadcasting" /\ round'[r] = i
             over == \/ stage'[r] = "done" /\ i + 1 = Rounds
                     \/ stage'[r] = "relax" /\ round'[r] = i + 1
  <1>1. /\ SolverType /\ SumsRight(k, h) /\ stage[r] = "broadcasting" /\ ps' = ps
        /\ q \in awaited[r] /\ Arrives(r, q)
        /\ awaited'[r] = awaited[r] \ {q}
        /\ awaited[r] = {q} => NextRound(r)
        /\ awaited[r] # {q} => on
        /\ vel'[r][u] = IF u \in DOMAIN b THEN b[u] ELSE vel[r][u]
        /\ dv'[r][u] = IF u \in DOMAIN b THEN Nothing ELSE dv[r][u]
    BY DEF Solved, SolverType, TakesBroadcast, vars
  <1>2. CopySums(k, h, r, u)
    BY <1>1 DEF SumsRight
  <1>3. i \in Nat /\ (awaited[r] = {q} => over)
    <2>1. i \in Nat
      BY <1>1, RoundsAssumption DEF SolverType
    <2> QED
      BY <1>1, <2>1, RoundSums
  <1>4. on \/ over
    BY <1>1, <1>3
  <1>5. /\ DOMAIN b = {v \in Particle : IsGhost(r, v) /\ ps[r][v].owner = q}
        /\ \A v \in DOMAIN b : b[v] = Result(k, h, r, q, v)
    BY <1>1, HeadBroadcast
  <1>6. /\ told => vel'[r][u] = Times(i + 1, all) /\ dv'[r][u] = Nothing
        /\ ~told => vel'[r][u] = vel[r][u] /\ dv'[r][u] = dv[r][u]
    BY <1>1, <1>5 DEF Result
  <1> HIDE DEF b, all
  <1>7. IsMaster(r, u)' => MasterSums(r, u)'
    <2> SUFFICES ASSUME IsMaster(r, u) PROVE MasterSums(r, u)'
      BY <1>1 DEF IsMaster
    <2>1. vel'[r][u] = vel[r][u] /\ dv'[r][u] = dv[r][u]
      BY <1>6 DEF IsMaster, IsGhost
    <2>2. CASE ps[r][u].ghosts = {}
      <3>1. vel'[r][u] = Nothing /\ dv'[r][u] = Times(i + 1, {r})
        BY <1>1, <1>2, <2>1, <2>2 DEF CopySums, MasterSums, LoneSums, Has
      <3>2. LoneSums(r, u)'
        BY <1>4, <3>1 DEF LoneSums, Has
      <3> QED
        BY <1>1, <2>2, <3>2 DEF MasterSums
    <2>3. CASE ps[r][u].ghosts # {}
      <3> DEFINE both == ps[r][u].ghosts \cup {r}
      <3>1. vel'[r][u] = Times(i + 1, both) /\ dv'[r][u] = Nothing
        BY <1>1, <1>2, <2>1, <2>3 DEF CopySums, MasterSums, SharedSums, Has
      <3> QED
        BY <1>1, <1>4, <2>3, <3>1 DEF MasterSums, SharedSums, Has
    <2> QED
      BY <2>2, <2>3
  <1>8. ASSUME IsGhost(r, u)
        PROVE  GhostSums(r, u, ps[r][u].owner, h[u][k[r]].ghosts \cup {ps[r][u].owner})'
    <2> DEFINE o == ps[r][u].owner
    <2>1. dv[r][u] = Nothing /\ (o \notin awaited[r] => vel[r][u] = Times(i + 1, all))
      BY <1>1, <1>2, <1>8 DEF CopySums, GhostSums, all
    <2>2. dv'[r][u] = Nothing
      BY <1>6, <2>1
    <2>3. o \notin awaited'[r] => vel'[r][u] = Times(i + 1, all)
      BY <1>1, <1>6, <1>8, <2>1
    <2>4. over => awaited'[r] = {}
      BY <1>1, <1>3
    <2> QED
      BY <1>1, <1>4, <2>2, <2>3, <2>4 DEF GhostSums, all
  <1>9. IsGhost(r, u)' <=> IsGhost(r, u)
    BY <1>1 DEF IsGhost
  <1> QED
    BY <1>7, <1>8, <1>9 DEF CopySums
-----------------------------------------------------------------------------
(* What is sent is what the links and the sums say. *)

LEMMA ReductionSaid ==
  ASSUME NEW k, NEW h, NEW n, Solved(k, h, n), NEW r \in Rank, stage[r] = "reduce",
         NEW d \in Rank, NEW m \in Tick, m = <<k[r], round[r], 1>>
  PROVE  Reduction(r, d) \in Contents /\ Reduction(r, d) = Said(h, n, r, d)[m]
  <1> DEFINE U == {v \in Ghosts(r) : ps[r][v].owner = d}
             J == Joint(h, n, k[r], d, r)
  <1>1. /\ TypeOK /\ Walled /\ Histories(k, h, n) /\ Traced(k, h, n) /\ SumsRight(k, h)
        /\ phase[r] = "integrate" /\ m[1] = k[r] /\ m[3] = 1
    BY RanksLinked DEF Solved
  <1>2. U = J
    <2>1. \A v \in Particle : IsGhost(r, v) /\ ps[r][v].owner = d <=> Linked(h, n, v, k[r], d, r)
      BY <1>1, CopiesLinked
    <2> QED
      BY <2>1 DEF Joint, Ghosts
  <1>3. \A u \in U : dv[r][u] = Times(1, {r})
    BY <1>1 DEF SumsRight, CopySums, GhostSums, Ghosts
  <1>4. J \subseteq Particle /\ Times(1, {r}) \in Amount
    BY TimesType DEF Joint
  <1>5. Said(h, n, r, d)[m] = [u \in J |-> Times(1, {r})]
    BY <1>1 DEF Said
  <1>6. Reduction(r, d) = [u \in U |-> dv[r][u]]
    BY DEF Reduction
  <1> HIDE DEF U, J
  <1>7. Reduction(r, d) = [u \in J |-> Times(1, {r})]
    BY <1>2, <1>3, <1>6
  <1>8. [u \in J |-> Times(1, {r})] \in [J -> Amount]
    BY <1>4
  <1> QED
    BY <1>4, <1>5, <1>7, <1>8 DEF Contents

LEMMA BroadcastSaid ==
  ASSUME NEW k, NEW h, NEW n, Solved(k, h, n), NEW r \in Rank, stage[r] = "broadcast",
         NEW d \in Rank, NEW m \in Tick, m = <<k[r], round[r], 2>>
  PROVE  Broadcast(r, d) \in Contents /\ Broadcast(r, d) = Said(h, n, r, d)[m]
  <1> DEFINE U == {v \in Masters(r) : d \in ps[r][v].ghosts}
             J == Joint(h, n, k[r], r, d)
             all(u) == h[u][k[r]].ghosts \cup {r}
             i == round[r]
  <1>1. /\ TypeOK /\ Walled /\ Histories(k, h, n) /\ Traced(k, h, n) /\ SumsRight(k, h)
        /\ phase[r] = "integrate" /\ m[1] = k[r] /\ m[2] = i /\ m[3] = 2 /\ i \in Nat
    <2>1. i \in Nat
      BY RoundsAssumption DEF Solved, SolverType
    <2>2. phase[r] = "integrate"
      BY RanksLinked
    <2> QED
      BY <2>1, <2>2 DEF Solved
  <1>2. U = J
    <2>1. \A v \in Particle : IsMaster(r, v) /\ d \in ps[r][v].ghosts <=> Linked(h, n, v, k[r], r, d)
      BY <1>1, CopiesLinked
    <2> QED
      BY <2>1 DEF Joint, Masters
  <1>3. \A u \in U : Plus(vel[r][u], dv[r][u]) = Times(i + 1, all(u))
    <2> SUFFICES ASSUME NEW u \in U PROVE Plus(vel[r][u], dv[r][u]) = Times(i + 1, all(u))
      OBVIOUS
    <2>1. u \in Particle /\ IsMaster(r, u) /\ ps[r][u].ghosts # {}
      BY DEF Masters
    <2>2. ps[r][u].ghosts = h[u][k[r]].ghosts
      BY <1>1, <2>1, CopiesLinked
    <2>3. vel[r][u] = Times(i, all(u)) /\ dv[r][u] = Times(1, all(u))
      BY <1>1, <2>1, <2>2 DEF SumsRight, CopySums, MasterSums, SharedSums, Has
    <2> HIDE DEF all, i
    <2>4. Plus(Times(i, all(u)), Times(1, all(u))) = Times(i + 1, all(u))
      BY <1>1, TimesReads
    <2> QED
      BY <2>3, <2>4
  <1>4. J \subseteq Particle /\ \A u : Times(i + 1, all(u)) \in Amount
    BY <1>1, TimesType DEF Joint
  <1>5. Said(h, n, r, d)[m] = [u \in J |-> Times(i + 1, all(u))]
    <2>1. Said(h, n, r, d)[m] = [u \in Joint(h, n, m[1], r, d) |->
                                   Times(m[2] + 1, h[u][m[1]].ghosts \cup {r})]
      <3>1. m \in Tick /\ m[3] = 2
        BY <1>1
      <3> QED
        BY ONLY <3>1 DEF Said
    <2> QED
      BY <1>1, <2>1
  <1>6. Broadcast(r, d) = [u \in U |-> Plus(vel[r][u], dv[r][u])]
    BY DEF Broadcast
  <1> HIDE DEF U, J, all, i
  <1>7. Broadcast(r, d) = [u \in J |-> Times(i + 1, all(u))]
    BY <1>2, <1>3, <1>6
  <1>8. [u \in J |-> Times(i + 1, all(u))] \in [J -> Amount]
    BY <1>4
  <1> QED
    BY <1>4, <1>5, <1>7, <1>8 DEF Contents

-----------------------------------------------------------------------------
(* Steps that leave the synchronization alone *)

LEMMA SyncSame ==
  ASSUME UNCHANGED vars, NEW k, NEW h, NEW n, Solved(k, h, n)
  PROVE  TypeOK' /\ Walled' /\ Traced(k, h, n)' /\ Histories(k, h, n)
  <1>1. TypeOK'
    BY TypeNext DEF Solved
  <1>2. Walled'
    BY DEF Solved, Walled, vars
  <1> QED
    BY <1>1, <1>2, TraceSame DEF Solved

LEMMA OtherSums ==
  ASSUME NEW k, NEW h, NEW n, Solved(k, h, n), NEW r \in Rank,
         \A q \in Rank \ {r} : Untouched(q),
         \A u \in Particle : CopySums(k, h, r, u)'
  PROVE  SumsRight(k, h)'
  <1> SUFFICES ASSUME NEW q \in Rank, NEW u \in Particle, stage'[q] # "sync"
               PROVE  CopySums(k, h, q, u)'
    BY DEF SumsRight
  <1>1. CASE q = r
    BY <1>1
  <1>2. CASE q # r
    <2>1. Untouched(q) /\ stage[q] # "sync"
      BY <1>2 DEF Untouched
    <2>2. CopySums(k, h, q, u)
      BY <2>1 DEF Solved, SumsRight
    <2> QED
      BY <2>1, <2>2, SumsFrame
  <1> QED
    BY <1>1, <1>2

(* What remains to be shown of such a step *)
LEMMA SolvedSame ==
  ASSUME UNCHANGED vars, NEW k, NEW h, NEW n, Solved(k, h, n), NEW r \in Rank,
         \A q \in Rank \ {r} : Untouched(q),
         \A u \in Particle : CopySums(k, h, r, u)',
         SolverType', Staged', WiresCarry(k, h, n)'
  PROVE  Solved(k, h, n)'
  <1>1. TypeOK' /\ Walled' /\ Traced(k, h, n)' /\ Histories(k, h, n)
    BY SyncSame
  <1>2. SumsRight(k, h)'
    BY OtherSums
  <1>3. Histories(k, h, n)'
    BY <1>1 DEF Histories
  <1> QED
    BY <1>1, <1>2, <1>3 DEF Solved

LEMMA StagedSame ==
  ASSUME UNCHANGED vars, Staged, NEW r \in Rank, \A q \in Rank \ {r} : Untouched(q),
         phase[r] = "integrate", stage'[r] # "sync", stage'[r] = "done" => round'[r] = 0,
         stage'[r] = "reducing" => awaited'[r] # {} /\ awaited'[r] \subseteq GhostRanks(r),
         stage'[r] = "broadcasting" => awaited'[r] # {} /\ awaited'[r] \subseteq OwnerRanks(r)
  PROVE  Staged'
  <1> SUFFICES ASSUME NEW q \in Rank
               PROVE  /\ stage'[q] = "sync" <=> phase'[q] # "integrate"
                      /\ stage'[q] \in {"sync", "done"} => round'[q] = 0
                      /\ stage'[q] = "reducing" => awaited'[q] # {} /\ awaited'[q] \subseteq GhostRanks(q)'
                      /\ stage'[q] = "broadcasting" => awaited'[q] # {} /\ awaited'[q] \subseteq OwnerRanks(q)'
    BY DEF Staged
  <1>1. phase' = phase /\ GhostRanks(q)' = GhostRanks(q) /\ OwnerRanks(q)' = OwnerRanks(q)
    BY DEF vars, GhostRanks, OwnerRanks, Masters, Ghosts, IsMaster, IsGhost
  <1>2. CASE q = r
    BY <1>1, <1>2
  <1>3. CASE q # r
    BY <1>1, <1>3 DEF Staged, Untouched
  <1> QED
    BY <1>2, <1>3

LEMMA RelaxSolved ==
  ASSUME NEW k, NEW h, NEW n, Solved(k, h, n), NEW r \in Rank, Relax(r)
  PROVE  Solved(k, h, n)'
  <1>1. /\ SolverType /\ Staged /\ WiresCarry(k, h, n) /\ UNCHANGED vars
        /\ stage[r] = "relax" /\ stage' = [stage EXCEPT ![r] = "reduce"] /\ UNCHANGED <<round, comm>>
    BY DEF Solved, Relax
  <1>2. /\ \A q \in Rank \ {r} : Untouched(q)
        /\ phase[r] = "integrate" /\ stage'[r] = "reduce"
    BY <1>1 DEF SolverType, Staged, Relax, vars, comm, Untouched
  <1>3. \A u \in Particle : CopySums(k, h, r, u)'
    BY RelaxSums
  <1>4. SolverType'
    <2> DEFINE c == [u \in Particle |-> IF ps[r][u].kind = "none" THEN Nothing ELSE Share(r)]
    <2>1. c \in [Particle -> Amount] /\ Nothing \in Amount
      BY SumTypes
    <2>2. /\ dv \in [Rank -> [Particle -> Amount]] /\ vel \in [Rank -> [Particle -> Amount]]
      BY <1>1 DEF SolverType
    <2>3. /\ dv' \in [Rank -> [Particle -> Amount]]
          /\ vel' \in [Rank -> [Particle -> Amount]]
      <3>1. CASE round[r] = 0
        <4>1. /\ dv' = [dv EXCEPT ![r] = c]
              /\ vel' = [vel EXCEPT ![r] = [u \in Particle |-> Nothing]]
          BY <3>1 DEF Relax
        <4> HIDE DEF c
        <4> QED
          BY <2>1, <2>2, <4>1
      <3>2. CASE round[r] # 0
        <4>1. /\ dv' = [dv EXCEPT ![r] = [u \in Particle |-> Plus(dv[r][u], c[u])]]
              /\ vel' = vel
          BY <1>1, <3>2 DEF Relax, SolverType
        <4> HIDE DEF c
        <4>2. \A u \in Particle : Plus(dv[r][u], c[u]) \in Amount
          BY <2>1, <2>2, SumTypes
        <4> QED
          BY <2>2, <4>1, <4>2
      <3> QED
        BY <3>1, <3>2
    <2>4. stage' \in [Rank -> Stage]
      BY <1>1 DEF SolverType, Stage
    <2> QED
      BY <1>1, <2>3, <2>4 DEF SolverType, comm
  <1>5. Staged'
    BY <1>1, <1>2, StagedSame
  <1>6. WiresCarry(k, h, n)'
    <2>1. wire' = wire /\ values' = values
      BY <1>1 DEF comm
    <2>2. \A s, d \in Rank : /\ Sent(k, h, n, s, d)' = Sent(k, h, n, s, d)
                             /\ Read(k, h, n, s, d)' = Read(k, h, n, s, d)
      BY RelaxSets
    <2> QED
      BY <1>1, <2>1, <2>2, WiresSame
  <1> QED
    BY <1>1, <1>2, <1>3, <1>4, <1>5, <1>6, SolvedSame

LEMMA WiresSendKept ==
  ASSUME SolverType, NEW k, NEW h, NEW n, WiresCarry(k, h, n),
         NEW r \in Rank, NEW t \in Tick, NEW to, NEW c, Send(r, to, KernelAt[t], c),
         \A s, d \in Rank :
           /\ Sent(k, h, n, s, d)' = IF s = r /\ d \in to THEN Sent(k, h, n, s, d) \cup {t}
                                     ELSE Sent(k, h, n, s, d)
           /\ Read(k, h, n, s, d)' = Read(k, h, n, s, d),
         \A d \in Rank : \A q \in Sent(k, h, n, r, d) : Before(q, t),
         \A d \in Rank : c[d] \in Contents /\ c[d] = Said(h, n, r, d)[t]
  PROVE  WiresCarry(k, h, n)'
  <1> SUFFICES ASSUME NEW s \in Rank, NEW d \in Rank PROVE Carries(k, h, n, s, d)'
    BY DEF WiresCarry
  <1>1. Carries(k, h, n, s, d)
    BY DEF WiresCarry
  <1>2. Read(k, h, n, s, d)' = Read(k, h, n, s, d)
    OBVIOUS
  <1>3. CASE s = r /\ d \in to
    <2>1. wire'[<<r, d>>] = Append(wire[<<r, d>>], KernelAt[t])
      BY <1>3, SendPuts
    <2>2. values'[<<r, d>>] = IF t[3] = 0 THEN values[<<r, d>>] ELSE Append(values[<<r, d>>], c[d])
      <3>1. values'[<<r, d>>] = IF KernelAt[t] # "sync" THEN Append(values[<<r, d>>], c[d])
                                ELSE values[<<r, d>>]
        BY <1>3, SendReads
      <3> QED
        BY <3>1, KernelReads
    <2>3. /\ Sent(k, h, n, r, d)' = Sent(k, h, n, r, d) \cup {t}
          /\ Read(k, h, n, r, d)' = Read(k, h, n, r, d)
      BY <1>3
    <2>4. Carries(k, h, n, r, d)'
      BY <1>1, <1>3, <2>1, <2>2, <2>3, CarriesSend
    <2> QED
      BY <1>3, <2>4
  <1>4. CASE ~(s = r /\ d \in to)
    <2>1. wire'[<<s, d>>] = wire[<<s, d>>] /\ values'[<<s, d>>] = values[<<s, d>>]
      BY <1>4, SendReads
    <2>2. Sent(k, h, n, s, d)' = Sent(k, h, n, s, d)
      BY <1>4
    <2> QED
      BY <1>1, <1>2, <2>1, <2>2, CarriesSame
  <1> QED
    BY <1>3, <1>4

LEMMA SendReductionSolved ==
  ASSUME NEW k, NEW h, NEW n, Solved(k, h, n), NEW r \in Rank, SendReduction(r)
  PROVE  Solved(k, h, n)'
  <1> DEFINE t == <<k[r], round[r], 1>>
             to == OwnerRanks(r)
             c == [d \in Rank |-> Reduction(r, d)]
  <1>1. /\ SolverType /\ Staged /\ WiresCarry(k, h, n) /\ UNCHANGED vars
        /\ stage[r] = "reduce" /\ Send(r, to, "reduce", c)
        /\ stage' = [stage EXCEPT ![r] = IF GhostRanks(r) = {} THEN "broadcast" ELSE "reducing"]
        /\ awaited' = [awaited EXCEPT ![r] = GhostRanks(r)]
        /\ UNCHANGED <<round, vel, confused>>
    BY DEF Solved, SendReduction
  <1>2. /\ \A q \in Rank \ {r} : Untouched(q)
        /\ phase[r] = "integrate" /\ stage'[r] # "sync" /\ stage'[r] # "done"
        /\ stage'[r] # "broadcasting"
        /\ stage'[r] = "reducing" => awaited'[r] # {} /\ awaited'[r] \subseteq GhostRanks(r)
    BY <1>1 DEF SolverType, Staged, SendReduction, vars, Untouched
  <1>3. \A u \in Particle : CopySums(k, h, r, u)'
    BY ReductionSentSums
  <1>4. t \in Tick /\ k[r] \in Nat /\ GhostRanks(r) \subseteq Rank
    <2>1. round[r] \in 0 .. Rounds - 1
      BY <1>1 DEF SolverType
    <2> QED
      BY <1>1, <2>1, RanksLinked, KernelApplies
  <1>5. \A d \in Rank : c[d] \in Contents /\ c[d] = Said(h, n, r, d)[t]
    BY <1>1, <1>4, ReductionSaid
  <1>6. KernelAt[t] = "reduce" /\ SendsNext(k, r) = t
    <2>1. KernelAt[t] = "reduce"
      BY <1>4, KernelReads
    <2> QED
      BY <1>1, <1>2, <2>1 DEF SendsNext
  <1>7. \A s, d \in Rank :
          /\ Sent(k, h, n, s, d)' = IF s = r /\ d \in to THEN Sent(k, h, n, s, d) \cup {t}
                                    ELSE Sent(k, h, n, s, d)
          /\ Read(k, h, n, s, d)' = Read(k, h, n, s, d)
    BY ReductionSentSets
  <1>8. \A d \in Rank : \A q \in Sent(k, h, n, r, d) : Before(q, t)
    BY <1>6 DEF Sent
  <1> HIDE DEF t, to, c
  <1>9. WiresCarry(k, h, n)'
    <2>1. Send(r, to, KernelAt[t], c)
      BY <1>1, <1>6
    <2> QED
      BY <1>1, <1>4, <1>5, <1>7, <1>8, <2>1, WiresSend
  <1>10. SolverType'
    <2>1. wire' \in [Rank \X Rank -> Seq(Kernel)] /\ values' \in [Rank \X Rank -> Seq(Contents)]
      <3>1. "reduce" \in Kernel
        BY DEF Kernel
      <3> QED
        BY <1>1, <1>5, <3>1, SendType
    <2>2. dv' \in [Rank -> [Particle -> Amount]]
      <3>1. dv' = [dv EXCEPT ![r] = [u \in Particle |-> IF IsGhost(r, u) THEN Nothing ELSE dv[r][u]]]
        BY <1>1 DEF SendReduction, SolverType
      <3> QED
        BY <1>1, <3>1, SumTypes DEF SolverType
    <2>3. stage' \in [Rank -> Stage]
      BY <1>1 DEF SolverType, Stage
    <2>4. awaited' \in [Rank -> SUBSET Rank]
      BY <1>1, <1>4 DEF SolverType
    <2> QED
      BY <1>1, <2>1, <2>2, <2>3, <2>4 DEF SolverType
  <1>11. Staged'
    BY <1>1, <1>2, StagedSame
  <1> QED
    BY <1>1, <1>2, <1>3, <1>9, <1>10, <1>11, SolvedSame

LEMMA TakesReductionSolved ==
  ASSUME NEW k, NEW h, NEW n, Solved(k, h, n), NEW r \in Rank, NEW q \in Rank,
         TakesReduction(r, q)
  PROVE  Solved(k, h, n)'
  <1> DEFINE m == <<k[r], round[r], 1>>
             b == Head(values[<<q, r>>])
  <1>1. /\ SolverType /\ Staged /\ WiresCarry(k, h, n) /\ Histories(k, h, n) /\ UNCHANGED vars
        /\ stage[r] = "reducing" /\ q \in awaited[r] /\ Arrives(r, q) /\ Take(r, q)
        /\ dv' = [dv EXCEPT ![r] = Summed(r, b)]
        /\ awaited' = [awaited EXCEPT ![r] = awaited[r] \ {q}]
        /\ stage' = [stage EXCEPT ![r] = IF awaited[r] = {q} THEN "broadcast" ELSE "reducing"]
        /\ UNCHANGED <<round, vel, confused>>
    BY DEF Solved, TakesReduction, SolverType
  <1>2. /\ \A p \in Rank \ {r} : Untouched(p)
        /\ phase[r] = "integrate" /\ stage'[r] # "sync" /\ stage'[r] # "done"
        /\ stage'[r] # "broadcasting"
        /\ stage'[r] = "reducing" => awaited'[r] # {} /\ awaited'[r] \subseteq GhostRanks(r)
    BY <1>1 DEF SolverType, Staged, vars, Untouched
  <1>3. \A u \in Particle : CopySums(k, h, r, u)'
    BY ReductionReadSums
  <1>4. /\ Head(wire[<<q, r>>]) = "reduce" /\ values[<<q, r>>] # <<>> /\ wire[<<q, r>>] # <<>>
        /\ \A u \in DOMAIN b : b[u] = Times(1, {q})
    BY <1>1, HeadReduction DEF Arrives
  <1>5. m = ReadsNext(k, r, q) /\ m \in Tick /\ Applies(h, n, q, r, m)
    BY ReductionReadSets
  <1>6. \A s, d \in Rank :
          /\ Sent(k, h, n, s, d)' = Sent(k, h, n, s, d)
          /\ Read(k, h, n, s, d)' = IF s = q /\ d = r THEN Read(k, h, n, s, d) \cup {m}
                                    ELSE Read(k, h, n, s, d)
    BY <1>5, ReductionReadSets
  <1> HIDE DEF m, b
  <1>7. WiresCarry(k, h, n)'
    BY <1>1, <1>4, <1>5, <1>6, WiresTake
  <1>8. SolverType'
    <2>1. wire' \in [Rank \X Rank -> Seq(Kernel)] /\ values' \in [Rank \X Rank -> Seq(Contents)]
      BY <1>1, <1>4, TakeType
    <2>2. dv' \in [Rank -> [Particle -> Amount]]
      <3>1. \A u \in Particle : dv[r][u] \in Amount
        BY <1>1 DEF SolverType
      <3>2. \A u \in DOMAIN b : b[u] \in Amount
        BY <1>4, TimesType
      <3>3. Summed(r, b) \in [Particle -> Amount]
        BY <3>1, <3>2, SumTypes DEF Summed
      <3> QED
        BY <1>1, <3>3 DEF SolverType
    <2>3. stage' \in [Rank -> Stage]
      BY <1>1 DEF SolverType, Stage
    <2>4. awaited' \in [Rank -> SUBSET Rank]
      BY <1>1 DEF SolverType
    <2> QED
      BY <1>1, <2>1, <2>2, <2>3, <2>4 DEF SolverType
  <1>9. Staged'
    BY <1>1, <1>2, StagedSame
  <1> QED
    BY <1>1, <1>2, <1>3, <1>7, <1>8, <1>9, SolvedSame

LEMMA SendBroadcastSolved ==
  ASSUME NEW k, NEW h, NEW n, Solved(k, h, n), NEW r \in Rank, SendBroadcast(r)
  PROVE  Solved(k, h, n)'
  <1> DEFINE t == <<k[r], round[r], 2>>
             to == GhostRanks(r)
             c == [d \in Rank |-> Broadcast(r, d)]
             written == {u \in Masters(r) : ps[r][u].ghosts # {}}
  <1>1. /\ SolverType /\ Staged /\ WiresCarry(k, h, n) /\ UNCHANGED vars
        /\ stage[r] = "broadcast" /\ Send(r, to, "broadcast", c)
        /\ awaited' = [awaited EXCEPT ![r] = OwnerRanks(r)]
        /\ OwnerRanks(r) = {} => NextRound(r)
        /\ OwnerRanks(r) # {} => stage' = [stage EXCEPT ![r] = "broadcasting"] /\ UNCHANGED round
        /\ UNCHANGED confused
    BY DEF Solved, SendBroadcast
  <1>2. /\ stage' \in [Rank -> Stage] /\ round' \in [Rank -> 0 .. Rounds - 1]
        /\ stage'[r] \in {"broadcasting", "done", "relax"}
        /\ stage'[r] = "done" => round'[r] = 0
        /\ stage'[r] = "broadcasting" => OwnerRanks(r) # {}
        /\ \A q \in Rank \ {r} : stage'[q] = stage[q] /\ round'[q] = round[q]
    <2>1. CASE OwnerRanks(r) = {}
      BY <1>1, <2>1, RoundMoves
    <2>2. CASE OwnerRanks(r) # {}
      BY <1>1, <2>2 DEF SolverType, Stage
    <2> QED
      BY <2>1, <2>2
  <1>3. /\ \A q \in Rank \ {r} : Untouched(q)
        /\ phase[r] = "integrate" /\ stage'[r] # "sync" /\ stage'[r] # "reducing"
        /\ stage'[r] = "broadcasting" => awaited'[r] # {} /\ awaited'[r] \subseteq OwnerRanks(r)
    BY <1>1, <1>2 DEF SolverType, Staged, SendBroadcast, vars, Untouched
  <1>4. \A u \in Particle : CopySums(k, h, r, u)'
    BY BroadcastSentSums
  <1>5. t \in Tick /\ k[r] \in Nat /\ OwnerRanks(r) \subseteq Rank
    <2>1. round[r] \in 0 .. Rounds - 1
      BY <1>1 DEF SolverType
    <2> QED
      BY <1>1, <2>1, RanksLinked, KernelApplies
  <1>6. \A d \in Rank : c[d] \in Contents /\ c[d] = Said(h, n, r, d)[t]
    BY <1>1, <1>5, BroadcastSaid
  <1>7. KernelAt[t] = "broadcast" /\ SendsNext(k, r) = t
    <2>1. KernelAt[t] = "broadcast"
      BY <1>5, KernelReads
    <2> QED
      BY <1>1, <1>3, <2>1 DEF SendsNext
  <1>8. \A s, d \in Rank :
          /\ Sent(k, h, n, s, d)' = IF s = r /\ d \in to THEN Sent(k, h, n, s, d) \cup {t}
                                    ELSE Sent(k, h, n, s, d)
          /\ Read(k, h, n, s, d)' = Read(k, h, n, s, d)
    BY BroadcastSentSets
  <1>9. \A d \in Rank : \A q \in Sent(k, h, n, r, d) : Before(q, t)
    BY <1>7 DEF Sent
  <1> HIDE DEF t, to, c, written
  <1>10. WiresCarry(k, h, n)'
    <2>1. Send(r, to, KernelAt[t], c)
      BY <1>1, <1>7
    <2>2. SolverType /\ WiresCarry(k, h, n) /\ r \in Rank /\ t \in Tick
      BY <1>1, <1>5
    <2> QED
      BY <1>6, <1>8, <1>9, <2>1, <2>2, WiresSendKept
  <1>11. SolverType'
    <2>1. wire' \in [Rank \X Rank -> Seq(Kernel)] /\ values' \in [Rank \X Rank -> Seq(Contents)]
      <3>1. "broadcast" \in Kernel
        BY DEF Kernel
      <3> QED
        BY <1>1, <1>6, <3>1, SendType
    <2>2. dv' \in [Rank -> [Particle -> Amount]] /\ vel' \in [Rank -> [Particle -> Amount]]
      <3>1. /\ dv' = [dv EXCEPT ![r] = [u \in Particle |-> IF u \in written THEN Nothing ELSE dv[r][u]]]
            /\ vel' = [vel EXCEPT ![r] = [u \in Particle |->
                         IF u \in written THEN Plus(vel[r][u], dv[r][u]) ELSE vel[r][u]]]
        BY <1>1 DEF SendBroadcast, SolverType, written
      <3>2. \A u \in Particle : Plus(vel[r][u], dv[r][u]) \in Amount
        BY <1>1, SumTypes DEF SolverType
      <3> QED
        BY <1>1, <3>1, <3>2, SumTypes DEF SolverType
    <2>3. awaited' \in [Rank -> SUBSET Rank]
      BY <1>1, <1>5 DEF SolverType
    <2> QED
      BY <1>1, <1>2, <2>1, <2>2, <2>3 DEF SolverType
  <1>12. Staged'
    BY <1>1, <1>2, <1>3, StagedSame
  <1> QED
    BY <1>1, <1>3, <1>4, <1>10, <1>11, <1>12, SolvedSame

LEMMA TakesBroadcastSolved ==
  ASSUME NEW k, NEW h, NEW n, Solved(k, h, n), NEW r \in Rank, NEW q \in Rank,
         TakesBroadcast(r, q)
  PROVE  Solved(k, h, n)'
  <1> DEFINE m == <<k[r], round[r], 2>>
             b == Head(values[<<q, r>>])
  <1>1. /\ SolverType /\ Staged /\ WiresCarry(k, h, n) /\ Histories(k, h, n) /\ UNCHANGED vars
        /\ stage[r] = "broadcasting" /\ q \in awaited[r] /\ Arrives(r, q) /\ Take(r, q)
        /\ awaited' = [awaited EXCEPT ![r] = awaited[r] \ {q}]
        /\ awaited[r] = {q} => NextRound(r)
        /\ awaited[r] # {q} => UNCHANGED <<stage, round>>
        /\ UNCHANGED confused
    BY DEF Solved, TakesBroadcast, SolverType
  <1>2. /\ stage' \in [Rank -> Stage] /\ round' \in [Rank -> 0 .. Rounds - 1]
        /\ stage'[r] \in {"broadcasting", "done", "relax"}
        /\ stage'[r] = "done" => round'[r] = 0
        /\ stage'[r] = "broadcasting" => awaited[r] # {q}
        /\ \A p \in Rank \ {r} : stage'[p] = stage[p] /\ round'[p] = round[p]
    <2>1. CASE awaited[r] = {q}
      BY <1>1, <2>1, RoundMoves
    <2>2. CASE awaited[r] # {q}
      BY <1>1, <2>2 DEF SolverType, Stage
    <2> QED
      BY <2>1, <2>2
  <1>3. /\ \A p \in Rank \ {r} : Untouched(p)
        /\ phase[r] = "integrate" /\ stage'[r] # "sync" /\ stage'[r] # "reducing"
        /\ stage'[r] = "broadcasting" => awaited'[r] # {} /\ awaited'[r] \subseteq OwnerRanks(r)
    BY <1>1, <1>2 DEF SolverType, Staged, TakesBroadcast, vars, Untouched
  <1>4. \A u \in Particle : CopySums(k, h, r, u)'
    BY BroadcastReadSums
  <1>5. /\ Head(wire[<<q, r>>]) = "broadcast" /\ values[<<q, r>>] # <<>> /\ wire[<<q, r>>] # <<>>
        /\ \A u \in DOMAIN b : b[u] = Result(k, h, r, q, u)
    BY <1>1, HeadBroadcast DEF Arrives
  <1>6. m = ReadsNext(k, r, q) /\ m \in Tick /\ Applies(h, n, q, r, m)
    BY BroadcastReadSets
  <1>7. \A s, d \in Rank :
          /\ Sent(k, h, n, s, d)' = Sent(k, h, n, s, d)
          /\ Read(k, h, n, s, d)' = IF s = q /\ d = r THEN Read(k, h, n, s, d) \cup {m}
                                    ELSE Read(k, h, n, s, d)
    BY <1>6, BroadcastReadSets
  <1> HIDE DEF m, b
  <1>8. WiresCarry(k, h, n)'
    BY <1>1, <1>5, <1>6, <1>7, WiresTake
  <1>9. SolverType'
    <2>1. wire' \in [Rank \X Rank -> Seq(Kernel)] /\ values' \in [Rank \X Rank -> Seq(Contents)]
      BY <1>1, <1>5, TakeType
    <2>2. dv' \in [Rank -> [Particle -> Amount]] /\ vel' \in [Rank -> [Particle -> Amount]]
      <3>1. /\ dv' = [dv EXCEPT ![r] = [u \in Particle |-> IF u \in DOMAIN b THEN Nothing ELSE dv[r][u]]]
            /\ vel' = [vel EXCEPT ![r] = [u \in Particle |-> IF u \in DOMAIN b THEN b[u] ELSE vel[r][u]]]
        BY <1>1 DEF TakesBroadcast, SolverType, b
      <3>2. \A u \in DOMAIN b : b[u] \in Amount
        <4>1. round[r] + 1 \in Nat
          BY <1>1, RoundsAssumption DEF SolverType
        <4>2. \A u : Result(k, h, r, q, u) \in Amount
          BY <4>1, TimesType DEF Result
        <4> QED
          BY <1>5, <4>2
      <3> QED
        BY <1>1, <3>1, <3>2, SumTypes DEF SolverType
    <2>3. awaited' \in [Rank -> SUBSET Rank]
      BY <1>1 DEF SolverType
    <2> QED
      BY <1>1, <1>2, <2>1, <2>2, <2>3 DEF SolverType
  <1>10. Staged'
    BY <1>1, <1>2, <1>3, StagedSame
  <1> QED
    BY <1>1, <1>3, <1>4, <1>8, <1>9, <1>10, SolvedSame
-----------------------------------------------------------------------------
(* Steps of the synchronization *)

LEMMA AfterSyncType ==
  ASSUME SolverType, NEW r \in Rank, AfterSync(r)
  PROVE  /\ dv' \in [Rank -> [Particle -> Amount]] /\ vel' \in [Rank -> [Particle -> Amount]]
         /\ stage' \in [Rank -> Stage]
         /\ stage'[r] = IF phase'[r] = "integrate" THEN "relax" ELSE "sync"
         /\ round' = round /\ awaited' = awaited /\ confused' = confused
         /\ \A q \in Rank \ {r} : stage'[q] = stage[q] /\ dv'[q] = dv[q] /\ vel'[q] = vel[q]
  <1>1. /\ dv \in [Rank -> [Particle -> Amount]] /\ vel \in [Rank -> [Particle -> Amount]]
        /\ stage \in [Rank -> Stage]
    BY DEF SolverType
  <1>2. /\ dv' = [dv EXCEPT ![r] = [u \in Particle |->
                    IF ps'[r][u].kind = "none" THEN Nothing ELSE dv[r][u]]]
        /\ vel' = [vel EXCEPT ![r] = [u \in Particle |->
                     IF ps'[r][u].kind = "none" THEN Nothing ELSE vel[r][u]]]
    BY <1>1 DEF AfterSync, ForgetErased
  <1>3. /\ stage' = [stage EXCEPT ![r] = IF phase'[r] = "integrate" THEN "relax" ELSE "sync"]
        /\ round' = round /\ awaited' = awaited /\ confused' = confused
    BY DEF AfterSync
  <1>4. /\ dv' \in [Rank -> [Particle -> Amount]] /\ vel' \in [Rank -> [Particle -> Amount]]
    BY <1>1, <1>2, SumTypes
  <1>5. /\ stage' \in [Rank -> Stage]
        /\ stage'[r] = IF phase'[r] = "integrate" THEN "relax" ELSE "sync"
    BY <1>1, <1>3 DEF Stage
  <1>6. \A q \in Rank \ {r} : stage'[q] = stage[q] /\ dv'[q] = dv[q] /\ vel'[q] = vel[q]
    BY <1>1, <1>2, <1>3
  <1> QED
    BY <1>3, <1>4, <1>5, <1>6

(* Before the first round there is nothing to sum up. *)
LEMMA FreshSums ==
  ASSUME NEW k, NEW h, NEW r, NEW u, stage'[r] \in {"sync", "relax"}, round'[r] = 0
  PROVE  CopySums(k, h, r, u)'
  BY DEF CopySums, MasterSums, LoneSums, SharedSums, GhostSums

LEMMA StagedSync ==
  ASSUME SolverType, Staged, NEW r \in Rank, stage[r] = "sync", AfterSync(r),
         \A q \in Rank \ {r} : Untouched(q)
  PROVE  Staged'
  <1>1. /\ stage'[r] = IF phase'[r] = "integrate" THEN "relax" ELSE "sync"
        /\ round'[r] = 0
    BY AfterSyncType DEF Staged
  <1> SUFFICES ASSUME NEW q \in Rank
               PROVE  /\ stage'[q] = "sync" <=> phase'[q] # "integrate"
                      /\ stage'[q] \in {"sync", "done"} => round'[q] = 0
                      /\ stage'[q] = "reducing" => awaited'[q] # {} /\ awaited'[q] \subseteq GhostRanks(q)'
                      /\ stage'[q] = "broadcasting" => awaited'[q] # {} /\ awaited'[q] \subseteq OwnerRanks(q)'
    BY DEF Staged
  <1>2. CASE q = r
    BY <1>1, <1>2
  <1>3. CASE q # r
    <2>1. Untouched(q)
      BY <1>3
    <2>2. GhostRanks(q)' = GhostRanks(q) /\ OwnerRanks(q)' = OwnerRanks(q)
      BY <2>1 DEF Untouched, GhostRanks, OwnerRanks, Masters, Ghosts, IsMaster, IsGhost
    <2> QED
      BY <2>1, <2>2 DEF Staged, Untouched
  <1> QED
    BY <1>2, <1>3

LEMMA WalkSums ==
  ASSUME SmallParticles, NEW k, NEW h, NEW n, Solved(k, h, n), NEW r \in Rank, Walks(r),
         NEW k2, NEW h2, NEW n2, Recorded(r, k, h, n, k2, h2, n2),
         \A q \in Rank \ {r} : Untouched(q)
  PROVE  SumsRight(k2, h2)'
  <1>1. /\ TypeOK /\ SolverType /\ Staged /\ Walled /\ Histories(k, h, n) /\ Traced(k, h, n)
        /\ SumsRight(k, h) /\ stage[r] = "sync" /\ AfterSync(r)
    BY DEF Solved, Walks
  <1> SUFFICES ASSUME NEW q \in Rank, NEW u \in Particle, stage'[q] # "sync"
               PROVE  CopySums(k2, h2, q, u)'
    BY DEF SumsRight
  <1>2. CASE q = r
    <2>1. stage'[r] \in {"sync", "relax"} /\ round'[r] = 0
      BY <1>1, AfterSyncType DEF Staged
    <2> QED
      BY <1>2, <2>1, FreshSums
  <1>3. CASE q # r
    <2>1. Untouched(q) /\ stage[q] # "sync" /\ phase[q] = "integrate"
      BY <1>1, <1>3 DEF Untouched, Staged
    <2>2. CopySums(k, h, q, u)
      BY <1>1, <2>1 DEF SumsRight
    <2>3. ASSUME IsGhost(q, u) PROVE h2[u][k2[q]].ghosts = h[u][k[q]].ghosts
      <3>1. k[q] <= n[u]
        BY <1>1, <2>1, <2>3, CopiesShow
      <3>2. k2[q] = k[q] /\ \A j \in Nat : j <= n[u] => h2[u][j] = h[u][j]
        BY <1>1, <1>3, RecordedType
      <3>3. k[q] \in Nat
        BY <1>1 DEF Histories
      <3> QED
        BY <3>1, <3>2, <3>3
    <2> QED
      BY <2>1, <2>2, <2>3, SumsFrame
  <1> QED
    BY <1>2, <1>3

(* The buffers of a walk: one to every neighbour. *)
LEMMA WiresWalk ==
  ASSUME SmallParticles, NEW k, NEW h, NEW n, Solved(k, h, n), NEW r \in Rank, Walks(r),
         NEW k2, NEW h2, NEW n2, Recorded(r, k, h, n, k2, h2, n2), Opened(r) = Nbr[r]
  PROVE  WiresCarry(k2, h2, n2)'
  <1> DEFINE t == <<k[r] + 1, 0, 0>>
  <1>1. /\ SolverType /\ WiresCarry(k, h, n) /\ Histories(k, h, n) /\ Send(r, Nbr[r], "sync", <<>>)
    BY DEF Solved, Walks
  <1>2. t \in Tick
    BY <1>1 DEF Histories, Tick
  <1>3. KernelAt[t] = "sync"
    BY <1>2, KernelReads
  <1> SUFFICES ASSUME NEW s \in Rank, NEW d \in Rank
               PROVE  Carries(k2, h2, n2, s, d)'
    BY DEF WiresCarry
  <1>4. Carries(k, h, n, s, d)
    BY <1>1 DEF WiresCarry
  <1>7. WalkSends(k, h, n, r, k2, h2, n2, s, d)
    BY WalkSets
  <1>8. /\ wire'[<<s, d>>] = IF s = r /\ d \in Nbr[r] THEN Append(wire[<<s, d>>], "sync")
                             ELSE wire[<<s, d>>]
        /\ values'[<<s, d>>] = values[<<s, d>>]
    BY <1>1, SendReads
  <1>5. CASE s = r /\ d \in Nbr[r]
    <2>1. Carries(k, h, n, r, d)
      BY <1>4, <1>5
    <2>2. /\ wire'[<<r, d>>] = Append(wire[<<r, d>>], "sync")
          /\ values'[<<r, d>>] = values[<<r, d>>]
      BY <1>5, <1>8
    <2>3. Sent(k2, h2, n2, r, d)' = Sent(k, h, n, r, d) \cup {t}
      BY <1>5, <1>7 DEF WalkSends
    <2>4. Read(k2, h2, n2, r, d)' = Read(k, h, n, r, d)
      BY <1>5, <1>7 DEF WalkSends
    <2>5. \A q \in Sent(k, h, n, r, d) : q[3] # 0 => Said(h2, n2, r, d)[q] = Said(h, n, r, d)[q]
      BY <1>5, <1>7 DEF WalkSends
    <2>6. \A q \in Sent(k, h, n, r, d) : Before(q, t)
      BY <1>5, <1>7 DEF WalkSends
    <2>7. t[3] = 0
      OBVIOUS
    <2>8. wire'[<<r, d>>] = Append(wire[<<r, d>>], KernelAt[t])
      BY <2>2, <1>3
    <2>9. values'[<<r, d>>] = IF t[3] = 0 THEN values[<<r, d>>] ELSE Append(values[<<r, d>>], <<>>)
      BY <2>2, <2>7
    <2> HIDE DEF t
    <2>10. Carries(k2, h2, n2, r, d)'
      BY <1>1, <1>2, <2>1, <2>3, <2>4, <2>5, <2>6, <2>7, <2>8, <2>9, CarriesSend
    <2> QED
      BY <2>10, <1>5
  <1>6. CASE ~(s = r /\ d \in Nbr[r])
    <2>1. wire'[<<s, d>>] = wire[<<s, d>>] /\ values'[<<s, d>>] = values[<<s, d>>]
      BY <1>6, <1>8
    <2>2. Sent(k2, h2, n2, s, d)' = Sent(k, h, n, s, d)
      BY <1>6, <1>7 DEF WalkSends
    <2>3. Read(k2, h2, n2, s, d)' = Read(k, h, n, s, d)
      BY <1>5, <1>7 DEF WalkSends
    <2>4. \A q \in Sent(k, h, n, s, d) : q[3] # 0 => Said(h2, n2, s, d)[q] = Said(h, n, s, d)[q]
      BY <1>7 DEF WalkSends
    <2> QED
      BY <1>4, <2>1, <2>2, <2>3, <2>4, CarriesSame
  <1> QED
    BY <1>5, <1>6

LEMMA WalkSolved ==
  ASSUME SmallParticles, NEW k, NEW h, NEW n, Solved(k, h, n), NEW r \in Rank, Walks(r)
  PROVE  \E k2, h2, n2 : Solved(k2, h2, n2)'
  <1>1. /\ TypeOK /\ SolverType /\ Staged /\ Walled /\ Histories(k, h, n) /\ Traced(k, h, n)
        /\ WiresCarry(k, h, n)
        /\ stage[r] = "sync" /\ phase[r] = "sync" /\ WalkAndSend(r) /\ AfterSync(r)
        /\ Send(r, Opened(r), "sync", <<>>)
    BY DEF Solved, Walks
  <1>2. PICK k2, h2, n2 : /\ Recorded(r, k, h, n, k2, h2, n2)
                          /\ Histories(k2, h2, n2) /\ Traced(k2, h2, n2)'
    BY <1>1, TraceSync
  <1>3. TypeOK'
    BY <1>1, TypeSync
  <1>4. /\ \A q \in Rank, u \in Particle :
             ps'[q][u] = IF q = r THEN SlotAfterSync(r, u) ELSE ps[q][u]
        /\ \A q \in Rank \ {r} : pending'[q] = pending[q] /\ phase'[q] = phase[q]
    BY <1>1, WalkSteps
  <1>5. \A q \in Rank \ {r} : Untouched(q)
    <2>1. \A q \in Rank \ {r} : ps'[q] = ps[q]
      BY <1>1 DEF WalkAndSend, TypeOK
    <2> QED
      BY <1>1, <1>4, <2>1, AfterSyncType DEF Untouched
  <1>6. Walled'
    <2> SUFFICES ASSUME NEW u \in NonCommunicating, NEW q \in Rank
                 PROVE  ps'[q][u].kind # "ghost" /\ ps'[q][u].ghosts = {}
      BY DEF Walled
    <2>1. ~IsHandled(r, u) /\ u \in Particle
      BY ParticleAssumption DEF IsHandled
    <2>2. ps'[q][u] = ps[q][u]
      BY <1>4, <2>1, WalkKeepsSilent
    <2> QED
      BY <1>1, <2>2 DEF Walled
  <1>7. Opened(r) = Nbr[r]
    <2>1. ASSUME NEW u \in Particle, IsHandled(r, u) PROVE ps[r][u].ghosts \subseteq Nbr[r]
      <3>1. u \in Particle \ NonCommunicating
        BY <2>1 DEF IsHandled
      <3> QED
        BY <1>1, <2>1, <3>1, WalkReads
    <2> QED
      BY <1>1, <2>1, WalkOpens
  <1>13. WiresCarry(k2, h2, n2)'
    BY <1>2, <1>7, WiresWalk
  <1>14. SolverType'
    <2>1. wire' \in [Rank \X Rank -> Seq(Kernel)] /\ values' \in [Rank \X Rank -> Seq(Contents)]
      <3>1. "sync" \in Kernel
        BY DEF Kernel
      <3> QED
        BY <1>1, <3>1, SendType
    <2> QED
      BY <1>1, <2>1, AfterSyncType DEF SolverType
  <1>15. Staged'
    BY <1>1, <1>5, StagedSync
  <1>16. SumsRight(k2, h2)'
    BY <1>2, <1>5, WalkSums
  <1>17. Histories(k2, h2, n2)'
    BY <1>2 DEF Histories
  <1>18. Solved(k2, h2, n2)'
    BY <1>2, <1>3, <1>6, <1>13, <1>14, <1>15, <1>16, <1>17 DEF Solved
  <1> QED
    BY <1>18

(* The next buffer for a process that parses is one of a synchronization. *)
LEMMA HeadSync ==
  ASSUME NEW k, NEW h, NEW n, Solved(k, h, n), NEW r \in Rank, NEW q \in Rank,
         phase[r] = "parse", q \in pending[r], Arrives(r, q)
  PROVE  /\ Head(wire[<<q, r>>]) = "sync"
         /\ <<k[r], 0, 0>> = ReadsNext(k, r, q) /\ <<k[r], 0, 0>> \in Tick
         /\ Applies(h, n, q, r, <<k[r], 0, 0>>)
  <1> DEFINE m == <<k[r], 0, 0>>
  <1>1. /\ SolverType /\ Staged /\ Paced(k) /\ k[r] \in Nat /\ Histories(k, h, n)
        /\ WiresCarry(k, h, n) /\ wire[<<q, r>>] # <<>>
    BY DEF Solved, Traced, Histories, Arrives
  <1>2. stage[r] = "sync"
    BY <1>1 DEF Staged
  <1>3. m = ReadsNext(k, r, q)
    BY <1>2 DEF ReadsNext
  <1>4. q \in Nbr[r] /\ r \in Nbr[q]
    BY <1>1, NeighborAssumption DEF Paced
  <1>5. m \in Tick /\ m[3] = 0
    BY <1>1 DEF Tick
  <1>6. Applies(h, n, q, r, m)
    BY <1>4, RoundsAssumption DEF Applies
  <1> HIDE DEF m
  <1>7. Head(wire[<<q, r>>]) = KernelAt[m]
    BY <1>1, <1>3, <1>6, UnderWayFirst
  <1>8. Head(wire[<<q, r>>]) = "sync"
    BY <1>5, <1>7, KernelReads
  <1> QED
    BY <1>3, <1>5, <1>6, <1>8 DEF m

LEMMA NotesSolved ==
  ASSUME NEW k, NEW h, NEW n, Solved(k, h, n), NEW r \in Rank, NEW q \in Rank, TakesNotes(r, q)
  PROVE  Solved(k, h, n)'
  <1> DEFINE m == <<k[r], 0, 0>>
  <1>1. /\ TypeOK /\ SolverType /\ Staged /\ Walled /\ Histories(k, h, n) /\ Traced(k, h, n)
        /\ WiresCarry(k, h, n)
        /\ phase[r] = "parse" /\ q \in pending[r] /\ Arrives(r, q) /\ chan[<<q, r>>] # <<>>
        /\ ParseBuffer(r, q) /\ AfterSync(r) /\ Take(r, q) /\ wire[<<q, r>>] # <<>>
    BY DEF Solved, TakesNotes, Arrives
  <1>2. stage[r] = "sync"
    BY <1>1 DEF Staged
  <1>3. TypeOK'
    <2>1. BatchChecks(r, q, Head(chan[<<q, r>>]))
      BY <1>1, ParsePasses
    <2> QED
      BY <1>1, <2>1, TypeParse
  <1>4. Traced(k, h, n)'
    BY <1>1, TraceParse
  <1>5. \A d \in Rank \ {r} : Untouched(d)
    <2>1. \A d \in Rank \ {r} : ps'[d] = ps[d]
      BY <1>1 DEF ParseBuffer, TypeOK
    <2>2. \A d \in Rank \ {r} : pending'[d] = pending[d] /\ phase'[d] = phase[d]
      BY <1>1, ParseWaits
    <2> QED
      BY <1>1, <2>1, <2>2, AfterSyncType DEF Untouched
  <1>6. Walled'
    <2> SUFFICES ASSUME NEW u \in NonCommunicating, NEW d \in Rank
                 PROVE  ps'[d][u].kind # "ghost" /\ ps'[d][u].ghosts = {}
      BY DEF Walled
    <2>1. u \in Particle
      BY ParticleAssumption
    <2>2. Silent(Head(chan[<<q, r>>])[u])
      BY <1>1, <2>1, ParseReads
    <2>3. ps'[d][u] = IF d = r THEN SlotAfterBatch(r, Head(chan[<<q, r>>]), u) ELSE ps[d][u]
      BY <1>1, <2>1, ParseSlots
    <2>4. SlotAfterBatch(r, Head(chan[<<q, r>>]), u) = ps[r][u]
      BY <2>2 DEF Silent, SlotAfterBatch, AfterGhostNote, Parsed
    <2>5. ps'[d][u] = ps[d][u]
      BY <2>3, <2>4
    <2> QED
      BY <1>1, <2>5 DEF Walled
  <1>7. /\ Head(wire[<<q, r>>]) = "sync"
        /\ m = ReadsNext(k, r, q) /\ m \in Tick /\ Applies(h, n, q, r, m)
    BY <1>1, HeadSync
  <1>8. \A s, d \in Rank :
          /\ Sent(k, h, n, s, d)' = Sent(k, h, n, s, d)
          /\ Read(k, h, n, s, d)' = IF s = q /\ d = r THEN Read(k, h, n, s, d) \cup {m}
                                    ELSE Read(k, h, n, s, d)
    BY <1>7, SyncReadSets
  <1> HIDE DEF m
  <1>9. WiresCarry(k, h, n)'
    BY <1>1, <1>7, <1>8, WiresTake
  <1>10. SolverType'
    <2>1. wire' \in [Rank \X Rank -> Seq(Kernel)] /\ values' \in [Rank \X Rank -> Seq(Contents)]
      BY <1>1, <1>7, TakeType
    <2> QED
      BY <1>1, <2>1, AfterSyncType DEF SolverType
  <1>11. Staged'
    BY <1>1, <1>2, <1>5, StagedSync
  <1>12. SumsRight(k, h)'
    <2>1. stage'[r] \in {"sync", "relax"} /\ round'[r] = 0
      BY <1>1, <1>2, AfterSyncType DEF Staged
    <2>2. \A u \in Particle : CopySums(k, h, r, u)'
      BY <2>1, FreshSums
    <2> QED
      BY <1>5, <2>2, OtherSums
  <1> QED
    BY <1>1, <1>3, <1>4, <1>6, <1>9, <1>10, <1>11, <1>12 DEF Solved, Histories

LEMMA IntegrateSolved ==
  ASSUME NEW k, NEW h, NEW n, Solved(k, h, n), NEW r \in Rank, IntegrateStep(r)
  PROVE  Solved(k, h, n)'
  <1>1. /\ TypeOK /\ SolverType /\ Staged /\ Walled /\ Histories(k, h, n) /\ Traced(k, h, n)
        /\ WiresCarry(k, h, n)
        /\ stage[r] = "done" /\ Integrate(r) /\ stage' = [stage EXCEPT ![r] = "sync"]
        /\ UNCHANGED <<round, dv, vel, wire, values, awaited, confused>>
    BY DEF Solved, IntegrateStep, comm
  <1>2. PICK to \in [Particle -> Pos] :
          ps' = [ps EXCEPT ![r] = [u \in Particle |-> [ps[r][u] EXCEPT !.pos = to[u]]]]
    BY <1>1 DEF Integrate
  <1>3. phase' = [phase EXCEPT ![r] = "sync"] /\ UNCHANGED <<chan, pending, gone, aborted>>
    BY <1>1 DEF Integrate
  <1>4. TypeOK'
    BY <1>1, TypeIntegrate
  <1>5. Traced(k, h, n)'
    BY <1>1, TraceIntegrate
  <1>6. phase' = [d \in Rank |-> IF d = r THEN "sync" ELSE phase[d]]
    BY <1>1, <1>3 DEF TypeOK
  <1>7. \A d \in Rank \ {r} : Untouched(d)
    <2>1. \A d \in Rank \ {r} : ps'[d] = ps[d]
      BY <1>1, <1>2 DEF TypeOK
    <2>2. \A d \in Rank \ {r} : stage'[d] = stage[d]
      BY <1>1 DEF SolverType
    <2> QED
      BY <1>1, <1>3, <1>6, <2>1, <2>2 DEF Untouched
  <1>8. Walled'
    <2> SUFFICES ASSUME NEW u \in NonCommunicating, NEW d \in Rank
                 PROVE  ps'[d][u].kind # "ghost" /\ ps'[d][u].ghosts = {}
      BY DEF Walled
    <2>1. u \in Particle /\ ps[d][u].kind # "ghost" /\ ps[d][u].ghosts = {}
      BY <1>1, ParticleAssumption DEF Walled
    <2>2. ps'[d][u] = IF d = r THEN [ps[r][u] EXCEPT !.pos = to[u]] ELSE ps[d][u]
      BY <1>1, <1>2, <2>1 DEF TypeOK
    <2>3. ps[r][u] \in Slot
      BY <1>1, <2>1 DEF TypeOK, SlotOK
    <2> QED
      BY <2>1, <2>2, <2>3 DEF Slot
  <1>9. WiresCarry(k, h, n)'
    <2>1. \A s, d \in Rank : /\ Sent(k, h, n, s, d)' = Sent(k, h, n, s, d)
                             /\ Read(k, h, n, s, d)' = Read(k, h, n, s, d)
      BY RelaxSets
    <2> QED
      BY <1>1, <2>1, WiresSame
  <1>10. stage'[r] = "sync" /\ round'[r] = 0 /\ phase'[r] = "sync"
    BY <1>1, <1>6 DEF SolverType, Staged
  <1>11. SolverType'
    <2>1. stage' \in [Rank -> Stage]
      BY <1>1 DEF SolverType, Stage
    <2> QED
      BY <1>1, <2>1 DEF SolverType
  <1>12. Staged'
    <2> SUFFICES ASSUME NEW d \in Rank
                 PROVE  /\ stage'[d] = "sync" <=> phase'[d] # "integrate"
                        /\ stage'[d] \in {"sync", "done"} => round'[d] = 0
                        /\ stage'[d] = "reducing" => awaited'[d] # {} /\ awaited'[d] \subseteq GhostRanks(d)'
                        /\ stage'[d] = "broadcasting" => awaited'[d] # {} /\ awaited'[d] \subseteq OwnerRanks(d)'
      BY DEF Staged
    <2>1. CASE d = r
      BY <1>10, <2>1
    <2>2. CASE d # r
      <3>1. Untouched(d)
        BY <1>7, <2>2
      <3>2. GhostRanks(d)' = GhostRanks(d) /\ OwnerRanks(d)' = OwnerRanks(d)
        BY <3>1 DEF Untouched, GhostRanks, OwnerRanks, Masters, Ghosts, IsMaster, IsGhost
      <3> QED
        BY <1>1, <3>1, <3>2 DEF Staged, Untouched
    <2> QED
      BY <2>1, <2>2
  <1>13. SumsRight(k, h)'
    <2>1. \A u \in Particle : CopySums(k, h, r, u)'
      BY <1>10, FreshSums
    <2> QED
      BY <1>7, <2>1, OtherSums
  <1> QED
    BY <1>1, <1>4, <1>5, <1>8, <1>9, <1>11, <1>12, <1>13 DEF Solved, Histories
-----------------------------------------------------------------------------
(* The invariant *)

LEMMA StartSolved ==
  ASSUME ExchangeInit
  PROVE  ExchangeInv
  <1>1. /\ Init /\ stage = [r \in Rank |-> "sync"] /\ round = [r \in Rank |-> 0]
        /\ dv = [r \in Rank |-> [u \in Particle |-> Nothing]]
        /\ vel = [r \in Rank |-> [u \in Particle |-> Nothing]]
        /\ wire = [c \in Rank \X Rank |-> <<>>] /\ values = [c \in Rank \X Rank |-> <<>>]
        /\ awaited = [r \in Rank |-> {}] /\ confused = FALSE
    BY DEF ExchangeInit
  <1>2. PICK k, h, n : Histories(k, h, n) /\ Traced(k, h, n) /\ \A r \in Rank : k[r] = 0
    BY <1>1, TraceStart
  <1>3. /\ ~aborted /\ \A r \in Rank : phase[r] = "sync"
    BY <1>1 DEF Init
  <1>4. TypeOK
    BY <1>1, TypeInit
  <1>5. SolverType
    <2>1. dv \in [Rank -> [Particle -> Amount]] /\ vel \in [Rank -> [Particle -> Amount]]
      BY <1>1, SumTypes
    <2>2. wire \in [Rank \X Rank -> Seq(Kernel)] /\ values \in [Rank \X Rank -> Seq(Contents)]
      BY <1>1
    <2>3. round \in [Rank -> 0 .. Rounds - 1]
      BY <1>1, RoundsAssumption
    <2>4. stage \in [Rank -> Stage] /\ awaited \in [Rank -> SUBSET Rank] /\ confused \in BOOLEAN
      BY <1>1 DEF Stage
    <2> QED
      BY <2>1, <2>2, <2>3, <2>4 DEF SolverType
  <1>6. Staged
    BY <1>1, <1>3 DEF Staged
  <1>7. Walled
    <2>1. PICK at \in [Particle -> {p \in Pos : OwnerOf[p] # NoRank}] :
            ps = [r \in Rank |-> [u \in Particle |->
                    IF OwnerOf[at[u]] = r THEN Master(r, {}, at[u]) ELSE Absent]]
      BY <1>1 DEF Init
    <2>2. \A u \in Particle, r \in Rank : ps[r][u].kind # "ghost" /\ ps[r][u].ghosts = {}
      BY <2>1 DEF Master, Absent
    <2> QED
      BY <2>2, ParticleAssumption DEF Walled
  <1>8. WiresCarry(k, h, n)
    <2> SUFFICES ASSUME NEW s \in Rank, NEW d \in Rank PROVE Carries(k, h, n, s, d)
      BY DEF WiresCarry
    <2>1. SendsNext(k, s) = <<1, 0, 0>> /\ ReadsNext(k, d, s) = <<1, 0, 0>>
      <3>1. SendsNext(k, s) = <<k[s] + 1, 0, 0>> /\ ReadsNext(k, d, s) = <<k[d] + 1, 0, 0>>
        <4>1. /\ phase[s] = "sync" /\ stage[s] = "sync"
              /\ phase[d] = "sync" /\ stage[d] = "sync"
          BY <1>1, <1>3
        <4> QED
          BY <4>1 DEF SendsNext, ReadsNext
      <3>2. k[s] + 1 = 1 /\ k[d] + 1 = 1
        BY <1>2
      <3> QED
        BY <3>1, <3>2
    <2>2. Sent(k, h, n, s, d) = Read(k, h, n, s, d)
      BY <2>1 DEF Sent, Read
    <2>3. UnderWay(k, h, n, s, d) = {} /\ Valued({}) = {}
      BY <2>2 DEF UnderWay, Valued
    <2>4. wire[<<s, d>>] = <<>> /\ values[<<s, d>>] = <<>>
      BY <1>1
    <2>5. Lined(<<>>, {}, KernelAt) /\ Lined(<<>>, {}, Said(h, n, s, d))
      BY LinedEmpty
    <2> QED
      BY <2>2, <2>3, <2>4, <2>5 DEF Carries, Buffered
  <1>9. SumsRight(k, h)
    BY <1>1 DEF SumsRight
  <1> QED
    BY <1>1, <1>2, <1>3, <1>4, <1>5, <1>6, <1>7, <1>8, <1>9 DEF ExchangeInv, Solved

(* Neither a check fails nor is a buffer misread: a step is one of these. *)
LEMMA StepTaken ==
  ASSUME SmallParticles, ~aborted, NEW k, NEW h, NEW n, Solved(k, h, n),
         NEW r \in Rank, TimeStep(r)
  PROVE  \/ Walks(r) /\ Sync(r)
         \/ \E q \in Rank : TakesNotes(r, q) /\ Parse(r, q)
         \/ Relax(r)
         \/ SendReduction(r)
         \/ \E q \in Rank : TakesReduction(r, q)
         \/ SendBroadcast(r)
         \/ \E q \in Rank : TakesBroadcast(r, q)
         \/ IntegrateStep(r)
  <1>1. TypeOK /\ SolverType /\ Staged /\ Histories(k, h, n) /\ Traced(k, h, n)
    BY DEF Solved
  <1>2. ASSUME SyncStep(r) PROVE Walks(r) /\ Sync(r)
    <2>1. stage[r] = "sync" /\ phase[r] = "sync" /\ SyncChecks(r) /\ WalkAndSend(r)
      BY <1>1, <1>2, WalkPasses DEF SyncStep, Sync
    <2>2. ~aborted'
      BY <2>1 DEF WalkAndSend
    <2> QED
      BY <1>2, <2>1, <2>2 DEF SyncStep, Walks
  <1>3. ASSUME NEW q \in Rank, ParseSync(r, q) PROVE TakesNotes(r, q) /\ Parse(r, q)
    <2>1. phase[r] = "parse" /\ q \in pending[r] /\ Arrives(r, q)
      BY <1>3 DEF ParseSync
    <2>2. Head(wire[<<q, r>>]) = "sync"
      BY <2>1, HeadSync
    <2>3. Parse(r, q) /\ IF aborted' THEN UNCHANGED <<solver, comm>> ELSE AfterSync(r) /\ Take(r, q)
      BY <1>3, <2>2 DEF ParseSync
    <2>4. chan[<<q, r>>] # <<>>
      BY <2>3 DEF Parse
    <2>5. BatchChecks(r, q, Head(chan[<<q, r>>]))
      BY <1>1, <2>1, <2>4, ParsePasses
    <2>6. ParseBuffer(r, q)
      BY <2>3, <2>5 DEF Parse
    <2>7. ~aborted'
      BY <2>6 DEF ParseBuffer
    <2> QED
      BY <2>1, <2>3, <2>4, <2>6, <2>7 DEF TakesNotes
  <1>4. ASSUME NEW q \in Rank, ParseReduction(r, q) PROVE TakesReduction(r, q)
    <2>1. stage[r] = "reducing" /\ q \in awaited[r] /\ Arrives(r, q)
      BY <1>4 DEF ParseReduction
    <2>2. Head(wire[<<q, r>>]) = "reduce"
      BY <2>1, HeadReduction
    <2>3. DOMAIN Head(values[<<q, r>>]) = {v \in Particle : IsMaster(r, v) /\ q \in ps[r][v].ghosts}
      BY <2>1, HeadReduction
    <2>4. ~\E u \in DOMAIN Head(values[<<q, r>>]) : ps[r][u].kind = "none"
      BY <2>3 DEF IsMaster
    <2> QED
      BY <1>4, <2>1, <2>2, <2>4 DEF ParseReduction, TakesReduction
  <1>5. ASSUME NEW q \in Rank, ParseBroadcast(r, q) PROVE TakesBroadcast(r, q)
    <2>1. stage[r] = "broadcasting" /\ q \in awaited[r] /\ Arrives(r, q)
      BY <1>5 DEF ParseBroadcast
    <2>2. Head(wire[<<q, r>>]) = "broadcast"
      BY <2>1, HeadBroadcast
    <2>3. DOMAIN Head(values[<<q, r>>]) = {v \in Particle : IsGhost(r, v) /\ ps[r][v].owner = q}
      BY <2>1, HeadBroadcast
    <2>4. ~\E u \in DOMAIN Head(values[<<q, r>>]) : ps[r][u].kind = "none"
      BY <2>3 DEF IsGhost
    <2> QED
      BY <1>5, <2>1, <2>2, <2>4 DEF ParseBroadcast, TakesBroadcast
  <1> QED
    BY <1>2, <1>3, <1>4, <1>5 DEF TimeStep

LEMMA StepSolved ==
  ASSUME SmallParticles, ExchangeInv, NEW r \in Rank, TimeStep(r)
  PROVE  ExchangeInv' /\ [Next]_vars
  <1>1. PICK k, h, n : Solved(k, h, n)
    BY DEF ExchangeInv
  <1>2. ~aborted /\ ~confused
    BY DEF ExchangeInv
  <1> SUFFICES /\ ~aborted' /\ ~confused' /\ [Next]_vars
               /\ \E k2, h2, n2 : Solved(k2, h2, n2)'
    BY DEF ExchangeInv
  <1>3. CASE Walks(r) /\ Sync(r)
    <2>1. \E k2, h2, n2 : Solved(k2, h2, n2)'
      BY <1>1, <1>3, WalkSolved
    <2>2. ~aborted' /\ ~confused'
      BY <1>2, <1>3 DEF Walks, WalkAndSend, AfterSync
    <2>3. Next
      BY <1>3 DEF Next
    <2> QED
      BY <2>1, <2>2, <2>3
  <1>4. ASSUME NEW q \in Rank, TakesNotes(r, q) /\ Parse(r, q)
        PROVE  /\ ~aborted' /\ ~confused' /\ [Next]_vars
               /\ \E k2, h2, n2 : Solved(k2, h2, n2)'
    <2>1. Solved(k, h, n)'
      BY <1>1, <1>4, NotesSolved
    <2>2. ~aborted' /\ ~confused'
      BY <1>2, <1>4 DEF TakesNotes, ParseBuffer, AfterSync
    <2>3. Next
      BY <1>4 DEF Next
    <2> QED
      BY <2>1, <2>2, <2>3
  <1>5. CASE Relax(r)
    <2>1. Solved(k, h, n)'
      BY <1>1, <1>5, RelaxSolved
    <2>2. UNCHANGED <<vars, confused>>
      BY <1>5 DEF Relax, comm
    <2> QED
      BY <1>2, <2>1, <2>2 DEF vars
  <1>6. CASE SendReduction(r)
    <2>1. Solved(k, h, n)'
      BY <1>1, <1>6, SendReductionSolved
    <2>2. UNCHANGED <<vars, confused>>
      BY <1>6 DEF SendReduction
    <2> QED
      BY <1>2, <2>1, <2>2 DEF vars
  <1>7. ASSUME NEW q \in Rank, TakesReduction(r, q)
        PROVE  /\ ~aborted' /\ ~confused' /\ [Next]_vars
               /\ \E k2, h2, n2 : Solved(k2, h2, n2)'
    <2>1. Solved(k, h, n)'
      BY <1>1, <1>7, TakesReductionSolved
    <2>2. UNCHANGED <<vars, confused>>
      BY <1>7 DEF TakesReduction
    <2> QED
      BY <1>2, <2>1, <2>2 DEF vars
  <1>8. CASE SendBroadcast(r)
    <2>1. Solved(k, h, n)'
      BY <1>1, <1>8, SendBroadcastSolved
    <2>2. UNCHANGED <<vars, confused>>
      BY <1>8 DEF SendBroadcast
    <2> QED
      BY <1>2, <2>1, <2>2 DEF vars
  <1>9. ASSUME NEW q \in Rank, TakesBroadcast(r, q)
        PROVE  /\ ~aborted' /\ ~confused' /\ [Next]_vars
               /\ \E k2, h2, n2 : Solved(k2, h2, n2)'
    <2>1. Solved(k, h, n)'
      BY <1>1, <1>9, TakesBroadcastSolved
    <2>2. UNCHANGED <<vars, confused>>
      BY <1>9 DEF TakesBroadcast
    <2> QED
      BY <1>2, <2>1, <2>2 DEF vars
  <1>10. CASE IntegrateStep(r)
    <2>1. Solved(k, h, n)'
      BY <1>1, <1>10, IntegrateSolved
    <2>2. ~aborted' /\ ~confused'
      BY <1>2, <1>10 DEF IntegrateStep, Integrate, comm
    <2>3. Next
      BY <1>10 DEF IntegrateStep, Next
    <2> QED
      BY <2>1, <2>2, <2>3
  <1>11. \/ Walks(r) /\ Sync(r)
         \/ \E q \in Rank : TakesNotes(r, q) /\ Parse(r, q)
         \/ Relax(r)
         \/ SendReduction(r)
         \/ \E q \in Rank : TakesReduction(r, q)
         \/ SendBroadcast(r)
         \/ \E q \in Rank : TakesBroadcast(r, q)
         \/ IntegrateStep(r)
    BY <1>1, <1>2, StepTaken
  <1> QED
    BY <1>3, <1>4, <1>5, <1>6, <1>7, <1>8, <1>9, <1>10, <1>11

(* A step that changes nothing changes no buffer, no clock and no sum. *)
LEMMA StutterSolved ==
  ASSUME ExchangeInv, UNCHANGED allVars
  PROVE  ExchangeInv'
  <1>1. PICK k, h, n : Solved(k, h, n)
    BY DEF ExchangeInv
  <1>2. /\ UNCHANGED vars /\ stage' = stage /\ round' = round /\ dv' = dv /\ vel' = vel
        /\ wire' = wire /\ values' = values /\ awaited' = awaited /\ confused' = confused
    BY DEF allVars, solver, comm
  <1>3. /\ ps' = ps /\ chan' = chan /\ pending' = pending /\ phase' = phase /\ aborted' = aborted
    BY <1>2 DEF vars
  <1>4. \A q \in Rank : Untouched(q)
    BY <1>2, <1>3 DEF Untouched
  <1>5. WiresCarry(k, h, n)'
    <2>1. \A s, d \in Rank : /\ Sent(k, h, n, s, d)' = Sent(k, h, n, s, d)
                             /\ Read(k, h, n, s, d)' = Read(k, h, n, s, d)
      BY <1>4, UntouchedSets
    <2> QED
      BY <1>1, <1>2, <2>1, WiresSame DEF Solved
  <1>6. SolverType'
    BY <1>1, <1>2 DEF Solved, SolverType
  <1>7. Staged'
    BY <1>1, <1>2, <1>3 DEF Solved, Staged, GhostRanks, OwnerRanks, Masters, Ghosts, IsMaster, IsGhost
  <1>8. SumsRight(k, h)'
    <2> SUFFICES ASSUME NEW q \in Rank, NEW u \in Particle, stage'[q] # "sync"
                 PROVE  CopySums(k, h, q, u)'
      BY DEF SumsRight
    <2>1. CopySums(k, h, q, u) /\ Untouched(q)
      BY <1>1, <1>2, <1>4 DEF Solved, SumsRight
    <2> QED
      BY <2>1, SumsFrame
  <1>9. Solved(k, h, n)'
    BY <1>1, <1>2, <1>5, <1>6, <1>7, <1>8, SyncSame DEF Solved
  <1> QED
    BY <1>2, <1>3, <1>9 DEF ExchangeInv

LEMMA ExchangeStep ==
  ASSUME SmallParticles
  PROVE  ExchangeInv /\ [ExchangeNext]_allVars => ExchangeInv' /\ [Next]_vars
  <1> SUFFICES ASSUME ExchangeInv, [ExchangeNext]_allVars
               PROVE  ExchangeInv' /\ [Next]_vars
    OBVIOUS
  <1>1. ASSUME NEW r \in Rank, TimeStep(r) PROVE ExchangeInv' /\ [Next]_vars
    BY <1>1, StepSolved
  <1>2. CASE UNCHANGED allVars
    BY <1>2, StutterSolved DEF allVars
  <1> QED
    BY <1>1, <1>2 DEF ExchangeNext

(* What ExchangeInv says of the kernels and of the sums *)

LEMMA SumsExact ==
  ASSUME ExchangeInv
  PROVE  ReductionExact
  <1>1. PICK k, h, n : Solved(k, h, n)
    BY DEF ExchangeInv
  <1>2. TypeOK /\ SolverType /\ SumsRight(k, h)
    BY <1>1 DEF Solved
  <1> SUFFICES ASSUME NEW r \in Rank, stage[r] = "broadcast", NEW u \in Masters(r), NEW q \in Rank
               PROVE  vel[r][u][q] + dv[r][u][q]
                        = IF q \in ps[r][u].ghosts \cup {r} THEN round[r] + 1 ELSE 0
    BY DEF ReductionExact
  <1> DEFINE i == round[r]
             G == ps[r][u].ghosts
  <1>3. i \in Nat
    BY <1>2, RoundsAssumption DEF SolverType
  <1>4. u \in Particle /\ MasterSums(r, u)
    BY <1>2 DEF SumsRight, CopySums, Masters
  <1>5. CASE G = {}
    <2>1. vel[r][u] = Nothing /\ dv[r][u] = Times(i + 1, {r})
      BY <1>4, <1>5 DEF MasterSums, LoneSums, Has
    <2> QED
      BY <1>3, <1>5, <2>1 DEF Nothing, Times
  <1>6. CASE G # {}
    <2>1. vel[r][u] = Times(i, G \cup {r}) /\ dv[r][u] = Times(1, G \cup {r})
      BY <1>4, <1>6 DEF MasterSums, SharedSums, Has
    <2> QED
      BY <1>3, <2>1 DEF Times
  <1> QED
    BY <1>5, <1>6

LEMMA DoneSums ==
  ASSUME NEW k, NEW h, NEW n, Solved(k, h, n), NEW r \in Rank, stage[r] = "done",
         NEW u \in Particle, NEW d \in Rank, IsMaster(r, u), d \in ps[r][u].ghosts
  PROVE  vel[r][u] = Times(Rounds, h[u][k[r]].ghosts \cup {r})
  <1>1. /\ TypeOK /\ SumsRight(k, h) /\ Walled /\ Histories(k, h, n) /\ Traced(k, h, n)
        /\ phase[r] = "integrate" /\ ps[r][u].ghosts # {}
    BY DEF Solved, Staged
  <1>2. vel[r][u] = Times(Rounds, ps[r][u].ghosts \cup {r})
    BY <1>1 DEF SumsRight, CopySums, MasterSums, SharedSums, Has
  <1>3. ps[r][u].ghosts = h[u][k[r]].ghosts
    BY <1>1, CopiesLinked
  <1> QED
    BY <1>2, <1>3

LEMMA DoneAgree ==
  ASSUME ExchangeInv
  PROVE  CopiesAgree
  <1>1. PICK k, h, n : Solved(k, h, n)
    BY DEF ExchangeInv
  <1> SUFFICES ASSUME NEW r \in Rank, NEW d \in Rank, stage[r] = "done", stage[d] = "done",
                      NEW u \in Masters(r), d \in ps[r][u].ghosts
               PROVE  vel[d][u] = vel[r][u]
    BY DEF CopiesAgree
  <1>2. /\ TypeOK /\ Walled /\ Histories(k, h, n) /\ Traced(k, h, n) /\ Paced(k) /\ SumsRight(k, h)
        /\ phase[r] = "integrate" /\ phase[d] = "integrate"
        /\ k \in [Rank -> Nat]
    BY <1>1 DEF Solved, Staged, Histories, Traced
  <1>3. u \in Particle /\ IsMaster(r, u)
    BY DEF Masters
  <1>4. Linked(h, n, u, k[r], r, d)
    BY <1>2, <1>3, CopiesLinked
  <1>5. d \in Nbr[r]
    BY <1>2, <1>3, <1>4, LinkedNbr
  <1>6. k[d] = k[r]
    <2>1. pending[r] = {} /\ pending[d] = {}
      BY <1>2 DEF Paced
    <2>2. k[r] <= k[d] /\ k[d] <= k[r]
      BY <1>2, <1>5, <2>1, Apart
    <2> QED
      BY <1>2, <2>2
  <1>7. IsGhost(d, u) /\ ps[d][u].owner = r
    <2>1. Linked(h, n, u, k[d], r, d)
      BY <1>4, <1>6
    <2> QED
      BY <1>2, <1>3, <2>1, CopiesLinked
  <1>8. vel[d][u] = Times(Rounds, h[u][k[d]].ghosts \cup {r})
    BY <1>2, <1>3, <1>7 DEF SumsRight, CopySums, GhostSums
  <1>9. vel[r][u] = Times(Rounds, h[u][k[r]].ghosts \cup {r})
    BY <1>1, <1>3, DoneSums
  <1> QED
    BY <1>6, <1>8, <1>9
-----------------------------------------------------------------------------
(* How many buffers are under way *)

LEMMA Counted ==
  ASSUME NEW S, NEW m \in Nat, NEW g \in [1 .. m -> S],
         \A i, j \in 1 .. m : g[i] = g[j] => i = j,
         \A x \in S : \E i \in 1 .. m : g[i] = x
  PROVE  Cardinality(S) = m
  <1>1. g \in Bijection(1 .. m, S)
    BY DEF Bijection, Injection, Surjection, IsInjective
  <1>2. ExistsBijection(1 .. m, S)
    BY <1>1 DEF ExistsBijection
  <1> QED
    BY <1>2, FS_CountingElements

(* The buffers with values, and the places they have among all buffers *)
LEMMA ValuesCounted ==
  ASSUME NEW w \in Seq(Kernel), NEW v, Len(v) \in Nat, NEW Q \in SUBSET Tick, NEW K,
         Buffered(w, v, Q, K)
  PROVE  Cardinality({a \in DOMAIN w : w[a] # "sync"}) = Len(v)
  <1> DEFINE S == {a \in DOMAIN w : w[a] # "sync"}
  <1>1. DOMAIN w = 1 .. Len(w) /\ Len(w) \in Nat
    OBVIOUS
  <1>2. PICK f \in [1 .. Len(w) -> Q] :
          /\ \A a, b \in 1 .. Len(w) : a < b => Before(f[a], f[b])
          /\ \A t \in Q : \E a \in 1 .. Len(w) : f[a] = t
          /\ \A a \in 1 .. Len(w) : w[a] = KernelAt[f[a]]
    BY DEF Buffered, Lined
  <1>3. PICK p \in [1 .. Len(v) -> Valued(Q)] :
          /\ \A a, b \in 1 .. Len(v) : a < b => Before(p[a], p[b])
          /\ \A t \in Valued(Q) : \E a \in 1 .. Len(v) : p[a] = t
    BY DEF Buffered, Lined
  <1>4. \A a, b \in 1 .. Len(w) : f[a] = f[b] => a = b
    <2> SUFFICES ASSUME NEW a \in 1 .. Len(w), NEW b \in 1 .. Len(w), a < b PROVE f[a] # f[b]
      BY <1>1
    <2>1. Before(f[a], f[b]) /\ f[a] \in Tick /\ f[b] \in Tick
      BY <1>2
    <2> QED
      BY <2>1, BeforeOrders
  <1>5. \A a, b \in 1 .. Len(v) : p[a] = p[b] => a = b
    <2> SUFFICES ASSUME NEW a \in 1 .. Len(v), NEW b \in 1 .. Len(v), a < b PROVE p[a] # p[b]
      OBVIOUS
    <2>1. Before(p[a], p[b]) /\ p[a] \in Tick /\ p[b] \in Tick
      BY <1>3 DEF Valued
    <2> QED
      BY <2>1, BeforeOrders
  <1>6. \A a \in 1 .. Len(w) : a \in S <=> f[a] \in Valued(Q)
    <2> SUFFICES ASSUME NEW a \in 1 .. Len(w) PROVE a \in S <=> f[a] \in Valued(Q)
      OBVIOUS
    <2>1. f[a] \in Q /\ f[a] \in Tick /\ w[a] = KernelAt[f[a]]
      BY <1>2
    <2>2. KernelAt[f[a]] = "sync" <=> f[a][3] = 0
      BY <2>1, KernelReads
    <2> QED
      BY <1>1, <2>1, <2>2 DEF Valued
  <1> DEFINE place(i) == CHOOSE a \in 1 .. Len(w) : f[a] = p[i]
             g == [i \in 1 .. Len(v) |-> place(i)]
  <1>7. \A i \in 1 .. Len(v) : place(i) \in 1 .. Len(w) /\ f[place(i)] = p[i]
    <2> SUFFICES ASSUME NEW i \in 1 .. Len(v) PROVE \E a \in 1 .. Len(w) : f[a] = p[i]
      OBVIOUS
    <2>1. p[i] \in Q
      BY <1>3 DEF Valued
    <2> QED
      BY <1>2, <2>1
  <1>8. \A i \in 1 .. Len(v) : g[i] = place(i)
    OBVIOUS
  <1>9. \A x \in S : x \in 1 .. Len(w)
    BY <1>1
  <1> HIDE DEF place, S
  <1>10. g \in [1 .. Len(v) -> S]
    BY <1>3, <1>6, <1>7
  <1> HIDE DEF g
  <1>11. \A i, j \in 1 .. Len(v) : g[i] = g[j] => i = j
    BY <1>5, <1>7, <1>8
  <1>12. \A x \in S : \E i \in 1 .. Len(v) : g[i] = x
    <2> SUFFICES ASSUME NEW x \in S PROVE \E i \in 1 .. Len(v) : g[i] = x
      OBVIOUS
    <2>1. x \in 1 .. Len(w) /\ f[x] \in Valued(Q)
      BY <1>6, <1>9
    <2>2. PICK i \in 1 .. Len(v) : p[i] = f[x]
      BY <1>3, <2>1
    <2>3. place(i) \in 1 .. Len(w) /\ f[place(i)] = f[x]
      BY <1>7, <2>2
    <2>4. place(i) = x
      BY <1>4, <2>1, <2>3
    <2>5. g[i] = x
      BY <1>8, <2>4
    <2> QED
      BY <2>5
  <1>13. Cardinality(S) = Len(v)
    <2> DEFINE m == Len(v)
    <2>1. /\ m \in Nat /\ g \in [1 .. m -> S]
          /\ \A i, j \in 1 .. m : g[i] = g[j] => i = j
          /\ \A x \in S : \E i \in 1 .. m : g[i] = x
      BY <1>10, <1>11, <1>12
    <2> HIDE DEF m
    <2>2. Cardinality(S) = m
      BY ONLY <2>1, Counted
    <2> QED
      BY <2>2 DEF m
  <1> QED
    BY <1>13 DEF S

(* The same for the buffers of a synchronization, when they are of the m walks after
   walk x *)
Noted(Q, x, m) ==
  /\ x \in Int /\ m \in Nat
  /\ \A t \in Tick : t[3] = 0 => (t \in Q <=> \E i \in 1 .. m : t = <<x + i, 0, 0>>)
  /\ \A i \in 1 .. m : x + i \in Nat

Places(w) == {a \in DOMAIN w : w[a] = "sync"}

LEMMA NotesCounted ==
  ASSUME NEW w \in Seq(Kernel), NEW v, NEW Q \in SUBSET Tick, NEW K, Buffered(w, v, Q, K),
         NEW x, NEW m, Noted(Q, x, m)
  PROVE  Cardinality(Places(w)) = m
  <1> DEFINE S == {a \in DOMAIN w : w[a] = "sync"}
             note(i) == <<x + i, 0, 0>>
  <1>0. /\ x \in Int /\ m \in Nat
        /\ \A t \in Tick : t[3] = 0 => (t \in Q <=> \E i \in 1 .. m : t = note(i))
        /\ \A i \in 1 .. m : x + i \in Nat
    BY DEF Noted
  <1>1. DOMAIN w = 1 .. Len(w) /\ Len(w) \in Nat
    OBVIOUS
  <1>2. PICK f \in [1 .. Len(w) -> Q] :
          /\ \A a, b \in 1 .. Len(w) : a < b => Before(f[a], f[b])
          /\ \A t \in Q : \E a \in 1 .. Len(w) : f[a] = t
          /\ \A a \in 1 .. Len(w) : w[a] = KernelAt[f[a]]
    BY DEF Buffered, Lined
  <1>3. \A a, b \in 1 .. Len(w) : f[a] = f[b] => a = b
    <2> SUFFICES ASSUME NEW a \in 1 .. Len(w), NEW b \in 1 .. Len(w), a < b PROVE f[a] # f[b]
      BY <1>1
    <2>1. Before(f[a], f[b]) /\ f[a] \in Tick /\ f[b] \in Tick
      BY <1>2
    <2> QED
      BY <2>1, BeforeOrders
  <1>4. \A a \in 1 .. Len(w) : f[a] \in Tick /\ f[a] \in Q /\ (a \in S <=> f[a][3] = 0)
    <2> SUFFICES ASSUME NEW a \in 1 .. Len(w)
                 PROVE  f[a] \in Tick /\ f[a] \in Q /\ (a \in S <=> f[a][3] = 0)
      OBVIOUS
    <2>1. f[a] \in Q /\ f[a] \in Tick /\ w[a] = KernelAt[f[a]]
      BY <1>2
    <2>2. KernelAt[f[a]] = "sync" <=> f[a][3] = 0
      BY <2>1, KernelReads
    <2> QED
      BY <1>1, <2>1, <2>2
  <1>5. \A i \in 1 .. m : note(i) \in Tick /\ note(i)[3] = 0 /\ note(i) \in Q
    BY <1>0 DEF Tick
  <1>6. \A i, j \in 1 .. m : note(i) = note(j) => i = j
    BY <1>0
  <1>7. \A t \in Q : t[3] = 0 => \E i \in 1 .. m : t = note(i)
    BY <1>0
  <1>8. \A z \in S : z \in 1 .. Len(w)
    BY <1>1
  <1> DEFINE place(i) == CHOOSE a \in 1 .. Len(w) : f[a] = note(i)
             g == [i \in 1 .. m |-> place(i)]
  <1> HIDE DEF note, S
  <1>9. \A i \in 1 .. m : place(i) \in 1 .. Len(w) /\ f[place(i)] = note(i)
    BY <1>2, <1>5
  <1>10. \A i \in 1 .. m : g[i] = place(i)
    OBVIOUS
  <1> HIDE DEF place
  <1>11. g \in [1 .. m -> S]
    BY <1>4, <1>5, <1>9
  <1> HIDE DEF g
  <1>12. \A i, j \in 1 .. m : g[i] = g[j] => i = j
    BY <1>6, <1>9, <1>10
  <1>13. \A z \in S : \E i \in 1 .. m : g[i] = z
    <2> SUFFICES ASSUME NEW z \in S PROVE \E i \in 1 .. m : g[i] = z
      OBVIOUS
    <2>1. z \in 1 .. Len(w) /\ f[z] \in Q /\ f[z][3] = 0
      BY <1>4, <1>8
    <2>2. PICK i \in 1 .. m : f[z] = note(i)
      BY <1>7, <2>1
    <2>3. g[i] = z
      BY <1>3, <1>9, <1>10, <2>1, <2>2
    <2> QED
      BY <2>3
  <1>14. Cardinality(S) = m
    BY <1>0, <1>11, <1>12, <1>13, Counted
  <1> QED
    BY <1>14 DEF S, Places

(* The walks whose buffers are under way *)
LEMMA NotesUnderWay ==
  ASSUME NEW k, NEW h, NEW n, Solved(k, h, n), NEW d \in Rank, NEW s \in Nbr[d],
         NEW x, x = k[d] - (IF s \in pending[d] THEN 1 ELSE 0),
         NEW t \in Tick, t[3] = 0
  PROVE  t \in UnderWay(k, h, n, s, d) <=> t[2] = 0 /\ x < t[1] /\ t[1] <= k[s]
  <1>1. /\ TypeOK /\ Paced(k) /\ Staged /\ k[s] \in Nat /\ k[d] \in Nat /\ s \in Rank /\ d \in Nbr[s]
        /\ SolverType
    <2>1. TypeOK /\ Paced(k) /\ Staged /\ SolverType /\ k \in [Rank -> Nat]
      BY DEF Solved, Histories, Traced
    <2>2. s \in Rank /\ d \in Nbr[s]
      BY <2>1, Apart
    <2> QED
      BY <2>1, <2>2
  <1>2. t[1] \in Nat /\ t[2] \in Nat
    BY DEF Tick
  <1>3. Applies(h, n, s, d, t) <=> t[2] = 0
    BY <1>1, <1>2, RoundsAssumption DEF Applies
  <1>4. t[2] = 0 => (Before(t, SendsNext(k, s)) <=> t[1] <= k[s])
    <2>1. CASE phase[s] = "sync"
      <3>1. SendsNext(k, s) = <<k[s] + 1, 0, 0>>
        BY <1>1, <2>1 DEF SendsNext, Staged
      <3> QED
        BY <1>1, <1>2, <3>1 DEF Before
    <2>2. CASE phase[s] # "sync" /\ stage[s] = "done"
      <3>1. SendsNext(k, s) = <<k[s] + 1, 0, 0>>
        BY <2>2 DEF SendsNext
      <3> QED
        BY <1>1, <1>2, <3>1 DEF Before
    <2>3. CASE phase[s] # "sync" /\ stage[s] # "done"
      <3>1. /\ SendsNext(k, s)[1] = k[s] /\ SendsNext(k, s)[2] \in Nat
            /\ SendsNext(k, s)[3] \in {1, 2, 3}
        BY <1>1, <2>3, RoundsAssumption DEF SendsNext, SolverType, Stage
      <3> QED
        BY <1>1, <1>2, <3>1 DEF Before
    <2> QED
      BY <2>1, <2>2, <2>3
  <1>5. t[2] = 0 => (Before(t, ReadsNext(k, d, s)) <=> t[1] <= x)
    <2>1. CASE phase[d] = "sync" \/ stage[d] = "done"
      <3>1. ReadsNext(k, d, s) = <<k[d] + 1, 0, 0>>
        BY <1>1, <2>1 DEF ReadsNext, Staged
      <3>2. s \notin pending[d]
        BY <1>1, <2>1 DEF Paced, Staged
      <3> QED
        BY <1>1, <1>2, <3>1, <3>2 DEF Before
    <2>2. CASE phase[d] # "sync" /\ stage[d] = "sync"
      <3>1. ReadsNext(k, d, s) = <<k[d], 0, IF s \in pending[d] THEN 0 ELSE 1>>
        BY <2>2 DEF ReadsNext
      <3> QED
        BY <1>1, <1>2, <3>1 DEF Before
    <2>3. CASE phase[d] # "sync" /\ stage[d] \notin {"sync", "done"}
      <3>1. /\ ReadsNext(k, d, s)[1] = k[d] /\ ReadsNext(k, d, s)[2] \in Nat
            /\ ReadsNext(k, d, s)[3] \in {1, 2, 3}
        BY <1>1, <2>3, RoundsAssumption DEF ReadsNext, SolverType, Stage
      <3>2. s \notin pending[d]
        BY <1>1, <2>3 DEF Paced, Staged
      <3> QED
        BY <1>1, <1>2, <3>1, <3>2 DEF Before
    <2> QED
      BY <2>1, <2>2, <2>3
  <1>6. x \in Int
    BY <1>1
  <1> QED
    BY <1>1, <1>2, <1>3, <1>4, <1>5, <1>6 DEF UnderWay, Sent, Read

LEMMA QueuesCounted ==
  ASSUME NEW k, NEW h, NEW n, Solved(k, h, n), NEW s \in Rank, NEW d \in Rank
  PROVE  /\ Len(values[<<s, d>>]) = Cardinality(WithValues(<<s, d>>))
         /\ Len(chan[<<s, d>>]) = Cardinality(WithNotes(<<s, d>>))
  <1> DEFINE w == wire[<<s, d>>]
             v == values[<<s, d>>]
             Q == UnderWay(k, h, n, s, d)
             len == Len(chan[<<s, d>>])
  <1>1. TypeOK /\ SolverType /\ Paced(k) /\ WiresCarry(k, h, n) /\ k \in [Rank -> Nat]
    BY DEF Solved, Histories, Traced
  <1>2. Buffered(w, v, Q, Said(h, n, s, d))
    BY <1>1 DEF WiresCarry, Carries
  <1>3. w \in Seq(Kernel) /\ v \in Seq(Contents) /\ Len(v) \in Nat
    BY <1>1 DEF SolverType
  <1>4. Q \subseteq Tick
    BY DEF UnderWay, Sent
  <1>5. chan[<<s, d>>] \in Seq(Batch)
    BY <1>1 DEF TypeOK
  <1>6. len \in Nat
    BY <1>5
  <1>7. /\ WithValues(<<s, d>>) = {a \in DOMAIN w : w[a] # "sync"}
        /\ WithNotes(<<s, d>>) = Places(w)
    BY DEF WithValues, WithNotes, Places
  <1>8. \A t \in Tick : t[1] \in Nat
    BY DEF Tick
  <1> HIDE DEF w, v, Q, len
  <1>9. Len(v) = Cardinality(WithValues(<<s, d>>))
    BY <1>2, <1>3, <1>4, <1>7, ValuesCounted
  <1>10. ASSUME s \in Nbr[d] PROVE len = Cardinality(Places(w))
    <2> DEFINE x == k[d] - (IF s \in pending[d] THEN 1 ELSE 0)
    <2>1. k[s] \in Nat /\ k[d] \in Nat /\ k[s] = x + len /\ x \in Int /\ x >= -1
      BY <1>1, <1>6, <1>10 DEF Paced, len
    <2>2. \A t \in Tick : t[3] = 0 => (t \in Q <=> t[2] = 0 /\ x < t[1] /\ t[1] <= k[s])
      BY <1>10, NotesUnderWay DEF Q
    <2> HIDE DEF x
    <2>3. \A t \in Tick : t[3] = 0 => (t \in Q <=> \E i \in 1 .. len : t = <<x + i, 0, 0>>)
      <3> SUFFICES ASSUME NEW t \in Tick, t[3] = 0
                   PROVE  t \in Q <=> \E i \in 1 .. len : t = <<x + i, 0, 0>>
        OBVIOUS
      <3>1. t \in Q <=> t[2] = 0 /\ x < t[1] /\ t[1] <= x + len
        BY <2>1, <2>2
      <3>2. \A i \in 1 .. len : t = <<x + i, 0, 0>> <=> t[1] = x + i /\ t[2] = 0
        BY DEF Tick
      <3>3. (\E i \in 1 .. len : t[1] = x + i) <=> x < t[1] /\ t[1] <= x + len
        <4>1. ASSUME x < t[1], t[1] <= x + len PROVE \E i \in 1 .. len : t[1] = x + i
          <5>1. t[1] - x \in 1 .. len /\ t[1] = x + (t[1] - x)
            BY <1>6, <1>8, <2>1, <4>1
          <5> QED
            BY <5>1
        <4>2. ASSUME NEW i \in 1 .. len, t[1] = x + i PROVE x < t[1] /\ t[1] <= x + len
          BY <1>6, <2>1, <4>2
        <4> QED
          BY <4>1, <4>2
      <3> QED
        BY <3>1, <3>2, <3>3
    <2>4. \A i \in 1 .. len : x + i \in Nat
      BY <1>6, <2>1
    <2>5. Noted(Q, x, len)
      BY <1>6, <2>1, <2>3, <2>4 DEF Noted
    <2> QED
      BY <1>2, <1>3, <1>4, <2>5, NotesCounted
  <1>11. ASSUME s \notin Nbr[d] PROVE len = Cardinality(Places(w))
    <2>1. len = 0
      BY <1>1, <1>11 DEF Paced, len
    <2>2. d \notin Nbr[s]
      BY <1>11, NeighborAssumption
    <2>3. \A t \in Q : t[3] # 0
      BY <2>2 DEF Q, UnderWay, Sent, Applies
    <2>4. \A t \in Tick : t[3] = 0 => (t \in Q <=> \E i \in 1 .. 0 : t = <<0 + i, 0, 0>>)
      BY <2>3
    <2>5. Noted(Q, 0, 0)
      BY <2>4 DEF Noted
    <2>6. Cardinality(Places(w)) = 0
      BY <1>2, <1>3, <1>4, <2>5, NotesCounted
    <2> QED
      BY <2>1, <2>6
  <1> QED
    BY <1>7, <1>9, <1>10, <1>11 DEF v, len

LEMMA ExchangeTyped ==
  ASSUME ExchangeInv
  PROVE  ExchangeTypeOK
  <1>1. PICK k, h, n : Solved(k, h, n)
    BY DEF ExchangeInv
  <1>2. SolverType
    BY <1>1 DEF Solved
  <1>3. ASSUME NEW c \in Rank \X Rank
        PROVE  /\ \A i \in DOMAIN values[c] : IsContents(values[c][i])
               /\ Len(values[c]) = Cardinality(WithValues(c))
               /\ Len(chan[c]) = Cardinality(WithNotes(c))
    <2>1. PICK s \in Rank, d \in Rank : c = <<s, d>>
      OBVIOUS
    <2>2. values[c] \in Seq(Contents)
      BY <1>2 DEF SolverType
    <2>3. \A i \in DOMAIN values[c] : values[c][i] \in Contents
      BY <2>2
    <2>4. \A i \in DOMAIN values[c] : IsContents(values[c][i])
      BY <2>3 DEF Contents, IsContents
    <2> QED
      BY <1>1, <2>1, <2>4, QueuesCounted
  <1> QED
    BY <1>2, <1>3 DEF ExchangeTypeOK, SolverType, Stage
-----------------------------------------------------------------------------
(* Theorems *)

(* No kernel takes a buffer of another, no check fails, and what is under way and in
   the sums is what the clocks and the chapters of the processes say. *)
THEOREM ExchangeInvariance ==
  ASSUME SmallParticles
  PROVE  ExchangeSpec => []ExchangeInv
  <1>1. ExchangeInit => ExchangeInv
    BY StartSolved
  <1>2. ExchangeInv /\ [ExchangeNext]_allVars => ExchangeInv'
    BY ExchangeStep
  <1> QED
    BY <1>1, <1>2, PTL DEF ExchangeSpec

(* Seen from ParticleSync, the time step is a synchronization: what the reductions
   and broadcasts send with the same tag disturbs none of its steps. *)
THEOREM ExchangeSynchronizes ==
  ASSUME SmallParticles
  PROVE  ExchangeSpec => Spec
  <1>1. ExchangeInit => Init
    BY DEF ExchangeInit
  <1>2. ExchangeInv /\ [ExchangeNext]_allVars => [Next]_vars
    BY ExchangeStep
  <1> QED
    BY <1>1, <1>2, ExchangeInvariance, PTL DEF ExchangeSpec, Spec

(* Although synchronization, reduction and broadcast share one tag and keep no
   barrier between them, no kernel is handed a buffer of another. *)
THEOREM KernelsNotConfused ==
  ASSUME SmallParticles
  PROVE  ExchangeSpec => []NoConfusion
  <1>1. ExchangeInv => NoConfusion
    BY DEF ExchangeInv, NoConfusion
  <1> QED
    BY <1>1, ExchangeInvariance, PTL

(* When a reduction is over, the master holds every contribution of its copies
   exactly once. *)
THEOREM ReductionIsExact ==
  ASSUME SmallParticles
  PROVE  ExchangeSpec => []ReductionExact
  <1>1. ExchangeInv => ReductionExact
    BY SumsExact
  <1> QED
    BY <1>1, ExchangeInvariance, PTL

(* After the last round a ghost has the velocity of its master. *)
THEOREM CopiesComeToAgree ==
  ASSUME SmallParticles
  PROVE  ExchangeSpec => []CopiesAgree
  <1>1. ExchangeInv => CopiesAgree
    BY DoneAgree
  <1> QED
    BY <1>1, ExchangeInvariance, PTL

(* No check of the synchronization fails in a time step either. *)
THEOREM ExchangeChecksHold ==
  ASSUME SmallParticles
  PROVE  ExchangeSpec => []NoAbort
  <1> QED
    BY ExchangeSynchronizes, ChecksHold, PTL

(* Nor does the outflow branch delete a particle that is inside of the domain, as long
   as a step takes particles no further than into a neighbour subdomain. *)
THEOREM ExchangeKeepsInside ==
  ASSUME SmallParticles, StepsToNeighbors
  PROVE  ExchangeSpec => OutflowIsOutside
  <1> QED
    BY ExchangeSynchronizes, OnlyOutsideIsDeleted, PTL

(* The type invariant of what is added to ParticleSync: what is under way is, buffer by
   buffer, what the wire says. *)
THEOREM ExchangeTypeCorrect ==
  ASSUME SmallParticles
  PROVE  ExchangeSpec => []ExchangeTypeOK
  <1>1. ExchangeInv => ExchangeTypeOK
    BY ExchangeTyped
  <1> QED
    BY <1>1, ExchangeInvariance, PTL
=============================================================================
