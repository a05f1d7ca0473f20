---------------------- MODULE PhantomMigrationProofs ----------------------
(***************************************************************************)
(* A refresh is determined by its job: what each process holds is a        *)
(* function of the job and of how far the process is, and a queue holds    *)
(* what its sender has sent and its receiver has not taken, in order.      *)
(* Nothing is assumed of how far apart processes are: a process that       *)
(* awaits a message of its round finds that one first in the queue, since  *)
(* it has taken all earlier ones.                                          *)
(*                                                                         *)
(* The second half of each operator name that ends in Of stands for a      *)
(* value of the model as the job j determines it.                          *)
(***************************************************************************)
EXTENDS PhantomMigration, FiniteSetTheorems, WellFoundedInduction, TLAPS

-----------------------------------------------------------------------------
(* Blocks before and after *)

LeavesOf(j) == DOMAIN j.place

TargetsOf(j, b) == CASE j.mark[b] = "keep" -> <<b>>
                     [] j.mark[b] = "split" -> Children[b]
                     [] j.mark[b] = "merge" -> <<Father[b]>>

SourcesOf(j, x) ==
  IF x \in LeavesOf(j) THEN <<x>>
  ELSE IF x \in DOMAIN Father /\ Father[x] \in LeavesOf(j) THEN <<Father[x]>>
  ELSE Children[x]

NewOf(j) == UNION {ToSet(TargetsOf(j, b)) : b \in LeavesOf(j)}

RoundsOf(j) == Len(j.rounds)

PlaceOf(j, x, n) == IF n = 0 THEN j.place[SourcesOf(j, x)[1]] ELSE j.rounds[n][x]

(* Where x is among the targets of its sources *)
IndexOf(j, x) ==
  IF Len(SourcesOf(j, x)) = 1 /\ x \notin LeavesOf(j) THEN Branch[x] ELSE 1

LeavesOn(j, p) == {b \in LeavesOf(j) : j.place[b] = p}

OnOf(j, p, n) == {x \in NewOf(j) : PlaceOf(j, x, n) = p}

-----------------------------------------------------------------------------
(* What is known of neighbours *)

NearOf(j, p) ==
  {j.place[c] : c \in {d \in LeavesOf(j) : \E b \in LeavesOn(j, p) : d \in Touch[b]}} \ {p}

HopOf(j, p) == {p} \cup NearOf(j, p)

TwoHopsOf(j, p) == UNION {HopOf(j, q) : q \in HopOf(j, p)}

(* Blocks to be begun on the processes of Q *)
KnownBy(j, Q) == [x \in {y \in NewOf(j) : PlaceOf(j, y, 0) \in Q} |-> PlaceOf(j, x, 0)]

NbOf(j, x) ==
  {y \in NewOf(j) \cap Touch[x] : PlaceOf(j, y, 0) \in TwoHopsOf(j, PlaceOf(j, x, 0))}

NbrOf(j, x, n) == [y \in NbOf(j, x) |-> PlaceOf(j, y, n)]

AroundOf(j, p, n) ==
  (UNION {{PlaceOf(j, y, n) : y \in NbOf(j, x)} : x \in OnOf(j, p, n)}) \ {p}

(* The process network from round to round *)
NetStep(j, N, n) ==
  [p \in Rank |->
     IF j.buffers
     THEN {q \in N[p] : OnOf(j, q, n) = {}} \cup (IF OnOf(j, p, n) = {} THEN N[p] ELSE {})
            \cup AroundOf(j, p, n)
     ELSE AroundOf(j, p, n)]

Nets(j, N, m) ==
  /\ N \in [0..m -> [Rank -> SUBSET Rank]]
  /\ N[0] = j.network
  /\ \A n \in 0..m : n < m => N[n + 1] = NetStep(j, N[n], n)

NetOf(j) == CHOOSE N : Nets(j, N, RoundsOf(j) + 1)

-----------------------------------------------------------------------------
(* Phantoms, links and blocks *)

FromOf(j, x) == [i \in DOMAIN SourcesOf(j, x) |-> j.place[SourcesOf(j, x)[i]]]

PhantomOf(j, x, n, m) ==
  [from |-> FromOf(j, x), to |-> PlaceOf(j, x, n), nbr |-> NbrOf(j, x, m)]

(* Phantoms that go from s to d in the round after n *)
GoOf(j, n, s, d) == {x \in OnOf(j, s, n) : PlaceOf(j, x, n + 1) = d}

LinksOf(j, n, p, s) ==
  UNION {{<<SourcesOf(j, x)[i], IndexOf(j, x), PlaceOf(j, x, n + 1)>> :
            i \in {k \in DOMAIN FromOf(j, x) : FromOf(j, x)[k] = s}} : x \in OnOf(j, p, n)}

FreshOf(j, p) ==
  {x \in OnOf(j, p, RoundsOf(j)) : x \notin LeavesOf(j) \/ FromOf(j, x)[1] # p}

GoneOf(j, p) ==
  {b \in LeavesOn(j, p) :
     j.mark[b] # "keep" \/ PlaceOf(j, TargetsOf(j, b)[1], RoundsOf(j)) # p}

DataOf(j, p, q) ==
  UNION {{[from |-> b, to |-> TargetsOf(j, b)[i], data |-> b] :
            i \in {k \in DOMAIN TargetsOf(j, b) :
                     PlaceOf(j, TargetsOf(j, b)[k], RoundsOf(j)) = q}} :
         b \in GoneOf(j, p)}

ExpectedOf(j, x) ==
  IF Len(SourcesOf(j, x)) = 1 THEN SourcesOf(j, x)[1] ELSE SourcesOf(j, x)

(* The early out is taken. *)
SkipsOf(j) ==
  j.earlyOut /\ \A x \in NewOf(j) : ToSet(FromOf(j, x)) = {PlaceOf(j, x, RoundsOf(j))}

-----------------------------------------------------------------------------
(* What is said under each tag: the message of round n from s to d *)
Applies(j, t, n, s, d) ==
  CASE t = "meet" -> d \in NearOf(j, s)
    [] t = "network" -> j.buffers /\ d \in NetOf(j)[n][s]
    [] t = "moves" -> d \in AroundOf(j, s, n)
    [] t = "links" -> d # s /\ LinksOf(j, n, s, d) # {}
    [] t = "phantoms" -> d # s /\ GoOf(j, n, s, d) # {}
    [] t = "states" -> d # s /\ \E x \in FreshOf(j, s) : d \in ToSet(FromOf(j, x))
    [] t = "data" -> DataOf(j, s, d) # {}

Said(j, t, n, s, d) ==
  CASE t = "meet" -> KnownBy(j, IF n = 0 THEN {s} ELSE HopOf(j, s))
    [] t = "network" -> OnOf(j, s, n) = {}
    [] t = "moves" -> [x \in OnOf(j, s, n) |-> PlaceOf(j, x, n + 1)]
    [] t = "links" -> LinksOf(j, n, s, d)
    [] t = "phantoms" -> [x \in GoOf(j, n, s, d) |-> PhantomOf(j, x, n + 1, n + 1)]
    [] t = "states" -> {x \in FreshOf(j, s) : d \in ToSet(FromOf(j, x))}
    [] t = "data" -> DataOf(j, s, d)

(* How many messages under t a process at l, n rounds done, has sent and taken *)
Before == {"create", "meet", "reconstruct"}

SentOf(t, l, n) ==
  CASE t = "meet" -> IF l = "create" THEN 0 ELSE IF l = "meet" THEN 1 ELSE 2
    [] t = "network" -> IF l \in Before THEN 0 ELSE n + 1
    [] t = "moves" -> IF l \in {"moves", "links", "phantoms"} THEN n + 1 ELSE n
    [] t = "links" -> IF l \in {"links", "phantoms"} THEN n + 1 ELSE n
    [] t = "phantoms" -> IF l = "phantoms" THEN n + 1 ELSE n
    [] t = "states" -> IF l \in {"states", "data", "done"} THEN 1 ELSE 0
    [] t = "data" -> IF l \in {"data", "done"} THEN 1 ELSE 0

ReadOf(t, l, n) ==
  CASE t = "meet" -> IF l \in {"create", "meet"} THEN 0 ELSE IF l = "reconstruct" THEN 1 ELSE 2
    [] t = "network" -> IF l \in Before THEN 0 ELSE IF l = "network" THEN n ELSE n + 1
    [] t = "moves" -> IF l \in {"links", "phantoms"} THEN n + 1 ELSE n
    [] t = "links" -> IF l = "phantoms" THEN n + 1 ELSE n
    [] t = "phantoms" -> n
    [] t = "states" -> IF l \in {"data", "done"} THEN 1 ELSE 0
    [] t = "data" -> IF l = "done" THEN 1 ELSE 0

(* The tag a process at l waits for *)
Waits == {"meet", "reconstruct", "network", "moves", "links", "phantoms", "states", "data"}

TagAt(l) == IF l = "reconstruct" THEN "meet" ELSE l

-----------------------------------------------------------------------------
(* Queues *)

Rises(f, l) == \A a, b \in 1..l : a < b => f[a] < f[b]

(* Queue w holds what K says for the numbers of Q, in their order. *)
Lined(w, Q, K) ==
  \E f \in [1..Len(w) -> Q] :
    /\ Rises(f, Len(w))
    /\ \A t \in Q : \E a \in 1..Len(w) : f[a] = t
    /\ \A a \in 1..Len(w) : w[a] = K[f[a]]

Messages(j) == {Said(j, t, n, s, d) : t \in Tag, n \in Nat, s \in Rank, d \in Rank}

SaidBy(j, t, s, d) == [n \in Nat |-> Said(j, t, n, s, d)]

UnderWay(j, t, s, d, S, R) == {n \in R..(S - 1) : Applies(j, t, n, s, d)}

(* The queue w from s to d under t, when s has sent S times and d has taken R times *)
Channel(j, t, s, d, S, R, w) ==
  /\ w \in Seq(Messages(j))
  /\ Lined(w, UnderWay(j, t, s, d, S, R), SaidBy(j, t, s, d))
  /\ \A n \in 0..(R - 1) : Applies(j, t, n, s, d) => n < S

SentBy == [t \in Tag |-> [p \in Rank |-> SentOf(t, pc[p], iter[p])]]

ReadBy == [t \in Tag |-> [p \in Rank |-> ReadOf(t, pc[p], iter[p])]]

Channels(j, m, S, R) ==
  \A t \in Tag : \A s, d \in Rank : Channel(j, t, s, d, S[t][s], R[t][d], m[t][<<s, d>>])

-----------------------------------------------------------------------------
(* What process p holds at l, n rounds done *)

LinkOf(j, p, x, l, n) ==
  IF l = "phantoms" \/ (l = "links" /\ PlaceOf(j, x, n) = p)
  THEN PlaceOf(j, x, n + 1) ELSE PlaceOf(j, x, n)

ToOf(j, p, b, l, n) ==
  IF l = "create" THEN <<>>
  ELSE [i \in DOMAIN TargetsOf(j, b) |-> LinkOf(j, p, TargetsOf(j, b)[i], l, n)]

OldBlock(j, p, b, l, n) ==
  [to |-> ToOf(j, p, b, l, n), data |-> b,
   nbr |-> [y \in LeavesOf(j) \cap Touch[b] |-> j.place[y]]]

NewBlock(j, p, x, l) ==
  [to |-> <<>>, nbr |-> NbrOf(j, x, RoundsOf(j)),
   data |-> IF l = "data" /\ x \in FreshOf(j, p) THEN NoData ELSE ExpectedOf(j, x)]

Updated(j, l) == l = "data" \/ (l = "done" /\ ~SkipsOf(j))

BlocksOf(j, p, l, n) ==
  IF Updated(j, l) THEN [x \in OnOf(j, p, RoundsOf(j)) |-> NewBlock(j, p, x, l)]
  ELSE [b \in LeavesOn(j, p) |-> OldBlock(j, p, b, l, n)]

(* The round the destinations, and the neighbours, of phantoms are those of *)
ToRound(l, n) == IF l \in {"moves", "links", "phantoms"} THEN n + 1 ELSE n

NbrRound(l, n) == IF l \in {"links", "phantoms"} THEN n + 1 ELSE n

PhantomsOf(j, p, l, n) ==
  IF l = "create" THEN <<>>
  ELSE IF l \in {"meet", "reconstruct"}
  THEN [x \in OnOf(j, p, 0) |-> [from |-> FromOf(j, x), to |-> p, nbr |-> <<>>]]
  ELSE [x \in {y \in OnOf(j, p, n) : l = "phantoms" => PlaceOf(j, y, n + 1) = p} |->
          PhantomOf(j, x, ToRound(l, n), NbrRound(l, n))]

KnownOf(j, p, l) ==
  CASE l = "meet" -> KnownBy(j, {p})
    [] l = "reconstruct" -> KnownBy(j, HopOf(j, p))
    [] OTHER -> <<>>

SendersOf(j, p, l, n) ==
  {s \in Rank : Applies(j, TagAt(l), ReadOf(TagAt(l), l, n), s, p)}

(* How far a process can be *)
Clock(j, l, n) ==
  /\ l \in Before => n = 0
  /\ l \in {"moves", "links", "phantoms"} => n < RoundsOf(j)
  /\ l \in {"vote", "update", "states", "data", "done"} => n = RoundsOf(j)
  /\ l = "network" => j.buffers
  /\ l = "vote" => j.earlyOut
  /\ l \in {"update", "states", "data"} => ~SkipsOf(j)

Determined(j, p, l, n, bs, ph, kn, ne, aw) ==
  /\ Clock(j, l, n)
  /\ bs = BlocksOf(j, p, l, n)
  /\ ph = PhantomsOf(j, p, l, n)
  /\ kn = KnownOf(j, p, l)
  /\ ne = NetOf(j)[ReadOf("network", l, n)][p]
  /\ l \in Waits => aw = SendersOf(j, p, l, n)

Label == {"create", "meet", "reconstruct", "network", "balance", "moves",
          "links", "phantoms", "vote", "update", "states", "data", "done"}

Shapes ==
  /\ job \in Jobs
  /\ pc \in [Rank -> Label] /\ iter \in [Rank -> 0..RoundsOf(job)]
  /\ network \in [Rank -> SUBSET Rank] /\ await \in [Rank -> SUBSET Rank]
  /\ DOMAIN blocks = Rank /\ DOMAIN phantoms = Rank /\ DOMAIN known = Rank
  /\ DOMAIN mail = Tag

Local(p) ==
  Determined(job, p, pc[p], iter[p], blocks[p], phantoms[p], known[p], network[p], await[p])

(* The inductive invariant *)
MigrationInv ==
  /\ Shapes
  /\ \A p \in Rank : Local(p)
  /\ Channels(job, mail, SentBy, ReadBy)

-----------------------------------------------------------------------------
(* Facts about numbers and queues *)

(* A set of numbers has a least one. *)
LEMMA LeastNumber ==
  ASSUME NEW T, T \subseteq Nat, T # {}
  PROVE  \E x \in T : \A y \in T : x <= y
  <1> DEFINE R == OpToRel(<, Nat)
  <1>1. IsWellFoundedOn(R, Nat)
    BY NatLessThanWellFounded, Zenon
  <1>2. \A x, y \in Nat : y < x => <<y, x>> \in R
    BY Zenon DEF OpToRel
  <1> HIDE DEF R
  <1>3. PICK x \in T : \A y \in T : ~(<<y, x>> \in R)
    BY <1>1, WFMin, Zenon
  <1>4. \A y \in T : ~(y < x)
    BY <1>2, <1>3
  <1> QED
    BY <1>3, <1>4

LEMMA LinedBy ==
  ASSUME NEW w, NEW Q, NEW K, NEW f \in [1..Len(w) -> Q],
         Rises(f, Len(w)),
         \A q \in Q : \E a \in 1..Len(w) : f[a] = q,
         \A a \in 1..Len(w) : w[a] = K[f[a]]
  PROVE  Lined(w, Q, K)
  BY DEF Lined

LEMMA LinedEmpty ==
  ASSUME NEW K
  PROVE  Lined(<<>>, {}, K)
  <1> DEFINE f == [a \in 1..Len(<<>>) |-> 0]
  <1>1. Len(<<>>) = 0
    OBVIOUS
  <1>2. 1..Len(<<>>) = {}
    BY <1>1
  <1>3. f \in [1..Len(<<>>) -> {}]
    BY <1>2
  <1>4. Rises(f, Len(<<>>))
    BY <1>2 DEF Rises
  <1> HIDE DEF f
  <1> QED
    BY <1>2, <1>3, <1>4, LinedBy

(* A queue is empty when nothing is to be in it, and only then. *)
LEMMA LinedNone ==
  ASSUME NEW S, NEW w \in Seq(S), NEW Q, NEW K, Lined(w, Q, K)
  PROVE  w = <<>> <=> Q = {}
  <1>1. w # <<>> => 1 \in 1..Len(w)
    OBVIOUS
  <1>2. w # <<>> => Q # {}
    BY <1>1 DEF Lined
  <1>3. w = <<>> => 1..Len(w) = {}
    OBVIOUS
  <1>4. w = <<>> => Q = {}
    BY <1>3 DEF Lined
  <1> QED
    BY <1>2, <1>4

LEMMA LinedAppend ==
  ASSUME NEW S, NEW w \in Seq(S), NEW Q \in SUBSET Nat, NEW K, Lined(w, Q, K),
         NEW t \in Nat, \A q \in Q : q < t, NEW x \in S, x = K[t]
  PROVE  Lined(Append(w, x), Q \cup {t}, K)
  <1> DEFINE l == Len(w)
             v == Append(w, x)
  <1>1. PICK f \in [1..l -> Q] :
          /\ Rises(f, l)
          /\ \A q \in Q : \E a \in 1..l : f[a] = q
          /\ \A a \in 1..l : w[a] = K[f[a]]
    BY DEF Lined
  <1>a. \A a, b \in 1..l : a < b => f[a] < f[b]
    BY <1>1 DEF Rises
  <1>2. /\ l \in Nat /\ Len(v) = l + 1 /\ v[l + 1] = x
        /\ \A a \in 1..l : v[a] = w[a]
    OBVIOUS
  <1> HIDE DEF l, v
  <1> DEFINE g == [a \in 1..(l + 1) |-> IF a = l + 1 THEN t ELSE f[a]]
  <1>3. /\ g[l + 1] = t
        /\ \A a \in 1..l : g[a] = f[a] /\ g[a] \in Q
    BY <1>1, <1>2
  <1>4. \A a \in 1..(l + 1) : a = l + 1 \/ a \in 1..l
    BY <1>2
  <1>5. g \in [1..(l + 1) -> Q \cup {t}]
    BY <1>1, <1>2, <1>4
  <1> HIDE DEF g
  <1>6. Rises(g, l + 1)
    <2> SUFFICES ASSUME NEW a \in 1..(l + 1), NEW b \in 1..(l + 1), a < b
                 PROVE  g[a] < g[b]
      BY DEF Rises
    <2>1. a \in 1..l
      BY <1>2
    <2>2. CASE b = l + 1
      BY <1>3, <2>1, <2>2
    <2>3. CASE b \in 1..l
      BY <1>a, <1>3, <2>1, <2>3
    <2> QED
      BY <1>4, <2>2, <2>3
  <1>7. \A q \in Q \cup {t} : \E a \in 1..(l + 1) : g[a] = q
    <2>1. l + 1 \in 1..(l + 1) /\ \A a \in 1..l : a \in 1..(l + 1)
      BY <1>2
    <2> QED
      BY <1>1, <1>3, <2>1
  <1>8. \A a \in 1..(l + 1) : v[a] = K[g[a]]
    BY <1>1, <1>2, <1>3, <1>4
  <1>9. Lined(v, Q \cup {t}, K)
    <2>1. Len(v) = l + 1
      BY <1>2
    <2>2. /\ g \in [1..Len(v) -> Q \cup {t}]
          /\ Rises(g, Len(v))
      BY ONLY <1>5, <1>6, <2>1
    <2>3. /\ \A q \in Q \cup {t} : \E a \in 1..Len(v) : g[a] = q
          /\ \A a \in 1..Len(v) : v[a] = K[g[a]]
      BY ONLY <1>7, <1>8, <2>1
    <2> QED
      BY ONLY <2>2, <2>3, LinedBy
  <1> QED
    BY <1>9 DEF v

LEMMA LinedTake ==
  ASSUME NEW S, NEW w \in Seq(S), NEW Q \in SUBSET Nat, NEW K, Lined(w, Q, K),
         NEW m \in Q, \A q \in Q : m <= q
  PROVE  /\ Head(w) = K[m]
         /\ Lined(Tail(w), Q \ {m}, K)
  <1> DEFINE l == Len(w)
             v == Tail(w)
  <1>1. PICK f \in [1..l -> Q] :
          /\ Rises(f, l)
          /\ \A q \in Q : \E a \in 1..l : f[a] = q
          /\ \A a \in 1..l : w[a] = K[f[a]]
    BY DEF Lined
  <1>a. \A a, b \in 1..l : a < b => f[a] < f[b]
    BY <1>1 DEF Rises
  <1>2. PICK e \in 1..l : f[e] = m
    BY <1>1
  <1>3. l \in Nat /\ l # 0 /\ 1 \in 1..l
    BY <1>2
  <1>4. e = 1
    <2> SUFFICES ASSUME e # 1 PROVE FALSE
      OBVIOUS
    <2>1. f[1] < m /\ f[1] \in Q
      BY <1>a, <1>2, <1>3
    <2>2. m <= f[1] /\ m \in Nat /\ f[1] \in Nat
      BY <2>1
    <2> QED
      BY <2>1, <2>2
  <1>5. /\ w # <<>> /\ Head(w) = w[1]
        /\ Len(v) = l - 1
        /\ \A a \in 1..(l - 1) : v[a] = w[a + 1]
    BY <1>3
  <1> HIDE DEF l, v
  <1> DEFINE g == [a \in 1..(l - 1) |-> f[a + 1]]
  <1>6. \A a \in 1..(l - 1) : a + 1 \in 1..l /\ a + 1 # 1 /\ g[a] = f[a + 1]
    BY <1>3
  <1>7. \A a \in 1..(l - 1) : f[a + 1] \in Q \ {m}
    <2> SUFFICES ASSUME NEW a \in 1..(l - 1) PROVE f[a + 1] \in Q \ {m}
      OBVIOUS
    <2>1. f[1] < f[a + 1] /\ f[a + 1] \in Q
      BY <1>a, <1>3, <1>6
    <2> QED
      BY <1>2, <1>4, <2>1
  <1>8. g \in [1..(l - 1) -> Q \ {m}]
    BY <1>7
  <1> HIDE DEF g
  <1>9. Rises(g, l - 1)
    BY <1>a, <1>6 DEF Rises
  <1>10. \A q \in Q \ {m} : \E a \in 1..(l - 1) : g[a] = q
    <2> SUFFICES ASSUME NEW q \in Q \ {m} PROVE \E a \in 1..(l - 1) : g[a] = q
      OBVIOUS
    <2>1. PICK c \in 1..l : f[c] = q
      BY <1>1
    <2>2. c # 1
      BY <1>2, <1>4, <2>1
    <2>3. c - 1 \in 1..(l - 1) /\ (c - 1) + 1 = c
      BY <1>3, <2>2
    <2>4. g[c - 1] = q
      BY <1>6, <2>1, <2>3
    <2> QED
      BY <2>3, <2>4
  <1>11. \A a \in 1..(l - 1) : v[a] = K[g[a]]
    BY <1>1, <1>5, <1>6
  <1>12. Lined(v, Q \ {m}, K)
    <2>1. Len(v) = l - 1
      BY <1>5
    <2>2. /\ g \in [1..Len(v) -> Q \ {m}]
          /\ Rises(g, Len(v))
      BY ONLY <1>8, <1>9, <2>1
    <2>3. /\ \A q \in Q \ {m} : \E a \in 1..Len(v) : g[a] = q
          /\ \A a \in 1..Len(v) : v[a] = K[g[a]]
      BY ONLY <1>10, <1>11, <2>1
    <2> QED
      BY ONLY <2>2, <2>3, LinedBy
  <1>13. Head(w) = K[m]
    BY <1>1, <1>2, <1>3, <1>4, <1>5
  <1> QED
    BY <1>12, <1>13 DEF v

-----------------------------------------------------------------------------
(* One channel *)

(* The sender sends what it says for its present number. *)
LEMMA ChannelSend ==
  ASSUME NEW j, NEW t \in Tag, NEW s \in Rank, NEW d \in Rank, NEW S \in Nat, NEW R \in Nat,
         NEW w, Channel(j, t, s, d, S, R, w), Applies(j, t, S, s, d)
  PROVE  Channel(j, t, s, d, S + 1, R, Append(w, Said(j, t, S, s, d)))
  <1> DEFINE x == Said(j, t, S, s, d)
             Q == UnderWay(j, t, s, d, S, R)
             K == SaidBy(j, t, s, d)
  <1>1. w \in Seq(Messages(j)) /\ Lined(w, Q, K)
    BY DEF Channel
  <1>2. \A n \in 0..(R - 1) : Applies(j, t, n, s, d) => n < S
    BY DEF Channel
  <1>3. x \in Messages(j)
    BY DEF Messages
  <1>4. x = K[S]
    BY DEF SaidBy
  <1>5. R <= S
    BY <1>2
  <1>6. UnderWay(j, t, s, d, S + 1, R) = Q \cup {S}
    <2>1. \A n : n \in R..S <=> n \in R..(S - 1) \/ n = S
      BY <1>5
    <2> QED
      BY <2>1 DEF UnderWay
  <1>7. Q \in SUBSET Nat /\ \A q \in Q : q < S
    BY DEF UnderWay
  <1>8. Append(w, x) \in Seq(Messages(j))
    BY <1>1, <1>3
  <1> HIDE DEF x, Q, K
  <1>9. Lined(Append(w, x), Q \cup {S}, K)
    BY <1>1, <1>3, <1>4, <1>7, LinedAppend
  <1>10. \A n \in 0..(R - 1) : Applies(j, t, n, s, d) => n < S + 1
    BY <1>2
  <1>11. Channel(j, t, s, d, S + 1, R, Append(w, x))
    BY <1>6, <1>8, <1>9, <1>10 DEF Channel, Q, K
  <1> QED
    BY <1>11 DEF x

(* There is nothing to be sent. *)
LEMMA ChannelSkip ==
  ASSUME NEW j, NEW t \in Tag, NEW s \in Rank, NEW d \in Rank, NEW S \in Nat, NEW R \in Nat,
         NEW w, Channel(j, t, s, d, S, R, w), ~Applies(j, t, S, s, d)
  PROVE  Channel(j, t, s, d, S + 1, R, w)
  <1>1. UnderWay(j, t, s, d, S + 1, R) = UnderWay(j, t, s, d, S, R)
    <2>1. \A n : n \in R..S => n \in R..(S - 1) \/ n = S
      OBVIOUS
    <2>2. \A n : n \in R..(S - 1) => n \in R..S
      OBVIOUS
    <2>3. (S + 1) - 1 = S
      OBVIOUS
    <2> QED
      BY <2>1, <2>2, <2>3 DEF UnderWay
  <1>2. \A n \in 0..(R - 1) : Applies(j, t, n, s, d) => n < S + 1
    BY DEF Channel
  <1> QED
    BY <1>1, <1>2 DEF Channel

(* The receiver takes the message it waits for. *)
LEMMA ChannelTake ==
  ASSUME NEW j, NEW t \in Tag, NEW s \in Rank, NEW d \in Rank, NEW S \in Nat, NEW R \in Nat,
         NEW w, Channel(j, t, s, d, S, R, w), Applies(j, t, R, s, d), w # <<>>
  PROVE  /\ Head(w) = Said(j, t, R, s, d)
         /\ Channel(j, t, s, d, S, R + 1, Tail(w))
  <1> DEFINE Q == UnderWay(j, t, s, d, S, R)
             K == SaidBy(j, t, s, d)
  <1>1. w \in Seq(Messages(j)) /\ Lined(w, Q, K)
    BY DEF Channel
  <1>2. \A n \in 0..(R - 1) : Applies(j, t, n, s, d) => n < S
    BY DEF Channel
  <1>3. Q # {}
    BY <1>1, LinedNone
  <1>4. R < S
    BY <1>3 DEF UnderWay
  <1>5. R \in Q /\ (\A q \in Q : R <= q) /\ Q \in SUBSET Nat
    BY <1>4 DEF UnderWay
  <1>6. UnderWay(j, t, s, d, S, R + 1) = Q \ {R}
    <2>1. \A n : n \in (R + 1)..(S - 1) <=> n \in R..(S - 1) /\ n # R
      OBVIOUS
    <2> QED
      BY <2>1 DEF UnderWay
  <1>7. K[R] = Said(j, t, R, s, d)
    BY DEF SaidBy
  <1>8. Tail(w) \in Seq(Messages(j))
    BY <1>1
  <1> HIDE DEF Q, K
  <1>9. Head(w) = K[R] /\ Lined(Tail(w), Q \ {R}, K)
    BY <1>1, <1>5, LinedTake
  <1>10. \A n \in 0..((R + 1) - 1) : Applies(j, t, n, s, d) => n < S
    <2>1. \A n \in 0..((R + 1) - 1) : n \in 0..(R - 1) \/ n = R
      OBVIOUS
    <2> QED
      BY <1>2, <1>4, <2>1
  <1> QED
    BY <1>6, <1>7, <1>8, <1>9, <1>10 DEF Channel, Q, K

(* There is nothing to wait for. *)
LEMMA ChannelPass ==
  ASSUME NEW j, NEW t \in Tag, NEW s \in Rank, NEW d \in Rank, NEW S \in Nat, NEW R \in Nat,
         NEW w, Channel(j, t, s, d, S, R, w), ~Applies(j, t, R, s, d)
  PROVE  Channel(j, t, s, d, S, R + 1, w)
  <1>1. UnderWay(j, t, s, d, S, R + 1) = UnderWay(j, t, s, d, S, R)
    <2>1. \A n : n \in (R + 1)..(S - 1) <=> n \in R..(S - 1) /\ n # R
      OBVIOUS
    <2> QED
      BY <2>1 DEF UnderWay
  <1>2. \A n \in 0..((R + 1) - 1) : Applies(j, t, n, s, d) => n < S
    <2>1. \A n \in 0..((R + 1) - 1) : n \in 0..(R - 1) \/ n = R
      OBVIOUS
    <2> QED
      BY <2>1 DEF Channel
  <1> QED
    BY <1>1, <1>2 DEF Channel

LEMMA ChannelNew ==
  ASSUME NEW j, NEW t \in Tag, NEW s \in Rank, NEW d \in Rank, NEW n \in Nat
  PROVE  Channel(j, t, s, d, n, n, <<>>)
  <1>1. UnderWay(j, t, s, d, n, n) = {}
    <2>1. n..(n - 1) = {}
      OBVIOUS
    <2> QED
      BY <2>1 DEF UnderWay
  <1>2. \A m \in 0..(n - 1) : m < n
    OBVIOUS
  <1>3. <<>> \in Seq(Messages(j))
    OBVIOUS
  <1> QED
    BY <1>1, <1>2, <1>3, LinedEmpty DEF Channel

LEMMA ChannelUnused ==
  ASSUME NEW j, NEW t \in Tag, NEW s \in Rank, NEW d \in Rank, NEW w,
         Channel(j, t, s, d, 0, 0, w)
  PROVE  w = <<>>
  <1>1. UnderWay(j, t, s, d, 0, 0) = {}
    <2>1. 0..(0 - 1) = {}
      OBVIOUS
    <2> QED
      BY <2>1 DEF UnderWay
  <1> QED
    BY <1>1, LinedNone DEF Channel

-----------------------------------------------------------------------------
(* All channels.  F counts what each process has sent, or taken. *)

Bumped(F, t, p) ==
  [u \in Tag |-> [q \in Rank |-> IF u = t /\ q = p THEN F[u][q] + 1 ELSE F[u][q]]]

(* m2 is m after p has taken one message under t from each process of A. *)
TakenFrom(m, m2, t, p, A) ==
  \A u \in Tag : \A s, d \in Rank :
    m2[u][<<s, d>>] = IF u = t /\ d = p /\ s \in A THEN Tail(m[u][<<s, d>>])
                                                  ELSE m[u][<<s, d>>]

(* m2 is m after p has sent under t what it says for n. *)
PostedTo(j, m, m2, t, p, n) ==
  \A u \in Tag : \A s, d \in Rank :
    m2[u][<<s, d>>] = IF u = t /\ s = p /\ Applies(j, t, n, p, d)
                      THEN Append(m[u][<<s, d>>], Said(j, t, n, p, d))
                      ELSE m[u][<<s, d>>]

(* msg holds the messages p has to send. *)
Tells(j, t, n, p, msg) ==
  /\ \A d \in Rank : d \in DOMAIN msg <=> Applies(j, t, n, p, d)
  /\ \A d \in Rank : d \in DOMAIN msg => msg[d] = Said(j, t, n, p, d)

(* Something has come from all of A. *)
AllCome(m, t, p, A) == \A q \in A : m[t][<<q, p>>] # <<>>

Counts == [Tag -> [Rank -> Nat]]

LEMMA BumpedCounts ==
  ASSUME NEW F \in Counts, NEW t, NEW p \in Rank
  PROVE  Bumped(F, t, p) \in Counts
  BY DEF Bumped, Counts

LEMMA TakeAll ==
  ASSUME NEW j, NEW m, NEW m2, NEW S \in Counts, NEW R \in Counts, Channels(j, m, S, R),
         NEW t \in Tag, NEW p \in Rank, NEW A,
         A = {s \in Rank : Applies(j, t, R[t][p], s, p)},
         AllCome(m, t, p, A), TakenFrom(m, m2, t, p, A)
  PROVE  /\ Channels(j, m2, S, Bumped(R, t, p))
         /\ \A q \in A : Head(m[t][<<q, p>>]) = Said(j, t, R[t][p], q, p)
  <1>1. \A u \in Tag : \A q \in Rank : S[u][q] \in Nat /\ R[u][q] \in Nat
    BY DEF Counts
  <1>2. ASSUME NEW u \in Tag, NEW s \in Rank, NEW d \in Rank
        PROVE  Channel(j, u, s, d, S[u][s], Bumped(R, t, p)[u][d], m2[u][<<s, d>>])
    <2>1. Channel(j, u, s, d, S[u][s], R[u][d], m[u][<<s, d>>])
      BY DEF Channels
    <2>2. S[u][s] \in Nat /\ R[u][d] \in Nat
      BY <1>1
    <2>3. CASE u = t /\ d = p /\ s \in A
      <3>1. m2[u][<<s, d>>] = Tail(m[u][<<s, d>>]) /\ m[u][<<s, d>>] # <<>>
        BY <2>3 DEF TakenFrom, AllCome
      <3>2. Bumped(R, t, p)[u][d] = R[u][d] + 1
        BY <2>3 DEF Bumped
      <3>3. Applies(j, u, R[u][d], s, d)
        BY <2>3
      <3>4. Channel(j, u, s, d, S[u][s], R[u][d] + 1, Tail(m[u][<<s, d>>]))
        BY <2>1, <2>2, <3>1, <3>3, ChannelTake
      <3> QED
        BY <3>1, <3>2, <3>4
    <2>4. CASE u = t /\ d = p /\ s \notin A
      <3>1. m2[u][<<s, d>>] = m[u][<<s, d>>]
        BY <2>4 DEF TakenFrom
      <3>2. Bumped(R, t, p)[u][d] = R[u][d] + 1
        BY <2>4 DEF Bumped
      <3>3. ~Applies(j, u, R[u][d], s, d)
        BY <2>4
      <3>4. Channel(j, u, s, d, S[u][s], R[u][d] + 1, m[u][<<s, d>>])
        BY <2>1, <2>2, <3>3, ChannelPass
      <3> QED
        BY <3>1, <3>2, <3>4
    <2>5. CASE ~(u = t /\ d = p)
      <3>1. m2[u][<<s, d>>] = m[u][<<s, d>>]
        BY <2>5 DEF TakenFrom
      <3>2. Bumped(R, t, p)[u][d] = R[u][d]
        BY <2>5 DEF Bumped
      <3> QED
        BY <2>1, <3>1, <3>2
    <2> QED
      BY <2>3, <2>4, <2>5
  <1>3. ASSUME NEW q \in A
        PROVE  Head(m[t][<<q, p>>]) = Said(j, t, R[t][p], q, p)
    <2>1. q \in Rank /\ Applies(j, t, R[t][p], q, p)
      OBVIOUS
    <2>2. Channel(j, t, q, p, S[t][q], R[t][p], m[t][<<q, p>>])
      BY <2>1 DEF Channels
    <2>3. S[t][q] \in Nat /\ R[t][p] \in Nat
      BY <1>1, <2>1
    <2>4. m[t][<<q, p>>] # <<>>
      BY DEF AllCome
    <2> DEFINE w == m[t][<<q, p>>]
               a == S[t][q]
               b == R[t][p]
    <2>5. Channel(j, t, q, p, a, b, w) /\ Applies(j, t, b, q, p) /\ w # <<>>
      BY <2>1, <2>2, <2>4
    <2>6. a \in Nat /\ b \in Nat
      BY <2>3
    <2> HIDE DEF w, a, b
    <2>7. /\ Head(w) = Said(j, t, b, q, p)
          /\ Channel(j, t, q, p, a, b + 1, Tail(w))
      BY ONLY <2>1, <2>5, <2>6, ChannelTake
    <2> QED
      BY <2>7 DEF w, b
  <1> QED
    BY <1>2, <1>3 DEF Channels

LEMMA PostAll ==
  ASSUME NEW j, NEW m, NEW m2, NEW S \in Counts, NEW R \in Counts, Channels(j, m, S, R),
         NEW t \in Tag, NEW p \in Rank, PostedTo(j, m, m2, t, p, S[t][p])
  PROVE  Channels(j, m2, Bumped(S, t, p), R)
  <1>1. \A u \in Tag : \A q \in Rank : S[u][q] \in Nat /\ R[u][q] \in Nat
    BY DEF Counts
  <1>2. ASSUME NEW u \in Tag, NEW s \in Rank, NEW d \in Rank
        PROVE  Channel(j, u, s, d, Bumped(S, t, p)[u][s], R[u][d], m2[u][<<s, d>>])
    <2>1. Channel(j, u, s, d, S[u][s], R[u][d], m[u][<<s, d>>])
      BY DEF Channels
    <2>2. S[u][s] \in Nat /\ R[u][d] \in Nat
      BY <1>1
    <2>3. CASE u = t /\ s = p /\ Applies(j, t, S[t][p], p, d)
      <3>1. m2[u][<<s, d>>] = Append(m[u][<<s, d>>], Said(j, u, S[u][s], s, d))
        BY <2>3 DEF PostedTo
      <3>2. Bumped(S, t, p)[u][s] = S[u][s] + 1
        BY <2>3 DEF Bumped
      <3>4. Channel(j, u, s, d, S[u][s] + 1, R[u][d],
                    Append(m[u][<<s, d>>], Said(j, u, S[u][s], s, d)))
        BY <2>1, <2>2, <2>3, ChannelSend
      <3> QED
        BY <3>1, <3>2, <3>4
    <2>4. CASE u = t /\ s = p /\ ~Applies(j, t, S[t][p], p, d)
      <3>1. m2[u][<<s, d>>] = m[u][<<s, d>>]
        BY <2>4 DEF PostedTo
      <3>2. Bumped(S, t, p)[u][s] = S[u][s] + 1
        BY <2>4 DEF Bumped
      <3>4. Channel(j, u, s, d, S[u][s] + 1, R[u][d], m[u][<<s, d>>])
        BY <2>1, <2>2, <2>4, ChannelSkip
      <3> QED
        BY <3>1, <3>2, <3>4
    <2>5. CASE ~(u = t /\ s = p)
      <3>1. m2[u][<<s, d>>] = m[u][<<s, d>>]
        BY <2>5 DEF PostedTo
      <3>2. Bumped(S, t, p)[u][s] = S[u][s]
        BY <2>5 DEF Bumped
      <3> QED
        BY <2>1, <3>1, <3>2
    <2> QED
      BY <2>3, <2>4, <2>5
  <1> QED
    BY <1>2 DEF Channels

(* A tag under which nobody sends *)
LEMMA SkipAll ==
  ASSUME NEW j, NEW m, NEW S \in Counts, NEW R \in Counts, Channels(j, m, S, R),
         NEW t \in Tag, NEW p \in Rank, \A n, s, d : ~Applies(j, t, n, s, d)
  PROVE  Channels(j, m, Bumped(S, t, p), Bumped(R, t, p))
  <1>1. \A u \in Tag : \A q \in Rank : S[u][q] \in Nat /\ R[u][q] \in Nat
    BY DEF Counts
  <1>2. PostedTo(j, m, m, t, p, S[t][p])
    BY DEF PostedTo
  <1>3. Channels(j, m, Bumped(S, t, p), R)
    BY <1>2, PostAll
  <1>4. TakenFrom(m, m, t, p, {}) /\ AllCome(m, t, p, {})
    BY DEF TakenFrom, AllCome
  <1>5. {} = {s \in Rank : Applies(j, t, R[t][p], s, p)}
    OBVIOUS
  <1> QED
    BY <1>3, <1>4, <1>5, TakeAll, BumpedCounts

LEMMA TakenIs ==
  ASSUME DOMAIN mail = Tag, NEW t \in Tag, NEW p \in Rank
  PROVE  /\ DOMAIN Taken(t, p) = Tag
         /\ TakenFrom(mail, Taken(t, p), t, p, await[p])
  <1>1. \A u \in Tag : u # t => Taken(t, p)[u] = mail[u]
    BY DEF Taken
  <1>2. \A s, d \in Rank :
          Taken(t, p)[t][<<s, d>>] =
            IF d = p /\ s \in await[p] THEN Tail(mail[t][<<s, d>>]) ELSE mail[t][<<s, d>>]
    BY DEF Taken
  <1>3. DOMAIN Taken(t, p) = Tag
    BY DEF Taken
  <1> QED
    BY <1>1, <1>2, <1>3 DEF TakenFrom

LEMMA PostIs ==
  ASSUME NEW j, NEW m, DOMAIN m = Tag, NEW t \in Tag, NEW p \in Rank, NEW n, NEW msg,
         Tells(j, t, n, p, msg)
  PROVE  /\ DOMAIN Post(m, t, p, msg) = Tag
         /\ PostedTo(j, m, Post(m, t, p, msg), t, p, n)
  <1>1. \A u \in Tag : u # t => Post(m, t, p, msg)[u] = m[u]
    BY DEF Post
  <1>2. \A s, d \in Rank :
          Post(m, t, p, msg)[t][<<s, d>>] =
            IF s = p /\ d \in DOMAIN msg THEN Append(m[t][<<s, d>>], msg[d])
                                         ELSE m[t][<<s, d>>]
    BY DEF Post
  <1>3. DOMAIN Post(m, t, p, msg) = Tag
    BY DEF Post
  <1> QED
    BY <1>1, <1>2, <1>3 DEF PostedTo, Tells

(* How the counts move with a process *)
SentGrows(t, l, n, l2, n2) ==
  \A u \in Tag : SentOf(u, l2, n2) = IF u = t THEN SentOf(u, l, n) + 1 ELSE SentOf(u, l, n)

ReadGrows(t, l, n, l2, n2) ==
  \A u \in Tag : ReadOf(u, l2, n2) = IF u = t THEN ReadOf(u, l, n) + 1 ELSE ReadOf(u, l, n)

ReadGrowTwo(t, t2, l, n, l2, n2) ==
  \A u \in Tag : ReadOf(u, l2, n2) =
    IF u = t \/ u = t2 THEN ReadOf(u, l, n) + 1 ELSE ReadOf(u, l, n)

OnlyMoves(p) == \A q \in Rank : q # p => pc'[q] = pc[q] /\ iter'[q] = iter[q]

LEMMA SentBumped ==
  ASSUME NEW p \in Rank, OnlyMoves(p), NEW t, SentGrows(t, pc[p], iter[p], pc'[p], iter'[p])
  PROVE  SentBy' = Bumped(SentBy, t, p)
  BY DEF SentBy, Bumped, OnlyMoves, SentGrows

LEMMA ReadBumped ==
  ASSUME NEW p \in Rank, OnlyMoves(p), NEW t, ReadGrows(t, pc[p], iter[p], pc'[p], iter'[p])
  PROVE  ReadBy' = Bumped(ReadBy, t, p)
  BY DEF ReadBy, Bumped, OnlyMoves, ReadGrows

LEMMA ReadBumpedTwice ==
  ASSUME NEW p \in Rank, OnlyMoves(p), NEW t, NEW t2, t # t2,
         ReadGrowTwo(t, t2, pc[p], iter[p], pc'[p], iter'[p])
  PROVE  ReadBy' = Bumped(Bumped(ReadBy, t, p), t2, p)
  <1> DEFINE B == Bumped(ReadBy, t, p)
             C == Bumped(B, t2, p)
  <1>1. \A u \in Tag : \A q \in Rank : ReadBy'[u][q] = C[u][q]
    <2> TAKE u \in Tag
    <2> TAKE q \in Rank
    <2>1. ReadBy[u][q] = ReadOf(u, pc[q], iter[q]) /\ ReadBy'[u][q] = ReadOf(u, pc'[q], iter'[q])
      BY DEF ReadBy
    <2>2. B[u][q] = IF u = t /\ q = p THEN ReadBy[u][q] + 1 ELSE ReadBy[u][q]
      BY DEF Bumped
    <2>3. C[u][q] = IF u = t2 /\ q = p THEN B[u][q] + 1 ELSE B[u][q]
      BY DEF Bumped
    <2> HIDE DEF B, C
    <2> QED
      BY <2>1, <2>2, <2>3 DEF OnlyMoves, ReadGrowTwo
  <1>2. ReadBy' = [u \in Tag |-> [q \in Rank |-> ReadBy'[u][q]]]
    BY DEF ReadBy
  <1>3. C = [u \in Tag |-> [q \in Rank |-> C[u][q]]]
    BY DEF Bumped
  <1> HIDE DEF B, C
  <1>4. ReadBy' = C
    BY <1>1, <1>2, <1>3
  <1> QED
    BY <1>4 DEF B, C

LEMMA CountsNat ==
  ASSUME iter \in [Rank -> Nat]
  PROVE  SentBy \in Counts /\ ReadBy \in Counts
  <1>1. \A u \in Tag, n \in Nat : \A l : SentOf(u, l, n) \in Nat /\ ReadOf(u, l, n) \in Nat
    BY DEF SentOf, ReadOf, Tag
  <1> QED
    BY <1>1 DEF SentBy, ReadBy, Counts

-----------------------------------------------------------------------------
(* The forest before and after *)

LEMMA ChildrenIn ==
  ASSUME NEW f \in Id
  PROVE  /\ Children[f] \in Seq(Id) /\ Len(Children[f]) \in Nat
         /\ DOMAIN Children[f] = 1..Len(Children[f])
         /\ \A i \in DOMAIN Children[f] : Children[f][i] \in Id
  BY TreeAssumption

LEMMA FatherIs ==
  ASSUME NEW f \in Id, NEW c \in ToSet(Children[f])
  PROVE  c \in DOMAIN Father /\ Father[c] = f
  <1>1. c \in UNION {ToSet(Children[g]) : g \in Id}
    OBVIOUS
  <1>2. c \in DOMAIN Father
    BY <1>1 DEF Father
  <1>3. Father[c] = CHOOSE g \in Id : c \in ToSet(Children[g])
    BY <1>1 DEF Father
  <1>4. \A g \in Id : c \in ToSet(Children[g]) => g = f
    BY TreeAssumption
  <1> QED
    BY <1>2, <1>3, <1>4

LEMMA FatherIn ==
  ASSUME NEW c \in DOMAIN Father
  PROVE  Father[c] \in Id /\ c \in ToSet(Children[Father[c]])
  <1>1. PICK f \in Id : c \in ToSet(Children[f])
    BY DEF Father
  <1> QED
    BY <1>1, FatherIs

LEMMA BranchIs ==
  ASSUME NEW f \in Id, NEW i \in DOMAIN Children[f]
  PROVE  Branch[Children[f][i]] = i
  <1> DEFINE c == Children[f][i]
  <1>1. c \in ToSet(Children[f])
    BY DEF ToSet
  <1>2. c \in DOMAIN Father /\ Father[c] = f
    BY <1>1, FatherIs
  <1>3. Branch[c] = CHOOSE k \in DOMAIN Children[f] : Children[f][k] = c
    BY <1>2 DEF Branch
  <1>4. \A k \in DOMAIN Children[f] : k # i => Children[f][k] # c
    <2> SUFFICES ASSUME NEW k \in DOMAIN Children[f], k # i PROVE Children[f][k] # c
      OBVIOUS
    <2>1. Children[f][k] \in Touch[c]
      BY TreeAssumption
    <2>2. c \in Id
      BY ChildrenIn
    <2> QED
      BY <2>1, <2>2, TreeAssumption
  <1> QED
    BY <1>3, <1>4

LEMMA JobIs ==
  ASSUME NEW j \in Jobs
  PROVE  /\ LeavesOf(j) \subseteq Id /\ j.place \in [LeavesOf(j) -> Rank]
         /\ j.mark \in [LeavesOf(j) -> {"keep", "split", "merge"}]
         /\ j.network \in [Rank -> SUBSET Rank]
         /\ j.rounds \in Seq([Id -> Rank]) /\ RoundsOf(j) \in Nat
         /\ DOMAIN j.rounds = 1..RoundsOf(j)
  BY JobsAssumption DEF Job, LeavesOf, RoundsOf

(* The three ways a block comes to be *)
Stays(j, x) ==
  x \in LeavesOf(j) /\ j.mark[x] = "keep" /\ SourcesOf(j, x) = <<x>>

Splits(j, x) ==
  /\ x \notin LeavesOf(j) /\ x \in DOMAIN Father /\ Father[x] \in LeavesOf(j)
  /\ j.mark[Father[x]] = "split" /\ SourcesOf(j, x) = <<Father[x]>>
  /\ Branch[x] \in DOMAIN Children[Father[x]] /\ Children[Father[x]][Branch[x]] = x

Merges(j, x) ==
  /\ x \notin LeavesOf(j) /\ x \in Id /\ SourcesOf(j, x) = Children[x]
  /\ Len(Children[x]) > 1
  /\ \A i \in DOMAIN Children[x] :
       /\ Children[x][i] \in LeavesOf(j) /\ j.mark[Children[x][i]] = "merge"
       /\ Father[Children[x][i]] = x

LEMMA KeepTargets ==
  ASSUME NEW j \in Jobs, NEW b \in LeavesOf(j), j.mark[b] = "keep"
  PROVE  TargetsOf(j, b) = <<b>> /\ Stays(j, b)
  BY DEF TargetsOf, Stays, SourcesOf

LEMMA SplitTargets ==
  ASSUME NEW j \in Jobs, NEW b \in LeavesOf(j), j.mark[b] = "split"
  PROVE  /\ TargetsOf(j, b) = Children[b] /\ b \in Id /\ Children[b] # <<>>
         /\ \A i \in DOMAIN Children[b] :
              Splits(j, Children[b][i]) /\ Branch[Children[b][i]] = i /\ Father[Children[b][i]] = b
  <1>1. b \in Id
    BY JobIs
  <1>2. TargetsOf(j, b) = Children[b]
    BY DEF TargetsOf
  <1>3. ASSUME NEW i \in DOMAIN Children[b]
        PROVE  Splits(j, Children[b][i]) /\ Branch[Children[b][i]] = i /\ Father[Children[b][i]] = b
    <2> DEFINE x == Children[b][i]
    <2>1. x \in ToSet(Children[b])
      BY DEF ToSet
    <2>2. x \in DOMAIN Father /\ Father[x] = b /\ Branch[x] = i
      BY <1>1, <2>1, FatherIs, BranchIs
    <2>3. x \notin LeavesOf(j)
      BY <1>1, <2>1, JobsAssumption DEF Job, LeavesOf
    <2> QED
      BY <2>2, <2>3 DEF Splits, SourcesOf
  <1>4. Children[b] # <<>>
    BY JobsAssumption DEF Job, LeavesOf
  <1> QED
    BY <1>1, <1>2, <1>3, <1>4

LEMMA MergeTargets ==
  ASSUME NEW j \in Jobs, NEW b \in LeavesOf(j), j.mark[b] = "merge"
  PROVE  /\ TargetsOf(j, b) = <<Father[b]>> /\ b \in DOMAIN Father
         /\ Merges(j, Father[b])
         /\ Branch[b] \in DOMAIN Children[Father[b]] /\ Children[Father[b]][Branch[b]] = b
  <1>1. TargetsOf(j, b) = <<Father[b]>>
    BY DEF TargetsOf
  <1>2. PICK f \in Id : b \in ToSet(Children[f])
    BY JobsAssumption DEF Job, LeavesOf
  <1>3. b \in DOMAIN Father /\ Father[b] = f
    BY <1>2, FatherIs
  <1>4. /\ f \notin LeavesOf(j)
        /\ \A s \in ToSet(Children[f]) : s \in LeavesOf(j) /\ j.mark[s] = "merge"
        /\ \A g \in Id : f \in ToSet(Children[g]) => g \notin LeavesOf(j)
    BY <1>2, JobsAssumption DEF Job, LeavesOf
  <1>5. SourcesOf(j, f) = Children[f]
    BY <1>4, FatherIn DEF SourcesOf
  <1>6. PICK i \in DOMAIN Children[f] : Children[f][i] = b
    BY <1>2 DEF ToSet
  <1>7. Len(Children[f]) > 1
    <2>1. Len(Children[f]) \in Nat /\ i \in 1..Len(Children[f])
      BY <1>6, ChildrenIn
    <2>2. Len(Children[f]) # 1
      BY TreeAssumption
    <2> DEFINE n == Len(Children[f])
    <2> HIDE DEF n
    <2>3. n \in Nat /\ i \in 1..n /\ n # 1
      BY <2>1, <2>2 DEF n
    <2>4. n > 1
      BY <2>3
    <2> QED
      BY <2>4 DEF n
  <1>8. \A k \in DOMAIN Children[f] :
          /\ Children[f][k] \in LeavesOf(j) /\ j.mark[Children[f][k]] = "merge"
          /\ Father[Children[f][k]] = f
    BY <1>4, FatherIs DEF ToSet
  <1>9. Merges(j, f)
    BY <1>4, <1>5, <1>7, <1>8 DEF Merges
  <1>10. Branch[b] = i
    BY <1>6, BranchIs
  <1> QED
    BY <1>1, <1>3, <1>6, <1>9, <1>10

LEMMA MarkKinds ==
  ASSUME NEW j \in Jobs, NEW b \in LeavesOf(j)
  PROVE  j.mark[b] = "keep" \/ j.mark[b] = "split" \/ j.mark[b] = "merge"
  BY JobIs

LEMMA NewKinds ==
  ASSUME NEW j \in Jobs, NEW x \in NewOf(j)
  PROVE  Stays(j, x) \/ Splits(j, x) \/ Merges(j, x)
  <1>1. PICK b \in LeavesOf(j) : x \in ToSet(TargetsOf(j, b))
    BY DEF NewOf
  <1>2. PICK i \in DOMAIN TargetsOf(j, b) : TargetsOf(j, b)[i] = x
    BY <1>1 DEF ToSet
  <1>3. CASE j.mark[b] = "keep"
    BY <1>2, <1>3, KeepTargets
  <1>4. CASE j.mark[b] = "split"
    BY <1>2, <1>4, SplitTargets
  <1>5. CASE j.mark[b] = "merge"
    BY <1>2, <1>5, MergeTargets
  <1> QED
    BY <1>3, <1>4, <1>5, MarkKinds

LEMMA NewIn ==
  ASSUME NEW j \in Jobs
  PROVE  NewOf(j) \subseteq Id
  <1> SUFFICES ASSUME NEW x \in NewOf(j) PROVE x \in Id
    OBVIOUS
  <1>1. Stays(j, x) => x \in Id
    BY JobIs DEF Stays
  <1>2. Splits(j, x) => x \in Id
    BY FatherIn, ChildrenIn DEF Splits
  <1> QED
    BY <1>1, <1>2, NewKinds DEF Merges

(* From a leaf to what it becomes, and back *)
LEMMA TargetsBack ==
  ASSUME NEW j \in Jobs, NEW b \in LeavesOf(j), NEW i \in DOMAIN TargetsOf(j, b)
  PROVE  /\ TargetsOf(j, b)[i] \in NewOf(j)
         /\ IndexOf(j, TargetsOf(j, b)[i]) = i
         /\ \E k \in DOMAIN SourcesOf(j, TargetsOf(j, b)[i]) :
              SourcesOf(j, TargetsOf(j, b)[i])[k] = b
  <1> DEFINE x == TargetsOf(j, b)[i]
  <1>1. x \in NewOf(j)
    BY DEF NewOf, ToSet
  <1>2. CASE j.mark[b] = "keep"
    <2>1. x = b /\ i = 1 /\ SourcesOf(j, x) = <<b>> /\ x \in LeavesOf(j)
      BY <1>2, KeepTargets DEF Stays
    <2> QED
      BY <1>1, <2>1 DEF IndexOf
  <1>3. CASE j.mark[b] = "split"
    <2>1. /\ x \notin LeavesOf(j) /\ SourcesOf(j, x) = <<b>> /\ Branch[x] = i
      BY <1>3, SplitTargets DEF Splits
    <2>2. Len(SourcesOf(j, x)) = 1 /\ 1 \in DOMAIN SourcesOf(j, x) /\ SourcesOf(j, x)[1] = b
      BY <2>1
    <2> QED
      BY <1>1, <2>1, <2>2 DEF IndexOf
  <1>4. CASE j.mark[b] = "merge"
    <2>1. /\ x = Father[b] /\ i = 1 /\ Merges(j, x)
          /\ Branch[b] \in DOMAIN Children[x] /\ Children[x][Branch[b]] = b
      BY <1>4, MergeTargets
    <2>2. SourcesOf(j, x) = Children[x] /\ Len(SourcesOf(j, x)) # 1
      BY <2>1, ChildrenIn DEF Merges
    <2> QED
      BY <1>1, <2>1, <2>2 DEF IndexOf
  <1> QED
    BY <1>2, <1>3, <1>4, MarkKinds

LEMMA SourcesBack ==
  ASSUME NEW j \in Jobs, NEW x \in NewOf(j), NEW k \in DOMAIN SourcesOf(j, x)
  PROVE  /\ SourcesOf(j, x)[k] \in LeavesOf(j)
         /\ IndexOf(j, x) \in DOMAIN TargetsOf(j, SourcesOf(j, x)[k])
         /\ TargetsOf(j, SourcesOf(j, x)[k])[IndexOf(j, x)] = x
  <1> DEFINE b == SourcesOf(j, x)[k]
  <1>1. CASE Stays(j, x)
    <2>1. b = x /\ x \in LeavesOf(j) /\ TargetsOf(j, b) = <<x>>
      BY <1>1, KeepTargets DEF Stays
    <2>2. IndexOf(j, x) = 1
      BY <2>1 DEF IndexOf
    <2> QED
      BY <2>1, <2>2
  <1>2. CASE Splits(j, x)
    <2>1. b = Father[x] /\ b \in LeavesOf(j) /\ j.mark[b] = "split" /\ Len(SourcesOf(j, x)) = 1
      BY <1>2 DEF Splits
    <2>2. TargetsOf(j, b) = Children[b]
      BY <2>1, SplitTargets
    <2>3. IndexOf(j, x) = Branch[x]
      BY <1>2, <2>1 DEF IndexOf, Splits
    <2> QED
      BY <1>2, <2>1, <2>2, <2>3 DEF Splits
  <1>3. CASE Merges(j, x)
    <2>1. b \in LeavesOf(j) /\ j.mark[b] = "merge" /\ Father[b] = x
      BY <1>3 DEF Merges
    <2>2. TargetsOf(j, b) = <<x>>
      BY <2>1, MergeTargets
    <2>3. IndexOf(j, x) = 1
      BY <1>3, ChildrenIn DEF IndexOf, Merges
    <2> QED
      BY <2>1, <2>2, <2>3
  <1> QED
    BY <1>1, <1>2, <1>3, NewKinds

LEMMA SourcesAre ==
  ASSUME NEW j \in Jobs, NEW x \in NewOf(j)
  PROVE  /\ Len(SourcesOf(j, x)) \in Nat
         /\ DOMAIN SourcesOf(j, x) = 1..Len(SourcesOf(j, x))
         /\ 1 \in DOMAIN SourcesOf(j, x)
         /\ \A i, k \in DOMAIN SourcesOf(j, x) :
              SourcesOf(j, x)[i] = SourcesOf(j, x)[k] => i = k
         /\ x \in LeavesOf(j) => SourcesOf(j, x) = <<x>>
  <1>1. CASE Stays(j, x)
    BY <1>1 DEF Stays
  <1>2. CASE Splits(j, x)
    BY <1>2 DEF Splits
  <1>3. CASE Merges(j, x)
    <2>1. \A i, k \in DOMAIN Children[x] : Children[x][i] = Children[x][k] => i = k
      BY <1>3, BranchIs DEF Merges
    <2> QED
      BY <1>3, <2>1, ChildrenIn DEF Merges
  <1> QED
    BY <1>1, <1>2, <1>3, NewKinds

LEMMA TargetsAre ==
  ASSUME NEW j \in Jobs, NEW b \in LeavesOf(j)
  PROVE  /\ Len(TargetsOf(j, b)) \in Nat
         /\ DOMAIN TargetsOf(j, b) = 1..Len(TargetsOf(j, b))
         /\ 1 \in DOMAIN TargetsOf(j, b)
  <1>1. CASE j.mark[b] = "keep"
    BY <1>1, KeepTargets
  <1>2. CASE j.mark[b] = "split"
    <2>1. Children[b] \in Seq(Id) /\ Children[b] # <<>>
      BY <1>2, SplitTargets, ChildrenIn
    <2> QED
      BY <1>2, <2>1, SplitTargets
  <1>3. CASE j.mark[b] = "merge"
    BY <1>3, MergeTargets
  <1> QED
    BY <1>1, <1>2, <1>3, MarkKinds

LEMMA PlaceIn ==
  ASSUME NEW j \in Jobs, NEW x \in NewOf(j), NEW n \in 0..RoundsOf(j)
  PROVE  PlaceOf(j, x, n) \in Rank
  <1>1. CASE n = 0
    BY <1>1, SourcesAre, SourcesBack, JobIs DEF PlaceOf
  <1>2. CASE n # 0
    <2>1. n \in 1..RoundsOf(j)
      BY <1>2, JobIs
    <2>2. j.rounds[n] \in [Id -> Rank]
      BY <2>1, JobIs
    <2> QED
      BY <1>2, <2>2, NewIn DEF PlaceOf
  <1> QED
    BY <1>1, <1>2

LEMMA FromIn ==
  ASSUME NEW j \in Jobs, NEW x \in NewOf(j)
  PROVE  /\ FromOf(j, x) \in [DOMAIN SourcesOf(j, x) -> Rank]
         /\ FromOf(j, x)[1] = PlaceOf(j, x, 0)
  BY SourcesAre, SourcesBack, JobIs DEF FromOf, PlaceOf

-----------------------------------------------------------------------------
(* The process network *)

LEMMA NetStepIn ==
  ASSUME NEW j \in Jobs, NEW N \in [Rank -> SUBSET Rank], NEW n \in 0..RoundsOf(j)
  PROVE  NetStep(j, N, n) \in [Rank -> SUBSET Rank]
  <1>1. ASSUME NEW p \in Rank
        PROVE  AroundOf(j, p, n) \subseteq Rank
    BY PlaceIn DEF AroundOf, NbOf
  <1> QED
    BY <1>1 DEF NetStep

LEMMA NetsNext ==
  ASSUME NEW j \in Jobs, NEW n \in 0..RoundsOf(j), NEW N, Nets(j, N, n)
  PROVE  \E M : Nets(j, M, n + 1)
  <1> DEFINE M == [k \in 0..(n + 1) |-> IF k = n + 1 THEN NetStep(j, N[n], n) ELSE N[k]]
  <1>1. n \in Nat /\ RoundsOf(j) \in Nat
    BY JobIs
  <1>2. n \in 0..n /\ \A k \in 0..(n + 1) : k = n + 1 \/ k \in 0..n
    BY <1>1
  <1>3. N \in [0..n -> [Rank -> SUBSET Rank]]
    BY DEF Nets
  <1>4. M \in [0..(n + 1) -> [Rank -> SUBSET Rank]]
    BY <1>2, <1>3, NetStepIn
  <1>5. M[0] = j.network
    BY <1>1 DEF Nets
  <1>6. ASSUME NEW k \in 0..(n + 1), k < n + 1
        PROVE  M[k + 1] = NetStep(j, M[k], k)
    <2>1. k \in 0..n /\ k + 1 \in 0..(n + 1) /\ k # n + 1
      BY <1>1, <1>6
    <2>2. M[k] = N[k]
      BY <2>1
    <2>3. CASE k = n
      BY <1>1, <2>1, <2>2, <2>3
    <2>4. CASE k # n
      <3>1. k < n /\ k + 1 # n + 1
        BY <1>1, <2>1, <2>4
      <3>2. N[k + 1] = NetStep(j, N[k], k)
        BY <2>1, <3>1 DEF Nets
      <3> QED
        BY <2>1, <2>2, <3>1, <3>2
    <2> QED
      BY <2>3, <2>4
  <1> HIDE DEF M
  <1> QED
    BY <1>4, <1>5, <1>6 DEF Nets

LEMMA NetsExist ==
  ASSUME NEW j \in Jobs
  PROVE  Nets(j, NetOf(j), RoundsOf(j) + 1)
  <1> DEFINE T == {n \in 0..(RoundsOf(j) + 1) : ~ \E N : Nets(j, N, n)}
  <1>1. RoundsOf(j) \in Nat
    BY JobIs
  <1>2. T = {}
    <2>1. SUFFICES ASSUME T # {} PROVE FALSE
      OBVIOUS
    <2>2. T \subseteq Nat
      BY <1>1
    <2> HIDE DEF T
    <2>3. PICK m \in T : \A y \in T : m <= y
      BY <2>1, <2>2, LeastNumber
    <2>4. m \in 0..(RoundsOf(j) + 1) /\ ~ \E N : Nets(j, N, m)
      BY <2>3 DEF T
    <2>5. m # 0
      <3> DEFINE N == [k \in 0..0 |-> j.network]
      <3>1. N \in [0..0 -> [Rank -> SUBSET Rank]] /\ N[0] = j.network
        BY JobIs
      <3>2. \A k \in 0..0 : ~(k < 0)
        OBVIOUS
      <3> HIDE DEF N
      <3>3. Nets(j, N, 0)
        BY <3>1, <3>2 DEF Nets
      <3> QED
        BY <2>4, <3>3
    <2>6. m - 1 \in 0..RoundsOf(j) /\ m = (m - 1) + 1 /\ m \in Nat
      BY <1>1, <2>4, <2>5
    <2>7. m - 1 \notin T
      <3>1. ~(m <= m - 1)
        BY <2>6
      <3> QED
        BY <2>3, <3>1
    <2>8. \E N : Nets(j, N, m - 1)
      <3>1. m - 1 \in 0..(RoundsOf(j) + 1)
        BY <1>1, <2>6
      <3> QED
        BY <2>7, <3>1 DEF T
    <2> DEFINE k == m - 1
    <2>9. \E M : Nets(j, M, k + 1)
      BY <2>6, <2>8, NetsNext
    <2> QED
      BY <2>4, <2>6, <2>9
  <1>3. RoundsOf(j) + 1 \in 0..(RoundsOf(j) + 1)
    BY <1>1
  <1>4. \E N : Nets(j, N, RoundsOf(j) + 1)
    BY <1>2, <1>3
  <1> QED
    BY <1>4 DEF NetOf

(* The network after n rounds *)
LEMMA NetIs ==
  ASSUME NEW j \in Jobs, NEW n \in 0..RoundsOf(j)
  PROVE  /\ NetOf(j)[0] = j.network
         /\ NetOf(j)[n] \in [Rank -> SUBSET Rank] /\ NetOf(j)[n + 1] \in [Rank -> SUBSET Rank]
         /\ NetOf(j)[n + 1] = NetStep(j, NetOf(j)[n], n)
  <1>1. RoundsOf(j) \in Nat
    BY JobIs
  <1>2. /\ n \in 0..(RoundsOf(j) + 1) /\ n + 1 \in 0..(RoundsOf(j) + 1)
        /\ n < RoundsOf(j) + 1
    BY <1>1
  <1> QED
    BY <1>2, NetsExist DEF Nets

LEMMA NearSymmetric ==
  ASSUME NEW j \in Jobs, NEW p, NEW q \in NearOf(j, p)
  PROVE  p \in NearOf(j, q) /\ q \in Rank /\ p \in Rank
  <1>1. PICK b \in LeavesOn(j, p), c \in LeavesOf(j) : c \in Touch[b] /\ j.place[c] = q
    BY DEF NearOf
  <1>2. /\ b \in LeavesOf(j) /\ j.place[b] = p /\ b \in Id /\ c \in Id /\ p # q
    BY <1>1, JobIs DEF LeavesOn, NearOf
  <1>3. b \in Touch[c]
    BY <1>1, <1>2, TreeAssumption
  <1>4. c \in LeavesOn(j, q)
    BY <1>1 DEF LeavesOn
  <1>5. b \in {d \in LeavesOf(j) : \E e \in LeavesOn(j, q) : d \in Touch[e]}
    BY <1>2, <1>3, <1>4
  <1> QED
    BY <1>1, <1>2, <1>5, JobIs DEF NearOf

LEMMA TwoHopsSymmetric ==
  ASSUME NEW j \in Jobs, NEW p, NEW q \in TwoHopsOf(j, p)
  PROVE  p \in TwoHopsOf(j, q)
  <1>1. \A r, s : s \in HopOf(j, r) => r \in HopOf(j, s)
    BY NearSymmetric DEF HopOf
  <1>2. PICK r \in HopOf(j, p) : q \in HopOf(j, r)
    BY DEF TwoHopsOf
  <1>3. r \in HopOf(j, q) /\ p \in HopOf(j, r)
    BY <1>1, <1>2
  <1> QED
    BY <1>3 DEF TwoHopsOf

LEMMA NbSymmetric ==
  ASSUME NEW j \in Jobs, NEW x \in NewOf(j), NEW y \in NbOf(j, x)
  PROVE  y \in NewOf(j) /\ x \in NbOf(j, y)
  BY TwoHopsSymmetric, NewIn, TreeAssumption DEF NbOf

LEMMA AroundSymmetric ==
  ASSUME NEW j \in Jobs, NEW n, NEW p, NEW q \in AroundOf(j, p, n)
  PROVE  p \in AroundOf(j, q, n)
  <1>1. PICK x \in OnOf(j, p, n) : \E z \in NbOf(j, x) : PlaceOf(j, z, n) = q
    BY DEF AroundOf
  <1>2. PICK y \in NbOf(j, x) : PlaceOf(j, y, n) = q
    BY <1>1
  <1>3. x \in NewOf(j) /\ PlaceOf(j, x, n) = p /\ p # q
    BY <1>1 DEF OnOf, AroundOf
  <1>4. y \in OnOf(j, q, n) /\ x \in NbOf(j, y)
    BY <1>2, <1>3, NbSymmetric DEF OnOf
  <1> QED
    BY <1>3, <1>4 DEF AroundOf

(* Who has somebody around it is not empty. *)
LEMMA AroundEmpty ==
  ASSUME NEW j \in Jobs, NEW n, NEW p, OnOf(j, p, n) = {}
  PROVE  AroundOf(j, p, n) = {}
  BY DEF AroundOf

Mutual(N) == \A p, q \in Rank : q \in N[p] <=> p \in N[q]

LEMMA StepMutual ==
  ASSUME NEW j \in Jobs, NEW n, NEW N, Mutual(N)
  PROVE  Mutual(NetStep(j, N, n))
  <1> SUFFICES ASSUME NEW p \in Rank, NEW q \in Rank, q \in NetStep(j, N, n)[p]
               PROVE  p \in NetStep(j, N, n)[q]
    BY DEF Mutual
  <1>1. CASE q \in AroundOf(j, p, n)
    <2>1. p \in AroundOf(j, q, n)
      BY <1>1, AroundSymmetric
    <2> QED
      BY <2>1 DEF NetStep
  <1>2. CASE q \notin AroundOf(j, p, n)
    <2>1. j.buffers /\ q \in N[p] /\ (OnOf(j, q, n) = {} \/ OnOf(j, p, n) = {})
      BY <1>2 DEF NetStep
    <2>2. p \in N[q]
      BY <2>1 DEF Mutual
    <2> QED
      BY <2>1, <2>2 DEF NetStep
  <1> QED
    BY <1>1, <1>2

(* Networks agree after every round. *)
LEMMA NetMutual ==
  ASSUME NEW j \in Jobs, NEW n \in 0..(RoundsOf(j) + 1)
  PROVE  Mutual(NetOf(j)[n])
  <1> DEFINE T == {k \in 0..(RoundsOf(j) + 1) : ~Mutual(NetOf(j)[k])}
  <1>1. RoundsOf(j) \in Nat
    BY JobIs
  <1>2. SUFFICES ASSUME T # {} PROVE FALSE
    OBVIOUS
  <1>3. T \subseteq Nat
    BY <1>1
  <1> HIDE DEF T
  <1>4. PICK m \in T : \A y \in T : m <= y
    BY <1>2, <1>3, LeastNumber
  <1>5. m \in 0..(RoundsOf(j) + 1) /\ ~Mutual(NetOf(j)[m])
    BY <1>4 DEF T
  <1>6. m # 0
    <2>1. Mutual(j.network)
      BY JobsAssumption DEF Job, Mutual
    <2>2. 0 \in 0..RoundsOf(j)
      BY <1>1
    <2> QED
      BY <1>5, <2>1, <2>2, NetIs
  <1> DEFINE k == m - 1
  <1>7. k \in 0..RoundsOf(j) /\ m = k + 1 /\ k \in 0..(RoundsOf(j) + 1) /\ ~(m <= k)
    BY <1>1, <1>5, <1>6
  <1> HIDE DEF k
  <1>8. Mutual(NetOf(j)[k])
    BY <1>4, <1>7 DEF T
  <1>9. NetOf(j)[m] = NetStep(j, NetOf(j)[k], k)
    BY <1>7, NetIs
  <1> QED
    BY <1>5, <1>8, <1>9, StepMutual

-----------------------------------------------------------------------------
(* The operators of the model, at the job of the refresh *)

LEMMA Static ==
  /\ Leaves = LeavesOf(job) /\ NewLeaves = NewOf(job) /\ Rounds = RoundsOf(job)
  /\ \A b : Targets(b) = TargetsOf(job, b)
  /\ \A x : Sources(x) = SourcesOf(job, x)
  /\ \A x, n : PlaceAt(x, n) = PlaceOf(job, x, n)
  /\ \A x : SameSize(x) <=> x \in LeavesOf(job)
  <1>1. Leaves = LeavesOf(job)
    BY DEF Leaves, LeavesOf
  <1>2. \A b : Targets(b) = TargetsOf(job, b)
    BY DEF Targets, TargetsOf
  <1>3. \A x : Sources(x) = SourcesOf(job, x)
    BY <1>1 DEF Sources, SourcesOf
  <1>4. NewLeaves = NewOf(job)
    BY <1>1, <1>2 DEF NewLeaves, NewOf
  <1>5. \A x, n : PlaceAt(x, n) = PlaceOf(job, x, n)
    BY <1>3 DEF PlaceAt, PlaceOf
  <1> QED
    BY <1>1, <1>2, <1>3, <1>4, <1>5 DEF Rounds, RoundsOf, SameSize

-----------------------------------------------------------------------------
(* Who is told, and who waits *)

(* A block to be is begun where its first source is. *)
LEMMA BegunIs ==
  ASSUME NEW j \in Jobs, NEW b \in LeavesOf(j), NEW x
  PROVE  x \in BegunBy(j, b) <=> x \in NewOf(j) /\ SourcesOf(j, x)[1] = b
  <1>1. ASSUME x \in BegunBy(j, b)
        PROVE  x \in NewOf(j) /\ SourcesOf(j, x)[1] = b
    <2>1. CASE j.mark[b] = "keep"
      <3>1. x = b /\ TargetsOf(j, b) = <<b>> /\ SourcesOf(j, b) = <<b>>
        BY <1>1, <2>1, KeepTargets DEF BegunBy, Stays
      <3>2. 1 \in DOMAIN TargetsOf(j, b) /\ TargetsOf(j, b)[1] = b
        BY <3>1
      <3> QED
        BY <3>1, <3>2, TargetsBack
    <2>2. CASE j.mark[b] = "split"
      <3>1. TargetsOf(j, b) = Children[b] /\ x \in ToSet(Children[b])
        BY <1>1, <2>2, SplitTargets DEF BegunBy
      <3>2. PICK i \in DOMAIN Children[b] : Children[b][i] = x
        BY <3>1 DEF ToSet
      <3>3. SourcesOf(j, x) = <<b>>
        BY <2>2, <3>2, SplitTargets DEF Splits
      <3> QED
        BY <3>1, <3>2, <3>3, TargetsBack
    <2>3. CASE j.mark[b] = "merge"
      <3>1. x = Father[b] /\ Branch[b] = 1
        BY <1>1, <2>3 DEF BegunBy
      <3>2. /\ TargetsOf(j, b) = <<x>> /\ SourcesOf(j, x) = Children[x]
            /\ Children[x][1] = b
        BY <2>3, <3>1, MergeTargets DEF Merges
      <3>3. 1 \in DOMAIN TargetsOf(j, b) /\ TargetsOf(j, b)[1] = x
        BY <3>2
      <3> QED
        BY <3>2, <3>3, TargetsBack
    <2> QED
      BY <2>1, <2>2, <2>3, MarkKinds
  <1>2. ASSUME x \in NewOf(j), SourcesOf(j, x)[1] = b
        PROVE  x \in BegunBy(j, b)
    <2>1. CASE Stays(j, x)
      <3>1. x = b /\ j.mark[b] = "keep"
        BY <1>2, <2>1 DEF Stays
      <3> QED
        BY <3>1 DEF BegunBy
    <2>2. CASE Splits(j, x)
      <3>1. Father[x] = b /\ j.mark[b] = "split"
        BY <1>2, <2>2 DEF Splits
      <3>2. x \in ToSet(Children[b])
        BY <2>2, <3>1 DEF Splits, ToSet
      <3> QED
        BY <3>1, <3>2 DEF BegunBy
    <2>3. CASE Merges(j, x)
      <3>1. Children[x][1] = b /\ 1 \in DOMAIN Children[x] /\ x \in Id
        BY <1>2, <2>3, SourcesAre DEF Merges
      <3>2. j.mark[b] = "merge" /\ Father[b] = x /\ Branch[b] = 1
        BY <2>3, <3>1, BranchIs DEF Merges
      <3> QED
        BY <3>2 DEF BegunBy
    <2> QED
      BY <1>2, <2>1, <2>2, <2>3, NewKinds
  <1> QED
    BY <1>1, <1>2

(* From the block b to a block to be, whose phantom is on s after n rounds *)
Leads(j, b, n, s) ==
  \E i \in DOMAIN TargetsOf(j, b) : PlaceOf(j, TargetsOf(j, b)[i], n) = s

(* A link of process s is for p exactly when a block of p leads to s. *)
LEMMA LinksDual ==
  ASSUME NEW j \in Jobs, NEW n, NEW s, NEW p
  PROVE  LinksOf(j, n, s, p) # {} <=> \E b \in LeavesOn(j, p) : Leads(j, b, n, s)
  <1>1. ASSUME NEW l \in LinksOf(j, n, s, p)
        PROVE  \E b \in LeavesOn(j, p) : Leads(j, b, n, s)
    <2>1. PICK x \in OnOf(j, s, n) : \E k \in DOMAIN FromOf(j, x) : FromOf(j, x)[k] = p
      BY <1>1 DEF LinksOf
    <2>2. PICK k \in DOMAIN FromOf(j, x) : FromOf(j, x)[k] = p
      BY <2>1
    <2>3. x \in NewOf(j) /\ PlaceOf(j, x, n) = s
      BY DEF OnOf
    <2>4. k \in DOMAIN SourcesOf(j, x) /\ j.place[SourcesOf(j, x)[k]] = p
      BY <2>2 DEF FromOf
    <2>5. /\ SourcesOf(j, x)[k] \in LeavesOn(j, p)
          /\ Leads(j, SourcesOf(j, x)[k], n, s)
      BY <2>3, <2>4, SourcesBack DEF LeavesOn, Leads
    <2> QED
      BY <2>5
  <1>2. ASSUME NEW b \in LeavesOn(j, p), Leads(j, b, n, s)
        PROVE  LinksOf(j, n, s, p) # {}
    <2>1. PICK i \in DOMAIN TargetsOf(j, b) : PlaceOf(j, TargetsOf(j, b)[i], n) = s
      BY <1>2 DEF Leads
    <2> DEFINE x == TargetsOf(j, b)[i]
    <2>2. b \in LeavesOf(j) /\ j.place[b] = p
      BY DEF LeavesOn
    <2>3. x \in OnOf(j, s, n)
      BY <2>1, <2>2, TargetsBack DEF OnOf
    <2>4. PICK k \in DOMAIN SourcesOf(j, x) : SourcesOf(j, x)[k] = b
      BY <2>2, TargetsBack
    <2>5. k \in DOMAIN FromOf(j, x) /\ FromOf(j, x)[k] = p
      BY <2>2, <2>4 DEF FromOf
    <2> HIDE DEF x
    <2>6. <<SourcesOf(j, x)[k], IndexOf(j, x), PlaceOf(j, x, n + 1)>> \in LinksOf(j, n, s, p)
      BY <2>3, <2>5 DEF LinksOf
    <2> QED
      BY <2>6
  <1> QED
    BY <1>1, <1>2

(* A block is given away exactly when each of its targets is made anew. *)
LEMMA GoneFresh ==
  ASSUME NEW j \in Jobs, NEW b \in LeavesOf(j), NEW i \in DOMAIN TargetsOf(j, b)
  PROVE  b \in GoneOf(j, j.place[b])
           <=> TargetsOf(j, b)[i] \in FreshOf(j, PlaceOf(j, TargetsOf(j, b)[i], RoundsOf(j)))
  <1> DEFINE x == TargetsOf(j, b)[i]
  <1>1. x \in OnOf(j, PlaceOf(j, x, RoundsOf(j)), RoundsOf(j))
    BY TargetsBack DEF OnOf
  <1>2. b \in LeavesOn(j, j.place[b])
    BY DEF LeavesOn
  <1>3. CASE j.mark[b] = "keep"
    <2>1. x = b /\ i = 1 /\ TargetsOf(j, b)[1] = b /\ SourcesOf(j, b) = <<b>>
      BY <1>3, KeepTargets DEF Stays
    <2>2. FromOf(j, x)[1] = j.place[b] /\ x \in LeavesOf(j)
      BY <2>1 DEF FromOf
    <2>3. b \in GoneOf(j, j.place[b]) <=> PlaceOf(j, b, RoundsOf(j)) # j.place[b]
      BY <1>2, <1>3, <2>1 DEF GoneOf
    <2>4. x \in FreshOf(j, PlaceOf(j, x, RoundsOf(j)))
            <=> j.place[b] # PlaceOf(j, x, RoundsOf(j))
      BY <1>1, <2>2 DEF FreshOf
    <2> QED
      BY <2>1, <2>3, <2>4
  <1>4. CASE j.mark[b] # "keep"
    <2>1. b \in GoneOf(j, j.place[b])
      BY <1>2, <1>4 DEF GoneOf
    <2>2. x \notin LeavesOf(j)
      BY <1>4, MarkKinds, SplitTargets, MergeTargets DEF Splits, Merges
    <2>3. x \in FreshOf(j, PlaceOf(j, x, RoundsOf(j)))
      BY <1>1, <2>2 DEF FreshOf
    <2> QED
      BY <2>1, <2>3
  <1> QED
    BY <1>3, <1>4

(* A block given away leads to s, as seen from s. *)
LEMMA FreshDual ==
  ASSUME NEW j \in Jobs, NEW s, NEW p
  PROVE  (\E x \in FreshOf(j, s) : p \in ToSet(FromOf(j, x)))
           <=> \E b \in GoneOf(j, p) : Leads(j, b, RoundsOf(j), s)
  <1>1. ASSUME NEW x \in FreshOf(j, s), p \in ToSet(FromOf(j, x))
        PROVE  \E b \in GoneOf(j, p) : Leads(j, b, RoundsOf(j), s)
    <2>1. PICK k \in DOMAIN FromOf(j, x) : FromOf(j, x)[k] = p
      BY <1>1 DEF ToSet
    <2>2. x \in NewOf(j) /\ PlaceOf(j, x, RoundsOf(j)) = s
      BY DEF FreshOf, OnOf
    <2> DEFINE b == SourcesOf(j, x)[k]
    <2>3. k \in DOMAIN SourcesOf(j, x) /\ j.place[b] = p
      BY <2>1 DEF FromOf
    <2>4. /\ b \in LeavesOf(j) /\ IndexOf(j, x) \in DOMAIN TargetsOf(j, b)
          /\ TargetsOf(j, b)[IndexOf(j, x)] = x
      BY <2>2, <2>3, SourcesBack
    <2> HIDE DEF b
    <2>5. b \in GoneOf(j, p)
      BY <2>2, <2>3, <2>4, GoneFresh
    <2>6. Leads(j, b, RoundsOf(j), s)
      BY <2>2, <2>4 DEF Leads
    <2> QED
      BY <2>5, <2>6
  <1>2. ASSUME NEW b \in GoneOf(j, p), Leads(j, b, RoundsOf(j), s)
        PROVE  \E x \in FreshOf(j, s) : p \in ToSet(FromOf(j, x))
    <2>1. PICK i \in DOMAIN TargetsOf(j, b) : PlaceOf(j, TargetsOf(j, b)[i], RoundsOf(j)) = s
      BY <1>2 DEF Leads
    <2>2. b \in LeavesOf(j) /\ j.place[b] = p
      BY DEF GoneOf, LeavesOn
    <2> DEFINE x == TargetsOf(j, b)[i]
    <2>3. x \in FreshOf(j, s)
      BY <2>1, <2>2, GoneFresh
    <2>4. PICK k \in DOMAIN SourcesOf(j, x) : SourcesOf(j, x)[k] = b
      BY <2>2, TargetsBack
    <2>5. p \in ToSet(FromOf(j, x))
      BY <2>2, <2>4 DEF FromOf, ToSet
    <2> QED
      BY <2>3, <2>5
  <1> QED
    BY <1>1, <1>2

LEMMA DataDual ==
  ASSUME NEW j \in Jobs, NEW s, NEW p
  PROVE  DataOf(j, p, s) # {} <=> \E b \in GoneOf(j, p) : Leads(j, b, RoundsOf(j), s)
  <1>1. ASSUME NEW m \in DataOf(j, p, s)
        PROVE  \E b \in GoneOf(j, p) : Leads(j, b, RoundsOf(j), s)
    <2>1. PICK b \in GoneOf(j, p) : \E i \in DOMAIN TargetsOf(j, b) :
                                     PlaceOf(j, TargetsOf(j, b)[i], RoundsOf(j)) = s
      BY <1>1 DEF DataOf
    <2> QED
      BY <2>1 DEF Leads
  <1>2. ASSUME NEW b \in GoneOf(j, p), Leads(j, b, RoundsOf(j), s)
        PROVE  DataOf(j, p, s) # {}
    <2>1. PICK i \in DOMAIN TargetsOf(j, b) : PlaceOf(j, TargetsOf(j, b)[i], RoundsOf(j)) = s
      BY <1>2 DEF Leads
    <2>2. [from |-> b, to |-> TargetsOf(j, b)[i], data |-> b] \in DataOf(j, p, s)
      BY <2>1 DEF DataOf
    <2> QED
      BY <2>2
  <1> QED
    BY <1>1, <1>2

(* Several maps that are parts of one make up that one. *)
LEMMA MergedIs ==
  ASSUME NEW maps, NEW D, NEW f, f = [x \in D |-> f[x]],
         \A m \in maps : \A x \in DOMAIN m : x \in D /\ m[x] = f[x],
         \A x \in D : \E m \in maps : x \in DOMAIN m
  PROVE  Merged(maps) = f
  <1>1. UNION {DOMAIN m : m \in maps} = D
    OBVIOUS
  <1>2. \A x \in D : (CHOOSE m \in maps : x \in DOMAIN m)[x] = f[x]
    OBVIOUS
  <1> QED
    BY <1>1, <1>2 DEF Merged

-----------------------------------------------------------------------------
(* The parts of a step *)

SentStays(l, n, l2, n2) == \A u \in Tag : SentOf(u, l2, n2) = SentOf(u, l, n)

ReadStays(l, n, l2, n2) == \A u \in Tag : ReadOf(u, l2, n2) = ReadOf(u, l, n)

LEMMA SentSame ==
  ASSUME NEW p \in Rank, OnlyMoves(p), SentStays(pc[p], iter[p], pc'[p], iter'[p])
  PROVE  SentBy' = SentBy
  BY DEF SentBy, OnlyMoves, SentStays

LEMMA ReadSame ==
  ASSUME NEW p \in Rank, OnlyMoves(p), ReadStays(pc[p], iter[p], pc'[p], iter'[p])
  PROVE  ReadBy' = ReadBy
  BY DEF ReadBy, OnlyMoves, ReadStays

(* What process p is known to hold *)
LEMMA Holds ==
  ASSUME MigrationInv, NEW p \in Rank
  PROVE  /\ job \in Jobs /\ pc[p] \in Label /\ iter[p] \in 0..RoundsOf(job)
         /\ iter[p] \in Nat /\ RoundsOf(job) \in Nat
         /\ Clock(job, pc[p], iter[p])
         /\ blocks[p] = BlocksOf(job, p, pc[p], iter[p])
         /\ phantoms[p] = PhantomsOf(job, p, pc[p], iter[p])
         /\ known[p] = KnownOf(job, p, pc[p])
         /\ network[p] = NetOf(job)[ReadOf("network", pc[p], iter[p])][p]
         /\ pc[p] \in Waits => await[p] = SendersOf(job, p, pc[p], iter[p])
         /\ SentBy \in Counts /\ ReadBy \in Counts
         /\ Channels(job, mail, SentBy, ReadBy) /\ DOMAIN mail = Tag
  <1>1. Shapes /\ Local(p)
    BY DEF MigrationInv
  <1>2. job \in Jobs /\ RoundsOf(job) \in Nat
    BY <1>1, JobIs DEF Shapes
  <1>3. iter \in [Rank -> 0..RoundsOf(job)] /\ iter \in [Rank -> Nat]
    BY <1>1, <1>2 DEF Shapes
  <1>4. iter[p] \in 0..RoundsOf(job) /\ iter[p] \in Nat
    BY <1>3
  <1>5. SentBy \in Counts /\ ReadBy \in Counts
    BY <1>3, CountsNat
  <1>6. pc[p] \in Label /\ DOMAIN mail = Tag
    BY <1>1 DEF Shapes
  <1>7. Channels(job, mail, SentBy, ReadBy)
    BY DEF MigrationInv
  <1> QED
    BY <1>1, <1>2, <1>4, <1>5, <1>6, <1>7 DEF Local, Determined

(* What has come is what was to come. *)
LEMMA Received ==
  ASSUME MigrationInv, NEW p \in Rank, NEW t, NEW n, pc[p] \in Waits,
         t = TagAt(pc[p]), n = ReadOf(t, pc[p], iter[p]), Arrived(t, p)
  PROVE  /\ await[p] = {s \in Rank : Applies(job, t, n, s, p)}
         /\ \A q \in await[p] : Msg(t, q, p) = Said(job, t, n, q, p)
         /\ Channels(job, Taken(t, p), SentBy, Bumped(ReadBy, t, p))
         /\ DOMAIN Taken(t, p) = Tag /\ t \in Tag
  <1>1. t \in Tag
    BY DEF TagAt, Waits, Tag
  <1>2. await[p] = {s \in Rank : Applies(job, t, n, s, p)}
    BY Holds DEF SendersOf
  <1>3. /\ DOMAIN mail = Tag /\ Channels(job, mail, SentBy, ReadBy)
        /\ SentBy \in Counts /\ ReadBy \in Counts
    BY Holds
  <1>4. ReadBy[t][p] = n
    BY <1>1 DEF ReadBy
  <1>5. DOMAIN Taken(t, p) = Tag /\ TakenFrom(mail, Taken(t, p), t, p, await[p])
    BY <1>1, <1>3, TakenIs
  <1>6. AllCome(mail, t, p, await[p])
    BY DEF AllCome, Arrived
  <1> DEFINE A == await[p]
  <1>7. A = {s \in Rank : Applies(job, t, ReadBy[t][p], s, p)}
    BY <1>2, <1>4
  <1>8. /\ Channels(job, Taken(t, p), SentBy, Bumped(ReadBy, t, p))
        /\ \A q \in A : Head(mail[t][<<q, p>>]) = Said(job, t, ReadBy[t][p], q, p)
    <2> DEFINE m2 == Taken(t, p)
    <2>1. AllCome(mail, t, p, A) /\ TakenFrom(mail, m2, t, p, A)
      BY <1>5, <1>6
    <2> HIDE DEF A, m2
    <2>2. /\ Channels(job, m2, SentBy, Bumped(ReadBy, t, p))
          /\ \A q \in A : Head(mail[t][<<q, p>>]) = Said(job, t, ReadBy[t][p], q, p)
      BY ONLY <1>1, <1>3, <1>7, <2>1, p \in Rank, TakeAll
    <2> QED
      BY <2>2 DEF A, m2
  <1> QED
    BY <1>1, <1>2, <1>4, <1>5, <1>8 DEF Msg

LEMMA Posted ==
  ASSUME NEW j, NEW m, DOMAIN m = Tag, NEW S \in Counts, NEW R \in Counts,
         Channels(j, m, S, R), NEW t \in Tag, NEW p \in Rank, NEW msg,
         Tells(j, t, S[t][p], p, msg)
  PROVE  /\ Channels(j, Post(m, t, p, msg), Bumped(S, t, p), R)
         /\ DOMAIN Post(m, t, p, msg) = Tag
  <1>1. /\ DOMAIN Post(m, t, p, msg) = Tag
        /\ PostedTo(j, m, Post(m, t, p, msg), t, p, S[t][p])
    BY PostIs
  <1> QED
    BY <1>1, PostAll

(* The other processes hold what they held. *)
Others(p) ==
  \A q \in Rank : q # p =>
    /\ pc'[q] = pc[q] /\ iter'[q] = iter[q] /\ blocks'[q] = blocks[q]
    /\ phantoms'[q] = phantoms[q] /\ known'[q] = known[q] /\ network'[q] = network[q]
    /\ await'[q] = await[q]

ShapesNext == Shapes'

LocalNext(p) ==
  Determined(job, p, pc'[p], iter'[p], blocks'[p], phantoms'[p], known'[p], network'[p], await'[p])

ChannelsNext == Channels(job, mail', SentBy', ReadBy')

LEMMA Assembled ==
  ASSUME MigrationInv, NEW p \in Rank, job' = job, Others(p), ShapesNext, LocalNext(p),
         ChannelsNext
  PROVE  MigrationInv'
  <1>1. ASSUME NEW q \in Rank
        PROVE  Local(q)'
    <2>1. CASE q = p
      BY <2>1 DEF LocalNext, Local
    <2>2. CASE q # p
      <3>1. Local(q)
        BY DEF MigrationInv
      <3> QED
        BY <2>2, <3>1 DEF Others, Local
    <2> QED
      BY <2>1, <2>2
  <1> QED
    BY <1>1 DEF MigrationInv, ShapesNext, ChannelsNext

-----------------------------------------------------------------------------
(* How the counts change from place to place *)

LEMMA CountsCreate ==
  SentGrows("meet", "create", 0, "meet", 0) /\ ReadStays("create", 0, "meet", 0)
  BY DEF SentGrows, ReadStays, SentOf, ReadOf, Tag, Before

LEMMA CountsMeet ==
  SentGrows("meet", "meet", 0, "reconstruct", 0) /\ ReadGrows("meet", "meet", 0, "reconstruct", 0)
  BY DEF SentGrows, ReadGrows, SentOf, ReadOf, Tag, Before

LEMMA CountsReconstruct ==
  /\ ReadGrows("meet", "reconstruct", 0, "network", 0)
  /\ SentGrows("network", "reconstruct", 0, "network", 0)
  /\ SentGrows("network", "reconstruct", 0, "balance", 0)
  /\ ReadGrowTwo("meet", "network", "reconstruct", 0, "balance", 0)
  BY DEF SentGrows, ReadGrows, ReadGrowTwo, SentOf, ReadOf, Tag, Before

LEMMA CountsNetwork ==
  ASSUME NEW n \in Nat
  PROVE  SentStays("network", n, "balance", n) /\ ReadGrows("network", "network", n, "balance", n)
  BY DEF SentStays, ReadGrows, SentOf, ReadOf, Tag, Before

LEMMA CountsBalance ==
  ASSUME NEW n \in Nat
  PROVE  SentGrows("moves", "balance", n, "moves", n) /\ ReadStays("balance", n, "moves", n)
  BY DEF SentGrows, ReadStays, SentOf, ReadOf, Tag, Before

LEMMA CountsLink ==
  ASSUME NEW n \in Nat
  PROVE  SentGrows("links", "moves", n, "links", n) /\ ReadGrows("moves", "moves", n, "links", n)
  BY DEF SentGrows, ReadGrows, SentOf, ReadOf, Tag, Before

LEMMA CountsDepart ==
  ASSUME NEW n \in Nat
  PROVE  /\ SentGrows("phantoms", "links", n, "phantoms", n)
         /\ ReadGrows("links", "links", n, "phantoms", n)
  BY DEF SentGrows, ReadGrows, SentOf, ReadOf, Tag, Before

LEMMA CountsArrive ==
  ASSUME NEW n \in Nat
  PROVE  /\ ReadGrows("phantoms", "phantoms", n, "network", n + 1)
         /\ SentGrows("network", "phantoms", n, "network", n + 1)
         /\ SentGrows("network", "phantoms", n, "balance", n + 1)
         /\ ReadGrowTwo("phantoms", "network", "phantoms", n, "balance", n + 1)
  BY DEF SentGrows, ReadGrows, ReadGrowTwo, SentOf, ReadOf, Tag, Before

LEMMA CountsRest ==
  ASSUME NEW n \in Nat, NEW l \in {"vote", "update"}
  PROVE  SentStays("balance", n, l, n) /\ ReadStays("balance", n, l, n)
  BY DEF SentStays, ReadStays, SentOf, ReadOf, Tag, Before

LEMMA CountsStates ==
  ASSUME NEW n \in Nat
  PROVE  SentGrows("states", "update", n, "states", n) /\ ReadStays("update", n, "states", n)
  BY DEF SentGrows, ReadStays, SentOf, ReadOf, Tag, Before

LEMMA CountsPack ==
  ASSUME NEW n \in Nat
  PROVE  SentGrows("data", "states", n, "data", n) /\ ReadGrows("states", "states", n, "data", n)
  BY DEF SentGrows, ReadGrows, SentOf, ReadOf, Tag, Before

LEMMA CountsUnpack ==
  ASSUME NEW n \in Nat
  PROVE  SentStays("data", n, "done", n) /\ ReadGrows("data", "data", n, "done", n)
  BY DEF SentStays, ReadGrows, SentOf, ReadOf, Tag, Before

-----------------------------------------------------------------------------
(* The invariant at the start *)

LEMMA MigrationStarts ==
  ASSUME Init
  PROVE  MigrationInv
  <1>1. job \in Jobs
    BY DEF Init
  <1>2. RoundsOf(job) \in Nat /\ 0 \in 0..RoundsOf(job)
    BY <1>1, JobIs
  <1>3. Shapes
    <2>1. pc \in [Rank -> Label] /\ iter \in [Rank -> 0..RoundsOf(job)]
      BY <1>2 DEF Init, Label
    <2>2. network \in [Rank -> SUBSET Rank] /\ await \in [Rank -> SUBSET Rank]
      BY <1>1, JobIs DEF Init
    <2> QED
      BY <1>1, <2>1, <2>2 DEF Init, Shapes
  <1>4. ASSUME NEW p \in Rank
        PROVE  Local(p)
    <2>1. pc[p] = "create" /\ iter[p] = 0 /\ phantoms[p] = <<>> /\ known[p] = <<>>
      BY DEF Init
    <2>2. Clock(job, "create", 0) /\ "create" \notin Waits
      BY DEF Clock, Waits, Before
    <2>3. blocks[p] = BlocksOf(job, p, "create", 0)
      <3>1. blocks[p] = [b \in LeavesOn(job, p) |-> OldBlock(job, p, b, "create", 0)]
        BY DEF Init, Leaves, LeavesOn, LeavesOf, OldBlock, ToOf
      <3> QED
        BY <3>1 DEF BlocksOf, Updated
    <2>4. phantoms[p] = PhantomsOf(job, p, "create", 0) /\ known[p] = KnownOf(job, p, "create")
      BY <2>1 DEF PhantomsOf, KnownOf
    <2>5. network[p] = NetOf(job)[ReadOf("network", "create", 0)][p]
      BY <1>1, <1>2, NetIs DEF Init, ReadOf, Before
    <2> QED
      BY <2>1, <2>2, <2>3, <2>4, <2>5 DEF Local, Determined
  <1>5. Channels(job, mail, SentBy, ReadBy)
    <2>1. ASSUME NEW t \in Tag, NEW s \in Rank, NEW d \in Rank
          PROVE  Channel(job, t, s, d, SentBy[t][s], ReadBy[t][d], mail[t][<<s, d>>])
      <3>1. SentBy[t][s] = 0 /\ ReadBy[t][d] = 0
        <4>1. pc[s] = "create" /\ iter[s] = 0 /\ pc[d] = "create" /\ iter[d] = 0
          BY DEF Init
        <4> QED
          BY <4>1 DEF SentBy, ReadBy, SentOf, ReadOf, Tag, Before
      <3>2. mail[t][<<s, d>>] = <<>>
        BY DEF Init
      <3>3. Channel(job, t, s, d, 0, 0, <<>>)
        BY ChannelNew
      <3> QED
        BY <3>1, <3>2, <3>3
    <2> QED
      BY <2>1 DEF Channels
  <1> QED
    BY <1>3, <1>4, <1>5 DEF MigrationInv

-----------------------------------------------------------------------------
(* PhantomBlockForest::initialize keeps the invariant. *)

(* The neighbour processes of the blocks before *)
LEMMA AroundOld ==
  ASSUME NEW j \in Jobs, NEW p \in Rank, NEW l, NEW n,
         NEW bs, bs = [b \in LeavesOn(j, p) |-> OldBlock(j, p, b, l, n)]
  PROVE  Around(p, bs) = NearOf(j, p)
  <1>1. \A b \in LeavesOn(j, p) :
          Range2(bs[b].nbr) = {j.place[y] : y \in LeavesOf(j) \cap Touch[b]}
    BY DEF Range2, OldBlock
  <1>2. DOMAIN bs = LeavesOn(j, p)
    OBVIOUS
  <1>3. UNION {Range2(bs[b].nbr) : b \in DOMAIN bs}
          = {j.place[c] : c \in {d \in LeavesOf(j) : \E b \in LeavesOn(j, p) : d \in Touch[b]}}
    BY <1>1, <1>2
  <1> QED
    BY <1>3 DEF Around, NearOf

LEMMA NearIn ==
  ASSUME NEW j \in Jobs, NEW p \in Rank
  PROVE  NearOf(j, p) \subseteq Rank /\ {s \in Rank : p \in NearOf(j, s)} = NearOf(j, p)
  BY NearSymmetric

LEMMA OldRelinked ==
  ASSUME NEW j, NEW p, NEW b, NEW l, NEW n, NEW l2, NEW n2
  PROVE  [OldBlock(j, p, b, l, n) EXCEPT !.to = ToOf(j, p, b, l2, n2)] = OldBlock(j, p, b, l2, n2)
  <1> DEFINE v == ToOf(j, p, b, l, n)
             w == ToOf(j, p, b, l2, n2)
             r == [y \in LeavesOf(j) \cap Touch[b] |-> j.place[y]]
  <1> HIDE DEF v, w, r
  <1>1. [[to |-> v, data |-> b, nbr |-> r] EXCEPT !.to = w] = [to |-> w, data |-> b, nbr |-> r]
    OBVIOUS
  <1> QED
    BY <1>1 DEF OldBlock, v, w, r

(* Until its data is sent, a process holds the blocks before. *)
LEMMA OldHeld ==
  ASSUME MigrationInv, NEW p \in Rank, pc[p] \notin {"data", "done"}
  PROVE  blocks[p] = [b \in LeavesOn(job, p) |-> OldBlock(job, p, b, pc[p], iter[p])]
  BY Holds DEF BlocksOf, Updated

LEMMA OldParts ==
  ASSUME MigrationInv, NEW p \in Rank, pc[p] \notin {"data", "done"}, NEW b \in LeavesOn(job, p)
  PROVE  /\ blocks[p][b].to = ToOf(job, p, b, pc[p], iter[p]) /\ blocks[p][b].data = b
         /\ blocks[p][b].nbr = [y \in LeavesOf(job) \cap Touch[b] |-> job.place[y]]
  <1>1. blocks[p][b] = OldBlock(job, p, b, pc[p], iter[p])
    BY OldHeld
  <1> QED
    BY <1>1 DEF OldBlock

(* The sources a phantom is made with *)
LEMMA FromFirst ==
  ASSUME MigrationInv, NEW p \in Rank, pc[p] = "create", NEW x \in OnOf(job, p, 0)
  PROVE  (IF SameSize(x) \/ Len(Sources(x)) = 1 THEN <<p>> ELSE SourceOfFather(p, x))
           = FromOf(job, x)
  <1>1. /\ job \in Jobs /\ x \in NewOf(job) /\ job.place[SourcesOf(job, x)[1]] = p
    BY Holds DEF OnOf, PlaceOf
  <1>2. Sources(x) = SourcesOf(job, x) /\ (SameSize(x) <=> x \in LeavesOf(job))
    BY Static
  <1>3. CASE Stays(job, x)
    <2>1. SourcesOf(job, x) = <<x>> /\ FromOf(job, x) = <<p>>
      BY <1>1, <1>3 DEF Stays, FromOf
    <2> QED
      BY <1>2, <1>3, <2>1 DEF Stays
  <1>4. CASE Splits(job, x)
    <2>1. SourcesOf(job, x) = <<Father[x]>> /\ FromOf(job, x) = <<p>>
      BY <1>1, <1>4 DEF Splits, FromOf
    <2>2. Len(SourcesOf(job, x)) = 1
      BY <2>1
    <2> QED
      BY <1>2, <2>1, <2>2
  <1>5. CASE Merges(job, x)
    <2>1. /\ SourcesOf(job, x) = Children[x] /\ x \notin LeavesOf(job) /\ x \in Id
          /\ \A i \in DOMAIN Children[x] : Children[x][i] \in LeavesOf(job)
      BY <1>5 DEF Merges
    <2>2. Len(SourcesOf(job, x)) # 1
      BY <1>5, <2>1, ChildrenIn DEF Merges
    <2> DEFINE b == Children[x][1]
    <2>3. 1 \in DOMAIN Children[x]
      BY <1>1, <2>1, SourcesAre
    <2>4. b \in LeavesOn(job, p)
      BY <1>1, <2>1, <2>3 DEF LeavesOn
    <2>5. blocks[p][b].nbr = [y \in LeavesOf(job) \cap Touch[b] |-> job.place[y]]
      BY <2>4, OldParts
    <2>6. ASSUME NEW i \in DOMAIN Children[x]
          PROVE  (IF Children[x][i] \in LeavesOf(job) \cap Touch[b]
                  THEN job.place[Children[x][i]] ELSE p) = job.place[Children[x][i]]
      <3>1. CASE i = 1
        BY <1>1, <2>1, <3>1
      <3>2. CASE i # 1
        <4>1. Children[x][i] \in Touch[b]
          BY <2>1, <2>3, <3>2, TreeAssumption
        <4> QED
          BY <2>1, <4>1
      <3> QED
        BY <3>1, <3>2
    <2> HIDE DEF b
    <2>7. SourceOfFather(p, x) = [i \in DOMAIN Children[x] |-> job.place[Children[x][i]]]
      <3>1. SourceOfFather(p, x) =
              [i \in DOMAIN Children[x] |->
                 IF Children[x][i] \in LeavesOf(job) \cap Touch[b]
                 THEN job.place[Children[x][i]] ELSE p]
        BY <2>5 DEF SourceOfFather, b
      <3> QED
        BY <2>6, <3>1
    <2>8. FromOf(job, x) = [i \in DOMAIN Children[x] |-> job.place[Children[x][i]]]
      BY <2>1 DEF FromOf
    <2> QED
      BY <1>2, <2>1, <2>2, <2>7, <2>8
  <1> QED
    BY <1>1, <1>3, <1>4, <1>5, NewKinds

(* The first link of a block *)
LEMMA TargetFirst ==
  ASSUME MigrationInv, NEW p \in Rank, pc[p] = "create", NEW b \in LeavesOn(job, p)
  PROVE  FirstTarget(p, b) = ToOf(job, p, b, "meet", 0)
  <1>1. job \in Jobs /\ b \in LeavesOf(job) /\ job.place[b] = p
    BY Holds DEF LeavesOn
  <1>2. ToOf(job, p, b, "meet", 0)
          = [i \in DOMAIN TargetsOf(job, b) |-> PlaceOf(job, TargetsOf(job, b)[i], 0)]
    BY DEF ToOf, LinkOf
  <1>3. Targets(b) = TargetsOf(job, b)
    BY Static
  <1>4. CASE job.mark[b] # "merge"
    <2>1. ASSUME NEW i \in DOMAIN TargetsOf(job, b)
          PROVE  PlaceOf(job, TargetsOf(job, b)[i], 0) = p
      <3> DEFINE x == TargetsOf(job, b)[i]
      <3>1. SourcesOf(job, x) = <<b>>
        BY <1>1, <1>4, MarkKinds, KeepTargets, SplitTargets DEF Stays, Splits
      <3> QED
        BY <1>1, <3>1 DEF PlaceOf
    <2> QED
      BY <1>2, <1>3, <1>4, <2>1 DEF FirstTarget
  <1>5. CASE job.mark[b] = "merge"
    <2> DEFINE f == Father[b]
    <2>1. /\ TargetsOf(job, b) = <<f>> /\ Merges(job, f)
          /\ Branch[b] \in DOMAIN Children[f] /\ Children[f][Branch[b]] = b
      BY <1>1, <1>5, MergeTargets
    <2>2. /\ f \in Id /\ SourcesOf(job, f) = Children[f]
          /\ \A i \in DOMAIN Children[f] : Children[f][i] \in LeavesOf(job)
      BY <2>1 DEF Merges
    <2>3. 1 \in DOMAIN Children[f]
      <3>1. Len(Children[f]) > 1 /\ Len(Children[f]) \in Nat
        BY <2>1, <2>2, ChildrenIn DEF Merges
      <3> QED
        BY <2>2, <3>1, ChildrenIn
    <2>4. PlaceOf(job, f, 0) = job.place[Children[f][1]]
      BY <2>2 DEF PlaceOf
    <2> HIDE DEF f
    <2>5. ToOf(job, p, b, "meet", 0) = <<job.place[Children[f][1]]>>
      <3>1. ToOf(job, p, b, "meet", 0) = [i \in 1..1 |-> job.place[Children[f][1]]]
        BY <1>2, <2>1, <2>4
      <3> QED
        BY <3>1
    <2>6. CASE Branch[b] = 1
      BY <1>1, <1>5, <2>1, <2>5, <2>6 DEF FirstTarget
    <2>7. CASE Branch[b] # 1
      <3>1. Children[f][1] \in Touch[b]
        BY <2>1, <2>2, <2>3, <2>7, TreeAssumption
      <3>2. Children[f][1] \in LeavesOf(job) \cap Touch[b]
        BY <2>2, <2>3, <3>1
      <3>3. blocks[p][b].nbr = [y \in LeavesOf(job) \cap Touch[b] |-> job.place[y]]
        BY OldParts
      <3>4. blocks[p][b].nbr[Children[f][1]] = job.place[Children[f][1]]
        BY <3>2, <3>3
      <3> QED
        BY <1>5, <2>5, <2>7, <3>4 DEF FirstTarget, f
    <2> QED
      BY <2>6, <2>7
  <1> QED
    BY <1>4, <1>5

LEMMA CreateKeeps ==
  ASSUME MigrationInv, NEW p \in Rank, Create(p)
  PROVE  MigrationInv'
  <1> DEFINE bs == blocks[p]
             ps == [x \in OnOf(job, p, 0) |-> [from |-> FromOf(job, x), to |-> p, nbr |-> <<>>]]
  <1>1. /\ pc[p] = "create" /\ job \in Jobs /\ iter[p] = 0
        /\ bs = [b \in LeavesOn(job, p) |-> OldBlock(job, p, b, "create", 0)]
        /\ network[p] = NetOf(job)[0][p]
        /\ SentBy \in Counts /\ ReadBy \in Counts
        /\ Channels(job, mail, SentBy, ReadBy) /\ DOMAIN mail = Tag
    BY Holds DEF Create, Clock, Before, BlocksOf, Updated, ReadOf
  <1>2. Shapes /\ RoundsOf(job) \in Nat
    BY <1>1, JobIs DEF MigrationInv
  <1>3. Begun(p) = OnOf(job, p, 0)
    <2>1. Begun(p) = UNION {BegunBy(job, b) : b \in LeavesOn(job, p)}
      BY <1>1 DEF Begun
    <2>2. ASSUME NEW x
          PROVE  x \in Begun(p) <=> x \in OnOf(job, p, 0)
      <3>1. x \in Begun(p) <=> \E b \in LeavesOn(job, p) : x \in BegunBy(job, b)
        BY <2>1
      <3>2. (\E b \in LeavesOn(job, p) : x \in BegunBy(job, b))
              <=> x \in NewOf(job) /\ SourcesOf(job, x)[1] \in LeavesOn(job, p)
        BY <1>1, BegunIs DEF LeavesOn
      <3>3. x \in NewOf(job) => SourcesOf(job, x)[1] \in LeavesOf(job)
        BY <1>1, SourcesAre, SourcesBack
      <3> QED
        BY <3>1, <3>2, <3>3 DEF OnOf, PlaceOf, LeavesOn
    <2> QED
      BY <2>2
  <1>4. Around(p, bs) = NearOf(job, p)
    BY <1>1, AroundOld
  <1>5. /\ job' = job /\ iter' = iter /\ network' = network
        /\ phantoms' = [phantoms EXCEPT ![p] = ps]
        /\ known' = [known EXCEPT ![p] = KnownBy(job, {p})]
        /\ await' = [await EXCEPT ![p] = NearOf(job, p)]
        /\ pc' = [pc EXCEPT ![p] = "meet"]
    <2>1. KnownBy(job, {p}) = [x \in OnOf(job, p, 0) |-> p]
      BY DEF KnownBy, OnOf
    <2>2. ps = [x \in OnOf(job, p, 0) |->
                  [from |-> IF SameSize(x) \/ Len(Sources(x)) = 1 THEN <<p>>
                            ELSE SourceOfFather(p, x),
                   to |-> p, nbr |-> <<>>]]
      BY <1>1, FromFirst
    <2> HIDE DEF ps, bs
    <2> QED
      BY <1>3, <1>4, <2>1, <2>2 DEF Create, Await, Goto, bs
  <1>6. blocks' = [blocks EXCEPT ![p] = [b \in LeavesOn(job, p) |-> OldBlock(job, p, b, "meet", 0)]]
    <2>1. \A b \in LeavesOn(job, p) :
            [bs[b] EXCEPT !.to = FirstTarget(p, b)] = OldBlock(job, p, b, "meet", 0)
      <3>1. \A b \in LeavesOn(job, p) : FirstTarget(p, b) = ToOf(job, p, b, "meet", 0)
        BY <1>1, TargetFirst
      <3> QED
        BY <1>1, <3>1, OldRelinked
    <2>2. DOMAIN bs = LeavesOn(job, p)
      BY <1>1
    <2>3. blocks' = [blocks EXCEPT ![p] = [b \in DOMAIN bs |-> [bs[b] EXCEPT !.to = FirstTarget(p, b)]]]
      BY DEF Create
    <2> QED
      BY <2>1, <2>2, <2>3
  <1>7. pc'[p] = "meet" /\ iter'[p] = 0 /\ Others(p) /\ OnlyMoves(p) /\ DOMAIN blocks = Rank
    BY <1>1, <1>2, <1>5, <1>6 DEF Shapes, Others, OnlyMoves
  <1>8. NearOf(job, p) \subseteq Rank /\ NearOf(job, p) = {s \in Rank : p \in NearOf(job, s)}
    BY <1>1, NearIn
  <1>9. ChannelsNext /\ DOMAIN mail' = Tag
    <2> DEFINE msg == [q \in NearOf(job, p) |-> KnownBy(job, {p})]
    <2>1. Tells(job, "meet", 0, p, msg)
      BY DEF Tells, Applies, Said
    <2>2. SentBy["meet"][p] = 0 /\ "meet" \in Tag
      BY <1>1 DEF SentBy, SentOf, Tag
    <2>3. known'[p] = KnownBy(job, {p})
      BY <1>2, <1>5 DEF Shapes
    <2>4. mail' = Post(mail, "meet", p, msg)
      BY <1>4, <2>3 DEF Create
    <2> HIDE DEF msg
    <2>5. Channels(job, mail', Bumped(SentBy, "meet", p), ReadBy) /\ DOMAIN mail' = Tag
      BY <1>1, <2>1, <2>2, <2>4, Posted
    <2>6. SentBy' = Bumped(SentBy, "meet", p)
      BY <1>1, <1>7, CountsCreate, SentBumped
    <2>7. ReadBy' = ReadBy
      BY <1>1, <1>7, CountsCreate, ReadSame
    <2> QED
      BY <2>5, <2>6, <2>7 DEF ChannelsNext
  <1>10. ShapesNext
    BY <1>2, <1>5, <1>6, <1>8, <1>9 DEF Shapes, ShapesNext, Label
  <1>11. LocalNext(p)
    <2>1. Clock(job, "meet", 0)
      BY DEF Clock, Before
    <2>2. blocks'[p] = BlocksOf(job, p, "meet", 0)
      BY <1>6, <1>7 DEF BlocksOf, Updated
    <2>3. phantoms'[p] = PhantomsOf(job, p, "meet", 0)
      BY <1>2, <1>5 DEF Shapes, PhantomsOf
    <2>4. known'[p] = KnownOf(job, p, "meet")
      BY <1>2, <1>5 DEF Shapes, KnownOf
    <2>5. network'[p] = NetOf(job)[ReadOf("network", "meet", 0)][p]
      BY <1>1, <1>5 DEF ReadOf, Before
    <2>6. await'[p] = SendersOf(job, p, "meet", 0)
      BY <1>2, <1>5, <1>8 DEF Shapes, SendersOf, TagAt, Applies
    <2> QED
      BY <1>7, <2>1, <2>2, <2>3, <2>4, <2>5, <2>6 DEF LocalNext, Determined
  <1> QED
    BY <1>5, <1>7, <1>9, <1>10, <1>11, Assembled

LEMMA KnownMerged ==
  ASSUME NEW j, NEW Q, NEW maps, maps \subseteq {KnownBy(j, S) : S \in SUBSET Q},
         \A q \in Q : \E S : q \in S /\ KnownBy(j, S) \in maps
  PROVE  Merged(maps) = KnownBy(j, Q)
  <1> DEFINE f == KnownBy(j, Q)
             D == {y \in NewOf(j) : PlaceOf(j, y, 0) \in Q}
  <1>1. f = [x \in D |-> f[x]] /\ \A x \in D : f[x] = PlaceOf(j, x, 0)
    BY DEF KnownBy
  <1>2. ASSUME NEW m \in maps, NEW x \in DOMAIN m
        PROVE  x \in D /\ m[x] = f[x]
    <2>1. PICK S \in SUBSET Q : m = KnownBy(j, S)
      OBVIOUS
    <2>2. x \in NewOf(j) /\ PlaceOf(j, x, 0) \in S /\ m[x] = PlaceOf(j, x, 0)
      BY <2>1 DEF KnownBy
    <2>3. x \in D
      BY <2>2
    <2> QED
      BY <1>1, <2>2, <2>3
  <1>3. ASSUME NEW x \in D
        PROVE  \E m \in maps : x \in DOMAIN m
    <2>1. PICK S : PlaceOf(j, x, 0) \in S /\ KnownBy(j, S) \in maps
      OBVIOUS
    <2>2. x \in DOMAIN KnownBy(j, S)
      BY <2>1 DEF KnownBy
    <2> QED
      BY <2>1, <2>2
  <1> HIDE DEF f, D
  <1>4. Merged(maps) = f
    BY <1>1, <1>2, <1>3, MergedIs
  <1> QED
    BY <1>4 DEF f

(* A process learns of all that its neighbours knew. *)
LEMMA MeetKnown ==
  ASSUME MigrationInv, NEW p \in Rank, pc[p] \in {"meet", "reconstruct"}, Arrived("meet", p)
  PROVE  /\ Learned(p) = KnownBy(job, IF pc[p] = "meet" THEN HopOf(job, p) ELSE TwoHopsOf(job, p))
         /\ Heard(p) = {KnownBy(job, IF pc[p] = "meet" THEN {q} ELSE HopOf(job, q)) : q \in HopOf(job, p)}
  <1> DEFINE n == ReadOf("meet", pc[p], iter[p])
             U(q) == IF pc[p] = "meet" THEN {q} ELSE HopOf(job, q)
             Q == IF pc[p] = "meet" THEN HopOf(job, p) ELSE TwoHopsOf(job, p)
  <1>1. /\ await[p] = {s \in Rank : Applies(job, "meet", n, s, p)}
        /\ \A q \in await[p] : Msg("meet", q, p) = Said(job, "meet", n, q, p)
    BY Received DEF TagAt, Waits
  <1>2. n = IF pc[p] = "meet" THEN 0 ELSE 1
    BY DEF ReadOf
  <1>3. job \in Jobs /\ known[p] = KnownBy(job, U(p))
    BY Holds DEF KnownOf
  <1>4. await[p] = NearOf(job, p)
    BY <1>1, <1>3, NearIn DEF Applies
  <1>5. \A q \in await[p] : Msg("meet", q, p) = KnownBy(job, U(q))
    BY <1>1, <1>2 DEF Said
  <1>6. Heard(p) = {KnownBy(job, U(q)) : q \in HopOf(job, p)}
    BY <1>3, <1>4, <1>5 DEF Heard, HopOf
  <1>7. \A q \in HopOf(job, p) : q \in U(q) /\ U(q) \in SUBSET Q
    BY DEF HopOf, TwoHopsOf
  <1>8. \A r \in Q : \E q \in HopOf(job, p) : r \in U(q)
    BY DEF TwoHopsOf
  <1> HIDE DEF U, Q, n
  <1>9. \A r \in Q : \E S : r \in S /\ KnownBy(job, S) \in Heard(p)
    BY <1>6, <1>8
  <1>10. Heard(p) \subseteq {KnownBy(job, S) : S \in SUBSET Q}
    BY <1>6, <1>7
  <1>11. Learned(p) = KnownBy(job, Q)
    BY <1>9, <1>10, KnownMerged DEF Learned
  <1> QED
    BY <1>6, <1>11 DEF U, Q

LEMMA MeetKeeps ==
  ASSUME MigrationInv, NEW p \in Rank, Meet(p)
  PROVE  MigrationInv'
  <1> DEFINE k == KnownBy(job, HopOf(job, p))
             m == Taken("meet", p)
  <1>1. /\ pc[p] = "meet" /\ job \in Jobs /\ iter[p] = 0 /\ Arrived("meet", p)
        /\ network[p] = NetOf(job)[0][p]
        /\ SentBy \in Counts /\ ReadBy \in Counts
    BY Holds DEF Meet, Clock, Before, ReadOf
  <1>2. Shapes
    BY DEF MigrationInv
  <1>3. /\ await[p] = {s \in Rank : Applies(job, "meet", 0, s, p)}
        /\ Channels(job, m, SentBy, Bumped(ReadBy, "meet", p))
        /\ DOMAIN m = Tag /\ "meet" \in Tag
    BY <1>1, Received DEF TagAt, Waits, ReadOf, Tag
  <1>4. await[p] = NearOf(job, p)
    BY <1>1, <1>3, NearIn DEF Applies
  <1>5. Learned(p) = k
    BY <1>1, MeetKnown
  <1>6. /\ job' = job /\ iter' = iter /\ network' = network /\ blocks' = blocks
        /\ phantoms' = phantoms /\ await' = await
        /\ known' = [known EXCEPT ![p] = k]
        /\ pc' = [pc EXCEPT ![p] = "reconstruct"]
    BY <1>5 DEF Meet, Goto
  <1>7. /\ pc'[p] = "reconstruct" /\ iter'[p] = 0 /\ Others(p) /\ OnlyMoves(p)
        /\ known'[p] = k
    BY <1>1, <1>2, <1>6 DEF Shapes, Others, OnlyMoves
  <1>8. ChannelsNext /\ DOMAIN mail' = Tag
    <2> DEFINE msg == [q \in NearOf(job, p) |-> k]
    <2>1. Tells(job, "meet", 1, p, msg)
      BY DEF Tells, Applies, Said
    <2>2. SentBy["meet"][p] = 1
      BY <1>1, <1>3 DEF SentBy, SentOf
    <2>3. mail' = Post(m, "meet", p, msg)
      BY <1>4, <1>7 DEF Meet
    <2>4. Bumped(ReadBy, "meet", p) \in Counts
      BY <1>1, BumpedCounts
    <2> HIDE DEF msg, m
    <2>5. /\ Channels(job, mail', Bumped(SentBy, "meet", p), Bumped(ReadBy, "meet", p))
          /\ DOMAIN mail' = Tag
      BY <1>1, <1>3, <2>1, <2>2, <2>3, <2>4, Posted
    <2>6. SentBy' = Bumped(SentBy, "meet", p)
      BY <1>1, <1>7, CountsMeet, SentBumped
    <2>7. ReadBy' = Bumped(ReadBy, "meet", p)
      BY <1>1, <1>7, CountsMeet, ReadBumped
    <2> QED
      BY <2>5, <2>6, <2>7 DEF ChannelsNext
  <1>9. ShapesNext
    BY <1>2, <1>6, <1>8 DEF Shapes, ShapesNext, Label
  <1>10. LocalNext(p)
    <2>1. Clock(job, "reconstruct", 0)
      BY DEF Clock, Before
    <2>2. blocks'[p] = BlocksOf(job, p, "reconstruct", 0)
      <3>1. blocks[p] = BlocksOf(job, p, "meet", 0)
        BY <1>1, Holds
      <3>2. \A b : ToOf(job, p, b, "reconstruct", 0) = ToOf(job, p, b, "meet", 0)
        BY DEF ToOf, LinkOf
      <3> QED
        BY <1>6, <3>1, <3>2 DEF BlocksOf, Updated, OldBlock
    <2>3. phantoms'[p] = PhantomsOf(job, p, "reconstruct", 0)
      <3>1. phantoms[p] = PhantomsOf(job, p, "meet", 0)
        BY <1>1, Holds
      <3> QED
        BY <1>6, <3>1 DEF PhantomsOf
    <2>4. known'[p] = KnownOf(job, p, "reconstruct")
      BY <1>7 DEF KnownOf
    <2>5. network'[p] = NetOf(job)[ReadOf("network", "reconstruct", 0)][p]
      BY <1>1, <1>6 DEF ReadOf, Before
    <2>6. await'[p] = SendersOf(job, p, "reconstruct", 0)
      BY <1>3, <1>6 DEF SendersOf, TagAt, Applies
    <2> QED
      BY <1>7, <2>1, <2>2, <2>3, <2>4, <2>5, <2>6 DEF LocalNext, Determined
  <1> QED
    BY <1>6, <1>7, <1>8, <1>9, <1>10, Assembled

-----------------------------------------------------------------------------
(* updateNeighborhood keeps the invariant. *)

LEMMA AroundNew ==
  ASSUME NEW j \in Jobs, NEW p, NEW n, NEW a,
         NEW ph, ph = [x \in OnOf(j, p, n) |-> PhantomOf(j, x, a, n)]
  PROVE  Around(p, ph) = AroundOf(j, p, n)
  <1>1. \A x \in OnOf(j, p, n) : Range2(ph[x].nbr) = {PlaceOf(j, y, n) : y \in NbOf(j, x)}
    BY DEF Range2, PhantomOf, NbrOf
  <1>2. DOMAIN ph = OnOf(j, p, n)
    OBVIOUS
  <1>3. {Range2(ph[x].nbr) : x \in DOMAIN ph}
          = {{PlaceOf(j, y, n) : y \in NbOf(j, x)} : x \in OnOf(j, p, n)}
    BY <1>1, <1>2
  <1> QED
    BY <1>3 DEF Around, AroundOf

LEMMA AroundIn ==
  ASSUME NEW j \in Jobs, NEW p \in Rank, NEW n \in 0..RoundsOf(j)
  PROVE  /\ AroundOf(j, p, n) \subseteq Rank
         /\ {s \in Rank : p \in AroundOf(j, s, n)} = AroundOf(j, p, n)
  <1>1. AroundOf(j, p, n) \subseteq Rank
    BY PlaceIn DEF AroundOf, NbOf
  <1> QED
    BY <1>1, AroundSymmetric

LEMMA NetSenders ==
  ASSUME NEW j \in Jobs, j.buffers, NEW p \in Rank, NEW n \in 0..RoundsOf(j)
  PROVE  SendersOf(j, p, "network", n) = NetOf(j)[n][p]
  <1>1. n \in 0..(RoundsOf(j) + 1) /\ RoundsOf(j) \in Nat
    BY JobIs
  <1>2. Mutual(NetOf(j)[n])
    BY <1>1, NetMutual
  <1>3. NetOf(j)[n] \in [Rank -> SUBSET Rank]
    BY NetIs
  <1>4. ReadOf("network", "network", n) = n
    BY DEF ReadOf, Before
  <1>5. SendersOf(j, p, "network", n) = {s \in Rank : p \in NetOf(j)[n][s]}
    BY <1>4 DEF SendersOf, TagAt, Applies
  <1> QED
    BY <1>2, <1>3, <1>5 DEF Mutual

(* What updateNeighborhood does to process p in round n *)
NetworkTold(p, n, S, R) ==
  /\ pc' = [pc EXCEPT ![p] = "network"]
  /\ network' = network
  /\ await' = [await EXCEPT ![p] = SendersOf(job, p, "network", n)]
  /\ Channels(job, mail', Bumped(S, "network", p), R) /\ DOMAIN mail' = Tag

NetworkMade(p, n, S, R) ==
  /\ pc' = [pc EXCEPT ![p] = "balance"]
  /\ network' = [network EXCEPT ![p] = NetOf(job)[n + 1][p]]
  /\ await' = await
  /\ Channels(job, mail', Bumped(S, "network", p), Bumped(R, "network", p)) /\ DOMAIN mail' = Tag

LEMMA UpdateIs ==
  ASSUME job \in Jobs, NEW p \in Rank, NEW n \in 0..RoundsOf(job), NEW m, DOMAIN m = Tag,
         network[p] = NetOf(job)[n][p],
         phantoms'[p] = [x \in OnOf(job, p, n) |-> PhantomOf(job, x, n, n)],
         NEW S \in Counts, NEW R \in Counts, Channels(job, m, S, R), S["network"][p] = n,
         UpdateNeighborhood(p, m)
  PROVE  \/ job.buffers /\ NetworkTold(p, n, S, R)
         \/ ~job.buffers /\ NetworkMade(p, n, S, R)
  <1>1. CASE job.buffers
    <2> DEFINE msg == [q \in network[p] |-> DOMAIN phantoms'[p] = {}]
    <2>1. /\ await' = [await EXCEPT ![p] = network[p]]
          /\ mail' = Post(m, "network", p, msg)
          /\ pc' = [pc EXCEPT ![p] = "network"] /\ network' = network
      BY <1>1 DEF UpdateNeighborhood, Await, Goto
    <2>2. DOMAIN phantoms'[p] = OnOf(job, p, n)
      OBVIOUS
    <2>3. Tells(job, "network", n, p, msg)
      BY <1>1, <2>2 DEF Tells, Applies, Said
    <2>4. "network" \in Tag
      BY DEF Tag
    <2> HIDE DEF msg
    <2>5. Channels(job, mail', Bumped(S, "network", p), R) /\ DOMAIN mail' = Tag
      BY <2>1, <2>3, <2>4, Posted
    <2>6. SendersOf(job, p, "network", n) = network[p]
      BY <1>1, NetSenders
    <2> QED
      BY <1>1, <2>1, <2>5, <2>6 DEF NetworkTold
  <1>2. CASE ~job.buffers
    <2>1. /\ network' = [network EXCEPT ![p] = Around(p, phantoms'[p])]
          /\ mail' = m /\ pc' = [pc EXCEPT ![p] = "balance"] /\ await' = await
      BY <1>2 DEF UpdateNeighborhood, Goto
    <2>2. Around(p, phantoms'[p]) = AroundOf(job, p, n)
      BY AroundNew
    <2>3. NetOf(job)[n + 1][p] = AroundOf(job, p, n)
      <3>1. NetOf(job)[n + 1] = NetStep(job, NetOf(job)[n], n)
        BY NetIs
      <3> QED
        BY <1>2, <3>1 DEF NetStep
    <2>4. \A k, s, d : ~Applies(job, "network", k, s, d)
      BY <1>2 DEF Applies
    <2>5. "network" \in Tag
      BY DEF Tag
    <2>6. Channels(job, m, Bumped(S, "network", p), Bumped(R, "network", p))
      BY <2>4, <2>5, SkipAll
    <2> QED
      BY <1>2, <2>1, <2>2, <2>3, <2>6 DEF NetworkMade
  <1> QED
    BY <1>1, <1>2

(* g is f but for process p. *)
OneChanges(f, g, p, v) == DOMAIN g = Rank /\ g[p] = v /\ \A q \in Rank : q # p => g[q] = f[q]

(* Phantoms are known to be on p in round n, and p tells its network, or makes it. *)
LEMMA RoundBegins ==
  ASSUME MigrationInv, NEW p \in Rank, NEW t \in Tag, NEW n \in 0..RoundsOf(job), job' = job,
         blocks' = blocks,
         blocks[p] = [b \in LeavesOn(job, p) |-> OldBlock(job, p, b, "network", n)],
         OneChanges(phantoms, phantoms', p, [x \in OnOf(job, p, n) |-> PhantomOf(job, x, n, n)]),
         OneChanges(known, known', p, <<>>),
         iter' = [iter EXCEPT ![p] = n], network[p] = NetOf(job)[n][p],
         SentOf("network", pc[p], iter[p]) = n,
         t # "network", DOMAIN Taken(t, p) = Tag,
         Channels(job, Taken(t, p), SentBy, Bumped(ReadBy, t, p)),
         ReadGrows(t, pc[p], iter[p], "network", n),
         SentGrows("network", pc[p], iter[p], "network", n),
         SentGrows("network", pc[p], iter[p], "balance", n),
         ReadGrowTwo(t, "network", pc[p], iter[p], "balance", n),
         UpdateNeighborhood(p, Taken(t, p))
  PROVE  MigrationInv'
  <1> DEFINE ps == [x \in OnOf(job, p, n) |-> PhantomOf(job, x, n, n)]
             S == SentBy
             R == Bumped(ReadBy, t, p)
             m == Taken(t, p)
  <1>1. job \in Jobs /\ S \in Counts /\ ReadBy \in Counts /\ "network" \in Tag
    BY Holds DEF Tag
  <1>2. R \in Counts
    BY <1>1, BumpedCounts
  <1>3. S["network"][p] = n
    BY <1>1 DEF SentBy
  <1>4. Shapes /\ RoundsOf(job) \in Nat
    BY <1>1, JobIs DEF MigrationInv
  <1>5. phantoms'[p] = ps
    BY DEF OneChanges
  <1> HIDE DEF S, R, m
  <1>6. \/ job.buffers /\ NetworkTold(p, n, S, R)
        \/ ~job.buffers /\ NetworkMade(p, n, S, R)
    <2> HIDE DEF ps
    <2>1. DOMAIN m = Tag /\ Channels(job, m, S, R) /\ UpdateNeighborhood(p, m)
      BY DEF S, R, m
    <2>2. phantoms'[p] = [x \in OnOf(job, p, n) |-> PhantomOf(job, x, n, n)]
      BY <1>5 DEF ps
    <2> QED
      BY <1>1, <1>2, <1>3, <2>1, <2>2, UpdateIs
  <1>7. iter'[p] = n /\ iter' \in [Rank -> 0..RoundsOf(job)]
    BY <1>4 DEF Shapes
  <1>8. \A l \in {"network", "balance"} :
          /\ blocks'[p] = BlocksOf(job, p, l, n)
          /\ phantoms'[p] = PhantomsOf(job, p, l, n)
          /\ known'[p] = KnownOf(job, p, l)
    <2> TAKE l \in {"network", "balance"}
    <2>1. blocks'[p] = BlocksOf(job, p, l, n)
      <3>1. \A b : ToOf(job, p, b, l, n) = ToOf(job, p, b, "network", n)
        BY DEF ToOf, LinkOf
      <3> QED
        BY <3>1 DEF BlocksOf, Updated, OldBlock
    <2>2. phantoms'[p] = PhantomsOf(job, p, l, n)
      BY <1>5 DEF PhantomsOf, ToRound, NbrRound
    <2>3. known'[p] = KnownOf(job, p, l)
      BY DEF KnownOf, OneChanges
    <2> QED
      BY <2>1, <2>2, <2>3
  <1>9. CASE job.buffers /\ NetworkTold(p, n, S, R)
    <2>1. /\ pc' = [pc EXCEPT ![p] = "network"] /\ network' = network
          /\ await' = [await EXCEPT ![p] = SendersOf(job, p, "network", n)]
          /\ Channels(job, mail', Bumped(S, "network", p), R) /\ DOMAIN mail' = Tag
      BY <1>9 DEF NetworkTold
    <2>2. pc'[p] = "network" /\ Others(p) /\ OnlyMoves(p)
      BY <1>4, <2>1 DEF Shapes, Others, OnlyMoves, OneChanges
    <2>3. ChannelsNext
      <3>1. SentBy' = Bumped(S, "network", p)
        BY <1>7, <2>2, SentBumped DEF S
      <3>2. ReadBy' = R
        BY <1>7, <2>2, ReadBumped DEF R
      <3> QED
        BY <2>1, <3>1, <3>2 DEF ChannelsNext
    <2>4. ShapesNext
      <3>1. SendersOf(job, p, "network", n) \subseteq Rank
        BY DEF SendersOf
      <3>2. pc' \in [Rank -> Label] /\ await' \in [Rank -> SUBSET Rank]
        BY <1>4, <2>1, <3>1 DEF Shapes, Label
      <3>3. DOMAIN phantoms' = Rank /\ DOMAIN known' = Rank
        BY DEF OneChanges
      <3> QED
        BY <1>4, <1>7, <2>1, <3>2, <3>3 DEF Shapes, ShapesNext
    <2>5. LocalNext(p)
      <3>1. Clock(job, "network", n)
        BY <1>9 DEF Clock, Before
      <3>2. network'[p] = NetOf(job)[ReadOf("network", "network", n)][p]
        BY <2>1 DEF ReadOf, Before
      <3>3. await'[p] = SendersOf(job, p, "network", n)
        BY <1>4, <2>1 DEF Shapes
      <3> QED
        BY <1>7, <1>8, <2>2, <3>1, <3>2, <3>3 DEF LocalNext, Determined
    <2> QED
      BY <2>2, <2>3, <2>4, <2>5, Assembled
  <1>10. CASE ~job.buffers /\ NetworkMade(p, n, S, R)
    <2>1. /\ pc' = [pc EXCEPT ![p] = "balance"] /\ await' = await
          /\ network' = [network EXCEPT ![p] = NetOf(job)[n + 1][p]]
          /\ Channels(job, mail', Bumped(S, "network", p), Bumped(R, "network", p))
          /\ DOMAIN mail' = Tag
      BY <1>10 DEF NetworkMade
    <2>2. pc'[p] = "balance" /\ Others(p) /\ OnlyMoves(p)
      BY <1>4, <2>1 DEF Shapes, Others, OnlyMoves, OneChanges
    <2>3. ChannelsNext
      <3>1. SentBy' = Bumped(S, "network", p)
        BY <1>7, <2>2, SentBumped DEF S
      <3>2. ReadBy' = Bumped(R, "network", p)
        BY <1>7, <2>2, ReadBumpedTwice DEF R
      <3> QED
        BY <2>1, <3>1, <3>2 DEF ChannelsNext
    <2>4. ShapesNext
      <3>1. NetOf(job)[n + 1] \in [Rank -> SUBSET Rank]
        BY <1>1, NetIs
      <3>2. pc' \in [Rank -> Label] /\ network' \in [Rank -> SUBSET Rank]
        BY <1>4, <2>1, <3>1 DEF Shapes, Label
      <3>3. DOMAIN phantoms' = Rank /\ DOMAIN known' = Rank
        BY DEF OneChanges
      <3> QED
        BY <1>4, <1>7, <2>1, <3>2, <3>3 DEF Shapes, ShapesNext
    <2>5. LocalNext(p)
      <3>1. Clock(job, "balance", n) /\ "balance" \notin Waits
        BY DEF Clock, Before, Waits
      <3>2. network'[p] = NetOf(job)[ReadOf("network", "balance", n)][p]
        BY <1>4, <2>1 DEF Shapes, ReadOf, Before
      <3> QED
        BY <1>7, <1>8, <2>2, <3>1, <3>2 DEF LocalNext, Determined
    <2> QED
      BY <2>2, <2>3, <2>4, <2>5, Assembled
  <1> QED
    BY <1>6, <1>9, <1>10

LEMMA ReconstructKeeps ==
  ASSUME MigrationInv, NEW p \in Rank, Reconstruct(p)
  PROVE  MigrationInv'
  <1> DEFINE ps == [x \in OnOf(job, p, 0) |-> PhantomOf(job, x, 0, 0)]
             k == KnownBy(job, TwoHopsOf(job, p))
  <1>1. /\ pc[p] = "reconstruct" /\ job \in Jobs /\ iter[p] = 0 /\ Arrived("meet", p)
        /\ network[p] = NetOf(job)[0][p] /\ phantoms[p] = PhantomsOf(job, p, "reconstruct", 0)
    BY Holds DEF Reconstruct, Clock, Before, ReadOf
  <1>2. Shapes /\ RoundsOf(job) \in Nat /\ 0 \in 0..RoundsOf(job)
    BY <1>1, JobIs DEF MigrationInv
  <1>3. /\ Channels(job, Taken("meet", p), SentBy, Bumped(ReadBy, "meet", p))
        /\ DOMAIN Taken("meet", p) = Tag /\ "meet" \in Tag
    BY <1>1, Received DEF TagAt, Waits
  <1>4. Learned(p) = k
    BY <1>1, MeetKnown
  <1>5. \A x \in OnOf(job, p, 0) : Reconstructed(x, k) = NbrOf(job, x, 0)
    <2> TAKE x \in OnOf(job, p, 0)
    <2>1. PlaceOf(job, x, 0) = p
      BY DEF OnOf
    <2>2. DOMAIN k \cap Touch[x] = NbOf(job, x)
      BY <2>1 DEF KnownBy, NbOf
    <2>3. \A y \in NbOf(job, x) : k[y] = PlaceOf(job, y, 0)
      BY <2>1 DEF KnownBy, NbOf
    <2> HIDE DEF k
    <2> QED
      BY <2>2, <2>3 DEF Reconstructed, NbrOf
  <1>6. phantoms[p] = [x \in OnOf(job, p, 0) |-> [from |-> FromOf(job, x), to |-> p, nbr |-> <<>>]]
    BY <1>1 DEF PhantomsOf
  <1>7. [x \in DOMAIN phantoms[p] |-> [phantoms[p][x] EXCEPT !.nbr = Reconstructed(x, k)]] = ps
    <2> HIDE DEF k
    <2>1. \A x \in OnOf(job, p, 0) :
            [phantoms[p][x] EXCEPT !.nbr = Reconstructed(x, k)] = PhantomOf(job, x, 0, 0)
      <3> TAKE x \in OnOf(job, p, 0)
      <3>1. PlaceOf(job, x, 0) = p
        BY DEF OnOf
      <3>2. phantoms[p][x] = [from |-> FromOf(job, x), to |-> p, nbr |-> <<>>]
        BY <1>6
      <3> DEFINE r == Reconstructed(x, k)
                 f == FromOf(job, x)
      <3>3. r = NbrOf(job, x, 0)
        BY <1>5
      <3> HIDE DEF r, f
      <3>4. [[from |-> f, to |-> p, nbr |-> <<>>] EXCEPT !.nbr = r] = [from |-> f, to |-> p, nbr |-> r]
        OBVIOUS
      <3> QED
        BY <3>1, <3>2, <3>3, <3>4 DEF PhantomOf, r, f
    <2>2. DOMAIN phantoms[p] = OnOf(job, p, 0)
      BY <1>6
    <2> QED
      BY <2>1, <2>2
  <1>8. /\ job' = job /\ iter' = iter /\ blocks' = blocks
        /\ phantoms' = [phantoms EXCEPT ![p] = ps]
        /\ known' = [known EXCEPT ![p] = <<>>]
        /\ UpdateNeighborhood(p, Taken("meet", p))
    <2> HIDE DEF ps, k
    <2> QED
      BY <1>4, <1>7 DEF Reconstruct
  <1>9. iter' = [iter EXCEPT ![p] = 0]
    BY <1>1, <1>2, <1>8 DEF Shapes
  <1>10. OneChanges(phantoms, phantoms', p, ps) /\ OneChanges(known, known', p, <<>>)
    BY <1>2, <1>8 DEF Shapes, OneChanges
  <1>11. blocks[p] = [b \in LeavesOn(job, p) |-> OldBlock(job, p, b, "network", 0)]
    <2>1. blocks[p] = [b \in LeavesOn(job, p) |-> OldBlock(job, p, b, "reconstruct", 0)]
      BY <1>1, OldHeld
    <2>2. \A b : ToOf(job, p, b, "reconstruct", 0) = ToOf(job, p, b, "network", 0)
      BY DEF ToOf, LinkOf
    <2> QED
      BY <2>1, <2>2 DEF OldBlock
  <1>12. SentOf("network", pc[p], iter[p]) = 0
    BY <1>1 DEF SentOf, Before
  <1> QED
    BY <1>1, <1>2, <1>3, <1>8, <1>9, <1>10, <1>11, <1>12, CountsReconstruct, RoundBegins

LEMMA NetworkKeeps ==
  ASSUME MigrationInv, NEW p \in Rank, Network(p)
  PROVE  MigrationInv'
  <1> DEFINE n == iter[p]
  <1>1. /\ pc[p] = "network" /\ job \in Jobs /\ n \in 0..RoundsOf(job) /\ n \in Nat
        /\ job.buffers /\ Arrived("network", p) /\ network[p] = NetOf(job)[n][p]
        /\ blocks[p] = BlocksOf(job, p, "network", n)
        /\ phantoms[p] = PhantomsOf(job, p, "network", n)
        /\ await[p] = SendersOf(job, p, "network", n)
        /\ known[p] = KnownOf(job, p, "network")
    BY Holds DEF Network, Clock, ReadOf, Waits, Before
  <1>2. Shapes
    BY DEF MigrationInv
  <1>3. /\ Channels(job, Taken("network", p), SentBy, Bumped(ReadBy, "network", p))
        /\ DOMAIN Taken("network", p) = Tag
        /\ \A q \in await[p] : Msg("network", q, p) = Said(job, "network", n, q, p)
    BY <1>1, Received DEF TagAt, Waits, ReadOf, Before
  <1>4. await[p] = network[p]
    BY <1>1, NetSenders
  <1>5. phantoms[p] = [x \in OnOf(job, p, n) |-> PhantomOf(job, x, n, n)]
    BY <1>1 DEF PhantomsOf, ToRound, NbrRound
  <1> HIDE DEF n
  <1>6. Kept(p) \cup Around(p, phantoms[p]) = NetOf(job)[n + 1][p]
    <2>1. Around(p, phantoms[p]) = AroundOf(job, p, n)
      BY <1>1, <1>5, AroundNew
    <2>2. \A q \in await[p] : Msg("network", q, p) <=> OnOf(job, q, n) = {}
      BY <1>3 DEF Said
    <2>3. Kept(p) = {q \in network[p] : OnOf(job, q, n) = {}}
                      \cup (IF OnOf(job, p, n) = {} THEN network[p] ELSE {})
      <3>1. DOMAIN phantoms[p] = OnOf(job, p, n)
        BY <1>5
      <3> QED
        BY <1>4, <2>2, <3>1 DEF Kept
    <2>4. NetOf(job)[n + 1] = NetStep(job, NetOf(job)[n], n)
      BY <1>1, NetIs
    <2>5. NetOf(job)[n + 1][p] = {q \in network[p] : OnOf(job, q, n) = {}}
            \cup (IF OnOf(job, p, n) = {} THEN network[p] ELSE {}) \cup AroundOf(job, p, n)
      BY <1>1, <2>4 DEF NetStep
    <2> QED
      BY <2>1, <2>3, <2>5
  <1>7. /\ job' = job /\ iter' = iter /\ blocks' = blocks /\ phantoms' = phantoms
        /\ known' = known /\ await' = await /\ mail' = Taken("network", p)
        /\ network' = [network EXCEPT ![p] = NetOf(job)[n + 1][p]]
        /\ pc' = [pc EXCEPT ![p] = "balance"]
    BY <1>6 DEF Network, Goto
  <1>8. pc'[p] = "balance" /\ iter'[p] = n /\ Others(p) /\ OnlyMoves(p)
    BY <1>2, <1>7 DEF Shapes, Others, OnlyMoves, n
  <1>9. ChannelsNext
    <2>1. SentBy' = SentBy
      BY <1>1, <1>8, CountsNetwork, SentSame DEF n
    <2>2. ReadBy' = Bumped(ReadBy, "network", p)
      BY <1>1, <1>8, CountsNetwork, ReadBumped DEF n
    <2> QED
      BY <1>3, <1>7, <2>1, <2>2 DEF ChannelsNext
  <1>10. ShapesNext
    <2>1. NetOf(job)[n + 1] \in [Rank -> SUBSET Rank]
      BY <1>1, NetIs
    <2> QED
      BY <1>2, <1>3, <1>7, <2>1 DEF Shapes, ShapesNext, Label
  <1>11. LocalNext(p)
    <2>1. Clock(job, "balance", n) /\ "balance" \notin Waits
      BY DEF Clock, Before, Waits
    <2>2. blocks'[p] = BlocksOf(job, p, "balance", n)
      <3>1. \A b : ToOf(job, p, b, "network", n) = ToOf(job, p, b, "balance", n)
        BY DEF ToOf, LinkOf
      <3> QED
        BY <1>1, <1>7, <3>1 DEF BlocksOf, Updated, OldBlock
    <2>3. phantoms'[p] = PhantomsOf(job, p, "balance", n)
      BY <1>5, <1>7 DEF PhantomsOf, ToRound, NbrRound
    <2>4. known'[p] = KnownOf(job, p, "balance")
      BY <1>1, <1>7 DEF KnownOf
    <2>5. network'[p] = NetOf(job)[ReadOf("network", "balance", n)][p]
      BY <1>2, <1>7 DEF Shapes, ReadOf, Before
    <2> QED
      BY <1>8, <2>1, <2>2, <2>3, <2>4, <2>5 DEF LocalNext, Determined
  <1> QED
    BY <1>7, <1>8, <1>9, <1>10, <1>11, Assembled

-----------------------------------------------------------------------------
(* A round of load balancing keeps the invariant. *)

LEMMA PhantomTo ==
  ASSUME NEW j, NEW x, NEW a, NEW b, NEW c
  PROVE  [PhantomOf(j, x, a, b) EXCEPT !.to = PlaceOf(j, x, c)] = PhantomOf(j, x, c, b)
  <1> DEFINE f == FromOf(j, x)
             r == NbrOf(j, x, b)
             v == PlaceOf(j, x, a)
             w == PlaceOf(j, x, c)
  <1> HIDE DEF f, r, v, w
  <1>1. [[from |-> f, to |-> v, nbr |-> r] EXCEPT !.to = w] = [from |-> f, to |-> w, nbr |-> r]
    OBVIOUS
  <1> QED
    BY <1>1 DEF PhantomOf, f, r, v, w

LEMMA PhantomNbr ==
  ASSUME NEW j, NEW x, NEW a, NEW b, NEW c
  PROVE  [PhantomOf(j, x, a, b) EXCEPT !.nbr = NbrOf(j, x, c)] = PhantomOf(j, x, a, c)
  <1> DEFINE f == FromOf(j, x)
             r == NbrOf(j, x, b)
             s == NbrOf(j, x, c)
             v == PlaceOf(j, x, a)
  <1> HIDE DEF f, r, s, v
  <1>1. [[from |-> f, to |-> v, nbr |-> r] EXCEPT !.nbr = s] = [from |-> f, to |-> v, nbr |-> s]
    OBVIOUS
  <1> QED
    BY <1>1 DEF PhantomOf, f, r, s, v

LEMMA BalanceKeeps ==
  ASSUME MigrationInv, NEW p \in Rank, Balance(p)
  PROVE  MigrationInv'
  <1> DEFINE n == iter[p]
             ps == [x \in OnOf(job, p, n) |-> PhantomOf(job, x, n + 1, n)]
  <1>1. /\ pc[p] = "balance" /\ job \in Jobs /\ n \in 0..RoundsOf(job) /\ n \in Nat
        /\ network[p] = NetOf(job)[n + 1][p]
        /\ blocks[p] = BlocksOf(job, p, "balance", n)
        /\ phantoms[p] = PhantomsOf(job, p, "balance", n)
        /\ known[p] = KnownOf(job, p, "balance")
        /\ SentBy \in Counts /\ ReadBy \in Counts
        /\ Channels(job, mail, SentBy, ReadBy) /\ DOMAIN mail = Tag
    BY Holds DEF Balance, ReadOf, Before
  <1>2. Shapes
    BY DEF MigrationInv
  <1>3. n < RoundsOf(job)
    BY Static DEF Balance
  <1>4. phantoms[p] = [x \in OnOf(job, p, n) |-> PhantomOf(job, x, n, n)]
    BY <1>1 DEF PhantomsOf, ToRound, NbrRound
  <1>5. Around(p, phantoms[p]) = AroundOf(job, p, n)
    BY <1>1, <1>4, AroundNew
  <1>6. \A x : job.rounds[n + 1][x] = PlaceOf(job, x, n + 1)
    <2>1. n + 1 # 0
      BY <1>1
    <2> QED
      BY <2>1 DEF PlaceOf
  <1>7. [x \in DOMAIN phantoms[p] |-> [phantoms[p][x] EXCEPT !.to = job.rounds[n + 1][x]]] = ps
    BY <1>4, <1>6, PhantomTo
  <1>8. /\ job' = job /\ iter' = iter /\ blocks' = blocks /\ network' = network /\ known' = known
        /\ phantoms' = [phantoms EXCEPT ![p] = ps]
        /\ await' = [await EXCEPT ![p] = AroundOf(job, p, n)]
        /\ pc' = [pc EXCEPT ![p] = "moves"]
    <2> HIDE DEF ps
    <2> QED
      BY <1>5, <1>7 DEF Balance, Await, Goto
  <1>9. /\ pc'[p] = "moves" /\ iter'[p] = n /\ Others(p) /\ OnlyMoves(p)
        /\ phantoms'[p] = ps
    BY <1>2, <1>8 DEF Shapes, Others, OnlyMoves
  <1>10. AroundOf(job, p, n) \subseteq Rank
         /\ AroundOf(job, p, n) = {s \in Rank : p \in AroundOf(job, s, n)}
    BY <1>1, AroundIn
  <1> HIDE DEF n
  <1>11. ChannelsNext /\ DOMAIN mail' = Tag
    <2> DEFINE said == [x \in OnOf(job, p, n) |-> PlaceOf(job, x, n + 1)]
               msg == [q \in AroundOf(job, p, n) |-> said]
    <2>1. Tells(job, "moves", n, p, msg)
      BY DEF Tells, Applies, Said
    <2>2. SentBy["moves"][p] = n /\ "moves" \in Tag
      BY <1>1 DEF SentBy, SentOf, Tag, n
    <2>3. [x \in DOMAIN phantoms[p] |-> phantoms'[p][x].to] = said
      <3>1. DOMAIN phantoms[p] = OnOf(job, p, n)
        BY <1>4
      <3>2. \A x \in OnOf(job, p, n) : phantoms'[p][x].to = PlaceOf(job, x, n + 1)
        BY <1>9 DEF PhantomOf
      <3> QED
        BY <3>1, <3>2
    <2> HIDE DEF said
    <2>4. mail' = Post(mail, "moves", p, msg)
      BY <1>5, <2>3 DEF Balance, n
    <2> HIDE DEF msg
    <2>5. Channels(job, mail', Bumped(SentBy, "moves", p), ReadBy) /\ DOMAIN mail' = Tag
      BY <1>1, <2>1, <2>2, <2>4, Posted
    <2>6. SentBy' = Bumped(SentBy, "moves", p)
      BY <1>1, <1>9, CountsBalance, SentBumped DEF n
    <2>7. ReadBy' = ReadBy
      BY <1>1, <1>9, CountsBalance, ReadSame DEF n
    <2> QED
      BY <2>5, <2>6, <2>7 DEF ChannelsNext
  <1>12. ShapesNext
    BY <1>2, <1>8, <1>10, <1>11 DEF Shapes, ShapesNext, Label
  <1>13. LocalNext(p)
    <2>1. Clock(job, "moves", n)
      BY <1>3 DEF Clock, Before
    <2>2. blocks'[p] = BlocksOf(job, p, "moves", n)
      <3>1. \A b : ToOf(job, p, b, "balance", n) = ToOf(job, p, b, "moves", n)
        BY DEF ToOf, LinkOf
      <3> QED
        BY <1>1, <1>8, <3>1 DEF BlocksOf, Updated, OldBlock
    <2>3. phantoms'[p] = PhantomsOf(job, p, "moves", n)
      BY <1>9 DEF PhantomsOf, ToRound, NbrRound
    <2>4. known'[p] = KnownOf(job, p, "moves")
      BY <1>1, <1>8 DEF KnownOf
    <2>5. network'[p] = NetOf(job)[ReadOf("network", "moves", n)][p]
      BY <1>1, <1>8 DEF ReadOf, Before
    <2>6. await'[p] = SendersOf(job, p, "moves", n)
      BY <1>2, <1>8, <1>10 DEF Shapes, SendersOf, TagAt, Applies, ReadOf
    <2> QED
      BY <1>9, <2>1, <2>2, <2>3, <2>4, <2>5, <2>6 DEF LocalNext, Determined
  <1> QED
    BY <1>8, <1>9, <1>11, <1>12, <1>13, Assembled

LEMMA LinksAre ==
  ASSUME NEW p \in Rank, NEW s, NEW n, NEW m,
         phantoms[p] = [x \in OnOf(job, p, n) |-> PhantomOf(job, x, n + 1, m)]
  PROVE  LinksTo(p, s) = LinksOf(job, n, p, s)
  <1> DEFINE A(x) == {<<Sources(x)[i],
                        IF Len(Sources(x)) = 1 /\ ~SameSize(x) THEN Branch[x] ELSE 1,
                        phantoms[p][x].to>> :
                      i \in {k \in DOMAIN phantoms[p][x].from : phantoms[p][x].from[k] = s}}
             B(x) == {<<SourcesOf(job, x)[i], IndexOf(job, x), PlaceOf(job, x, n + 1)>> :
                      i \in {k \in DOMAIN FromOf(job, x) : FromOf(job, x)[k] = s}}
  <1>1. \A x : Sources(x) = SourcesOf(job, x) /\ (SameSize(x) <=> x \in LeavesOf(job))
    BY Static
  <1>2. ASSUME NEW x \in OnOf(job, p, n)
        PROVE  A(x) = B(x)
    <2>1. phantoms[p][x].from = FromOf(job, x) /\ phantoms[p][x].to = PlaceOf(job, x, n + 1)
      BY DEF PhantomOf
    <2>2. (IF Len(Sources(x)) = 1 /\ ~SameSize(x) THEN Branch[x] ELSE 1) = IndexOf(job, x)
      BY <1>1 DEF IndexOf
    <2> QED
      BY <1>1, <2>1, <2>2
  <1>3. DOMAIN phantoms[p] = OnOf(job, p, n)
    OBVIOUS
  <1>4. LinksTo(p, s) = UNION {A(x) : x \in DOMAIN phantoms[p]}
    BY DEF LinksTo
  <1>5. LinksOf(job, n, p, s) = UNION {B(x) : x \in OnOf(job, p, n)}
    BY DEF LinksOf
  <1> HIDE DEF A, B
  <1> QED
    BY <1>2, <1>3, <1>4, <1>5

(* A link of a block is that of the one phantom it leads to. *)
LEMMA LinkFrom ==
  ASSUME NEW j \in Jobs, NEW n, NEW q, NEW p, NEW l \in LinksOf(j, n, q, p),
         NEW b, NEW i, l[1] = b, l[2] = i
  PROVE  PlaceOf(j, TargetsOf(j, b)[i], n) = q /\ l[3] = PlaceOf(j, TargetsOf(j, b)[i], n + 1)
  <1>1. PICK x \in OnOf(j, q, n) : \E k \in DOMAIN FromOf(j, x) :
          l = <<SourcesOf(j, x)[k], IndexOf(j, x), PlaceOf(j, x, n + 1)>>
    BY DEF LinksOf
  <1>2. PICK k \in DOMAIN FromOf(j, x) :
          l = <<SourcesOf(j, x)[k], IndexOf(j, x), PlaceOf(j, x, n + 1)>>
    BY <1>1
  <1>3. x \in NewOf(j) /\ PlaceOf(j, x, n) = q /\ k \in DOMAIN SourcesOf(j, x)
    BY DEF OnOf, FromOf
  <1>4. b = SourcesOf(j, x)[k] /\ i = IndexOf(j, x) /\ l[3] = PlaceOf(j, x, n + 1)
    BY <1>2
  <1>5. TargetsOf(j, b)[i] = x
    BY <1>3, <1>4, SourcesBack
  <1> QED
    BY <1>3, <1>4, <1>5

LEMMA LinkThere ==
  ASSUME NEW j \in Jobs, NEW n, NEW p, NEW b \in LeavesOn(j, p), NEW i \in DOMAIN TargetsOf(j, b)
  PROVE  \E l \in LinksOf(j, n, PlaceOf(j, TargetsOf(j, b)[i], n), p) : l[1] = b /\ l[2] = i
  <1> DEFINE x == TargetsOf(j, b)[i]
             q == PlaceOf(j, x, n)
  <1>1. b \in LeavesOf(j) /\ j.place[b] = p
    BY DEF LeavesOn
  <1>2. x \in OnOf(j, q, n) /\ IndexOf(j, x) = i
    BY <1>1, TargetsBack DEF OnOf
  <1>3. PICK k \in DOMAIN SourcesOf(j, x) : SourcesOf(j, x)[k] = b
    BY <1>1, TargetsBack
  <1>4. k \in DOMAIN FromOf(j, x) /\ FromOf(j, x)[k] = p
    BY <1>1, <1>3 DEF FromOf
  <1> HIDE DEF x, q
  <1> DEFINE l == <<SourcesOf(j, x)[k], IndexOf(j, x), PlaceOf(j, x, n + 1)>>
  <1>5. l \in LinksOf(j, n, q, p)
    BY <1>2, <1>4 DEF LinksOf
  <1>6. l[1] = b /\ l[2] = i
    BY <1>2, <1>3
  <1> HIDE DEF l
  <1> QED
    BY <1>5, <1>6 DEF q, x

(* Links of processes Q take the blocks of p from l to l2. *)
Takes(j, p, n, Q, l, l2) ==
  /\ l # "create" /\ l2 # "create"
  /\ \A b \in LeavesOn(j, p) : \A i \in DOMAIN TargetsOf(j, b) :
       LinkOf(j, p, TargetsOf(j, b)[i], l2, n) =
         IF PlaceOf(j, TargetsOf(j, b)[i], n) \in Q THEN PlaceOf(j, TargetsOf(j, b)[i], n + 1)
         ELSE LinkOf(j, p, TargetsOf(j, b)[i], l, n)

LEMMA RelinkedIs ==
  ASSUME NEW j \in Jobs, NEW p \in Rank, NEW n, NEW l, NEW l2, NEW Q, Takes(j, p, n, Q, l, l2),
         NEW bs, bs = [b \in LeavesOn(j, p) |-> OldBlock(j, p, b, l, n)],
         NEW L, L = UNION {LinksOf(j, n, q, p) : q \in Q}
  PROVE  Relinked(bs, L) = [b \in LeavesOn(j, p) |-> OldBlock(j, p, b, l2, n)]
  <1> DEFINE Linked(b, i) == \E k \in L : k[1] = b /\ k[2] = i
             New(b, i) == (CHOOSE k \in L : k[1] = b /\ k[2] = i)[3]
             To(b) == [i \in DOMAIN bs[b].to |-> IF Linked(b, i) THEN New(b, i) ELSE bs[b].to[i]]
  <1>1. ASSUME NEW b \in LeavesOn(j, p)
        PROVE  To(b) = ToOf(j, p, b, l2, n)
    <2>1. bs[b].to = ToOf(j, p, b, l, n)
      BY DEF OldBlock
    <2>2. /\ ToOf(j, p, b, l, n) =
               [i \in DOMAIN TargetsOf(j, b) |-> LinkOf(j, p, TargetsOf(j, b)[i], l, n)]
          /\ ToOf(j, p, b, l2, n) =
               [i \in DOMAIN TargetsOf(j, b) |-> LinkOf(j, p, TargetsOf(j, b)[i], l2, n)]
      BY DEF ToOf, Takes
    <2>3. ASSUME NEW i \in DOMAIN TargetsOf(j, b)
          PROVE  (IF Linked(b, i) THEN New(b, i) ELSE LinkOf(j, p, TargetsOf(j, b)[i], l, n))
                   = LinkOf(j, p, TargetsOf(j, b)[i], l2, n)
      <3> DEFINE x == TargetsOf(j, b)[i]
      <3>1. \A k \in L : k[1] = b /\ k[2] = i =>
              PlaceOf(j, x, n) \in Q /\ k[3] = PlaceOf(j, x, n + 1)
        <4> TAKE k \in L
        <4> HAVE k[1] = b /\ k[2] = i
        <4>1. PICK q \in Q : k \in LinksOf(j, n, q, p)
          OBVIOUS
        <4>2. PlaceOf(j, x, n) = q /\ k[3] = PlaceOf(j, x, n + 1)
          BY <4>1, LinkFrom
        <4> QED
          BY <4>2
      <3>2. PlaceOf(j, x, n) \in Q => Linked(b, i)
        <4> HAVE PlaceOf(j, x, n) \in Q
        <4>1. \E k \in LinksOf(j, n, PlaceOf(j, x, n), p) : k[1] = b /\ k[2] = i
          BY LinkThere
        <4> QED
          BY <4>1
      <3>3. Linked(b, i) => New(b, i) = PlaceOf(j, x, n + 1) /\ PlaceOf(j, x, n) \in Q
        BY <3>1
      <3>4. LinkOf(j, p, x, l2, n) = IF PlaceOf(j, x, n) \in Q THEN PlaceOf(j, x, n + 1)
                                     ELSE LinkOf(j, p, x, l, n)
        BY DEF Takes
      <3> HIDE DEF x, Linked, New
      <3> QED
        BY <3>2, <3>3, <3>4 DEF x
    <2> HIDE DEF Linked, New
    <2> QED
      BY <2>1, <2>2, <2>3
  <1>2. Relinked(bs, L) = [b \in DOMAIN bs |-> [bs[b] EXCEPT !.to = To(b)]]
    BY DEF Relinked
  <1>3. \A b \in LeavesOn(j, p) : [bs[b] EXCEPT !.to = To(b)] = OldBlock(j, p, b, l2, n)
    <2> HIDE DEF To
    <2> QED
      BY <1>1, OldRelinked
  <1>4. DOMAIN bs = LeavesOn(j, p)
    OBVIOUS
  <1> HIDE DEF To
  <1> QED
    BY <1>2, <1>3, <1>4

(* The links of the blocks B are those of round n. *)
Pointing(j, n, B, bs) ==
  /\ DOMAIN bs = B
  /\ \A b \in B : bs[b].to = [i \in DOMAIN TargetsOf(j, b) |-> PlaceOf(j, TargetsOf(j, b)[i], n)]

(* The processes the links of some blocks point to *)
LEMMA TargetsHeld ==
  ASSUME NEW j \in Jobs, NEW p, NEW n, NEW B,
         NEW bs, Pointing(j, n, B, bs)
  PROVE  \A s : s \in BlockTargets(p, bs) <=> s # p /\ \E b \in B : Leads(j, b, n, s)
  <1> TAKE s
  <1>1. s \in BlockTargets(p, bs) <=> s # p /\ \E b \in B : s \in ToSet(bs[b].to)
    BY DEF BlockTargets, Pointing
  <1>2. \A b \in B : s \in ToSet(bs[b].to) <=> Leads(j, b, n, s)
    <2> TAKE b \in B
    <2> DEFINE w == bs[b].to
               W == DOMAIN TargetsOf(j, b)
    <2>1. w = [i \in W |-> PlaceOf(j, TargetsOf(j, b)[i], n)]
      BY DEF Pointing
    <2> HIDE DEF w, W
    <2>2. ToSet(w) = {PlaceOf(j, TargetsOf(j, b)[i], n) : i \in W}
      BY <2>1 DEF ToSet
    <2> QED
      BY <2>2 DEF Leads, w, W
  <1> QED
    BY <1>1, <1>2

LEMMA LeadsIn ==
  ASSUME NEW j \in Jobs, NEW n \in 0..RoundsOf(j), NEW b \in LeavesOf(j), NEW s, Leads(j, b, n, s)
  PROVE  s \in Rank
  BY TargetsBack, PlaceIn DEF Leads

LEMMA LinkKeeps ==
  ASSUME MigrationInv, NEW p \in Rank, Link(p)
  PROVE  MigrationInv'
  <1> DEFINE n == iter[p]
             ps == [x \in OnOf(job, p, n) |-> PhantomOf(job, x, n + 1, n + 1)]
             bs == [b \in LeavesOn(job, p) |-> OldBlock(job, p, b, "links", n)]
  <1>1. /\ pc[p] = "moves" /\ job \in Jobs /\ n \in 0..RoundsOf(job) /\ n \in Nat
        /\ n < RoundsOf(job) /\ Arrived("moves", p)
        /\ network[p] = NetOf(job)[n + 1][p]
        /\ phantoms[p] = PhantomsOf(job, p, "moves", n)
        /\ known[p] = KnownOf(job, p, "moves")
        /\ SentBy \in Counts /\ ReadBy \in Counts
    BY Holds DEF Link, ReadOf, Before, Clock
  <1>2. Shapes
    BY DEF MigrationInv
  <1>3. blocks[p] = [b \in LeavesOn(job, p) |-> OldBlock(job, p, b, "moves", n)]
    BY <1>1, OldHeld
  <1>4. phantoms[p] = [x \in OnOf(job, p, n) |-> PhantomOf(job, x, n + 1, n)]
    BY <1>1 DEF PhantomsOf, ToRound, NbrRound
  <1>5. /\ await[p] = {s \in Rank : Applies(job, "moves", n, s, p)}
        /\ \A q \in await[p] : Msg("moves", q, p) = Said(job, "moves", n, q, p)
        /\ Channels(job, Taken("moves", p), SentBy, Bumped(ReadBy, "moves", p))
        /\ DOMAIN Taken("moves", p) = Tag
    BY <1>1, Received DEF TagAt, Waits, ReadOf
  <1>6. await[p] = AroundOf(job, p, n)
    BY <1>1, <1>5, AroundIn DEF Applies
  <1>7. \A s : LinksTo(p, s) = LinksOf(job, n, p, s)
    BY <1>4, LinksAre
  <1>8. \A x \in OnOf(job, p, n) : \A y \in NbOf(job, x) : Going(p, x, y) = PlaceOf(job, y, n + 1)
    <2> TAKE x \in OnOf(job, p, n)
    <2> TAKE y \in NbOf(job, x)
    <2> DEFINE q == PlaceOf(job, y, n)
    <2>1. phantoms[p][x].nbr[y] = q
      BY <1>4 DEF PhantomOf, NbrOf
    <2>2. y \in NewOf(job) /\ y \in OnOf(job, q, n)
      BY DEF NbOf, OnOf
    <2>3. CASE q = p
      <3>1. phantoms[p][y].to = PlaceOf(job, y, n + 1)
        BY <1>4, <2>2, <2>3 DEF PhantomOf
      <3> QED
        BY <2>1, <2>3, <3>1 DEF Going
    <2>4. CASE q # p
      <3>1. q \in await[p]
        BY <1>6, <2>4 DEF AroundOf
      <3>2. Msg("moves", q, p)[y] = PlaceOf(job, y, n + 1)
        BY <1>5, <2>2, <3>1 DEF Said
      <3> QED
        BY <2>1, <2>4, <3>2 DEF Going
    <2> QED
      BY <2>3, <2>4
  <1>9. [x \in DOMAIN phantoms[p] |->
           [phantoms[p][x] EXCEPT !.nbr =
              [y \in DOMAIN phantoms[p][x].nbr |-> Going(p, x, y)]]] = ps
    <2>1. ASSUME NEW x \in OnOf(job, p, n)
          PROVE  [phantoms[p][x] EXCEPT !.nbr =
                    [y \in DOMAIN phantoms[p][x].nbr |-> Going(p, x, y)]]
                   = PhantomOf(job, x, n + 1, n + 1)
      <3>1. phantoms[p][x] = PhantomOf(job, x, n + 1, n)
        BY <1>4
      <3>2. DOMAIN phantoms[p][x].nbr = NbOf(job, x)
        BY <3>1 DEF PhantomOf, NbrOf
      <3>3. [y \in DOMAIN phantoms[p][x].nbr |-> Going(p, x, y)] = NbrOf(job, x, n + 1)
        BY <1>8, <3>2 DEF NbrOf
      <3> QED
        BY <3>1, <3>3, PhantomNbr
    <2>2. DOMAIN phantoms[p] = OnOf(job, p, n)
      BY <1>4
    <2> QED
      BY <2>1, <2>2
  <1>10. Relinked(blocks[p], LinksTo(p, p)) = bs
    <2>1. Takes(job, p, n, {p}, "moves", "links")
      BY DEF Takes, LinkOf
    <2>2. LinksTo(p, p) = UNION {LinksOf(job, n, q, p) : q \in {p}}
      BY <1>7
    <2> QED
      BY <1>1, <1>3, <2>1, <2>2, RelinkedIs
  <1>11. BlockTargets(p, blocks[p]) = SendersOf(job, p, "links", n)
    <2>1. \A b \in LeavesOn(job, p) : blocks[p][b].to =
            [i \in DOMAIN TargetsOf(job, b) |-> PlaceOf(job, TargetsOf(job, b)[i], n)]
      BY <1>3 DEF OldBlock, ToOf, LinkOf
    <2>2. Pointing(job, n, LeavesOn(job, p), blocks[p])
      BY <1>3, <2>1 DEF Pointing
    <2>3. \A s : s \in BlockTargets(p, blocks[p])
                   <=> s # p /\ \E b \in LeavesOn(job, p) : Leads(job, b, n, s)
      BY <1>1, <2>2, TargetsHeld
    <2>4. \A s : (\E b \in LeavesOn(job, p) : Leads(job, b, n, s)) => s \in Rank
      BY <1>1, LeadsIn DEF LeavesOn
    <2>5. SendersOf(job, p, "links", n) = {s \in Rank : p # s /\ LinksOf(job, n, s, p) # {}}
      BY DEF SendersOf, TagAt, Applies, ReadOf
    <2>6. \A s : LinksOf(job, n, s, p) # {} <=> \E b \in LeavesOn(job, p) : Leads(job, b, n, s)
      BY <1>1, LinksDual
    <2> QED
      BY <2>3, <2>4, <2>5, <2>6
  <1> HIDE DEF ps, bs
  <1>12. /\ job' = job /\ iter' = iter /\ network' = network /\ known' = known
         /\ phantoms' = [phantoms EXCEPT ![p] = ps]
         /\ blocks' = [blocks EXCEPT ![p] = bs]
         /\ await' = [await EXCEPT ![p] = SendersOf(job, p, "links", n)]
         /\ pc' = [pc EXCEPT ![p] = "links"]
    BY <1>9, <1>10, <1>11 DEF Link, Await, Goto
  <1>13. /\ pc'[p] = "links" /\ iter'[p] = n /\ Others(p) /\ OnlyMoves(p)
         /\ phantoms'[p] = ps /\ blocks'[p] = bs
    BY <1>2, <1>12 DEF Shapes, Others, OnlyMoves
  <1> HIDE DEF n
  <1>14. ChannelsNext /\ DOMAIN mail' = Tag
    <2> DEFINE msg == [s \in {q \in Rank \ {p} : LinksTo(p, q) # {}} |-> LinksTo(p, s)]
               m == Taken("moves", p)
    <2>1. Tells(job, "links", n, p, msg)
      BY <1>7 DEF Tells, Applies, Said
    <2>2. SentBy["links"][p] = n /\ "links" \in Tag
      BY <1>1 DEF SentBy, SentOf, Tag, n
    <2>3. mail' = Post(m, "links", p, msg)
      BY DEF Link
    <2>4. Bumped(ReadBy, "moves", p) \in Counts
      BY <1>1, BumpedCounts
    <2> HIDE DEF msg, m
    <2>5. DOMAIN m = Tag /\ Channels(job, m, SentBy, Bumped(ReadBy, "moves", p))
      BY <1>5 DEF m
    <2>6. /\ Channels(job, mail', Bumped(SentBy, "links", p), Bumped(ReadBy, "moves", p))
          /\ DOMAIN mail' = Tag
      BY <1>1, <2>1, <2>2, <2>3, <2>4, <2>5, Posted
    <2>7. SentBy' = Bumped(SentBy, "links", p)
      BY <1>1, <1>13, CountsLink, SentBumped DEF n
    <2>8. ReadBy' = Bumped(ReadBy, "moves", p)
      BY <1>1, <1>13, CountsLink, ReadBumped DEF n
    <2> QED
      BY <2>6, <2>7, <2>8 DEF ChannelsNext
  <1>15. ShapesNext
    <2>1. SendersOf(job, p, "links", n) \subseteq Rank
      BY DEF SendersOf
    <2> QED
      BY <1>2, <1>12, <1>14, <2>1 DEF Shapes, ShapesNext, Label
  <1>16. LocalNext(p)
    <2>1. Clock(job, "links", n)
      BY <1>1 DEF Clock, Before
    <2>2. blocks'[p] = BlocksOf(job, p, "links", n)
      BY <1>13 DEF BlocksOf, Updated, bs
    <2>3. phantoms'[p] = PhantomsOf(job, p, "links", n)
      BY <1>13 DEF PhantomsOf, ToRound, NbrRound, ps
    <2>4. known'[p] = KnownOf(job, p, "links")
      BY <1>1, <1>12 DEF KnownOf
    <2>5. network'[p] = NetOf(job)[ReadOf("network", "links", n)][p]
      BY <1>1, <1>12 DEF ReadOf, Before
    <2>6. await'[p] = SendersOf(job, p, "links", n)
      BY <1>2, <1>12 DEF Shapes
    <2> QED
      BY <1>13, <2>1, <2>2, <2>3, <2>4, <2>5, <2>6 DEF LocalNext, Determined
  <1> QED
    BY <1>12, <1>13, <1>14, <1>15, <1>16, Assembled

LEMMA DepartKeeps ==
  ASSUME MigrationInv, NEW p \in Rank, Depart(p)
  PROVE  MigrationInv'
  <1> DEFINE n == iter[p]
             ps == [x \in GoOf(job, n, p, p) |-> PhantomOf(job, x, n + 1, n + 1)]
             bs == [b \in LeavesOn(job, p) |-> OldBlock(job, p, b, "phantoms", n)]
  <1>1. /\ pc[p] = "links" /\ job \in Jobs /\ n \in 0..RoundsOf(job) /\ n \in Nat
        /\ n < RoundsOf(job) /\ Arrived("links", p)
        /\ network[p] = NetOf(job)[n + 1][p]
        /\ phantoms[p] = PhantomsOf(job, p, "links", n)
        /\ known[p] = KnownOf(job, p, "links")
        /\ SentBy \in Counts /\ ReadBy \in Counts
    BY Holds DEF Depart, ReadOf, Before, Clock
  <1>2. Shapes
    BY DEF MigrationInv
  <1>3. blocks[p] = [b \in LeavesOn(job, p) |-> OldBlock(job, p, b, "links", n)]
    BY <1>1, OldHeld
  <1>4. phantoms[p] = [x \in OnOf(job, p, n) |-> PhantomOf(job, x, n + 1, n + 1)]
    BY <1>1 DEF PhantomsOf, ToRound, NbrRound
  <1>5. /\ await[p] = {s \in Rank : Applies(job, "links", n, s, p)}
        /\ \A q \in await[p] : Msg("links", q, p) = Said(job, "links", n, q, p)
        /\ Channels(job, Taken("links", p), SentBy, Bumped(ReadBy, "links", p))
        /\ DOMAIN Taken("links", p) = Tag
    BY <1>1, Received DEF TagAt, Waits, ReadOf
  <1> DEFINE L == UNION {Msg("links", q, p) : q \in await[p]}
  <1>6. Relinked(blocks[p], L) = bs
    <2>1. Takes(job, p, n, await[p], "links", "phantoms")
      <3>1. ASSUME NEW b \in LeavesOn(job, p), NEW i \in DOMAIN TargetsOf(job, b)
            PROVE  LinkOf(job, p, TargetsOf(job, b)[i], "phantoms", n) =
                     IF PlaceOf(job, TargetsOf(job, b)[i], n) \in await[p]
                     THEN PlaceOf(job, TargetsOf(job, b)[i], n + 1)
                     ELSE LinkOf(job, p, TargetsOf(job, b)[i], "links", n)
        <4> DEFINE x == TargetsOf(job, b)[i]
                   q == PlaceOf(job, x, n)
        <4>1. q \in Rank /\ Leads(job, b, n, q)
          BY <1>1, LeadsIn DEF Leads, LeavesOn
        <4>2. LinksOf(job, n, q, p) # {}
          BY <1>1, <4>1, LinksDual
        <4>3. q \in await[p] \/ q = p
          BY <1>5, <4>1, <4>2 DEF Applies
        <4> HIDE DEF x
        <4> QED
          BY <4>3 DEF LinkOf, x
      <3> QED
        BY <3>1 DEF Takes
    <2>2. {Msg("links", q, p) : q \in await[p]} = {LinksOf(job, n, q, p) : q \in await[p]}
      BY <1>5 DEF Said
    <2>3. L = UNION {LinksOf(job, n, q, p) : q \in await[p]}
      BY <2>2
    <2> HIDE DEF L
    <2> QED
      BY <1>1, <1>3, <2>1, <2>3, RelinkedIs
  <1>7. \A q : Leaving(p, q) = GoOf(job, n, p, q)
    BY <1>4 DEF Leaving, GoOf, PhantomOf
  <1>8. [x \in Leaving(p, p) |-> phantoms[p][x]] = ps
    BY <1>4, <1>7 DEF GoOf
  <1>9. Senders(p, n + 1) = SendersOf(job, p, "phantoms", n)
    <2>1. (n + 1) - 1 = n
      BY <1>1
    <2>2. Senders(p, n + 1) = {PlaceOf(job, x, n) : x \in OnOf(job, p, n + 1)} \ {p}
      BY <2>1, Static DEF Senders, OnOf
    <2>3. SendersOf(job, p, "phantoms", n) = {s \in Rank : p # s /\ GoOf(job, n, s, p) # {}}
      BY DEF SendersOf, TagAt, Applies, ReadOf
    <2>4. \A x \in OnOf(job, p, n + 1) : PlaceOf(job, x, n) \in Rank
      BY <1>1, PlaceIn DEF OnOf
    <2>5. \A s : (\E x \in OnOf(job, p, n + 1) : PlaceOf(job, x, n) = s) <=> GoOf(job, n, s, p) # {}
      BY DEF OnOf, GoOf
    <2> QED
      BY <2>2, <2>3, <2>4, <2>5
  <1> HIDE DEF ps, bs
  <1>10. /\ job' = job /\ iter' = iter /\ network' = network /\ known' = known
         /\ phantoms' = [phantoms EXCEPT ![p] = ps]
         /\ blocks' = [blocks EXCEPT ![p] = bs]
         /\ await' = [await EXCEPT ![p] = SendersOf(job, p, "phantoms", n)]
         /\ pc' = [pc EXCEPT ![p] = "phantoms"]
    BY <1>6, <1>8, <1>9 DEF Depart, Await, Goto
  <1>11. /\ pc'[p] = "phantoms" /\ iter'[p] = n /\ Others(p) /\ OnlyMoves(p)
         /\ phantoms'[p] = ps /\ blocks'[p] = bs
    BY <1>2, <1>10 DEF Shapes, Others, OnlyMoves
  <1> HIDE DEF n, L
  <1>12. ChannelsNext /\ DOMAIN mail' = Tag
    <2> DEFINE msg == [q \in {r \in Rank \ {p} : Leaving(p, r) # {}} |->
                         [x \in Leaving(p, q) |-> phantoms[p][x]]]
               m == Taken("links", p)
    <2>1. Tells(job, "phantoms", n, p, msg)
      <3>1. \A d : [x \in Leaving(p, d) |-> phantoms[p][x]]
                     = [x \in GoOf(job, n, p, d) |-> PhantomOf(job, x, n + 1, n + 1)]
        BY <1>4, <1>7 DEF GoOf
      <3>2. \A d \in Rank : d \in DOMAIN msg <=> Applies(job, "phantoms", n, p, d)
        BY <1>7 DEF Applies
      <3>3. \A d \in Rank : d \in DOMAIN msg =>
              msg[d] = [x \in GoOf(job, n, p, d) |-> PhantomOf(job, x, n + 1, n + 1)]
        BY <3>1
      <3> HIDE DEF msg
      <3> QED
        BY <3>2, <3>3 DEF Tells, Said
    <2>2. SentBy["phantoms"][p] = n /\ "phantoms" \in Tag
      BY <1>1 DEF SentBy, SentOf, Tag, n
    <2>3. mail' = Post(m, "phantoms", p, msg)
      BY DEF Depart
    <2>4. Bumped(ReadBy, "links", p) \in Counts
      BY <1>1, BumpedCounts
    <2> HIDE DEF msg, m
    <2>5. DOMAIN m = Tag /\ Channels(job, m, SentBy, Bumped(ReadBy, "links", p))
      BY <1>5 DEF m
    <2>6. /\ Channels(job, mail', Bumped(SentBy, "phantoms", p), Bumped(ReadBy, "links", p))
          /\ DOMAIN mail' = Tag
      BY <1>1, <2>1, <2>2, <2>3, <2>4, <2>5, Posted
    <2>7. SentBy' = Bumped(SentBy, "phantoms", p)
      BY <1>1, <1>11, CountsDepart, SentBumped DEF n
    <2>8. ReadBy' = Bumped(ReadBy, "links", p)
      BY <1>1, <1>11, CountsDepart, ReadBumped DEF n
    <2> QED
      BY <2>6, <2>7, <2>8 DEF ChannelsNext
  <1>13. ShapesNext
    <2>1. SendersOf(job, p, "phantoms", n) \subseteq Rank
      BY DEF SendersOf
    <2> QED
      BY <1>2, <1>10, <1>12, <2>1 DEF Shapes, ShapesNext, Label
  <1>14. LocalNext(p)
    <2>1. Clock(job, "phantoms", n)
      BY <1>1 DEF Clock, Before
    <2>2. blocks'[p] = BlocksOf(job, p, "phantoms", n)
      BY <1>11 DEF BlocksOf, Updated, bs
    <2>3. phantoms'[p] = PhantomsOf(job, p, "phantoms", n)
      BY <1>11 DEF PhantomsOf, ToRound, NbrRound, ps, GoOf
    <2>4. known'[p] = KnownOf(job, p, "phantoms")
      BY <1>1, <1>10 DEF KnownOf
    <2>5. network'[p] = NetOf(job)[ReadOf("network", "phantoms", n)][p]
      BY <1>1, <1>10 DEF ReadOf, Before
    <2>6. await'[p] = SendersOf(job, p, "phantoms", n)
      BY <1>2, <1>10 DEF Shapes
    <2> QED
      BY <1>11, <2>1, <2>2, <2>3, <2>4, <2>5, <2>6 DEF LocalNext, Determined
  <1> QED
    BY <1>10, <1>11, <1>12, <1>13, <1>14, Assembled

LEMMA ArriveKeeps ==
  ASSUME MigrationInv, NEW p \in Rank, Arrive(p)
  PROVE  MigrationInv'
  <1> DEFINE n == iter[p]
             ps == [x \in OnOf(job, p, n + 1) |-> PhantomOf(job, x, n + 1, n + 1)]
  <1>1. /\ pc[p] = "phantoms" /\ job \in Jobs /\ n \in 0..RoundsOf(job) /\ n \in Nat
        /\ n < RoundsOf(job) /\ RoundsOf(job) \in Nat /\ Arrived("phantoms", p)
        /\ network[p] = NetOf(job)[n + 1][p]
        /\ phantoms[p] = PhantomsOf(job, p, "phantoms", n)
        /\ known[p] = KnownOf(job, p, "phantoms")
    BY Holds DEF Arrive, ReadOf, Before, Clock
  <1>2. Shapes
    BY DEF MigrationInv
  <1>3. /\ await[p] = {s \in Rank : Applies(job, "phantoms", n, s, p)}
        /\ \A q \in await[p] : Msg("phantoms", q, p) = Said(job, "phantoms", n, q, p)
        /\ Channels(job, Taken("phantoms", p), SentBy, Bumped(ReadBy, "phantoms", p))
        /\ DOMAIN Taken("phantoms", p) = Tag /\ "phantoms" \in Tag
    BY <1>1, Received DEF TagAt, Waits, ReadOf, Tag
  <1>4. phantoms[p] = [x \in GoOf(job, n, p, p) |-> PhantomOf(job, x, n + 1, n + 1)]
    BY <1>1 DEF PhantomsOf, ToRound, NbrRound, GoOf
  <1> DEFINE maps == {phantoms[p]} \cup {Msg("phantoms", q, p) : q \in await[p]}
             M(q) == [x \in GoOf(job, n, q, p) |-> PhantomOf(job, x, n + 1, n + 1)]
  <1>5. Merged(maps) = ps
    <2> DEFINE Q == {p} \cup await[p]
               D == OnOf(job, p, n + 1)
    <2>1. maps = {M(q) : q \in Q}
      <3>1. \A q \in await[p] : Msg("phantoms", q, p) = M(q)
        BY <1>3 DEF Said
      <3> QED
        BY <1>4, <3>1
    <2>2. \A q \in Q : \A x \in GoOf(job, n, q, p) : x \in D
      BY DEF GoOf, OnOf
    <2>3. \A x \in D : \E q \in Q : x \in GoOf(job, n, q, p)
      <3> TAKE x \in D
      <3> DEFINE q == PlaceOf(job, x, n)
      <3>1. x \in NewOf(job) /\ PlaceOf(job, x, n + 1) = p
        BY DEF OnOf
      <3>2. q \in Rank /\ x \in GoOf(job, n, q, p)
        BY <1>1, <3>1, PlaceIn DEF GoOf, OnOf
      <3>3. q \in Q
        BY <1>3, <3>2 DEF Applies
      <3> QED
        BY <3>2, <3>3
    <2>4. \A q \in Q : DOMAIN M(q) = GoOf(job, n, q, p)
      OBVIOUS
    <2>5. \A q \in Q : \A x \in GoOf(job, n, q, p) : M(q)[x] = PhantomOf(job, x, n + 1, n + 1)
      OBVIOUS
    <2> HIDE DEF M, Q, maps
    <2>6. ASSUME NEW m \in maps, NEW x \in DOMAIN m
          PROVE  x \in D /\ m[x] = ps[x]
      <3>1. PICK q \in Q : m = M(q)
        BY <2>1
      <3>2. x \in GoOf(job, n, q, p)
        BY <2>4, <3>1
      <3> QED
        BY <2>2, <2>5, <3>1, <3>2
    <2>7. \A x \in D : \E m \in maps : x \in DOMAIN m
      BY <2>1, <2>3, <2>4
    <2>8. ps = [x \in D |-> ps[x]]
      OBVIOUS
    <2> HIDE DEF ps, D
    <2> QED
      BY <2>6, <2>7, <2>8, MergedIs
  <1> HIDE DEF ps, maps, M
  <1>6. /\ job' = job /\ blocks' = blocks /\ known' = known
        /\ phantoms' = [phantoms EXCEPT ![p] = ps]
        /\ iter' = [iter EXCEPT ![p] = n + 1]
        /\ UpdateNeighborhood(p, Taken("phantoms", p))
    BY <1>5 DEF Arrive, maps
  <1>7. /\ OneChanges(phantoms, phantoms', p, ps)
        /\ OneChanges(known, known', p, <<>>)
    BY <1>1, <1>2, <1>6 DEF Shapes, OneChanges, KnownOf
  <1>8. blocks[p] = [b \in LeavesOn(job, p) |-> OldBlock(job, p, b, "network", n + 1)]
    <2>1. blocks[p] = [b \in LeavesOn(job, p) |-> OldBlock(job, p, b, "phantoms", n)]
      BY <1>1, OldHeld
    <2>2. \A b : ToOf(job, p, b, "phantoms", n) = ToOf(job, p, b, "network", n + 1)
      BY DEF ToOf, LinkOf
    <2> QED
      BY <2>1, <2>2 DEF OldBlock
  <1>9. SentOf("network", pc[p], iter[p]) = n + 1 /\ n + 1 \in 0..RoundsOf(job)
    BY <1>1 DEF SentOf, Before
  <1> DEFINE k == n + 1
  <1>10. /\ ReadGrows("phantoms", pc[p], iter[p], "network", k)
         /\ SentGrows("network", pc[p], iter[p], "network", k)
         /\ SentGrows("network", pc[p], iter[p], "balance", k)
         /\ ReadGrowTwo("phantoms", "network", pc[p], iter[p], "balance", k)
    BY <1>1, CountsArrive
  <1>11. OneChanges(phantoms, phantoms', p, [x \in OnOf(job, p, k) |-> PhantomOf(job, x, k, k)])
    BY <1>7 DEF ps
  <1>12. /\ blocks[p] = [b \in LeavesOn(job, p) |-> OldBlock(job, p, b, "network", k)]
         /\ iter' = [iter EXCEPT ![p] = k] /\ network[p] = NetOf(job)[k][p]
         /\ SentOf("network", pc[p], iter[p]) = k /\ k \in 0..RoundsOf(job)
    BY <1>1, <1>6, <1>8, <1>9
  <1> HIDE DEF k, n
  <1> QED
    BY <1>3, <1>6, <1>7, <1>10, <1>11, <1>12, RoundBegins

-----------------------------------------------------------------------------
(* The end of load balancing and the early out keep the invariant. *)

(* What a process holds from the end of a round on, until it has sent its states *)
Idle == {"balance", "vote", "update"}

LEMMA IdleHolds ==
  ASSUME NEW j, NEW p, NEW n, NEW l \in Idle
  PROVE  /\ BlocksOf(j, p, l, n) = [b \in LeavesOn(j, p) |-> OldBlock(j, p, b, "balance", n)]
         /\ PhantomsOf(j, p, l, n) = [x \in OnOf(j, p, n) |-> PhantomOf(j, x, n, n)]
         /\ KnownOf(j, p, l) = <<>>
         /\ ReadOf("network", l, n) = n + 1
         /\ l \in Label /\ l \notin Waits
  <1>1. \A b : ToOf(j, p, b, l, n) = ToOf(j, p, b, "balance", n)
    BY DEF ToOf, LinkOf, Idle
  <1>2. BlocksOf(j, p, l, n) = [b \in LeavesOn(j, p) |-> OldBlock(j, p, b, "balance", n)]
    BY <1>1 DEF BlocksOf, Updated, OldBlock, Idle
  <1>3. PhantomsOf(j, p, l, n) = [x \in OnOf(j, p, n) |-> PhantomOf(j, x, n, n)]
    BY DEF PhantomsOf, ToRound, NbrRound, Idle
  <1> QED
    BY <1>2, <1>3 DEF Idle, KnownOf, ReadOf, Before, Label, Waits

LEMMA RestKeeps ==
  ASSUME MigrationInv, NEW p \in Rank, Rest(p)
  PROVE  MigrationInv'
  <1> DEFINE n == iter[p]
             l == IF job.earlyOut THEN "vote" ELSE "update"
  <1>1. /\ pc[p] = "balance" /\ job \in Jobs /\ n \in Nat
        /\ network[p] = NetOf(job)[ReadOf("network", "balance", n)][p]
        /\ blocks[p] = BlocksOf(job, p, "balance", n)
        /\ phantoms[p] = PhantomsOf(job, p, "balance", n)
        /\ known[p] = KnownOf(job, p, "balance")
        /\ Channels(job, mail, SentBy, ReadBy)
    BY Holds DEF Rest
  <1>2. Shapes
    BY DEF MigrationInv
  <1>3. n = RoundsOf(job)
    BY Static DEF Rest
  <1>4. l \in Idle /\ "balance" \in Idle /\ l \in {"vote", "update"}
    BY DEF Idle
  <1>5. /\ job' = job /\ iter' = iter /\ blocks' = blocks /\ phantoms' = phantoms
        /\ known' = known /\ network' = network /\ await' = await /\ mail' = mail
        /\ pc' = [pc EXCEPT ![p] = l]
    BY DEF Rest, Goto
  <1>6. Clock(job, l, n)
    BY <1>3 DEF Clock, SkipsOf, Before
  <1> HIDE DEF l
  <1>7. pc'[p] = l /\ iter'[p] = n /\ Others(p) /\ OnlyMoves(p)
    BY <1>2, <1>5 DEF Shapes, Others, OnlyMoves
  <1> HIDE DEF n
  <1>8. ChannelsNext
    <2>1. SentBy' = SentBy
      BY <1>1, <1>4, <1>7, CountsRest, SentSame DEF n
    <2>2. ReadBy' = ReadBy
      BY <1>1, <1>4, <1>7, CountsRest, ReadSame DEF n
    <2> QED
      BY <1>1, <1>5, <2>1, <2>2 DEF ChannelsNext
  <1>9. ShapesNext
    <2>1. l \in Label
      BY <1>4, IdleHolds
    <2> QED
      BY <1>2, <1>5, <2>1 DEF Shapes, ShapesNext
  <1>10. LocalNext(p)
    <2>1. /\ blocks'[p] = BlocksOf(job, p, l, n) /\ phantoms'[p] = PhantomsOf(job, p, l, n)
          /\ known'[p] = KnownOf(job, p, l)
          /\ network'[p] = NetOf(job)[ReadOf("network", l, n)][p] /\ l \notin Waits
      <3>1. /\ BlocksOf(job, p, l, n) = BlocksOf(job, p, "balance", n)
            /\ PhantomsOf(job, p, l, n) = PhantomsOf(job, p, "balance", n)
            /\ KnownOf(job, p, l) = KnownOf(job, p, "balance")
            /\ ReadOf("network", l, n) = ReadOf("network", "balance", n)
        BY <1>4, IdleHolds
      <3>2. l \notin Waits
        BY <1>4, IdleHolds
      <3> QED
        BY <1>1, <1>5, <3>1, <3>2
    <2> QED
      BY <1>6, <1>7, <2>1 DEF LocalNext, Determined
  <1> QED
    BY <1>5, <1>7, <1>8, <1>9, <1>10, Assembled

(* The reduction tells whether some phantom has a source elsewhere. *)
LEMMA VoteIs ==
  ASSUME MigrationInv, \A p \in Rank : pc[p] = "vote", NEW q \in Rank
  PROVE  PerformUpdate <=> ~SkipsOf(job)
  <1> DEFINE n == RoundsOf(job)
  <1>1. job \in Jobs /\ n \in Nat /\ job.earlyOut
    BY Holds DEF Clock
  <1>2. \A p \in Rank : phantoms[p] = [x \in OnOf(job, p, n) |-> PhantomOf(job, x, n, n)]
    <2> TAKE p \in Rank
    <2>1. iter[p] = n /\ phantoms[p] = PhantomsOf(job, p, "vote", iter[p])
      BY Holds DEF Clock
    <2> QED
      BY <2>1, IdleHolds DEF Idle
  <1>3. \A p \in Rank : \A x \in OnOf(job, p, n) : phantoms[p][x].from = FromOf(job, x)
    <2> TAKE p \in Rank
    <2> TAKE x \in OnOf(job, p, n)
    <2>1. phantoms[p][x] = PhantomOf(job, x, n, n)
      BY <1>2
    <2> QED
      BY <2>1 DEF PhantomOf
  <1>4. PerformUpdate <=> \E p \in Rank : \E x \in OnOf(job, p, n) : ToSet(FromOf(job, x)) # {p}
    <2>1. \A p \in Rank : DOMAIN phantoms[p] = OnOf(job, p, n)
      BY <1>2
    <2> HIDE DEF n
    <2> QED
      BY <1>3, <2>1 DEF PerformUpdate
  <1>5. \A x \in NewOf(job) : PlaceOf(job, x, n) \in Rank
    BY <1>1, PlaceIn
  <1>6. (\E p \in Rank : \E x \in OnOf(job, p, n) : ToSet(FromOf(job, x)) # {p})
          <=> \E x \in NewOf(job) : ToSet(FromOf(job, x)) # {PlaceOf(job, x, n)}
    BY <1>5 DEF OnOf
  <1> QED
    BY <1>1, <1>4, <1>6 DEF SkipsOf

LEMMA VoteKeeps ==
  ASSUME MigrationInv, Vote
  PROVE  MigrationInv'
  <1> DEFINE n == RoundsOf(job)
             l == IF PerformUpdate THEN "update" ELSE "done"
  <1>1. Shapes /\ \A p \in Rank : pc[p] = "vote"
    BY DEF MigrationInv, Vote
  <1>2. job \in Jobs /\ n \in Nat
    BY <1>1, JobIs DEF Shapes
  <1>3. /\ job' = job /\ iter' = iter /\ blocks' = blocks /\ phantoms' = phantoms
        /\ known' = known /\ network' = network /\ await' = await /\ mail' = mail
        /\ pc' = [p \in Rank |-> l]
    BY DEF Vote
  <1>4. l \in {"update", "done"}
    OBVIOUS
  <1>5. \A p \in Rank : l = "done" <=> SkipsOf(job)
    BY <1>1, VoteIs
  <1> HIDE DEF l
  <1>6. Shapes'
    BY <1>1, <1>3, <1>4 DEF Shapes, Label
  <1>7. ASSUME NEW p \in Rank
        PROVE  Local(p)' /\ iter[p] = n
    <2>1. /\ iter[p] = n /\ pc[p] = "vote"
          /\ network[p] = NetOf(job)[ReadOf("network", "vote", iter[p])][p]
          /\ blocks[p] = BlocksOf(job, p, "vote", iter[p])
          /\ phantoms[p] = PhantomsOf(job, p, "vote", iter[p])
          /\ known[p] = KnownOf(job, p, "vote")
      BY <1>1, Holds DEF Clock
    <2>2. Clock(job, l, n) /\ l \notin Waits
      BY <1>4, <1>5 DEF Clock, Before, Waits
    <2>3. ReadOf("network", l, n) = ReadOf("network", "vote", n)
      BY <1>4 DEF ReadOf, Before
    <2>4. KnownOf(job, p, l) = KnownOf(job, p, "vote")
      BY <1>4 DEF KnownOf
    <2>5. PhantomsOf(job, p, l, n) = PhantomsOf(job, p, "vote", n)
      BY <1>4 DEF PhantomsOf, ToRound, NbrRound
    <2>6. BlocksOf(job, p, l, n) = BlocksOf(job, p, "vote", n)
      <3>1. \A b : ToOf(job, p, b, l, n) = ToOf(job, p, b, "vote", n)
        BY <1>4 DEF ToOf, LinkOf
      <3>2. ~Updated(job, l) /\ ~Updated(job, "vote")
        BY <1>4, <1>5 DEF Updated
      <3> QED
        BY <3>1, <3>2 DEF BlocksOf, OldBlock
    <2>7. Determined(job, p, l, n, blocks[p], phantoms[p], known[p], network[p], await[p])
      BY <2>1, <2>2, <2>3, <2>4, <2>5, <2>6 DEF Determined
    <2>8. pc'[p] = l /\ iter'[p] = n
      BY <1>3, <2>1
    <2> HIDE DEF n
    <2> QED
      BY <1>3, <2>1, <2>7, <2>8 DEF Local
  <1> HIDE DEF n
  <1>8. Channels(job, mail, SentBy, ReadBy)'
    <2>1. ASSUME NEW t \in Tag, NEW s \in Rank, NEW d \in Rank
          PROVE  Channel(job, t, s, d, SentBy'[t][s], ReadBy'[t][d], mail[t][<<s, d>>])
      <3>1. Channel(job, t, s, d, SentBy[t][s], ReadBy[t][d], mail[t][<<s, d>>])
        BY DEF MigrationInv, Channels
      <3>2. /\ SentBy[t][s] = SentOf(t, "vote", n) /\ SentBy'[t][s] = SentOf(t, l, n)
            /\ ReadBy[t][d] = ReadOf(t, "vote", n) /\ ReadBy'[t][d] = ReadOf(t, l, n)
        <4>1. pc[s] = "vote" /\ pc[d] = "vote" /\ iter[s] = n /\ iter[d] = n
          BY <1>1, <1>7
        <4>2. pc'[s] = l /\ pc'[d] = l /\ iter'[s] = n /\ iter'[d] = n
          BY <1>3, <4>1
        <4> QED
          BY <4>1, <4>2 DEF SentBy, ReadBy
      <3>3. CASE l = "done" /\ t \in {"states", "data"}
        <4>1. /\ SentOf(t, "vote", n) = 0 /\ ReadOf(t, "vote", n) = 0
              /\ SentOf(t, l, n) = 1 /\ ReadOf(t, l, n) = 1
          BY <3>3 DEF SentOf, ReadOf
        <4>2. mail[t][<<s, d>>] = <<>>
          BY <3>1, <3>2, <4>1, ChannelUnused
        <4>3. Channel(job, t, s, d, 1, 1, <<>>)
          BY ChannelNew
        <4> QED
          BY <3>2, <4>1, <4>2, <4>3
      <3>4. CASE ~(l = "done" /\ t \in {"states", "data"})
        <4>1. SentOf(t, l, n) = SentOf(t, "vote", n) /\ ReadOf(t, l, n) = ReadOf(t, "vote", n)
          BY <1>4, <3>4 DEF SentOf, ReadOf, Tag, Before
        <4> QED
          BY <3>1, <3>2, <4>1
      <3> QED
        BY <3>3, <3>4
    <2> QED
      BY <1>3, <2>1 DEF Channels
  <1> QED
    BY <1>6, <1>7, <1>8 DEF MigrationInv

-----------------------------------------------------------------------------
(* The update of the block forest keeps the invariant. *)

(* What a process holds from the end of load balancing until it packs *)
LEMMA UpdateHolds ==
  ASSUME MigrationInv, NEW p \in Rank, pc[p] \in {"update", "states"}
  PROVE  /\ job \in Jobs /\ RoundsOf(job) \in Nat /\ iter[p] = RoundsOf(job) /\ ~SkipsOf(job)
         /\ network[p] = NetOf(job)[RoundsOf(job) + 1][p]
         /\ blocks[p] = [b \in LeavesOn(job, p) |->
                           OldBlock(job, p, b, "update", RoundsOf(job))]
         /\ phantoms[p] = [x \in OnOf(job, p, RoundsOf(job)) |->
                             PhantomOf(job, x, RoundsOf(job), RoundsOf(job))]
         /\ known[p] = <<>>
         /\ SentBy \in Counts /\ ReadBy \in Counts
         /\ Channels(job, mail, SentBy, ReadBy) /\ DOMAIN mail = Tag
  <1> DEFINE n == RoundsOf(job)
  <1>1. /\ job \in Jobs /\ n \in Nat /\ iter[p] = n /\ ~SkipsOf(job)
        /\ network[p] = NetOf(job)[n + 1][p]
        /\ phantoms[p] = PhantomsOf(job, p, pc[p], n)
        /\ known[p] = <<>>
        /\ SentBy \in Counts /\ ReadBy \in Counts
        /\ Channels(job, mail, SentBy, ReadBy) /\ DOMAIN mail = Tag
    <2>1. Clock(job, pc[p], iter[p]) /\ known[p] = KnownOf(job, p, pc[p])
          /\ network[p] = NetOf(job)[ReadOf("network", pc[p], iter[p])][p]
      BY Holds
    <2>2. iter[p] = n /\ ~SkipsOf(job)
      BY <2>1 DEF Clock
    <2>3. ReadOf("network", pc[p], iter[p]) = iter[p] + 1 /\ KnownOf(job, p, pc[p]) = <<>>
      BY DEF ReadOf, Before, KnownOf
    <2> QED
      BY <2>1, <2>2, <2>3, Holds
  <1>2. blocks[p] = [b \in LeavesOn(job, p) |-> OldBlock(job, p, b, "update", n)]
    <2>1. blocks[p] = [b \in LeavesOn(job, p) |-> OldBlock(job, p, b, pc[p], n)]
      BY <1>1, OldHeld
    <2>2. \A b : ToOf(job, p, b, pc[p], n) = ToOf(job, p, b, "update", n)
      BY DEF ToOf, LinkOf
    <2> QED
      BY <2>1, <2>2 DEF OldBlock
  <1>3. phantoms[p] = [x \in OnOf(job, p, n) |-> PhantomOf(job, x, n, n)]
    BY <1>1 DEF PhantomsOf, ToRound, NbrRound
  <1> QED
    BY <1>1, <1>2, <1>3

(* From then on, the phantoms are at rest. *)
LEMMA RestHolds ==
  ASSUME MigrationInv, NEW p \in Rank, pc[p] \in {"update", "states", "data", "done"}
  PROVE  phantoms[p] = [x \in OnOf(job, p, RoundsOf(job)) |->
                          PhantomOf(job, x, RoundsOf(job), RoundsOf(job))]
  <1>1. iter[p] = RoundsOf(job) /\ phantoms[p] = PhantomsOf(job, p, pc[p], iter[p])
    BY Holds DEF Clock
  <1> QED
    BY <1>1 DEF PhantomsOf, ToRound, NbrRound

LEMMA FreshIs ==
  ASSUME MigrationInv, NEW p \in Rank, pc[p] \in {"update", "states", "data", "done"}
  PROVE  /\ Fresh(p) = FreshOf(job, p)
         /\ \A x \in OnOf(job, p, RoundsOf(job)) : phantoms[p][x].from = FromOf(job, x)
         /\ \A s : s \in FreshSources(p)
                     <=> s # p /\ \E x \in FreshOf(job, p) : s \in ToSet(FromOf(job, x))
  <1>1. phantoms[p] = [x \in OnOf(job, p, RoundsOf(job)) |->
                         PhantomOf(job, x, RoundsOf(job), RoundsOf(job))]
    BY RestHolds
  <1>2. \A x \in OnOf(job, p, RoundsOf(job)) : phantoms[p][x].from = FromOf(job, x)
    <2> TAKE x \in OnOf(job, p, RoundsOf(job))
    <2>1. phantoms[p][x] = PhantomOf(job, x, RoundsOf(job), RoundsOf(job))
      BY <1>1
    <2> QED
      BY <2>1 DEF PhantomOf
  <1>3. DOMAIN phantoms[p] = OnOf(job, p, RoundsOf(job))
    BY <1>1
  <1>4. Fresh(p) = FreshOf(job, p)
    BY <1>2, <1>3, Static DEF Fresh, FreshOf
  <1>5. \A x \in FreshOf(job, p) : phantoms[p][x].from = FromOf(job, x)
    BY <1>2 DEF FreshOf
  <1>6. \A s : s \in FreshSources(p)
                 <=> s # p /\ \E x \in FreshOf(job, p) : s \in ToSet(FromOf(job, x))
    <2>1. \A s : s \in FreshSources(p)
                   <=> s # p /\ \E x \in Fresh(p) : s \in ToSet(phantoms[p][x].from)
      BY DEF FreshSources
    <2> QED
      BY <1>4, <1>5, <2>1
  <1> QED
    BY <1>2, <1>4, <1>6

LEMMA GoneIs ==
  ASSUME MigrationInv, NEW p \in Rank, pc[p] \in {"update", "states"}
  PROVE  /\ Gone(p) = GoneOf(job, p) /\ GoneOf(job, p) \subseteq LeavesOn(job, p)
         /\ \A b \in LeavesOn(job, p) :
              /\ blocks[p][b].to = [i \in DOMAIN TargetsOf(job, b) |->
                                      PlaceOf(job, TargetsOf(job, b)[i], RoundsOf(job))]
              /\ blocks[p][b].data = b
  <1> DEFINE n == RoundsOf(job)
  <1>1. /\ job \in Jobs
        /\ blocks[p] = [b \in LeavesOn(job, p) |-> OldBlock(job, p, b, "update", n)]
    BY UpdateHolds
  <1>2. \A b \in LeavesOn(job, p) :
          /\ blocks[p][b].to = [i \in DOMAIN TargetsOf(job, b) |->
                                  PlaceOf(job, TargetsOf(job, b)[i], n)]
          /\ blocks[p][b].data = b
    <2> TAKE b \in LeavesOn(job, p)
    <2>1. blocks[p][b] = OldBlock(job, p, b, "update", n)
      BY <1>1
    <2> QED
      BY <2>1 DEF OldBlock, ToOf, LinkOf
  <1>3. DOMAIN blocks[p] = LeavesOn(job, p)
    BY <1>1
  <1>4. \A b \in LeavesOn(job, p) : blocks[p][b].to[1] = PlaceOf(job, TargetsOf(job, b)[1], n)
    <2> TAKE b \in LeavesOn(job, p)
    <2>1. 1 \in DOMAIN TargetsOf(job, b)
      BY <1>1, TargetsAre DEF LeavesOn
    <2> HIDE DEF n
    <2> QED
      BY <1>2, <2>1
  <1>5. Gone(p) = GoneOf(job, p)
    BY <1>3, <1>4 DEF Gone, GoneOf
  <1> QED
    BY <1>2, <1>5 DEF GoneOf

LEMMA SendStatesKeeps ==
  ASSUME MigrationInv, NEW p \in Rank, SendStates(p)
  PROVE  MigrationInv'
  <1> DEFINE n == RoundsOf(job)
  <1>1. /\ pc[p] = "update" /\ job \in Jobs /\ n \in Nat /\ iter[p] = n /\ ~SkipsOf(job)
        /\ network[p] = NetOf(job)[n + 1][p]
        /\ blocks[p] = [b \in LeavesOn(job, p) |-> OldBlock(job, p, b, "update", n)]
        /\ phantoms[p] = [x \in OnOf(job, p, n) |-> PhantomOf(job, x, n, n)]
        /\ known[p] = <<>>
        /\ SentBy \in Counts /\ ReadBy \in Counts
        /\ Channels(job, mail, SentBy, ReadBy) /\ DOMAIN mail = Tag
    BY UpdateHolds DEF SendStates
  <1>2. Shapes
    BY DEF MigrationInv
  <1>3. BlockTargets(p, [b \in Gone(p) |-> blocks[p][b]]) = SendersOf(job, p, "states", n)
    <2> DEFINE bs == [b \in Gone(p) |-> blocks[p][b]]
    <2>1. Pointing(job, n, GoneOf(job, p), bs)
      BY <1>1, GoneIs DEF Pointing
    <2> HIDE DEF bs
    <2>2. \A s : s \in BlockTargets(p, bs) <=> s # p /\ \E b \in GoneOf(job, p) : Leads(job, b, n, s)
      BY <1>1, <2>1, TargetsHeld
    <2>3. \A s : (\E b \in GoneOf(job, p) : Leads(job, b, n, s)) => s \in Rank
      <3>1. n \in 0..RoundsOf(job)
        BY <1>1
      <3> QED
        BY <1>1, <3>1, LeadsIn DEF GoneOf, LeavesOn
    <2>4. \A s : (\E x \in FreshOf(job, s) : p \in ToSet(FromOf(job, x)))
                   <=> \E b \in GoneOf(job, p) : Leads(job, b, n, s)
      BY <1>1, FreshDual
    <2>5. SendersOf(job, p, "states", n)
            = {s \in Rank : p # s /\ \E x \in FreshOf(job, s) : p \in ToSet(FromOf(job, x))}
      BY DEF SendersOf, TagAt, Applies, ReadOf
    <2> QED
      BY <2>2, <2>3, <2>4, <2>5 DEF bs
  <1>4. /\ job' = job /\ iter' = iter /\ network' = network /\ known' = known
        /\ phantoms' = phantoms /\ blocks' = blocks
        /\ await' = [await EXCEPT ![p] = SendersOf(job, p, "states", n)]
        /\ pc' = [pc EXCEPT ![p] = "states"]
    BY <1>3 DEF SendStates, Await, Goto
  <1>5. pc'[p] = "states" /\ iter'[p] = n /\ Others(p) /\ OnlyMoves(p)
    BY <1>1, <1>2, <1>4 DEF Shapes, Others, OnlyMoves
  <1> HIDE DEF n
  <1>6. ChannelsNext /\ DOMAIN mail' = Tag
    <2> DEFINE msg == [q \in FreshSources(p) |-> {x \in Fresh(p) : q \in ToSet(phantoms[p][x].from)}]
    <2>1. Tells(job, "states", 0, p, msg)
      <3>1. \A d : d \in DOMAIN msg <=> d # p /\ \E x \in FreshOf(job, p) : d \in ToSet(FromOf(job, x))
        BY <1>1, FreshIs
      <3>2. \A d \in DOMAIN msg : msg[d] = {x \in FreshOf(job, p) : d \in ToSet(FromOf(job, x))}
        <4>1. \A x \in FreshOf(job, p) : phantoms[p][x].from = FromOf(job, x)
          BY <1>1, FreshIs DEF FreshOf
        <4>2. Fresh(p) = FreshOf(job, p)
          BY <1>1, FreshIs
        <4> QED
          BY <4>1, <4>2
      <3> HIDE DEF msg
      <3> QED
        BY <3>1, <3>2 DEF Tells, Applies, Said
    <2>2. SentBy["states"][p] = 0 /\ "states" \in Tag
      BY <1>1 DEF SentBy, SentOf, Tag
    <2>3. mail' = Post(mail, "states", p, msg)
      BY DEF SendStates
    <2> HIDE DEF msg
    <2>4. Channels(job, mail', Bumped(SentBy, "states", p), ReadBy) /\ DOMAIN mail' = Tag
      BY <1>1, <2>1, <2>2, <2>3, Posted
    <2>5. SentBy' = Bumped(SentBy, "states", p)
      BY <1>1, <1>5, CountsStates, SentBumped
    <2>6. ReadBy' = ReadBy
      BY <1>1, <1>5, CountsStates, ReadSame
    <2> QED
      BY <2>4, <2>5, <2>6 DEF ChannelsNext
  <1>7. ShapesNext
    <2>1. SendersOf(job, p, "states", n) \subseteq Rank
      BY DEF SendersOf
    <2> QED
      BY <1>2, <1>4, <1>6, <2>1 DEF Shapes, ShapesNext, Label
  <1>8. LocalNext(p)
    <2>1. Clock(job, "states", n)
      BY <1>1 DEF Clock, Before, n
    <2>2. blocks'[p] = BlocksOf(job, p, "states", n)
      <3>1. \A b : ToOf(job, p, b, "update", n) = ToOf(job, p, b, "states", n)
        BY DEF ToOf, LinkOf
      <3> QED
        BY <1>1, <1>4, <3>1 DEF BlocksOf, Updated, OldBlock
    <2>3. phantoms'[p] = PhantomsOf(job, p, "states", n)
      BY <1>1, <1>4 DEF PhantomsOf, ToRound, NbrRound
    <2>4. known'[p] = KnownOf(job, p, "states")
      BY <1>1, <1>4 DEF KnownOf
    <2>5. network'[p] = NetOf(job)[ReadOf("network", "states", n)][p]
      BY <1>1, <1>4 DEF ReadOf, Before
    <2>6. await'[p] = SendersOf(job, p, "states", n)
      BY <1>2, <1>4 DEF Shapes
    <2> QED
      BY <1>5, <2>1, <2>2, <2>3, <2>4, <2>5, <2>6 DEF LocalNext, Determined
  <1> QED
    BY <1>4, <1>5, <1>6, <1>7, <1>8, Assembled

LEMMA BuffersAre ==
  ASSUME MigrationInv, NEW p \in Rank, pc[p] \in {"update", "states"}, NEW q
  PROVE  BuffersTo(p, q) = DataOf(job, p, q)
  <1> DEFINE n == RoundsOf(job)
             A(b) == {[from |-> b, to |-> Targets(b)[i], data |-> blocks[p][b].data] :
                        i \in {k \in DOMAIN Targets(b) : blocks[p][b].to[k] = q}}
             B(b) == {[from |-> b, to |-> TargetsOf(job, b)[i], data |-> b] :
                        i \in {k \in DOMAIN TargetsOf(job, b) :
                                 PlaceOf(job, TargetsOf(job, b)[k], n) = q}}
  <1>1. Gone(p) = GoneOf(job, p)
    BY GoneIs
  <1>2. ASSUME NEW b \in GoneOf(job, p)
        PROVE  A(b) = B(b)
    <2>1. b \in LeavesOn(job, p)
      BY GoneIs
    <2>2. /\ blocks[p][b].to = [i \in DOMAIN TargetsOf(job, b) |-> PlaceOf(job, TargetsOf(job, b)[i], n)]
          /\ blocks[p][b].data = b
      BY <2>1, GoneIs
    <2>3. Targets(b) = TargetsOf(job, b)
      BY Static
    <2> HIDE DEF n
    <2> QED
      BY <2>2, <2>3
  <1>3. BuffersTo(p, q) = UNION {A(b) : b \in Gone(p)}
    BY DEF BuffersTo
  <1>4. DataOf(job, p, q) = UNION {B(b) : b \in GoneOf(job, p)}
    BY DEF DataOf
  <1> HIDE DEF A, B
  <1> QED
    BY <1>1, <1>2, <1>3, <1>4

LEMMA PackKeeps ==
  ASSUME MigrationInv, NEW p \in Rank, Pack(p)
  PROVE  MigrationInv'
  <1> DEFINE n == RoundsOf(job)
             bs == [x \in OnOf(job, p, n) |-> NewBlock(job, p, x, "data")]
             from == FreshSources(p) \cup {q \in {p} : BuffersTo(p, p) # {}}
  <1>1. /\ pc[p] = "states" /\ job \in Jobs /\ n \in Nat /\ iter[p] = n /\ ~SkipsOf(job)
        /\ network[p] = NetOf(job)[n + 1][p]
        /\ phantoms[p] = [x \in OnOf(job, p, n) |-> PhantomOf(job, x, n, n)]
        /\ known[p] = <<>>
        /\ SentBy \in Counts /\ ReadBy \in Counts /\ Arrived("states", p)
    BY UpdateHolds DEF Pack
  <1>2. Shapes
    BY DEF MigrationInv
  <1>3. /\ Channels(job, Taken("states", p), SentBy, Bumped(ReadBy, "states", p))
        /\ DOMAIN Taken("states", p) = Tag
    BY <1>1, Received DEF TagAt, Waits
  <1>4. \A q : BuffersTo(p, q) = DataOf(job, p, q)
    BY <1>1, BuffersAre
  <1>5. [x \in DOMAIN phantoms[p] |->
           [to |-> <<>>, nbr |-> phantoms[p][x].nbr,
            data |-> IF x \in Fresh(p) THEN NoData ELSE blocks[p][x].data]] = bs
    <2>1. ASSUME NEW x \in OnOf(job, p, n)
          PROVE  [to |-> <<>>, nbr |-> phantoms[p][x].nbr,
                  data |-> IF x \in Fresh(p) THEN NoData ELSE blocks[p][x].data]
                   = NewBlock(job, p, x, "data")
      <3>1. phantoms[p][x] = PhantomOf(job, x, n, n)
        BY <1>1
      <3>2. phantoms[p][x].nbr = NbrOf(job, x, n)
        BY <3>1 DEF PhantomOf
      <3>3. Fresh(p) = FreshOf(job, p)
        BY <1>1, FreshIs
      <3>4. x \notin FreshOf(job, p) => blocks[p][x].data = ExpectedOf(job, x)
        <4> HAVE x \notin FreshOf(job, p)
        <4>1. x \in LeavesOf(job) /\ FromOf(job, x)[1] = p /\ x \in NewOf(job)
          BY DEF FreshOf, OnOf
        <4>2. SourcesOf(job, x) = <<x>>
          BY <1>1, <4>1, SourcesAre
        <4>3. x \in LeavesOn(job, p) /\ ExpectedOf(job, x) = x
          BY <4>1, <4>2 DEF FromOf, LeavesOn, ExpectedOf
        <4> QED
          BY <1>1, <4>3, GoneIs
      <3> HIDE DEF n
      <3> QED
        BY <3>2, <3>3, <3>4 DEF NewBlock, n
    <2>2. DOMAIN phantoms[p] = OnOf(job, p, n)
      BY <1>1
    <2> HIDE DEF n
    <2> QED
      BY <2>1, <2>2
  <1>6. from = SendersOf(job, p, "data", n)
    <2>1. SendersOf(job, p, "data", n) = {s \in Rank : DataOf(job, s, p) # {}}
      BY DEF SendersOf, TagAt, Applies
    <2>2. \A s : s \in FreshSources(p)
                   <=> s # p /\ \E x \in FreshOf(job, p) : s \in ToSet(FromOf(job, x))
      BY <1>1, FreshIs
    <2>3. \A s : DataOf(job, s, p) # {} <=> \E x \in FreshOf(job, p) : s \in ToSet(FromOf(job, x))
      <3> TAKE s
      <3>1. DataOf(job, s, p) # {} <=> \E b \in GoneOf(job, s) : Leads(job, b, RoundsOf(job), p)
        BY <1>1, DataDual
      <3>2. (\E x \in FreshOf(job, p) : s \in ToSet(FromOf(job, x)))
              <=> \E b \in GoneOf(job, s) : Leads(job, b, RoundsOf(job), p)
        BY <1>1, FreshDual
      <3> QED
        BY <3>1, <3>2
    <2>4. \A s : (\E x \in FreshOf(job, p) : s \in ToSet(FromOf(job, x))) => s \in Rank
      <3> TAKE s
      <3> HAVE \E x \in FreshOf(job, p) : s \in ToSet(FromOf(job, x))
      <3>1. PICK x \in FreshOf(job, p) : s \in ToSet(FromOf(job, x))
        OBVIOUS
      <3>2. x \in NewOf(job)
        BY DEF FreshOf, OnOf
      <3>3. FromOf(job, x) \in [DOMAIN SourcesOf(job, x) -> Rank]
        BY <1>1, <3>2, FromIn
      <3> QED
        BY <3>1, <3>3 DEF ToSet
    <2> QED
      BY <1>4, <2>1, <2>2, <2>3, <2>4
  <1> HIDE DEF bs, from
  <1>7. /\ job' = job /\ iter' = iter /\ network' = network /\ known' = known
        /\ phantoms' = phantoms
        /\ blocks' = [blocks EXCEPT ![p] = bs]
        /\ await' = [await EXCEPT ![p] = SendersOf(job, p, "data", n)]
        /\ pc' = [pc EXCEPT ![p] = "data"]
    BY <1>5, <1>6 DEF Pack, Await, Goto, from
  <1>8. pc'[p] = "data" /\ iter'[p] = n /\ Others(p) /\ OnlyMoves(p) /\ blocks'[p] = bs
    BY <1>1, <1>2, <1>7 DEF Shapes, Others, OnlyMoves
  <1> HIDE DEF n
  <1>9. ChannelsNext /\ DOMAIN mail' = Tag
    <2> DEFINE msg == [r \in {q \in Rank : BuffersTo(p, q) # {}} |-> BuffersTo(p, r)]
               m == Taken("states", p)
    <2>1. Tells(job, "data", 0, p, msg)
      BY <1>4 DEF Tells, Applies, Said
    <2>2. SentBy["data"][p] = 0 /\ "data" \in Tag
      BY <1>1 DEF SentBy, SentOf, Tag
    <2>3. mail' = Post(m, "data", p, msg)
      BY DEF Pack
    <2>4. Bumped(ReadBy, "states", p) \in Counts
      BY <1>1, BumpedCounts
    <2> HIDE DEF msg, m
    <2>5. DOMAIN m = Tag /\ Channels(job, m, SentBy, Bumped(ReadBy, "states", p))
      BY <1>3 DEF m
    <2>6. /\ Channels(job, mail', Bumped(SentBy, "data", p), Bumped(ReadBy, "states", p))
          /\ DOMAIN mail' = Tag
      BY <1>1, <2>1, <2>2, <2>3, <2>4, <2>5, Posted
    <2>7. SentBy' = Bumped(SentBy, "data", p)
      BY <1>1, <1>8, CountsPack, SentBumped
    <2>8. ReadBy' = Bumped(ReadBy, "states", p)
      BY <1>1, <1>8, CountsPack, ReadBumped
    <2> QED
      BY <2>6, <2>7, <2>8 DEF ChannelsNext
  <1>10. ShapesNext
    <2>1. SendersOf(job, p, "data", n) \subseteq Rank
      BY DEF SendersOf
    <2> QED
      BY <1>2, <1>7, <1>9, <2>1 DEF Shapes, ShapesNext, Label
  <1>11. LocalNext(p)
    <2>1. Clock(job, "data", n)
      BY <1>1 DEF Clock, Before, n
    <2>2. blocks'[p] = BlocksOf(job, p, "data", n)
      BY <1>8 DEF BlocksOf, Updated, bs, n
    <2>3. phantoms'[p] = PhantomsOf(job, p, "data", n)
      BY <1>1, <1>7 DEF PhantomsOf, ToRound, NbrRound
    <2>4. known'[p] = KnownOf(job, p, "data")
      BY <1>1, <1>7 DEF KnownOf
    <2>5. network'[p] = NetOf(job)[ReadOf("network", "data", n)][p]
      BY <1>1, <1>7 DEF ReadOf, Before
    <2>6. await'[p] = SendersOf(job, p, "data", n)
      BY <1>2, <1>7 DEF Shapes
    <2> QED
      BY <1>8, <2>1, <2>2, <2>3, <2>4, <2>5, <2>6 DEF LocalNext, Determined
  <1> QED
    BY <1>7, <1>8, <1>9, <1>10, <1>11, Assembled

LEMMA SourcesSeq ==
  ASSUME NEW j \in Jobs, NEW x \in NewOf(j)
  PROVE  SourcesOf(j, x) \in Seq(Id)
  <1>1. LeavesOf(j) \subseteq Id
    BY JobIs
  <1>2. CASE Stays(j, x)
    BY <1>1, <1>2 DEF Stays
  <1>3. CASE Splits(j, x)
    BY <1>1, <1>3 DEF Splits
  <1>4. CASE Merges(j, x)
    BY <1>4, ChildrenIn DEF Merges
  <1> QED
    BY <1>2, <1>3, <1>4, NewKinds

(* A buffer holds a source of the block it is for. *)
LEMMA BufferIs ==
  ASSUME NEW j \in Jobs, NEW q, NEW p, NEW c \in DataOf(j, q, p)
  PROVE  c.data = c.from /\ \E k \in DOMAIN SourcesOf(j, c.to) : SourcesOf(j, c.to)[k] = c.from
  <1>1. PICK b \in GoneOf(j, q) :
          c \in {[from |-> b, to |-> TargetsOf(j, b)[i], data |-> b] :
                   i \in {k \in DOMAIN TargetsOf(j, b) :
                            PlaceOf(j, TargetsOf(j, b)[k], RoundsOf(j)) = p}}
    BY DEF DataOf
  <1>2. PICK i \in DOMAIN TargetsOf(j, b) : c = [from |-> b, to |-> TargetsOf(j, b)[i], data |-> b]
    BY <1>1
  <1>3. b \in LeavesOf(j)
    BY DEF GoneOf, LeavesOn
  <1>4. c.data = b /\ c.from = b /\ c.to = TargetsOf(j, b)[i]
    BY <1>2
  <1>5. \E k \in DOMAIN SourcesOf(j, TargetsOf(j, b)[i]) : SourcesOf(j, TargetsOf(j, b)[i])[k] = b
    BY <1>3, TargetsBack
  <1> QED
    BY <1>4, <1>5

(* There is one of every source. *)
LEMMA BufferThere ==
  ASSUME NEW j \in Jobs, NEW p, NEW x \in FreshOf(j, p), NEW k \in DOMAIN SourcesOf(j, x)
  PROVE  \E q \in Rank : \E c \in DataOf(j, q, p) : c.to = x /\ c.from = SourcesOf(j, x)[k]
  <1> DEFINE b == SourcesOf(j, x)[k]
             i == IndexOf(j, x)
             q == j.place[b]
             c == [from |-> b, to |-> TargetsOf(j, b)[i], data |-> b]
  <1>1. x \in NewOf(j) /\ PlaceOf(j, x, RoundsOf(j)) = p
    BY DEF FreshOf, OnOf
  <1>2. b \in LeavesOf(j) /\ i \in DOMAIN TargetsOf(j, b) /\ TargetsOf(j, b)[i] = x
    BY <1>1, SourcesBack
  <1>3. q \in Rank
    BY <1>2, JobIs
  <1> HIDE DEF b, i, q
  <1>4. TargetsOf(j, b)[i] \in FreshOf(j, PlaceOf(j, TargetsOf(j, b)[i], RoundsOf(j)))
    BY <1>1, <1>2
  <1>5. b \in GoneOf(j, j.place[b])
    BY <1>2, <1>4, GoneFresh
  <1>6. b \in GoneOf(j, q)
    BY <1>5 DEF q
  <1>7. c \in DataOf(j, q, p)
    BY <1>1, <1>2, <1>6 DEF DataOf
  <1>8. c.to = x /\ c.from = b
    BY <1>2
  <1> QED
    BY <1>3, <1>7, <1>8 DEF b

(* The data that has come for a process *)
DataFor(j, p) == UNION {DataOf(j, q, p) : q \in Rank}

(* A fresh block is made of the data of its sources, in their order. *)
LEMMA UnpackedIs ==
  ASSUME job \in Jobs, NEW p \in Rank, NEW x \in FreshOf(job, p)
  PROVE  Unpacked(x, DataFor(job, p)) = ExpectedOf(job, x)
  <1> DEFINE bufs == DataFor(job, p)
             S == SourcesOf(job, x)
             P(k) == CHOOSE b \in bufs : b.to = x /\ b.from = S[k]
             F == CHOOSE b \in bufs : b.to = x
  <1>1. \A b \in bufs : b.data = b.from /\ \E k \in DOMAIN SourcesOf(job, b.to) : SourcesOf(job, b.to)[k] = b.from
    BY BufferIs DEF DataFor
  <1>2. \A k \in DOMAIN S : \E b \in bufs : b.to = x /\ b.from = S[k]
    BY BufferThere DEF DataFor
  <1>3. x \in NewOf(job)
    BY DEF FreshOf, OnOf
  <1>4. Len(S) \in Nat /\ DOMAIN S = 1..Len(S) /\ 1 \in DOMAIN S
    BY <1>3, SourcesAre
  <1>5. Sources(x) = S
    BY Static
  <1>6. \A k \in DOMAIN S : P(k).data = S[k]
    <2> HIDE DEF S, bufs
    <2> QED
      BY <1>1, <1>2
  <1>7. Len(S) = 1 => F.data = S[1]
    <2> HAVE Len(S) = 1
    <2>1. \A k \in DOMAIN S : k = 1
      BY <1>4
    <2>2. \E b \in bufs : b.to = x
      BY <1>2, <1>4
    <2>3. F \in bufs /\ F.to = x
      <3> HIDE DEF bufs
      <3> QED
        BY <2>2
    <2> HIDE DEF bufs, F
    <2>4. \E k \in DOMAIN S : S[k] = F.from
      BY <1>1, <2>3
    <2> QED
      BY <1>1, <2>1, <2>3, <2>4
  <1>8. Unpacked(x, bufs) = IF Len(S) = 1 THEN F.data ELSE [k \in DOMAIN S |-> P(k).data]
    BY <1>5 DEF Unpacked
  <1>9. S = [k \in DOMAIN S |-> S[k]]
    <2>1. S \in Seq(Id)
      BY <1>3, SourcesSeq
    <2> QED
      BY <2>1
  <1>10. [k \in DOMAIN S |-> P(k).data] = S
    <2> HIDE DEF S, P
    <2> QED
      BY <1>6, <1>9
  <1> HIDE DEF F, P
  <1> QED
    BY <1>7, <1>8, <1>10 DEF ExpectedOf

LEMMA UnpackKeeps ==
  ASSUME MigrationInv, NEW p \in Rank, Unpack(p)
  PROVE  MigrationInv'
  <1> DEFINE n == RoundsOf(job)
             bs == [x \in OnOf(job, p, n) |-> NewBlock(job, p, x, "data")]
             new == [x \in OnOf(job, p, n) |-> NewBlock(job, p, x, "done")]
             bufs == UNION {Msg("data", q, p) : q \in await[p]}
  <1>1. /\ pc[p] = "data" /\ Arrived("data", p)
        /\ job \in Jobs /\ n \in Nat /\ iter[p] = n /\ ~SkipsOf(job)
        /\ blocks[p] = BlocksOf(job, p, "data", n)
        /\ network[p] = NetOf(job)[ReadOf("network", "data", n)][p]
        /\ phantoms[p] = PhantomsOf(job, p, "data", n)
        /\ known[p] = KnownOf(job, p, "data")
        /\ SentBy \in Counts /\ ReadBy \in Counts
    BY Holds DEF Unpack, Clock
  <1>2. Shapes
    BY DEF MigrationInv
  <1>3. blocks[p] = bs
    BY <1>1 DEF BlocksOf, Updated
  <1>4. /\ await[p] = {s \in Rank : Applies(job, "data", 0, s, p)}
        /\ \A q \in await[p] : Msg("data", q, p) = Said(job, "data", 0, q, p)
        /\ Channels(job, Taken("data", p), SentBy, Bumped(ReadBy, "data", p))
        /\ DOMAIN Taken("data", p) = Tag
    <2>1. "data" = TagAt(pc[p]) /\ 0 = ReadOf("data", pc[p], iter[p]) /\ pc[p] \in Waits
      BY <1>1 DEF TagAt, ReadOf, Waits
    <2> QED
      BY <1>1, <2>1, Received
  <1>5. bufs = DataFor(job, p)
    <2>1. await[p] = {s \in Rank : DataOf(job, s, p) # {}}
      BY <1>4 DEF Applies
    <2>2. \A q \in await[p] : Msg("data", q, p) = DataOf(job, q, p)
      BY <1>4 DEF Said
    <2> QED
      BY <2>1, <2>2 DEF DataFor
  <1>6. [x \in DOMAIN bs |-> IF x \in Fresh(p) THEN [bs[x] EXCEPT !.data = Unpacked(x, bufs)]
                                               ELSE bs[x]] = new
    <2>1. ASSUME NEW x \in OnOf(job, p, n)
          PROVE  (IF x \in Fresh(p) THEN [bs[x] EXCEPT !.data = Unpacked(x, bufs)] ELSE bs[x])
                   = NewBlock(job, p, x, "done")
      <3>1. bs[x] = NewBlock(job, p, x, "data")
        OBVIOUS
      <3>2. Fresh(p) = FreshOf(job, p)
        BY <1>1, FreshIs
      <3>3. x \in FreshOf(job, p) => Unpacked(x, bufs) = ExpectedOf(job, x)
        BY <1>1, <1>5, UnpackedIs
      <3> HIDE DEF bs, bufs, n
      <3>4. CASE x \in FreshOf(job, p)
        BY <3>1, <3>2, <3>3, <3>4 DEF NewBlock
      <3>5. CASE x \notin FreshOf(job, p)
        BY <3>1, <3>2, <3>5 DEF NewBlock
      <3> QED
        BY <3>4, <3>5
    <2> QED
      BY <2>1
  <1>7. /\ job' = job /\ iter' = iter /\ network' = network /\ known' = known
        /\ phantoms' = phantoms /\ await' = await
        /\ mail' = Taken("data", p)
        /\ pc' = [pc EXCEPT ![p] = "done"]
    BY DEF Unpack, Goto
  <1>8. blocks' = [blocks EXCEPT ![p] = new]
    <2>1. blocks' = [blocks EXCEPT ![p] = [x \in DOMAIN @ |->
            IF x \in Fresh(p) THEN [@[x] EXCEPT !.data = Unpacked(x, bufs)] ELSE @[x]]]
      BY DEF Unpack
    <2> HIDE DEF bufs, bs, new
    <2>2. blocks' = [blocks EXCEPT ![p] = [x \in DOMAIN bs |->
            IF x \in Fresh(p) THEN [bs[x] EXCEPT !.data = Unpacked(x, bufs)] ELSE bs[x]]]
      BY <1>2, <1>3, <2>1 DEF Shapes
    <2> QED
      BY <1>6, <2>2
  <1> HIDE DEF bs, new, bufs
  <1>9. pc'[p] = "done" /\ iter'[p] = n /\ Others(p) /\ OnlyMoves(p) /\ blocks'[p] = new
    BY <1>1, <1>2, <1>7, <1>8 DEF Shapes, Others, OnlyMoves
  <1> HIDE DEF n
  <1>10. ChannelsNext /\ DOMAIN mail' = Tag
    <2>1. SentBy' = SentBy
      BY <1>1, <1>9, CountsUnpack, SentSame
    <2>2. ReadBy' = Bumped(ReadBy, "data", p)
      BY <1>1, <1>9, CountsUnpack, ReadBumped
    <2> QED
      BY <1>4, <1>7, <2>1, <2>2 DEF ChannelsNext
  <1>11. ShapesNext
    BY <1>2, <1>7, <1>8, <1>10 DEF Shapes, ShapesNext, Label
  <1>12. LocalNext(p)
    <2>1. Clock(job, "done", n)
      BY <1>1 DEF Clock, Before, n
    <2>2. blocks'[p] = BlocksOf(job, p, "done", n)
      BY <1>1, <1>9 DEF BlocksOf, Updated, new, n
    <2>3. phantoms'[p] = PhantomsOf(job, p, "done", n)
      BY <1>1, <1>7 DEF PhantomsOf, ToRound, NbrRound
    <2>4. known'[p] = KnownOf(job, p, "done")
      BY <1>1, <1>7 DEF KnownOf
    <2>5. network'[p] = NetOf(job)[ReadOf("network", "done", n)][p]
      BY <1>1, <1>7 DEF ReadOf, Before
    <2> QED
      BY <1>9, <2>1, <2>2, <2>3, <2>4, <2>5 DEF LocalNext, Determined, Waits
  <1> QED
    BY <1>7, <1>9, <1>10, <1>11, <1>12, Assembled

(* Every step keeps it. *)
LEMMA MigrationKeeps ==
  ASSUME MigrationInv, [Next]_vars
  PROVE  MigrationInv'
  <1>1. CASE UNCHANGED vars
    BY <1>1 DEF vars, MigrationInv, Shapes, Local, SentBy, ReadBy
  <1>2. ASSUME NEW p \in Rank, Step(p)
        PROVE  MigrationInv'
    BY <1>2, CreateKeeps, MeetKeeps, ReconstructKeeps, NetworkKeeps, BalanceKeeps, LinkKeeps,
       DepartKeeps, ArriveKeeps, RestKeeps, SendStatesKeeps, PackKeeps, UnpackKeeps DEF Step
  <1>3. CASE Vote
    BY <1>3, VoteKeeps
  <1>4. CASE Stay
    BY <1>1, <1>4 DEF Stay
  <1> QED
    BY <1>1, <1>2, <1>3, <1>4 DEF Next

(* What each process holds, and what is on its way to it, is at any moment what
   the refresh makes of the job by then: in whichever order the processes take
   their steps, no message is taken for another. *)
THEOREM MigrationInvariance == Spec => []MigrationInv
  <1>1. Init => MigrationInv
    BY MigrationStarts
  <1>2. MigrationInv /\ [Next]_vars => MigrationInv'
    BY MigrationKeeps
  <1> QED
    BY <1>1, <1>2, PTL DEF Spec

-----------------------------------------------------------------------------
(* What the refresh promises *)

LEMMA LinkIn ==
  ASSUME NEW j \in Jobs, NEW p, NEW b \in LeavesOf(j), NEW i \in DOMAIN TargetsOf(j, b),
         NEW l, NEW n, Clock(j, l, n), n \in 0..RoundsOf(j)
  PROVE  LinkOf(j, p, TargetsOf(j, b)[i], l, n) \in Rank
  <1> DEFINE x == TargetsOf(j, b)[i]
  <1>1. x \in NewOf(j)
    BY TargetsBack
  <1>2. RoundsOf(j) \in Nat
    BY JobIs
  <1>3. PlaceOf(j, x, n) \in Rank
    BY <1>1, PlaceIn
  <1>4. l \in {"links", "phantoms"} => PlaceOf(j, x, n + 1) \in Rank
    <2> HAVE l \in {"links", "phantoms"}
    <2>1. n + 1 \in 0..RoundsOf(j)
      BY <1>2 DEF Clock
    <2> QED
      BY <1>1, <2>1, PlaceIn
  <1> HIDE DEF x
  <1> QED
    BY <1>3, <1>4 DEF LinkOf, x

LEMMA NbrIn ==
  ASSUME NEW j \in Jobs, NEW x, NEW n \in 0..RoundsOf(j)
  PROVE  Range2(NbrOf(j, x, n)) \subseteq Rank
  <1>1. \A y \in NbOf(j, x) : PlaceOf(j, y, n) \in Rank
    BY PlaceIn DEF NbOf
  <1> QED
    BY <1>1 DEF Range2, NbrOf

(* Blocks before and after *)
BlocksTyped(p) ==
  /\ DOMAIN blocks[p] \subseteq Leaves \cup NewLeaves
  /\ \A b \in DOMAIN blocks[p] :
       /\ ToSet(blocks[p][b].to) \subseteq Rank
       /\ b \in Leaves /\ pc[p] \notin {"create", "data", "done"} =>
            Len(blocks[p][b].to) = Len(Targets(b))
       /\ Range2(blocks[p][b].nbr) \subseteq Rank

LEMMA BlocksTypeHolds ==
  ASSUME MigrationInv, NEW p \in Rank
  PROVE  BlocksTyped(p)
  <1> DEFINE l == pc[p]
             n == iter[p]
             R == RoundsOf(job)
  <1>1. /\ job \in Jobs /\ n \in 0..R /\ Clock(job, l, n) /\ blocks[p] = BlocksOf(job, p, l, n)
        /\ R \in Nat
    BY Holds
  <1>2. Leaves = LeavesOf(job) /\ NewLeaves = NewOf(job) /\ \A b : Targets(b) = TargetsOf(job, b)
    BY Static
  <1> HIDE DEF n
  <1>3. CASE Updated(job, l)
    <2>1. blocks[p] = [x \in OnOf(job, p, R) |-> NewBlock(job, p, x, l)] /\ l \in {"data", "done"}
      BY <1>1, <1>3 DEF BlocksOf, Updated
    <2>2. DOMAIN blocks[p] \subseteq NewOf(job)
      BY <2>1 DEF OnOf
    <2>3. ASSUME NEW x \in DOMAIN blocks[p]
          PROVE  ToSet(blocks[p][x].to) \subseteq Rank /\ Range2(blocks[p][x].nbr) \subseteq Rank
      <3>1. blocks[p][x] = NewBlock(job, p, x, l)
        BY <2>1
      <3>2. blocks[p][x].to = <<>> /\ blocks[p][x].nbr = NbrOf(job, x, R)
        BY <3>1 DEF NewBlock
      <3>3. Range2(NbrOf(job, x, R)) \subseteq Rank
        BY <1>1, NbrIn
      <3> HIDE DEF R
      <3> QED
        BY <3>2, <3>3 DEF ToSet
    <2> QED
      BY <1>2, <2>1, <2>2, <2>3 DEF BlocksTyped
  <1>4. CASE ~Updated(job, l)
    <2>1. blocks[p] = [b \in LeavesOn(job, p) |-> OldBlock(job, p, b, l, n)]
      BY <1>1, <1>4 DEF BlocksOf
    <2>2. DOMAIN blocks[p] \subseteq LeavesOf(job)
      BY <2>1 DEF LeavesOn
    <2>3. ASSUME NEW b \in DOMAIN blocks[p]
          PROVE  /\ ToSet(blocks[p][b].to) \subseteq Rank
                 /\ l \notin {"create", "data", "done"} =>
                      Len(blocks[p][b].to) = Len(TargetsOf(job, b))
                 /\ Range2(blocks[p][b].nbr) \subseteq Rank
      <3>1. blocks[p][b] = OldBlock(job, p, b, l, n) /\ b \in LeavesOf(job)
        BY <2>1, <2>2
      <3>2. /\ blocks[p][b].to = ToOf(job, p, b, l, n)
            /\ blocks[p][b].nbr = [y \in LeavesOf(job) \cap Touch[b] |-> job.place[y]]
        BY <3>1 DEF OldBlock
      <3>3. Range2([y \in LeavesOf(job) \cap Touch[b] |-> job.place[y]]) \subseteq Rank
        BY <1>1, JobIs DEF Range2
      <3>4. \A i \in DOMAIN TargetsOf(job, b) :
              LinkOf(job, p, TargetsOf(job, b)[i], l, n) \in Rank
        BY <1>1, <3>1, LinkIn
      <3>5. ToSet(ToOf(job, p, b, l, n)) \subseteq Rank
        <4>1. CASE l = "create"
          BY <4>1 DEF ToOf, ToSet
        <4>2. CASE l # "create"
          <5> DEFINE D == DOMAIN TargetsOf(job, b)
                     F(i) == LinkOf(job, p, TargetsOf(job, b)[i], l, n)
          <5>1. ToOf(job, p, b, l, n) = [i \in D |-> F(i)]
            BY <4>2 DEF ToOf
          <5>2. \A i \in D : F(i) \in Rank
            BY <3>4
          <5> HIDE DEF D, F
          <5> QED
            BY <5>1, <5>2 DEF ToSet
        <4> QED
          BY <4>1, <4>2
      <3>6. l # "create" => Len(ToOf(job, p, b, l, n)) = Len(TargetsOf(job, b))
        <4> HAVE l # "create"
        <4>1. ToOf(job, p, b, l, n) =
                [i \in DOMAIN TargetsOf(job, b) |-> LinkOf(job, p, TargetsOf(job, b)[i], l, n)]
          BY DEF ToOf
        <4>2. Len(TargetsOf(job, b)) \in Nat /\ DOMAIN TargetsOf(job, b) = 1..Len(TargetsOf(job, b))
          BY <1>1, <3>1, TargetsAre
        <4> QED
          BY <4>1, <4>2
      <3> QED
        BY <3>2, <3>3, <3>5, <3>6
    <2> QED
      BY <1>2, <2>2, <2>3 DEF BlocksTyped
  <1> QED
    BY <1>3, <1>4

PhantomsTyped(p) ==
  /\ DOMAIN phantoms[p] \subseteq NewLeaves
  /\ \A x \in DOMAIN phantoms[p] :
       /\ phantoms[p][x].from \in [DOMAIN Sources(x) -> Rank]
       /\ phantoms[p][x].to \in Rank
       /\ Range2(phantoms[p][x].nbr) \subseteq Rank

LEMMA PhantomsTypeHolds ==
  ASSUME MigrationInv, NEW p \in Rank
  PROVE  PhantomsTyped(p)
  <1> DEFINE l == pc[p]
             n == iter[p]
             R == RoundsOf(job)
  <1>1. /\ job \in Jobs /\ n \in 0..R /\ Clock(job, l, n) /\ phantoms[p] = PhantomsOf(job, p, l, n)
        /\ R \in Nat
    BY Holds
  <1>2. NewLeaves = NewOf(job) /\ \A x : Sources(x) = SourcesOf(job, x)
    BY Static
  <1> HIDE DEF n
  <1>3. CASE l = "create"
    BY <1>1, <1>3 DEF PhantomsOf, PhantomsTyped
  <1>4. CASE l \in {"meet", "reconstruct"}
    <2>1. phantoms[p] = [x \in OnOf(job, p, 0) |-> [from |-> FromOf(job, x), to |-> p, nbr |-> <<>>]]
      BY <1>1, <1>4 DEF PhantomsOf
    <2>2. ASSUME NEW x \in DOMAIN phantoms[p]
          PROVE  /\ x \in NewOf(job) /\ phantoms[p][x].from \in [DOMAIN SourcesOf(job, x) -> Rank]
                 /\ phantoms[p][x].to \in Rank /\ Range2(phantoms[p][x].nbr) \subseteq Rank
      <3>1. x \in NewOf(job) /\ phantoms[p][x] = [from |-> FromOf(job, x), to |-> p, nbr |-> <<>>]
        BY <2>1 DEF OnOf
      <3>2. FromOf(job, x) \in [DOMAIN SourcesOf(job, x) -> Rank]
        BY <1>1, <3>1, FromIn
      <3> QED
        BY <3>1, <3>2 DEF Range2
    <2> QED
      BY <1>2, <2>2 DEF PhantomsTyped
  <1>5. CASE l \notin {"create", "meet", "reconstruct"}
    <2> DEFINE a == ToRound(l, n)
               c == NbrRound(l, n)
    <2>1. phantoms[p] = [x \in {y \in OnOf(job, p, n) : l = "phantoms" => PlaceOf(job, y, n + 1) = p} |->
                           PhantomOf(job, x, a, c)]
      BY <1>1, <1>5 DEF PhantomsOf
    <2>2. a \in 0..R /\ c \in 0..R
      BY <1>1 DEF ToRound, NbrRound, Clock
    <2> HIDE DEF a, c
    <2>3. ASSUME NEW x \in DOMAIN phantoms[p]
          PROVE  /\ x \in NewOf(job) /\ phantoms[p][x].from \in [DOMAIN SourcesOf(job, x) -> Rank]
                 /\ phantoms[p][x].to \in Rank /\ Range2(phantoms[p][x].nbr) \subseteq Rank
      <3>1. x \in NewOf(job) /\ phantoms[p][x] = PhantomOf(job, x, a, c)
        BY <2>1 DEF OnOf
      <3>2. FromOf(job, x) \in [DOMAIN SourcesOf(job, x) -> Rank]
        BY <1>1, <3>1, FromIn
      <3>3. PlaceOf(job, x, a) \in Rank
        BY <1>1, <2>2, <3>1, PlaceIn
      <3>4. Range2(NbrOf(job, x, c)) \subseteq Rank
        BY <1>1, <2>2, NbrIn
      <3>5. /\ phantoms[p][x].from = FromOf(job, x) /\ phantoms[p][x].to = PlaceOf(job, x, a)
            /\ phantoms[p][x].nbr = NbrOf(job, x, c)
        BY <3>1 DEF PhantomOf
      <3> QED
        BY <3>1, <3>2, <3>3, <3>4, <3>5
    <2> QED
      BY <1>2, <2>3 DEF PhantomsTyped
  <1> QED
    BY <1>3, <1>4, <1>5

LEMMA MigrationTyped == MigrationInv => TypeOK
  <1> SUFFICES ASSUME MigrationInv
               PROVE  TypeOK
    OBVIOUS
  <1>1. Shapes
    BY DEF MigrationInv
  <1>2. \A p \in Rank : BlocksTyped(p) /\ PhantomsTyped(p)
    BY BlocksTypeHolds, PhantomsTypeHolds
  <1>3. ASSUME NEW p \in Rank
        PROVE  DOMAIN known[p] \subseteq NewLeaves /\ Range2(known[p]) \subseteq Rank
    <2>1. job \in Jobs /\ known[p] = KnownOf(job, p, pc[p]) /\ RoundsOf(job) \in Nat
      BY Holds
    <2>2. \A Q : DOMAIN KnownBy(job, Q) \subseteq NewOf(job) /\ Range2(KnownBy(job, Q)) \subseteq Rank
      <3>1. 0 \in 0..RoundsOf(job)
        BY <2>1
      <3>2. \A x \in NewOf(job) : PlaceOf(job, x, 0) \in Rank
        BY <2>1, <3>1, PlaceIn
      <3> QED
        BY <3>2 DEF KnownBy, Range2
    <2>3. known[p] = <<>> \/ \E Q : known[p] = KnownBy(job, Q)
      BY <2>1 DEF KnownOf
    <2>4. NewLeaves = NewOf(job)
      BY Static
    <2> QED
      BY <2>2, <2>3, <2>4 DEF Range2
  <1>4. Rounds = RoundsOf(job)
    BY Static
  <1> QED
    BY <1>1, <1>2, <1>3, <1>4 DEF TypeOK, Shapes, Label, BlocksTyped, PhantomsTyped

(* Two processes that have ended the same round hold the same step of networks that
   are mutual: they wait for each other in the next exchange, or neither does. *)
LEMMA NetworksMutual == MigrationInv => NetworkSymmetric
  <1> SUFFICES ASSUME MigrationInv, NEW p \in Rank, NEW q \in Rank, iter[p] = iter[q],
                      {pc[p], pc[q]} \cap {"create", "meet", "reconstruct", "network"} = {}
               PROVE  q \in network[p] <=> p \in network[q]
    BY DEF NetworkSymmetric
  <1> DEFINE n == iter[p]
  <1>1. job \in Jobs /\ n \in 0..RoundsOf(job) /\ RoundsOf(job) \in Nat
    BY Holds
  <1>2. \A r \in {p, q} : ReadOf("network", pc[r], iter[r]) = n + 1
    BY DEF ReadOf, Before
  <1>3. network[p] = NetOf(job)[n + 1][p] /\ network[q] = NetOf(job)[n + 1][q]
    BY <1>2, Holds
  <1> HIDE DEF n
  <1>4. n + 1 \in 0..(RoundsOf(job) + 1)
    BY <1>1
  <1>5. Mutual(NetOf(job)[n + 1])
    BY <1>1, <1>4, NetMutual
  <1> QED
    BY <1>3, <1>5 DEF Mutual

(* Whoever tells of a phantom tells the process it was begun on. *)
LEMMA KnownAgree == MigrationInv => KnownOnce
  <1> SUFFICES ASSUME MigrationInv, NEW p \in Rank, pc[p] \in {"meet", "reconstruct"},
                      Arrived("meet", p), NEW k \in Heard(p), NEW m \in Heard(p),
                      NEW x \in DOMAIN k \cap DOMAIN m
               PROVE  k[x] = m[x]
    BY DEF KnownOnce
  <1>1. \A h \in Heard(p) : \E Q : h = KnownBy(job, Q)
    BY MeetKnown
  <1>2. \A h \in Heard(p) : \A y \in DOMAIN h : h[y] = PlaceOf(job, y, 0)
    BY <1>1 DEF KnownBy
  <1> QED
    BY <1>2

(* Where two hops are enough, the neighbours a phantom has are all blocks to be
   that it touches. *)
LEMMA NeighborsAll ==
  ASSUME OneBetween, NEW j \in Jobs, NEW x \in NewOf(j)
  PROVE  NbOf(j, x) = NewOf(j) \cap Touch[x]
  <1>1. ASSUME NEW y \in NewOf(j) \cap Touch[x]
        PROVE  PlaceOf(j, y, 0) \in TwoHopsOf(j, PlaceOf(j, x, 0))
    <2> DEFINE b == SourcesOf(j, x)[1]
               c == SourcesOf(j, y)[1]
    <2>1. b \in LeavesOf(j) /\ c \in LeavesOf(j)
      BY SourcesAre, SourcesBack
    <2>2. PlaceOf(j, x, 0) = j.place[b] /\ PlaceOf(j, y, 0) = j.place[c]
      BY DEF PlaceOf
    <2> HIDE DEF b, c
    <2>3. x \in BegunBy(j, b) /\ y \in BegunBy(j, c)
      BY <2>1, BegunIs DEF b, c
    <2>4. PICK d \in DOMAIN j.place : d \in {b} \cup Touch[b] /\ d \in {c} \cup Touch[c]
      BY <2>1, <2>3 DEF OneBetween, LeavesOf
    <2>5. \A e, f \in LeavesOf(j) : f \in {e} \cup Touch[e] => j.place[f] \in HopOf(j, j.place[e])
      BY DEF HopOf, NearOf, LeavesOn
    <2>6. c \in {d} \cup Touch[d]
      <3>1. LeavesOf(j) \subseteq Id
        BY JobIs
      <3> QED
        BY <2>1, <2>4, <3>1, TreeAssumption DEF LeavesOf
    <2>7. j.place[d] \in HopOf(j, j.place[b]) /\ j.place[c] \in HopOf(j, j.place[d])
      BY <2>1, <2>4, <2>5, <2>6 DEF LeavesOf
    <2> QED
      BY <2>2, <2>7 DEF TwoHopsOf
  <1> QED
    BY <1>1 DEF NbOf

(* Where no level changes, the blocks to be are the leaves. *)
LEMMA KeptSame ==
  ASSUME LevelsKept, NEW j \in Jobs, j.earlyOut
  PROVE  /\ NewOf(j) = LeavesOf(j)
         /\ \A b \in LeavesOf(j) : SourcesOf(j, b) = <<b>> /\ FromOf(j, b) = <<j.place[b]>>
  <1>1. \A b \in LeavesOf(j) : j.mark[b] = "keep"
    BY JobIs DEF LevelsKept
  <1>2. \A b \in LeavesOf(j) : TargetsOf(j, b) = <<b>> /\ SourcesOf(j, b) = <<b>>
    BY <1>1, KeepTargets DEF Stays
  <1>3. \A b \in LeavesOf(j) : ToSet(TargetsOf(j, b)) = {b}
    BY <1>2 DEF ToSet
  <1>4. NewOf(j) = LeavesOf(j)
    BY <1>3 DEF NewOf
  <1>5. \A b \in LeavesOf(j) : FromOf(j, b) = <<j.place[b]>>
    BY <1>2 DEF FromOf
  <1> QED
    BY <1>2, <1>4, <1>5

(* After an early out, no block was to go anywhere. *)
LEMMA SkippedSame ==
  ASSUME LevelsKept, NEW j \in Jobs, SkipsOf(j)
  PROVE  /\ \A b \in LeavesOf(j) : PlaceOf(j, b, RoundsOf(j)) = j.place[b]
         /\ \A p : OnOf(j, p, RoundsOf(j)) = LeavesOn(j, p)
         /\ \A b \in LeavesOf(j) : ExpectedOf(j, b) = b
  <1>1. /\ NewOf(j) = LeavesOf(j)
        /\ \A b \in LeavesOf(j) : SourcesOf(j, b) = <<b>> /\ FromOf(j, b) = <<j.place[b]>>
    BY KeptSame DEF SkipsOf
  <1>2. \A b \in LeavesOf(j) : ToSet(FromOf(j, b)) = {PlaceOf(j, b, RoundsOf(j))}
    BY <1>1 DEF SkipsOf
  <1>3. \A b \in LeavesOf(j) : ToSet(FromOf(j, b)) = {j.place[b]}
    BY <1>1 DEF ToSet
  <1>4. \A b \in LeavesOf(j) : PlaceOf(j, b, RoundsOf(j)) = j.place[b]
    BY <1>2, <1>3
  <1>5. \A b \in LeavesOf(j) : ExpectedOf(j, b) = b
    BY <1>1 DEF ExpectedOf
  <1> QED
    BY <1>1, <1>4, <1>5 DEF OnOf, LeavesOn

(* A phantom's neighbours are those of the round it has come to, a block's those of
   the last. *)
LEMMA NeighborsHeld ==
  ASSUME OneBetween, LevelsKept, MigrationInv
  PROVE  NeighborsKnown
  <1> SUFFICES ASSUME NEW p \in Rank
               PROVE  /\ pc[p] \in {"network", "balance", "moves", "phantoms", "vote", "update", "states"} =>
                           \A x \in DOMAIN phantoms[p] : phantoms[p][x].nbr =
                             [y \in NewLeaves \cap Touch[x] |-> PlaceAt(y, Round(p))]
                      /\ pc[p] = "done" => \A b \in DOMAIN blocks[p] : blocks[p][b].nbr =
                           [y \in NewLeaves \cap Touch[b] |-> PlaceAt(y, Rounds)]
    BY DEF NeighborsKnown
  <1> DEFINE l == pc[p]
             n == iter[p]
             R == RoundsOf(job)
  <1>1. /\ job \in Jobs /\ n \in Nat /\ Clock(job, l, n)
        /\ phantoms[p] = PhantomsOf(job, p, l, n) /\ blocks[p] = BlocksOf(job, p, l, n)
    BY Holds
  <1>2. NewLeaves = NewOf(job) /\ Rounds = R /\ \A x, m : PlaceAt(x, m) = PlaceOf(job, x, m)
    BY Static
  <1>3. \A x \in NewOf(job) : NbOf(job, x) = NewLeaves \cap Touch[x]
    BY <1>1, <1>2, NeighborsAll
  <1>4. ASSUME NEW x \in NewOf(job), NEW m
        PROVE  NbrOf(job, x, m) = [y \in NewLeaves \cap Touch[x] |-> PlaceAt(y, m)]
    BY <1>2, <1>3 DEF NbrOf
  <1>5. ASSUME l \in {"network", "balance", "moves", "phantoms", "vote", "update", "states"},
               NEW x \in DOMAIN phantoms[p]
        PROVE  phantoms[p][x].nbr = [y \in NewLeaves \cap Touch[x] |-> PlaceAt(y, Round(p))]
    <2>1. phantoms[p] = [y \in {z \in OnOf(job, p, n) : l = "phantoms" => PlaceOf(job, z, n + 1) = p} |->
                           PhantomOf(job, y, ToRound(l, n), NbrRound(l, n))]
      BY <1>1, <1>5 DEF PhantomsOf
    <2>2. x \in NewOf(job) /\ phantoms[p][x] = PhantomOf(job, x, ToRound(l, n), NbrRound(l, n))
      BY <2>1 DEF OnOf
    <2>3. NbrRound(l, n) = Round(p)
      BY <1>1, <1>5 DEF NbrRound, Round
    <2>4. phantoms[p][x].nbr = NbrOf(job, x, Round(p))
      BY <2>2, <2>3 DEF PhantomOf
    <2> QED
      BY <1>4, <2>2, <2>4
  <1>6. ASSUME l = "done", NEW b \in DOMAIN blocks[p]
        PROVE  blocks[p][b].nbr = [y \in NewLeaves \cap Touch[b] |-> PlaceAt(y, R)]
    <2>1. CASE ~SkipsOf(job)
      <3>1. blocks[p] = [x \in OnOf(job, p, R) |-> NewBlock(job, p, x, l)]
        BY <1>1, <1>6, <2>1 DEF BlocksOf, Updated
      <3>2. b \in NewOf(job) /\ blocks[p][b] = NewBlock(job, p, b, l)
        BY <3>1 DEF OnOf
      <3>3. blocks[p][b].nbr = NbrOf(job, b, R)
        BY <3>2 DEF NewBlock
      <3> QED
        BY <1>4, <3>2, <3>3
    <2>2. CASE SkipsOf(job)
      <3>1. blocks[p] = [c \in LeavesOn(job, p) |-> OldBlock(job, p, c, l, n)]
        BY <1>1, <1>6, <2>2 DEF BlocksOf, Updated
      <3>2. blocks[p][b] = OldBlock(job, p, b, l, n)
        BY <3>1
      <3>3. blocks[p][b].nbr = [y \in LeavesOf(job) \cap Touch[b] |-> job.place[y]]
        BY <3>2 DEF OldBlock
      <3>4. \A y \in LeavesOf(job) : PlaceAt(y, R) = job.place[y]
        BY <1>1, <1>2, <2>2, SkippedSame
      <3>5. NewLeaves = LeavesOf(job)
        BY <1>1, <1>2, <2>2, KeptSame DEF SkipsOf
      <3> HIDE DEF R
      <3> QED
        BY <3>3, <3>4, <3>5
    <2> QED
      BY <2>1, <2>2
  <1> QED
    BY <1>2, <1>5, <1>6

(* In the end *)
LEMMA BlocksEnd ==
  ASSUME LevelsKept, MigrationInv
  PROVE  BlocksRight
  <1> DEFINE R == RoundsOf(job)
  <1> SUFFICES ASSUME AllDone, NEW p \in Rank
               PROVE  /\ DOMAIN blocks[p] = {x \in NewLeaves : PlaceAt(x, Rounds) = p}
                      /\ \A x \in DOMAIN blocks[p] : blocks[p][x].data = Expected(x)
    BY DEF BlocksRight
  <1>1. job \in Jobs /\ blocks[p] = BlocksOf(job, p, "done", iter[p])
    BY Holds DEF AllDone
  <1>2. /\ {x \in NewLeaves : PlaceAt(x, Rounds) = p} = OnOf(job, p, R)
        /\ \A x : Expected(x) = ExpectedOf(job, x)
    BY Static DEF OnOf, Expected, ExpectedOf
  <1>3. CASE ~SkipsOf(job)
    <2>1. blocks[p] = [x \in OnOf(job, p, R) |-> NewBlock(job, p, x, "done")]
      BY <1>1, <1>3 DEF BlocksOf, Updated
    <2>2. ASSUME NEW x \in DOMAIN blocks[p]
          PROVE  blocks[p][x].data = ExpectedOf(job, x)
      <3>1. blocks[p][x] = NewBlock(job, p, x, "done")
        BY <2>1
      <3> QED
        BY <3>1 DEF NewBlock
    <2> QED
      BY <1>2, <2>1, <2>2
  <1>4. CASE SkipsOf(job)
    <2>1. blocks[p] = [b \in LeavesOn(job, p) |-> OldBlock(job, p, b, "done", iter[p])]
      BY <1>1, <1>4 DEF BlocksOf, Updated
    <2>2. OnOf(job, p, R) = LeavesOn(job, p) /\ \A b \in LeavesOf(job) : ExpectedOf(job, b) = b
      BY <1>1, <1>4, SkippedSame
    <2>3. ASSUME NEW x \in DOMAIN blocks[p]
          PROVE  blocks[p][x].data = ExpectedOf(job, x)
      <3>1. blocks[p][x] = OldBlock(job, p, x, "done", iter[p]) /\ x \in LeavesOf(job)
        BY <2>1 DEF LeavesOn
      <3>2. blocks[p][x].data = x
        BY <3>1 DEF OldBlock
      <3> QED
        BY <2>2, <3>1, <3>2
    <2> QED
      BY <1>2, <2>1, <2>2, <2>3
  <1> QED
    BY <1>3, <1>4

(* The sources on q of the fresh blocks of p: what p counts buffers by *)
PartsOf(j, q, p) ==
  UNION {{<<x, i>> : i \in {k \in DOMAIN SourcesOf(j, x) : FromOf(j, x)[k] = q}} :
         x \in FreshOf(j, p)}

LEMMA PartIs ==
  ASSUME NEW j, NEW q, NEW p
  PROVE  \A w : w \in PartsOf(j, q, p) <=>
           \E x \in FreshOf(j, p) : \E i \in DOMAIN SourcesOf(j, x) :
             w = <<x, i>> /\ FromOf(j, x)[i] = q
  BY DEF PartsOf

LEMMA DataIs ==
  ASSUME NEW j, NEW q, NEW p
  PROVE  \A c : c \in DataOf(j, q, p) <=>
           \E b \in GoneOf(j, q) : \E i \in DOMAIN TargetsOf(j, b) :
             /\ c = [from |-> b, to |-> TargetsOf(j, b)[i], data |-> b]
             /\ PlaceOf(j, TargetsOf(j, b)[i], RoundsOf(j)) = p
  BY DEF DataOf

LEMMA DataFinite ==
  ASSUME NEW j \in Jobs, NEW q, NEW p
  PROVE  IsFiniteSet(DataOf(j, q, p))
  <1> DEFINE f == [c \in DataOf(j, q, p) |-> <<c.from, c.to>>]
             T == Id \X Id
  <1>1. \A c \in DataOf(j, q, p) :
          c.from \in Id /\ c.to \in Id /\ c = [from |-> c.from, to |-> c.to, data |-> c.from]
    <2> TAKE c \in DataOf(j, q, p)
    <2>1. PICK b \in GoneOf(j, q) : \E i \in DOMAIN TargetsOf(j, b) :
            /\ c = [from |-> b, to |-> TargetsOf(j, b)[i], data |-> b]
            /\ PlaceOf(j, TargetsOf(j, b)[i], RoundsOf(j)) = p
      BY DataIs
    <2>2. PICK i \in DOMAIN TargetsOf(j, b) : c = [from |-> b, to |-> TargetsOf(j, b)[i], data |-> b]
      BY <2>1
    <2>3. b \in LeavesOf(j) /\ b \in Id
      BY JobIs DEF GoneOf, LeavesOn
    <2>4. TargetsOf(j, b)[i] \in Id
      BY <2>3, TargetsBack, NewIn
    <2> QED
      BY <2>2, <2>3, <2>4
  <1>2. f \in Injection(DataOf(j, q, p), T)
    <2>1. f \in [DataOf(j, q, p) -> T]
      BY <1>1
    <2>2. \A c, d \in DataOf(j, q, p) : f[c] = f[d] => c = d
      <3> TAKE c, d \in DataOf(j, q, p)
      <3> HAVE f[c] = f[d]
      <3>1. c.from = d.from /\ c.to = d.to
        OBVIOUS
      <3>2. /\ c = [from |-> c.from, to |-> c.to, data |-> c.from]
            /\ d = [from |-> d.from, to |-> d.to, data |-> d.from]
        BY <1>1
      <3> QED
        BY <3>1, <3>2
    <2> QED
      BY <2>1, <2>2 DEF Injection, IsInjective
  <1>3. IsFiniteSet(T)
    BY TreeAssumption, FS_Product
  <1> HIDE DEF f, T
  <1> QED
    BY <1>2, <1>3, FS_Injection

(* A buffer comes for every source. *)
LEMMA DataCounted ==
  ASSUME NEW j \in Jobs, NEW q \in Rank, NEW p \in Rank
  PROVE  Cardinality(DataOf(j, q, p)) = Cardinality(PartsOf(j, q, p))
  <1> DEFINE A == DataOf(j, q, p)
             B == PartsOf(j, q, p)
             I(c) == CHOOSE k \in DOMAIN SourcesOf(j, c.to) : SourcesOf(j, c.to)[k] = c.from
             f == [c \in A |-> <<c.to, I(c)>>]
  <1>1. ASSUME NEW c \in A
        PROVE  /\ c.to \in FreshOf(j, p) /\ I(c) \in DOMAIN SourcesOf(j, c.to)
               /\ SourcesOf(j, c.to)[I(c)] = c.from /\ FromOf(j, c.to)[I(c)] = q
               /\ c = [from |-> c.from, to |-> c.to, data |-> c.from]
    <2>1. PICK b \in GoneOf(j, q) : \E i \in DOMAIN TargetsOf(j, b) :
            /\ c = [from |-> b, to |-> TargetsOf(j, b)[i], data |-> b]
            /\ PlaceOf(j, TargetsOf(j, b)[i], RoundsOf(j)) = p
      BY DataIs
    <2>2. PICK i \in DOMAIN TargetsOf(j, b) :
            /\ c = [from |-> b, to |-> TargetsOf(j, b)[i], data |-> b]
            /\ PlaceOf(j, TargetsOf(j, b)[i], RoundsOf(j)) = p
      BY <2>1
    <2> DEFINE x == TargetsOf(j, b)[i]
    <2>3. c.from = b /\ c.to = x /\ PlaceOf(j, x, RoundsOf(j)) = p
      BY <2>2
    <2>4. b \in LeavesOf(j) /\ j.place[b] = q
      BY DEF GoneOf, LeavesOn
    <2>5. TargetsOf(j, b)[i] \in FreshOf(j, PlaceOf(j, TargetsOf(j, b)[i], RoundsOf(j)))
      BY <2>4, GoneFresh
    <2>6. \E k \in DOMAIN SourcesOf(j, x) : SourcesOf(j, x)[k] = b
      BY <2>4, TargetsBack
    <2> HIDE DEF x, A
    <2>7. I(c) \in DOMAIN SourcesOf(j, x) /\ SourcesOf(j, x)[I(c)] = b
      BY <2>3, <2>6
    <2> HIDE DEF I
    <2>8. FromOf(j, x)[I(c)] = q
      BY <2>4, <2>7 DEF FromOf
    <2>9. c.to \in FreshOf(j, p)
      BY <2>3, <2>5 DEF x
    <2>10. c = [from |-> c.from, to |-> c.to, data |-> c.from]
      BY <2>2, <2>3 DEF x
    <2> QED
      BY <2>3, <2>7, <2>8, <2>9, <2>10
  <1> HIDE DEF I
  <1>2. f \in [A -> B]
    <2>1. ASSUME NEW c \in A
          PROVE  <<c.to, I(c)>> \in B
      BY <1>1, PartIs
    <2> HIDE DEF A, B
    <2> QED
      BY <2>1
  <1>3. \A c, d \in A : f[c] = f[d] => c = d
    <2> TAKE c, d \in A
    <2> HAVE f[c] = f[d]
    <2>1. c.to = d.to /\ I(c) = I(d)
      OBVIOUS
    <2> HIDE DEF A, f
    <2>2. c.from = d.from
      BY <1>1, <2>1
    <2>3. /\ c = [from |-> c.from, to |-> c.to, data |-> c.from]
          /\ d = [from |-> d.from, to |-> d.to, data |-> d.from]
      BY <1>1
    <2> QED
      BY <2>1, <2>2, <2>3
  <1>4. \A w \in B : \E c \in A : f[c] = w
    <2> TAKE w \in B
    <2>1. PICK x \in FreshOf(j, p) : \E i \in DOMAIN SourcesOf(j, x) :
            w = <<x, i>> /\ FromOf(j, x)[i] = q
      BY PartIs
    <2>2. PICK k \in DOMAIN SourcesOf(j, x) : w = <<x, k>> /\ FromOf(j, x)[k] = q
      BY <2>1
    <2> DEFINE b == SourcesOf(j, x)[k]
               i == IndexOf(j, x)
               c == [from |-> b, to |-> TargetsOf(j, b)[i], data |-> b]
    <2>3. x \in NewOf(j) /\ PlaceOf(j, x, RoundsOf(j)) = p
      BY DEF FreshOf, OnOf
    <2>4. b \in LeavesOf(j) /\ i \in DOMAIN TargetsOf(j, b) /\ TargetsOf(j, b)[i] = x
      BY <2>3, SourcesBack
    <2>5. j.place[b] = q
      BY <2>2 DEF FromOf
    <2> HIDE DEF b, i
    <2>6. TargetsOf(j, b)[i] \in FreshOf(j, PlaceOf(j, TargetsOf(j, b)[i], RoundsOf(j)))
      BY <2>3, <2>4
    <2>7. b \in GoneOf(j, j.place[b])
      BY <2>4, <2>6, GoneFresh
    <2>8. c \in A
      BY <2>3, <2>4, <2>5, <2>7, DataIs
    <2>9. c.to = x /\ c.from = SourcesOf(j, x)[k]
      BY <2>4 DEF b
    <2> HIDE DEF c
    <2>10. I(c) = k
      <3>1. I(c) \in DOMAIN SourcesOf(j, x) /\ SourcesOf(j, x)[I(c)] = SourcesOf(j, x)[k]
        BY <1>1, <2>8, <2>9
      <3> QED
        BY <2>3, <3>1, SourcesAre
    <2> HIDE DEF A
    <2>11. f[c] = <<x, k>>
      BY <2>8, <2>9, <2>10
    <2> QED
      BY <2>2, <2>8, <2>11
  <1> HIDE DEF f
  <1>5. f \in Bijection(A, B)
    <2> HIDE DEF A, B
    <2> QED
      BY <1>2, <1>3, <1>4 DEF Bijection, Injection, Surjection, IsInjective
  <1>6. ExistsBijection(A, B)
    BY <1>5 DEF ExistsBijection
  <1>7. IsFiniteSet(A)
    BY DataFinite
  <1> HIDE DEF A, B
  <1>8. Cardinality(B) = Cardinality(A)
    BY <1>6, <1>7, FS_Bijection
  <1> QED
    BY <1>8 DEF A, B

(* A block that is packed has heard of all its targets from where they are. *)
LEMMA StatesCome ==
  ASSUME MigrationInv, NEW p \in Rank, pc[p] = "states", Arrived("states", p),
         NEW b \in Gone(p), NEW i \in DOMAIN Targets(b)
  PROVE  Targets(b)[i] \in IF blocks[p][b].to[i] = p THEN Fresh(p)
                           ELSE Msg("states", blocks[p][b].to[i], p)
  <1> DEFINE x == TargetsOf(job, b)[i]
             R == RoundsOf(job)
             q == PlaceOf(job, x, R)
  <1>1. job \in Jobs /\ iter[p] \in Nat /\ R \in Nat
    BY Holds
  <1>2. b \in GoneOf(job, p) /\ b \in LeavesOn(job, p)
    BY GoneIs
  <1>3. b \in LeavesOf(job) /\ job.place[b] = p
    BY <1>2 DEF LeavesOn
  <1>4. Targets(b) = TargetsOf(job, b)
    BY Static
  <1>5. i \in DOMAIN TargetsOf(job, b)
    BY <1>4
  <1>6. blocks[p][b].to[i] = q
    <2>1. blocks[p][b].to = [k \in DOMAIN TargetsOf(job, b) |-> PlaceOf(job, TargetsOf(job, b)[k], R)]
      BY <1>2, GoneIs
    <2> HIDE DEF R
    <2> QED
      BY <1>5, <2>1
  <1>7. TargetsOf(job, b)[i] \in FreshOf(job, PlaceOf(job, TargetsOf(job, b)[i], RoundsOf(job)))
    BY <1>1, <1>2, <1>3, <1>5, GoneFresh
  <1>8. x \in NewOf(job) /\ \E k \in DOMAIN SourcesOf(job, x) : SourcesOf(job, x)[k] = b
    BY <1>1, <1>3, <1>5, TargetsBack
  <1>9. q \in Rank
    <2>1. R \in 0..RoundsOf(job)
      BY <1>1
    <2> QED
      BY <1>1, <1>8, <2>1, PlaceIn
  <1> HIDE DEF x
  <1>10. x \in FreshOf(job, q)
    BY <1>7 DEF x
  <1>11. CASE q = p
    BY <1>4, <1>6, <1>10, <1>11, FreshIs DEF x
  <1>12. CASE q # p
    <2>1. p \in ToSet(FromOf(job, x))
      BY <1>3, <1>8 DEF ToSet, FromOf
    <2>2. "states" = TagAt(pc[p]) /\ 0 = ReadOf("states", pc[p], iter[p]) /\ pc[p] \in Waits
      BY DEF TagAt, ReadOf, Waits
    <2>3. /\ await[p] = {s \in Rank : Applies(job, "states", 0, s, p)}
          /\ \A s \in await[p] : Msg("states", s, p) = Said(job, "states", 0, s, p)
      BY <2>2, Received
    <2> HIDE DEF q
    <2>4. Applies(job, "states", 0, q, p)
      BY <1>10, <1>12, <2>1 DEF Applies
    <2>5. Msg("states", q, p) = Said(job, "states", 0, q, p)
      BY <1>9, <2>3, <2>4
    <2>6. x \in Said(job, "states", 0, q, p)
      BY <1>10, <2>1 DEF Said
    <2> QED
      BY <1>4, <1>6, <1>12, <2>5, <2>6 DEF x
  <1> QED
    BY <1>11, <1>12

LEMMA DataCome ==
  ASSUME MigrationInv, NEW p \in Rank, pc[p] = "data", Arrived("data", p), NEW q \in await[p]
  PROVE  Cardinality(Msg("data", q, p)) =
           Cardinality(UNION {{<<x, i>> : i \in {k \in DOMAIN Sources(x) :
                                                  phantoms[p][x].from[k] = q}} : x \in Fresh(p)})
  <1> DEFINE A(x) == {<<x, i>> : i \in {k \in DOMAIN Sources(x) : phantoms[p][x].from[k] = q}}
             B(x) == {<<x, i>> : i \in {k \in DOMAIN SourcesOf(job, x) : FromOf(job, x)[k] = q}}
  <1>1. job \in Jobs
    BY Holds
  <1>2. "data" = TagAt(pc[p]) /\ 0 = ReadOf("data", pc[p], iter[p]) /\ pc[p] \in Waits
    BY DEF TagAt, ReadOf, Waits
  <1>3. q \in Rank /\ Msg("data", q, p) = DataOf(job, q, p)
    <2>1. /\ await[p] = {s \in Rank : Applies(job, "data", 0, s, p)}
          /\ \A s \in await[p] : Msg("data", s, p) = Said(job, "data", 0, s, p)
      BY <1>2, Received
    <2>2. Said(job, "data", 0, q, p) = DataOf(job, q, p)
      BY DEF Said
    <2> QED
      BY <2>1, <2>2
  <1>4. Fresh(p) = FreshOf(job, p)
    BY FreshIs
  <1>5. ASSUME NEW x \in FreshOf(job, p)
        PROVE  A(x) = B(x)
    <2>1. phantoms[p][x].from = FromOf(job, x)
      BY FreshIs DEF FreshOf
    <2>2. Sources(x) = SourcesOf(job, x)
      BY Static
    <2> QED
      BY <2>1, <2>2
  <1>6. UNION {A(x) : x \in Fresh(p)} = PartsOf(job, q, p)
    <2>1. PartsOf(job, q, p) = UNION {B(x) : x \in FreshOf(job, p)}
      BY DEF PartsOf
    <2> HIDE DEF A, B
    <2> QED
      BY <1>4, <1>5, <2>1
  <1> QED
    BY <1>1, <1>3, <1>6, DataCounted

LEMMA TargetsAnswered == MigrationInv => TargetsAnswer
  BY StatesCome, DataCome DEF TargetsAnswer

(* Blocks and phantoms are of the forest before and after throughout a refresh. *)
THEOREM MigrationTypeCorrect == Spec => []TypeOK
  BY MigrationInvariance, MigrationTyped, PTL

(* Processes that have ended the same round agree on who is in whose network: with
   buffer processes, too, none waits for one that does not send. *)
THEOREM NetworksAgree == Spec => []NetworkSymmetric
  BY MigrationInvariance, NetworksMutual, PTL

(* What a process is told twice of a block to be is the same: the assertion on
   localMap in initialize never fails. *)
THEOREM ToldTwiceTheSame == Spec => []KnownOnce
  BY MigrationInvariance, KnownAgree, PTL

(* The assertions of update never fail: a block that is packed has been told the
   state of each of its targets by the process its link has followed it to, and
   every process is sent a buffer for each source its fresh blocks have there. *)
THEOREM AllTargetsAnswer == Spec => []TargetsAnswer
  BY MigrationInvariance, TargetsAnswered, PTL

(* Where the leaves that touching blocks are begun by have at most one leaf between
   them, the two exchanges of initialize make every phantom know all its
   neighbours, and the rounds of balancing keep them right. *)
THEOREM NeighborhoodsStayRight ==
  ASSUME OneBetween, LevelsKept
  PROVE  Spec => []NeighborhoodsRight
  <1>1. MigrationInv => NeighborhoodsRight
    BY NeighborsHeld, NetworksMutual, KnownAgree DEF NeighborhoodsRight
  <1> QED
    BY <1>1, MigrationInvariance, PTL

(* Where an early out is checked for only when no level changes, the refresh ends
   with the blocks it was to make, each where its phantom came to rest and with the
   data it was to have, whatever the neighbourhoods are. *)
THEOREM RefreshMakesBlocks ==
  ASSUME LevelsKept
  PROVE  Spec => []BlocksRight
  <1>1. MigrationInv => BlocksRight
    BY BlocksEnd
  <1> QED
    BY <1>1, MigrationInvariance, PTL

=============================================================================
