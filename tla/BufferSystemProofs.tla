------------------------- MODULE BufferSystemProofs -------------------------
(* Theorems about BufferSystem: all processes use the same way to communicate
   in the same step, so that what is under way between two of them is always
   what the receiver waits for, and every step is an exchange of buffers.

   The argument: the way of a step is a function of the program alone (Way),
   which each process follows by its own bookkeeping (ProcessInv).  A process
   may be any number of steps ahead of one it only sends to, so the invariant of
   a channel does not say what it holds but what of the program it holds:
   exactly the messages that are sent and not yet taken (Due), in the order of
   the program (ChannelInv).  A receiver waits for the least of them, and never
   has taken or passed a message of a step its sender has not come to
   (NotMissed). *)
EXTENDS BufferSystem, SequenceTheorems, TLAPS

-----------------------------------------------------------------------------
(* The way to communicate as a function of the program.  These operators take
   the program as parameters: no step changes it. *)

(* j is the last set-up at or before step k. *)
IsInForce(pl, j, k) ==
  /\ j \in 1..k /\ pl[j].call # "none"
  /\ \A i \in (j + 1)..k : pl[i].call = "none"

InForceIn(pl, k) == CHOOSE j \in 1..k : /\ pl[j].call # "none"
                                        /\ \A i \in (j + 1)..k : pl[i].call = "none"

(* Step k has a set-up in force.  That every step has one needs an induction
   over the plan; the processes carry it along instead. *)
HasSetUp(pl, k) == IsInForce(pl, InForceIn(pl, k), k)

Changing(pl, k) == pl[InForceIn(pl, k)].changing

(* What a set-up and the end of a step choose *)
CommFor(md, known) ==
  IF known THEN "known" ELSE IF md.probe THEN "iprobe" ELSE "unknown"

SetUpWay(pl, md, k) == CommFor(md, SizesGiven(pl[InForceIn(pl, k)]))

LaterWay(pl, md, k) == IF Changing(pl, k) THEN SetUpWay(pl, md, k) ELSE "known"

(* The way of step k *)
Way(pl, md, k) ==
  IF InForceIn(pl, k) = k THEN SetUpWay(pl, md, k) ELSE LaterWay(pl, md, k)

Msg(kind, ld, s, k) == [kind |-> kind, len |-> ld[k][s], of |-> k]

(* What s sends each receiver in step k, communicating in way w *)
Part(w, ld, s, k) ==
  IF w = "unknown" THEN <<Msg("size", ld, s, k), Msg("content", ld, s, k)>>
                   ELSE <<Msg("content", ld, s, k)>>

Kind == {"size", "content"}

KindsOf(w) == IF w = "unknown" THEN Kind ELSE {"content"}

(* ... and what is left of it for a receiver that waits for x *)
Open(x, w) ==
  IF x = "done" THEN {} ELSE IF x = "content" THEN {"content"} ELSE KindsOf(w)

(* The receives of a step that runs in way w *)
WantsIn(w) ==
  CASE w = "known"   -> {"content", "done"}
    [] w = "unknown" -> {"size", "content", "done"}
    [] w = "iprobe"  -> {"probe", "done"}

(* Nothing of the step has been taken. *)
Fresh(x, w) == x \in {"idle", "size", "probe"} \/ (x = "content" /\ w = "known")

-----------------------------------------------------------------------------
(* The inductive invariant *)

DomainInv ==
  /\ \E g \in Programs : to = g.to /\ plan = g.plan /\ mode = g.mode
  /\ LoadOK(load)

(* Every step a process has set up or ended has a set-up in force. *)
SetUpInv ==
  \A r \in Rank : \A k \in 1..Steps :
    k <= step[r] \/ (k = step[r] + 1 /\ set[r]) => HasSetUp(plan, k)

(* The bookkeeping of a process follows the program. *)
ProcessInv(r) ==
  /\ running[r] => set[r]
  /\ set[r] => step[r] < Steps
  /\ ~running[r] => sent[r] = {}
  /\ running[r] => sent[r] \subseteq to[step[r] + 1][r]
  /\ set[r] => /\ comm[r] = Way(plan, mode, step[r] + 1)
               /\ changes[r] = Changing(plan, step[r] + 1)
               /\ from[r] = Senders(r, step[r] + 1)
  /\ ~set[r] /\ step[r] > 0 => /\ comm[r] = LaterWay(plan, mode, step[r])
                               /\ changes[r] = Changing(plan, step[r])
                               /\ from[r] = Senders(r, step[r])
  /\ \A s \in Rank :
       /\ ~set[r] /\ step[r] > 0 /\ s \in from[r] => size[r][s] = load[step[r]][s]
       /\ set[r] /\ comm[r] = "known" /\ s \in from[r] => size[r][s] = load[step[r] + 1][s]
       /\ ~running[r] => want[r][s] = "idle"
       /\ running[r] /\ s \in from[r] => want[r][s] \in WantsIn(comm[r])
       /\ want[r][s] \in {"content", "done"} => size[r][s] = load[step[r] + 1][s]
       /\ got[r][s] = IF want[r][s] = "done" THEN step[r] + 1 ELSE 0

(* The last step whose buffer for d s has sent *)
Last(s, d) == IF d \in sent[s] THEN step[s] + 1 ELSE step[s]

(* The message of kind t that s sends d in step k is under way. *)
Due(s, d, t, k) ==
  /\ d \in to[k][s] /\ k <= Last(s, d)
  /\ t \in KindsOf(Way(plan, mode, k))
  /\ \/ k > step[d] + 1
     \/ k = step[d] + 1 /\ t \in Open(want[d][s], Way(plan, mode, k))

Before(m, n) == m.of < n.of \/ (m.of = n.of /\ m.kind = "size" /\ n.kind = "content")

Pending(s, d) ==
  {m \in Message : /\ m.of \in 1..Steps /\ m = Msg(m.kind, load, s, m.of)
                   /\ Due(s, d, m.kind, m.of)}

(* c is what is in D, in the order of the program. *)
Holds(c, D) ==
  /\ \A m : m \in D <=> \E i \in 1..Len(c) : c[i] = m
  /\ \A i, j \in 1..Len(c) : i < j => Before(c[i], c[j])

ChannelInv(s, d) == Holds(chan[<<s, d>>], Pending(s, d))

(* What d has taken from s, or passed, s has sent. *)
NotMissed(s, d) ==
  \A k \in 1..Steps :
    /\ d \in to[k][s]
    /\ k <= step[d] \/ (k = step[d] + 1 /\ ~Fresh(want[d][s], Way(plan, mode, k)))
    => k <= Last(s, d)

IndInv ==
  /\ TypeOK
  /\ DomainInv
  /\ SetUpInv
  /\ ~fault
  /\ \A r \in Rank : ProcessInv(r)
  /\ \A s, d \in Rank : ChannelInv(s, d) /\ NotMissed(s, d)

-----------------------------------------------------------------------------
(* Facts about the program *)

LEMMA ProgramFacts ==
  ASSUME DomainInv
  PROVE  /\ Steps \in Nat /\ Steps > 0
         /\ plan \in Seq(SetUp) /\ DOMAIN plan = 1..Steps
         /\ \A k \in 1..Steps :
              /\ plan[k] \in SetUp
              /\ SizesGiven(plan[k]) => ~plan[k].changing
              /\ Kept(plan[k]) => to[k] = to[k - 1]
              /\ plan[k].call = "fromSend" =>
                   \A r \in Rank :
                     Senders(r, k) = IF plan[k].useSizes THEN to[k][r] ELSE Opened(to, r, k)
         /\ ~Kept(plan[1])
         /\ mode \in [probe : BOOLEAN, rendezvous : BOOLEAN]
         /\ to \in [1..Steps -> [Rank -> SUBSET Rank]]
         /\ \A r \in Rank : \A k \in 1..Steps : Senders(r, k) = {s \in Rank : r \in to[k][s]}
  <1>1. PICK g \in Programs : to = g.to /\ plan = g.plan /\ mode = g.mode
    BY DEF DomainInv
  <1>2. ProgramOK(g)
    BY ProgramAssumption
  <1>3. plan \in Seq(SetUp) /\ plan # <<>> /\ ~Kept(plan[1])
    BY <1>1, <1>2 DEF ProgramOK
  <1>4. Len(plan) \in Nat /\ Len(plan) > 0 /\ DOMAIN plan = 1..Len(plan)
    BY <1>3, EmptySeq, LenProperties
  <1>5. \A k \in 1..Len(plan) : plan[k] \in SetUp
    BY <1>3, ElementOfSeq
  <1>6. \A k \in 1..Len(plan) : /\ SizesGiven(plan[k]) => ~plan[k].changing
                                /\ Kept(plan[k]) => to[k] = to[k - 1]
    BY <1>1, <1>2, <1>4 DEF ProgramOK
  <1>7. \A k \in 1..Len(plan) :
          plan[k].call = "fromSend" =>
            \A r \in Rank :
              Senders(r, k) = IF plan[k].useSizes THEN to[k][r] ELSE Opened(to, r, k)
    BY <1>1, <1>2, <1>4 DEF ProgramOK, Rank, Senders
  <1>8. mode \in [probe : BOOLEAN, rendezvous : BOOLEAN]
    BY <1>1, <1>2 DEF ProgramOK
  <1>9. to \in [1..Len(plan) -> [Rank -> SUBSET Rank]]
    BY <1>1, <1>2, <1>4 DEF ProgramOK, Rank
  <1>10. \A r \in Rank : \A k \in 1..Len(plan) : Senders(r, k) = {s \in Rank : r \in to[k][s]}
    BY <1>9 DEF Senders, Sending
  <1> QED
    BY <1>3, <1>4, <1>5, <1>6, <1>7, <1>8, <1>9, <1>10 DEF Steps

(* The set-up in force is unique. *)
LEMMA InForceIs ==
  ASSUME NEW pl, NEW k \in Nat, NEW j, IsInForce(pl, j, k)
  PROVE  InForceIn(pl, k) = j /\ HasSetUp(pl, k)
  <1>1. IsInForce(pl, InForceIn(pl, k), k)
    BY DEF IsInForce, InForceIn
  <1>2. ASSUME NEW i, IsInForce(pl, i, k)
        PROVE  i = j
    BY <1>2 DEF IsInForce
  <1> QED
    BY <1>1, <1>2 DEF HasSetUp

LEMMA SetUpHere ==
  ASSUME NEW pl, NEW k \in Nat \ {0}, pl[k].call # "none"
  PROVE  HasSetUp(pl, k) /\ InForceIn(pl, k) = k
  BY InForceIs DEF IsInForce

LEMMA SetUpKept ==
  ASSUME NEW pl, NEW k \in Nat \ {0}, HasSetUp(pl, k), pl[k + 1].call = "none"
  PROVE  /\ HasSetUp(pl, k + 1)
         /\ InForceIn(pl, k + 1) = InForceIn(pl, k)
         /\ InForceIn(pl, k + 1) # k + 1
  <1>1. IsInForce(pl, InForceIn(pl, k), k + 1)
    BY DEF HasSetUp, IsInForce
  <1> QED
    BY <1>1, InForceIs DEF IsInForce

LEMMA WayType ==
  ASSUME NEW pl, NEW md, NEW k
  PROVE  /\ Way(pl, md, k) \in {"known", "unknown", "iprobe"}
         /\ LaterWay(pl, md, k) \in {"known", "unknown", "iprobe"}
  BY DEF Way, LaterWay, SetUpWay, CommFor

(* A step whose sizes are not exchanged has the sizes the receivers expect. *)
LEMMA KnownSizes ==
  ASSUME DomainInv, NEW k \in 1..Steps, HasSetUp(plan, k),
         Way(plan, mode, k) = "known"
  PROVE  IF plan[k].call = "none"
         THEN load[k] = load[k - 1]
         ELSE /\ SizesGiven(plan[k])
              /\ plan[k].call = "fromSend" =>
                   \A r \in Rank : \A s \in to[k][r] : load[k][s] = load[k][r]
  <1> DEFINE j == InForceIn(plan, k)
  <1>1. j = InForce(k) /\ j \in 1..k /\ IsInForce(plan, j, k)
    BY DEF HasSetUp, InForceIn, InForce, IsInForce
  <1>2. /\ SizesGiven(plan[j]) => ~plan[j].changing
        /\ plan[j] \in SetUp
    BY <1>1, ProgramFacts
  <1>3. ~SizesExchanged(k)
    BY <1>1, <1>2 DEF Way, LaterWay, SetUpWay, CommFor, Changing, SizesExchanged
  <1>4. IF j = k
        THEN plan[k].call = "fromSend" =>
               \A r \in Rank : \A s \in to[k][r] : load[k][s] = load[k][r]
        ELSE load[k] = load[k - 1]
    BY <1>1, <1>3 DEF DomainInv, LoadOK
  <1>5. j = k => plan[k].call # "none" /\ SizesGiven(plan[k])
    BY <1>1 DEF Way, SetUpWay, CommFor, IsInForce
  <1>6. j # k => plan[k].call = "none"
    BY <1>1 DEF IsInForce
  <1> QED
    BY <1>4, <1>5, <1>6

-----------------------------------------------------------------------------
(* What a channel holds *)

LEMMA MsgType ==
  ASSUME TypeOK, DomainInv, NEW s \in Rank, NEW k \in 1..Steps, NEW t \in Kind
  PROVE  Msg(t, load, s, k) \in Message
  <1>1. load \in [1..Steps -> [Rank -> 1..MaxLen]] /\ Steps \in Nat
    BY ProgramFacts DEF TypeOK
  <1>2. load[k][s] \in 1..MaxLen /\ k \in Nat
    BY <1>1
  <1> QED
    BY <1>2 DEF Msg, Message, Kind

(* The messages of one buffer, in their order *)
PartSet(w, ld, s, k) == {Msg(t, ld, s, k) : t \in KindsOf(w)}

LEMMA PartFacts ==
  ASSUME TypeOK, DomainInv, NEW s \in Rank, NEW k \in 1..Steps, NEW w
  PROVE  /\ Part(w, load, s, k) \in Seq(Message)
         /\ Holds(Part(w, load, s, k), PartSet(w, load, s, k))
  <1> DEFINE a == Msg("size", load, s, k)
             b == Msg("content", load, s, k)
  <1>1. a \in Message /\ b \in Message
    BY MsgType DEF Kind
  <1>2. Before(a, b)
    BY DEF Msg, Before
  <1>3. CASE w = "unknown"
    <2>1. Part(w, load, s, k) = <<a, b>> /\ PartSet(w, load, s, k) = {a, b}
      BY <1>3 DEF Part, PartSet, KindsOf, Kind
    <2> HIDE DEF a, b
    <2>2. <<a, b>> \in Seq(Message) /\ Len(<<a, b>>) = 2 /\ <<a, b>>[1] = a /\ <<a, b>>[2] = b
      BY <1>1
    <2> QED
      BY <1>2, <2>1, <2>2 DEF Holds
  <1>4. CASE w # "unknown"
    <2>1. Part(w, load, s, k) = <<b>> /\ PartSet(w, load, s, k) = {b}
      BY <1>4 DEF Part, PartSet, KindsOf
    <2> HIDE DEF b
    <2>2. <<b>> \in Seq(Message) /\ Len(<<b>>) = 1 /\ <<b>>[1] = b
      BY <1>1
    <2> QED
      BY <2>1, <2>2 DEF Holds
  <1> QED
    BY <1>3, <1>4

(* A message is not before itself. *)
LEMMA BeforeStrict ==
  ASSUME NEW m \in Message
  PROVE  ~Before(m, m)
  <1>1. m.of \in Nat
    BY DEF Message
  <1> QED
    BY <1>1 DEF Before

(* What is in front, and what is left behind it *)
LEMMA HoldsHead ==
  ASSUME NEW c \in Seq(Message), NEW D, Holds(c, D), c # <<>>
  PROVE  /\ Head(c) \in D /\ Head(c) \in Message
         /\ \A m \in D : m # Head(c) => Before(Head(c), m)
         /\ Holds(Tail(c), D \ {Head(c)})
  <1>1. Len(c) \in Nat /\ Len(c) > 0 /\ Head(c) = c[1] /\ c[1] \in Message
    <2>1. Len(c) \in Nat /\ Len(c) > 0
      BY EmptySeq
    <2> QED
      BY <2>1, ElementOfSeq
  <1>2. /\ Len(Tail(c)) = Len(c) - 1
        /\ \A i \in 1..Len(Tail(c)) : Tail(c)[i] = c[i + 1]
    BY HeadTailProperties
  <1>3. \A i \in 1..Len(c) : i # 1 => Before(c[1], c[i])
    BY <1>1 DEF Holds
  <1>4. \A i \in 1..Len(c) : i # 1 => c[i] # c[1]
    BY <1>1, <1>3, BeforeStrict
  <1>5. Head(c) \in D
    BY <1>1 DEF Holds
  <1>6. \A m \in D : m # Head(c) => Before(Head(c), m)
    BY <1>1, <1>3 DEF Holds
  <1>7. ASSUME NEW m
        PROVE  m \in D \ {Head(c)} <=> \E i \in 1..Len(Tail(c)) : Tail(c)[i] = m
    <2>1. ASSUME m \in D, m # Head(c)
          PROVE  \E i \in 1..Len(Tail(c)) : Tail(c)[i] = m
      <3>1. PICK i \in 1..Len(c) : c[i] = m
        BY <2>1 DEF Holds
      <3>2. i - 1 \in 1..Len(Tail(c)) /\ Tail(c)[i - 1] = m
        BY <1>1, <1>2, <2>1, <3>1
      <3> QED
        BY <3>2
    <2>2. ASSUME NEW i \in 1..Len(Tail(c)), Tail(c)[i] = m
          PROVE  m \in D /\ m # Head(c)
      <3>1. i + 1 \in 1..Len(c) /\ c[i + 1] = m /\ i + 1 # 1
        BY <1>1, <1>2, <2>2
      <3> QED
        BY <1>1, <1>4, <3>1 DEF Holds
    <2> QED
      BY <2>1, <2>2
  <1>8. ASSUME NEW i \in 1..Len(Tail(c)), NEW j \in 1..Len(Tail(c)), i < j
        PROVE  Before(Tail(c)[i], Tail(c)[j])
    <2>1. i + 1 \in 1..Len(c) /\ j + 1 \in 1..Len(c) /\ i + 1 < j + 1
      BY <1>1, <1>2, <1>8
    <2> QED
      BY <1>2, <2>1 DEF Holds
  <1>9. Holds(Tail(c), D \ {Head(c)})
    BY <1>7, <1>8 DEF Holds
  <1> QED
    BY <1>1, <1>5, <1>6, <1>9

(* Messages appended behind earlier ones *)
LEMMA HoldsConcat ==
  ASSUME NEW c \in Seq(Message), NEW p \in Seq(Message), NEW D, NEW E,
         Holds(c, D), Holds(p, E), \A m \in D, n \in E : Before(m, n)
  PROVE  Holds(c \o p, D \cup E)
  <1>1. /\ Len(c) \in Nat /\ Len(p) \in Nat /\ Len(c \o p) = Len(c) + Len(p)
        /\ \A i \in 1..(Len(c) + Len(p)) :
             (c \o p)[i] = IF i <= Len(c) THEN c[i] ELSE p[i - Len(c)]
    BY ConcatProperties
  <1>2. /\ \A i \in 1..Len(c) : i \in 1..Len(c \o p) /\ (c \o p)[i] = c[i]
        /\ \A i \in 1..Len(p) : Len(c) + i \in 1..Len(c \o p) /\ (c \o p)[Len(c) + i] = p[i]
        /\ \A i \in 1..Len(c \o p) :
             \/ i \in 1..Len(c)
             \/ i - Len(c) \in 1..Len(p) /\ (c \o p)[i] = p[i - Len(c)] /\ i > Len(c)
    BY <1>1
  <1>3. ASSUME NEW m
        PROVE  m \in D \cup E <=> \E i \in 1..Len(c \o p) : (c \o p)[i] = m
    <2>1. ASSUME m \in D
          PROVE  \E i \in 1..Len(c \o p) : (c \o p)[i] = m
      BY <1>2, <2>1 DEF Holds
    <2>2. ASSUME m \in E
          PROVE  \E i \in 1..Len(c \o p) : (c \o p)[i] = m
      BY <1>2, <2>2 DEF Holds
    <2>3. ASSUME NEW i \in 1..Len(c \o p), (c \o p)[i] = m
          PROVE  m \in D \cup E
      BY <1>2, <2>3 DEF Holds
    <2> QED
      BY <2>1, <2>2, <2>3
  <1>4. ASSUME NEW i \in 1..Len(c \o p), NEW j \in 1..Len(c \o p), i < j
        PROVE  Before((c \o p)[i], (c \o p)[j])
    <2>1. CASE i \in 1..Len(c) /\ j \in 1..Len(c)
      BY <1>2, <1>4, <2>1 DEF Holds
    <2>2. CASE i \in 1..Len(c) /\ j - Len(c) \in 1..Len(p) /\ (c \o p)[j] = p[j - Len(c)]
      BY <1>2, <2>2 DEF Holds
    <2>3. CASE /\ i - Len(c) \in 1..Len(p) /\ (c \o p)[i] = p[i - Len(c)]
               /\ j - Len(c) \in 1..Len(p) /\ (c \o p)[j] = p[j - Len(c)]
      <3>1. i - Len(c) < j - Len(c)
        BY <1>1, <1>4
      <3> QED
        BY <2>3, <3>1 DEF Holds
    <2>4. ~(i > Len(c) /\ j \in 1..Len(c))
      BY <1>1, <1>4
    <2> QED
      BY <1>2, <2>1, <2>2, <2>3, <2>4
  <1> QED
    BY <1>3, <1>4 DEF Holds

(* Nothing of a fresh step is missing. *)
LEMMA FreshOpen ==
  ASSUME NEW x, NEW w \in {"known", "unknown", "iprobe"}, Fresh(x, w)
  PROVE  x # "done" /\ Open(x, w) = KindsOf(w)
  BY DEF Fresh, Open, KindsOf

(* What a receiver finds at the head of a channel is of the step it is in, and
   the first of what it still has to take of it. *)
LEMMA HeadOfChannel ==
  ASSUME TypeOK, DomainInv, NEW d \in Rank, NEW s \in from[d],
         ProcessInv(d), ChannelInv(s, d),
         running[d], want[d][s] # "done", chan[<<s, d>>] # <<>>
  PROVE  LET k == step[d] + 1
             m == Head(chan[<<s, d>>]) IN
         /\ s \in Rank /\ k \in 1..Steps /\ comm[d] = Way(plan, mode, k)
         /\ m \in Message /\ m = Msg(m.kind, load, s, k)
         /\ m.kind \in Open(want[d][s], comm[d])
         /\ m.kind = "content" => "size" \notin Open(want[d][s], comm[d])
         /\ d \in to[k][s] /\ k <= Last(s, d)
  <1> DEFINE k == step[d] + 1
             c == chan[<<s, d>>]
             m == Head(c)
             open == Open(want[d][s], comm[d])
  <1>1. s \in Rank
    BY DEF TypeOK
  <1>2. k \in 1..Steps /\ comm[d] = Way(plan, mode, k) /\ from[d] = Senders(d, k)
    BY ProgramFacts DEF ProcessInv, TypeOK
  <1>3. d \in to[k][s]
    BY <1>1, <1>2, ProgramFacts
  <1>4. /\ m \in Pending(s, d) /\ m \in Message
        /\ \A n \in Pending(s, d) : n # m => Before(m, n)
    <2>1. c \in Seq(Message)
      BY <1>1 DEF TypeOK
    <2> QED
      BY <2>1, HoldsHead DEF ChannelInv
  <1>5. "content" \in open /\ open \subseteq KindsOf(comm[d]) /\ open \subseteq Kind
    BY DEF Open, KindsOf, Kind
  <1>6. m.of \in Nat /\ m.of \in 1..Steps /\ m = Msg(m.kind, load, s, m.of) /\ Due(s, d, m.kind, m.of)
    BY <1>4 DEF Pending, Message
  <1>7. Last(s, d) \in Nat /\ step[d] \in Nat
    BY <1>1, ProgramFacts DEF Last, TypeOK
  <1>8. m.of >= k /\ k <= Last(s, d)
    BY <1>6, <1>7 DEF Due
  <1>9. ASSUME NEW t \in open
        PROVE  Msg(t, load, s, k) \in Pending(s, d)
    <2>1. Msg(t, load, s, k) \in Message
      BY <1>1, <1>2, <1>5, MsgType
    <2>2. Due(s, d, t, k)
      BY <1>2, <1>3, <1>5, <1>8 DEF Due
    <2> QED
      BY <1>2, <2>1, <2>2 DEF Pending, Msg
  <1>10. \A t \in open : Msg(t, load, s, k).of = k /\ Msg(t, load, s, k).kind = t
    BY DEF Msg
  <1>11. m.of = k
    BY <1>4, <1>5, <1>6, <1>7, <1>8, <1>9, <1>10 DEF Before
  <1>12. m.kind \in open
    BY <1>2, <1>6, <1>7, <1>11 DEF Due
  <1>13. ASSUME m.kind = "content", "size" \in open
         PROVE  FALSE
    BY <1>4, <1>7, <1>9, <1>10, <1>11, <1>13 DEF Before
  <1> QED
    BY <1>1, <1>2, <1>3, <1>4, <1>6, <1>8, <1>11, <1>12, <1>13

-----------------------------------------------------------------------------
(* What a step leaves alone stays right. *)

LEMMA ProgramFrame ==
  ASSUME UNCHANGED program
  PROVE  /\ to' = to /\ plan' = plan /\ mode' = mode /\ load' = load
         /\ Rank' = Rank /\ Steps' = Steps
         /\ \A r, k : Senders(r, k)' = Senders(r, k)
  BY DEF program, Rank, Steps, Senders, Sending

LEMMA DomainFrame ==
  ASSUME DomainInv, UNCHANGED program
  PROVE  DomainInv'
  <1>1. \A k : InForce(k)' = InForce(k)
    BY DEF InForce, program
  <1>2. \A k : SizesExchanged(k)' <=> SizesExchanged(k)
    BY <1>1 DEF SizesExchanged, program
  <1>3. LoadOK(load)'
    BY <1>1, <1>2 DEF DomainInv, LoadOK, Steps, Rank, program
  <1> QED
    BY <1>3 DEF DomainInv, program, Rank

LEMMA ProcessFrame ==
  ASSUME UNCHANGED program, NEW q, ProcessInv(q),
         step'[q] = step[q], set'[q] = set[q], comm'[q] = comm[q],
         changes'[q] = changes[q], running'[q] = running[q], from'[q] = from[q],
         size'[q] = size[q], want'[q] = want[q], got'[q] = got[q], sent'[q] = sent[q]
  PROVE  ProcessInv(q)'
  BY ProgramFrame DEF ProcessInv

LEMMA PendingFrame ==
  ASSUME UNCHANGED program, NEW s, NEW d, \A t, k : Due(s, d, t, k)' <=> Due(s, d, t, k)
  PROVE  Pending(s, d)' = Pending(s, d)
  BY ProgramFrame DEF Pending, Msg, Message

(* A receiver that has started its step but taken nothing finds the channel as
   it was, too. *)
LEMMA ChannelFrame ==
  ASSUME UNCHANGED program, NEW s, NEW d, ChannelInv(s, d), NotMissed(s, d),
         step'[s] = step[s], step'[d] = step[d],
         LET w == Way(plan, mode, step[d] + 1) IN
           /\ Open(want'[d][s], w) = Open(want[d][s], w)
           /\ Fresh(want'[d][s], w) <=> Fresh(want[d][s], w),
         d \in sent'[s] <=> d \in sent[s], chan'[<<s, d>>] = chan[<<s, d>>]
  PROVE  ChannelInv(s, d)' /\ NotMissed(s, d)'
  <1>1. Last(s, d)' = Last(s, d)
    BY DEF Last
  <1>2. \A t, k : Due(s, d, t, k)' <=> Due(s, d, t, k)
    BY <1>1, ProgramFrame DEF Due
  <1>3. ChannelInv(s, d)'
    BY <1>2, PendingFrame DEF ChannelInv
  <1>4. NotMissed(s, d)'
    BY <1>1, ProgramFrame DEF NotMissed
  <1> QED
    BY <1>3, <1>4

LEMMA SetUpFrame ==
  ASSUME UNCHANGED program, SetUpInv,
         \A r \in Rank : \A k \in 1..Steps :
           k <= step'[r] \/ (k = step'[r] + 1 /\ set'[r]) =>
             k <= step[r] \/ (k = step[r] + 1 /\ set[r])
  PROVE  SetUpInv'
  BY DEF SetUpInv, program, Rank, Steps

(* The part of the type invariant that speaks of one process, and the rest *)
ProcessType(r) ==
  /\ set[r] => comm[r] # "none"
  /\ ~running[r] => sent[r] = {}
  /\ \A s \in Rank :
       /\ want[r][s] # "idle" => s \in from[r]
       /\ want[r][s] \in {"content", "done"} => size[r][s] > 0

GlobalType ==
  /\ to \in [1..Steps -> [Rank -> SUBSET Rank]]
  /\ plan \in Seq(SetUp)
  /\ mode \in [probe : BOOLEAN, rendezvous : BOOLEAN]
  /\ load \in [1..Steps -> [Rank -> 1..MaxLen]]
  /\ step \in [Rank -> 0..Steps]
  /\ set \in [Rank -> BOOLEAN]
  /\ comm \in [Rank -> {"none", "known", "unknown", "iprobe"}]
  /\ changes \in [Rank -> BOOLEAN]
  /\ running \in [Rank -> BOOLEAN]
  /\ from \in [Rank -> SUBSET Rank]
  /\ size \in [Rank -> [Rank -> 0..MaxLen]]
  /\ want \in [Rank -> [Rank -> {"idle", "size", "content", "probe", "done"}]]
  /\ got \in [Rank -> [Rank -> 0..Steps]]
  /\ sent \in [Rank -> SUBSET Rank]
  /\ chan \in [Rank \X Rank -> Seq(Message)]
  /\ fault \in BOOLEAN

LEMMA TypeParts == TypeOK <=> GlobalType /\ \A r \in Rank : ProcessType(r)
  BY DEF TypeOK, GlobalType, ProcessType

LEMMA ProcessTypeFrame ==
  ASSUME UNCHANGED program, NEW q, ProcessType(q),
         set'[q] = set[q], comm'[q] = comm[q], running'[q] = running[q],
         from'[q] = from[q], size'[q] = size[q], want'[q] = want[q], sent'[q] = sent[q]
  PROVE  ProcessType(q)'
  BY ProgramFrame DEF ProcessType

(* What the invariant says, in the parts the steps are proved for *)
LEMMA IndInvParts ==
  IndInv <=> /\ DomainInv /\ GlobalType /\ SetUpInv /\ ~fault
             /\ \A r \in Rank : ProcessType(r) /\ ProcessInv(r)
             /\ \A s, d \in Rank : ChannelInv(s, d) /\ NotMissed(s, d)
  BY TypeParts DEF IndInv

LEMMA IndInvNext ==
  ASSUME DomainInv', GlobalType', SetUpInv', ~fault',
         \A r \in Rank' : ProcessType(r)' /\ ProcessInv(r)',
         \A s, d \in Rank' : ChannelInv(s, d)' /\ NotMissed(s, d)'
  PROVE  IndInv'
  BY DEF IndInv, TypeOK, GlobalType, ProcessType

LEMMA InitIndInv ==
  ASSUME Init
  PROVE  IndInv
  <1>1. DomainInv
    BY DEF Init, DomainInv
  <1>2. Steps \in Nat /\ Steps > 0 /\ MaxLen \in Nat
    BY <1>1, ProgramFacts, SizeAssumption
  <1>3. GlobalType
    <2>1. chan \in [Rank \X Rank -> Seq(Message)]
      BY EmptySeq DEF Init
    <2>2. load \in [1..Steps -> [Rank -> 1..MaxLen]]
      BY DEF Init
    <2>3. step \in [Rank -> 0..Steps]
      BY <1>2 DEF Init
    <2>4. /\ size \in [Rank -> [Rank -> 0..MaxLen]]
          /\ got \in [Rank -> [Rank -> 0..Steps]]
      BY <1>2 DEF Init
    <2>5. /\ from \in [Rank -> SUBSET Rank]
          /\ want \in [Rank -> [Rank -> {"idle", "size", "content", "probe", "done"}]]
      BY DEF Init
    <2>6. /\ to \in [1..Steps -> [Rank -> SUBSET Rank]]
          /\ plan \in Seq(SetUp)
          /\ mode \in [probe : BOOLEAN, rendezvous : BOOLEAN]
      BY <1>1, ProgramFacts
    <2> QED
      BY <2>1, <2>2, <2>3, <2>4, <2>5, <2>6 DEF Init, GlobalType
  <1>4. SetUpInv
    BY <1>2 DEF Init, SetUpInv
  <1>5. ASSUME NEW r \in Rank
        PROVE  ProcessType(r) /\ ProcessInv(r)
    BY <1>2 DEF Init, ProcessType, ProcessInv
  <1>6. ASSUME NEW s \in Rank, NEW d \in Rank
        PROVE  ChannelInv(s, d) /\ NotMissed(s, d)
    <2>1. chan[<<s, d>>] = <<>> /\ Len(<<>>) = 0
      BY DEF Init
    <2>2. Last(s, d) = 0 /\ step[d] = 0 /\ want[d][s] = "idle"
      BY DEF Init, Last
    <2>3. \A k \in 1..Steps : \A t : ~Due(s, d, t, k)
      BY <1>2, <2>2 DEF Due
    <2>4. ChannelInv(s, d)
      <3>1. Pending(s, d) = {}
        BY <2>3 DEF Pending
      <3> QED
        BY <2>1, <3>1 DEF ChannelInv, Holds
    <2>5. NotMissed(s, d)
      BY <1>2, <2>2 DEF NotMissed, Fresh
    <2> QED
      BY <2>4, <2>5
  <1> QED
    BY <1>1, <1>3, <1>4, <1>5, <1>6, IndInvParts DEF Init

-----------------------------------------------------------------------------
(* Each step keeps the invariant. *)

(* What a set-up registers are the processes a buffer comes from. *)
LEMMA RegisteredSend ==
  ASSUME IndInv, NEW r \in Rank, SetUpStep(r)
  PROVE  Registered(r, step[r] + 1) = Senders(r, step[r] + 1)
  <1> DEFINE k == step[r] + 1
  <1>1. DomainInv /\ GlobalType /\ ProcessInv(r)
    BY IndInvParts
  <1>2. k \in 1..Steps /\ step[r] \in Nat
    BY <1>1, ProgramFacts DEF SetUpStep, GlobalType
  <1>3. CASE Kept(plan[k])
    <2>1. step[r] > 0 /\ step[r] \in 1..Steps
      BY <1>1, <1>2, <1>3, ProgramFacts
    <2>2. from[r] = Senders(r, step[r])
      BY <1>1, <2>1 DEF ProcessInv, SetUpStep
    <2>3. to[k] = to[step[r]]
      BY <1>1, <1>2, <1>3, ProgramFacts
    <2>4. Senders(r, k) = Senders(r, step[r])
      <3>1. \A s : s \in Senders(r, k) <=> s \in Rank /\ r \in to[k][s]
        BY <1>1, <1>2, ProgramFacts
      <3>2. \A s : s \in Senders(r, step[r]) <=> s \in Rank /\ r \in to[step[r]][s]
        BY <1>1, <2>1, ProgramFacts
      <3> QED
        BY <2>3, <3>1, <3>2
    <2> QED
      BY <1>3, <2>2, <2>4 DEF Registered, Kept
  <1>4. CASE ~Kept(plan[k])
    <2>1. plan[k] \in SetUp
      BY <1>1, <1>2, ProgramFacts
    <2>2. plan[k].call \in {"ranks", "sizes", "fromSend"} /\ plan[k].useSizes \in BOOLEAN
      BY <1>4, <2>1 DEF SetUp, Kept
    <2>3. CASE plan[k].call \in {"ranks", "sizes"}
      BY <1>4, <2>3 DEF Registered
    <2>4. CASE plan[k].call = "fromSend"
      <3>1. Senders(r, k) = IF plan[k].useSizes THEN to[k][r] ELSE Opened(to, r, k)
        BY <1>1, <1>2, <2>4, ProgramFacts
      <3>2. Registered(r, k) = IF plan[k].useSizes THEN to[k][r] ELSE Opened(to, r, k)
        BY <1>4, <2>2, <2>4 DEF Registered
      <3> QED
        BY <3>1, <3>2
    <2> QED
      BY <2>2, <2>3, <2>4
  <1> QED
    BY <1>3, <1>4

(* A set-up makes the process follow the program in the step it is made for. *)
LEMMA SetUpFollows ==
  ASSUME IndInv, NEW r \in Rank, SetUpStep(r)
  PROVE  LET k == step[r] + 1 IN
         /\ k \in 1..Steps /\ HasSetUp(plan, k)
         /\ comm'[r] = Way(plan, mode, k) /\ changes'[r] = Changing(plan, k)
         /\ from'[r] = Senders(r, k) /\ from'[r] \subseteq Rank
         /\ size'[r] \in [Rank -> 0..MaxLen]
         /\ comm'[r] = "known" => \A s \in from'[r] : size'[r][s] = load[k][s]
  <1> DEFINE k == step[r] + 1
  <1>1. /\ DomainInv /\ GlobalType /\ SetUpInv
        /\ ProcessType(r) /\ ProcessInv(r)
    BY IndInvParts
  <1>2. k \in 1..Steps /\ step[r] \in Nat
    BY <1>1, ProgramFacts DEF SetUpStep, GlobalType
  <1>3. plan[k] \in SetUp /\ ~Kept(plan[1])
    BY <1>1, <1>2, ProgramFacts
  <1>4. /\ r \in DOMAIN size /\ r \in DOMAIN comm /\ r \in DOMAIN changes
        /\ r \in DOMAIN from /\ size[r] \in [Rank -> 0..MaxLen]
    BY <1>1 DEF GlobalType
  <1>5. load[k] \in [Rank -> 1..MaxLen]
    BY <1>1, <1>2 DEF GlobalType
  <1>6. /\ from'[r] = Senders(r, k) /\ from'[r] \subseteq Rank
        /\ Registered(r, k) = Senders(r, k)
    <2>1. from'[r] = Registered(r, k)
      BY <1>4 DEF SetUpStep
    <2>2. Registered(r, k) = Senders(r, k)
      BY RegisteredSend
    <2>3. Senders(r, k) \subseteq Rank
      BY <1>1, <1>2, ProgramFacts
    <2> QED
      BY <2>1, <2>2, <2>3
  <1>7. CASE plan[k].call = "none"
    <2>1. comm'[r] = comm[r] /\ changes'[r] = changes[r] /\ size'[r] = size[r]
      BY <1>7 DEF SetUpStep
    <2>2. step[r] \in 1..Steps /\ HasSetUp(plan, step[r])
      <3>1. step[r] # 0
        BY <1>3, <1>7 DEF Kept
      <3>2. step[r] \in 1..Steps
        BY <1>1, <1>2, <3>1, ProgramFacts
      <3> QED
        BY <1>1, <3>2 DEF SetUpInv
    <2>3. /\ HasSetUp(plan, k) /\ InForceIn(plan, k) = InForceIn(plan, step[r])
          /\ InForceIn(plan, k) # k
      BY <1>7, <2>2, SetUpKept
    <2>4. /\ comm[r] = LaterWay(plan, mode, step[r])
          /\ changes[r] = Changing(plan, step[r])
          /\ \A s \in from[r] : s \in Rank => size[r][s] = load[step[r]][s]
      BY <1>1, <2>2 DEF ProcessInv, SetUpStep
    <2>5. comm[r] = Way(plan, mode, k) /\ changes[r] = Changing(plan, k)
      BY <2>3, <2>4 DEF Way, LaterWay, SetUpWay, Changing
    <2>6. comm[r] = "known" => load[k] = load[step[r]]
      BY <1>1, <1>2, <1>7, <2>3, <2>5, KnownSizes
    <2>7. from'[r] = from[r]
      BY <1>4, <1>7 DEF SetUpStep, Registered, Kept
    <2> QED
      BY <1>2, <1>4, <1>6, <2>1, <2>3, <2>4, <2>5, <2>6, <2>7
  <1>8. CASE plan[k].call # "none"
    <2>1. HasSetUp(plan, k) /\ InForceIn(plan, k) = k
      BY <1>2, <1>8, SetUpHere
    <2>2. /\ comm'[r] = Communication(SizesGiven(plan[k]))
          /\ changes'[r] = plan[k].changing
          /\ size'[r] = [s \in Rank |->
                          IF s \in Registered(r, k) THEN RegisteredSize(r, s, k) ELSE 0]
      BY <1>4, <1>8 DEF SetUpStep
    <2>3. comm'[r] = Way(plan, mode, k) /\ changes'[r] = Changing(plan, k)
      BY <2>1, <2>2 DEF Way, SetUpWay, CommFor, Communication, Changing
    <2>4. \A s \in Rank : RegisteredSize(r, s, k) \in 0..MaxLen
      <3>1. 0 \in 0..MaxLen /\ 1..MaxLen \subseteq 0..MaxLen
        BY SizeAssumption
      <3>2. \A s \in Rank : /\ load[k][s] \in 0..MaxLen /\ load[k][r] \in 0..MaxLen
                            /\ size[r][s] \in 0..MaxLen
        BY <1>4, <1>5, <3>1
      <3> QED
        BY <3>1, <3>2 DEF RegisteredSize
    <2>5. size'[r] \in [Rank -> 0..MaxLen]
      BY <2>2, <2>4, SizeAssumption
    <2>6. comm'[r] = "known" => \A s \in from'[r] : RegisteredSize(r, s, k) = load[k][s]
      <3>1. comm'[r] = "known" =>
              /\ SizesGiven(plan[k])
              /\ plan[k].call = "fromSend" =>
                   \A s \in to[k][r] : load[k][s] = load[k][r]
        BY <1>1, <1>2, <1>8, <2>1, <2>3, KnownSizes
      <3>2. plan[k].call = "fromSend" /\ plan[k].useSizes => from'[r] = to[k][r]
        BY <1>1, <1>2, <1>6, ProgramFacts
      <3> QED
        BY <3>1, <3>2 DEF RegisteredSize, SizesGiven, Kept
    <2>7. \A s \in from'[r] : size'[r][s] = RegisteredSize(r, s, k)
      BY <1>6, <2>2
    <2> QED
      BY <1>2, <1>6, <2>1, <2>3, <2>5, <2>6, <2>7
  <1> QED
    BY <1>7, <1>8

LEMMA SetUpStepInv ==
  ASSUME IndInv, NEW r \in Rank, SetUpStep(r)
  PROVE  IndInv'
  <1> DEFINE k == step[r] + 1
  <1>1. /\ DomainInv /\ GlobalType /\ SetUpInv /\ ~fault
        /\ \A q \in Rank : ProcessType(q) /\ ProcessInv(q)
        /\ \A s, d \in Rank : ChannelInv(s, d) /\ NotMissed(s, d)
    BY IndInvParts
  <1>2. /\ k \in 1..Steps /\ HasSetUp(plan, k)
        /\ comm'[r] = Way(plan, mode, k) /\ changes'[r] = Changing(plan, k)
        /\ from'[r] = Senders(r, k) /\ from'[r] \subseteq Rank
        /\ size'[r] \in [Rank -> 0..MaxLen]
        /\ comm'[r] = "known" => \A s \in from'[r] : size'[r][s] = load[k][s]
    BY SetUpFollows
  <1>3. /\ UNCHANGED <<program, step, running, want, got, sent, chan, fault>>
        /\ ~set[r] /\ ~running[r] /\ step[r] < Steps
        /\ set' = [set EXCEPT ![r] = TRUE]
    BY DEF SetUpStep
  <1>4. UNCHANGED program /\ Rank' = Rank /\ Steps' = Steps /\ load' = load
    BY <1>3, ProgramFrame
  <1>5. /\ \A q \in Rank \ {r} : /\ set'[q] = set[q] /\ comm'[q] = comm[q]
                                 /\ changes'[q] = changes[q] /\ size'[q] = size[q]
                                 /\ from'[q] = from[q]
        /\ set'[r] = TRUE
        /\ comm' = [comm EXCEPT ![r] = comm'[r]]
        /\ changes' = [changes EXCEPT ![r] = changes'[r]]
        /\ size' = [size EXCEPT ![r] = size'[r]]
        /\ from' = [from EXCEPT ![r] = from'[r]]
    BY <1>1 DEF SetUpStep, GlobalType
  <1>6. DomainInv'
    BY <1>1, <1>4, DomainFrame
  <1>7. GlobalType'
    <2>1. comm'[r] \in {"none", "known", "unknown", "iprobe"}
      BY <1>2, WayType
    <2>2. changes'[r] \in BOOLEAN
      <3>1. InForceIn(plan, k) \in 1..Steps
        BY <1>1, <1>2, ProgramFacts DEF HasSetUp, IsInForce
      <3> QED
        BY <1>1, <1>2, <3>1, ProgramFacts DEF Changing, SetUp
    <2>3. comm' \in [Rank -> {"none", "known", "unknown", "iprobe"}]
      BY <1>1, <1>5, <2>1 DEF GlobalType
    <2>4. changes' \in [Rank -> BOOLEAN]
      BY <1>1, <1>5, <2>2 DEF GlobalType
    <2>5. size' \in [Rank -> [Rank -> 0..MaxLen]]
      BY <1>1, <1>2, <1>5 DEF GlobalType
    <2>6. from' \in [Rank -> SUBSET Rank]
      BY <1>1, <1>2, <1>5 DEF GlobalType
    <2>7. set' \in [Rank -> BOOLEAN]
      BY <1>1, <1>3 DEF GlobalType
    <2> QED
      BY <1>1, <1>3, <1>4, <2>3, <2>4, <2>5, <2>6, <2>7 DEF GlobalType, program
  <1>8. SetUpInv'
    <2> SUFFICES ASSUME NEW q \in Rank, NEW i \in 1..Steps,
                        i <= step[q] \/ (i = step[q] + 1 /\ set'[q])
                 PROVE  HasSetUp(plan, i)
      BY <1>3, <1>4 DEF SetUpInv, program
    <2> QED
      BY <1>1, <1>2, <1>5 DEF SetUpInv
  <1>9. ASSUME NEW q \in Rank
        PROVE  ProcessType(q)' /\ ProcessInv(q)'
    <2>1. CASE q # r
      BY <1>1, <1>3, <1>4, <1>5, <2>1, ProcessFrame, ProcessTypeFrame
    <2>2. CASE q = r
      <3>1. \A s \in Rank : want[r][s] = "idle" /\ got[r][s] = 0
        BY <1>1, <1>3 DEF ProcessInv
      <3>2. ProcessType(r)'
        BY <1>1, <1>2, <1>3, <1>4, <1>5, <3>1, WayType DEF ProcessType
      <3>3. ProcessInv(r)'
        BY <1>1, <1>2, <1>3, <1>4, <1>5, <3>1, ProgramFrame DEF ProcessInv
      <3> QED
        BY <2>2, <3>2, <3>3
    <2> QED
      BY <2>1, <2>2
  <1>10. ASSUME NEW s \in Rank, NEW d \in Rank
         PROVE  ChannelInv(s, d)' /\ NotMissed(s, d)'
    BY <1>1, <1>3, <1>4, ChannelFrame
  <1> QED
    BY <1>1, <1>3, <1>4, <1>6, <1>7, <1>8, <1>9, <1>10, IndInvNext

LEMMA StartInv ==
  ASSUME IndInv, NEW r \in Rank, Start(r)
  PROVE  IndInv'
  <1> DEFINE k == step[r] + 1
  <1>1. /\ DomainInv /\ GlobalType /\ SetUpInv /\ ~fault
        /\ \A q \in Rank : ProcessType(q) /\ ProcessInv(q)
        /\ \A s, d \in Rank : ChannelInv(s, d) /\ NotMissed(s, d)
    BY IndInvParts
  <1>2. /\ UNCHANGED <<program, step, set, comm, changes, from, got, sent, chan, fault>>
        /\ set[r] /\ ~running[r] /\ ~fault'
        /\ running' = [running EXCEPT ![r] = TRUE]
    BY <1>1 DEF Start
  <1>3. UNCHANGED program /\ Rank' = Rank /\ Steps' = Steps /\ load' = load
    BY <1>2, ProgramFrame
  <1>4. /\ \A q \in Rank \ {r} : /\ running'[q] = running[q]
                                 /\ want'[q] = want[q] /\ size'[q] = size[q]
        /\ running'[r] = TRUE
        /\ want'[r] = [s \in Rank |-> IF s \in from[r] THEN FirstWant(comm[r]) ELSE "idle"]
        /\ size'[r] = IF comm[r] = "known" THEN size[r] ELSE [s \in Rank |-> 0]
        /\ want' = [want EXCEPT ![r] = want'[r]]
        /\ size' = [size EXCEPT ![r] = size'[r]]
    BY <1>1 DEF Start, GlobalType
  <1>5. comm[r] = Way(plan, mode, k) /\ comm[r] \in {"known", "unknown", "iprobe"}
    BY <1>1, <1>2, WayType DEF ProcessInv
  <1>6. /\ comm[r] = "known"   => FirstWant(comm[r]) = "content"
        /\ comm[r] = "unknown" => FirstWant(comm[r]) = "size"
        /\ comm[r] = "iprobe"  => FirstWant(comm[r]) = "probe"
    BY DEF FirstWant
  <1>7. \A s \in Rank : /\ want[r][s] = "idle" /\ got[r][s] = 0
                        /\ s \in from[r] => want'[r][s] = FirstWant(comm[r])
                        /\ s \notin from[r] => want'[r][s] = "idle"
    BY <1>1, <1>2, <1>4 DEF ProcessInv
  <1>8. DomainInv'
    BY <1>1, <1>3, DomainFrame
  <1>9. GlobalType'
    <2>1. running' \in [Rank -> BOOLEAN]
      BY <1>1, <1>2 DEF GlobalType
    <2>2. size'[r] \in [Rank -> 0..MaxLen]
      BY <1>1, <1>4, SizeAssumption DEF GlobalType
    <2>3. want'[r] \in [Rank -> {"idle", "size", "content", "probe", "done"}]
      BY <1>4, <1>5, <1>6
    <2>4. size' \in [Rank -> [Rank -> 0..MaxLen]]
      BY <1>1, <1>4, <2>2 DEF GlobalType
    <2>5. want' \in [Rank -> [Rank -> {"idle", "size", "content", "probe", "done"}]]
      BY <1>1, <1>4, <2>3 DEF GlobalType
    <2> QED
      BY <1>1, <1>2, <1>3, <2>1, <2>4, <2>5 DEF GlobalType, program
  <1>10. SetUpInv'
    BY <1>1, <1>2, <1>3, SetUpFrame
  <1>11. ASSUME NEW q \in Rank
         PROVE  ProcessType(q)' /\ ProcessInv(q)'
    <2>1. CASE q # r
      BY <1>1, <1>2, <1>3, <1>4, <2>1, ProcessFrame, ProcessTypeFrame
    <2>2. CASE q = r
      <3>1. \A s \in from[r] : /\ s \in Rank
                               /\ comm[r] = "known" => size[r][s] = load[k][s] /\ size[r][s] > 0
        <4>1. k \in 1..Steps
          BY <1>1, <1>2, ProgramFacts DEF ProcessInv, GlobalType
        <4>2. \A s \in from[r] : s \in Rank /\ load[k][s] \in 1..MaxLen
          BY <1>1, <4>1 DEF GlobalType
        <4> QED
          BY <1>1, <1>2, <4>2 DEF ProcessInv
      <3>2. ProcessType(r)'
        BY <1>1, <1>2, <1>3, <1>4, <1>5, <1>6, <1>7, <3>1 DEF ProcessType
      <3>3. ASSUME NEW s \in Rank
            PROVE  /\ s \in from[r] => want'[r][s] \in WantsIn(comm[r])
                   /\ want'[r][s] \in {"content", "done"} => size'[r][s] = load[k][s]
                   /\ want'[r][s] # "done"
                   /\ comm[r] = "known" /\ s \in from[r] => size'[r][s] = load[k][s]
        BY <1>4, <1>5, <1>6, <1>7, <3>1 DEF WantsIn
      <3>4. ProcessInv(r)'
        BY <1>1, <1>2, <1>3, <1>4, <1>7, <3>3, ProgramFrame DEF ProcessInv
      <3> QED
        BY <2>2, <3>2, <3>4
    <2> QED
      BY <2>1, <2>2
  <1>12. ASSUME NEW s \in Rank, NEW d \in Rank
         PROVE  ChannelInv(s, d)' /\ NotMissed(s, d)'
    <2>1. CASE d # r
      BY <1>1, <1>2, <1>3, <1>4, <2>1, ChannelFrame
    <2>2. CASE d = r
      <3>1. Fresh(want[r][s], comm[r]) /\ Fresh(want'[r][s], comm[r])
        BY <1>5, <1>6, <1>7 DEF Fresh
      <3>2. Open(want[r][s], comm[r]) = Open(want'[r][s], comm[r])
        BY <1>5, <3>1, FreshOpen
      <3> QED
        BY <1>1, <1>2, <1>3, <1>5, <2>2, <3>1, <3>2, ChannelFrame
    <2> QED
      BY <2>1, <2>2
  <1> QED
    BY <1>1, <1>2, <1>3, <1>8, <1>9, <1>10, <1>11, <1>12, IndInvNext

(* One more buffer is under way: what the process sends in the step it is in. *)
LEMMA SendDue ==
  ASSUME IndInv, NEW r \in Rank, NEW d \in Rank, Send(r, d)
  PROVE  LET k == step[r] + 1 IN
         /\ k \in 1..Steps /\ comm[r] = Way(plan, mode, k)
         /\ Last(r, d) = step[r] /\ Last(r, d)' = k
         /\ \A t \in Kind : \A j \in 1..Steps :
              Due(r, d, t, j)' <=> Due(r, d, t, j) \/ (j = k /\ t \in KindsOf(comm[r]))
  <1> DEFINE k == step[r] + 1
             w == Way(plan, mode, k)
  <1>1. DomainInv /\ GlobalType /\ ProcessInv(r) /\ NotMissed(r, d)
    BY IndInvParts
  <1>2. /\ UNCHANGED <<program, step, want>>
        /\ running[r] /\ d \in to[k][r] /\ d \notin sent[r]
        /\ sent' = [sent EXCEPT ![r] = @ \cup {d}]
    BY DEF Send
  <1>3. /\ k \in 1..Steps /\ comm[r] = w /\ step[r] \in Nat /\ step[d] \in Nat
        /\ w \in {"known", "unknown", "iprobe"}
    BY <1>1, <1>2, ProgramFacts, WayType DEF ProcessInv, GlobalType
  <1>4. Last(r, d) = step[r] /\ Last(r, d)' = k
    <2>1. d \in sent'[r]
      BY <1>1, <1>2 DEF GlobalType
    <2> QED
      BY <1>2, <2>1 DEF Last
  <1>5. to' = to /\ plan' = plan /\ mode' = mode
    BY <1>2, ProgramFrame
  <1>6. ~(k <= step[d]) /\ (k = step[d] + 1 => Fresh(want[d][r], w))
    BY <1>1, <1>2, <1>3, <1>4 DEF NotMissed
  <1>7. k > step[d] + 1 \/ (k = step[d] + 1 /\ Open(want[d][r], w) = KindsOf(w))
    BY <1>3, <1>6, FreshOpen
  <1>8. ASSUME NEW t \in Kind, NEW j \in 1..Steps
        PROVE  Due(r, d, t, j)' <=> Due(r, d, t, j) \/ (j = k /\ t \in KindsOf(comm[r]))
    <2>1. CASE j = k
      BY <1>2, <1>3, <1>4, <1>5, <1>7, <2>1 DEF Due
    <2>2. CASE j # k
      <3>1. j <= k <=> j <= step[r]
        BY <1>3, <2>2
      <3> QED
        BY <1>2, <1>4, <1>5, <2>2, <3>1 DEF Due
    <2> QED
      BY <2>1, <2>2
  <1> QED
    BY <1>3, <1>4, <1>8

LEMMA SendChannel ==
  ASSUME IndInv, NEW r \in Rank, NEW d \in Rank, Send(r, d)
  PROVE  ChannelInv(r, d)' /\ NotMissed(r, d)'
  <1> DEFINE k == step[r] + 1
             c == chan[<<r, d>>]
             p == Part(comm[r], load, r, k)
             more == PartSet(comm[r], load, r, k)
  <1>1. /\ TypeOK /\ DomainInv /\ GlobalType /\ ProcessInv(r)
        /\ ChannelInv(r, d) /\ NotMissed(r, d)
    BY IndInvParts DEF IndInv
  <1>2. /\ UNCHANGED <<program, step, want>>
        /\ chan' = [chan EXCEPT ![<<r, d>>] = @ \o Messages(r)]
    BY DEF Send
  <1>3. /\ k \in 1..Steps /\ comm[r] = Way(plan, mode, k)
        /\ Last(r, d) = step[r] /\ Last(r, d)' = k
    BY SendDue
  <1>4. to' = to /\ plan' = plan /\ mode' = mode /\ load' = load /\ Steps' = Steps
    BY <1>2, ProgramFrame
  <1>5. c \in Seq(Message) /\ chan'[<<r, d>>] = c \o p
    <2>1. Messages(r) = p
      BY DEF Messages, Part, Msg
    <2> QED
      BY <1>1, <1>2, <2>1 DEF GlobalType
  <1>6. step[r] \in Nat
    BY <1>1, ProgramFacts DEF GlobalType
  <1>7. Pending(r, d)' = Pending(r, d) \cup more
    <2>1. ASSUME NEW m \in Message, m.of \in 1..Steps
          PROVE  Due(r, d, m.kind, m.of)' <=>
                   Due(r, d, m.kind, m.of) \/ (m.of = k /\ m.kind \in KindsOf(comm[r]))
      <3>1. m.kind \in Kind
        BY DEF Message, Kind
      <3> QED
        BY <2>1, <3>1, SendDue
    <2>2. \A m : m \in more => /\ m \in Message /\ m.of = k /\ m.kind \in KindsOf(comm[r])
                              /\ m = Msg(m.kind, load, r, k)
      <3>1. KindsOf(comm[r]) \subseteq Kind
        BY DEF KindsOf, Kind
      <3>2. \A t \in KindsOf(comm[r]) :
              Msg(t, load, r, k) \in Message /\ Msg(t, load, r, k).of = k /\ Msg(t, load, r, k).kind = t
        BY <1>1, <1>3, <3>1, MsgType DEF Msg
      <3> QED
        BY <3>2 DEF PartSet
    <2>3. \A m : m.kind \in KindsOf(comm[r]) /\ m = Msg(m.kind, load, r, k) => m \in more
      BY DEF PartSet
    <2>4. Pending(r, d)' = {m \in Message : /\ m.of \in 1..Steps /\ m = Msg(m.kind, load, r, m.of)
                                            /\ Due(r, d, m.kind, m.of)'}
      BY <1>4 DEF Pending, Msg, Message
    <2> QED
      BY <1>3, <2>1, <2>2, <2>3, <2>4 DEF Pending
  <1>8. \A m \in Pending(r, d), n \in more : Before(m, n)
    <2>1. ASSUME NEW m \in Pending(r, d)
          PROVE  m.of \in Nat /\ m.of < k
      BY <1>3, <1>6 DEF Pending, Due, Message
    <2>2. \A n \in more : n.of = k
      BY DEF PartSet, Msg
    <2> QED
      BY <2>1, <2>2 DEF Before
  <1>9. p \in Seq(Message) /\ Holds(p, more)
    BY <1>1, <1>3, PartFacts
  <1>10. Holds(c \o p, Pending(r, d) \cup more)
    BY <1>1, <1>5, <1>8, <1>9, HoldsConcat DEF ChannelInv
  <1>11. ChannelInv(r, d)'
    BY <1>5, <1>7, <1>10 DEF ChannelInv
  <1>12. NotMissed(r, d)'
    <2>1. \A j \in 1..Steps : j <= step[r] => j <= k
      BY <1>6
    <2> QED
      BY <1>1, <1>2, <1>3, <1>4, <2>1 DEF NotMissed
  <1> QED
    BY <1>11, <1>12

LEMMA SendInv ==
  ASSUME IndInv, NEW r \in Rank, NEW t \in Rank, Send(r, t)
  PROVE  IndInv'
  <1>1. /\ TypeOK /\ DomainInv /\ GlobalType /\ SetUpInv /\ ~fault
        /\ \A q \in Rank : ProcessType(q) /\ ProcessInv(q)
        /\ \A s, d \in Rank : ChannelInv(s, d) /\ NotMissed(s, d)
    BY IndInvParts DEF IndInv
  <1>2. /\ UNCHANGED <<program, step, set, comm, changes, running, from, size, want, got, fault>>
        /\ running[r] /\ t \in to[step[r] + 1][r]
        /\ sent' = [sent EXCEPT ![r] = @ \cup {t}]
        /\ chan' = [chan EXCEPT ![<<r, t>>] = @ \o Messages(r)]
    BY DEF Send
  <1>3. UNCHANGED program /\ Rank' = Rank /\ Steps' = Steps /\ load' = load
    BY <1>2, ProgramFrame
  <1>4. Messages(r) \in Seq(Message)
    <2>1. Messages(r) = Part(comm[r], load, r, step[r] + 1)
      BY DEF Messages, Part, Msg
    <2>2. step[r] + 1 \in 1..Steps
      BY SendDue
    <2> QED
      BY <1>1, <2>1, <2>2, PartFacts
  <1>5. <<r, t>> \in Rank \X Rank /\ chan[<<r, t>>] \in Seq(Message)
    BY <1>1 DEF GlobalType
  <1>6. /\ \A q \in Rank \ {r} : sent'[q] = sent[q]
        /\ sent'[r] = sent[r] \cup {t}
        /\ \A s, d \in Rank : <<s, d>> # <<r, t>> => chan'[<<s, d>>] = chan[<<s, d>>]
    BY <1>1, <1>2, <1>5 DEF GlobalType
  <1>7. DomainInv'
    BY <1>1, <1>3, DomainFrame
  <1>8. GlobalType'
    <2>1. chan[<<r, t>>] \o Messages(r) \in Seq(Message)
      BY <1>4, <1>5, ConcatProperties
    <2>2. chan' \in [Rank \X Rank -> Seq(Message)]
      BY <1>1, <1>2, <2>1 DEF GlobalType
    <2>3. sent' \in [Rank -> SUBSET Rank]
      BY <1>1, <1>2 DEF GlobalType
    <2> QED
      BY <1>1, <1>2, <1>3, <2>2, <2>3 DEF GlobalType, program
  <1>9. SetUpInv'
    BY <1>1, <1>2, <1>3, SetUpFrame
  <1>10. ASSUME NEW q \in Rank
         PROVE  ProcessType(q)' /\ ProcessInv(q)'
    <2>1. CASE q # r
      BY <1>1, <1>2, <1>3, <1>6, <2>1, ProcessFrame, ProcessTypeFrame
    <2>2. CASE q = r
      <3>1. ProcessType(r)'
        BY <1>1, <1>2, <1>3, <1>6 DEF ProcessType
      <3>2. ProcessInv(r)'
        BY <1>1, <1>2, <1>3, <1>6, ProgramFrame DEF ProcessInv
      <3> QED
        BY <2>2, <3>1, <3>2
    <2> QED
      BY <2>1, <2>2
  <1>11. ASSUME NEW s \in Rank, NEW d \in Rank
         PROVE  ChannelInv(s, d)' /\ NotMissed(s, d)'
    <2>1. CASE s # r \/ d # t
      <3>1. (d \in sent'[s] <=> d \in sent[s]) /\ chan'[<<s, d>>] = chan[<<s, d>>]
        BY <1>6, <2>1
      <3> QED
        BY <1>1, <1>2, <1>3, <3>1, ChannelFrame
    <2>2. CASE s = r /\ d = t
      BY <2>2, SendChannel
    <2> QED
      BY <2>1, <2>2
  <1> QED
    BY <1>1, <1>2, <1>3, <1>7, <1>8, <1>9, <1>10, <1>11, IndInvNext

(* A receive takes the message in front, whichever way is used: r then waits
   for x from s, and knows how much s sends in this step. *)
LEMMA TakeChannel ==
  ASSUME IndInv, NEW r \in Rank, NEW s \in from[r], NEW x \in {"content", "done"},
         Receiving(r, s), Take(r, s), want[r][s] # "done",
         UNCHANGED <<program, step, sent>>,
         want'[r][s] = x,
         Open(x, comm[r]) = Open(want[r][s], comm[r]) \ {Head(chan[<<s, r>>]).kind}
  PROVE  ChannelInv(s, r)' /\ NotMissed(s, r)'
  <1> DEFINE k == step[r] + 1
             c == chan[<<s, r>>]
             m == Head(c)
  <1>1. /\ TypeOK /\ DomainInv /\ GlobalType /\ ProcessInv(r)
        /\ \A q, d \in Rank : ChannelInv(q, d) /\ NotMissed(q, d)
    BY IndInvParts DEF IndInv
  <1>2. running[r] /\ c # <<>>
    BY DEF Receiving
  <1>3. s \in Rank
    BY <1>1 DEF GlobalType
  <1>4. /\ k \in 1..Steps /\ comm[r] = Way(plan, mode, k)
        /\ m \in Message /\ m = Msg(m.kind, load, s, k)
        /\ r \in to[k][s] /\ k <= Last(s, r)
    BY <1>1, <1>2, <1>3, HeadOfChannel
  <1>5. m.of = k
    BY <1>4 DEF Msg
  <1>6. /\ to' = to /\ plan' = plan /\ mode' = mode /\ load' = load /\ Steps' = Steps
        /\ step' = step /\ sent' = sent /\ Last(s, r)' = Last(s, r)
    BY ProgramFrame DEF Last
  <1>7. c \in Seq(Message) /\ chan'[<<s, r>>] = Tail(c)
    BY <1>1, <1>3 DEF GlobalType, Take
  <1>8. step[r] \in Nat
    BY <1>1, ProgramFacts DEF GlobalType
  <1>9. ASSUME NEW t \in Kind, NEW j \in 1..Steps
        PROVE  Due(s, r, t, j)' <=> Due(s, r, t, j) /\ ~(j = k /\ t = m.kind)
    <2>1. CASE j = k
      BY <1>4, <1>6, <1>8, <2>1 DEF Due
    <2>2. CASE j # k
      BY <1>6, <1>8, <2>2 DEF Due
    <2> QED
      BY <2>1, <2>2
  <1>10. Pending(s, r)' = Pending(s, r) \ {m}
    <2>1. ASSUME NEW n \in Message, n.of \in 1..Steps, n = Msg(n.kind, load, s, n.of)
          PROVE  Due(s, r, n.kind, n.of)' <=> Due(s, r, n.kind, n.of) /\ n # m
      <3>1. n.kind \in Kind
        BY DEF Message, Kind
      <3>2. n = m <=> n.of = k /\ n.kind = m.kind
        BY <1>4, <1>5, <2>1
      <3> QED
        BY <1>9, <2>1, <3>1, <3>2
    <2>2. Pending(s, r)' = {n \in Message : /\ n.of \in 1..Steps /\ n = Msg(n.kind, load, s, n.of)
                                            /\ Due(s, r, n.kind, n.of)'}
      BY <1>6 DEF Pending, Msg, Message
    <2> QED
      BY <2>1, <2>2 DEF Pending
  <1>11. Holds(Tail(c), Pending(s, r) \ {m})
    BY <1>1, <1>2, <1>3, <1>7, HoldsHead DEF ChannelInv
  <1>12. ChannelInv(s, r)'
    BY <1>7, <1>10, <1>11 DEF ChannelInv
  <1>13. NotMissed(s, r)'
    BY <1>1, <1>3, <1>4, <1>6 DEF NotMissed
  <1> QED
    BY <1>12, <1>13

LEMMA UpdateType ==
  ASSUME NEW S, NEW T, NEW f \in [S -> T], NEW a, NEW b \in T
  PROVE  [f EXCEPT ![a] = b] \in [S -> T]
  OBVIOUS

LEMMA TakeInv ==
  ASSUME IndInv, NEW r \in Rank, NEW s \in from[r], NEW x \in {"content", "done"},
         Receiving(r, s), Take(r, s), want[r][s] # "done", ~fault',
         UNCHANGED <<program, step, set, comm, changes, running, from, sent>>,
         want' = [want EXCEPT ![r][s] = x],
         x \in WantsIn(comm[r]),
         Open(x, comm[r]) = Open(want[r][s], comm[r]) \ {Head(chan[<<s, r>>]).kind},
         size' = [size EXCEPT ![r][s] = load[step[r] + 1][s]],
         got' = [got EXCEPT ![r][s] = IF x = "done" THEN step[r] + 1 ELSE 0],
         fault' \in BOOLEAN
  PROVE  IndInv'
  <1> DEFINE k == step[r] + 1
  <1>1. /\ TypeOK /\ DomainInv /\ GlobalType /\ SetUpInv /\ ~fault
        /\ \A q \in Rank : ProcessType(q) /\ ProcessInv(q)
        /\ \A q, d \in Rank : ChannelInv(q, d) /\ NotMissed(q, d)
    BY IndInvParts DEF IndInv
  <1>2. UNCHANGED program /\ Rank' = Rank /\ Steps' = Steps /\ load' = load
    BY ProgramFrame
  <1>3. s \in Rank /\ running[r] /\ chan[<<s, r>>] # <<>>
    BY <1>1 DEF Receiving, GlobalType
  <1>4. k \in 1..Steps /\ comm[r] = Way(plan, mode, k)
    BY <1>1, <1>3, HeadOfChannel
  <1>5. load[k][s] \in 1..MaxLen
    BY <1>1, <1>3, <1>4 DEF GlobalType
  <1>6. /\ \A q \in Rank \ {r} : size'[q] = size[q] /\ want'[q] = want[q] /\ got'[q] = got[q]
        /\ size'[r] = [size[r] EXCEPT ![s] = load[k][s]]
        /\ want'[r] = [want[r] EXCEPT ![s] = x]
        /\ got'[r] = [got[r] EXCEPT ![s] = IF x = "done" THEN k ELSE 0]
    BY <1>1 DEF GlobalType
  <1>7. /\ size[r] \in [Rank -> 0..MaxLen]
        /\ want[r] \in [Rank -> {"idle", "size", "content", "probe", "done"}]
        /\ got[r] \in [Rank -> 0..Steps]
    BY <1>1 DEF GlobalType
  <1>8. /\ \A q \in Rank \ {s} : /\ size'[r][q] = size[r][q] /\ want'[r][q] = want[r][q]
                                 /\ got'[r][q] = got[r][q]
        /\ size'[r][s] = load[k][s] /\ want'[r][s] = x
        /\ got'[r][s] = IF x = "done" THEN k ELSE 0
    BY <1>3, <1>6, <1>7
  <1>9. /\ chan' = [chan EXCEPT ![<<s, r>>] = Tail(@)]
        /\ Tail(chan[<<s, r>>]) \in Seq(Message)
        /\ <<s, r>> \in Rank \X Rank
    <2>1. chan[<<s, r>>] \in Seq(Message)
      BY <1>1, <1>3 DEF GlobalType
    <2> QED
      BY <1>3, <2>1, HeadTailProperties DEF Take
  <1>10. \A q, d \in Rank : <<q, d>> # <<s, r>> => chan'[<<q, d>>] = chan[<<q, d>>]
    BY <1>1, <1>9 DEF GlobalType
  <1>11. DomainInv'
    BY <1>1, <1>2, DomainFrame
  <1>12. GlobalType'
    <2>1. chan' \in [Rank \X Rank -> Seq(Message)]
      BY <1>1, <1>9 DEF GlobalType
    <2>2. load[k][s] \in 0..MaxLen /\ k \in 0..Steps /\ 0 \in 0..Steps
      BY <1>1, <1>4, <1>5, SizeAssumption, ProgramFacts
    <2>3. /\ size'[r] \in [Rank -> 0..MaxLen] /\ got'[r] \in [Rank -> 0..Steps]
          /\ want'[r] \in [Rank -> {"idle", "size", "content", "probe", "done"}]
      <3>1. (IF x = "done" THEN k ELSE 0) \in 0..Steps
        BY <2>2
      <3>2. x \in {"idle", "size", "content", "probe", "done"}
        OBVIOUS
      <3>3. size'[r] \in [Rank -> 0..MaxLen]
        BY <1>6, <1>7, <2>2, UpdateType
      <3>4. got'[r] \in [Rank -> 0..Steps]
        BY <1>6, <1>7, <3>1, UpdateType
      <3>5. want'[r] \in [Rank -> {"idle", "size", "content", "probe", "done"}]
        BY <1>6, <1>7, <3>2, UpdateType
      <3> QED
        BY <3>3, <3>4, <3>5
    <2>4. /\ size' = [size EXCEPT ![r] = size'[r]] /\ got' = [got EXCEPT ![r] = got'[r]]
          /\ want' = [want EXCEPT ![r] = want'[r]]
      BY <1>1 DEF GlobalType
    <2>5. size' \in [Rank -> [Rank -> 0..MaxLen]]
      BY <1>1, <2>3, <2>4 DEF GlobalType
    <2>6. got' \in [Rank -> [Rank -> 0..Steps]]
      BY <1>1, <2>3, <2>4 DEF GlobalType
    <2>7. want' \in [Rank -> [Rank -> {"idle", "size", "content", "probe", "done"}]]
      BY <1>1, <2>3, <2>4 DEF GlobalType
    <2> QED
      BY <1>1, <1>2, <2>1, <2>5, <2>6, <2>7 DEF GlobalType, program
  <1>13. SetUpInv'
    BY <1>1, <1>2, SetUpFrame
  <1>14. ASSUME NEW q \in Rank
         PROVE  ProcessType(q)' /\ ProcessInv(q)'
    <2>1. CASE q # r
      BY <1>1, <1>2, <1>6, <2>1, ProcessFrame, ProcessTypeFrame
    <2>2. CASE q = r
      <3>1. ProcessType(r)'
        BY <1>1, <1>2, <1>3, <1>5, <1>8 DEF ProcessType
      <3>2. set[r] /\ comm[r] = Way(plan, mode, k)
        BY <1>1, <1>3, <1>4 DEF ProcessInv
      <3>3. ProcessInv(r)'
        BY <1>1, <1>2, <1>3, <1>8, <3>2, ProgramFrame DEF ProcessInv
      <3> QED
        BY <2>2, <3>1, <3>3
    <2> QED
      BY <2>1, <2>2
  <1>15. ASSUME NEW q \in Rank, NEW d \in Rank
         PROVE  ChannelInv(q, d)' /\ NotMissed(q, d)'
    <2>1. CASE q # s \/ d # r
      <3>1. want'[d][q] = want[d][q] /\ chan'[<<q, d>>] = chan[<<q, d>>]
        BY <1>6, <1>8, <1>10, <2>1
      <3> QED
        BY <1>1, <1>2, <3>1, ChannelFrame
    <2>2. CASE q = s /\ d = r
      BY <1>8, <2>2, TakeChannel
    <2> QED
      BY <2>1, <2>2
  <1> QED
    BY <1>1, <1>2, <1>11, <1>12, <1>13, <1>14, <1>15, IndInvNext

(* What the three receives read *)
LEMMA HeadRead ==
  ASSUME IndInv, NEW r \in Rank, NEW s \in from[r], Receiving(r, s),
         want[r][s] \in {"size", "content", "probe"}
  PROVE  LET m == Head(chan[<<s, r>>])
             w == want[r][s] IN
         /\ m.of = step[r] + 1 /\ m.len = load[step[r] + 1][s]
         /\ m.kind = IF w = "size" THEN "size" ELSE "content"
         /\ w = "size" => comm[r] = "unknown"
         /\ w = "probe" => comm[r] = "iprobe"
         /\ (IF w = "size" THEN "content" ELSE "done") \in WantsIn(comm[r])
         /\ Open(IF w = "size" THEN "content" ELSE "done", comm[r])
              = Open(w, comm[r]) \ {m.kind}
  <1> DEFINE m == Head(chan[<<s, r>>])
             w == want[r][s]
             open == Open(w, comm[r])
  <1>1. /\ TypeOK /\ DomainInv /\ ProcessInv(r)
        /\ \A q, d \in Rank : ChannelInv(q, d)
    BY IndInvParts DEF IndInv
  <1>2. running[r] /\ chan[<<s, r>>] # <<>> /\ s \in Rank
    BY <1>1 DEF Receiving, TypeOK
  <1>3. /\ comm[r] \in {"known", "unknown", "iprobe"}
        /\ m = Msg(m.kind, load, s, step[r] + 1)
        /\ m.kind \in open
        /\ m.kind = "content" => "size" \notin open
    BY <1>1, <1>2, HeadOfChannel, WayType
  <1>4. m.of = step[r] + 1 /\ m.len = load[step[r] + 1][s]
    BY <1>3 DEF Msg
  <1>5. w \in WantsIn(comm[r])
    BY <1>1, <1>2 DEF ProcessInv
  <1>6. /\ w = "size" => comm[r] = "unknown"
        /\ w = "probe" => comm[r] = "iprobe"
        /\ (IF w = "size" THEN "content" ELSE "done") \in WantsIn(comm[r])
    BY <1>3, <1>5 DEF WantsIn
  <1>7. open = IF w = "size" THEN {"size", "content"} ELSE {"content"}
    BY <1>6 DEF Open, KindsOf, Kind
  <1>8. m.kind = IF w = "size" THEN "size" ELSE "content"
    <2> HIDE DEF m, w, open
    <2> QED
      BY <1>3, <1>7
  <1>9. Open(IF w = "size" THEN "content" ELSE "done", comm[r]) = open \ {m.kind}
    BY <1>7, <1>8 DEF Open
  <1> QED
    BY <1>4, <1>6, <1>8, <1>9

LEMMA ReceiveSizeInv ==
  ASSUME IndInv, NEW r \in Rank, NEW s \in Rank, ReceiveSize(r, s)
  PROVE  IndInv'
  <1> DEFINE k == step[r] + 1
             m == Head(chan[<<s, r>>])
  <1>1. s \in from[r] /\ Receiving(r, s) /\ want[r][s] = "size"
    BY DEF ReceiveSize, Receiving
  <1>2. /\ m.kind = "size" /\ m.len = load[k][s] /\ comm[r] = "unknown"
        /\ "content" \in WantsIn(comm[r])
        /\ Open("content", comm[r]) = Open(want[r][s], comm[r]) \ {m.kind}
    BY <1>1, HeadRead
  <1>3. got[r][s] = 0 /\ got \in [Rank -> [Rank -> 0..Steps]]
    BY <1>1, IndInvParts DEF ProcessInv, GlobalType
  <1>4. /\ Take(r, s) /\ ~fault' /\ fault' \in BOOLEAN
        /\ UNCHANGED <<program, step, set, comm, changes, running, from, sent, got>>
        /\ want' = [want EXCEPT ![r][s] = "content"]
        /\ size' = [size EXCEPT ![r][s] = load[k][s]]
    BY <1>2 DEF ReceiveSize
  <1>5. got' = [got EXCEPT ![r][s] = 0]
    <2>1. got[r] = [got[r] EXCEPT ![s] = 0]
      BY <1>3
    <2>2. got = [got EXCEPT ![r] = got[r]]
      BY <1>3
    <2> QED
      BY <1>4, <2>1, <2>2
  <1> QED
    BY <1>1, <1>2, <1>4, <1>5, TakeInv

LEMMA ReceiveContentInv ==
  ASSUME IndInv, NEW r \in Rank, NEW s \in Rank, ReceiveContent(r, s)
  PROVE  IndInv'
  <1> DEFINE k == step[r] + 1
             m == Head(chan[<<s, r>>])
  <1>1. s \in from[r] /\ Receiving(r, s) /\ want[r][s] = "content"
    BY DEF ReceiveContent, Receiving
  <1>2. /\ m.kind = "content" /\ m.len = load[k][s] /\ m.of = k
        /\ "done" \in WantsIn(comm[r])
        /\ Open("done", comm[r]) = Open(want[r][s], comm[r]) \ {m.kind}
    BY <1>1, HeadRead
  <1>3. size[r][s] = load[k][s] /\ size \in [Rank -> [Rank -> 0..MaxLen]]
    BY <1>1, IndInvParts DEF ProcessInv, GlobalType
  <1>4. /\ Take(r, s) /\ ~fault' /\ fault' \in BOOLEAN
        /\ UNCHANGED <<program, step, set, comm, changes, running, from, sent, size>>
        /\ want' = [want EXCEPT ![r][s] = "done"]
        /\ got' = [got EXCEPT ![r][s] = k]
    BY <1>2, <1>3 DEF ReceiveContent
  <1>5. size' = [size EXCEPT ![r][s] = load[k][s]]
    <2>1. size[r] = [size[r] EXCEPT ![s] = load[k][s]]
      BY <1>3
    <2>2. size = [size EXCEPT ![r] = size[r]]
      BY <1>3
    <2> QED
      BY <1>4, <2>1, <2>2
  <1> QED
    BY <1>1, <1>2, <1>4, <1>5, TakeInv

LEMMA ProbeContentInv ==
  ASSUME IndInv, NEW r \in Rank, NEW s \in Rank, ProbeContent(r, s)
  PROVE  IndInv'
  <1> DEFINE k == step[r] + 1
             m == Head(chan[<<s, r>>])
  <1>1. s \in from[r] /\ Receiving(r, s) /\ want[r][s] = "probe"
    BY DEF ProbeContent, Receiving
  <1>2. /\ m.kind = "content" /\ m.len = load[k][s] /\ m.of = k
        /\ "done" \in WantsIn(comm[r])
        /\ Open("done", comm[r]) = Open(want[r][s], comm[r]) \ {m.kind}
    BY <1>1, HeadRead
  <1>3. /\ Take(r, s) /\ ~fault' /\ fault' \in BOOLEAN
        /\ UNCHANGED <<program, step, set, comm, changes, running, from, sent>>
        /\ want' = [want EXCEPT ![r][s] = "done"]
        /\ size' = [size EXCEPT ![r][s] = load[k][s]]
        /\ got' = [got EXCEPT ![r][s] = k]
    BY <1>2 DEF ProbeContent
  <1> QED
    BY <1>1, <1>2, <1>3, TakeInv


(* A process that ends its step has sent all buffers of it and taken all that
   come to it, so what is under way stays the same. *)
LEMMA EndDue ==
  ASSUME IndInv, NEW r \in Rank, End(r), NEW s \in Rank, NEW d \in Rank,
         NEW j \in 1..Steps, d \in to[j][s]
  PROVE  /\ j <= Last(s, d)' <=> j <= Last(s, d)
         /\ \A t \in Kind : Due(s, d, t, j)' <=> Due(s, d, t, j)
         /\ j <= step'[d] \/ (j = step'[d] + 1 /\ ~Fresh(want'[d][s], Way(plan, mode, j)))
              => j <= Last(s, d)
  <1> DEFINE k == step[r] + 1
             w == Way(plan, mode, j)
  <1>1. DomainInv /\ GlobalType /\ ProcessInv(r) /\ NotMissed(s, d)
    BY IndInvParts
  <1>2. /\ UNCHANGED program /\ running[r] /\ sent[r] = to[k][r]
        /\ \A q \in from[r] : want[r][q] = "done"
    BY DEF End, AllReceived
  <1>3. /\ to' = to /\ plan' = plan /\ mode' = mode
    BY <1>2, ProgramFrame
  <1>4. /\ \A q \in Rank \ {r} : /\ step'[q] = step[q] /\ want'[q] = want[q]
                                 /\ sent'[q] = sent[q]
        /\ step'[r] = k /\ sent'[r] = {} /\ want'[r][s] = "idle"
    BY <1>1 DEF End, GlobalType
  <1>5. k \in 1..Steps /\ from[r] = Senders(r, k)
    <2>1. step[r] < Steps /\ from[r] = Senders(r, k)
      BY <1>1, <1>2 DEF ProcessInv
    <2>2. step[r] \in 0..Steps /\ Steps \in Nat
      BY <1>1, ProgramFacts DEF GlobalType
    <2> QED
      BY <2>1, <2>2
  <1>6. step[r] \in Nat /\ step[s] \in Nat /\ step[d] \in Nat /\ j \in Nat
    BY <1>1, ProgramFacts DEF GlobalType
  <1>7. j <= Last(s, d)' <=> j <= Last(s, d)
    <2>1. CASE s # r
      BY <1>4, <2>1 DEF Last
    <2>2. CASE s = r
      <3>1. Last(r, d)' = k
        BY <1>4 DEF Last
      <3>2. j = k => d \in sent[r]
        BY <1>2, <2>2
      <3>3. Last(r, d) = IF d \in sent[r] THEN k ELSE step[r]
        BY DEF Last
      <3> QED
        BY <1>6, <2>2, <3>1, <3>2, <3>3
    <2> QED
      BY <2>1, <2>2
  <1>8. CASE d # r
    <2>1. step'[d] = step[d] /\ want'[d] = want[d]
      BY <1>4, <1>8
    <2>2. \A t \in Kind : Due(s, d, t, j)' <=> Due(s, d, t, j)
      BY <1>3, <1>7, <2>1 DEF Due
    <2> QED
      BY <1>1, <1>7, <2>1, <2>2 DEF NotMissed
  <1>9. CASE d = r
    <2>1. j = k => want[r][s] = "done"
      BY <1>1, <1>2, <1>5, <1>9, ProgramFacts
    <2>2. Open("done", w) = {} /\ Open("idle", w) = KindsOf(w)
      BY DEF Open
    <2>3. ~Fresh("done", w) /\ Fresh("idle", w)
      BY DEF Fresh
    <2>4. ASSUME NEW t \in Kind
          PROVE  Due(s, r, t, j)' <=> Due(s, r, t, j)
      <3>1. Due(s, r, t, j) <=> r \in to[j][s] /\ j <= Last(s, r) /\ t \in KindsOf(w) /\ j > k
        BY <1>6, <2>1, <2>2 DEF Due
      <3>2. Due(s, r, t, j)' <=> r \in to[j][s] /\ j <= Last(s, r)' /\ t \in KindsOf(w) /\ j > k
        BY <1>3, <1>4, <1>6, <2>2 DEF Due
      <3> QED
        BY <1>7, <1>9, <3>1, <3>2
    <2>5. j <= step'[r] \/ (j = step'[r] + 1 /\ ~Fresh(want'[r][s], w)) => j <= Last(s, r)
      <3>1. j <= k => j <= Last(s, r)
        BY <1>1, <1>6, <1>9, <2>1, <2>3 DEF NotMissed
      <3> QED
        BY <1>4, <2>3, <3>1
    <2> QED
      BY <1>7, <1>9, <2>4, <2>5
  <1> QED
    BY <1>8, <1>9

LEMMA EndInv ==
  ASSUME IndInv, NEW r \in Rank, End(r)
  PROVE  IndInv'
  <1> DEFINE k == step[r] + 1
  <1>1. /\ DomainInv /\ GlobalType /\ SetUpInv /\ ~fault
        /\ \A q \in Rank : ProcessType(q) /\ ProcessInv(q)
        /\ \A s, d \in Rank : ChannelInv(s, d) /\ NotMissed(s, d)
    BY IndInvParts
  <1>2. /\ UNCHANGED <<program, changes, from, size, chan, fault>>
        /\ running[r]
        /\ \A s \in from[r] : want[r][s] = "done"
    BY DEF End, AllReceived
  <1>3. UNCHANGED program /\ Rank' = Rank /\ Steps' = Steps /\ load' = load
    BY <1>2, ProgramFrame
  <1>4. /\ set[r] /\ k \in 1..Steps /\ step[r] \in Nat
        /\ comm[r] = Way(plan, mode, k) /\ changes[r] = Changing(plan, k)
        /\ from[r] = Senders(r, k) /\ HasSetUp(plan, k)
    BY <1>1, <1>2, ProgramFacts DEF ProcessInv, GlobalType, SetUpInv
  <1>5. NextComm(r) = LaterWay(plan, mode, k)
    BY <1>4 DEF NextComm, Communication, Way, LaterWay, Changing
  <1>6. /\ \A q \in Rank \ {r} : /\ step'[q] = step[q] /\ set'[q] = set[q]
                                 /\ comm'[q] = comm[q] /\ running'[q] = running[q]
                                 /\ want'[q] = want[q] /\ got'[q] = got[q] /\ sent'[q] = sent[q]
        /\ comm'[r] = LaterWay(plan, mode, k)
        /\ running'[r] = FALSE /\ set'[r] = FALSE /\ sent'[r] = {} /\ step'[r] = k
        /\ want'[r] = [s \in Rank |-> "idle"]
        /\ got'[r] = [s \in Rank |-> 0]
    BY <1>1, <1>5 DEF End, GlobalType
  <1>7. DomainInv'
    BY <1>1, <1>3, DomainFrame
  <1>8. GlobalType'
    <2>1. /\ k \in 0..Steps /\ 0 \in 0..Steps
          /\ LaterWay(plan, mode, k) \in {"none", "known", "unknown", "iprobe"}
      BY <1>1, <1>4, WayType, ProgramFacts
    <2>2. step' \in [Rank -> 0..Steps]
      BY <1>1, <2>1 DEF End, GlobalType
    <2>3. comm' \in [Rank -> {"none", "known", "unknown", "iprobe"}]
      BY <1>1, <1>5, <2>1 DEF End, GlobalType
    <2>4. /\ set' \in [Rank -> BOOLEAN] /\ running' \in [Rank -> BOOLEAN]
          /\ sent' \in [Rank -> SUBSET Rank]
      BY <1>1 DEF End, GlobalType
    <2>5. want' \in [Rank -> [Rank -> {"idle", "size", "content", "probe", "done"}]]
      BY <1>1 DEF End, GlobalType
    <2>6. got' \in [Rank -> [Rank -> 0..Steps]]
      BY <1>1, <2>1 DEF End, GlobalType
    <2> QED
      BY <1>1, <1>2, <1>3, <2>2, <2>3, <2>4, <2>5, <2>6 DEF GlobalType, program
  <1>9. SetUpInv'
    <2> SUFFICES ASSUME NEW q \in Rank, NEW i \in 1..Steps,
                        i <= step'[q] \/ (i = step'[q] + 1 /\ set'[q])
                 PROVE  i <= step[q] \/ (i = step[q] + 1 /\ set[q])
      BY <1>1, <1>3, SetUpFrame
    <2> QED
      BY <1>4, <1>6
  <1>10. ASSUME NEW q \in Rank
         PROVE  ProcessType(q)' /\ ProcessInv(q)'
    <2>1. CASE q # r
      BY <1>1, <1>2, <1>3, <1>6, <2>1, ProcessFrame, ProcessTypeFrame
    <2>2. CASE q = r
      <3>1. ProcessType(r)'
        BY <1>2, <1>3, <1>6 DEF ProcessType
      <3>2. \A s \in from[r] : s \in Rank /\ size[r][s] = load[k][s]
        BY <1>1, <1>2 DEF ProcessInv, GlobalType
      <3>3. ProcessInv(r)'
        BY <1>1, <1>2, <1>3, <1>4, <1>6, <3>2, ProgramFrame DEF ProcessInv
      <3> QED
        BY <2>2, <3>1, <3>3
    <2> QED
      BY <2>1, <2>2
  <1>11. ASSUME NEW s \in Rank, NEW d \in Rank
         PROVE  ChannelInv(s, d)' /\ NotMissed(s, d)'
    <2>1. to' = to /\ plan' = plan /\ mode' = mode
      BY <1>3, ProgramFrame
    <2>2. Pending(s, d)' = Pending(s, d)
      <3>1. ASSUME NEW m \in Message, m.of \in 1..Steps
            PROVE  Due(s, d, m.kind, m.of)' <=> Due(s, d, m.kind, m.of)
        <4>1. m.kind \in Kind
          BY DEF Message, Kind
        <4>2. CASE d \in to[m.of][s]
          BY <3>1, <4>1, <4>2, EndDue
        <4>3. CASE d \notin to[m.of][s]
          BY <2>1, <4>3 DEF Due
        <4> QED
          BY <4>2, <4>3
      <3>2. Pending(s, d)' = {m \in Message : /\ m.of \in 1..Steps
                                              /\ m = Msg(m.kind, load, s, m.of)
                                              /\ Due(s, d, m.kind, m.of)'}
        BY <1>3 DEF Pending, Msg, Message
      <3> QED
        BY <3>1, <3>2 DEF Pending
    <2>3. ChannelInv(s, d)'
      BY <1>1, <1>2, <2>2 DEF ChannelInv
    <2>4. NotMissed(s, d)'
      <3>1. \A j \in 1..Steps :
              /\ d \in to[j][s]
              /\ j <= step'[d] \/ (j = step'[d] + 1 /\ ~Fresh(want'[d][s], Way(plan, mode, j)))
              => j <= Last(s, d)'
        BY EndDue
      <3> QED
        BY <1>3, <2>1, <3>1 DEF NotMissed
    <2> QED
      BY <2>3, <2>4
  <1> QED
    BY <1>1, <1>2, <1>3, <1>7, <1>8, <1>9, <1>10, <1>11, IndInvNext

LEMMA StutterInv ==
  ASSUME IndInv, UNCHANGED vars
  PROVE  IndInv'
  <1>1. /\ DomainInv /\ GlobalType /\ SetUpInv /\ ~fault
        /\ \A q \in Rank : ProcessType(q) /\ ProcessInv(q)
        /\ \A s, d \in Rank : ChannelInv(s, d) /\ NotMissed(s, d)
    BY IndInvParts
  <1>2. UNCHANGED program /\ Rank' = Rank /\ Steps' = Steps
    BY ProgramFrame DEF vars
  <1>3. DomainInv' /\ GlobalType' /\ SetUpInv'
    BY <1>1, <1>2, DomainFrame, SetUpFrame DEF vars, program, GlobalType
  <1>4. ASSUME NEW q \in Rank
        PROVE  ProcessType(q)' /\ ProcessInv(q)'
    BY <1>1, <1>2, ProcessFrame, ProcessTypeFrame DEF vars
  <1>5. ASSUME NEW s \in Rank, NEW d \in Rank
        PROVE  ChannelInv(s, d)' /\ NotMissed(s, d)'
    BY <1>1, <1>2, ChannelFrame DEF vars
  <1> QED
    BY <1>1, <1>2, <1>3, <1>4, <1>5, IndInvNext DEF vars

LEMMA NextInv == IndInv /\ [Next]_vars => IndInv'
  <1> SUFFICES ASSUME IndInv, [Next]_vars
               PROVE  IndInv'
    OBVIOUS
  <1>1. ASSUME NEW r \in Rank, Advance(r)
        PROVE  IndInv'
    BY <1>1, SetUpStepInv, StartInv, SendInv, ReceiveSizeInv, ReceiveContentInv,
       ProbeContentInv, EndInv DEF Advance
  <1>2. CASE UNCHANGED vars
    BY <1>2, StutterInv
  <1> QED
    BY <1>1, <1>2 DEF Next, Over

-----------------------------------------------------------------------------
(* Theorems *)

(* The bookkeeping of every process, and every channel, follow the program. *)
THEOREM Invariance == Spec => []IndInv
  BY InitIndInv, NextInv, PTL DEF Spec

(* Every reachable state is well-formed. *)
THEOREM TypeInvariant == Spec => []TypeOK
  <1>1. IndInv => TypeOK
    BY DEF IndInv
  <1> QED
    BY <1>1, Invariance, PTL

(* waitForNextReceive never takes a size for a content, nor a content that does
   not fit: whatever the set-ups, in any order, whoever sends to whom, and
   however far apart the processes are. *)
THEOREM NeverMistaken == Spec => []NoFault
  <1>1. IndInv => NoFault
    BY DEF IndInv, NoFault
  <1> QED
    BY <1>1, Invariance, PTL

-----------------------------------------------------------------------------
(* The refinement of BufferExchange *)

HeardNow == [r \in Rank |-> {s \in Rank : got[r][s] = step[r] + 1}]

(* What a process has heard is what its receives have been completed for. *)
LEMMA HeardIsDone ==
  ASSUME IndInv, NEW r \in Rank
  PROVE  HeardNow[r] = {s \in Rank : want[r][s] = "done"}
  <1>1. step[r] + 1 # 0
    BY IndInvParts, ProgramFacts DEF GlobalType
  <1>2. \A s \in Rank : got[r][s] = IF want[r][s] = "done" THEN step[r] + 1 ELSE 0
    BY IndInvParts DEF ProcessInv
  <1> QED
    BY <1>1, <1>2 DEF HeardNow

(* In a running step a process hears from those who send to it in that step. *)
LEMMA SendersHere ==
  ASSUME IndInv, NEW r \in Rank, running[r]
  PROVE  /\ step[r] + 1 \in DOMAIN to
         /\ from[r] = Exchange!Senders(r)
  <1>1. DomainInv /\ GlobalType /\ ProcessInv(r)
    BY IndInvParts
  <1>2. step[r] + 1 \in 1..Steps /\ from[r] = Senders(r, step[r] + 1)
    BY <1>1, ProgramFacts DEF ProcessInv, GlobalType
  <1>3. Senders(r, step[r] + 1) = {s \in Rank : r \in to[step[r] + 1][s]}
    BY <1>1, <1>2, ProgramFacts
  <1> QED
    BY <1>1, <1>2, <1>3, ProgramFacts DEF Exchange!Senders, Exchange!Rank, Rank

LEMMA ExchangeInit ==
  ASSUME Init
  PROVE  Exchange!Init
  BY DEF Init, Exchange!Init, Exchange!Rank, Rank

LEMMA QuietStep ==
  ASSUME UNCHANGED <<to, step, sent, got>>
  PROVE  UNCHANGED Exchange!vars
  BY DEF Exchange!vars, Rank

LEMMA SendIsSend ==
  ASSUME IndInv, NEW r \in Rank, NEW d \in Rank, Send(r, d)
  PROVE  Exchange!Send(r, d) /\ step[r] + 1 \in DOMAIN to
  BY SendersHere DEF Send, Exchange!Send, Exchange!Receivers, program, Rank

(* A content taken is a buffer heard, and its sender has sent it in this step. *)
LEMMA TakeIsHear ==
  ASSUME IndInv, NEW r \in Rank, NEW s \in from[r], Receiving(r, s), want[r][s] # "done",
         UNCHANGED <<program, step, sent>>,
         got' = [got EXCEPT ![r][s] = step[r] + 1]
  PROVE  Exchange!Hear(r, s) /\ step[r] + 1 \in DOMAIN to /\ s \in Rank
  <1> DEFINE k == step[r] + 1
  <1>1. /\ TypeOK /\ DomainInv
        /\ ProcessInv(r) /\ \A q, d \in Rank : ChannelInv(q, d)
    BY IndInvParts DEF IndInv
  <1>2. running[r] /\ chan[<<s, r>>] # <<>> /\ s \in Rank
    BY <1>1 DEF Receiving, TypeOK
  <1>3. step[r] \in Nat /\ step[s] \in Nat
    BY <1>1, <1>2, ProgramFacts DEF TypeOK
  <1>4. k <= Last(s, r)
    BY <1>1, <1>2, HeadOfChannel
  <1>5. Exchange!HasSent(s, r)
    BY <1>3, <1>4 DEF Exchange!HasSent, Last
  <1>6. s \notin HeardNow[r] /\ s \in Exchange!Senders(r) /\ k \in DOMAIN to
    BY <1>2, HeardIsDone, SendersHere
  <1>7. to' = to /\ step' = step /\ sent' = sent /\ Rank' = Rank
    BY ProgramFrame
  <1>8. /\ got'[r] = [got[r] EXCEPT ![s] = k]
        /\ \A q \in Rank \ {r} : got'[q] = got[q]
        /\ got[r] \in [Rank -> 0..Steps]
    BY <1>1 DEF TypeOK
  <1>9. got'[r][s] = k /\ \A q \in Rank \ {s} : got'[r][q] = got[r][q]
    BY <1>2, <1>8
  <1>10. HeardNow' = [HeardNow EXCEPT ![r] = @ \cup {s}]
    <2>1. ASSUME NEW q \in Rank
          PROVE  {t \in Rank : got'[q][t] = step[q] + 1}
                   = IF q = r THEN {t \in Rank : got[q][t] = step[q] + 1} \cup {s}
                     ELSE {t \in Rank : got[q][t] = step[q] + 1}
      BY <1>2, <1>8, <1>9
    <2> QED
      BY <1>7, <2>1 DEF HeardNow
  <1> QED
    BY <1>2, <1>5, <1>6, <1>7, <1>10 DEF Exchange!Hear, HeardNow

LEMMA EndIsEnd ==
  ASSUME IndInv, NEW r \in Rank, End(r)
  PROVE  Exchange!End(r) /\ step[r] + 1 \in DOMAIN to
  <1>1. DomainInv /\ TypeOK /\ GlobalType
    BY IndInvParts DEF IndInv
  <1>2. /\ sent[r] = to[step[r] + 1][r] /\ \A s \in from[r] : want[r][s] = "done"
        /\ running[r]
        /\ step' = [step EXCEPT ![r] = @ + 1]
        /\ sent' = [sent EXCEPT ![r] = {}]
        /\ got' = [got EXCEPT ![r] = [s \in Rank |-> 0]]
        /\ to' = to /\ Rank' = Rank
    BY ProgramFrame DEF End, AllReceived
  <1>3. from[r] = Exchange!Senders(r) /\ step[r] + 1 \in DOMAIN to
    BY <1>2, SendersHere
  <1>4. HeardNow[r] = Exchange!Senders(r)
    <2>1. \A s \in Rank : want[r][s] = "done" <=> s \in from[r]
      BY <1>1, <1>2 DEF TypeOK
    <2>2. from[r] \subseteq Rank
      BY <1>1 DEF TypeOK
    <2> QED
      BY <1>3, <2>1, <2>2, HeardIsDone
  <1>5. HeardNow' = [HeardNow EXCEPT ![r] = {}]
    <2>1. step'[r] + 1 # 0 /\ got'[r] = [s \in Rank |-> 0]
      BY <1>1, <1>2, ProgramFacts DEF GlobalType
    <2>2. \A q \in Rank \ {r} : got'[q] = got[q] /\ step'[q] = step[q]
      BY <1>1, <1>2 DEF GlobalType
    <2>3. {t \in Rank : got'[r][t] = step'[r] + 1} = {}
      BY <2>1
    <2>4. HeardNow' = [q \in Rank |-> {t \in Rank : got'[q][t] = step'[q] + 1}]
      BY <1>2 DEF HeardNow
    <2> QED
      BY <2>2, <2>3, <2>4 DEF HeardNow
  <1> QED
    BY <1>2, <1>3, <1>4, <1>5 DEF Exchange!End, Exchange!Receivers, HeardNow

LEMMA ExchangeNext ==
  IndInv /\ [Next]_vars => [Exchange!Next]_Exchange!vars
  <1> SUFFICES ASSUME IndInv, [Next]_vars
               PROVE  [Exchange!Next]_Exchange!vars
    OBVIOUS
  <1>0. Exchange!Rank = Rank
    BY DEF Exchange!Rank, Rank
  <1>1. ASSUME NEW r \in Rank, SetUpStep(r)
        PROVE  UNCHANGED Exchange!vars
    BY <1>1, QuietStep DEF SetUpStep, program
  <1>2. ASSUME NEW r \in Rank, Start(r)
        PROVE  UNCHANGED Exchange!vars
    BY <1>2, QuietStep DEF Start, program
  <1>3. ASSUME NEW r \in Rank, NEW d \in Rank, Send(r, d)
        PROVE  Exchange!Next
    BY <1>0, <1>3, SendIsSend DEF Exchange!Next
  <1>4. ASSUME NEW r \in Rank, NEW s \in Rank, ReceiveSize(r, s)
        PROVE  UNCHANGED Exchange!vars
    BY <1>4, QuietStep DEF ReceiveSize, program
  <1>5. ASSUME NEW r \in Rank, NEW s \in Rank, ReceiveContent(r, s)
        PROVE  Exchange!Next
    <2>1. s \in from[r] /\ Receiving(r, s) /\ want[r][s] = "content"
      BY <1>5 DEF ReceiveContent, Receiving
    <2>2. Head(chan[<<s, r>>]).of = step[r] + 1
      BY <2>1, HeadRead
    <2>3. Exchange!Hear(r, s) /\ step[r] + 1 \in DOMAIN to
      BY <1>5, <2>1, <2>2, TakeIsHear DEF ReceiveContent
    <2> QED
      BY <1>0, <2>3 DEF Exchange!Next
  <1>6. ASSUME NEW r \in Rank, NEW s \in Rank, ProbeContent(r, s)
        PROVE  Exchange!Next
    <2>1. s \in from[r] /\ Receiving(r, s) /\ want[r][s] = "probe"
      BY <1>6 DEF ProbeContent, Receiving
    <2>2. Head(chan[<<s, r>>]).of = step[r] + 1
      BY <2>1, HeadRead
    <2>3. Exchange!Hear(r, s) /\ step[r] + 1 \in DOMAIN to
      BY <1>6, <2>1, <2>2, TakeIsHear DEF ProbeContent
    <2> QED
      BY <1>0, <2>3 DEF Exchange!Next
  <1>7. ASSUME NEW r \in Rank, End(r)
        PROVE  Exchange!Next
    BY <1>0, <1>7, EndIsEnd DEF Exchange!Next
  <1>8. CASE UNCHANGED vars
    BY <1>8, QuietStep DEF vars, program
  <1> QED
    BY <1>1, <1>2, <1>3, <1>4, <1>5, <1>6, <1>7, <1>8 DEF Next, Advance, Over

(* Every communication step, on every process, is an exchange of what is sent
   to it in that same step: BufferSystem implements BufferExchange. *)
THEOREM ExchangeRefined == Spec => ImplementsExchange
  <1>1. Init => Exchange!Init
    BY ExchangeInit
  <1> QED
    BY <1>1, ExchangeNext, Invariance, PTL DEF Spec, Exchange!Spec, ImplementsExchange
=============================================================================
