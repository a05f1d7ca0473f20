------------------------- MODULE TargetLevelsProofs -------------------------
(* Theorems about TargetLevels: the levels decided on keep 2:1 balance, octets
   are merged together, no split and no merge is missed or made without need,
   for every forest and every distribution of its blocks.

   The argument: iteration i of the splits is the last that can change a block
   of level Depth - i, since what forces it is one level finer (Settled), and
   iteration k of the merges the last that can change one of level Depth - k
   (Refused, Hindered).  Two partners are never more than an iteration apart, so
   that a message holds what its sender decided on for good (ChannelInv), except
   where one has begun another pass and the other has still to end one (Ahead).
   What is claimed of two blocks is claimed while both processes are past the
   splits of the same pass (Late). *)
EXTENDS TargetLevels, SequenceTheorems, WellFoundedInduction, TLAPS

-----------------------------------------------------------------------------
(* Target levels p has sent to each partner in this pass, and those it has read *)
Sent(p) == IF pc[p] \in {"split", "intend", "merge"} THEN round[p] + 1 ELSE round[p]

Read(p) == IF pc[p] = "merge" THEN round[p] + 1 ELSE round[p]

(* Iterations of merges p has ended, and those it has told its intent of *)
Merges(p) == IF round[p] < Depth THEN 0 ELSE round[p] - Depth

Told(p) == IF pc[p] = "merge" THEN Merges(p) + 1 ELSE Merges(p)

(* p has begun another pass, and its partner q has still to end one. *)
Ahead(p, q) == round[p] = 0 /\ pc[p] # "done" /\ Read(q) = 2 * Depth

(* The splits of this pass are done. *)
Late(p) == round[p] >= Depth

-----------------------------------------------------------------------------
(* The inductive invariant *)

(* Control of a process *)
ProcessInv(p) ==
  /\ pc[p] \in {"start", "evaluated"} => round[p] = 0
  /\ pc[p] = "evaluated" => ~rerun[p]
  /\ pc[p] = "send" => round[p] < 2 * Depth
  /\ pc[p] = "split" => round[p] < Depth
  /\ pc[p] = "reduce" => round[p] = Depth
  /\ pc[p] \in {"intend", "merge"} => round[p] \in Depth..(2 * Depth - 1)
  /\ pc[p] = "done" => round[p] = 2 * Depth \/ (round[p] = 0 /\ ~rerun[p])

(* Messages under way from q to its partner p *)
LevelCount(q, p) == Len(levelMail[<<q, p>>])

IntentCount(q, p) == Len(mergeMail[<<q, p>>])

Counts(q, p) ==
  /\ Ahead(p, q) => LevelCount(q, p) = 0 /\ IntentCount(q, p) = 0
  /\ Ahead(q, p) => /\ LevelCount(q, p) = Sent(q)
                    /\ IntentCount(q, p) = Depth - Merges(p)
  /\ ~Ahead(p, q) /\ ~Ahead(q, p) =>
       /\ LevelCount(q, p) = Sent(q) - Read(p)
       /\ IntentCount(q, p) = Told(q) - Merges(p)

(* Iteration that the first of them was sent in *)
FirstOf(q, p) == IF Ahead(q, p) THEN 0 ELSE Read(p)

(* A message of iteration i holds what blocks of level Depth - i and finer will
   have until the merges begin, and no more than what the others will have. *)
LevelsTrue(q, p) ==
  \A i \in 1..LevelCount(q, p) : \A n \in Border(q, p) :
    /\ levelMail[<<q, p>>][i][n] <= target[n]
    /\ Level[n] >= Depth - (FirstOf(q, p) + i - 1) => levelMail[<<q, p>>][i][n] = target[n]

IntentsTrue(q, p) ==
  \A i \in 1..IntentCount(q, p) : mergeMail[<<q, p>>][i] = willing[q]

NoMail(q, p) == levelMail[<<q, p>>] = <<>> /\ mergeMail[<<q, p>>] = <<>>

(* What the levels of a block are in each phase of its process *)
BlockInv(b) ==
  LET p == ProcOf[b]
  IN  /\ minTarget[b] <= Level[b] + 1
      /\ pc[p] # "start" => target[b] >= minTarget[b]
      /\ pc[p] = "evaluated" => target[b] = Greater(Level[b], minTarget[b])
      /\ pc[p] # "start" /\ round[p] <= Depth => target[b] >= Level[b]
      /\ pc[p] = "done" /\ round[p] = 0 => target[b] = Level[b] /\ minTarget[b] = Level[b]
      /\ Late(p) /\ target[b] < Level[b] => Cardinality(Siblings[b]) = OctetSize - 1

(* A block that is split has a reason, which lasts. *)
Reason(b) ==
  target[b] > Level[b] => asked[b] > Level[b] \/ \E n \in Nbr[b] : target[n] = Level[b] + 2

(* After i iterations of splits the blocks of level Depth - i have their share. *)
Settled(b) ==
  LET p == ProcOf[b]
  IN  /\ round[p] <= Depth /\ pc[p] # "merge"
      /\ Level[b] >= Depth - round[p]
      /\ target[b] = Level[b]
      => \A n \in Nbr[b] : target[n] <= Level[b] + 1

(* Once the splits are done, neighbours are balanced. *)
Balance(b) ==
  \A n \in Nbr[b] : Late(ProcOf[b]) /\ Late(ProcOf[n]) => target[n] <= target[b] + 1

(* A block that is going to merge may do so. *)
Permitted(b) ==
  LET p == ProcOf[b]
  IN  pc[p] = "merge" /\ b \in willing[p] =>
        InOctet(b) /\ \A n \in Nbr[b] : Late(ProcOf[n]) => target[n] <= target[b]

Merged(b) == target[b] < Level[b]

(* The whole octet of b is willing to merge. *)
Agreed(b) == \A s \in Siblings[b] \cup {b} : s \in willing[ProcOf[s]]

(* Siblings merge in the same iteration, one of them maybe first. *)
Octets(b) ==
  \A s \in Siblings[b] :
    Late(ProcOf[b]) /\ Late(ProcOf[s]) =>
      /\ Merges(ProcOf[b]) = Merges(ProcOf[s]) => (Merged(b) <=> Merged(s))
      /\ Merges(ProcOf[b]) = Merges(ProcOf[s]) + 1 => (Merged(b) <=> Merged(s) \/ Agreed(b))

(* An octet that is left after k merges is not willing any more, if it is of
   level Depth - k + 1 or finer: *)
Refused(b) ==
  LET p == ProcOf[b]
  IN  Merges(p) >= 1 /\ InOctet(b) /\ Level[b] > Depth - Merges(p) => ~Agreed(b)

(* who is not willing has a neighbour that will not make way. *)
Hindered(b) ==
  LET p == ProcOf[b]
  IN  Told(p) >= 1 /\ InOctet(b) /\ b \notin willing[p] /\ Level[b] > Depth - Told(p) =>
        \E n \in Nbr[b] : target[n] > target[b]

ChannelInv == \A p \in Process : \A q \in Partners[p] :
                Counts(q, p) /\ LevelsTrue(q, p) /\ IntentsTrue(q, p)

SilenceInv == \A p \in Process : \A q \in Process \ Partners[p] : NoMail(q, p)

SplitInv == \A b \in Block : BlockInv(b) /\ Reason(b) /\ Settled(b)

MergeInv == \A b \in Block : Balance(b) /\ Permitted(b) /\ Octets(b)

TightInv == \A b \in Block : Refused(b) /\ Hindered(b)

IndInv ==
  /\ TypeOK
  /\ \A p \in Process : ProcessInv(p)
  /\ ChannelInv /\ SilenceInv
  /\ SplitInv /\ MergeInv /\ TightInv

(* With one cycle, or without re-evaluation: what the callback asked for is kept
   in minTarget, or its process has noted that it wants another cycle. *)
Kept(b) ==
  LET p == ProcOf[b]
  IN  /\ pc[p] = "start" => asked[b] <= Level[b] + 1
      /\ pc[p] # "start" => asked[b] <= minTarget[b] \/ (opt.multiple /\ more[p])

(* With several cycles there is one pass, and its reduction is over all. *)
OnePass ==
  opt.multiple =>
    /\ \A p \in Process : ~rerun[p] /\ pc[p] # "reduce"
    /\ \A p, q \in Process : pc[p] \notin {"start", "evaluated"} =>
         pc[q] \notin {"start", "evaluated"} /\ more[p] = more[q]

GuaranteeInv == OnePass /\ \A b \in Block : Kept(b)

-----------------------------------------------------------------------------
(* Facts about numbers and sequences *)

(* A set of numbers has a least one. *)
LEMMA LeastOf ==
  ASSUME NEW T, T \subseteq Nat, T # {}
  PROVE  \E x \in T : \A y \in T : x <= y
<1> DEFINE R == OpToRel(<, Nat)
<1>1. IsWellFoundedOn(R, Nat)  BY NatLessThanWellFounded, Zenon
<1>2. \A x, y \in Nat : y < x => <<y, x>> \in R  BY Zenon DEF OpToRel
<1> HIDE DEF R
<1>3. PICK x \in T : \A y \in T : ~(<<y, x>> \in R)  BY <1>1, WFMin, Zenon
<1>4. \A y \in T : ~(y < x)  BY <1>2, <1>3
<1> QED BY <1>3, <1>4

(* What is left of a sequence without its head *)
LEMMA Rest ==
  ASSUME NEW S, NEW s \in Seq(S), s # <<>>
  PROVE  /\ Tail(s) \in Seq(S) /\ Len(Tail(s)) = Len(s) - 1 /\ Len(s) >= 1
         /\ \A i \in 1..Len(Tail(s)) : Tail(s)[i] = s[i + 1] /\ i + 1 \in 1..Len(s)
         /\ Head(s) = s[1] /\ s[1] \in S
BY HeadTailProperties, EmptySeq, LenProperties

(* A sequence with one more element *)
LEMMA OneMore ==
  ASSUME NEW S, NEW s \in Seq(S), NEW e \in S
  PROVE  /\ Append(s, e) \in Seq(S) /\ Len(Append(s, e)) = Len(s) + 1
         /\ \A i \in 1..Len(s) : Append(s, e)[i] = s[i]
         /\ Append(s, e)[Len(s) + 1] = e
         /\ Append(s, e) # <<>>
BY AppendProperties

LEMMA NoneLeft ==
  ASSUME NEW S, NEW s \in Seq(S)
  PROVE  Len(s) \in Nat /\ (Len(s) = 0 <=> s = <<>>) /\ (Len(s) >= 1 <=> s # <<>>)
BY EmptySeq, LenProperties

(* Partners *)
LEMMA PartnersBorder ==
  ASSUME NEW p \in Process
  PROVE  Partners[p] = {q \in Process \ {p} : Border(p, q) # {}}
BY DEF Partners

LEMMA PartnersMutual ==
  ASSUME NEW p \in Process, NEW q \in Partners[p]
  PROVE  q \in Process /\ q # p /\ p \in Partners[q]
BY ForestAssumption, PartitionAssumption, PartnersBorder DEF Border, BlocksOf

(* Neighbours that live on two processes make them partners. *)
LEMMA NeighborsPartners ==
  ASSUME NEW b \in Block, NEW n \in Nbr[b], ProcOf[n] # ProcOf[b]
  PROVE  /\ ProcOf[n] \in Partners[ProcOf[b]] /\ ProcOf[b] \in Partners[ProcOf[n]]
         /\ n \in Border(ProcOf[n], ProcOf[b])
<1>1. n \in Block /\ b \in Nbr[n]  BY ForestAssumption
<1>2. ProcOf[b] \in Process /\ ProcOf[n] \in Process  BY <1>1, PartitionAssumption
<1>3. b \in Border(ProcOf[b], ProcOf[n]) /\ n \in Border(ProcOf[n], ProcOf[b])
  BY <1>1 DEF Border, BlocksOf
<1> QED
  BY <1>2, <1>3, PartnersBorder

(* Siblings are of one level and of one octet. *)
LEMMA SiblingsMutual ==
  ASSUME NEW b \in Block, NEW s \in Siblings[b]
  PROVE  /\ s \in Block /\ s \in Nbr[b] /\ b \in Siblings[s] /\ Level[s] = Level[b]
         /\ Siblings[s] \cup {s} = Siblings[b] \cup {b}
         /\ \A u \in Siblings[b] : u # s => u \in Siblings[s]
<1>1. s \in Block  BY ForestAssumption
<1>2. s \in Nbr[b] /\ Level[s] = Level[b] /\ Siblings[s] \cup {s} = Siblings[b] \cup {b}
  BY <1>1, ForestAssumption
<1>3. s # b  BY <1>1, <1>2, ForestAssumption
<1> QED BY <1>1, <1>2, <1>3

-----------------------------------------------------------------------------
(* Counters *)

LEMMA Counters ==
  ASSUME TypeOK, NEW p \in Process, ProcessInv(p)
  PROVE  /\ Sent(p) \in Nat /\ Read(p) \in Nat /\ Merges(p) \in Nat /\ Told(p) \in Nat
         /\ round[p] \in Nat /\ Depth \in Nat /\ Depth >= 1
         /\ Read(p) <= Sent(p) /\ Sent(p) <= Read(p) + 1
         /\ Sent(p) <= 2 * Depth /\ Merges(p) <= Told(p) /\ Told(p) <= Depth
         /\ Late(p) => Read(p) = Depth + Told(p) /\ round[p] = Depth + Merges(p)
         /\ ~Late(p) => Read(p) < Depth /\ Told(p) = 0 /\ Merges(p) = 0 /\ Sent(p) <= Depth
         /\ Late(p) <=> Read(p) >= Depth
         /\ pc[p] = "merge" => Late(p)
<1>1. /\ round[p] \in Nat /\ Depth \in Nat /\ Depth >= 1 /\ round[p] <= 2 * Depth
      /\ pc[p] \in {"start", "evaluated", "send", "split", "reduce", "intend", "merge", "done"}
  BY ForestAssumption DEF TypeOK
<1>2. CASE round[p] < Depth
  BY <1>1, <1>2 DEF ProcessInv, Sent, Read, Merges, Told, Late
<1>3. CASE round[p] >= Depth
  BY <1>1, <1>3 DEF ProcessInv, Sent, Read, Merges, Told, Late
<1> QED BY <1>1, <1>2, <1>3

LEMMA MailShape ==
  ASSUME TypeOK, NEW p \in Process, NEW q \in Process
  PROVE  /\ levelMail[<<q, p>>] \in Seq([Border(q, p) -> Nat])
         /\ mergeMail[<<q, p>>] \in Seq(SUBSET BlocksOf(q))
         /\ LevelCount(q, p) \in Nat /\ IntentCount(q, p) \in Nat
         /\ LevelCount(q, p) = 0 <=> levelMail[<<q, p>>] = <<>>
         /\ IntentCount(q, p) = 0 <=> mergeMail[<<q, p>>] = <<>>
<1>1. /\ levelMail[<<q, p>>] \in Seq([Border(q, p) -> Nat])
      /\ mergeMail[<<q, p>>] \in Seq(SUBSET BlocksOf(q))
  BY DEF TypeOK
<1> QED BY <1>1, NoneLeft DEF LevelCount, IntentCount

(* Two partners in the same pass are at most one message apart. *)
LEMMA Together ==
  ASSUME TypeOK, \A r \in Process : ProcessInv(r), ChannelInv,
         NEW p \in Process, NEW q \in Partners[p],
         ~Ahead(p, q), ~Ahead(q, p)
  PROVE  /\ Read(p) <= Sent(q) /\ Read(q) <= Sent(p)
         /\ Merges(p) <= Told(q) /\ Merges(q) <= Told(p)
<1>1. q \in Process /\ p \in Partners[q]  BY PartnersMutual
<1>2. Counts(q, p) /\ Counts(p, q)  BY <1>1 DEF ChannelInv
<1>3. /\ LevelCount(q, p) \in Nat /\ IntentCount(q, p) \in Nat
      /\ LevelCount(p, q) \in Nat /\ IntentCount(p, q) \in Nat
  BY <1>1, MailShape
<1>4. /\ Sent(p) \in Nat /\ Read(p) \in Nat /\ Merges(p) \in Nat /\ Told(p) \in Nat
      /\ Sent(q) \in Nat /\ Read(q) \in Nat /\ Merges(q) \in Nat /\ Told(q) \in Nat
  BY <1>1, Counters
<1> QED BY <1>2, <1>3, <1>4 DEF Counts

(* Once both are past the splits they are in the same pass. *)
LEMMA LateTogether ==
  ASSUME TypeOK, \A r \in Process : ProcessInv(r), ChannelInv,
         NEW p \in Process, NEW q \in Partners[p], Late(p), Late(q)
  PROVE  ~Ahead(p, q) /\ ~Ahead(q, p)
BY ForestAssumption DEF Ahead, Late

-----------------------------------------------------------------------------
(* The initial states *)

LEMMA InitIndInv ==
  ASSUME Init
  PROVE  IndInv
<1> USE DEF Init
<1>1. TypeOK
  <2>1. \A b \in Block : Level[b] \in Nat  BY ForestAssumption
  <2>2. Level \in [Block -> Nat] /\ Level \in [Block -> Int]  BY <2>1, ForestAssumption
  <2>3. \A p, q \in Process : /\ levelMail[<<p, q>>] \in Seq([Border(p, q) -> Nat])
                              /\ mergeMail[<<p, q>>] \in Seq(SUBSET BlocksOf(p))
    OBVIOUS
  <2> QED BY <2>1, <2>2, <2>3, ForestAssumption DEF TypeOK
<1>2. \A p \in Process : ProcessInv(p)  BY DEF ProcessInv
<1>3. \A p, q \in Process : NoMail(q, p)  BY DEF NoMail
<1>4. ChannelInv
  <2> SUFFICES ASSUME NEW p \in Process, NEW q \in Partners[p]
               PROVE  Counts(q, p) /\ LevelsTrue(q, p) /\ IntentsTrue(q, p)
    BY DEF ChannelInv
  <2>1. q \in Process  BY PartnersMutual
  <2>2. /\ Sent(p) = 0 /\ Read(p) = 0 /\ Merges(p) = 0 /\ Sent(q) = 0 /\ Read(q) = 0
        /\ Told(q) = 0 /\ ~Ahead(p, q) /\ ~Ahead(q, p)
    BY <2>1, ForestAssumption DEF Sent, Read, Merges, Told, Ahead
  <2>3. levelMail[<<q, p>>] = <<>> /\ mergeMail[<<q, p>>] = <<>>  BY <2>1, <1>3 DEF NoMail
  <2>4. LevelCount(q, p) = 0 /\ IntentCount(q, p) = 0
    BY <2>3 DEF LevelCount, IntentCount
  <2> QED BY <2>2, <2>4 DEF Counts, LevelsTrue, IntentsTrue
<1>5. SilenceInv  BY <1>3 DEF SilenceInv
<1>6. SplitInv
  <2> SUFFICES ASSUME NEW b \in Block PROVE BlockInv(b) /\ Reason(b) /\ Settled(b)
    BY DEF SplitInv
  <2>1. ProcOf[b] \in Process /\ Level[b] \in 0..Depth /\ Depth \in Nat /\ Depth >= 1
    BY ForestAssumption, PartitionAssumption
  <2>2. \A n \in Nbr[b] : n \in Block /\ Level[n] \in Int /\ Level[n] <= Level[b] + 1
    BY ForestAssumption
  <2> QED BY <2>1, <2>2 DEF BlockInv, Reason, Settled, Late
<1>7. MergeInv
  <2> SUFFICES ASSUME NEW b \in Block PROVE Balance(b) /\ Permitted(b) /\ Octets(b)
    BY DEF MergeInv
  <2>1. ProcOf[b] \in Process /\ ~Late(ProcOf[b])
    BY ForestAssumption, PartitionAssumption DEF Late
  <2> QED BY <2>1 DEF Balance, Permitted, Octets
<1>8. TightInv
  <2> SUFFICES ASSUME NEW b \in Block PROVE Refused(b) /\ Hindered(b)
    BY DEF TightInv
  <2>1. ProcOf[b] \in Process /\ Told(ProcOf[b]) = 0 /\ Merges(ProcOf[b]) = 0
    BY ForestAssumption, PartitionAssumption DEF Told, Merges
  <2> QED BY <2>1 DEF Refused, Hindered
<1> QED BY <1>1, <1>2, <1>4, <1>5, <1>6, <1>7, <1>8 DEF IndInv

-----------------------------------------------------------------------------
(* What the iterations do to the target levels *)

LEMMA LevelFacts ==
  ASSUME TypeOK
  PROVE  /\ Depth \in Nat /\ Depth >= 1
         /\ \A b \in Block :
              /\ Level[b] \in Nat /\ Level[b] <= Depth /\ ProcOf[b] \in Process
              /\ target[b] \in Nat /\ minTarget[b] \in Nat /\ asked[b] \in Nat
              /\ Level[b] - 1 <= target[b] /\ target[b] <= Level[b] + 1
              /\ \A n \in Nbr[b] : /\ n \in Block /\ b \in Nbr[n] /\ n # b
                                   /\ Level[n] <= Level[b] + 1 /\ Level[b] <= Level[n] + 1
<1>1. Depth \in Nat /\ Depth >= 1 /\ \A b \in Block : Level[b] \in Nat /\ Level[b] <= Depth
  BY ForestAssumption
<1>2. \A b \in Block : ProcOf[b] \in Process  BY PartitionAssumption
<1>3. \A b \in Block :
        /\ target[b] \in Nat /\ minTarget[b] \in Nat /\ asked[b] \in Nat
        /\ Level[b] - 1 <= target[b] /\ target[b] <= Level[b] + 1
  BY <1>1 DEF TypeOK
<1>4. ASSUME NEW b \in Block, NEW n \in Nbr[b]
      PROVE  /\ n \in Block /\ b \in Nbr[n] /\ n # b
             /\ Level[n] <= Level[b] + 1 /\ Level[b] <= Level[n] + 1
  BY <1>1, ForestAssumption
<1> QED BY <1>1, <1>2, <1>3, <1>4

(* What p knows of its neighbours' levels when it has received them: not too
   much, and the truth of those that are settled. *)
LEMMA SeenTrue ==
  ASSUME TypeOK, \A r \in Process : ProcessInv(r), ChannelInv,
         NEW p \in Process, pc[p] \in {"split", "intend"}, AllMail(levelMail, p),
         NEW b \in Block, ProcOf[b] = p, NEW n \in Nbr[b], NEW own
  PROVE  /\ ProcOf[n] = p => Seen(p, n, own) = own[n]
         /\ ProcOf[n] # p => /\ Seen(p, n, own) \in Nat /\ Seen(p, n, own) <= target[n]
                             /\ Level[n] >= Depth - round[p] => Seen(p, n, own) = target[n]
<1>1. ProcOf[n] = p => Seen(p, n, own) = own[n]  BY DEF Seen
<1>2. ASSUME ProcOf[n] # p
      PROVE  /\ Seen(p, n, own) \in Nat /\ Seen(p, n, own) <= target[n]
             /\ Level[n] >= Depth - round[p] => Seen(p, n, own) = target[n]
  <2> DEFINE q == ProcOf[n]
             m == levelMail[<<q, p>>]
  <2>1. q \in Partners[p] /\ n \in Border(q, p)  BY <1>2, NeighborsPartners
  <2>2. q \in Process  BY <2>1, PartnersMutual
  <2>3. m \in Seq([Border(q, p) -> Nat])  BY <2>2, MailShape
  <2>4. m # <<>>  BY <2>1 DEF AllMail
  <2>5. Len(m) >= 1 /\ Head(m) = m[1] /\ m[1] \in [Border(q, p) -> Nat]  BY <2>3, <2>4, Rest
  <2>6. 1 \in 1..LevelCount(q, p)
    <3>1. LevelCount(q, p) \in Nat /\ LevelCount(q, p) # 0  BY <2>2, <2>4, MailShape
    <3> QED BY <3>1
  <2>7. LevelsTrue(q, p)  BY <2>1 DEF ChannelInv
  <2>8. FirstOf(q, p) = round[p]
    <3>1. Read(p) = round[p] /\ round[p] < 2 * Depth /\ round[p] \in Nat /\ Depth \in Nat
      <4>1. round[p] \in Nat /\ Depth \in Nat /\ Depth >= 1
        <5>1. Depth \in Nat /\ Depth >= 1  BY LevelFacts
        <5> QED BY <5>1 DEF TypeOK
      <4>2. pc[p] # "done" /\ round[p] < 2 * Depth  BY <4>1 DEF ProcessInv
      <4> QED BY <4>1, <4>2 DEF Read
    <3>2. Read(p) # 2 * Depth  BY ONLY <3>1
    <3> QED BY <3>1, <3>2 DEF FirstOf, Ahead
  <2>9. round[p] \in Nat  BY DEF TypeOK
  <2>10. Seen(p, n, own) = m[1][n]  BY <1>2, <2>5 DEF Seen
  <2>11. m[1][n] <= target[n] /\ (Level[n] >= Depth - (round[p] + 1 - 1) => m[1][n] = target[n])
    BY <2>1, <2>6, <2>7, <2>8 DEF LevelsTrue
  <2>12. m[1][n] \in Nat  BY <2>1, <2>5
  <2> QED BY <2>9, <2>10, <2>11, <2>12, LevelFacts
<1> QED BY <1>1, <1>2

(* Whoever is willing to merge may merge, whatever the neighbours do. *)
LEMMA IntendEffect ==
  ASSUME TypeOK, \A r \in Process : ProcessInv(r), ChannelInv,
         NEW p \in Process, Intend(p)
  PROVE  /\ \A b \in Block : ProcOf[b] = p =>
              (b \in willing'[p] <=> InOctet(b) /\ \A n \in Nbr[b] : target[n] <= target[b])
         /\ willing'[p] \subseteq BlocksOf(p)
         /\ \A q \in Process : q # p => willing'[q] = willing[q]
<1>1. pc[p] = "intend" /\ AllMail(levelMail, p)  BY DEF Intend
<1>2. Depth <= round[p] /\ round[p] \in Nat  BY <1>1, ForestAssumption DEF ProcessInv, TypeOK
<1>3. willing' = [willing EXCEPT ![p] = {b \in BlocksOf(p) : InOctet(b) /\ MergeCapable(p, b)}]
  BY DEF Intend
<1>4. willing \in [Process -> SUBSET Block]  BY DEF TypeOK
<1>5. ASSUME NEW b \in Block, ProcOf[b] = p, NEW n \in Nbr[b]
      PROVE  Seen(p, n, target) = target[n]
  BY <1>1, <1>2, <1>5, SeenTrue, LevelFacts
<1>6. ASSUME NEW b \in Block, ProcOf[b] = p
      PROVE  MergeCapable(p, b) <=> \A n \in Nbr[b] : target[n] <= target[b]
  BY <1>5, <1>6 DEF MergeCapable
<1>7. willing'[p] = {b \in BlocksOf(p) : InOctet(b) /\ MergeCapable(p, b)}  BY <1>3, <1>4
<1>8. \A q \in Process : q # p => willing'[q] = willing[q]  BY <1>3, <1>4
<1> QED BY <1>6, <1>7, <1>8 DEF BlocksOf

(* A block is merged just if its octet agrees. *)
LEMMA MergeEffect ==
  ASSUME TypeOK, \A r \in Process : ProcessInv(r), ChannelInv, MergeInv,
         NEW p \in Process, Merge(p)
  PROVE  /\ target' = [b \in Block |-> IF ProcOf[b] = p /\ Agreed(b)
                                       THEN target[b] - 1 ELSE target[b]]
         /\ \A b \in Block : ProcOf[b] = p /\ Agreed(b) =>
              InOctet(b) /\ \A n \in Nbr[b] : Late(ProcOf[n]) => target[n] <= target[b]
<1>1. pc[p] = "merge" /\ AllMail(mergeMail, p)  BY DEF Merge
<1>2. ASSUME NEW b \in Block, ProcOf[b] = p, NEW s \in Siblings[b]
      PROVE  WillingAt(p, ProcOf[s]) = willing[ProcOf[s]]
  <2> DEFINE q == ProcOf[s]
             m == mergeMail[<<q, p>>]
  <2>1. CASE q = p  BY <2>1 DEF WillingAt
  <2>2. CASE q # p
    <3>1. q \in Partners[p] /\ q \in Process
      BY <1>2, <2>2, SiblingsMutual, NeighborsPartners, PartnersMutual
    <3>2. m \in Seq(SUBSET BlocksOf(q)) /\ m # <<>>  BY <1>1, <3>1, MailShape DEF AllMail
    <3>3. Len(m) >= 1 /\ Head(m) = m[1]  BY <3>2, Rest
    <3>4. 1 \in 1..IntentCount(q, p)
      <4>1. IntentCount(q, p) \in Nat /\ IntentCount(q, p) # 0  BY <3>1, <3>2, MailShape
      <4> QED BY <4>1
    <3>5. IntentsTrue(q, p)  BY <3>1 DEF ChannelInv
    <3> QED BY <2>2, <3>3, <3>4, <3>5 DEF IntentsTrue, WillingAt
  <2> QED BY <2>1, <2>2
<1>3. ASSUME NEW b \in Block, ProcOf[b] = p
      PROVE  MergePossible(p, b) <=> Agreed(b)
  BY <1>2, <1>3 DEF MergePossible, Agreed
<1>4. target' = [b \in Block |-> IF ProcOf[b] = p /\ MergePossible(p, b)
                                 THEN target[b] - 1 ELSE target[b]]
  BY DEF Merge
<1>5. target' = [b \in Block |-> IF ProcOf[b] = p /\ Agreed(b)
                                 THEN target[b] - 1 ELSE target[b]]
  BY <1>3, <1>4
<1>6. ASSUME NEW b \in Block, ProcOf[b] = p, Agreed(b)
      PROVE  InOctet(b) /\ \A n \in Nbr[b] : Late(ProcOf[n]) => target[n] <= target[b]
  <2>1. b \in willing[p]  BY <1>6 DEF Agreed
  <2> QED BY <1>1, <1>6, <2>1 DEF MergeInv, Permitted
<1> QED BY <1>5, <1>6

(* A block is split for a neighbour that is two levels finer by the end of the
   visit; it is of a level that is not settled yet.  One more level is settled
   by the visit. *)
LEMMA SplitEffect ==
  ASSUME TypeOK, \A r \in Process : ProcessInv(r), ChannelInv, SplitInv,
         NEW p \in Process, Split(p)
  PROVE  \E S \in SUBSET Block :
           /\ target' = [b \in Block |-> IF b \in S THEN Level[b] + 1 ELSE target[b]]
           /\ \A b \in S : /\ ProcOf[b] = p /\ target[b] = Level[b]
                           /\ Level[b] < Depth - round[p]
                           /\ \E n \in Nbr[b] : target'[n] = Level[b] + 2
           /\ \A b \in Block : /\ ProcOf[b] = p /\ b \notin S /\ target[b] = Level[b]
                               /\ Level[b] >= Depth - (round[p] + 1)
                               => \A n \in Nbr[b] : target'[n] <= Level[b] + 1
<1>1. pc[p] = "split" /\ AllMail(levelMail, p)  BY DEF Split
<1>2. round[p] < Depth /\ round[p] \in Nat  BY <1>1, ForestAssumption DEF ProcessInv, TypeOK
<1>3. PICK S \in SUBSET BlocksOf(p) : Splits(p, S) /\ target' = AfterSplits(S)  BY DEF Split
<1>4. \A b \in S : b \in Block /\ ProcOf[b] = p  BY <1>3 DEF BlocksOf
<1>5. target' = [b \in Block |-> IF b \in S THEN Level[b] + 1 ELSE target[b]]
  BY <1>3 DEF AfterSplits
<1>6. \A b \in Block : target'[b] = IF b \in S THEN Level[b] + 1 ELSE target[b]  BY <1>5
(* What the visit of a block sees *)
<1> DEFINE Own(i) == AfterSplits(S \cap {Local[p][j] : j \in 1..(i - 1)})
<1>7. ASSUME NEW b \in Block, ProcOf[b] = p
      PROVE  \E i \in DOMAIN Local[p] : b \in S <=> MustSplit(p, b, Own(i))
  <2>1. PICK i \in DOMAIN Local[p] : Local[p][i] = b
    <3>1. b \in Range(Local[p])  BY <1>7, PartitionAssumption
    <3> QED BY <3>1 DEF Range
  <2> QED BY <1>3, <2>1 DEF Splits
<1>8. ASSUME NEW i, NEW b \in Block
      PROVE  /\ (Own(i)[b] = Level[b] + 1 /\ b \in S) \/ Own(i)[b] = target[b]
             /\ b \notin S => Own(i)[b] = target[b]
             /\ Own(i)[b] <= target'[b]
  BY <1>6, LevelFacts DEF AfterSplits
<1> HIDE DEF Own
<1>9. ASSUME NEW b \in S
      PROVE  /\ target[b] = Level[b]
             /\ \E n \in Nbr[b], i \in DOMAIN Local[p] : Seen(p, n, Own(i)) > Level[b] + 1
  <2>1. b \in Block /\ ProcOf[b] = p  BY <1>4
  <2>2. PICK i \in DOMAIN Local[p] : MustSplit(p, b, Own(i))  BY <1>7, <2>1
  <2>3. Own(i)[b] = Level[b] /\ \E n \in Nbr[b] : Seen(p, n, Own(i)) > Own(i)[b] + 1
    BY <2>2 DEF MustSplit
  <2>4. target[b] = Level[b]  BY <1>8, <2>1, <2>3, LevelFacts
  <2> QED BY <2>3, <2>4
<1>10. ASSUME NEW b \in Block, ProcOf[b] = p, NEW n \in Nbr[b], NEW i
       PROVE  /\ ProcOf[n] = p => Seen(p, n, Own(i)) = Own(i)[n]
              /\ ProcOf[n] # p => /\ Seen(p, n, Own(i)) <= target[n]
                                  /\ Level[n] >= Depth - round[p] => Seen(p, n, Own(i)) = target[n]
  BY <1>1, <1>10, SeenTrue
<1>11. ASSUME NEW b \in S
       PROVE  \E n \in Nbr[b] : target'[n] = Level[b] + 2
  <2>1. b \in Block /\ ProcOf[b] = p  BY <1>4
  <2>2. PICK n \in Nbr[b], i \in DOMAIN Local[p] : Seen(p, n, Own(i)) > Level[b] + 1  BY <1>9
  <2>3. n \in Block /\ Level[n] <= Level[b] + 1 /\ Level[n] \in Nat /\ Level[b] \in Nat
        /\ target[n] \in Nat /\ target[n] <= Level[n] + 1
    BY <2>1, LevelFacts
  <2>4. target'[n] <= Level[n] + 1  BY <1>6, <2>3
  <2>5. target'[n] > Level[b] + 1
    <3>1. CASE ProcOf[n] = p
      BY <3>1, <2>1, <2>2, <2>3, <1>6, <1>8, <1>10
    <3>2. CASE ProcOf[n] # p
      <4>1. n \notin S  BY <3>2, <1>4
      <4> QED BY <4>1, <3>2, <2>1, <2>2, <2>3, <1>6, <1>10, SeenTrue, <1>1
    <3> QED BY <3>1, <3>2
  <2> QED BY <2>3, <2>4, <2>5, <1>6
(* No settled block is split: look at the finest. *)
<1>12. ASSUME NEW c \in S, Level[c] >= Depth - round[p]
       PROVE  FALSE
  <2> DEFINE T == {Depth - Level[b] : b \in {d \in S : Level[d] >= Depth - round[p]}}
  <2>1. T \subseteq Nat  BY <1>4, LevelFacts
  <2>2. T # {}  BY <1>12
  <2>3. PICK x \in T : \A y \in T : x <= y  BY <2>1, <2>2, LeastOf
  <2>4. PICK b \in S : Level[b] >= Depth - round[p] /\ x = Depth - Level[b]  BY <2>3
  <2>5. b \in Block /\ ProcOf[b] = p  BY <1>4
  <2>6. PICK n \in Nbr[b], i \in DOMAIN Local[p] : Seen(p, n, Own(i)) > Level[b] + 1  BY <1>9
  <2>7. n \in Block /\ target[n] \in Nat /\ Level[n] \in Nat /\ Level[b] \in Nat
    BY <2>5, LevelFacts
  <2>8. target[n] <= Level[b] + 1
    <3>1. target[b] = Level[b]  BY <1>9
    <3>2. Settled(b)  BY <2>5 DEF SplitInv
    <3> QED BY <3>1, <3>2, <2>4, <2>5, <1>1, <1>2, LevelFacts DEF Settled
  <2>9. ProcOf[n] = p  BY <2>5, <2>6, <2>7, <2>8, <1>10, <1>1, SeenTrue
  <2>10. Own(i)[n] > Level[b] + 1  BY <2>5, <2>6, <2>9, <1>10
  <2>11. n \in S /\ Own(i)[n] = Level[n] + 1  BY <2>7, <2>8, <2>10, <1>8
  <2>12. Level[n] > Level[b]  BY <2>7, <2>10, <2>11
  <2>13. Depth - Level[n] \in T  BY <2>4, <2>7, <2>11, <2>12, <1>2, LevelFacts
  <2>14. Depth - Level[b] <= Depth - Level[n]  BY <2>3, <2>4, <2>13
  <2> QED BY <2>7, <2>12, <2>14, LevelFacts
<1>13. ASSUME NEW b \in Block, ProcOf[b] = p, b \notin S, target[b] = Level[b],
              Level[b] >= Depth - (round[p] + 1), NEW n \in Nbr[b]
       PROVE  target'[n] <= Level[b] + 1
  <2>1. PICK i \in DOMAIN Local[p] : ~MustSplit(p, b, Own(i))  BY <1>7, <1>13
  <2>2. ~(Seen(p, n, Own(i)) > Level[b] + 1)  BY <2>1, <1>8, <1>13 DEF MustSplit
  <2>3. n \in Block /\ Level[n] \in Nat /\ Level[b] \in Nat /\ target[n] \in Nat
        /\ target[n] <= Level[n] + 1 /\ Level[n] <= Level[b] + 1
    BY LevelFacts
  <2>4. CASE Level[n] <= Level[b]  BY <2>3, <2>4, <1>6
  <2>5. CASE Level[n] = Level[b] + 1
    <3>1. Level[n] >= Depth - round[p]  BY <2>3, <2>5, <1>2, <1>13, LevelFacts
    <3>2. n \notin S  BY <3>1, <1>12
    <3>3. target'[n] = target[n]  BY <2>3, <3>2, <1>6
    <3>4. Seen(p, n, Own(i)) = target[n]  BY <2>3, <3>1, <3>2, <1>8, <1>10, <1>13
    <3> QED BY <2>2, <2>3, <3>3, <3>4
  <2> QED BY <2>3, <2>4, <2>5
<1>14. \A b \in S : Level[b] < Depth - round[p]  BY <1>2, <1>4, <1>12, LevelFacts
<1> QED
  <2>1. S \in SUBSET Block  BY <1>4
  <2> WITNESS S \in SUBSET Block
  <2> QED BY <1>4, <1>5, <1>9, <1>11, <1>13, <1>14

-----------------------------------------------------------------------------
(* What they do to the messages *)

LEMMA TakenAt ==
  ASSUME NEW mail, NEW p \in Process
  PROVE  /\ DOMAIN Taken(mail, p) = Process \X Process
         /\ \A q \in Process, r \in Process : Taken(mail, p)[<<q, r>>] =
              IF r = p /\ q \in Partners[p] THEN Tail(mail[<<q, r>>]) ELSE mail[<<q, r>>]
BY DEF Taken

(* Reading one message of every partner *)
LEMMA ReadLevels ==
  ASSUME TypeOK, NEW p \in Process, AllMail(levelMail, p), levelMail' = Taken(levelMail, p),
         NEW q \in Process, NEW r \in Process
  PROVE  /\ ~(r = p /\ q \in Partners[p]) => levelMail'[<<q, r>>] = levelMail[<<q, r>>]
         /\ r = p /\ q \in Partners[p] =>
              /\ levelMail'[<<q, r>>] \in Seq([Border(q, r) -> Nat])
              /\ LevelCount(q, r)' = LevelCount(q, r) - 1
              /\ LevelCount(q, r) >= 1
              /\ \A i \in 1..LevelCount(q, r)' : /\ levelMail'[<<q, r>>][i] = levelMail[<<q, r>>][i + 1]
                                                 /\ i + 1 \in 1..LevelCount(q, r)
<1>1. /\ levelMail'[<<q, r>>] = IF r = p /\ q \in Partners[p]
                                THEN Tail(levelMail[<<q, r>>]) ELSE levelMail[<<q, r>>]
  BY TakenAt
<1>2. ASSUME r = p, q \in Partners[p]
      PROVE  /\ levelMail'[<<q, r>>] \in Seq([Border(q, r) -> Nat])
             /\ LevelCount(q, r)' = LevelCount(q, r) - 1
             /\ LevelCount(q, r) >= 1
             /\ \A i \in 1..LevelCount(q, r)' : /\ levelMail'[<<q, r>>][i] = levelMail[<<q, r>>][i + 1]
                                                /\ i + 1 \in 1..LevelCount(q, r)
  <2>1. levelMail[<<q, r>>] \in Seq([Border(q, r) -> Nat])  BY MailShape
  <2>2. levelMail[<<q, r>>] # <<>>  BY <1>2 DEF AllMail
  <2> QED BY <1>1, <1>2, <2>1, <2>2, Rest DEF LevelCount
<1> QED BY <1>1, <1>2

LEMMA ReadIntents ==
  ASSUME TypeOK, NEW p \in Process, AllMail(mergeMail, p), mergeMail' = Taken(mergeMail, p),
         NEW q \in Process, NEW r \in Process
  PROVE  /\ ~(r = p /\ q \in Partners[p]) => mergeMail'[<<q, r>>] = mergeMail[<<q, r>>]
         /\ r = p /\ q \in Partners[p] =>
              /\ mergeMail'[<<q, r>>] \in Seq(SUBSET BlocksOf(q))
              /\ IntentCount(q, r)' = IntentCount(q, r) - 1
              /\ IntentCount(q, r) >= 1
              /\ \A i \in 1..IntentCount(q, r)' :
                   /\ mergeMail'[<<q, r>>][i] = mergeMail[<<q, r>>][i + 1]
                   /\ i + 1 \in 1..IntentCount(q, r)
<1>1. /\ mergeMail'[<<q, r>>] = IF r = p /\ q \in Partners[p]
                                THEN Tail(mergeMail[<<q, r>>]) ELSE mergeMail[<<q, r>>]
  BY TakenAt
<1>2. ASSUME r = p, q \in Partners[p]
      PROVE  /\ mergeMail'[<<q, r>>] \in Seq(SUBSET BlocksOf(q))
             /\ IntentCount(q, r)' = IntentCount(q, r) - 1
             /\ IntentCount(q, r) >= 1
             /\ \A i \in 1..IntentCount(q, r)' :
                  /\ mergeMail'[<<q, r>>][i] = mergeMail[<<q, r>>][i + 1]
                  /\ i + 1 \in 1..IntentCount(q, r)
  <2>1. mergeMail[<<q, r>>] \in Seq(SUBSET BlocksOf(q))  BY MailShape
  <2>2. mergeMail[<<q, r>>] # <<>>  BY <1>2 DEF AllMail
  <2> QED BY <1>1, <1>2, <2>1, <2>2, Rest DEF IntentCount
<1> QED BY <1>1, <1>2

(* Sending the target levels of the border *)
(* The channel from q to p holds one message more, the levels q now has. *)
OneSent(q, p) ==
  /\ levelMail'[<<q, p>>] \in Seq([Border(q, p) -> Nat])
  /\ LevelCount(q, p)' = LevelCount(q, p) + 1
  /\ \A i \in 1..LevelCount(q, p) : levelMail'[<<q, p>>][i] = levelMail[<<q, p>>][i]
  /\ \A n \in Border(q, p) : levelMail'[<<q, p>>][LevelCount(q, p) + 1][n] = target[n]

LEMMA SentToPartner ==
  ASSUME TypeOK, NEW q \in Process, SendLevels(q), NEW p \in Process, p \in Partners[q]
  PROVE  OneSent(q, p)
<1> DEFINE m == [b \in Border(q, p) |-> target[b]]
<1>1. levelMail[<<q, p>>] \in Seq([Border(q, p) -> Nat])  BY MailShape
<1>2. m \in [Border(q, p) -> Nat]  BY LevelFacts DEF Border, BlocksOf
<1>3. \A n \in Border(q, p) : m[n] = target[n]  OBVIOUS
<1>4. levelMail'[<<q, p>>] = Append(levelMail[<<q, p>>], m)  BY DEF SendLevels
<1> HIDE DEF m
<1> DEFINE c == levelMail[<<q, p>>]
<1>5. /\ Append(c, m) \in Seq([Border(q, p) -> Nat]) /\ Len(Append(c, m)) = Len(c) + 1
      /\ \A i \in 1..Len(c) : Append(c, m)[i] = c[i]
      /\ Append(c, m)[Len(c) + 1] = m
  <2>1. c \in Seq([Border(q, p) -> Nat])  BY <1>1
  <2> HIDE DEF c
  <2> QED BY ONLY <1>2, <2>1, OneMore
<1> QED BY ONLY <1>3, <1>4, <1>5 DEF OneSent, LevelCount

LEMMA SentLevels ==
  ASSUME TypeOK, NEW p \in Process, SendLevels(p), NEW q \in Process, NEW r \in Process
  PROVE  /\ ~(q = p /\ r \in Partners[p]) => levelMail'[<<q, r>>] = levelMail[<<q, r>>]
         /\ q = p /\ r \in Partners[p] => OneSent(q, r)
<1>1. ASSUME ~(q = p /\ r \in Partners[p])
      PROVE  levelMail'[<<q, r>>] = levelMail[<<q, r>>]
  BY <1>1 DEF SendLevels
<1> QED BY <1>1, SentToPartner

(* Telling the partners who is willing to merge *)
LEMMA ToldIntents ==
  ASSUME TypeOK, NEW p \in Process, Intend(p), NEW q \in Process, NEW r \in Process
  PROVE  /\ ~(q = p /\ r \in Partners[p]) => mergeMail'[<<q, r>>] = mergeMail[<<q, r>>]
         /\ q = p /\ r \in Partners[p] =>
              /\ mergeMail'[<<q, r>>] \in Seq(SUBSET BlocksOf(q))
              /\ IntentCount(q, r)' = IntentCount(q, r) + 1
              /\ mergeMail'[<<q, r>>][IntentCount(q, r) + 1] = willing'[q]
<1>1. mergeMail'[<<q, r>>] = IF q = p /\ r \in Partners[p]
                             THEN Append(mergeMail[<<q, r>>], willing'[p])
                             ELSE mergeMail[<<q, r>>]
  BY DEF Intend
<1>2. ASSUME q = p, r \in Partners[p]
      PROVE  /\ mergeMail'[<<q, r>>] \in Seq(SUBSET BlocksOf(q))
             /\ IntentCount(q, r)' = IntentCount(q, r) + 1
             /\ mergeMail'[<<q, r>>][IntentCount(q, r) + 1] = willing'[q]
  <2>1. mergeMail[<<q, r>>] \in Seq(SUBSET BlocksOf(q))  BY MailShape
  <2>2. willing'[p] = {b \in BlocksOf(p) : InOctet(b) /\ MergeCapable(p, b)}
    BY DEF Intend, TypeOK
  <2>3. willing'[q] \in SUBSET BlocksOf(q)  BY <1>2, <2>2
  <2> QED BY <1>1, <1>2, <2>1, <2>3, OneMore DEF IntentCount
<1> QED BY <1>1, <1>2

-----------------------------------------------------------------------------
(* Types and control *)

LEMMA TypeStep ==
  ASSUME IndInv, Next
  PROVE  TypeOK'
<1>1. /\ TypeOK /\ \A r \in Process : ProcessInv(r)
      /\ ChannelInv /\ SplitInv /\ MergeInv
  BY DEF IndInv
<1>2. /\ Depth \in Nat /\ Depth >= 1
      /\ \A b \in Block : Level[b] \in Nat /\ Level[b] \in Request[b] /\ Request[b] \subseteq Nat
  BY ForestAssumption, RequestAssumption
<1>3. ASSUME NEW p \in Process, Evaluate(p)
      PROVE  TypeOK'
  <2>1. PICK req \in [BlocksOf(p) -> UNION {Request[b] \cup {target[b]} : b \in BlocksOf(p)}] :
          /\ minTarget' = [b \in Block |-> IF ProcOf[b] = p THEN Lesser(req[b], Level[b] + 1)
                                                            ELSE minTarget[b]]
          /\ asked' = [b \in Block |-> IF ProcOf[b] = p /\ ~Marked(b) THEN req[b] ELSE asked[b]]
          /\ more' = [more EXCEPT ![p] = WantsMore(req, p)]
    BY <1>3 DEF Evaluate
  <2>2. \A b \in Block : ProcOf[b] = p => req[b] \in Nat
    <3>1. UNION {Request[b] \cup {target[b]} : b \in BlocksOf(p)} \subseteq Nat
      BY <1>1, <1>2, LevelFacts DEF BlocksOf
    <3> QED BY <3>1, <2>1 DEF BlocksOf
  <2>3. minTarget' \in [Block -> Nat]
        /\ \A b \in Block : ProcOf[b] = p => minTarget'[b] <= Level[b] + 1
    BY <1>1, <1>2, <2>1, <2>2 DEF Lesser, TypeOK
  <2>4. asked' \in [Block -> Nat]  BY <1>1, <2>1, <2>2 DEF TypeOK
  <2>5. more' \in [Process -> BOOLEAN]
    <3>1. WantsMore(req, p) \in BOOLEAN  BY DEF WantsMore
    <3> QED BY <1>1, <2>1, <3>1 DEF TypeOK
  <2>6. target' = [b \in Block |-> IF ProcOf[b] = p THEN Greater(Level[b], minTarget'[b])
                                                    ELSE target[b]]
    BY <1>3 DEF Evaluate
  <2>7. \A b \in Block : /\ target'[b] \in Nat /\ target'[b] >= Level[b] - 1
                         /\ target'[b] <= Level[b] + 1
    BY <1>1, <1>2, <2>3, <2>6, LevelFacts DEF Greater
  <2>8. /\ target' \in [Block -> Int]
        /\ \A b \in Block : target'[b] \in (Level[b] - 1)..(Level[b] + 1) /\ target'[b] >= 0
    BY <1>2, <2>6, <2>7
  <2>9. pc' \in [Process -> {"start", "evaluated", "send", "split", "reduce", "intend", "merge", "done"}]
    BY <1>1, <1>3 DEF TypeOK, Evaluate
  <2>10. forced' \in [Process -> BOOLEAN] /\ rerun' \in [Process -> BOOLEAN]
    BY <1>1, <1>3 DEF TypeOK, Evaluate
  <2>11. UNCHANGED <<opt, round, levelMail, mergeMail, willing>>  BY <1>3 DEF Evaluate
  <2>12. /\ DOMAIN levelMail' = Process \X Process /\ DOMAIN mergeMail' = Process \X Process
         /\ \A q, r \in Process : /\ levelMail'[<<q, r>>] \in Seq([Border(q, r) -> Nat])
                                   /\ mergeMail'[<<q, r>>] \in Seq(SUBSET BlocksOf(q))
    BY <1>1, <2>11 DEF TypeOK
  <2> QED BY <1>1, <2>3, <2>4, <2>5, <2>8, <2>9, <2>10, <2>11, <2>12 DEF TypeOK
<1>4. ASSUME Agree
      PROVE  TypeOK'
  <2>1. /\ more' \in [Process -> BOOLEAN]
        /\ pc' \in [Process -> {"start", "evaluated", "send", "split", "reduce", "intend", "merge", "done"}]
    <3>1. (opt.multiple /\ \E q \in Process : more[q]) \in BOOLEAN
      BY <1>1, RequestAssumption DEF TypeOK, Flags
    <3> QED BY <1>4, <3>1 DEF Agree
  <2>2. UNCHANGED <<opt, target, minTarget, asked, round, forced, rerun, levelMail, mergeMail, willing>>
    BY <1>4 DEF Agree
  <2>3. /\ DOMAIN levelMail' = Process \X Process /\ DOMAIN mergeMail' = Process \X Process
        /\ \A q, r \in Process : /\ levelMail'[<<q, r>>] \in Seq([Border(q, r) -> Nat])
                                  /\ mergeMail'[<<q, r>>] \in Seq(SUBSET BlocksOf(q))
    BY <1>1, <2>2 DEF TypeOK
  <2> QED BY <1>1, <2>1, <2>2, <2>3 DEF TypeOK
<1>5. ASSUME NEW p \in Process, SendLevels(p)
      PROVE  TypeOK'
  <2>1. DOMAIN levelMail' = Process \X Process  BY <1>5 DEF SendLevels
  <2>2. \A q, r \in Process : levelMail'[<<q, r>>] \in Seq([Border(q, r) -> Nat])
    <3> SUFFICES ASSUME NEW q \in Process, NEW r \in Process
                 PROVE  levelMail'[<<q, r>>] \in Seq([Border(q, r) -> Nat])
      OBVIOUS
    <3>1. levelMail[<<q, r>>] \in Seq([Border(q, r) -> Nat])  BY <1>1, MailShape
    <3> QED BY <1>1, <1>5, <3>1, SentLevels DEF OneSent
  <2>3. pc' \in [Process -> {"start", "evaluated", "send", "split", "reduce", "intend", "merge", "done"}]
    BY <1>1, <1>5 DEF TypeOK, SendLevels
  <2>4. UNCHANGED <<opt, target, minTarget, asked, round, forced, more, rerun, mergeMail, willing>>
    BY <1>5 DEF SendLevels
  <2> QED BY <1>1, <2>1, <2>2, <2>3, <2>4 DEF TypeOK
<1>6. ASSUME NEW p \in Process, Split(p)
      PROVE  TypeOK'
  <2>1. AllMail(levelMail, p) /\ levelMail' = Taken(levelMail, p)  BY <1>6 DEF Split
  <2>2. DOMAIN levelMail' = Process \X Process  BY <2>1, TakenAt
  <2>3. \A q, r \in Process : levelMail'[<<q, r>>] \in Seq([Border(q, r) -> Nat])
    <3> SUFFICES ASSUME NEW q \in Process, NEW r \in Process
                 PROVE  levelMail'[<<q, r>>] \in Seq([Border(q, r) -> Nat])
      OBVIOUS
    <3>1. levelMail[<<q, r>>] \in Seq([Border(q, r) -> Nat])  BY <1>1, MailShape
    <3> QED BY <1>1, <2>1, <3>1, ReadLevels
  <2>4. PICK S \in SUBSET Block :
          target' = [b \in Block |-> IF b \in S THEN Level[b] + 1 ELSE target[b]]
    BY <1>1, <1>6, SplitEffect
  <2>5. \A b \in Block : target'[b] \in (Level[b] - 1)..(Level[b] + 1) /\ target'[b] >= 0
    BY <1>1, <1>2, <2>4, LevelFacts
  <2>6. target' \in [Block -> Int]  BY <2>4, <2>5
  <2>7. /\ pc' \in [Process -> {"start", "evaluated", "send", "split", "reduce", "intend", "merge", "done"}]
        /\ forced' \in [Process -> BOOLEAN]
    BY <1>1, <1>6 DEF TypeOK, Split
  <2>8. round' \in [Process -> 0..(2 * Depth)]
    <3>1. round[p] < Depth /\ round[p] \in 0..(2 * Depth)
      BY <1>1, <1>6 DEF Split, ProcessInv, TypeOK
    <3> QED BY <1>1, <1>2, <1>6, <3>1 DEF TypeOK, Split, Rounds
  <2>9. UNCHANGED <<opt, minTarget, asked, more, rerun, mergeMail, willing>>  BY <1>6 DEF Split
  <2>10. /\ DOMAIN mergeMail' = Process \X Process
         /\ \A q, r \in Process : mergeMail'[<<q, r>>] \in Seq(SUBSET BlocksOf(q))
    BY <1>1, <2>9 DEF TypeOK
  <2> QED BY <1>1, <2>2, <2>3, <2>5, <2>6, <2>7, <2>8, <2>9, <2>10 DEF TypeOK
<1>7. ASSUME Reduce
      PROVE  TypeOK'
  BY <1>1, <1>7 DEF TypeOK, Reduce, RerunNeeded
<1>8. ASSUME NEW p \in Process, Intend(p)
      PROVE  TypeOK'
  <2>1. AllMail(levelMail, p) /\ levelMail' = Taken(levelMail, p)  BY <1>8 DEF Intend
  <2>2. DOMAIN levelMail' = Process \X Process /\ DOMAIN mergeMail' = Process \X Process
    BY <1>8, <2>1, TakenAt DEF Intend
  <2>3. \A q, r \in Process : /\ levelMail'[<<q, r>>] \in Seq([Border(q, r) -> Nat])
                              /\ mergeMail'[<<q, r>>] \in Seq(SUBSET BlocksOf(q))
    <3> SUFFICES ASSUME NEW q \in Process, NEW r \in Process
                 PROVE  /\ levelMail'[<<q, r>>] \in Seq([Border(q, r) -> Nat])
                        /\ mergeMail'[<<q, r>>] \in Seq(SUBSET BlocksOf(q))
      OBVIOUS
    <3>1. /\ levelMail[<<q, r>>] \in Seq([Border(q, r) -> Nat])
          /\ mergeMail[<<q, r>>] \in Seq(SUBSET BlocksOf(q))
      BY <1>1, MailShape
    <3>2. levelMail'[<<q, r>>] \in Seq([Border(q, r) -> Nat])  BY <1>1, <2>1, <3>1, ReadLevels
    <3>3. mergeMail'[<<q, r>>] \in Seq(SUBSET BlocksOf(q))  BY <1>1, <1>8, <3>1, ToldIntents
    <3> QED BY <3>2, <3>3
  <2>4. /\ pc' \in [Process -> {"start", "evaluated", "send", "split", "reduce", "intend", "merge", "done"}]
        /\ willing' \in [Process -> SUBSET Block]
    BY <1>1, <1>8 DEF TypeOK, Intend, BlocksOf
  <2>5. UNCHANGED <<opt, target, minTarget, asked, round, forced, more, rerun>>  BY <1>8 DEF Intend
  <2> QED BY <1>1, <2>2, <2>3, <2>4, <2>5 DEF TypeOK
<1>9. ASSUME NEW p \in Process, Merge(p)
      PROVE  TypeOK'
  <2>1. AllMail(mergeMail, p) /\ mergeMail' = Taken(mergeMail, p)  BY <1>9 DEF Merge
  <2>2. DOMAIN mergeMail' = Process \X Process  BY <2>1, TakenAt
  <2>3. \A q, r \in Process : mergeMail'[<<q, r>>] \in Seq(SUBSET BlocksOf(q))
    <3> SUFFICES ASSUME NEW q \in Process, NEW r \in Process
                 PROVE  mergeMail'[<<q, r>>] \in Seq(SUBSET BlocksOf(q))
      OBVIOUS
    <3>1. mergeMail[<<q, r>>] \in Seq(SUBSET BlocksOf(q))  BY <1>1, MailShape
    <3> QED BY <1>1, <2>1, <3>1, ReadIntents
  <2>4. /\ target' = [b \in Block |-> IF ProcOf[b] = p /\ Agreed(b)
                                      THEN target[b] - 1 ELSE target[b]]
        /\ \A b \in Block : ProcOf[b] = p /\ Agreed(b) => InOctet(b)
    BY <1>1, <1>9, MergeEffect
  <2>5. \A b \in Block : target'[b] \in (Level[b] - 1)..(Level[b] + 1) /\ target'[b] >= 0
    BY <1>1, <1>2, <2>4, LevelFacts DEF InOctet
  <2>6. target' \in [Block -> Int]  BY <2>4, <2>5
  <2>7. pc' \in [Process -> {"start", "evaluated", "send", "split", "reduce", "intend", "merge", "done"}]
    BY <1>1, <1>9 DEF TypeOK, Merge
  <2>8. round' \in [Process -> 0..(2 * Depth)]
    <3>1. round[p] < 2 * Depth /\ round[p] \in 0..(2 * Depth)
      BY <1>1, <1>2, <1>9 DEF Merge, ProcessInv, TypeOK
    <3> QED BY <1>1, <1>2, <1>9, <3>1 DEF TypeOK, Merge
  <2>9. UNCHANGED <<opt, minTarget, asked, forced, more, rerun, levelMail, willing>>
    BY <1>9 DEF Merge
  <2>10. /\ DOMAIN levelMail' = Process \X Process
         /\ \A q, r \in Process : levelMail'[<<q, r>>] \in Seq([Border(q, r) -> Nat])
    BY <1>1, <2>9 DEF TypeOK
  <2> QED BY <1>1, <2>2, <2>3, <2>5, <2>6, <2>7, <2>8, <2>9, <2>10 DEF TypeOK
<1>10. ASSUME NEW p \in Process, Again(p)
       PROVE  TypeOK'
  <2>1. /\ pc' \in [Process -> {"start", "evaluated", "send", "split", "reduce", "intend", "merge", "done"}]
        /\ round' \in [Process -> 0..(2 * Depth)]
    BY <1>1, <1>2, <1>10 DEF TypeOK, Again
  <2>2. UNCHANGED <<opt, target, minTarget, asked, forced, more, rerun, levelMail, mergeMail, willing>>
    BY <1>10 DEF Again
  <2>3. /\ DOMAIN levelMail' = Process \X Process /\ DOMAIN mergeMail' = Process \X Process
        /\ \A q, r \in Process : /\ levelMail'[<<q, r>>] \in Seq([Border(q, r) -> Nat])
                                  /\ mergeMail'[<<q, r>>] \in Seq(SUBSET BlocksOf(q))
    BY <1>1, <2>2 DEF TypeOK
  <2> QED BY <1>1, <2>1, <2>2, <2>3 DEF TypeOK
<1>11. CASE Stay
  BY <1>1, <1>11 DEF TypeOK, Stay, vars
<1> QED BY <1>3, <1>4, <1>5, <1>6, <1>7, <1>8, <1>9, <1>10, <1>11 DEF Next

LEMMA ControlStep ==
  ASSUME TypeOK, Next, NEW q \in Process, ProcessInv(q)
  PROVE  ProcessInv(q)'
<1> USE ForestAssumption DEF TypeOK
<1>1. ASSUME NEW p \in Process, Evaluate(p) PROVE ProcessInv(q)'
  BY <1>1 DEF ProcessInv, Evaluate
<1>2. ASSUME Agree PROVE ProcessInv(q)'
  BY <1>2 DEF ProcessInv, Agree
<1>3. ASSUME NEW p \in Process, SendLevels(p) PROVE ProcessInv(q)'
  BY <1>3 DEF ProcessInv, SendLevels
<1>4. ASSUME NEW p \in Process, Split(p) PROVE ProcessInv(q)'
  BY <1>4 DEF ProcessInv, Split, Rounds
<1>5. ASSUME Reduce PROVE ProcessInv(q)'
  BY <1>5 DEF ProcessInv, Reduce
<1>6. ASSUME NEW p \in Process, Intend(p) PROVE ProcessInv(q)'
  BY <1>6 DEF ProcessInv, Intend
<1>7. ASSUME NEW p \in Process, Merge(p) PROVE ProcessInv(q)'
  BY <1>7 DEF ProcessInv, Merge
<1>8. ASSUME NEW p \in Process, Again(p) PROVE ProcessInv(q)'
  BY <1>8 DEF ProcessInv, Again
<1>9. CASE Stay  BY <1>9 DEF ProcessInv, Stay, vars
<1> QED BY <1>1, <1>2, <1>3, <1>4, <1>5, <1>6, <1>7, <1>8, <1>9 DEF Next

-----------------------------------------------------------------------------
(* How the counters change *)

LEMMA CountersFrame ==
  ASSUME NEW q, pc'[q] = pc[q], round'[q] = round[q]
  PROVE  /\ Sent(q)' = Sent(q) /\ Read(q)' = Read(q) /\ Merges(q)' = Merges(q)
         /\ Told(q)' = Told(q) /\ (Late(q)' <=> Late(q))
BY DEF Sent, Read, Merges, Told, Late

(* An action of p leaves the control of the others alone. *)
LEMMA OthersFrame ==
  ASSUME TypeOK, NEW p \in Process,
         \/ Evaluate(p) \/ SendLevels(p) \/ Split(p) \/ Intend(p) \/ Merge(p) \/ Again(p),
         NEW q \in Process, q # p
  PROVE  pc'[q] = pc[q] /\ round'[q] = round[q]
BY DEF TypeOK, Evaluate, SendLevels, Split, Intend, Merge, Again

LEMMA EvaluateCounters ==
  ASSUME TypeOK, NEW p \in Process, ProcessInv(p), Evaluate(p)
  PROVE  /\ round[p] = 0 /\ round'[p] = 0 /\ pc'[p] \in {"evaluated", "send"} /\ pc[p] = "start"
         /\ Sent(p) = 0 /\ Read(p) = 0 /\ Merges(p) = 0 /\ Told(p) = 0 /\ ~Late(p)
         /\ Sent(p)' = 0 /\ Read(p)' = 0 /\ Merges(p)' = 0 /\ Told(p)' = 0 /\ ~Late(p)'
BY ForestAssumption DEF TypeOK, ProcessInv, Evaluate, Sent, Read, Merges, Told, Late

LEMMA SendCounters ==
  ASSUME TypeOK, NEW p \in Process, ProcessInv(p), SendLevels(p)
  PROVE  /\ round'[p] = round[p] /\ pc[p] = "send" /\ pc'[p] \in {"split", "intend"}
         /\ Sent(p) = round[p] /\ Sent(p)' = round[p] + 1
         /\ Read(p)' = Read(p) /\ Merges(p)' = Merges(p) /\ Told(p)' = Told(p)
         /\ (Late(p)' <=> Late(p)) /\ round[p] < 2 * Depth /\ Read(p) = round[p]
BY ForestAssumption DEF TypeOK, ProcessInv, SendLevels, Sent, Read, Merges, Told, Late

LEMMA SplitCounters ==
  ASSUME TypeOK, NEW p \in Process, ProcessInv(p), Split(p)
  PROVE  /\ round'[p] = round[p] + 1 /\ pc[p] = "split" /\ pc'[p] \in {"reduce", "send"}
         /\ round[p] < Depth /\ Sent(p) = round[p] + 1 /\ Sent(p)' = Sent(p)
         /\ Read(p) = round[p] /\ Read(p)' = Read(p) + 1
         /\ Merges(p) = 0 /\ Merges(p)' = 0 /\ Told(p) = 0 /\ Told(p)' = 0
<1>1. round[p] \in Nat /\ Depth \in Nat /\ pc[p] = "split" /\ round[p] < Depth
  BY ForestAssumption DEF TypeOK, ProcessInv, Split
<1>2. round'[p] = round[p] + 1 /\ pc'[p] \in {"reduce", "send"}
  BY <1>1 DEF TypeOK, Split, Rounds
<1> QED BY <1>1, <1>2 DEF Sent, Read, Merges, Told

LEMMA IntendCounters ==
  ASSUME TypeOK, NEW p \in Process, ProcessInv(p), Intend(p)
  PROVE  /\ round'[p] = round[p] /\ pc[p] = "intend" /\ pc'[p] = "merge"
         /\ Depth <= round[p] /\ round[p] < 2 * Depth
         /\ Sent(p) = round[p] + 1 /\ Sent(p)' = Sent(p)
         /\ Read(p) = round[p] /\ Read(p)' = Read(p) + 1
         /\ Merges(p) = round[p] - Depth /\ Merges(p)' = Merges(p)
         /\ Told(p) = Merges(p) /\ Told(p)' = Told(p) + 1 /\ Late(p) /\ Late(p)'
<1>1. round[p] \in Nat /\ Depth \in Nat /\ pc[p] = "intend" /\ Depth <= round[p] /\ round[p] < 2 * Depth
  BY ForestAssumption DEF TypeOK, ProcessInv, Intend
<1>2. round'[p] = round[p] /\ pc'[p] = "merge"
  BY DEF TypeOK, Intend
<1> QED BY <1>1, <1>2 DEF Sent, Read, Merges, Told, Late

LEMMA MergeCounters ==
  ASSUME TypeOK, NEW p \in Process, ProcessInv(p), Merge(p)
  PROVE  /\ round'[p] = round[p] + 1 /\ pc[p] = "merge" /\ pc'[p] \in {"send", "done"}
         /\ Depth <= round[p] /\ round[p] < 2 * Depth
         /\ Sent(p) = round[p] + 1 /\ Sent(p)' = Sent(p)
         /\ Read(p) = round[p] + 1 /\ Read(p)' = Read(p)
         /\ Merges(p) = round[p] - Depth /\ Merges(p)' = Merges(p) + 1
         /\ Told(p) = Merges(p) + 1 /\ Told(p)' = Told(p) /\ Late(p) /\ Late(p)'
<1>1. round[p] \in Nat /\ Depth \in Nat /\ pc[p] = "merge" /\ Depth <= round[p] /\ round[p] < 2 * Depth
  BY ForestAssumption DEF TypeOK, ProcessInv, Merge
<1>2. round'[p] = round[p] + 1 /\ pc'[p] \in {"send", "done"}
  BY <1>1 DEF TypeOK, Merge
<1> QED BY <1>1, <1>2 DEF Sent, Read, Merges, Told, Late

LEMMA AgainCounters ==
  ASSUME TypeOK, NEW p \in Process, ProcessInv(p), Again(p)
  PROVE  /\ round[p] = 2 * Depth /\ pc[p] = "done" /\ round'[p] = 0 /\ pc'[p] = "start"
         /\ Sent(p) = 2 * Depth /\ Read(p) = 2 * Depth /\ Merges(p) = Depth /\ Told(p) = Depth
         /\ Sent(p)' = 0 /\ Read(p)' = 0 /\ Merges(p)' = 0 /\ Told(p)' = 0 /\ ~Late(p)'
<1>1. round[p] = 2 * Depth /\ pc[p] = "done" /\ Depth \in Nat /\ Depth >= 1
  BY ForestAssumption DEF TypeOK, ProcessInv, Again
<1>2. round'[p] = 0 /\ pc'[p] = "start"
  BY DEF TypeOK, Again
<1> QED BY <1>1, <1>2 DEF Sent, Read, Merges, Told, Late

LEMMA AgreeCounters ==
  ASSUME TypeOK, NEW p \in Process, ProcessInv(p), Agree
  PROVE  /\ round[p] = 0 /\ round'[p] = 0 /\ pc[p] = "evaluated" /\ pc'[p] \in {"send", "done"}
         /\ Sent(p) = 0 /\ Read(p) = 0 /\ Merges(p) = 0 /\ Told(p) = 0 /\ ~Late(p)
         /\ Sent(p)' = 0 /\ Read(p)' = 0 /\ Merges(p)' = 0 /\ Told(p)' = 0 /\ ~Late(p)'
<1>1. round[p] = 0 /\ pc[p] = "evaluated" /\ Depth \in Nat /\ Depth >= 1
  BY ForestAssumption DEF ProcessInv, Agree
<1>2. round'[p] = 0 /\ pc'[p] \in {"send", "done"}
  BY <1>1 DEF Agree
<1> QED BY <1>1, <1>2 DEF Sent, Read, Merges, Told, Late

LEMMA ReduceCounters ==
  ASSUME TypeOK, NEW p \in Process, ProcessInv(p), Reduce
  PROVE  /\ round[p] = Depth /\ round'[p] = Depth /\ pc[p] = "reduce" /\ pc'[p] = "send"
         /\ Sent(p)' = Sent(p) /\ Read(p)' = Read(p)
         /\ Merges(p)' = Merges(p) /\ Told(p)' = Told(p) /\ Late(p) /\ Late(p)'
<1>1. round[p] = Depth /\ pc[p] = "reduce" /\ Depth \in Nat /\ Depth >= 1
  BY ForestAssumption DEF ProcessInv, Reduce
<1>2. round'[p] = Depth /\ pc'[p] = "send"
  BY <1>1 DEF Reduce
<1> QED BY <1>1, <1>2 DEF Sent, Read, Merges, Told, Late

-----------------------------------------------------------------------------
(* Counting the messages *)

LEMMA SameCounts ==
  ASSUME NEW p, NEW q, Counts(q, p),
         Sent(q)' = Sent(q), Read(p)' = Read(p), Merges(p)' = Merges(p), Told(q)' = Told(q),
         Ahead(p, q)' <=> Ahead(p, q), Ahead(q, p)' <=> Ahead(q, p),
         LevelCount(q, p)' = LevelCount(q, p), IntentCount(q, p)' = IntentCount(q, p)
  PROVE  Counts(q, p)'
BY DEF Counts

(* Neither partner acts. *)
LEMMA CountsFrame ==
  ASSUME NEW p, NEW q, Counts(q, p),
         pc'[p] = pc[p], round'[p] = round[p], pc'[q] = pc[q], round'[q] = round[q],
         levelMail'[<<q, p>>] = levelMail[<<q, p>>], mergeMail'[<<q, p>>] = mergeMail[<<q, p>>]
  PROVE  Counts(q, p)' /\ FirstOf(q, p)' = FirstOf(q, p)
<1>1. /\ Sent(q)' = Sent(q) /\ Read(p)' = Read(p) /\ Merges(p)' = Merges(p) /\ Told(q)' = Told(q)
      /\ Read(q)' = Read(q)
  BY CountersFrame
<1>2. (Ahead(p, q)' <=> Ahead(p, q)) /\ (Ahead(q, p)' <=> Ahead(q, p))  BY <1>1 DEF Ahead
<1>3. LevelCount(q, p)' = LevelCount(q, p) /\ IntentCount(q, p)' = IntentCount(q, p)
  BY DEF LevelCount, IntentCount
<1> QED BY <1>1, <1>2, <1>3, SameCounts DEF FirstOf

LEMMA EvaluateCounts ==
  ASSUME TypeOK, \A r \in Process : ProcessInv(r), ChannelInv,
         NEW p \in Process, NEW q \in Partners[p], NEW a \in Process, Evaluate(a)
  PROVE  Counts(q, p)' /\ FirstOf(q, p)' = FirstOf(q, p)
<1>1. q \in Process /\ q # p /\ Counts(q, p)  BY PartnersMutual DEF ChannelInv
<1>2. LevelCount(q, p)' = LevelCount(q, p) /\ IntentCount(q, p)' = IntentCount(q, p)
  BY DEF Evaluate, LevelCount, IntentCount
<1>3. ASSUME NEW x \in Process
      PROVE  /\ Sent(x)' = Sent(x) /\ Read(x)' = Read(x) /\ Merges(x)' = Merges(x)
             /\ Told(x)' = Told(x) /\ round'[x] = round[x] /\ (pc'[x] = "done" <=> pc[x] = "done")
  <2>1. CASE x = a  BY <2>1, EvaluateCounters
  <2>2. CASE x # a  BY <2>2, OthersFrame, CountersFrame
  <2> QED BY <2>1, <2>2
<1>4. (Ahead(p, q)' <=> Ahead(p, q)) /\ (Ahead(q, p)' <=> Ahead(q, p))
  BY <1>1, <1>3 DEF Ahead
<1> QED BY <1>1, <1>2, <1>3, <1>4, SameCounts DEF FirstOf

LEMMA AgreeCounts ==
  ASSUME TypeOK, \A r \in Process : ProcessInv(r), ChannelInv,
         NEW p \in Process, NEW q \in Partners[p], Agree
  PROVE  Counts(q, p)' /\ FirstOf(q, p)' = FirstOf(q, p)
<1>1. q \in Process /\ Counts(q, p)  BY PartnersMutual DEF ChannelInv
<1>2. LevelCount(q, p)' = LevelCount(q, p) /\ IntentCount(q, p)' = IntentCount(q, p)
  BY DEF Agree, LevelCount, IntentCount
<1>3. 0 # 2 * Depth  BY ForestAssumption
<1>4. ~Ahead(p, q)' /\ ~Ahead(p, q) /\ ~Ahead(q, p)' /\ ~Ahead(q, p)
  BY <1>1, <1>3, AgreeCounters DEF Ahead
<1> QED BY <1>1, <1>2, <1>4, AgreeCounters, SameCounts DEF FirstOf

LEMMA ReduceCounts ==
  ASSUME TypeOK, \A r \in Process : ProcessInv(r), ChannelInv,
         NEW p \in Process, NEW q \in Partners[p], Reduce
  PROVE  Counts(q, p)' /\ FirstOf(q, p)' = FirstOf(q, p)
<1>1. q \in Process /\ Counts(q, p)  BY PartnersMutual DEF ChannelInv
<1>2. LevelCount(q, p)' = LevelCount(q, p) /\ IntentCount(q, p)' = IntentCount(q, p)
  BY DEF Reduce, LevelCount, IntentCount
<1>3. Depth # 0  BY ForestAssumption
<1>4. ~Ahead(p, q)' /\ ~Ahead(p, q) /\ ~Ahead(q, p)' /\ ~Ahead(q, p)
  BY <1>1, <1>3, ReduceCounters DEF Ahead
<1> QED BY <1>1, <1>2, <1>4, ReduceCounters, SameCounts DEF FirstOf

LEMMA SendCounts ==
  ASSUME TypeOK, \A r \in Process : ProcessInv(r), ChannelInv,
         NEW p \in Process, NEW q \in Partners[p], NEW a \in Process, SendLevels(a)
  PROVE  Counts(q, p)' /\ FirstOf(q, p)' = FirstOf(q, p)
<1>1. q \in Process /\ q # p /\ p \in Partners[q] /\ Counts(q, p)
  BY PartnersMutual DEF ChannelInv
<1>2. IntentCount(q, p)' = IntentCount(q, p)  BY DEF SendLevels, IntentCount
<1>3. ASSUME NEW x \in Process
      PROVE  /\ Read(x)' = Read(x) /\ Merges(x)' = Merges(x) /\ Told(x)' = Told(x)
             /\ round'[x] = round[x] /\ (pc'[x] = "done" <=> pc[x] = "done")
             /\ x # a => Sent(x)' = Sent(x)
  <2>1. CASE x = a  BY <2>1, SendCounters
  <2>2. CASE x # a  BY <2>2, OthersFrame, CountersFrame
  <2> QED BY <2>1, <2>2
<1>4. (Ahead(p, q)' <=> Ahead(p, q)) /\ (Ahead(q, p)' <=> Ahead(q, p))
  BY <1>1, <1>3 DEF Ahead
<1>5. CASE q = a
  <2>1. LevelCount(q, p)' = LevelCount(q, p) + 1
    <3>1. SendLevels(q) /\ p \in Partners[q] /\ q \in Process  BY <1>1, <1>5
    <3>2. OneSent(q, p)  BY ONLY TypeOK, p \in Process, <3>1, SentToPartner
    <3> QED BY ONLY <3>2 DEF OneSent
  <2>2. Sent(q)' = Sent(q) + 1 /\ Read(q) # 2 * Depth
    BY <1>5, SendCounters, Counters
  <2>3. ~Ahead(p, q)  BY <2>2 DEF Ahead
  <2>4. Sent(q) \in Nat /\ Read(p) \in Nat  BY <1>1, Counters
  <2> QED BY <1>1, <1>2, <1>3, <1>4, <2>1, <2>2, <2>3, <2>4 DEF Counts, FirstOf
<1>6. CASE q # a
  <2>1. levelMail'[<<q, p>>] = levelMail[<<q, p>>]  BY <1>1, <1>6, SentLevels
  <2>2. LevelCount(q, p)' = LevelCount(q, p)  BY <2>1 DEF LevelCount
  <2> QED BY <1>1, <1>2, <1>3, <1>4, <1>6, <2>2, SameCounts DEF FirstOf
<1> QED BY <1>5, <1>6

(* Who has received from a partner is not behind a whole pass, nor ahead. *)
LEMMA SplitCounts ==
  ASSUME TypeOK, \A r \in Process : ProcessInv(r), ChannelInv,
         NEW p \in Process, NEW q \in Partners[p], NEW a \in Process, Split(a)
  PROVE  /\ Counts(q, p)'
         /\ p = a => FirstOf(q, p)' = FirstOf(q, p) + 1
         /\ p # a => FirstOf(q, p)' = FirstOf(q, p)
<1>1. q \in Process /\ q # p /\ p \in Partners[q] /\ Counts(q, p) /\ Counts(p, q)
  BY PartnersMutual DEF ChannelInv
<1>2. AllMail(levelMail, a) /\ levelMail' = Taken(levelMail, a) /\ mergeMail' = mergeMail
  BY DEF Split
<1>3. IntentCount(q, p)' = IntentCount(q, p)  BY <1>2 DEF IntentCount
<1>4. /\ round[a] \in Nat /\ round[a] < Depth /\ Depth \in Nat
      /\ round'[a] = round[a] + 1 /\ Read(a) = round[a] /\ Read(a)' = Read(a) + 1
      /\ Sent(a)' = Sent(a) /\ Merges(a)' = Merges(a) /\ Told(a)' = Told(a)
      /\ pc'[a] # "done" /\ pc[a] # "done"
  BY SplitCounters, Counters
<1>5. CASE p = a
  <2>1. LevelCount(q, p)' = LevelCount(q, p) - 1 /\ LevelCount(q, p) >= 1
    BY <1>1, <1>2, <1>5, ReadLevels
  <2>2. /\ Sent(q)' = Sent(q) /\ Told(q)' = Told(q) /\ Read(q)' = Read(q)
        /\ round'[q] = round[q] /\ pc'[q] = pc[q]
    BY <1>1, <1>5, OthersFrame, CountersFrame
  <2>3. ~Ahead(p, q)  BY <1>1, <2>1 DEF Counts
  <2>4. ~Ahead(q, p) /\ ~Ahead(q, p)' /\ ~Ahead(p, q)'  BY <1>4, <1>5 DEF Ahead
  <2>5. Sent(q) \in Nat /\ Read(p) \in Nat  BY <1>1, Counters
  <2> QED BY <1>1, <1>3, <1>4, <1>5, <2>1, <2>2, <2>3, <2>4, <2>5 DEF Counts, FirstOf
<1>6. CASE q = a
  <2>1. levelMail'[<<q, p>>] = levelMail[<<q, p>>]  BY <1>1, <1>2, <1>6, ReadLevels
  <2>2. LevelCount(q, p)' = LevelCount(q, p)  BY <2>1 DEF LevelCount
  <2>3. LevelCount(p, q) >= 1  BY <1>1, <1>2, <1>6, ReadLevels
  <2>4. /\ Read(p)' = Read(p) /\ Merges(p)' = Merges(p)
        /\ round'[p] = round[p] /\ pc'[p] = pc[p]
    BY <1>1, <1>6, OthersFrame, CountersFrame
  <2>5. ~Ahead(q, p)  BY <1>1, <2>3 DEF Counts
  <2>6. ~Ahead(p, q) /\ ~Ahead(p, q)' /\ ~Ahead(q, p)'  BY <1>4, <1>6 DEF Ahead
  <2> QED BY <1>1, <1>3, <1>4, <1>6, <2>2, <2>4, <2>5, <2>6, SameCounts DEF FirstOf
<1>7. CASE p # a /\ q # a
  <2>1. levelMail'[<<q, p>>] = levelMail[<<q, p>>]  BY <1>1, <1>2, <1>7, ReadLevels
  <2> QED BY <1>1, <1>2, <1>7, <2>1, OthersFrame, CountsFrame
<1> QED BY <1>1, <1>5, <1>6, <1>7

LEMMA IntendCounts ==
  ASSUME TypeOK, \A r \in Process : ProcessInv(r), ChannelInv,
         NEW p \in Process, NEW q \in Partners[p], NEW a \in Process, Intend(a)
  PROVE  /\ Counts(q, p)'
         /\ p = a => FirstOf(q, p)' = FirstOf(q, p) + 1
         /\ p # a => FirstOf(q, p)' = FirstOf(q, p)
         /\ q = a => IntentCount(q, p) = 0
<1>1. q \in Process /\ q # p /\ p \in Partners[q] /\ Counts(q, p) /\ Counts(p, q)
  BY PartnersMutual DEF ChannelInv
<1>2. AllMail(levelMail, a) /\ levelMail' = Taken(levelMail, a)
  BY DEF Intend
<1>3. /\ round[a] \in Nat /\ round[a] < 2 * Depth /\ Depth <= round[a] /\ Depth \in Nat /\ Depth >= 1
      /\ round'[a] = round[a] /\ Read(a) = round[a] /\ Read(a)' = Read(a) + 1
      /\ Sent(a) = round[a] + 1 /\ Sent(a)' = Sent(a)
      /\ Merges(a) = round[a] - Depth /\ Merges(a)' = Merges(a)
      /\ Told(a) = Merges(a) /\ Told(a)' = Told(a) + 1
  BY IntendCounters, Counters
(* A partner of a has sent it the levels of this iteration. *)
<1>4. ASSUME NEW x \in Partners[a]
      PROVE  /\ ~Ahead(a, x) /\ ~Ahead(x, a) /\ LevelCount(x, a) >= 1
             /\ Sent(x) > round[a] /\ round[x] >= round[a]
             /\ Merges(x) >= round[a] - Depth
             /\ round[x] # 0
  <2>1. x \in Process /\ Counts(x, a)  BY <1>4, PartnersMutual DEF ChannelInv
  <2>2. LevelCount(x, a) >= 1 /\ LevelCount(x, a) \in Nat
    BY <1>2, <1>4, <2>1, ReadLevels, MailShape
  <2>3. ~Ahead(a, x) /\ ~Ahead(x, a)  BY <1>3 DEF Ahead
  <2>4. Sent(x) \in Nat /\ round[x] \in Nat  BY <2>1, Counters
  <2>5. Sent(x) > round[a]  BY <1>3, <2>1, <2>2, <2>3, <2>4 DEF Counts
  <2>6. round[x] >= round[a]  BY <1>3, <2>4, <2>5 DEF Sent
  <2>7. Merges(x) >= round[a] - Depth  BY <1>3, <2>4, <2>6 DEF Merges
  <2> QED BY <1>3, <2>2, <2>3, <2>4, <2>5, <2>6, <2>7
<1>5. CASE p = a
  <2>1. LevelCount(q, p)' = LevelCount(q, p) - 1  BY <1>1, <1>2, <1>5, ReadLevels
  <2>2. mergeMail'[<<q, p>>] = mergeMail[<<q, p>>]  BY <1>1, <1>5, ToldIntents
  <2>3. IntentCount(q, p)' = IntentCount(q, p)  BY <2>2 DEF IntentCount
  <2>4. /\ Sent(q)' = Sent(q) /\ Told(q)' = Told(q) /\ Read(q)' = Read(q)
        /\ round'[q] = round[q] /\ pc'[q] = pc[q]
    BY <1>1, <1>5, OthersFrame, CountersFrame
  <2>5. ~Ahead(p, q) /\ ~Ahead(q, p) /\ round[q] # 0  BY <1>4, <1>5
  <2>6. ~Ahead(q, p)' /\ ~Ahead(p, q)'  BY <1>3, <1>5, <2>4, <2>5 DEF Ahead
  <2>7. Sent(q) \in Nat /\ Read(p) \in Nat  BY <1>1, Counters
  <2> QED BY <1>1, <1>3, <1>5, <2>1, <2>3, <2>4, <2>5, <2>6, <2>7 DEF Counts, FirstOf
<1>6. CASE q = a
  <2>1. levelMail'[<<q, p>>] = levelMail[<<q, p>>]  BY <1>1, <1>2, <1>6, ReadLevels
  <2>2. LevelCount(q, p)' = LevelCount(q, p)  BY <2>1 DEF LevelCount
  <2>3. IntentCount(q, p)' = IntentCount(q, p) + 1  BY <1>1, <1>6, ToldIntents
  <2>4. /\ Read(p)' = Read(p) /\ Merges(p)' = Merges(p)
        /\ round'[p] = round[p] /\ pc'[p] = pc[p]
    BY <1>1, <1>6, OthersFrame, CountersFrame
  <2>5. ~Ahead(p, q) /\ ~Ahead(q, p) /\ round[p] # 0 /\ Merges(p) >= round[q] - Depth
    BY <1>1, <1>4, <1>6
  <2>6. ~Ahead(p, q)' /\ ~Ahead(q, p)'  BY <1>3, <1>6, <2>4, <2>5 DEF Ahead
  <2>7. Merges(p) \in Nat /\ IntentCount(q, p) \in Nat /\ Told(q) \in Nat
    BY <1>1, Counters, MailShape
  <2>8. IntentCount(q, p) = 0  BY <1>1, <1>3, <1>6, <2>5, <2>7 DEF Counts
  <2> QED BY <1>1, <1>3, <1>6, <2>2, <2>3, <2>4, <2>5, <2>6, <2>7, <2>8 DEF Counts, FirstOf
<1>7. CASE p # a /\ q # a
  <2>1. levelMail'[<<q, p>>] = levelMail[<<q, p>>]  BY <1>1, <1>2, <1>7, ReadLevels
  <2>2. mergeMail'[<<q, p>>] = mergeMail[<<q, p>>]  BY <1>1, <1>7, ToldIntents
  <2> QED BY <1>1, <1>7, <2>1, <2>2, OthersFrame, CountsFrame
<1> QED BY <1>1, <1>5, <1>6, <1>7

LEMMA MergeCounts ==
  ASSUME TypeOK, \A r \in Process : ProcessInv(r), ChannelInv,
         NEW p \in Process, NEW q \in Partners[p], NEW a \in Process, Merge(a)
  PROVE  /\ Counts(q, p)'
         /\ FirstOf(q, p)' = FirstOf(q, p)
         /\ q = a => LevelCount(q, p) = 0
<1>1. q \in Process /\ q # p /\ p \in Partners[q] /\ Counts(q, p) /\ Counts(p, q)
  BY PartnersMutual DEF ChannelInv
<1>2. AllMail(mergeMail, a) /\ mergeMail' = Taken(mergeMail, a) /\ levelMail' = levelMail
  BY DEF Merge
<1>3. /\ round[a] \in Nat /\ round[a] < 2 * Depth /\ Depth <= round[a] /\ Depth \in Nat /\ Depth >= 1
      /\ round'[a] = round[a] + 1 /\ Read(a) = round[a] + 1 /\ Read(a)' = Read(a)
      /\ Sent(a) = round[a] + 1 /\ Sent(a)' = Sent(a)
      /\ Merges(a) = round[a] - Depth /\ Merges(a)' = Merges(a) + 1
      /\ Told(a) = Merges(a) + 1 /\ Told(a)' = Told(a)
  BY MergeCounters, Counters
<1>4. LevelCount(q, p)' = LevelCount(q, p)  BY <1>2 DEF LevelCount
<1>5. ASSUME NEW x \in Process
      PROVE  Read(x)' = Read(x) /\ Sent(x)' = Sent(x) /\ Told(x)' = Told(x)
             /\ (x # a => Merges(x)' = Merges(x) /\ round'[x] = round[x] /\ pc'[x] = pc[x])
  <2>1. CASE x = a  BY <1>3, <2>1
  <2>2. CASE x # a  BY <2>2, OthersFrame, CountersFrame
  <2> QED BY <2>1, <2>2
<1>6. (Ahead(p, q)' <=> Ahead(p, q)) /\ (Ahead(q, p)' <=> Ahead(q, p))
  <2>1. \A x \in Process : round'[x] = 0 /\ pc'[x] # "done" <=> round[x] = 0 /\ pc[x] # "done"
    BY <1>3, <1>5
  <2> QED BY <1>1, <1>5, <2>1 DEF Ahead
<1>7. FirstOf(q, p)' = FirstOf(q, p)  BY <1>5, <1>6 DEF FirstOf
<1>8. CASE p = a
  <2>1. IntentCount(q, p)' = IntentCount(q, p) - 1 /\ IntentCount(q, p) >= 1
    BY <1>1, <1>2, <1>8, ReadIntents
  <2>2. /\ Sent(q) \in Nat /\ Read(p) \in Nat /\ Told(q) \in Nat /\ Merges(p) \in Nat
        /\ IntentCount(q, p) \in Nat
    BY <1>1, Counters, MailShape
  <2>3. ~Ahead(p, q)  BY <1>3, <1>8 DEF Ahead
  <2> QED BY <1>1, <1>3, <1>4, <1>5, <1>6, <1>7, <1>8, <2>1, <2>2, <2>3 DEF Counts
<1>9. CASE q = a
  <2>1. mergeMail'[<<q, p>>] = mergeMail[<<q, p>>]  BY <1>1, <1>2, <1>9, ReadIntents
  <2>2. IntentCount(q, p)' = IntentCount(q, p)  BY <2>1 DEF IntentCount
  <2>3. Counts(q, p)'  BY <1>1, <1>4, <1>5, <1>6, <1>9, <2>2, SameCounts
  <2>4. LevelCount(q, p) = 0
    <3>1. ~Ahead(q, p)  BY <1>3, <1>9 DEF Ahead
    <3>2. CASE Ahead(p, q)  BY <1>1, <3>2 DEF Counts
    <3>3. CASE ~Ahead(p, q)
      <4>1. IntentCount(p, q) >= 1  BY <1>1, <1>2, <1>9, ReadIntents
      <4>2. /\ Told(p) \in Nat /\ Read(p) \in Nat /\ LevelCount(q, p) \in Nat
            /\ Merges(q) \in Nat /\ (Late(p) => Read(p) = Depth + Told(p))
            /\ (~Late(p) => Told(p) = 0)
        BY <1>1, Counters, MailShape
      <4>3. Told(p) >= Merges(q) + 1  BY <1>1, <3>1, <3>3, <4>1, <4>2 DEF Counts
      <4>4. Read(p) >= Sent(q)  BY <1>3, <1>9, <4>2, <4>3
      <4> QED BY <1>1, <1>3, <1>9, <3>1, <3>3, <4>2, <4>4 DEF Counts
    <3> QED BY <3>2, <3>3
  <2> QED BY <1>7, <2>3, <2>4
<1>10. CASE p # a /\ q # a
  <2>1. mergeMail'[<<q, p>>] = mergeMail[<<q, p>>]  BY <1>1, <1>2, <1>10, ReadIntents
  <2>2. IntentCount(q, p)' = IntentCount(q, p)  BY <2>1 DEF IntentCount
  <2> QED BY <1>1, <1>4, <1>5, <1>6, <1>7, <1>10, <2>2, SameCounts
<1> QED BY <1>8, <1>9, <1>10

(* Who begins another pass has nothing under way to it or from it, except its
   last intent to merge. *)
LEMMA AgainCounts ==
  ASSUME TypeOK, \A r \in Process : ProcessInv(r), ChannelInv,
         NEW p \in Process, NEW q \in Partners[p], NEW a \in Process, Again(a)
  PROVE  /\ Counts(q, p)'
         /\ LevelCount(q, p) = 0 \/ FirstOf(q, p)' = FirstOf(q, p)
<1>1. q \in Process /\ q # p /\ p \in Partners[q] /\ Counts(q, p) /\ Counts(p, q)
  BY PartnersMutual DEF ChannelInv
<1>2. LevelCount(q, p)' = LevelCount(q, p) /\ IntentCount(q, p)' = IntentCount(q, p)
  BY DEF Again, LevelCount, IntentCount
<1>3. /\ Depth \in Nat /\ Depth >= 1 /\ pc[a] = "done"
      /\ round[a] = 2 * Depth /\ round'[a] = 0 /\ pc'[a] # "done"
      /\ Sent(a) = 2 * Depth /\ Read(a) = 2 * Depth /\ Merges(a) = Depth /\ Told(a) = Depth
      /\ Sent(a)' = 0 /\ Read(a)' = 0 /\ Merges(a)' = 0 /\ Told(a)' = 0
  BY AgainCounters, Counters
<1>4. ASSUME NEW x \in Process, x # a
      PROVE  /\ Read(x)' = Read(x) /\ Sent(x)' = Sent(x) /\ Told(x)' = Told(x)
             /\ Merges(x)' = Merges(x) /\ round'[x] = round[x] /\ pc'[x] = pc[x]
  BY <1>4, OthersFrame, CountersFrame
(* A partner is a pass behind, or has ended its levels of this one. *)
<1>5. ASSUME NEW x \in Partners[a]
      PROVE  /\ ~Ahead(a, x) /\ ~Ahead(x, a)' /\ (Ahead(a, x)' <=> ~Ahead(x, a))
             /\ LevelCount(a, x) = 0 /\ IntentCount(x, a) = 0
             /\ Ahead(x, a) => /\ Read(x) = 0 /\ Merges(x) = 0 /\ Told(x) = 0 /\ IntentCount(a, x) = 0
             /\ ~Ahead(x, a) => /\ LevelCount(x, a) = 0 /\ Read(x) = 2 * Depth
                                /\ IntentCount(a, x) = Depth - Merges(x)
  <2>1. x \in Process /\ x # a /\ a \in Partners[x] /\ Counts(x, a) /\ Counts(a, x)
    BY <1>5, PartnersMutual DEF ChannelInv
  <2>2. /\ LevelCount(a, x) \in Nat /\ LevelCount(x, a) \in Nat
        /\ IntentCount(a, x) \in Nat /\ IntentCount(x, a) \in Nat
        /\ Sent(x) \in Nat /\ Read(x) \in Nat /\ Merges(x) \in Nat /\ Told(x) \in Nat
        /\ round[x] \in Nat /\ Sent(x) <= 2 * Depth /\ Told(x) <= Depth
        /\ (Late(x) => Read(x) = Depth + Told(x)) /\ (~Late(x) => Told(x) = 0)
    BY <2>1, Counters, MailShape
  <2>3. ~Ahead(a, x)  BY <1>3 DEF Ahead
  <2>4. ~Ahead(x, a)'  BY <1>3 DEF Ahead
  <2>5. CASE Ahead(x, a)
    <3>1. round[x] = 0 /\ pc[x] # "done"  BY <2>5 DEF Ahead
    <3>2. pc[x] # "merge"  BY <1>3, <2>1, <3>1 DEF ProcessInv
    <3>3. Read(x) = 0 /\ Merges(x) = 0 /\ Told(x) = 0
      BY <1>3, <3>1, <3>2 DEF Read, Merges, Told
    <3>4. ~Ahead(a, x)'  BY <1>3, <1>4, <2>1, <3>3 DEF Ahead
    <3>5. LevelCount(a, x) = 0 /\ IntentCount(a, x) = 0  BY <2>1, <2>5 DEF Counts
    <3>6. IntentCount(x, a) = 0  BY <1>3, <2>1, <2>3, <2>5 DEF Counts
    <3> QED BY <2>3, <2>4, <2>5, <3>3, <3>4, <3>5, <3>6
  <2>6. CASE ~Ahead(x, a)
    <3>1. /\ LevelCount(x, a) = Sent(x) - 2 * Depth /\ IntentCount(x, a) = Told(x) - Depth
          /\ LevelCount(a, x) = 2 * Depth - Read(x) /\ IntentCount(a, x) = Depth - Merges(x)
      BY <1>3, <2>1, <2>3, <2>6 DEF Counts
    <3>2. LevelCount(x, a) = 0 /\ IntentCount(x, a) = 0 /\ Told(x) = Depth
      BY <1>3, <2>2, <3>1
    <3>3. Read(x) = 2 * Depth  BY <1>3, <2>2, <3>2
    <3>4. LevelCount(a, x) = 0  BY <1>3, <3>1, <3>3
    <3>5. Ahead(a, x)'  BY <1>3, <1>4, <2>1, <3>3 DEF Ahead
    <3> QED BY <2>3, <2>4, <2>6, <3>1, <3>2, <3>3, <3>4, <3>5
  <2> QED BY <2>5, <2>6
<1>6. CASE p = a
  <2>1. /\ Sent(q)' = Sent(q) /\ Told(q)' = Told(q)  BY <1>1, <1>4, <1>6
  <2>2. Sent(q) \in Nat /\ Told(q) \in Nat  BY <1>1, Counters
  <2>3. CASE Ahead(q, p)
    <3>1. LevelCount(q, p) = Sent(q)  BY <1>1, <2>3 DEF Counts
    <3>2. ~Ahead(p, q)' /\ ~Ahead(q, p)' /\ IntentCount(q, p) = 0 /\ Told(q) = 0
      BY <1>5, <1>6, <2>3
    <3>3. Counts(q, p)'  BY <1>2, <1>3, <1>6, <2>1, <2>2, <3>1, <3>2 DEF Counts
    <3>4. FirstOf(q, p)' = FirstOf(q, p)  BY <1>3, <1>6, <2>3, <3>2 DEF FirstOf
    <3> QED BY <3>3, <3>4
  <2>4. CASE ~Ahead(q, p)
    <3>1. Ahead(p, q)' /\ ~Ahead(q, p)' /\ LevelCount(q, p) = 0 /\ IntentCount(q, p) = 0
      BY <1>5, <1>6, <2>4
    <3> QED BY <1>2, <3>1 DEF Counts
  <2> QED BY <2>3, <2>4
<1>7. CASE q = a
  <2>1. /\ Merges(p)' = Merges(p) /\ Read(p)' = Read(p)  BY <1>1, <1>4, <1>7
  <2>2. p \in Partners[a] /\ LevelCount(q, p) = 0  BY <1>1, <1>5, <1>7
  <2>3. CASE Ahead(p, q)
    <3>1. ~Ahead(p, q)' /\ ~Ahead(q, p)' /\ Read(p) = 0 /\ Merges(p) = 0 /\ IntentCount(q, p) = 0
      BY <1>5, <1>7, <2>2, <2>3
    <3> QED BY <1>2, <1>3, <1>7, <2>1, <2>2, <3>1 DEF Counts
  <2>4. CASE ~Ahead(p, q)
    <3>1. ~Ahead(p, q)' /\ Ahead(q, p)' /\ IntentCount(q, p) = Depth - Merges(p)
      BY <1>5, <1>7, <2>2, <2>4
    <3> QED BY <1>2, <1>3, <1>7, <2>1, <2>2, <3>1 DEF Counts
  <2> QED BY <2>3, <2>4
<1>8. CASE p # a /\ q # a
  <2>1. levelMail'[<<q, p>>] = levelMail[<<q, p>>] /\ mergeMail'[<<q, p>>] = mergeMail[<<q, p>>]
    BY DEF Again
  <2> QED BY <1>1, <1>8, <2>1, OthersFrame, CountsFrame
<1> QED BY <1>6, <1>7, <1>8

-----------------------------------------------------------------------------
(* The messages stay true. *)

(* Nothing in a channel changes, and the levels its sender has sent are final. *)
LEMMA LevelsTrueFrame ==
  ASSUME NEW q, NEW p, LevelsTrue(q, p),
         levelMail'[<<q, p>>] = levelMail[<<q, p>>],
         LevelCount(q, p) = 0 \/ FirstOf(q, p)' = FirstOf(q, p),
         LevelCount(q, p) = 0 \/ \A n \in Border(q, p) : target'[n] = target[n]
  PROVE  LevelsTrue(q, p)'
<1>1. LevelCount(q, p)' = LevelCount(q, p)  BY DEF LevelCount
<1> QED BY <1>1 DEF LevelsTrue

LEMMA IntentsTrueFrame ==
  ASSUME NEW q, NEW p, IntentsTrue(q, p),
         mergeMail'[<<q, p>>] = mergeMail[<<q, p>>], willing'[q] = willing[q]
  PROVE  IntentsTrue(q, p)'
<1>1. IntentCount(q, p)' = IntentCount(q, p)  BY DEF IntentCount
<1> QED BY <1>1 DEF IntentsTrue

(* Other processes' blocks keep their levels. *)
LEMMA TargetFrame ==
  ASSUME IndInv, NEW p \in Process,
         \/ Evaluate(p) \/ SendLevels(p) \/ Split(p) \/ Intend(p) \/ Merge(p) \/ Again(p),
         NEW b \in Block, ProcOf[b] # p
  PROVE  target'[b] = target[b]
<1>1. target = [c \in Block |-> target[c]]  BY DEF IndInv, TypeOK
<1>2. CASE Split(p)
  <2>1. PICK S \in SUBSET Block :
          /\ target' = [c \in Block |-> IF c \in S THEN Level[c] + 1 ELSE target[c]]
          /\ \A c \in S : ProcOf[c] = p
    BY <1>2, SplitEffect DEF IndInv
  <2> QED BY <2>1
<1>3. CASE Merge(p)  BY <1>3 DEF Merge
<1>4. CASE Evaluate(p)  BY <1>4 DEF Evaluate
<1>5. CASE SendLevels(p) \/ Intend(p) \/ Again(p)  BY <1>5 DEF SendLevels, Intend, Again
<1> QED BY <1>2, <1>3, <1>4, <1>5

LEMMA BorderBlocks ==
  ASSUME NEW p, NEW q, NEW n \in Border(q, p)
  PROVE  n \in Block /\ ProcOf[n] = q
BY DEF Border, BlocksOf

LEMMA ChannelStep ==
  ASSUME IndInv, Next, NEW p \in Process, NEW q \in Partners[p]
  PROVE  Counts(q, p)' /\ LevelsTrue(q, p)' /\ IntentsTrue(q, p)'
<1>1. TypeOK /\ (\A r \in Process : ProcessInv(r)) /\ ChannelInv /\ SplitInv /\ MergeInv
  BY DEF IndInv
<1>2. /\ q \in Process /\ q # p /\ p \in Partners[q]
      /\ Counts(q, p) /\ LevelsTrue(q, p) /\ IntentsTrue(q, p)
  BY <1>1, PartnersMutual DEF ChannelInv
<1>3. /\ LevelCount(q, p) \in Nat /\ IntentCount(q, p) \in Nat
      /\ levelMail[<<q, p>>] \in Seq([Border(q, p) -> Nat])
      /\ Depth \in Nat
  BY <1>1, <1>2, MailShape, LevelFacts
<1>4. FirstOf(q, p) \in Nat
  <2>1. Read(p) \in Nat  BY <1>1, Counters
  <2> QED BY <2>1 DEF FirstOf
<1>5. ASSUME NEW a \in Process, Evaluate(a)
      PROVE  Counts(q, p)' /\ LevelsTrue(q, p)' /\ IntentsTrue(q, p)'
  <2>1. Counts(q, p)' /\ FirstOf(q, p)' = FirstOf(q, p)  BY <1>1, <1>5, EvaluateCounts
  <2>2. /\ levelMail'[<<q, p>>] = levelMail[<<q, p>>]
        /\ mergeMail'[<<q, p>>] = mergeMail[<<q, p>>] /\ willing'[q] = willing[q]
    BY <1>5 DEF Evaluate
  <2>3. LevelCount(q, p) = 0 \/ \A n \in Border(q, p) : target'[n] = target[n]
    <3>1. CASE q # a  BY <1>5, <3>1, TargetFrame, BorderBlocks
    <3>2. CASE q = a
      <4>1. Sent(q) = 0 /\ Read(p) \in Nat  BY <1>1, <1>5, <3>2, EvaluateCounters, Counters
      <4> QED BY <1>2, <1>3, <4>1 DEF Counts
    <3> QED BY <3>1, <3>2
  <2> QED BY <1>2, <2>1, <2>2, <2>3, LevelsTrueFrame, IntentsTrueFrame
<1>6. ASSUME Agree
      PROVE  Counts(q, p)' /\ LevelsTrue(q, p)' /\ IntentsTrue(q, p)'
  <2>1. Counts(q, p)' /\ FirstOf(q, p)' = FirstOf(q, p)  BY <1>1, <1>6, AgreeCounts
  <2>2. UNCHANGED <<levelMail, mergeMail, willing, target>>  BY <1>6 DEF Agree
  <2> QED BY <1>2, <2>1, <2>2, LevelsTrueFrame, IntentsTrueFrame
<1>7. ASSUME NEW a \in Process, SendLevels(a)
      PROVE  Counts(q, p)' /\ LevelsTrue(q, p)' /\ IntentsTrue(q, p)'
  <2>1. Counts(q, p)' /\ FirstOf(q, p)' = FirstOf(q, p)  BY <1>1, <1>7, SendCounts
  <2>2. UNCHANGED <<mergeMail, willing, target>>  BY <1>7 DEF SendLevels
  <2>3. IntentsTrue(q, p)'  BY <1>2, <2>2, IntentsTrueFrame
  <2>4. CASE q # a
    <3>1. levelMail'[<<q, p>>] = levelMail[<<q, p>>]  BY <1>1, <1>2, <1>7, <2>4, SentLevels
    <3> QED BY <1>2, <2>1, <2>2, <2>3, <3>1, LevelsTrueFrame
  <2>5. CASE q = a
    <3>1. /\ LevelCount(q, p)' = LevelCount(q, p) + 1
          /\ \A i \in 1..LevelCount(q, p) : levelMail'[<<q, p>>][i] = levelMail[<<q, p>>][i]
          /\ \A n \in Border(q, p) :
               levelMail'[<<q, p>>][LevelCount(q, p) + 1][n] = target[n]
      <4>1. SendLevels(q) /\ p \in Partners[q] /\ q \in Process  BY <1>2, <1>7, <2>5
      <4>2. TypeOK  BY <1>1
      <4>3. OneSent(q, p)  BY ONLY p \in Process, <4>1, <4>2, SentToPartner
      <4> QED BY ONLY <4>3 DEF OneSent
    <3>2. \A n \in Border(q, p) : target[n] \in Nat  BY <1>1, LevelFacts, BorderBlocks
    <3>3. \A i \in 1..LevelCount(q, p)' : i \in 1..LevelCount(q, p) \/ i = LevelCount(q, p) + 1
      BY <1>3, <3>1
    <3>4. LevelsTrue(q, p)'
      <4> SUFFICES ASSUME NEW i \in 1..LevelCount(q, p)', NEW n \in Border(q, p)
                   PROVE  /\ levelMail'[<<q, p>>][i][n] <= target[n]
                          /\ Level[n] >= Depth - (FirstOf(q, p) + i - 1) =>
                               levelMail'[<<q, p>>][i][n] = target[n]
        BY <2>1, <2>2 DEF LevelsTrue
      <4> QED BY <1>2, <3>1, <3>2, <3>3 DEF LevelsTrue
    <3> QED BY <2>1, <2>3, <3>4
  <2> QED BY <2>4, <2>5
<1>8. ASSUME NEW a \in Process, AllMail(levelMail, a), levelMail' = Taken(levelMail, a), p = a,
             FirstOf(q, p)' = FirstOf(q, p) + 1,
             \A n \in Border(q, p) : target'[n] = target[n]
      PROVE  LevelsTrue(q, p)'
  <2>1. /\ LevelCount(q, p)' = LevelCount(q, p) - 1
        /\ \A i \in 1..LevelCount(q, p)' : /\ levelMail'[<<q, p>>][i] = levelMail[<<q, p>>][i + 1]
                                           /\ i + 1 \in 1..LevelCount(q, p)
    BY <1>1, <1>2, <1>8, ReadLevels
  <2> SUFFICES ASSUME NEW i \in 1..LevelCount(q, p)', NEW n \in Border(q, p)
               PROVE  /\ levelMail'[<<q, p>>][i][n] <= target[n]
                      /\ Level[n] >= Depth - (FirstOf(q, p) + 1 + i - 1) =>
                           levelMail'[<<q, p>>][i][n] = target[n]
    BY <1>8 DEF LevelsTrue
  <2>2. /\ levelMail[<<q, p>>][i + 1][n] <= target[n]
        /\ Level[n] >= Depth - (FirstOf(q, p) + (i + 1) - 1) =>
             levelMail[<<q, p>>][i + 1][n] = target[n]
    BY <1>2, <2>1 DEF LevelsTrue
  <2>3. i \in Int /\ FirstOf(q, p) + 1 + i - 1 = FirstOf(q, p) + (i + 1) - 1
    BY <1>3, <1>4, <2>1
  <2> QED BY <2>1, <2>2, <2>3
<1>9. ASSUME NEW a \in Process, Split(a)
      PROVE  Counts(q, p)' /\ LevelsTrue(q, p)' /\ IntentsTrue(q, p)'
  <2>1. /\ Counts(q, p)'
        /\ p = a => FirstOf(q, p)' = FirstOf(q, p) + 1
        /\ p # a => FirstOf(q, p)' = FirstOf(q, p)
    BY <1>1, <1>9, SplitCounts
  <2>2. UNCHANGED <<mergeMail, willing>> /\ AllMail(levelMail, a) /\ levelMail' = Taken(levelMail, a)
    BY <1>9 DEF Split
  <2>3. IntentsTrue(q, p)'  BY <1>2, <2>2, IntentsTrueFrame
  <2>4. CASE p = a
    <3>1. \A n \in Border(q, p) : target'[n] = target[n]
      BY <1>2, <1>9, <2>4, TargetFrame, BorderBlocks
    <3> QED BY <1>8, <2>1, <2>2, <2>3, <2>4, <3>1
  <2>5. CASE p # a
    <3>1. levelMail'[<<q, p>>] = levelMail[<<q, p>>]  BY <1>1, <1>2, <2>2, <2>5, ReadLevels
    <3>2. CASE q # a
      <4>1. \A n \in Border(q, p) : target'[n] = target[n]
        BY <1>9, <3>2, TargetFrame, BorderBlocks
      <4> QED BY <1>2, <2>1, <2>3, <2>5, <3>1, <4>1, LevelsTrueFrame
    <3>3. CASE q = a
      <4>1. PICK S \in SUBSET Block :
              /\ target' = [b \in Block |-> IF b \in S THEN Level[b] + 1 ELSE target[b]]
              /\ \A b \in S : target[b] = Level[b] /\ Level[b] < Depth - round[q]
        BY <1>1, <1>9, <3>3, SplitEffect
      <4>2. LevelCount(q, p)' = LevelCount(q, p)  BY <3>1 DEF LevelCount
      <4>3. FirstOf(q, p) + LevelCount(q, p) <= round[q] + 1
        <5>1. Sent(q) = round[q] + 1 /\ Sent(q) \in Nat /\ Read(p) \in Nat /\ round[q] \in Nat
              /\ Read(q) = round[q] /\ round[q] < Depth
          BY <1>1, <1>2, <1>9, <3>3, SplitCounters, Counters
        <5>2. ~Ahead(p, q)  BY <1>3, <5>1 DEF Ahead
        <5> QED BY <1>2, <1>3, <5>1, <5>2 DEF Counts, FirstOf
      <4>4. ASSUME NEW i \in 1..LevelCount(q, p), NEW n \in Border(q, p)
            PROVE  /\ levelMail[<<q, p>>][i][n] <= target'[n]
                   /\ Level[n] >= Depth - (FirstOf(q, p) + i - 1) =>
                        levelMail[<<q, p>>][i][n] = target'[n]
        <5>1. n \in Block /\ target[n] \in Nat /\ Level[n] \in Nat
          BY <1>1, BorderBlocks, LevelFacts
        <5>2. /\ levelMail[<<q, p>>][i][n] <= target[n]
              /\ Level[n] >= Depth - (FirstOf(q, p) + i - 1) =>
                   levelMail[<<q, p>>][i][n] = target[n]
          BY <1>2 DEF LevelsTrue
        <5>3. levelMail[<<q, p>>][i][n] \in Nat
          <6>1. levelMail[<<q, p>>][i] \in [Border(q, p) -> Nat]
            BY <1>3, LenProperties DEF LevelCount
          <6> QED BY <6>1
        <5>4. i \in Nat /\ i <= LevelCount(q, p)  BY <1>3
        <5>5. round[q] \in Nat  BY <1>1, <1>2, Counters
        <5>6. Level[n] >= Depth - (FirstOf(q, p) + i - 1) => n \notin S
          BY <1>3, <1>4, <4>1, <4>3, <5>1, <5>4, <5>5
        <5> QED BY <4>1, <5>1, <5>2, <5>3, <5>6
      <4>5. LevelsTrue(q, p)'  BY <2>1, <2>5, <3>1, <4>2, <4>4 DEF LevelsTrue
      <4> QED BY <2>1, <2>3, <4>5
    <3> QED BY <3>2, <3>3
  <2> QED BY <2>4, <2>5
<1>10. ASSUME Reduce
       PROVE  Counts(q, p)' /\ LevelsTrue(q, p)' /\ IntentsTrue(q, p)'
  <2>1. Counts(q, p)' /\ FirstOf(q, p)' = FirstOf(q, p)  BY <1>1, <1>10, ReduceCounts
  <2>2. UNCHANGED <<levelMail, mergeMail, willing, target>>  BY <1>10 DEF Reduce
  <2> QED BY <1>2, <2>1, <2>2, LevelsTrueFrame, IntentsTrueFrame
<1>11. ASSUME NEW a \in Process, Intend(a)
       PROVE  Counts(q, p)' /\ LevelsTrue(q, p)' /\ IntentsTrue(q, p)'
  <2>1. /\ Counts(q, p)'
        /\ p = a => FirstOf(q, p)' = FirstOf(q, p) + 1
        /\ p # a => FirstOf(q, p)' = FirstOf(q, p)
        /\ q = a => IntentCount(q, p) = 0
    BY <1>1, <1>11, IntendCounts
  <2>2. target' = target /\ AllMail(levelMail, a) /\ levelMail' = Taken(levelMail, a)
    BY <1>11 DEF Intend
  <2>3. LevelsTrue(q, p)'
    <3>1. CASE p = a  BY <1>8, <2>1, <2>2, <3>1
    <3>2. CASE p # a
      <4>1. levelMail'[<<q, p>>] = levelMail[<<q, p>>]  BY <1>1, <1>2, <2>2, <3>2, ReadLevels
      <4> QED BY <1>2, <2>1, <2>2, <3>2, <4>1, LevelsTrueFrame
    <3> QED BY <3>1, <3>2
  <2>4. IntentsTrue(q, p)'
    <3>1. CASE q = a
      <4>1. /\ IntentCount(q, p)' = IntentCount(q, p) + 1
            /\ mergeMail'[<<q, p>>][IntentCount(q, p) + 1] = willing'[q]
        <5>1. Intend(q) /\ p \in Partners[q]  BY <1>2, <1>11, <3>1
        <5> QED BY <1>1, <1>2, <5>1, ToldIntents
      <4>2. IntentCount(q, p) + 1 = 1  BY <2>1, <3>1
      <4> QED BY <4>1, <4>2 DEF IntentsTrue
    <3>2. CASE q # a
      <4>1. mergeMail'[<<q, p>>] = mergeMail[<<q, p>>]  BY <1>1, <1>2, <1>11, <3>2, ToldIntents
      <4>2. willing'[q] = willing[q]  BY <1>1, <1>2, <1>11, <3>2, IntendEffect
      <4> QED BY <1>2, <4>1, <4>2, IntentsTrueFrame
    <3> QED BY <3>1, <3>2
  <2> QED BY <2>1, <2>3, <2>4
<1>12. ASSUME NEW a \in Process, Merge(a)
       PROVE  Counts(q, p)' /\ LevelsTrue(q, p)' /\ IntentsTrue(q, p)'
  <2>1. /\ Counts(q, p)' /\ FirstOf(q, p)' = FirstOf(q, p)
        /\ q = a => LevelCount(q, p) = 0
    BY <1>1, <1>12, MergeCounts
  <2>2. /\ UNCHANGED <<levelMail, willing>>
        /\ AllMail(mergeMail, a) /\ mergeMail' = Taken(mergeMail, a)
    BY <1>12 DEF Merge
  <2>3. LevelsTrue(q, p)'
    <3>1. q # a => \A n \in Border(q, p) : target'[n] = target[n]
      BY <1>12, TargetFrame, BorderBlocks
    <3> QED BY <1>2, <2>1, <2>2, <3>1, LevelsTrueFrame
  <2>4. IntentsTrue(q, p)'
    <3>1. CASE p # a
      <4>1. mergeMail'[<<q, p>>] = mergeMail[<<q, p>>]  BY <1>1, <1>2, <2>2, <3>1, ReadIntents
      <4> QED BY <1>2, <2>2, <4>1, IntentsTrueFrame
    <3>2. CASE p = a
      <4>1. \A i \in 1..IntentCount(q, p)' :
              /\ mergeMail'[<<q, p>>][i] = mergeMail[<<q, p>>][i + 1]
              /\ i + 1 \in 1..IntentCount(q, p)
        BY <1>1, <1>2, <2>2, <3>2, ReadIntents
      <4> QED BY <1>2, <2>2, <4>1 DEF IntentsTrue
    <3> QED BY <3>1, <3>2
  <2> QED BY <2>1, <2>3, <2>4
<1>13. ASSUME NEW a \in Process, Again(a)
       PROVE  Counts(q, p)' /\ LevelsTrue(q, p)' /\ IntentsTrue(q, p)'
  <2>1. Counts(q, p)' /\ (LevelCount(q, p) = 0 \/ FirstOf(q, p)' = FirstOf(q, p))
    BY <1>1, <1>13, AgainCounts
  <2>2. UNCHANGED <<levelMail, mergeMail, willing, target>>  BY <1>13 DEF Again
  <2> QED BY <1>2, <2>1, <2>2, LevelsTrueFrame, IntentsTrueFrame
<1>14. CASE Stay
  <2>1. UNCHANGED vars  BY <1>14 DEF Stay
  <2>2. Counts(q, p)' /\ FirstOf(q, p)' = FirstOf(q, p)  BY <1>2, <2>1, CountsFrame DEF vars
  <2> QED BY <1>2, <2>1, <2>2, LevelsTrueFrame, IntentsTrueFrame DEF vars
<1> QED BY <1>5, <1>6, <1>7, <1>9, <1>10, <1>11, <1>12, <1>13, <1>14 DEF Next

LEMMA SilenceStep ==
  ASSUME IndInv, Next, NEW p \in Process, NEW q \in Process \ Partners[p]
  PROVE  NoMail(q, p)'
<1>1. TypeOK /\ NoMail(q, p)  BY DEF IndInv, SilenceInv
<1>2. p \notin Partners[q]
  <2>1. CASE q = p  BY <2>1, PartnersBorder
  <2>2. CASE q # p  BY <2>2, PartnersMutual
  <2> QED BY <2>1, <2>2
<1>3. ASSUME NEW a \in Process, SendLevels(a) PROVE NoMail(q, p)'
  BY <1>1, <1>2, <1>3, SentLevels DEF NoMail, SendLevels
<1>4. ASSUME NEW a \in Process, Split(a) PROVE NoMail(q, p)'
  <2>1. AllMail(levelMail, a) /\ levelMail' = Taken(levelMail, a) /\ mergeMail' = mergeMail
    BY <1>4 DEF Split
  <2> QED BY <1>1, <2>1, ReadLevels DEF NoMail
<1>5. ASSUME NEW a \in Process, Intend(a) PROVE NoMail(q, p)'
  <2>1. AllMail(levelMail, a) /\ levelMail' = Taken(levelMail, a)
    BY <1>5 DEF Intend
  <2>2. levelMail'[<<q, p>>] = <<>>  BY <1>1, <2>1, ReadLevels DEF NoMail
  <2>3. mergeMail'[<<q, p>>] = <<>>
    <3>1. ~(q = a /\ p \in Partners[a])  BY <1>2
    <3>2. mergeMail'[<<q, p>>] = mergeMail[<<q, p>>]
      BY ONLY <1>1, <1>5, <3>1, p \in Process, q \in Process, ToldIntents
    <3> QED BY <1>1, <3>2 DEF NoMail
  <2> QED BY <2>2, <2>3 DEF NoMail
<1>6. ASSUME NEW a \in Process, Merge(a) PROVE NoMail(q, p)'
  <2>1. AllMail(mergeMail, a) /\ mergeMail' = Taken(mergeMail, a) /\ levelMail' = levelMail
    BY <1>6 DEF Merge
  <2> QED BY <1>1, <2>1, ReadIntents DEF NoMail
<1>7. ASSUME \/ \E a \in Process : Evaluate(a) \/ Again(a)
             \/ Agree \/ Reduce \/ Stay
      PROVE  NoMail(q, p)'
  BY <1>1, <1>7 DEF NoMail, Evaluate, Again, Agree, Reduce, Stay, vars
<1> QED BY <1>3, <1>4, <1>5, <1>6, <1>7 DEF Next

-----------------------------------------------------------------------------
(* What is claimed of the blocks *)

LEMMA LevelFactsNext ==
  ASSUME TypeOK'
  PROVE  \A b \in Block :
           /\ target'[b] \in Nat /\ minTarget'[b] \in Nat /\ asked'[b] \in Nat
           /\ Level[b] - 1 <= target'[b] /\ target'[b] <= Level[b] + 1
<1>1. \A b \in Block : Level[b] \in Nat  BY ForestAssumption
<1> QED BY <1>1 DEF TypeOK

(* Before the first split only what lives on the finest level is settled. *)
LEMMA SettledFirst ==
  ASSUME TypeOK, TypeOK', NEW b \in Block, round'[ProcOf[b]] = 0
  PROVE  Settled(b)'
<1>1. ASSUME Level[b] >= Depth - 0, NEW n \in Nbr[b]
      PROVE  target'[n] <= Level[b] + 1
  BY <1>1, LevelFacts, LevelFactsNext
<1> QED BY <1>1 DEF Settled

(* Neither the levels nor who is willing to merge change, and processes go on
   with their iteration or begin a pass. *)
LEMMA QuietBlocks ==
  ASSUME TypeOK, TypeOK', \A q \in Process : ProcessInv(q),
         UNCHANGED <<target, minTarget, willing>>,
         \A q \in Process : \/ round'[q] = round[q] /\ (pc'[q] = "merge" <=> pc[q] = "merge")
                            \/ round'[q] = 0 /\ pc'[q] # "merge",
         NEW b \in Block, Settled(b), Balance(b), Permitted(b), Octets(b), Refused(b), Hindered(b)
  PROVE  Settled(b)' /\ Balance(b)' /\ Permitted(b)' /\ Octets(b)' /\ Refused(b)' /\ Hindered(b)'
<1>1. ProcOf[b] \in Process /\ Depth \in Nat /\ Depth >= 1
      /\ \A n \in Nbr[b] : ProcOf[n] \in Process
  BY LevelFacts
<1>2. ASSUME NEW q \in Process, Late(q)'
      PROVE  /\ Late(q) /\ round'[q] = round[q] /\ (pc'[q] = "merge" <=> pc[q] = "merge")
             /\ Merges(q)' = Merges(q) /\ Told(q)' = Told(q)
  <2>1. round'[q] >= Depth  BY <1>2 DEF Late
  <2>2. round'[q] = round[q] /\ (pc'[q] = "merge" <=> pc[q] = "merge")  BY <1>1, <2>1
  <2> QED BY <2>1, <2>2 DEF Late, Merges, Told
<1>3. ASSUME NEW q \in Process, ~Late(q)' PROVE Merges(q)' = 0 /\ Told(q)' = 0
  <2>1. round'[q] < Depth  BY <1>1, <1>3 DEF Late, TypeOK
  <2>2. pc'[q] # "merge"
    <3>1. CASE round'[q] = round[q] /\ (pc'[q] = "merge" <=> pc[q] = "merge")
      BY <1>1, <2>1, <3>1 DEF ProcessInv
    <3>2. CASE pc'[q] # "merge"  BY <3>2
    <3> QED BY <3>1, <3>2
  <2> QED BY <2>1, <2>2 DEF Merges, Told
<1>4. \A c : (InOctet(c)' <=> InOctet(c)) /\ (Agreed(c)' <=> Agreed(c)) /\ (Merged(c)' <=> Merged(c))
  BY DEF InOctet, Agreed, Merged
<1>5. Settled(b)'
  <2>1. CASE round'[ProcOf[b]] = 0  BY <2>1, SettledFirst
  <2>2. CASE round'[ProcOf[b]] = round[ProcOf[b]]
             /\ (pc'[ProcOf[b]] = "merge" <=> pc[ProcOf[b]] = "merge")
    BY <2>2 DEF Settled
  <2> QED BY <1>1, <2>1, <2>2
<1>6. Balance(b)'  BY <1>1, <1>2 DEF Balance
<1>7. Permitted(b)'
  <2> SUFFICES ASSUME pc'[ProcOf[b]] = "merge", b \in willing[ProcOf[b]]
               PROVE  /\ InOctet(b)
                      /\ \A n \in Nbr[b] : Late(ProcOf[n])' => target[n] <= target[b]
    BY <1>4 DEF Permitted
  <2>1. pc[ProcOf[b]] = "merge"  BY <1>1
  <2> QED BY <1>1, <1>2, <2>1 DEF Permitted
<1>8. Octets(b)'
  <2> SUFFICES ASSUME NEW s \in Siblings[b], Late(ProcOf[b])', Late(ProcOf[s])'
               PROVE  /\ Merges(ProcOf[b])' = Merges(ProcOf[s])' => (Merged(b) <=> Merged(s))
                      /\ Merges(ProcOf[b])' = Merges(ProcOf[s])' + 1 =>
                           (Merged(b) <=> Merged(s) \/ Agreed(b))
    BY <1>4 DEF Octets
  <2>1. ProcOf[s] \in Process  BY <1>1, SiblingsMutual
  <2>2. /\ Late(ProcOf[b]) /\ Merges(ProcOf[b])' = Merges(ProcOf[b])
        /\ Late(ProcOf[s]) /\ Merges(ProcOf[s])' = Merges(ProcOf[s])
    BY <1>1, <1>2, <2>1
  <2> QED BY <2>2 DEF Octets
<1>9. Refused(b)'
  <2>1. CASE Late(ProcOf[b])'  BY <1>1, <1>2, <1>4, <2>1 DEF Refused
  <2>2. CASE ~Late(ProcOf[b])'  BY <1>1, <1>3, <2>2 DEF Refused
  <2> QED BY <2>1, <2>2
<1>10. Hindered(b)'
  <2>1. CASE Late(ProcOf[b])'  BY <1>1, <1>2, <1>4, <2>1 DEF Hindered
  <2>2. CASE ~Late(ProcOf[b])'  BY <1>1, <1>3, <2>2 DEF Hindered
  <2> QED BY <2>1, <2>2
<1> QED BY <1>5, <1>6, <1>7, <1>8, <1>9, <1>10

(* What is claimed of one block *)
BlockClaims(b) ==
  /\ BlockInv(b) /\ Reason(b) /\ Settled(b)
  /\ Balance(b) /\ Permitted(b) /\ Octets(b)
  /\ Refused(b) /\ Hindered(b)

LEMMA ClaimsOfAll == IndInv => \A b \in Block : BlockClaims(b)
BY DEF IndInv, SplitInv, MergeInv, TightInv, BlockClaims

(* A callback only ever raises the level of a block that is not to be merged. *)
LEMMA EvaluateEffect ==
  ASSUME TypeOK, NEW p \in Process, Evaluate(p), NEW b \in Block
  PROVE  /\ ProcOf[b] # p => /\ target'[b] = target[b] /\ minTarget'[b] = minTarget[b]
                             /\ asked'[b] = asked[b]
         /\ ProcOf[b] = p => /\ target'[b] = Greater(Level[b], minTarget'[b])
                             /\ minTarget'[b] <= Level[b] + 1
                             /\ target'[b] >= minTarget'[b] /\ target'[b] >= Level[b]
                             /\ target[b] > Level[b] => /\ target'[b] = target[b]
                                                        /\ asked'[b] = asked[b]
                             /\ target[b] <= Level[b] /\ target'[b] > Level[b] =>
                                  asked'[b] > Level[b]
         /\ target'[b] >= target[b]
<1>1. PICK req \in [BlocksOf(p) -> UNION {Request[c] \cup {target[c]} : c \in BlocksOf(p)}] :
        /\ \A c \in BlocksOf(p) : req[c] \in Askable(c)
        /\ minTarget' = [c \in Block |-> IF ProcOf[c] = p THEN Lesser(req[c], Level[c] + 1)
                                                          ELSE minTarget[c]]
        /\ asked' = [c \in Block |-> IF ProcOf[c] = p /\ ~Marked(c) THEN req[c] ELSE asked[c]]
  BY DEF Evaluate
<1>2. target' = [c \in Block |-> IF ProcOf[c] = p THEN Greater(Level[c], minTarget'[c])
                                                  ELSE target[c]]
  BY DEF Evaluate
<1>3. /\ Level[b] \in Nat /\ target[b] \in Nat /\ target[b] <= Level[b] + 1
      /\ Level[b] - 1 <= target[b]
  BY LevelFacts
<1>4. CASE ProcOf[b] # p  BY <1>1, <1>2, <1>3, <1>4
<1>5. CASE ProcOf[b] = p
  <2>1. b \in BlocksOf(p)  BY <1>5 DEF BlocksOf
  <2>2. req[b] \in Askable(b)  BY <1>1, <2>1
  <2>3. req[b] \in Nat /\ (Marked(b) => req[b] = target[b])
    BY <1>3, <2>2, RequestAssumption DEF Askable
  <2>4. /\ minTarget'[b] = Lesser(req[b], Level[b] + 1)
        /\ target'[b] = Greater(Level[b], minTarget'[b])
        /\ asked'[b] = IF ~Marked(b) THEN req[b] ELSE asked[b]
    BY <1>1, <1>2, <1>5
  <2> QED BY <1>3, <1>5, <2>3, <2>4 DEF Marked, Lesser, Greater
<1> QED BY <1>4, <1>5

LEMMA EvaluateBlocks ==
  ASSUME IndInv, TypeOK', NEW a \in Process, Evaluate(a), NEW b \in Block
  PROVE  BlockClaims(b)'
<1> DEFINE p == ProcOf[b]
<1>1. TypeOK /\ (\A r \in Process : ProcessInv(r)) /\ ChannelInv /\ BlockClaims(b)
  BY ClaimsOfAll DEF IndInv
<1>2. /\ p \in Process /\ Depth \in Nat /\ Depth >= 1
      /\ Level[b] \in Nat /\ Level[b] <= Depth /\ target[b] \in Nat
      /\ \A n \in Nbr[b] : /\ n \in Block /\ ProcOf[n] \in Process
                           /\ Level[n] <= Level[b] + 1 /\ Level[n] \in Nat
                           /\ target[n] \in Nat /\ target[n] <= Level[n] + 1
  BY <1>1, LevelFacts
<1>3. /\ round[a] = 0 /\ pc[a] = "start" /\ round'[a] = 0 /\ pc'[a] \in {"evaluated", "send"}
      /\ Sent(a) = 0 /\ Read(a) = 0 /\ ~Late(a) /\ ~Late(a)'
      /\ Merges(a)' = 0 /\ Told(a)' = 0
  BY <1>1, EvaluateCounters
<1>4. ASSUME NEW q \in Process, q # a
      PROVE  /\ round'[q] = round[q] /\ pc'[q] = pc[q] /\ (Late(q)' <=> Late(q))
             /\ Merges(q)' = Merges(q) /\ Told(q)' = Told(q)
  BY <1>1, <1>4, OthersFrame, CountersFrame
<1>5. \A c \in Block : ProcOf[c] # a =>
        target'[c] = target[c] /\ minTarget'[c] = minTarget[c] /\ asked'[c] = asked[c]
  BY <1>1, EvaluateEffect
<1>6. \A c \in Block : ProcOf[c] = a =>
        /\ target'[c] = Greater(Level[c], minTarget'[c])
        /\ minTarget'[c] <= Level[c] + 1
        /\ target'[c] >= minTarget'[c] /\ target'[c] >= Level[c]
        /\ target[c] > Level[c] => target'[c] = target[c] /\ asked'[c] = asked[c]
        /\ target[c] <= Level[c] /\ target'[c] > Level[c] => asked'[c] > Level[c]
  BY <1>1, EvaluateEffect
<1>7. \A c \in Block : target'[c] >= target[c] /\ target'[c] \in Nat
  BY <1>1, EvaluateEffect, LevelFactsNext
<1>8. willing' = willing  BY DEF Evaluate
<1>9. BlockInv(b)'
  <2>1. CASE p = a
    BY <1>3, <1>6, <2>1, <1>2 DEF BlockInv
  <2>2. CASE p # a
    <3>1. BlockInv(b)  BY <1>1 DEF BlockClaims
    <3> QED BY <1>2, <1>4, <1>5, <2>2, <3>1 DEF BlockInv
  <2> QED BY <2>1, <2>2
<1>10. Reason(b)'
  <2> SUFFICES ASSUME target'[b] > Level[b]
               PROVE  asked'[b] > Level[b] \/ \E n \in Nbr[b] : target'[n] = Level[b] + 2
    BY DEF Reason
  <2>1. CASE target[b] > Level[b]
    <3>1. asked'[b] = asked[b]  BY <1>5, <1>6, <2>1
    <3>2. asked[b] > Level[b] \/ \E n \in Nbr[b] : target[n] = Level[b] + 2
      BY <1>1, <2>1 DEF BlockClaims, Reason
    <3>3. ASSUME NEW n \in Nbr[b], target[n] = Level[b] + 2 PROVE target'[n] = Level[b] + 2
      <4>1. target[n] > Level[n]  BY <1>2, <3>3
      <4> QED BY <1>2, <1>5, <1>6, <3>3, <4>1
    <3> QED BY <3>1, <3>2, <3>3
  <2>2. CASE ~(target[b] > Level[b])
    <3>1. p = a  BY <1>5, <2>2
    <3> QED BY <1>2, <1>6, <2>2, <3>1
  <2> QED BY <2>1, <2>2
<1>11. Settled(b)'
  <2>1. CASE round'[p] = 0  BY <1>1, <2>1, SettledFirst
  <2>2. CASE round'[p] # 0
    <3>1. p # a  BY <1>3, <2>2
    <3>2. ASSUME round[p] <= Depth, pc[p] # "merge", NEW n \in Nbr[b], ProcOf[n] = a
          PROVE  FALSE
      <4>1. a \in Partners[p] /\ p \in Partners[a]  BY <3>1, <3>2, NeighborsPartners
      <4>2. Read(p) = round[p] /\ round[p] \in Nat  BY <1>1, <1>2, <3>2 DEF Read, TypeOK
      <4>3. ~Ahead(p, a) /\ ~Ahead(a, p)  BY <1>2, <1>3, <3>2, <4>2 DEF Ahead
      <4>4. Read(p) <= Sent(a)  BY <1>1, <1>2, <4>1, <4>3, Together
      <4>5. round'[p] = 0  BY <1>2, <1>3, <1>4, <3>1, <4>2, <4>4
      <4> QED BY <2>2, <4>5
    <3>3. Settled(b)  BY <1>1 DEF BlockClaims
    <3> QED BY <1>2, <1>4, <1>5, <3>1, <3>2, <3>3 DEF Settled
  <2> QED BY <2>1, <2>2
<1>12. Balance(b)'
  <2> SUFFICES ASSUME NEW n \in Nbr[b], Late(p)', Late(ProcOf[n])'
               PROVE  target'[n] <= target'[b] + 1
    BY DEF Balance
  <2>1. p # a /\ ProcOf[n] # a  BY <1>3
  <2>2. Balance(b)  BY <1>1 DEF BlockClaims
  <2> QED BY <1>2, <1>4, <1>5, <2>1, <2>2 DEF Balance
<1>13. p # a => (InOctet(b)' <=> InOctet(b)) /\ (Agreed(b)' <=> Agreed(b))
                /\ (Merged(b)' <=> Merged(b))
  BY <1>5, <1>8 DEF InOctet, Agreed, Merged
<1>14. Permitted(b)'
  <2> SUFFICES ASSUME pc'[p] = "merge", b \in willing'[p]
               PROVE  InOctet(b)' /\ \A n \in Nbr[b] : Late(ProcOf[n])' => target'[n] <= target'[b]
    BY DEF Permitted
  <2>1. p # a  BY <1>3
  <2>2. InOctet(b) /\ \A n \in Nbr[b] : Late(ProcOf[n]) => target[n] <= target[b]
    BY <1>1, <1>2, <1>4, <1>8, <2>1 DEF BlockClaims, Permitted
  <2>3. ASSUME NEW n \in Nbr[b], Late(ProcOf[n])' PROVE target'[n] <= target'[b]
    <3>1. ProcOf[n] # a  BY <1>3, <2>3
    <3> QED BY <1>2, <1>4, <1>5, <2>1, <2>2, <2>3, <3>1
  <2> QED BY <1>13, <2>1, <2>2, <2>3
<1>15. Octets(b)'
  <2> SUFFICES ASSUME NEW s \in Siblings[b], Late(p)', Late(ProcOf[s])'
               PROVE  /\ Merges(p)' = Merges(ProcOf[s])' => (Merged(b)' <=> Merged(s)')
                      /\ Merges(p)' = Merges(ProcOf[s])' + 1 =>
                           (Merged(b)' <=> Merged(s)' \/ Agreed(b)')
    BY DEF Octets
  <2>1. p # a /\ ProcOf[s] # a  BY <1>3
  <2>2. s \in Block /\ ProcOf[s] \in Process  BY <1>2, SiblingsMutual
  <2>3. Merged(s)' <=> Merged(s)  BY <1>5, <2>1, <2>2 DEF Merged
  <2>4. Late(p) /\ Late(ProcOf[s]) /\ Merges(p)' = Merges(p)
        /\ Merges(ProcOf[s])' = Merges(ProcOf[s])
    BY <1>2, <1>4, <2>1, <2>2
  <2>5. Octets(b)  BY <1>1 DEF BlockClaims
  <2> QED BY <1>13, <2>1, <2>3, <2>4, <2>5 DEF Octets
<1>16. Refused(b)'
  <2>1. CASE p = a  BY <1>3, <2>1 DEF Refused
  <2>2. CASE p # a  BY <1>1, <1>2, <1>4, <1>13, <2>2 DEF BlockClaims, Refused
  <2> QED BY <2>1, <2>2
<1>17. Hindered(b)'
  <2>1. CASE p = a  BY <1>3, <2>1 DEF Hindered
  <2>2. CASE p # a
    <3>1. Hindered(b)  BY <1>1 DEF BlockClaims
    <3>2. \A n \in Nbr[b] : target[n] > target[b] => target'[n] > target'[b]
      BY <1>2, <1>5, <1>7, <2>2
    <3> QED BY <1>2, <1>4, <1>8, <1>13, <2>2, <3>1, <3>2 DEF Hindered
  <2> QED BY <2>1, <2>2
<1> QED BY <1>9, <1>10, <1>11, <1>12, <1>14, <1>15, <1>16, <1>17 DEF BlockClaims

(* The steps that decide nothing *)
LEMMA QuietSteps ==
  ASSUME IndInv, TypeOK', NEW b \in Block,
         \/ Agree \/ Reduce \/ Stay
         \/ \E a \in Process : SendLevels(a) \/ Again(a)
  PROVE  BlockClaims(b)'
<1> DEFINE p == ProcOf[b]
<1>1. TypeOK /\ (\A r \in Process : ProcessInv(r)) /\ BlockClaims(b)
  BY ClaimsOfAll DEF IndInv
<1>2. p \in Process /\ Depth \in Nat /\ Depth >= 1 /\ Level[b] \in Nat
      /\ target[b] \in Nat /\ minTarget[b] \in Nat
  BY <1>1, LevelFacts
<1>3. UNCHANGED <<target, minTarget, asked, willing>>
  BY DEF Agree, Reduce, Stay, vars, SendLevels, Again
<1>4. Reason(b)'  BY <1>1, <1>3 DEF BlockClaims, Reason
<1>5. ASSUME \A q \in Process : \/ round'[q] = round[q] /\ (pc'[q] = "merge" <=> pc[q] = "merge")
                                \/ round'[q] = 0 /\ pc'[q] # "merge",
             BlockInv(b)'
      PROVE  BlockClaims(b)'
  BY <1>1, <1>3, <1>4, <1>5, QuietBlocks DEF BlockClaims
<1>6. CASE Agree
  <2>1. \A q \in Process : round'[q] = round[q] /\ pc[q] = "evaluated" /\ pc'[q] \in {"send", "done"}
                           /\ round[q] = 0
    BY <1>1, <1>6, AgreeCounters
  <2>2. target[b] = Greater(Level[b], minTarget[b]) /\ minTarget[b] <= Level[b] + 1
        /\ target[b] >= minTarget[b] /\ target[b] >= Level[b]
    BY <1>1, <1>2, <2>1 DEF BlockClaims, BlockInv
  <2>3. pc'[p] = "done" => minTarget[b] = Level[b]
    BY <1>2, <1>6 DEF Agree
  <2>4. BlockInv(b)'
    BY <1>2, <1>3, <2>1, <2>2, <2>3 DEF BlockInv, Greater, Late
  <2> QED BY <1>5, <2>1, <2>4
<1>7. CASE Reduce
  <2>1. \A q \in Process : round'[q] = round[q] /\ pc[q] = "reduce" /\ pc'[q] = "send"
                           /\ round[q] = Depth
    BY <1>1, <1>7, ReduceCounters
  <2>2. BlockInv(b)'
    BY <1>1, <1>2, <1>3, <2>1 DEF BlockClaims, BlockInv, Late
  <2> QED BY <1>5, <2>1, <2>2
<1>8. CASE Stay
  <2>1. pc' = pc /\ round' = round  BY <1>8 DEF Stay, vars
  <2>2. BlockInv(b)'  BY <1>1, <1>3, <2>1 DEF BlockClaims, BlockInv, Late
  <2> QED BY <1>5, <2>1, <2>2
<1>9. ASSUME NEW a \in Process, SendLevels(a) PROVE BlockClaims(b)'
  <2>1. round'[a] = round[a] /\ pc[a] = "send" /\ pc'[a] \in {"split", "intend"}
    BY <1>1, <1>9, SendCounters
  <2>2. \A q \in Process : q # a => pc'[q] = pc[q] /\ round'[q] = round[q]
    BY <1>1, <1>9, OthersFrame
  <2>3. BlockInv(b)'
    <3>1. CASE p = a  BY <1>1, <1>2, <1>3, <2>1, <3>1 DEF BlockClaims, BlockInv, Late
    <3>2. CASE p # a  BY <1>1, <1>2, <1>3, <2>2, <3>2 DEF BlockClaims, BlockInv, Late
    <3> QED BY <3>1, <3>2
  <2> QED BY <1>5, <2>1, <2>2, <2>3
<1>10. ASSUME NEW a \in Process, Again(a) PROVE BlockClaims(b)'
  <2>1. round'[a] = 0 /\ pc'[a] = "start"
    BY <1>1, <1>10, AgainCounters
  <2>2. \A q \in Process : q # a => pc'[q] = pc[q] /\ round'[q] = round[q]
    BY <1>1, <1>10, OthersFrame
  <2>3. BlockInv(b)'
    <3>1. CASE p = a  BY <1>1, <1>2, <1>3, <2>1, <3>1 DEF BlockClaims, BlockInv, Late
    <3>2. CASE p # a  BY <1>1, <1>2, <1>3, <2>2, <3>2 DEF BlockClaims, BlockInv, Late
    <3> QED BY <3>1, <3>2
  <2> QED BY <1>5, <2>1, <2>2, <2>3
<1> QED BY <1>6, <1>7, <1>8, <1>9, <1>10

-----------------------------------------------------------------------------
(* Splits *)

(* A partner that is past its splits when one ends its last has not merged yet. *)
LEMMA SplitsLast ==
  ASSUME IndInv, NEW a \in Process, Split(a), NEW p \in Process, p = a \/ p \in Partners[a]
  PROVE  /\ round[p] <= Depth => round[p] <= round[a] + 1
         /\ Late(p)' /\ Late(a)' => /\ round'[p] = Depth /\ pc'[p] # "merge" /\ pc[p] # "start"
                                    /\ round[p] <= Depth /\ Merges(p)' = 0
<1>1. TypeOK /\ (\A r \in Process : ProcessInv(r)) /\ ChannelInv
  BY DEF IndInv
<1>2. /\ round'[a] = round[a] + 1 /\ pc[a] = "split" /\ pc'[a] \in {"reduce", "send"}
      /\ round[a] < Depth /\ round[a] \in Nat /\ Depth \in Nat /\ Depth >= 1
      /\ Sent(a) = round[a] + 1 /\ Read(a) = round[a]
      /\ Late(a)' => round'[a] = Depth
  <2>1. round[a] \in Nat /\ Depth \in Nat /\ Depth >= 1  BY <1>1, Counters
  <2>2. /\ round'[a] = round[a] + 1 /\ pc[a] = "split" /\ pc'[a] \in {"reduce", "send"}
        /\ round[a] < Depth /\ Sent(a) = round[a] + 1 /\ Read(a) = round[a]
    BY <1>1, SplitCounters
  <2> QED BY <2>1, <2>2 DEF Late
<1>3. CASE p = a  BY <1>2, <1>3 DEF Merges
<1>4. CASE p # a
  <2>1. p \in Partners[a] /\ a \in Partners[p]  BY <1>4, PartnersMutual
  <2>2. round'[p] = round[p] /\ pc'[p] = pc[p]  BY <1>1, <1>4, OthersFrame
  <2>3. ~Ahead(p, a)  BY <1>2 DEF Ahead
  <2>4. ~Ahead(a, p)
    <3>1. AllMail(levelMail, a)  BY DEF Split
    <3>2. LevelCount(p, a) # 0  BY <1>1, <2>1, <3>1, MailShape DEF AllMail
    <3> QED BY <1>1, <2>1, <3>2 DEF ChannelInv, Counts
  <2>5. Read(p) <= Sent(a)  BY <1>1, <2>1, <2>3, <2>4, Together
  <2>6. round[p] \in Nat /\ (pc[p] = "start" => round[p] = 0)
    BY <1>1 DEF TypeOK, ProcessInv
  <2>7. round[p] <= Read(p) /\ (pc[p] = "merge" => Read(p) = round[p] + 1)
        /\ (pc[p] # "merge" => Read(p) = round[p])
    BY <2>6 DEF Read
  <2>8. Read(p) \in Nat /\ round[p] <= round[a] + 1 /\ Read(p) <= round[a] + 1
    BY <1>2, <2>5, <2>6, <2>7
  <2>9. ASSUME Late(p)', Late(a)'
        PROVE  /\ round'[p] = Depth /\ pc'[p] # "merge" /\ pc[p] # "start"
               /\ round[p] <= Depth /\ Merges(p)' = 0
    <3>1. round[p] >= Depth  BY <2>2, <2>9 DEF Late
    <3>2. round[p] = Depth /\ pc[p] # "merge" /\ pc[p] # "start"
      BY <1>2, <2>6, <2>7, <2>8, <3>1
    <3> QED BY <1>2, <2>2, <3>2 DEF Merges
  <2> QED BY <2>8, <2>9
<1> QED BY <1>3, <1>4

LEMMA SplitBlocks ==
  ASSUME IndInv, TypeOK', NEW a \in Process, Split(a), NEW b \in Block
  PROVE  BlockClaims(b)'
<1> DEFINE p == ProcOf[b]
<1>1. TypeOK /\ (\A r \in Process : ProcessInv(r)) /\ ChannelInv /\ SplitInv
      /\ \A c \in Block : BlockClaims(c)
  BY ClaimsOfAll DEF IndInv
<1>2. /\ p \in Process /\ Depth \in Nat /\ Depth >= 1 /\ b \notin Nbr[b]
      /\ \A n \in Nbr[b] \cup {b} : /\ n \in Block /\ ProcOf[n] \in Process
                           /\ Level[n] <= Level[b] + 1 /\ Level[n] \in Nat
                           /\ Level[b] <= Level[n] + 1
                           /\ target[n] \in Nat /\ target[n] <= Level[n] + 1
                           /\ target'[n] \in Nat /\ target'[n] <= Level[n] + 1
  BY <1>1, LevelFacts, LevelFactsNext
<1>3. PICK S \in SUBSET Block :
           /\ target' = [c \in Block |-> IF c \in S THEN Level[c] + 1 ELSE target[c]]
           /\ \A c \in S : /\ ProcOf[c] = a /\ target[c] = Level[c]
                           /\ Level[c] < Depth - round[a]
                           /\ \E n \in Nbr[c] : target'[n] = Level[c] + 2
           /\ \A c \in Block : /\ ProcOf[c] = a /\ c \notin S /\ target[c] = Level[c]
                               /\ Level[c] >= Depth - (round[a] + 1)
                               => \A n \in Nbr[c] : target'[n] <= Level[c] + 1
  BY <1>1, SplitEffect
<1>4. \A c \in Block : target'[c] = IF c \in S THEN Level[c] + 1 ELSE target[c]  BY <1>3
<1>5. /\ round'[a] = round[a] + 1 /\ pc[a] = "split" /\ pc'[a] \in {"reduce", "send"}
      /\ round[a] < Depth /\ Merges(a)' = 0 /\ Told(a)' = 0
  BY <1>1, SplitCounters
<1>6. ASSUME NEW q \in Process, q # a
      PROVE  /\ round'[q] = round[q] /\ pc'[q] = pc[q] /\ (Late(q)' <=> Late(q))
             /\ Merges(q)' = Merges(q) /\ Told(q)' = Told(q)
  BY <1>1, <1>6, OthersFrame, CountersFrame
<1>7. UNCHANGED <<minTarget, asked, willing>>  BY DEF Split
<1>8. round[a] \in Nat /\ round[p] \in Nat  BY <1>1, <1>2 DEF TypeOK
<1>9. target'[b] >= target[b] /\ (p # a => target'[b] = target[b])
  BY <1>2, <1>3, <1>4
<1>10. ASSUME NEW n \in Nbr[b] \cup {b}, target[n] > Level[n] PROVE target'[n] = target[n]
  BY <1>2, <1>3, <1>4, <1>10
<1>11. BlockInv(b) /\ Reason(b) /\ Settled(b)  BY <1>1 DEF BlockClaims
<1>12. Reason(b)'
  <2> SUFFICES ASSUME target'[b] > Level[b]
               PROVE  asked[b] > Level[b] \/ \E n \in Nbr[b] : target'[n] = Level[b] + 2
    BY <1>7 DEF Reason
  <2>1. CASE b \in S  BY <1>3, <2>1
  <2>2. CASE b \notin S
    <3>1. asked[b] > Level[b] \/ \E n \in Nbr[b] : target[n] = Level[b] + 2
      BY <1>4, <1>11, <2>2 DEF Reason
    <3>2. ASSUME NEW n \in Nbr[b], target[n] = Level[b] + 2 PROVE target'[n] = Level[b] + 2
      <4>1. target[n] > Level[n]  BY <1>2, <3>2
      <4> QED BY <1>10, <3>2, <4>1
    <3> QED BY <3>1, <3>2
  <2> QED BY <2>1, <2>2
<1>13. BlockInv(b)'
  <2>1. minTarget[b] <= Level[b] + 1 /\ minTarget[b] \in Nat
    BY <1>1, <1>11, LevelFacts DEF BlockInv
  <2>2. CASE p = a
    <3>1. target[b] >= minTarget[b] /\ target[b] >= Level[b]
      BY <1>5, <1>8, <1>11, <2>2, <1>2 DEF BlockInv
    <3>2. target'[b] >= minTarget[b] /\ target'[b] >= Level[b]
      BY <1>2, <1>9, <2>1, <3>1
    <3> QED BY <1>2, <1>5, <1>7, <1>8, <2>1, <2>2, <3>2 DEF BlockInv
  <2>3. CASE p # a  BY <1>2, <1>6, <1>7, <1>9, <1>11, <2>3 DEF BlockInv
  <2> QED BY <2>2, <2>3
<1>14. Settled(b)'
  <2> SUFFICES ASSUME round'[p] <= Depth, pc'[p] # "merge", Level[b] >= Depth - round'[p],
                      target'[b] = Level[b], NEW n \in Nbr[b]
               PROVE  target'[n] <= Level[b] + 1
    BY DEF Settled
  <2>1. b \notin S /\ target[b] = Level[b]  BY <1>2, <1>4
  <2>2. CASE p = a  BY <1>3, <1>5, <2>1, <2>2
  <2>3. CASE p # a
    <3>1. round'[p] = round[p] /\ pc'[p] = pc[p]  BY <1>2, <1>6, <2>3
    <3>2. target[n] <= Level[b] + 1  BY <1>11, <2>1, <3>1 DEF Settled
    <3>3. CASE n \notin S  BY <1>2, <1>4, <3>2, <3>3
    <3>4. CASE n \in S
      <4>1. p \in Partners[a]  BY <1>3, <2>3, <3>4, NeighborsPartners
      <4>2. round[p] <= round[a] + 1  BY <1>2, <3>1, <4>1, SplitsLast
      <4>3. Level[n] < Depth - round[a] /\ target'[n] = Level[n] + 1  BY <1>2, <1>3, <1>4, <3>4
      <4> QED BY <1>2, <1>8, <3>1, <4>2, <4>3
    <3> QED BY <3>3, <3>4
  <2> QED BY <2>2, <2>3
(* Whose process meets that of a for the first time after the splits *)
<1>15. ASSUME NEW n \in Nbr[b], p = a \/ ProcOf[n] = a, Late(p)', Late(ProcOf[n])'
       PROVE  /\ round'[p] = Depth /\ pc'[p] # "merge" /\ target'[b] >= Level[b]
              /\ Merges(p)' = 0
  <2>1. p = a \/ p \in Partners[a]  BY <1>15, NeighborsPartners
  <2>2. Late(p)' /\ Late(a)'  BY <1>15
  <2>3. /\ round'[p] = Depth /\ pc'[p] # "merge" /\ pc[p] # "start"
        /\ round[p] <= Depth /\ Merges(p)' = 0
    BY <1>2, <2>1, <2>2, SplitsLast
  <2>4. target[b] >= Level[b]  BY <1>11, <2>3 DEF BlockInv
  <2> QED BY <1>2, <1>9, <2>3, <2>4
<1>16. Balance(b)'
  <2> SUFFICES ASSUME NEW n \in Nbr[b], Late(p)', Late(ProcOf[n])'
               PROVE  target'[n] <= target'[b] + 1
    BY DEF Balance
  <2>1. CASE p = a \/ ProcOf[n] = a
    <3>1. round'[p] = Depth /\ pc'[p] # "merge" /\ target'[b] >= Level[b]  BY <1>15, <2>1
    <3>2. CASE target'[b] = Level[b]
      <4>1. Level[b] >= Depth - round'[p]  BY <1>2, <3>1
      <4>2. target'[n] <= Level[b] + 1  BY <1>2, <1>14, <3>1, <3>2, <4>1 DEF Settled
      <4> QED BY <3>2, <4>2
    <3>3. CASE target'[b] # Level[b]  BY <1>2, <3>1, <3>3
    <3> QED BY <3>2, <3>3
  <2>2. CASE p # a /\ ProcOf[n] # a
    <3>1. target'[b] = target[b] /\ target'[n] = target[n]  BY <1>2, <1>3, <1>4, <2>2
    <3>2. Late(p) /\ Late(ProcOf[n])  BY <1>2, <1>6, <2>2
    <3> QED BY <1>1, <3>1, <3>2 DEF BlockClaims, Balance
  <2> QED BY <2>1, <2>2
<1>17. p # a => (InOctet(b)' <=> InOctet(b)) /\ (Merged(b)' <=> Merged(b))
  BY <1>7, <1>9 DEF InOctet, Merged
<1>18. Agreed(b)' <=> Agreed(b)  BY <1>7 DEF Agreed
<1>19. Permitted(b)'
  <2> SUFFICES ASSUME pc'[p] = "merge", b \in willing[p]
               PROVE  InOctet(b)' /\ \A n \in Nbr[b] : Late(ProcOf[n])' => target'[n] <= target'[b]
    BY <1>7 DEF Permitted
  <2>1. p # a /\ pc[p] = "merge"  BY <1>2, <1>5, <1>6
  <2>2. InOctet(b) /\ \A n \in Nbr[b] : Late(ProcOf[n]) => target[n] <= target[b]
    BY <1>1, <2>1 DEF BlockClaims, Permitted
  <2>3. ASSUME NEW n \in Nbr[b], Late(ProcOf[n])' PROVE target'[n] <= target'[b]
    <3>1. Late(p)'  BY <1>1, <1>2, <1>6, <2>1, Counters
    <3>2. ProcOf[n] # a  BY <1>15, <2>3, <3>1
    <3>3. target'[n] = target[n]  BY <1>2, <1>3, <1>4, <3>2
    <3> QED BY <1>2, <1>6, <1>9, <2>1, <2>2, <2>3, <3>2, <3>3
  <2> QED BY <1>17, <2>1, <2>2, <2>3
<1>20. Octets(b)'
  <2> SUFFICES ASSUME NEW s \in Siblings[b], Late(p)', Late(ProcOf[s])'
               PROVE  /\ Merges(p)' = Merges(ProcOf[s])' => (Merged(b)' <=> Merged(s)')
                      /\ Merges(p)' = Merges(ProcOf[s])' + 1 =>
                           (Merged(b)' <=> Merged(s)' \/ Agreed(b)')
    BY DEF Octets
  <2>1. s \in Nbr[b] /\ b \in Nbr[s] /\ Level[s] = Level[b] /\ s \in Block
    BY <1>2, SiblingsMutual, LevelFacts, <1>1
  <2>2. CASE p # a /\ ProcOf[s] # a
    <3>1. Merged(s)' <=> Merged(s)  BY <1>3, <1>4, <2>1, <2>2 DEF Merged
    <3>2. Late(p) /\ Late(ProcOf[s]) /\ Merges(p)' = Merges(p)
          /\ Merges(ProcOf[s])' = Merges(ProcOf[s])
      BY <1>2, <1>6, <2>1, <2>2
    <3> QED BY <1>1, <1>17, <1>18, <2>2, <3>1, <3>2 DEF BlockClaims, Octets
  <2>3. CASE p = a \/ ProcOf[s] = a
    <3>1. target'[b] >= Level[b] /\ Merges(p)' = 0  BY <1>15, <2>1, <2>3
    <3>2. target'[s] >= Level[s] /\ Merges(ProcOf[s])' = 0
      <4>1. ProcOf[s] = a \/ ProcOf[s] \in Partners[a]  BY <2>1, <2>3, NeighborsPartners
      <4>2. Late(ProcOf[s])' /\ Late(a)'  BY <2>3
      <4>3. pc[ProcOf[s]] # "start" /\ round[ProcOf[s]] <= Depth /\ Merges(ProcOf[s])' = 0
        BY <1>2, <2>1, <4>1, <4>2, SplitsLast
      <4>4. target[s] >= Level[s]  BY <1>1, <2>1, <4>3 DEF BlockClaims, BlockInv
      <4> QED BY <1>2, <1>4, <2>1, <4>3, <4>4
    <3>3. ~Merged(b)' /\ ~Merged(s)'  BY <1>2, <2>1, <3>1, <3>2 DEF Merged
    <3> QED BY <3>1, <3>2, <3>3
  <2> QED BY <2>2, <2>3
<1>21. Refused(b)'
  <2>1. CASE p = a  BY <1>5, <2>1 DEF Refused
  <2>2. CASE p # a  BY <1>1, <1>2, <1>6, <1>17, <1>18, <2>2 DEF BlockClaims, Refused
  <2> QED BY <2>1, <2>2
<1>22. Hindered(b)'
  <2>1. CASE p = a  BY <1>5, <2>1 DEF Hindered
  <2>2. CASE p # a
    <3>1. Hindered(b)  BY <1>1 DEF BlockClaims
    <3>2. \A n \in Nbr[b] : target[n] > target[b] => target'[n] > target'[b]
      BY <1>2, <1>3, <1>4, <1>9, <2>2
    <3> QED BY <1>2, <1>6, <1>7, <1>17, <2>2, <3>1, <3>2 DEF Hindered
  <2> QED BY <2>1, <2>2
<1> QED BY <1>12, <1>13, <1>14, <1>16, <1>19, <1>20, <1>21, <1>22 DEF BlockClaims

-----------------------------------------------------------------------------
(* Merges *)

(* Partners that are merging are in the same iteration as one that has read all
   of their levels. *)
LEMMA IntendTogether ==
  ASSUME IndInv, NEW a \in Process, Intend(a), NEW q \in Partners[a], Late(q)
  PROVE  Merges(q) = Merges(a) /\ Told(a) = Merges(a) /\ q \in Process
<1>1. TypeOK /\ (\A r \in Process : ProcessInv(r)) /\ ChannelInv /\ AllMail(levelMail, a)
  BY DEF IndInv, Intend
<1>2. /\ Depth <= round[a] /\ Read(a) = round[a] /\ Merges(a) = round[a] - Depth
      /\ Told(a) = Merges(a) /\ Late(a)
  BY <1>1, IntendCounters
<1>3. q \in Process /\ a \in Partners[q]  BY PartnersMutual
<1>4. ~Ahead(a, q) /\ ~Ahead(q, a)  BY <1>1, <1>2, LateTogether
<1>5. Merges(q) <= Told(a)  BY <1>1, <1>4, Together
<1>6. LevelCount(q, a) \in Nat /\ LevelCount(q, a) # 0
  BY <1>1, <1>3, MailShape DEF AllMail
<1>7. LevelCount(q, a) = Sent(q) - Read(a)  BY <1>1, <1>4 DEF ChannelInv, Counts
<1>8. /\ Sent(q) \in Nat /\ round[q] \in Nat /\ round[a] \in Nat /\ Depth \in Nat
      /\ round[q] = Depth + Merges(q) /\ Merges(q) \in Nat
  BY <1>1, <1>3, Counters
<1>9. Sent(q) <= round[q] + 1  BY <1>8 DEF Sent
<1> QED BY <1>2, <1>3, <1>5, <1>6, <1>7, <1>8, <1>9

LEMMA IntendBlocks ==
  ASSUME IndInv, NEW a \in Process, Intend(a), NEW b \in Block
  PROVE  BlockClaims(b)'
<1> DEFINE p == ProcOf[b]
<1>1. TypeOK /\ (\A r \in Process : ProcessInv(r)) /\ ChannelInv
      /\ \A c \in Block : BlockClaims(c)
  BY ClaimsOfAll DEF IndInv
<1>2. /\ p \in Process /\ Depth \in Nat /\ Depth >= 1 /\ Level[b] \in Nat /\ target[b] \in Nat
      /\ \A n \in Nbr[b] : n \in Block /\ ProcOf[n] \in Process /\ target[n] \in Nat
  BY <1>1, LevelFacts
<1>3. /\ round'[a] = round[a] /\ pc[a] = "intend" /\ pc'[a] = "merge" /\ Late(a)
      /\ Merges(a)' = Merges(a) /\ Told(a) = Merges(a) /\ Told(a)' = Told(a) + 1
  BY <1>1, IntendCounters
<1>4. ASSUME NEW q \in Process, q # a
      PROVE  /\ round'[q] = round[q] /\ pc'[q] = pc[q] /\ Told(q)' = Told(q)
  BY <1>1, <1>4, OthersFrame, CountersFrame
<1>5. \A q \in Process : round'[q] = round[q] /\ (Late(q)' <=> Late(q)) /\ Merges(q)' = Merges(q)
  BY <1>3, <1>4 DEF Late, Merges
<1>6. UNCHANGED <<target, minTarget, asked>>  BY DEF Intend
<1>7. /\ \A c \in Block : ProcOf[c] = a =>
           (c \in willing'[a] <=> InOctet(c) /\ \A n \in Nbr[c] : target[n] <= target[c])
      /\ \A q \in Process : q # a => willing'[q] = willing[q]
  BY <1>1, IntendEffect
<1>8. \A c : (InOctet(c)' <=> InOctet(c)) /\ (Merged(c)' <=> Merged(c))
  BY <1>6 DEF InOctet, Merged
<1>9. BlockInv(b) /\ Reason(b) /\ Settled(b) /\ Balance(b)  BY <1>1 DEF BlockClaims
<1>10. Reason(b)'  BY <1>6, <1>9 DEF Reason
<1>11. BlockInv(b)'
  <2>1. CASE p = a  BY <1>3, <1>5, <1>6, <1>9, <2>1 DEF BlockInv
  <2>2. CASE p # a  BY <1>2, <1>4, <1>5, <1>6, <1>9, <2>2 DEF BlockInv
  <2> QED BY <2>1, <2>2
<1>12. Settled(b)'
  <2>1. CASE p = a  BY <1>3, <2>1 DEF Settled
  <2>2. CASE p # a  BY <1>2, <1>4, <1>6, <1>9, <2>2 DEF Settled
  <2> QED BY <2>1, <2>2
<1>13. Balance(b)'  BY <1>2, <1>5, <1>6, <1>9 DEF Balance
<1>14. Permitted(b)'
  <2> SUFFICES ASSUME pc'[p] = "merge", b \in willing'[p]
               PROVE  InOctet(b) /\ \A n \in Nbr[b] : Late(ProcOf[n]) => target[n] <= target[b]
    BY <1>2, <1>5, <1>6, <1>8 DEF Permitted
  <2>1. CASE p = a  BY <1>7, <2>1
  <2>2. CASE p # a  BY <1>1, <1>2, <1>4, <1>7, <2>2 DEF BlockClaims, Permitted
  <2> QED BY <2>1, <2>2
(* Whether a's blocks are willing anew matters to processes of its iteration only. *)
<1>15. ASSUME NEW u \in Siblings[b] \cup {b}, ProcOf[u] = a,
              NEW s \in Siblings[b] \cup {b}, Late(ProcOf[s])
       PROVE  Merges(ProcOf[s]) = Merges(a)
  <2>1. CASE ProcOf[s] = a  BY <2>1
  <2>2. CASE ProcOf[s] # a
    <3>1. u # s /\ u \in Block  BY <1>15, <2>2, SiblingsMutual
    <3>2. s \in Nbr[u]
      <4>1. CASE u = b
        BY <3>1, <4>1, <1>15, SiblingsMutual
      <4>2. CASE u # b
        <5>1. u \in Siblings[b]  BY <4>2, <1>15
        <5>2. s \in Siblings[u]
          <6>1. CASE s = b  BY <5>1, <6>1, SiblingsMutual
          <6>2. CASE s # b  BY <3>1, <5>1, <6>2, <1>15, SiblingsMutual
          <6> QED BY <6>1, <6>2
        <5> QED BY <3>1, <5>2, SiblingsMutual
      <4> QED BY <4>1, <4>2
    <3>3. ProcOf[s] \in Partners[a]  BY <1>15, <2>2, <3>1, <3>2, NeighborsPartners
    <3> QED BY <1>15, <3>3, IntendTogether
  <2> QED BY <2>1, <2>2
<1>16. ASSUME \A u \in Siblings[b] \cup {b} : ProcOf[u] # a
       PROVE  Agreed(b)' <=> Agreed(b)
  <2>1. ASSUME NEW u \in Siblings[b] \cup {b} PROVE willing'[ProcOf[u]] = willing[ProcOf[u]]
    <3>1. u \in Block /\ ProcOf[u] # a  BY <1>16, <2>1, SiblingsMutual
    <3>2. ProcOf[u] \in Process  BY <1>1, <3>1, LevelFacts
    <3> QED BY <1>7, <3>1, <3>2
  <2> QED BY <2>1 DEF Agreed
<1>17. Octets(b)'
  <2> SUFFICES ASSUME NEW s \in Siblings[b], Late(p), Late(ProcOf[s])
               PROVE  /\ Merges(p) = Merges(ProcOf[s]) => (Merged(b) <=> Merged(s))
                      /\ Merges(p) = Merges(ProcOf[s]) + 1 =>
                           (Merged(b) <=> Merged(s) \/ Agreed(b)')
    <3>1. \A s \in Siblings[b] : ProcOf[s] \in Process
      BY <1>2, SiblingsMutual
    <3> QED BY <1>2, <1>5, <1>8, <3>1 DEF Octets
  <2>1. Octets(b)  BY <1>1 DEF BlockClaims
  <2>2. CASE \A u \in Siblings[b] \cup {b} : ProcOf[u] # a
    BY <1>16, <2>1, <2>2 DEF Octets
  <2>3. CASE \E u \in Siblings[b] \cup {b} : ProcOf[u] = a
    <3>1. Merges(p) = Merges(a) /\ Merges(ProcOf[s]) = Merges(a)  BY <1>15, <2>3
    <3>2. Merges(a) \in Nat  BY <1>1, Counters
    <3> QED BY <2>1, <3>1, <3>2 DEF Octets
  <2> QED BY <2>2, <2>3
<1>18. Refused(b)'
  <2> SUFFICES ASSUME Merges(p) >= 1, InOctet(b), Level[b] > Depth - Merges(p)
               PROVE  ~Agreed(b)'
    BY <1>2, <1>5, <1>8 DEF Refused
  <2>1. ~Agreed(b)  BY <1>1 DEF BlockClaims, Refused
  <2>2. Late(p)  BY <1>1, <1>2, Counters
  <2>3. PICK s \in Siblings[b] \cup {b} : s \notin willing[ProcOf[s]]  BY <2>1 DEF Agreed
  <2>4. s \in Block /\ Level[s] = Level[b]  BY <2>3, SiblingsMutual
  <2>5. s \notin willing'[ProcOf[s]]
    <3>1. CASE ProcOf[s] # a
      <4>1. ProcOf[s] \in Process  BY <1>1, <2>4, LevelFacts
      <4> QED BY <1>7, <2>3, <3>1, <4>1
    <3>2. CASE ProcOf[s] = a
      <4>1. Merges(p) = Merges(a)  BY <1>15, <2>2, <3>2
      <4>2. Told(a) >= 1 /\ Level[s] > Depth - Told(a)  BY <1>3, <2>4, <4>1
      <4>3. Hindered(s)  BY <1>1, <2>4 DEF BlockClaims
      <4>4. InOctet(s) => \E n \in Nbr[s] : target[n] > target[s]
        BY <2>3, <3>2, <4>2, <4>3 DEF Hindered
      <4>5. \A n \in Nbr[s] : target[n] \in Nat /\ target[s] \in Nat  BY <1>1, <2>4, LevelFacts
      <4> QED BY <1>7, <2>4, <3>2, <4>4, <4>5
    <3> QED BY <3>1, <3>2
  <2> QED BY <2>5 DEF Agreed
<1>19. Hindered(b)'
  <2>1. CASE p = a
    <3>1. InOctet(b) /\ b \notin willing'[a] => \E n \in Nbr[b] : target[n] > target[b]
      BY <1>2, <1>7, <2>1
    <3> QED BY <1>6, <1>8, <2>1, <3>1 DEF Hindered
  <2>2. CASE p # a
    BY <1>1, <1>2, <1>4, <1>6, <1>7, <1>8, <2>2 DEF BlockClaims, Hindered
  <2> QED BY <2>1, <2>2
<1> QED BY <1>10, <1>11, <1>12, <1>13, <1>14, <1>17, <1>18, <1>19 DEF BlockClaims

LEMMA MergeBlocks ==
  ASSUME IndInv, TypeOK', NEW a \in Process, Merge(a), NEW b \in Block
  PROVE  BlockClaims(b)'
<1> DEFINE p == ProcOf[b]
<1>1. TypeOK /\ (\A r \in Process : ProcessInv(r)) /\ ChannelInv /\ MergeInv
      /\ \A c \in Block : BlockClaims(c)
  BY ClaimsOfAll DEF IndInv
<1>2. /\ p \in Process /\ Depth \in Nat /\ Depth >= 1 /\ b \notin Nbr[b]
      /\ \A n \in Nbr[b] \cup {b} : /\ n \in Block /\ ProcOf[n] \in Process
                                    /\ Level[n] <= Level[b] + 1 /\ Level[n] \in Nat
                                    /\ Level[n] <= Depth
                                    /\ target[n] \in Nat /\ target'[n] \in Nat
                                    /\ minTarget[n] \in Nat
  BY <1>1, LevelFacts, LevelFactsNext
<1>3. /\ round'[a] = round[a] + 1 /\ pc[a] = "merge" /\ pc'[a] \in {"send", "done"}
      /\ Depth <= round[a] /\ round[a] \in Nat /\ Merges(a) = round[a] - Depth
      /\ Sent(a) = round[a] + 1 /\ Read(a) = round[a] + 1 /\ Merges(a)' = Merges(a) + 1
      /\ Told(a) = Merges(a) + 1 /\ Told(a)' = Told(a) /\ Late(a) /\ Late(a)'
      /\ Merges(a) \in Nat
  BY <1>1, MergeCounters, Counters
<1>4. ASSUME NEW q \in Process, q # a
      PROVE  /\ round'[q] = round[q] /\ pc'[q] = pc[q] /\ (Late(q)' <=> Late(q))
             /\ Merges(q)' = Merges(q) /\ Told(q)' = Told(q)
  BY <1>1, <1>4, OthersFrame, CountersFrame
<1>5. UNCHANGED <<minTarget, asked, willing>>  BY DEF Merge
<1>6. /\ target' = [c \in Block |-> IF ProcOf[c] = a /\ Agreed(c)
                                    THEN target[c] - 1 ELSE target[c]]
      /\ \A c \in Block : ProcOf[c] = a /\ Agreed(c) =>
           InOctet(c) /\ \A n \in Nbr[c] : Late(ProcOf[n]) => target[n] <= target[c]
  BY <1>1, MergeEffect
<1>7. \A n \in Nbr[b] \cup {b} :
        /\ ProcOf[n] = a /\ Agreed(n) => /\ target[n] = Level[n] /\ target'[n] = Level[n] - 1
                                         /\ InOctet(n)
        /\ ~(ProcOf[n] = a /\ Agreed(n)) => target'[n] = target[n]
        /\ target'[n] <= target[n]
  BY <1>2, <1>6 DEF InOctet
<1>8. Agreed(b)' <=> Agreed(b)  BY <1>5 DEF Agreed
<1>9. \A q \in Process : Late(q)' <=> Late(q)  BY <1>3, <1>4
<1>10. BlockInv(b) /\ Reason(b) /\ Settled(b) /\ Balance(b) /\ Octets(b) /\ Hindered(b)
  BY <1>1 DEF BlockClaims
<1>11. Reason(b)'
  <2> SUFFICES ASSUME target'[b] > Level[b]
               PROVE  asked[b] > Level[b] \/ \E n \in Nbr[b] : target'[n] = Level[b] + 2
    BY <1>5 DEF Reason
  <2>1. target[b] > Level[b]  BY <1>2, <1>7
  <2>2. asked[b] > Level[b] \/ \E n \in Nbr[b] : target[n] = Level[b] + 2
    BY <1>10, <2>1 DEF Reason
  <2>3. ASSUME NEW n \in Nbr[b], target[n] = Level[b] + 2 PROVE target'[n] = Level[b] + 2
    <3>1. target[n] # Level[n]  BY <1>2, <2>3
    <3> QED BY <1>7, <2>3, <3>1
  <2> QED BY <2>2, <2>3
<1>12. BlockInv(b)'
  <2>1. CASE p # a
    <3>1. target'[b] = target[b]  BY <1>7, <2>1
    <3> QED BY <1>2, <1>4, <1>5, <1>10, <2>1, <3>1 DEF BlockInv
  <2>2. CASE p = a
    <3>1. round'[p] > Depth /\ pc'[p] \notin {"start", "evaluated"} /\ round'[p] # 0
      BY <1>2, <1>3, <2>2
    <3>2. minTarget[b] <= Level[b] + 1 /\ target[b] >= minTarget[b]
          /\ (target[b] < Level[b] => Cardinality(Siblings[b]) = OctetSize - 1)
      BY <1>3, <1>10, <2>2 DEF BlockInv
    <3>3. CASE Agreed(b)
      <4>1. InOctet(b) /\ target'[b] = Level[b] - 1  BY <1>7, <2>2, <3>3
      <4>2. minTarget[b] < Level[b] /\ Cardinality(Siblings[b]) = OctetSize - 1
        BY <4>1 DEF InOctet
      <4>3. target'[b] >= minTarget[b]  BY <1>2, <4>1, <4>2
      <4>4. minTarget'[b] <= Level[b] + 1 /\ target'[b] >= minTarget'[b]
        BY <1>5, <3>2, <4>3
      <4>5. round'[p] \in Nat  BY <1>3, <2>2
      <4> QED BY <1>2, <3>1, <4>2, <4>4, <4>5 DEF BlockInv
    <3>4. CASE ~Agreed(b)
      <4>1. target'[b] = target[b]  BY <1>7, <3>4
      <4>2. minTarget'[b] <= Level[b] + 1 /\ target'[b] >= minTarget'[b]
            /\ (target'[b] < Level[b] => Cardinality(Siblings[b]) = OctetSize - 1)
        BY <1>5, <3>2, <4>1
      <4>3. round'[p] \in Nat  BY <1>3, <2>2
      <4> QED BY <1>2, <3>1, <4>2, <4>3 DEF BlockInv
    <3> QED BY <3>3, <3>4
  <2> QED BY <2>1, <2>2
<1>13. Settled(b)'
  <2>1. CASE p = a
    <3>1. ~(round'[p] <= Depth)  BY <1>2, <1>3, <2>1
    <3> QED BY <3>1 DEF Settled
  <2>2. CASE p # a
    <3>1. target'[b] = target[b] /\ round'[p] = round[p] /\ pc'[p] = pc[p]
      BY <1>2, <1>4, <1>7, <2>2
    <3>2. \A n \in Nbr[b] : target[n] <= Level[b] + 1 => target'[n] <= Level[b] + 1
      BY <1>2, <1>7
    <3> QED BY <1>10, <3>1, <3>2 DEF Settled
  <2> QED BY <2>1, <2>2
<1>14. Balance(b)'
  <2> SUFFICES ASSUME NEW n \in Nbr[b], Late(p), Late(ProcOf[n])
               PROVE  target'[n] <= target'[b] + 1
    BY <1>2, <1>9 DEF Balance
  <2>1. target[n] <= target[b] + 1 /\ target'[n] <= target[n]  BY <1>7, <1>10 DEF Balance
  <2>2. CASE p = a /\ Agreed(b)
    <3>1. target[n] <= target[b] /\ target'[b] = target[b] - 1  BY <1>2, <1>6, <1>7, <2>2
    <3> QED BY <1>2, <2>1, <3>1
  <2>3. CASE ~(p = a /\ Agreed(b))  BY <1>2, <1>7, <2>1, <2>3
  <2> QED BY <2>2, <2>3
<1>15. p # a => (InOctet(b)' <=> InOctet(b))
  <2>1. p # a => target'[b] = target[b]  BY <1>7
  <2> QED BY <1>5, <2>1 DEF InOctet
<1>16. Permitted(b)'
  <2> SUFFICES ASSUME pc'[p] = "merge", b \in willing[p]
               PROVE  InOctet(b)' /\ \A n \in Nbr[b] : Late(ProcOf[n])' => target'[n] <= target'[b]
    BY <1>5 DEF Permitted
  <2>1. p # a /\ pc[p] = "merge" /\ target'[b] = target[b]  BY <1>2, <1>3, <1>4, <1>7
  <2>2. InOctet(b) /\ \A n \in Nbr[b] : Late(ProcOf[n]) => target[n] <= target[b]
    BY <1>1, <2>1 DEF BlockClaims, Permitted
  <2>3. ASSUME NEW n \in Nbr[b], Late(ProcOf[n])' PROVE target'[n] <= target'[b]
    <3>1. target[n] <= target[b]  BY <1>2, <1>9, <2>2, <2>3
    <3> QED BY <1>2, <1>7, <2>1, <3>1
  <2> QED BY <1>15, <2>1, <2>2, <2>3
<1>17. \A c \in {b} \cup Siblings[b] :
         Merged(c)' <=> Merged(c) \/ (ProcOf[c] = a /\ Agreed(c))
  <2>1. \A c \in Siblings[b] : c \in Nbr[b]  BY SiblingsMutual
  <2>2. \A c \in Nbr[b] \cup {b} : Merged(c)' <=> Merged(c) \/ (ProcOf[c] = a /\ Agreed(c))
    BY <1>2, <1>7 DEF Merged
  <2> QED BY <2>1, <2>2
<1>18. Octets(b)'
  <2> SUFFICES ASSUME NEW s \in Siblings[b], Late(p), Late(ProcOf[s])
               PROVE  /\ Merges(p)' = Merges(ProcOf[s])' => (Merged(b)' <=> Merged(s)')
                      /\ Merges(p)' = Merges(ProcOf[s])' + 1 =>
                           (Merged(b)' <=> Merged(s)' \/ Agreed(b))
    <3>1. \A s \in Siblings[b] : ProcOf[s] \in Process  BY <1>2, SiblingsMutual
    <3> QED BY <1>2, <1>8, <1>9, <3>1 DEF Octets
  <2>1. s \in Nbr[b] /\ s \in Block /\ ProcOf[s] \in Process /\ b \in Siblings[s]
        /\ Siblings[s] \cup {s} = Siblings[b] \cup {b}
    BY <1>2, SiblingsMutual
  <2>2. Agreed(s) <=> Agreed(b)  BY <2>1 DEF Agreed
  <2>3. /\ Merges(p) = Merges(ProcOf[s]) => (Merged(b) <=> Merged(s))
        /\ Merges(p) = Merges(ProcOf[s]) + 1 => (Merged(b) <=> Merged(s) \/ Agreed(b))
        /\ Merges(ProcOf[s]) = Merges(p) + 1 => (Merged(s) <=> Merged(b) \/ Agreed(b))
    <3>1. Octets(s)  BY <1>1, <2>1 DEF BlockClaims
    <3> QED BY <1>10, <2>1, <2>2, <3>1 DEF Octets
  <2>4. ASSUME NEW q \in Partners[a], Late(q) PROVE Merges(q) <= Merges(a) + 1
    <3>1. q \in Process /\ a \in Partners[q]  BY PartnersMutual
    <3>2. ~Ahead(a, q) /\ ~Ahead(q, a)  BY <1>1, <1>3, <2>4, LateTogether
    <3> QED BY <1>1, <1>3, <3>1, <3>2, Together
  <2>5. Merges(p) \in Nat /\ Merges(ProcOf[s]) \in Nat  BY <1>1, <1>2, <2>1, Counters
  <2>6. CASE p = a /\ ProcOf[s] = a
    <3>1. Merged(b)' <=> Merged(s)'  BY <1>17, <2>2, <2>3, <2>6
    <3> QED BY <1>3, <2>6, <3>1
  <2>7. CASE p = a /\ ProcOf[s] # a
    <3>1. Merged(s)' <=> Merged(s)  BY <1>17, <2>7
    <3>2. Merged(b)' <=> Merged(b) \/ Agreed(b)  BY <1>17, <2>7
    <3>3. Merges(p)' = Merges(p) + 1 /\ Merges(ProcOf[s])' = Merges(ProcOf[s])
      BY <1>3, <1>4, <2>1, <2>7
    <3>4. Merges(p)' = Merges(ProcOf[s])' => (Merged(b)' <=> Merged(s)')
      BY <2>3, <2>5, <3>1, <3>2, <3>3
    <3>5. Merges(p)' = Merges(ProcOf[s])' + 1 => (Merged(b)' <=> Merged(s)' \/ Agreed(b))
      BY <2>3, <2>5, <3>1, <3>2, <3>3
    <3> QED BY <3>4, <3>5
  <2>8. CASE p # a /\ ProcOf[s] = a
    <3>1. Merged(b)' <=> Merged(b)  BY <1>17, <2>8
    <3>2. Merged(s)' <=> Merged(s) \/ Agreed(b)  BY <1>17, <2>2, <2>8
    <3>3. Merges(ProcOf[s])' = Merges(ProcOf[s]) + 1 /\ Merges(p)' = Merges(p)
      BY <1>2, <1>3, <1>4, <2>8
    <3>4. Merges(p) <= Merges(ProcOf[s]) + 1
      <4>1. p \in Partners[a]  BY <2>1, <2>8, NeighborsPartners
      <4> QED BY <2>4, <2>8, <4>1
    <3>5. Merges(p)' = Merges(ProcOf[s])' => (Merged(b)' <=> Merged(s)')
      BY <2>3, <2>5, <3>1, <3>2, <3>3
    <3>6. Merges(p)' # Merges(ProcOf[s])' + 1  BY <2>5, <3>3, <3>4
    <3> QED BY <3>5, <3>6
  <2>9. CASE p # a /\ ProcOf[s] # a
    <3>1. (Merged(b)' <=> Merged(b)) /\ (Merged(s)' <=> Merged(s))  BY <1>17, <2>9
    <3>2. Merges(p)' = Merges(p) /\ Merges(ProcOf[s])' = Merges(ProcOf[s])
      BY <1>2, <1>4, <2>1, <2>9
    <3> QED BY <2>3, <3>1, <3>2
  <2> QED BY <2>6, <2>7, <2>8, <2>9
<1>19. Refused(b)'
  <2>1. CASE p # a  BY <1>1, <1>2, <1>4, <1>8, <1>15, <2>1 DEF BlockClaims, Refused
  <2>2. CASE p = a
    <3>1. InOctet(b)' => ~Agreed(b)  BY <1>2, <1>7, <2>2 DEF InOctet
    <3> QED BY <1>8, <3>1 DEF Refused
  <2> QED BY <2>1, <2>2
(* Who keeps b from merging is one level finer, and cannot merge any more. *)
<1>20. Hindered(b)'
  <2> SUFFICES ASSUME Told(p)' >= 1, InOctet(b)', b \notin willing[p], Level[b] > Depth - Told(p)'
               PROVE  \E n \in Nbr[b] : target'[n] > target'[b]
    BY <1>5 DEF Hindered
  <2>1. Told(p)' = Told(p) /\ Told(p) \in Nat
    BY <1>1, <1>2, <1>3, <1>4, Counters
  <2>2. target'[b] = Level[b]  BY DEF InOctet
  <2>3. ~(p = a /\ Agreed(b)) /\ target'[b] = target[b]  BY <1>2, <1>7, <2>2
  <2>4. InOctet(b)  BY <1>5, <2>3 DEF InOctet
  <2>5. PICK n \in Nbr[b] : target[n] > target[b]
    BY <1>10, <2>1, <2>4 DEF Hindered
  <2>6. ASSUME ProcOf[n] = a, Agreed(n) PROVE FALSE
    <3>1. target[n] = Level[n] /\ InOctet(n)  BY <1>7, <2>6
    <3>2. Level[n] = Level[b] + 1  BY <1>2, <2>2, <2>3, <2>5, <3>1
    <3>3. Told(p) <= Merges(a) + 1
      <4>1. CASE p = a  BY <1>3, <4>1
      <4>2. CASE p # a
        <5>1. p \in Partners[a] /\ a \in Partners[p]  BY <2>6, <4>2, NeighborsPartners
        <5>2. Late(p) /\ Read(p) = Depth + Told(p)
          <6>1. Late(p)  BY <1>1, <1>2, <2>1, Counters
          <6> QED BY <1>1, <1>2, <6>1, Counters
        <5>3. ~Ahead(a, p) /\ ~Ahead(p, a)  BY <1>1, <1>3, <5>1, <5>2, LateTogether
        <5>4. Read(p) <= Sent(a)  BY <1>1, <1>3, <5>1, <5>3, Together
        <5> QED BY <1>2, <1>3, <2>1, <5>2, <5>4
      <4> QED BY <4>1, <4>2
    <3>4. Level[n] > Depth - Merges(a) /\ Merges(a) >= 1
      BY <1>2, <1>3, <2>1, <3>2, <3>3
    <3> QED BY <1>1, <1>2, <2>6, <3>1, <3>4 DEF BlockClaims, Refused
  <2>7. target'[n] = target[n]  BY <1>7, <2>6
  <2> QED BY <2>3, <2>5, <2>7
<1> QED BY <1>11, <1>12, <1>13, <1>14, <1>16, <1>18, <1>19, <1>20 DEF BlockClaims

-----------------------------------------------------------------------------
(* The theorems *)

LEMMA IndStep ==
  ASSUME IndInv, [Next]_vars
  PROVE  IndInv'
<1>1. CASE Next
  <2>1. TypeOK'  BY <1>1, TypeStep
  <2>2. \A q \in Process : ProcessInv(q)'  BY <1>1, ControlStep DEF IndInv
  <2>3. ChannelInv'
    <3>1. \A p \in Process : \A q \in Partners[p] :
            Counts(q, p)' /\ LevelsTrue(q, p)' /\ IntentsTrue(q, p)'
      BY <1>1, ChannelStep
    <3> QED BY <3>1 DEF ChannelInv
  <2>4. SilenceInv'  BY <1>1, SilenceStep DEF SilenceInv
  <2>5. ASSUME NEW b \in Block PROVE BlockClaims(b)'
    <3>1. ASSUME NEW a \in Process, Evaluate(a) PROVE BlockClaims(b)'
      BY <2>1, <3>1, EvaluateBlocks
    <3>2. ASSUME NEW a \in Process, Split(a) PROVE BlockClaims(b)'
      BY <2>1, <3>2, SplitBlocks
    <3>3. ASSUME NEW a \in Process, Intend(a) PROVE BlockClaims(b)'
      BY <3>3, IntendBlocks
    <3>4. ASSUME NEW a \in Process, Merge(a) PROVE BlockClaims(b)'
      BY <2>1, <3>4, MergeBlocks
    <3>5. ASSUME \/ Agree \/ Reduce \/ Stay
                 \/ \E a \in Process : SendLevels(a) \/ Again(a)
          PROVE  BlockClaims(b)'
      BY <2>1, <3>5, QuietSteps
    <3> QED BY <1>1, <3>1, <3>2, <3>3, <3>4, <3>5 DEF Next
  <2> QED
    BY <2>1, <2>2, <2>3, <2>4, <2>5 DEF IndInv, SplitInv, MergeInv, TightInv, BlockClaims
<1>2. CASE UNCHANGED vars
  <2> USE <1>2 DEF vars
  <2>1. TypeOK'  BY DEF IndInv, TypeOK
  <2>2. \A q \in Process : ProcessInv(q)'  BY DEF IndInv, ProcessInv
  <2>3. ChannelInv'
    <3>1. ASSUME NEW p \in Process, NEW q \in Partners[p]
          PROVE  Counts(q, p)' /\ LevelsTrue(q, p)' /\ IntentsTrue(q, p)'
      <4>1. Counts(q, p) /\ LevelsTrue(q, p) /\ IntentsTrue(q, p)
        BY DEF IndInv, ChannelInv
      <4>2. Counts(q, p)' /\ FirstOf(q, p)' = FirstOf(q, p)  BY <4>1, CountsFrame
      <4> QED BY <4>1, <4>2, LevelsTrueFrame, IntentsTrueFrame
    <3> QED BY <3>1 DEF ChannelInv
  <2>4. SilenceInv'  BY DEF IndInv, SilenceInv, NoMail
  <2>5. ASSUME NEW b \in Block PROVE BlockClaims(b)'
    <3>1. TypeOK /\ (\A q \in Process : ProcessInv(q)) /\ BlockClaims(b)
      BY ClaimsOfAll DEF IndInv
    <3>2. Settled(b)' /\ Balance(b)' /\ Permitted(b)' /\ Octets(b)' /\ Refused(b)' /\ Hindered(b)'
      BY <2>1, <3>1, QuietBlocks DEF BlockClaims
    <3>3. BlockInv(b)' /\ Reason(b)'  BY <3>1 DEF BlockClaims, BlockInv, Reason, Late
    <3> QED BY <3>2, <3>3 DEF BlockClaims
  <2> QED
    BY <2>1, <2>2, <2>3, <2>4, <2>5 DEF IndInv, SplitInv, MergeInv, TightInv, BlockClaims
<1> QED BY <1>1, <1>2

(* The inductive invariant holds of every run. *)
THEOREM Invariance == Spec => []IndInv
<1>1. Init => IndInv  BY InitIndInv
<1>2. IndInv /\ [Next]_vars => IndInv'  BY IndStep
<1> QED BY <1>1, <1>2, PTL DEF Spec

(* A target level differs by at most one from the level of its block; nothing is
   sent but the levels of the border and the blocks willing to merge. *)
THEOREM TypeInvariant == Spec => []TypeOK
<1>1. IndInv => TypeOK  BY DEF IndInv
<1> QED BY <1>1, Invariance, PTL

(* In the end all processes have made all iterations, or none has had to. *)
LEMMA DecidedTogether ==
  ASSUME IndInv, Decided, NEW b \in Block
  PROVE  /\ round[ProcOf[b]] = 0 => target[b] = Level[b] /\ minTarget[b] = Level[b]
         /\ round[ProcOf[b]] # 0 => /\ Late(ProcOf[b]) /\ Merges(ProcOf[b]) = Depth
                                    /\ Told(ProcOf[b]) = Depth
         /\ \A n \in Nbr[b] : round[ProcOf[n]] = 0 <=> round[ProcOf[b]] = 0
<1>1. TypeOK /\ (\A r \in Process : ProcessInv(r)) /\ ChannelInv /\ BlockClaims(b)
  BY ClaimsOfAll DEF IndInv
<1>2. ProcOf[b] \in Process /\ Depth \in Nat /\ Depth >= 1
      /\ \A n \in Nbr[b] : n \in Block /\ ProcOf[n] \in Process
  BY <1>1, LevelFacts
<1>3. \A q \in Process : pc[q] = "done" /\ (round[q] = 2 * Depth \/ round[q] = 0)
  BY <1>1 DEF Decided, ProcessInv
<1>4. ASSUME NEW q \in Process
      PROVE  /\ round[q] # 0 => Late(q) /\ Merges(q) = Depth /\ Told(q) = Depth
             /\ Read(q) = round[q] /\ Sent(q) = round[q]
  BY <1>2, <1>3 DEF Late, Merges, Told, Read, Sent
<1>5. round[ProcOf[b]] = 0 => target[b] = Level[b] /\ minTarget[b] = Level[b]
  BY <1>1, <1>2, <1>3 DEF BlockClaims, BlockInv
<1>6. ASSUME NEW n \in Nbr[b]
      PROVE  round[ProcOf[n]] = 0 <=> round[ProcOf[b]] = 0
  <2>1. CASE ProcOf[n] = ProcOf[b]  BY <2>1
  <2>2. CASE ProcOf[n] # ProcOf[b]
    <3> DEFINE p == ProcOf[b]
               q == ProcOf[n]
    <3>1. q \in Partners[p] /\ p \in Process /\ q \in Process  BY <1>2, <2>2, NeighborsPartners
    <3>2. ~Ahead(p, q) /\ ~Ahead(q, p)  BY <1>3, <3>1 DEF Ahead
    <3>3. Read(p) <= Sent(q) /\ Read(q) <= Sent(p)  BY <1>1, <3>1, <3>2, Together
    <3> QED BY <1>2, <1>3, <1>4, <3>1, <3>3
  <2> QED BY <2>1, <2>2
<1> QED BY <1>2, <1>4, <1>5, <1>6

(* Whatever the callbacks ask for and however the blocks are distributed, the
   levels decided on keep 2:1 balance, and a block is merged with its whole
   octet only. *)
THEOREM Valid == Spec => []ForestValid
<1>1. ASSUME IndInv, Decided, NEW b \in Block, NEW n \in Nbr[b]
      PROVE  target[n] <= target[b] + 1
  <2>1. TypeOK /\ BlockClaims(b)  BY <1>1, ClaimsOfAll DEF IndInv
  <2>2. n \in Block /\ Level[n] <= Level[b] + 1  BY <2>1, LevelFacts
  <2>3. CASE round[ProcOf[b]] = 0
    <3>1. round[ProcOf[n]] = 0  BY <1>1, <2>3, DecidedTogether
    <3>2. target[b] = Level[b] /\ target[n] = Level[n]
      BY <1>1, <2>2, <2>3, <3>1, DecidedTogether
    <3> QED BY <2>2, <3>2
  <2>4. CASE round[ProcOf[b]] # 0
    <3>1. round[ProcOf[n]] # 0  BY <1>1, <2>4, DecidedTogether
    <3>2. Late(ProcOf[b]) /\ Late(ProcOf[n])  BY <1>1, <2>2, <2>4, <3>1, DecidedTogether
    <3> QED BY <2>1, <3>2 DEF BlockClaims, Balance
  <2> QED BY <2>3, <2>4
<1>2. ASSUME IndInv PROVE Balanced
  <2> SUFFICES ASSUME Decided, NEW b \in Block, NEW n \in Nbr[b]
               PROVE  target[n] \in (target[b] - 1)..(target[b] + 1)
    BY DEF Balanced
  <2>1. n \in Block /\ b \in Nbr[n] /\ target[n] \in Nat /\ target[b] \in Nat
    BY <1>2, LevelFacts DEF IndInv
  <2>2. target[n] <= target[b] + 1 /\ target[b] <= target[n] + 1  BY <1>1, <1>2, <2>1
  <2> QED BY <2>1, <2>2
<1>3. ASSUME IndInv PROVE OctetsTogether
  <2> SUFFICES ASSUME Decided, NEW b \in Block, target[b] < Level[b]
               PROVE  /\ Cardinality(Siblings[b]) = OctetSize - 1
                      /\ \A s \in Siblings[b] : target[s] = target[b]
    BY DEF OctetsTogether
  <2>1. TypeOK /\ BlockClaims(b)  BY <1>3, ClaimsOfAll DEF IndInv
  <2>2. Level[b] \in Nat /\ target[b] \in Nat /\ Level[b] - 1 <= target[b]  BY <2>1, LevelFacts
  <2>3. round[ProcOf[b]] # 0  BY <1>3, <2>2, DecidedTogether
  <2>4. Late(ProcOf[b]) /\ Merges(ProcOf[b]) = Depth  BY <1>3, <2>3, DecidedTogether
  <2>5. Cardinality(Siblings[b]) = OctetSize - 1  BY <2>1, <2>4 DEF BlockClaims, BlockInv
  <2>6. ASSUME NEW s \in Siblings[b] PROVE target[s] = target[b]
    <3>1. s \in Block /\ s \in Nbr[b] /\ Level[s] = Level[b]  BY SiblingsMutual
    <3>2. target[s] \in Nat /\ Level[s] - 1 <= target[s]  BY <2>1, <3>1, LevelFacts
    <3>3. Late(ProcOf[s]) /\ Merges(ProcOf[s]) = Depth
      BY <1>3, <2>3, <3>1, DecidedTogether
    <3>4. Merged(b) <=> Merged(s)  BY <2>1, <2>4, <3>3 DEF BlockClaims, Octets
    <3> QED BY <2>2, <3>1, <3>2, <3>4 DEF Merged
  <2> QED BY <2>5, <2>6
<1>4. IndInv => ForestValid  BY <1>2, <1>3 DEF ForestValid
<1> QED BY <1>4, Invariance, PTL

(* Every split was asked for or is needed for balance, and every octet left has
   a member that may not merge: no exchange of old levels makes a process split
   too much or merge too little. *)
THEOREM Tight == Spec => []DecisionTight
<1>1. ASSUME IndInv PROVE SplitsNeeded
  BY <1>1, ClaimsOfAll DEF SplitsNeeded, BlockClaims, Reason
<1>2. ASSUME IndInv PROVE MergesDone
  <2> SUFFICES ASSUME Decided, NEW b \in Block, InOctet(b)
               PROVE  \E s \in Siblings[b] \cup {b} :
                        ~InOctet(s) \/ \E n \in Nbr[s] : target[n] > target[s]
    BY DEF MergesDone
  <2>1. TypeOK /\ \A c \in Block : BlockClaims(c)  BY <1>2, ClaimsOfAll DEF IndInv
  <2>2. ASSUME NEW c \in Block, InOctet(c)
        PROVE  Merges(ProcOf[c]) = Depth /\ Told(ProcOf[c]) = Depth /\ Level[c] > 0
    <3>1. Level[c] > 0 /\ minTarget[c] < Level[c] /\ Level[c] \in Nat /\ minTarget[c] \in Nat
      BY <2>1, <2>2, LevelFacts DEF InOctet
    <3>2. round[ProcOf[c]] # 0  BY <1>2, <3>1, DecidedTogether
    <3> QED BY <1>2, <3>1, <3>2, DecidedTogether
  <2>3. Depth \in Nat /\ Depth >= 1  BY <2>1, LevelFacts
  <2>4. ~Agreed(b)
    <3>1. Merges(ProcOf[b]) >= 1 /\ Level[b] > Depth - Merges(ProcOf[b])  BY <2>2, <2>3
    <3> QED BY <2>1, <3>1 DEF BlockClaims, Refused
  <2>5. PICK s \in Siblings[b] \cup {b} : s \notin willing[ProcOf[s]]  BY <2>4 DEF Agreed
  <2>6. s \in Block  BY <2>5, SiblingsMutual
  <2>7. ASSUME InOctet(s) PROVE \E n \in Nbr[s] : target[n] > target[s]
    <3>1. Told(ProcOf[s]) >= 1 /\ Level[s] > Depth - Told(ProcOf[s])  BY <2>2, <2>3, <2>6, <2>7
    <3> QED BY <2>1, <2>5, <2>6, <2>7, <3>1 DEF BlockClaims, Hindered
  <2> QED BY <2>5, <2>7
<1>3. IndInv => DecisionTight  BY <1>1, <1>2 DEF DecisionTight
<1> QED BY <1>3, Invariance, PTL

(* A pass asks for what it keeps. *)
LEMMA EvaluateKeeps ==
  ASSUME IndInv, TypeOK', NEW p \in Process, Evaluate(p), NEW b \in Block, ProcOf[b] = p, Kept(b)
  PROVE  Kept(b)'
<1>1. TypeOK /\ pc[p] = "start" /\ pc'[p] # "start" /\ opt' = opt
  BY DEF IndInv, TypeOK, Evaluate
<1>2. PICK req \in [BlocksOf(p) -> UNION {Request[c] \cup {target[c]} : c \in BlocksOf(p)}] :
        /\ \A c \in BlocksOf(p) : req[c] \in Askable(c)
        /\ minTarget' = [c \in Block |-> IF ProcOf[c] = p THEN Lesser(req[c], Level[c] + 1)
                                                          ELSE minTarget[c]]
        /\ asked' = [c \in Block |-> IF ProcOf[c] = p /\ ~Marked(c) THEN req[c] ELSE asked[c]]
        /\ more' = [more EXCEPT ![p] = WantsMore(req, p)]
  BY DEF Evaluate
<1>3. b \in BlocksOf(p)  BY DEF BlocksOf
<1>4. /\ Level[b] \in Nat /\ target[b] \in Nat /\ target[b] <= Level[b] + 1
      /\ asked[b] \in Nat /\ asked[b] <= Level[b] + 1
  BY <1>1, LevelFacts DEF Kept
<1>5. minTarget'[b] = Lesser(req[b], Level[b] + 1)
      /\ asked'[b] = IF ~Marked(b) THEN req[b] ELSE asked[b]
  BY <1>2
<1>6. more'[p] = WantsMore(req, p)  BY <1>1, <1>2 DEF TypeOK
<1>7. req[b] \in Askable(b)  BY <1>2, <1>3
<1>8. asked'[b] <= minTarget'[b] \/ (opt.multiple /\ more'[p])
  <2>1. CASE Marked(b)
    <3>1. req[b] = Level[b] + 1  BY <1>4, <1>7, <2>1 DEF Askable, Marked
    <3> QED BY <1>4, <1>5, <2>1, <3>1 DEF Lesser
  <2>2. CASE ~Marked(b)
    <3>1. req[b] \in Nat /\ (opt.multiple \/ req[b] <= Level[b] + 1)
      BY <1>7, <2>2, RequestAssumption DEF Askable
    <3>2. CASE req[b] <= Level[b] + 1  BY <1>4, <1>5, <2>2, <3>1, <3>2 DEF Lesser
    <3>3. CASE req[b] > Level[b] + 1
      <4>1. WantsMore(req, p)  BY <1>3, <3>3 DEF WantsMore
      <4> QED BY <1>4, <1>6, <3>1, <3>3, <4>1
    <3> QED BY <1>4, <3>1, <3>2, <3>3
  <2> QED BY <2>1, <2>2
<1> QED BY <1>1, <1>8 DEF Kept

LEMMA OnePassStep ==
  ASSUME \A o \in Options : ~(o.multiple /\ o.reevaluate),
         TypeOK, OnePass, Next
  PROVE  OnePass'
<1>1. opt' = opt /\ ~(opt.multiple /\ opt.reevaluate)
  BY DEF TypeOK, Next, Evaluate, Agree, SendLevels, Split, Reduce, Intend, Merge, Again, Stay, vars
<1> SUFFICES ASSUME opt.multiple
             PROVE  /\ \A p \in Process : ~rerun'[p] /\ pc'[p] # "reduce"
                    /\ \A p, q \in Process : pc'[p] \notin {"start", "evaluated"} =>
                         pc'[q] \notin {"start", "evaluated"} /\ more'[p] = more'[q]
  BY <1>1 DEF OnePass
<1>2. /\ \A p \in Process : ~rerun[p] /\ pc[p] # "reduce"
      /\ \A p, q \in Process : pc[p] \notin {"start", "evaluated"} =>
           pc[q] \notin {"start", "evaluated"} /\ more[p] = more[q]
  BY DEF OnePass
<1>3. ~opt.reevaluate  BY <1>1
<1> USE DEF TypeOK
<1>4. ASSUME NEW a \in Process, Evaluate(a)
      PROVE  /\ \A p \in Process : ~rerun'[p] /\ pc'[p] # "reduce"
             /\ \A p, q \in Process : pc'[p] \notin {"start", "evaluated"} =>
                  pc'[q] \notin {"start", "evaluated"} /\ more'[p] = more'[q]
  <2>1. pc[a] = "start" /\ pc'[a] = "evaluated" /\ ~rerun'[a]
    BY <1>4 DEF Evaluate
  <2>2. \A p \in Process : p # a => pc'[p] = pc[p] /\ rerun'[p] = rerun[p]
    BY <1>4 DEF Evaluate
  <2>3. \A p \in Process : pc[p] \in {"start", "evaluated"}  BY <1>2, <2>1
  <2>4. \A p \in Process : pc'[p] \in {"start", "evaluated"}  BY <2>1, <2>2, <2>3
  <2> QED BY <1>2, <2>1, <2>2, <2>4
<1>5. CASE Agree
  <2>1. \A p \in Process : pc'[p] \in {"done", "send"}  BY <1>5 DEF Agree
  <2>2. \A p, q \in Process : more'[p] = more'[q]  BY <1>5 DEF Agree
  <2>3. rerun' = rerun  BY <1>5 DEF Agree
  <2> QED BY <1>2, <2>1, <2>2, <2>3
<1>6. CASE Reduce
  <2>1. Process = {}  BY <1>2, <1>6 DEF Reduce
  <2> QED BY <2>1
<1>7. ASSUME NEW a \in Process, SendLevels(a) \/ Split(a) \/ Intend(a) \/ Merge(a)
      PROVE  /\ \A p \in Process : ~rerun'[p] /\ pc'[p] # "reduce"
             /\ \A p, q \in Process : pc'[p] \notin {"start", "evaluated"} =>
                  pc'[q] \notin {"start", "evaluated"} /\ more'[p] = more'[q]
  <2>1. pc[a] \in {"send", "split", "intend", "merge"}
        /\ pc'[a] \in {"send", "split", "intend", "merge", "done"}
    BY <1>3, <1>7 DEF SendLevels, Split, Intend, Merge
  <2>2. \A p \in Process : p # a => pc'[p] = pc[p]
    BY <1>7 DEF SendLevels, Split, Intend, Merge
  <2>3. rerun' = rerun /\ more' = more  BY <1>7 DEF SendLevels, Split, Intend, Merge
  <2>4. \A p \in Process : pc[p] \notin {"start", "evaluated"}  BY <1>2, <2>1
  <2>5. \A p \in Process : pc'[p] \notin {"start", "evaluated", "reduce"}
    BY <1>2, <2>1, <2>2, <2>4
  <2> QED BY <1>2, <2>3, <2>4, <2>5
<1>8. ASSUME NEW a \in Process, Again(a) PROVE FALSE
  BY <1>2, <1>8 DEF Again
<1>9. CASE Stay  BY <1>2, <1>9 DEF Stay, vars
<1> QED BY <1>4, <1>5, <1>6, <1>7, <1>8, <1>9 DEF Next

LEMMA KeptStep ==
  ASSUME IndInv, TypeOK', OnePass, Next, NEW b \in Block, Kept(b)
  PROVE  Kept(b)'
<1> DEFINE p == ProcOf[b]
<1>1. TypeOK /\ p \in Process /\ BlockInv(b)
      /\ asked[b] \in Nat /\ minTarget[b] \in Nat /\ Level[b] \in Nat
  BY ClaimsOfAll, LevelFacts DEF IndInv, BlockClaims
<1>2. ASSUME NEW a \in Process, Evaluate(a) PROVE Kept(b)'
  <2>1. CASE p = a  BY <1>2, <2>1, EvaluateKeeps
  <2>2. CASE p # a
    <3>1. asked'[b] = asked[b] /\ minTarget'[b] = minTarget[b]  BY <1>1, <1>2, <2>2, EvaluateEffect
    <3>2. pc'[p] = pc[p] /\ more'[p] = more[p] /\ opt' = opt
      BY <1>1, <1>2, <2>2 DEF TypeOK, Evaluate
    <3> QED BY <3>1, <3>2 DEF Kept
  <2> QED BY <2>1, <2>2
<1>3. CASE Agree
  <2>1. pc[p] # "start" /\ pc'[p] # "start" /\ opt' = opt /\ asked' = asked /\ minTarget' = minTarget
    BY <1>1, <1>3 DEF Agree
  <2>2. opt.multiple /\ more[p] => more'[p]  BY <1>1, <1>3 DEF Agree
  <2> QED BY <2>1, <2>2 DEF Kept
<1>4. ASSUME \/ Reduce \/ Stay
             \/ \E a \in Process : SendLevels(a) \/ Split(a) \/ Intend(a) \/ Merge(a)
      PROVE  Kept(b)'
  <2>1. pc'[p] = "start" <=> pc[p] = "start"
    BY <1>1, <1>4 DEF TypeOK, Reduce, Stay, vars, SendLevels, Split, Intend, Merge
  <2>2. UNCHANGED <<asked, minTarget, more, opt>>
    BY <1>4 DEF Reduce, Stay, vars, SendLevels, Split, Intend, Merge
  <2> QED BY <2>1, <2>2 DEF Kept
<1>5. ASSUME NEW a \in Process, Again(a) PROVE Kept(b)'
  <2>1. UNCHANGED <<asked, minTarget, more, opt>> /\ pc[a] = "done" /\ rerun[a] /\ pc'[a] = "start"
    BY <1>1, <1>5 DEF TypeOK, Again
  <2>2. CASE p = a
    <3>1. ~opt.multiple  BY <1>5, <2>1 DEF OnePass
    <3>2. asked[b] <= minTarget[b] /\ minTarget[b] <= Level[b] + 1
      BY <1>1, <2>1, <2>2, <3>1 DEF Kept, BlockInv
    <3> QED BY <1>1, <2>1, <2>2, <3>2 DEF Kept
  <2>3. CASE p # a
    <3>1. pc'[p] = pc[p]  BY <1>1, <1>5, <2>3 DEF TypeOK, Again
    <3> QED BY <2>1, <3>1 DEF Kept
  <2> QED BY <2>2, <2>3
<1> QED BY <1>2, <1>3, <1>4, <1>5 DEF Next

(* As long as several cycles and re-evaluation are not switched on together, a
   block has the level its callback asked for, or all processes know that
   another cycle is due. *)
THEOREM Guaranteed ==
  ASSUME \A o \in Options : ~(o.multiple /\ o.reevaluate)
  PROVE  Spec => []LevelGuaranteed
<1>1. Init => GuaranteeInv
  <2> SUFFICES ASSUME Init PROVE GuaranteeInv  OBVIOUS
  <2>1. \A b \in Block : Level[b] \in Nat /\ ProcOf[b] \in Process
    BY ForestAssumption, PartitionAssumption
  <2> QED BY <2>1 DEF Init, GuaranteeInv, OnePass, Kept
<1>2. IndInv /\ IndInv' /\ GuaranteeInv /\ [Next]_vars => GuaranteeInv'
  <2> SUFFICES ASSUME IndInv, IndInv', GuaranteeInv, [Next]_vars PROVE GuaranteeInv'  OBVIOUS
  <2>1. TypeOK /\ TypeOK'  BY DEF IndInv
  <2>2. CASE Next
    <3>1. OnePass'  BY <2>1, <2>2, OnePassStep DEF GuaranteeInv
    <3>2. \A b \in Block : Kept(b)'  BY <2>1, <2>2, KeptStep DEF GuaranteeInv
    <3> QED BY <3>1, <3>2 DEF GuaranteeInv
  <2>3. CASE UNCHANGED vars  BY <2>3 DEF GuaranteeInv, OnePass, Kept, vars
  <2> QED BY <2>2, <2>3
<1>3. IndInv /\ GuaranteeInv => LevelGuaranteed
  <2> SUFFICES ASSUME IndInv, GuaranteeInv, Decided, NEW b \in Block
               PROVE  asked[b] <= target[b] \/ \A q \in Process : more[q]
    BY DEF LevelGuaranteed
  <2>1. /\ TypeOK /\ BlockInv(b) /\ ProcOf[b] \in Process /\ pc[ProcOf[b]] = "done"
        /\ asked[b] \in Nat /\ minTarget[b] \in Nat /\ target[b] \in Nat
    BY ClaimsOfAll, LevelFacts DEF IndInv, BlockClaims, Decided
  <2>2. CASE asked[b] <= minTarget[b]  BY <2>1, <2>2 DEF BlockInv
  <2>3. CASE opt.multiple /\ more[ProcOf[b]]
    BY <2>1, <2>3 DEF GuaranteeInv, OnePass
  <2> QED BY <2>1, <2>2, <2>3 DEF GuaranteeInv, Kept
<1> QED BY <1>1, <1>2, <1>3, Invariance, PTL DEF Spec
=============================================================================
