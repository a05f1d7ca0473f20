------------------------- MODULE ParticleSyncProofs -------------------------
(* Theorems about ParticleSync: what the walk and the parsing store and send is
   well-formed, and so is every reachable state; and no interleaving of the
   processes duplicates or loses the ownership of a particle: the protocol refines
   the hand-over of ParticleOwnership. *)
EXTENDS ParticleSync, TLAPS

-----------------------------------------------------------------------------
(* What the walk over the masters stores and sends *)

LEMMA NowhereType == Nowhere \in Pos
  BY GeometryAssumption DEF Nowhere

LEMMA AbsentOK == \A r \in Rank : SlotOK(r, Absent)
  BY NowhereType DEF Absent, SlotOK, Slot

LEMMA BareOK ==
  ASSUME NEW r \in Rank, NEW t \in {"none", "removal"}
  PROVE  NoteOK(r, Bare(t))
  BY NowhereType DEF Bare, NoteOK, Note, NoteType

(* Who owns and who surrounds the particle, whatever the walk decides *)
LEMMA WalkType ==
  ASSUME TypeOK, NEW r \in Rank, NEW u \in Particle
  PROVE  /\ MappedPos(r, u) \in Pos
         /\ Near(r, u) \subseteq Rank \ {r}
         /\ GhostOwners(r, u) \subseteq Rank
         /\ IsHandled(r, u) => r \notin GhostOwners(r, u)
         /\ NewOwner(r, u) \in Rank \cup {NoRank}
  <1>1. ps[r][u] \in Slot /\ SlotOK(r, ps[r][u])
    BY DEF TypeOK, SlotOK
  <1>2. MappedPos(r, u) \in Pos
    BY <1>1, GeometryAssumption DEF MappedPos, Slot
  <1>3. Near(r, u) \subseteq Rank \ {r}
    BY <1>2, GeometryAssumption, NeighborAssumption DEF Near
  <1>4. GhostOwners(r, u) \subseteq Rank
    BY <1>1, <1>3 DEF GhostOwners, Slot
  <1>5. IsHandled(r, u) => r \notin GhostOwners(r, u)
    BY <1>1, <1>3 DEF GhostOwners, IsHandled, SlotOK
  <1>6. NewOwner(r, u) \in Rank \cup {NoRank}
    BY <1>2, GeometryAssumption DEF NewOwner, FindContaining
  <1> QED
    BY <1>2, <1>3, <1>4, <1>5, <1>6

LEMMA SlotAfterSyncOK ==
  ASSUME TypeOK, NEW r \in Rank, NEW u \in Particle
  PROVE  SlotOK(r, SlotAfterSync(r, u))
  <1> DEFINE p == MappedPos(r, u)
  <1>1. SlotOK(r, ps[r][u]) /\ p \in Pos
    BY WalkType DEF TypeOK
  <1>2. CASE ~IsHandled(r, u)
    BY <1>1, <1>2 DEF SlotAfterSync, FlowsOut, Migrates, Leaves
  <1>3. CASE IsHandled(r, u) /\ IsInside(r, u)
    <2>1. SlotAfterSync(r, u) = [ps[r][u] EXCEPT !.ghosts = {}]
      BY <1>3 DEF SlotAfterSync, FlowsOut, Migrates, Leaves
    <2> QED
      BY <1>1, <1>3, <2>1 DEF SlotOK, Slot, IsHandled
  <1>4. CASE FlowsOut(r, u)
    <2>1. SlotAfterSync(r, u) = Absent
      BY <1>4 DEF SlotAfterSync, FlowsOut, Migrates, Leaves
    <2> QED
      BY <2>1, AbsentOK
  <1>5. CASE Migrates(r, u)
    <2>1. SlotAfterSync(r, u) = Ghost(NewOwner(r, u), Image[r][p])
      BY <1>5 DEF SlotAfterSync, FlowsOut, Migrates, Leaves
    <2>2. NewOwner(r, u) \in Rank \ {r}
      BY <1>5, WalkType DEF Migrates, Leaves
    <2>3. Image[r][p] \in Pos
      BY <1>1, GeometryAssumption
    <2> QED
      BY <2>1, <2>2, <2>3 DEF Ghost, SlotOK, Slot
  <1>6. CASE IsHandled(r, u) /\ ~IsInside(r, u) /\ ~FlowsOut(r, u) /\ ~Migrates(r, u)
    <2>1. SlotAfterSync(r, u) = [ps[r][u] EXCEPT !.pos = p, !.ghosts = GhostOwners(r, u)]
      BY <1>6 DEF SlotAfterSync
    <2>2. /\ GhostOwners(r, u) \subseteq Rank
          /\ r \notin GhostOwners(r, u)
      BY <1>6, WalkType
    <2>3. /\ ps[r][u] \in Slot
          /\ ps[r][u].kind = "master" /\ ps[r][u].owner = r
      BY <1>1, <1>6 DEF SlotOK, IsHandled
    <2> HIDE DEF p
    <2> QED
      BY <1>1, <2>1, <2>2, <2>3 DEF SlotOK, Slot
  <1> QED
    BY <1>2, <1>3, <1>4, <1>5, <1>6

LEMMA GhostNoteOK ==
  ASSUME TypeOK, NEW r \in Rank, NEW d \in Rank, NEW u \in Particle
  PROVE  /\ NoteOK(d, GhostNote(r, d, u))
         /\ GhostNote(r, d, u).type \notin {"migration", "remoteMigration"}
  <1>1. SlotOK(r, ps[r][u])
    BY DEF TypeOK
  <1>2. CASE IsHandled(r, u) /\ ~IsInside(r, u) /\ d \in Near(r, u)
    <2>1. GhostNote(r, d, u) =
            [type |-> IF d \in ps[r][u].ghosts THEN "update" ELSE "copy",
             owner |-> ps[r][u].owner, ghosts |-> {}, pos |-> MappedPos(r, u)]
      BY <1>2 DEF GhostNote
    <2>2. ps[r][u].owner = r /\ d # r /\ MappedPos(r, u) \in Pos
      BY <1>1, <1>2, WalkType DEF SlotOK, IsHandled
    <2> QED
      BY <2>1, <2>2 DEF NoteOK, Note, NoteType
  <1>3. CASE ~(IsHandled(r, u) /\ ~IsInside(r, u) /\ d \in Near(r, u))
    <2>1. GhostNote(r, d, u) = Bare("none") \/ GhostNote(r, d, u) = Bare("removal")
      BY <1>3 DEF GhostNote
    <2> QED
      BY <2>1, BareOK DEF Bare
  <1> QED
    BY <1>2, <1>3

(* The four things the ownership part can write *)
LEMMA OwnNoteCases ==
  ASSUME NEW r, NEW d, NEW u
  PROVE  /\ Migrates(r, u) /\ d = NewOwner(r, u)
              => OwnNote(r, d, u) = [Bare("migration") EXCEPT
                   !.ghosts = (GhostOwners(r, u) \ {NewOwner(r, u)}) \cup {r}]
         /\ Migrates(r, u) /\ d # NewOwner(r, u) /\ d \in GhostOwners(r, u)
              => OwnNote(r, d, u) = [Bare("remoteMigration") EXCEPT !.owner = NewOwner(r, u)]
         /\ Migrates(r, u) /\ d # NewOwner(r, u) /\ d \notin GhostOwners(r, u)
              => OwnNote(r, d, u) = Bare("none")
         /\ ~Migrates(r, u)
              => OwnNote(r, d, u) = Bare("none") \/ OwnNote(r, d, u) = Bare("removal")
  <1>1. Migrates(r, u) => ~FlowsOut(r, u)
    BY DEF Migrates, FlowsOut
  <1> QED
    BY <1>1 DEF OwnNote

LEMMA OwnNoteOK ==
  ASSUME TypeOK, NEW r \in Rank, NEW d \in Rank, NEW u \in Particle
  PROVE  NoteOK(d, OwnNote(r, d, u))
  <1>1. CASE Migrates(r, u) /\ d = NewOwner(r, u)
    <2>1. OwnNote(r, d, u) = [Bare("migration") EXCEPT
                                !.ghosts = (GhostOwners(r, u) \ {d}) \cup {r}]
      BY <1>1, OwnNoteCases
    <2>2. d # r /\ GhostOwners(r, u) \subseteq Rank
      BY <1>1, WalkType DEF Migrates, Leaves
    <2> QED
      BY <2>1, <2>2, NowhereType DEF Bare, NoteOK, Note, NoteType
  <1>2. CASE Migrates(r, u) /\ d # NewOwner(r, u) /\ d \in GhostOwners(r, u)
    <2>1. OwnNote(r, d, u) = [Bare("remoteMigration") EXCEPT !.owner = NewOwner(r, u)]
      BY <1>2, OwnNoteCases
    <2>2. NewOwner(r, u) \in Rank
      BY <1>2, WalkType DEF Migrates
    <2> QED
      BY <2>1, <2>2, NowhereType DEF Bare, NoteOK, Note, NoteType
  <1>3. CASE \/ ~Migrates(r, u)
             \/ d # NewOwner(r, u) /\ d \notin GhostOwners(r, u)
    <2>1. OwnNote(r, d, u) = Bare("none") \/ OwnNote(r, d, u) = Bare("removal")
      BY <1>3, OwnNoteCases
    <2> QED
      BY <2>1, BareOK
  <1> QED
    BY <1>1, <1>2, <1>3

-----------------------------------------------------------------------------
(* What parsing stores *)

LEMMA ParsedOK ==
  ASSUME NEW r \in Rank, NEW s \in Rank, NEW sl, SlotOK(r, sl),
         NEW n, NoteOK(r, n), NoteChecks(r, s, sl, n)
  PROVE  SlotOK(r, Parsed(r, sl, n))
  <1>1. n \in Note /\ sl \in Slot
    BY DEF NoteOK, SlotOK
  <1>2. CASE n.type = "none"
    BY <1>2 DEF Parsed
  <1>3. CASE n.type = "copy"
    <2>1. Parsed(r, sl, n) = Ghost(n.owner, Image[r][n.pos])
      BY <1>3 DEF Parsed
    <2>2. Image[r][n.pos] \in Pos /\ n.owner \in Rank \ {r}
      BY <1>1, <1>3, GeometryAssumption DEF NoteOK, Note
    <2> QED
      BY <2>1, <2>2 DEF Ghost, SlotOK, Slot
  <1>4. CASE n.type = "update"
    <2>1. Parsed(r, sl, n) = [sl EXCEPT !.pos = Image[r][n.pos]]
      BY <1>4 DEF Parsed
    <2>2. Image[r][n.pos] \in Pos
      BY <1>1, GeometryAssumption DEF Note
    <2>3. sl.kind = "ghost"
      BY <1>4 DEF NoteChecks
    <2> QED
      BY <1>1, <2>1, <2>2, <2>3 DEF SlotOK, Slot
  <1>5. CASE n.type = "migration"
    <2>1. Parsed(r, sl, n) = Master(r, n.ghosts, sl.pos)
      BY <1>5 DEF Parsed
    <2> QED
      BY <1>1, <1>5, <2>1 DEF Master, NoteOK, Note, SlotOK, Slot
  <1>6. CASE n.type = "remoteMigration"
    <2>1. Parsed(r, sl, n) = [sl EXCEPT !.owner = n.owner]
      BY <1>6 DEF Parsed
    <2>2. sl.kind = "ghost" /\ n.owner # r
      BY <1>6 DEF NoteChecks
    <2>3. n.owner \in Rank
      BY <1>6 DEF NoteOK
    <2> QED
      BY <1>1, <2>1, <2>2, <2>3 DEF SlotOK, Slot
  <1>7. CASE n.type = "removal"
    <2>1. Parsed(r, sl, n) = Absent
      BY <1>7 DEF Parsed
    <2> QED
      BY <2>1, AbsentOK
  <1> QED
    BY <1>1, <1>2, <1>3, <1>4, <1>5, <1>6, <1>7 DEF Note, NoteType

(* A notification that passes its checks makes a master only of a ghost, by a
   migration, and never touches a master. *)
LEMMA ParsedMaster ==
  ASSUME NEW r \in Rank, NEW s \in Rank, NEW sl, SlotOK(r, sl),
         NEW n, NoteOK(r, n), NoteChecks(r, s, sl, n)
  PROVE  /\ n.type = "migration"
              => sl.kind # "master" /\ Parsed(r, sl, n).kind = "master"
         /\ n.type # "migration"
              => (Parsed(r, sl, n).kind = "master" <=> sl.kind = "master")
  <1>1. n \in Note /\ sl \in Slot
    BY DEF NoteOK, SlotOK
  <1>2. CASE n.type = "none"
    BY <1>2 DEF Parsed
  <1>3. CASE n.type = "copy"
    BY <1>3 DEF Parsed, Ghost, NoteChecks
  <1>4. CASE n.type \in {"update", "remoteMigration"}
    BY <1>1, <1>4 DEF Parsed, NoteChecks, Slot
  <1>5. CASE n.type = "migration"
    BY <1>5 DEF Parsed, Master, NoteChecks
  <1>6. CASE n.type = "removal"
    BY <1>6 DEF Parsed, Absent, NoteChecks
  <1> QED
    BY <1>1, <1>2, <1>3, <1>4, <1>5, <1>6 DEF Note, NoteType

-----------------------------------------------------------------------------
(* Buffers *)

LEMMA BatchForType ==
  ASSUME TypeOK, NEW r \in Rank, NEW d \in Rank
  PROVE  BatchFor(r, d) \in Batch
  BY GhostNoteOK, OwnNoteOK DEF BatchFor, Batch, NoteOK

(* A buffer that hands a particle over is opened. *)
LEMMA MigrationOpens ==
  ASSUME NEW r \in Rank, NEW u \in Particle, Migrates(r, u), NewOwner(r, u) \in Rank
  PROVE  NewOwner(r, u) \in Opened(r)
  <1> DEFINE d == NewOwner(r, u)
  <1>1. BatchFor(r, d)[u].own.type = "migration"
    BY OwnNoteCases DEF BatchFor, Bare
  <1>2. EmptyBatch[u].own.type = "none"
    BY DEF EmptyBatch, Bare
  <1> QED
    BY <1>1, <1>2 DEF Opened

LEMMA HeadInChannel ==
  ASSUME TypeOK, NEW r \in Rank, NEW s \in Rank, chan[<<s, r>>] # <<>>
  PROVE  /\ 1 \in DOMAIN chan[<<s, r>>]
         /\ Head(chan[<<s, r>>]) = chan[<<s, r>>][1]
         /\ Head(chan[<<s, r>>]) \in Batch
  <1>1. chan[<<s, r>>] \in Seq(Batch)
    BY DEF TypeOK
  <1> QED
    BY <1>1

(* Both notifications of a buffer that passes its checks are well-formed, and
   so is what they leave behind. *)
LEMMA SlotAfterBatchOK ==
  ASSUME TypeOK, NEW r \in Rank, NEW s \in Rank, NEW u \in Particle,
         chan[<<s, r>>] # <<>>, BatchChecks(r, s, Head(chan[<<s, r>>]))
  PROVE  LET b == Head(chan[<<s, r>>])
         IN  /\ NoteOK(r, b[u].ghost) /\ NoteOK(r, b[u].own)
             /\ b[u].ghost.type \notin {"migration", "remoteMigration"}
             /\ SlotOK(r, ps[r][u])
             /\ NoteChecks(r, s, ps[r][u], b[u].ghost)
             /\ SlotOK(r, AfterGhostNote(r, b, u))
             /\ NoteChecks(r, s, AfterGhostNote(r, b, u), b[u].own)
             /\ SlotOK(r, SlotAfterBatch(r, b, u))
  <1> DEFINE b == Head(chan[<<s, r>>])
  <1>1. /\ NoteOK(r, b[u].ghost) /\ NoteOK(r, b[u].own)
        /\ b[u].ghost.type \notin {"migration", "remoteMigration"}
    BY HeadInChannel DEF TypeOK
  <1>2. /\ NoteChecks(r, s, ps[r][u], b[u].ghost)
        /\ NoteChecks(r, s, AfterGhostNote(r, b, u), b[u].own)
    BY DEF BatchChecks
  <1>3. SlotOK(r, ps[r][u])
    BY DEF TypeOK
  <1>4. SlotOK(r, AfterGhostNote(r, b, u))
    BY <1>1, <1>2, <1>3, ParsedOK DEF AfterGhostNote
  <1>5. SlotOK(r, SlotAfterBatch(r, b, u))
    BY <1>1, <1>2, <1>4, ParsedOK DEF SlotAfterBatch
  <1> QED
    BY <1>1, <1>2, <1>3, <1>4, <1>5

-----------------------------------------------------------------------------
(* Type invariant *)

LEMMA TypeInit == Init => TypeOK
  <1> SUFFICES ASSUME Init PROVE TypeOK
    OBVIOUS
  <1>1. PICK at \in [Particle -> {p \in Pos : OwnerOf[p] # NoRank}] :
          ps = [r \in Rank |-> [u \in Particle |->
                  IF OwnerOf[at[u]] = r THEN Master(r, {}, at[u]) ELSE Absent]]
    BY DEF Init
  <1>2. \A r \in Rank, u \in Particle : SlotOK(r, ps[r][u])
    <2> SUFFICES ASSUME NEW r \in Rank, NEW u \in Particle PROVE SlotOK(r, ps[r][u])
      OBVIOUS
    <2>1. at[u] \in Pos
      BY <1>1
    <2>2. SlotOK(r, Master(r, {}, at[u]))
      BY <2>1 DEF Master, SlotOK, Slot
    <2> QED
      BY <1>1, <2>2, AbsentOK
  <1>3. ps \in [Rank -> [Particle -> Slot]]
    BY <1>1, <1>2 DEF SlotOK
  <1>4. chan = [c \in Rank \X Rank |-> <<>>]
    BY DEF Init
  <1>5. chan \in [Rank \X Rank -> Seq(Batch)]
    BY <1>4
  <1>6. \A s, d \in Rank : DOMAIN chan[<<s, d>>] = {}
    BY <1>4
  <1>7. /\ pending = [r \in Rank |-> {}]
        /\ phase = [r \in Rank |-> "sync"]
        /\ gone = {} /\ aborted = FALSE
    BY DEF Init
  <1> QED
    BY <1>2, <1>3, <1>5, <1>6, <1>7 DEF TypeOK

LEMMA TypeIntegrate ==
  ASSUME TypeOK, NEW r \in Rank, Integrate(r)
  PROVE  TypeOK'
  <1>1. PICK to \in [Particle -> Pos] :
          /\ \A u \in Particle : ps[r][u].kind = "none" => to[u] = ps[r][u].pos
          /\ ps' = [ps EXCEPT ![r] = [u \in Particle |-> [ps[r][u] EXCEPT !.pos = to[u]]]]
    BY DEF Integrate
  <1>2. \A q \in Rank, u \in Particle : SlotOK(q, ps'[q][u])
    <2> SUFFICES ASSUME NEW q \in Rank, NEW u \in Particle PROVE SlotOK(q, ps'[q][u])
      OBVIOUS
    <2>1. SlotOK(q, ps[q][u])
      BY DEF TypeOK
    <2>2. CASE q # r
      BY <1>1, <2>1, <2>2 DEF TypeOK
    <2>3. CASE q = r /\ ps[r][u].kind = "none"
      <3>1. ps'[q][u] = [ps[r][u] EXCEPT !.pos = ps[r][u].pos]
        BY <1>1, <2>3 DEF TypeOK
      <3>2. ps'[q][u] = ps[r][u]
        BY <3>1, <2>1, <2>3 DEF SlotOK, Slot
      <3> QED
        BY <3>2, <2>1, <2>3
    <2>4. CASE q = r /\ ps[r][u].kind # "none"
      <3>1. ps'[q][u] = [ps[r][u] EXCEPT !.pos = to[u]]
        BY <1>1, <2>4 DEF TypeOK
      <3> QED
        BY <3>1, <2>1, <2>4 DEF SlotOK, Slot
    <2> QED
      BY <2>2, <2>3, <2>4
  <1>3. ps' \in [Rank -> [Particle -> Slot]]
    <2> DEFINE Row == [u \in Particle |-> [ps[r][u] EXCEPT !.pos = to[u]]]
    <2>1. ASSUME NEW u \in Particle PROVE [ps[r][u] EXCEPT !.pos = to[u]] \in Slot
      <3>1. ps[r][u] \in Slot /\ to[u] \in Pos
        BY DEF TypeOK
      <3> QED
        BY <3>1 DEF Slot
    <2>2. Row \in [Particle -> Slot]
      BY <2>1
    <2>3. ps \in [Rank -> [Particle -> Slot]] /\ ps' = [ps EXCEPT ![r] = Row]
      BY <1>1 DEF TypeOK
    <2> HIDE DEF Row
    <2> QED
      BY <2>2, <2>3
  <1>4. phase' \in [Rank -> {"integrate", "sync", "parse"}]
    BY DEF Integrate, TypeOK
  <1>5. UNCHANGED <<chan, pending, gone, aborted>>
    BY DEF Integrate
  <1> QED
    BY <1>2, <1>3, <1>4, <1>5 DEF TypeOK

LEMMA TypeSync ==
  ASSUME TypeOK, NEW r \in Rank, WalkAndSend(r)
  PROVE  TypeOK'
  <1>1. ps' = [ps EXCEPT ![r] = [u \in Particle |-> SlotAfterSync(r, u)]]
    BY DEF WalkAndSend
  <1>2. \A q \in Rank, u \in Particle : SlotOK(q, ps'[q][u])
    BY <1>1, SlotAfterSyncOK DEF TypeOK
  <1>3. ps' \in [Rank -> [Particle -> Slot]]
    <2>1. \A u \in Particle : SlotAfterSync(r, u) \in Slot
      BY SlotAfterSyncOK DEF SlotOK
    <2> QED
      BY <1>1, <2>1 DEF TypeOK
  <1>4. chan' = [c \in Rank \X Rank |->
                   IF c[1] = r /\ c[2] \in Opened(r)
                   THEN Append(chan[c], BatchFor(r, c[2])) ELSE chan[c]]
    BY DEF WalkAndSend
  <1>5. chan' \in [Rank \X Rank -> Seq(Batch)]
    <2>1. \A c \in Rank \X Rank :
            Append(chan[c], BatchFor(r, c[2])) \in Seq(Batch) /\ chan[c] \in Seq(Batch)
      BY BatchForType DEF TypeOK
    <2> QED
      BY <1>4, <2>1
  <1>6. \A s, d \in Rank : \A i \in DOMAIN chan'[<<s, d>>], u \in Particle :
          /\ NoteOK(d, chan'[<<s, d>>][i][u].ghost)
          /\ chan'[<<s, d>>][i][u].ghost.type \notin {"migration", "remoteMigration"}
          /\ NoteOK(d, chan'[<<s, d>>][i][u].own)
    <2> SUFFICES ASSUME NEW s \in Rank, NEW d \in Rank,
                        NEW i \in DOMAIN chan'[<<s, d>>], NEW u \in Particle
                 PROVE  /\ NoteOK(d, chan'[<<s, d>>][i][u].ghost)
                        /\ chan'[<<s, d>>][i][u].ghost.type
                             \notin {"migration", "remoteMigration"}
                        /\ NoteOK(d, chan'[<<s, d>>][i][u].own)
      OBVIOUS
    <2>1. chan[<<s, d>>] \in Seq(Batch)
      BY DEF TypeOK
    <2>2. CASE i \in DOMAIN chan[<<s, d>>]
      <3>1. chan'[<<s, d>>][i] = chan[<<s, d>>][i]
        BY <1>4, <2>1, <2>2
      <3> QED
        BY <2>2, <3>1 DEF TypeOK
    <2>3. CASE i \notin DOMAIN chan[<<s, d>>]
      <3>1. s = r /\ chan'[<<s, d>>][i] = BatchFor(r, d)
        BY <1>4, <2>1, <2>3
      <3> QED
        BY <3>1, GhostNoteOK, OwnNoteOK DEF BatchFor
    <2> QED
      BY <2>2, <2>3
  <1>7. pending' \in [Rank -> SUBSET Rank]
    <2>1. Opened(r) \subseteq Rank
      BY GeometryAssumption DEF Opened
    <2> QED
      BY <2>1 DEF WalkAndSend, TypeOK
  <1>8. phase' \in [Rank -> {"integrate", "sync", "parse"}]
    BY DEF WalkAndSend, TypeOK
  <1>9. gone' \subseteq Particle /\ aborted' \in BOOLEAN
    BY DEF WalkAndSend, TypeOK
  <1> QED
    BY <1>2, <1>3, <1>5, <1>6, <1>7, <1>8, <1>9 DEF TypeOK

LEMMA TypeParse ==
  ASSUME TypeOK, NEW r \in Rank, NEW s \in Rank, chan[<<s, r>>] # <<>>,
         BatchChecks(r, s, Head(chan[<<s, r>>])), ParseBuffer(r, s)
  PROVE  TypeOK'
  <1> DEFINE b == Head(chan[<<s, r>>])
  <1>1. ps' = [ps EXCEPT ![r] = [u \in Particle |-> SlotAfterBatch(r, b, u)]]
    BY DEF ParseBuffer
  <1>2. \A u \in Particle : SlotOK(r, SlotAfterBatch(r, b, u))
    BY SlotAfterBatchOK
  <1> HIDE DEF b
  <1>3. \A q \in Rank, u \in Particle : SlotOK(q, ps'[q][u])
    BY <1>1, <1>2 DEF TypeOK
  <1>4. ps' \in [Rank -> [Particle -> Slot]]
    <2>1. \A u \in Particle : SlotAfterBatch(r, b, u) \in Slot
      BY <1>2 DEF SlotOK
    <2> QED
      BY <1>1, <2>1 DEF TypeOK
  <1>5. chan' = [chan EXCEPT ![<<s, r>>] = Tail(chan[<<s, r>>])]
    BY DEF ParseBuffer
  <1>6. chan[<<s, r>>] \in Seq(Batch)
    BY DEF TypeOK
  <1>7. chan' \in [Rank \X Rank -> Seq(Batch)]
    BY <1>5, <1>6 DEF TypeOK
  <1>8. \A t, d \in Rank : \A i \in DOMAIN chan'[<<t, d>>], u \in Particle :
          /\ NoteOK(d, chan'[<<t, d>>][i][u].ghost)
          /\ chan'[<<t, d>>][i][u].ghost.type \notin {"migration", "remoteMigration"}
          /\ NoteOK(d, chan'[<<t, d>>][i][u].own)
    <2> SUFFICES ASSUME NEW t \in Rank, NEW d \in Rank,
                        NEW i \in DOMAIN chan'[<<t, d>>], NEW u \in Particle
                 PROVE  /\ NoteOK(d, chan'[<<t, d>>][i][u].ghost)
                        /\ chan'[<<t, d>>][i][u].ghost.type
                             \notin {"migration", "remoteMigration"}
                        /\ NoteOK(d, chan'[<<t, d>>][i][u].own)
      OBVIOUS
    <2>1. CASE <<t, d>> # <<s, r>>
      <3>1. chan'[<<t, d>>] = chan[<<t, d>>]
        BY <1>5, <2>1 DEF TypeOK
      <3> QED
        BY <3>1 DEF TypeOK
    <2>2. CASE <<t, d>> = <<s, r>>
      <3>1. chan'[<<t, d>>] = Tail(chan[<<s, r>>])
        BY <1>5, <2>2 DEF TypeOK
      <3>2. /\ i + 1 \in DOMAIN chan[<<t, d>>]
            /\ chan'[<<t, d>>][i] = chan[<<t, d>>][i + 1]
        BY <1>6, <2>2, <3>1
      <3> QED
        BY <3>2 DEF TypeOK
    <2> QED
      BY <2>1, <2>2
  <1>9. pending' \in [Rank -> SUBSET Rank] /\ phase' \in [Rank -> {"integrate", "sync", "parse"}]
    BY DEF ParseBuffer, TypeOK
  <1>10. UNCHANGED <<gone, aborted>>
    BY DEF ParseBuffer
  <1> QED
    BY <1>3, <1>4, <1>7, <1>8, <1>9, <1>10 DEF TypeOK

LEMMA TypeAbort == TypeOK /\ Abort => TypeOK'
  BY DEF Abort, TypeOK

LEMMA TypeNext == TypeOK /\ [Next]_vars => TypeOK'
  <1> SUFFICES ASSUME TypeOK, [Next]_vars PROVE TypeOK'
    OBVIOUS
  <1>1. ASSUME NEW r \in Rank, Integrate(r) PROVE TypeOK'
    BY <1>1, TypeIntegrate
  <1>2. ASSUME NEW r \in Rank, Sync(r) PROVE TypeOK'
    BY <1>2, TypeSync, TypeAbort DEF Sync
  <1>3. ASSUME NEW r \in Rank, NEW s \in Rank, Parse(r, s) PROVE TypeOK'
    BY <1>3, TypeParse, TypeAbort DEF Parse
  <1>4. CASE UNCHANGED vars
    BY <1>4 DEF TypeOK, vars
  <1> QED
    BY <1>1, <1>2, <1>3, <1>4 DEF Next

(* Every process stores and sends only well-formed data: slots whose owner and
   ghostOwners fit their kind, notifications that fit their receiver. *)
THEOREM TypeInvariant == Spec => []TypeOK
  BY TypeInit, TypeNext, PTL DEF Spec

-----------------------------------------------------------------------------
(* The inductive invariant: where the ownership of u is *)

Keepers(u) == {r \in Rank : IsMaster(r, u)}

(* Buffers under way that hand u over: sender, receiver, place in the queue *)
Transits(u) == {t \in Rank \X Rank \X Nat : InTransit(t[1], t[2], t[3], u)}

HeldBy(u, r) == Keepers(u) = {r} /\ Transits(u) = {} /\ u \notin gone

MovingIn(u, t) == Keepers(u) = {} /\ Transits(u) = {t} /\ u \notin gone

Left(u) == Keepers(u) = {} /\ Transits(u) = {} /\ u \in gone

Placed(u) ==
  \/ \E r \in Rank : HeldBy(u, r)
  \/ \E t \in Rank \X Rank \X Nat : MovingIn(u, t)
  \/ Left(u)

OwnerInv == TypeOK /\ \A u \in Particle : Placed(u)

(* How a step may move the ownership of u *)
Moved(u) ==
  \/ \E r \in Rank : HeldBy(u, r) /\ HeldBy(u, r)'
  \/ \E t, v \in Rank \X Rank \X Nat : t[2] = v[2] /\ MovingIn(u, t) /\ MovingIn(u, v)'
  \/ Left(u) /\ Left(u)'
  \/ \E r \in Rank, t \in Rank \X Rank \X Nat :
       t[2] \in Nbr[r] /\ HeldBy(u, r) /\ MovingIn(u, t)'
  \/ \E t \in Rank \X Rank \X Nat : MovingIn(u, t) /\ HeldBy(u, t[2])'
  \/ \E r \in Rank : HeldBy(u, r) /\ Left(u)'

LEMMA MovedPlaced == ASSUME NEW u, Moved(u) PROVE Placed(u)'
  BY DEF Moved, Placed

LEMMA MovedSame ==
  ASSUME NEW u, Placed(u), Keepers(u)' = Keepers(u), Transits(u)' = Transits(u),
         u \in gone' <=> u \in gone
  PROVE  Moved(u)
  BY DEF Moved, Placed, HeldBy, MovingIn, Left

-----------------------------------------------------------------------------
(* The invariant implies the properties. *)

LEMMA TransitIn ==
  ASSUME TypeOK, NEW u, NEW s \in Rank, NEW d \in Rank, NEW i \in DOMAIN chan[<<s, d>>],
         InTransit(s, d, i, u)
  PROVE  <<s, d, i>> \in Transits(u)
  <1>1. i \in Nat
    BY DEF TypeOK
  <1> QED
    BY <1>1 DEF Transits

LEMMA OwnerInvOne == OwnerInv => AtMostOneOwner
  <1> SUFFICES ASSUME OwnerInv, NEW u \in Particle
               PROVE  /\ \A r, q \in Rank : IsMaster(r, u) /\ IsMaster(q, u) => r = q
                      /\ \A r, s, d \in Rank : \A i \in DOMAIN chan[<<s, d>>] :
                           ~(IsMaster(r, u) /\ InTransit(s, d, i, u))
                      /\ \A s, d, t, e \in Rank :
                           \A i \in DOMAIN chan[<<s, d>>], j \in DOMAIN chan[<<t, e>>] :
                             InTransit(s, d, i, u) /\ InTransit(t, e, j, u)
                               => s = t /\ d = e /\ i = j
    BY DEF AtMostOneOwner
  <1>1. TypeOK /\ Placed(u)
    BY DEF OwnerInv
  <1>2. \A r, q \in Keepers(u) : r = q
    BY <1>1 DEF Placed, HeldBy, MovingIn, Left
  <1>3. \A t, e \in Transits(u) : t = e
    BY <1>1 DEF Placed, HeldBy, MovingIn, Left
  <1>4. Keepers(u) = {} \/ Transits(u) = {}
    BY <1>1 DEF Placed, HeldBy, MovingIn, Left
  <1>5. \A r, q \in Rank : IsMaster(r, u) /\ IsMaster(q, u) => r = q
    BY <1>2 DEF Keepers
  <1>6. \A r, s, d \in Rank : \A i \in DOMAIN chan[<<s, d>>] :
          ~(IsMaster(r, u) /\ InTransit(s, d, i, u))
    BY <1>1, <1>4, TransitIn DEF Keepers
  <1>7. ASSUME NEW s \in Rank, NEW d \in Rank, NEW t \in Rank, NEW e \in Rank,
               NEW i \in DOMAIN chan[<<s, d>>], NEW j \in DOMAIN chan[<<t, e>>],
               InTransit(s, d, i, u), InTransit(t, e, j, u)
        PROVE  s = t /\ d = e /\ i = j
    <2>1. <<s, d, i>> \in Transits(u) /\ <<t, e, j>> \in Transits(u)
      BY <1>1, <1>7, TransitIn
    <2>2. <<s, d, i>> = <<t, e, j>>
      BY <1>3, <2>1
    <2> QED
      BY <2>2
  <1> QED
    BY <1>5, <1>6, <1>7

LEMMA OwnerInvConserved == OwnerInv => Conserved
  <1> SUFFICES ASSUME OwnerInv, NEW u \in Particle
               PROVE  u \notin gone <=>
                        \/ \E r \in Rank : IsMaster(r, u)
                        \/ \E s, d \in Rank : \E i \in DOMAIN chan[<<s, d>>] :
                             InTransit(s, d, i, u)
    BY DEF Conserved
  <1>1. TypeOK /\ Placed(u)
    BY DEF OwnerInv
  <1>2. u \notin gone <=> Keepers(u) # {} \/ Transits(u) # {}
    BY <1>1 DEF Placed, HeldBy, MovingIn, Left
  <1>3. Keepers(u) # {} <=> \E r \in Rank : IsMaster(r, u)
    BY DEF Keepers
  <1>4. Transits(u) # {} <=> \E s, d \in Rank : \E i \in DOMAIN chan[<<s, d>>] :
                               InTransit(s, d, i, u)
    <2>1. ASSUME Transits(u) # {}
          PROVE  \E s, d \in Rank : \E i \in DOMAIN chan[<<s, d>>] : InTransit(s, d, i, u)
      BY <2>1 DEF Transits, InTransit
    <2> QED
      BY <1>1, <2>1, TransitIn
  <1> QED
    BY <1>2, <1>3, <1>4

-----------------------------------------------------------------------------
(* Initial states *)

LEMMA OwnerInit == Init => OwnerInv
  <1> SUFFICES ASSUME Init, NEW u \in Particle PROVE Placed(u)
    BY TypeInit DEF OwnerInv
  <1>1. PICK at \in [Particle -> {p \in Pos : OwnerOf[p] # NoRank}] :
          ps = [r \in Rank |-> [v \in Particle |->
                  IF OwnerOf[at[v]] = r THEN Master(r, {}, at[v]) ELSE Absent]]
    BY DEF Init
  <1>2. OwnerOf[at[u]] \in Rank
    BY <1>1, GeometryAssumption
  <1>3. \A r \in Rank : IsMaster(r, u) <=> r = OwnerOf[at[u]]
    BY <1>1 DEF IsMaster, Master, Absent
  <1>4. Keepers(u) = {OwnerOf[at[u]]}
    BY <1>2, <1>3 DEF Keepers
  <1>5. Transits(u) = {}
    BY DEF Init, Transits, InTransit
  <1>6. u \notin gone
    BY DEF Init
  <1> QED
    BY <1>2, <1>4, <1>5, <1>6 DEF Placed, HeldBy

-----------------------------------------------------------------------------
(* The walk over the masters *)

(* Only the old owner gives a particle up, and only when it leaves. *)
LEMMA MastersAfterSync ==
  ASSUME TypeOK, NEW r \in Rank, NEW u \in Particle, WalkAndSend(r)
  PROVE  /\ Leaves(r, u) => r \in Keepers(u) /\ Keepers(u)' = Keepers(u) \ {r}
         /\ ~Leaves(r, u) => Keepers(u)' = Keepers(u)
  <1>1. ps' = [ps EXCEPT ![r] = [v \in Particle |-> SlotAfterSync(r, v)]]
    BY DEF WalkAndSend
  <1>2. /\ ps'[r][u] = SlotAfterSync(r, u)
        /\ \A q \in Rank \ {r} : ps'[q][u] = ps[q][u]
    BY <1>1 DEF TypeOK
  <1>3. Leaves(r, u) => ps[r][u].kind = "master" /\ SlotAfterSync(r, u).kind # "master"
    <2>1. CASE FlowsOut(r, u)
      BY <2>1 DEF SlotAfterSync, FlowsOut, Migrates, Leaves, IsHandled, Absent
    <2>2. CASE Migrates(r, u)
      BY <2>2 DEF SlotAfterSync, FlowsOut, Migrates, Leaves, IsHandled, Ghost
    <2> QED
      BY <2>1, <2>2 DEF FlowsOut, Migrates
  <1>4. ~Leaves(r, u) => SlotAfterSync(r, u).kind = ps[r][u].kind
    <2>1. ps[r][u] \in Slot
      BY DEF TypeOK
    <2>2. ~Leaves(r, u) => ~FlowsOut(r, u) /\ ~Migrates(r, u)
      BY DEF FlowsOut, Migrates
    <2> QED
      BY <2>1, <2>2 DEF SlotAfterSync, Slot
  <1>5. \A q \in Rank \ {r} : IsMaster(q, u)' <=> IsMaster(q, u)
    BY <1>2 DEF IsMaster
  <1>6. Leaves(r, u) => IsMaster(r, u) /\ ~IsMaster(r, u)'
    BY <1>2, <1>3 DEF IsMaster
  <1>7. ~Leaves(r, u) => (IsMaster(r, u)' <=> IsMaster(r, u))
    BY <1>2, <1>4 DEF IsMaster
  <1> QED
    BY <1>5, <1>6, <1>7 DEF Keepers

(* Exactly one buffer takes a particle that migrates along. *)
LEMMA TransitsAfterSync ==
  ASSUME TypeOK, NEW r \in Rank, NEW u \in Particle, WalkAndSend(r)
  PROVE  LET o == NewOwner(r, u)
         IN  /\ Migrates(r, u) => Transits(u)' = Transits(u) \cup {<<r, o, Len(chan[<<r, o>>]) + 1>>}
             /\ ~Migrates(r, u) => Transits(u)' = Transits(u)
  <1> DEFINE o == NewOwner(r, u)
             New(s, d, i) == Migrates(r, u) /\ s = r /\ d = o /\ i = Len(chan[<<s, d>>]) + 1
  <1>1. chan' = [c \in Rank \X Rank |->
                   IF c[1] = r /\ c[2] \in Opened(r)
                   THEN Append(chan[c], BatchFor(r, c[2])) ELSE chan[c]]
    BY DEF WalkAndSend
  <1>2. Migrates(r, u) => o \in Rank /\ o \in Opened(r)
    BY WalkType, MigrationOpens DEF Migrates
  <1>3. \A d \in Rank : OwnNote(r, d, u).type = "migration" <=> (Migrates(r, u) /\ d = o)
    <2> SUFFICES ASSUME NEW d \in Rank
                 PROVE  OwnNote(r, d, u).type = "migration" <=> (Migrates(r, u) /\ d = o)
      OBVIOUS
    <2>1. CASE Migrates(r, u) /\ d = o
      BY <2>1, OwnNoteCases DEF Bare
    <2>2. CASE Migrates(r, u) /\ d # o /\ d \in GhostOwners(r, u)
      BY <2>2, OwnNoteCases DEF Bare
    <2>3. CASE ~Migrates(r, u) \/ (d # o /\ d \notin GhostOwners(r, u))
      BY <2>3, OwnNoteCases DEF Bare
    <2> QED
      BY <2>1, <2>2, <2>3
  <1>4. ASSUME NEW s \in Rank, NEW d \in Rank, NEW i \in Nat
        PROVE  InTransit(s, d, i, u)' <=> InTransit(s, d, i, u) \/ New(s, d, i)
    <2>1. chan[<<s, d>>] \in Seq(Batch)
      BY DEF TypeOK
    <2>2. CASE s = r /\ d \in Opened(r)
      <3>1. chan'[<<s, d>>] = Append(chan[<<s, d>>], BatchFor(r, d))
        BY <1>1, <2>2
      <3>2. CASE i \in DOMAIN chan[<<s, d>>]
        <4>1. i \in DOMAIN chan'[<<s, d>>] /\ chan'[<<s, d>>][i] = chan[<<s, d>>][i]
          BY <2>1, <3>1, <3>2
        <4>2. i # Len(chan[<<s, d>>]) + 1
          BY <2>1, <3>2
        <4> QED
          BY <3>2, <4>1, <4>2 DEF InTransit
      <3>3. CASE i = Len(chan[<<s, d>>]) + 1
        <4>1. /\ i \in DOMAIN chan'[<<s, d>>] /\ i \notin DOMAIN chan[<<s, d>>]
              /\ chan'[<<s, d>>][i] = BatchFor(r, d)
          BY <2>1, <3>1, <3>3
        <4>2. BatchFor(r, d)[u].own = OwnNote(r, d, u)
          BY DEF BatchFor
        <4> QED
          BY <1>3, <2>2, <3>3, <4>1, <4>2 DEF InTransit
      <3>4. CASE i \notin DOMAIN chan[<<s, d>>] /\ i # Len(chan[<<s, d>>]) + 1
        <4>1. i \notin DOMAIN chan'[<<s, d>>]
          BY <2>1, <3>1, <3>4
        <4> QED
          BY <3>4, <4>1 DEF InTransit
      <3> QED
        BY <3>2, <3>3, <3>4
    <2>3. CASE ~(s = r /\ d \in Opened(r))
      <3>1. chan'[<<s, d>>] = chan[<<s, d>>]
        BY <1>1, <2>3
      <3>2. ~New(s, d, i)
        BY <1>2, <2>3
      <3> QED
        BY <3>1, <3>2 DEF InTransit
    <2> QED
      BY <2>2, <2>3
  <1>5. ASSUME Migrates(r, u)
        PROVE  Len(chan[<<r, o>>]) + 1 \in Nat
    BY <1>2, <1>5 DEF TypeOK
  <1>6. \A t \in Rank \X Rank \X Nat :
          t \in Transits(u)' <=> t \in Transits(u) \/ New(t[1], t[2], t[3])
    BY <1>4 DEF Transits
  <1>7. ASSUME Migrates(r, u)
        PROVE  Transits(u)' = Transits(u) \cup {<<r, o, Len(chan[<<r, o>>]) + 1>>}
    <2>1. <<r, o, Len(chan[<<r, o>>]) + 1>> \in Rank \X Rank \X Nat
      BY <1>2, <1>5, <1>7
    <2>2. \A t \in Rank \X Rank \X Nat :
            New(t[1], t[2], t[3]) <=> t = <<r, o, Len(chan[<<r, o>>]) + 1>>
      BY <1>7
    <2>3. Transits(u) \subseteq Rank \X Rank \X Nat /\ Transits(u)' \subseteq Rank \X Rank \X Nat
      BY DEF Transits
    <2> QED
      BY <1>6, <2>1, <2>2, <2>3
  <1>8. ASSUME ~Migrates(r, u)
        PROVE  Transits(u)' = Transits(u)
    BY <1>6, <1>8 DEF Transits
  <1> QED
    BY <1>7, <1>8

LEMMA OwnerSync ==
  ASSUME OwnerInv, NEW r \in Rank, NEW u \in Particle, WalkAndSend(r)
  PROVE  Moved(u)
  <1> DEFINE o == NewOwner(r, u)
             n == <<r, o, Len(chan[<<r, o>>]) + 1>>
  <1>1. TypeOK /\ Placed(u)
    BY DEF OwnerInv
  <1>2. u \in gone' <=> u \in gone \/ FlowsOut(r, u)
    BY DEF WalkAndSend
  <1>3. CASE ~Leaves(r, u)
    <2>1. Keepers(u)' = Keepers(u) /\ Transits(u)' = Transits(u) /\ (u \in gone' <=> u \in gone)
      BY <1>1, <1>2, <1>3, MastersAfterSync, TransitsAfterSync DEF FlowsOut, Migrates
    <2> QED
      BY <1>1, <2>1, MovedSame
  <1>4. ASSUME Leaves(r, u)
        PROVE  HeldBy(u, r) /\ Keepers(u)' = {}
    <2>1. r \in Keepers(u) /\ Keepers(u)' = Keepers(u) \ {r}
      BY <1>1, <1>4, MastersAfterSync
    <2>2. PICK q \in Rank : HeldBy(u, q)
      BY <1>1, <2>1 DEF Placed, MovingIn, Left
    <2> QED
      BY <2>1, <2>2 DEF HeldBy
  <1>5. CASE FlowsOut(r, u)
    <2>1. Transits(u)' = Transits(u) /\ u \in gone'
      BY <1>1, <1>2, <1>5, TransitsAfterSync DEF FlowsOut, Migrates
    <2> QED
      BY <1>4, <1>5, <2>1 DEF FlowsOut, HeldBy, Left, Moved
  <1>6. CASE Migrates(r, u)
    <2>1. Transits(u)' = {n} /\ u \notin gone'
      BY <1>1, <1>2, <1>4, <1>6, TransitsAfterSync DEF Migrates, FlowsOut, HeldBy
    <2>2. o \in Nbr[r] /\ o \in Rank
      BY <1>1, <1>6, WalkType DEF Migrates, Leaves, NewOwner, FindContaining
    <2>3. Len(chan[<<r, o>>]) + 1 \in Nat
      BY <1>1, <2>2 DEF TypeOK
    <2>4. PICK t \in Rank \X Rank \X Nat : t = n
      BY <2>2, <2>3
    <2>5. MovingIn(u, t)'
      BY <1>4, <1>6, <2>1, <2>4 DEF Migrates, MovingIn
    <2> QED
      BY <1>4, <1>6, <2>2, <2>4, <2>5 DEF Migrates, Moved
  <1> QED
    BY <1>3, <1>5, <1>6 DEF FlowsOut, Migrates

-----------------------------------------------------------------------------
(* Parsing a buffer *)

(* Only a migration makes a master, and only where there is none yet. *)
LEMMA MastersAfterParse ==
  ASSUME TypeOK, NEW r \in Rank, NEW s \in Rank, NEW u \in Particle,
         chan[<<s, r>>] # <<>>, BatchChecks(r, s, Head(chan[<<s, r>>])), ParseBuffer(r, s)
  PROVE  Keepers(u)' = IF Head(chan[<<s, r>>])[u].own.type = "migration"
                       THEN Keepers(u) \cup {r} ELSE Keepers(u)
  <1> DEFINE b == Head(chan[<<s, r>>])
  <1>1. ps' = [ps EXCEPT ![r] = [v \in Particle |-> SlotAfterBatch(r, b, v)]]
    BY DEF ParseBuffer
  <1>2. /\ ps'[r][u] = SlotAfterBatch(r, b, u)
        /\ \A q \in Rank \ {r} : ps'[q][u] = ps[q][u]
    BY <1>1 DEF TypeOK
  <1>3. AfterGhostNote(r, b, u).kind = "master" <=> ps[r][u].kind = "master"
    BY SlotAfterBatchOK, ParsedMaster DEF AfterGhostNote
  <1>4. IF b[u].own.type = "migration"
        THEN SlotAfterBatch(r, b, u).kind = "master"
        ELSE SlotAfterBatch(r, b, u).kind = "master" <=> AfterGhostNote(r, b, u).kind = "master"
    BY SlotAfterBatchOK, ParsedMaster DEF SlotAfterBatch
  <1> HIDE DEF b
  <1>5. \A q \in Rank \ {r} : IsMaster(q, u)' <=> IsMaster(q, u)
    BY <1>2 DEF IsMaster
  <1>6. IF b[u].own.type = "migration"
        THEN IsMaster(r, u)'
        ELSE IsMaster(r, u)' <=> IsMaster(r, u)
    BY <1>2, <1>3, <1>4 DEF IsMaster
  <1>7. Keepers(u)' = IF b[u].own.type = "migration" THEN Keepers(u) \cup {r} ELSE Keepers(u)
    BY <1>5, <1>6 DEF Keepers
  <1> QED
    BY <1>7 DEF b

(* The queue from s moves up by one, the others stay. *)
LEMMA TransitsAfterParse ==
  ASSUME TypeOK, NEW r \in Rank, NEW s \in Rank, NEW u \in Particle,
         chan[<<s, r>>] # <<>>, ParseBuffer(r, s),
         NEW t \in Rank, NEW d \in Rank, NEW i \in Nat
  PROVE  <<t, d, i>> \in Transits(u)' <=>
           IF t = s /\ d = r THEN i # 0 /\ <<s, r, i + 1>> \in Transits(u)
                             ELSE <<t, d, i>> \in Transits(u)
  <1>1. chan' = [chan EXCEPT ![<<s, r>>] = Tail(chan[<<s, r>>])]
    BY DEF ParseBuffer
  <1>2. chan[<<s, r>>] \in Seq(Batch)
    BY DEF TypeOK
  <1>3. CASE t = s /\ d = r
    <2>1. chan'[<<s, r>>] = Tail(chan[<<s, r>>])
      BY <1>1 DEF TypeOK
    <2>2. i \in DOMAIN chan'[<<s, r>>] <=> i # 0 /\ i + 1 \in DOMAIN chan[<<s, r>>]
      BY <1>2, <2>1
    <2>3. i \in DOMAIN chan'[<<s, r>>] => chan'[<<s, r>>][i] = chan[<<s, r>>][i + 1]
      BY <1>2, <2>1
    <2>4. InTransit(s, r, i, u)' <=> i # 0 /\ InTransit(s, r, i + 1, u)
      BY <2>2, <2>3 DEF InTransit
    <2> QED
      BY <1>3, <2>4 DEF Transits
  <1>4. CASE ~(t = s /\ d = r)
    <2>1. chan'[<<t, d>>] = chan[<<t, d>>]
      BY <1>1, <1>4 DEF TypeOK
    <2>2. InTransit(t, d, i, u)' <=> InTransit(t, d, i, u)
      BY <2>1 DEF InTransit
    <2> QED
      BY <1>4, <2>2 DEF Transits
  <1> QED
    BY <1>3, <1>4

(* The first buffer of the queue hands u over if its notification says so. *)
LEMMA TransitAtHead ==
  ASSUME TypeOK, NEW r \in Rank, NEW s \in Rank, NEW u \in Particle, chan[<<s, r>>] # <<>>
  PROVE  <<s, r, 1>> \in Transits(u) <=> Head(chan[<<s, r>>])[u].own.type = "migration"
  BY HeadInChannel DEF Transits, InTransit

LEMMA OwnerParse ==
  ASSUME OwnerInv, NEW r \in Rank, NEW s \in Rank, NEW u \in Particle,
         chan[<<s, r>>] # <<>>, BatchChecks(r, s, Head(chan[<<s, r>>])), ParseBuffer(r, s)
  PROVE  Moved(u)
  <1>1. TypeOK /\ Placed(u)
    BY DEF OwnerInv
  <1>2. u \in gone' <=> u \in gone
    BY DEF ParseBuffer
  <1>3. Transits(u)' \subseteq Rank \X Rank \X Nat /\ Transits(u) \subseteq Rank \X Rank \X Nat
    BY DEF Transits
  <1>4. \A t, d \in Rank, i \in Nat :
          <<t, d, i>> \in Transits(u)' <=>
            IF t = s /\ d = r THEN i # 0 /\ <<s, r, i + 1>> \in Transits(u)
                              ELSE <<t, d, i>> \in Transits(u)
    BY <1>1, TransitsAfterParse
  <1>5. CASE <<s, r, 1>> \in Transits(u)
    <2>1. Keepers(u) = {} /\ Transits(u) = {<<s, r, 1>>} /\ u \notin gone
      BY <1>1, <1>5 DEF Placed, HeldBy, MovingIn, Left
    <2>2. Keepers(u)' = {r}
      <3>1. Head(chan[<<s, r>>])[u].own.type = "migration"
        BY <1>1, <1>5, TransitAtHead
      <3>2. Keepers(u)' = Keepers(u) \cup {r}
        BY <1>1, <3>1, MastersAfterParse
      <3> QED
        BY <2>1, <3>2
    <2>3. ASSUME NEW t \in Rank, NEW d \in Rank, NEW i \in Nat
          PROVE  <<t, d, i>> \notin Transits(u)'
      <3>1. i # 0 => <<s, r, i + 1>> # <<s, r, 1>>
        OBVIOUS
      <3>2. t # s \/ d # r => <<t, d, i>> # <<s, r, 1>>
        OBVIOUS
      <3> QED
        BY <1>4, <2>1, <3>1, <3>2
    <2>4. Transits(u)' = {}
      BY <1>3, <2>3
    <2>5. MovingIn(u, <<s, r, 1>>) /\ HeldBy(u, r)'
      BY <1>2, <2>1, <2>2, <2>4 DEF MovingIn, HeldBy
    <2>6. <<s, r, 1>> \in Rank \X Rank \X Nat /\ <<s, r, 1>>[2] = r
      OBVIOUS
    <2> QED
      BY <2>5, <2>6 DEF Moved
  <1>6. CASE <<s, r, 1>> \notin Transits(u)
    <2>1. Keepers(u)' = Keepers(u)
      <3>1. Head(chan[<<s, r>>])[u].own.type # "migration"
        BY <1>1, <1>6, TransitAtHead
      <3> QED
        BY <1>1, <3>1, MastersAfterParse
    <2>2. CASE Transits(u) = {}
      <3>1. \A t, d \in Rank, i \in Nat : <<t, d, i>> \notin Transits(u)'
        BY <1>4, <2>2
      <3>2. Transits(u)' = {}
        BY <1>3, <3>1
      <3> QED
        BY <1>1, <1>2, <2>1, <2>2, <3>2, MovedSame
    <2>3. CASE Transits(u) # {}
      <3>1. PICK t \in Rank, d \in Rank, i \in Nat :
              Transits(u) = {<<t, d, i>>} /\ Keepers(u) = {} /\ u \notin gone
        <4>1. PICK v \in Rank \X Rank \X Nat : MovingIn(u, v)
          BY <1>1, <2>3 DEF Placed, HeldBy, Left
        <4>2. v = <<v[1], v[2], v[3]>> /\ v[1] \in Rank /\ v[2] \in Rank /\ v[3] \in Nat
          OBVIOUS
        <4> QED
          BY <4>1, <4>2 DEF MovingIn
      <3>2. CASE t = s /\ d = r
        <4>1. i # 1
          BY <1>6, <3>1, <3>2
        <4>2. i # 0
          <5>1. <<t, d, i>> \in Transits(u)
            BY <3>1
          <5>2. i \in DOMAIN chan[<<t, d>>]
            BY <5>1 DEF Transits, InTransit
          <5> QED
            BY <1>1, <5>2 DEF TypeOK
        <4>3. i - 1 \in Nat /\ i - 1 # 0
          BY <4>1, <4>2
        <4>4. ASSUME NEW a \in Rank, NEW e \in Rank, NEW j \in Nat
              PROVE  <<a, e, j>> \in Transits(u)' <=> <<a, e, j>> = <<s, r, i - 1>>
          BY <1>4, <3>1, <3>2, <4>3
        <4>5. Transits(u)' = {<<s, r, i - 1>>}
          BY <1>3, <4>3, <4>4
        <4>6. MovingIn(u, <<s, r, i - 1>>)'
          BY <1>2, <2>1, <3>1, <4>5 DEF MovingIn
        <4>7. MovingIn(u, <<s, r, i>>)
          BY <3>1, <3>2 DEF MovingIn
        <4>8. /\ <<s, r, i>> \in Rank \X Rank \X Nat /\ <<s, r, i - 1>> \in Rank \X Rank \X Nat
              /\ <<s, r, i>>[2] = r /\ <<s, r, i - 1>>[2] = r
          BY <4>3
        <4> QED
          BY <4>6, <4>7, <4>8 DEF Moved
      <3>3. CASE ~(t = s /\ d = r)
        <4>1. ASSUME NEW a \in Rank, NEW e \in Rank, NEW j \in Nat
              PROVE  <<a, e, j>> \in Transits(u)' <=> <<a, e, j>> = <<t, d, i>>
          BY <1>4, <3>1, <3>3
        <4>2. Transits(u)' = {<<t, d, i>>}
          BY <1>3, <4>1
        <4> QED
          BY <1>1, <1>2, <2>1, <3>1, <4>2, MovedSame
      <3> QED
        BY <3>2, <3>3
    <2> QED
      BY <2>2, <2>3
  <1> QED
    BY <1>5, <1>6

-----------------------------------------------------------------------------
(* The steps that leave ownership alone *)

LEMMA OwnerKept ==
  ASSUME OwnerInv, NEW u \in Particle,
         \A q \in Rank : IsMaster(q, u)' <=> IsMaster(q, u),
         UNCHANGED <<chan, gone>>
  PROVE  Moved(u)
  <1>1. Keepers(u)' = Keepers(u)
    BY DEF Keepers
  <1>2. Transits(u)' = Transits(u)
    BY DEF Transits, InTransit
  <1>3. Placed(u)
    BY DEF OwnerInv
  <1> QED
    BY <1>1, <1>2, <1>3, MovedSame

LEMMA OwnerIntegrate ==
  ASSUME OwnerInv, NEW r \in Rank, NEW u \in Particle, Integrate(r)
  PROVE  Moved(u)
  <1>1. PICK to \in [Particle -> Pos] :
          ps' = [ps EXCEPT ![r] = [v \in Particle |-> [ps[r][v] EXCEPT !.pos = to[v]]]]
    BY DEF Integrate
  <1>2. ps \in [Rank -> [Particle -> Slot]]
    BY DEF OwnerInv, TypeOK
  <1>3. ASSUME NEW q \in Rank PROVE IsMaster(q, u)' <=> IsMaster(q, u)
    <2>1. CASE q = r
      <3>1. ps'[q][u] = [ps[r][u] EXCEPT !.pos = to[u]]
        BY <1>1, <1>2, <2>1
      <3>2. ps[r][u] \in Slot
        BY <1>2
      <3> QED
        BY <2>1, <3>1, <3>2 DEF IsMaster, Slot
    <2>2. CASE q # r
      BY <1>1, <1>2, <2>2 DEF IsMaster
    <2> QED
      BY <2>1, <2>2
  <1>4. UNCHANGED <<chan, gone>>
    BY DEF Integrate
  <1> QED
    BY <1>3, <1>4, OwnerKept

-----------------------------------------------------------------------------
LEMMA OwnerMoves ==
  ASSUME OwnerInv, [Next]_vars, NEW u \in Particle
  PROVE  Moved(u)
  <1>1. ASSUME NEW r \in Rank, Integrate(r) PROVE Moved(u)
    BY <1>1, OwnerIntegrate
  <1>2. ASSUME Abort PROVE Moved(u)
    BY <1>2, OwnerKept DEF Abort, IsMaster
  <1>3. ASSUME NEW r \in Rank, Sync(r) PROVE Moved(u)
    BY <1>2, <1>3, OwnerSync DEF Sync
  <1>4. ASSUME NEW r \in Rank, NEW s \in Rank, Parse(r, s) PROVE Moved(u)
    BY <1>2, <1>4, OwnerParse DEF Parse
  <1>5. CASE UNCHANGED vars
    BY <1>5, OwnerKept DEF IsMaster, vars
  <1> QED
    BY <1>1, <1>3, <1>4, <1>5 DEF Next

LEMMA OwnerNext == OwnerInv /\ [Next]_vars => OwnerInv'
  BY TypeNext, OwnerMoves, MovedPlaced DEF OwnerInv

(* No process can meet a second owner of a particle, whatever the order in
   which the processes walk their masters and parse what the others sent. *)
THEOREM SingleOwner == Spec => []AtMostOneOwner
  BY OwnerInit, OwnerNext, OwnerInvOne, PTL DEF Spec

(* The only way to lose a particle is the outflow branch of its owner. *)
THEOREM NothingLost == Spec => []Conserved
  BY OwnerInit, OwnerNext, OwnerInvConserved, PTL DEF Spec

-----------------------------------------------------------------------------
(* Refinement of ParticleOwnership *)

(* What Holder reads off the state is what the invariant says. *)
HolderReads ==
  \A u \in Particle :
    /\ \A r \in Rank : HeldBy(u, r) => Holder(u) = Ownership!Held(r)
    /\ \A t \in Rank \X Rank \X Nat : MovingIn(u, t) => Holder(u) = Ownership!Moving(t[2])
    /\ Left(u) => Holder(u) = Ownership!Out

LEMMA HolderRead == TypeOK => HolderReads
  <1> SUFFICES ASSUME TypeOK, NEW u \in Particle
               PROVE  /\ \A r \in Rank : HeldBy(u, r) => Holder(u) = Ownership!Held(r)
                      /\ \A t \in Rank \X Rank \X Nat :
                           MovingIn(u, t) => Holder(u) = Ownership!Moving(t[2])
                      /\ Left(u) => Holder(u) = Ownership!Out
    BY DEF HolderReads
  <1> DEFINE to == {d \in Rank : \E s \in Rank :
                      \E i \in DOMAIN chan[<<s, d>>] : InTransit(s, d, i, u)}
  <1>1. ASSUME NEW r \in Rank, HeldBy(u, r)
        PROVE  Holder(u) = Ownership!Held(r)
    <2>1. {q \in Rank : IsMaster(q, u)} = {r}
      BY <1>1 DEF HeldBy, Keepers
    <2> QED
      BY <2>1 DEF Holder, Ownership!Held
  <1>2. ASSUME Keepers(u) = {}
        PROVE  Holder(u) = [state |-> IF to = {} THEN "out" ELSE "moving", by |-> to]
    BY <1>2 DEF Holder, Keepers
  <1>3. \A d \in Rank : d \in to <=> \E t \in Transits(u) : t[2] = d
    <2> SUFFICES ASSUME NEW d \in Rank
                 PROVE  d \in to <=> \E t \in Transits(u) : t[2] = d
      OBVIOUS
    <2>1. ASSUME NEW s \in Rank, NEW i \in DOMAIN chan[<<s, d>>], InTransit(s, d, i, u)
          PROVE  \E t \in Transits(u) : t[2] = d
      <3>1. <<s, d, i>> \in Transits(u)
        BY <2>1, TransitIn
      <3> QED
        BY <3>1
    <2>2. ASSUME NEW t \in Transits(u), t[2] = d
          PROVE  d \in to
      <3>1. t[1] \in Rank /\ InTransit(t[1], d, t[3], u)
        BY <2>2 DEF Transits
      <3>2. t[3] \in DOMAIN chan[<<t[1], d>>]
        BY <3>1 DEF InTransit
      <3> QED
        BY ONLY d \in Rank, <3>1, <3>2
    <2> QED
      BY <2>1, <2>2
  <1>4. ASSUME NEW t \in Rank \X Rank \X Nat, MovingIn(u, t)
        PROVE  Holder(u) = Ownership!Moving(t[2])
    <2>1. to = {t[2]}
      <3>1. Transits(u) = {t} /\ t[2] \in Rank /\ to \subseteq Rank
        BY <1>4 DEF MovingIn
      <3> HIDE DEF to
      <3> QED
        BY ONLY <1>3, <3>1
    <2> QED
      BY <1>2, <1>4, <2>1 DEF MovingIn, Ownership!Moving
  <1>5. ASSUME Left(u) PROVE Holder(u) = Ownership!Out
    <2>1. to = {}
      BY <1>3, <1>5 DEF Left
    <2> QED
      BY <1>2, <1>5, <2>1 DEF Left, Ownership!Out
  <1> QED
    BY <1>1, <1>4, <1>5

LEMMA HolderInit == Init => Ownership!Init
  <1> SUFFICES ASSUME Init PROVE Ownership!Init
    OBVIOUS
  <1>1. OwnerInv /\ HolderReads
    BY OwnerInit, HolderRead DEF OwnerInv
  <1>2. ASSUME NEW u \in Particle
        PROVE  Holder(u) \in {Ownership!Held(r) : r \in Rank}
    <2>1. PICK r \in Rank : IsMaster(r, u)
      <3>1. u \notin gone /\ \A s, d \in Rank : DOMAIN chan[<<s, d>>] = {}
        BY DEF Init
      <3> QED
        BY <1>1, <3>1, OwnerInvConserved DEF Conserved
    <2>2. HeldBy(u, r)
      BY <1>1, <2>1 DEF OwnerInv, Placed, HeldBy, MovingIn, Left, Keepers
    <2> QED
      BY <1>1, <2>2 DEF HolderReads
  <1> QED
    BY <1>2 DEF Ownership!Init

LEMMA HolderStep ==
  OwnerInv /\ HolderReads /\ HolderReads' /\ [Next]_vars
    => [Ownership!Next]_([u \in Particle |-> Holder(u)])
  <1> SUFFICES ASSUME OwnerInv, HolderReads, HolderReads', [Next]_vars
               PROVE  Ownership!Next
    OBVIOUS
  <1> DEFINE H == [v \in Particle |-> Holder(v)]
  <1>1. ASSUME NEW u \in Particle
        PROVE  H'[u] = H[u] \/ Ownership!HandOver(u) \/ Ownership!Arrive(u) \/ Ownership!Leave(u)
    <2>1. /\ \A r \in Rank : HeldBy(u, r) => Holder(u) = Ownership!Held(r)
          /\ \A t \in Rank \X Rank \X Nat : MovingIn(u, t) => Holder(u) = Ownership!Moving(t[2])
          /\ Left(u) => Holder(u) = Ownership!Out
      BY DEF HolderReads
    <2>2. /\ \A r \in Rank : HeldBy(u, r)' => Holder(u)' = Ownership!Held(r)
          /\ \A t \in Rank \X Rank \X Nat : MovingIn(u, t)' => Holder(u)' = Ownership!Moving(t[2])
          /\ Left(u)' => Holder(u)' = Ownership!Out
      BY DEF HolderReads
    <2>3. CASE \/ \E r \in Rank : HeldBy(u, r) /\ HeldBy(u, r)'
               \/ \E t, v \in Rank \X Rank \X Nat :
                    t[2] = v[2] /\ MovingIn(u, t) /\ MovingIn(u, v)'
               \/ Left(u) /\ Left(u)'
      BY <2>1, <2>2, <2>3
    <2>4. ASSUME NEW r \in Rank, NEW t \in Rank \X Rank \X Nat,
                 t[2] \in Nbr[r], HeldBy(u, r), MovingIn(u, t)'
          PROVE  Ownership!HandOver(u)
      BY <2>1, <2>2, <2>4 DEF Ownership!HandOver
    <2>5. ASSUME NEW t \in Rank \X Rank \X Nat, MovingIn(u, t), HeldBy(u, t[2])'
          PROVE  Ownership!Arrive(u)
      <3>1. t[2] \in Rank
        OBVIOUS
      <3> QED
        BY <2>1, <2>2, <2>5, <3>1 DEF Ownership!Arrive
    <2>6. ASSUME NEW r \in Rank, HeldBy(u, r), Left(u)'
          PROVE  Ownership!Leave(u)
      BY <2>1, <2>2, <2>6 DEF Ownership!Leave
    <2>7. Moved(u)
      BY OwnerMoves
    <2> QED
      BY <2>3, <2>4, <2>5, <2>6, <2>7 DEF Moved
  <1> QED
    BY <1>1 DEF Ownership!Next

(* Particle by particle, the synchronization of the processes is a hand-over
   from one owner to a neighbour, never visible as two owners or as none. *)
THEOREM OwnershipRefined == Spec => ImplementsOwnership
  <1>1. Spec => []OwnerInv
    BY OwnerInit, OwnerNext, PTL DEF Spec
  <1>2. OwnerInv => HolderReads
    BY HolderRead DEF OwnerInv
  <1> QED
    BY <1>1, <1>2, HolderInit, HolderStep, PTL DEF Spec, ImplementsOwnership, Ownership!Spec
=============================================================================
