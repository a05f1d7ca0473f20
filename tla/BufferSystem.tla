---------------------------- MODULE BufferSystem ----------------------------
(***************************************************************************)
(* core/mpi/BufferSystem: the communication step nearly every module of    *)
(* waLBerla is built on.  A process registers the ranks it receives from,  *)
(* sends the buffers it filled and iterates over the buffers it gets in    *)
(* the order of their arrival.  Nobody has to answer whom it hears from,   *)
(* so a process that only sends may run steps ahead.  Whether the sizes    *)
(* are known, sent in front of the contents or probed is decided by a      *)
(* small state machine that every process runs on its own: size messages   *)
(* and contents travel under the same tag, so two processes that disagree  *)
(* take one for the other.                                                 *)
(***************************************************************************)
EXTENDS Naturals, Sequences, FiniteSets

CONSTANTS
  MaxLen,        \* longest content of a buffer
  Programs       \* executions: who sends whom a buffer in each step, the receiver
                 \* set-ups before the steps, and the mode: useIProbe, and whether
                 \* MPI completes a send only when it is received

(* A set-up before a step: nothing, setReceiverInfo with ranks or with sizes,
   setReceiverInfoFromSendBufferState, sizeHasChanged. *)
SetUp == [call : {"none", "ranks", "sizes", "fromSend", "hasChanged"},
          useSizes : BOOLEAN, changing : BOOLEAN]

(* The receivers know the sizes without a message. *)
SizesGiven(c) == c.call = "sizes" \/ (c.call = "fromSend" /\ c.useSizes)

(* Nothing is registered before this step: the registered ranks stay. *)
Kept(c) == c.call \in {"none", "hasChanged"}

(* The processes r gets a buffer from in step k *)
Sending(f, r, k) == {s \in DOMAIN f[k] : r \in f[k][s]}

(* The processes r has filled a buffer for up to step k: sendInfos_ keeps them. *)
Opened(f, r, k) == UNION {f[i][r] : i \in 1..k}

(* A program starts by registering, and what is registered are in every step the
   ranks a buffer comes from: whom the callers name, the same as before when
   nothing is named, and the processes sent to when the send buffers are taken for
   it.  Sizes given do not change: setReceiverInfo with sizes cannot say they do,
   and nothing calls setReceiverInfoFromSendBufferState(true, true), which would
   never exchange them, other than its documentation says. *)
ProgramOK(g) ==
  /\ g.plan \in Seq(SetUp) /\ g.plan # <<>> /\ ~Kept(g.plan[1])
  /\ g.to \in [DOMAIN g.plan -> [DOMAIN g.to[1] -> SUBSET DOMAIN g.to[1]]]
  /\ \A k \in DOMAIN g.plan :
       LET c == g.plan[k] IN
       /\ SizesGiven(c) => ~c.changing
       /\ Kept(c) => g.to[k] = g.to[k - 1]
       /\ c.call = "fromSend" =>
            \A r \in DOMAIN g.to[1] :
              Sending(g.to, r, k) = IF c.useSizes THEN g.to[k][r] ELSE Opened(g.to, r, k)
  /\ g.mode \in [probe : BOOLEAN, rendezvous : BOOLEAN]

ASSUME ProgramAssumption == \A g \in Programs : ProgramOK(g)

ASSUME SizeAssumption == MaxLen \in Nat \ {0}

VARIABLES
  to,        \* to[k][r]: the processes r fills a buffer for in step k
  plan,      \* the set-ups the program makes, the same calls on all processes
  mode,      \* the mode of this execution
  load,      \* load[k][r]: bytes in each buffer r sends in step k
  step,      \* step[r]: steps r has ended
  set,       \* set[r]: r has made the set-up of its next step
  comm,      \* comm[r]: currentComm_
  changes,   \* changes[r]: sizeChangesEverytime_
  running,   \* running[r]: communicationRunning_
  from,      \* from[r]: the ranks in recvInfos_
  size,      \* size[r][s]: recvInfos_[s].size, 0 if INVALID_SIZE or not there
  want,      \* want[r][s]: what r waits for from s in the running step
  got,       \* got[r][s]: the step whose buffer r got from s (history)
  sent,      \* sent[r]: buffers already sent in the running step
  chan,      \* chan[<<s, d>>]: messages under way
  fault      \* a message was taken for another or did not fit

program == <<to, plan, mode, load>>

vars == <<program, step, set, comm, changes, running, from, size, want, got,
          sent, chan, fault>>

Steps == Len(plan)

(* The processes of this execution *)
Rank == DOMAIN to[1]

Senders(r, k) == Sending(to, r, k)

Message == [kind : {"size", "content"}, len : 1..MaxLen, of : Nat]

-----------------------------------------------------------------------------
(* The contract of the set-ups: which loads a program may send *)

(* The last set-up at or before step k that is one *)
InForce(k) == CHOOSE j \in 1..k : /\ plan[j].call # "none"
                                  /\ \A i \in (j + 1)..k : plan[i].call = "none"

(* The documentation has the sizes of step k exchanged before the contents. *)
SizesExchanged(k) ==
  LET j == InForce(k) IN ~SizesGiven(plan[j]) /\ (k = j \/ plan[j].changing)

(* Sizes not exchanged are those the receivers know: given or as before, and
   with setReceiverInfoFromSendBufferState(true, ..) those they send.  (What a
   process that sends nothing would send is 1.) *)
LoadOK(ld) ==
  \A k \in 1..Steps :
    /\ \A r \in Rank : to[k][r] = {} => ld[k][r] = 1
    /\ ~SizesExchanged(k) =>
         IF InForce(k) = k
         THEN plan[k].call = "fromSend" =>
                \A r \in Rank : \A s \in to[k][r] : ld[k][s] = ld[k][r]
         ELSE ld[k] = ld[k - 1]

-----------------------------------------------------------------------------
(* setCommunicationType *)
Communication(knownSize) ==
  IF knownSize THEN "known" ELSE IF mode.probe THEN "iprobe" ELSE "unknown"

(* The keys a set-up before step k leaves in recvInfos_ *)
Registered(r, k) ==
  CASE Kept(plan[k])                                      -> from[r]
    [] plan[k].call \in {"ranks", "sizes"}                -> Senders(r, k)
    [] plan[k].call = "fromSend" /\ plan[k].useSizes      -> to[k][r]
    [] plan[k].call = "fromSend" /\ ~plan[k].useSizes     -> Opened(to, r, k)

(* Mutant: the sizes of the send buffers are not taken over. *)
RegisteredSizeUnknown(r, s, k) == IF plan[k].call = "sizes" THEN load[k][s] ELSE 0

(* ... and in recvInfos_[s].size *)
RegisteredSize(r, s, k) ==
  CASE plan[k].call = "sizes"                          -> load[k][s]
    [] plan[k].call = "fromSend" /\ plan[k].useSizes   -> load[k][r]
    [] Kept(plan[k])                                   -> size[r][s]
    [] OTHER                                           -> 0

(* The set-up before a step *)
SetUpStep(r) ==
  LET k == step[r] + 1
      c == plan[k] IN
  /\ step[r] < Steps /\ ~set[r] /\ ~running[r]
  /\ set' = [set EXCEPT ![r] = TRUE]
  /\ from' = [from EXCEPT ![r] = Registered(r, k)]
  /\ IF c.call = "none"
     THEN UNCHANGED <<comm, changes, size>>
     ELSE /\ changes' = [changes EXCEPT ![r] = c.changing]
          /\ comm' = [comm EXCEPT ![r] = Communication(SizesGiven(c))]
          /\ size' = [size EXCEPT ![r] = [s \in Rank |->
               IF s \in Registered(r, k) THEN RegisteredSize(r, s, k) ELSE 0]]
  /\ UNCHANGED <<program, step, running, want, got, sent, chan, fault>>

(* scheduleReceives of the way to communicate *)
FirstWant(c) ==
  CASE c = "known"   -> "content"
    [] c = "unknown" -> "size"
    [] c = "iprobe"  -> "probe"

(* startCommunication: scheduleReceives, by a call or by the first send *)
Start(r) ==
  /\ set[r] /\ ~running[r] /\ ~fault
  /\ running' = [running EXCEPT ![r] = TRUE]
  /\ want' = [want EXCEPT ![r] = [s \in Rank |->
                IF s \in from[r] THEN FirstWant(comm[r]) ELSE "idle"]]
  /\ size' = [size EXCEPT ![r] = IF comm[r] = "known" THEN @ ELSE [s \in Rank |-> 0]]
  /\ UNCHANGED <<program, step, set, comm, changes, from, got, sent, chan, fault>>

(* What the way to communicate sends for one buffer *)
Messages(r) ==
  LET m(kind) == [kind |-> kind, len |-> load[step[r] + 1][r], of |-> step[r] + 1] IN
  IF comm[r] = "unknown" THEN <<m("size"), m("content")>> ELSE <<m("content")>>

(* send, or one turn of sendAll *)
Send(r, d) ==
  /\ running[r] /\ d \in to[step[r] + 1][r] \ sent[r] /\ ~fault
  /\ sent' = [sent EXCEPT ![r] = @ \cup {d}]
  /\ chan' = [chan EXCEPT ![<<r, d>>] = @ \o Messages(r)]
  /\ UNCHANGED <<program, step, set, comm, changes, running, from, size, want, got,
                 fault>>

(* All buffers are sent and the iteration over the received ones goes on. *)
Receiving(r, s) ==
  /\ running[r] /\ sent[r] = to[step[r] + 1][r] /\ ~fault
  /\ s \in from[r] /\ chan[<<s, r>>] # <<>>

Take(r, s) == chan' = [chan EXCEPT ![<<s, r>>] = Tail(@)]

(* waitForNextReceive takes a size message and posts the receive of the content. *)
ReceiveSize(r, s) ==
  LET m == Head(chan[<<s, r>>]) IN
  /\ Receiving(r, s) /\ want[r][s] = "size"
  /\ Take(r, s)
  /\ fault' = (m.kind # "size")
  /\ size' = [size EXCEPT ![r][s] = m.len]
  /\ want' = [want EXCEPT ![r][s] = "content"]
  /\ UNCHANGED <<program, step, set, comm, changes, running, from, got, sent>>

(* ... a content into the buffer posted for it: it has to fit exactly. *)
ReceiveContent(r, s) ==
  LET m == Head(chan[<<s, r>>]) IN
  /\ Receiving(r, s) /\ want[r][s] = "content"
  /\ Take(r, s)
  /\ fault' = (m.kind # "content" \/ m.len # size[r][s])
  /\ want' = [want EXCEPT ![r][s] = "done"]
  /\ got' = [got EXCEPT ![r][s] = m.of]
  /\ UNCHANGED <<program, step, set, comm, changes, running, from, size, sent>>

(* ... or, with MPI_Iprobe, whatever message is there. *)
ProbeContent(r, s) ==
  LET m == Head(chan[<<s, r>>]) IN
  /\ Receiving(r, s) /\ want[r][s] = "probe"
  /\ Take(r, s)
  /\ fault' = (m.kind # "content")
  /\ want' = [want EXCEPT ![r][s] = "done"]
  /\ size' = [size EXCEPT ![r][s] = m.len]
  /\ got' = [got EXCEPT ![r][s] = m.of]
  /\ UNCHANGED <<program, step, set, comm, changes, running, from, sent>>

(* waitForSends comes back: MPI may keep it until the receivers took all. *)
SendsComplete(r) == mode.rendezvous => \A d \in to[step[r] + 1][r] : chan[<<r, d>>] = <<>>

(* Mutant: the step is over as soon as the first buffer is there. *)
AllReceivedOne(r) == from[r] = {} \/ \E s \in from[r] : want[r][s] = "done"

AllReceived(r) == \A s \in from[r] : want[r][s] = "done"

(* Mutant: known sizes are switched to although they change. *)
NextCommKnown(r) == Communication(TRUE)

NextComm(r) == IF changes[r] THEN comm[r] ELSE Communication(TRUE)

(* endCommunication *)
End(r) ==
  /\ running[r] /\ sent[r] = to[step[r] + 1][r] /\ ~fault
  /\ AllReceived(r) /\ SendsComplete(r)
  /\ comm' = [comm EXCEPT ![r] = NextComm(r)]
  /\ running' = [running EXCEPT ![r] = FALSE]
  /\ set' = [set EXCEPT ![r] = FALSE]
  /\ sent' = [sent EXCEPT ![r] = {}]
  /\ want' = [want EXCEPT ![r] = [s \in Rank |-> "idle"]]
  /\ got' = [got EXCEPT ![r] = [s \in Rank |-> 0]]
  /\ step' = [step EXCEPT ![r] = @ + 1]
  /\ UNCHANGED <<program, changes, from, size, chan, fault>>

(* The program is over, by its end or by an error of MPI. *)
Over == (fault \/ \A r \in Rank : step[r] = Steps) /\ UNCHANGED vars

Init ==
  /\ \E g \in Programs : to = g.to /\ plan = g.plan /\ mode = g.mode
  /\ load \in {ld \in [1..Steps -> [Rank -> 1..MaxLen]] : LoadOK(ld)}
  /\ step = [r \in Rank |-> 0]
  /\ set = [r \in Rank |-> FALSE]
  /\ comm = [r \in Rank |-> "none"]
  /\ changes = [r \in Rank |-> TRUE]
  /\ running = [r \in Rank |-> FALSE]
  /\ from = [r \in Rank |-> {}]
  /\ size = [r \in Rank |-> [s \in Rank |-> 0]]
  /\ want = [r \in Rank |-> [s \in Rank |-> "idle"]]
  /\ got = [r \in Rank |-> [s \in Rank |-> 0]]
  /\ sent = [r \in Rank |-> {}]
  /\ chan = [c \in Rank \X Rank |-> <<>>]
  /\ fault = FALSE

(* The processes of any execution *)
AllRanks == UNION {DOMAIN g.to[1] : g \in Programs}

Advance(r) ==
  \/ SetUpStep(r)
  \/ Start(r)
  \/ \E d \in Rank : Send(r, d)
  \/ \E s \in Rank : ReceiveSize(r, s)
  \/ \E s \in Rank : ReceiveContent(r, s)
  \/ \E s \in Rank : ProbeContent(r, s)
  \/ End(r)

Next == (\E r \in Rank : Advance(r)) \/ Over

Spec == Init /\ [][Next]_vars

(* Every process goes on with its step, and MPI delivers. *)
Fairness == \A r \in AllRanks : WF_vars(r \in Rank /\ Advance(r))

FairSpec == Spec /\ Fairness

-----------------------------------------------------------------------------
(* Properties *)

(* Type invariant, with what the phases of a step say of each other. *)
TypeOK ==
  /\ to \in [1..Steps -> [Rank -> SUBSET Rank]]
  /\ plan \in Seq(SetUp)
  /\ mode \in [probe : BOOLEAN, rendezvous : BOOLEAN]
  /\ load \in [1..Steps -> [Rank -> 1..MaxLen]]
  /\ step \in [Rank -> 0..Steps]
  /\ set \in [Rank -> BOOLEAN]
  /\ comm \in [Rank -> {"none", "known", "unknown", "iprobe"}]
  /\ changes \in [Rank -> BOOLEAN]
  /\ running \in [Rank -> BOOLEAN]
  /\ from \in [Rank -> SUBSET Rank]
  /\ size \in [Rank -> [Rank -> 0..MaxLen]]
  /\ want \in [Rank -> [Rank -> {"idle", "size", "content", "probe", "done"}]]
  /\ got \in [Rank -> [Rank -> 0..Steps]]
  /\ sent \in [Rank -> SUBSET Rank]
  /\ chan \in [Rank \X Rank -> Seq(Message)]
  /\ fault \in BOOLEAN
  /\ \A r \in Rank :
       /\ set[r] => comm[r] # "none"
       /\ ~running[r] => sent[r] = {}
       /\ \A s \in Rank :
            /\ want[r][s] # "idle" => s \in from[r]
            /\ want[r][s] \in {"content", "done"} => size[r][s] > 0

(* A receive never takes a size for a content or a content for a size, and a
   content never overruns or underfills the buffer posted for it: all
   processes change between the ways to communicate in the same steps. *)
NoFault == ~fault

(* All processes get through all steps. *)
StepsEnd == <>(\A r \in Rank : step[r] = Steps)

Exchange ==
  INSTANCE BufferExchange WITH
    finished <- step,
    heard <- [r \in Rank |-> {s \in Rank : got[r][s] = step[r] + 1}]

(* Every step is an exchange of the buffers sent in it, whatever mix of set-ups
   and whoever sends to whom. *)
ImplementsExchange == Exchange!Spec
=============================================================================
