--------------------------- MODULE BufferExchange ---------------------------
(* What a communication step of the BufferSystem promises: in every step each
   process sends one buffer to each process it has filled one for and has, when
   the step ends, got exactly the buffers sent to it in that same step. *)
EXTENDS Naturals

VARIABLES
  to,         \* to[k][r]: whom r sends a buffer in step k, which never changes
  finished,   \* finished[r]: steps r has ended
  sent,       \* sent[r]: whom r has sent its buffer of the current step
  heard       \* heard[r]: whose buffer of the current step r has got

Rank == DOMAIN to[1]

vars == <<to, finished, sent, heard>>

(* Whom r sends a buffer, and whose buffers it gets, in the step it is in *)
Receivers(r) == to[finished[r] + 1][r]

Senders(r) == {s \in Rank : r \in to[finished[r] + 1][s]}

Init ==
  /\ finished = [r \in Rank |-> 0]
  /\ sent = [r \in Rank |-> {}]
  /\ heard = [r \in Rank |-> {}]

Send(r, d) ==
  /\ d \in Receivers(r) \ sent[r]
  /\ sent' = [sent EXCEPT ![r] = @ \cup {d}]
  /\ UNCHANGED <<to, finished, heard>>

(* s has sent r the buffer of the step r is in. *)
HasSent(s, r) ==
  \/ finished[s] > finished[r]
  \/ finished[s] = finished[r] /\ r \in sent[s]

Hear(r, s) ==
  /\ s \in Senders(r) \ heard[r]
  /\ HasSent(s, r)
  /\ heard' = [heard EXCEPT ![r] = @ \cup {s}]
  /\ UNCHANGED <<to, finished, sent>>

End(r) ==
  /\ sent[r] = Receivers(r) /\ heard[r] = Senders(r)
  /\ finished' = [finished EXCEPT ![r] = @ + 1]
  /\ sent' = [sent EXCEPT ![r] = {}]
  /\ heard' = [heard EXCEPT ![r] = {}]
  /\ UNCHANGED to

(* A process goes on while there are steps. *)
Next ==
  \E r \in Rank :
    /\ finished[r] + 1 \in DOMAIN to
    /\ \/ \E d \in Rank : Send(r, d)
       \/ \E s \in Rank : Hear(r, s)
       \/ End(r)

Spec == Init /\ [][Next]_vars
=============================================================================
