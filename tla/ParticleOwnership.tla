------------------------- MODULE ParticleOwnership -------------------------
(* What particle synchronization promises: every particle is owned by one
   process, or on its way to one neighbour of its last owner, or has left the
   domain for good; and what is on its way arrives. *)
CONSTANTS Rank, Particle, Nbr

VARIABLE holder    \* holder[u]: who owns particle u

Held(r) == [state |-> "held", by |-> {r}]

Moving(d) == [state |-> "moving", by |-> {d}]

Out == [state |-> "out", by |-> {}]

Init == holder \in [Particle -> {Held(r) : r \in Rank}]

HandOver(u) ==
  \E r \in Rank : /\ holder[u] = Held(r)
                  /\ \E d \in Nbr[r] : holder'[u] = Moving(d)

Arrive(u) ==
  \E d \in Rank : holder[u] = Moving(d) /\ holder'[u] = Held(d)

Leave(u) ==
  \E r \in Rank : holder[u] = Held(r) /\ holder'[u] = Out

(* Particles synchronized together may change hands in the same step. *)
Next ==
  /\ \A u \in Particle :
       holder'[u] = holder[u] \/ HandOver(u) \/ Arrive(u) \/ Leave(u)
  /\ DOMAIN holder' = Particle

Spec == Init /\ [][Next]_holder
=============================================================================
