--------------------------- MODULE MCBufferSystem ---------------------------
(* BufferSystem for TLC: two processes that make any mix of set-ups over three
   steps, both ways or one way only, and three in a ring, in a chain or around
   one of them, under each way MPI may complete sends. *)
EXTENDS BufferSystem

Call(c, u, g) == [call |-> c, useSizes |-> u, changing |-> g]

Keep == Call("none", FALSE, FALSE)

Ranks == Call("ranks", FALSE, TRUE)

Sizes == Call("sizes", FALSE, FALSE)

(* Set-ups a program can start with, *)
Named == {Ranks, Call("ranks", FALSE, FALSE), Sizes}

FromSend == {Call("fromSend", TRUE, FALSE), Call("fromSend", FALSE, TRUE),
             Call("fromSend", FALSE, FALSE)}

(* ... and go on with *)
Changed == {Call("hasChanged", FALSE, TRUE), Call("hasChanged", FALSE, FALSE)}

Mixes(first) ==
  {<<a, b, c>> : a \in first, b \in first \cup Changed \cup {Keep},
                 c \in {Keep, Call("hasChanged", FALSE, FALSE)}}

(* Two set-ups that go through all ways to communicate *)
AllWays ==
  {<<Ranks, Keep>>,
   <<Call("fromSend", TRUE, FALSE), Call("hasChanged", FALSE, FALSE)>>}

Mode(p, v) == [probe |-> p, rendezvous |-> v]

Modes == {Mode(p, v) : p, v \in BOOLEAN}

(* Who sends to whom: in a ring, one after the other, from 0 to all, from all to
   0, and (as SyncGhostOwners does) also to oneself *)
Ring(n) == [r \in 0..(n - 1) |-> {(r + 1) % n, (r + n - 1) % n} \ {r}]

Chain(n) == [r \in 0..(n - 1) |-> {r + 1} \cap 0..(n - 1)]

Out(n) == [r \in 0..(n - 1) |-> IF r = 0 THEN 1..(n - 1) ELSE {}]

In(n) == [r \in 0..(n - 1) |-> IF r = 0 THEN {} ELSE {0}]

Own(n) == [r \in 0..(n - 1) |-> {r, 0}]

Program(t, p, m) == [to |-> t, plan |-> p, mode |-> m]

Same(f, p) == [k \in DOMAIN p |-> f]

MCPrograms ==
  {Program(Same(Ring(2), p), p, Mode(FALSE, FALSE)) : p \in Mixes({Sizes} \cup FromSend)}
    \cup {Program(Same(Chain(2), p), p, Mode(FALSE, FALSE)) : p \in Mixes(Named)}
    \cup {Program(Same(Ring(3), p), p, m) :
            p \in AllWays, m \in {Mode(FALSE, TRUE), Mode(TRUE, TRUE)}}
    \cup {Program(t, <<Ranks, Ranks, Keep>>, m) :
            t \in {<<Out(3), In(3), In(3)>>, <<In(3), Chain(3), Chain(3)>>}, m \in Modes}
    \cup {Program(<<Own(2), Chain(2)>>, <<Ranks, Ranks>>, m) : m \in Modes}
=============================================================================
