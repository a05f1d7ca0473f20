---------------------------- MODULE MCBubbleModel ----------------------------
EXTENDS BubbleModel

(* Interface cells of an initial shape, everything else liquid *)
Shape(interface) == [c \in Cell |-> IF c \in interface THEN "interface" ELSE "liquid"]

Column(x) == {x} \X (1..Rows)

(* Two columns of gas joined by a neck that crosses a border *)
Dumbbell == Column(1) \cup Column(5) \cup {<<x, 2>> : x \in 2..4}

(* A ring across a border: cut once it is still one bubble, cut twice it is two. *)
Ring == ({2, 3, 4} \X (1..3)) \ {<<3, 2>>}

(* Two layers joined by a neck with one cell on each side of a border *)
Layers == ({2, 3} \X (1..3)) \cup {<<1, 1>>, <<1, 3>>}

(* Single cells in corners and between: five bubbles, none next to another *)
Drops == {<<1, 1>>, <<1, 3>>, <<6, 1>>, <<6, 3>>, <<4, 1>>}

MCShapes == {Shape(s) : s \in {Dumbbell, Ring, Layers, Drops}}

NeckShapes == {Shape(Layers)}
=============================================================================
