--------------------------- MODULE MCWetlandLight ---------------------------
(* Cells 1..4 in a row, 5 above it, and 0 outside the box.  1 and 4 look at  *)
(* each other along the row, 2 looks up.  1 and 2, 3 and 4 share a block.    *)
EXTENDS WetlandLight

Box == 1..5
Sky == {0}
One == {1, 2}
OwnCells == <<1, 4, 2>>
Outwards == <<2, 3, 0>>
Rays == << << <<2, 3, 4>>, <<2, 0>> >>,
           << <<3, 2, 1>>, <<3, 0>> >>,
           << <<0>>, <<0, 3>> >> >>
Areas == <<"left", "left", "right", "right", "top">>

Empty == [src \in {"noon", "dusk"} |-> [c \in 0..5 |-> 0]]

\* A hit on 4 sees the sun past 5, one on 1 past 2 and 3; at dusk only one on 3 does.
SunRays == [src \in {"noon", "dusk"} |-> [s \in 1..3 |-> [i \in 1..2 |-> [c \in 0..5 |->
              IF src = "noon" THEN CASE c = 4 -> {<<5, 0>>} [] c = 1 -> {<<2, 3>>} [] OTHER -> {}
              ELSE IF c = 3 THEN {<<2>>} ELSE {}]]]]

Proxied(solid) == [box |-> Box, at |-> [c \in 0..5 |-> IF c \in solid THEN 1 ELSE 0]]
Placed == {Proxied(s) : s \in {{1, 4}, {1, 3, 4}, {1, 4, 5}}}

\* An edit adds a cell, and a body above another, which together are more than can be built; a
\* body may be away from the box, and what the camera changes is smaller than a cell.
Solid(d, b) ==
    {1, 4} \cup (IF d.version = 2 THEN {3} ELSE {}) \cup (IF b = "above" THEN {5} ELSE {})
Places == [d \in Drawn |-> [b \in Bodies |-> {Proxied(Solid(d, b))} \cap Placed]]
Colors == [b \in Bodies |-> IF b = "none" THEN "black" ELSE "brown"]
=============================================================================
