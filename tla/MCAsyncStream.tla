--------------------------- MODULE MCAsyncStream ---------------------------
(* AsyncWorld with one chunk that the window around c1 holds and the one   *)
(* around c2 does not, meshes within and beyond the byte bound, and every  *)
(* operation of the caller against every step of the worker.               *)
EXTENDS AsyncWorld

CONSTANTS c1, c2, k1

MCWindow == (c1 :> {k1}) @@ (c2 :> {})
MCFaces == [k \in Keys |-> {}]
=============================================================================
