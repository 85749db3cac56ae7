---------------------------- MODULE MCTileStream ----------------------------
EXTENDS TileStream

Tile(k, f) == [key |-> k, filter |-> f]

\* Under the camera tile 1, with tile 2 wholly inside a finer ring; or tile 2.
Near == { << Tile(1, 0), Tile(2, 1) >>, << Tile(2, 0) >> }
Inside == { Tile(2, 1) }
NearSize == [t \in UNION {ToSet(p) : p \in Near} |-> IF t \in Inside THEN 0 ELSE 2]
=============================================================================
