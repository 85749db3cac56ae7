--------------------------- MODULE MCAudioService ---------------------------
\* Two clips of different lengths in a pool that holds either both or one of
\* them twice, so that ranges are split, retired and taken again.
EXTENDS AudioService

Slots == {1, 2}
Sizes == {1, 2}
=============================================================================
