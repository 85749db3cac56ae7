--------------------------- MODULE MCAudioAdapter ---------------------------
\* One clip in a pool that just holds it.
EXTENDS AudioAdapter

OneSlot == {1}
OneLength == {1}
=============================================================================
