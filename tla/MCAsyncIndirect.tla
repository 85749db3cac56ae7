-------------------------- MODULE MCAsyncIndirect --------------------------
(* Three sources, so that one comes back while another is pending; three    *)
(* addresses, one more than can be held at once.                           *)
EXTENDS AsyncIndirect

CONSTANTS dawn, noon, dusk
=============================================================================
