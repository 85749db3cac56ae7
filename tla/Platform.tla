------------------------------ MODULE Platform ------------------------------
(***************************************************************************)
(* The platform lifecycle decisions shared by every sample                 *)
(* (apps/explorer/src/platform.rs), as operators on its three flags.       *)
(***************************************************************************)

PlatformEvents == {"WindowCreated", "WindowDestroyed", "GainedFocus",
                   "LostFocus", "Paused", "Resumed"}

Lifecycles == [window: BOOLEAN, focused: BOOLEAN, running: BOOLEAN]

InitialLifecycle == [window |-> FALSE, focused |-> FALSE, running |-> TRUE]

apply(l, event) ==
    [window  |-> event = "WindowCreated" \/ (l.window /\ event # "WindowDestroyed"),
     focused |-> \/ event \in {"WindowCreated", "GainedFocus"}
                 \/ l.focused /\ event \notin {"WindowDestroyed", "LostFocus"},
     running |-> event = "Resumed" \/ (l.running /\ event # "Paused")]

work_allowed(l) == l.window /\ l.focused /\ l.running
=============================================================================
