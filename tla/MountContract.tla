---------------------------- MODULE MountContract ---------------------------
(***************************************************************************)
(* What a launch promises (docs/adr/0003): the app starts either with the  *)
(* whole plan in its mount namespace or with a namespace nobody changed,   *)
(* and the namespace does not move under a running app.  A namespace that  *)
(* could not be restored dooms the app.                                    *)
(***************************************************************************)

VARIABLES
    ns,      \* "clean", "full" (the whole plan) or "dirty" (anything else)
    target   \* "waiting", "enforced", "open", "doomed" or "dead"

vars == <<ns, target>>

Namespaces == {"clean", "full", "dirty"}

Init == ns = "clean" /\ target = "waiting"

(* The helpers work on the namespace of an app that is not running. *)
Change == target \in {"waiting", "dead"} /\ ns' \in Namespaces /\ UNCHANGED target

Enforce == target = "waiting" /\ ns = "full" /\ target' = "enforced" /\ UNCHANGED ns

Open == target = "waiting" /\ ns = "clean" /\ target' = "open" /\ UNCHANGED ns

Doom == target = "waiting" /\ target' = "doomed" /\ UNCHANGED ns

Die == target' = "dead" /\ UNCHANGED ns

Next == Change \/ Enforce \/ Open \/ Doom \/ Die

(* The app is not kept waiting. *)
Leave == Enforce \/ Open \/ Doom \/ Die

Spec == Init /\ [][Next]_vars /\ WF_vars(target = "waiting" /\ Leave)
=============================================================================
