---------------------------- MODULE MountBackend ----------------------------
(***************************************************************************)
(* Choice of the mount backend (core/include/pathguard/mount_backend.h).   *)
(* Action masks and capability masks are sets of names.                    *)
(***************************************************************************)

Redirect == "redirect"
DenyAnchor == "deny_anchor"
MountActions == {Redirect, DenyAnchor}

StrictOpenTree == "strict_open_tree"
StrictProcFd == "strict_procfd"
LegacyString == "legacy_string"
Unsupported == "unsupported"
MountBackendKind == {StrictOpenTree, StrictProcFd, LegacyString, Unsupported}

(* The primitives ProbeDirectoryMountBackends can report as working. *)
Primitives == {"open_tree_move_mount", "proc_fd_mount", "string_bind_mount"}

SupportsAllActions(supported, required) ==
    required # {} /\ required \subseteq supported

(* The probe always reports the same action masks and a subset of the      *)
(* primitives.                                                             *)
ProbeDirectoryMountBackends ==
    [primitives : SUBSET Primitives,
     strict_actions : {{Redirect, DenyAnchor}},
     legacy_actions : {{Redirect}}]

SelectMountBackend(required, caps, allowLegacy) ==
    LET strict == SupportsAllActions(caps.strict_actions, required)
    IN  CASE required = {} -> Unsupported
          [] strict /\ "open_tree_move_mount" \in caps.primitives -> StrictOpenTree
          [] strict /\ "open_tree_move_mount" \notin caps.primitives
                    /\ "proc_fd_mount" \in caps.primitives -> StrictProcFd
          [] OTHER -> IF /\ "string_bind_mount" \in caps.primitives
                         /\ allowLegacy
                         /\ SupportsAllActions(caps.legacy_actions, required)
                      THEN LegacyString ELSE Unsupported

NextMountBackend(current, required, allowLegacy, namespaceAllowed) ==
    CASE current = StrictOpenTree -> StrictProcFd
      [] /\ current = StrictProcFd
         /\ allowLegacy
         /\ namespaceAllowed
         /\ SupportsAllActions({Redirect}, required) -> LegacyString
      [] OTHER -> Unsupported

NeedsPostMountSnapshot(backend, mutationRecorded, applySucceeded) ==
    mutationRecorded /\ (~applySucceeded \/ backend = LegacyString)
=============================================================================
