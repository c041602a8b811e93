-------------------------- MODULE MountTransaction --------------------------
(***************************************************************************)
(* The mount transaction of one app launch (zygisk/src/module_entry.cpp):  *)
(* the app process waits in postAppSpecialize, the root companion handles  *)
(* its request, and a worker the companion forks enters the app's mount    *)
(* namespace and applies the plan.  The three share one status word in a   *)
(* memfd and move it by compare-and-swap.                                  *)
(*                                                                         *)
(* One action is one load or one compare-and-swap of the status word, or   *)
(* one change of the namespace, with the local work before it.  Time is    *)
(* abstracted: a deadline may pass at any moment.  Errors are abstracted   *)
(* to "there is one".  Any process may be killed at any step.              *)
(***************************************************************************)
EXTENDS MountBackend, Integers

CONSTANTS
    RuleCount,        \* plan.count, 1..kMaxMountRules
    JournalCapacity,  \* kMaxMountRules, the capacity of MountMutationJournal
    ScanMayMiss,      \* may TerminateNamespaceMembers leave a member alive
    HelperMayCrash    \* may the companion or the worker die on their own

ASSUME RuleCountAssumption == RuleCount \in Nat \ {0}
ASSUME CapacityAssumption == JournalCapacity \in Nat /\ RuleCount <= JournalCapacity
ASSUME FlagsAssumption == ScanMayMiss \in BOOLEAN /\ HelperMayCrash \in BOOLEAN

VARIABLES
    plan,        \* what the policy and the device make of this launch
    status,      \* SharedMountState.status
    result,      \* SharedMountState.result.mount.result, "ok" for 0
    mounted,     \* kernel: rules 1..mounted are mounted in the namespace
    private,     \* kernel: MS_PRIVATE was applied to /storage
    appPc, graceUsed, received,                          \* app process
    parPc, parSeen, gotReport, ownerDeath, nsKnown, childErr, record,
    wPc, idx, journal, snap, hydrated, err, rbFailed, untracked,
    backend, locked, wSeen,
    sent         \* worker's result packet on the socket pair

sharedVars == <<status, result>>
nsVars == <<mounted, private>>
appVars == <<appPc, graceUsed, received>>
parVars == <<parPc, parSeen, gotReport, ownerDeath, nsKnown, childErr, record>>
txVars == <<idx, journal, snap, hydrated, err, rbFailed, untracked, wSeen>>
workVars == <<wPc, txVars, backend, locked>>
vars == <<plan, sharedVars, nsVars, appVars, parVars, workVars, sent>>
-----------------------------------------------------------------------------
(* core/include/pathguard/mount_transaction.h *)

MountTransactionState ==
    {"pending", "applying", "complete", "cancel_requested", "cancelled",
     "failed", "rollback_complete", "namespace_tainted"}

MountTransactionHasResult(s) ==
    s \in {"complete", "failed", "rollback_complete", "namespace_tainted"}

IsMountTransactionTerminal(s) == MountTransactionHasResult(s) \/ s = "cancelled"

(* Mutant: a rollback can only be published after a cancel. *)
NoRollbackFromApplying(from, to) ==
    \/ from = "pending" /\ to \in {"applying", "complete", "cancel_requested", "failed"}
    \/ from = "applying" /\ to \in {"complete", "cancel_requested", "namespace_tainted"}
    \/ from = "cancel_requested" /\ to \in {"cancelled", "rollback_complete",
                                            "namespace_tainted"}

IsMountTransitionAllowed(from, to) ==
    \/ from = "pending" /\ to \in {"applying", "complete", "cancel_requested", "failed"}
    \/ from = "applying" /\ to \in {"complete", "cancel_requested",
                                    "rollback_complete", "namespace_tainted"}
    \/ from = "cancel_requested" /\ to \in {"cancelled", "rollback_complete",
                                            "namespace_tainted"}
    \/ from = "failed" /\ to = "rollback_complete"

(* Mutant: a plain store of the new status. *)
StoreSharedState(from, to) == IF IsMountTransitionAllowed(from, to) THEN to ELSE status

(* The shared word after the compare-and-swap from -> to. *)
TransitionSharedState(from, to) ==
    IF status = from /\ IsMountTransitionAllowed(from, to) THEN to ELSE status

(* Both compare-and-swaps of PublishPendingFailure: only the app's own     *)
(* cancel can make the first one fail, and nothing then races the second.  *)
PublishPendingFailure ==
    /\ result' = "error"
    /\ status' = IF status = "pending"
                 THEN TransitionSharedState("pending", "failed")
                 ELSE TransitionSharedState("cancel_requested", "cancelled")

IsCancelRequested == status = "cancel_requested"
-----------------------------------------------------------------------------
(* The app: preAppSpecialize, WaitForSharedResult, postAppSpecialize.      *)

AppResumed == {"active", "failopen", "tainted", "unloaded"}

(* preAppSpecialize: a connect, memfd or send failure unloads the module;  *)
(* the companion then sees a truncated request and returns.                *)
AppSendPlan ==
    /\ appPc = "pre"
    /\ \/ appPc' = "wait" /\ parPc' = "recv"
       \/ appPc' = "unloaded" /\ UNCHANGED parPc
    /\ UNCHANGED <<plan, sharedVars, nsVars, graceUsed, received, parSeen, gotReport,
                   ownerDeath, nsKnown, childErr, record, workVars, sent>>

(* A status with a result, or "cancelled", ends either wait loop. *)
AppSeeResult ==
    /\ appPc \in {"wait", "owner"}
    /\ IsMountTransactionTerminal(status)
    /\ received' = MountTransactionHasResult(status)
    /\ appPc' = "read"
    /\ UNCHANGED <<plan, sharedVars, nsVars, graceUsed, parVars, workVars, sent>>

(* Mutant: the grace period is renewed for ever. *)
AppDeadlineRenewed ==
    /\ appPc = "wait"
    /\ ~IsMountTransactionTerminal(status)
    /\ status # "applying"
    /\ appPc' = IF status = "pending" THEN "cancelPending" ELSE "owner"
    /\ UNCHANGED <<plan, sharedVars, nsVars, graceUsed, received, parVars, workVars, sent>>

(* The deadline has passed; the status loaded before it decides. *)
AppDeadline ==
    /\ appPc = "wait"
    /\ ~IsMountTransactionTerminal(status)
    /\ IF status = "applying" /\ ~graceUsed
       THEN graceUsed' = TRUE /\ UNCHANGED appPc
       ELSE /\ appPc' = CASE status = "pending" -> "cancelPending"
                          [] status = "applying" -> "cancelApplying"
                          [] OTHER -> "owner"
            /\ UNCHANGED graceUsed
    /\ UNCHANGED <<plan, sharedVars, nsVars, received, parVars, workVars, sent>>

(* Mutant: the outcome of the compare-and-swap is ignored. *)
AppCancelPendingBlindly ==
    /\ appPc = "cancelPending"
    /\ status' = TransitionSharedState("pending", "cancel_requested")
    /\ appPc' = "read"
    /\ received' = FALSE
    /\ UNCHANGED <<plan, result, nsVars, graceUsed, parVars, workVars, sent>>

AppCancelPending ==
    /\ appPc = "cancelPending"
    /\ status' = TransitionSharedState("pending", "cancel_requested")
    /\ appPc' = IF status = "pending" THEN "read" ELSE "wait"
    /\ received' = FALSE
    /\ UNCHANGED <<plan, result, nsVars, graceUsed, parVars, workVars, sent>>

(* Mutant: the app does not wait for the rollback it asked for. *)
AppCancelApplyingAndGo ==
    /\ appPc = "cancelApplying"
    /\ status' = TransitionSharedState("applying", "cancel_requested")
    /\ appPc' = IF status = "applying" THEN "read" ELSE "wait"
    /\ UNCHANGED <<plan, result, nsVars, graceUsed, received, parVars, workVars, sent>>

AppCancelApplying ==
    /\ appPc = "cancelApplying"
    /\ status' = TransitionSharedState("applying", "cancel_requested")
    /\ appPc' = IF status = "applying" THEN "owner" ELSE "wait"
    /\ UNCHANGED <<plan, result, nsVars, graceUsed, received, parVars, workVars, sent>>

(* kApplyingOwnerDeathTimeoutMs without an answer: kill(getpid(), SIGKILL) *)
AppOwnerDeadline ==
    /\ appPc = "owner"
    /\ ~IsMountTransactionTerminal(status)
    /\ appPc' = "dead"
    /\ UNCHANGED <<plan, sharedVars, nsVars, graceUsed, received, parVars, workVars, sent>>

(* The rest of postAppSpecialize: returning from it runs the app's code. *)
AppResume ==
    /\ appPc = "read"
    /\ appPc' = CASE received /\ result = "ok" /\ status = "complete" -> "active"
                  [] status = "namespace_tainted" -> "tainted"
                  [] OTHER -> "failopen"
    /\ UNCHANGED <<plan, sharedVars, nsVars, graceUsed, received, parVars, workVars, sent>>

(* The system or the user kills the app. *)
AppDies ==
    /\ appPc # "dead"
    /\ appPc' = "dead"
    /\ UNCHANGED <<plan, sharedVars, nsVars, graceUsed, received, parVars, workVars, sent>>

AppStep == \/ AppSendPlan \/ AppSeeResult \/ AppDeadline \/ AppCancelPending
           \/ AppCancelApplying \/ AppOwnerDeadline \/ AppResume
-----------------------------------------------------------------------------
(* The companion: CompanionHandler. *)

(* TerminateNamespaceMembers: SIGKILL to every process whose mount         *)
(* namespace matches.  The scan gives up after 20 rounds and reports no    *)
(* member when /proc cannot be opened.                                     *)
TerminateNamespaceMembers ==
    \/ appPc' = "dead"
    \/ ScanMayMiss /\ UNCHANGED appPc

(* A malformed or rejected request ends the handler; nothing is published. *)
CompanionReceive ==
    /\ parPc = "recv"
    /\ parPc' \in {"policy", "done"}
    /\ UNCHANGED <<plan, sharedVars, nsVars, appVars, parSeen, gotReport, ownerDeath,
                   nsKnown, childErr, record, workVars, sent>>

(* The checks before the fork: policy unchanged, process ready, topology   *)
(* supported.  Each failure is published from "pending".                   *)
CompanionPreflight ==
    /\ parPc \in {"policy", "ready", "topology"}
    /\ \/ /\ parPc' = CASE parPc = "policy" -> "ready"
                        [] parPc = "ready" -> "topology"
                        [] OTHER -> "fork"
          /\ UNCHANGED sharedVars
       \/ PublishPendingFailure /\ parPc' = "record"
    /\ UNCHANGED <<plan, nsVars, appVars, parSeen, gotReport, ownerDeath,
                   nsKnown, childErr, record, workVars, sent>>

(* WaitForProcessReady sees the cancel: MarkSharedCancelled. *)
CompanionCancelled ==
    /\ parPc = "ready"
    /\ IsCancelRequested
    /\ status' = TransitionSharedState("cancel_requested", "cancelled")
    /\ parPc' = "record"
    /\ UNCHANGED <<plan, result, nsVars, appVars, parSeen, gotReport, ownerDeath,
                   nsKnown, childErr, record, workVars, sent>>

(* The namespace identity is known unless the app is gone or stat fails. *)
CompanionFork ==
    /\ parPc = "fork"
    /\ nsKnown' \in {TRUE} \cup (IF appPc = "dead" \/ ScanMayMiss THEN {FALSE} ELSE {})
    /\ \/ parPc' = "await" /\ wPc' = "start" /\ UNCHANGED childErr
       \/ parPc' = "final" /\ childErr' = TRUE /\ UNCHANGED wPc
    /\ UNCHANGED <<plan, sharedVars, nsVars, appVars, parSeen, gotReport, ownerDeath,
                   record, txVars, backend, locked, sent>>

CompanionRead ==
    /\ parPc = "await"
    /\ sent # "none"
    /\ gotReport' = TRUE
    /\ childErr' = (sent = "error")
    /\ parPc' = "reap"
    /\ UNCHANGED <<plan, sharedVars, nsVars, appVars, parSeen, ownerDeath, nsKnown,
                   record, workVars, sent>>

(* The read timed out, or met the end of a dead worker's socket. *)
CompanionTimeout ==
    /\ parPc = "await"
    /\ sent = "none"
    /\ parPc' = IF status \in {"applying", "cancel_requested"} THEN "sigkill" ELSE "sigterm"
    /\ UNCHANGED <<plan, sharedVars, nsVars, appVars, parSeen, gotReport, ownerDeath,
                   nsKnown, childErr, record, workVars, sent>>

WorkerKilled == wPc' = IF wPc = "exited" THEN "exited" ELSE "dead"

(* SIGKILL and owner death, or SIGTERM and a last read of the socket. *)
CompanionKill ==
    /\ parPc \in {"sigkill", "sigterm"}
    /\ WorkerKilled
    /\ ownerDeath' = (parPc = "sigkill")
    /\ gotReport' = (parPc = "sigterm" /\ sent # "none")
    /\ childErr' = ~(gotReport' /\ sent = "ok")
    /\ parPc' = "reap"
    /\ UNCHANGED <<plan, sharedVars, nsVars, appVars, parSeen, nsKnown, record,
                   txVars, backend, locked, sent>>

(* waitpid returned; after_wait is loaded. *)
CompanionReap ==
    /\ parPc = "reap"
    /\ wPc \in {"exited", "dead"}
    /\ parSeen' = status
    /\ parPc' = IF ownerDeath /\ status \in {"applying", "cancel_requested"}
                THEN "taint" ELSE "final"
    /\ UNCHANGED <<plan, sharedVars, nsVars, appVars, gotReport, ownerDeath, nsKnown,
                   childErr, record, workVars, sent>>

CompanionTaint ==
    /\ parPc = "taint"
    /\ result' = "error"
    /\ status' = TransitionSharedState(parSeen, "namespace_tainted")
    /\ parPc' = IF nsKnown THEN "terminate" ELSE "final"
    /\ UNCHANGED <<plan, nsVars, appVars, parSeen, gotReport, ownerDeath, nsKnown,
                   childErr, record, workVars, sent>>

CompanionTerminate ==
    /\ parPc = "terminate"
    /\ TerminateNamespaceMembers
    /\ parPc' = "final"
    /\ UNCHANGED <<plan, sharedVars, nsVars, graceUsed, received, parSeen, gotReport,
                   ownerDeath, nsKnown, childErr, record, workVars, sent>>

(* final_state is loaded. *)
CompanionLoadFinal ==
    /\ parPc = "final"
    /\ parSeen' = status
    /\ parPc' = "publish"
    /\ UNCHANGED <<plan, sharedVars, nsVars, appVars, gotReport, ownerDeath, nsKnown,
                   childErr, record, workVars, sent>>

(* What the companion publishes for a worker that did not. *)
CompanionPublishFinal ==
    /\ parPc = "publish"
    /\ CASE parSeen = "pending" -> PublishPendingFailure
         [] gotReport /\ parSeen = "cancel_requested" /\ childErr ->
                /\ result' = "error"
                /\ status' = TransitionSharedState("cancel_requested", "rollback_complete")
         [] gotReport /\ parSeen = "applying" ->
                /\ result' = IF childErr THEN "error" ELSE "ok"
                /\ status' = TransitionSharedState("applying",
                                 IF childErr THEN "rollback_complete" ELSE "complete")
         [] OTHER -> UNCHANGED sharedVars
    /\ parPc' = "record"
    /\ UNCHANGED <<plan, nsVars, appVars, parSeen, gotReport, ownerDeath, nsKnown,
                   childErr, record, workVars, sent>>

(* WriteRuntimeStatus: the status file of this launch; an I/O error leaves *)
(* no file.                                                                *)
CompanionRecord ==
    /\ parPc = "record"
    /\ record' \in {"none", IF status \in {"complete", "namespace_tainted", "rollback_complete"}
                            THEN status ELSE "failed_preflight"}
    /\ parPc' = "done"
    /\ UNCHANGED <<plan, sharedVars, nsVars, appVars, parSeen, gotReport, ownerDeath,
                   nsKnown, childErr, workVars, sent>>

CompanionCrash ==
    /\ HelperMayCrash
    /\ parPc \notin {"idle", "done", "dead"}
    /\ parPc' = "dead"
    /\ UNCHANGED <<plan, sharedVars, nsVars, appVars, parSeen, gotReport, ownerDeath,
                   nsKnown, childErr, record, workVars, sent>>

CompanionStep ==
    \/ CompanionReceive \/ CompanionPreflight \/ CompanionCancelled \/ CompanionFork
    \/ CompanionRead \/ CompanionTimeout \/ CompanionKill \/ CompanionReap
    \/ CompanionTaint \/ CompanionTerminate \/ CompanionLoadFinal
    \/ CompanionPublishFinal \/ CompanionRecord
-----------------------------------------------------------------------------
(* The worker: ApplyProcessPlan in the forked child. *)

(* Where the worker goes with an error: hydrate the journal if it has any  *)
(* entry, then roll back.                                                  *)
ErrorExit(entries) ==
    IF NeedsPostMountSnapshot(backend, entries > 0, FALSE) THEN "verify" ELSE "rollback"

WorkerStart ==
    /\ wPc = "start"
    /\ err' = IsCancelRequested
    /\ wPc' = IF IsCancelRequested THEN "send" ELSE "preflight"
    /\ UNCHANGED <<plan, sharedVars, nsVars, appVars, parVars, idx, journal, snap, hydrated,
                   rbFailed, untracked, wSeen, backend, locked, sent>>

(* Identity, namespace, pins and revalidation, each of which may fail, and *)
(* the choice of a backend when /storage must be made private.             *)
WorkerPreflight ==
    /\ wPc = "preflight"
    /\ \/ err' = TRUE /\ wPc' = "send" /\ UNCHANGED <<backend, locked>>
       \/ /\ ~plan.private
          /\ wPc' = "check"
          /\ UNCHANGED <<err, backend, locked>>
       \/ /\ plan.private
          /\ \E caps \in ProbeDirectoryMountBackends :
                 backend' = SelectMountBackend(plan.actions, caps, plan.allowLegacy)
          /\ backend' # Unsupported
          /\ backend' = LegacyString => plan.disposable
          /\ locked' = TRUE
          /\ wPc' = "check"
          /\ UNCHANGED err
    /\ UNCHANGED <<plan, sharedVars, nsVars, appVars, parVars, idx, journal, snap, hydrated,
                   rbFailed, untracked, wSeen, sent>>

(* The last cancel check before the lease. *)
WorkerCheck ==
    /\ wPc = "check"
    /\ err' = IsCancelRequested
    /\ wPc' = IF IsCancelRequested THEN "send" ELSE "lease"
    /\ UNCHANGED <<plan, sharedVars, nsVars, appVars, parVars, idx, journal, snap, hydrated,
                   rbFailed, untracked, wSeen, backend, locked, sent>>

(* The shared word after AcquireMutationLease. *)
AcquireMutationLease ==
    IF status = "pending" THEN TransitionSharedState("pending", "applying")
                          ELSE TransitionSharedState("cancel_requested", "cancelled")

(* Mutant: the worker goes on without the lease. *)
WorkerLeaseIgnored ==
    /\ wPc = "lease"
    /\ status' = AcquireMutationLease
    /\ wPc' = "private"
    /\ UNCHANGED <<plan, result, nsVars, appVars, parVars, txVars, backend, locked, sent>>

WorkerLease ==
    /\ wPc = "lease"
    /\ status' = AcquireMutationLease
    /\ err' = (status' # "applying")
    /\ wPc' = IF status' = "applying" THEN "private" ELSE "send"
    /\ UNCHANGED <<plan, result, nsVars, appVars, parVars, idx, journal, snap, hydrated,
                   rbFailed, untracked, wSeen, backend, locked, sent>>

(* mount(MS_REC | MS_PRIVATE) on /storage. *)
WorkerPrivate ==
    /\ wPc = "private"
    /\ \/ private' = plan.private /\ wPc' = "rules" /\ UNCHANGED err
       \/ /\ plan.private
          /\ err' = TRUE
          /\ wPc' = ErrorExit(journal)
          /\ UNCHANGED private
    /\ UNCHANGED <<plan, sharedVars, mounted, appVars, parVars, idx, journal, snap, hydrated,
                   rbFailed, untracked, wSeen, backend, locked, sent>>

(* Mutant: the rule loop runs once too seldom. *)
MoreRulesButLast == idx + 1 < RuleCount

MoreRules == idx < RuleCount

(* The head of the rule loop; after the last rule the same check again. *)
WorkerRuleCheck ==
    /\ wPc = "rules"
    /\ err' = IsCancelRequested
    /\ wPc' = CASE IsCancelRequested -> ErrorExit(journal)
                [] ~IsCancelRequested /\ MoreRules -> "apply"
                [] OTHER -> IF NeedsPostMountSnapshot(backend, journal > 0, TRUE)
                            THEN "verify" ELSE "complete"
    /\ UNCHANGED <<plan, sharedVars, nsVars, appVars, parVars, idx, journal, snap, hydrated,
                   rbFailed, untracked, wSeen, backend, locked, sent>>

JournalHasRoom == journal < JournalCapacity

(* ApplyDirectoryMountRaw succeeded: lock the backend, push the journal. *)
WorkerApply ==
    /\ wPc = "apply"
    /\ mounted' = mounted + 1
    /\ locked' = TRUE
    /\ idx' = idx + 1
    /\ IF JournalHasRoom
       THEN journal' = journal + 1 /\ wPc' = "rules" /\ UNCHANGED <<err, untracked>>
       ELSE /\ err' = TRUE
            /\ untracked' = TRUE
            /\ wPc' = ErrorExit(journal)
            /\ UNCHANGED journal
    /\ UNCHANGED <<plan, sharedVars, private, appVars, parVars, snap, hydrated, rbFailed,
                   wSeen, backend, sent>>

(* Mutant: a backend chosen in the preflight is not binding. *)
FirstRuleMayFallBack == idx = 0

MayFallBack == ~locked /\ idx = 0

(* It failed without changing the namespace: the first rule may fall back  *)
(* to the next backend.                                                    *)
WorkerApplyFails ==
    /\ wPc = "apply"
    /\ LET next == NextMountBackend(backend, plan.actions, plan.allowLegacy, plan.disposable)
       IN  IF ~MayFallBack \/ next = Unsupported
           THEN err' = TRUE /\ wPc' = ErrorExit(journal) /\ UNCHANGED backend
           ELSE backend' = next /\ UNCHANGED <<err, wPc>>
    /\ UNCHANGED <<plan, sharedVars, nsVars, appVars, parVars, idx, journal, snap, hydrated,
                   rbFailed, untracked, wSeen, locked, sent>>

(* PublishSharedResult(applying -> complete), before or after the check of *)
(* the mounts.                                                             *)
WorkerComplete ==
    /\ wPc = "complete"
    /\ result' = "ok"
    /\ status' = TransitionSharedState("applying", "complete")
    /\ err' = (status # "applying")
    /\ wPc' = CASE status = "applying" -> "send"
                [] status # "applying" /\ snap -> "rollback"
                [] OTHER -> ErrorExit(journal)
    /\ UNCHANGED <<plan, nsVars, appVars, parVars, idx, journal, snap, hydrated, rbFailed,
                   untracked, wSeen, backend, locked, sent>>

(* One snapshot after the mutations; VerifyDirectoryMount gives each       *)
(* journal entry its mount ID or reports an error.                         *)
WorkerVerify ==
    /\ wPc = "verify"
    /\ \/ snap' = TRUE /\ hydrated' \in BOOLEAN
       \/ UNCHANGED <<snap, hydrated>>
    /\ err' = (err \/ ~hydrated')
    /\ wPc' = IF err' THEN "rollback" ELSE "complete"
    /\ UNCHANGED <<plan, sharedVars, nsVars, appVars, parVars, idx, journal, rbFailed,
                   untracked, wSeen, backend, locked, sent>>

(* ValidateRollbackDirectoryMount of every entry: an entry without a mount *)
(* ID fails.                                                               *)
WorkerRollback ==
    /\ wPc = "rollback"
    /\ idx' = journal
    /\ \/ /\ journal > 0 => hydrated
          /\ wPc' = IF journal > 0 THEN "unmount" ELSE "publish"
          /\ UNCHANGED rbFailed
       \/ journal > 0 /\ rbFailed' = TRUE /\ wPc' = "publish"
    /\ UNCHANGED <<plan, sharedVars, nsVars, appVars, parVars, journal, snap, hydrated, err,
                   untracked, wSeen, backend, locked, sent>>

(* UnmountTransactionMount, last entry first. *)
WorkerUnmount ==
    /\ wPc = "unmount"
    /\ \/ /\ mounted' = mounted - 1
          /\ idx' = idx - 1
          /\ wPc' = IF idx = 1 THEN "rbverify" ELSE "unmount"
          /\ UNCHANGED rbFailed
       \/ rbFailed' = TRUE /\ wPc' = "publish" /\ UNCHANGED <<mounted, idx>>
    /\ UNCHANGED <<plan, sharedVars, private, appVars, parVars, journal, snap, hydrated, err,
                   untracked, wSeen, backend, locked, sent>>

(* A new snapshot and VerifyRollbackDirectoryMount of every entry. *)
WorkerRollbackVerify ==
    /\ wPc = "rbverify"
    /\ \/ journal' = 0 /\ UNCHANGED rbFailed
       \/ rbFailed' = TRUE /\ UNCHANGED journal
    /\ wPc' = "publish"
    /\ UNCHANGED <<plan, sharedVars, nsVars, appVars, parVars, idx, snap, hydrated, err,
                   untracked, wSeen, backend, locked, sent>>

(* current is loaded for the failure result. *)
WorkerLoadFailure ==
    /\ wPc = "publish"
    /\ wSeen' = status
    /\ wPc' = "publishCas"
    /\ UNCHANGED <<plan, sharedVars, nsVars, appVars, parVars, idx, journal, snap, hydrated,
                   err, rbFailed, untracked, backend, locked, sent>>

(* Mutant: a failed rollback is not a taint. *)
WorkerTaintsUnlessRolledBack == private \/ untracked

(* The worker leaves a namespace it could not restore. *)
WorkerTaints == private \/ rbFailed \/ untracked

WorkerPublishFailure ==
    /\ wPc = "publishCas"
    /\ result' = "error"
    /\ status' = TransitionSharedState(wSeen, IF WorkerTaints THEN "namespace_tainted"
                                                              ELSE "rollback_complete")
    /\ wPc' = IF WorkerTaints THEN "terminate" ELSE "send"
    /\ UNCHANGED <<plan, nsVars, appVars, parVars, txVars, backend, locked, sent>>

WorkerTerminate ==
    /\ wPc = "terminate"
    /\ TerminateNamespaceMembers
    /\ wPc' = "send"
    /\ UNCHANGED <<plan, sharedVars, nsVars, graceUsed, received, parVars, txVars, backend,
                   locked, sent>>

(* send() of the result packet, then _exit. *)
WorkerSend ==
    /\ wPc = "send"
    /\ sent' = IF err THEN "error" ELSE "ok"
    /\ wPc' = "exited"
    /\ UNCHANGED <<plan, sharedVars, nsVars, appVars, parVars, txVars, backend, locked>>

WorkerCrash ==
    /\ HelperMayCrash
    /\ wPc \notin {"none", "exited", "dead"}
    /\ wPc' = "dead"
    /\ UNCHANGED <<plan, sharedVars, nsVars, appVars, parVars, txVars, backend, locked, sent>>

WorkerStep ==
    \/ WorkerStart \/ WorkerPreflight \/ WorkerCheck \/ WorkerLease \/ WorkerPrivate
    \/ WorkerRuleCheck \/ WorkerApply \/ WorkerApplyFails \/ WorkerComplete
    \/ WorkerVerify \/ WorkerRollback \/ WorkerUnmount \/ WorkerRollbackVerify
    \/ WorkerLoadFailure \/ WorkerPublishFailure \/ WorkerTerminate \/ WorkerSend
-----------------------------------------------------------------------------
Plans ==
    [actions : SUBSET MountActions \ {{}}, allowLegacy : BOOLEAN,
     private : BOOLEAN, disposable : BOOLEAN]

Init ==
    /\ plan \in Plans
    /\ status = "pending" /\ result = "ok"
    /\ mounted = 0 /\ private = FALSE
    /\ appPc = "pre" /\ graceUsed = FALSE /\ received = FALSE
    /\ parPc = "idle" /\ parSeen = "pending" /\ gotReport = FALSE /\ ownerDeath = FALSE
    /\ nsKnown = FALSE /\ childErr = FALSE /\ record = "none"
    /\ wPc = "none" /\ idx = 0 /\ journal = 0 /\ snap = FALSE /\ hydrated = FALSE
    /\ err = FALSE /\ rbFailed = FALSE /\ untracked = FALSE
    /\ backend = StrictOpenTree /\ locked = FALSE /\ wSeen = "pending" /\ sent = "none"

(* Every process has finished; the launch is over. *)
Finished ==
    /\ appPc \in AppResumed \cup {"dead"}
    /\ parPc \in {"idle", "done", "dead"}
    /\ wPc \in {"none", "exited", "dead"}
    /\ UNCHANGED vars

Next == \/ AppStep \/ AppDies
        \/ CompanionStep \/ CompanionCrash
        \/ WorkerStep \/ WorkerCrash
        \/ Finished

Fairness == WF_vars(AppStep) /\ WF_vars(CompanionStep) /\ WF_vars(WorkerStep)

Spec == Init /\ [][Next]_vars /\ Fairness
-----------------------------------------------------------------------------
AppPc == {"pre", "wait", "cancelPending", "cancelApplying", "owner", "read", "dead"}
             \cup AppResumed

ParPc == {"idle", "recv", "policy", "ready", "topology", "fork", "await", "sigkill",
          "sigterm", "reap", "taint", "terminate", "final", "publish", "record",
          "done", "dead"}

WorkerPc == {"none", "start", "preflight", "check", "lease", "private", "rules", "apply",
             "complete", "verify", "rollback", "unmount", "rbverify", "publish",
             "publishCas", "terminate", "send", "exited", "dead"}

(* The type invariant: counters stay within the plan and the journal. *)
TypeOK ==
    /\ plan \in Plans
    /\ status \in MountTransactionState /\ result \in {"ok", "error"}
    /\ mounted \in 0..RuleCount /\ private \in BOOLEAN
    /\ appPc \in AppPc /\ graceUsed \in BOOLEAN /\ received \in BOOLEAN
    /\ parPc \in ParPc /\ parSeen \in MountTransactionState
    /\ gotReport \in BOOLEAN /\ ownerDeath \in BOOLEAN /\ nsKnown \in BOOLEAN
    /\ childErr \in BOOLEAN
    /\ record \in {"none", "complete", "namespace_tainted", "rollback_complete",
                   "failed_preflight"}
    /\ wPc \in WorkerPc /\ idx \in 0..RuleCount /\ journal \in 0..RuleCount
    /\ snap \in BOOLEAN /\ hydrated \in BOOLEAN /\ err \in BOOLEAN
    /\ rbFailed \in BOOLEAN /\ untracked \in BOOLEAN
    /\ backend \in MountBackendKind /\ locked \in BOOLEAN
    /\ wSeen \in MountTransactionState /\ sent \in {"none", "ok", "error"}

(* The namespace is changed only under the mutation lease: while the       *)
(* status word is pending, failed or cancelled there is no mount and no    *)
(* propagation change.  ADR-0003 rules 1, 2 and 5.                         *)
LeaseGuardsNamespace ==
    (mounted > 0 \/ private) => status \notin {"pending", "failed", "cancelled"}

(* Whatever the order of deadlines, kills and late steps, nothing changes  *)
(* the namespace once postAppSpecialize has returned to the app.           *)
NamespaceFrozenOnceResumed ==
    [][(appPc \in AppResumed) => UNCHANGED nsVars]_vars

(* "complete" is all of the plan: in the shared word, for the app that     *)
(* goes on with the redirects active, and in the launch's status file.     *)
CommitIsTotal ==
    (status = "complete" \/ appPc = "active" \/ record = "complete") =>
        mounted = RuleCount /\ private = plan.private

(* An app that postAppSpecialize lets go on without the redirects runs in  *)
(* a namespace the module never changed or has restored.                   *)
FailOpenIsClean ==
    appPc \in {"failopen", "unloaded"} => mounted = 0 /\ ~private

(* A published outcome is final: no late compare-and-swap moves the status *)
(* word and no late PublishSharedResult overwrites the result under it.    *)
OutcomeIsFinal ==
    [][/\ IsMountTransactionTerminal(status) => status' = status
       /\ MountTransactionHasResult(status) => result' = result]_vars

(* The worker's packet agrees with the shared word: it never reports while *)
(* the lease is held, and reports success only after publishing "complete".*)
ReportMatchesStatus ==
    /\ sent = "ok" => status = "complete"
    /\ sent = "error" => status \notin {"applying", "complete"}

(* The backend is fixed from the first change of the namespace on: no      *)
(* retry of a later rule falls back to a weaker one.                       *)
BackendFixedByMutation ==
    [][(mounted > 0 \/ private) => backend' = backend]_vars

(* The string backend runs only where the policy allows it, the app is     *)
(* alone in its namespace, and no rule denies.                             *)
LegacyOnlyWhenAuthorized ==
    (backend = LegacyString /\ mounted > 0) =>
        plan.allowLegacy /\ plan.disposable /\ plan.actions = {Redirect}

(* Nobody waits forever: app, companion and worker all come to their end,  *)
(* whichever of them is killed on the way.                                 *)
LaunchTerminates ==
    <>(/\ appPc \in AppResumed \cup {"dead"}
       /\ parPc \in {"idle", "done", "dead"}
       /\ wPc \in {"none", "exited", "dead"})

(* ADR-0003: rollback_complete says that every reversible mount is gone    *)
(* and that the propagation was not changed.                               *)
RollbackCompleteIsClean == status = "rollback_complete" => mounted = 0 /\ ~private

(* ADR-0003, owner death: when the worker dies under the lease the         *)
(* companion publishes namespace_tainted.                                  *)
OwnerDeathIsTainted ==
    (ownerDeath /\ parPc = "done") => status \notin {"applying", "cancel_requested"}

(* ADR-0003: the members of a tainted namespace are terminated.            *)
TaintedIsTerminated == status = "namespace_tainted" ~> appPc = "dead"
=============================================================================
