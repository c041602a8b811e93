---------------------- MODULE MountTransaction_proofs -----------------------
(***************************************************************************)
(* The safety of the mount transaction for every number of rules.  The     *)
(* argument: LeaseDiscipline ties the status word, the namespace and the   *)
(* three program counters together; with TypeOK it is inductive, and every *)
(* safety property is a consequence.                                       *)
(***************************************************************************)
EXTENDS MountTransactionContract, TLAPS

Inv == TypeOK /\ LeaseDiscipline

USE DEF vars, sharedVars, nsVars, appVars, parVars, workVars, txVars
USE RuleCountAssumption, CapacityAssumption, FlagsAssumption
(* Most leaves are first-order; those with arithmetic or records name the  *)
(* SMT solver.                                                             *)
USE Zenon
-----------------------------------------------------------------------------
(* The backend chosen in the preflight: a known one, and the string        *)
(* backend only for redirects under a policy that allows it.               *)
LEMMA SelectedBackend ==
    ASSUME NEW required \in SUBSET MountActions, NEW caps \in ProbeDirectoryMountBackends,
           NEW allowLegacy \in BOOLEAN
    PROVE  /\ SelectMountBackend(required, caps, allowLegacy) \in MountBackendKind
           /\ SelectMountBackend(required, caps, allowLegacy) = LegacyString =>
                  allowLegacy /\ required = {Redirect}
BY SMTT(30) DEF SelectMountBackend, ProbeDirectoryMountBackends, SupportsAllActions, MountActions,
       MountBackendKind, StrictOpenTree, StrictProcFd, LegacyString, Unsupported, Redirect,
       DenyAnchor, Primitives

(* The backend a failed first rule falls back to. *)
LEMMA FallbackBackend ==
    ASSUME NEW current \in MountBackendKind, NEW required \in SUBSET MountActions,
           NEW allowLegacy \in BOOLEAN, NEW namespaceAllowed \in BOOLEAN
    PROVE  /\ NextMountBackend(current, required, allowLegacy, namespaceAllowed)
                  \in {StrictProcFd, LegacyString, Unsupported}
           /\ NextMountBackend(current, required, allowLegacy, namespaceAllowed)
                  = LegacyString => allowLegacy /\ namespaceAllowed /\ required = {Redirect}
BY DEF NextMountBackend, SupportsAllActions, MountActions,
       MountBackendKind, StrictOpenTree, StrictProcFd, LegacyString, Unsupported, Redirect,
       DenyAnchor

-----------------------------------------------------------------------------
(* The type invariant in three parts, which the steps keep for different   *)
(* reasons: flags, enumerations and counters.                              *)
FlagTypes ==
    /\ private \in BOOLEAN /\ graceUsed \in BOOLEAN /\ received \in BOOLEAN
    /\ gotReport \in BOOLEAN /\ ownerDeath \in BOOLEAN /\ nsKnown \in BOOLEAN
    /\ childErr \in BOOLEAN /\ snap \in BOOLEAN /\ hydrated \in BOOLEAN
    /\ err \in BOOLEAN /\ rbFailed \in BOOLEAN /\ untracked \in BOOLEAN
    /\ locked \in BOOLEAN
WordTypes ==
    /\ plan \in Plans /\ status \in MountTransactionState /\ result \in {"ok", "error"}
    /\ appPc \in AppPc /\ parPc \in ParPc /\ parSeen \in MountTransactionState
    /\ record \in {"none", "complete", "namespace_tainted", "rollback_complete",
                   "failed_preflight"}
    /\ wPc \in WorkerPc /\ backend \in MountBackendKind
    /\ wSeen \in MountTransactionState /\ sent \in {"none", "ok", "error"}
CounterTypes == mounted \in 0..RuleCount /\ idx \in 0..RuleCount /\ journal \in 0..RuleCount

(* The parts are the whole. *)
LEMMA TypeParts == TypeOK <=> FlagTypes /\ WordTypes /\ CounterTypes
BY DEF TypeOK, FlagTypes, WordTypes, CounterTypes

(* And so they are after a step. *)
LEMMA TypePartsNext == FlagTypes' /\ WordTypes' /\ CounterTypes' => TypeOK'
BY DEF TypeOK, FlagTypes, WordTypes, CounterTypes

(* The app's steps keep the types. *)
LEMMA AppTypes == ASSUME Inv, AppStep \/ AppDies PROVE TypeOK'
<1>0. FlagTypes /\ WordTypes /\ CounterTypes BY TypeParts DEF Inv
<1>1. FlagTypes'
  <2> USE <1>0 DEF FlagTypes
  <2>1. CASE AppSendPlan BY <2>1, SMTT(30) DEF AppSendPlan
  <2>2. CASE AppSeeResult
    <3>1. received' \in BOOLEAN BY <2>2, SMTT(30) DEF AppSeeResult, MountTransactionHasResult
    <3>2. UNCHANGED <<private, graceUsed, gotReport, ownerDeath, nsKnown, childErr, snap,
           hydrated, err, rbFailed, untracked, locked>> BY <2>2 DEF AppSeeResult
    <3> QED BY <3>1, <3>2, SMTT(30)
  <2>3. CASE AppDeadline
    <3>1. graceUsed' \in BOOLEAN BY <2>3 DEF AppDeadline
    <3>2. UNCHANGED <<private, received, gotReport, ownerDeath, nsKnown, childErr, snap,
           hydrated, err, rbFailed, untracked, locked>> BY <2>3 DEF AppDeadline
    <3> QED BY <3>1, <3>2, SMTT(30)
  <2>4. CASE AppCancelPending
    <3>1. received' \in BOOLEAN BY <2>4 DEF AppCancelPending
    <3>2. UNCHANGED <<private, graceUsed, gotReport, ownerDeath, nsKnown, childErr, snap,
           hydrated, err, rbFailed, untracked, locked>> BY <2>4 DEF AppCancelPending
    <3> QED BY <3>1, <3>2, SMTT(30)
  <2>5. CASE AppCancelApplying BY <2>5, SMTT(30) DEF AppCancelApplying
  <2>6. CASE AppOwnerDeadline BY <2>6, SMTT(30) DEF AppOwnerDeadline
  <2>7. CASE AppResume BY <2>7, SMTT(30) DEF AppResume
  <2>8. CASE AppDies BY <2>8, SMTT(30) DEF AppDies
  <2> QED BY <2>1, <2>2, <2>3, <2>4, <2>5, <2>6, <2>7, <2>8 DEF AppStep
<1>2. WordTypes'
  <2> USE <1>0 DEF WordTypes
  <2>1. CASE AppSendPlan BY <2>1, SMTT(30) DEF AppSendPlan, AppPc, AppResumed, ParPc
  <2>2. CASE AppSeeResult BY <2>2 DEF AppSeeResult, AppPc
  <2>3. CASE AppDeadline BY <2>3 DEF AppDeadline, AppPc
  <2>4. CASE AppCancelPending BY <2>4, SMTT(30) DEF AppCancelPending, AppPc, TransitionSharedState,
         MountTransactionState
  <2>5. CASE AppCancelApplying BY <2>5, SMTT(30) DEF AppCancelApplying, AppPc, TransitionSharedState,
         MountTransactionState
  <2>6. CASE AppOwnerDeadline BY <2>6 DEF AppOwnerDeadline, AppPc
  <2>7. CASE AppResume BY <2>7 DEF AppResume, AppPc, AppResumed
  <2>8. CASE AppDies BY <2>8 DEF AppDies, AppPc
  <2> QED BY <2>1, <2>2, <2>3, <2>4, <2>5, <2>6, <2>7, <2>8 DEF AppStep
<1>3. CounterTypes' BY <1>0 DEF CounterTypes, AppStep, AppSendPlan, AppSeeResult,
       AppDeadline, AppCancelPending, AppCancelApplying, AppOwnerDeadline, AppResume,
       AppDies
<1> QED BY <1>1, <1>2, <1>3, TypePartsNext

(* The companion's steps keep the types. *)
LEMMA CompanionTypes == ASSUME Inv, CompanionStep \/ CompanionCrash PROVE TypeOK'
<1>0. FlagTypes /\ WordTypes /\ CounterTypes BY TypeParts DEF Inv
<1>1. FlagTypes'
  <2> USE <1>0 DEF FlagTypes
  <2>1. CASE CompanionReceive BY <2>1, SMTT(30) DEF CompanionReceive
  <2>2. CASE CompanionPreflight BY <2>2, SMTT(30) DEF CompanionPreflight
  <2>3. CASE CompanionCancelled BY <2>3, SMTT(30) DEF CompanionCancelled
  <2>4. CASE CompanionFork
    <3>1. nsKnown' \in BOOLEAN BY <2>4 DEF CompanionFork
    <3>2. childErr' \in BOOLEAN BY <2>4 DEF CompanionFork
    <3>3. UNCHANGED <<private, graceUsed, received, gotReport, ownerDeath, snap, hydrated,
           err, rbFailed, untracked, locked>> BY <2>4 DEF CompanionFork
    <3> QED BY <3>1, <3>2, <3>3, SMTT(30)
  <2>5. CASE CompanionRead
    <3>1. gotReport' \in BOOLEAN BY <2>5 DEF CompanionRead
    <3>2. childErr' \in BOOLEAN BY <2>5 DEF CompanionRead
    <3>3. UNCHANGED <<private, graceUsed, received, ownerDeath, nsKnown, snap, hydrated,
           err, rbFailed, untracked, locked>> BY <2>5 DEF CompanionRead
    <3> QED BY <3>1, <3>2, <3>3, SMTT(30)
  <2>6. CASE CompanionTimeout BY <2>6, SMTT(30) DEF CompanionTimeout
  <2>7. CASE CompanionKill
    <3>1. ownerDeath' \in BOOLEAN BY <2>7 DEF CompanionKill
    <3>2. gotReport' \in BOOLEAN BY <2>7 DEF CompanionKill
    <3>3. childErr' \in BOOLEAN BY <2>7 DEF CompanionKill
    <3>4. UNCHANGED <<private, graceUsed, received, nsKnown, snap, hydrated, err, rbFailed,
           untracked, locked>> BY <2>7 DEF CompanionKill
    <3> QED BY <3>1, <3>2, <3>3, <3>4
  <2>8. CASE CompanionReap BY <2>8, SMTT(30) DEF CompanionReap
  <2>9. CASE CompanionTaint BY <2>9, SMTT(30) DEF CompanionTaint
  <2>10. CASE CompanionTerminate BY <2>10, SMTT(30) DEF CompanionTerminate
  <2>11. CASE CompanionLoadFinal BY <2>11, SMTT(30) DEF CompanionLoadFinal
  <2>12. CASE CompanionPublishFinal BY <2>12, SMTT(30) DEF CompanionPublishFinal
  <2>13. CASE CompanionRecord BY <2>13, SMTT(30) DEF CompanionRecord
  <2>14. CASE CompanionCrash BY <2>14, SMTT(30) DEF CompanionCrash
  <2> QED BY <2>1, <2>2, <2>3, <2>4, <2>5, <2>6, <2>7, <2>8, <2>9, <2>10, <2>11, <2>12,
         <2>13, <2>14 DEF CompanionStep
<1>2. WordTypes'
  <2> USE <1>0 DEF WordTypes
  <2>1. CASE CompanionReceive BY <2>1 DEF CompanionReceive, ParPc
  <2>2. CASE CompanionPreflight BY <2>2, SMTT(30) DEF CompanionPreflight, PublishPendingFailure,
         ParPc, TransitionSharedState, MountTransactionState
  <2>3. CASE CompanionCancelled BY <2>3, SMTT(30) DEF CompanionCancelled, ParPc,
         TransitionSharedState, MountTransactionState
  <2>4. CASE CompanionFork BY <2>4 DEF CompanionFork, ParPc, WorkerPc
  <2>5. CASE CompanionRead BY <2>5 DEF CompanionRead, ParPc
  <2>6. CASE CompanionTimeout BY <2>6 DEF CompanionTimeout, ParPc
  <2>7. CASE CompanionKill BY <2>7 DEF CompanionKill, WorkerKilled, ParPc, WorkerPc
  <2>8. CASE CompanionReap BY <2>8 DEF CompanionReap, ParPc
  <2>9. CASE CompanionTaint BY <2>9, SMTT(30) DEF CompanionTaint, ParPc, TransitionSharedState,
         MountTransactionState
  <2>10. CASE CompanionTerminate BY <2>10 DEF CompanionTerminate, TerminateNamespaceMembers,
         ParPc, AppPc
  <2>11. CASE CompanionLoadFinal BY <2>11 DEF CompanionLoadFinal, ParPc
  <2>12. CASE CompanionPublishFinal BY <2>12, SMTT(30) DEF CompanionPublishFinal,
         PublishPendingFailure, ParPc, TransitionSharedState, MountTransactionState
  <2>13. CASE CompanionRecord BY <2>13 DEF CompanionRecord, ParPc
  <2>14. CASE CompanionCrash BY <2>14 DEF CompanionCrash, ParPc
  <2> QED BY <2>1, <2>2, <2>3, <2>4, <2>5, <2>6, <2>7, <2>8, <2>9, <2>10, <2>11, <2>12,
         <2>13, <2>14 DEF CompanionStep
<1>3. CounterTypes' BY <1>0 DEF CounterTypes, CompanionStep, CompanionReceive,
       CompanionPreflight, CompanionCancelled, CompanionFork, CompanionRead,
       CompanionTimeout, CompanionKill, CompanionReap, CompanionTaint, CompanionTerminate,
       CompanionLoadFinal, CompanionPublishFinal, CompanionRecord, CompanionCrash
<1> QED BY <1>1, <1>2, <1>3, TypePartsNext

(* The worker's steps keep the types. *)
LEMMA WorkerTypes == ASSUME Inv, WorkerStep \/ WorkerCrash PROVE TypeOK'
<1>0. FlagTypes /\ WordTypes /\ CounterTypes BY TypeParts DEF Inv
<1>1. FlagTypes'
  <2> USE <1>0 DEF FlagTypes
  <2>1. CASE WorkerStart
    <3>1. err' \in BOOLEAN BY <2>1 DEF WorkerStart, IsCancelRequested
    <3>2. UNCHANGED <<private, graceUsed, received, gotReport, ownerDeath, nsKnown,
           childErr, snap, hydrated, rbFailed, untracked, locked>> BY <2>1 DEF WorkerStart
    <3> QED BY <3>1, <3>2, SMTT(30)
  <2>2. CASE WorkerPreflight
    <3>1. err' \in BOOLEAN BY <2>2 DEF WorkerPreflight
    <3>2. locked' \in BOOLEAN BY <2>2 DEF WorkerPreflight
    <3>3. UNCHANGED <<private, graceUsed, received, gotReport, ownerDeath, nsKnown,
           childErr, snap, hydrated, rbFailed, untracked>> BY <2>2 DEF WorkerPreflight
    <3> QED BY <3>1, <3>2, <3>3, SMTT(30)
  <2>3. CASE WorkerCheck
    <3>1. err' \in BOOLEAN BY <2>3 DEF WorkerCheck, IsCancelRequested
    <3>2. UNCHANGED <<private, graceUsed, received, gotReport, ownerDeath, nsKnown,
           childErr, snap, hydrated, rbFailed, untracked, locked>> BY <2>3 DEF WorkerCheck
    <3> QED BY <3>1, <3>2, SMTT(30)
  <2>4. CASE WorkerLease
    <3>1. err' \in BOOLEAN BY <2>4 DEF WorkerLease
    <3>2. UNCHANGED <<private, graceUsed, received, gotReport, ownerDeath, nsKnown,
           childErr, snap, hydrated, rbFailed, untracked, locked>> BY <2>4 DEF WorkerLease
    <3> QED BY <3>1, <3>2, SMTT(30)
  <2>5. CASE WorkerPrivate
    <3>1. private' \in BOOLEAN BY <2>5 DEF WorkerPrivate, WordTypes, Plans
    <3>2. err' \in BOOLEAN BY <2>5 DEF WorkerPrivate, WordTypes, Plans
    <3>3. UNCHANGED <<graceUsed, received, gotReport, ownerDeath, nsKnown, childErr, snap,
           hydrated, rbFailed, untracked, locked>> BY <2>5 DEF WorkerPrivate
    <3> QED BY <3>1, <3>2, <3>3, SMTT(30)
  <2>6. CASE WorkerRuleCheck
    <3>1. err' \in BOOLEAN BY <2>6 DEF WorkerRuleCheck, IsCancelRequested
    <3>2. UNCHANGED <<private, graceUsed, received, gotReport, ownerDeath, nsKnown,
           childErr, snap, hydrated, rbFailed, untracked, locked>> BY <2>6 DEF
           WorkerRuleCheck
    <3> QED BY <3>1, <3>2, SMTT(30)
  <2>7. CASE WorkerApply
    <3>1. locked' \in BOOLEAN BY <2>7 DEF WorkerApply
    <3>2. err' \in BOOLEAN BY <2>7 DEF WorkerApply
    <3>3. untracked' \in BOOLEAN BY <2>7 DEF WorkerApply
    <3>4. UNCHANGED <<private, graceUsed, received, gotReport, ownerDeath, nsKnown,
           childErr, snap, hydrated, rbFailed>> BY <2>7 DEF WorkerApply
    <3> QED BY <3>1, <3>2, <3>3, <3>4, SMTT(30)
  <2>8. CASE WorkerApplyFails
    <3>1. err' \in BOOLEAN BY <2>8 DEF WorkerApplyFails
    <3>2. UNCHANGED <<private, graceUsed, received, gotReport, ownerDeath, nsKnown,
           childErr, snap, hydrated, rbFailed, untracked, locked>> BY <2>8 DEF
           WorkerApplyFails
    <3> QED BY <3>1, <3>2, SMTT(30)
  <2>9. CASE WorkerComplete
    <3>1. err' \in BOOLEAN BY <2>9 DEF WorkerComplete
    <3>2. UNCHANGED <<private, graceUsed, received, gotReport, ownerDeath, nsKnown,
           childErr, snap, hydrated, rbFailed, untracked, locked>> BY <2>9 DEF
           WorkerComplete
    <3> QED BY <3>1, <3>2
  <2>10. CASE WorkerVerify
    <3>1. snap' \in BOOLEAN BY <2>10 DEF WorkerVerify
    <3>2. hydrated' \in BOOLEAN BY <2>10 DEF WorkerVerify
    <3>3. err' \in BOOLEAN BY <2>10 DEF WorkerVerify
    <3>4. UNCHANGED <<private, graceUsed, received, gotReport, ownerDeath, nsKnown,
           childErr, rbFailed, untracked, locked>> BY <2>10 DEF WorkerVerify
    <3> QED BY <3>1, <3>2, <3>3, <3>4
  <2>11. CASE WorkerRollback
    <3>1. rbFailed' \in BOOLEAN BY <2>11 DEF WorkerRollback
    <3>2. UNCHANGED <<private, graceUsed, received, gotReport, ownerDeath, nsKnown,
           childErr, snap, hydrated, err, untracked, locked>> BY <2>11 DEF WorkerRollback
    <3> QED BY <3>1, <3>2, SMTT(30)
  <2>12. CASE WorkerUnmount
    <3>1. rbFailed' \in BOOLEAN BY <2>12 DEF WorkerUnmount
    <3>2. UNCHANGED <<private, graceUsed, received, gotReport, ownerDeath, nsKnown,
           childErr, snap, hydrated, err, untracked, locked>> BY <2>12 DEF WorkerUnmount
    <3> QED BY <3>1, <3>2, SMTT(30)
  <2>13. CASE WorkerRollbackVerify
    <3>1. rbFailed' \in BOOLEAN BY <2>13 DEF WorkerRollbackVerify
    <3>2. UNCHANGED <<private, graceUsed, received, gotReport, ownerDeath, nsKnown,
           childErr, snap, hydrated, err, untracked, locked>> BY <2>13 DEF
           WorkerRollbackVerify
    <3> QED BY <3>1, <3>2, SMTT(30)
  <2>14. CASE WorkerLoadFailure BY <2>14, SMTT(30) DEF WorkerLoadFailure
  <2>15. CASE WorkerPublishFailure BY <2>15, SMTT(30) DEF WorkerPublishFailure
  <2>16. CASE WorkerTerminate BY <2>16, SMTT(30) DEF WorkerTerminate
  <2>17. CASE WorkerSend BY <2>17, SMTT(30) DEF WorkerSend
  <2>18. CASE WorkerCrash BY <2>18, SMTT(30) DEF WorkerCrash
  <2> QED BY <2>1, <2>2, <2>3, <2>4, <2>5, <2>6, <2>7, <2>8, <2>9, <2>10, <2>11, <2>12,
         <2>13, <2>14, <2>15, <2>16, <2>17, <2>18 DEF WorkerStep
<1>2. WordTypes'
  <2> USE <1>0 DEF WordTypes
  <2>1. CASE WorkerStart BY <2>1 DEF WorkerStart, WorkerPc
  <2>2. CASE WorkerPreflight BY <2>2, SelectedBackend, SMTT(30) DEF WorkerPreflight, WorkerPc, Plans
  <2>3. CASE WorkerCheck BY <2>3 DEF WorkerCheck, WorkerPc
  <2>4. CASE WorkerLease BY <2>4, SMTT(30) DEF WorkerLease, AcquireMutationLease, WorkerPc,
         TransitionSharedState, MountTransactionState
  <2>5. CASE WorkerPrivate BY <2>5 DEF WorkerPrivate, ErrorExit, WorkerPc
  <2>6. CASE WorkerRuleCheck BY <2>6 DEF WorkerRuleCheck, ErrorExit, WorkerPc
  <2>7. CASE WorkerApply BY <2>7 DEF WorkerApply, ErrorExit, WorkerPc
  <2>8. CASE WorkerApplyFails
    <3>1. /\ plan.actions \in SUBSET MountActions /\ plan.allowLegacy \in BOOLEAN
          /\ plan.disposable \in BOOLEAN
      BY DEF Plans
    <3>2. NextMountBackend(backend, plan.actions, plan.allowLegacy, plan.disposable)
              \in MountBackendKind
      BY <3>1, FallbackBackend, SMTT(30) DEF MountBackendKind
    <3>3. backend' \in MountBackendKind BY <2>8, <3>2 DEF WorkerApplyFails
    <3>4. wPc' \in WorkerPc BY <2>8 DEF WorkerApplyFails, ErrorExit, WorkerPc
    <3>5. UNCHANGED <<plan, status, result, appPc, parPc, parSeen, record, wSeen, sent>>
      BY <2>8 DEF WorkerApplyFails
    <3> QED BY <3>3, <3>4, <3>5
  <2>9. CASE WorkerComplete BY <2>9, SMTT(30) DEF WorkerComplete, ErrorExit, WorkerPc,
         TransitionSharedState, MountTransactionState
  <2>10. CASE WorkerVerify BY <2>10 DEF WorkerVerify, WorkerPc
  <2>11. CASE WorkerRollback BY <2>11 DEF WorkerRollback, WorkerPc
  <2>12. CASE WorkerUnmount BY <2>12 DEF WorkerUnmount, WorkerPc
  <2>13. CASE WorkerRollbackVerify BY <2>13 DEF WorkerRollbackVerify, WorkerPc
  <2>14. CASE WorkerLoadFailure BY <2>14 DEF WorkerLoadFailure, WorkerPc
  <2>15. CASE WorkerPublishFailure BY <2>15, SMTT(30) DEF WorkerPublishFailure, WorkerPc,
         TransitionSharedState, MountTransactionState
  <2>16. CASE WorkerTerminate BY <2>16 DEF WorkerTerminate, TerminateNamespaceMembers,
         WorkerPc, AppPc
  <2>17. CASE WorkerSend BY <2>17 DEF WorkerSend, WorkerPc
  <2>18. CASE WorkerCrash BY <2>18 DEF WorkerCrash, WorkerPc
  <2> QED BY <2>1, <2>2, <2>3, <2>4, <2>5, <2>6, <2>7, <2>8, <2>9, <2>10, <2>11, <2>12,
         <2>13, <2>14, <2>15, <2>16, <2>17, <2>18 DEF WorkerStep
<1>3. CounterTypes'
  <2> USE <1>0 DEF CounterTypes
  <2>1. CASE WorkerApply BY <2>1, SMTT(30) DEF WorkerApply, JournalHasRoom, Inv, LeaseDiscipline,
         WorkerInv
  <2>2. CASE WorkerUnmount BY <2>2, SMTT(30) DEF WorkerUnmount, Inv, LeaseDiscipline, WorkerInv
  <2>3. CASE WorkerRollback BY <2>3 DEF WorkerRollback
  <2>4. CASE WorkerRollbackVerify BY <2>4, SMTT(30) DEF WorkerRollbackVerify
  <2>5. CASE WorkerStart \/ WorkerPreflight \/ WorkerCheck \/ WorkerLease \/ WorkerPrivate
         \/ WorkerRuleCheck \/ WorkerApplyFails BY <2>5 DEF WorkerStart, WorkerPreflight,
         WorkerCheck, WorkerLease, WorkerPrivate, WorkerRuleCheck, WorkerApplyFails
  <2>6. CASE WorkerComplete \/ WorkerVerify \/ WorkerLoadFailure \/ WorkerPublishFailure \/
         WorkerTerminate \/ WorkerSend \/ WorkerCrash BY <2>6 DEF WorkerComplete,
         WorkerVerify, WorkerLoadFailure, WorkerPublishFailure, WorkerTerminate, WorkerSend,
         WorkerCrash
  <2> QED BY <2>1, <2>2, <2>3, <2>4, <2>5, <2>6 DEF WorkerStep
<1> QED BY <1>1, <1>2, <1>3, TypePartsNext

-----------------------------------------------------------------------------
(* The launch starts in the invariant. *)
LEMMA InitInv == Init => Inv
<1> SUFFICES ASSUME Init PROVE Inv OBVIOUS
<1> USE DEF Init
<1>1. TypeOK
  <2>1. mounted \in 0..RuleCount /\ idx \in 0..RuleCount /\ journal \in 0..RuleCount BY SMTT(30)
  <2>2. /\ private \in BOOLEAN /\ graceUsed \in BOOLEAN /\ received \in BOOLEAN
        /\ gotReport \in BOOLEAN /\ ownerDeath \in BOOLEAN /\ nsKnown \in BOOLEAN
        /\ childErr \in BOOLEAN /\ snap \in BOOLEAN /\ hydrated \in BOOLEAN /\ err \in BOOLEAN
        /\ rbFailed \in BOOLEAN /\ untracked \in BOOLEAN /\ locked \in BOOLEAN
    BY Zenon
  <2> QED BY <2>1, <2>2 DEF TypeOK, AppPc, ParPc, WorkerPc, MountTransactionState,
                            MountBackendKind, StrictOpenTree
<1>2. WorkerInv BY DEF WorkerInv, Clean, Full, BeforeLease, UnderLease, RollingBack
<1>3. StatusInv BY DEF StatusInv, Clean, Full, BeforeLease, UnderLease
<1>4. CompanionInv BY DEF CompanionInv, Clean
<1>5. AppInv BY DEF AppInv, Clean, UnderLease
<1>6. CleanInv BY DEF CleanInv, Clean
<1> QED BY <1>1, <1>2, <1>3, <1>4, <1>5, <1>6 DEF Inv, LeaseDiscipline

(* A part of the invariant holds on while nothing it speaks of changes. *)
LEMMA WorkerInvStable == ASSUME WorkerInv, UNCHANGED <<plan, private, untracked, wPc,
       mounted, journal, idx, err, rbFailed, locked>> PROVE WorkerInv'
BY SMTT(30) DEF WorkerInv, Clean, Full

(* Steps that leave the status and the worker alone keep what is known of  *)
(* them.                                                                   *)
LEMMA StatusInvStable == ASSUME StatusInv, UNCHANGED <<plan, wPc, status, wSeen, err, sent,
       private, mounted, result, record>> PROVE StatusInv'
BY DEF StatusInv, Clean, Full

(* The same for the companion. *)
LEMMA CompanionInvStable == ASSUME CompanionInv, UNCHANGED <<parPc, status, wPc, gotReport,
       parSeen, mounted, private>> PROVE CompanionInv'
BY DEF CompanionInv, Clean, Full

(* The same for the app. *)
LEMMA AppInvStable == ASSUME AppInv, UNCHANGED <<appPc, parPc, status, wPc, received,
       mounted, private>> PROVE AppInv'
BY DEF AppInv, Clean, Full

(* The same for the namespace that a launch fails open in. *)
LEMMA CleanInvStable == ASSUME CleanInv, UNCHANGED <<status, mounted, private, appPc, wPc>>
       PROVE CleanInv'
BY DEF CleanInv, Clean, Full

(* The app's steps keep the invariant. *)
LEMMA AppPreserves == ASSUME Inv, AppStep \/ AppDies PROVE Inv'
<1> SUFFICES LeaseDiscipline' BY AppTypes DEF Inv
<1>0. /\ FlagTypes /\ WordTypes /\ CounterTypes
      /\ WorkerInv /\ StatusInv /\ CompanionInv /\ AppInv /\ (~ScanMayMiss => CleanInv)
  BY TypeParts DEF Inv, LeaseDiscipline
<1>1. CASE AppSendPlan
  <2>1. WorkerInv' BY <1>0, <1>1, WorkerInvStable DEF AppSendPlan
  <2>2. StatusInv' BY <1>0, <1>1, StatusInvStable DEF AppSendPlan
  <2>3. CompanionInv' BY <1>0, <1>1 DEF AppSendPlan, CompanionInv, Clean, WorkerInv, Full,
         BeforeLease, UnderLease, RollingBack, StatusInv, AppInv, MountTransactionHasResult,
         CleanInv, CounterTypes
  <2>4. AppInv' BY <1>0, <1>1 DEF AppSendPlan, AppInv, Clean, UnderLease,
         MountTransactionHasResult, WorkerInv, Full, BeforeLease, RollingBack, StatusInv,
         CompanionInv, CleanInv, CounterTypes
  <2>5. ~ScanMayMiss => CleanInv' BY <1>0, <1>1 DEF AppSendPlan, CleanInv, Clean
  <2> QED BY <2>1, <2>2, <2>3, <2>4, <2>5 DEF LeaseDiscipline
<1>2. CASE AppSeeResult
  <2>1. WorkerInv' BY <1>0, <1>2, WorkerInvStable DEF AppSeeResult
  <2>2. StatusInv' BY <1>0, <1>2, StatusInvStable DEF AppSeeResult
  <2>3. CompanionInv' BY <1>0, <1>2, CompanionInvStable DEF AppSeeResult
  <2>4. AppInv' BY <1>0, <1>2 DEF AppSeeResult, IsMountTransactionTerminal, AppInv, Clean,
         UnderLease, MountTransactionHasResult, WorkerInv, Full, BeforeLease, RollingBack,
         StatusInv, CompanionInv, CleanInv, CounterTypes
  <2>5. ~ScanMayMiss => CleanInv' BY <1>0, <1>2 DEF AppSeeResult,
         IsMountTransactionTerminal, CleanInv, Clean
  <2> QED BY <2>1, <2>2, <2>3, <2>4, <2>5 DEF LeaseDiscipline
<1>3. CASE AppDeadline
  <2>1. WorkerInv' BY <1>0, <1>3, WorkerInvStable DEF AppDeadline
  <2>2. StatusInv' BY <1>0, <1>3, StatusInvStable DEF AppDeadline
  <2>3. CompanionInv' BY <1>0, <1>3, CompanionInvStable DEF AppDeadline
  <2>4. AppInv' BY <1>0, <1>3 DEF AppDeadline, IsMountTransactionTerminal, AppInv, Clean,
         UnderLease, MountTransactionHasResult
  <2>5. ~ScanMayMiss => CleanInv' BY <1>0, <1>3 DEF AppDeadline, IsMountTransactionTerminal,
         CleanInv, Clean
  <2> QED BY <2>1, <2>2, <2>3, <2>4, <2>5 DEF LeaseDiscipline
<1>4. CASE AppCancelPending
  <2>1. WorkerInv' BY <1>0, <1>4, WorkerInvStable DEF AppCancelPending
  <2>2. StatusInv' BY <1>0, <1>4 DEF AppCancelPending, TransitionSharedState,
         IsMountTransitionAllowed, StatusInv, Clean, Full, BeforeLease, UnderLease
  <2>3. CompanionInv' BY <1>0, <1>4 DEF AppCancelPending, TransitionSharedState,
         IsMountTransitionAllowed, CompanionInv, Clean, WorkerInv, Full, BeforeLease,
         UnderLease, RollingBack, StatusInv, AppInv, MountTransactionHasResult, CleanInv,
         CounterTypes
  <2>4. AppInv' BY <1>0, <1>4 DEF AppCancelPending, TransitionSharedState,
         IsMountTransitionAllowed, AppInv, Clean, UnderLease, MountTransactionHasResult,
         WorkerInv, Full, BeforeLease, RollingBack, StatusInv, CompanionInv, CleanInv,
         CounterTypes
  <2>5. ~ScanMayMiss => CleanInv' BY <1>0, <1>4 DEF AppCancelPending, TransitionSharedState,
         IsMountTransitionAllowed, CleanInv, Clean, WorkerInv, Full, BeforeLease,
         UnderLease, RollingBack, StatusInv, CompanionInv, AppInv,
         MountTransactionHasResult, CounterTypes
  <2> QED BY <2>1, <2>2, <2>3, <2>4, <2>5 DEF LeaseDiscipline
<1>5. CASE AppCancelApplying
  <2>1. WorkerInv' BY <1>0, <1>5, WorkerInvStable DEF AppCancelApplying
  <2>2. StatusInv' BY <1>0, <1>5 DEF AppCancelApplying, TransitionSharedState,
         IsMountTransitionAllowed, StatusInv, Clean, Full, BeforeLease, UnderLease
  <2>3. CompanionInv' BY <1>0, <1>5 DEF AppCancelApplying, TransitionSharedState,
         IsMountTransitionAllowed, CompanionInv, Clean
  <2>4. AppInv' BY <1>0, <1>5 DEF AppCancelApplying, TransitionSharedState,
         IsMountTransitionAllowed, AppInv, Clean, UnderLease, MountTransactionHasResult
  <2>5. ~ScanMayMiss => CleanInv' BY <1>0, <1>5 DEF AppCancelApplying,
         TransitionSharedState, IsMountTransitionAllowed, CleanInv, Clean, WorkerInv, Full,
         BeforeLease, UnderLease, RollingBack, StatusInv, CompanionInv, AppInv,
         MountTransactionHasResult, CounterTypes
  <2> QED BY <2>1, <2>2, <2>3, <2>4, <2>5 DEF LeaseDiscipline
<1>6. CASE AppOwnerDeadline
  <2>1. WorkerInv' BY <1>0, <1>6, WorkerInvStable DEF AppOwnerDeadline
  <2>2. StatusInv' BY <1>0, <1>6, StatusInvStable DEF AppOwnerDeadline
  <2>3. CompanionInv' BY <1>0, <1>6, CompanionInvStable DEF AppOwnerDeadline
  <2>4. AppInv' BY <1>0, <1>6 DEF AppOwnerDeadline, AppInv, Clean, UnderLease,
         MountTransactionHasResult
  <2>5. ~ScanMayMiss => CleanInv' BY <1>0, <1>6 DEF AppOwnerDeadline, CleanInv, Clean
  <2> QED BY <2>1, <2>2, <2>3, <2>4, <2>5 DEF LeaseDiscipline
<1>7. CASE AppResume
  <2>1. WorkerInv' BY <1>0, <1>7, WorkerInvStable DEF AppResume
  <2>2. StatusInv' BY <1>0, <1>7, StatusInvStable DEF AppResume
  <2>3. CompanionInv' BY <1>0, <1>7, CompanionInvStable DEF AppResume
  <2>4. AppInv' BY <1>0, <1>7 DEF AppResume, MountTransactionHasResult, AppInv, Clean,
         UnderLease
  <2>5. ~ScanMayMiss => CleanInv' BY <1>0, <1>7 DEF AppResume, MountTransactionHasResult,
         CleanInv, Clean, WorkerInv, Full, BeforeLease, UnderLease, RollingBack, StatusInv,
         CompanionInv, AppInv, CounterTypes
  <2> QED BY <2>1, <2>2, <2>3, <2>4, <2>5 DEF LeaseDiscipline
<1>8. CASE AppDies
  <2>1. WorkerInv' BY <1>0, <1>8, WorkerInvStable DEF AppDies
  <2>2. StatusInv' BY <1>0, <1>8, StatusInvStable DEF AppDies
  <2>3. CompanionInv' BY <1>0, <1>8, CompanionInvStable DEF AppDies
  <2>4. AppInv' BY <1>0, <1>8 DEF AppDies, AppInv, Clean, UnderLease,
         MountTransactionHasResult
  <2>5. ~ScanMayMiss => CleanInv' BY <1>0, <1>8 DEF AppDies, CleanInv, Clean
  <2> QED BY <2>1, <2>2, <2>3, <2>4, <2>5 DEF LeaseDiscipline
<1> QED BY <1>1, <1>2, <1>3, <1>4, <1>5, <1>6, <1>7, <1>8 DEF AppStep

(* The companion's steps keep it. *)
LEMMA CompanionPreserves == ASSUME Inv, CompanionStep \/ CompanionCrash PROVE Inv'
<1> SUFFICES LeaseDiscipline' BY CompanionTypes DEF Inv
<1>0. /\ FlagTypes /\ WordTypes /\ CounterTypes
      /\ WorkerInv /\ StatusInv /\ CompanionInv /\ AppInv /\ (~ScanMayMiss => CleanInv)
  BY TypeParts DEF Inv, LeaseDiscipline
<1>1. CASE CompanionReceive
  <2>1. WorkerInv' BY <1>0, <1>1, WorkerInvStable DEF CompanionReceive
  <2>2. StatusInv' BY <1>0, <1>1, StatusInvStable DEF CompanionReceive
  <2>3. CompanionInv' BY <1>0, <1>1 DEF CompanionReceive, CompanionInv, Clean
  <2>4. AppInv' BY <1>0, <1>1 DEF CompanionReceive, AppInv, Clean, UnderLease,
         MountTransactionHasResult
  <2>5. ~ScanMayMiss => CleanInv' BY <1>0, <1>1, CleanInvStable DEF CompanionReceive
  <2> QED BY <2>1, <2>2, <2>3, <2>4, <2>5 DEF LeaseDiscipline
<1>2. CASE CompanionPreflight
  <2>1. WorkerInv' BY <1>0, <1>2, WorkerInvStable DEF CompanionPreflight
  <2>2. StatusInv' BY <1>0, <1>2 DEF CompanionPreflight, PublishPendingFailure,
         TransitionSharedState, IsMountTransitionAllowed, StatusInv, Clean, Full,
         BeforeLease, UnderLease, WorkerInv, RollingBack, CompanionInv, AppInv,
         MountTransactionHasResult, CleanInv, CounterTypes
  <2>3. CompanionInv' BY <1>0, <1>2 DEF CompanionPreflight, PublishPendingFailure,
         TransitionSharedState, IsMountTransitionAllowed, CompanionInv, Clean
  <2>4. AppInv' BY <1>0, <1>2 DEF CompanionPreflight, PublishPendingFailure,
         TransitionSharedState, IsMountTransitionAllowed, AppInv, Clean, UnderLease,
         MountTransactionHasResult
  <2>5. ~ScanMayMiss => CleanInv' BY <1>0, <1>2 DEF CompanionPreflight,
         PublishPendingFailure, TransitionSharedState, IsMountTransitionAllowed, CleanInv,
         Clean
  <2> QED BY <2>1, <2>2, <2>3, <2>4, <2>5 DEF LeaseDiscipline
<1>3. CASE CompanionCancelled
  <2>1. WorkerInv' BY <1>0, <1>3, WorkerInvStable DEF CompanionCancelled
  <2>2. StatusInv' BY <1>0, <1>3 DEF CompanionCancelled, IsCancelRequested,
         TransitionSharedState, IsMountTransitionAllowed, StatusInv, Clean, Full,
         BeforeLease, UnderLease, WorkerInv, RollingBack, CompanionInv, AppInv,
         MountTransactionHasResult, CleanInv, CounterTypes
  <2>3. CompanionInv' BY <1>0, <1>3 DEF CompanionCancelled, IsCancelRequested,
         TransitionSharedState, IsMountTransitionAllowed, CompanionInv, Clean
  <2>4. AppInv' BY <1>0, <1>3 DEF CompanionCancelled, IsCancelRequested,
         TransitionSharedState, IsMountTransitionAllowed, AppInv, Clean, UnderLease,
         MountTransactionHasResult
  <2>5. ~ScanMayMiss => CleanInv' BY <1>0, <1>3 DEF CompanionCancelled, IsCancelRequested,
         TransitionSharedState, IsMountTransitionAllowed, CleanInv, Clean
  <2> QED BY <2>1, <2>2, <2>3, <2>4, <2>5 DEF LeaseDiscipline
<1>4. CASE CompanionFork
  <2>1. WorkerInv' BY <1>0, <1>4 DEF CompanionFork, WorkerInv, Clean, Full, BeforeLease,
         UnderLease, RollingBack, StatusInv, CompanionInv, AppInv,
         MountTransactionHasResult, CleanInv, CounterTypes
  <2>2. StatusInv' BY <1>0, <1>4 DEF CompanionFork, StatusInv, Clean, Full, BeforeLease,
         UnderLease, WorkerInv, RollingBack, CompanionInv, AppInv,
         MountTransactionHasResult, CleanInv, CounterTypes
  <2>3. CompanionInv' BY <1>0, <1>4 DEF CompanionFork, CompanionInv, Clean
  <2>4. AppInv' BY <1>0, <1>4 DEF CompanionFork, AppInv, Clean, UnderLease,
         MountTransactionHasResult
  <2>5. ~ScanMayMiss => CleanInv' BY <1>0, <1>4 DEF CompanionFork, CleanInv, Clean
  <2> QED BY <2>1, <2>2, <2>3, <2>4, <2>5 DEF LeaseDiscipline
<1>5. CASE CompanionRead
  <2>1. WorkerInv' BY <1>0, <1>5, WorkerInvStable DEF CompanionRead
  <2>2. StatusInv' BY <1>0, <1>5, StatusInvStable DEF CompanionRead
  <2>3. CompanionInv' BY <1>0, <1>5 DEF CompanionRead, CompanionInv, Clean, WorkerInv, Full,
         BeforeLease, UnderLease, RollingBack, StatusInv, AppInv, MountTransactionHasResult,
         CleanInv, CounterTypes
  <2>4. AppInv' BY <1>0, <1>5 DEF CompanionRead, AppInv, Clean, UnderLease,
         MountTransactionHasResult
  <2>5. ~ScanMayMiss => CleanInv' BY <1>0, <1>5, CleanInvStable DEF CompanionRead
  <2> QED BY <2>1, <2>2, <2>3, <2>4, <2>5 DEF LeaseDiscipline
<1>6. CASE CompanionTimeout
  <2>1. WorkerInv' BY <1>0, <1>6, WorkerInvStable DEF CompanionTimeout
  <2>2. StatusInv' BY <1>0, <1>6, StatusInvStable DEF CompanionTimeout
  <2>3. CompanionInv' BY <1>0, <1>6 DEF CompanionTimeout, CompanionInv, Clean
  <2>4. AppInv' BY <1>0, <1>6 DEF CompanionTimeout, AppInv, Clean, UnderLease,
         MountTransactionHasResult
  <2>5. ~ScanMayMiss => CleanInv' BY <1>0, <1>6, CleanInvStable DEF CompanionTimeout
  <2> QED BY <2>1, <2>2, <2>3, <2>4, <2>5 DEF LeaseDiscipline
<1>7. CASE CompanionKill
  <2>1. WorkerInv' BY <1>0, <1>7 DEF CompanionKill, WorkerKilled, WorkerInv, Clean, Full,
         BeforeLease, UnderLease, RollingBack
  <2>2. StatusInv' BY <1>0, <1>7 DEF CompanionKill, WorkerKilled, StatusInv, Clean, Full,
         BeforeLease, UnderLease
  <2>3. CompanionInv' BY <1>0, <1>7 DEF CompanionKill, WorkerKilled, CompanionInv, Clean,
         WorkerInv, Full, BeforeLease, UnderLease, RollingBack, StatusInv, AppInv,
         MountTransactionHasResult, CleanInv, CounterTypes
  <2>4. AppInv' BY <1>0, <1>7 DEF CompanionKill, WorkerKilled, AppInv, Clean, UnderLease,
         MountTransactionHasResult
  <2>5. ~ScanMayMiss => CleanInv' BY <1>0, <1>7 DEF CompanionKill, WorkerKilled, CleanInv,
         Clean
  <2> QED BY <2>1, <2>2, <2>3, <2>4, <2>5 DEF LeaseDiscipline
<1>8. CASE CompanionReap
  <2>1. WorkerInv' BY <1>0, <1>8, WorkerInvStable DEF CompanionReap
  <2>2. StatusInv' BY <1>0, <1>8, StatusInvStable DEF CompanionReap
  <2>3. CompanionInv' BY <1>0, <1>8 DEF CompanionReap, CompanionInv, Clean
  <2>4. AppInv' BY <1>0, <1>8 DEF CompanionReap, AppInv, Clean, UnderLease,
         MountTransactionHasResult
  <2>5. ~ScanMayMiss => CleanInv' BY <1>0, <1>8, CleanInvStable DEF CompanionReap
  <2> QED BY <2>1, <2>2, <2>3, <2>4, <2>5 DEF LeaseDiscipline
<1>9. CASE CompanionTaint
  <2>1. WorkerInv' BY <1>0, <1>9, WorkerInvStable DEF CompanionTaint
  <2>2. StatusInv' BY <1>0, <1>9 DEF CompanionTaint, TransitionSharedState,
         IsMountTransitionAllowed, StatusInv, Clean, Full, BeforeLease, UnderLease,
         WorkerInv, RollingBack, CompanionInv, AppInv, MountTransactionHasResult, CleanInv,
         CounterTypes
  <2>3. CompanionInv' BY <1>0, <1>9 DEF CompanionTaint, TransitionSharedState,
         IsMountTransitionAllowed, CompanionInv, Clean
  <2>4. AppInv' BY <1>0, <1>9 DEF CompanionTaint, TransitionSharedState,
         IsMountTransitionAllowed, AppInv, Clean, UnderLease, MountTransactionHasResult
  <2>5. ~ScanMayMiss => CleanInv' BY <1>0, <1>9 DEF CompanionTaint, TransitionSharedState,
         IsMountTransitionAllowed, CleanInv, Clean
  <2> QED BY <2>1, <2>2, <2>3, <2>4, <2>5 DEF LeaseDiscipline
<1>10. CASE CompanionTerminate
  <2>1. WorkerInv' BY <1>0, <1>10, WorkerInvStable DEF CompanionTerminate
  <2>2. StatusInv' BY <1>0, <1>10, StatusInvStable DEF CompanionTerminate
  <2>3. CompanionInv' BY <1>0, <1>10 DEF CompanionTerminate, TerminateNamespaceMembers,
         CompanionInv, Clean
  <2>4. AppInv' BY <1>0, <1>10 DEF CompanionTerminate, TerminateNamespaceMembers, AppInv,
         Clean, UnderLease, MountTransactionHasResult
  <2>5. ~ScanMayMiss => CleanInv' BY <1>0, <1>10 DEF CompanionTerminate,
         TerminateNamespaceMembers, CleanInv, Clean
  <2> QED BY <2>1, <2>2, <2>3, <2>4, <2>5 DEF LeaseDiscipline
<1>11. CASE CompanionLoadFinal
  <2>1. WorkerInv' BY <1>0, <1>11, WorkerInvStable DEF CompanionLoadFinal
  <2>2. StatusInv' BY <1>0, <1>11, StatusInvStable DEF CompanionLoadFinal
  <2>3. CompanionInv' BY <1>0, <1>11 DEF CompanionLoadFinal, CompanionInv, Clean, WorkerInv,
         Full, BeforeLease, UnderLease, RollingBack, StatusInv, AppInv,
         MountTransactionHasResult, CleanInv, CounterTypes
  <2>4. AppInv' BY <1>0, <1>11 DEF CompanionLoadFinal, AppInv, Clean, UnderLease,
         MountTransactionHasResult
  <2>5. ~ScanMayMiss => CleanInv' BY <1>0, <1>11, CleanInvStable DEF CompanionLoadFinal
  <2> QED BY <2>1, <2>2, <2>3, <2>4, <2>5 DEF LeaseDiscipline
<1>12. CASE CompanionPublishFinal
  <2>1. WorkerInv' BY <1>0, <1>12, WorkerInvStable DEF CompanionPublishFinal
  <2>2. StatusInv' BY <1>0, <1>12, SMTT(30) DEF CompanionPublishFinal, PublishPendingFailure,
         TransitionSharedState, IsMountTransitionAllowed, StatusInv, Clean, Full,
         BeforeLease, UnderLease, WorkerInv, RollingBack, CompanionInv, AppInv,
         MountTransactionHasResult, CleanInv, CounterTypes
  <2>3. CompanionInv' BY <1>0, <1>12 DEF CompanionPublishFinal, PublishPendingFailure,
         TransitionSharedState, IsMountTransitionAllowed, CompanionInv, Clean
  <2>4. AppInv' BY <1>0, <1>12 DEF CompanionPublishFinal, PublishPendingFailure,
         TransitionSharedState, IsMountTransitionAllowed, AppInv, Clean, UnderLease,
         MountTransactionHasResult
  <2>5. ~ScanMayMiss => CleanInv' BY <1>0, <1>12 DEF CompanionPublishFinal,
         PublishPendingFailure, TransitionSharedState, IsMountTransitionAllowed, CleanInv,
         Clean, WorkerInv, Full, BeforeLease, UnderLease, RollingBack, StatusInv,
         CompanionInv, AppInv, MountTransactionHasResult, CounterTypes
  <2> QED BY <2>1, <2>2, <2>3, <2>4, <2>5 DEF LeaseDiscipline
<1>13. CASE CompanionRecord
  <2>1. WorkerInv' BY <1>0, <1>13, WorkerInvStable DEF CompanionRecord
  <2>2. StatusInv' BY <1>0, <1>13, SMTT(30) DEF CompanionRecord, StatusInv, Clean, Full, BeforeLease,
         UnderLease
  <2>3. CompanionInv' BY <1>0, <1>13 DEF CompanionRecord, CompanionInv, Clean
  <2>4. AppInv' BY <1>0, <1>13 DEF CompanionRecord, AppInv, Clean, UnderLease,
         MountTransactionHasResult
  <2>5. ~ScanMayMiss => CleanInv' BY <1>0, <1>13, CleanInvStable DEF CompanionRecord
  <2> QED BY <2>1, <2>2, <2>3, <2>4, <2>5 DEF LeaseDiscipline
<1>14. CASE CompanionCrash
  <2>1. WorkerInv' BY <1>0, <1>14, WorkerInvStable DEF CompanionCrash
  <2>2. StatusInv' BY <1>0, <1>14, StatusInvStable DEF CompanionCrash
  <2>3. CompanionInv' BY <1>0, <1>14 DEF CompanionCrash, CompanionInv, Clean
  <2>4. AppInv' BY <1>0, <1>14 DEF CompanionCrash, AppInv, Clean, UnderLease,
         MountTransactionHasResult
  <2>5. ~ScanMayMiss => CleanInv' BY <1>0, <1>14, CleanInvStable DEF CompanionCrash
  <2> QED BY <2>1, <2>2, <2>3, <2>4, <2>5 DEF LeaseDiscipline
<1> QED BY <1>1, <1>2, <1>3, <1>4, <1>5, <1>6, <1>7, <1>8, <1>9, <1>10, <1>11, <1>12, <1>13,
       <1>14 DEF CompanionStep

(* The worker's steps keep it. *)
LEMMA WorkerPreserves == ASSUME Inv, WorkerStep \/ WorkerCrash PROVE Inv'
<1> SUFFICES LeaseDiscipline' BY WorkerTypes DEF Inv
<1>0. /\ FlagTypes /\ WordTypes /\ CounterTypes
      /\ WorkerInv /\ StatusInv /\ CompanionInv /\ AppInv /\ (~ScanMayMiss => CleanInv)
  BY TypeParts DEF Inv, LeaseDiscipline
<1>1. CASE WorkerStart
  <2>1. WorkerInv' BY <1>0, <1>1 DEF WorkerStart, IsCancelRequested, WorkerInv, Clean, Full,
         BeforeLease, UnderLease, RollingBack
  <2>2. StatusInv' BY <1>0, <1>1 DEF WorkerStart, IsCancelRequested, StatusInv, Clean, Full,
         BeforeLease, UnderLease
  <2>3. CompanionInv' BY <1>0, <1>1 DEF WorkerStart, IsCancelRequested, CompanionInv, Clean
  <2>4. AppInv' BY <1>0, <1>1 DEF WorkerStart, IsCancelRequested, AppInv, Clean, UnderLease,
         MountTransactionHasResult
  <2>5. ~ScanMayMiss => CleanInv' BY <1>0, <1>1 DEF WorkerStart, IsCancelRequested,
         CleanInv, Clean, WorkerInv, Full, BeforeLease, UnderLease, RollingBack, StatusInv,
         CompanionInv, AppInv, MountTransactionHasResult, CounterTypes
  <2> QED BY <2>1, <2>2, <2>3, <2>4, <2>5 DEF LeaseDiscipline
<1>2. CASE WorkerPreflight
  <2>1. WorkerInv' BY <1>0, <1>2 DEF WorkerPreflight, WorkerInv, Clean, Full, BeforeLease,
         UnderLease, RollingBack
  <2>2. StatusInv' BY <1>0, <1>2 DEF WorkerPreflight, StatusInv, Clean, Full, BeforeLease,
         UnderLease
  <2>3. CompanionInv' BY <1>0, <1>2 DEF WorkerPreflight, CompanionInv, Clean
  <2>4. AppInv' BY <1>0, <1>2 DEF WorkerPreflight, AppInv, Clean, UnderLease,
         MountTransactionHasResult
  <2>5. ~ScanMayMiss => CleanInv' BY <1>0, <1>2 DEF WorkerPreflight, CleanInv, Clean,
         WorkerInv, Full, BeforeLease, UnderLease, RollingBack, StatusInv, CompanionInv,
         AppInv, MountTransactionHasResult, CounterTypes
  <2> QED BY <2>1, <2>2, <2>3, <2>4, <2>5 DEF LeaseDiscipline
<1>3. CASE WorkerCheck
  <2>1. WorkerInv' BY <1>0, <1>3 DEF WorkerCheck, IsCancelRequested, WorkerInv, Clean, Full,
         BeforeLease, UnderLease, RollingBack
  <2>2. StatusInv' BY <1>0, <1>3 DEF WorkerCheck, IsCancelRequested, StatusInv, Clean, Full,
         BeforeLease, UnderLease
  <2>3. CompanionInv' BY <1>0, <1>3 DEF WorkerCheck, IsCancelRequested, CompanionInv, Clean
  <2>4. AppInv' BY <1>0, <1>3 DEF WorkerCheck, IsCancelRequested, AppInv, Clean, UnderLease,
         MountTransactionHasResult
  <2>5. ~ScanMayMiss => CleanInv' BY <1>0, <1>3 DEF WorkerCheck, IsCancelRequested,
         CleanInv, Clean, WorkerInv, Full, BeforeLease, UnderLease, RollingBack, StatusInv,
         CompanionInv, AppInv, MountTransactionHasResult, CounterTypes
  <2> QED BY <2>1, <2>2, <2>3, <2>4, <2>5 DEF LeaseDiscipline
<1>4. CASE WorkerLease
  <2>1. WorkerInv' BY <1>0, <1>4 DEF WorkerLease, AcquireMutationLease,
         TransitionSharedState, IsMountTransitionAllowed, WorkerInv, Clean, Full,
         BeforeLease, UnderLease, RollingBack
  <2>2. StatusInv' BY <1>0, <1>4 DEF WorkerLease, AcquireMutationLease,
         TransitionSharedState, IsMountTransitionAllowed, StatusInv, Clean, Full,
         BeforeLease, UnderLease, WorkerInv, RollingBack, CompanionInv, AppInv,
         MountTransactionHasResult, CleanInv, CounterTypes
  <2>3. CompanionInv' BY <1>0, <1>4 DEF WorkerLease, AcquireMutationLease,
         TransitionSharedState, IsMountTransitionAllowed, CompanionInv, Clean
  <2>4. AppInv'
    <3>1. status \in {"pending", "cancel_requested"} /\ parPc # "idle"
      BY <1>0, <1>4 DEF WorkerLease, StatusInv, BeforeLease, CompanionInv
    <3>2. /\ status' = (IF status = "pending" THEN "applying" ELSE "cancelled")
          /\ wPc' = (IF status = "pending" THEN "private" ELSE "send")
          /\ UNCHANGED <<appPc, parPc, received, mounted, private>>
      BY <1>4, <3>1 DEF WorkerLease, AcquireMutationLease, TransitionSharedState,
             IsMountTransitionAllowed
    <3>3. appPc \in AppPc BY <1>0 DEF WordTypes
    <3> QED BY <1>0, <3>1, <3>2, <3>3 DEF AppInv, AppPc, AppResumed, Clean, UnderLease,
               MountTransactionHasResult
  <2>5. ~ScanMayMiss => CleanInv' BY <1>0, <1>4 DEF WorkerLease, AcquireMutationLease,
         TransitionSharedState, IsMountTransitionAllowed, CleanInv, Clean
  <2> QED BY <2>1, <2>2, <2>3, <2>4, <2>5 DEF LeaseDiscipline
<1>5. CASE WorkerPrivate
  <2>1. WorkerInv' BY <1>0, <1>5 DEF WorkerPrivate, ErrorExit, NeedsPostMountSnapshot,
         WorkerInv, Clean, Full, BeforeLease, UnderLease, RollingBack
  <2>2. StatusInv' BY <1>0, <1>5 DEF WorkerPrivate, ErrorExit, NeedsPostMountSnapshot,
         StatusInv, Clean, Full, BeforeLease, UnderLease
  <2>3. CompanionInv' BY <1>0, <1>5 DEF WorkerPrivate, ErrorExit, NeedsPostMountSnapshot,
         CompanionInv, Clean
  <2>4. AppInv' BY <1>0, <1>5 DEF WorkerPrivate, ErrorExit, NeedsPostMountSnapshot, AppInv,
         Clean, UnderLease, MountTransactionHasResult
  <2>5. ~ScanMayMiss => CleanInv' BY <1>0, <1>5 DEF WorkerPrivate, ErrorExit,
         NeedsPostMountSnapshot, CleanInv, Clean, WorkerInv, Full, BeforeLease, UnderLease,
         RollingBack, StatusInv, CompanionInv, AppInv, MountTransactionHasResult,
         CounterTypes
  <2> QED BY <2>1, <2>2, <2>3, <2>4, <2>5 DEF LeaseDiscipline
<1>6. CASE WorkerRuleCheck
  <2>1. WorkerInv'
    <3> USE <1>0, <1>6 DEF WorkerRuleCheck, WorkerInv, Clean, Full, BeforeLease, UnderLease,
            RollingBack, ErrorExit, NeedsPostMountSnapshot
    <3>1. CASE IsCancelRequested BY <3>1
    <3>2. CASE ~IsCancelRequested /\ MoreRules BY <3>2 DEF MoreRules, CounterTypes
    <3>3. CASE ~IsCancelRequested /\ ~MoreRules BY <3>3, SMTT(30) DEF MoreRules, CounterTypes
    <3> QED BY <3>1, <3>2, <3>3
  <2>2. StatusInv' BY <1>0, <1>6 DEF WorkerRuleCheck, IsCancelRequested, MoreRules,
         ErrorExit, NeedsPostMountSnapshot, StatusInv, Clean, Full, BeforeLease, UnderLease
  <2>3. CompanionInv' BY <1>0, <1>6 DEF WorkerRuleCheck, IsCancelRequested, MoreRules,
         ErrorExit, NeedsPostMountSnapshot, CompanionInv, Clean
  <2>4. AppInv' BY <1>0, <1>6 DEF WorkerRuleCheck, IsCancelRequested, MoreRules, ErrorExit,
         NeedsPostMountSnapshot, AppInv, Clean, UnderLease, MountTransactionHasResult
  <2>5. ~ScanMayMiss => CleanInv' BY <1>0, <1>6 DEF WorkerRuleCheck, IsCancelRequested,
         MoreRules, ErrorExit, NeedsPostMountSnapshot, CleanInv, Clean
  <2> QED BY <2>1, <2>2, <2>3, <2>4, <2>5 DEF LeaseDiscipline
<1>7. CASE WorkerApply
  <2>1. WorkerInv'
    <3>1. /\ wPc = "apply" /\ journal = mounted /\ idx = mounted /\ mounted < RuleCount
          /\ private = plan.private /\ ~untracked
      BY <1>0, <1>7 DEF WorkerApply, WorkerInv
    <3>2. JournalHasRoom BY <1>0, <3>1, SMTT(30) DEF JournalHasRoom, CounterTypes
    <3>3. /\ wPc' = "rules" /\ mounted' = mounted + 1 /\ idx' = idx + 1
          /\ journal' = journal + 1 /\ locked'
          /\ UNCHANGED <<plan, status, result, record, sent, private, untracked, appPc, wSeen>>
      BY <1>7, <3>2 DEF WorkerApply
    <3> QED BY <1>0, <3>1, <3>3 DEF WorkerInv, BeforeLease, UnderLease, RollingBack
  <2>2. StatusInv'
    <3>1. status \in {"applying", "cancel_requested"} /\ wPc = "apply"
      BY <1>0, <1>7 DEF WorkerApply, StatusInv, UnderLease
    <3>2. JournalHasRoom
      BY <1>0, <1>7, SMTT(30) DEF WorkerApply, WorkerInv, JournalHasRoom, CounterTypes
    <3>3. wPc' = "rules" /\ UNCHANGED <<status, result, record, sent>>
      BY <1>7, <3>2 DEF WorkerApply
    <3> QED BY <1>0, <3>1, <3>3 DEF StatusInv, BeforeLease, UnderLease
  <2>3. CompanionInv' BY <1>0, <1>7 DEF WorkerApply, JournalHasRoom, CompanionInv, Clean
  <2>4. AppInv' BY <1>0, <1>7 DEF WorkerApply, JournalHasRoom, AppInv, Clean, UnderLease,
         MountTransactionHasResult
  <2>5. ~ScanMayMiss => CleanInv'
    <3>1. /\ status \in {"applying", "cancel_requested"}
          /\ appPc \in {"wait", "cancelPending", "cancelApplying", "owner", "dead"}
      BY <1>0, <1>7 DEF WorkerApply, StatusInv, AppInv, UnderLease
    <3>2. JournalHasRoom
      BY <1>0, <1>7, SMTT(30) DEF WorkerApply, WorkerInv, JournalHasRoom, CounterTypes
    <3>3. wPc' = "rules" /\ UNCHANGED <<status, appPc>>
      BY <1>7, <3>2 DEF WorkerApply
    <3> QED BY <3>1, <3>3 DEF CleanInv
  <2> QED BY <2>1, <2>2, <2>3, <2>4, <2>5 DEF LeaseDiscipline
<1>8. CASE WorkerApplyFails
  <2>1. WorkerInv' BY <1>0, <1>8 DEF WorkerApplyFails, MayFallBack, ErrorExit,
         NeedsPostMountSnapshot, WorkerInv, Clean, Full, BeforeLease, UnderLease,
         RollingBack
  <2>2. StatusInv' BY <1>0, <1>8 DEF WorkerApplyFails, MayFallBack, ErrorExit,
         NeedsPostMountSnapshot, StatusInv, Clean, Full, BeforeLease, UnderLease
  <2>3. CompanionInv' BY <1>0, <1>8 DEF WorkerApplyFails, MayFallBack, ErrorExit,
         NeedsPostMountSnapshot, CompanionInv, Clean
  <2>4. AppInv' BY <1>0, <1>8 DEF WorkerApplyFails, MayFallBack, ErrorExit,
         NeedsPostMountSnapshot, AppInv, Clean, UnderLease, MountTransactionHasResult
  <2>5. ~ScanMayMiss => CleanInv' BY <1>0, <1>8 DEF WorkerApplyFails, MayFallBack,
         ErrorExit, NeedsPostMountSnapshot, CleanInv, Clean
  <2> QED BY <2>1, <2>2, <2>3, <2>4, <2>5 DEF LeaseDiscipline
<1>9. CASE WorkerComplete
  <2>1. WorkerInv' BY <1>0, <1>9 DEF WorkerComplete, ErrorExit, NeedsPostMountSnapshot,
         TransitionSharedState, IsMountTransitionAllowed, WorkerInv, Clean, Full,
         BeforeLease, UnderLease, RollingBack
  <2>2. StatusInv' BY <1>0, <1>9 DEF WorkerComplete, ErrorExit, NeedsPostMountSnapshot,
         TransitionSharedState, IsMountTransitionAllowed, StatusInv, Clean, Full,
         BeforeLease, UnderLease, WorkerInv, RollingBack, CompanionInv, AppInv,
         MountTransactionHasResult, CleanInv, CounterTypes
  <2>3. CompanionInv' BY <1>0, <1>9 DEF WorkerComplete, ErrorExit, NeedsPostMountSnapshot,
         TransitionSharedState, IsMountTransitionAllowed, CompanionInv, Clean
  <2>4. AppInv' BY <1>0, <1>9 DEF WorkerComplete, ErrorExit, NeedsPostMountSnapshot,
         TransitionSharedState, IsMountTransitionAllowed, AppInv, Clean, UnderLease,
         MountTransactionHasResult
  <2>5. ~ScanMayMiss => CleanInv' BY <1>0, <1>9 DEF WorkerComplete, ErrorExit,
         NeedsPostMountSnapshot, TransitionSharedState, IsMountTransitionAllowed, CleanInv,
         Clean
  <2> QED BY <2>1, <2>2, <2>3, <2>4, <2>5 DEF LeaseDiscipline
<1>10. CASE WorkerVerify
  <2>1. WorkerInv' BY <1>0, <1>10 DEF WorkerVerify, WorkerInv, Clean, Full, BeforeLease,
         UnderLease, RollingBack
  <2>2. StatusInv' BY <1>0, <1>10 DEF WorkerVerify, StatusInv, Clean, Full, BeforeLease,
         UnderLease
  <2>3. CompanionInv' BY <1>0, <1>10 DEF WorkerVerify, CompanionInv, Clean
  <2>4. AppInv' BY <1>0, <1>10 DEF WorkerVerify, AppInv, Clean, UnderLease,
         MountTransactionHasResult
  <2>5. ~ScanMayMiss => CleanInv' BY <1>0, <1>10 DEF WorkerVerify, CleanInv, Clean
  <2> QED BY <2>1, <2>2, <2>3, <2>4, <2>5 DEF LeaseDiscipline
<1>11. CASE WorkerRollback
  <2>1. WorkerInv'
    <3>1. wPc = "rollback" /\ err /\ ~untracked /\ journal = mounted
      BY <1>0, <1>11 DEF WorkerRollback, WorkerInv, RollingBack
    <3>2. UNCHANGED <<plan, private, untracked, mounted, journal, err, locked>>
      BY <1>11 DEF WorkerRollback
    <3>3. CASE journal > 0 /\ wPc' = "unmount" /\ idx' = journal
      BY <1>0, <3>1, <3>2, <3>3 DEF WorkerInv, BeforeLease, UnderLease, RollingBack
    <3>4. CASE wPc' = "publish" /\ (~rbFailed' => mounted = 0)
      BY <1>0, <3>1, <3>2, <3>4 DEF WorkerInv, BeforeLease, UnderLease, RollingBack
    <3>5. \/ journal > 0 /\ wPc' = "unmount" /\ idx' = journal
          \/ wPc' = "publish" /\ (~rbFailed' => mounted = 0)
      BY <1>0, <1>11, <3>1, SMTT(30) DEF WorkerRollback, CounterTypes
    <3> QED BY <3>3, <3>4, <3>5
  <2>2. StatusInv' BY <1>0, <1>11 DEF WorkerRollback, StatusInv, Clean, Full, BeforeLease,
         UnderLease
  <2>3. CompanionInv' BY <1>0, <1>11 DEF WorkerRollback, CompanionInv, Clean
  <2>4. AppInv' BY <1>0, <1>11 DEF WorkerRollback, AppInv, Clean, UnderLease,
         MountTransactionHasResult
  <2>5. ~ScanMayMiss => CleanInv' BY <1>0, <1>11 DEF WorkerRollback, CleanInv, Clean
  <2> QED BY <2>1, <2>2, <2>3, <2>4, <2>5 DEF LeaseDiscipline
<1>12. CASE WorkerUnmount
  <2>1. WorkerInv'
    <3>1. /\ wPc = "unmount" /\ err /\ ~untracked /\ idx = mounted /\ mounted > 0
          /\ UNCHANGED <<plan, private, untracked, journal, err, locked>>
      BY <1>0, <1>12 DEF WorkerUnmount, WorkerInv, RollingBack
    <3>2. \/ wPc' = "rbverify" /\ mounted' = 0
          \/ wPc' = "unmount" /\ idx' = mounted' /\ mounted' > 0
          \/ wPc' = "publish" /\ rbFailed'
      BY <1>0, <1>12, <3>1, SMTT(30) DEF WorkerUnmount, CounterTypes
    <3> QED BY <1>0, <3>1, <3>2 DEF WorkerInv, BeforeLease, UnderLease, RollingBack
  <2>2. StatusInv' BY <1>0, <1>12 DEF WorkerUnmount, StatusInv, Clean, Full, BeforeLease,
         UnderLease
  <2>3. CompanionInv' BY <1>0, <1>12 DEF WorkerUnmount, CompanionInv, Clean
  <2>4. AppInv' BY <1>0, <1>12 DEF WorkerUnmount, AppInv, Clean, UnderLease,
         MountTransactionHasResult
  <2>5. ~ScanMayMiss => CleanInv' BY <1>0, <1>12 DEF WorkerUnmount, CleanInv, Clean,
         WorkerInv, Full, BeforeLease, UnderLease, RollingBack, StatusInv, CompanionInv,
         AppInv, MountTransactionHasResult, CounterTypes
  <2> QED BY <2>1, <2>2, <2>3, <2>4, <2>5 DEF LeaseDiscipline
<1>13. CASE WorkerRollbackVerify
  <2>1. WorkerInv' BY <1>0, <1>13 DEF WorkerRollbackVerify, WorkerInv, Clean, Full,
         BeforeLease, UnderLease, RollingBack
  <2>2. StatusInv' BY <1>0, <1>13 DEF WorkerRollbackVerify, StatusInv, Clean, Full,
         BeforeLease, UnderLease
  <2>3. CompanionInv' BY <1>0, <1>13 DEF WorkerRollbackVerify, CompanionInv, Clean
  <2>4. AppInv' BY <1>0, <1>13 DEF WorkerRollbackVerify, AppInv, Clean, UnderLease,
         MountTransactionHasResult
  <2>5. ~ScanMayMiss => CleanInv' BY <1>0, <1>13 DEF WorkerRollbackVerify, CleanInv, Clean
  <2> QED BY <2>1, <2>2, <2>3, <2>4, <2>5 DEF LeaseDiscipline
<1>14. CASE WorkerLoadFailure
  <2>1. WorkerInv' BY <1>0, <1>14 DEF WorkerLoadFailure, WorkerInv, Clean, Full,
         BeforeLease, UnderLease, RollingBack
  <2>2. StatusInv' BY <1>0, <1>14 DEF WorkerLoadFailure, StatusInv, Clean, Full,
         BeforeLease, UnderLease
  <2>3. CompanionInv' BY <1>0, <1>14 DEF WorkerLoadFailure, CompanionInv, Clean
  <2>4. AppInv' BY <1>0, <1>14 DEF WorkerLoadFailure, AppInv, Clean, UnderLease,
         MountTransactionHasResult
  <2>5. ~ScanMayMiss => CleanInv' BY <1>0, <1>14 DEF WorkerLoadFailure, CleanInv, Clean
  <2> QED BY <2>1, <2>2, <2>3, <2>4, <2>5 DEF LeaseDiscipline
<1>15. CASE WorkerPublishFailure
  <2>1. WorkerInv' BY <1>0, <1>15 DEF WorkerPublishFailure, WorkerTaints,
         TransitionSharedState, IsMountTransitionAllowed, WorkerInv, Clean, Full,
         BeforeLease, UnderLease, RollingBack
  <2>2. StatusInv'
    <3>1. err /\ status \in {"applying", "cancel_requested"} /\ sent = "none"
      BY <1>0, <1>15 DEF WorkerPublishFailure, WorkerInv, RollingBack, StatusInv, UnderLease
    <3>2. status' \in {"cancel_requested", "namespace_tainted", "rollback_complete"}
      BY <1>0, <1>15, <3>1 DEF WorkerPublishFailure, TransitionSharedState,
             IsMountTransitionAllowed, StatusInv
    <3>3. wPc' \in {"terminate", "send"} /\ UNCHANGED <<err, sent, record, wSeen>>
      BY <1>15 DEF WorkerPublishFailure
    <3> QED BY <1>0, <3>1, <3>2, <3>3 DEF StatusInv, BeforeLease, UnderLease
  <2>3. CompanionInv' BY <1>0, <1>15 DEF WorkerPublishFailure, WorkerTaints,
         TransitionSharedState, IsMountTransitionAllowed, CompanionInv, Clean
  <2>4. AppInv' BY <1>0, <1>15 DEF WorkerPublishFailure, WorkerTaints,
         TransitionSharedState, IsMountTransitionAllowed, AppInv, Clean, UnderLease,
         MountTransactionHasResult
  <2>5. ~ScanMayMiss => CleanInv' BY <1>0, <1>15 DEF WorkerPublishFailure, WorkerTaints,
         TransitionSharedState, IsMountTransitionAllowed, CleanInv, Clean, WorkerInv, Full,
         BeforeLease, UnderLease, RollingBack, StatusInv, CompanionInv, AppInv,
         MountTransactionHasResult, CounterTypes
  <2> QED BY <2>1, <2>2, <2>3, <2>4, <2>5 DEF LeaseDiscipline
<1>16. CASE WorkerTerminate
  <2>1. WorkerInv' BY <1>0, <1>16 DEF WorkerTerminate, TerminateNamespaceMembers, WorkerInv,
         Clean, Full, BeforeLease, UnderLease, RollingBack
  <2>2. StatusInv' BY <1>0, <1>16 DEF WorkerTerminate, TerminateNamespaceMembers, StatusInv,
         Clean, Full, BeforeLease, UnderLease, WorkerInv, RollingBack, CompanionInv, AppInv,
         MountTransactionHasResult, CleanInv, CounterTypes
  <2>3. CompanionInv' BY <1>0, <1>16 DEF WorkerTerminate, TerminateNamespaceMembers,
         CompanionInv, Clean
  <2>4. AppInv' BY <1>0, <1>16 DEF WorkerTerminate, TerminateNamespaceMembers, AppInv,
         Clean, UnderLease, MountTransactionHasResult
  <2>5. ~ScanMayMiss => CleanInv' BY <1>0, <1>16 DEF WorkerTerminate,
         TerminateNamespaceMembers, CleanInv, Clean
  <2> QED BY <2>1, <2>2, <2>3, <2>4, <2>5 DEF LeaseDiscipline
<1>17. CASE WorkerSend
  <2>1. WorkerInv' BY <1>0, <1>17 DEF WorkerSend, WorkerInv, Clean, Full, BeforeLease,
         UnderLease, RollingBack
  <2>2. StatusInv' BY <1>0, <1>17 DEF WorkerSend, StatusInv, Clean, Full, BeforeLease,
         UnderLease
  <2>3. CompanionInv' BY <1>0, <1>17 DEF WorkerSend, CompanionInv, Clean
  <2>4. AppInv' BY <1>0, <1>17 DEF WorkerSend, AppInv, Clean, UnderLease,
         MountTransactionHasResult
  <2>5. ~ScanMayMiss => CleanInv' BY <1>0, <1>17 DEF WorkerSend, CleanInv, Clean
  <2> QED BY <2>1, <2>2, <2>3, <2>4, <2>5 DEF LeaseDiscipline
<1>18. CASE WorkerCrash
  <2>1. WorkerInv' BY <1>0, <1>18 DEF WorkerCrash, WorkerInv, Clean, Full, BeforeLease,
         UnderLease, RollingBack
  <2>2. StatusInv' BY <1>0, <1>18 DEF WorkerCrash, StatusInv, Clean, Full, BeforeLease,
         UnderLease
  <2>3. CompanionInv' BY <1>0, <1>18 DEF WorkerCrash, CompanionInv, Clean
  <2>4. AppInv' BY <1>0, <1>18 DEF WorkerCrash, AppInv, Clean, UnderLease,
         MountTransactionHasResult
  <2>5. ~ScanMayMiss => CleanInv' BY <1>0, <1>18 DEF WorkerCrash, CleanInv, Clean
  <2> QED BY <2>1, <2>2, <2>3, <2>4, <2>5 DEF LeaseDiscipline
<1> QED BY <1>1, <1>2, <1>3, <1>4, <1>5, <1>6, <1>7, <1>8, <1>9, <1>10, <1>11, <1>12, <1>13,
       <1>14, <1>15, <1>16, <1>17, <1>18 DEF WorkerStep

(* Every step keeps it. *)
LEMMA NextInv == Inv /\ [Next]_vars => Inv'
<1> SUFFICES ASSUME Inv, [Next]_vars PROVE Inv' OBVIOUS
<1>1. CASE AppStep \/ AppDies BY <1>1, AppPreserves
<1>2. CASE CompanionStep \/ CompanionCrash BY <1>2, CompanionPreserves
<1>3. CASE WorkerStep \/ WorkerCrash BY <1>3, WorkerPreserves
<1>4. CASE UNCHANGED vars
  <2>0. /\ FlagTypes /\ WordTypes /\ CounterTypes
        /\ WorkerInv /\ StatusInv /\ CompanionInv /\ AppInv /\ (~ScanMayMiss => CleanInv)
    BY TypeParts DEF Inv, LeaseDiscipline
  <2>1. TypeOK'
    <3>0. UNCHANGED <<private, graceUsed, received, gotReport, ownerDeath, nsKnown, childErr,
                      snap, hydrated, err, rbFailed, untracked, locked>> BY <1>4
    <3>1. FlagTypes' BY <2>0, <3>0, SMTT(30) DEF FlagTypes
    <3>2. WordTypes' BY <1>4, <2>0 DEF WordTypes
    <3>3. CounterTypes' BY <1>4, <2>0 DEF CounterTypes
    <3> QED BY <3>1, <3>2, <3>3, TypePartsNext
  <2>2. WorkerInv' BY <1>4, <2>0, WorkerInvStable
  <2>3. StatusInv' BY <1>4, <2>0, StatusInvStable
  <2>4. CompanionInv' BY <1>4, <2>0, CompanionInvStable
  <2>5. AppInv' BY <1>4, <2>0, AppInvStable
  <2>6. ~ScanMayMiss => CleanInv' BY <1>4, <2>0, CleanInvStable
  <2> QED BY <2>1, <2>2, <2>3, <2>4, <2>5, <2>6 DEF Inv, LeaseDiscipline
<1> QED BY <1>1, <1>2, <1>3, <1>4 DEF Next, Finished

(* LeaseDiscipline holds of every launch. *)
THEOREM Invariance == Spec => []Inv
BY InitInv, NextInv, PTL DEF Spec
-----------------------------------------------------------------------------
(* Type correctness: in particular the rule, mount and journal counters    *)
(* stay within the plan.                                                   *)
THEOREM TypeCorrectness == Spec => []TypeOK
<1>1. Inv => TypeOK BY DEF Inv
<1> QED BY <1>1, Invariance, PTL

(* No mount and no propagation change outside the mutation lease. *)
THEOREM LeaseGuards == Spec => []LeaseGuardsNamespace
<1>1. Inv => LeaseGuardsNamespace
  BY TypeParts, SMTT(30) DEF Inv, CounterTypes, LeaseDiscipline, StatusInv, Clean, LeaseGuardsNamespace
<1> QED BY <1>1, Invariance, PTL

(* "complete" is the whole plan, for the shared word, the app and the      *)
(* status file.                                                            *)
THEOREM CommitTotality == Spec => []CommitIsTotal
<1>1. Inv => CommitIsTotal
  BY DEF Inv, LeaseDiscipline, StatusInv, AppInv, Full, CommitIsTotal
<1> QED BY <1>1, Invariance, PTL

(* The worker's packet never contradicts the shared word. *)
THEOREM ReportAgreement == Spec => []ReportMatchesStatus
<1>1. Inv => ReportMatchesStatus
  BY DEF Inv, TypeOK, LeaseDiscipline, StatusInv, UnderLease, ReportMatchesStatus
<1> QED BY <1>1, Invariance, PTL

(* Failing open is safe whenever the kill of the members reaches them all. *)
THEOREM FailOpenSafety ==
    ASSUME ~ScanMayMiss PROVE Spec => []FailOpenIsClean
<1>1. Inv => FailOpenIsClean
  BY DEF Inv, LeaseDiscipline, StatusInv, CompanionInv, AppInv, CleanInv, Clean,
         FailOpenIsClean
<1> QED BY <1>1, Invariance, PTL
-----------------------------------------------------------------------------
(* Only the worker changes the namespace, and only under the lease. *)
LEMMA NamespaceChange ==
    ASSUME Inv, [Next]_vars, ~UNCHANGED nsVars
    PROVE  wPc \in UnderLease /\ UNCHANGED appPc
<1>1. ~(AppStep \/ AppDies)
  BY DEF AppStep, AppSendPlan, AppSeeResult, AppDeadline, AppCancelPending,
         AppCancelApplying, AppOwnerDeadline, AppResume, AppDies
<1>2. ~(CompanionStep \/ CompanionCrash)
  BY DEF CompanionStep, CompanionReceive, CompanionPreflight, CompanionCancelled,
         CompanionFork, CompanionRead, CompanionTimeout, CompanionKill, CompanionReap,
         CompanionTaint, CompanionTerminate, CompanionLoadFinal, CompanionPublishFinal,
         CompanionRecord, CompanionCrash
<1>3. WorkerPrivate \/ WorkerApply \/ WorkerUnmount
  BY <1>1, <1>2 DEF Next, Finished, WorkerStep, WorkerStart, WorkerPreflight, WorkerCheck,
         WorkerLease, WorkerRuleCheck, WorkerApplyFails, WorkerComplete, WorkerVerify,
         WorkerRollback, WorkerRollbackVerify, WorkerLoadFailure, WorkerPublishFailure,
         WorkerTerminate, WorkerSend, WorkerCrash
<1> QED BY <1>3 DEF WorkerPrivate, WorkerApply, WorkerUnmount, UnderLease

(* The namespace of an app that postAppSpecialize released never changes. *)
THEOREM NamespaceFrozen == Spec => NamespaceFrozenOnceResumed
<1>1. Inv /\ [Next]_vars => [(appPc \in AppResumed) => UNCHANGED nsVars]_vars
  BY NamespaceChange DEF Inv, LeaseDiscipline, AppInv, AppResumed
<1> QED BY <1>1, Invariance, PTL DEF Spec, NamespaceFrozenOnceResumed

(* The status word after any step: where it may have come from. *)
LEMMA StatusChange ==
    ASSUME Inv, [Next]_vars
    PROVE  /\ IsMountTransactionTerminal(status) => status' = status
           /\ MountTransactionHasResult(status) => result' = result
<1> USE DEF IsMountTransactionTerminal, MountTransactionHasResult, TransitionSharedState,
            IsMountTransitionAllowed
<1>1. CASE AppStep \/ AppDies
  BY <1>1 DEF AppStep, AppSendPlan, AppSeeResult, AppDeadline, AppCancelPending,
         AppCancelApplying, AppOwnerDeadline, AppResume, AppDies
<1>2. CASE CompanionPreflight \/ CompanionCancelled
  BY <1>2 DEF CompanionPreflight, CompanionCancelled, PublishPendingFailure, Inv,
         LeaseDiscipline, CompanionInv
<1>3. CASE CompanionTaint BY <1>3 DEF CompanionTaint, Inv, LeaseDiscipline, CompanionInv
<1>4. CASE CompanionPublishFinal
  BY <1>4 DEF CompanionPublishFinal, PublishPendingFailure, Inv, LeaseDiscipline,
         CompanionInv
<1>5. CASE WorkerLease
  BY <1>5 DEF WorkerLease, AcquireMutationLease, Inv, LeaseDiscipline, StatusInv, BeforeLease
<1>6. CASE WorkerComplete
  BY <1>6 DEF WorkerComplete, Inv, LeaseDiscipline, StatusInv, UnderLease
<1>7. CASE WorkerPublishFailure
  BY <1>7 DEF WorkerPublishFailure, Inv, LeaseDiscipline, StatusInv, UnderLease
<1>8. CASE UNCHANGED sharedVars BY <1>8
<1>9. ASSUME CompanionStep \/ CompanionCrash PROVE
          \/ CompanionPreflight \/ CompanionCancelled \/ CompanionTaint
          \/ CompanionPublishFinal \/ UNCHANGED sharedVars
  BY <1>9 DEF CompanionStep, CompanionReceive, CompanionFork, CompanionRead,
         CompanionTimeout, CompanionKill, CompanionReap, CompanionTerminate,
         CompanionLoadFinal, CompanionRecord, CompanionCrash
<1>10. ASSUME WorkerStep \/ WorkerCrash PROVE
          \/ WorkerLease \/ WorkerComplete \/ WorkerPublishFailure \/ UNCHANGED sharedVars
  BY <1>10 DEF WorkerStep, WorkerStart, WorkerPreflight, WorkerCheck, WorkerPrivate,
         WorkerRuleCheck, WorkerApply, WorkerApplyFails, WorkerVerify, WorkerRollback,
         WorkerUnmount, WorkerRollbackVerify, WorkerLoadFailure, WorkerTerminate,
         WorkerSend, WorkerCrash
<1> QED BY <1>1, <1>2, <1>3, <1>4, <1>5, <1>6, <1>7, <1>8, <1>9, <1>10 DEF Next, Finished

(* A published outcome is never moved and its result never overwritten. *)
THEOREM OutcomeFinality == Spec => OutcomeIsFinal
<1>1. Inv /\ [Next]_vars =>
          [/\ IsMountTransactionTerminal(status) => status' = status
           /\ MountTransactionHasResult(status) => result' = result]_vars
  BY StatusChange
<1> QED BY <1>1, Invariance, PTL DEF Spec, OutcomeIsFinal

(* The backend is chosen before the namespace is touched and then kept. *)
THEOREM BackendFixed == Spec => BackendFixedByMutation
<1>1. ASSUME Inv, [Next]_vars, backend' # backend PROVE Clean
  <2>1. ~(AppStep \/ AppDies)
    BY <1>1 DEF AppStep, AppSendPlan, AppSeeResult, AppDeadline, AppCancelPending,
           AppCancelApplying, AppOwnerDeadline, AppResume, AppDies
  <2>2. ~(CompanionStep \/ CompanionCrash)
    BY <1>1 DEF CompanionStep, CompanionReceive, CompanionPreflight, CompanionCancelled,
           CompanionFork, CompanionRead, CompanionTimeout, CompanionKill, CompanionReap,
           CompanionTaint, CompanionTerminate, CompanionLoadFinal, CompanionPublishFinal,
           CompanionRecord, CompanionCrash
  <2>3. WorkerPreflight \/ WorkerApplyFails
    BY <1>1, <2>1, <2>2 DEF Next, Finished, WorkerStep, WorkerStart, WorkerCheck,
           WorkerLease, WorkerPrivate, WorkerRuleCheck, WorkerApply, WorkerComplete,
           WorkerVerify, WorkerRollback, WorkerUnmount, WorkerRollbackVerify,
           WorkerLoadFailure, WorkerPublishFailure, WorkerTerminate, WorkerSend, WorkerCrash
  <2>4. CASE WorkerPreflight
    BY <1>1, <2>4 DEF WorkerPreflight, Inv, LeaseDiscipline, WorkerInv, BeforeLease
  <2>5. CASE WorkerApplyFails
    BY <1>1, <2>5 DEF WorkerApplyFails, MayFallBack, Inv, TypeOK, LeaseDiscipline,
           WorkerInv, UnderLease, Clean
  <2> QED BY <2>3, <2>4, <2>5
<1>2. Inv /\ [Next]_vars => [(mounted > 0 \/ private) => backend' = backend]_vars
  <2> SUFFICES ASSUME Inv, [Next]_vars, backend' # backend PROVE ~(mounted > 0 \/ private)
    OBVIOUS
  <2>1. Clean BY <1>1
  <2> QED BY <2>1, SMTT(30) DEF Clean
<1> QED BY <1>2, Invariance, PTL DEF Spec, BackendFixedByMutation
-----------------------------------------------------------------------------
(* The string backend is only ever chosen where it is authorized. *)
LegacyInv ==
    backend = LegacyString => plan.allowLegacy /\ plan.disposable /\ plan.actions = {Redirect}

(* No step but the two choices of a backend touches it or the plan. *)
LEMMA BackendChange ==
    ASSUME [Next]_vars
    PROVE  /\ plan' = plan
           /\ WorkerPreflight \/ WorkerApplyFails \/ backend' = backend
<1>1. CASE AppStep \/ AppDies
  BY <1>1 DEF AppStep, AppSendPlan, AppSeeResult, AppDeadline, AppCancelPending,
         AppCancelApplying, AppOwnerDeadline, AppResume, AppDies
<1>2. CASE CompanionStep \/ CompanionCrash
  BY <1>2 DEF CompanionStep, CompanionReceive, CompanionPreflight, CompanionCancelled,
         CompanionFork, CompanionRead, CompanionTimeout, CompanionKill, CompanionReap,
         CompanionTaint, CompanionTerminate, CompanionLoadFinal, CompanionPublishFinal,
         CompanionRecord, CompanionCrash
<1>3. CASE WorkerStep \/ WorkerCrash
  BY <1>3 DEF WorkerStep, WorkerStart, WorkerPreflight, WorkerCheck, WorkerLease,
         WorkerPrivate, WorkerRuleCheck, WorkerApply, WorkerApplyFails, WorkerComplete,
         WorkerVerify, WorkerRollback, WorkerUnmount, WorkerRollbackVerify,
         WorkerLoadFailure, WorkerPublishFailure, WorkerTerminate, WorkerSend, WorkerCrash
<1> QED BY <1>1, <1>2, <1>3 DEF Next, Finished

(* deny never runs on the string backend, nor does any plan whose policy   *)
(* or namespace does not allow it.                                         *)
THEOREM LegacyAuthorized == Spec => []LegacyOnlyWhenAuthorized
<1>1. Init => LegacyInv BY DEF Init, LegacyInv, LegacyString, StrictOpenTree
<1>2. Inv /\ LegacyInv /\ [Next]_vars => LegacyInv'
  <2> SUFFICES ASSUME Inv, LegacyInv, [Next]_vars PROVE LegacyInv' OBVIOUS
  <2>0. /\ plan' = plan
        /\ plan.actions \in SUBSET MountActions /\ plan.allowLegacy \in BOOLEAN
        /\ plan.disposable \in BOOLEAN /\ backend \in MountBackendKind
    BY BackendChange DEF Inv, TypeOK, Plans
  <2>1. CASE WorkerPreflight
    BY <2>0, <2>1, SelectedBackend DEF WorkerPreflight, LegacyInv
  <2>2. CASE WorkerApplyFails
    <3>1. \/ backend' = backend
          \/ backend' = NextMountBackend(backend, plan.actions, plan.allowLegacy,
                                        plan.disposable)
      BY <2>2 DEF WorkerApplyFails
    <3>2. /\ plan.actions \in SUBSET MountActions /\ plan.allowLegacy \in BOOLEAN
          /\ plan.disposable \in BOOLEAN /\ backend \in MountBackendKind
      BY <2>0
    <3>3. NextMountBackend(backend, plan.actions, plan.allowLegacy, plan.disposable)
              = LegacyString =>
                  plan.allowLegacy /\ plan.disposable /\ plan.actions = {Redirect}
      BY <3>2 DEF NextMountBackend, SupportsAllActions, MountActions, MountBackendKind,
             StrictOpenTree, StrictProcFd, LegacyString, Unsupported, Redirect, DenyAnchor
    <3> QED BY <2>0, <3>1, <3>3 DEF LegacyInv
  <2>3. CASE backend' = backend BY <2>0, <2>3 DEF LegacyInv
  <2> QED BY <2>1, <2>2, <2>3, BackendChange
<1>3. LegacyInv => LegacyOnlyWhenAuthorized BY DEF LegacyInv, LegacyOnlyWhenAuthorized
<1> QED BY <1>1, <1>2, <1>3, Invariance, PTL DEF Spec
-----------------------------------------------------------------------------
(* The app's program counter moves by the app's own steps and by the kill. *)
LEMMA AppChange ==
    ASSUME [Next]_vars, ~ScanMayMiss
    PROVE  AppStep \/ appPc' = "dead" \/ UNCHANGED appPc
<1>1. CASE AppDies BY <1>1 DEF AppDies
<1>2. CASE CompanionStep \/ CompanionCrash
  BY <1>2 DEF CompanionStep, CompanionReceive, CompanionPreflight, CompanionCancelled,
         CompanionFork, CompanionRead, CompanionTimeout, CompanionKill, CompanionReap,
         CompanionTaint, CompanionTerminate, CompanionLoadFinal, CompanionPublishFinal,
         CompanionRecord, CompanionCrash, TerminateNamespaceMembers
<1>3. CASE WorkerStep \/ WorkerCrash
  BY <1>3 DEF WorkerStep, WorkerStart, WorkerPreflight, WorkerCheck, WorkerLease,
         WorkerPrivate, WorkerRuleCheck, WorkerApply, WorkerApplyFails, WorkerComplete,
         WorkerVerify, WorkerRollback, WorkerUnmount, WorkerRollbackVerify,
         WorkerLoadFailure, WorkerPublishFailure, WorkerTerminate, WorkerSend,
         WorkerCrash, TerminateNamespaceMembers
<1> QED BY <1>1, <1>2, <1>3 DEF Next, Finished

(* The transaction implements the safety part of the contract of a launch, *)
(* for every number of rules, if the kill reaches all members.             *)
THEOREM ImplementsContractSafety ==
    ASSUME ~ScanMayMiss PROVE Spec => ContractSafety
<1>1. Init => Contract!Init
  BY DEF Init, Contract!Init, nsOf, targetOf
<1>2. Inv /\ [Next]_vars => [Contract!Next]_(Contract!vars)
  <2> SUFFICES ASSUME Inv, [Next]_vars PROVE [Contract!Next]_(Contract!vars) OBVIOUS
  <2> USE DEF Contract!Next, Contract!vars, Contract!Change, Contract!Enforce,
              Contract!Open, Contract!Doom, Contract!Die, Contract!Namespaces
  <2>1. CASE ~UNCHANGED nsVars
    <3>1. UNCHANGED targetOf /\ targetOf \in {"waiting", "dead"}
      BY <2>1, NamespaceChange DEF targetOf, Inv, LeaseDiscipline, AppInv
    <3>2. nsOf' \in {"clean", "full", "dirty"} BY DEF nsOf
    <3> QED BY <3>1, <3>2
  <2>2. CASE UNCHANGED nsVars
    <3>1. UNCHANGED nsOf BY <2>2, BackendChange DEF nsOf
    <3>2. CASE AppResume
      <4>1. CASE appPc' = "active"
        <5>1. Full BY <3>2, <4>1 DEF AppResume, Inv, LeaseDiscipline, StatusInv
        <5>2. nsOf = "full" BY <5>1 DEF Full, nsOf
        <5> QED BY <3>1, <3>2, <4>1, <5>2 DEF AppResume, targetOf
      <4>2. CASE appPc' = "tainted"
        BY <3>1, <3>2, <4>2 DEF AppResume, targetOf
      <4>3. CASE appPc' = "failopen"
        <5>1. Clean
          BY <3>2, <4>3 DEF AppResume, Inv, LeaseDiscipline, StatusInv, AppInv, CleanInv,
                 MountTransactionHasResult
        <5>2. nsOf = "clean" BY <5>1 DEF Clean, nsOf
        <5> QED BY <3>1, <3>2, <4>3, <5>2 DEF AppResume, targetOf
      <4> QED BY <3>2, <4>1, <4>2, <4>3 DEF AppResume
    <3>3. CASE AppSendPlan
      <4>1. nsOf = "clean"
        BY <3>3 DEF AppSendPlan, Inv, LeaseDiscipline, AppInv, CompanionInv, WorkerInv,
               BeforeLease, Clean, nsOf
      <4> QED BY <3>1, <3>3, <4>1 DEF AppSendPlan, targetOf
    <3>4. CASE AppOwnerDeadline BY <3>1, <3>4 DEF AppOwnerDeadline, targetOf
    <3>5. CASE AppSeeResult \/ AppDeadline \/ AppCancelPending \/ AppCancelApplying
      BY <3>1, <3>5 DEF AppSeeResult, AppDeadline, AppCancelPending, AppCancelApplying,
             targetOf
    <3>6. CASE appPc' = "dead" BY <3>1, <3>6 DEF targetOf
    <3>7. CASE UNCHANGED appPc BY <3>1, <3>7 DEF targetOf
    <3> QED BY <3>2, <3>3, <3>4, <3>5, <3>6, <3>7, AppChange DEF AppStep
  <2> QED BY <2>1, <2>2
<1> QED BY <1>1, <1>2, Invariance, PTL DEF Spec, ContractSafety
=============================================================================
