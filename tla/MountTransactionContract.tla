---------------------- MODULE MountTransactionContract ----------------------
(***************************************************************************)
(* The refinement mapping from the mount transaction to the contract of a  *)
(* launch.                                                                 *)
(***************************************************************************)
EXTENDS MountTransaction

nsOf ==
    CASE mounted = RuleCount /\ private = plan.private -> "full"
      [] mounted = 0 /\ ~private -> "clean"
      [] OTHER -> "dirty"

targetOf ==
    CASE appPc = "active" -> "enforced"
      [] appPc \in {"failopen", "unloaded"} -> "open"
      [] appPc = "tainted" -> "doomed"
      [] appPc = "dead" -> "dead"
      [] OTHER -> "waiting"

Contract == INSTANCE MountContract WITH ns <- nsOf, target <- targetOf

(* The safety part of the contract: every step of the launch is a step of  *)
(* the contract or leaves it alone.                                        *)
ContractSafety == Contract!Init /\ [][Contract!Next]_(Contract!vars)

(* The transaction implements the contract, liveness included: the app is  *)
(* released with the whole plan or with a clean namespace, the namespace   *)
(* never moves under a running app, and no app waits forever.              *)
ImplementsContract == Contract!Spec
-----------------------------------------------------------------------------
(* The inductive invariant behind the safety properties. *)

BeforeLease == {"none", "start", "preflight", "check", "lease"}
UnderLease == {"private", "rules", "apply", "complete", "verify", "rollback", "unmount",
               "rbverify", "publish", "publishCas"}
RollingBack == {"rollback", "unmount", "rbverify", "publish", "publishCas", "terminate"}

Clean == mounted = 0 /\ ~private
Full == mounted = RuleCount /\ private = plan.private

(* What the worker has done to the namespace at each of its steps. *)
WorkerInv ==
    /\ private => plan.private
    /\ ~untracked
    /\ wPc \in BeforeLease \cup {"private"} => Clean /\ journal = 0 /\ idx = 0
    /\ wPc \in {"rules", "apply", "complete"} => private = plan.private
    /\ wPc \in {"rules", "apply", "complete", "verify", "rollback"} => journal = mounted
    /\ wPc \in {"rules", "apply", "unmount"} => idx = mounted
    /\ wPc = "apply" => mounted < RuleCount
    /\ (wPc = "complete" \/ (wPc = "verify" /\ ~err)) => Full
    /\ wPc = "unmount" => mounted > 0
    /\ wPc = "rbverify" => mounted = 0
    /\ (wPc \in {"publish", "publishCas"} /\ ~rbFailed) => mounted = 0
    /\ wPc \in RollingBack => err
    /\ (wPc \in {"check", "lease"} \cup UnderLease /\ plan.private) => locked

(* The status word against the worker's progress: who holds the lease. *)
StatusInv ==
    /\ wPc = "none" => status \in {"pending", "cancel_requested", "failed", "cancelled"}
    /\ wPc \in BeforeLease \ {"none"} => status \in {"pending", "cancel_requested"}
    /\ wPc \in UnderLease => status \in {"applying", "cancel_requested"}
    /\ wPc = "publishCas" => /\ wSeen \in {"applying", "cancel_requested"}
                             /\ wSeen = "cancel_requested" => status = "cancel_requested"
    /\ wPc = "terminate" => status \notin {"pending", "complete"}
    /\ wPc = "send" => err = (status # "complete")
    /\ sent # "none" => wPc = "exited"
    /\ wPc = "exited" => sent = (IF status = "complete" THEN "ok" ELSE "error")
    /\ status \in {"pending", "failed", "cancelled"} => Clean
    /\ status = "applying" => wPc \in UnderLease \cup {"dead"}
    /\ status = "complete" => Full /\ result = "ok"
    /\ record = "complete" => status = "complete"

(* What the companion may still publish, and against whom. *)
CompanionInv ==
    /\ parPc = "idle" => status = "pending"
    /\ parPc \in {"idle", "recv", "policy", "ready", "topology", "fork"} =>
           wPc = "none" /\ status \in {"pending", "cancel_requested"}
    /\ parPc \in {"reap", "taint", "terminate"} => wPc \in {"exited", "dead"}
    /\ parPc \in {"final", "publish", "record", "done"} => wPc \in {"none", "exited", "dead"}
    /\ gotReport => wPc = "exited"
    /\ parPc \in {"taint", "publish"} =>
           \/ parSeen = status
           \/ parSeen \in {"pending", "applying"} /\ status = "cancel_requested"
    /\ parPc = "taint" => parSeen \in {"applying", "cancel_requested"}
    /\ (parPc = "publish" /\ parSeen = "pending") => Clean

(* The app goes on only when the worker can no longer hold the lease. *)
AppInv ==
    /\ appPc \in {"pre", "unloaded"} => parPc = "idle"
    /\ parPc = "idle" => appPc \in {"pre", "unloaded", "dead"}
    /\ appPc \in {"wait", "cancelPending", "cancelApplying"} => status # "cancel_requested"
    /\ wPc \in UnderLease =>
           appPc \in {"wait", "cancelPending", "cancelApplying", "owner", "dead"}
    /\ (appPc = "read" /\ received) => MountTransactionHasResult(status)
    /\ (appPc = "read" /\ ~received) => Clean /\ status \notin {"pending", "applying", "complete"}
    /\ appPc = "failopen" => status # "pending"
    /\ appPc = "active" => status = "complete"
    /\ appPc = "tainted" => status = "namespace_tainted"

(* What makes failing open safe when the kill of the namespace's members   *)
(* reaches them all.                                                       *)
CleanInv ==
    /\ status = "rollback_complete" => Clean \/ appPc = "dead"
    /\ (wPc \in {"send", "exited"} /\ status = "cancel_requested") => Clean \/ appPc = "dead"
    /\ appPc = "failopen" => Clean

(* The inductive invariant: who may change the namespace and the status    *)
(* word, given where the app, the companion and the worker stand.          *)
LeaseDiscipline ==
    WorkerInv /\ StatusInv /\ CompanionInv /\ AppInv /\ (~ScanMayMiss => CleanInv)
=============================================================================
