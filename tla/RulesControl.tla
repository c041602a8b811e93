----------------------------- MODULE RulesControl -----------------------------
(***************************************************************************)
(* The control plane of pathguardd: the Reconciler                         *)
(* (daemon/src/rules_control.cpp), the loops that call it                  *)
(* (daemon/src/main.cpp), the Manager's SaveRules and the boot script that *)
(* compiles rules.toml before the daemon runs (module/post-fs-data.sh),    *)
(* against editors of rules.toml, crashes of the daemon and reboots.       *)
(*                                                                         *)
(* A source is a record: text tells two files apart (its digest is the     *)
(* record itself), wellFormed says whether it passes every check up to     *)
(* encoding, policy is the content generation of its enabled apps, "empty" *)
(* when every app is disabled.                                             *)
(***************************************************************************)
EXTENDS PolicyPublisher

CONSTANTS Sources,        \* what an editor may save
          ControlFaults,  \* see ControlFaultPoints
          EarlyEdits,     \* edits may fall between the first load and the watch
          MaxEdits,       \* bound on edits, deletions and touches
          MaxSaves,       \* bound on Manager requests
          MaxDeaths       \* bound on crashes and reboots

ControlFaultPoints == {"watch", "status_write", "source_write", "source_sync"}

Truncated == [text |-> "truncated", wellFormed |-> FALSE, policy |-> "empty"]
Missing == [text |-> "missing", wellFormed |-> FALSE, policy |-> "empty"]
NoSource == [text |-> "", wellFormed |-> FALSE, policy |-> "empty"]

ASSUME ControlAssumption ==
    /\ \A s \in Sources : s.policy \in Gens \cup {"empty"}
    /\ Sources \cap {Truncated, Missing, NoSource} = {}
    /\ ControlFaults \subseteq ControlFaultPoints
    /\ EarlyEdits \in BOOLEAN
    /\ MaxEdits \in Nat /\ MaxSaves \in Nat /\ MaxDeaths \in Nat

VARIABLES rules,       \* rules.toml
          writing,     \* an editor has truncated it and not yet closed it
          topology,    \* the storage topology of the device is supported
          pc,          \* where the daemon is
          after,       \* where Reconcile returns to
          ctl,         \* state_, device_dirty_ and the topology snapshot
          statusFile,  \* rules-status.txt
          loop,        \* "inotify" or "polling"
          watching,    \* the inotify watch exists
          event,       \* an event is queued on it
          save,        \* the Manager's request
          admissible,  \* generations that met the device's capabilities (ghost)
          edits, saves, deaths

sourceVars == <<rules, writing, edits>>
loopVars == <<loop, watching, event>>
controlVars == <<rules, writing, topology, pc, after, ctl, statusFile, loop,
                 watching, event, save, admissible, edits, saves, deaths>>
allVars == <<pubVars, controlVars>>

Status == {"active", "source_invalid", "environment_unsupported", "publish_failed"}
Digests == Sources \cup {Truncated, NoSource}
ControlPc == {"down", "start", "load", "publish", "write_status", "watch", "poll",
              "save_recheck", "save_write"}

-----------------------------------------------------------------------------
(* Compiling and admitting *)

(* CompileRules: a policy without an enabled app is refused by             *)
(* EncodePolicy (CanonicalizeDocument).                                    *)
CompileRules(source) == source.wellFormed /\ source.policy # "empty"

(* AdmitPolicy under MakeDeviceSnapshot: every primitive is assumed to     *)
(* work, every compiled policy has an app, so the topology decides.        *)
AdmitPolicy(topologySupported) == topologySupported

(* LoadRulesSource: a missing or unsafe file is refused; a file that is    *)
(* being written is refused as unstable or read as it stands.              *)
LoadRulesSource ==
    IF rules = Missing THEN {Missing}
    ELSE IF writing THEN {Missing, rules} ELSE {rules}

-----------------------------------------------------------------------------
(* Reconciler *)

(* The constructor and ProbeStorageTopology: the active generation is read *)
(* from policy.bin, the epoch from a status file of that generation.       *)
DaemonStart ==
    LET gen == ReadGeneration(dir)
    IN  /\ pc = "start"
        /\ ctl' = [digest |-> NoSource, status |-> "source_invalid",
                   activeGen |-> gen, dirty |-> FALSE, topology |-> topology,
                   epoch |-> CASE gen = "none" -> 0
                               [] gen # "none" /\ statusFile.activeGen = gen
                                    /\ statusFile.epoch # 0 -> statusFile.epoch
                               [] OTHER -> 1]
        /\ pc' = "load"
        /\ after' = "watch"
        /\ UNCHANGED <<pubVars, sourceVars, topology, statusFile, loopVars, save,
                       admissible, saves, deaths>>

SourceUnchanged(source) == source = ctl.digest /\ ~ctl.dirty

(* Reconcile up to the publication: load, compare, compile and admit. *)
ReconcileLoad ==
    /\ pc = "load"
    /\ \E source \in LoadRulesSource :
         LET taken == [ctl EXCEPT !.digest = source, !.dirty = FALSE]
             deploy == CompileRules(source) /\ AdmitPolicy(ctl.topology)
         IN  CASE source = Missing ->
                    /\ ctl' = [ctl EXCEPT !.status = "source_invalid"]
                    /\ pc' = "write_status"
                    /\ UNCHANGED <<pubVars, admissible>>
               [] source # Missing /\ SourceUnchanged(source) ->
                    /\ pc' = "write_status"
                    /\ UNCHANGED <<pubVars, ctl, admissible>>
               [] source # Missing /\ ~SourceUnchanged(source) /\ ~deploy ->
                    /\ ctl' = [taken EXCEPT !.status =
                                 IF CompileRules(source) THEN "environment_unsupported"
                                 ELSE "source_invalid"]
                    /\ pc' = "write_status"
                    /\ UNCHANGED <<pubVars, admissible>>
               [] source # Missing /\ ~SourceUnchanged(source) /\ deploy ->
                    /\ ctl' = taken
                    /\ PublishStart(source.policy)
                    /\ pc' = "publish"
                    /\ admissible' = IF topology THEN admissible \cup {source.policy}
                                     ELSE admissible
    /\ UNCHANGED <<sourceVars, topology, after, statusFile, loopVars, save, saves,
                   deaths>>

ReconcilePublish ==
    /\ pc = "publish"
    /\ PublishStep
    /\ UNCHANGED controlVars

(* Mutant: any answer of Publish counts as success. *)
AnyResult(result) == TRUE

PublishOk(result) == result \in {"published", "unchanged"}

ReconcilePublished ==
    /\ pc = "publish"
    /\ pub.pc = "done"
    /\ ctl' = IF PublishOk(pub.result)
              THEN [ctl EXCEPT !.status = "active", !.activeGen = pub.blob,
                      !.epoch = @ + IF pub.result = "published" THEN 1 ELSE 0]
              ELSE [ctl EXCEPT !.status = "publish_failed"]
    /\ pub' = Idle
    /\ pc' = "write_status"
    /\ UNCHANGED <<dir, survivors, sourceVars, topology, after, statusFile, loopVars,
                   save, admissible, saves, deaths>>

(* WriteControlStatus replaces the status file and fsyncs run/, so it also *)
(* makes policy.bin durable.  Its result is ignored.                       *)
WriteControlStatus ==
    /\ pc = "write_status"
    /\ LET record == [status |-> ctl.status, activeGen |-> ctl.activeGen,
                      epoch |-> ctl.epoch]
       IN  \/ /\ statusFile' = record
              /\ survivors' = {dir}
           \/ /\ "status_write" \in ControlFaults
              /\ statusFile' \in {statusFile, record}
              /\ UNCHANGED survivors
    /\ pc' = after
    /\ after' = "poll"
    /\ UNCHANGED <<dir, pub, sourceVars, topology, ctl, loopVars, save, admissible,
                   saves, deaths>>

-----------------------------------------------------------------------------
(* The loops of main.cpp *)

(* Mutant: a new topology does not mark the device dirty. *)
KeepSnapshotClean(c) == IF ~c.topology /\ topology THEN [c EXCEPT !.topology = TRUE] ELSE c

RefreshPendingTopology(c) ==
    IF ~c.topology /\ topology
    THEN [c EXCEPT !.topology = TRUE, !.dirty = TRUE] ELSE c

StartWatch ==
    /\ pc = "watch"
    /\ \/ /\ watching' = TRUE
          /\ UNCHANGED loop
       \/ /\ "watch" \in ControlFaults
          /\ loop' = "polling"
          /\ UNCHANGED watching
    /\ pc' = "poll"
    /\ UNCHANGED <<pubVars, sourceVars, topology, after, ctl, statusFile, event, save,
                   admissible, saves, deaths>>

(* poll returned events: drain them all, then reconcile. *)
LoopEvent ==
    /\ pc = "poll" /\ loop = "inotify" /\ event
    /\ event' = FALSE
    /\ ctl' = RefreshPendingTopology(ctl)
    /\ pc' = "load"
    /\ UNCHANGED <<pubVars, sourceVars, topology, after, statusFile, loop, watching,
                   save, admissible, saves, deaths>>

(* poll timed out, which it only does while the topology is unsupported. *)
LoopTimeout ==
    /\ pc = "poll" /\ loop = "inotify" /\ ~ctl.topology /\ topology
    /\ ctl' = RefreshPendingTopology(ctl)
    /\ pc' = "load"
    /\ UNCHANGED <<pubVars, sourceVars, topology, after, statusFile, loopVars, save,
                   admissible, saves, deaths>>

(* A failing poll or read falls back to polling. *)
LoopFails ==
    /\ pc = "poll" /\ loop = "inotify" /\ "watch" \in ControlFaults
    /\ loop' = "polling"
    /\ watching' = FALSE
    /\ event' = FALSE
    /\ UNCHANGED <<pubVars, sourceVars, topology, pc, after, ctl, statusFile, save,
                   admissible, saves, deaths>>

RunPollingLoop ==
    /\ pc = "poll" /\ loop = "polling"
    /\ ctl' = RefreshPendingTopology(ctl)
    /\ pc' = "load"
    /\ UNCHANGED <<pubVars, sourceVars, topology, after, statusFile, loopVars, save,
                   admissible, saves, deaths>>

-----------------------------------------------------------------------------
(* Reconciler::SaveRules, called between two rounds of the loop *)

Answer(result) == [save EXCEPT !.result = result]

(* First load and digest comparison, then compile and admit. *)
SaveRules ==
    /\ pc = "poll" /\ saves < MaxSaves
    /\ saves' = saves + 1
    /\ \E expected \in Digests, replacement \in Sources, current \in LoadRulesSource :
         LET accepted == /\ current = expected
                         /\ CompileRules(replacement)
                         /\ AdmitPolicy(ctl.topology)
         IN  /\ save' = [expected |-> expected, replacement |-> replacement,
                         result |-> IF accepted THEN "none" ELSE "rejected"]
             /\ pc' = IF accepted THEN "save_recheck" ELSE "poll"
    /\ UNCHANGED <<pubVars, sourceVars, topology, after, ctl, statusFile, loopVars,
                   admissible, deaths>>

SaveRecheck ==
    /\ pc = "save_recheck"
    /\ \E current \in LoadRulesSource :
         IF current = save.expected
         THEN pc' = "save_write" /\ UNCHANGED save
         ELSE pc' = "poll" /\ save' = Answer("rejected")
    /\ UNCHANGED <<pubVars, sourceVars, topology, after, ctl, statusFile, loopVars,
                   admissible, saves, deaths>>

(* AtomicWriteText of rules.toml: it answers false when the temporary file *)
(* cannot be written or renamed, and also when the directory fsync after   *)
(* the rename fails.                                                       *)
SaveWrite ==
    /\ pc = "save_write"
    /\ \/ /\ rules' = save.replacement
          /\ writing' = FALSE
          /\ event' = watching
          /\ \/ save' = Answer("saved") /\ pc' = "load"
             \/ /\ "source_sync" \in ControlFaults
                /\ save' = Answer("rejected") /\ pc' = "poll"
       \/ /\ "source_write" \in ControlFaults
          /\ save' = Answer("rejected") /\ pc' = "poll"
          /\ UNCHANGED <<rules, writing, event>>
    /\ UNCHANGED <<pubVars, edits, topology, after, ctl, statusFile, loop, watching,
                   admissible, saves, deaths>>

DaemonStep ==
    \/ DaemonStart \/ ReconcileLoad \/ ReconcilePublish \/ ReconcilePublished
    \/ WriteControlStatus \/ StartWatch \/ LoopEvent \/ LoopTimeout
    \/ RunPollingLoop \/ SaveRecheck \/ SaveWrite

-----------------------------------------------------------------------------
(* The environment *)

(* After the first load, and before anything would tell of a change. *)
Unwatched == loop = "inotify" /\ ~watching /\ pc \notin {"down", "start", "load"}

Edit ==
    /\ edits < MaxEdits
    /\ EarlyEdits \/ ~Unwatched
    /\ edits' = edits + 1
    /\ UNCHANGED <<pubVars, topology, pc, after, ctl, statusFile, loop, watching, save,
                   admissible, saves, deaths>>

(* A rename over rules.toml, or its removal, or a change of its mode. *)
EditReplace ==
    /\ Edit
    /\ rules' \in Sources \cup {Missing}
    /\ writing' = FALSE
    /\ event' = watching

(* An in-place save truncates first; no watched event tells. *)
EditTruncate ==
    /\ Edit
    /\ rules # Missing
    /\ rules' = Truncated
    /\ writing' = TRUE
    /\ UNCHANGED event

EditClose ==
    /\ writing
    /\ EarlyEdits \/ ~Unwatched
    /\ rules' \in Sources
    /\ writing' = FALSE
    /\ event' = watching
    /\ UNCHANGED <<pubVars, edits, topology, pc, after, ctl, statusFile, loop, watching,
                   save, admissible, saves, deaths>>

(* pathguardctl reload touches the file. *)
Reload ==
    /\ Edit
    /\ rules # Missing
    /\ event' = watching
    /\ UNCHANGED <<rules, writing>>

TopologyAppears ==
    /\ ~topology
    /\ topology' = TRUE
    /\ UNCHANGED <<pubVars, sourceVars, pc, after, ctl, statusFile, loopVars, save,
                   admissible, saves, deaths>>

DaemonStops ==
    /\ deaths < MaxDeaths
    /\ deaths' = deaths + 1
    /\ loop' = "inotify" /\ watching' = FALSE /\ event' = FALSE
    /\ save' = Answer("none")
    /\ UNCHANGED <<after, ctl, statusFile, edits, admissible, saves>>

Crash ==
    /\ pc # "down"
    /\ DaemonStops
    /\ DaemonDies
    /\ pc' = "down"
    /\ UNCHANGED <<rules, writing, topology>>

(* service.sh starts the daemon again. *)
Restart ==
    /\ pc = "down"
    /\ pc' = "start"
    /\ UNCHANGED <<pubVars, sourceVars, topology, after, ctl, statusFile, loopVars,
                   save, admissible, saves, deaths>>

(* A power loss, then post-fs-data.sh: pathguardctl compiles rules.toml    *)
(* without a device snapshot and mv -f makes the output policy.bin.        *)
Reboot ==
    /\ DaemonStops
    /\ \E d \in survivors : \E left \in AfterPowerLoss(d) :
         LET booted == Put(left, "policy.bin",
                           [gen |-> rules.policy, state |-> "cached"])
         IN  IF CompileRules(rules)
             THEN dir' = booted /\ survivors' = {left, booted}
             ELSE dir' = left /\ survivors' = {left}
    /\ pub' = Idle
    /\ pc' = "start"
    /\ writing' = FALSE
    /\ topology' = FALSE
    /\ UNCHANGED rules

Environment ==
    \/ SaveRules \/ EditReplace \/ EditTruncate \/ EditClose \/ Reload
    \/ TopologyAppears \/ LoopFails \/ Crash \/ Restart \/ Reboot

-----------------------------------------------------------------------------
ControlInit ==
    /\ Init
    /\ rules \in Sources
    /\ writing = FALSE
    /\ topology = FALSE
    /\ pc = "start"
    /\ after = "watch"
    /\ ctl = [digest |-> NoSource, status |-> "source_invalid", activeGen |-> "none",
              epoch |-> 0, dirty |-> FALSE, topology |-> FALSE]
    /\ statusFile = [status |-> "source_invalid", activeGen |-> "none", epoch |-> 0]
    /\ loop = "inotify" /\ watching = FALSE /\ event = FALSE
    /\ save = [expected |-> NoSource, replacement |-> NoSource, result |-> "none"]
    /\ admissible = {}
    /\ edits = 0 /\ saves = 0 /\ deaths = 0

ControlNext == DaemonStep \/ Environment

(* The daemon is one thread that the scheduler eventually runs.  Editors,  *)
(* the Manager, the device and crashes owe nothing.                        *)
ControlSpec == ControlInit /\ [][ControlNext]_allVars /\ WF_allVars(DaemonStep)

-----------------------------------------------------------------------------
(* Properties *)

(* Type invariant. *)
ControlTypeOK ==
    /\ TypeOK
    /\ rules \in Digests \cup {Missing} /\ writing \in BOOLEAN /\ topology \in BOOLEAN
    /\ pc \in ControlPc /\ after \in {"watch", "poll"}
    /\ ctl \in [digest : Digests, status : Status, activeGen : Gens \cup {"none"},
                epoch : Nat, dirty : BOOLEAN, topology : BOOLEAN]
    /\ statusFile \in [status : Status, activeGen : Gens \cup {"none"}, epoch : Nat]
    /\ loop \in {"inotify", "polling"} /\ watching \in BOOLEAN /\ event \in BOOLEAN
    /\ save \in [expected : Digests, replacement : Digests,
                 result : {"none", "rejected", "saved"}]
    /\ admissible \subseteq Gens
    /\ edits \in 0..MaxEdits /\ saves \in 0..MaxSaves /\ deaths \in 0..MaxDeaths

(* Whenever the daemon waits, the active_content_generation it reports is  *)
(* the one a process reading policy.bin gets, whichever calls of Publish   *)
(* failed: an invalid source, a refused admission or a failed publication  *)
(* kept the previous policy.                                               *)
StatusIsTruthful ==
    (pc = "poll" /\ "restore" \notin Faults) => ctl.activeGen = ReadGeneration(dir)

(* "active" is only reported for the source whose policy is deployed, also *)
(* after edits that came while an earlier version was being published.     *)
ActiveMeansDeployed ==
    (pc = "poll" /\ ctl.status = "active") => ReadGeneration(dir) = ctl.digest.policy

(* The inductive invariant.  The control state follows policy.bin except   *)
(* during a publication, where it follows the policy the call found: that  *)
(* is what a failed call has to put back.                                  *)
GenerationOf(file) == IF file.state \in {"cached", "durable"} THEN file.gen ELSE "none"

Publishing == pc = "publish"
Controls == pc \notin {"down", "start", "publish"}

ControlInv ==
    /\ ControlTypeOK
    /\ CallInv
    /\ Publishing <=> pub.pc # "idle"
    /\ Publishing => ctl.digest.policy = pub.blob
    /\ (Publishing /\ "restore" \notin Faults) => ctl.activeGen = GenerationOf(pub.before)
    /\ (Controls /\ "restore" \notin Faults) => ctl.activeGen = ReadGeneration(dir)
    /\ (Controls /\ ctl.status = "active") => ReadGeneration(dir) = ctl.digest.policy

(* policy.bin never holds a generation that was not found supported by the *)
(* device.  Edits, failed calls, crashes and restarts of the daemon keep   *)
(* it so; a reboot does not, since the boot script deploys what rules.toml *)
(* says without asking.                                                    *)
OnlyAdmittedDeployed == ReadGeneration(dir) \in admissible \cup {"none"}

Settled == topology /\ ~writing /\ pc # "down"

(* Once the editors stop, policy.bin holds the policy of the last source   *)
(* saved, if it compiles and the device supports it: no event is lost      *)
(* between draining the queue, loading the file and publishing, and the    *)
(* polling fallback catches up.                                            *)
Converges ==
    <>[]((Settled /\ CompileRules(rules)) => ReadGeneration(dir) = rules.policy)

(* Once the editors stop, the status reports the last source as active.    *)
(* After a failed load the same file counts as unchanged, and the old      *)
(* failure stays.                                                          *)
StatusConverges ==
    <>[]((Settled /\ CompileRules(rules)) => ctl.status = "active")

(* A source all of whose apps are disabled takes their rules out of        *)
(* policy.bin.  The encoder refuses the empty policy instead.              *)
DisabledIsWithdrawn ==
    (/\ pc = "poll" /\ ~event /\ watching
     /\ ctl.digest = rules /\ rules.wellFormed /\ rules.policy = "empty"
     /\ ctl.topology) => ReadGeneration(dir) = "none"

(* A rejected save leaves rules.toml alone. *)
RejectedSaveKeepsSource ==
    [][(save.result = "none" /\ save'.result = "rejected") => rules' = rules]_allVars
=============================================================================
