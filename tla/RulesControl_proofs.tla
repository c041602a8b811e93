-------------------------- MODULE RulesControl_proofs --------------------------
(* Proofs about the control plane, for every set of sources, generations   *)
(* and faults, and any number of edits, saves, crashes and reboots.        *)
EXTENDS RulesControl, PolicyPublisher_proofs

(* Most leaves are first-order; those with arithmetic or records name the  *)
(* SMT solver.                                                             *)
USE Zenon

(* What the fields of the control state other than those of the publisher  *)
(* may hold.                                                               *)
ControlState == [digest : Digests, status : Status, activeGen : Gens \cup {"none"},
                 epoch : Nat, dirty : BOOLEAN, topology : BOOLEAN]
StatusRecord == [status : Status, activeGen : Gens \cup {"none"}, epoch : Nat]
SaveRecord == [expected : Digests, replacement : Digests,
               result : {"none", "rejected", "saved"}]

Types ==
    /\ rules \in Digests \cup {Missing} /\ writing \in BOOLEAN /\ topology \in BOOLEAN
    /\ pc \in ControlPc /\ after \in {"watch", "poll"}
    /\ ctl \in ControlState
    /\ statusFile \in StatusRecord
    /\ loop \in {"inotify", "polling"} /\ watching \in BOOLEAN /\ event \in BOOLEAN
    /\ save \in SaveRecord
    /\ admissible \subseteq Gens
    /\ edits \in 0..MaxEdits /\ saves \in 0..MaxSaves /\ deaths \in 0..MaxDeaths

(* The part of ControlInv that relates control state and publisher. *)
Relation ==
    /\ Publishing <=> pub.pc # "idle"
    /\ Publishing => ctl.digest.policy = pub.blob
    /\ (Publishing /\ "restore" \notin Faults) => ctl.activeGen = GenerationOf(pub.before)
    /\ (Controls /\ "restore" \notin Faults) => ctl.activeGen = ReadGeneration(dir)
    /\ (Controls /\ ctl.status = "active") => ReadGeneration(dir) = ctl.digest.policy

(* The parts of the invariant, one for each kind of state. *)
LEMMA InvParts == ControlInv <=> Types /\ CallInv /\ Relation
  BY DEF ControlInv, ControlTypeOK, Types, CallInv, Relation, ControlState,
     StatusRecord, SaveRecord

(* The same for the next state. *)
LEMMA InvPartsNext == Types' /\ CallInv' /\ Relation' => ControlInv'
  BY DEF ControlInv, ControlTypeOK, Types, CallInv, Relation, ControlState,
     StatusRecord, SaveRecord

(* CallInv speaks of the publisher's variables only. *)
LEMMA CallStutter == CallInv /\ UNCHANGED pubVars => CallInv'
  BY SMTT(30) DEF CallInv, pubVars, TypeOK, FailureRetainsPolicy, OldIsBackup, BlobFile,
     ReadGeneration

(* A step of the call keeps what it was called with. *)
LEMMA StepKeepsCaller ==
  ASSUME TypeOK, PublishStep
  PROVE  pub'.pc # "idle" /\ pub'.blob = pub.blob /\ pub'.before = pub.before
  <1> HIDE DEF TypeOK
  <1>1. CASE PublishPreserve
    <2>1. CASE pub' = [pub EXCEPT !.pc = "rename", !.hadActive = dir["policy.bin"] # NoFile]
      BY <2>1 DEF TypeOK, Publication
    <2>2. CASE Return("failed")
      BY <2>2, CallSteps DEF Returned
    <2> QED
      BY <1>1, <2>1, <2>2 DEF PublishPreserve
  <1>2. CASE ~PublishPreserve
    BY <1>2, CallSteps DEF PublishStep, PublishCandidate, PublishFileSync, PublishRename,
       PublishRestore, PublishDirSync, PublishWithdraw, PublishPutBack, PublishCleanup,
       Moved, Returned
  <1> QED
    BY <1>1, <1>2

(* No call in progress: nothing to say but the types. *)
LEMMA IdleCall ==
  ASSUME dir' \in Directory, survivors' \subseteq Directory, pub' = Idle
  PROVE  CallInv'
  BY IdleFacts DEF CallInv, TypeOK, FailureRetainsPolicy, Idle

(* A source that compiles is one of the sources, and has a generation. *)
LEMMA CompiledSource ==
  ASSUME NEW source \in Digests \cup {Missing}, CompileRules(source)
  PROVE  source \in Sources /\ source.policy \in Gens
  <1>1. source.policy # "empty"
    BY Zenon DEF CompileRules
  <1> QED
    <2>1. Truncated.policy = "empty" /\ Missing.policy = "empty" /\ NoSource.policy = "empty"
      BY DEF Truncated, Missing, NoSource
    <2>2. source \in Sources
      BY <1>1, <2>1 DEF Digests
    <2> QED
      BY <1>1, <2>2, ControlAssumption

(* What a load returns is a source, or Missing. *)
LEMMA LoadedSource ==
  ASSUME Types, NEW source \in LoadRulesSource
  PROVE  source \in Digests \cup {Missing} /\ (source # Missing => source \in Digests)
  BY DEF Types, LoadRulesSource

(* What the assumptions say of the constants, and of the values the state  *)
(* starts with.                                                            *)
LEMMA Constants ==
  /\ MaxEdits \in Nat /\ MaxSaves \in Nat /\ MaxDeaths \in Nat
  /\ NoSource \in Digests /\ Truncated \in Digests /\ Sources \subseteq Digests
  /\ "none" \notin Gens
  BY ControlAssumption, GensAssumption DEF Digests

-----------------------------------------------------------------------------
(* The daemon *)

(* A daemon that has not started believes in nothing. *)
LEMMA InitInv == ControlInit => ControlInv
  <1> SUFFICES ASSUME ControlInit PROVE Types /\ CallInv /\ Relation
    BY InvParts
  <1>1. PublishInv
    BY InitPublishInv DEF ControlInit
  <1>2. CallInv
    BY <1>1 DEF PublishInv
  <1>3. Types
    <2>1. ctl \in ControlState
      BY Constants DEF ControlInit, ControlState, Status
    <2>2. statusFile \in StatusRecord
      BY DEF ControlInit, StatusRecord, Status
    <2>3. save \in SaveRecord
      BY Constants DEF ControlInit, SaveRecord
    <2>4. /\ rules \in Sources /\ writing = FALSE /\ topology = FALSE
          /\ pc = "start" /\ after = "watch" /\ loop = "inotify"
          /\ watching = FALSE /\ event = FALSE /\ admissible = {}
          /\ edits = 0 /\ saves = 0 /\ deaths = 0
      BY DEF ControlInit
    <2>5. /\ rules \in Digests \cup {Missing} /\ admissible \subseteq Gens
          /\ edits \in 0..MaxEdits /\ saves \in 0..MaxSaves /\ deaths \in 0..MaxDeaths
      BY <2>4, Constants, SMTT(30)
    <2> QED
      BY <2>1, <2>2, <2>3, <2>4, <2>5, Zenon DEF Types, ControlPc
  <1>4. Relation
    BY IdleFacts DEF ControlInit, Init, Relation, Publishing, Controls
  <1> QED
    BY <1>2, <1>3, <1>4

(* The daemon starts with the generation it finds in policy.bin. *)
LEMMA StartKeeps == ASSUME ControlInv, DaemonStart PROVE ControlInv'
  <1>0. Types /\ CallInv /\ Relation
    BY InvParts
  <1>1. CallInv'
    BY <1>0, CallStutter DEF DaemonStart
  <1>2. ReadGeneration(dir) \in Gens \cup {"none"}
    BY <1>0, SMTT(30) DEF CallInv, TypeOK, ReadGeneration, Directory, Names, Entry, File, NoFile
  <1>3. /\ ctl' \in ControlState
        /\ ctl'.activeGen = ReadGeneration(dir) /\ ctl'.status = "source_invalid"
    <2>1. statusFile.epoch \in Nat
      BY <1>0 DEF Types, StatusRecord
    <2>2. topology \in BOOLEAN
      BY <1>0 DEF Types
    <2> QED
      BY <1>2, <2>1, <2>2, Constants DEF DaemonStart, ControlState, Status
  <1>4. Types'
    BY <1>0, <1>3 DEF DaemonStart, Types, sourceVars, loopVars, ControlPc
  <1>5. Relation'
    BY <1>0, <1>3 DEF DaemonStart, Relation, Publishing, Controls, pubVars,
       ReadGeneration
  <1> QED
    BY <1>1, <1>4, <1>5, InvPartsNext

(* The Reconciler loads the source and stores its digest, or finds it      *)
(* unchanged, broken or not admissible.                                    *)
LEMMA LoadKeeps == ASSUME ControlInv, ReconcileLoad PROVE ControlInv'
  <1>0. Types /\ CallInv /\ Relation
    BY InvParts
  <1>1. pc = "load" /\ after' = after /\ statusFile' = statusFile /\ save' = save
        /\ saves' = saves /\ deaths' = deaths /\ topology' = topology
        /\ UNCHANGED <<sourceVars, loopVars>>
    BY DEF ReconcileLoad
  <1>2. ctl \in ControlState
    BY <1>0 DEF Types
  <1>3. CASE UNCHANGED <<pubVars, admissible>> /\ pc' = "write_status"
             /\ ctl' \in ControlState /\ ctl'.activeGen = ctl.activeGen
             /\ (ctl' = ctl \/ ctl'.status # "active")
    <2>1. CallInv'
      BY <1>0, <1>3, CallStutter
    <2>2. Types'
      BY <1>0, <1>1, <1>3 DEF Types, sourceVars, loopVars, ControlPc
    <2>3. Relation'
      BY <1>0, <1>1, <1>3 DEF Relation, Publishing, Controls, pubVars, ReadGeneration
    <2> QED
      BY <2>1, <2>2, <2>3, InvPartsNext
  <1>4. CASE \E source \in Sources :
               /\ source.policy \in Gens
               /\ ctl' = [ctl EXCEPT !.digest = source, !.dirty = FALSE]
               /\ PublishStart(source.policy)
               /\ pc' = "publish"
               /\ admissible' \subseteq admissible \cup {source.policy}
    <2>1. PICK source \in Sources :
               /\ source.policy \in Gens
               /\ ctl' = [ctl EXCEPT !.digest = source, !.dirty = FALSE]
               /\ PublishStart(source.policy)
               /\ pc' = "publish"
               /\ admissible' \subseteq admissible \cup {source.policy}
      BY <1>4
    <2>2. /\ ctl' \in ControlState /\ ctl'.digest = source
          /\ ctl'.activeGen = ctl.activeGen
      BY <1>2, <2>1, Constants DEF ControlState
    <2>3. TypeOK
      BY <1>0 DEF CallInv
    <2>4. /\ CallInv' /\ pub'.pc # "idle" /\ pub'.blob = source.policy
          /\ pub'.before = dir["policy.bin"]
      BY <2>1, <2>3, StartFacts
    <2>5. Types'
      BY <1>0, <1>1, <2>1, <2>2 DEF Types, sourceVars, loopVars, ControlPc
    <2>6. Relation'
      BY <1>0, <1>1, <2>1, <2>2, <2>4 DEF Relation, Publishing, Controls,
         ReadGeneration, GenerationOf
    <2> QED
      BY <2>4, <2>5, <2>6, InvPartsNext
  <1> QED
    <2>1. PICK source \in LoadRulesSource :
         LET taken == [ctl EXCEPT !.digest = source, !.dirty = FALSE]
             deploy == CompileRules(source) /\ AdmitPolicy(ctl.topology)
         IN  CASE source = Missing ->
                    /\ ctl' = [ctl EXCEPT !.status = "source_invalid"]
                    /\ pc' = "write_status"
                    /\ UNCHANGED <<pubVars, admissible>>
               [] source # Missing /\ SourceUnchanged(source) ->
                    /\ pc' = "write_status"
                    /\ UNCHANGED <<pubVars, ctl, admissible>>
               [] source # Missing /\ ~SourceUnchanged(source) /\ ~deploy ->
                    /\ ctl' = [taken EXCEPT !.status =
                                 IF CompileRules(source) THEN "environment_unsupported"
                                 ELSE "source_invalid"]
                    /\ pc' = "write_status"
                    /\ UNCHANGED <<pubVars, admissible>>
               [] source # Missing /\ ~SourceUnchanged(source) /\ deploy ->
                    /\ ctl' = taken
                    /\ PublishStart(source.policy)
                    /\ pc' = "publish"
                    /\ admissible' = IF topology THEN admissible \cup {source.policy}
                                     ELSE admissible
      BY DEF ReconcileLoad
    <2>2. source \in Digests \cup {Missing} /\ (source # Missing => source \in Digests)
      BY <1>0, LoadedSource
    <2>3. CASE source = Missing
      BY <1>2, <1>3, <2>1, <2>3 DEF ControlState, Status
    <2>4. CASE source # Missing /\ SourceUnchanged(source)
      BY <1>2, <1>3, <2>1, <2>4
    <2>5. CASE /\ source # Missing /\ ~SourceUnchanged(source)
               /\ ~(CompileRules(source) /\ AdmitPolicy(ctl.topology))
      BY <1>2, <1>3, <2>1, <2>2, <2>5 DEF ControlState, Status
    <2>6. CASE /\ source # Missing /\ ~SourceUnchanged(source)
               /\ CompileRules(source) /\ AdmitPolicy(ctl.topology)
      BY <1>4, <2>1, <2>2, <2>6, CompiledSource
    <2> QED
      BY <2>3, <2>4, <2>5, <2>6

(* A step of the call changes nothing that Relation says of it. *)
LEMMA PublishKeeps == ASSUME ControlInv, ReconcilePublish PROVE ControlInv'
  <1>0. Types /\ CallInv /\ Relation
    BY InvParts
  <1>1. pc = "publish" /\ PublishStep /\ UNCHANGED controlVars
    BY DEF ReconcilePublish
  <1>2. CallInv'
    BY <1>0, <1>1, StepKeepsCall
  <1>3. pub'.pc # "idle" /\ pub'.blob = pub.blob /\ pub'.before = pub.before
    BY <1>0, <1>1, StepKeepsCaller DEF CallInv
  <1>4. Types'
    BY <1>0, <1>1 DEF Types, controlVars
  <1>5. Relation'
    BY <1>0, <1>1, <1>3 DEF Relation, Publishing, Controls, controlVars
  <1> QED
    BY <1>2, <1>4, <1>5, InvPartsNext

(* The result of the call decides what the status says. *)
LEMMA PublishedKeeps == ASSUME ControlInv, ReconcilePublished PROVE ControlInv'
  <1>0. Types /\ CallInv /\ Relation
    BY InvParts
  <1>1. /\ pc = "publish" /\ pub.pc = "done" /\ pub' = Idle /\ pc' = "write_status"
        /\ ctl' = IF PublishOk(pub.result)
                  THEN [ctl EXCEPT !.status = "active", !.activeGen = pub.blob,
                          !.epoch = @ + IF pub.result = "published" THEN 1 ELSE 0]
                  ELSE [ctl EXCEPT !.status = "publish_failed"]
        /\ UNCHANGED <<dir, survivors, sourceVars, topology, after, statusFile, loopVars,
                       save, admissible, saves, deaths>>
    BY DEF ReconcilePublished
  <1>2. /\ dir \in Directory /\ survivors \subseteq Directory /\ pub.blob \in Gens
        /\ pub.result \in PublishResult \ {"none"}
    BY <1>0, <1>1 DEF CallInv, TypeOK, Publication
  <1>3. CallInv'
    BY <1>1, <1>2, IdleCall
  <1>4. ctl \in ControlState
    BY <1>0 DEF Types
  <1>5. CASE PublishOk(pub.result)
    <2>1. /\ ctl' \in ControlState
          /\ ctl'.activeGen = pub.blob /\ ctl'.digest = ctl.digest
      <3> DEFINE epoch == ctl.epoch + IF pub.result = "published" THEN 1 ELSE 0
      <3>1. epoch \in Nat
        BY <1>4, SMTT(30) DEF ControlState
      <3>2. ctl' = [ctl EXCEPT !.status = "active", !.activeGen = pub.blob, !.epoch = epoch]
        BY <1>1, <1>5
      <3> HIDE DEF epoch
      <3> QED
        BY <1>2, <1>4, <3>1, <3>2 DEF ControlState, Status
    <2>2. ReadGeneration(dir) = pub.blob
      BY <1>0, <1>5, SMTT(30) DEF CallInv, PublishOk, BlobFile, ReadGeneration
    <2>3. Types'
      BY <1>0, <1>1, <2>1 DEF Types, sourceVars, loopVars, ControlPc
    <2>4. Relation'
      BY <1>0, <1>1, <2>1, <2>2, IdleFacts DEF Relation, Publishing, Controls,
         ReadGeneration
    <2> QED
      BY <1>3, <2>3, <2>4, InvPartsNext
  <1>6. CASE ~PublishOk(pub.result)
    <2>1. /\ ctl' \in ControlState
          /\ ctl'.activeGen = ctl.activeGen /\ ctl'.status = "publish_failed"
      BY <1>1, <1>4, <1>6 DEF ControlState, Status
    <2>2. pub.result = "failed"
      BY <1>2, <1>6 DEF PublishOk, PublishResult
    <2>3. "restore" \notin Faults => ReadGeneration(dir) = GenerationOf(pub.before)
      BY <1>0, <2>2 DEF CallInv, FailureRetainsPolicy, ReadGeneration, GenerationOf
    <2>4. Types'
      BY <1>0, <1>1, <2>1 DEF Types, sourceVars, loopVars, ControlPc
    <2>5. Relation'
      BY <1>0, <1>1, <2>1, <2>3, IdleFacts DEF Relation, Publishing, Controls,
         ReadGeneration
    <2> QED
      BY <1>3, <2>4, <2>5, InvPartsNext
  <1> QED
    BY <1>5, <1>6

(* Steps that leave the publisher alone, between rounds or in one: policy, *)
(* status and generation stay related if the daemon goes on.               *)
LEMMA QuietStep ==
  ASSUME ControlInv, UNCHANGED <<dir, pub>>, survivors' \subseteq survivors \cup {dir}, Types',
         pc # "publish", pc' # "publish",
         Controls' => Controls,
         Controls' => /\ ctl'.digest = ctl.digest /\ ctl'.status = ctl.status
                      /\ ctl'.activeGen = ctl.activeGen
  PROVE  ControlInv'
  <1>0. Types /\ CallInv /\ Relation
    BY InvParts
  <1>1. CallInv'
    BY <1>0, SMTT(30) DEF CallInv, TypeOK, FailureRetainsPolicy, OldIsBackup, BlobFile,
       ReadGeneration
  <1>2. Relation'
    BY <1>0 DEF Relation, Publishing, ReadGeneration
  <1> QED
    BY <1>1, <1>2, InvPartsNext

(* The same while a call is in progress. *)
LEMMA DuringPublish ==
  ASSUME ControlInv, UNCHANGED <<pubVars, pc, ctl>>, Types', pc = "publish"
  PROVE  ControlInv'
  <1>0. CallInv /\ Relation
    BY InvParts
  <1>1. CallInv'
    BY <1>0, CallStutter
  <1>2. Relation'
    BY <1>0 DEF Relation, Publishing, Controls, pubVars
  <1> QED
    BY <1>1, <1>2, InvPartsNext

(* What a power loss leaves is a directory, torn or not. *)
LEMMA LeftIsDirectory ==
  ASSUME NEW d \in Directory, NEW left \in AfterPowerLoss(d)
  PROVE  left \in Directory
  BY SMTT(30) DEF AfterPowerLoss, Forget, Directory, Names, Entry, File, NoFile

(* A topology that has appeared changes neither digest, status nor         *)
(* generation.                                                             *)
LEMMA Refreshed ==
  ASSUME Types, NEW c, c = RefreshPendingTopology(ctl)
  PROVE  /\ c \in ControlState
         /\ c.digest = ctl.digest /\ c.status = ctl.status /\ c.activeGen = ctl.activeGen
  BY DEF Types, RefreshPendingTopology, ControlState

(* The other steps of the daemon: its status, its watch and its loops. *)
LEMMA DaemonKeeps ==
  ASSUME ControlInv,
         \/ WriteControlStatus \/ StartWatch \/ LoopEvent \/ LoopTimeout
         \/ RunPollingLoop \/ SaveRecheck \/ SaveWrite
  PROVE  ControlInv'
  <1>0. Types
    BY InvParts
  <1>1. CASE WriteControlStatus
    <2>1. [status |-> ctl.status, activeGen |-> ctl.activeGen, epoch |-> ctl.epoch]
             \in StatusRecord
      BY <1>0 DEF Types, ControlState, StatusRecord
    <2>2. Types'
      BY <1>0, <1>1, <2>1 DEF WriteControlStatus, Types, sourceVars, loopVars, ControlPc
    <2> QED
      BY <1>0, <1>1, <2>2, QuietStep DEF WriteControlStatus, Controls, Types
  <1>2. CASE StartWatch
    <2>1. Types'
      BY <1>0, <1>2 DEF StartWatch, Types, sourceVars, ControlPc
    <2> QED
      BY <1>2, <2>1, QuietStep DEF StartWatch, Controls, pubVars
  <1>3. CASE LoopEvent \/ LoopTimeout \/ RunPollingLoop
    <2>1. /\ pc = "poll" /\ pc' = "load" /\ ctl' = RefreshPendingTopology(ctl)
          /\ UNCHANGED <<pubVars, sourceVars, topology, after, statusFile, loop, watching,
                         save, admissible, saves, deaths>>
          /\ event' \in {event, FALSE}
      BY <1>3 DEF LoopEvent, LoopTimeout, RunPollingLoop, loopVars
    <2>2. /\ ctl' \in ControlState
          /\ ctl'.digest = ctl.digest /\ ctl'.status = ctl.status
          /\ ctl'.activeGen = ctl.activeGen
      BY <1>0, <2>1, Refreshed
    <2>3. Types'
      BY <1>0, <2>1, <2>2 DEF Types, sourceVars, ControlPc
    <2> QED
      BY <2>1, <2>2, <2>3, QuietStep DEF Controls, pubVars
  <1>4. CASE SaveRecheck
    <2>1. save' \in SaveRecord /\ pc' \in {"save_write", "poll"}
      BY <1>0, <1>4 DEF SaveRecheck, Answer, Types, SaveRecord
    <2>2. Types'
      BY <1>0, <1>4, <2>1 DEF SaveRecheck, Types, sourceVars, loopVars, ControlPc
    <2> QED
      BY <1>4, <2>1, <2>2, QuietStep DEF SaveRecheck, Controls, pubVars
  <1>5. CASE SaveWrite
    <2>1. save' \in SaveRecord /\ pc' \in {"load", "poll"}
      BY <1>0, <1>5 DEF SaveWrite, Answer, Types, SaveRecord
    <2>2. /\ rules' \in Digests \cup {Missing} /\ writing' \in BOOLEAN
          /\ event' \in BOOLEAN
      BY <1>0, <1>5 DEF SaveWrite, Types, SaveRecord
    <2>3. Types'
      BY <1>0, <1>5, <2>1, <2>2 DEF SaveWrite, Types, ControlPc
    <2> QED
      BY <1>5, <2>1, <2>3, QuietStep DEF SaveWrite, Controls, pubVars
  <1> QED
    BY <1>1, <1>2, <1>3, <1>4, <1>5

-----------------------------------------------------------------------------
(* The environment *)

(* Editors and saves change the source, not the directory of the policy. *)
LEMMA EditsKeep ==
  ASSUME ControlInv,
         \/ SaveRules \/ EditReplace \/ EditTruncate \/ EditClose \/ Reload
         \/ TopologyAppears \/ LoopFails \/ Restart
  PROVE  ControlInv'
  <1>0. Types
    BY InvParts
  <1>1. CASE SaveRules
    <2>1. save' \in SaveRecord /\ pc' \in {"save_recheck", "poll"}
      BY <1>1, Constants, SMTT(30) DEF SaveRules, SaveRecord
    <2>2. saves' \in 0..MaxSaves
      BY <1>0, <1>1, Constants, SMTT(30) DEF SaveRules, Types
    <2>3. Types'
      BY <1>0, <1>1, <2>1, <2>2 DEF SaveRules, Types, sourceVars, loopVars, ControlPc
    <2> QED
      BY <1>1, <2>1, <2>3, QuietStep DEF SaveRules, Controls, pubVars
  <1>2. CASE EditReplace \/ EditTruncate \/ Reload
    <2>1. edits' \in 0..MaxEdits
      BY <1>0, <1>2, Constants, SMTT(30) DEF EditReplace, EditTruncate, Reload, Edit, Types
    <2>2. /\ rules' \in Digests \cup {Missing} /\ writing' \in BOOLEAN
          /\ event' \in BOOLEAN
      BY <1>0, <1>2, Constants DEF EditReplace, EditTruncate, Reload, Types
    <2>3. UNCHANGED <<pubVars, topology, pc, after, ctl, statusFile, loop, watching, save,
                      admissible, saves, deaths>>
      BY <1>2 DEF EditReplace, EditTruncate, Reload, Edit
    <2>4. Types'
      BY <1>0, <2>1, <2>2, <2>3 DEF Types
    <2>5. pc # "publish" => ControlInv'
      BY <2>3, <2>4, QuietStep DEF Controls, pubVars
    <2> QED
      BY <2>3, <2>4, <2>5, DuringPublish
  <1>3. CASE EditClose
    <2>1. /\ rules' \in Digests \cup {Missing} /\ writing' \in BOOLEAN
          /\ event' \in BOOLEAN
      BY <1>0, <1>3, Constants DEF EditClose, Types
    <2>2. UNCHANGED <<pubVars, edits, topology, pc, after, ctl, statusFile, loop, watching,
                      save, admissible, saves, deaths>>
      BY <1>3 DEF EditClose
    <2>3. Types'
      BY <1>0, <2>1, <2>2 DEF Types
    <2>4. pc # "publish" => ControlInv'
      BY <2>2, <2>3, QuietStep DEF Controls, pubVars
    <2> QED
      BY <2>2, <2>3, <2>4, DuringPublish
  <1>4. CASE TopologyAppears
    <2>1. Types'
      BY <1>0, <1>4 DEF TopologyAppears, Types, sourceVars, loopVars
    <2>2. pc # "publish" => ControlInv'
      BY <1>4, <2>1, QuietStep DEF TopologyAppears, Controls, pubVars
    <2> QED
      BY <1>4, <2>1, <2>2, DuringPublish DEF TopologyAppears
  <1>5. CASE LoopFails
    <2>1. Types'
      BY <1>0, <1>5 DEF LoopFails, Types, sourceVars
    <2> QED
      BY <1>5, <2>1, QuietStep DEF LoopFails, Controls, pubVars
  <1>6. CASE Restart
    <2>1. Types'
      BY <1>0, <1>6 DEF Restart, Types, sourceVars, loopVars, ControlPc
    <2> QED
      BY <1>6, <2>1, QuietStep DEF Restart, Controls, pubVars
  <1> QED
    BY <1>1, <1>2, <1>3, <1>4, <1>5, <1>6

(* After a crash nothing is said of the control state until DaemonStart    *)
(* has read policy.bin.                                                    *)
LEMMA StopsKeep == ASSUME ControlInv, Crash \/ Reboot PROVE ControlInv'
  <1>0. Types /\ CallInv
    BY InvParts
  <1>1. dir \in Directory /\ survivors \subseteq Directory
    BY <1>0 DEF CallInv, TypeOK
  <1>2. save' \in SaveRecord /\ deaths' \in 0..MaxDeaths
    BY <1>0, Constants, SMTT(30) DEF Crash, Reboot, DaemonStops, Answer, Types, SaveRecord
  <1>3. /\ loop' = "inotify" /\ watching' = FALSE /\ event' = FALSE
        /\ UNCHANGED <<after, ctl, statusFile, edits, admissible, saves>>
    BY DEF Crash, Reboot, DaemonStops
  <1>4. CASE Crash
    <2>1. dir' \in Directory /\ survivors' \subseteq Directory /\ pub' = Idle
      BY <1>1, <1>4, ForgetFacts DEF Crash, DaemonDies, ForgetNames
    <2>2. pc' = "down" /\ UNCHANGED <<rules, writing, topology>>
      BY <1>4 DEF Crash
    <2>3. Types'
      BY <1>0, <1>2, <1>3, <2>2 DEF Types, ControlPc
    <2>4. Relation'
      BY <2>1, <2>2, IdleFacts DEF Relation, Publishing, Controls
    <2> QED
      BY <2>1, <2>3, <2>4, IdleCall, InvPartsNext
  <1>5. CASE Reboot
    <2>1. dir' \in Directory /\ survivors' \subseteq Directory
      <3>0. PICK d \in survivors : \E left \in AfterPowerLoss(d) :
              LET booted == Put(left, "policy.bin",
                                [gen |-> rules.policy, state |-> "cached"])
              IN  IF CompileRules(rules)
                  THEN dir' = booted /\ survivors' = {left, booted}
                  ELSE dir' = left /\ survivors' = {left}
        BY <1>5 DEF Reboot
      <3>1. PICK left \in AfterPowerLoss(d) :
              LET booted == Put(left, "policy.bin",
                                [gen |-> rules.policy, state |-> "cached"])
              IN  IF CompileRules(rules)
                  THEN dir' = booted /\ survivors' = {left, booted}
                  ELSE dir' = left /\ survivors' = {left}
        BY <3>0
      <3>2. left \in Directory
        BY <1>1, LeftIsDirectory
      <3>3. CASE CompileRules(rules)
        <4>1. [gen |-> rules.policy, state |-> "cached"] \in Entry
          BY <1>0, <3>3, CompiledSource DEF Types, Entry, File
        <4>2. Put(left, "policy.bin", [gen |-> rules.policy, state |-> "cached"])
                \in Directory
          BY <3>2, <4>1 DEF Put, Directory, Names
        <4> QED
          BY <3>1, <3>2, <3>3, <4>2
      <3> QED
        BY <3>1, <3>2, <3>3, SMTT(30)
    <2>2. /\ pub' = Idle /\ pc' = "start" /\ writing' = FALSE /\ topology' = FALSE
          /\ rules' = rules
      BY <1>5 DEF Reboot
    <2>3. Types'
      BY <1>0, <1>2, <1>3, <2>2 DEF Types, ControlPc
    <2>4. Relation'
      BY <2>2, IdleFacts DEF Relation, Publishing, Controls
    <2> QED
      BY <2>1, <2>2, <2>3, <2>4, IdleCall, InvPartsNext
  <1> QED
    BY <1>4, <1>5

-----------------------------------------------------------------------------
(* Stuttering keeps everything. *)
LEMMA StutterKeeps == ControlInv /\ UNCHANGED allVars => ControlInv'
  <1> SUFFICES ASSUME ControlInv, UNCHANGED allVars PROVE ControlInv'
    OBVIOUS
  <1>1. Types /\ CallInv /\ Relation
    BY InvParts
  <1>2. Types'
    BY <1>1 DEF Types, allVars, controlVars
  <1>3. CallInv'
    BY <1>1, CallStutter DEF allVars
  <1>4. Relation'
    BY <1>1 DEF Relation, allVars, controlVars, pubVars, Publishing, Controls,
       ReadGeneration, GenerationOf
  <1> QED
    BY <1>2, <1>3, <1>4, InvPartsNext

(* Every step of the daemon, of the editors and of the device keeps it. *)
LEMMA StepKeepsControl == ControlInv /\ [ControlNext]_allVars => ControlInv'
  BY StartKeeps, LoadKeeps, PublishKeeps, PublishedKeeps, DaemonKeeps, EditsKeep,
     StopsKeep, StutterKeeps DEF ControlNext, DaemonStep, Environment

(* ControlInv holds throughout. *)
THEOREM ControlInvariance == ControlSpec => []ControlInv
  BY StepKeepsControl, InitInv, PTL DEF ControlSpec

(* Whenever the daemon waits, the generation it reports is the one in      *)
(* policy.bin, if the rename of a backup never fails.                      *)
THEOREM TruthfulStatus == ControlSpec => []StatusIsTruthful
  <1>1. ControlInv => StatusIsTruthful
    BY DEF ControlInv, StatusIsTruthful, Controls
  <1> QED
    BY <1>1, ControlInvariance, PTL

(* "active" means that policy.bin holds the policy of the digest reported. *)
THEOREM ActiveDeployment == ControlSpec => []ActiveMeansDeployed
  <1>1. ControlInv => ActiveMeansDeployed
    BY DEF ControlInv, ActiveMeansDeployed, Controls
  <1> QED
    BY <1>1, ControlInvariance, PTL

(* Also when called by the Reconciler, after a boot that installed a       *)
(* policy without fsync, a failed Publish leaves policy.bin as it was.     *)
THEOREM ControlFailureRetains == ControlSpec => []FailureRetainsPolicy
  <1>1. ControlInv => FailureRetainsPolicy
    BY DEF ControlInv, CallInv
  <1> QED
    BY <1>1, ControlInvariance, PTL
-----------------------------------------------------------------------------
(* Admission *)

(* Nothing in the directory has contents outside a set of generations.     *)
Holds(d, generations) == \A n \in Names : d[n].gen \in generations

(* The inductive invariant between two reboots.  It has to speak of the    *)
(* candidate and the backup, which become policy.bin, and of the snapshot  *)
(* of the topology, which may be older than the device but not ahead of it. *)
AdmittedInv ==
    /\ ControlInv
    /\ Holds(dir, admissible \cup {"none"})
    /\ pub.pc # "idle" => pub.blob \in admissible
    /\ ctl.topology => topology

(* The control plane without reboots: post-fs-data.sh compiles the source  *)
(* before the daemon has seen the device.                                  *)
RunningNext == ControlNext /\ ~Reboot
RunningSpec == ControlInit /\ [][RunningNext]_allVars

(* Removing, renaming and flushing files brings in no new contents, and    *)
(* writing a file those written.                                           *)
LEMMA FilesHold ==
  ASSUME NEW d \in Directory, NEW S, "none" \in S, Holds(d, S),
         NEW n \in Names, NEW m \in Names
  PROVE  /\ Holds(Unlink(d, n), S)
         /\ Holds(Rename(d, n, m), S)
         /\ Holds(FlushFile(d), S)
         /\ Holds(Forget(d), S)
         /\ \A f \in Entry : f.gen \in S => Holds(Put(d, n, f), S)
  <1>1. Holds(Unlink(d, n), S)
    BY DEF Holds, Unlink, NoFile, Directory
  <1>2. Holds(Rename(d, n, m), S)
    BY DEF Holds, Rename, NoFile, Directory
  <1>3. Holds(FlushFile(d), S)
    BY SMTT(30) DEF Holds, FlushFile
  <1>4. Holds(Forget(d), S)
    BY DEF Holds, Forget, NoFile, Directory
  <1>5. \A f \in Entry : f.gen \in S => Holds(Put(d, n, f), S)
    BY SMTT(30) DEF Holds, Put
  <1> QED
    BY <1>1, <1>2, <1>3, <1>4, <1>5

(* A step of Publish leaves only what was there and its own blob. *)
LEMMA StepHolds ==
  ASSUME TypeOK, PublishStep, pub.pc # "idle" => pub.blob \in Gens,
         NEW S, "none" \in S, pub.pc # "idle" => pub.blob \in S, Holds(dir, S)
  PROVE  Holds(dir', S)
  <1>1. dir \in Directory
    BY DEF TypeOK
  <1>2. pub.pc = "candidate" => [gen |-> pub.blob, state |-> "cached"] \in Entry
    BY DEF Entry, File
  <1>3. /\ Holds(Unlink(dir, "candidate"), S) /\ Holds(Unlink(dir, "policy.bin"), S)
        /\ Holds(Unlink(dir, "backup"), S)
        /\ Holds(Rename(dir, "policy.bin", "backup"), S)
        /\ Holds(Rename(dir, "candidate", "policy.bin"), S)
        /\ Holds(Rename(dir, "backup", "policy.bin"), S)
        /\ Holds(FlushFile(dir), S)
    BY <1>1, FilesHold DEF Names
  <1>4. RestoreBackup(dir) \in Directory /\ Holds(RestoreBackup(dir), S)
    BY <1>3, RestoreEffects DEF RestoreBackup
  <1>5. Holds(Unlink(RestoreBackup(dir), "candidate"), S)
    BY <1>4, FilesHold DEF Names
  <1>6. pub.pc = "candidate" =>
          Holds(Put(dir, "candidate", [gen |-> pub.blob, state |-> "cached"]), S)
    BY <1>1, <1>2, FilesHold DEF Names
  <1> HIDE DEF TypeOK, Directory, Entry, File, Names, Publication, RestoreBackup
  <1> QED
    BY <1>3, <1>4, <1>5, <1>6 DEF PublishStep, PublishCandidate, PublishFileSync,
       PublishPreserve, PublishRename, PublishRestore, PublishDirSync, PublishWithdraw,
       PublishPutBack, PublishCleanup, Change

(* Only an admitted source is published, and its generation counts as      *)
(* admissible from then on.                                                *)
LEMMA LoadAdmits ==
  ASSUME AdmittedInv, ReconcileLoad
  PROVE  /\ Holds(dir', admissible' \cup {"none"})
         /\ pub'.pc # "idle" => pub'.blob \in admissible'
         /\ ctl'.topology => topology'
  <1>0. Types /\ CallInv /\ Relation
    BY InvParts DEF AdmittedInv
  <1>1. pc = "load" /\ topology' = topology
    BY DEF ReconcileLoad
  <1>2. ctl \in ControlState /\ pub.pc = "idle"
    BY <1>0, <1>1 DEF Types, Relation, Publishing
  <1>3. Holds(dir, admissible \cup {"none"}) /\ (ctl.topology => topology)
    BY DEF AdmittedInv
  <1>4. CASE UNCHANGED <<pubVars, admissible>> /\ ctl'.topology = ctl.topology
    BY <1>1, <1>2, <1>3, <1>4 DEF pubVars, Holds
  <1>5. PICK source \in LoadRulesSource :
         LET taken == [ctl EXCEPT !.digest = source, !.dirty = FALSE]
             deploy == CompileRules(source) /\ AdmitPolicy(ctl.topology)
         IN  CASE source = Missing ->
                    /\ ctl' = [ctl EXCEPT !.status = "source_invalid"]
                    /\ pc' = "write_status"
                    /\ UNCHANGED <<pubVars, admissible>>
               [] source # Missing /\ SourceUnchanged(source) ->
                    /\ pc' = "write_status"
                    /\ UNCHANGED <<pubVars, ctl, admissible>>
               [] source # Missing /\ ~SourceUnchanged(source) /\ ~deploy ->
                    /\ ctl' = [taken EXCEPT !.status =
                                 IF CompileRules(source) THEN "environment_unsupported"
                                 ELSE "source_invalid"]
                    /\ pc' = "write_status"
                    /\ UNCHANGED <<pubVars, admissible>>
               [] source # Missing /\ ~SourceUnchanged(source) /\ deploy ->
                    /\ ctl' = taken
                    /\ PublishStart(source.policy)
                    /\ pc' = "publish"
                    /\ admissible' = IF topology THEN admissible \cup {source.policy}
                                     ELSE admissible
    BY DEF ReconcileLoad
  <1>6. CASE source = Missing
    BY <1>2, <1>4, <1>5, <1>6 DEF ControlState
  <1>7. CASE source # Missing /\ SourceUnchanged(source)
    BY <1>4, <1>5, <1>7
  <1>8. CASE /\ source # Missing /\ ~SourceUnchanged(source)
             /\ ~(CompileRules(source) /\ AdmitPolicy(ctl.topology))
    BY <1>2, <1>4, <1>5, <1>8 DEF ControlState
  <1>9. CASE /\ source # Missing /\ ~SourceUnchanged(source)
             /\ CompileRules(source) /\ AdmitPolicy(ctl.topology)
    <2>1. /\ ctl' = [ctl EXCEPT !.digest = source, !.dirty = FALSE]
          /\ PublishStart(source.policy)
          /\ admissible' = IF topology THEN admissible \cup {source.policy}
                           ELSE admissible
      BY <1>5, <1>9
    <2>2. topology
      BY <1>3, <1>9 DEF AdmitPolicy
    <2>3. admissible' = admissible \cup {source.policy}
      BY <2>1, <2>2
    <2>4. source.policy \in Gens
      BY <1>0, <1>9, LoadedSource, CompiledSource
    <2>5. pub'.blob = source.policy /\ dir' = Forget(dir)
      BY <1>0, <2>1, <2>4, StartFacts DEF CallInv
    <2>6. Holds(dir, admissible' \cup {"none"})
      BY <1>3, <2>3 DEF Holds
    <2>7. dir \in Directory /\ "policy.bin" \in Names
      BY <1>0 DEF CallInv, TypeOK, Names
    <2>8. Holds(Forget(dir), admissible' \cup {"none"})
      BY <2>6, <2>7, FilesHold
    <2> QED
      BY <1>1, <2>2, <2>3, <2>5, <2>8
  <1> QED
    BY <1>6, <1>7, <1>8, <1>9

(* The other steps publish nothing new, and no step but a reboot takes the *)
(* topology back.                                                          *)
LEMMA OtherStepsAdmit ==
  ASSUME AdmittedInv, RunningNext, ~ReconcileLoad
  PROVE  /\ Holds(dir', admissible' \cup {"none"})
         /\ pub'.pc # "idle" => pub'.blob \in admissible'
         /\ ctl'.topology => topology'
  <1>0. Types /\ CallInv /\ Relation
    BY InvParts DEF AdmittedInv
  <1>1. /\ Holds(dir, admissible \cup {"none"}) /\ (ctl.topology => topology)
        /\ pub.pc # "idle" => pub.blob \in admissible
    BY DEF AdmittedInv
  <1>2. dir \in Directory /\ "policy.bin" \in Names
    BY <1>0 DEF CallInv, TypeOK, Names
  <1>3. ctl \in ControlState
    BY <1>0 DEF Types
  <1>4. CASE DaemonStart
    BY <1>1, <1>4 DEF DaemonStart, pubVars, Holds
  <1>5. CASE ReconcilePublish
    <2>1. PublishStep /\ UNCHANGED <<admissible, ctl, topology>>
      BY <1>5 DEF ReconcilePublish, controlVars
    <2>2. TypeOK /\ (pub.pc # "idle" => pub.blob \in Gens)
      BY <1>0 DEF CallInv
    <2>3. pub'.blob = pub.blob
      BY <2>1, <2>2, StepKeepsCaller
    <2>4. pub.pc # "idle"
      BY <1>0, <1>5 DEF Relation, Publishing, ReconcilePublish
    <2>5. Holds(dir', admissible \cup {"none"})
      BY <1>1, <2>1, <2>2, StepHolds
    <2> QED
      BY <1>1, <2>1, <2>3, <2>4, <2>5
  <1>6. CASE ReconcilePublished
    <2>1. UNCHANGED <<dir, admissible, topology>> /\ pub' = Idle
      BY <1>6 DEF ReconcilePublished
    <2>2. ctl'.topology = ctl.topology
      BY <1>3, <1>6 DEF ReconcilePublished, ControlState
    <2> QED
      BY <1>1, <2>1, <2>2, IdleFacts DEF Holds
  <1>7. CASE LoopEvent \/ LoopTimeout \/ RunPollingLoop
    <2>1. ctl' = RefreshPendingTopology(ctl) /\ UNCHANGED <<pubVars, admissible, topology>>
      BY <1>7 DEF LoopEvent, LoopTimeout, RunPollingLoop
    <2>2. ctl'.topology => topology
      BY <1>1, <1>3, <2>1 DEF RefreshPendingTopology, ControlState
    <2> QED
      BY <1>1, <2>1, <2>2 DEF pubVars, Holds
  <1>8. CASE Crash
    <2>1. dir' = Forget(dir) /\ pub' = Idle /\ UNCHANGED <<admissible, ctl, topology>>
      BY <1>8 DEF Crash, DaemonStops, DaemonDies, ForgetNames
    <2>2. Holds(Forget(dir), admissible \cup {"none"})
      BY <1>1, <1>2, FilesHold
    <2> QED
      BY <1>1, <2>1, <2>2, IdleFacts
  <1>9. CASE UNCHANGED <<dir, pub, admissible, ctl>> /\ (topology => topology')
    BY <1>1, <1>9 DEF Holds
  <1>10. CASE WriteControlStatus \/ StartWatch \/ SaveRecheck \/ SaveWrite
    BY <1>9, <1>10 DEF WriteControlStatus, StartWatch, SaveRecheck, SaveWrite, pubVars
  <1>11. CASE SaveRules \/ EditReplace \/ EditTruncate \/ EditClose \/ Reload
    BY <1>9, <1>11 DEF SaveRules, EditReplace, EditTruncate, EditClose, Reload, Edit, pubVars
  <1>12. CASE TopologyAppears \/ LoopFails \/ Restart
    BY <1>9, <1>12 DEF TopologyAppears, LoopFails, Restart, pubVars
  <1> QED
    BY <1>4, <1>5, <1>6, <1>7, <1>8, <1>10, <1>11, <1>12
    DEF RunningNext, ControlNext, DaemonStep, Environment

(* Between reboots, through any edits, failed calls, crashes and restarts, *)
(* policy.bin holds nothing that AdmitPolicy did not accept for the device. *)
THEOREM OnlyAdmitted == RunningSpec => []OnlyAdmittedDeployed
  <1>1. ControlInit => AdmittedInv
    <2> SUFFICES ASSUME ControlInit PROVE AdmittedInv
      OBVIOUS
    <2>1. ControlInv
      BY InitInv
    <2>2. \A n \in Names : dir[n].gen = "none"
      BY DEF ControlInit, Init, NoFile
    <2>3. pub.pc = "idle"
      BY IdleFacts DEF ControlInit, Init
    <2>4. ~ctl.topology
      BY DEF ControlInit
    <2> QED
      BY <2>1, <2>2, <2>3, <2>4 DEF AdmittedInv, Holds
  <1>2. AdmittedInv /\ [RunningNext]_allVars => AdmittedInv'
    <2> SUFFICES ASSUME AdmittedInv, [RunningNext]_allVars PROVE AdmittedInv'
      OBVIOUS
    <2>1. ControlInv'
      BY StepKeepsControl DEF AdmittedInv, RunningNext
    <2>2. CASE RunningNext
      BY <2>1, <2>2, LoadAdmits, OtherStepsAdmit DEF AdmittedInv
    <2>3. CASE UNCHANGED allVars
      <3>1. UNCHANGED <<dir, pub, admissible, ctl, topology>>
        BY <2>3 DEF allVars, pubVars, controlVars
      <3> QED
        BY <2>1, <3>1 DEF AdmittedInv, Holds
    <2> QED
      BY <2>2, <2>3
  <1>3. AdmittedInv => OnlyAdmittedDeployed
    BY DEF AdmittedInv, Holds, OnlyAdmittedDeployed, ReadGeneration, Names
  <1> QED
    BY <1>1, <1>2, <1>3, PTL DEF RunningSpec
=============================================================================
