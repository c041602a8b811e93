--------------------------- MODULE PolicyPublisher ---------------------------
(***************************************************************************)
(* Publisher::Publish (daemon/src/rules_control.cpp): how a verified       *)
(* policy blob becomes run/policy.bin.  Every file system call that a      *)
(* reader, a crash of the daemon or a power loss can observe is a step of  *)
(* its own.                                                                *)
(*                                                                         *)
(* A file holds one whole blob, named by its content generation, in one of *)
(* three conditions: "cached" (written, not yet fsynced), "durable", and   *)
(* "torn" (its data did not survive a power loss).  survivors is the set   *)
(* of directory contents a power loss may leave: the one of the last       *)
(* successful directory fsync and every one since.  Candidate and backup   *)
(* names carry a unique suffix, so files left by a crash are never looked  *)
(* up again and are simply forgotten.                                      *)
(***************************************************************************)
EXTENDS Naturals, FiniteSets

CONSTANTS Gens,     \* content generations
          Faults    \* calls that may fail; see FaultPoints

FaultPoints == {"candidate", "file_sync", "preserve", "rename", "restore",
                "dir_sync", "cleanup"}

ASSUME FaultsAssumption == Faults \subseteq FaultPoints
ASSUME GensAssumption == "none" \notin Gens

VARIABLES dir,        \* the run directory
          survivors,  \* its contents a power loss may leave
          pub         \* the Publish call: pc, blob, hadActive, before, result

pubVars == <<dir, survivors, pub>>

Names == {"policy.bin", "candidate", "backup"}
NoFile == [gen |-> "none", state |-> "absent"]
File == [gen : Gens, state : {"cached", "durable", "torn"}]
Entry == File \cup {NoFile}
Directory == [Names -> Entry]

PublishSteps == {"candidate", "file_sync", "preserve", "rename", "restore",
                 "dir_sync", "withdraw", "put_back", "cleanup"}
PublishPc == PublishSteps \cup {"idle", "done"}
PublishResult == {"none", "unchanged", "failed", "published"}
Publication == [pc : PublishPc, blob : Gens \cup {"none"}, hadActive : BOOLEAN,
                before : Entry, result : PublishResult]

Idle == [pc |-> "idle", blob |-> "none", hadActive |-> FALSE,
         before |-> NoFile, result |-> "none"]

-----------------------------------------------------------------------------
(* The file system *)

(* ReadGeneration: DecodePolicy accepts only a whole file. *)
ReadGeneration(d) ==
    IF d["policy.bin"].state \in {"cached", "durable"}
    THEN d["policy.bin"].gen ELSE "none"

Put(d, name, file) == [d EXCEPT ![name] = file]

Unlink(d, name) == [d EXCEPT ![name] = NoFile]
Rename(d, old, new) == [d EXCEPT ![new] = d[old], ![old] = NoFile]

(* A call that changes the directory: the change may or may not survive. *)
Change(d) ==
    /\ dir' = d
    /\ survivors' = survivors \cup {d}

(* Mutant: the candidate is renamed without having been fsynced. *)
NoFlush(d) == d

(* fsync of the candidate, by every name it may survive under. *)
FlushFile(d) ==
    [n \in Names |-> IF n = "candidate" /\ d[n].state = "cached"
                     THEN [d[n] EXCEPT !.state = "durable"] ELSE d[n]]

(* Mutant: the directory fsync is skipped. *)
SkipDirectoryFlush == survivors' = survivors

FlushDirectory == survivors' = {dir}

(* UniqueSuffix: files an earlier call left behind keep names that nobody  *)
(* looks up again.                                                         *)
Forget(d) == [d EXCEPT !["candidate"] = NoFile, !["backup"] = NoFile]

ForgetNames ==
    /\ dir' = Forget(dir)
    /\ survivors' = {Forget(d) : d \in survivors}

Goto(step) == pub' = [pub EXCEPT !.pc = step]
Return(result) == pub' = [pub EXCEPT !.pc = "done", !.result = result]
MayFail(point) == point \in Faults

-----------------------------------------------------------------------------
(* Publish(blob), step by step *)

(* The generation already in place is not written again. *)
PublishStart(blob) ==
    LET same == ReadGeneration(dir) = blob
    IN  /\ pub' = [pc |-> IF same THEN "done" ELSE "candidate", blob |-> blob,
                   hadActive |-> FALSE, before |-> dir["policy.bin"],
                   result |-> IF same THEN "unchanged" ELSE "none"]
        /\ ForgetNames

(* Create, write, set the mode, read back and verify the candidate.  Each  *)
(* early return removes it.                                                *)
PublishCandidate ==
    /\ pub.pc = "candidate"
    /\ \/ /\ Change(Put(dir, "candidate",
                        [gen |-> pub.blob, state |-> "cached"]))
          /\ Goto("file_sync")
       \/ /\ MayFail("candidate")
          /\ Return("failed")
          /\ UNCHANGED <<dir, survivors>>

PublishFileSync ==
    /\ pub.pc = "file_sync"
    /\ \/ /\ dir' = FlushFile(dir)
          /\ survivors' = {FlushFile(d) : d \in survivors}
          /\ Goto("preserve")
       \/ /\ MayFail("file_sync")
          /\ Change(Unlink(dir, "candidate"))
          /\ Return("failed")

(* policy.bin, if there is one, is renamed to the backup name. *)
PublishPreserve ==
    /\ pub.pc = "preserve"
    /\ \/ /\ IF dir["policy.bin"] # NoFile
             THEN Change(Rename(dir, "policy.bin", "backup"))
             ELSE UNCHANGED <<dir, survivors>>
          /\ pub' = [pub EXCEPT !.pc = "rename",
                                !.hadActive = dir["policy.bin"] # NoFile]
       \/ /\ MayFail("preserve")
          /\ dir["policy.bin"] # NoFile
          /\ Change(Unlink(dir, "candidate"))
          /\ Return("failed")

PublishRename ==
    /\ pub.pc = "rename"
    /\ \/ /\ Change(Rename(dir, "candidate", "policy.bin"))
          /\ Goto("dir_sync")
       \/ /\ MayFail("rename")
          /\ Goto("restore")
          /\ UNCHANGED <<dir, survivors>>

(* Mutant: the backup is dropped where it should be renamed back. *)
DropBackup(d) == Unlink(d, "backup")

RestoreBackup(d) ==
    IF pub.hadActive THEN Rename(d, "backup", "policy.bin") ELSE d

(* The rename back to policy.bin, whose error is ignored. *)
PublishRestore ==
    /\ pub.pc = "restore"
    /\ \/ Change(Unlink(RestoreBackup(dir), "candidate"))
       \/ MayFail("restore") /\ Change(Unlink(dir, "candidate"))
    /\ Return("failed")

PublishDirSync ==
    /\ pub.pc = "dir_sync"
    /\ dir' = dir
    /\ \/ /\ FlushDirectory
          /\ Goto("cleanup")
       \/ /\ MayFail("dir_sync")
          /\ Goto("withdraw")
          /\ UNCHANGED survivors

(* A failed directory fsync removes the new policy.bin ... *)
PublishWithdraw ==
    /\ pub.pc = "withdraw"
    /\ \/ Change(Unlink(dir, "policy.bin"))
       \/ MayFail("restore") /\ UNCHANGED <<dir, survivors>>
    /\ Goto("put_back")

(* A directory fsync whose result is ignored. *)
FlushIgnored ==
    \/ survivors' = {dir'}
    \/ MayFail("dir_sync") /\ survivors' = survivors \cup {dir'}

(* ... and renames the backup back; the results are ignored. *)
PublishPutBack ==
    /\ pub.pc = "put_back"
    /\ \/ dir' = RestoreBackup(dir)
       \/ MayFail("restore") /\ dir' = dir
    /\ IF pub.hadActive THEN FlushIgnored ELSE UNCHANGED survivors
    /\ Return("failed")

PublishCleanup ==
    /\ pub.pc = "cleanup"
    /\ \/ dir' = Unlink(dir, "backup")
       \/ MayFail("cleanup") /\ dir' = dir
    /\ FlushIgnored
    /\ Return("published")

PublishStep ==
    \/ PublishCandidate \/ PublishFileSync \/ PublishPreserve \/ PublishRename
    \/ PublishRestore \/ PublishDirSync \/ PublishWithdraw \/ PublishPutBack
    \/ PublishCleanup

-----------------------------------------------------------------------------
(* Crashes *)

DaemonDies ==
    /\ ForgetNames
    /\ pub' = Idle

(* Data that was never fsynced may be lost. *)
AfterPowerLoss(d) ==
    {[Forget(d) EXCEPT !["policy.bin"] = f] :
        f \in IF d["policy.bin"].state = "cached"
              THEN {[d["policy.bin"] EXCEPT !.state = s] : s \in {"durable", "torn"}}
              ELSE {d["policy.bin"]}}

PowerLoss ==
    /\ \E d \in survivors : dir' \in AfterPowerLoss(d)
    /\ survivors' = {dir'}
    /\ pub' = Idle

-----------------------------------------------------------------------------
(* The publisher on its own: any sequence of calls, crashes and losses. *)

Init ==
    /\ dir = [n \in Names |-> NoFile]
    /\ survivors = {dir}
    /\ pub = Idle

PublishAny ==
    /\ pub.pc \in {"idle", "done"}
    /\ \E g \in Gens : PublishStart(g)

Next == PublishAny \/ PublishStep \/ DaemonDies \/ PowerLoss

Spec == Init /\ [][Next]_pubVars

-----------------------------------------------------------------------------
(* Properties *)

(* Type invariant. *)
TypeOK ==
    /\ dir \in Directory
    /\ survivors \subseteq Directory
    /\ pub \in Publication

(* Whatever moment the power is lost at, run/policy.bin is absent or is a  *)
(* whole blob: no file whose data was not fsynced gets that name.  It is   *)
(* about Publisher::Publish alone: at boot module/post-fs-data.sh:18 moves *)
(* a file there that nobody has synced, and is not a step of this module.  *)
PolicyNeverTorn ==
    \A d \in survivors \cup {dir} : d["policy.bin"].state \in {"absent", "durable"}

(* "published" is only reported once the new policy survives a power loss, *)
(* under every outcome of the fsync calls whose result is ignored.         *)
PublishedIsDurable ==
    pub.result = "published" =>
        \A d \in survivors \cup {dir} :
            d["policy.bin"] = [gen |-> pub.blob, state |-> "durable"]

(* A call that reports failure leaves policy.bin as it found it, provided  *)
(* the rename of the backup does not fail too.                             *)
FailureRetainsPolicy ==
    (pub.result = "failed" /\ "restore" \notin Faults) =>
        dir["policy.bin"] = pub.before

(* Where the blob, the old policy and the backup are at each step of the   *)
(* call, and what its result means, whatever policy.bin held before.       *)
BlobFile == [gen |-> pub.blob, state |-> "durable"]

OldIsBackup == dir["backup"] = pub.before /\ pub.hadActive = (pub.before # NoFile)

CallInv ==
    /\ TypeOK
    /\ pub.pc # "idle" => pub.blob \in Gens
    /\ pub.pc = "file_sync" => dir["candidate"].gen = pub.blob /\ dir["candidate"].state = "cached"
    /\ pub.pc \in {"preserve", "rename"} => dir["candidate"] = BlobFile
    /\ pub.pc \in {"dir_sync", "cleanup"} => dir["policy.bin"] = BlobFile
    /\ pub.result # "none" <=> pub.pc = "done"
    /\ pub.pc \in {"candidate", "file_sync", "preserve"} =>
           dir["policy.bin"] = pub.before /\ dir["backup"] = NoFile
    /\ pub.pc \in {"rename", "restore"} => OldIsBackup /\ dir["policy.bin"] = NoFile
    /\ pub.pc \in {"dir_sync", "withdraw", "put_back"} => OldIsBackup
    /\ (pub.pc = "put_back" /\ "restore" \notin Faults) => dir["policy.bin"] = NoFile
    /\ pub.result = "published" => dir["policy.bin"] = BlobFile
    /\ pub.result = "unchanged" => ReadGeneration(dir) = pub.blob
    /\ FailureRetainsPolicy

(* The inductive invariant of the publisher on its own: nothing that was   *)
(* not fsynced is ever policy.bin or its backup.                           *)
PublishInv ==
    /\ CallInv
    /\ PolicyNeverTorn
    /\ \A d \in survivors \cup {dir} : d["backup"].state \in {"absent", "durable"}
    /\ pub.pc = "cleanup" => survivors = {dir}
    /\ PublishedIsDurable

(* A restart finds an active policy whenever one is on the disk, under its *)
(* own name or as the backup of an interrupted Publish.  The code never    *)
(* looks for the backup.                                                   *)
RestartFindsPolicy ==
    [][(/\ \A d \in survivors : d["policy.bin"] # NoFile \/ d["backup"] # NoFile
        /\ pub'.pc = "idle") => dir'["policy.bin"] # NoFile]_pubVars
=============================================================================
