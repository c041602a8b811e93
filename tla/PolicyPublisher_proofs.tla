------------------------ MODULE PolicyPublisher_proofs ------------------------
(* Proofs about Publisher::Publish, for every set of generations and every *)
(* set of calls that may fail.                                             *)
EXTENDS PolicyPublisher, TLAPS

USE DEF Names, NoFile, File, Entry, Directory

USE DEF Publication, PublishPc, PublishSteps, PublishResult

(* Publish starts with neither a policy nor a call in progress. *)
LEMMA InitPublishInv == Init => PublishInv
  <1> SUFFICES ASSUME Init PROVE PublishInv
    OBVIOUS
  <1>1. dir \in Directory /\ survivors = {dir} /\ \A n \in Names : dir[n] = NoFile
    BY DEF Init
  <1>2. /\ pub \in Publication /\ pub.pc = "idle" /\ pub.result = "none"
        /\ pub.hadActive = FALSE
    BY DEF Init, Idle
  <1> QED
    BY <1>1, <1>2 DEF PublishInv, CallInv, TypeOK, PolicyNeverTorn,
       PublishedIsDurable, FailureRetainsPolicy

(* Forgetting the candidate and the backup keeps every entry well formed   *)
(* and leaves policy.bin alone.                                            *)
LEMMA ForgetFacts ==
  ASSUME NEW d \in Directory
  PROVE  /\ Forget(d) \in Directory
         /\ Forget(d)["policy.bin"] = d["policy.bin"]
         /\ Forget(d)["backup"] = NoFile
  BY DEF Forget

(* fsync of the candidate changes no other name. *)
LEMMA FlushFacts ==
  ASSUME NEW d \in Directory
  PROVE  /\ FlushFile(d) \in Directory
         /\ FlushFile(d)["policy.bin"] = d["policy.bin"]
         /\ FlushFile(d)["backup"] = d["backup"]
         /\ d["candidate"].state = "cached"
              => /\ FlushFile(d)["candidate"].gen = d["candidate"].gen
                 /\ FlushFile(d)["candidate"].state = "durable"
  BY DEF FlushFile

(* Every directory a power loss leaves has the policy.bin of a survivor    *)
(* whose policy.bin was whole.                                             *)
LEMMA PowerLossFacts ==
  ASSUME NEW d \in Directory, d["policy.bin"].state \in {"absent", "durable"},
         NEW e \in AfterPowerLoss(d)
  PROVE  /\ e \in Directory
         /\ e["policy.bin"] = d["policy.bin"]
         /\ e["backup"] = NoFile
  BY ForgetFacts DEF AfterPowerLoss, Forget

USE DEF CallInv, TypeOK, FailureRetainsPolicy, OldIsBackup, BlobFile

(* A new call forgets the names of the previous one. *)
LEMMA StartFacts ==
  ASSUME TypeOK, NEW g \in Gens, PublishStart(g)
  PROVE  /\ CallInv'
         /\ pub'.pc \in {"done", "candidate"}
         /\ pub'.blob = g
         /\ pub'.before = dir["policy.bin"]
         /\ pub'.result \in {"none", "unchanged"}
         /\ dir' = Forget(dir)
         /\ survivors' = {Forget(d) : d \in survivors}
  <1>1. /\ dir' = Forget(dir)
        /\ survivors' = {Forget(d) : d \in survivors}
        /\ pub'.pc \in {"done", "candidate"}
        /\ pub'.blob = g
        /\ pub'.before = dir["policy.bin"]
        /\ pub'.result = IF pub'.pc = "done" THEN "unchanged" ELSE "none"
        /\ pub'.pc = "done" => ReadGeneration(dir) = g
    BY DEF PublishStart, ForgetNames
  <1>2. pub' \in Publication
    BY DEF PublishStart
  <1>3. dir' \in Directory /\ survivors' \subseteq Directory
    BY <1>1, ForgetFacts
  <1>4. dir'["policy.bin"] = dir["policy.bin"] /\ dir'["backup"] = NoFile
    BY <1>1, ForgetFacts
  <1> QED
    BY <1>1, <1>2, <1>3, <1>4 DEF ReadGeneration

(* A call that has ended, however, leaves no call in progress. *)
LEMMA IdleFacts ==
  /\ Idle \in Publication
  /\ Idle.pc = "idle" /\ Idle.result = "none"
  BY Zenon DEF Idle

(* What the calls that write, remove and rename a file do. *)
LEMMA DirectoryFacts ==
  ASSUME NEW d \in Directory, NEW f \in Entry, NEW n \in Names, NEW m \in Names, n # m
  PROVE  /\ Put(d, n, f) \in Directory
         /\ Put(d, n, f)[n] = f
         /\ Put(d, n, f)[m] = d[m]
         /\ Unlink(d, n) \in Directory
         /\ Unlink(d, n)[n] = NoFile
         /\ Unlink(d, n)[m] = d[m]
         /\ Rename(d, n, m) \in Directory
         /\ Rename(d, n, m)[m] = d[n]
         /\ Rename(d, n, m)[n] = NoFile
         /\ \A k \in Names \ {n, m} : Rename(d, n, m)[k] = d[k]
  BY DEF Put, Unlink, Rename

(* What Goto and Return leave of the call's record. *)
Moved(step) ==
    /\ pub' \in Publication /\ pub'.pc = step /\ pub'.result = pub.result
    /\ pub'.blob = pub.blob /\ pub'.before = pub.before /\ pub'.hadActive = pub.hadActive
    /\ BlobFile' = BlobFile

Returned(result) ==
    /\ pub' \in Publication /\ pub'.pc = "done" /\ pub'.result = result
    /\ pub'.blob = pub.blob /\ pub'.before = pub.before
    /\ BlobFile' = BlobFile

(* Going to another step, or returning, keeps the record's other fields.   *)
LEMMA PubFacts ==
  ASSUME TypeOK, NEW step \in PublishPc, NEW result \in PublishResult
  PROVE  /\ Goto(step) => Moved(step)
         /\ Return(result) => Returned(result)
  BY DEF Goto, Return, Moved, Returned

(* The same for the steps and the results of Publish, one by one. *)
LEMMA CallSteps ==
  ASSUME TypeOK
  PROVE  /\ Goto("file_sync") => Moved("file_sync")
         /\ Goto("preserve") => Moved("preserve")
         /\ Goto("dir_sync") => Moved("dir_sync")
         /\ Goto("restore") => Moved("restore")
         /\ Goto("cleanup") => Moved("cleanup")
         /\ Goto("withdraw") => Moved("withdraw")
         /\ Goto("put_back") => Moved("put_back")
         /\ Return("failed") => Returned("failed")
         /\ Return("published") => Returned("published")
  <1> HIDE DEF TypeOK, Publication
  <1> QED
    BY PubFacts

(* What the file system calls of Publish do to its three names. *)
LEMMA CallEffects ==
  ASSUME TypeOK
  PROVE  /\ Unlink(dir, "candidate") \in Directory
         /\ Unlink(dir, "candidate")["policy.bin"] = dir["policy.bin"]
         /\ Unlink(dir, "candidate")["backup"] = dir["backup"]
         /\ Unlink(dir, "policy.bin") \in Directory
         /\ Unlink(dir, "policy.bin")["policy.bin"] = NoFile
         /\ Unlink(dir, "policy.bin")["backup"] = dir["backup"]
         /\ Unlink(dir, "backup") \in Directory
         /\ Unlink(dir, "backup")["policy.bin"] = dir["policy.bin"]
         /\ Unlink(dir, "backup")["backup"] = NoFile
         /\ Rename(dir, "policy.bin", "backup") \in Directory
         /\ Rename(dir, "policy.bin", "backup")["policy.bin"] = NoFile
         /\ Rename(dir, "policy.bin", "backup")["backup"] = dir["policy.bin"]
         /\ Rename(dir, "policy.bin", "backup")["candidate"] = dir["candidate"]
         /\ Rename(dir, "candidate", "policy.bin") \in Directory
         /\ Rename(dir, "candidate", "policy.bin")["policy.bin"] = dir["candidate"]
         /\ Rename(dir, "candidate", "policy.bin")["backup"] = dir["backup"]
  <1>1. dir \in Directory /\ NoFile \in Entry
    OBVIOUS
  <1> HIDE DEF Directory, Entry, NoFile, TypeOK
  <1> QED
    BY <1>1, DirectoryFacts

(* Renaming the backup back, where there is one. *)
LEMMA RestoreEffects ==
  ASSUME TypeOK
  PROVE  /\ RestoreBackup(dir) \in Directory
         /\ pub.hadActive => /\ RestoreBackup(dir)["policy.bin"] = dir["backup"]
                             /\ RestoreBackup(dir)["backup"] = NoFile
         /\ ~pub.hadActive => RestoreBackup(dir) = dir
         /\ Unlink(RestoreBackup(dir), "candidate") \in Directory
         /\ Unlink(RestoreBackup(dir), "candidate")["policy.bin"]
                = RestoreBackup(dir)["policy.bin"]
         /\ Unlink(RestoreBackup(dir), "candidate")["backup"] = RestoreBackup(dir)["backup"]
  <1>1. dir \in Directory /\ NoFile \in Entry
    OBVIOUS
  <1> HIDE DEF Directory, Entry, NoFile, TypeOK
  <1>2. /\ RestoreBackup(dir) \in Directory
        /\ pub.hadActive => /\ RestoreBackup(dir)["policy.bin"] = dir["backup"]
                            /\ RestoreBackup(dir)["backup"] = NoFile
        /\ ~pub.hadActive => RestoreBackup(dir) = dir
    BY <1>1, DirectoryFacts DEF RestoreBackup
  <1> HIDE DEF RestoreBackup
  <1> QED
    BY <1>1, <1>2, DirectoryFacts

(* One case for each step of the call. *)
LEMMA StepKeepsCall ==
  ASSUME CallInv, PublishStep
  PROVE  CallInv'
  <1>0. TypeOK /\ dir \in Directory /\ pub.blob \in Gens \cup {"none"}
    OBVIOUS
  <1> DEFINE Cached == [gen |-> pub.blob, state |-> "cached"]
  <1>c. pub.blob \in Gens => /\ Cached \in Entry
                             /\ Cached.gen = pub.blob /\ Cached.state = "cached"
    OBVIOUS
  <1>b. /\ BlobFile.gen = pub.blob /\ BlobFile.state = "durable"
        /\ \A f \in Entry : (f.gen = pub.blob /\ f.state = "durable" /\ f # NoFile)
                                => f = BlobFile
        /\ NoFile.state = "absent"
    OBVIOUS
  <1> HIDE DEF TypeOK, Cached, NoFile, File, Entry, Directory, Publication, PublishPc,
               PublishSteps, PublishResult, BlobFile, FailureRetainsPolicy, OldIsBackup
  <1>1. CASE PublishCandidate
    <2>1. CASE Change(Put(dir, "candidate", Cached)) /\ Goto("file_sync")
      <3>1. /\ dir' \in Directory
            /\ dir'["candidate"] = Cached
            /\ dir'["policy.bin"] = dir["policy.bin"]
            /\ dir'["backup"] = dir["backup"]
            /\ survivors' = survivors \cup {dir'}
        BY <1>0, <1>1, <1>c, <2>1, DirectoryFacts DEF Change, PublishCandidate
      <3>2. Moved("file_sync") /\ pub.pc = "candidate"
        BY <1>0, <1>1, <2>1, CallSteps DEF PublishCandidate
      <3> QED
        BY <1>0, <1>c, <3>1, <3>2 DEF Moved, TypeOK, FailureRetainsPolicy
    <2>2. CASE Return("failed") /\ UNCHANGED <<dir, survivors>>
      BY <1>0, <1>1, <2>2, CallSteps DEF PublishCandidate, Returned, TypeOK,
         FailureRetainsPolicy
    <2> QED
      BY <1>1, <2>1, <2>2 DEF PublishCandidate, Cached
  <1>2. CASE PublishFileSync
    <2>1. CASE /\ dir' = FlushFile(dir)
               /\ survivors' = {FlushFile(d) : d \in survivors}
               /\ Goto("preserve")
      <3>1. /\ dir' \in Directory /\ survivors' \subseteq Directory
            /\ dir'["policy.bin"] = dir["policy.bin"]
            /\ dir'["backup"] = dir["backup"]
        BY <1>0, <2>1, FlushFacts DEF TypeOK
      <3>2. dir'["candidate"].gen = pub.blob /\ dir'["candidate"].state = "durable"
        BY <1>0, <1>2, <2>1, FlushFacts DEF PublishFileSync
      <3>3. dir'["candidate"] = BlobFile
        <4>1. dir'["candidate"] \in Entry
          BY <3>1 DEF Directory
        <4> QED
          BY <1>b, <3>2, <4>1
      <3>4. Moved("preserve") /\ pub.pc = "file_sync"
        BY <1>0, <1>2, <2>1, CallSteps DEF PublishFileSync
      <3> QED
        BY <3>1, <3>3, <3>4 DEF Moved, TypeOK, FailureRetainsPolicy
    <2>2. CASE Change(Unlink(dir, "candidate")) /\ Return("failed")
      <3>1. /\ dir' \in Directory
            /\ dir'["policy.bin"] = dir["policy.bin"]
            /\ survivors' = survivors \cup {dir'}
        BY <1>0, <2>2, CallEffects DEF Change
      <3>2. Returned("failed") /\ pub.pc = "file_sync"
        BY <1>0, <1>2, <2>2, CallSteps DEF PublishFileSync
      <3> QED
        BY <1>0, <3>1, <3>2 DEF Returned, TypeOK, FailureRetainsPolicy
    <2> QED
      BY <1>2, <2>1, <2>2 DEF PublishFileSync
  <1>3. CASE PublishPreserve
    <2>1. CASE /\ IF dir["policy.bin"] # NoFile
                  THEN Change(Rename(dir, "policy.bin", "backup"))
                  ELSE UNCHANGED <<dir, survivors>>
               /\ pub' = [pub EXCEPT !.pc = "rename",
                                     !.hadActive = dir["policy.bin"] # NoFile]
      <3>1. /\ pub' \in Publication
            /\ pub'.pc = "rename" /\ pub'.blob = pub.blob
            /\ pub'.before = pub.before /\ pub'.result = pub.result
            /\ pub'.hadActive = (dir["policy.bin"] # NoFile)
        BY <1>0, <2>1 DEF TypeOK, Publication, PublishPc, PublishSteps
      <3>2. BlobFile' = BlobFile
        BY <3>1 DEF BlobFile
      <3>3. /\ dir' \in Directory /\ survivors' \subseteq survivors \cup {dir'}
            /\ dir'["policy.bin"] = NoFile
            /\ dir'["backup"] = dir["policy.bin"]
            /\ dir'["candidate"] = dir["candidate"]
        <4>1. pub.pc = "preserve" /\ dir["backup"] = NoFile
          BY <1>3 DEF PublishPreserve
        <4>2. CASE dir["policy.bin"] # NoFile
          BY <1>0, <2>1, <4>2, CallEffects DEF Change
        <4>3. CASE dir["policy.bin"] = NoFile
          BY <1>0, <2>1, <4>1, <4>3
        <4> QED
          BY <4>2, <4>3
      <3>4. pub.pc = "preserve" /\ dir["candidate"] = BlobFile /\ pub.result = "none"
            /\ dir["policy.bin"] = pub.before
        BY <1>3 DEF PublishPreserve
      <3> QED
        BY <1>0, <3>1, <3>2, <3>3, <3>4 DEF TypeOK, FailureRetainsPolicy, OldIsBackup
    <2>2. CASE Change(Unlink(dir, "candidate")) /\ Return("failed")
      <3>1. /\ dir' \in Directory
            /\ dir'["policy.bin"] = dir["policy.bin"]
            /\ survivors' = survivors \cup {dir'}
        BY <1>0, <2>2, CallEffects DEF Change
      <3>2. Returned("failed") /\ pub.pc = "preserve"
        BY <1>0, <1>3, <2>2, CallSteps DEF PublishPreserve
      <3> QED
        BY <1>0, <3>1, <3>2 DEF Returned, TypeOK, FailureRetainsPolicy
    <2> QED
      BY <1>3, <2>1, <2>2 DEF PublishPreserve
  <1>4. CASE PublishRename
    <2>1. CASE Change(Rename(dir, "candidate", "policy.bin")) /\ Goto("dir_sync")
      <3>1. /\ dir' \in Directory
            /\ dir'["policy.bin"] = dir["candidate"]
            /\ dir'["backup"] = dir["backup"]
            /\ survivors' = survivors \cup {dir'}
        BY <1>0, <2>1, CallEffects DEF Change
      <3>2. Moved("dir_sync") /\ pub.pc = "rename"
        BY <1>0, <1>4, <2>1, CallSteps DEF PublishRename
      <3> QED
        BY <1>0, <3>1, <3>2 DEF Moved, TypeOK, FailureRetainsPolicy, OldIsBackup
    <2>2. CASE Goto("restore") /\ UNCHANGED <<dir, survivors>>
      <3>1. Moved("restore") /\ pub.pc = "rename"
        BY <1>0, <1>4, <2>2, CallSteps DEF PublishRename
      <3> QED
        BY <1>0, <2>2, <3>1 DEF Moved, TypeOK, FailureRetainsPolicy, OldIsBackup
    <2> QED
      BY <1>4, <2>1, <2>2 DEF PublishRename
  <1>5. CASE PublishRestore
    <2>0. Returned("failed") /\ pub.pc = "restore"
      BY <1>0, <1>5, CallSteps DEF PublishRestore
    <2>1. CASE Change(Unlink(RestoreBackup(dir), "candidate"))
      <3>1. /\ dir' \in Directory
            /\ dir'["policy.bin"] = RestoreBackup(dir)["policy.bin"]
            /\ survivors' = survivors \cup {dir'}
        BY <1>0, <2>1, RestoreEffects DEF Change
      <3>2. RestoreBackup(dir)["policy.bin"] = pub.before
        BY <1>0, <2>0, RestoreEffects DEF OldIsBackup
      <3> QED
        BY <1>0, <2>0, <3>1, <3>2 DEF Returned, TypeOK, FailureRetainsPolicy
    <2>2. CASE MayFail("restore") /\ Change(Unlink(dir, "candidate"))
      <3>1. dir' \in Directory /\ survivors' = survivors \cup {dir'}
        BY <1>0, <2>2, CallEffects DEF Change
      <3> QED
        BY <1>0, <2>0, <2>2, <3>1 DEF Returned, TypeOK, FailureRetainsPolicy, MayFail
    <2> QED
      BY <1>5, <2>1, <2>2 DEF PublishRestore
  <1>6. CASE PublishDirSync
    <2>1. /\ pub.pc = "dir_sync" /\ dir' = dir /\ survivors' \subseteq survivors \cup {dir}
          /\ Moved("cleanup") \/ Moved("withdraw")
      BY <1>0, <1>6, CallSteps DEF PublishDirSync, FlushDirectory
    <2> QED
      BY <1>0, <2>1 DEF Moved, TypeOK, FailureRetainsPolicy, OldIsBackup
  <1>7. CASE PublishWithdraw
    <2>0. Moved("put_back") /\ pub.pc = "withdraw"
      BY <1>0, <1>7, CallSteps DEF PublishWithdraw
    <2>1. CASE Change(Unlink(dir, "policy.bin"))
      <3>1. /\ dir' \in Directory
            /\ dir'["policy.bin"] = NoFile
            /\ dir'["backup"] = dir["backup"]
            /\ survivors' = survivors \cup {dir'}
        BY <1>0, <2>1, CallEffects DEF Change
      <3> QED
        BY <1>0, <2>0, <3>1 DEF Moved, TypeOK, FailureRetainsPolicy, OldIsBackup
    <2>2. CASE MayFail("restore") /\ UNCHANGED <<dir, survivors>>
      BY <1>0, <2>0, <2>2 DEF Moved, TypeOK, FailureRetainsPolicy, OldIsBackup, MayFail
    <2> QED
      BY <1>7, <2>1, <2>2 DEF PublishWithdraw
  <1>8. CASE PublishPutBack
    <2>0. Returned("failed") /\ pub.pc = "put_back"
      BY <1>0, <1>8, CallSteps DEF PublishPutBack
    <2>1. /\ dir' = RestoreBackup(dir) \/ (MayFail("restore") /\ dir' = dir)
          /\ survivors' \subseteq survivors \cup {dir'}
      BY <1>8 DEF PublishPutBack, FlushIgnored
    <2>2. CASE dir' = RestoreBackup(dir)
      <3>1. dir' \in Directory
        BY <1>0, <2>2, RestoreEffects
      <3>2. "restore" \notin Faults => dir'["policy.bin"] = pub.before
        BY <1>0, <2>0, <2>2, RestoreEffects DEF OldIsBackup
      <3> QED
        BY <1>0, <2>0, <2>1, <3>1, <3>2 DEF Returned, TypeOK, FailureRetainsPolicy
    <2>3. CASE MayFail("restore") /\ dir' = dir
      BY <1>0, <2>0, <2>1, <2>3 DEF Returned, TypeOK, FailureRetainsPolicy, MayFail
    <2> QED
      BY <2>1, <2>2, <2>3
  <1>9. CASE PublishCleanup
    <2>1. /\ dir' \in Directory
          /\ dir'["policy.bin"] = dir["policy.bin"]
          /\ survivors' \subseteq survivors \cup {dir'}
      BY <1>0, <1>9, CallEffects DEF PublishCleanup, FlushIgnored
    <2>2. pub.pc = "cleanup" /\ Returned("published")
      BY <1>0, <1>9, CallSteps DEF PublishCleanup
    <2> QED
      BY <1>0, <2>1, <2>2 DEF Returned, TypeOK, FailureRetainsPolicy
  <1> QED
    BY <1>1, <1>2, <1>3, <1>4, <1>5, <1>6, <1>7, <1>8, <1>9 DEF PublishStep

USE DEF PublishInv, PolicyNeverTorn, PublishedIsDurable

(* A call of Publish begins with the policy that is in place. *)
LEMMA StartPreserves ==
  ASSUME PublishInv, PublishAny
  PROVE  PublishInv'
  <1>1. PICK g \in Gens : PublishStart(g)
    BY DEF PublishAny
  <1>2. \A d \in (survivors \cup {dir})' :
          d["policy.bin"].state \in {"absent", "durable"} /\ d["backup"] = NoFile
    BY <1>1, StartFacts, ForgetFacts
  <1> QED
    BY <1>1, <1>2, StartFacts

(* A crash of the daemon leaves no call in progress. *)
LEMMA CrashPreserves ==
  ASSUME PublishInv, DaemonDies \/ PowerLoss
  PROVE  PublishInv'
  <1>1. pub' = Idle
    BY DEF DaemonDies, PowerLoss
  <1>2. /\ dir' \in Directory /\ survivors' \subseteq Directory
        /\ \A d \in (survivors \cup {dir})' :
             d["policy.bin"].state \in {"absent", "durable"} /\ d["backup"] = NoFile
    <2>1. CASE DaemonDies
      BY <2>1, ForgetFacts DEF DaemonDies, ForgetNames
    <2>2. CASE PowerLoss
      <3>1. PICK d \in survivors : dir' \in AfterPowerLoss(d)
        BY <2>2 DEF PowerLoss
      <3> QED
        BY <2>2, <3>1, PowerLossFacts DEF PowerLoss
    <2> QED
      BY <2>1, <2>2
  <1> QED
    BY <1>1, <1>2, IdleFacts

(* A step gives policy.bin no file but the blob and the backup, and the    *)
(* name of the backup none but policy.bin.                                 *)
LEMMA StepMoves ==
  ASSUME CallInv, PublishStep
  PROVE  /\ dir'["policy.bin"] \in {dir["policy.bin"], dir["backup"], NoFile, BlobFile}
         /\ dir'["backup"] \in {dir["policy.bin"], dir["backup"], NoFile}
         /\ \/ survivors' \subseteq survivors \cup {dir'}
            \/ survivors' = {FlushFile(d) : d \in survivors}
  <1>0. TypeOK /\ dir \in Directory
    OBVIOUS
  <1>c. PublishCandidate => [gen |-> pub.blob, state |-> "cached"] \in Entry
    BY DEF PublishCandidate
  <1>r. PublishRename => dir["candidate"] = BlobFile
    BY DEF PublishRename
  <1> HIDE DEF TypeOK, CallInv, NoFile, File, Entry, Directory, Publication, BlobFile
  <1> USE <1>0, CallEffects DEF Change
  <1>1. CASE PublishCandidate
    BY <1>1, <1>c, DirectoryFacts DEF PublishCandidate
  <1>2. CASE PublishFileSync
    BY <1>2, FlushFacts DEF PublishFileSync
  <1>3. CASE PublishPreserve
    BY <1>3 DEF PublishPreserve
  <1>4. CASE PublishRename
    BY <1>4, <1>r DEF PublishRename
  <1>5. CASE PublishRestore
    BY <1>5, RestoreEffects DEF PublishRestore
  <1>6. CASE PublishDirSync
    BY <1>6 DEF PublishDirSync, FlushDirectory
  <1>7. CASE PublishWithdraw
    BY <1>7 DEF PublishWithdraw
  <1>8. CASE PublishPutBack
    BY <1>8, RestoreEffects DEF PublishPutBack, FlushIgnored
  <1>9. CASE PublishCleanup
    BY <1>9 DEF PublishCleanup, FlushIgnored
  <1> QED
    BY <1>1, <1>2, <1>3, <1>4, <1>5, <1>6, <1>7, <1>8, <1>9 DEF PublishStep

(* So what was fsynced stays so. *)
LEMMA StepPreserves ==
  ASSUME PublishInv, PublishStep
  PROVE  PublishInv'
  <1> DEFINE Whole(d) == /\ d["policy.bin"].state \in {"absent", "durable"}
                         /\ d["backup"].state \in {"absent", "durable"}
  <1>1. CallInv'
    BY StepKeepsCall
  <1>2. Whole(dir')
    BY StepMoves
  <1>3. \A d \in survivors' : Whole(d)
    BY StepMoves, FlushFacts, <1>2
  <1>t. TypeOK
    OBVIOUS
  <1>s. /\ pub.pc \in PublishSteps => pub.result = "none"
        /\ pub.pc = "cleanup" => dir["policy.bin"] = BlobFile /\ survivors = {dir}
    OBVIOUS
  <1>p. PublishPreserve => /\ pub.pc = "preserve"
                           /\ pub'.pc # "cleanup" /\ pub'.result \in {pub.result, "failed"}
    BY DEF PublishPreserve, Return
  <1> HIDE DEF TypeOK, PublishInv, CallInv, PolicyNeverTorn, PublishedIsDurable, Publication,
               Directory, Entry, File, NoFile, BlobFile, Whole
  <1>4. pub'.pc = "cleanup" => survivors' = {dir'}
    <2>1. CASE PublishDirSync
      BY <1>t, <2>1, CallSteps DEF PublishDirSync, FlushDirectory, Moved
    <2>2. CASE PublishPreserve
      BY <1>p, <2>2
    <2>3. CASE ~PublishDirSync /\ ~PublishPreserve
      BY <1>t, <2>3, CallSteps DEF PublishStep, PublishCandidate, PublishFileSync,
         PublishRename, PublishRestore, PublishWithdraw, PublishPutBack, PublishCleanup,
         Moved, Returned
    <2> QED
      BY <2>1, <2>2, <2>3
  <1>5. PublishedIsDurable'
    <2>1. CASE PublishCleanup
      <3>1. /\ dir'["policy.bin"] = dir["policy.bin"]
            /\ survivors' \subseteq survivors \cup {dir'}
        BY <1>t, <2>1, CallEffects DEF PublishCleanup, FlushIgnored
      <3>2. Returned("published") /\ pub.pc = "cleanup"
        BY <1>t, <2>1, CallSteps DEF PublishCleanup
      <3>3. \A d \in survivors' \cup {dir'} : d["policy.bin"] = BlobFile'
        BY <1>s, <3>1, <3>2 DEF Returned
      <3> QED
        BY <3>3 DEF PublishedIsDurable, BlobFile
    <2>2. CASE ~PublishCleanup
      <3>1. pub'.result # "published"
        BY <1>t, <1>s, <1>p, <2>2, CallSteps DEF PublishStep, PublishCandidate,
           PublishFileSync, PublishRename, PublishRestore, PublishDirSync,
           PublishWithdraw, PublishPutBack, Moved, Returned
      <3> QED
        BY <3>1 DEF PublishedIsDurable
    <2> QED
      BY <2>1, <2>2
  <1> QED
    BY <1>1, <1>2, <1>3, <1>4, <1>5 DEF PublishInv, PolicyNeverTorn, Whole

HIDE DEF PublishInv, CallInv, PolicyNeverTorn, PublishedIsDurable, FailureRetainsPolicy

(* PublishInv holds throughout. *)
THEOREM PublisherInvariance == Spec => []PublishInv
  <1>1. PublishInv /\ [Next]_pubVars => PublishInv'
    <2> SUFFICES ASSUME PublishInv, [Next]_pubVars PROVE PublishInv'
      OBVIOUS
    <2>1. CASE UNCHANGED pubVars
      BY <2>1 DEF pubVars, PublishInv, PolicyNeverTorn, PublishedIsDurable, CallInv,
         FailureRetainsPolicy, ReadGeneration
    <2> QED
      BY <2>1, StartPreserves, StepPreserves, CrashPreserves DEF Next
  <1> QED
    BY <1>1, InitPublishInv, PTL DEF Spec

(* No power loss leaves a torn policy.bin. *)
THEOREM NeverTorn == Spec => []PolicyNeverTorn
  <1>1. PublishInv => PolicyNeverTorn
    BY DEF PublishInv
  <1> QED
    BY <1>1, PublisherInvariance, PTL

(* "published" means that the new policy survives a power loss. *)
THEOREM PublishedDurability == Spec => []PublishedIsDurable
  <1>1. PublishInv => PublishedIsDurable
    BY DEF PublishInv
  <1> QED
    BY <1>1, PublisherInvariance, PTL

(* A failed call leaves policy.bin as it was, if the rename of the backup  *)
(* works.                                                                  *)
THEOREM FailureRetains == Spec => []FailureRetainsPolicy
  <1>1. PublishInv => FailureRetainsPolicy
    BY DEF PublishInv, CallInv
  <1> QED
    BY <1>1, PublisherInvariance, PTL
=============================================================================
