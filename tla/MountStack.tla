----------------------------- MODULE MountStack -----------------------------
(***************************************************************************)
(* One plan applied to a mount table that others change too:               *)
(* native/mount_executor.cpp, the lookups of native/mount_info_snapshot.cpp*)
(* and the part of ApplyProcessPlan (zygisk/src/module_entry.cpp) that     *)
(* pins, mounts, completes the journal and rolls back.  The status word    *)
(* and the deaths of processes are in MountTransaction; here a cancel is   *)
(* one of the errors a step may meet.                                      *)
(*                                                                         *)
(* A path is a sequence of names and <<>> is "/".  An object is a          *)
(* directory of a file system, which stands for its device and inode.      *)
(* Others (vold, through propagation) mount and unmount at any moment.     *)
(***************************************************************************)
EXTENDS MountBackend, Integers, SequencesExt

CONSTANTS
    Tables,        \* the mount tables an app may start with
    Plans,         \* plans: sequences of [target, source] paths
    Objects,       \* the directories that exist, [fs, dir] records
    ForeignSpots,  \* paths others mount at
    ForeignRoots,  \* what they mount there
    MaxForeign,    \* how often others mount
    Failures       \* which calls may fail: "snapshot", "umount"

VARIABLES
    table,     \* kernel: the mounts of the namespace, in the order of mountinfo
    plan, backend,
    before,    \* current_mounts, the snapshot before the mutation
    sources, targets,    \* workspace->sources and targets, the pinned identities
    journal,   \* workspace->journal, sequence of [rule, mount_id]
    after,     \* mutation_snapshot
    ready,     \* mutation_snapshot_ready
    pc, step,
    error,     \* error # 0
    foreign,   \* how often others mounted so far
    stirred,   \* ghost: others changed the table since the last look at it
    disturbed, \* ghost: others changed the table, or a call failed
    hit        \* ghost: the mounts the worker's umount2 calls detached

vars == <<table, plan, backend, before, sources, targets, journal, after, ready,
          pc, step, error, foreign, stirred, disturbed, hit>>
worker == <<plan, backend, before, sources, targets, journal, after, ready, pc,
            step, error, hit>>

After(s, t) == SubSeq(t, Len(s) + 1, Len(t))
NoSnapshot == <<>>

-----------------------------------------------------------------------------
(* The kernel.  A mount hangs at a directory of its parent; obj is the     *)
(* mount itself and id the number mountinfo shows, which a later mount may *)
(* get again.  by is the rule that made it, 0 for others, and late says    *)
(* whether it was made after the worker's last snapshot before rollback.   *)

Mounts(t) == ToSet(t)
MountOf(t, obj) == CHOOSE m \in Mounts(t) : m.obj = obj
Attached(t, obj) == \E m \in Mounts(t) : m.obj = obj

(* Where a lookup ends that has reached loc: the root of the topmost mount *)
(* stacked there.  A mount comes after the one it is on.                   *)
FollowUp(t, loc) ==
    LET Climb(at, m) == IF m.parent = at.obj /\ m.on = at.dir
                        THEN [obj |-> m.obj, dir |-> m.root.dir] ELSE at
    IN  FoldLeft(Climb, loc, t)

(* Path lookup from the root mount, the first of the table. *)
Walk(t, path) ==
    LET Enter(at, name) == FollowUp(t, [obj |-> at.obj, dir |-> Append(at.dir, name)])
    IN  FoldLeft(Enter, FollowUp(t, [obj |-> t[1].obj, dir |-> t[1].root.dir]), path)

ObjectAt(t, loc) == [fs |-> MountOf(t, loc.obj).root.fs, dir |-> loc.dir]
Exists(t, path) ==
    \A n \in 0..Len(path) : ObjectAt(t, Walk(t, SubSeq(path, 1, n))) \in Objects

FreshId(t) == CHOOSE n \in 1..(Len(t) + 1) :
                  /\ \A m \in Mounts(t) : m.id # n
                  /\ \A k \in 1..(n - 1) : \E m \in Mounts(t) : m.id = k

(* A bind mount of root on loc, on top of what is mounted there already. *)
Attach(t, loc, root, obj, by, late) ==
    LET top == FollowUp(t, loc)
        parent == MountOf(t, top.obj)
    IN  Append(t, [obj |-> obj, id |-> FreshId(t), parent |-> top.obj,
                   on |-> top.dir, root |-> root,
                   point |-> parent.point \o After(parent.root.dir, top.dir),
                   by |-> by, late |-> late])

(* umount2(MNT_DETACH): the mount goes with all that is mounted on it. *)
Below(t, obj) ==
    LET Join(gone, m) == IF m.parent \in gone THEN gone \cup {m.obj} ELSE gone
    IN  FoldLeft(Join, {obj}, t)
Detach(t, obj) == LET Stays(m) == m.obj \notin Below(t, obj) IN SelectSeq(t, Stays)

IsMountRoot(t, loc) == loc.dir = MountOf(t, loc.obj).root.dir

-----------------------------------------------------------------------------
(* mountinfo *)

CaptureMountInfoSnapshot(t) ==
    [i \in DOMAIN t |-> [mount_id |-> t[i].id,
                         parent_mount_id |-> IF t[i].parent = 0 THEN 1
                                             ELSE MountOf(t, t[i].parent).id,
                         root |-> t[i].root, mountpoint |-> t[i].point]]

(* FindEntry and FindMountInfoPath: the last of the longest matches, 0 for *)
(* ENOENT.                                                                 *)
FindEntry(snapshot, path, exact) ==
    LET match == {i \in DOMAIN snapshot :
                    IF exact THEN snapshot[i].mountpoint = path
                    ELSE IsPrefix(snapshot[i].mountpoint, path)}
        best == {i \in match : \A j \in match :
                    Len(snapshot[j].mountpoint) <= Len(snapshot[i].mountpoint)}
    IN  IF match = {} THEN 0 ELSE CHOOSE i \in best : \A j \in best : j <= i

TopmostId(snapshot, path) ==
    LET i == FindEntry(snapshot, path, TRUE) IN IF i = 0 THEN 0 ELSE snapshot[i].mount_id

-----------------------------------------------------------------------------
(* mount_executor.cpp *)

(* Mutant: the path below the mount point is not appended. *)
BuildExpectedMountRoot(path, info) == info.root

BuildExpectedBindRoot(path, info) ==
    [fs |-> info.root.fs, dir |-> info.root.dir \o After(info.mountpoint, path)]

CanPin(t, snapshot, path) ==
    LET i == FindEntry(snapshot, path, FALSE)
    IN  /\ Exists(t, path)
        /\ i # 0
        /\ snapshot[i].root.fs = ObjectAt(t, Walk(t, path)).fs

PinDirectory(t, snapshot, path) ==
    LET info == snapshot[FindEntry(snapshot, path, FALSE)]
    IN  [path |-> path, loc |-> Walk(t, path), object |-> ObjectAt(t, Walk(t, path)),
         mount |-> info, expected_bind_root |-> BuildExpectedBindRoot(path, info)]

SameObject(t, path, pin) == Exists(t, path) /\ ObjectAt(t, Walk(t, path)) = pin.object
VerifyPinnedDirectory(t, pin) == SameObject(t, pin.path, pin)

(* Mutant: the parent of the mount is not compared. *)
VerifyDirectoryMountAnyParent(t, count, snapshot, source, target, kind) ==
    LET i == FindEntry(snapshot, target.path, TRUE)
    IN  /\ i # 0
        /\ kind = LegacyString => /\ SameObject(t, target.path, source)
                                  /\ Len(snapshot) = count
        /\ snapshot[i].root = source.expected_bind_root

(* Mutant: the string backend does not look at the target after the mount. *)
VerifyDirectoryMountUnseen(t, count, snapshot, source, target, kind) ==
    LET i == FindEntry(snapshot, target.path, TRUE)
    IN  /\ i # 0
        /\ snapshot[i].root = source.expected_bind_root
        /\ snapshot[i].parent_mount_id
             = IF target.path = target.mount.mountpoint
               THEN target.mount.parent_mount_id ELSE target.mount.mount_id

(* count is the number of entries before plus the expected mounts. *)
VerifyDirectoryMount(t, count, snapshot, source, target, kind) ==
    LET i == FindEntry(snapshot, target.path, TRUE)
    IN  /\ i # 0
        /\ kind = LegacyString => /\ SameObject(t, target.path, source)
                                  /\ Len(snapshot) = count
        /\ snapshot[i].root = source.expected_bind_root
        /\ snapshot[i].parent_mount_id
             = IF target.path = target.mount.mountpoint
               THEN target.mount.parent_mount_id ELSE target.mount.mount_id

(* Mutant: the mount on top is not compared with the recorded one. *)
ValidateRollbackDirectoryMountBlind(entry, path, snapshot) ==
    TopmostId(snapshot, path) # 0

ValidateRollbackDirectoryMount(entry, path, snapshot) ==
    entry.mount_id # 0 /\ TopmostId(snapshot, path) = entry.mount_id

VerifyRollbackDirectoryMount(entry, path, snapshot) ==
    TopmostId(snapshot, path) # entry.mount_id

-----------------------------------------------------------------------------
(* ApplyProcessPlan *)

Init ==
    /\ table \in Tables
    /\ plan \in Plans
    /\ backend \in IF \A i \in DOMAIN plan : plan[i].action = Redirect
                   THEN {StrictOpenTree, LegacyString} ELSE {StrictOpenTree}
    /\ before = NoSnapshot /\ after = NoSnapshot /\ ready = FALSE
    /\ sources = <<>> /\ targets = <<>> /\ journal = <<>>
    /\ pc = "capture" /\ step = 0 /\ error = FALSE
    /\ foreign = 0 /\ stirred = FALSE /\ disturbed = FALSE /\ hit = {}

Capture ==
    /\ pc = "capture"
    /\ \/ before' = CaptureMountInfoSnapshot(table) /\ pc' = "pin" /\ step' = 1
       \/ "snapshot" \in Failures /\ pc' = "failed" /\ UNCHANGED <<before, step>>
    /\ UNCHANGED <<table, plan, backend, sources, targets, journal, after, ready,
                   error, foreign, stirred, disturbed, hit>>

(* The source and the target of one rule; a source an earlier rule has     *)
(* pinned is used again.                                                   *)
PinnedSource ==
    LET earlier == {j \in 1..(step - 1) : plan[j].source = plan[step].source}
    IN  IF earlier # {} THEN sources[CHOOSE j \in earlier : TRUE]
        ELSE PinDirectory(table, before, plan[step].source)

PinRule ==
    /\ pc = "pin"
    /\ stirred' = IF step = 1 THEN FALSE ELSE stirred
    /\ \/ /\ \E j \in 1..step : /\ plan[j].source = plan[step].source
                                /\ j < step \/ CanPin(table, before, plan[j].source)
          /\ CanPin(table, before, plan[step].target)
          /\ sources' = Append(sources, PinnedSource)
          /\ targets' = Append(targets, PinDirectory(table, before, plan[step].target))
          /\ step' = IF step = Len(plan) THEN 1 ELSE step + 1
          /\ pc' = IF step = Len(plan) THEN "apply" ELSE "pin"
       \/ pc' = "failed" /\ UNCHANGED <<sources, targets, step>>
    /\ UNCHANGED <<table, plan, backend, before, journal, after, ready, error,
                   foreign, disturbed, hit>>

(* Mutant: the journal learns of the last mount only with the commit. *)
MutateUnrecorded(loc, root) ==
    /\ table' = Attach(table, loc, root, 100 + step, step, FALSE)
    /\ journal' = IF step = Len(plan) THEN journal
                  ELSE Append(journal, [rule |-> step, mount_id |-> 0])
    /\ step' = step + 1
    /\ pc' = IF step = Len(plan) THEN "finish" ELSE "apply"
    /\ UNCHANGED error

(* The mutation is in the journal, with no mount id, before anything else. *)
Mutate(loc, root) ==
    /\ table' = Attach(table, loc, root, 100 + step, step, FALSE)
    /\ journal' = Append(journal, [rule |-> step, mount_id |-> 0])
    /\ step' = step + 1
    /\ pc' = IF step = Len(plan) THEN "finish" ELSE "apply"
    /\ UNCHANGED error

GiveUp == error' = TRUE /\ pc' = "finish" /\ UNCHANGED <<table, journal, step>>

(* A mount by descriptors lands on what is pinned, as long as that is      *)
(* still mounted.                                                          *)
ApplyStrict ==
    /\ pc = "apply" /\ backend # LegacyString
    /\ \/ /\ Attached(table, sources[step].loc.obj)
          /\ Attached(table, targets[step].loc.obj)
          /\ Mutate(targets[step].loc, sources[step].object)
       \/ GiveUp
    /\ UNCHANGED <<plan, backend, before, sources, targets, after, ready, foreign,
                   stirred, disturbed, hit>>

(* The string backend compares both paths with what is pinned, ... *)
ApplyLegacyCheck ==
    /\ pc = "apply" /\ backend = LegacyString
    /\ \/ /\ VerifyPinnedDirectory(table, sources[step])
          /\ VerifyPinnedDirectory(table, targets[step])
          /\ pc' = "string_mount"
          /\ UNCHANGED <<table, journal, step, error>>
       \/ GiveUp
    /\ UNCHANGED <<plan, backend, before, sources, targets, after, ready, foreign,
                   stirred, disturbed, hit>>

(* ... and mounts whatever is there a moment later. *)
ApplyLegacyMount ==
    /\ pc = "string_mount"
    /\ \/ /\ Exists(table, plan[step].source) /\ Exists(table, plan[step].target)
          /\ Mutate(Walk(table, plan[step].target),
                    ObjectAt(table, Walk(table, plan[step].source)))
       \/ GiveUp
    /\ UNCHANGED <<plan, backend, before, sources, targets, after, ready, foreign,
                   stirred, disturbed, hit>>

(* Publishing complete succeeds, or a cancel was there first. *)
Publish ==
    /\ ~error
    /\ \/ pc = "finish" /\ ~NeedsPostMountSnapshot(backend, journal # <<>>, TRUE)
       \/ pc = "verified"
    /\ \/ pc' = "complete" /\ UNCHANGED error
       \/ error' = TRUE /\ UNCHANGED pc
    /\ UNCHANGED <<table, plan, backend, before, sources, targets, journal, after,
                   ready, step, foreign, stirred, disturbed, hit>>

FinalSnapshot ==
    /\ pc = "finish"
    /\ NeedsPostMountSnapshot(backend, journal # <<>>, ~error)
    /\ \/ /\ after' = CaptureMountInfoSnapshot(table)
          /\ ready' = TRUE
          /\ pc' = "verify"
          /\ stirred' = (stirred /\ backend # LegacyString)
          /\ UNCHANGED <<error, disturbed>>
       \/ /\ "snapshot" \in Failures
          /\ error' = TRUE /\ pc' = "verified" /\ disturbed' = TRUE
          /\ UNCHANGED <<after, ready, stirred>>
    /\ UNCHANGED <<table, plan, backend, before, sources, targets, journal, step,
                   foreign, hit>>

Verified(j) ==
    LET i == journal[j].rule
    IN  VerifyDirectoryMount(table, Len(before) + Len(journal), after, sources[i],
                             targets[i], backend)

VerifyJournal ==
    /\ pc = "verify"
    /\ journal' = [j \in DOMAIN journal |->
                     IF Verified(j)
                     THEN [journal[j] EXCEPT
                             !.mount_id = TopmostId(after, plan[journal[j].rule].target)]
                     ELSE journal[j]]
    /\ error' = (error \/ \E j \in DOMAIN journal : ~Verified(j))
    /\ pc' = "verified"
    /\ UNCHANGED <<table, plan, backend, before, sources, targets, after, ready,
                   step, foreign, stirred, disturbed, hit>>

(* All entries are compared with the snapshot before the first is          *)
(* unmounted.  Without a snapshot of its own the journal has no ids.       *)
ValidateRollback ==
    /\ error
    /\ pc = "verified" \/ (pc = "finish" /\ journal = <<>>)
    /\ pc' = IF \A j \in DOMAIN journal :
                   ValidateRollbackDirectoryMount(journal[j], plan[journal[j].rule].target, after)
             THEN "unmount" ELSE "tainted"
    /\ step' = Len(journal)
    /\ UNCHANGED <<table, plan, backend, before, sources, targets, journal, after,
                   ready, error, foreign, stirred, disturbed, hit>>

(* umount2 by path, in reverse order; it refuses a path that is not the    *)
(* root of a mount.                                                        *)
UnmountValidatedDirectoryMount ==
    LET path == plan[journal[step].rule].target
        loc == Walk(table, path)
        fits == Exists(table, path) /\ IsMountRoot(table, loc)
    IN  /\ pc = "unmount" /\ step > 0
        /\ \/ /\ fits
              /\ table' = Detach(table, loc.obj)
              /\ hit' = hit \cup {[rule |-> journal[step].rule, of |-> MountOf(table, loc.obj)]}
              /\ step' = step - 1
              /\ UNCHANGED <<pc, disturbed>>
           \/ /\ ~fits \/ "umount" \in Failures
              /\ pc' = "tainted"
              /\ disturbed' = (disturbed \/ fits)
              /\ UNCHANGED <<table, hit, step>>
        /\ UNCHANGED <<plan, backend, before, sources, targets, journal, after,
                       ready, error, foreign, stirred>>

FinishRollback ==
    LET last == CaptureMountInfoSnapshot(table)
    IN  /\ pc = "unmount" /\ step = 0
        /\ \/ /\ \A j \in DOMAIN journal :
                    VerifyRollbackDirectoryMount(journal[j], plan[journal[j].rule].target, last)
              /\ pc' = "rolled_back" /\ journal' = <<>>
              /\ UNCHANGED disturbed
           \/ /\ \E j \in DOMAIN journal :
                    ~VerifyRollbackDirectoryMount(journal[j], plan[journal[j].rule].target, last)
              /\ pc' = "tainted"
              /\ UNCHANGED <<journal, disturbed>>
           \/ /\ "snapshot" \in Failures /\ journal # <<>>
              /\ pc' = "tainted" /\ disturbed' = TRUE
              /\ UNCHANGED journal
        /\ UNCHANGED <<table, plan, backend, before, sources, targets, after, ready,
                       step, error, foreign, stirred, hit>>

-----------------------------------------------------------------------------
(* Others.  They mount where a lookup leads them and unmount only what is  *)
(* theirs and has nothing on it.                                           *)

Ended == pc \in {"failed", "complete", "rolled_back", "tainted"}

ForeignMount ==
    /\ ~Ended /\ foreign < MaxForeign
    /\ \E path \in ForeignSpots, root \in ForeignRoots :
          /\ Exists(table, path)
          /\ table' = Attach(table, Walk(table, path), root, 200 + foreign, 0, ready)
    /\ foreign' = foreign + 1 /\ stirred' = TRUE /\ disturbed' = TRUE
    /\ UNCHANGED worker

ForeignUnmount ==
    /\ ~Ended
    /\ \E m \in Mounts(table) :
          /\ m.by = 0 /\ m.obj >= 200
          /\ \A k \in Mounts(table) : k.parent # m.obj
          /\ table' = Detach(table, m.obj)
    /\ stirred' = TRUE /\ disturbed' = TRUE
    /\ UNCHANGED <<worker, foreign>>

Next ==
    \/ Capture \/ PinRule
    \/ ApplyStrict \/ ApplyLegacyCheck \/ ApplyLegacyMount
    \/ Publish \/ FinalSnapshot \/ VerifyJournal
    \/ ValidateRollback \/ UnmountValidatedDirectoryMount \/ FinishRollback
    \/ ForeignMount \/ ForeignUnmount

Spec == Init /\ [][Next]_vars

-----------------------------------------------------------------------------
Own(t) == {m \in Mounts(t) : m.by # 0}

(* A rule below another rule's target: all targets are pinned first, so    *)
(* its mount hangs in the tree the other one covers.                       *)
Covered(i) == \E j \in DOMAIN plan : j # i /\ IsPrefix(plan[j].target, plan[i].target)

(* A target that was a mount point before. *)
OnMountPoint(i) == targets[i].path = targets[i].mount.mountpoint

(* The mounts of the first snapshot are all there in the last: a mount id  *)
(* that is given again would make a stranger look like the worker's mount. *)
Kept == ToSet(before) \subseteq ToSet(after)

(* Something was mounted above the target since the first snapshot, by    *)
(* others or by another rule: a lookup no longer leads to the directory    *)
(* that was pinned.                                                        *)
Overlaid(i) ==
    \E e \in ToSet(after) \ ToSet(before) : IsStrictPrefix(e.mountpoint, plan[i].target)

(* A mount id that VerifyDirectoryMount writes into the journal is that of *)
(* the mount the rule made, whoever mounted on or under the same path.     *)
IdentifiedIsOwn ==
    pc = "verified" /\ Kept =>
        \A j \in DOMAIN journal : journal[j].mount_id # 0 =>
            \E m \in Mounts(table) : m.id = journal[j].mount_id /\ m.by = journal[j].rule

(* umount2 takes a path, and rollback looks at the table once before all   *)
(* its calls: what it detaches is its own, or came after that look, or the *)
(* path has been overlaid.                                                 *)
OnlyOwnUnmounted ==
    Kept => \A h \in hit : h.of.by = h.rule \/ h.of.late \/ Overlaid(h.rule)

(* rollback_complete means that none of the worker's mounts is left, as    *)
(* long as each call detached the mount it was for: each mount is in the   *)
(* journal before anything else can fail.  The journal holds as many       *)
(* entries as a plan has rules, so that it is never full here.             *)
RolledBackIsGone ==
    pc = "rolled_back" /\ (\A h \in hit : h.of.by = h.rule) => Own(table) = {}

(* docs/03-redirect-subsystem-design.md says that rollback_complete is     *)
(* published only when all mounts are verified to be gone.                 *)
RollbackVerifiedGone == pc = "rolled_back" => Own(table) = {}

(* When nobody else mounts and no call of the rollback fails, the journal  *)
(* can always be undone, except for the two plans it cannot identify or    *)
(* reach: a target below another target, and a target on a mount point.    *)
QuietRollbackIsClean ==
    pc = "tainted" => \/ disturbed
                      \/ \E i \in DOMAIN plan : Covered(i) \/ OnMountPoint(i)

(* Every failed plan whose mounts nobody disturbed is undone. *)
QuietRollbackAlwaysClean == pc = "tainted" => disturbed

(* Committed: the app finds the source of each rule at its target.  For    *)
(* descriptors if nobody mounted since they were pinned, for strings if    *)
(* nobody mounted since the last snapshot.                                 *)
CommittedTakesEffect ==
    pc = "complete" /\ ~stirred =>
        \A i \in DOMAIN plan : ~Covered(i) =>
            SameObject(table, plan[i].target, sources[i])
=============================================================================
