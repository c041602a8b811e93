---------------------------- MODULE PolicyLaunch ----------------------------
(***************************************************************************)
(* An app is launched while the daemon publishes policies.  The module     *)
(* looks its plan up in preAppSpecialize, the companion looks again when   *)
(* it has received it, and the worker a third time before it takes the     *)
(* mutation lease; companion and worker also capture the storage topology, *)
(* each in its own mount namespace (zygisk/src/module_entry.cpp).  A look  *)
(* opens policy.bin once and maps that file, which is never written again. *)
(* What happens after the lease is in MountTransaction and MountStack.     *)
(***************************************************************************)
EXTENDS PolicyPublisher, PolicyFile, FiniteSets

CONSTANTS
    Documents,     \* [Gens -> policy documents]
    Processes,     \* process names that are launched
    Uids,          \* with these uids
    Storages       \* what a namespace may show: [Roots -> plane]

ASSUME DocumentsAssumption ==
    \A g \in Gens : Documents[g] \in PolicyDocument /\ Encodable(Documents[g])

ASSUME ProcessesAssumption ==
    /\ Processes \subseteq Nat /\ Uids \subseteq Nat
    /\ \A p \in Processes : PackageOf(p) \in DOMAIN PackageNameHash

(* Device 0 is no device: it stands for a directory that is not there. *)
Roots == {"visible", "user", "runtime", "pass_through"}
NoPlane == [device |-> 0, root |-> 0]

ASSUME StoragesAssumption ==
    \A view \in Storages : /\ DOMAIN view = Roots
                           /\ \A r \in Roots : view[r].device = 0 => view[r] = NoPlane

VARIABLES
    app,       \* the launch: pc, process, uid, plan, expected and lease topology
    snapshot,  \* current_mounts of the worker
    moved,     \* ghost: policy.bin changed since the launch began
    leaseGen   \* ghost: what policy.bin held at the worker's look

launchVars == <<app, snapshot, moved, leaseGen>>
allVars == <<pubVars, launchVars>>

Candidates == <<"user", "runtime", "pass_through">>
NoSnapshot == [r \in Roots |-> NoPlane]
MinAppUid == 10000   \* the companion serves no lower uid
NoTopology == [source |-> "none", visible |-> NoPlane, plane |-> NoPlane]

NoLaunch == [pc |-> "start", process |-> 0, uid |-> 0, plan |-> NoPlan,
             expected |-> NoTopology, lease |-> NoTopology]

-----------------------------------------------------------------------------
(* What openat, mmap and the checks of LoadProcessPlan make of policy.bin. *)
Look(process, uid) ==
    LET gen == ReadGeneration(dir)
    IN  IF gen = "none" THEN NoPlan
        ELSE LoadProcessPlan(EncodePolicy(Documents[gen]), process, uid)

(* PinDirectory opens the path now and finds its mount in the snapshot. *)
Pins(view, snap, root) == view[root] # NoPlane /\ view[root].device = snap[root].device

(* Mutant: the first candidate that can be pinned is taken. *)
AnyPlane(view, snap, root) == Pins(view, snap, root)

SamePlane(view, snap, root) ==
    Pins(view, snap, root) /\ view[root].device = snap["visible"].device

(* The first candidate on the plane of the visible root; the worker allows *)
(* only the one the companion has found.                                   *)
CaptureStorageTopologyFromSnapshot(view, snap, required) ==
    LET usable == {i \in DOMAIN Candidates :
                      /\ required \in {"none", Candidates[i]}
                      /\ SamePlane(view, snap, Candidates[i])}
        source == Candidates[CHOOSE i \in usable : \A j \in usable : i <= j]
    IN  IF Pins(view, snap, "visible") /\ usable # {}
        THEN [source |-> source, visible |-> snap["visible"], plane |-> snap[source]]
        ELSE NoTopology

SameStorageTopology(expected, actual) == actual # NoTopology /\ expected = actual

-----------------------------------------------------------------------------
Proceed(step) == app' = [app EXCEPT !.pc = step]
Ends(outcome) == Proceed(outcome)
Unpublished == UNCHANGED <<pubVars, moved>>

(* preAppSpecialize; no plan, no companion or no shared memory unloads the *)
(* module.                                                                 *)
PreAppSpecialize ==
    /\ app.pc = "start"
    /\ \E process \in Processes, uid \in Uids :
          LET plan == Look(process, uid)
              found == [app EXCEPT !.process = process, !.uid = uid, !.plan = plan]
          IN  \/ plan # NoPlan /\ app' = [found EXCEPT !.pc = "received"]
              \/ plan # NoPlan /\ app' = [found EXCEPT !.pc = "broken"]
              \/ plan = NoPlan /\ app' = [found EXCEPT !.pc = "no_plan"]
    /\ UNCHANGED <<snapshot, leaseGen>> /\ Unpublished

(* CompanionHandler up to its look at the policy: it reads the request,    *)
(* or drops it without an answer.                                          *)
CompanionReceives ==
    /\ app.pc = "received"
    /\ \/ app.uid < MinAppUid /\ Ends("dropped")
       \/ /\ app.uid >= MinAppUid
          /\ IF SameProcessPlan(app.plan, Look(app.process, app.uid))
             THEN Proceed("ready") ELSE Ends("policy_changed")
       \/ Ends("broken")
    /\ UNCHANGED <<snapshot, leaseGen>> /\ Unpublished

(* Storage is remounted at any time, so each look at it finds any of the   *)
(* views.  WaitForProcessReady and the candidate topology.                 *)
CompanionCaptures ==
    /\ app.pc = "ready"
    /\ \E view \in Storages :
          LET topology == CaptureStorageTopologyFromSnapshot(view, view, "none")
          IN  \/ /\ topology # NoTopology
                 /\ app' = [app EXCEPT !.pc = "worker", !.expected = topology]
              \/ topology = NoTopology /\ Ends("topology_changed")
              \/ Ends("broken")
    /\ UNCHANGED <<snapshot, leaseGen>> /\ Unpublished

(* The worker enters the app's namespace and reads its mounts. *)
WorkerSnapshot ==
    /\ app.pc = "worker"
    /\ \/ snapshot' \in Storages /\ Proceed("pinned")
       \/ Ends("broken") /\ UNCHANGED snapshot
    /\ UNCHANGED leaseGen /\ Unpublished

(* Mutant: the policy is not looked at again. *)
ValidLeaseAnyPolicy(topology) == SameStorageTopology(app.expected, topology)

(* The look before the lease, at policy and storage. *)
ValidLease(topology) ==
    /\ SameProcessPlan(app.plan, Look(app.process, app.uid))
    /\ SameStorageTopology(app.expected, topology)

WorkerRevalidate ==
    /\ app.pc = "pinned"
    /\ leaseGen' = ReadGeneration(dir)
    /\ \E view \in Storages :
          LET topology == CaptureStorageTopologyFromSnapshot(view, snapshot, app.expected.source)
              stale == IF SameProcessPlan(app.plan, Look(app.process, app.uid))
                       THEN "topology_changed" ELSE "policy_changed"
          IN  app' = [app EXCEPT !.lease = topology,
                                 !.pc = IF ValidLease(topology) THEN "lease" ELSE stale]
    /\ UNCHANGED snapshot /\ Unpublished

-----------------------------------------------------------------------------
(* The daemon goes on meanwhile. *)

Launched == app.pc # "start"

DaemonStep ==
    /\ PublishAny \/ PublishStep \/ DaemonDies
    /\ moved' = (moved \/ (Launched /\ dir'["policy.bin"] # dir["policy.bin"]))
    /\ UNCHANGED <<app, snapshot, leaseGen>>

(* A power loss ends the launch with everything else. *)
Restart ==
    /\ PowerLoss
    /\ app' = NoLaunch
    /\ moved' = FALSE /\ leaseGen' = "none"
    /\ snapshot' = NoSnapshot

LaunchInit ==
    /\ Init
    /\ app = NoLaunch
    /\ snapshot = NoSnapshot
    /\ moved = FALSE /\ leaseGen = "none"

LaunchNext ==
    \/ PreAppSpecialize \/ CompanionReceives \/ CompanionCaptures
    \/ WorkerSnapshot \/ WorkerRevalidate
    \/ DaemonStep \/ Restart

LaunchSpec == LaunchInit /\ [][LaunchNext]_allVars
-----------------------------------------------------------------------------
(* What a document asks for a process, read off without index or order. *)
AppsFor(gen, process, uid) ==
    LET apps == Documents[gen].apps
    IN  {apps[i] : i \in {j \in DOMAIN apps :
            /\ apps[j].package = PackageOf(process)
            /\ apps[j].users = Star \/ uid \div PerUser \in Range(apps[j].users)
            /\ apps[j].processes = Star \/ process \in Range(apps[j].processes)}}
RulesFor(gen, process, uid) ==
    {ExpandRule(NormalizeBacking(r, PackageOf(process)), uid \div PerUser) :
        r \in UNION {Range(a.mounts) : a \in AppsFor(gen, process, uid)}}

(* More than the module takes for one app; that the rules are listed in    *)
(* one order or another makes no difference to what they add up to.        *)
Listings(rules) == {s \in [1 .. Cardinality(rules) -> rules] : Range(s) = rules}
BeyondLimits(rules) ==
    \/ Cardinality(rules) > MaxMountRules
    \/ \E s \in Listings(rules) : PlanBytes(s) > MaxPlanPathBytes

Wanted(gen) == RulesFor(gen, app.process, app.uid)

(* The lease is only asked for with the rules that the policy in place at  *)
(* the worker's look asks for, however often policies were published since *)
(* preAppSpecialize: hash index, scope and order of the file lose nothing. *)
LeasedPlanIsPolicy ==
    app.pc = "lease" => /\ leaseGen # "none"
                        /\ Range(app.plan.mounts) = Wanted(leaseGen)
                        /\ Wanted(leaseGen) # {}

(* The half of it that needs no induction over the file: the plan of the   *)
(* lease is what LoadProcessPlan read at the worker's look.                *)
LeasedPlanIsRead ==
    app.pc = "lease" =>
        /\ leaseGen # "none"
        /\ SameProcessPlan(app.plan, LoadProcessPlan(EncodePolicy(Documents[leaseGen]),
                                                     app.process, app.uid))

(* The other half: what LoadProcessPlan reads in the file of a document is *)
(* what the document asks for.                                             *)
FileIsFaithful ==
    \A gen \in Gens, process \in Processes, uid \in Uids :
        LET plan == LoadProcessPlan(EncodePolicy(Documents[gen]), process, uid)
            asked == RulesFor(gen, process, uid)
        IN  IF plan = NoPlan THEN asked = {} \/ BeyondLimits(asked)
            ELSE asked # {} /\ Range(plan.mounts) = asked

(* While policy.bin stays as it is, a process it has rules for is never    *)
(* told that there are none or that they have changed, unless the module's *)
(* own limits are too small for them.                                      *)
SteadyPolicyIsApplied ==
    (app.pc \in {"no_plan", "policy_changed"} /\ ~moved /\ ReadGeneration(dir) # "none") =>
        LET wanted == Wanted(ReadGeneration(dir)) IN wanted = {} \/ BeyondLimits(wanted)

(* The half of it that speaks of the looks alone: while policy.bin stays   *)
(* as it is, a launch has the plan a look finds now, and no look differs.  *)
SteadyPlan ==
    (Launched /\ ~moved) => /\ app.plan = Look(app.process, app.uid)
                            /\ app.pc # "policy_changed"
                            /\ app.pc = "no_plan" => app.plan = NoPlan

(* Without the exception: max_rules_per_app (rules_contract.h:14) is far   *)
(* beyond what the module takes.                                           *)
PublishedIsApplied ==
    (app.pc \in {"no_plan", "policy_changed"} /\ ~moved /\ ReadGeneration(dir) # "none") =>
        Wanted(ReadGeneration(dir)) = {}

(* The sources a lease is taken for lie on the device the app's storage is *)
(* on in its own namespace, which is the one the companion has found.      *)
LeasedSourceIsOnPlane ==
    app.pc = "lease" =>
        /\ snapshot[app.expected.source].device = snapshot["visible"].device
        /\ app.expected = app.lease
        /\ snapshot["visible"] # NoPlane

(* The inductive invariant behind the last two. *)
LaunchInv ==
    /\ app = [pc |-> app.pc, process |-> app.process, uid |-> app.uid,
              plan |-> app.plan, expected |-> app.expected, lease |-> app.lease]
    /\ app.pc \in {"received", "ready", "worker", "pinned", "lease"} => app.plan # NoPlan
    /\ LeasedPlanIsRead
    /\ LeasedSourceIsOnPlane

(* Both readers of policy.bin accept what the encoder wrote, and the       *)
(* daemon's reads the document back.                                       *)
PolicyReadsBack ==
    LET gen == ReadGeneration(dir)
        file == EncodePolicy(Documents[gen])
    IN  gen # "none" =>
            /\ DecodePolicy(file)
            /\ Range(DecodedDocument(file).apps) = Range(CanonicalizeDocument(Documents[gen]).apps)
=============================================================================
