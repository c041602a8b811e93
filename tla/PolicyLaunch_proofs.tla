-------------------------- MODULE PolicyLaunch_proofs --------------------------
(* Proofs about a launch among publications, for every set of documents,   *)
(* processes, storage views and faults of Publish.                         *)
EXTENDS PolicyLaunch, PolicyPublisher_proofs, Lists_proofs

(* Most leaves are first-order; those with arithmetic or records name the  *)
(* SMT solver.                                                             *)
USE Zenon

(* A launch changes nothing in the run directory, so the daemon beside it  *)
(* is the publisher of PolicyPublisher.                                    *)
THEOREM LaunchImplementsPublisher == LaunchSpec => Spec
  <1>1. LaunchInit => Init
    BY SMTT(30) DEF LaunchInit
  <1>2. [LaunchNext]_allVars => [Next]_pubVars
    BY DEF LaunchNext, allVars, Next, PreAppSpecialize, CompanionReceives,
       CompanionCaptures, WorkerSnapshot, WorkerRevalidate, DaemonStep, Restart,
       Unpublished
  <1> QED
    BY <1>1, <1>2, PTL DEF LaunchSpec, Spec

(* However launches and publications interleave, no look finds a torn      *)
(* policy.bin.                                                             *)
THEOREM LaunchNeverTorn == LaunchSpec => []PolicyNeverTorn
  BY LaunchImplementsPublisher, NeverTorn, PTL

(* A publication reported as done survives a power loss, also with         *)
(* launches beside it.                                                     *)
THEOREM LaunchPublishedDurability == LaunchSpec => []PublishedIsDurable
  BY LaunchImplementsPublisher, PublishedDurability, PTL

(* A topology that was captured has a source that could be pinned and lies *)
(* on the device of the visible root.                                      *)
LEMMA Captured ==
  ASSUME NEW view, NEW snap, NEW required,
         CaptureStorageTopologyFromSnapshot(view, snap, required) # NoTopology
  PROVE  LET source == CaptureStorageTopologyFromSnapshot(view, snap, required).source
         IN  /\ Pins(view, snap, "visible")
             /\ source \in Roots
             /\ SamePlane(view, snap, source)
  <1> DEFINE usable == {i \in DOMAIN Candidates :
                          /\ required \in {"none", Candidates[i]}
                          /\ SamePlane(view, snap, Candidates[i])}
             first == CHOOSE i \in usable : \A j \in usable : i <= j
  <1>1. Pins(view, snap, "visible") /\ usable # {}
    BY DEF CaptureStorageTopologyFromSnapshot
  <1>2. DOMAIN Candidates = {1, 2, 3} /\ \A i \in {1, 2, 3} : Candidates[i] \in Roots
    BY SMTT(30) DEF Candidates, Roots
  <1>3. first \in usable
    <2>1. \E i \in usable : \A j \in usable : i <= j
      <3>1. usable \subseteq {1, 2, 3}
        BY <1>2, SMTT(30)
      <3> HIDE DEF usable
      <3>2. CASE 1 \in usable
        BY <3>1, <3>2, SMTT(30)
      <3>3. CASE 1 \notin usable /\ 2 \in usable
        BY <3>1, <3>3, SMTT(30)
      <3>4. CASE 1 \notin usable /\ 2 \notin usable
        <4>1. usable = {3}
          BY <1>1, <3>1, <3>4
        <4> QED
          BY <4>1, SMTT(30)
      <3> QED
        BY <3>2, <3>3, <3>4
    <2> QED
      BY <2>1, SMTT(30)
  <1>4. CaptureStorageTopologyFromSnapshot(view, snap, required).source = Candidates[first]
    BY <1>1 DEF CaptureStorageTopologyFromSnapshot
  <1> QED
    BY <1>1, <1>2, <1>3, <1>4, SMTT(30)

(* No launch is under way at first. *)
LEMMA LaunchInitInv == LaunchInit => LaunchInv
  BY SMTT(30) DEF LaunchInit, NoLaunch, LaunchInv, LeasedPlanIsRead, LeasedSourceIsOnPlane

(* Before the lease nothing is said but that there is a plan. *)
LEMMA BeforeLease ==
  ASSUME LaunchInv, PreAppSpecialize \/ CompanionReceives \/ CompanionCaptures
                    \/ WorkerSnapshot
  PROVE  LaunchInv'
  <1> USE DEF LaunchInv, LeasedPlanIsRead, LeasedSourceIsOnPlane, Proceed, Ends
  <1>1. CASE PreAppSpecialize
    BY <1>1 DEF PreAppSpecialize
  <1>2. CASE CompanionReceives
    BY <1>2, SMTT(30) DEF CompanionReceives
  <1>3. CASE CompanionCaptures
    BY <1>3 DEF CompanionCaptures
  <1>4. CASE WorkerSnapshot
    BY <1>4 DEF WorkerSnapshot
  <1> QED
    BY <1>1, <1>2, <1>3, <1>4

(* The third look decides. *)
LEMMA RevalidateKeeps == ASSUME LaunchInv, WorkerRevalidate PROVE LaunchInv'
  <1>1. PICK view \in Storages :
          app' = [app EXCEPT
            !.lease = CaptureStorageTopologyFromSnapshot(view, snapshot, app.expected.source),
            !.pc = IF ValidLease(CaptureStorageTopologyFromSnapshot(
                                    view, snapshot, app.expected.source))
                   THEN "lease"
                   ELSE IF SameProcessPlan(app.plan, Look(app.process, app.uid))
                        THEN "topology_changed" ELSE "policy_changed"]
    BY DEF WorkerRevalidate
  <1> DEFINE found == CaptureStorageTopologyFromSnapshot(view, snapshot, app.expected.source)
  <1>2. app.pc = "pinned" /\ leaseGen' = ReadGeneration(dir) /\ snapshot' = snapshot
    BY SMTT(30) DEF WorkerRevalidate
  <1>3. /\ app' = [pc |-> app'.pc, process |-> app'.process, uid |-> app'.uid,
                   plan |-> app'.plan, expected |-> app'.expected, lease |-> app'.lease]
        /\ app'.process = app.process /\ app'.uid = app.uid /\ app'.plan = app.plan
        /\ app'.expected = app.expected /\ app'.lease = found
        /\ app'.pc = "lease" => ValidLease(found)
    BY <1>1 DEF LaunchInv
  <1>4. app.plan # NoPlan
    BY <1>2, SMTT(30) DEF LaunchInv
  <1> HIDE DEF found
  <1>5. LeasedPlanIsRead'
    BY <1>2, <1>3, <1>4 DEF LeasedPlanIsRead, ValidLease, SameProcessPlan, Look
  <1>6. LeasedSourceIsOnPlane'
    <2> SUFFICES ASSUME app'.pc = "lease" PROVE LeasedSourceIsOnPlane'
      BY SMTT(30) DEF LeasedSourceIsOnPlane
    <2>1. app.expected = found /\ found # NoTopology
      BY <1>3, SMTT(30) DEF ValidLease, SameStorageTopology
    <2>2. /\ Pins(view, snapshot, "visible") /\ SamePlane(view, snapshot, found.source)
          /\ found.source \in Roots
      BY <2>1, Captured DEF found
    <2>3. snapshot[found.source].device = snapshot["visible"].device
      BY <2>2, SMTT(30) DEF SamePlane, Pins
    <2>4. view["visible"].device # 0
      BY <2>2, StoragesAssumption DEF Pins, Roots
    <2>5. snapshot["visible"] # NoPlane
      BY <2>2, <2>4, SMTT(30) DEF Pins, NoPlane
    <2> QED
      BY <1>2, <1>3, <2>1, <2>3, <2>5, SMTT(30) DEF LeasedSourceIsOnPlane
  <1> QED
    BY <1>3, <1>4, <1>5, <1>6 DEF LaunchInv

(* LaunchInv holds throughout. *)
THEOREM LaunchInvariance == LaunchSpec => []LaunchInv
  <1>1. LaunchInv /\ [LaunchNext]_allVars => LaunchInv'
    <2> SUFFICES ASSUME LaunchInv, [LaunchNext]_allVars PROVE LaunchInv'
      OBVIOUS
    <2>1. CASE UNCHANGED launchVars
      BY <2>1, SMTT(30) DEF launchVars, LaunchInv, LeasedPlanIsRead, LeasedSourceIsOnPlane
    <2>2. CASE DaemonStep
      BY <2>2, SMTT(30) DEF DaemonStep, LaunchInv, LeasedPlanIsRead, LeasedSourceIsOnPlane
    <2>3. CASE Restart
      BY <2>3 DEF Restart, NoLaunch, LaunchInv, LeasedPlanIsRead, LeasedSourceIsOnPlane
    <2> QED
      BY <2>1, <2>2, <2>3, BeforeLease, RevalidateKeeps, SMTT(30) DEF LaunchNext, allVars
  <1> QED
    BY <1>1, LaunchInitInv, PTL DEF LaunchSpec

(* The sources a lease is taken for are on the device of the visible root  *)
(* of the app's own namespace.                                             *)
THEOREM LeasedSource == LaunchSpec => []LeasedSourceIsOnPlane
  <1>1. LaunchInv => LeasedSourceIsOnPlane
    BY SMTT(30) DEF LaunchInv
  <1> QED
    BY <1>1, LaunchInvariance, PTL

(* The plan of a lease is what the policy in place at the last look says,  *)
(* whatever was published between the looks.                               *)
THEOREM LeasedPlan == LaunchSpec => []LeasedPlanIsRead
  <1>1. LaunchInv => LeasedPlanIsRead
    BY DEF LaunchInv
  <1> QED
    BY <1>1, LaunchInvariance, PTL

-----------------------------------------------------------------------------
(* A steady policy *)

(* The inductive invariant behind SteadyPlan: who is launched, and that    *)
(* what a look reads is a generation that was published.                   *)
SteadyInv ==
    /\ LaunchInv
    /\ TypeOK
    /\ Launched => app.process \in Processes /\ app.uid \in Uids
    /\ leaseGen \in Gens \cup {"none"}
    /\ SteadyPlan

(* A look depends on policy.bin alone. *)
LEMMA LookReadsPolicy ==
  ASSUME dir'["policy.bin"] = dir["policy.bin"], NEW process, NEW uid
  PROVE  Look(process, uid)' = Look(process, uid)
  BY DEF Look, ReadGeneration

(* What can be read is a generation. *)
LEMMA ReadsGeneration == TypeOK => ReadGeneration(dir) \in Gens \cup {"none"}
  BY SMTT(30) DEF TypeOK, ReadGeneration, Directory, Names, Entry, File, NoFile

(* The fields a step of the launch after the first look leaves alone. *)
SameLaunch ==
    /\ app'.process = app.process /\ app'.uid = app.uid /\ app'.plan = app.plan
    /\ Launched /\ Launched' /\ app'.pc # "no_plan"
    /\ UNCHANGED <<pubVars, moved>>

(* Such a step keeps the plan, which the next look has to find again.      *)
LEMMA SameLaunchKeeps ==
  ASSUME SteadyInv, SameLaunch, leaseGen' \in Gens \cup {"none"}, LaunchInv',
         app'.pc = "policy_changed" => app.plan # Look(app.process, app.uid)
                                       \/ app.pc = "policy_changed"
  PROVE  SteadyInv'
  <1>1. TypeOK'
    BY DEF SteadyInv, SameLaunch, pubVars, TypeOK
  <1>2. Look(app.process, app.uid)' = Look(app.process, app.uid)
    <2>1. dir'["policy.bin"] = dir["policy.bin"]
      BY DEF SameLaunch, pubVars
    <2> QED
      BY <2>1 DEF SameLaunch, Look, ReadGeneration
  <1>3. SteadyPlan'
    BY <1>2 DEF SteadyInv, SteadyPlan, SameLaunch
  <1> QED
    BY <1>1, <1>3, SMTT(30) DEF SteadyInv, SameLaunch

(* The first look makes the plan. *)
LEMMA FirstLookKeeps ==
  ASSUME SteadyInv, LaunchInv', PreAppSpecialize PROVE SteadyInv'
  <1>1. PICK process \in Processes, uid \in Uids :
          LET plan == Look(process, uid)
              found == [app EXCEPT !.process = process, !.uid = uid, !.plan = plan]
          IN  \/ plan # NoPlan /\ app' = [found EXCEPT !.pc = "received"]
              \/ plan # NoPlan /\ app' = [found EXCEPT !.pc = "broken"]
              \/ plan = NoPlan /\ app' = [found EXCEPT !.pc = "no_plan"]
    BY DEF PreAppSpecialize
  <1>2. UNCHANGED <<pubVars, moved, leaseGen>>
    BY DEF PreAppSpecialize, Unpublished
  <1> DEFINE plan == Look(process, uid)
  <1>3. /\ app'.process = process /\ app'.uid = uid /\ app'.plan = plan
        /\ app'.pc \in {"received", "broken", "no_plan"}
        /\ app'.pc = "no_plan" => plan = NoPlan
    <2> HIDE DEF plan
    <2> QED
      BY <1>1 DEF SteadyInv, LaunchInv, plan
  <1>4. Look(process, uid)' = Look(process, uid)
    BY <1>2, LookReadsPolicy DEF pubVars
  <1>5. TypeOK'
    BY <1>2, SMTT(30) DEF SteadyInv, pubVars, TypeOK
  <1>6. SteadyPlan'
    BY <1>3, <1>4, SMTT(30) DEF SteadyPlan, Look, ReadGeneration
  <1> QED
    BY <1>2, <1>3, <1>5, <1>6, SMTT(30) DEF SteadyInv, Launched

(* The later looks find the same plan, or say that it has changed. *)
LEMMA LaterStepsKeep ==
  ASSUME SteadyInv, LaunchInv', CompanionReceives \/ CompanionCaptures \/ WorkerSnapshot
                                \/ WorkerRevalidate
  PROVE  SteadyInv'
  <1>1. CASE CompanionReceives
    <2>1. /\ app.pc = "received" /\ UNCHANGED <<pubVars, moved, leaseGen>>
          /\ \E step \in {"dropped", "ready", "policy_changed", "broken"} :
                app' = [app EXCEPT !.pc = step]
                /\ (step = "policy_changed" => app.plan # Look(app.process, app.uid))
      BY <1>1 DEF CompanionReceives, Proceed, Ends, Unpublished, SameProcessPlan
    <2>2. /\ app'.process = app.process /\ app'.uid = app.uid /\ app'.plan = app.plan
          /\ app'.pc \in {"dropped", "ready", "policy_changed", "broken"}
          /\ app'.pc = "policy_changed" => app.plan # Look(app.process, app.uid)
      BY <2>1 DEF SteadyInv, LaunchInv
    <2> QED
      BY <2>1, <2>2, SameLaunchKeeps, SMTT(30) DEF SameLaunch, Launched, SteadyInv
  <1>2. CASE CompanionCaptures
    <2>1. /\ app.pc = "ready" /\ UNCHANGED <<pubVars, moved, leaseGen>>
          /\ \/ \E topology : app' = [app EXCEPT !.pc = "worker", !.expected = topology]
             \/ \E step \in {"topology_changed", "broken"} : app' = [app EXCEPT !.pc = step]
      BY <1>2 DEF CompanionCaptures, Proceed, Ends, Unpublished
    <2>2. /\ app'.process = app.process /\ app'.uid = app.uid /\ app'.plan = app.plan
          /\ app'.pc \in {"worker", "topology_changed", "broken"}
      BY <2>1 DEF SteadyInv, LaunchInv
    <2> QED
      BY <2>1, <2>2, SameLaunchKeeps DEF SameLaunch, Launched, SteadyInv
  <1>3. CASE WorkerSnapshot
    <2>1. /\ app.pc = "worker" /\ UNCHANGED <<pubVars, moved, leaseGen>>
          /\ \E step \in {"pinned", "broken"} : app' = [app EXCEPT !.pc = step]
      BY <1>3 DEF WorkerSnapshot, Proceed, Ends, Unpublished
    <2>2. /\ app'.process = app.process /\ app'.uid = app.uid /\ app'.plan = app.plan
          /\ app'.pc \in {"pinned", "broken"}
      BY <2>1, SMTT(30) DEF SteadyInv, LaunchInv
    <2> QED
      BY <2>1, <2>2, SameLaunchKeeps, SMTT(30) DEF SameLaunch, Launched, SteadyInv
  <1>4. CASE WorkerRevalidate
    <2>1. /\ app.pc = "pinned" /\ UNCHANGED <<pubVars, moved>>
          /\ leaseGen' = ReadGeneration(dir)
      BY <1>4 DEF WorkerRevalidate, Unpublished
    <2>2. \E topology : \E step \in {"lease", "topology_changed", "policy_changed"} :
             /\ app' = [app EXCEPT !.lease = topology, !.pc = step]
             /\ step = "policy_changed" => app.plan # Look(app.process, app.uid)
      BY <1>4 DEF WorkerRevalidate, SameProcessPlan
    <2>3. /\ app'.process = app.process /\ app'.uid = app.uid /\ app'.plan = app.plan
          /\ app'.pc \in {"lease", "topology_changed", "policy_changed"}
          /\ app'.pc = "policy_changed" => app.plan # Look(app.process, app.uid)
      BY <2>2, SMTT(30) DEF SteadyInv, LaunchInv
    <2>4. leaseGen' \in Gens \cup {"none"}
      BY <2>1, ReadsGeneration, SMTT(30) DEF SteadyInv
    <2> QED
      BY <2>1, <2>3, <2>4, SameLaunchKeeps DEF SameLaunch, Launched
  <1> QED
    BY <1>1, <1>2, <1>3, <1>4

(* A publication that changes policy.bin is noted, and the others change   *)
(* no look.                                                                *)
LEMMA PublicationKeeps ==
  ASSUME SteadyInv, LaunchInv', TypeOK', DaemonStep PROVE SteadyInv'
  <1>1. /\ UNCHANGED <<app, leaseGen>>
        /\ (Launched /\ ~moved') => ~moved /\ dir'["policy.bin"] = dir["policy.bin"]
    BY DEF DaemonStep
  <1>2. SteadyPlan'
    <2> SUFFICES ASSUME Launched', ~moved' PROVE SteadyPlan'
      BY DEF SteadyPlan
    <2>1. Launched /\ ~moved /\ dir'["policy.bin"] = dir["policy.bin"]
      BY <1>1 DEF Launched
    <2>2. Look(app.process, app.uid)' = Look(app.process, app.uid)
      BY <1>1, <2>1, SMTT(30) DEF Look, ReadGeneration
    <2> QED
      BY <1>1, <2>1, <2>2, SMTT(30) DEF SteadyInv, SteadyPlan
  <1> QED
    BY <1>1, <1>2 DEF SteadyInv, Launched

(* SteadyInv holds throughout. *)
THEOREM SteadyInvariance == LaunchSpec => []SteadyInv
  <1>1. LaunchInit /\ LaunchInv /\ TypeOK => SteadyInv
    BY SMTT(30) DEF LaunchInit, NoLaunch, Launched, SteadyInv, SteadyPlan
  <1>2. /\ SteadyInv /\ [LaunchNext]_allVars /\ LaunchInv' /\ TypeOK'
        => SteadyInv'
    <2> SUFFICES ASSUME SteadyInv, [LaunchNext]_allVars, LaunchInv', TypeOK'
                 PROVE  SteadyInv'
      OBVIOUS
    <2>1. CASE Restart
      BY <2>1 DEF Restart, NoLaunch, Launched, SteadyInv, SteadyPlan
    <2>2. CASE UNCHANGED allVars
      <3>1. UNCHANGED <<app, moved, leaseGen, dir>>
        BY <2>2, SMTT(30) DEF allVars, launchVars, pubVars
      <3> QED
        BY <3>1, SMTT(30) DEF SteadyInv, SteadyPlan, Launched, Look, ReadGeneration
    <2> QED
      BY <2>1, <2>2, FirstLookKeeps, LaterStepsKeep, PublicationKeeps, SMTT(30) DEF LaunchNext
  <1>3. LaunchSpec => []TypeOK
    <2>1. PublishInv => TypeOK
      BY SMTT(30) DEF PublishInv, CallInv
    <2> QED
      BY <2>1, LaunchImplementsPublisher, PublisherInvariance, PTL
  <1> QED
    BY <1>1, <1>2, <1>3, LaunchInvariance, PTL DEF LaunchSpec

(* While policy.bin stays as it is, every look of a launch finds the plan  *)
(* of the first: whatever the daemon is doing beside it, no launch is told *)
(* that its policy has changed.                                            *)
THEOREM SteadyLaunch == LaunchSpec => []SteadyPlan
  <1>1. SteadyInv => SteadyPlan
    BY DEF SteadyInv
  <1> QED
    BY <1>1, SteadyInvariance, PTL

-----------------------------------------------------------------------------
(* The orders of the file *)

NumberOrder == {x \in Nat \X Nat : x[1] < x[2]}
MountOrder == {x \in PolicyRule \X PolicyRule : MountLess(x[1], x[2])}
AppOrder == {x \in PolicyApp \X PolicyApp : IndexLess(x[1], x[2])}

(* Users and names of processes are ordered as numbers. *)
LEMMA NumberOrderFacts == Sortable(NumberOrder, Nat) /\ Total(NumberOrder, Nat)
  <1>1. \A a, b \in Nat : <<a, b>> \in NumberOrder <=> a < b
    BY DEF NumberOrder
  <1>2. /\ \A a, b \in Nat : ~(a < b) \/ ~(b < a)
        /\ \A a, b, c \in Nat : ~(b < a) /\ ~(c < b) => ~(c < a)
        /\ \A a, b \in Nat : a = b \/ a < b \/ b < a
    BY SMTT(30)
  <1> QED
    BY <1>1, <1>2 DEF Sortable, Total

(* ValidatePolicy sorts a list of users or processes. *)
LEMMA NumbersSort ==
  ASSUME NEW s \in Seq(Nat)
  PROVE  Sorting(Sort(s, <), s, NumberOrder)
  <1> DEFINE Fits(p) == \A i, j \in 1..Len(s) : i < j => ~(s[p[j]] < s[p[i]])
             order == CHOOSE p \in Orders(Len(s)) : Fits(p)
             t == [i \in 1..Len(s) |-> s[order[i]]]
  <1>1. \A a, b \in Nat : <<a, b>> \in NumberOrder <=> a < b
    BY DEF NumberOrder
  <1>2. ASSUME NEW p \in Orders(Len(s)) PROVE \A i \in 1..Len(s) : s[p[i]] \in Nat
    <2>1. p \in [1..Len(s) -> 1..Len(s)]
      BY <1>2 DEF Orders
    <2> QED
      BY <2>1, SMTT(30)
  <1>3. ASSUME NEW p \in Orders(Len(s)) PROVE Fits(p) <=> InOrder(p, Len(s), s, NumberOrder)
    BY <1>1, <1>2, <1>3 DEF InOrder
  <1>4. PICK p : InOrder(p, Len(s), s, NumberOrder)
    BY NumberOrderFacts, SortExists
  <1>5. p \in Orders(Len(s)) /\ Fits(p)
    BY <1>3, <1>4 DEF InOrder
  <1>6. order \in Orders(Len(s)) /\ Fits(order)
    BY <1>5
  <1>7. Sort(s, <) = t
    BY DEF Sort
  <1> HIDE DEF order
  <1>8. InOrder(order, Len(s), s, NumberOrder)
    BY <1>3, <1>6
  <1> HIDE DEF Fits
  <1> QED
    BY <1>7, <1>8 DEF Sorting

(* The key of a rule tells the rule. *)
LEMMA MountKeyFacts ==
  ASSUME NEW r \in PolicyRule
  PROVE  LET key == MountKey(r)
             v == Len(r.visible)
         IN  /\ key \in Seq(Int) /\ Len(key) = 2 + v + Len(r.backing)
             /\ key[1] = (IF r.action = Redirect THEN 2 ELSE 3) /\ key[2] = v
             /\ \A i \in 1..v : key[2 + i] = r.visible[i]
             /\ \A i \in 1..Len(r.backing) : key[2 + v + i] = r.backing[i]
  <1> DEFINE stage == IF r.action = Redirect THEN 2 ELSE 3
             v == r.visible
             b == r.backing
             head == <<stage, Len(v)>>
  <1>1. v \in Seq(Nat) /\ b \in Seq(Nat)
    BY SMTT(30) DEF PolicyRule
  <1>2. v \in Seq(Int) /\ b \in Seq(Int) /\ stage \in Int
    BY <1>1, SMTT(30)
  <1>3. MountKey(r) = head \o v \o b
    BY DEF MountKey
  <1> HIDE DEF stage, v, b
  <1>4. head \in Seq(Int) /\ Len(head) = 2 /\ head[1] = stage /\ head[2] = Len(v)
    BY <1>2, SMTT(30)
  <1> HIDE DEF head
  <1>5. /\ head \o v \in Seq(Int) /\ Len(head \o v) = 2 + Len(v)
        /\ (head \o v)[1] = stage /\ (head \o v)[2] = Len(v)
        /\ \A i \in 1..Len(v) : (head \o v)[2 + i] = v[i]
    <2>1. /\ head \o v \in Seq(Int) /\ Len(head) \in Nat /\ Len(v) \in Nat
          /\ Len(head \o v) = Len(head) + Len(v)
          /\ \A i \in 1..Len(head) : (head \o v)[i] = head[i]
          /\ \A i \in 1..Len(v) : (head \o v)[Len(head) + i] = v[i]
      <3>1. head \in Seq(Int) /\ v \in Seq(Int)
        BY <1>2, <1>4
      <3> QED
        BY <3>1, JoinAt, SMTT(30)
    <2>2. 1 \in 1..2 /\ 2 \in 1..2
      BY SMTT(30)
    <2> QED
      BY <1>4, <2>1, <2>2
  <1> DEFINE front == head \o v
  <1> HIDE DEF front
  <1>6. /\ front \in Seq(Int) /\ Len(front) = 2 + Len(v)
        /\ front[1] = stage /\ front[2] = Len(v)
        /\ \A i \in 1..Len(v) : front[2 + i] = v[i]
    BY <1>5 DEF front
  <1> DEFINE key == front \o b
  <1>7. /\ key \in Seq(Int) /\ Len(key) = 2 + Len(v) + Len(b)
        /\ key[1] = stage /\ key[2] = Len(v)
        /\ \A i \in 1..Len(v) : key[2 + i] = v[i]
        /\ \A i \in 1..Len(b) : key[2 + Len(v) + i] = b[i]
    <2>1. /\ key \in Seq(Int) /\ Len(front) \in Nat /\ Len(b) \in Nat
          /\ Len(key) = Len(front) + Len(b)
          /\ \A i \in 1..Len(front) : key[i] = front[i]
          /\ \A i \in 1..Len(b) : key[Len(front) + i] = b[i]
      <3>1. front \in Seq(Int) /\ b \in Seq(Int)
        BY <1>2, <1>6
      <3> QED
        BY <3>1, JoinAt, SMTT(30)
    <2> HIDE DEF key
    <2>2. Len(v) \in Nat
      BY <1>2, SMTT(30)
    <2>3. /\ 1 \in 1..Len(front) /\ 2 \in 1..Len(front)
          /\ \A i \in 1..Len(v) : 2 + i \in 1..Len(front)
      BY <1>6, <2>2, SMTT(30)
    <2> QED
      BY <1>6, <2>1, <2>3
  <1>8. MountKey(r) = key
    BY <1>3 DEF front
  <1> HIDE DEF key
  <1> QED
    BY <1>7, <1>8 DEF stage, v, b

(* Two rules with one key are the same rule. *)
LEMMA MountKeyInjective ==
  ASSUME NEW r \in PolicyRule, NEW s \in PolicyRule, MountKey(r) = MountKey(s)
  PROVE  r = s
  <1>1. /\ r.visible \in Seq(Nat) /\ r.backing \in Seq(Nat) /\ r.action \in {Deny, Redirect}
        /\ s.visible \in Seq(Nat) /\ s.backing \in Seq(Nat) /\ s.action \in {Deny, Redirect}
        /\ r = [action |-> r.action, visible |-> r.visible, backing |-> r.backing]
        /\ s = [action |-> s.action, visible |-> s.visible, backing |-> s.backing]
    BY SMTT(30) DEF PolicyRule
  <1> DEFINE key == MountKey(r)
  <1>2. /\ Len(key) = 2 + Len(r.visible) + Len(r.backing)
        /\ key[1] = (IF r.action = Redirect THEN 2 ELSE 3) /\ key[2] = Len(r.visible)
        /\ \A i \in 1..Len(r.visible) : key[2 + i] = r.visible[i]
        /\ \A i \in 1..Len(r.backing) : key[2 + Len(r.visible) + i] = r.backing[i]
    BY MountKeyFacts
  <1>3. /\ Len(key) = 2 + Len(s.visible) + Len(s.backing)
        /\ key[1] = (IF s.action = Redirect THEN 2 ELSE 3) /\ key[2] = Len(s.visible)
        /\ \A i \in 1..Len(s.visible) : key[2 + i] = s.visible[i]
        /\ \A i \in 1..Len(s.backing) : key[2 + Len(s.visible) + i] = s.backing[i]
    BY MountKeyFacts
  <1> HIDE DEF key
  <1>4. r.action = s.action
    BY <1>1, <1>2, <1>3, SMTT(30) DEF Deny, Redirect
  <1>5. Len(r.visible) = Len(s.visible) /\ Len(r.backing) = Len(s.backing)
    BY <1>1, <1>2, <1>3, SMTT(30)
  <1>6. \A i \in 1..Len(r.visible) : r.visible[i] = s.visible[i]
    BY <1>2, <1>3, <1>5
  <1>7. \A i \in 1..Len(r.backing) : r.backing[i] = s.backing[i]
    BY <1>2, <1>3, <1>5
  <1>8. r.visible = s.visible /\ r.backing = s.backing
    BY <1>1, <1>5, <1>6, <1>7, SeqEqual
  <1> QED
    BY <1>1, <1>4, <1>8

(* The rules of an app have one order. *)
LEMMA MountOrderFacts == Sortable(MountOrder, PolicyRule) /\ Total(MountOrder, PolicyRule)
  <1>1. \A a, b \in PolicyRule :
            <<a, b>> \in MountOrder <=> Precedes(MountKey(a), MountKey(b))
    BY DEF MountOrder, MountLess
  <1>2. \A a \in PolicyRule : MountKey(a) \in Seq(Int)
    BY MountKeyFacts
  <1>3. Sortable(MountOrder, PolicyRule)
    BY <1>1, <1>2, PrecedesOrder DEF Sortable
  <1>4. Total(MountOrder, PolicyRule)
    BY <1>1, <1>2, PrecedesOrder, MountKeyInjective DEF Total
  <1> QED
    BY <1>3, <1>4

(* ValidatePolicy sorts the rules of an app. *)
LEMMA MountsSort ==
  ASSUME NEW s \in Seq(PolicyRule)
  PROVE  Sorting(Sort(s, MountLess), s, MountOrder)
  <1> DEFINE Fits(p) == \A i, j \in 1..Len(s) : i < j => ~MountLess(s[p[j]], s[p[i]])
             order == CHOOSE p \in Orders(Len(s)) : Fits(p)
             t == [i \in 1..Len(s) |-> s[order[i]]]
  <1>1. \A a, b \in PolicyRule : <<a, b>> \in MountOrder <=> MountLess(a, b)
    BY DEF MountOrder
  <1>2. ASSUME NEW p \in Orders(Len(s)) PROVE \A i \in 1..Len(s) : s[p[i]] \in PolicyRule
    <2>1. p \in [1..Len(s) -> 1..Len(s)]
      BY <1>2 DEF Orders
    <2> QED
      BY <2>1, SMTT(30)
  <1>3. ASSUME NEW p \in Orders(Len(s)) PROVE Fits(p) <=> InOrder(p, Len(s), s, MountOrder)
    BY <1>1, <1>2, <1>3 DEF InOrder
  <1>4. PICK p : InOrder(p, Len(s), s, MountOrder)
    BY MountOrderFacts, SortExists
  <1>5. p \in Orders(Len(s)) /\ Fits(p)
    BY <1>3, <1>4 DEF InOrder
  <1>6. order \in Orders(Len(s)) /\ Fits(order)
    BY <1>5
  <1>7. Sort(s, MountLess) = t
    BY DEF Sort
  <1> HIDE DEF order
  <1>8. InOrder(order, Len(s), s, MountOrder)
    BY <1>3, <1>6
  <1> HIDE DEF Fits
  <1> QED
    BY <1>7, <1>8 DEF Sorting

(* The key of an app has its hash and its name. *)
LEMMA IndexKeyFacts ==
  ASSUME NEW a \in PolicyApp
  PROVE  /\ IndexKey(a) \in Seq(Int) /\ Len(IndexKey(a)) = 2
         /\ a.package \in Nat /\ PackageNameHash[a.package] \in Nat
         /\ IndexKey(a)[1] = PackageNameHash[a.package] /\ IndexKey(a)[2] = a.package
  <1>1. a.package \in DOMAIN PackageNameHash
    BY DEF PolicyApp
  <1>2. a.package \in Nat /\ PackageNameHash[a.package] \in Nat
    BY <1>1, FileAssumption
  <1> QED
    BY <1>2, SMTT(30) DEF IndexKey

(* EncodePolicy sorts the apps by hash and name. *)
LEMMA AppsSort ==
  ASSUME NEW s \in Seq(PolicyApp)
  PROVE  Sorting(IndexOrder(s), s, AppOrder)
  <1> DEFINE Fits(p) == \A i, j \in 1..Len(s) : i < j => ~IndexLess(s[p[j]], s[p[i]])
             order == CHOOSE p \in Orders(Len(s)) : Fits(p)
             t == [i \in 1..Len(s) |-> s[order[i]]]
  <1>1. \A a, b \in PolicyApp : <<a, b>> \in AppOrder <=> IndexLess(a, b)
    BY DEF AppOrder
  <1>2. ASSUME NEW p \in Orders(Len(s)) PROVE \A i \in 1..Len(s) : s[p[i]] \in PolicyApp
    <2>1. p \in [1..Len(s) -> 1..Len(s)]
      BY <1>2 DEF Orders
    <2> QED
      BY <2>1, SMTT(30)
  <1>3. ASSUME NEW p \in Orders(Len(s)) PROVE Fits(p) <=> InOrder(p, Len(s), s, AppOrder)
    BY <1>1, <1>2, <1>3 DEF InOrder
  <1>4. Sortable(AppOrder, PolicyApp)
    BY <1>1, IndexKeyFacts, PrecedesOrder DEF Sortable, IndexLess
  <1>5. PICK p : InOrder(p, Len(s), s, AppOrder)
    BY <1>4, SortExists
  <1>6. p \in Orders(Len(s)) /\ Fits(p)
    BY <1>3, <1>5 DEF InOrder
  <1>7. order \in Orders(Len(s)) /\ Fits(order)
    BY <1>6
  <1>8. IndexOrder(s) = t
    BY DEF IndexOrder, Sort
  <1> HIDE DEF order
  <1>9. InOrder(order, Len(s), s, AppOrder)
    BY <1>3, <1>7
  <1> HIDE DEF Fits
  <1> QED
    BY <1>8, <1>9 DEF Sorting

-----------------------------------------------------------------------------
(* The canonical form of an app *)

CanonicalList(list) == IF list = Star THEN list ELSE Sort(list, <)

(* The order of a list is all that ValidatePolicy changes. *)
LEMMA CanonicalLists ==
  ASSUME NEW list \in NameList
  PROVE  /\ CanonicalList(list) \in NameList
         /\ CanonicalList(list) = Star <=> list = Star
         /\ Range(CanonicalList(list)) = Range(list)
         /\ CanonicalList(CanonicalList(list)) = CanonicalList(list)
  <1>1. CASE list = Star
    BY <1>1 DEF CanonicalList
  <1>2. CASE list # Star
    <2> DEFINE t == Sort(list, <)
               u == Sort(t, <)
    <2>1. list \in Seq(Nat) /\ list # << >>
      BY <1>2 DEF NameList
    <2>2. Sorting(t, list, NumberOrder)
      BY <2>1, NumbersSort
    <2>3. CanonicalList(list) = t
      BY <1>2 DEF CanonicalList
    <2> HIDE DEF t
    <2>4. /\ t \in Seq(Nat) /\ Len(t) = Len(list) /\ Range(t) = Range(list)
          /\ Ordered(t, NumberOrder)
      BY <2>1, <2>2, SortingFacts
    <2>5. t # << >> /\ t # Star
      BY <2>1, <2>4, SMTT(30) DEF Star
    <2>6. Sorting(u, t, NumberOrder)
      BY <2>4, NumbersSort
    <2>7. CanonicalList(t) = u
      BY <2>5 DEF CanonicalList
    <2> HIDE DEF u
    <2>8. u = t
      BY <2>4, <2>6, NumberOrderFacts, SortingStays
    <2>9. t \in NameList
      BY <2>4, <2>5 DEF NameList
    <2> QED
      BY <1>2, <2>3, <2>4, <2>5, <2>7, <2>8, <2>9
  <1> QED
    BY <1>1, <1>2

(* An app and its canonical form have one scope and the same rules. *)
Agrees(c, a) ==
    /\ c.package = a.package /\ c.provider = a.provider
    /\ c.users = Star <=> a.users = Star
    /\ Range(c.users) = Range(a.users)
    /\ c.processes = Star <=> a.processes = Star
    /\ Range(c.processes) = Range(a.processes)
    /\ Range(c.mounts) = {NormalizeBacking(r, a.package) : r \in Range(a.mounts)}
    /\ \A r \in Range(c.mounts) : Package \notin Range(r.backing)

(* What NormalizeBacking changes of a rule. *)
LEMMA NormalizedRule ==
  ASSUME NEW r \in PolicyRule, NEW package \in Nat
  PROVE  LET t == NormalizeBacking(r, package)
         IN  /\ t \in PolicyRule /\ t.action = r.action /\ t.visible = r.visible
             /\ Package \notin Range(t.backing)
             /\ Brace \notin Range(r.backing) => Brace \notin Range(t.backing)
             /\ Package \notin Range(r.backing) => t = r
  <1> DEFINE w == r.backing
             b == ExpandPathPlaceholders(w, package)
             t == NormalizeBacking(r, package)
  <1>1. /\ r.action \in {Deny, Redirect} /\ r.visible \in Seq(Nat) /\ w \in Seq(Nat)
        /\ r.visible # << >> /\ (r.action = Deny <=> w = << >>)
        /\ r = [action |-> r.action, visible |-> r.visible, backing |-> w]
    BY SMTT(30) DEF PolicyRule
  <1>2. t = [r EXCEPT !.backing = b]
    BY DEF NormalizeBacking
  <1>3. /\ DOMAIN b = DOMAIN w
        /\ \A i \in DOMAIN w : b[i] = IF w[i] = Package THEN package + 3 ELSE w[i]
    BY DEF ExpandPathPlaceholders
  <1>4. \A i \in DOMAIN w : w[i] \in Nat
    BY <1>1, SMTT(30)
  <1>5. package + 3 \in Nat /\ package + 3 # Package /\ package + 3 # Brace
    BY SMTT(30) DEF Package, Brace
  <1>6. b \in [DOMAIN w -> Nat]
    <2>1. \A i \in DOMAIN w : b[i] \in Nat
      BY <1>3, <1>4, <1>5
    <2>2. b = [i \in DOMAIN w |-> b[i]]
      BY <1>3 DEF ExpandPathPlaceholders
    <2> QED
      BY <2>1, <2>2
  <1>7. Package \notin Range(b)
    BY <1>3, <1>5 DEF Range
  <1>8. Brace \notin Range(w) => Brace \notin Range(b)
    BY <1>3, <1>5 DEF Range
  <1>9. Package \notin Range(w) => b = w
    <2> SUFFICES ASSUME Package \notin Range(w) PROVE b = w
      OBVIOUS
    <2>1. \A i \in DOMAIN w : b[i] = w[i]
      BY <1>3 DEF Range
    <2> HIDE DEF b
    <2> QED
      BY <1>1, <1>3, <1>6, <2>1, SMTT(30)
  <1> HIDE DEF b
  <1>10. b \in Seq(Nat) /\ (b = << >> <=> w = << >>)
    <2> HIDE DEF w
    <2>1. Len(w) \in Nat /\ DOMAIN w = 1..Len(w)
      BY <1>1, SMTT(30)
    <2>2. b \in [1..Len(w) -> Nat]
      BY <1>6, <2>1
    <2>3. b \in Seq(Nat) /\ Len(b) = Len(w)
      BY <2>1, <2>2, SMTT(30)
    <2> QED
      BY <1>1, <2>3, SMTT(30)
  <1>11. t = [action |-> r.action, visible |-> r.visible, backing |-> b]
    BY <1>1, <1>2, SMTT(30)
  <1> HIDE DEF t, w
  <1>12. /\ t.action = r.action /\ t.visible = r.visible /\ t.backing = b
         /\ t \in [action : {Deny, Redirect}, visible : Seq(Nat), backing : Seq(Nat)]
    BY <1>1, <1>10, <1>11, SMTT(30)
  <1>13. t \in PolicyRule
    BY <1>1, <1>10, <1>12 DEF PolicyRule
  <1> QED
    BY <1>1, <1>7, <1>8, <1>9, <1>11, <1>12, <1>13 DEF t, w

(* The rules of an app with the package in their targets. *)
Backings(a) == [i \in DOMAIN a.mounts |-> NormalizeBacking(a.mounts[i], a.package)]

LEMMA BackingsFacts ==
  ASSUME NEW a \in PolicyApp
  PROVE  /\ Backings(a) \in Seq(PolicyRule) /\ Len(Backings(a)) = Len(a.mounts)
         /\ Range(Backings(a)) = {NormalizeBacking(r, a.package) : r \in Range(a.mounts)}
         /\ \A i \in 1..Len(a.mounts) : Backings(a)[i] = NormalizeBacking(a.mounts[i], a.package)
         /\ \A r \in Range(Backings(a)) : Package \notin Range(r.backing)
         /\ (\A r \in Range(a.mounts) : Package \notin Range(r.backing))
               => Backings(a) = a.mounts
  <1> DEFINE m == a.mounts
             e == Backings(a)
             n == Len(m)
             k == a.package
  <1>1. m \in Seq(PolicyRule) /\ a.package \in DOMAIN PackageNameHash
    BY SMTT(30) DEF PolicyApp
  <1>2. k \in Nat
    BY <1>1, FileAssumption
  <1>3. n \in Nat /\ DOMAIN m = 1..n /\ Range(m) = {m[i] : i \in 1..n}
    BY <1>1, ListRange
  <1>4. \A i \in 1..n : m[i] \in PolicyRule
    BY <1>1, <1>3, SMTT(30)
  <1>5. e = [i \in 1..n |-> NormalizeBacking(m[i], k)]
    BY <1>3 DEF Backings
  <1> HIDE DEF k, e, m, n
  <1>6. DOMAIN e = 1..n /\ \A i \in 1..n : e[i] = NormalizeBacking(m[i], k)
    BY <1>5
  <1>7. ASSUME NEW i \in 1..n
         PROVE  /\ e[i] \in PolicyRule /\ Package \notin Range(e[i].backing)
                /\ Package \notin Range(m[i].backing) => e[i] = m[i]
    <2> DEFINE r == m[i]
    <2>1. r \in PolicyRule /\ e[i] = NormalizeBacking(r, k)
      BY <1>4, <1>6
    <2> HIDE DEF r
    <2>2. LET t == NormalizeBacking(r, k)
          IN  /\ t \in PolicyRule /\ Package \notin Range(t.backing)
              /\ Package \notin Range(r.backing) => t = r
      BY <1>2, <2>1, NormalizedRule
    <2> QED
      BY <2>1, <2>2 DEF r
  <1>8. e \in [1..n -> PolicyRule]
    <2>1. e = [i \in 1..n |-> e[i]]
      BY <1>5, <1>6
    <2> QED
      BY <1>7, <2>1
  <1>9. e \in Seq(PolicyRule) /\ Len(e) = n
    BY <1>3, <1>8, SMTT(30)
  <1>10. Range(e) = {e[i] : i \in 1..n}
    BY <1>6 DEF Range
  <1>11. \A x : x \in Range(e) <=> x \in {NormalizeBacking(r, k) : r \in Range(m)}
    BY <1>3, <1>6, <1>10
  <1>12. Range(e) = {NormalizeBacking(r, k) : r \in Range(m)}
    BY <1>11
  <1>13. \A x \in Range(e) : Package \notin Range(x.backing)
    BY <1>10, <1>7
  <1>14. ASSUME \A r \in Range(m) : Package \notin Range(r.backing)
         PROVE  e = m
    <2>1. \A i \in 1..n : e[i] = m[i]
      BY <1>3, <1>14, <1>7
    <2> QED
      BY <1>1, <1>3, <1>8, <2>1, SMTT(30)
  <1> QED
    BY <1>6, <1>9, <1>12, <1>13, <1>14 DEF k, e, m, n

(* What ValidatePolicy makes of each field. *)
LEMMA CanonicalFields ==
  ASSUME NEW a \in PolicyApp
  PROVE  LET c == ValidatePolicy(a)
         IN  /\ c.package = a.package /\ c.provider = a.provider
             /\ c.users = CanonicalList(a.users) /\ c.processes = CanonicalList(a.processes)
             /\ c.mounts = Sort(Backings(a), MountLess)
             /\ c = [package |-> a.package, users |-> CanonicalList(a.users),
                     processes |-> CanonicalList(a.processes), provider |-> a.provider,
                     mounts |-> Sort(Backings(a), MountLess)]
  <1> DEFINE mounts == Sort(Backings(a), MountLess)
             users == CanonicalList(a.users)
             processes == CanonicalList(a.processes)
  <1>1. ValidatePolicy(a) = [a EXCEPT !.users = users, !.processes = processes,
                                      !.mounts = mounts]
    BY DEF ValidatePolicy, CanonicalList, Backings
  <1> HIDE DEF mounts, users, processes
  <1>2. a = [package |-> a.package, users |-> a.users, processes |-> a.processes,
             provider |-> a.provider, mounts |-> a.mounts]
    BY SMTT(30) DEF PolicyApp
  <1>3. ValidatePolicy(a) = [package |-> a.package, users |-> users, processes |-> processes,
                             provider |-> a.provider, mounts |-> mounts]
    <2> DEFINE k == a.package
               u == a.users
               q == a.processes
               f == a.provider
               w == a.mounts
    <2> HIDE DEF k, u, q, f, w
    <2>1. a = [package |-> k, users |-> u, processes |-> q, provider |-> f, mounts |-> w]
      BY <1>2 DEF k, u, q, f, w
    <2>2. ValidatePolicy(a) = [package |-> k, users |-> users, processes |-> processes,
                               provider |-> f, mounts |-> mounts]
      <3> DEFINE a1 == [a EXCEPT !.users = users]
                 a2 == [a1 EXCEPT !.processes = processes]
                 a3 == [a2 EXCEPT !.mounts = mounts]
      <3>1. ValidatePolicy(a) = a3
        BY <1>1
      <3>2. a1 = [package |-> k, users |-> users, processes |-> q, provider |-> f, mounts |-> w]
        BY <2>1, SMTT(30)
      <3> HIDE DEF a1
      <3>3. a2 = [package |-> k, users |-> users, processes |-> processes, provider |-> f,
                  mounts |-> w]
        BY <3>2, SMTT(30)
      <3> HIDE DEF a2
      <3>4. a3 = [package |-> k, users |-> users, processes |-> processes, provider |-> f,
                  mounts |-> mounts]
        BY <3>3, SMTT(30)
      <3> QED
        BY <3>1, <3>4
    <2> QED
      BY <2>2 DEF k, f
  <1>4. /\ ValidatePolicy(a).package = a.package /\ ValidatePolicy(a).provider = a.provider
        /\ ValidatePolicy(a).users = users /\ ValidatePolicy(a).processes = processes
        /\ ValidatePolicy(a).mounts = mounts
    BY <1>3, SMTT(30)
  <1> QED
    BY <1>3, <1>4 DEF mounts, users, processes

(* ValidatePolicy keeps a valid app valid and has nothing left to do in    *)
(* what it returns.                                                        *)
LEMMA CanonicalApp ==
  ASSUME NEW a \in PolicyApp, ValidPolicy(a)
  PROVE  /\ ValidatePolicy(a) \in PolicyApp /\ Agrees(ValidatePolicy(a), a)
         /\ ValidPolicy(ValidatePolicy(a))
         /\ ValidatePolicy(ValidatePolicy(a)) = ValidatePolicy(a)
  <1> DEFINE c == ValidatePolicy(a)
             e == Backings(a)
             m == Sort(e, MountLess)
             u == CanonicalList(a.users)
             p == CanonicalList(a.processes)
  <1>1. /\ a.package \in DOMAIN PackageNameHash /\ a.users \in NameList
        /\ a.processes \in NameList /\ a.provider \in BOOLEAN
        /\ a.mounts \in Seq(PolicyRule)
    BY SMTT(30) DEF PolicyApp
  <1>2. /\ c.package = a.package /\ c.provider = a.provider
        /\ c.users = u /\ c.processes = p /\ c.mounts = m
        /\ c = [package |-> a.package, users |-> u, processes |-> p,
                provider |-> a.provider, mounts |-> m]
    BY CanonicalFields
  <1>3. /\ e \in Seq(PolicyRule) /\ Len(e) = Len(a.mounts)
         /\ Range(e) = {NormalizeBacking(r, a.package) : r \in Range(a.mounts)}
         /\ \A i \in 1..Len(a.mounts) : e[i] = NormalizeBacking(a.mounts[i], a.package)
    BY BackingsFacts
  <1>13. \A r \in Range(e) : Package \notin Range(r.backing)
    BY BackingsFacts
  <1> HIDE DEF e
  <1>4. Sorting(m, e, MountOrder)
    BY <1>3, MountsSort
  <1> HIDE DEF m
  <1>5. /\ m \in Seq(PolicyRule) /\ Len(m) = Len(a.mounts) /\ Range(m) = Range(e)
        /\ Ordered(m, MountOrder)
    BY <1>4, <1>3, SortingFacts
  <1>6. PICK q : Places(q, m, e)
    BY <1>4, <1>3, SortingFacts
  <1>7. /\ u \in NameList /\ (u = Star <=> a.users = Star) /\ Range(u) = Range(a.users)
        /\ CanonicalList(u) = u
    BY <1>1, CanonicalLists
  <1>8. /\ p \in NameList /\ (p = Star <=> a.processes = Star)
        /\ Range(p) = Range(a.processes) /\ CanonicalList(p) = p
    BY <1>1, CanonicalLists
  <1> HIDE DEF u, p
  <1>9. c \in PolicyApp
    BY <1>1, <1>2, <1>5, <1>7, <1>8, SMTT(30) DEF PolicyApp
  <1> HIDE DEF c
  <1>10. Agrees(c, a)
    <2>1. Range(m) = {NormalizeBacking(r, a.package) : r \in Range(a.mounts)}
      BY <1>3, <1>5
    <2>2. ASSUME NEW r \in Range(m) PROVE Package \notin Range(r.backing)
      <3>1. r \in Range(e)
        BY <1>5
      <3> QED
        BY <1>13, <3>1
    <2>3. /\ Range(c.mounts) = {NormalizeBacking(r, a.package) : r \in Range(a.mounts)}
          /\ \A r \in Range(c.mounts) : Package \notin Range(r.backing)
      BY <1>2, <2>1, <2>2
    <2>4. /\ c.users = Star <=> a.users = Star
          /\ Range(c.users) = Range(a.users)
      BY <1>2, <1>7
    <2>5. /\ c.processes = Star <=> a.processes = Star
          /\ Range(c.processes) = Range(a.processes)
      BY <1>2, <1>8
    <2>6. c.package = a.package /\ c.provider = a.provider
      BY <1>2
    <2> QED
      BY <2>3, <2>4, <2>5, <2>6 DEF Agrees
  <1>11. ValidPolicy(c)
    <2>1. DOMAIN a.mounts = 1..Len(a.mounts) /\ DOMAIN m = 1..Len(a.mounts)
      BY <1>1, <1>5, SMTT(30)
    <2>2. \A i \in 1..Len(a.mounts) : q[i] \in 1..Len(a.mounts) /\ m[i] = e[q[i]]
      BY <1>6, <1>3 DEF Places
    <2>3. ASSUME NEW i \in 1..Len(a.mounts)
          PROVE  /\ e[i].visible = a.mounts[i].visible /\ e[i].action = a.mounts[i].action
                 /\ Brace \notin Range(a.mounts[i].backing) => Brace \notin Range(e[i].backing)
      <3> DEFINE r == a.mounts[i]
                 k == a.package
      <3>1. r \in PolicyRule
        BY <1>1, <2>3, SMTT(30)
      <3>2. k \in Nat
        BY <1>1, FileAssumption
      <3>3. e[i] = NormalizeBacking(r, k)
        BY <1>3, <2>3
      <3> HIDE DEF r, k
      <3> QED
        <4> DEFINE t == NormalizeBacking(r, k)
        <4>1. /\ t.action = r.action /\ t.visible = r.visible
              /\ Brace \notin Range(r.backing) => Brace \notin Range(t.backing)
          BY <3>1, <3>2, NormalizedRule
        <4> HIDE DEF t
        <4> QED
          BY <3>3, <4>1 DEF r, t
    <2>4. \A i \in DOMAIN m : /\ Placeholders \cap Range(m[i].visible) = {}
                             /\ Brace \notin Range(m[i].backing)
      <3> TAKE i \in DOMAIN m
      <3> DEFINE k == q[i]
      <3>1. k \in 1..Len(a.mounts) /\ m[i] = e[k]
        BY <2>1, <2>2
      <3> HIDE DEF k
      <3>2. /\ Placeholders \cap Range(a.mounts[k].visible) = {}
            /\ Brace \notin Range(a.mounts[k].backing)
        BY <2>1, <3>1 DEF ValidPolicy
      <3> QED
        BY <2>3, <3>1, <3>2
    <2>5. ASSUME NEW i \in DOMAIN m, NEW j \in DOMAIN m, m[i].visible = m[j].visible
          PROVE  i = j
      <3>1. a.mounts[q[i]].visible = a.mounts[q[j]].visible
        BY <2>1, <2>2, <2>5, <2>3
      <3>2. q[i] \in DOMAIN a.mounts /\ q[j] \in DOMAIN a.mounts
        BY <2>1, <2>2
      <3>3. q[i] = q[j]
        BY <3>1, <3>2 DEF ValidPolicy
      <3> QED
        BY <1>5, <1>6, <1>3, <2>1, <3>3 DEF Places, Orders
    <2>6. ASSUME a.provider PROVE u # Star /\ \E i \in DOMAIN m : m[i].action = Redirect
      <3>1. a.users # Star /\ \E i \in DOMAIN a.mounts : a.mounts[i].action = Redirect
        BY <2>6 DEF ValidPolicy
      <3>2. PICK i \in DOMAIN a.mounts : a.mounts[i].action = Redirect
        BY <3>1
      <3>3. DOMAIN e = 1..Len(a.mounts)
        BY <1>1, <1>3, SMTT(30)
      <3>4. e[i] \in Range(m)
        BY <1>5, <2>1, <3>2, <3>3 DEF Range
      <3>5. PICK j \in DOMAIN m : m[j] = e[i]
        BY <3>4 DEF Range
      <3> QED
        BY <1>5, <1>7, <2>1, <2>3, <3>1, <3>2, <3>5
    <2> QED
      BY <1>2, <2>4, <2>5, <2>6 DEF ValidPolicy
  <1>12. ValidatePolicy(c) = c
    <2> DEFINE n == Sort(m, MountLess)
    <2>1. Sorting(n, m, MountOrder)
      BY <1>5, MountsSort
    <2> HIDE DEF n
    <2>2. n = m
      BY <1>5, <2>1, MountOrderFacts, SortingStays
    <2>3. Backings(c) = m
      <3>1. \A r \in Range(c.mounts) : Package \notin Range(r.backing)
        BY <1>10 DEF Agrees
      <3> QED
        BY <1>2, <1>9, <3>1, BackingsFacts
    <2>4. ValidatePolicy(c) = [package |-> c.package, users |-> CanonicalList(c.users),
                               processes |-> CanonicalList(c.processes),
                               provider |-> c.provider, mounts |-> Sort(Backings(c), MountLess)]
      BY <1>9, CanonicalFields
    <2> QED
      BY <1>2, <1>7, <1>8, <2>2, <2>4, <2>3 DEF n
  <1> QED
    BY <1>9, <1>10, <1>11, <1>12 DEF c

-----------------------------------------------------------------------------
(* The apps of a file *)

FileApps(document) == IndexOrder(CanonicalizeDocument(document).apps)

(* p tells which app of the document the i-th one of the file is. *)
Arranges(p, apps, document) ==
    /\ p \in [1..Len(apps) -> 1..Len(document.apps)]
    /\ \A k \in 1..Len(document.apps) : \E i \in 1..Len(apps) : p[i] = k
    /\ \A i \in 1..Len(apps) : apps[i] = ValidatePolicy(document.apps[p[i]])

(* An index: by hash and name, with no package twice. *)
Ascends(apps) ==
    \A i, j \in 1..Len(apps) : i < j => IndexLess(apps[i], apps[j])

(* The parts of a document and of its canonical form. *)
LEMMA CanonicalDocument ==
  ASSUME NEW d \in PolicyDocument, Encodable(d)
  PROVE  LET canonical == CanonicalizeDocument(d)
         IN  /\ d.apps \in Seq(PolicyApp) /\ d.apps # << >> /\ d.legacy \in BOOLEAN
             /\ DOMAIN d.apps = 1..Len(d.apps)
             /\ \A i \in 1..Len(d.apps) : d.apps[i] \in PolicyApp /\ ValidPolicy(d.apps[i])
             /\ canonical.legacy = d.legacy
             /\ canonical.apps = [i \in 1..Len(d.apps) |-> ValidatePolicy(d.apps[i])]
             /\ canonical.apps \in Seq(PolicyApp) /\ Len(canonical.apps) = Len(d.apps)
  <1>1. /\ d.apps \in Seq(PolicyApp) /\ d.legacy \in BOOLEAN
        /\ d = [legacy |-> d.legacy, apps |-> d.apps]
    BY SMTT(30) DEF PolicyDocument
  <1>2. /\ Len(d.apps) \in Nat /\ DOMAIN d.apps = 1..Len(d.apps)
        /\ \A i \in 1..Len(d.apps) : d.apps[i] \in PolicyApp
    BY <1>1, SMTT(30)
  <1>3. d.apps # << >> /\ \A i \in 1..Len(d.apps) : ValidPolicy(d.apps[i])
    BY <1>2 DEF Encodable
  <1> DEFINE canonical == CanonicalizeDocument(d)
             apps == [i \in 1..Len(d.apps) |-> ValidatePolicy(d.apps[i])]
  <1>4. canonical = [d EXCEPT !.apps = apps]
    BY <1>2 DEF CanonicalizeDocument
  <1>5. \A i \in 1..Len(d.apps) : ValidatePolicy(d.apps[i]) \in PolicyApp
    BY <1>2, <1>3, CanonicalApp
  <1>6. apps \in [1..Len(d.apps) -> PolicyApp]
    BY <1>5
  <1> HIDE DEF apps
  <1>7. apps \in Seq(PolicyApp) /\ Len(apps) = Len(d.apps)
    BY <1>2, <1>6, SMTT(30)
  <1>8. canonical.legacy = d.legacy /\ canonical.apps = apps
    BY <1>1, <1>4, SMTT(30)
  <1> QED
    BY <1>1, <1>2, <1>3, <1>7, <1>8 DEF apps

(* The file has every app of the document, in canonical form, by hash and  *)
(* name.                                                                   *)
LEMMA FileAppsFacts ==
  ASSUME NEW d \in PolicyDocument, Encodable(d)
  PROVE  /\ FileApps(d) \in Seq(PolicyApp) /\ Len(FileApps(d)) = Len(d.apps)
         /\ Range(FileApps(d)) = Range(CanonicalizeDocument(d).apps)
         /\ \E p : Arranges(p, FileApps(d), d)
         /\ Ascends(FileApps(d))
         /\ \A i \in 1..Len(FileApps(d)) :
               /\ FileApps(d)[i] \in PolicyApp /\ ValidPolicy(FileApps(d)[i])
               /\ ValidatePolicy(FileApps(d)[i]) = FileApps(d)[i]
         /\ FileApps(d) # << >>
  <1> DEFINE s == CanonicalizeDocument(d).apps
             apps == FileApps(d)
             n == Len(d.apps)
  <1>1. /\ d.apps \in Seq(PolicyApp) /\ d.apps # << >> /\ DOMAIN d.apps = 1..n
        /\ \A i \in 1..n : d.apps[i] \in PolicyApp /\ ValidPolicy(d.apps[i])
        /\ s = [i \in 1..n |-> ValidatePolicy(d.apps[i])]
        /\ s \in Seq(PolicyApp) /\ Len(s) = n
    BY CanonicalDocument
  <1>2. Sorting(apps, s, AppOrder)
    BY <1>1, AppsSort DEF FileApps
  <1> HIDE DEF s, apps
  <1>3. /\ apps \in Seq(PolicyApp) /\ Len(apps) = n /\ Range(apps) = Range(s)
        /\ Ordered(apps, AppOrder)
    <2>1. s \in Seq(PolicyApp)
      BY <1>1
    <2>2. Len(apps) = Len(s) /\ apps \in Seq(PolicyApp) /\ Range(apps) = Range(s)
      BY <1>2, <2>1, SortingFacts
    <2>3. Ordered(apps, AppOrder)
      BY <1>2, <2>1, SortingFacts
    <2> QED
      BY <1>1, <2>2, <2>3
  <1>4. n \in Nat /\ n # 0 /\ apps # << >>
    BY <1>1, <1>3, SMTT(30)
  <1>5. PICK p : Places(p, apps, s)
    <2>1. s \in Seq(PolicyApp)
      BY <1>1
    <2> QED
      BY <1>2, <2>1, SortingFacts
  <1> HIDE DEF n
  <1>6. /\ p \in [1..n -> 1..n] /\ \A k \in 1..n : \E i \in 1..n : p[i] = k
        /\ \A i, j \in 1..n : p[i] = p[j] => i = j
    BY <1>1, <1>5 DEF Places, Orders
  <1>7. \A i \in 1..n : p[i] \in 1..n /\ apps[i] = ValidatePolicy(d.apps[p[i]])
    BY <1>1, <1>5, <1>6 DEF Places
  <1>8. Arranges(p, apps, d)
    BY <1>3, <1>6, <1>7 DEF Arranges, n
  <1>9. ASSUME NEW i \in 1..n
        PROVE  /\ apps[i] \in PolicyApp /\ ValidPolicy(apps[i])
               /\ ValidatePolicy(apps[i]) = apps[i]
               /\ apps[i].package = d.apps[p[i]].package
    <2> DEFINE a == d.apps[p[i]]
    <2>1. a \in PolicyApp /\ ValidPolicy(a) /\ apps[i] = ValidatePolicy(a)
      BY <1>1, <1>7
    <2> HIDE DEF a
    <2>2. /\ ValidatePolicy(a) \in PolicyApp /\ Agrees(ValidatePolicy(a), a)
          /\ ValidPolicy(ValidatePolicy(a))
          /\ ValidatePolicy(ValidatePolicy(a)) = ValidatePolicy(a)
      BY <2>1, CanonicalApp
    <2>3. ValidatePolicy(a).package = a.package
      BY <2>2 DEF Agrees
    <2> QED
      BY <2>1, <2>2, <2>3 DEF a
  <1>10. ASSUME NEW i \in 1..n, NEW j \in 1..n, i < j PROVE IndexLess(apps[i], apps[j])
    <2>1. p[i] # p[j]
      <3>1. i # j
        BY <1>4, <1>10, SMTT(30)
      <3> QED
        BY <1>6, <3>1
    <2>2. apps[i].package # apps[j].package
      <3>1. p[i] \in DOMAIN d.apps /\ p[j] \in DOMAIN d.apps
        BY <1>1, <1>7
      <3>2. d.apps[p[i]].package # d.apps[p[j]].package
        BY <2>1, <3>1 DEF Encodable
      <3> QED
        BY <1>9, <3>2
    <2>3. ~IndexLess(apps[j], apps[i])
      BY <1>3, <1>9, <1>10 DEF AppOrder, Ordered
    <2>4. /\ IndexKey(apps[i]) \in Seq(Int) /\ IndexKey(apps[j]) \in Seq(Int)
          /\ IndexKey(apps[i])[2] = apps[i].package /\ IndexKey(apps[j])[2] = apps[j].package
      BY <1>9, IndexKeyFacts
    <2> QED
      BY <2>2, <2>3, <2>4, PrecedesTotal DEF IndexLess
  <1>11. Ascends(apps)
    BY <1>3, <1>10 DEF Ascends
  <1> QED
    BY <1>3, <1>4, <1>8, <1>9, <1>11 DEF s, apps, n

-----------------------------------------------------------------------------
(* The entries of a file *)

(* One entry for each app, which has its fields and its piece of the rule  *)
(* table.                                                                  *)
EntryOf(file, apps, i) ==
    LET entry == file.packages[i]
    IN  /\ entry.hash = PackageNameHash[apps[i].package] /\ entry.package = apps[i].package
        /\ entry.users = apps[i].users /\ entry.processes = apps[i].processes
        /\ entry.provider = apps[i].provider /\ entry.count = Len(apps[i].mounts)
        /\ entry.plan_generation = PlanGeneration(apps[i], file.legacy)
        /\ MountsOf(file, entry) = apps[i].mounts
Written(file, apps) ==
    /\ Len(file.packages) = Len(apps) /\ DOMAIN file.packages = 1..Len(apps)
    /\ \A i \in 1..Len(apps) : EntryOf(file, apps, i)

(* The list of an app is never empty, so Join does nothing to it. *)
LEMMA JoinKeeps ==
  ASSUME NEW list \in NameList
  PROVE  Join(list) = list /\ Splits(list)
  <1>1. list # << >>
    BY SMTT(30) DEF NameList, Star
  <1>2. Empty \notin Range(list)
    <2>1. CASE list = Star
      <3>1. DOMAIN list = {1} /\ list[1] = -1
        BY <2>1, SMTT(30) DEF Star
      <3>2. \A x \in Range(list) : x = -1
        BY <3>1 DEF Range
      <3> QED
        BY <3>2, SMTT(30) DEF Empty
    <2>2. CASE list # Star
      <3>1. Range(list) \subseteq Nat
        BY <2>2, ListRange DEF NameList
      <3> QED
        BY <3>1, SMTT(30) DEF Empty
    <2> QED
      BY <2>1, <2>2
  <1> QED
    BY <1>1, <1>2 DEF Join, Splits

(* EncodePolicy writes the apps and cuts the rule table where they end. *)
LEMMA FileEntries ==
  ASSUME NEW d \in PolicyDocument, Encodable(d)
  PROVE  LET file == EncodePolicy(d)
         IN  /\ file.legacy = d.legacy
             /\ file.generation = ContentGeneration(CanonicalizeDocument(d))
             /\ Written(file, FileApps(d))
             /\ ValidPolicyTables(file)
             /\ file.packages # << >>
  <1> DEFINE canonical == CanonicalizeDocument(d)
             apps == FileApps(d)
             n == Len(apps)
             file == EncodePolicy(d)
             mounts == [i \in DOMAIN apps |-> apps[i].mounts]
             entry(i) ==
                [hash |-> PackageNameHash[apps[i].package], package |-> apps[i].package,
                 users |-> Join(apps[i].users), processes |-> Join(apps[i].processes),
                 provider |-> apps[i].provider,
                 first |-> Len(Joined(mounts, i - 1)), count |-> Len(apps[i].mounts),
                 plan_generation |-> PlanGeneration(apps[i], canonical.legacy)]
             packages == [i \in DOMAIN apps |-> entry(i)]
  <1>1. file = [generation |-> ContentGeneration(canonical), legacy |-> canonical.legacy,
                packages |-> packages, mounts |-> Flatten(mounts)]
    BY DEF EncodePolicy, FileApps
  <1>2. apps \in Seq(PolicyApp) /\ apps # << >> /\ \A i \in 1..n : apps[i] \in PolicyApp
    BY FileAppsFacts
  <1>3. canonical.legacy = d.legacy
    BY CanonicalDocument
  <1> HIDE DEF apps, canonical
  <1>4. DOMAIN apps = 1..n /\ n \in Nat /\ n # 0
    BY <1>2, SMTT(30)
  <1>5. \A i \in 1..n : /\ apps[i].mounts \in Seq(PolicyRule)
                        /\ apps[i].users \in NameList /\ apps[i].processes \in NameList
    BY <1>2, SMTT(30) DEF PolicyApp
  <1>6. mounts \in [1..n -> Seq(PolicyRule)] /\ \A i \in 1..n : mounts[i] = apps[i].mounts
    BY <1>4, <1>5
  <1>7. packages = [i \in 1..n |-> entry(i)]
    BY <1>4
  <1> HIDE DEF mounts
  <1>8. mounts \in Seq(Seq(PolicyRule)) /\ Len(mounts) = n
    BY <1>4, <1>6, SMTT(30)
  <1>9. /\ file.legacy = canonical.legacy /\ file.packages = packages
        /\ file.mounts = Flatten(mounts) /\ file.generation = ContentGeneration(canonical)
    BY <1>1, SMTT(30)
  <1> HIDE DEF file
  <1>10. Len(packages) = n /\ DOMAIN packages = 1..n /\ packages # << >>
    BY <1>4, <1>7, SMTT(30)
  <1>11. \A i \in 1..n : packages[i] = entry(i)
    BY <1>7
  <1> HIDE DEF packages
  <1>12. ASSUME NEW i \in 1..n
         PROVE  LET e == packages[i]
                IN  /\ e.hash = PackageNameHash[apps[i].package] /\ e.package = apps[i].package
                    /\ e.users = Join(apps[i].users) /\ e.processes = Join(apps[i].processes)
                    /\ e.provider = apps[i].provider
                    /\ e.first = Len(Joined(mounts, i - 1)) /\ e.count = Len(apps[i].mounts)
                    /\ e.plan_generation = PlanGeneration(apps[i], canonical.legacy)
    <2> DEFINE a == apps[i]
               hash == PackageNameHash[a.package]
               package == a.package
               users == Join(a.users)
               processes == Join(a.processes)
               provider == a.provider
               first == Len(Joined(mounts, i - 1))
               count == Len(a.mounts)
               plan == PlanGeneration(a, canonical.legacy)
    <2>1. packages[i] = [hash |-> hash, package |-> package, users |-> users,
                         processes |-> processes, provider |-> provider,
                         first |-> first, count |-> count, plan_generation |-> plan]
      BY <1>11
    <2> HIDE DEF hash, package, users, processes, provider, first, count, plan
    <2>2. /\ packages[i].hash = hash /\ packages[i].package = package
          /\ packages[i].users = users /\ packages[i].processes = processes
          /\ packages[i].provider = provider
          /\ packages[i].first = first /\ packages[i].count = count
          /\ packages[i].plan_generation = plan
      BY <2>1, SMTT(30)
    <2> QED
      BY <2>2 DEF hash, package, users, processes, provider, first, count, plan
  <1>13. ASSUME NEW i \in 1..n
         PROVE  LET from == Len(Joined(mounts, i - 1))
                IN  /\ from \in Nat /\ Len(Joined(mounts, i)) = from + Len(apps[i].mounts)
                    /\ from + Len(apps[i].mounts) <= Len(Flatten(mounts))
                    /\ SubSeq(Flatten(mounts), from + 1, from + Len(apps[i].mounts))
                          = apps[i].mounts
    <2>1. i \in 1..Len(mounts) /\ mounts[i] = apps[i].mounts
      BY <1>6, <1>8
    <2> DEFINE from == Len(Joined(mounts, i - 1))
               piece == mounts[i]
    <2>2. /\ from \in Nat /\ Len(Joined(mounts, i)) = from + Len(piece)
          /\ from + Len(piece) <= Len(Flatten(mounts))
          /\ SubSeq(Flatten(mounts), from + 1, from + Len(piece)) = piece
      BY <1>8, <2>1, JoinedPiece
    <2> HIDE DEF from
    <2> QED
      BY <2>1, <2>2 DEF from
  <1> HIDE DEF entry
  <1>14. Written(file, apps)
    <2>1. ASSUME NEW i \in 1..n PROVE EntryOf(file, apps, i)
      <3>1. MountsOf(file, packages[i]) = apps[i].mounts
        BY <1>9, <1>12, <1>13 DEF MountsOf
      <3>2. Join(apps[i].users) = apps[i].users /\ Join(apps[i].processes) = apps[i].processes
        BY <1>5, JoinKeeps
      <3> QED
        BY <1>9, <1>12, <3>1, <3>2 DEF EntryOf
    <2> QED
      BY <1>9, <1>10, <2>1 DEF Written
  <1>15. ValidPolicyTables(file)
    <2> DEFINE end(i) == packages[i].first + packages[i].count
    <2>1. \A i \in 1..n : end(i) = Len(Joined(mounts, i)) /\ end(i) <= Len(Flatten(mounts))
      BY <1>12, <1>13
    <2>2. Len(Joined(mounts, 0)) = 0
      <3>1. Joined(mounts, 0) = << >>
        BY <1>8, JoinedFacts
      <3> QED
        BY <3>1, SMTT(30)
    <2>3. ASSUME NEW i \in 1..n
          PROVE  packages[i].first = IF i = 1 THEN 0 ELSE end(i - 1)
      <3>1. packages[i].first = Len(Joined(mounts, i - 1))
        BY <1>12
      <3>2. CASE i = 1
        <4>1. i - 1 = 0
          BY <3>2, SMTT(30)
        <4> QED
          BY <2>2, <3>1, <3>2, <4>1
      <3>3. CASE i # 1
        <4>1. i - 1 \in 1..n
          BY <1>4, <3>3, SMTT(30)
        <4> QED
          BY <2>1, <3>1, <3>3, <4>1
      <3> QED
        BY <3>2, <3>3
    <2>4. n \in 1..n
      BY <1>4, SMTT(30)
    <2>5. end(n) = Len(Flatten(mounts))
      BY <1>8, <2>1, <2>4 DEF Flatten
    <2> QED
      BY <1>9, <1>10, <2>1, <2>3, <2>5 DEF ValidPolicyTables
  <1> QED
    BY <1>3, <1>9, <1>10, <1>14, <1>15 DEF file, apps, canonical

(* An entry has the key of its app, so the index is valid. *)
LEMMA FileIndex ==
  ASSUME NEW file, NEW apps \in Seq(PolicyApp), Written(file, apps), Ascends(apps)
  PROVE  ValidPackageIndex(file)
  <1>1. Len(apps) \in Nat
    BY SMTT(30)
  <1>2. \A i \in 1..Len(apps) : IndexKey(file.packages[i]) = IndexKey(apps[i])
    BY DEF Written, EntryOf, IndexKey
  <1>3. \A i \in 1..Len(apps) : i > 1 => i - 1 \in 1..Len(apps) /\ i - 1 < i
    BY <1>1, SMTT(30)
  <1>4. \A i \in 1..Len(apps) : i > 1 => IndexLess(file.packages[i - 1], file.packages[i])
    BY <1>2, <1>3 DEF Ascends, IndexLess
  <1> QED
    BY <1>4 DEF ValidPackageIndex, Written, EntryOf

(* The hashes of the first size entries do not descend. *)
Sorted(file, size) ==
    /\ \A i \in 1..size : file.packages[i].hash \in Nat
    /\ \A i, j \in 1..size : i <= j => file.packages[i].hash <= file.packages[j].hash

(* No package has two entries either. *)
LEMMA EntryOrder ==
  ASSUME NEW file, NEW apps \in Seq(PolicyApp), Written(file, apps), Ascends(apps)
  PROVE  /\ Sorted(file, Len(apps))
         /\ \A i, j \in 1..Len(apps) :
               file.packages[i].package = file.packages[j].package => i = j
  <1>1. Len(apps) \in Nat /\ \A i \in 1..Len(apps) : apps[i] \in PolicyApp
    BY SMTT(30)
  <1>2. \A i \in 1..Len(apps) :
            LET key == IndexKey(apps[i])
            IN  /\ key \in Seq(Int) /\ Len(key) = 2
                /\ file.packages[i].hash \in Nat /\ file.packages[i].package \in Nat
                /\ key[1] = file.packages[i].hash /\ key[2] = file.packages[i].package
    BY <1>1, IndexKeyFacts DEF Written, EntryOf
  <1>3. ASSUME NEW i \in 1..Len(apps), NEW j \in 1..Len(apps), i < j
        PROVE  LET p == file.packages IN
               p[i].hash < p[j].hash
                  \/ (p[i].hash = p[j].hash /\ p[i].package < p[j].package)
    <2> DEFINE a == IndexKey(apps[i])
               b == IndexKey(apps[j])
    <2>1. Precedes(a, b)
      BY <1>3 DEF Ascends, IndexLess
    <2>2. /\ a \in Seq(Int) /\ Len(a) = 2 /\ b \in Seq(Int) /\ Len(b) = 2
      BY <1>2
    <2> HIDE DEF a, b
    <2>3. a[1] < b[1] \/ (a[1] = b[1] /\ a[2] < b[2])
      BY <2>1, <2>2, SMTT(30) DEF Precedes
    <2> QED
      BY <1>2, <2>3 DEF a, b
  <1>4. \A i, j \in 1..Len(apps) :
            i <= j => file.packages[i].hash <= file.packages[j].hash
    <2> TAKE i, j \in 1..Len(apps)
    <2> HAVE i <= j
    <2>1. CASE i = j
      BY <1>2, <2>1, SMTT(30)
    <2>2. CASE i # j
      <3>1. i < j
        BY <1>1, <2>2, SMTT(30)
      <3>2. file.packages[i].hash \in Nat /\ file.packages[j].hash \in Nat
        BY <1>2
      <3> QED
        BY <1>3, <3>1, <3>2, SMTT(30)
    <2> QED
      BY <2>1, <2>2
  <1>5. ASSUME NEW i \in 1..Len(apps), NEW j \in 1..Len(apps), i < j
        PROVE  file.packages[i].package # file.packages[j].package
    <2>1. /\ file.packages[i].hash \in Nat /\ file.packages[j].hash \in Nat
          /\ file.packages[i].package \in Nat /\ file.packages[j].package \in Nat
          /\ file.packages[i].package = file.packages[j].package =>
                file.packages[i].hash = file.packages[j].hash
      <3>1. /\ file.packages[i].hash = PackageNameHash[file.packages[i].package]
            /\ file.packages[j].hash = PackageNameHash[file.packages[j].package]
        BY DEF Written, EntryOf
      <3> QED
        BY <1>2, <3>1
    <2> QED
      BY <1>3, <1>5, <2>1, SMTT(30)
  <1>6. \A i, j \in 1..Len(apps) : i # j => i < j \/ j < i
    BY <1>1, SMTT(30)
  <1> QED
    BY <1>2, <1>4, <1>5, <1>6 DEF Sorted

-----------------------------------------------------------------------------
(* The search in the index *)

(* r is where the hashes of the entries lower + 1 .. upper stop being less. *)
Parts(file, hash, lower, upper, r) ==
    /\ r \in lower..upper
    /\ \A k \in lower + 1..r : file.packages[k].hash < hash
    /\ \A k \in r + 1..upper : ~(file.packages[k].hash < hash)

Half(middle, lower, upper) == middle = lower + (upper - lower) \div 2

(* One step of LowerBound. *)
Halves(g, file, hash, size) ==
    g = [range \in (0..size) \X (0..size) |->
            LET lower == range[1]
                upper == range[2]
                middle == lower + (upper - lower) \div 2
            IN  IF lower >= upper THEN lower
                ELSE IF file.packages[middle + 1].hash < hash
                     THEN g[<<middle + 1, upper>>] ELSE g[<<lower, middle>>]]

(* Where the entries do not descend, every part of them has such a place. *)
LEMMA PartExists ==
  ASSUME NEW file, NEW hash \in Nat, NEW size \in Nat, Sorted(file, size),
         NEW lower \in 0..size, NEW upper \in 0..size, lower <= upper
  PROVE  \E r : Parts(file, hash, lower, upper, r)
  <1> DEFINE S == {k \in lower..upper : k = upper \/ ~(file.packages[k + 1].hash < hash)}
  <1>1. S \subseteq Nat /\ upper \in S
    BY SMTT(30)
  <1>2. PICK r \in S : \A k \in S : r <= k
    BY <1>1, LeastNatural
  <1>3. r \in lower..upper /\ lower \in Nat /\ upper \in Nat /\ r \in Nat
    BY <1>2, SMTT(30)
  <1>4. \A k \in lower + 1..r : file.packages[k].hash < hash
    <2> TAKE k \in lower + 1..r
    <2>1. k - 1 \in lower..upper /\ k - 1 # upper /\ ~(r <= k - 1) /\ k - 1 + 1 = k
      BY <1>3, SMTT(30)
    <2>2. k - 1 \notin S
      BY <1>2, <2>1
    <2> QED
      BY <2>1, <2>2
  <1>5. \A k \in r + 1..upper : ~(file.packages[k].hash < hash)
    <2> TAKE k \in r + 1..upper
    <2>1. k \in 1..size /\ r + 1 \in 1..size /\ r + 1 <= k /\ r # upper
      BY <1>3, SMTT(30)
    <2>2. ~(file.packages[r + 1].hash < hash)
      BY <1>2, <2>1
    <2>3. file.packages[r + 1].hash <= file.packages[k].hash
      BY <2>1 DEF Sorted
    <2>4. file.packages[r + 1].hash \in Nat /\ file.packages[k].hash \in Nat
      BY <2>1 DEF Sorted
    <2> QED
      BY <2>2, <2>3, <2>4, SMTT(30)
  <1> QED
    BY <1>3, <1>4, <1>5 DEF Parts

(* A part has one such place. *)
LEMMA PartUnique ==
  ASSUME NEW file, NEW hash, NEW lower \in Nat, NEW upper \in Nat, NEW r, NEW q,
         Parts(file, hash, lower, upper, r), Parts(file, hash, lower, upper, q)
  PROVE  r = q
  <1>1. r \in lower..upper /\ q \in lower..upper
    BY DEF Parts
  <1>2. ~(r < q)
    <2> SUFFICES ASSUME r < q PROVE FALSE
      OBVIOUS
    <2>1. r + 1 \in lower + 1..q /\ r + 1 \in r + 1..upper
      BY <1>1, SMTT(30)
    <2> QED
      BY <2>1 DEF Parts
  <1>3. ~(q < r)
    <2> SUFFICES ASSUME q < r PROVE FALSE
      OBVIOUS
    <2>1. q + 1 \in lower + 1..r /\ q + 1 \in q + 1..upper
      BY <1>1, SMTT(30)
    <2> QED
      BY <2>1 DEF Parts
  <1> QED
    BY <1>1, <1>2, <1>3, SMTT(30)

(* The place lies in the half the step goes on with. *)
LEMMA PartHalf ==
  ASSUME NEW file, NEW hash \in Nat, NEW size \in Nat, Sorted(file, size),
         NEW lower \in 0..size, NEW upper \in 0..size, lower < upper,
         NEW middle, Half(middle, lower, upper), NEW r
  PROVE  /\ middle \in lower..upper - 1 /\ middle \in 0..size /\ middle + 1 \in 0..size
         /\ file.packages[middle + 1].hash < hash
              /\ Parts(file, hash, middle + 1, upper, r) => Parts(file, hash, lower, upper, r)
         /\ ~(file.packages[middle + 1].hash < hash)
              /\ Parts(file, hash, lower, middle, r) => Parts(file, hash, lower, upper, r)
  <1>1. middle \in lower..upper - 1
    BY SMTT(30) DEF Half
  <1>2. middle \in 0..size /\ middle + 1 \in 1..size /\ middle + 1 \in 0..size
    BY <1>1, SMTT(30)
  <1>3. ASSUME file.packages[middle + 1].hash < hash,
               Parts(file, hash, middle + 1, upper, r)
        PROVE  Parts(file, hash, lower, upper, r)
    <2>1. r \in middle + 1..upper
      BY <1>3 DEF Parts
    <2>2. r \in lower..upper
      BY <1>1, <2>1, SMTT(30)
    <2>3. \A k \in lower + 1..r : file.packages[k].hash < hash
      <3> TAKE k \in lower + 1..r
      <3>1. CASE k <= middle + 1
        <4>1. k \in 1..size
          BY <1>1, <2>1, SMTT(30)
        <4>2. /\ file.packages[k].hash <= file.packages[middle + 1].hash
              /\ file.packages[k].hash \in Nat /\ file.packages[middle + 1].hash \in Nat
          BY <1>2, <3>1, <4>1 DEF Sorted
        <4> QED
          BY <1>3, <4>2, SMTT(30)
      <3>2. CASE ~(k <= middle + 1)
        <4>1. k \in middle + 1 + 1..r
          BY <1>1, <2>1, <3>2, SMTT(30)
        <4> QED
          BY <1>3, <4>1 DEF Parts
      <3> QED
        BY <3>1, <3>2
    <2> QED
      BY <1>3, <2>2, <2>3 DEF Parts
  <1>4. ASSUME ~(file.packages[middle + 1].hash < hash),
               Parts(file, hash, lower, middle, r)
        PROVE  Parts(file, hash, lower, upper, r)
    <2>1. r \in lower..middle
      BY <1>4 DEF Parts
    <2>2. r \in lower..upper
      BY <1>1, <2>1, SMTT(30)
    <2>3. \A k \in r + 1..upper : ~(file.packages[k].hash < hash)
      <3> TAKE k \in r + 1..upper
      <3>1. CASE k <= middle
        <4>1. k \in r + 1..middle
          BY <1>1, <2>1, <3>1, SMTT(30)
        <4> QED
          BY <1>4, <4>1 DEF Parts
      <3>2. CASE ~(k <= middle)
        <4>1. k \in 1..size /\ middle + 1 <= k
          BY <1>1, <2>1, <3>2, SMTT(30)
        <4>2. /\ file.packages[middle + 1].hash <= file.packages[k].hash
              /\ file.packages[k].hash \in Nat /\ file.packages[middle + 1].hash \in Nat
          BY <1>2, <4>1 DEF Sorted
        <4> QED
          BY <1>4, <4>2, SMTT(30)
      <3> QED
        BY <3>1, <3>2
    <2> QED
      BY <1>4, <2>2, <2>3 DEF Parts
  <1> QED
    BY <1>1, <1>2, <1>3, <1>4

(* An interval without entries has its end as that place. *)
LEMMA PartEmpty ==
  ASSUME NEW file, NEW hash, NEW lower \in Nat
  PROVE  Parts(file, hash, lower, lower, lower)
  <1>1. lower \in lower..lower /\ lower + 1..lower = {}
    BY SMTT(30)
  <1> QED
    BY <1>1 DEF Parts

(* The values of a function that LowerBound may be computed by. *)
LEMMA HalvesAt ==
  ASSUME NEW g, NEW file, NEW hash, NEW size \in Nat, Halves(g, file, hash, size),
         NEW lower \in 0..size, NEW upper \in 0..size,
         NEW middle, Half(middle, lower, upper)
  PROVE  g[<<lower, upper>>] = IF lower >= upper THEN lower
                               ELSE IF file.packages[middle + 1].hash < hash
                                    THEN g[<<middle + 1, upper>>] ELSE g[<<lower, middle>>]
  <1> DEFINE step(range) ==
                LET l == range[1]
                    u == range[2]
                    m == l + (u - l) \div 2
                IN  IF l >= u THEN l
                    ELSE IF file.packages[m + 1].hash < hash
                         THEN g[<<m + 1, u>>] ELSE g[<<l, m>>]
  <1>1. g = [range \in (0..size) \X (0..size) |-> step(range)]
    BY DEF Halves
  <1>2. <<lower, upper>> \in (0..size) \X (0..size)
    OBVIOUS
  <1> HIDE DEF step
  <1>3. g[<<lower, upper>>] = step(<<lower, upper>>)
    BY <1>1, <1>2
  <1>4. <<lower, upper>>[1] = lower /\ <<lower, upper>>[2] = upper
    BY SMTT(30)
  <1> QED
    BY <1>3, <1>4 DEF step, Half

(* There is such a function. *)
LEMMA HalvesExists ==
  ASSUME NEW file, NEW hash \in Nat, NEW size \in Nat, Sorted(file, size)
  PROVE  \E g : Halves(g, file, hash, size)
  <1> DEFINE place(l, u) == IF l >= u THEN l ELSE CHOOSE r : Parts(file, hash, l, u, r)
             g == [range \in (0..size) \X (0..size) |-> place(range[1], range[2])]
             half(l, u) == l + (u - l) \div 2
             step(l, u) == IF l >= u THEN l
                           ELSE IF file.packages[half(l, u) + 1].hash < hash
                                THEN g[<<half(l, u) + 1, u>>] ELSE g[<<l, half(l, u)>>]
  <1>1. ASSUME NEW l \in 0..size, NEW u \in 0..size
        PROVE  g[<<l, u>>] = place(l, u)
    <2>1. <<l, u>> \in (0..size) \X (0..size) /\ <<l, u>>[1] = l /\ <<l, u>>[2] = u
      BY SMTT(30)
    <2> HIDE DEF place
    <2>2. g[<<l, u>>] = place(<<l, u>>[1], <<l, u>>[2])
      BY <2>1
    <2> QED
      BY <2>1, <2>2
  <1>2. ASSUME NEW l \in 0..size, NEW u \in 0..size, l <= u
        PROVE  Parts(file, hash, l, u, place(l, u))
    <2>1. CASE l >= u
      <3>1. l = u /\ l \in Nat
        BY <1>2, <2>1, SMTT(30)
      <3> QED
        BY <2>1, <3>1, PartEmpty
    <2>2. CASE ~(l >= u)
      <3>1. \E r : Parts(file, hash, l, u, r)
        BY <1>2, PartExists
      <3> QED
        BY <2>2, <3>1
    <2> QED
      BY <2>1, <2>2
  <1> HIDE DEF g, place
  <1>3. ASSUME NEW l \in 0..size, NEW u \in 0..size
        PROVE  place(l, u) = step(l, u)
    <2>1. CASE l >= u
      BY <2>1 DEF place
    <2>2. CASE ~(l >= u)
      <3> DEFINE m == half(l, u)
      <3>1. l < u /\ l <= u /\ l \in Nat /\ u \in Nat
        BY <2>2, SMTT(30)
      <3>2. Half(m, l, u)
        BY DEF Half
      <3> HIDE DEF m
      <3>3. m \in l..u - 1 /\ m \in 0..size /\ m + 1 \in 0..size
        BY <3>1, <3>2, PartHalf
      <3>4. m + 1 <= u /\ l <= m
        BY <3>1, <3>3, SMTT(30)
      <3>5. Parts(file, hash, l, u, place(l, u))
        BY <1>2, <3>1
      <3>6. CASE file.packages[m + 1].hash < hash
        <4>1. Parts(file, hash, m + 1, u, place(m + 1, u))
          BY <1>2, <3>3, <3>4
        <4>2. Parts(file, hash, l, u, place(m + 1, u))
          <5> DEFINE x == place(m + 1, u)
          <5> HIDE DEF x
          <5>1. Parts(file, hash, m + 1, u, x)
            BY <4>1 DEF x
          <5>2. Parts(file, hash, l, u, x)
            BY <3>1, <3>2, <3>6, <5>1, PartHalf
          <5> QED
            BY <5>2 DEF x
        <4>3. place(l, u) = place(m + 1, u)
          BY <3>1, <3>5, <4>2, PartUnique
        <4>4. step(l, u) = g[<<m + 1, u>>]
          BY <2>2, <3>6 DEF m
        <4> QED
          BY <1>1, <3>3, <4>3, <4>4
      <3>7. CASE ~(file.packages[m + 1].hash < hash)
        <4>1. Parts(file, hash, l, m, place(l, m))
          BY <1>2, <3>3, <3>4
        <4>2. Parts(file, hash, l, u, place(l, m))
          BY <3>1, <3>2, <3>7, <4>1, PartHalf
        <4>3. place(l, u) = place(l, m)
          BY <3>1, <3>5, <4>2, PartUnique
        <4>4. step(l, u) = g[<<l, m>>]
          BY <2>2, <3>7 DEF m
        <4> QED
          BY <1>1, <3>3, <4>3, <4>4
      <3> QED
        BY <3>6, <3>7
    <2> QED
      BY <2>1, <2>2
  <1>4. \A range \in (0..size) \X (0..size) : range[1] \in 0..size /\ range[2] \in 0..size
    BY SMTT(30)
  <1> HIDE DEF step
  <1>5. g = [range \in (0..size) \X (0..size) |-> step(range[1], range[2])]
    BY <1>3, <1>4 DEF g
  <1>6. Halves(g, file, hash, size)
    BY <1>5 DEF Halves, step
  <1> QED
    BY <1>6

(* LowerBound finds the first entry whose hash is not less. *)
LEMMA LowerBoundParts ==
  ASSUME NEW file, NEW hash \in Nat, Len(file.packages) \in Nat,
         Sorted(file, Len(file.packages))
  PROVE  Parts(file, hash, 0, Len(file.packages), LowerBound(file, hash))
  <1> DEFINE size == Len(file.packages)
             g == CHOOSE f : Halves(f, file, hash, size)
  <1>1. LowerBound(file, hash) = g[<<0, size>>]
    BY DEF LowerBound, Halves
  <1> HIDE DEF size
  <1>2. size \in Nat /\ Sorted(file, size)
    BY DEF size
  <1>3. \E f : Halves(f, file, hash, size)
    BY <1>2, HalvesExists
  <1>4. Halves(g, file, hash, size)
    BY <1>3
  <1> HIDE DEF g
  <1> DEFINE G == {n \in 0..size : \A l, u \in 0..size :
                      l <= u /\ u - l <= n => Parts(file, hash, l, u, g[<<l, u>>])}
  <1>5. ASSUME NEW l \in 0..size, NEW u \in 0..size, l = u
        PROVE  Parts(file, hash, l, u, g[<<l, u>>])
    <2>1. l >= u /\ l \in Nat
      BY <1>5, SMTT(30)
    <2> DEFINE m == l + (u - l) \div 2
    <2>2. Half(m, l, u)
      BY DEF Half
    <2> HIDE DEF m
    <2>3. g[<<l, u>>] = IF l >= u THEN l
                        ELSE IF file.packages[m + 1].hash < hash
                             THEN g[<<m + 1, u>>] ELSE g[<<l, m>>]
      BY <1>2, <1>4, <2>2, HalvesAt, SMTT(30)
    <2>4. g[<<l, u>>] = l
      BY <2>1, <2>3
    <2> QED
      BY <1>5, <2>1, <2>4, PartEmpty
  <1>6. 0 \in G
    <2>1. \A l, u \in 0..size : l <= u /\ u - l <= 0 => l = u
      BY <1>2, SMTT(30)
    <2>2. 0 \in 0..size
      BY <1>2, SMTT(30)
    <2> QED
      BY <1>5, <2>1, <2>2
  <1>7. ASSUME NEW k \in 1..size, k - 1 \in G PROVE k \in G
    <2>1. k \in 0..size
      BY <1>2, SMTT(30)
    <2>2. ASSUME NEW l \in 0..size, NEW u \in 0..size, l <= u, u - l <= k
          PROVE  Parts(file, hash, l, u, g[<<l, u>>])
      <3>1. CASE l = u
        BY <1>5, <3>1
      <3>2. CASE l # u
        <4>1. l < u /\ ~(l >= u) /\ l \in Nat /\ u \in Nat
          BY <1>2, <2>2, <3>2, SMTT(30)
        <4> DEFINE m == l + (u - l) \div 2
        <4>2. Half(m, l, u)
          BY DEF Half
        <4> HIDE DEF m
        <4>3. m \in l..u - 1 /\ m \in 0..size /\ m + 1 \in 0..size
          BY <1>2, <4>1, <4>2, PartHalf
        <4>4. m + 1 <= u /\ l <= m /\ u - (m + 1) <= k - 1 /\ m - l <= k - 1
          BY <2>2, <4>1, <4>3, SMTT(30)
        <4>5. g[<<l, u>>] = IF l >= u THEN l
                            ELSE IF file.packages[m + 1].hash < hash
                                 THEN g[<<m + 1, u>>] ELSE g[<<l, m>>]
          BY <1>2, <1>4, <4>2, HalvesAt, SMTT(30)
        <4>6. Parts(file, hash, m + 1, u, g[<<m + 1, u>>])
          BY <1>7, <4>3, <4>4
        <4>7. Parts(file, hash, l, m, g[<<l, m>>])
          BY <1>7, <4>3, <4>4
        <4>8. CASE file.packages[m + 1].hash < hash
          <5>1. Parts(file, hash, l, u, g[<<m + 1, u>>])
            <6> DEFINE x == g[<<m + 1, u>>]
            <6> HIDE DEF x
            <6>1. Parts(file, hash, m + 1, u, x)
              BY <4>6 DEF x
            <6>2. Parts(file, hash, l, u, x)
              BY <1>2, <4>1, <4>2, <4>8, <6>1, PartHalf
            <6> QED
              BY <6>2 DEF x
          <5> QED
            BY <4>1, <4>5, <4>8, <5>1
        <4>9. CASE ~(file.packages[m + 1].hash < hash)
          <5>1. Parts(file, hash, l, u, g[<<l, m>>])
            BY <1>2, <4>1, <4>2, <4>7, <4>9, PartHalf
          <5> QED
            BY <4>1, <4>5, <4>9, <5>1
        <4> QED
          BY <4>8, <4>9
      <3> QED
        BY <3>1, <3>2
    <2> QED
      BY <2>1, <2>2
  <1> HIDE DEF G
  <1>8. \A n \in 0..size : n \in G
    BY <1>2, <1>6, <1>7, UpTo
  <1>9. size \in 0..size /\ 0 \in 0..size /\ 0 <= size /\ size - 0 <= size
    BY <1>2, SMTT(30)
  <1>10. Parts(file, hash, 0, size, g[<<0, size>>])
    BY <1>8, <1>9 DEF G
  <1> QED
    BY <1>1, <1>10 DEF size

(* FindPackageEntry finds the entry of a package, past the entries that    *)
(* share its hash, and nothing for a package without one.                  *)
LEMMA FoundEntry ==
  ASSUME NEW file, NEW apps \in Seq(PolicyApp), Written(file, apps), Ascends(apps),
         NEW package \in DOMAIN PackageNameHash
  PROVE  /\ \A i \in 1..Len(apps) :
               apps[i].package = package => FindPackageEntry(file, package) = {i}
         /\ (\A i \in 1..Len(apps) : apps[i].package # package) =>
               FindPackageEntry(file, package) = {}
  <1> DEFINE n == Len(apps)
             hash == PackageNameHash[package]
             at == LowerBound(file, hash)
             lower == at + 1
             run == {i \in lower..Len(file.packages) :
                        \A j \in lower..i : file.packages[j].hash = hash}
             found == {i \in run : file.packages[i].package = package}
  <1>1. n \in Nat /\ Len(file.packages) = n
    BY SMTT(30) DEF Written
  <1>2. hash \in Nat
    BY FileAssumption
  <1>3. /\ Sorted(file, n)
        /\ \A i, j \in 1..n : file.packages[i].package = file.packages[j].package => i = j
    BY EntryOrder
  <1>4. \A i \in 1..n : /\ file.packages[i].package = apps[i].package
                        /\ apps[i].package = package => file.packages[i].hash = hash
    BY DEF Written, EntryOf
  <1> HIDE DEF n, hash
  <1>5. Parts(file, hash, 0, n, at)
    BY <1>1, <1>2, <1>3, LowerBoundParts
  <1> HIDE DEF at
  <1>6. at \in 0..n /\ \A k \in 0 + 1..at : file.packages[k].hash < hash
    BY <1>5 DEF Parts
  <1>7. \A k \in at + 1..n : ~(file.packages[k].hash < hash)
    BY <1>5 DEF Parts
  <1>8. FindPackageEntry(file, package) = {i \in found : \A j \in found : i <= j}
    BY DEF FindPackageEntry, hash, at
  <1>9. \A i \in found : i \in 1..n /\ apps[i].package = package
    <2> TAKE i \in found
    <2>1. i \in lower..n /\ file.packages[i].package = package
      BY <1>1
    <2>2. i \in 1..n
      BY <1>1, <1>6, <2>1, SMTT(30)
    <2> QED
      BY <1>4, <2>1, <2>2
  <1>10. ASSUME NEW i \in 1..n, apps[i].package = package PROVE i \in found
    <2>1. file.packages[i].hash = hash /\ file.packages[i].package = package
      BY <1>4, <1>10
    <2>2. i \in lower..n
      <3>1. ~(i <= at)
        <4> SUFFICES ASSUME i <= at PROVE FALSE
          OBVIOUS
        <4>1. i \in 0 + 1..at
          BY <1>1, <1>6, SMTT(30)
        <4>2. hash < hash
          BY <1>6, <2>1, <4>1
        <4> QED
          BY <1>2, <4>2, SMTT(30)
      <3> QED
        BY <1>1, <1>6, <3>1, SMTT(30)
    <2>3. ASSUME NEW j \in lower..i PROVE file.packages[j].hash = hash
      <3>1. j \in at + 1..n /\ j \in 1..n /\ j <= i
        BY <1>1, <1>6, <2>2, SMTT(30)
      <3>2. /\ ~(file.packages[j].hash < hash)
            /\ file.packages[j].hash <= hash /\ file.packages[j].hash \in Nat
        BY <1>3, <1>7, <2>1, <3>1 DEF Sorted
      <3> QED
        BY <1>2, <3>2, SMTT(30)
    <2> QED
      BY <1>1, <2>1, <2>2, <2>3
  <1> HIDE DEF found
  <1>11. ASSUME NEW i \in 1..n, apps[i].package = package
         PROVE  FindPackageEntry(file, package) = {i}
    <2>1. \A j \in found : j = i
      BY <1>3, <1>4, <1>9, <1>11
    <2>2. i <= i
      BY <1>1, SMTT(30)
    <2> QED
      BY <1>8, <1>10, <1>11, <2>1, <2>2
  <1>12. ASSUME \A i \in 1..n : apps[i].package # package
         PROVE  FindPackageEntry(file, package) = {}
    BY <1>8, <1>9, <1>12
  <1> QED
    BY <1>11, <1>12 DEF n

(* What the paths of a plan add up to is a number. *)
LEMMA PlanBytesNat ==
  ASSUME NEW mounts, Len(mounts) \in Nat,
         \A i \in 1..Len(mounts) : /\ Len(mounts[i].visible) \in Nat
                                   /\ Len(mounts[i].backing) \in Nat
  PROVE  PlanBytes(mounts) \in Nat
  <1> DEFINE size == Len(mounts)
             more(x, n) == x + Len(mounts[n].visible) + Len(mounts[n].backing) + 2
             Eq(g) == g = [n \in 0..size |-> IF n = 0 THEN 1 ELSE more(g[n - 1], n)]
             p == CHOOSE g : Eq(g)
             next == [k \in 1..size |-> [x \in Nat |-> more(x, k)]]
  <1>1. PlanBytes(mounts) = p[size]
    BY DEF PlanBytes
  <1> HIDE DEF p
  <1>2. size \in Nat /\ size \in 0..size /\ 0 \in 0..size /\ 1 \in Nat
    BY SMTT(30)
  <1>3. ASSUME NEW k \in 1..size, NEW x \in Nat PROVE more(x, k) \in Nat
    <2> DEFINE v == Len(mounts[k].visible)
               b == Len(mounts[k].backing)
    <2>1. v \in Nat /\ b \in Nat
      OBVIOUS
    <2> HIDE DEF v, b
    <2>2. x + v + b + 2 \in Nat
      BY <2>1, SMTT(30)
    <2> QED
      BY <2>2 DEF v, b
  <1> HIDE DEF more, size
  <1>4. \A k \in 1..size, x \in Nat : next[k][x] = more(x, k)
    OBVIOUS
  <1>5. Recursive(Nat, size, 1, next)
    <2>1. ASSUME NEW k \in 1..size PROVE next[k] \in [Nat -> Nat]
      BY <1>3
    <2>2. next \in [1..size -> [Nat -> Nat]]
      BY <2>1
    <2> QED
      BY <1>2, <2>2 DEF Recursive
  <1> HIDE DEF next
  <1>6. PICK g : Solution(g, Nat, size, 1, next)
    BY <1>2, <1>5, Recursion
  <1>7. \A k \in 0..size : k # 0 => k \in 1..size /\ k - 1 \in 0..size
    BY <1>2, SMTT(30)
  <1>8. \A k \in 1..size : k \in 0..size /\ k # 0
    BY <1>2, SMTT(30)
  <1>9. Eq(g)
    <2>1. /\ g \in [0..size -> Nat] /\ g[0] = 1
          /\ \A k \in 1..size : g[k] = next[k][g[k - 1]]
      BY <1>6 DEF Solution
    <2>2. ASSUME NEW k \in 0..size, k # 0 PROVE g[k] = more(g[k - 1], k)
      <3>1. k \in 1..size /\ g[k - 1] \in Nat
        BY <1>7, <2>1, <2>2
      <3> QED
        BY <1>4, <2>1, <3>1
    <2> QED
      BY <2>1, <2>2
  <1>10. Eq(p)
    BY <1>9 DEF p
  <1> DEFINE G == {k \in 0..size : p[k] \in Nat}
  <1>11. 0 \in G
    BY <1>2, <1>10
  <1>12. ASSUME NEW k \in 1..size, k - 1 \in G PROVE k \in G
    <2>1. p[k] = more(p[k - 1], k)
      BY <1>8, <1>10
    <2> QED
      BY <1>3, <1>8, <1>12, <2>1
  <1> HIDE DEF G
  <1>13. \A k \in 0..size : k \in G
    BY <1>2, <1>11, <1>12, UpTo
  <1> QED
    BY <1>1, <1>2, <1>13 DEF G

-----------------------------------------------------------------------------
(* What the module and the daemon read *)

(* Rules in canonical form are ones the module executes. *)
LEMMA RulesExecutable ==
  ASSUME NEW a \in PolicyApp, ValidPolicy(a), NEW i \in 1..Len(a.mounts),
         \A r \in Range(a.mounts) : Package \notin Range(r.backing)
  PROVE  ExecutableRule(a.mounts[i])
  <1>1. a.mounts \in Seq(PolicyRule)
    BY SMTT(30) DEF PolicyApp
  <1>2. DOMAIN a.mounts = 1..Len(a.mounts) /\ a.mounts[i] \in PolicyRule
    BY <1>1, SMTT(30)
  <1>3. /\ Placeholders \cap Range(a.mounts[i].visible) = {}
        /\ Brace \notin Range(a.mounts[i].backing)
    BY <1>2 DEF ValidPolicy
  <1>4. Package \notin Range(a.mounts[i].backing)
    BY <1>2 DEF Range
  <1>5. /\ a.mounts[i].action \in {Deny, Redirect} /\ a.mounts[i].visible # << >>
        /\ a.mounts[i].action = Deny <=> a.mounts[i].backing = << >>
    BY <1>2 DEF PolicyRule
  <1> QED
    BY <1>3, <1>5, <1>4 DEF ExecutableRule

(* The list of expanded rules has each of them once. *)
LEMMA ExpandedRules ==
  ASSUME NEW a \in PolicyApp, ValidPolicy(a), NEW user, NEW mounts,
         mounts = [i \in DOMAIN a.mounts |-> ExpandRule(a.mounts[i], user)]
  PROVE  LET rules == {ExpandRule(r, user) : r \in Range(a.mounts)}
         IN  /\ Range(mounts) = rules
             /\ Cardinality(rules) = Len(a.mounts)
             /\ mounts \in Listings(rules)
             /\ PlanBytes(mounts) \in Nat
  <1> DEFINE n == Len(a.mounts)
             rules == {ExpandRule(r, user) : r \in Range(a.mounts)}
  <1>1. a.mounts \in Seq(PolicyRule)
    BY SMTT(30) DEF PolicyApp
  <1>2. /\ n \in Nat /\ DOMAIN a.mounts = 1..n
        /\ Range(a.mounts) = {a.mounts[i] : i \in 1..n}
    BY <1>1, ListRange
  <1>3. \A i \in 1..n : a.mounts[i] \in PolicyRule
    BY <1>1, <1>2, SMTT(30)
  <1>4. \A i, j \in 1..n : a.mounts[i].visible = a.mounts[j].visible => i = j
    BY <1>2 DEF ValidPolicy
  <1>5. \A r \in PolicyRule : ExpandRule(r, user).visible = r.visible
    <2> TAKE r \in PolicyRule
    <2> DEFINE b == ExpandRuntimePath(r.backing, user)
    <2>1. ExpandRule(r, user) = [r EXCEPT !.backing = b]
      BY DEF ExpandRule
    <2> HIDE DEF b
    <2> QED
      BY <2>1, SMTT(30) DEF PolicyRule
  <1>6. mounts = [i \in 1..n |-> ExpandRule(a.mounts[i], user)]
    BY <1>2
  <1> HIDE DEF n
  <1>7. /\ DOMAIN mounts = 1..n
        /\ \A i \in 1..n : mounts[i] = ExpandRule(a.mounts[i], user)
    BY <1>6
  <1>8. Range(mounts) = {mounts[i] : i \in 1..n}
    BY <1>7 DEF Range
  <1>9. Range(mounts) = rules
    <2>1. \A x : x \in Range(mounts) => x \in rules
      BY <1>2, <1>7, <1>8
    <2>2. \A x : x \in rules => x \in Range(mounts)
      BY <1>2, <1>7, <1>8
    <2> QED
      BY <2>1, <2>2
  <1> HIDE DEF rules
  <1>10. mounts \in [1..n -> rules]
    BY <1>6, <1>7, <1>8, <1>9
  <1>11. \A i, j \in 1..n : mounts[i] = mounts[j] => i = j
    <2> SUFFICES ASSUME NEW i \in 1..n, NEW j \in 1..n, mounts[i] = mounts[j]
                 PROVE  i = j
      OBVIOUS
    <2>1. mounts[i].visible = a.mounts[i].visible /\ mounts[j].visible = a.mounts[j].visible
      BY <1>3, <1>5, <1>7
    <2> QED
      BY <1>4, <2>1
  <1>12. mounts \in Bijection(1..n, rules)
    <2>1. mounts \in Injection(1..n, rules)
      <3>1. \A i, j \in DOMAIN mounts : mounts[i] = mounts[j] => i = j
        BY <1>7, <1>11
      <3>2. IsInjective(mounts)
        BY <3>1 DEF IsInjective
      <3> QED
        BY <1>10, <3>2 DEF Injection
    <2>2. mounts \in Surjection(1..n, rules)
      BY <1>8, <1>9, <1>10 DEF Surjection
    <2> QED
      BY <2>1, <2>2 DEF Bijection
  <1>13. Cardinality(rules) = n
    BY <1>2, <1>12, FS_CountingElements DEF ExistsBijection
  <1>14. mounts \in Listings(rules)
    BY <1>9, <1>10, <1>13 DEF Listings
  <1>15. ASSUME NEW r \in PolicyRule
         PROVE  /\ Len(ExpandRule(r, user).visible) \in Nat
                /\ Len(ExpandRule(r, user).backing) \in Nat
    <2> DEFINE b == ExpandRuntimePath(r.backing, user)
    <2>1. r.visible \in Seq(Nat) /\ r.backing \in Seq(Nat)
      BY SMTT(30) DEF PolicyRule
    <2>2. Len(b) \in Nat
      BY <2>1, SMTT(30) DEF ExpandRuntimePath
    <2> HIDE DEF b
    <2>3. ExpandRule(r, user) = [r EXCEPT !.backing = b]
      BY DEF ExpandRule, b
    <2>4. ExpandRule(r, user).backing = b
      BY <2>3, SMTT(30) DEF PolicyRule
    <2>5. Len(r.visible) \in Nat
      BY <2>1, SMTT(30)
    <2> QED
      BY <1>5, <2>2, <2>4, <2>5
  <1>16. Len(mounts) = n
    BY <1>2, <1>7, SMTT(30)
  <1>17. PlanBytes(mounts) \in Nat
    <2>1. \A i \in 1..Len(mounts) : /\ Len(mounts[i].visible) \in Nat
                                    /\ Len(mounts[i].backing) \in Nat
      BY <1>3, <1>7, <1>15, <1>16
    <2> QED
      BY <1>2, <1>16, <2>1, PlanBytesNat
  <1> QED
    BY <1>9, <1>13, <1>14, <1>17 DEF n, rules

(* The rules of an entry for a user, and what LoadProcessPlan asks of it. *)
PlanMounts(file, entry, user) ==
    LET rules == MountsOf(file, entry)
    IN  [i \in DOMAIN rules |-> ExpandRule(rules[i], user)]
Fits(file, entry, process, user) ==
    LET rules == MountsOf(file, entry)
    IN  /\ Covers(entry, process, user)
        /\ entry.count > 0 /\ entry.count <= MaxMountRules
        /\ \A i \in DOMAIN rules : ExecutableRule(rules[i])
        /\ PlanBytes(PlanMounts(file, entry, user)) <= MaxPlanPathBytes

(* LoadProcessPlan in its steps. *)
LEMMA LoadedPlan ==
  ASSUME NEW file, NEW process, NEW uid, NEW user, user = uid \div PerUser,
         file.packages # << >>, ValidPackageIndex(file), ValidPolicyTables(file)
  PROVE  LET found == FindPackageEntry(file, PackageOf(process))
             plan == LoadProcessPlan(file, process, uid)
         IN  /\ found = {} => plan = NoPlan
             /\ \A at : found = {at} =>
                   LET entry == file.packages[at]
                   IN  IF Fits(file, entry, process, user)
                       THEN plan.mounts = PlanMounts(file, entry, user)
                       ELSE plan = NoPlan
  <1>1. ASSUME FindPackageEntry(file, PackageOf(process)) = {}
        PROVE  LoadProcessPlan(file, process, uid) = NoPlan
    BY <1>1 DEF LoadProcessPlan
  <1>2. ASSUME NEW at, FindPackageEntry(file, PackageOf(process)) = {at}
        PROVE  LET entry == file.packages[at]
                   plan == LoadProcessPlan(file, process, uid)
               IN  IF Fits(file, entry, process, user)
                   THEN plan.mounts = PlanMounts(file, entry, user)
                   ELSE plan = NoPlan
    <2> DEFINE entry == file.packages[at]
               mounts == PlanMounts(file, entry, user)
               fits == Fits(file, entry, process, user)
               plan == [process |-> process, mounts |-> mounts,
                        generation |-> file.generation,
                        plan_generation |-> entry.plan_generation, legacy |-> file.legacy,
                        provider |-> entry.provider]
    <2>1. (CHOOSE i \in {at} : TRUE) = at /\ {at} # {}
      OBVIOUS
    <2>2. LoadProcessPlan(file, process, uid) = IF fits THEN plan ELSE NoPlan
      BY <1>2, <2>1 DEF LoadProcessPlan, PlanMounts, Fits
    <2> HIDE DEF fits, mounts
    <2>3. plan.mounts = mounts
      BY SMTT(30)
    <2> HIDE DEF plan
    <2> QED
      BY <2>2, <2>3 DEF fits, mounts
  <1> QED
    BY <1>1, <1>2

(* What LoadProcessPlan reads in the file of a document is what the        *)
(* document asks for: hash index, scope, order and rule table lose nothing *)
(* and add nothing, and only the module's limits turn a process away.      *)
THEOREM FileFaithful == FileIsFaithful
  <1> SUFFICES ASSUME NEW gen \in Gens, NEW process \in Processes, NEW uid \in Uids
               PROVE  LET plan == LoadProcessPlan(EncodePolicy(Documents[gen]), process, uid)
                          asked == RulesFor(gen, process, uid)
                      IN  IF plan = NoPlan THEN asked = {} \/ BeyondLimits(asked)
                          ELSE asked # {} /\ Range(plan.mounts) = asked
    BY DEF FileIsFaithful
  <1> DEFINE d == Documents[gen]
             file == EncodePolicy(d)
             apps == FileApps(d)
             plan == LoadProcessPlan(file, process, uid)
             asked == RulesFor(gen, process, uid)
             user == uid \div PerUser
             package == PackageOf(process)
             scoped(a) == /\ a.package = package
                          /\ a.users = Star \/ user \in Range(a.users)
                          /\ a.processes = Star \/ process \in Range(a.processes)
  <1>1. d \in PolicyDocument /\ Encodable(d) /\ package \in DOMAIN PackageNameHash
    BY DocumentsAssumption, ProcessesAssumption
  <1>2. AppsFor(gen, process, uid) = {d.apps[i] : i \in {j \in DOMAIN d.apps : scoped(d.apps[j])}}
    BY DEF AppsFor
  <1>3. asked = {ExpandRule(NormalizeBacking(r, package), user) :
                    r \in UNION {Range(a.mounts) : a \in AppsFor(gen, process, uid)}}
    BY DEF RulesFor
  <1> HIDE DEF d, user, package
  <1>4. /\ d.apps \in Seq(PolicyApp) /\ DOMAIN d.apps = 1..Len(d.apps)
        /\ \A i \in 1..Len(d.apps) : d.apps[i] \in PolicyApp /\ ValidPolicy(d.apps[i])
    BY <1>1, CanonicalDocument
  <1>5. /\ apps \in Seq(PolicyApp) /\ Ascends(apps) /\ Len(apps) = Len(d.apps)
        /\ \A i \in 1..Len(apps) : apps[i] \in PolicyApp /\ ValidPolicy(apps[i])
        /\ \E p : Arranges(p, apps, d)
    BY <1>1, FileAppsFacts
  <1>6. Written(file, apps) /\ ValidPolicyTables(file) /\ file.packages # << >>
    BY <1>1, FileEntries
  <1> HIDE DEF file, apps
  <1>7. ValidPackageIndex(file)
    BY <1>5, <1>6, FileIndex
  <1>8. PICK p : Arranges(p, apps, d)
    BY <1>5
  <1>9. /\ \A i \in 1..Len(apps) : p[i] \in 1..Len(d.apps) /\ Agrees(apps[i], d.apps[p[i]])
        /\ \A k \in 1..Len(d.apps) : \E i \in 1..Len(apps) : p[i] = k
    BY <1>4, <1>8, CanonicalApp DEF Arranges
  <1>10. CASE \A i \in 1..Len(apps) : apps[i].package # package
    <2>1. plan = NoPlan
      <3>1. FindPackageEntry(file, PackageOf(process)) = {}
        BY <1>1, <1>5, <1>6, <1>10, FoundEntry DEF package
      <3> QED
        BY <1>6, <1>7, <3>1, LoadedPlan
    <2>2. ASSUME NEW k \in 1..Len(d.apps) PROVE d.apps[k].package # package
      <3>1. PICK i \in 1..Len(apps) : p[i] = k
        BY <1>9
      <3>2. apps[i].package = d.apps[k].package
        BY <1>9, <3>1 DEF Agrees
      <3> QED
        BY <1>10, <3>2
    <2>3. AppsFor(gen, process, uid) = {}
      BY <1>2, <1>4, <2>2
    <2>4. asked = {}
      BY <1>3, <2>3
    <2> QED
      BY <2>1, <2>4 DEF file, d
  <1>11. ASSUME NEW at \in 1..Len(apps), apps[at].package = package
         PROVE  IF plan = NoPlan THEN asked = {} \/ BeyondLimits(asked)
                ELSE asked # {} /\ Range(plan.mounts) = asked
    <2> DEFINE c == apps[at]
               a == d.apps[p[at]]
               entry == file.packages[at]
               mounts == [i \in DOMAIN c.mounts |-> ExpandRule(c.mounts[i], user)]
               rules == {ExpandRule(r, user) : r \in Range(c.mounts)}
               fits == /\ Covers(entry, process, user)
                       /\ entry.count > 0 /\ entry.count <= MaxMountRules
                       /\ \A i \in DOMAIN c.mounts : ExecutableRule(c.mounts[i])
                       /\ PlanBytes(mounts) <= MaxPlanPathBytes
    <2>1. FindPackageEntry(file, PackageOf(process)) = {at}
      BY <1>1, <1>5, <1>6, <1>11, FoundEntry DEF package
    <2>2. /\ entry.package = c.package /\ entry.users = c.users
          /\ entry.processes = c.processes /\ entry.count = Len(c.mounts)
          /\ MountsOf(file, entry) = c.mounts
      BY <1>6 DEF Written, EntryOf
    <2>3. (fits => plan.mounts = mounts) /\ (~fits => plan = NoPlan)
      <3>1. IF Fits(file, entry, process, user)
            THEN plan.mounts = PlanMounts(file, entry, user)
            ELSE plan = NoPlan
        BY <1>6, <1>7, <2>1, LoadedPlan DEF user
      <3>2. PlanMounts(file, entry, user) = mounts
        BY <2>2 DEF PlanMounts
      <3>3. Fits(file, entry, process, user) <=> fits
        BY <2>2, <3>2 DEF Fits
      <3> QED
        BY <3>1, <3>2, <3>3
    <2>4. /\ Range(mounts) = rules /\ Cardinality(rules) = Len(c.mounts)
          /\ mounts \in Listings(rules) /\ PlanBytes(mounts) \in Nat
      BY <1>5, ExpandedRules
    <2>5. p[at] \in 1..Len(d.apps) /\ Agrees(c, a) /\ c.package = package
      BY <1>9, <1>11
    <2>6. c.mounts \in Seq(PolicyRule) /\ c \in PolicyApp /\ ValidPolicy(c)
      BY <1>5, SMTT(30) DEF PolicyApp
    <2>7. /\ Len(c.mounts) \in Nat /\ DOMAIN c.mounts = 1..Len(c.mounts)
          /\ Range(c.mounts) = {c.mounts[i] : i \in 1..Len(c.mounts)}
      BY <2>6, ListRange
    <2>8. \A i \in DOMAIN c.mounts : ExecutableRule(c.mounts[i])
      BY <2>5, <2>6, <2>7, RulesExecutable DEF Agrees
    <2>9. Covers(entry, process, user) <=> scoped(a)
      <3>1. PackageOf(process) = package
        BY DEF package
      <3> QED
        BY <2>2, <2>5, <3>1 DEF Covers, ProcessMatches, ListContains, Agrees
    <2>10. \A k \in 1..Len(d.apps) : d.apps[k].package = package => k = p[at]
      BY <1>1, <1>4, <2>5 DEF Encodable, Agrees
    <2>11. AppsFor(gen, process, uid) = IF scoped(a) THEN {a} ELSE {}
      BY <1>2, <1>4, <2>5, <2>10
    <2>12. asked = IF scoped(a) THEN rules ELSE {}
      <3>1. Range(c.mounts) = {NormalizeBacking(r, package) : r \in Range(a.mounts)}
        BY <2>5 DEF Agrees
      <3>2. rules = {ExpandRule(NormalizeBacking(r, package), user) : r \in Range(a.mounts)}
        <4>1. \A x : x \in rules
                 <=> x \in {ExpandRule(NormalizeBacking(r, package), user) : r \in Range(a.mounts)}
          BY <3>1
        <4> QED
          BY <4>1
      <3>3. CASE scoped(a)
        <4>1. UNION {Range(x.mounts) : x \in AppsFor(gen, process, uid)} = Range(a.mounts)
          BY <2>11, <3>3
        <4> QED
          BY <1>3, <3>3, <3>2, <4>1
      <3>4. CASE ~scoped(a)
        BY <1>3, <2>11, <3>4
      <3> QED
        BY <3>3, <3>4
    <2> HIDE DEF scoped, a, mounts, c, entry
    <2>13. CASE ~scoped(a)
      BY <2>3, <2>9, <2>12, <2>13
    <2>14. CASE scoped(a) /\ fits
      <3>1. Len(c.mounts) > 0
        BY <2>2, <2>14
      <3>2. 1 \in 1..Len(c.mounts)
        BY <2>7, <3>1, SMTT(30)
      <3>3. rules # {}
        BY <2>7, <3>2
      <3>4. plan.mounts = mounts /\ asked = rules /\ Range(mounts) = rules
        BY <2>3, <2>4, <2>12, <2>14
      <3>5. plan # NoPlan
        <4>1. DOMAIN NoPlan.mounts = {}
          BY SMTT(30) DEF NoPlan
        <4>2. Range(NoPlan.mounts) = {}
          BY <4>1 DEF Range
        <4> QED
          BY <3>3, <3>4, <4>2
      <3> QED
        BY <3>3, <3>4, <3>5
    <2>15. CASE scoped(a) /\ ~fits
      <3>1. plan = NoPlan /\ asked = rules
        BY <2>3, <2>12, <2>15
      <3>2. \/ ~(Len(c.mounts) > 0)
            \/ ~(Len(c.mounts) <= MaxMountRules)
            \/ ~(PlanBytes(mounts) <= MaxPlanPathBytes)
        BY <2>2, <2>8, <2>9, <2>15
      <3>3. CASE ~(Len(c.mounts) > 0)
        <4>1. 1..Len(c.mounts) = {}
          BY <2>7, <3>3, SMTT(30)
        <4>2. rules = {}
          BY <2>7, <4>1
        <4> QED
          BY <3>1, <4>2
      <3>4. CASE ~(Len(c.mounts) <= MaxMountRules)
        <4>1. Cardinality(rules) > MaxMountRules
          BY <2>4, <2>7, <3>4, FileAssumption, SMTT(30)
        <4> QED
          BY <3>1, <4>1 DEF BeyondLimits
      <3>5. CASE ~(PlanBytes(mounts) <= MaxPlanPathBytes)
        <4>1. PlanBytes(mounts) > MaxPlanPathBytes
          BY <2>4, <3>5, FileAssumption, SMTT(30)
        <4> QED
          BY <2>4, <3>1, <4>1 DEF BeyondLimits
      <3> QED
        BY <3>2, <3>3, <3>4, <3>5
    <2> QED
      BY <2>13, <2>14, <2>15
  <1> QED
    BY <1>10, <1>11 DEF file, d

(* Both readers accept the file of a document, and the daemon's reads the  *)
(* document back.                                                          *)
LEMMA EncodedReadsBack ==
  ASSUME NEW d \in PolicyDocument, Encodable(d)
  PROVE  /\ DecodePolicy(EncodePolicy(d))
         /\ Range(DecodedDocument(EncodePolicy(d)).apps) = Range(CanonicalizeDocument(d).apps)
  <1> DEFINE file == EncodePolicy(d)
             apps == FileApps(d)
             canonical == CanonicalizeDocument(d)
             n == Len(apps)
             read == DecodedDocument(file)
  <1>1. /\ apps \in Seq(PolicyApp) /\ Ascends(apps)
        /\ Range(apps) = Range(canonical.apps)
        /\ \A i \in 1..n : /\ apps[i] \in PolicyApp /\ ValidPolicy(apps[i])
                           /\ ValidatePolicy(apps[i]) = apps[i]
    BY FileAppsFacts
  <1>2. /\ file.legacy = d.legacy /\ file.generation = ContentGeneration(canonical)
        /\ Written(file, apps) /\ ValidPolicyTables(file) /\ file.packages # << >>
    BY FileEntries
  <1>3. canonical.legacy = d.legacy
    BY CanonicalDocument
  <1> HIDE DEF file, apps, canonical
  <1>4. ValidPackageIndex(file)
    BY <1>1, <1>2, FileIndex
  <1>5. ASSUME NEW i \in 1..n PROVE DecodedApp(file, file.packages[i]) = apps[i]
    <2>1. DecodedApp(file, file.packages[i])
            = [package |-> apps[i].package, users |-> apps[i].users,
               processes |-> apps[i].processes, provider |-> apps[i].provider,
               mounts |-> apps[i].mounts]
      BY <1>2 DEF DecodedApp, Written, EntryOf
    <2>2. apps[i] \in PolicyApp
      BY <1>1
    <2> QED
      BY <2>1, <2>2, SMTT(30) DEF PolicyApp
  <1>6. DOMAIN file.packages = 1..n /\ n \in Nat /\ DOMAIN apps = 1..n
    BY <1>1, <1>2, SMTT(30) DEF Written
  <1>7. ASSUME NEW i \in 1..n
        PROVE  LET a == DecodedApp(file, file.packages[i])
               IN  /\ Splits(a.users) /\ Splits(a.processes)
                   /\ ValidPolicy(a)
                   /\ ValidatePolicy(a).mounts = a.mounts
                   /\ PlanGeneration(ValidatePolicy(a), file.legacy)
                        = file.packages[i].plan_generation
    <2>1. apps[i].users \in NameList /\ apps[i].processes \in NameList
      BY <1>1, SMTT(30) DEF PolicyApp
    <2>2. Splits(apps[i].users) /\ Splits(apps[i].processes)
      BY <2>1, JoinKeeps
    <2>3. file.packages[i].plan_generation = PlanGeneration(apps[i], file.legacy)
      BY <1>2 DEF Written, EntryOf
    <2> QED
      BY <1>1, <1>5, <2>2, <2>3
  <1>8. read.legacy = file.legacy /\ read.apps = apps /\ read = [legacy |-> file.legacy, apps |-> apps]
    <2>1. [i \in DOMAIN file.packages |-> DecodedApp(file, file.packages[i])]
            = [i \in 1..n |-> apps[i]]
      BY <1>5, <1>6
    <2>2. [i \in 1..n |-> apps[i]] = apps
      BY <1>1, <1>6, SMTT(30)
    <2>3. read = [legacy |-> file.legacy, apps |-> apps]
      BY <2>1, <2>2 DEF DecodedDocument
    <2> QED
      BY <2>3, SMTT(30)
  <1> HIDE DEF read
  <1>9. CanonicalizeDocument(read) = read
    <2>1. CanonicalizeDocument(read)
            = [read EXCEPT !.apps = [i \in DOMAIN read.apps |-> ValidatePolicy(read.apps[i])]]
      BY DEF CanonicalizeDocument
    <2>2. [i \in DOMAIN read.apps |-> ValidatePolicy(read.apps[i])] = [i \in 1..n |-> apps[i]]
      BY <1>1, <1>6, <1>8
    <2>3. [i \in 1..n |-> apps[i]] = apps
      BY <1>1, <1>6, SMTT(30)
    <2>4. CanonicalizeDocument(read) = [read EXCEPT !.apps = apps]
      BY <2>1, <2>2, <2>3
    <2> QED
      BY <1>8, <2>4, SMTT(30)
  <1>10. ContentGeneration(CanonicalizeDocument(read)) = file.generation
    BY <1>1, <1>2, <1>3, <1>8, <1>9 DEF ContentGeneration
  <1>11. DecodePolicy(file)
    BY <1>2, <1>4, <1>6, <1>7, <1>10 DEF DecodePolicy, read
  <1>12. Range(read.apps) = Range(canonical.apps)
    BY <1>1, <1>8
  <1> QED
    BY <1>11, <1>12 DEF file, canonical, read

-----------------------------------------------------------------------------
(* Launches and the document *)

(* The lease is asked for with the rules of the policy in place at the     *)
(* worker's look, whatever is published between the looks.                 *)
THEOREM LeasedPolicy == LaunchSpec => []LeasedPlanIsPolicy
  <1>1. SteadyInv => LeasedPlanIsPolicy
    <2> SUFFICES ASSUME SteadyInv, app.pc = "lease"
                 PROVE  LeasedPlanIsPolicy
      BY DEF LeasedPlanIsPolicy
    <2> DEFINE plan == LoadProcessPlan(EncodePolicy(Documents[leaseGen]), app.process, app.uid)
    <2>1. app.plan # NoPlan /\ leaseGen # "none" /\ app.plan = plan
      BY SMTT(30) DEF SteadyInv, LaunchInv, LeasedPlanIsRead, SameProcessPlan
    <2>2. app.process \in Processes /\ app.uid \in Uids /\ leaseGen \in Gens
      BY <2>1, SMTT(30) DEF SteadyInv, Launched
    <2>3. IF plan = NoPlan
          THEN Wanted(leaseGen) = {} \/ BeyondLimits(Wanted(leaseGen))
          ELSE Wanted(leaseGen) # {} /\ Range(plan.mounts) = Wanted(leaseGen)
      BY <2>2, FileFaithful DEF FileIsFaithful, Wanted
    <2> HIDE DEF plan
    <2> QED
      BY <2>1, <2>3, SMTT(30) DEF LeasedPlanIsPolicy
  <1> QED
    BY <1>1, SteadyInvariance, PTL

(* A policy that stays is applied to every process it has rules for, up to *)
(* the module's limits.                                                    *)
THEOREM SteadyPolicy == LaunchSpec => []SteadyPolicyIsApplied
  <1>1. SteadyInv => SteadyPolicyIsApplied
    <2> DEFINE gen == ReadGeneration(dir)
    <2> SUFFICES ASSUME SteadyInv, ~moved, gen # "none",
                        app.pc \in {"no_plan", "policy_changed"}
                 PROVE  Wanted(gen) = {} \/ BeyondLimits(Wanted(gen))
      BY DEF SteadyPolicyIsApplied
    <2> DEFINE plan == LoadProcessPlan(EncodePolicy(Documents[gen]), app.process, app.uid)
    <2>1. Launched
      BY SMTT(30) DEF Launched
    <2>2. app.process \in Processes /\ app.uid \in Uids /\ gen \in Gens
      BY <2>1, ReadsGeneration, SMTT(30) DEF SteadyInv
    <2>3. plan = NoPlan
      BY <2>1 DEF SteadyInv, SteadyPlan, Look
    <2>4. IF plan = NoPlan
          THEN Wanted(gen) = {} \/ BeyondLimits(Wanted(gen))
          ELSE Wanted(gen) # {} /\ Range(plan.mounts) = Wanted(gen)
      BY <2>2, FileFaithful DEF FileIsFaithful, Wanted
    <2> HIDE DEF plan, gen
    <2> QED
      BY <2>3, <2>4, SMTT(30)
  <1> QED
    BY <1>1, SteadyInvariance, PTL

(* Whatever policy.bin holds, DecodePolicy accepts it and reads back the   *)
(* apps of the document that was published.                                *)
THEOREM ReadsBack == LaunchSpec => []PolicyReadsBack
  <1>1. TypeOK => PolicyReadsBack
    <2> SUFFICES ASSUME TypeOK, ReadGeneration(dir) # "none" PROVE PolicyReadsBack
      BY DEF PolicyReadsBack
    <2> DEFINE d == Documents[ReadGeneration(dir)]
    <2>1. d \in PolicyDocument /\ Encodable(d)
      BY ReadsGeneration, DocumentsAssumption
    <2> HIDE DEF d
    <2>2. /\ DecodePolicy(EncodePolicy(d))
          /\ Range(DecodedDocument(EncodePolicy(d)).apps)
                = Range(CanonicalizeDocument(d).apps)
      BY <2>1, EncodedReadsBack
    <2> QED
      BY <2>2 DEF PolicyReadsBack, d
  <1>2. SteadyInv => TypeOK
    BY DEF SteadyInv
  <1> QED
    BY <1>1, <1>2, SteadyInvariance, PTL
=============================================================================
