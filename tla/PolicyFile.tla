----------------------------- MODULE PolicyFile -----------------------------
(***************************************************************************)
(* The policy file: what EncodePolicy writes and DecodePolicy accepts      *)
(* (core/src/binary.cpp), how a package is looked up in its index          *)
(* (core/include/pathguard/policy_index.h), and what LoadProcessPlan       *)
(* (zygisk/src/module_entry.cpp) makes of it for one process.              *)
(*                                                                         *)
(* Names are numbers in byte order.  A process name is ten times its       *)
(* package plus the part after ':', 0 for none.  A path is a sequence of   *)
(* components: User stands for "{user}", Package for "{package}", Brace    *)
(* for one with any other brace, and a negative number for a user put in   *)
(* place of User.  A generation is what is hashed, so two contents never   *)
(* share one; the hash of a package name is a constant, and packages do    *)
(* share one.  The string table and the layout of the records are left     *)
(* out.                                                                    *)
(***************************************************************************)
EXTENDS Integers, Lists

CONSTANTS
    PackageNameHash,   \* [package -> Nat]
    MaxMountRules,     \* kMaxMountRules: what the module takes for one app
    MaxPlanPathBytes   \* kMaxPlanPathBytes: what their paths may add up to

ASSUME FileAssumption ==
    /\ DOMAIN PackageNameHash \subseteq Nat
    /\ PackageNameHash \in [DOMAIN PackageNameHash -> Nat]
    /\ {MaxMountRules, MaxPlanPathBytes} \subseteq Nat

Star == <<-1>>
Empty == -2
User == 0
Package == 1
Brace == 2
Placeholders == {User, Package, Brace}
Deny == 0
Redirect == 1
PerUser == 100000

(* What ToPolicyDocument (rules/src/semantic.cpp) writes: no empty path or *)
(* list, and a backing path for redirects alone.                           *)
PolicyRule ==
    {r \in [action : {Deny, Redirect}, visible : Seq(Nat), backing : Seq(Nat)] :
        r.visible # << >> /\ (r.action = Deny <=> r.backing = << >>)}
NameList == {Star} \cup (Seq(Nat) \ {<< >>})
PolicyApp ==
    [package : DOMAIN PackageNameHash, users : NameList, processes : NameList,
     provider : BOOLEAN, mounts : Seq(PolicyRule)]
PolicyDocument == [legacy : BOOLEAN, apps : Seq(PolicyApp)]

-----------------------------------------------------------------------------
(* core/src/validation.cpp *)

(* By stage, depth, visible and backing path. *)
MountKey(r) ==
    <<IF r.action = Redirect THEN 2 ELSE 3, Len(r.visible)>> \o r.visible \o r.backing
MountLess(r, s) == Precedes(MountKey(r), MountKey(s))

(* Of a known app, whose name has no brace. *)
ExpandPathPlaceholders(path, package) ==
    [i \in DOMAIN path |-> IF path[i] = Package THEN package + 3 ELSE path[i]]
NormalizeBacking(rule, package) ==
    [rule EXCEPT !.backing = ExpandPathPlaceholders(@, package)]

(* No brace in a visible path, none but the two placeholders in a target. *)
ValidPolicy(app) ==
    /\ \A i \in DOMAIN app.mounts :
          /\ Placeholders \cap Range(app.mounts[i].visible) = {}
          /\ Brace \notin Range(app.mounts[i].backing)
    /\ \A i, j \in DOMAIN app.mounts :
          app.mounts[i].visible = app.mounts[j].visible => i = j
    /\ app.provider => /\ app.users # Star
                       /\ \E i \in DOMAIN app.mounts : app.mounts[i].action = Redirect

(* ValidatePolicy also puts the package in the targets, and the users,     *)
(* processes and rules in order.                                           *)
ValidatePolicy(app) ==
    [app EXCEPT
        !.users = IF @ = Star THEN @ ELSE Sort(@, <),
        !.processes = IF @ = Star THEN @ ELSE Sort(@, <),
        !.mounts = Sort([i \in DOMAIN @ |-> NormalizeBacking(@[i], app.package)],
                        MountLess)]

-----------------------------------------------------------------------------
(* core/src/binary.cpp *)

CanonicalizeDocument(document) ==
    [document EXCEPT !.apps = [i \in DOMAIN @ |-> ValidatePolicy(@[i])]]

Encodable(document) ==
    /\ document.apps # << >>
    /\ \A i \in DOMAIN document.apps :
          /\ ValidPolicy(document.apps[i])
          /\ \A j \in DOMAIN document.apps :
                document.apps[i].package = document.apps[j].package => i = j

PlanGeneration(app, legacy) == <<app, legacy>>
ContentGeneration(document) == <<Range(document.apps), document.legacy>>

(* An empty list and a list of one empty name are the same string. *)
Join(names) == IF names = << >> THEN <<Empty>> ELSE names
Splits(joined) == Empty \notin Range(joined)

IndexKey(a) == <<PackageNameHash[a.package], a.package>>
IndexLess(a, b) == Precedes(IndexKey(a), IndexKey(b))

(* Mutant: the entries stay in the order of the rules file. *)
OrderOfFile(apps) == apps

IndexOrder(apps) == Sort(apps, IndexLess)

EncodePolicy(document) ==
    LET canonical == CanonicalizeDocument(document)
        apps == IndexOrder(canonical.apps)
        mounts == [i \in DOMAIN apps |-> apps[i].mounts]
    IN  [generation |-> ContentGeneration(canonical), legacy |-> canonical.legacy,
         packages |-> [i \in DOMAIN apps |->
            [hash |-> PackageNameHash[apps[i].package], package |-> apps[i].package,
             users |-> Join(apps[i].users), processes |-> Join(apps[i].processes),
             provider |-> apps[i].provider,
             first |-> Len(Joined(mounts, i - 1)), count |-> Len(apps[i].mounts),
             plan_generation |-> PlanGeneration(apps[i], canonical.legacy)]],
         mounts |-> Flatten(mounts)]

(* The entries ascend by hash, then name, and cut the rule table into      *)
(* consecutive pieces; DecodePolicy and the module check this alike.       *)
ValidPackageIndex(file) ==
    \A i \in DOMAIN file.packages :
        /\ file.packages[i].hash = PackageNameHash[file.packages[i].package]
        /\ i > 1 => IndexLess(file.packages[i - 1], file.packages[i])

ValidPolicyTables(file) ==
    LET end(i) == file.packages[i].first + file.packages[i].count
        n == Len(file.packages)
    IN  /\ \A i \in DOMAIN file.packages :
              /\ file.packages[i].first = IF i = 1 THEN 0 ELSE end(i - 1)
              /\ end(i) <= Len(file.mounts)
        /\ end(n) = Len(file.mounts)

MountsOf(file, entry) == SubSeq(file.mounts, entry.first + 1, entry.first + entry.count)

(* The app of one entry. *)
DecodedApp(file, entry) ==
    [package |-> entry.package, users |-> entry.users, processes |-> entry.processes,
     provider |-> entry.provider, mounts |-> MountsOf(file, entry)]

DecodedDocument(file) ==
    [legacy |-> file.legacy,
     apps |-> [i \in DOMAIN file.packages |-> DecodedApp(file, file.packages[i])]]

(* DecodePolicy: only the canonical form is accepted. *)
DecodePolicy(file) ==
    /\ file.packages # << >>
    /\ ValidPackageIndex(file)
    /\ ValidPolicyTables(file)
    /\ \A i \in DOMAIN file.packages :
          LET app == DecodedApp(file, file.packages[i])
          IN  /\ Splits(app.users) /\ Splits(app.processes)
              /\ ValidPolicy(app)
              /\ ValidatePolicy(app).mounts = app.mounts
              /\ PlanGeneration(ValidatePolicy(app), file.legacy)
                    = file.packages[i].plan_generation
    /\ ContentGeneration(CanonicalizeDocument(DecodedDocument(file))) = file.generation

-----------------------------------------------------------------------------
(* policy_index.h: the first entry whose hash is not less, then along the  *)
(* entries with that hash.  Positions count from 0, as in the code.        *)

LowerBound(file, hash) ==
    LET size == Len(file.packages)
        search[range \in (0 .. size) \X (0 .. size)] ==
            LET lower == range[1]
                upper == range[2]
                middle == lower + (upper - lower) \div 2
            IN  IF lower >= upper THEN lower
                ELSE IF file.packages[middle + 1].hash < hash
                     THEN search[<<middle + 1, upper>>] ELSE search[<<lower, middle>>]
    IN  search[<<0, size>>]

(* Mutant: only the first entry with the hash is looked at. *)
FindPackageEntryFirst(file, package) ==
    LET hash == PackageNameHash[package]
        at == LowerBound(file, hash) + 1
    IN  {i \in {at} \cap DOMAIN file.packages : file.packages[i].package = package}

(* The position of the entry, as a set of at most one. *)
FindPackageEntry(file, package) ==
    LET hash == PackageNameHash[package]
        lower == LowerBound(file, hash) + 1
        run == {i \in lower .. Len(file.packages) :
                   \A j \in lower .. i : file.packages[j].hash = hash}
        found == {i \in run : file.packages[i].package = package}
    IN  {i \in found : \A j \in found : i <= j}

-----------------------------------------------------------------------------
(* module_entry.cpp *)

PackageOf(process) == process \div 10

NoPlan == [process |-> 0, mounts |-> << >>, generation |-> <<{}, FALSE>>,
           plan_generation |-> << >>, legacy |-> FALSE, provider |-> FALSE]

ListContains(list, name) == list = Star \/ name \in Range(list)

(* Of "*" the processes of the package, which is how the entry was found. *)
ProcessMatches(package, processes, process) ==
    IF processes = Star THEN PackageOf(process) = package ELSE process \in Range(processes)

Covers(entry, process, user) ==
    /\ ProcessMatches(entry.package, entry.processes, process)
    /\ ListContains(entry.users, user)

ExpandRuntimePath(path, user) ==
    [i \in DOMAIN path |-> IF path[i] = User THEN -user - 1 ELSE path[i]]

ExecutableRule(rule) ==
    /\ rule.action \in {Deny, Redirect}
    /\ rule.visible # << >> /\ Placeholders \cap Range(rule.visible) = {}
    /\ {Package, Brace} \cap Range(rule.backing) = {}
    /\ rule.action = Deny <=> rule.backing = << >>

ExpandRule(rule, user) == [rule EXCEPT !.backing = ExpandRuntimePath(@, user)]

(* StorePlanPath: each path with its end. *)
PlanBytes(mounts) ==
    LET bytes[n \in 0 .. Len(mounts)] ==
            IF n = 0 THEN 1
            ELSE bytes[n - 1] + Len(mounts[n].visible) + Len(mounts[n].backing) + 2
    IN  bytes[Len(mounts)]

LoadProcessPlan(file, process, uid) ==
    LET user == uid \div PerUser
        found == FindPackageEntry(file, PackageOf(process))
        entry == file.packages[CHOOSE i \in found : TRUE]
        rules == MountsOf(file, entry)
        mounts == [i \in DOMAIN rules |-> ExpandRule(rules[i], user)]
    IN  IF /\ file.packages # << >> /\ ValidPackageIndex(file) /\ ValidPolicyTables(file)
           /\ found # {}
           /\ Covers(entry, process, user)
           /\ entry.count > 0 /\ entry.count <= MaxMountRules
           /\ \A i \in DOMAIN rules : ExecutableRule(rules[i])
           /\ PlanBytes(mounts) <= MaxPlanPathBytes
        THEN [process |-> process, mounts |-> mounts, generation |-> file.generation,
              plan_generation |-> entry.plan_generation, legacy |-> file.legacy,
              provider |-> entry.provider]
        ELSE NoPlan

SameProcessPlan(expected, actual) == expected = actual
=============================================================================
