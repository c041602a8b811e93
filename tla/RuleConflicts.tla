--------------------------- MODULE RuleConflicts ----------------------------
(***************************************************************************)
(* The semantic half of the rules compiler for the last app section of a   *)
(* document (rules/src/semantic.cpp): normalise the paths, sort and        *)
(* deduplicate the redirects, check them, fold the deny list, check it     *)
(* against the redirects, and encode the mount plan                        *)
(* (core/src/validation.cpp, core/src/binary.cpp).  The sections before it *)
(* count for the diagnostics they leave and for whether they encode.  The  *)
(* conflict checks look only at neighbours in byte order; the properties   *)
(* compare them with all pairs, and with what an app sees once the worker  *)
(* has mounted the plan.                                                   *)
(***************************************************************************)
EXTENDS RulePaths

CONSTANTS
    DenyPaths,        \* the paths a deny entry can name
    Sources,          \* the paths a redirect can start from
    Targets,          \* the paths a redirect can lead to
    Package,          \* the package of the section
    Flags,            \* [enabled, file_picker, all_users] records
    Earlier,          \* the sections before it: [kept, apps], the diagnostics they
                      \* left, and whether none is enabled, all encode or one does not
    MaxRedirects,     \* bound on the redirects of the section
    MaxDeny,          \* bound on its deny entries
    MaxRules,         \* bound on both together
    MaxDiagnostics    \* RulesLimits::max_diagnostics

Codes == {"resource_limit", "path_invalid", "duplicate_redirect",
          "source_target_overlap", "source_conflict", "cycle",
          "file_picker_requires_redirect", "deny_redundant",
          "deny_redirect_conflict", "policy_encode"}
Warnings == {"duplicate_redirect", "deny_redundant"}

ASSUME SectionAssumption ==
    /\ DenyPaths \cup Sources \cup Targets \subseteq Seq(Byte)
    /\ Package \in Seq(Byte \ {Slash, OpenBrace, CloseBrace}) /\ Package # << >>
    /\ Flags \subseteq [enabled : BOOLEAN, file_picker : BOOLEAN, all_users : BOOLEAN]
    /\ {MaxRedirects, MaxDeny, MaxRules} \subseteq Nat
    /\ MaxDiagnostics \in Nat \ {0}
    /\ Earlier \subseteq [kept : Seq(Codes), apps : {"none", "encode", "refused"}]
    /\ \A e \in Earlier : Len(e.kept) <= MaxDiagnostics

VARIABLES
    input,         \* the section as parsed: deny, redirects, flags; and the earlier ones
    app,           \* ResolvedAppPolicy: deny and redirects so far
    diagnostics,   \* the diagnostics kept so far
    phase,         \* the pass that comes next, or the verdict
    plan           \* the encoded mount rules, once accepted

vars == <<input, app, diagnostics, phase, plan>>

Redirects == [source : Sources, target : Targets]

SeqUpTo(S, n) == UNION {[1 .. k -> S] : k \in 0 .. n}

-----------------------------------------------------------------------------
(* Diagnostics beyond the limit are dropped. *)
AddDiagnostic(kept, codes) ==
    LET all == kept \o codes
    IN  SubSeq(all, 1, IF Len(all) < MaxDiagnostics THEN Len(all) ELSE MaxDiagnostics)

Report(codes) == diagnostics' = AddDiagnostic(diagnostics, codes)

HasErrors(kept) == \E i \in DOMAIN kept : kept[i] \notin Warnings

(* The code for each position of s in I, in order. *)
CodesFor(s, I, code) == [i \in 1 .. Len(Pick(s, I)) |-> code]

RedirectLess(r, s) ==
    \/ BytesLess(r.source, s.source)
    \/ r.source = s.source /\ BytesLess(r.target, s.target)

-----------------------------------------------------------------------------
(* Each rule is normalised on its own; a bad one is reported and left out. *)
RuleCode(paths) ==
    CASE \E p \in paths : ExceedsPathLimits(p) -> <<"resource_limit">>
      [] /\ \A p \in paths : ~ExceedsPathLimits(p)
         /\ \E p \in paths : ~NormalizeRulePath(p) -> <<"path_invalid">>
      [] OTHER -> << >>

RedirectPaths(r) == {r.source, r.target}

NormalizeSection ==
    /\ phase = "normalize"
    /\ LET deny == [i \in DOMAIN input.deny |-> RuleCode({input.deny[i]})]
           redirects == [i \in DOMAIN input.redirects |->
                            RuleCode(RedirectPaths(input.redirects[i]))]
           good(codes) == {i \in DOMAIN codes : codes[i] = << >>}
       IN  /\ app' = [deny |-> Pick(input.deny, good(deny)),
                      redirects |-> Pick(input.redirects, good(redirects))]
           /\ Report(Flatten(deny) \o Flatten(redirects))
    /\ phase' = "redirects"
    /\ UNCHANGED <<input, plan>>

-----------------------------------------------------------------------------
(* ValidateRedirects on the sorted, duplicate-free list s. *)
Repeats(s) == {i \in DOMAIN s : i > 1 /\ s[i] = s[i - 1]}
DropDuplicates(s) == Pick(s, DOMAIN s \ Repeats(s))

(* Mutant: the walk over neighbours starts one pair too late. *)
SkipsFirstPair(s, i) ==
    i > 2 /\ PathsOverlap(s[i - 1].source, s[i].source)

SourceConflict(s, i) ==
    i > 1 /\ PathsOverlap(s[i - 1].source, s[i].source)

(* source_index: the first redirect whose source is this target. *)
Successor(s, i) ==
    LET next == {j \in DOMAIN s : s[j].source = s[i].target}
    IN  {j \in next : \A k \in next : j <= k}

(* The coloured depth-first visit, grey the indices on the path to i: it   *)
(* finds a cycle from i when i is grey, or when it does from the next.     *)
Visit(s) ==
    LET closes[grey \in SUBSET DOMAIN s] ==
            {i \in DOMAIN s : \/ i \in grey
                             \/ \E j \in Successor(s, i) : j \in closes[grey \cup {i}]}
    IN  closes[{}]

HasCycle(s) == Visit(s) # {}

ValidateRedirects ==
    LET sorted == Sort(app.redirects, RedirectLess)
        unique == DropDuplicates(sorted)
        pair(i) == (IF PathsOverlap(unique[i].source, unique[i].target)
                    THEN <<"source_target_overlap">> ELSE << >>)
                   \o (IF SourceConflict(unique, i)
                       THEN <<"source_conflict">> ELSE << >>)
    IN  /\ phase = "redirects"
        /\ app' = [app EXCEPT !.redirects = unique]
        /\ Report(CodesFor(sorted, Repeats(sorted), "duplicate_redirect")
                  \o Flatten([i \in DOMAIN unique |-> pair(i)])
                  \o (IF HasCycle(unique) THEN <<"cycle">> ELSE << >>)
                  \o (IF input.flags.file_picker /\ unique = << >>
                      THEN <<"file_picker_requires_redirect">> ELSE << >>))
        /\ phase' = "deny"
        /\ UNCHANGED <<input, plan>>

-----------------------------------------------------------------------------
(* Mutant: an entry replaces the one it lies below. *)
KeepInnermost(s) ==
    LET kept[n \in 0 .. Len(s)] ==
            IF n = 0 THEN << >>
            ELSE LET last == Len(kept[n - 1])
                 IN  IF last > 0 /\ IsSameOrAncestor(kept[n - 1][last], s[n])
                     THEN [kept[n - 1] EXCEPT ![last] = s[n]] ELSE Append(kept[n - 1], s[n])
    IN  kept[Len(s)]

(* An entry below the last one kept adds nothing. *)
FoldDeny(s) ==
    LET kept[n \in 0 .. Len(s)] ==
            IF n = 0 THEN << >>
            ELSE LET last == Len(kept[n - 1])
                 IN  IF last > 0 /\ IsSameOrAncestor(kept[n - 1][last], s[n])
                     THEN kept[n - 1] ELSE Append(kept[n - 1], s[n])
    IN  kept[Len(s)]

(* std::lower_bound: how many entries of the sorted list s are less than   *)
(* path.                                                                   *)
EntriesBelow(s, path) ==
    CHOOSE n \in 0 .. Len(s) : \A i \in DOMAIN s : i <= n <=> BytesLess(s[i], path)

(* Mutant: the entry before the lower bound is not looked at. *)
SameEntryOnly(s, source) ==
    LET below == EntriesBelow(s, source)
    IN  below < Len(s) /\ s[below + 1] = source

DenyConflict(s, source) ==
    LET below == EntriesBelow(s, source)
    IN  \/ below < Len(s) /\ s[below + 1] = source
        \/ below > 0 /\ IsSameOrAncestor(s[below], source)

ValidateDeny ==
    LET sorted == Sort(app.deny, BytesLess)
        unique == FoldDeny(sorted)
        dropped == Len(sorted) - Len(unique)
    IN  /\ phase = "deny"
        /\ app' = [app EXCEPT !.deny = unique]
        /\ Report([i \in 1 .. dropped |-> "deny_redundant"]
                  \o CodesFor(app.redirects,
                              {i \in DOMAIN app.redirects :
                                  DenyConflict(unique, app.redirects[i].source)},
                              "deny_redirect_conflict"))
        /\ phase' = "encode"
        /\ UNCHANGED <<input, plan>>

-----------------------------------------------------------------------------
DenyRule(path) == [action |-> "deny", visible |-> path, backing |-> << >>]
RedirectRule(r) ==
    [action |-> "redirect", visible |-> r.source, backing |-> r.target]

(* The order of the encoded plan: by stage, depth, path. *)
MountStage(rule) == IF rule.action = "redirect" THEN 2 ELSE 3

PlanLess(r, s) ==
    \/ MountStage(r) < MountStage(s)
    \/ /\ MountStage(r) = MountStage(s)
       /\ \/ Depth(r.visible) < Depth(s.visible)
          \/ /\ Depth(r.visible) = Depth(s.visible)
             /\ \/ BytesLess(r.visible, s.visible)
                \/ r.visible = s.visible /\ BytesLess(r.backing, s.backing)

ToPolicyDocument(a) ==
    [i \in 1 .. Len(a.deny) |-> DenyRule(a.deny[i])]
    \o [i \in 1 .. Len(a.redirects) |-> RedirectRule(a.redirects[i])]

(* A visible path has no braces at all. *)
NormalizeVisible(path) == ~ContainsPlaceholder(path) /\ NormalizeLogicalPath(path)

(* The package is put in for its placeholder; that of the user is left for *)
(* the process, and no other is known.                                     *)
ExpandPathPlaceholders(path) == ExpandPackage(path, Package)
NormalizeBacking(path) ==
    /\ KnownPlaceholders(ExpandPathPlaceholders(path))
    /\ NormalizeLogicalPath(ExpandPathPlaceholders(path))

Expanded(rule) == [rule EXCEPT !.backing = ExpandPathPlaceholders(rule.backing)]

ValidatePolicy(rules) ==
    /\ \A i \in DOMAIN rules :
          /\ NormalizeVisible(rules[i].visible)
          /\ rules[i].action = "redirect" => NormalizeBacking(rules[i].backing)
          /\ \A j \in DOMAIN rules : rules[i].visible = rules[j].visible => i = j
    /\ input.flags.file_picker =>
          /\ ~input.flags.all_users
          /\ \E i \in DOMAIN rules : rules[i].action = "redirect"

(* A document without an enabled app has nothing to encode, and an app     *)
(* that is not enabled is left out of it.                                  *)
Encodes(rules) ==
    IF input.flags.enabled THEN input.earlier.apps # "refused" /\ ValidatePolicy(rules)
    ELSE input.earlier.apps = "encode"

EncodeAndVerify ==
    LET rules == ToPolicyDocument(app)
        encoded == Encodes(rules)
    IN  /\ phase = "encode"
        /\ \/ /\ HasErrors(diagnostics)
              /\ phase' = "rejected"
              /\ UNCHANGED <<diagnostics, plan>>
           \/ /\ ~HasErrors(diagnostics)
              /\ ~encoded
              /\ Report(<<"policy_encode">>)
              /\ phase' = "rejected"
              /\ UNCHANGED plan
           \/ /\ ~HasErrors(diagnostics)
              /\ encoded
              /\ plan' = IF input.flags.enabled
                         THEN Sort([i \in DOMAIN rules |-> Expanded(rules[i])], PlanLess)
                         ELSE << >>
              /\ phase' = "accepted"
              /\ UNCHANGED diagnostics
        /\ UNCHANGED <<input, app>>

-----------------------------------------------------------------------------
Init ==
    /\ input \in [deny : SeqUpTo(DenyPaths, MaxDeny),
                  redirects : SeqUpTo(Redirects, MaxRedirects),
                  flags : Flags,
                  earlier : Earlier]
    /\ Len(input.deny) + Len(input.redirects) <= MaxRules
    /\ app = [deny |-> << >>, redirects |-> << >>]
    /\ diagnostics = input.earlier.kept
    /\ phase = "normalize"
    /\ plan = << >>

Next == NormalizeSection \/ ValidateRedirects \/ ValidateDeny \/ EncodeAndVerify

Spec == Init /\ [][Next]_vars

-----------------------------------------------------------------------------
(* What an app sees at a path once the worker has mounted the plan.  The   *)
(* worker pins the directory under every visible path before it mounts     *)
(* anything, and each source alone is bound, without what is mounted below *)
(* it.  The mount met first on the way down therefore decides; one below   *)
(* it hangs in the tree that is covered.                                   *)
View(path) ==
    LET met == {i \in DOMAIN plan : IsSameOrAncestor(plan[i].visible, path)}
        first == {i \in met : \A j \in met :
                     Len(plan[i].visible) <= Len(plan[j].visible)}
    IN  IF met = {} THEN [denied |-> FALSE, at |-> path]
        ELSE LET rule == plan[CHOOSE i \in first : TRUE]
             IN  IF rule.action = "deny"
                 THEN [denied |-> TRUE, at |-> << >>]
                 ELSE [denied |-> FALSE,
                       at |-> rule.backing
                              \o SubSeq(path, Len(rule.visible) + 1, Len(path))]

(* The reference the byte tests are compared with: a path lies in a        *)
(* directory when it continues it behind a separator.                      *)
Inside(dir, path) ==
    \/ path = dir
    \/ Len(path) > Len(dir) /\ SubSeq(path, 1, Len(dir) + 1) = Append(dir, Slash)
Nested(p, q) == Inside(p, q) \/ Inside(q, p)

AllPaths == DenyPaths \cup Sources \cup Targets
Rs == Range(input.redirects)
Ds == Range(input.deny)
SectionPaths == Ds \cup UNION {RedirectPaths(r) : r \in Rs}

(* A chain of redirects that leads back to where it started. *)
Cyclic ==
    \E S \in SUBSET Rs : S # {} /\ \A r \in S : \E s \in S : s.source = r.target

(* What ValidateRedirects and ValidateDeny set out to refuse. *)
Conflicting ==
    \/ \E r \in Rs : Nested(r.source, r.target)
    \/ \E r, s \in Rs : r # s /\ Nested(r.source, s.source)
    \/ \E d \in Ds, r \in Rs : Inside(d, r.source)
    \/ Cyclic

(* Every variable keeps its type, and the list of diagnostics its limit.   *)
TypeOK ==
    /\ phase \in {"normalize", "redirects", "deny", "encode",
                  "accepted", "rejected"}
    /\ app.deny \in SeqUpTo(DenyPaths, MaxDeny)
    /\ app.redirects \in SeqUpTo(Redirects, MaxRedirects)
    /\ diagnostics \in Seq(Codes)
    /\ Len(diagnostics) <= MaxDiagnostics
    /\ \A i \in DOMAIN plan : plan[i].visible \in DenyPaths \cup Sources

(* No diagnostic was dropped, of this section or of one before it. *)
NothingDropped == Len(diagnostics) < MaxDiagnostics

(* The sections for which the neighbours in byte order and the diagnostics *)
(* kept tell everything: no byte of a path sorts before '/' (see           *)
(* RuleScans_proofs), and no diagnostic was dropped.                       *)
ScanSuffices ==
    /\ \A p \in SectionPaths : \A i \in DOMAIN p : p[i] >= Slash
    /\ NothingDropped

(* Looking at neighbours finds every conflict between any two rules of     *)
(* such a section, as they are written: accepted, it has no redirect whose *)
(* ends overlap, no two sources that overlap, no deny entry at or above a  *)
(* source and no cycle (rules/src/semantic.cpp ValidateRedirects and       *)
(* ValidateDeny).  It says nothing of a section whose diagnostics were     *)
(* dropped, of what a target is once the package is put in, nor of a       *)
(* target that overlaps the source or the target of another redirect:      *)
(* docs/04:784 and docs/04:826 have those refused, and no pass compares    *)
(* them, except for a chain that comes back to its start.                  *)
NeighboursFindConflicts ==
    (phase = "accepted" /\ ScanSuffices) => ~Conflicting

(* The same of every section (docs/04 10.3-10.5 and                        *)
(* tests/unit/rules_conflict_test.cpp).                                    *)
ConflictsRejected == phase = "accepted" => ~Conflicting

(* What a section can be refused for: a path the compiler or the encoder   *)
(* does not take, a conflict, nothing enabled, or a flag that does not     *)
(* fit; or what the sections before it are refused for.  The encoder takes *)
(* no brace in a visible path, and in a target only {package} and {user};  *)
(* docs/04:607 has braces as ordinary bytes of a name.                     *)
Refusable ==
    \/ \E p \in SectionPaths : ExceedsPathLimits(p) \/ ~NormalizeRulePath(p)
    \/ \E p \in Ds : ~NormalizeVisible(p)
    \/ \E r \in Rs : ~NormalizeVisible(r.source) \/ ~NormalizeBacking(r.target)
    \/ Conflicting
    \/ ~input.flags.enabled /\ input.earlier.apps = "none"
    \/ input.flags.file_picker /\ (input.flags.all_users \/ Rs = {})
    \/ HasErrors(input.earlier.kept) \/ input.earlier.apps = "refused"

(* A document is refused only for what one of its sections says; what a    *)
(* pass leaves out, or drops at the limit of the diagnostics, makes no     *)
(* reason up.                                                              *)
RejectionJustified == phase = "rejected" => Refusable

(* Folding the deny list with a single look back loses nothing: whatever   *)
(* the section denies is still denied by the list that is encoded, and     *)
(* nothing else is (ValidateDeny's "deny_redundant"), as long as no        *)
(* diagnostic was dropped; without one, an entry with a bad path is left   *)
(* out and the section accepted.                                           *)
DenyCoverage ==
    (phase = "accepted" /\ NothingDropped) =>
        \A q \in AllPaths :
            (\E d \in Ds : Inside(d, q)) <=> (\E d \in Range(app.deny) : Inside(d, q))

(* The target of a redirect as the app's process is given it: the package  *)
(* stands where the rule has its placeholder.                              *)
Destination(r) == ExpandPathPlaceholders(r.target)

(* Every redirect of such a section, accepted and enabled, leads an app    *)
(* from its source to its target, the package put in: no other rule of the *)
(* plan covers it.                                                         *)
RedirectTakesEffect ==
    (phase = "accepted" /\ input.flags.enabled /\ ScanSuffices) =>
        \A r \in Rs : View(r.source) = [denied |-> FALSE, at |-> Destination(r)]

(* docs/04:713: who writes a deny entry can rely on the whole tree not     *)
(* being opened by the app's other rules.                                  *)
DenyTakesEffect ==
    (phase = "accepted" /\ input.flags.enabled) => \A d \in Ds : View(d).denied
=============================================================================
