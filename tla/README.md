# A TLA+ model of PathGuard-Next

PathGuard redirects or denies directories for single Android apps. This project
models the parts of it in which several processes, a crash or a long sequence of
legal steps decide whether the result is right: TLC checks small instances, TLAPS
proves the main invariants for every value of the constants.

## The system

| part | state | operations | what makes it hard |
|---|---|---|---|
| mount transaction (`zygisk/src/module_entry.cpp`) | status word and result in a memfd, the app's mount namespace, the worker's journal | launch, cancel, lease, mount, roll back, taint, terminate | three processes, compare-and-swap, deadlines, kills |
| mount backends (`core/include/pathguard/mount_backend.h`, `native/mount_executor.cpp`) | the backend of a plan | select, fall back | a fallback half way through a plan |
| policy publisher (`daemon/src/rules_control.cpp`) | `run/policy.bin`, candidate, backup | `Publish` | each call may fail, crash and power loss at each step |
| reconciler and loops (`daemon/src/rules_control.cpp`, `daemon/src/main.cpp`) | `rules.toml`, `rules-status.txt`, digest, generation, epoch, inotify queue | `Reconcile`, `SaveRules`, inotify and polling loop, late topology | editors at any moment, lost events, stale digests |
| boot scripts (`module/*.sh`) | `run/policy.bin` | bootstrap compile, start of the daemon | a second writer of the policy |
| rules compiler, semantic half (`rules/src/semantic.cpp`, `core/src/validation.cpp`) | the rules of one app, the diagnostics | normalise, check, fold, order | neighbour comparisons stand for all pairs, a bounded list of diagnostics |
| rules compiler, text half (`rules/src/arrow_scanner.cpp`, `desugarer.cpp`, `format_probe.cpp`, `compiler.cpp`) | none | scan, desugar, bind, decode | a scanner without a grammar decides before the parser, offsets through a rewritten text, limits |
| policy codec and index (`core/src/binary.cpp`, `core/include/pathguard/policy_index.h`) | none | encode, verify, look up | encoder and two readers must agree on one order, shared hashes |
| reading the policy in a launch (`zygisk/src/module_entry.cpp`) | the plan, the storage it was made for | three looks at `policy.bin`, two at the storage | policy and storage change between the looks |
| mounts and their rollback (`native/mount_executor.cpp`, `native/mount_info_snapshot.cpp`) | pinned directories, journal, mountinfo snapshots | pin, mount, identify, unmount | others mount in the same table, ids are learned late, unmounting is by path |
| storage topology (`core/src/topology.cpp`) | none | parse mountinfo, choose roots | stacked mounts, aliases |
| provider redirect (`zygisk/src/provider_*.cpp`) | hooks, caller identity per thread | install, map paths | reentrancy, nested callers |
| media query hook (`zygisk/src/media_query_*.cpp`) | the filter, the provider it has met | install, rewrite a query | arguments bound by position, wildcards, Java exceptions half way |
| `pathguardctl`, packaging scripts | none | convert and print | - |

The parts meet in three places. The compiler's output is published by the daemon;
the published file is read by the app's Zygisk module, which sends a plan to the
companion; the companion's worker mounts it. `RulesControl` extends
`PolicyPublisher`, so each run of it takes every step of `Publish`;
`PolicyLaunch` extends `PolicyPublisher` and `PolicyFile` and puts a launch beside
the daemon; `MountTransaction` and `MountStack` extend `MountBackend`.
`RulesText` extends `RulesScanner` and `RulesToml`. `RuleConflicts` carries its result
through to what the app sees after the worker has mounted the plan (`View`).

## Modules

**MountBackend, MountTransaction.** One launch. An action is one load or one
compare-and-swap of the status word, or one change of the namespace, with the
local work before it. `appPc`, `parPc` and `wPc` say where the app
(`preAppSpecialize`, `WaitForSharedResult`, `postAppSpecialize`), the companion
(`CompanionHandler`) and the worker (`ApplyProcessPlan`) are. Values loaded before
a later compare-and-swap are state of their own (`parSeen`, `wSeen`): that is where
the races are. `mounted` and `private` are the kernel's side. Time is abstracted:
a deadline may pass at any moment. Any process may be killed at any step
(`AppDies`; `CompanionCrash` and `WorkerCrash` when `HelperMayCrash`).
`ScanMayMiss` says whether `TerminateNamespaceMembers` may leave a process alive,
which its bounded number of rounds and its handling of an unreadable `/proc` allow.

**MountContract, MountTransactionContract.** What a launch promises: the app starts
with the whole plan or in a namespace nobody changed, the namespace does not move
under a running app, and a namespace that could not be restored dooms it. The
second module holds the refinement mapping and the inductive invariant.

**MountStack.** The same worker with the kernel's mount table in place of the status
word. A mount hangs at a directory of its parent, a lookup climbs the mounts stacked
on a directory, and `umount2` takes what is below along. The actions are those of
`ApplyProcessPlan`: snapshot, pin each rule, mount by descriptors or by strings (a
check and then a mount, two steps), publish, snapshot and identify the journal's
mounts, compare, unmount in reverse order, verify. `ForeignMount` and
`ForeignUnmount` are others in the same table, at any step. Mount ids are given
again after an unmount, as the kernel does. The kernel's part is not in the
repository and is modelled from how the code uses it.

**PolicyPublisher.** `Publisher::Publish`, one action per system call that matters.
`dir` is the directory as processes see it and `survivors` the directories a power
loss may leave: a rename adds to them and only a directory flush narrows them. A
file is absent, cached, durable or torn. Each call named in `Faults` may fail. Only the
publisher writes here: `post-fs-data.sh` moves the file of a compile into place without a
flush, which can leave a torn policy after a power loss and which `PolicyNeverTorn` is not
about.

**RulesControl.** `Reconcile` step by step around `Publish`, the status file, the
start of the inotify watch, its event loop, the polling loop, the late topology,
`SaveRules` with its second digest check, editors that save by rename or in place,
`reload`, crashes, and reboots with the bootstrap compile of `post-fs-data.sh`. A
source is a record of what tells files apart: its text (which stands for its
digest), whether it compiles, and the policy it compiles to.

**Lists.** Picking, joining, sorting and the order of strings, for the compiler and the
encoder.

**PolicyFile, PolicyLaunch.** What the encoder writes, what both readers accept, how
a package is found by its hash and what `LoadProcessPlan` makes of it for a process. The
package is put into a rule when it is encoded, the user when a process reads it.
A generation is what is hashed; package hashes are a constant, so that names may
share one. `PolicyLaunch` has the launch from `preAppSpecialize` to the moment the
worker asks for the lease: the module's look at `policy.bin`, the companion's, the
capture of the storage roots, the worker's snapshot and its revalidation of policy
and storage, each a step between the daemon's steps of `Publish`. From the lease on
`MountTransaction` takes over.

**RulesToml, RulesScanner, RulesText.** The text half of the compiler over lexemes (a
string, a bare word, a bracket, a line end, `->`). `RulesScanner` is the
scanner's loop, one action per branch: frames, pending arrow, diagnostics and
limits. `RulesText` has the format probe, the desugarer with its segments and the
map back to the file, the binding of the tables it wrote and the decoder, with the
conversions between Boolean and integer that toml++ makes when a value is asked for.
`RulesToml` is that library (`src/third_party/tomlplusplus`) as far as these use it; read
with arrows allowed it is also the reference for what a text means. It is recursive, so
nothing is proved about these modules.

**RulePaths, RuleConflicts.** Paths are sequences of bytes because the properties
are about byte order. The four actions are the passes of `CompileRules` over the last
section of a document: normalise, `ValidateRedirects`, `ValidateDeny`, encode and verify.
The sections before it count for the diagnostics they leave and for whether they encode
(`Earlier`). A rule whose path is bad is left out and reported; when the list of
diagnostics is full the report is lost and the rest of the section may be accepted. The
encoder refuses braces in a visible path and every placeholder of a target except
`{package}`, which it replaces, and `{user}`, which it leaves; conflicts are compared before
that, as the paths are written. `View` is what the worker's order of pinning and mounting
makes of an accepted plan.

**ProviderPathMapper, ProviderRedirect.** The storage provider serves every app, so
its paths are rewritten per caller. The mapper is a pure module: rules from the
policy (`LoadProviderRules`), a path to its target and back. A path is a root, a
user and components, because no property looks inside a name; rules for one directory
are ordered as `strcmp` orders their bytes, with `/` between components. The second module
has the steps of `Install` with each partial outcome, the later hooks on the FUSE
library, the `CallerUidContext` of a thread, and the hooked file operations from
their entry to their return, with the original function possibly running into
another hook. `frames` is Binder's side of a thread and `serving`, `pending`
libfuse's: neither is in the repository, and they are modelled by how the hooks
are called.

**MediaQuery.** The hook that a denied app gets on its own Binder calls after a
commit, from the steps of `Install` to a query that is read from its parcel,
extended by the deny filter and sent. Paths are characters because `LIKE` patterns
are; a selection is a text of comparisons, `AND`, `OR` and parentheses, which the hook joins
to its own without reading it, and whose question marks take the arguments in order. Java may throw at every step. `Rows`, what the database answers,
is not in the repository: it follows SQLite's rules for `LIKE ... ESCAPE`, `NULL`
and parameters.

The `MC*` modules give the constants their values. `*_proofs` hold the theorems.
An operator whose comment starts with "Mutant" is a plausible bug of the definition
below it; substituting it makes TLC refute the property it is paired with in
`PROJECT.json`, so each property depends on the code it is about.

## What TLC checks

Runs that pass:

| run | bounds | shows |
|---|---|---|
| `MCMountTransaction` | 2 rules, journal of 2, scan may miss, every crash | the namespace changes only under the lease and never under a running app; `complete` is the whole plan; outcomes are final; the worker's report agrees with the status; the backend is fixed by the first mutation |
| `MCMountContract` | 2 rules, complete scans, every crash | the transaction implements `MountContract`, fails open only in a clean namespace, and every launch ends |
| `MCMountStack` | 4 plans of 2 rules (redirects, deny, nested deny, shared source), tables with and without a mount point at a target, 2 mounts by others at 3 places, failing snapshots and unmounts | a mount the worker takes for its own is its own; what it detaches is its own, or came after its last look, or the path was overlaid; `rollback_complete` leaves no mount behind; an undisturbed failure is undone; a committed rule is what the app finds |
| `MCPolicyLaunch` | 3 documents, two packages with one hash, limits of 2 rules and 20 path bytes, 4 processes, 3 uids, 3 storage views, a target with `{package}` and `{user}`, every call of `Publish` may fail, power loss | `policy.bin` is never torn and "published" is durable with a reader beside it; the rules leased are those of the policy at the worker's look; a policy that stays is applied; sources are on the device of the app's storage; both readers accept what the encoder writes |
| `MCRulesControl` | 3 sources, 2 edits, 1 death, every publication fault except the rename back | the reported generation is the deployed one, and `active` is only said of a policy that is in place |
| `MCRulesControlConverges` | 2 sources, 2 edits, 1 save, 1 death, both loops, faults of the loops and of the save | once edits stop the last source is deployed |
| `MCRuleConflicts` | up to 3 rules, 8 deny paths, 3 sources, 5 targets, among them malformed ones, bytes below `/`, braces and both placeholders, 4 combinations of flags, 4 kinds of earlier sections, room for 2 diagnostics | where no path has a byte below `/` and no diagnostic was dropped, the neighbour comparison finds every conflict and accepted redirects take effect; without dropped diagnostics folding the deny list loses no entry; nothing is refused without a cause |
| `MCRulesText` | 17 beginnings followed by any 4 to 6 lexemes, depth 3, 2 rewrites, 13 segments, 2 diagnostics, 1 app, 3 rules | what compiles is what the arrows say, with the right source, target and place; what is written as designed compiles unless it is beyond a limit; a parse error is shown at the lexeme that is wrong; the stages never disagree |
| `MCProviderRedirect` | one thread of either kind, 2 apps, 2 requests, 2 nested clears, 4 policies, complete, partial and empty imports, failing allocations | a path is rewritten by the rules of the app served and no other, for all of its operations, and once; `realpath` answers with a name that leads back; an incomplete hook set stays passive and is not unmapped |
| `MCMediaQuery` | 2 threads, 6 plans, 12 queries (none, one or two comparisons joined by `AND` or `OR`, too few arguments, other calls), at most 2 deny entries and 30 tokens of selection | a filtered query loses the rows of denied directories and no others |

Two rules are the least number with a partly applied plan, a rollback of several
mounts and a failure after a success. A journal of the size of the plan is the
code's own relation. Three documents allow a publication over a policy that has
itself replaced one, and a change between each two of the three looks. Two edits allow one during the handling of the other, and one
death can fall at every step. `Converges` needs two sources: one to leave and
one to arrive at. Two mounts by others
allow one on a target and one above it, or one that takes the id of another. Thirteen
segments are six for each of two rewrites and one, the relation of the code's 24577
and 4096. Three redirects are what it takes for a path to stand
between two others in byte order, and room for two diagnostics lets the warnings of
earlier sections fill the list. Threads of the provider share nothing but the
installed rules, so one thread shows what can happen to any; two request addresses
let one be answered late and used again. `MCProviderRedirect` assumes that a handler
restores each identity it clears, that no call comes in on a thread that waits
with its identity cleared, and that a FUSE handler fetches the session's data
first, through a hook if the library has any that capture; the three configurations
at the end of the next table drop one assumption each. In `MCMediaQuery` threads meet only in the cached provider and the
installation, so two (up to symmetry) show every race; one plan has more entries
than the hook takes, one an entry whose escapes do not fit, and one query leaves no
room for two entries. A denied name is matched without regard to case by SQLite's
`LIKE`, so `OtherRowsKept` allows that. `DeniedRowsHidden` speaks of queries that
leave room and meet no exception: otherwise the hook sends them as they were.

`MCMountTransaction`, `MCMountContract`, `MCMediaQuery` and `MCPolicyLaunch` check
deadlock; the control plane runs do not because their edits are bounded, the
compiler runs do not because a compile ends, `MCMountStack` does not because a
worker ends, and the provider run does not because a provider without rules unloads
the module.

Runs that TLC refutes. The first two are the findings of `PROJECT.json`, which quote
the line of the repository that says otherwise; the others are configurations kept
beside them, some of them named in the notes of the hazards they belong to, or
properties of a module for which the row names the constants:

| run | the code |
|---|---|
| `RestartFindsPolicy` | moves the policy aside before the new one is in place, and never looks for the backup after a restart |
| `ConflictsRejected` | compares neighbours only, with `a`, `a-`, `a/b`; with the constants of `MCRuleConflicts.cfg` it also accepts a redirect into its own source when warnings have filled the list of diagnostics |
| `RollbackCompleteIsClean` | publishes `rollback_complete` over a changed namespace when the app's cancel makes the taint's compare-and-swap fail |
| `StartupEditConverges` | misses an edit made before the watch exists |
| `OwnerDeathIsTainted` | tries once to publish an owner's death and may lose against the cancel |
| `TaintedIsTerminated` | leaves the members alive when the worker dies between taint and termination |
| `OnlyAdmittedDeployed` | deploys at boot what was never admitted |
| `StatusConverges` of `RulesControl`, with 2 edits between two sources and no faults | keeps reporting a failed load when the same file comes back |
| `DisabledIsWithdrawn` of `RulesControl`, with 1 edit that disables every app | refuses to encode a policy without apps and keeps the old one |
| `DenyTakesEffect` | accepts a deny entry below a redirected directory, which is then mounted under it |
| `RejectedSaveKeepsSource` of `RulesControl`, with 1 save and the fault `source_sync` | may replace the source in a save it rejects |
| `RollbackVerifiedGone` | unmounts by path, so that a mount another process makes during the rollback is detached in place of its own, which the last look then does not find |
| `QuietRollbackAlwaysClean` | cannot undo a failed plan with a target below another target or on a mount point, and taints the namespace |
| `PublishedIsApplied` | publishes policies with more rules or longer paths for an app than the module takes, which then takes none |
| `NestedCallers`, `LeakedIdentity`, `ContextOnly` | would take one caller for another if a call came in on a thread with its identity cleared, if a handler never restored it, or if the FUSE library only used `fuse_req_ctx` |

### Fairness

`MountTransaction`: weak fairness of the app's, the companion's and the worker's
steps. Each is a sequential process that the kernel schedules, its waits have
deadlines, and a deadline is one of its steps. No fairness on kills and crashes.
`RulesControl`: weak fairness of `DaemonStep`, the steps of the daemon's own thread
(start, reconcile, status, watch, one turn of either loop, a save it has begun). The
loops block in `poll` with a timeout, so the thread always has a next step. There is
none on restarts, edits, saves, faults, crashes or the arrival of the topology.

## What is proved

`MountTransaction_proofs` proves, for any number of rules and any journal at least
as large, `TypeOK`, `LeaseGuardsNamespace`, `CommitIsTotal`, `ReportMatchesStatus`,
`LegacyOnlyWhenAuthorized`, `NamespaceFrozenOnceResumed`, `OutcomeIsFinal`,
`BackendFixedByMutation`, and, when kill scans are complete, `FailOpenIsClean` and
the safety half of the refinement of `MountContract`. None of these is inductive:
that `complete` is the whole plan depends on where the worker is, on what a stale
`parSeen` or `wSeen` can still publish, and on the app not having cancelled before
the lease. `LeaseDiscipline` says this in four parts: what the worker has done at
each of its steps, which statuses are possible there, what the companion may still
publish, and that the app goes on only when no worker can hold the lease.
`CleanInv` adds what makes failing open safe. One lemma per process shows that its
steps preserve the invariant.

`PolicyPublisher_proofs` proves `PolicyNeverTorn`, `PublishedIsDurable` and
`FailureRetainsPolicy` (whose premise is that the rename back does not fail too) for
any set of generations and any set of faults. `PublishInv`
says at each step of `Publish` where the candidate, the old policy and the backup
are, in `dir` and in every surviving directory. Its part about one call, `CallInv`,
does not depend on how the call came about and is used again by the control plane.

`RulesControl_proofs` proves `StatusIsTruthful`, `ActiveMeansDeployed` and
`FailureRetainsPolicy` for any sources, edits, faults, crashes and reboots.
`ControlInv` joins `CallInv` to the Reconciler: the two program counters agree on
whether a call is under way, the candidate is the policy of the digest just stored,
and the generation the daemon believes in is the one the call found, until it ends
and its answer says which of the two is in place. The lemmas follow the steps: those
of `Publish` in between, its beginning, its end, the daemon's other steps, and what
stops it. `OnlyAdmittedDeployed` is proved for the steps other than a reboot
(`RunningSpec`): the boot script deploys without asking, which `OnlyAdmittedDeployed.cfg`
shows. `AdmittedInv` has to speak of the candidate and the backup, which become
`policy.bin`, of the blob of a call under way, and of the Reconciler's snapshot of the
topology, which may be older than the device but never ahead of it.

`PolicyLaunch_proofs` proves for any documents, processes and storage views that
`LaunchSpec` implements the publisher's `Spec` (a launch leaves the directory alone),
so that its theorems hold beside launches, and from `LaunchInv` that the plan of a
lease is what `LoadProcessPlan` reads from the policy at the worker's look
(`LeasedPlan`) and that its sources are on the device of the app's storage
(`LeasedSource`). `SteadyInv` adds that, until `policy.bin` changes, the plan of a launch
is what a look finds now, so no later look differs from the first (`SteadyLaunch`).
`FileFaithful` says that reading the file loses nothing of the document: what
`LoadProcessPlan` makes of what `EncodePolicy` wrote are the rules the document has for the
package, the user and the process, or nothing when there are none or they exceed a limit.
The argument follows the file: sorting loses nothing of a document and is the same twice;
the records of an app are where its entry says; and the binary search over hashes ends at
the first entry of a run, in which the package is found although others share its hash. With it
`LeasedPlanIsPolicy`, `SteadyPolicyIsApplied` and `PolicyReadsBack` follow for any documents
the encoder takes.

`Lists_proofs` has the lemmas on lists that both the file and the compiler rest on: what
picking, joining and sorting compute, for lists of any length. `RuleScans_proofs` is about
the lists the compiler walks. `NeighbourGap`:
between a directory and something below it stand, in byte order, only its descendants and
names that continue it with a byte below `/`. `NeighboursSuffice`: without such bytes the
comparison misses nothing. `NeighbourScan` and `LowerBoundScan` carry this to the passes:
in a sorted list two overlapping paths make two neighbours overlap, and in a folded deny
list an entry above a source is one of the two at its lower bound. Its lemmas say what
dropping duplicates, folding, the lower bound and the visit for cycles compute.
These are inductions over lists. They are proved first-order: a set of naturals has a
least element, so a property given by the set of those that have it holds up to the
length of a list, and a recursive function over its positions exists and obeys its
equations. The visit recurses over the set of grey indices; that its equation has a
solution is shown by the least fixed point of its step.

`RuleConflicts_proofs` proves the four properties of `MCRuleConflicts` for sections of any
length, after any earlier sections, for any paths, any limits and any room for diagnostics:
`NeighboursFindConflicts`, `RejectionJustified`, `DenyCoverage` and `RedirectTakesEffect`.
None is inductive, because each speaks of the verdict and the work was done passes earlier.
`Inv` says what a pass leaves behind: no rule of the section is lost, unless a bad one is on
record as an error or the record was dropped; an error on record has a cause in a section,
and so has a refusal by the encoder; the redirects are in order, each once, and
if nothing was reported or dropped no two neighbours overlap and there is no cycle; the
deny list is folded, and its lower bounds hold no source; the plan of an accepted section
has the rules of the section, with the package put in. `NeighbourScan` and `LowerBoundScan`
then take the scans to all pairs. That a refusal has a cause needs no condition; that
folding loses nothing needs that no diagnostic was dropped, and the other two also that no
path has a byte below `/`: `ConflictsRejected` shows that both conditions are needed.
`SectionAssumption` says that paths are sequences of bytes, that the package is a name
without slashes and braces, and that there is room for one diagnostic. Where the
repository's documents say more than this: docs/04 has braces as ordinary bytes of a name
(line 607) that `validation.cpp` refuses (lines 32-34), and has a target refused that
overlaps another redirect's source (line 784) or lies below another's target (line 826),
which no pass compares.

`ProviderRedirect_proofs` holds for any threads, apps, requests, policies and imports. It
begins with what holds of a single hook: the code is not
unmapped under a hook (`InstallInv` relates the steps of `Install` to what they have
patched), nothing is rewritten before the set is complete, and once only (`GuardInv`:
while a hook that rewrites is at work the thread's state says `in_path_hook`, and a
call found with that mark passes its paths on unchanged). Its second half is
`IdentityInv`: what the thread's `CallerUidContext` holds against Binder's frames at each
depth of clearing, or against the FUSE request being served. Then the mapper:
`RestoreThenRewrite` says that a path
rewritten and restored leads back to the same file when no source lies below another.
The rule that decides is the least index whose source (or target) holds the path, so
the argument compares least elements. `CallerNeverGuessed`,
`CallerSeesView` and `RealpathIsVisible` follow from `ProviderInv`, which adds to the identity
that the finals of a call under way are those of the caller it was entered
for. Their hypothesis `WellBehaved` is the three conditions on Binder, on handlers and
on the FUSE library that `MCProviderRedirect` gives its constants; `NestedCallers`,
`LeakedIdentity` and `ContextOnly` show that each is needed. The constants are assumed
to be paths and policies of the shape the code reads (`PathsAssumption`,
`PoliciesAssumption`).

The assumptions are the named `ASSUME`s of the modules that declare the constants;
TLC evaluates them in every run.

Only model-checked: liveness (`LaunchTerminates`, `ImplementsContract` with its
fairness, `Converges`), which is beyond this prover; the properties of `RulesText`, whose
library side is recursive; those of `MediaQuery`, which recurse over patterns; and those of
`MountStack`, which climb a table of mounts.

## Not modelled

- `core/src/topology.cpp` parses mountinfo for the daemon and for `pathguardctl`. It
  has no state, and all the daemon uses of it is whether the device is supported:
  `RulesControl` takes that answer as an input that may come late. The module's own
  capture of the roots is in `PolicyLaunch`.
- `native/directory_resolver.cpp` is a walk by system calls; `MountStack` has the
  lookup it stands for. The capability probes only report.
- The byte layout of the policy (string table, checksum, record offsets), event
  rules, which no policy has, and the library side of TOML, SQLite, Binder, libfuse
  and the PLT hooks beyond what the code relies on.
- Reading a source file (size and UTF-8 checks), the wording of diagnostics and the
  decoder's own limit of diagnostics.
- The identity of a process behind a reused pid, performance counters, logs, and the
  commands of `pathguardctl` that convert or print. The packaging scripts do not run
  on the device.
- The status word and the mount table are in two modules, which keeps each run
  small. `MountTransaction` has every way a mount or an unmount can fail,
  and `MountStack` a cancel as one of the errors a step may meet.

Proofs that could be added: the properties of `MountStack` for any plan and any number of
mounts by others.
