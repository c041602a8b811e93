-------------------------- MODULE ProviderRedirect --------------------------
(***************************************************************************)
(* The hooks in a storage provider (zygisk/src/provider_redirect_hook.cpp, *)
(* provider_caller_uid.hpp, provider_redirect_lifecycle.hpp): how they are *)
(* installed, how a thread knows for whom it works, and what a hooked file *)
(* operation does with its path.                                           *)
(*                                                                         *)
(* Binder, libfuse and the PLT hook library are outside the repository.    *)
(* A Binder thread serves a stack of incoming calls; a FUSE thread serves  *)
(* requests, asks for the session's data first and may answer them later.  *)
(***************************************************************************)
EXTENDS ProviderPathMapper, FiniteSets

CONSTANTS Threads,
          Requests,         \* addresses of FUSE requests, reused once replied to
          Apps,             \* application uids other than the provider's
          Policies,         \* the policies the provider may start with
          PathArgs,         \* paths the provider passes to libc
          Canonical,        \* what a path may resolve to besides itself
          ImportSets,       \* symbols the permanent libraries may import
          FuseImportSets,   \* symbols libfuse_jni.so may import
          AllocMayFail,     \* calloc, pthread_key_create
          NestedCalls,      \* a thread that waits for a reply may be called
          LeakyHandlers,    \* a call may end with its identity still cleared
          MaxCalls,         \* incoming calls on one thread's stack
          MaxClears         \* clears that one call has not restored

Self == "self"              \* getuid()
System == "system"          \* a uid below 10000
NoUid == "-1"
NoRequest == "none"         \* a null fuse_req_t

ASSUME RedirectAssumption ==
    /\ Apps \cap {Self, System, NoUid} = {}
    /\ Requests \cap {NoRequest, "no state"} = {}
    /\ {AllocMayFail, NestedCalls, LeakyHandlers} \subseteq BOOLEAN
    /\ MaxCalls \in Nat /\ MaxClears \in Nat

ASSUME PathsAssumption ==
    /\ PathArgs \subseteq [dir : Path, comps : Seq(Nat)]
    /\ Canonical \subseteq {path \in Path : Len(path.comps) <= PathMax}

(* The rules of a policy are a list. *)
ASSUME PoliciesAssumption ==
    \A policy \in Policies :
        LoadProviderRules(policy) \in Seq([caller_uid : Apps \cup {Self, System}, user_id : Nat,
                                          visible : Seq(Nat), backing : Seq(Nat)])

VARIABLES
    role,       \* a thread is of the Binder pool or of the FUSE session
    install,    \* where preAppSpecialize is
    loaded,     \* the module's library is mapped
    rules,      \* g_rules and g_rule_count
    jni,        \* methods of android.os.Binder that are replaced
    registered, \* symbols given to pltHookRegister
    patched,    \* symbols whose GOT entries are replaced
    enabled,    \* g_hooks_enabled
    result,     \* InstallResult
    fuse,       \* g_fuse_install_state
    fuseHooks,  \* symbols of libfuse_jni.so that are replaced
    fuseContext, \* g_fuse_req_context is known
    frames,     \* the incoming calls of a thread, the thread's own work first
    ctx,        \* CallerUidContext of a thread, or NoState
    lost,       \* the thread could not allocate its state
    call,       \* the hooked file operation a thread is in
    serving,    \* the FUSE request a thread handles
    pending     \* uid of each request without a reply

installVars == <<install, loaded, rules, jni, registered, patched, enabled, result>>
fuseVars == <<fuse, fuseHooks, fuseContext>>
threadVars == <<role, frames, ctx, lost, call, serving, pending>>
vars == <<installVars, fuseVars, threadVars>>

-----------------------------------------------------------------------------
(* Caller identity: provider_caller_uid.hpp *)

NoState == [in_path_hook |-> FALSE, saved_binder_uid |-> NoUid,
            binder_clear_depth |-> 0, fuse_uid |-> NoUid, fuse_request |-> "no state"]
FreshState == [NoState EXCEPT !.fuse_request = NoRequest]

IsApplicationCaller(uid) == uid \in Apps

CallerOrNone(uid) == IF IsApplicationCaller(uid) THEN uid ELSE NoUid

BeginBinderIdentityClear(context, callingUid) ==
    IF context = NoState THEN context
    ELSE [context EXCEPT
            !.binder_clear_depth = @ + 1,
            !.saved_binder_uid = IF context.binder_clear_depth = 0
                                 THEN CallerOrNone(callingUid) ELSE @]

(* Mutant: every restore forgets the caller. *)
EndIdentityClearAtOnce(context) ==
    IF context = NoState \/ context.binder_clear_depth = 0 THEN context
    ELSE [context EXCEPT !.binder_clear_depth = @ - 1, !.saved_binder_uid = NoUid]

EndBinderIdentityClear(context) ==
    IF context = NoState \/ context.binder_clear_depth = 0 THEN context
    ELSE [context EXCEPT
            !.binder_clear_depth = @ - 1,
            !.saved_binder_uid = IF context.binder_clear_depth = 1 THEN NoUid ELSE @]

(* Mutant: a request of the system leaves the last uid in place. *)
BeginAppRequest(context, request, callingUid) ==
    IF context = NoState THEN context
    ELSE [context EXCEPT
            !.fuse_request = request,
            !.fuse_uid = IF IsApplicationCaller(callingUid) THEN callingUid ELSE @]

BeginFuseRequest(context, request, callingUid) ==
    IF context = NoState THEN context
    ELSE [context EXCEPT !.fuse_request = request, !.fuse_uid = CallerOrNone(callingUid)]

EndFuseRequest(context, request) ==
    IF context = NoState \/ context.fuse_request # request THEN context
    ELSE [context EXCEPT !.fuse_request = NoRequest, !.fuse_uid = NoUid]

EffectiveCallerUid(context, currentBinderUid) ==
    CASE IsApplicationCaller(context.fuse_uid) -> context.fuse_uid
      [] ~IsApplicationCaller(context.fuse_uid)
         /\ IsApplicationCaller(currentBinderUid) -> currentBinderUid
      [] OTHER -> CallerOrNone(context.saved_binder_uid)

(* GetThreadState: the states a hook may find or make. *)
GetThreadState(t) ==
    IF ctx[t] # NoState THEN {ctx[t]}
    ELSE {FreshState} \cup (IF AllocMayFail THEN {NoState} ELSE {})

(* The calls of a thread, and the identities a call has to restore, are    *)
(* stacks.                                                                 *)
Top(stack) == stack[Len(stack)]
Pop(stack) == SubSeq(stack, 1, Len(stack) - 1)

RawCallingUid(t) == Top(frames[t]).raw

NoCall == [kind |-> "none"]
NoServing == [request |-> NoRequest, uid |-> NoUid, asked |-> "no"]

-----------------------------------------------------------------------------
(* Installation, in preAppSpecialize of the provider *)

BinderMethods == {"getCallingUid", "clearCallingIdentity", "restoreCallingIdentity"}

(* What the directory view needs, each as the symbols that provide it. *)
Capabilities ==
    {{"open", "openat"}, {"stat", "stat64", "fstatat", "fstatat64"}}
    \cup {{s} : s \in {"access", "opendir", "mkdir", "remove", "rename", "realpath",
                       "readlink", "chmod", "chown", "statvfs", "inotify_add_watch"}}

FilesystemComplete(symbols) == \A c \in Capabilities : c \cap symbols # {}

(* Mutant: a commit is enough. *)
ActiveOnceCommitted(committed, symbols) == committed

VirtualizationActive(committed, symbols) == committed /\ FilesystemComplete(symbols)

NoResult == [hook_registration_attempted |-> FALSE, hooks_committed |-> FALSE,
             virtualization_active |-> FALSE, identity_hook_attempted |-> FALSE,
             identity_hooks |-> FALSE]

(* Mutant: the module stays only for hooks that were committed. *)
RetainCommitted(r) == r.hooks_committed

MustRetainModule(r) == r.hook_registration_attempted \/ r.identity_hook_attempted

ShouldEnableHooks(r) == r.virtualization_active

ValidLogicalRulePath(path) == IsAllowedTarget(path) /\ Len(path) < PathMax

ValidRule(rule) ==
    /\ rule.caller_uid \in Apps \cup {Self}
    /\ ValidLogicalRulePath(rule.visible)
    /\ ValidLogicalRulePath(rule.backing)

Ambiguous(a, b) ==
    /\ a.caller_uid = b.caller_uid /\ a.user_id = b.user_id
    /\ a.visible = b.visible /\ a.backing # b.backing

(* The rule at i is copied after those before it. *)
Copied(input, i) ==
    \A k \in 1..i : ValidRule(input[k]) /\ \A j \in 1..(k - 1) : ~Ambiguous(input[j], input[k])

InstallRules ==
    /\ install = "start"
    /\ \E policy \in Policies, keyReady \in (IF AllocMayFail THEN BOOLEAN ELSE {TRUE}) :
        LET input == LoadProviderRules(policy)
            kept == {i \in 0..Len(input) : Copied(input, i)}
            last == CHOOSE i \in kept : \A j \in kept : j <= i
        IN  \/ /\ input = << >> \/ ~keyReady
               /\ install' = "returned"
               /\ UNCHANGED rules
            \/ /\ input # << >> /\ keyReady
               /\ rules' = SubSeq(input, 1, last)
               /\ install' = IF last = Len(input) THEN "identity" ELSE "returned"
    /\ UNCHANGED <<loaded, jni, registered, patched, enabled, result, fuseVars, threadVars>>

InstallBinderIdentityHooks ==
    /\ install = "identity"
    /\ \E replaced \in SUBSET BinderMethods :
        /\ jni' = replaced
        /\ result' = [NoResult EXCEPT !.identity_hook_attempted = replaced # {}]
        /\ install' = IF replaced = BinderMethods THEN "register" ELSE "returned"
    /\ UNCHANGED <<loaded, rules, registered, patched, enabled, fuseVars, threadVars>>

(* The libraries that stay mapped, each as the symbols it imports. *)
RegisterMappedHooks ==
    /\ install = "register"
    /\ \E images \in ImportSets : registered' = images
    /\ install' = "commit"
    /\ UNCHANGED <<loaded, rules, jni, patched, enabled, result, fuseVars, threadVars>>

(* pltHookCommit replaces the entries of one library after the other. *)
PltHookPatch ==
    /\ install = "commit"
    /\ \E image \in registered : ~(image \subseteq patched) /\ patched' = patched \cup image
    /\ UNCHANGED <<install, loaded, rules, jni, registered, enabled, result, fuseVars,
                   threadVars>>

(* What RegisterHooks and Install do with the answer of pltHookCommit. *)
RegisterHooks ==
    /\ install = "commit"
    /\ \E committed \in BOOLEAN :
        LET r == [hook_registration_attempted |-> UNION registered # {},
                  hooks_committed |-> committed,
                  virtualization_active |-> VirtualizationActive(committed, patched),
                  identity_hook_attempted |-> TRUE,
                  identity_hooks |-> TRUE]
        IN  /\ committed => patched = UNION registered
            /\ result' = r
            /\ enabled' = ShouldEnableHooks(r)
            /\ rules' = IF r.virtualization_active THEN rules ELSE << >>
    /\ install' = "returned"
    /\ UNCHANGED <<loaded, jni, registered, patched, fuseVars, threadVars>>

Specialize ==
    /\ install = "returned"
    /\ loaded' = (result.virtualization_active \/ MustRetainModule(result))
    /\ install' = "done"
    /\ UNCHANGED <<rules, jni, registered, patched, enabled, result, fuseVars, threadVars>>

-----------------------------------------------------------------------------
(* The FUSE library is loaded later, through the hooked loader *)

FuseSymbols == {"fuse_req_userdata", "fuse_req_ctx", "fuse_reply"}

(* A second load, or one while the first is being handled, changes         *)
(* nothing.                                                                *)
HookedDlopen ==
    /\ install = "done" /\ {"dlopen", "android_dlopen_ext"} \cap patched # {}
    /\ fuse = "idle"
    /\ fuse' = "installing"
    /\ UNCHANGED <<installVars, fuseHooks, fuseContext, threadVars>>

(* Which symbols end up replaced, whether fuse_req_ctx is found, and what  *)
(* pltHookCommit says.  A missing library imports nothing.                 *)
MaybeInstallFuseHooks ==
    /\ fuse = "installing"
    /\ \E hooked \in FuseImportSets, found \in BOOLEAN, committed \in BOOLEAN :
        /\ committed => hooked # {}
        /\ fuseHooks' = hooked
        /\ fuseContext' = (found \/ "fuse_req_ctx" \in hooked)
        /\ fuse' = IF /\ committed /\ fuseContext'
                      /\ {"fuse_req_userdata", "fuse_reply"} \subseteq hooked
                   THEN "active" ELSE "failed"
    /\ UNCHANGED <<installVars, threadVars>>

-----------------------------------------------------------------------------
(* The threads of the provider *)

Running == install = "done" /\ loaded
Idle(t) == call[t] = NoCall

(* An incoming Binder call.  A pool thread has restored its own identity   *)
(* before it waits for the next one.                                       *)
Transact(t) ==
    /\ Running /\ role[t] = "binder" /\ Idle(t)
    /\ Len(frames[t]) <= MaxCalls
    /\ NestedCalls \/ (Len(frames[t]) = 1 /\ Top(frames[t]).tokens = << >>)
    /\ \E uid \in Apps \cup {System} :
        frames' = [frames EXCEPT ![t] = Append(@, [caller |-> uid, raw |-> uid, tokens |-> << >>])]
    /\ lost' = [lost EXCEPT ![t] = @ /\ Len(frames[t]) > 1]
    /\ UNCHANGED <<installVars, fuseVars, role, ctx, call, serving, pending>>

(* Binder gives the thread back the identity it had before the call. *)
Return(t) ==
    /\ Idle(t) /\ Len(frames[t]) > 1
    /\ LeakyHandlers \/ Top(frames[t]).tokens = << >>
    /\ frames' = [frames EXCEPT ![t] = Pop(@)]
    /\ UNCHANGED <<installVars, fuseVars, role, ctx, lost, call, serving, pending>>

TopFrame(t, frame) == [frames EXCEPT ![t] = Append(Pop(@), frame)]

HookedClearCallingIdentity(t) ==
    /\ Running /\ jni = BinderMethods /\ Idle(t)
    /\ Len(Top(frames[t]).tokens) < MaxClears
    /\ \E state \in GetThreadState(t) :
        /\ ctx' = [ctx EXCEPT ![t] = BeginBinderIdentityClear(state, RawCallingUid(t))]
        /\ lost' = [lost EXCEPT ![t] = @ \/ state = NoState]
    /\ frames' = TopFrame(t, [Top(frames[t]) EXCEPT !.raw = Self,
                                                    !.tokens = Append(@, RawCallingUid(t))])
    /\ UNCHANGED <<installVars, fuseVars, role, call, serving, pending>>

HookedRestoreCallingIdentity(t) ==
    /\ Running /\ jni = BinderMethods /\ Idle(t)
    /\ Top(frames[t]).tokens # << >>
    /\ frames' = TopFrame(t, [Top(frames[t]) EXCEPT !.raw = Top(Top(frames[t]).tokens),
                                                    !.tokens = Pop(@)])
    /\ \E state \in GetThreadState(t) :
        ctx' = [ctx EXCEPT ![t] = EndBinderIdentityClear(state)]
    /\ UNCHANGED <<installVars, fuseVars, role, lost, call, serving, pending>>

(* A FUSE request reaches a thread of the session. *)
FuseReceive(t) ==
    /\ Running /\ fuse \in {"active", "failed"} /\ role[t] = "fuse" /\ Idle(t)
    /\ serving[t] = NoServing /\ Top(frames[t]).tokens = << >>
    /\ \E r \in Requests, uid \in Apps \cup {System} :
        /\ pending[r] = NoUid
        /\ pending' = [pending EXCEPT ![r] = uid]
        /\ serving' = [serving EXCEPT ![t] = [request |-> r, uid |-> uid, asked |-> "no"]]
    /\ lost' = [lost EXCEPT ![t] = FALSE]
    /\ UNCHANGED <<installVars, fuseVars, role, frames, ctx, call>>

(* CaptureFuseRequest, from either hook. *)
Capture(t) ==
    \E state \in GetThreadState(t) :
        /\ ctx' = [ctx EXCEPT ![t] = BeginFuseRequest(state, serving[t].request, serving[t].uid)]
        /\ lost' = [lost EXCEPT ![t] = @ \/ state = NoState]

(* The handler asks for the session's data, as handlers do first. *)
HookedFuseReqUserdata(t) ==
    /\ Idle(t) /\ serving[t] # NoServing /\ serving[t].asked = "no"
    /\ LET hooked == "fuse_req_userdata" \in fuseHooks /\ fuseContext
       IN  /\ serving' = [serving EXCEPT ![t].asked = IF hooked THEN "hooked" ELSE "unhooked"]
           /\ IF hooked THEN Capture(t) ELSE UNCHANGED <<ctx, lost>>
    /\ UNCHANGED <<installVars, fuseVars, role, frames, call, pending>>

HookedFuseReqContext(t) ==
    /\ Idle(t) /\ serving[t] # NoServing /\ serving[t].asked # "no"
    /\ "fuse_req_ctx" \in fuseHooks
    /\ serving' = [serving EXCEPT ![t].asked = "hooked"]
    /\ Capture(t)
    /\ UNCHANGED <<installVars, fuseVars, role, frames, call, pending>>

(* A reply to the request of the handler, which ends it, or to one that    *)
(* was put off.  Some kinds of reply have no hook.                         *)
HookedFuseReply(t) ==
    /\ Idle(t) /\ serving[t] # NoServing /\ serving[t].asked # "no"
    /\ Top(frames[t]).tokens = << >>
    /\ \E r \in Requests, kind \in {"hooked", "other"} :
        /\ pending[r] # NoUid
        /\ pending' = [pending EXCEPT ![r] = NoUid]
        /\ serving' = [serving EXCEPT ![t] = IF r = @.request THEN NoServing ELSE @]
        /\ IF kind = "hooked" /\ "fuse_reply" \in fuseHooks
           THEN \E state \in GetThreadState(t) :
                    ctx' = [ctx EXCEPT ![t] = EndFuseRequest(state, r)]
           ELSE UNCHANGED ctx
    /\ UNCHANGED <<installVars, fuseVars, role, frames, lost, call>>

FusePutOff(t) ==
    /\ Idle(t) /\ serving[t] # NoServing /\ Top(frames[t]).tokens = << >>
    /\ serving' = [serving EXCEPT ![t] = NoServing]
    /\ UNCHANGED <<installVars, fuseVars, role, frames, ctx, lost, call, pending>>

-----------------------------------------------------------------------------
(* Hooked file operations *)

(* An argument is a directory, named by the descriptor, the working        *)
(* directory or the root, and the components after it.                     *)
ResolveAtPath(arg) ==
    IF \/ arg.comps = << >> \/ arg.dir = NoPath
       \/ Len(arg.dir.comps) + Len(arg.comps) > PathMax
    THEN NoPath
    ELSE [arg.dir EXCEPT !.comps = @ \o arg.comps]

(* The path libc gets for an absolute path. *)
RewriteAtPath(t, context, path) ==
    LET rewritten == RewriteAbsolutePath(
                         rules, EffectiveCallerUid(context, RawCallingUid(t)), path)
    IN  IF ~MatchesVisiblePath(rules, path) \/ rewritten = NoPath THEN path ELSE rewritten

(* Mutant: a hook inside a hook rewrites too. *)
AlwaysOuter(context) == context # NoState

HookGuard(context) == context # NoState /\ ~context.in_path_hook

(* A thread calls libc through an entry that is replaced. *)
Ready(t) ==
    /\ Idle(t) /\ patched # {}
    /\ role[t] = "fuse" => serving[t].asked # "no"

(* What realpath returns for a path that resolves to `links', or to itself. *)
(* The canonical name of a rewritten path is translated back; NoPath       *)
(* stands for EXDEV.  A path that was not rewritten is left to libc.       *)
Resolved(t, final, rewritten, links) ==
    LET canonical == IF links = NoPath THEN final ELSE links
        uid == EffectiveCallerUid(ctx[t], RawCallingUid(t))
    IN  [canonical |-> canonical,
         path |-> IF rewritten THEN RestoreAbsolutePath(rules, uid, canonical)
                  ELSE canonical]

(* The hook up to its call of the original function. *)
Enter(t, kind, args, links) ==
    LET paths == [i \in DOMAIN args |-> ResolveAtPath(args[i])]
        started(outer, finals) ==
            [kind |-> kind, args |-> paths, finals |-> finals, outer |-> outer,
             result |-> IF kind = "realpath" THEN Resolved(t, finals[1], finals # paths, links)
                        ELSE NoPath,
             inner |-> NoPath]
    IN  \/ /\ ~enabled
           /\ call' = [call EXCEPT ![t] = started(FALSE, paths)]
           /\ UNCHANGED <<ctx, lost>>
        \/ /\ enabled
           /\ \E state \in GetThreadState(t) :
               LET outer == HookGuard(state)
                   finals == [i \in DOMAIN paths |-> RewriteAtPath(t, state, paths[i])]
               IN  /\ ctx' = [ctx EXCEPT ![t] =
                          IF outer THEN [state EXCEPT !.in_path_hook = TRUE] ELSE state]
                   /\ lost' = [lost EXCEPT ![t] = @ \/ state = NoState]
                   /\ call' = [call EXCEPT ![t] =
                          started(outer, IF outer THEN finals ELSE paths)]

(* open, stat, mkdir, unlink, chmod and the others with one path. *)
WithPath(t) ==
    /\ Ready(t)
    /\ \E arg \in PathArgs : Enter(t, "path", <<arg>>, NoPath)
    /\ UNCHANGED <<installVars, fuseVars, role, frames, serving, pending>>

(* rename, renameat, renameat2. *)
WithTwoPaths(t) ==
    /\ Ready(t)
    /\ \E old \in PathArgs, new \in PathArgs : Enter(t, "rename", <<old, new>>, NoPath)
    /\ UNCHANGED <<installVars, fuseVars, role, frames, serving, pending>>

HookedRealpath(t) ==
    /\ Ready(t)
    /\ \E arg \in PathArgs, links \in Canonical \cup {NoPath} :
        Enter(t, "realpath", <<arg>>, links)
    /\ UNCHANGED <<installVars, fuseVars, role, frames, serving, pending>>

(* The original function comes back to a replaced entry. *)
InnerCall(t) ==
    /\ call[t] # NoCall /\ call[t].inner = NoPath /\ call[t].finals[1] # NoPath
    /\ LET final == call[t].finals[1]
       IN  call' = [call EXCEPT ![t].inner =
                       IF enabled /\ HookGuard(ctx[t]) THEN RewriteAtPath(t, ctx[t], final)
                       ELSE final]
    /\ UNCHANGED <<installVars, fuseVars, role, frames, ctx, lost, serving, pending>>

CallReturns(t) ==
    /\ call[t] # NoCall
    /\ ctx' = [ctx EXCEPT ![t] =
                  IF call[t].outer THEN [@ EXCEPT !.in_path_hook = FALSE] ELSE @]
    /\ call' = [call EXCEPT ![t] = NoCall]
    /\ UNCHANGED <<installVars, fuseVars, role, frames, lost, serving, pending>>

-----------------------------------------------------------------------------
Init ==
    /\ install = "start" /\ loaded = TRUE /\ rules = << >> /\ jni = {}
    /\ registered = {} /\ patched = {} /\ enabled = FALSE /\ result = NoResult
    /\ fuse = "idle" /\ fuseHooks = {} /\ fuseContext = FALSE
    /\ role \in [Threads -> {"binder", "fuse"}]
    /\ frames = [t \in Threads |-> <<[caller |-> Self, raw |-> Self, tokens |-> << >>]>>]
    /\ ctx = [t \in Threads |-> NoState]
    /\ lost = [t \in Threads |-> FALSE]
    /\ call = [t \in Threads |-> NoCall]
    /\ serving = [t \in Threads |-> NoServing]
    /\ pending = [r \in Requests |-> NoUid]

Install ==
    \/ InstallRules \/ InstallBinderIdentityHooks \/ RegisterMappedHooks \/ PltHookPatch
    \/ RegisterHooks \/ Specialize \/ HookedDlopen \/ MaybeInstallFuseHooks

ThreadStep(t) ==
    \/ Transact(t) \/ Return(t)
    \/ HookedClearCallingIdentity(t) \/ HookedRestoreCallingIdentity(t)
    \/ FuseReceive(t) \/ HookedFuseReqUserdata(t) \/ HookedFuseReqContext(t)
    \/ HookedFuseReply(t) \/ FusePutOff(t)
    \/ WithPath(t) \/ WithTwoPaths(t) \/ HookedRealpath(t) \/ InnerCall(t) \/ CallReturns(t)

Next == Install \/ \E t \in Threads : ThreadStep(t)

Spec == Init /\ [][Next]_vars

-----------------------------------------------------------------------------
(* Properties *)

(* Type invariant. *)
TypeOK ==
    /\ install \in {"start", "identity", "register", "commit", "returned", "done"}
    /\ {loaded, enabled, fuseContext} \subseteq BOOLEAN
    /\ Len(rules) <= MaxRules /\ jni \subseteq BinderMethods
    /\ patched \subseteq UNION registered
    /\ result \in [DOMAIN NoResult -> BOOLEAN]
    /\ fuse \in {"idle", "installing", "active", "failed"} /\ fuseHooks \subseteq FuseSymbols
    /\ \A t \in Threads :
        /\ Len(frames[t]) \in 1..(MaxCalls + 1)
        /\ ctx[t].binder_clear_depth \in 0..(MaxClears * (MaxCalls + 1))
        /\ ctx[t].saved_binder_uid \in Apps \cup {NoUid}
        /\ ctx[t].fuse_uid \in Apps \cup {NoUid}
        /\ lost[t] \in BOOLEAN
    /\ pending \in [Requests -> Apps \cup {System, NoUid}]

(* The application for which the thread works. *)
Origin(t) == CallerOrNone(IF role[t] = "fuse" THEN serving[t].uid ELSE Top(frames[t]).caller)

InCall(t) == call[t] # NoCall
IsRewritten(t) == InCall(t) /\ call[t].finals # call[t].args

(* A path is rewritten only by the rules of the application whose request  *)
(* the thread serves, however its identity was cleared and restored and    *)
(* whatever an earlier request left behind: provider_caller_uid.hpp does   *)
(* not take the caller of one request for that of another.  It holds where *)
(* no call comes in on a thread that waits with its identity cleared, a    *)
(* handler restores what it clears, and a FUSE handler asks for its        *)
(* session's data first (NestedCalls, LeakyHandlers, FuseImportSets);      *)
(* without one of the three it fails.                                      *)
CallerNeverGuessed ==
    \A t \in Threads : InCall(t) =>
        \A i \in DOMAIN call[t].args :
            call[t].finals[i] \in
                {call[t].args[i], RewriteAbsolutePath(rules, Origin(t), call[t].args[i])}

(* Every operation of one request sees the same directory view: while the  *)
(* hooks are enabled, and the thread had its state from the start of the   *)
(* request, a path of the caller's rules is always rewritten, also with    *)
(* the identity cleared and with another request's reply in between.       *)
CallerSeesView ==
    \A t \in Threads :
        /\ InCall(t) /\ call[t].outer /\ ~lost[t]
        /\ role[t] = "fuse" => serving[t].asked = "hooked"
        => \A i \in DOMAIN call[t].args :
            LET view == RewriteAbsolutePath(rules, Origin(t), call[t].args[i])
            IN  view # NoPath => call[t].finals[i] = view

(* A rewritten path is not rewritten again by a hook that the original     *)
(* function runs into, even where the target is the source of another rule *)
(* (HookGuard).                                                            *)
RewrittenOnce ==
    \A t \in Threads :
        IsRewritten(t) => call[t].inner \in {NoPath, call[t].finals[1]}

(* No source of a caller lies below another one. *)
FlatRules ==
    \A i, j \in DOMAIN rules :
        /\ rules[i].caller_uid = rules[j].caller_uid
        /\ rules[i].user_id = rules[j].user_id
        => \/ rules[i].visible = rules[j].visible
           \/ ~MatchesLogicalPath(rules[j].visible, rules[i].visible)

(* What realpath returns for a rewritten path is a name under which the    *)
(* same caller reaches the same file (HookedRealpath translates the        *)
(* canonical name back or fails with EXDEV), for rules without nesting.    *)
RealpathIsVisible ==
    \A t \in Threads :
        /\ IsRewritten(t) /\ call[t].kind = "realpath" /\ call[t].result.path # NoPath
        /\ FlatRules
        => RewriteAbsolutePath(rules, Origin(t), call[t].result.path)
               = call[t].result.canonical

(* Hooks stay passive until the whole set is in place: the callbacks that  *)
(* run while pltHookCommit is at work, or after an incomplete one, rewrite *)
(* nothing.                                                                *)
PassiveUntilValidated ==
    \A t \in Threads :
        IsRewritten(t) => FilesystemComplete(patched) /\ jni = BinderMethods

(* The library is unmapped only if nothing points into it, also after a    *)
(* commit that failed half way (MustRetainModule).                         *)
HooksKeepModule == ~loaded => patched = {} /\ jni = {} /\ fuseHooks = {}
=============================================================================
