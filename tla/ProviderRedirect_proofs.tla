----------------------- MODULE ProviderRedirect_proofs -----------------------
(***************************************************************************)
(* The hooks of a storage provider, proved for every set of threads,       *)
(* requests, applications and imports: the library stays mapped while      *)
(* anything points into it, hooks are passive until all are in place, a    *)
(* path is rewritten once, and a Binder thread keeps track of its caller.  *)
(*                                                                         *)
(* Then what the hooks do for that caller: a path is rewritten only by the *)
(* rules of the application that is served, by those whenever the thread   *)
(* had its state all along, and realpath answers in that application's     *)
(* view.  These rest on what the mapping of paths computes: the rule that  *)
(* is selected exists, and a backing path that is translated back to a     *)
(* visible one leads to itself again.                                      *)
(***************************************************************************)
EXTENDS ProviderRedirect, WellFoundedInduction, TLAPS

(* Most leaves are first-order; those with arithmetic, records or          *)
(* sequences name the SMT solver.                                          *)
USE Zenon

(* Where the installation is, and what it has replaced by then. Hooks are  *)
(* enabled only with a complete set, and the library is unmapped only      *)
(* after an installation that replaced nothing.                            *)
InstallInv ==
    /\ install \in {"start", "identity", "register", "commit", "returned", "done"}
    /\ loaded \in BOOLEAN /\ enabled \in BOOLEAN
    /\ fuse \in {"idle", "installing", "active", "failed"}
    /\ install \in {"start", "identity"} => jni = {} /\ result = NoResult
    /\ install \in {"start", "identity", "register"} => patched = {}
    /\ install \in {"register", "commit"} => jni = BinderMethods
    /\ patched # {} => jni = BinderMethods
    /\ install # "done" => loaded /\ fuse = "idle"
    /\ (install = "returned" /\ jni # {}) => result.identity_hook_attempted
    /\ enabled => /\ install \in {"returned", "done"}
                  /\ FilesystemComplete(patched) /\ jni = BinderMethods
    /\ fuse \in {"idle", "installing"} => fuseHooks = {}
    /\ ~loaded => patched = {} /\ jni = {} /\ fuse = "idle"

(* Nothing is replaced when the process starts. *)
LEMMA InstallInvInit == Init => InstallInv
  BY DEF Init, InstallInv

(* The installation goes forward, and no other step touches what it did. *)
LEMMA InstallInvKept == ASSUME InstallInv, [Next]_vars PROVE InstallInv'
  <1>1. CASE InstallRules
    BY <1>1 DEF InstallInv, InstallRules, fuseVars
  <1>2. CASE InstallBinderIdentityHooks
    BY <1>2 DEF InstallInv, InstallBinderIdentityHooks, fuseVars, NoResult
  <1>3. CASE RegisterMappedHooks
    BY <1>3 DEF InstallInv, RegisterMappedHooks, fuseVars
  <1>4. CASE PltHookPatch
    BY <1>4 DEF InstallInv, PltHookPatch, fuseVars
  <1>5. CASE RegisterHooks
    <2>1. PICK committed \in BOOLEAN :
             /\ result' = [hook_registration_attempted |-> UNION registered # {},
                  hooks_committed |-> committed,
                  virtualization_active |-> VirtualizationActive(committed, patched),
                  identity_hook_attempted |-> TRUE,
                  identity_hooks |-> TRUE]
             /\ enabled' = VirtualizationActive(committed, patched)
      BY <1>5 DEF RegisterHooks, ShouldEnableHooks
    <2>2. enabled' \in BOOLEAN /\ (enabled' => FilesystemComplete(patched))
      BY <2>1 DEF VirtualizationActive
    <2>3. result'.identity_hook_attempted
      BY <2>1
    <2>4. /\ install = "commit" /\ install' = "returned"
          /\ UNCHANGED <<loaded, jni, patched, fuse, fuseHooks>>
      BY <1>5 DEF RegisterHooks, fuseVars
    <2> QED
      BY <2>2, <2>3, <2>4 DEF InstallInv
  <1>6. CASE Specialize
    <2>1. /\ install = "returned" /\ install' = "done"
          /\ loaded' = (result.virtualization_active \/ MustRetainModule(result))
          /\ UNCHANGED <<jni, patched, enabled, fuse, fuseHooks>>
      BY <1>6 DEF Specialize, fuseVars
    <2>2. loaded' \in BOOLEAN /\ (~loaded' => ~result.identity_hook_attempted)
      BY <2>1 DEF MustRetainModule
    <2>3. ~loaded' => jni = {}
      BY <2>1, <2>2 DEF InstallInv
    <2> QED
      BY <2>1, <2>2, <2>3 DEF InstallInv, BinderMethods
  <1>7. CASE HookedDlopen
    BY <1>7 DEF InstallInv, HookedDlopen, installVars
  <1>8. CASE MaybeInstallFuseHooks
    BY <1>8 DEF InstallInv, MaybeInstallFuseHooks, installVars
  <1>9. CASE UNCHANGED <<installVars, fuseVars>>
    BY <1>9 DEF InstallInv, installVars, fuseVars
  <1>10. ASSUME NEW t \in Threads, ThreadStep(t) PROVE UNCHANGED <<installVars, fuseVars>>
    BY <1>10 DEF ThreadStep, Transact, Return, HookedClearCallingIdentity,
       HookedRestoreCallingIdentity, FuseReceive, HookedFuseReqUserdata,
       HookedFuseReqContext, HookedFuseReply, FusePutOff, WithPath, WithTwoPaths,
       HookedRealpath, InnerCall, CallReturns
  <1>11. CASE UNCHANGED vars
    BY <1>9, <1>11 DEF vars
  <1> QED
    BY <1>1, <1>2, <1>3, <1>4, <1>5, <1>6, <1>7, <1>8, <1>9, <1>10, <1>11
       DEF Next, Install

(* The module stays loaded as long as a JNI method or a GOT entry points   *)
(* into it (MustRetainModule, also after a commit that failed).            *)
THEOREM HooksKeep == Spec => []HooksKeepModule
  <1>1. InstallInv => HooksKeepModule
    BY DEF InstallInv, HooksKeepModule
  <1>2. Init /\ [][Next]_vars => []InstallInv
    BY InstallInvInit, InstallInvKept, PTL
  <1> QED
    BY <1>1, <1>2, PTL DEF Spec

-----------------------------------------------------------------------------
(* The call a thread is in. *)

CallRecord(c) ==
    c = [kind |-> c.kind, args |-> c.args, finals |-> c.finals, outer |-> c.outer,
         result |-> c.result, inner |-> c.inner]

Uid == Apps \cup {Self, System}
Frame == [caller : Uid, raw : Uid, tokens : Seq(Uid)]
Context == [in_path_hook : BOOLEAN, saved_binder_uid : Apps \cup {NoUid},
            binder_clear_depth : Nat, fuse_uid : Apps \cup {NoUid},
            fuse_request : Requests \cup {NoRequest, "no state"}]
Serving == [request : Requests, uid : Apps \cup {System},
            asked : {"no", "hooked", "unhooked"}]

ThreadTypes ==
    /\ role \in [Threads -> {"binder", "fuse"}]
    /\ frames \in [Threads -> Seq(Frame) \ {<< >>}]
    /\ ctx \in [Threads -> Context]
    /\ lost \in [Threads -> BOOLEAN]
    /\ serving \in [Threads -> Serving \cup {NoServing}]
    /\ DOMAIN call = Threads
    /\ \A t \in Threads : InCall(t) => CallRecord(call[t])

(* The two states a thread may start from. *)
LEMMA StateTypes ==
  /\ NoState \in Context /\ FreshState \in Context /\ FreshState # NoState
  /\ \A uid : CallerOrNone(uid) \in Apps \cup {NoUid}
  BY DEF NoState, FreshState, Context, CallerOrNone,
     IsApplicationCaller, NoRequest

(* GetThreadState finds or makes a state. *)
LEMMA GetTypes ==
  ASSUME ThreadTypes, NEW t \in Threads, NEW state \in GetThreadState(t)
  PROVE  state \in Context
  BY StateTypes DEF ThreadTypes, GetThreadState

(* The Binder operations keep a state typed. *)
LEMMA BinderTypes ==
  ASSUME NEW c \in Context, NEW uid
  PROVE  BeginBinderIdentityClear(c, uid) \in Context /\ EndBinderIdentityClear(c) \in Context
  <1>1. CallerOrNone(uid) \in Apps \cup {NoUid} /\ NoUid \in Apps \cup {NoUid}
    BY StateTypes
  <1>2. \A d \in Nat, u \in Apps \cup {NoUid} :
            [c EXCEPT !.binder_clear_depth = d, !.saved_binder_uid = u] \in Context
    BY DEF Context
  <1>3. c.binder_clear_depth \in Nat /\ c.saved_binder_uid \in Apps \cup {NoUid}
    BY DEF Context
  <1>4. /\ c.binder_clear_depth + 1 \in Nat
        /\ c.binder_clear_depth # 0 => c.binder_clear_depth - 1 \in Nat
    BY <1>3, SMTT(30)
  <1>5. BeginBinderIdentityClear(c, uid) \in Context
    BY <1>1, <1>2, <1>3, <1>4 DEF BeginBinderIdentityClear
  <1>6. EndBinderIdentityClear(c) \in Context
    BY <1>1, <1>2, <1>3, <1>4 DEF EndBinderIdentityClear
  <1> QED
    BY <1>5, <1>6

(* So do the FUSE operations. *)
LEMMA FuseTypes ==
  ASSUME NEW c \in Context, NEW uid, NEW r \in Requests
  PROVE  BeginFuseRequest(c, r, uid) \in Context /\ EndFuseRequest(c, r) \in Context
  <1>1. CallerOrNone(uid) \in Apps \cup {NoUid}
    BY StateTypes
  <1> QED
    BY <1>1 DEF BeginFuseRequest, EndFuseRequest, Context, NoRequest

(* A call that Binder has just delivered has cleared nothing. *)
LEMMA NewFrame ==
  ASSUME NEW uid \in Uid
  PROVE  [caller |-> uid, raw |-> uid, tokens |-> << >>] \in Frame
  <1>1. << >> \in Seq(Uid)
    BY SMTT(30)
  <1> HIDE DEF Uid
  <1> QED
    BY <1>1 DEF Frame

(* Binder delivers a call on top of the ones a thread is in. *)
LEMMA PushFacts ==
  ASSUME NEW S, NEW s \in Seq(S), NEW f \in S
  PROVE  /\ Append(s, f) \in Seq(S) \ {<< >>} /\ Len(Append(s, f)) = Len(s) + 1
         /\ Append(s, f)[Len(s) + 1] = f
         /\ \A i \in 1..Len(s) : Append(s, f)[i] = s[i]
  BY SMTT(30)

(* Replacing the last frame. *)
LEMMA TopFacts ==
  ASSUME NEW S, NEW s \in Seq(S), s # << >>
  PROVE  /\ Len(s) \in Nat \ {0} /\ Top(s) \in S
         /\ Pop(s) \in Seq(S) /\ Len(Pop(s)) = Len(s) - 1
         /\ \A i \in 1..(Len(s) - 1) : Pop(s)[i] = s[i]
  <1>1. Len(s) \in Nat /\ Len(s) # 0
    BY SMTT(30)
  <1>2. s[Len(s)] \in S
    BY <1>1, SMTT(30)
  <1> DEFINE n == Len(s) - 1
             r == SubSeq(s, 1, n)
  <1>3. n \in Nat /\ \A i \in 1..n : s[i] \in S
    BY <1>1, SMTT(30)
  <1> HIDE DEF n
  <1>4. /\ r \in Seq(S)
        /\ Len(r) = IF 1 <= n THEN n - 1 + 1 ELSE 0
        /\ \A i \in 1..(n - 1 + 1) : r[i] = s[1 + i - 1]
    BY <1>3, SMTT(30)
  <1> HIDE DEF r
  <1>5. r \in Seq(S) /\ Len(r) = n /\ \A i \in 1..n : r[i] = s[i]
    BY <1>3, <1>4, SMTT(30)
  <1> QED
    BY <1>1, <1>2, <1>5 DEF Pop, Top, n, r

(* Replacing the call on top of a thread leaves the ones below. *)
LEMMA TopFrameFacts ==
  ASSUME NEW s \in Seq(Frame), s # << >>, NEW f \in Frame
  PROVE  LET r == Append(Pop(s), f)
         IN  /\ r \in Seq(Frame) /\ r # << >> /\ Len(r) = Len(s) /\ Top(r) = f
             /\ \A i \in 1..(Len(s) - 1) : r[i] = s[i]
  <1> DEFINE p == Pop(s)
             n == Len(s) - 1
             r == Append(p, f)
  <1>1. /\ Len(s) \in Nat /\ Len(s) # 0
        /\ p \in Seq(Frame) /\ Len(p) = n
        /\ \A i \in 1..n : p[i] = s[i]
    BY TopFacts
  <1> HIDE DEF p
  <1>2. /\ r \in Seq(Frame) \ {<< >>} /\ Len(r) = n + 1 /\ r[n + 1] = f
        /\ \A i \in 1..n : r[i] = p[i]
    BY <1>1, PushFacts, SMTT(30)
  <1> HIDE DEF r
  <1>3. n + 1 = Len(s)
    BY <1>1, SMTT(30)
  <1>4. r # << >> /\ Len(r) = Len(s) /\ Top(r) = f
    BY <1>2, <1>3 DEF Top
  <1> QED
    BY <1>1, <1>2, <1>4 DEF r, p

-----------------------------------------------------------------------------
(* The steps of a thread.  A hooked file operation is one of three kinds,  *)
(* which differ in their arguments.                                        *)

Paths(args) == [i \in DOMAIN args |-> ResolveAtPath(args[i])]
Rewritten(t, state, args) == [i \in DOMAIN args |-> RewriteAtPath(t, state, Paths(args)[i])]

Started(t, kind, args, links, outer, finals) ==
    [kind |-> kind, args |-> Paths(args), finals |-> finals, outer |-> outer,
     result |-> IF kind = "realpath" THEN Resolved(t, finals[1], finals # Paths(args), links)
                ELSE NoPath,
     inner |-> NoPath]

(* What the hook notes of the call it passes on. *)
LEMMA StartedFields ==
  ASSUME NEW t, NEW kind, NEW args, NEW links, NEW outer, NEW finals,
         NEW c, c = Started(t, kind, args, links, outer, finals)
  PROVE  /\ c.kind = kind /\ c.args = Paths(args) /\ c.finals = finals
         /\ c.outer = outer /\ c.inner = NoPath
         /\ kind = "realpath" =>
               c.result = Resolved(t, finals[1], finals # Paths(args), links)
  <1> DEFINE paths == Paths(args)
             resolved == Resolved(t, finals[1], finals # Paths(args), links)
             answer == IF kind = "realpath" THEN resolved ELSE NoPath
  <1>1. c = [kind |-> kind, args |-> paths, finals |-> finals, outer |-> outer,
             result |-> answer, inner |-> NoPath]
    BY DEF Started
  <1>2. kind = "realpath" => answer = resolved
    OBVIOUS
  <1> HIDE DEF paths, resolved, answer
  <1>3. /\ c.kind = kind /\ c.args = paths /\ c.finals = finals
        /\ c.outer = outer /\ c.inner = NoPath /\ c.result = answer
    BY <1>1, SMTT(30)
  <1> QED
    BY <1>2, <1>3 DEF paths, resolved

EntersPassive(t, kind, args, links) ==
    /\ ~enabled
    /\ call' = [call EXCEPT ![t] = Started(t, kind, args, links, FALSE, Paths(args))]
    /\ UNCHANGED <<ctx, lost>>

EntersWith(t, state, kind, args, links) ==
    /\ enabled
    /\ ctx' = [ctx EXCEPT ![t] =
                  IF HookGuard(state) THEN [state EXCEPT !.in_path_hook = TRUE] ELSE state]
    /\ lost' = [lost EXCEPT ![t] = @ \/ state = NoState]
    /\ call' = [call EXCEPT ![t] =
                  Started(t, kind, args, links, HookGuard(state),
                          IF HookGuard(state) THEN Rewritten(t, state, args) ELSE Paths(args))]

FileOperation(t) == WithPath(t) \/ WithTwoPaths(t) \/ HookedRealpath(t)

(* A hooked file operation enters with or without the hooks enabled. *)
LEMMA Entering ==
  ASSUME NEW t, NEW kind, NEW args, NEW links, Enter(t, kind, args, links)
  PROVE  \/ EntersPassive(t, kind, args, links)
         \/ \E state \in GetThreadState(t) : EntersWith(t, state, kind, args, links)
  <1>1. CASE ~enabled
    BY <1>1 DEF Enter, EntersPassive, Started, Paths
  <1>2. CASE enabled
    <2>1. PICK state \in GetThreadState(t) :
             /\ ctx' = [ctx EXCEPT ![t] =
                  IF HookGuard(state) THEN [state EXCEPT !.in_path_hook = TRUE] ELSE state]
             /\ lost' = [lost EXCEPT ![t] = @ \/ state = NoState]
             /\ call' = [call EXCEPT ![t] =
                  Started(t, kind, args, links, HookGuard(state),
                          IF HookGuard(state)
                          THEN [i \in DOMAIN Paths(args) |->
                                  RewriteAtPath(t, state, Paths(args)[i])]
                          ELSE Paths(args))]
      BY <1>2 DEF Enter, Started, Paths
    <2>2. [i \in DOMAIN Paths(args) |-> RewriteAtPath(t, state, Paths(args)[i])]
            = Rewritten(t, state, args)
      BY DEF Paths, Rewritten
    <2> QED
      BY <1>2, <2>1, <2>2 DEF EntersWith
  <1> QED
    BY <1>1, <1>2

(* Each of the three kinds enters with its own arguments. *)
LEMMA FileOperations ==
  ASSUME NEW t \in Threads, FileOperation(t)
  PROVE  /\ Ready(t)
         /\ UNCHANGED <<installVars, fuseVars, role, frames, serving, pending>>
         /\ \E kind \in {"path", "rename", "realpath"}, args \in Seq(PathArgs) \ {<< >>},
               links \in Canonical \cup {NoPath} : Enter(t, kind, args, links)
  <1>1. \A arg \in PathArgs : <<arg>> \in Seq(PathArgs) \ {<< >>}
    BY SMTT(30)
  <1>2. \A old, new \in PathArgs : <<old, new>> \in Seq(PathArgs) \ {<< >>}
    BY SMTT(30)
  <1>3. CASE WithPath(t)
    BY <1>1, <1>3 DEF WithPath
  <1>4. CASE WithTwoPaths(t)
    BY <1>2, <1>4 DEF WithTwoPaths
  <1>5. CASE HookedRealpath(t)
    BY <1>1, <1>5 DEF HookedRealpath
  <1> QED
    BY <1>3, <1>4, <1>5 DEF FileOperation

(* A thread leaves the others alone. *)
LEMMA OtherThreads ==
  ASSUME ThreadTypes, NEW t \in Threads, ThreadStep(t), NEW u \in Threads, u # t
  PROVE  UNCHANGED <<frames[u], ctx[u], lost[u], call[u], serving[u]>>
  <1> USE DEF ThreadTypes
  <1>1. CASE Transact(t)
    BY <1>1 DEF Transact
  <1>2. CASE Return(t)
    BY <1>2 DEF Return
  <1>3. CASE HookedClearCallingIdentity(t)
    BY <1>3 DEF HookedClearCallingIdentity, TopFrame
  <1>4. CASE HookedRestoreCallingIdentity(t)
    BY <1>4 DEF HookedRestoreCallingIdentity, TopFrame
  <1>5. CASE FuseReceive(t)
    BY <1>5 DEF FuseReceive
  <1>6. CASE HookedFuseReqUserdata(t)
    BY <1>6 DEF HookedFuseReqUserdata, Capture
  <1>7. CASE HookedFuseReqContext(t)
    BY <1>7 DEF HookedFuseReqContext, Capture
  <1>8. CASE HookedFuseReply(t)
    BY <1>8 DEF HookedFuseReply
  <1>9. CASE FusePutOff(t)
    BY <1>9 DEF FusePutOff
  <1>10. CASE FileOperation(t)
    <2>1. PICK kind, args, links : Enter(t, kind, args, links)
      BY <1>10, FileOperations
    <2>2. UNCHANGED <<frames, serving>>
      BY <1>10, FileOperations
    <2>3. UNCHANGED <<ctx[u], lost[u], call[u]>>
      <3>1. CASE EntersPassive(t, kind, args, links)
        BY <3>1 DEF EntersPassive
      <3>2. ASSUME NEW state, EntersWith(t, state, kind, args, links)
            PROVE  UNCHANGED <<ctx[u], lost[u], call[u]>>
        BY <3>2 DEF EntersWith
      <3> QED
        BY <2>1, <3>1, <3>2, Entering
    <2> QED
      BY <2>2, <2>3
  <1>11. CASE InnerCall(t)
    BY <1>11 DEF InnerCall
  <1>12. CASE CallReturns(t)
    BY <1>12 DEF CallReturns
  <1> QED
    BY <1>1, <1>2, <1>3, <1>4, <1>5, <1>6, <1>7, <1>8, <1>9, <1>10, <1>11, <1>12
       DEF ThreadStep, FileOperation

(* The threads start typed. *)
LEMMA ThreadTypesInit == Init => ThreadTypes
  <1> SUFFICES ASSUME Init PROVE ThreadTypes
    OBVIOUS
  <1> DEFINE own == [caller |-> Self, raw |-> Self, tokens |-> << >>]
  <1>0. Self \in Uid
    BY DEF Uid
  <1>1. own \in Frame
    BY <1>0, NewFrame
  <1>4. frames = [t \in Threads |-> <<own>>]
    BY DEF Init
  <1> HIDE DEF own
  <1>2. <<own>> \in Seq(Frame) \ {<< >>}
    BY <1>1, SMTT(30)
  <1>3. frames \in [Threads -> Seq(Frame) \ {<< >>}]
    BY <1>2, <1>4
  <1> QED
    BY <1>3, StateTypes DEF Init, ThreadTypes, InCall

(* The new state of the thread that steps is typed, and the others keep    *)
(* theirs.                                                                 *)
LEMMA ThreadTypesStep == ASSUME ThreadTypes, NEW t \in Threads, ThreadStep(t)
                         PROVE  ThreadTypes'
  <1>0. /\ frames \in [Threads -> Seq(Frame) \ {<< >>}]
        /\ ctx \in [Threads -> Context] /\ lost \in [Threads -> BOOLEAN]
        /\ serving \in [Threads -> Serving \cup {NoServing}] /\ DOMAIN call = Threads
        /\ \A u \in Threads : InCall(u) => CallRecord(call[u])
        /\ role \in [Threads -> {"binder", "fuse"}]
    BY DEF ThreadTypes
  <1>a. frames[t] \in Seq(Frame) /\ frames[t] # << >> /\ ctx[t] \in Context
    BY <1>0
  <1>b. /\ Top(frames[t]) \in Frame /\ Pop(frames[t]) \in Seq(Frame)
        /\ Len(Pop(frames[t])) = Len(frames[t]) - 1 /\ Len(frames[t]) \in Nat
    BY <1>a, TopFacts
  <1>1. /\ Top(frames[t]) \in Frame /\ Pop(frames[t]) \in Seq(Frame)
        /\ Top(frames[t]).raw \in Uid /\ Top(frames[t]).tokens \in Seq(Uid)
    BY <1>b DEF Frame
  <1>2. \A state \in GetThreadState(t) : state \in Context
    BY GetTypes
  <1>3. role' = role
    BY DEF ThreadStep, Transact, Return, HookedClearCallingIdentity,
       HookedRestoreCallingIdentity, FuseReceive, HookedFuseReqUserdata,
       HookedFuseReqContext, HookedFuseReply, FusePutOff, WithPath, WithTwoPaths,
       HookedRealpath, InnerCall, CallReturns
  <1>4. SUFFICES /\ frames' \in [Threads -> Seq(Frame) \ {<< >>}]
                 /\ ctx' \in [Threads -> Context] /\ lost' \in [Threads -> BOOLEAN]
                 /\ serving' \in [Threads -> Serving \cup {NoServing}]
                 /\ DOMAIN call' = Threads
                 /\ \A u \in Threads : call'[u] # NoCall => CallRecord(call'[u])
    BY <1>0, <1>3 DEF ThreadTypes, InCall
  <1>5. \A u \in Threads : call[u] # NoCall => CallRecord(call[u])
    BY <1>0 DEF InCall
  <1>6. CASE Transact(t)
    <2>1. PICK uid \in Apps \cup {System} :
            frames' = [frames EXCEPT ![t] =
                          Append(@, [caller |-> uid, raw |-> uid, tokens |-> << >>])]
      BY <1>6 DEF Transact
    <2> DEFINE new == [caller |-> uid, raw |-> uid, tokens |-> << >>]
    <2>2. uid \in Uid
      BY DEF Uid
    <2>3. new \in Frame
      BY <2>2, NewFrame
    <2>6. frames' = [frames EXCEPT ![t] = Append(frames[t], new)]
      BY <2>1
    <2> HIDE DEF new
    <2>7. Append(frames[t], new) \in Seq(Frame) \ {<< >>}
      BY <1>a, <2>3, PushFacts
    <2>4. frames' \in [Threads -> Seq(Frame) \ {<< >>}]
      BY <1>0, <2>6, <2>7
    <2>5. lost' \in [Threads -> BOOLEAN]
      BY <1>0, <1>6 DEF Transact
    <2> QED
      BY <1>0, <1>5, <1>6, <2>4, <2>5 DEF Transact
  <1>7. CASE Return(t)
    <2>1. Pop(frames[t]) # << >>
      <3>1. Len(frames[t]) > 1
        BY <1>7 DEF Return
      <3>2. \A m, n \in Nat : n > 1 /\ m = n - 1 => m # 0
        BY SMTT(30)
      <3>3. Len(Pop(frames[t])) \in Nat
        BY <1>b, SMTT(30)
      <3> QED
        BY <1>b, <3>1, <3>2, <3>3
    <2>2. frames' \in [Threads -> Seq(Frame) \ {<< >>}]
      <3>1. frames' = [frames EXCEPT ![t] = Pop(frames[t])]
        BY <1>7 DEF Return
      <3>2. Pop(frames[t]) \in Seq(Frame) \ {<< >>}
        BY <1>1, <2>1
      <3> QED
        BY <1>0, <3>1, <3>2
    <2> QED
      BY <1>0, <1>5, <1>7, <2>2 DEF Return
  <1>8. CASE HookedClearCallingIdentity(t)
    <2> DEFINE top == [Top(frames[t]) EXCEPT !.raw = Self,
                          !.tokens = Append(@, RawCallingUid(t))]
    <2>1. Append(Top(frames[t]).tokens, RawCallingUid(t)) \in Seq(Uid)
      BY <1>1, PushFacts DEF RawCallingUid
    <2>2. top \in Frame
      BY <1>1, <2>1 DEF Frame, Uid
    <2>3. frames' = [frames EXCEPT ![t] = Append(Pop(@), top)]
      BY <1>8 DEF HookedClearCallingIdentity, TopFrame
    <2> HIDE DEF top
    <2>4. Append(Pop(frames[t]), top) \in Seq(Frame) \ {<< >>}
      BY <1>a, <2>2, TopFrameFacts
    <2>5. frames' \in [Threads -> Seq(Frame) \ {<< >>}]
      BY <1>0, <2>3, <2>4
    <2>6. PICK state \in GetThreadState(t) :
            /\ ctx' = [ctx EXCEPT ![t] = BeginBinderIdentityClear(state, RawCallingUid(t))]
            /\ lost' = [lost EXCEPT ![t] = @ \/ state = NoState]
      BY <1>8 DEF HookedClearCallingIdentity
    <2>7. BeginBinderIdentityClear(state, RawCallingUid(t)) \in Context
      BY <1>2, BinderTypes
    <2>8. ctx' \in [Threads -> Context] /\ lost' \in [Threads -> BOOLEAN]
      BY <1>0, <2>6, <2>7
    <2> QED
      BY <1>0, <1>5, <1>8, <2>5, <2>8 DEF HookedClearCallingIdentity
  <1>9. CASE HookedRestoreCallingIdentity(t)
    <2> DEFINE top == [Top(frames[t]) EXCEPT !.raw = Top(Top(frames[t]).tokens),
                                              !.tokens = Pop(@)]
    <2>1. /\ Top(Top(frames[t]).tokens) \in Uid
          /\ Pop(Top(frames[t]).tokens) \in Seq(Uid)
      BY <1>1, <1>9, TopFacts DEF HookedRestoreCallingIdentity
    <2>2. top \in Frame
      BY <1>1, <2>1 DEF Frame
    <2>3. frames' = [frames EXCEPT ![t] = Append(Pop(@), top)]
      BY <1>9 DEF HookedRestoreCallingIdentity, TopFrame
    <2> HIDE DEF top
    <2>4. Append(Pop(frames[t]), top) \in Seq(Frame) \ {<< >>}
      BY <1>a, <2>2, TopFrameFacts
    <2>5. frames' \in [Threads -> Seq(Frame) \ {<< >>}]
      BY <1>0, <2>3, <2>4
    <2>6. PICK state \in GetThreadState(t) :
            ctx' = [ctx EXCEPT ![t] = EndBinderIdentityClear(state)]
      BY <1>9 DEF HookedRestoreCallingIdentity
    <2>7. EndBinderIdentityClear(state) \in Context
      BY <1>2, BinderTypes
    <2>8. ctx' \in [Threads -> Context]
      BY <1>0, <2>6, <2>7
    <2> QED
      BY <1>0, <1>5, <1>9, <2>5, <2>8 DEF HookedRestoreCallingIdentity
  <1>10. CASE FuseReceive(t)
    <2>1. serving' \in [Threads -> Serving \cup {NoServing}]
      <3>1. PICK r \in Requests, uid \in Apps \cup {System} :
              serving' = [serving EXCEPT ![t] = [request |-> r, uid |-> uid, asked |-> "no"]]
        BY <1>10 DEF FuseReceive
      <3>2. [request |-> r, uid |-> uid, asked |-> "no"] \in Serving
        BY DEF Serving
      <3> QED
        BY <1>0, <3>1, <3>2
    <2>2. lost' \in [Threads -> BOOLEAN]
      BY <1>0, <1>10 DEF FuseReceive
    <2> QED
      BY <1>0, <1>5, <1>10, <2>1, <2>2 DEF FuseReceive
  <1>11. ASSUME Capture(t), serving[t].request \in Requests
         PROVE  ctx' \in [Threads -> Context] /\ lost' \in [Threads -> BOOLEAN]
    <2>1. PICK state \in GetThreadState(t) :
            /\ ctx' = [ctx EXCEPT ![t] =
                        BeginFuseRequest(state, serving[t].request, serving[t].uid)]
            /\ lost' = [lost EXCEPT ![t] = @ \/ state = NoState]
      BY <1>11 DEF Capture
    <2>2. BeginFuseRequest(state, serving[t].request, serving[t].uid) \in Context
      BY <1>2, <1>11, FuseTypes
    <2> QED
      BY <1>0, <2>1, <2>2
  <1>12. CASE HookedFuseReqUserdata(t) \/ HookedFuseReqContext(t)
    <2>1. PICK asked \in {"hooked", "unhooked"} :
            serving' = [serving EXCEPT ![t].asked = asked]
      BY <1>12 DEF HookedFuseReqUserdata, HookedFuseReqContext
    <2>2. serving[t] # NoServing /\ UNCHANGED <<frames, call>>
      BY <1>12 DEF HookedFuseReqUserdata, HookedFuseReqContext
    <2>3. serving[t] \in Serving
      BY <1>0, <2>2
    <2>4. [serving[t] EXCEPT !.asked = asked] \in Serving /\ serving[t].request \in Requests
      BY <2>3 DEF Serving
    <2>5. serving' \in [Threads -> Serving \cup {NoServing}]
      BY <1>0, <2>1, <2>4
    <2> QED
      BY <1>0, <1>5, <1>11, <1>12, <2>2, <2>4, <2>5
         DEF HookedFuseReqUserdata, HookedFuseReqContext
  <1>13. CASE HookedFuseReply(t)
    <2>1. serving' \in [Threads -> Serving \cup {NoServing}]
      BY <1>0, <1>13 DEF HookedFuseReply
    <2>2. ctx' \in [Threads -> Context]
      <3>1. CASE \E r \in Requests, state \in GetThreadState(t) :
                   ctx' = [ctx EXCEPT ![t] = EndFuseRequest(state, r)]
        <4>1. PICK r \in Requests, state \in GetThreadState(t) :
                ctx' = [ctx EXCEPT ![t] = EndFuseRequest(state, r)]
          BY <3>1
        <4>2. EndFuseRequest(state, r) \in Context
          BY <1>2, FuseTypes
        <4> QED
          BY <1>0, <4>1, <4>2
      <3>2. CASE UNCHANGED ctx
        BY <1>0, <3>2
      <3> QED
        BY <1>13, <3>1, <3>2 DEF HookedFuseReply
    <2> QED
      BY <1>0, <1>5, <1>13, <2>1, <2>2 DEF HookedFuseReply
  <1>14. CASE FusePutOff(t)
    BY <1>0, <1>5, <1>14 DEF FusePutOff
  <1>15. CASE FileOperation(t)
    <2>1. PICK kind, args, links : Enter(t, kind, args, links)
      BY <1>15, FileOperations
    <2>2. UNCHANGED <<frames, serving>>
      BY <1>15, FileOperations
    <2>3. \A outer, finals : CallRecord(Started(t, kind, args, links, outer, finals))
      BY DEF CallRecord, Started
    <2>4. CASE EntersPassive(t, kind, args, links)
      BY <1>0, <1>5, <2>2, <2>3, <2>4 DEF EntersPassive
    <2>5. ASSUME NEW state \in GetThreadState(t), EntersWith(t, state, kind, args, links)
          PROVE  /\ ctx' \in [Threads -> Context] /\ lost' \in [Threads -> BOOLEAN]
                 /\ DOMAIN call' = Threads
                 /\ \A u \in Threads : call'[u] # NoCall => CallRecord(call'[u])
      <3>1. state \in Context /\ [state EXCEPT !.in_path_hook = TRUE] \in Context
        BY <1>2 DEF Context
      <3>2. ctx' \in [Threads -> Context]
        BY <1>0, <2>5, <3>1 DEF EntersWith
      <3>3. lost' \in [Threads -> BOOLEAN]
        BY <1>0, <2>5 DEF EntersWith
      <3>4. PICK c : call' = [call EXCEPT ![t] = c] /\ CallRecord(c)
        BY <2>3, <2>5 DEF EntersWith
      <3> QED
        BY <1>0, <1>5, <3>2, <3>3, <3>4
    <2> QED
      BY <1>0, <2>1, <2>2, <2>4, <2>5, Entering
  <1>16. CASE InnerCall(t)
    <2>1. CallRecord(call[t]) /\ UNCHANGED <<frames, ctx, lost, serving>>
      BY <1>5, <1>16 DEF InnerCall
    <2>2. PICK path : call' = [call EXCEPT ![t].inner = path]
      BY <1>16 DEF InnerCall
    <2>3. CallRecord([call[t] EXCEPT !.inner = path])
      BY <2>1, SMTT(30) DEF CallRecord
    <2>4. call' = [call EXCEPT ![t] = [call[t] EXCEPT !.inner = path]]
      BY <2>2
    <2> QED
      BY <1>0, <1>5, <2>1, <2>3, <2>4
  <1>17. CASE CallReturns(t)
    <2>1. call' = [call EXCEPT ![t] = NoCall] /\ UNCHANGED <<frames, lost, serving>>
      BY <1>17 DEF CallReturns
    <2>2. ctx' \in [Threads -> Context]
      <3>1. [ctx[t] EXCEPT !.in_path_hook = FALSE] \in Context
        BY <1>a DEF Context
      <3> QED
        BY <1>0, <1>17, <3>1 DEF CallReturns
    <2> QED
      BY <1>0, <1>5, <2>1, <2>2
  <1> QED
    BY <1>6, <1>7, <1>8, <1>9, <1>10, <1>12, <1>13, <1>14, <1>15, <1>16, <1>17
       DEF ThreadStep, FileOperation

(* Steps of the installation do not touch the threads. *)
LEMMA InstallSteps ==
  ASSUME InstallInv, Install
  PROVE  UNCHANGED threadVars /\ (enabled => enabled' /\ rules' = rules)
  BY DEF Install, InstallInv, InstallRules, InstallBinderIdentityHooks, RegisterMappedHooks,
     PltHookPatch, RegisterHooks, Specialize, HookedDlopen, MaybeInstallFuseHooks, installVars

(* Steps of the threads do not touch the installation. *)
LEMMA ThreadSteps ==
  ASSUME NEW t \in Threads, ThreadStep(t)
  PROVE  UNCHANGED <<installVars, fuseVars, role>>
  BY DEF ThreadStep, Transact, Return, HookedClearCallingIdentity,
     HookedRestoreCallingIdentity, FuseReceive, HookedFuseReqUserdata,
     HookedFuseReqContext, HookedFuseReply, FusePutOff, WithPath, WithTwoPaths,
     HookedRealpath, InnerCall, CallReturns

(* All but a file operation and its parts happen outside of one. *)
IdentityStep(t) ==
    \/ Transact(t) \/ Return(t)
    \/ HookedClearCallingIdentity(t) \/ HookedRestoreCallingIdentity(t)
    \/ FuseReceive(t) \/ HookedFuseReqUserdata(t) \/ HookedFuseReqContext(t)
    \/ HookedFuseReply(t) \/ FusePutOff(t)

(* They leave no file operation behind. *)
LEMMA IdentitySteps ==
  ASSUME NEW t \in Threads, IdentityStep(t)
  PROVE  call[t] = NoCall /\ call' = call
  BY DEF IdentityStep, Idle, Transact, Return, HookedClearCallingIdentity,
     HookedRestoreCallingIdentity, FuseReceive, HookedFuseReqUserdata,
     HookedFuseReqContext, HookedFuseReply, FusePutOff

(* The steps of a thread, by what they do to its file operation. *)
LEMMA StepCases ==
  ASSUME NEW t \in Threads, ThreadStep(t)
  PROVE  IdentityStep(t) \/ FileOperation(t) \/ InnerCall(t) \/ CallReturns(t)
  BY DEF ThreadStep, IdentityStep, FileOperation

(* While a hook that rewrites is at work, the thread is marked, and paths  *)
(* go through unchanged where none is.                                     *)
Guarded(t) ==
    InCall(t) =>
        /\ call[t].outer => enabled /\ ctx[t] # NoState /\ ctx[t].in_path_hook
        /\ ~call[t].outer => call[t].finals = call[t].args
        /\ IsRewritten(t) => call[t].inner \in {NoPath, call[t].finals[1]}

GuardInv == \A t \in Threads : Guarded(t)

(* Enabling the hooks does not change a call that is under way. *)
LEMMA GuardInstall ==
  ASSUME InstallInv, GuardInv, Install \/ UNCHANGED vars
  PROVE  GuardInv'
  <1>1. UNCHANGED threadVars /\ (enabled => enabled')
    BY InstallSteps, SMTT(30) DEF vars, installVars
  <1> QED
    BY <1>1 DEF GuardInv, Guarded, InCall, IsRewritten, threadVars

(* HookGuard marks the thread for the time of the call, and no longer. *)
LEMMA GuardStep ==
  ASSUME ThreadTypes, GuardInv, NEW t \in Threads, ThreadStep(t)
  PROVE  GuardInv'
  <1>0. /\ UNCHANGED enabled /\ ctx \in [Threads -> Context]
        /\ DOMAIN call = Threads /\ call[t] # NoCall => CallRecord(call[t])
    BY ThreadSteps DEF installVars, ThreadTypes, InCall
  <1>d. DOMAIN call = Threads
    BY DEF ThreadTypes
  <1>1. ASSUME NEW u \in Threads, u # t PROVE Guarded(u)'
    <2>1. UNCHANGED <<ctx[u], call[u]>> /\ Guarded(u)
      BY <1>1, OtherThreads DEF GuardInv
    <2> QED
      BY <1>0, <2>1 DEF Guarded, InCall, IsRewritten
  <1>2. Guarded(t)'
    <2>1. CASE IdentityStep(t)
      BY <2>1, IdentitySteps DEF Guarded, InCall
    <2>2. CASE FileOperation(t)
      <3>1. PICK kind, args, links : Enter(t, kind, args, links)
        BY <2>2, FileOperations
      <3>2. CASE EntersPassive(t, kind, args, links)
        <4> DEFINE outer == FALSE
                   paths == Paths(args)
        <4>1. call'[t] = Started(t, kind, args, links, outer, paths)
          BY <1>d, <3>2 DEF EntersPassive
        <4> HIDE DEF outer, paths
        <4>2. /\ call'[t].outer = outer /\ call'[t].inner = NoPath
              /\ call'[t].finals = paths /\ call'[t].args = Paths(args)
          BY <4>1, StartedFields, SMTT(30)
        <4>3. /\ ~call'[t].outer /\ call'[t].inner = NoPath
              /\ call'[t].finals = call'[t].args
          BY <4>2 DEF outer, paths
        <4> QED
          BY <4>3 DEF Guarded, InCall, IsRewritten
      <3>3. ASSUME NEW state \in GetThreadState(t), EntersWith(t, state, kind, args, links)
            PROVE  Guarded(t)'
        <4>1. state \in Context
          BY GetTypes
        <4> DEFINE finals == IF HookGuard(state) THEN Rewritten(t, state, args)
                             ELSE Paths(args)
                   outer == HookGuard(state)
        <4>2. call'[t] = Started(t, kind, args, links, outer, finals)
          BY <1>d, <3>3 DEF EntersWith
        <4>6. ~HookGuard(state) => finals = Paths(args)
          OBVIOUS
        <4> HIDE DEF finals, outer
        <4>7. /\ call'[t].outer = outer /\ call'[t].inner = NoPath
              /\ call'[t].finals = finals /\ call'[t].args = Paths(args)
          BY <4>2, StartedFields, SMTT(30)
        <4>3. /\ call'[t].outer = HookGuard(state) /\ call'[t].inner = NoPath
              /\ call'[t].finals = finals /\ call'[t].args = Paths(args)
          BY <4>7 DEF outer
        <4>4. HookGuard(state) => ctx'[t] = [state EXCEPT !.in_path_hook = TRUE]
          BY <1>0, <3>3 DEF EntersWith
        <4>5. HookGuard(state) => ctx'[t] # NoState /\ ctx'[t].in_path_hook
          <5>1. [state EXCEPT !.in_path_hook = TRUE].in_path_hook = TRUE
            BY <4>1 DEF Context
          <5>2. NoState.in_path_hook = FALSE
            BY DEF NoState
          <5> QED
            BY <4>4, <5>1, <5>2
        <4> QED
          BY <1>0, <3>3, <4>3, <4>5, <4>6 DEF Guarded, InCall, IsRewritten, EntersWith
      <3> QED
        BY <3>1, <3>2, <3>3, Entering
    <2>3. CASE InnerCall(t)
      <3>1. PICK path : call' = [call EXCEPT ![t].inner = path]
                        /\ path = IF enabled /\ HookGuard(ctx[t])
                                  THEN RewriteAtPath(t, ctx[t], call[t].finals[1])
                                  ELSE call[t].finals[1]
        BY <2>3 DEF InnerCall
      <3>2. call[t] # NoCall /\ UNCHANGED ctx
        BY <2>3 DEF InnerCall
      <3>3. /\ call'[t].outer = call[t].outer /\ call'[t].inner = path
            /\ call'[t].finals = call[t].finals /\ call'[t].args = call[t].args
        <4>1. call'[t] = [call[t] EXCEPT !.inner = path]
          BY <1>d, <3>1
        <4> QED
          BY <1>0, <3>2, <4>1, SMTT(30) DEF CallRecord
      <3>4. Guarded(t)
        BY DEF GuardInv
      <3>5. call[t].outer => path = call[t].finals[1]
        BY <3>1, <3>2, <3>4 DEF Guarded, InCall, HookGuard
      <3> QED
        BY <1>0, <3>2, <3>3, <3>4, <3>5 DEF Guarded, InCall, IsRewritten
    <2>4. CASE CallReturns(t)
      BY <1>d, <2>4 DEF CallReturns, Guarded, InCall
    <2> QED
      BY <2>1, <2>2, <2>3, <2>4, StepCases
  <1> QED
    BY <1>1, <1>2 DEF GuardInv

(* Steps of the installation keep the threads typed. *)
LEMMA ThreadTypesInstall ==
  ASSUME InstallInv, ThreadTypes, Install \/ UNCHANGED vars PROVE ThreadTypes'
  <1>1. UNCHANGED threadVars
    BY InstallSteps DEF vars
  <1>2. UNCHANGED <<role, frames, ctx, lost, serving, call>>
    BY <1>1 DEF threadVars
  <1>3. \A t \in Threads : InCall(t)' => CallRecord(call'[t])
    BY <1>2 DEF ThreadTypes, InCall
  <1> QED
    BY <1>2, <1>3 DEF ThreadTypes

(* The inductive invariant of the installation and of in_path_hook. *)
THEOREM GuardInvariance == Spec => [](InstallInv /\ ThreadTypes /\ GuardInv)
  <1>1. Init => InstallInv /\ ThreadTypes /\ GuardInv
    <2>1. Init => \A t \in Threads : call[t] = NoCall
      BY DEF Init
    <2>2. Init => GuardInv
      BY <2>1 DEF GuardInv, Guarded, InCall, IsRewritten
    <2> QED
      BY <2>2, InstallInvInit, ThreadTypesInit
  <1>2. InstallInv /\ ThreadTypes /\ GuardInv /\ [Next]_vars
          => (InstallInv /\ ThreadTypes /\ GuardInv)'
    BY InstallInvKept, ThreadTypesStep, ThreadTypesInstall, GuardStep, GuardInstall
       DEF Next
  <1> QED
    BY <1>1, <1>2, PTL DEF Spec

(* A hook that is called within a hook passes its path on (HookGuard): a   *)
(* path that was rewritten is not rewritten again.                         *)
THEOREM RewritingOnce == Spec => []RewrittenOnce
  <1>1. GuardInv => RewrittenOnce
    BY DEF GuardInv, Guarded, RewrittenOnce, IsRewritten
  <1> QED
    BY <1>1, GuardInvariance, PTL

(* Until every hook the directory view needs is in place, and the Binder   *)
(* methods are replaced, no path is rewritten (ShouldEnableHooks).         *)
THEOREM Passivity == Spec => []PassiveUntilValidated
  <1>1. InstallInv /\ GuardInv => PassiveUntilValidated
    BY DEF GuardInv, Guarded, InstallInv, PassiveUntilValidated, IsRewritten
  <1> QED
    BY <1>1, GuardInvariance, PTL

-----------------------------------------------------------------------------
(* What the next results assume of the provider's handlers: they restore   *)
(* the identity they clear, are not called while they wait for a reply,    *)
(* and a FUSE library that fetches a request's context through a hook      *)
(* fetches the session's data through one.                                 *)
WellBehaved ==
    /\ ~NestedCalls /\ ~LeakyHandlers
    /\ \A symbols \in FuseImportSets :
          "fuse_req_ctx" \in symbols => "fuse_req_userdata" \in symbols

-----------------------------------------------------------------------------
(* The identity of a Binder call.  The first token that a call clears is   *)
(* its caller, the later ones are the provider's own.                      *)

Honest(f) ==
    /\ f.tokens = << >> => f.raw = f.caller
    /\ f.tokens # << >> => f.raw = Self /\ f.tokens[1] = f.caller
    /\ \A i \in 2..Len(f.tokens) : f.tokens[i] = Self

(* The state of the thread never claims more than the call has cleared. *)
Tracks(f, c) ==
    /\ c.binder_clear_depth <= Len(f.tokens)
    /\ c.binder_clear_depth = 0 => c.saved_binder_uid = NoUid
    /\ c.saved_binder_uid \in {NoUid, CallerOrNone(f.caller)}

(* A state that was there all along counts exactly. *)
Exact(f, c) ==
    /\ c.binder_clear_depth = Len(f.tokens)
    /\ c.binder_clear_depth > 0 => c.saved_binder_uid = CallerOrNone(f.caller)

(* The work of a thread that serves no call. *)
OwnFrame == [caller |-> Self, raw |-> Self, tokens |-> << >>]

(* The state of a thread is right about the call on top.  A pool thread    *)
(* serves one call at a time.                                              *)
Identified(t) ==
    /\ Len(frames[t]) \in {1, 2}
    /\ Len(frames[t]) = 1 => Top(frames[t]).caller = Self
    /\ Len(frames[t]) = 2 => role[t] = "binder" /\ frames[t][1] = OwnFrame
    /\ Honest(Top(frames[t]))
    /\ Tracks(Top(frames[t]), ctx[t])
    /\ ~lost[t] /\ Len(frames[t]) = 2 => Exact(Top(frames[t]), ctx[t])

-----------------------------------------------------------------------------
(* Clearing and restoring the identity of the call on top. *)

Cleared(f) == [f EXCEPT !.raw = Self, !.tokens = Append(@, f.raw)]
Restored(f) == [f EXCEPT !.raw = Top(f.tokens), !.tokens = Pop(@)]

(* clearCallingIdentity adds the current identity to those to restore. *)
LEMMA ClearedFrame ==
  ASSUME NEW f \in Frame
  PROVE  /\ Cleared(f) \in Frame /\ Cleared(f).caller = f.caller
         /\ Len(Cleared(f).tokens) = Len(f.tokens) + 1
         /\ Honest(f) => Honest(Cleared(f))
  <1>1. f.tokens \in Seq(Uid) /\ f.raw \in Uid /\ f.caller \in Uid
    BY DEF Frame
  <1> DEFINE s == Append(f.tokens, f.raw)
  <1>2. /\ s \in Seq(Uid) /\ s # << >> /\ Len(s) = Len(f.tokens) + 1
        /\ \A i \in 1..Len(f.tokens) : s[i] = f.tokens[i]
        /\ s[Len(f.tokens) + 1] = f.raw
    BY <1>1, PushFacts, SMTT(30)
  <1>3. Cleared(f) = [f EXCEPT !.raw = Self, !.tokens = s] /\ Self \in Uid
    BY DEF Cleared, Uid
  <1> HIDE DEF s
  <1>4. /\ Cleared(f).caller = f.caller /\ Cleared(f).raw = Self /\ Cleared(f).tokens = s
        /\ Cleared(f) \in Frame
    BY <1>1, <1>2, <1>3 DEF Frame
  <1>5. ASSUME Honest(f) PROVE Honest(Cleared(f))
    <2>1. s[1] = f.caller
      <3>1. CASE f.tokens = << >>
        BY <1>2, <1>5, <3>1, SMTT(30) DEF Honest
      <3>2. CASE f.tokens # << >>
        <4>1. 1 \in 1..Len(f.tokens)
          BY <1>1, <3>2, SMTT(30)
        <4> QED
          BY <1>2, <1>5, <3>2, <4>1 DEF Honest
      <3> QED
        BY <3>1, <3>2
    <2>2. ASSUME NEW i \in 2..Len(s) PROVE s[i] = Self
      <3>1. Len(f.tokens) \in Nat /\ f.tokens # << >>
        BY <1>1, <1>2, <2>2, SMTT(30)
      <3>2. CASE i = Len(f.tokens) + 1
        BY <1>2, <1>5, <3>1, <3>2 DEF Honest
      <3>3. CASE i \in 2..Len(f.tokens)
        <4>1. i \in 1..Len(f.tokens)
          BY <3>3, SMTT(30)
        <4> QED
          BY <1>2, <1>5, <3>3, <4>1, SMTT(30) DEF Honest
      <3> QED
        BY <1>2, <3>1, <3>2, <3>3, SMTT(30)
    <2> QED
      BY <1>2, <1>4, <2>1, <2>2 DEF Honest
  <1> QED
    BY <1>2, <1>4, <1>5

(* restoreCallingIdentity takes the last one back. *)
LEMMA RestoredFrame ==
  ASSUME NEW f \in Frame, f.tokens # << >>
  PROVE  /\ Restored(f) \in Frame /\ Restored(f).caller = f.caller
         /\ Len(Restored(f).tokens) = Len(f.tokens) - 1
         /\ Honest(f) => Honest(Restored(f))
  <1>1. f.tokens \in Seq(Uid) /\ f.raw \in Uid /\ f.caller \in Uid
    BY DEF Frame
  <1> DEFINE s == Pop(f.tokens)
  <1>2. /\ s \in Seq(Uid) /\ Len(s) = Len(f.tokens) - 1
        /\ \A i \in 1..(Len(f.tokens) - 1) : s[i] = f.tokens[i]
        /\ Len(f.tokens) \in Nat \ {0} /\ Top(f.tokens) \in Uid
    BY <1>1, TopFacts
  <1>3. Restored(f) = [f EXCEPT !.raw = Top(f.tokens), !.tokens = s]
    BY DEF Restored
  <1> HIDE DEF s
  <1>4. /\ Restored(f).caller = f.caller /\ Restored(f).raw = Top(f.tokens)
        /\ Restored(f).tokens = s /\ Restored(f) \in Frame
    BY <1>1, <1>2, <1>3 DEF Frame
  <1>5. ASSUME Honest(f) PROVE Honest(Restored(f))
    <2>1. CASE Len(f.tokens) = 1
      <3>1. s = << >> /\ Top(f.tokens) = f.tokens[1] /\ Len(s) = 0
        BY <1>2, <2>1, SMTT(30) DEF Top
      <3> QED
        BY <1>4, <1>5, <3>1, SMTT(30) DEF Honest
    <2>2. CASE Len(f.tokens) > 1
      <3>1. Len(f.tokens) \in 2..Len(f.tokens) /\ 1 \in 1..(Len(f.tokens) - 1)
        BY <1>2, <2>2, SMTT(30)
      <3>2. s # << >> /\ s[1] = f.tokens[1] /\ Top(f.tokens) = Self
        BY <1>2, <1>5, <2>2, <3>1, SMTT(30) DEF Top, Honest
      <3>3. \A i \in 2..Len(s) : i \in 2..Len(f.tokens) /\ i \in 1..(Len(f.tokens) - 1)
        BY <1>2, SMTT(30)
      <3>4. \A i \in 2..Len(s) : s[i] = Self
        BY <1>2, <1>5, <3>3 DEF Honest
      <3> QED
        BY <1>4, <1>5, <2>2, <3>2, <3>4 DEF Honest
    <2>3. Len(f.tokens) \in Nat /\ Len(f.tokens) # 0
      BY <1>2
    <2>4. \A n \in Nat : n # 0 => n = 1 \/ n > 1
      BY SMTT(30)
    <2> QED
      BY <2>1, <2>2, <2>3, <2>4
  <1> QED
    BY <1>2, <1>4, <1>5

(* The state counts the clear. *)
LEMMA ClearTracked ==
  ASSUME NEW f \in Frame, NEW c \in Context, Honest(f), Tracks(f, c)
  PROVE  /\ Tracks(Cleared(f), BeginBinderIdentityClear(c, f.raw))
         /\ Exact(f, c) /\ c # NoState =>
              Exact(Cleared(f), BeginBinderIdentityClear(c, f.raw))
         /\ BeginBinderIdentityClear(c, f.raw).fuse_uid = c.fuse_uid
         /\ BeginBinderIdentityClear(c, f.raw).fuse_request = c.fuse_request
  <1> DEFINE b == BeginBinderIdentityClear(c, f.raw)
             d == c.binder_clear_depth
             n == Len(f.tokens)
             g == Cleared(f)
             u == CallerOrNone(f.caller)
  <1>1. g.caller = f.caller /\ Len(g.tokens) = n + 1
    BY ClearedFrame
  <1>t. d \in Nat /\ f.tokens \in Seq(Uid)
    BY DEF Frame, Context
  <1>2. d \in Nat /\ n \in Nat /\ (f.tokens # << >> => n # 0)
    BY <1>t, SMTT(30)
  <1>3. CASE c = NoState
    <2>1. b = c
      BY <1>3 DEF BeginBinderIdentityClear
    <2>2. d <= n + 1
      <3>1. d <= n
        BY DEF Tracks
      <3> HIDE DEF d, n
      <3> QED
        BY <1>2, <3>1, SMTT(30)
    <2>3. Tracks(g, c)
      BY <1>1, <2>2 DEF Tracks
    <2> QED
      BY <1>3, <2>1, <2>3
  <1>4. CASE c # NoState
    <2>1. /\ b.binder_clear_depth = d + 1
          /\ b.saved_binder_uid = IF d = 0 THEN CallerOrNone(f.raw) ELSE c.saved_binder_uid
          /\ b.fuse_uid = c.fuse_uid /\ b.fuse_request = c.fuse_request
      BY <1>4 DEF BeginBinderIdentityClear, Context
    <2>2. CallerOrNone(f.raw) \in {NoUid, u} /\ (n = 0 => CallerOrNone(f.raw) = u)
      <3>1. CASE f.tokens = << >>
        BY <3>1 DEF Honest
      <3>2. CASE f.tokens # << >>
        <4>1. Self \notin Apps
          BY RedirectAssumption
        <4>2. f.raw = Self /\ n # 0
          BY <1>2, <3>2 DEF Honest
        <4> QED
          BY <4>1, <4>2 DEF CallerOrNone, IsApplicationCaller
      <3> QED
        BY <3>1, <3>2
    <2> HIDE DEF b, d, n, g, u
    <2>3. /\ d <= n /\ (d = 0 => c.saved_binder_uid = NoUid)
          /\ c.saved_binder_uid \in {NoUid, u}
      BY DEF Tracks, d, n, u
    <2>n. d + 1 <= n + 1 /\ d + 1 # 0
      BY <1>2, <2>3, SMTT(30)
    <2>4. Tracks(g, b)
      <3>1. b.saved_binder_uid \in {NoUid, u}
        BY <2>1, <2>2, <2>3
      <3>2. b.binder_clear_depth <= Len(g.tokens) /\ b.binder_clear_depth # 0
        BY <1>1, <2>1, <2>n
      <3> QED
        BY <1>1, <3>1, <3>2 DEF Tracks, u
    <2>5. ASSUME Exact(f, c) PROVE Exact(g, b)
      <3>1. d = n /\ (d > 0 => c.saved_binder_uid = u)
        BY <2>5 DEF Exact, d, n, u
      <3>2. b.saved_binder_uid = u
        <4>1. d = 0 \/ d > 0
          BY <1>2, SMTT(30)
        <4> QED
          BY <2>1, <2>2, <3>1, <4>1
      <3>3. b.binder_clear_depth = Len(g.tokens)
        BY <1>1, <2>1, <3>1
      <3> QED
        BY <1>1, <3>2, <3>3 DEF Exact, u
    <2> QED
      BY <2>1, <2>4, <2>5 DEF b, g
  <1> QED
    BY <1>3, <1>4

(* The state counts the restore, if it counted the clear. *)
LEMMA RestoreTracked ==
  ASSUME NEW f \in Frame, NEW c \in Context, Tracks(f, c), f.tokens # << >>
  PROVE  /\ Tracks(Restored(f), EndBinderIdentityClear(c))
         /\ Exact(f, c) => Exact(Restored(f), EndBinderIdentityClear(c))
         /\ EndBinderIdentityClear(c).fuse_uid = c.fuse_uid
         /\ EndBinderIdentityClear(c).fuse_request = c.fuse_request
  <1> DEFINE b == EndBinderIdentityClear(c)
             d == c.binder_clear_depth
             n == Len(f.tokens)
             g == Restored(f)
             u == CallerOrNone(f.caller)
  <1>1. g.caller = f.caller /\ Len(g.tokens) = n - 1
    BY RestoredFrame
  <1>t. d \in Nat /\ f.tokens \in Seq(Uid)
    BY DEF Frame, Context
  <1>2. d \in Nat /\ n \in Nat /\ n # 0
    <2>1. n \in Nat /\ n # 0
      BY <1>t, TopFacts
    <2> QED
      BY <1>t, <2>1
  <1>3. /\ d <= n /\ (d = 0 => c.saved_binder_uid = NoUid)
        /\ c.saved_binder_uid \in {NoUid, u}
    BY DEF Tracks
  <1>4. CASE d = 0
    <2>1. b = c
      BY <1>4 DEF EndBinderIdentityClear
    <2>2. ~Exact(f, c)
      <3>1. Exact(f, c) => d = n
        BY DEF Exact
      <3> HIDE DEF d, n
      <3> QED
        BY <1>2, <1>4, <3>1
    <2>3. d <= n - 1
      <3> HIDE DEF d, n
      <3> QED
        BY <1>2, <1>4, SMTT(30)
    <2>4. Tracks(g, c)
      <3>1. c.binder_clear_depth <= Len(g.tokens)
        BY <1>1, <2>3
      <3> QED
        BY <1>1, <1>3, <3>1 DEF Tracks
    <2> QED
      BY <2>1, <2>2, <2>4
  <1>5. CASE d # 0
    <2>0. c # NoState
      <3>1. NoState.binder_clear_depth = 0
        BY DEF NoState
      <3> QED
        BY <1>5, <3>1
    <2>1. /\ b.binder_clear_depth = d - 1
          /\ b.saved_binder_uid = IF d = 1 THEN NoUid ELSE c.saved_binder_uid
          /\ b.fuse_uid = c.fuse_uid /\ b.fuse_request = c.fuse_request
      BY <1>5, <2>0 DEF EndBinderIdentityClear, Context
    <2> HIDE DEF b, d, n, g, u
    <2>n. /\ d - 1 <= n - 1
          /\ d - 1 = 0 => d = 1
          /\ d - 1 > 0 => d # 1 /\ d > 0
      BY <1>2, <1>3, <1>5, SMTT(30)
    <2>2. Tracks(g, b)
      <3>1. b.saved_binder_uid \in {NoUid, u}
        BY <1>3, <2>1
      <3>2. b.binder_clear_depth <= Len(g.tokens)
        BY <1>1, <2>1, <2>n
      <3>3. b.binder_clear_depth = 0 => b.saved_binder_uid = NoUid
        BY <2>1, <2>n
      <3> QED
        BY <1>1, <3>1, <3>2, <3>3 DEF Tracks, u
    <2>3. ASSUME Exact(f, c) PROVE Exact(g, b)
      <3>1. d = n /\ (d > 0 => c.saved_binder_uid = u)
        BY <2>3 DEF Exact, d, n, u
      <3>2. b.binder_clear_depth = Len(g.tokens)
        BY <1>1, <2>1, <3>1
      <3>3. b.binder_clear_depth > 0 => b.saved_binder_uid = u
        BY <2>1, <2>n, <3>1
      <3> QED
        BY <1>1, <3>2, <3>3 DEF Exact, u
    <2> QED
      BY <2>1, <2>2, <2>3 DEF b, g
  <1> QED
    BY <1>4, <1>5

(* What the FUSE operations leave alone. *)
LEMMA FuseBegins ==
  ASSUME NEW c \in Context, NEW r, NEW uid, NEW new, new = BeginFuseRequest(c, r, uid)
  PROVE  /\ new.binder_clear_depth = c.binder_clear_depth
         /\ new.saved_binder_uid = c.saved_binder_uid
  BY DEF BeginFuseRequest, Context

(* The end of a request leaves them alone too. *)
LEMMA FuseEnds ==
  ASSUME NEW c \in Context, NEW r, NEW new, new = EndFuseRequest(c, r)
  PROVE  /\ new.binder_clear_depth = c.binder_clear_depth
         /\ new.saved_binder_uid = c.saved_binder_uid
  BY DEF EndFuseRequest, Context

(* A thread's new state is empty, as its absence was. *)
LEMMA GetFields ==
  ASSUME ThreadTypes, NEW t \in Threads, NEW state \in GetThreadState(t)
  PROVE  /\ state \in Context
         /\ state.binder_clear_depth = ctx[t].binder_clear_depth
         /\ state.saved_binder_uid = ctx[t].saved_binder_uid
         /\ state.fuse_uid = ctx[t].fuse_uid
         /\ state = ctx[t] \/ ctx[t] = NoState
  <1>1. CASE state = ctx[t]
    BY <1>1, GetTypes
  <1>2. CASE ctx[t] = NoState /\ state = FreshState
    BY <1>2, GetTypes DEF NoState, FreshState
  <1> QED
    BY <1>1, <1>2 DEF GetThreadState

(* A call that has not cleared its identity: the state counts nothing. *)
LEMMA Uncleared ==
  ASSUME NEW f, NEW c \in Context, f.tokens = << >>
  PROVE  /\ Tracks(f, c) <=> c.binder_clear_depth = 0 /\ c.saved_binder_uid = NoUid
         /\ Tracks(f, c) => Exact(f, c)
         /\ f.raw = f.caller => Honest(f)
  <1> DEFINE d == c.binder_clear_depth
             n == Len(f.tokens)
  <1>1. d \in Nat /\ n = 0
    BY DEF Context
  <1>2. /\ Tracks(f, c) <=> /\ d <= n /\ (d = 0 => c.saved_binder_uid = NoUid)
                            /\ c.saved_binder_uid \in {NoUid, CallerOrNone(f.caller)}
        /\ Exact(f, c) <=> d = n /\ (d > 0 => c.saved_binder_uid = CallerOrNone(f.caller))
    BY DEF Tracks, Exact
  <1>3. f.raw = f.caller => Honest(f)
    <2>1. \A i \in 2..Len(f.tokens) : FALSE
      BY <1>1, SMTT(30)
    <2> QED
      BY <2>1 DEF Honest
  <1> HIDE DEF d, n
  <1>4. (d <= n <=> d = 0) /\ ~(0 > 0)
    BY <1>1, SMTT(30)
  <1> QED
    BY <1>1, <1>2, <1>3, <1>4 DEF d

-----------------------------------------------------------------------------
(* The identity.  The hooks know for whom a thread works: what the state   *)
(* of a thread says about its Binder call and its FUSE request is right,   *)
(* and the uid the hooks take for the caller is that of the application    *)
(* that is served, or none.  This holds for handlers that restore the      *)
(* identity they clear, for threads that are not called while they wait    *)
(* for a reply, and where the FUSE library fetches the session's data      *)
(* through a hook if it fetches the request's context through one          *)
(* (WellBehaved).                                                          *)

(* The capture of FUSE requests is in place. *)
Captures == "fuse_req_userdata" \in fuseHooks /\ fuseContext

(* A hook for the context comes with one for the capture, and no request   *)
(* is served before the library is loaded.                                 *)
FuseInv ==
    /\ "fuse_req_ctx" \in fuseHooks => Captures
    /\ fuse \in {"idle", "installing"} => \A t \in Threads : serving[t] = NoServing

(* What the state of a thread says about its FUSE request is right, and    *)
(* complete if the thread had its state when it captured it.               *)
Served(t) ==
    /\ role[t] = "binder" => serving[t] = NoServing /\ ctx[t].fuse_uid = NoUid
    /\ ctx[t].fuse_uid # NoUid => Captures
    /\ serving[t].asked = "unhooked" => ~Captures
    /\ serving[t].asked = "hooked" => ctx[t].fuse_uid \in {NoUid, CallerOrNone(serving[t].uid)}
    /\ serving[t].asked = "hooked" /\ ~lost[t] =>
         /\ ctx[t].fuse_request = serving[t].request
         /\ ctx[t].fuse_uid = CallerOrNone(serving[t].uid)

IdentityInv == FuseInv /\ \A t \in Threads : Identified(t) /\ Served(t)

-----------------------------------------------------------------------------
(* Steps that leave the identity of a thread alone. *)
LEMMA IdentityKept ==
  ASSUME NEW t \in Threads, Identified(t), role'[t] = role[t], frames'[t] = frames[t],
         ctx'[t].binder_clear_depth = ctx[t].binder_clear_depth,
         ctx'[t].saved_binder_uid = ctx[t].saved_binder_uid,
         (lost[t] => lost'[t]) \/ role[t] = "fuse"
  PROVE  Identified(t)'
  BY DEF Identified, Tracks, Exact

(* A step of a thread keeps track of its caller: Binder pushes and pops    *)
(* calls, handlers clear and restore their identity.                       *)
LEMMA IdentifiedStep ==
  ASSUME WellBehaved, ThreadTypes, NEW t \in Threads, ThreadStep(t), Identified(t)
  PROVE  Identified(t)'
  <1> DEFINE top == Top(frames[t])
  <1>0. /\ frames \in [Threads -> Seq(Frame) \ {<< >>}]
        /\ ctx \in [Threads -> Context] /\ lost \in [Threads -> BOOLEAN]
    BY DEF ThreadTypes
  <1>a. frames[t] \in Seq(Frame) /\ frames[t] # << >> /\ ctx[t] \in Context
    BY <1>0
  <1>b. /\ top \in Frame /\ Len(frames[t]) \in Nat /\ Len(frames[t]) # 0
        /\ Pop(frames[t]) \in Seq(Frame) /\ Len(Pop(frames[t])) = Len(frames[t]) - 1
        /\ \A i \in 1..(Len(frames[t]) - 1) : Pop(frames[t])[i] = frames[t][i]
    BY <1>a, TopFacts
  <1>c. top.tokens \in Seq(Uid) /\ top.raw \in Uid /\ top.caller \in Uid
    BY <1>b DEF Frame
  <1>d. role'[t] = role[t]
    BY ThreadSteps
  <1>e. OwnFrame.tokens = << >> /\ OwnFrame.raw = Self /\ OwnFrame.caller = Self
    BY DEF OwnFrame
  <1>f. Len(<< >>) = 0
    OBVIOUS
  <1>1. CASE Transact(t)
    <2>1. PICK uid \in Apps \cup {System} :
            frames' = [frames EXCEPT ![t] =
                          Append(@, [caller |-> uid, raw |-> uid, tokens |-> << >>])]
      BY <1>1 DEF Transact
    <2>2. Len(frames[t]) = 1 /\ top.tokens = << >> /\ role[t] = "binder"
      BY <1>1 DEF Transact, WellBehaved
    <2> DEFINE new == [caller |-> uid, raw |-> uid, tokens |-> << >>]
               s == Append(frames[t], new)
    <2>0. uid \in Uid
      BY DEF Uid
    <2>3. new \in Frame
      BY <2>0, NewFrame
    <2>4. new.tokens = << >> /\ new.raw = new.caller
      OBVIOUS
    <2>5. frames'[t] = s
      BY <1>0, <2>1
    <2>s. s = Append(frames[t], new)
      OBVIOUS
    <2> HIDE DEF new, s
    <2>6. Len(s) = 2 /\ s[1] = frames[t][1] /\ s[2] = new
      <3>1. /\ Len(s) = Len(frames[t]) + 1 /\ s[Len(frames[t]) + 1] = new
            /\ \A i \in 1..Len(frames[t]) : s[i] = frames[t][i]
        BY <1>a, <2>3, <2>s, PushFacts, SMTT(30)
      <3>2. Len(frames[t]) + 1 = 2 /\ 1 \in 1..Len(frames[t])
        BY <2>2, SMTT(30)
      <3> QED
        BY <3>1, <3>2
    <2>7. Top(s) = new
      BY <2>6 DEF Top
    <2>8. frames[t][1] = OwnFrame
      <3>1. top = frames[t][1]
        BY <2>2 DEF Top
      <3>2. top.caller = Self /\ top.raw = Self
        BY <2>2 DEF Identified, Honest
      <3> QED
        BY <1>b, <2>2, <3>1, <3>2 DEF Frame, OwnFrame
    <2>9. ctx'[t] = ctx[t] /\ Tracks(top, ctx[t])
      BY <1>1 DEF Transact, Identified
    <2>10. Honest(new) /\ Tracks(new, ctx[t]) /\ Exact(new, ctx[t])
      BY <1>a, <2>2, <2>4, <2>9, Uncleared
    <2>11. Len(frames'[t]) = 2 /\ frames'[t][1] = OwnFrame /\ Top(frames'[t]) = new
      BY <2>5, <2>6, <2>7, <2>8
    <2>12. /\ Honest(Top(frames'[t])) /\ Tracks(Top(frames'[t]), ctx'[t])
           /\ Exact(Top(frames'[t]), ctx'[t]) /\ role'[t] = "binder"
      BY <1>d, <2>2, <2>9, <2>10, <2>11
    <2>13. Len(frames'[t]) \in {1, 2} /\ Len(frames'[t]) # 1
      BY <2>11, SMTT(30)
    <2> QED
      BY <2>11, <2>12, <2>13 DEF Identified
  <1>2. CASE Return(t)
    <2>1. Len(frames[t]) = 2 /\ top.tokens = << >>
      <3>1. Len(frames[t]) > 1 /\ top.tokens = << >>
        BY <1>2 DEF Return, WellBehaved
      <3>2. Len(frames[t]) \in {1, 2}
        BY DEF Identified
      <3> QED
        BY <3>1, <3>2, SMTT(30)
    <2>2. frames'[t] = Pop(frames[t]) /\ UNCHANGED <<ctx, lost>>
      BY <1>0, <1>2 DEF Return
    <2>3. frames[t][1] = OwnFrame /\ Tracks(top, ctx[t])
      BY <2>1 DEF Identified
    <2>4. Len(frames'[t]) = 1 /\ Top(frames'[t]) = OwnFrame
      <3>1. Len(frames'[t]) = 1 /\ frames'[t][1] = frames[t][1]
        <4>1. Len(frames[t]) - 1 = 1 /\ 1 \in 1..(Len(frames[t]) - 1)
          BY <2>1, SMTT(30)
        <4>2. Len(Pop(frames[t])) = 1 /\ Pop(frames[t])[1] = frames[t][1]
          BY <1>b, <4>1
        <4> QED
          BY <2>2, <4>2
      <3> QED
        BY <2>3, <3>1 DEF Top
    <2>5. Honest(OwnFrame) /\ Tracks(OwnFrame, ctx[t])
      BY <1>a, <1>e, <2>1, <2>3, Uncleared
    <2>6. /\ Honest(Top(frames'[t])) /\ Tracks(Top(frames'[t]), ctx'[t])
          /\ Top(frames'[t]).caller = Self
      BY <1>e, <2>2, <2>4, <2>5
    <2>7. Len(frames'[t]) \in {1, 2} /\ Len(frames'[t]) # 2
      BY <2>4, SMTT(30)
    <2> QED
      BY <2>6, <2>7 DEF Identified
  <1>3. ASSUME NEW f \in Frame, frames' = [frames EXCEPT ![t] = Append(Pop(@), f)],
               Honest(f), f.caller = top.caller, Tracks(f, ctx'[t]),
               ~lost'[t] /\ Exact(top, ctx[t]) => Exact(f, ctx'[t]), lost[t] => lost'[t]
        PROVE  Identified(t)'
    <2>1. frames'[t] = Append(Pop(frames[t]), f)
      <3>1. DOMAIN frames = Threads
        BY <1>0
      <3> DEFINE s == Append(Pop(frames[t]), f)
      <3>2. frames' = [frames EXCEPT ![t] = s]
        BY <1>3
      <3> HIDE DEF s
      <3>3. frames'[t] = s
        BY <3>1, <3>2
      <3> QED
        BY <3>3 DEF s
    <2>2. /\ Len(frames'[t]) = Len(frames[t]) /\ Top(frames'[t]) = f
          /\ \A i \in 1..(Len(frames[t]) - 1) : frames'[t][i] = frames[t][i]
      BY <1>a, <2>1, TopFrameFacts, SMTT(30)
    <2>3. Len(frames[t]) = 2 => frames'[t][1] = frames[t][1]
      BY <2>2, SMTT(30)
    <2> QED
      BY <1>3, <1>d, <2>2, <2>3 DEF Identified
  <1>4. CASE HookedClearCallingIdentity(t)
    <2>1. PICK state \in GetThreadState(t) :
            /\ ctx' = [ctx EXCEPT ![t] = BeginBinderIdentityClear(state, top.raw)]
            /\ lost' = [lost EXCEPT ![t] = @ \/ state = NoState]
      BY <1>4 DEF HookedClearCallingIdentity, RawCallingUid
    <2>2. frames' = [frames EXCEPT ![t] = Append(Pop(@), Cleared(top))]
      BY <1>4 DEF HookedClearCallingIdentity, TopFrame, Cleared, RawCallingUid
    <2>3. /\ state \in Context /\ Tracks(top, state) /\ Honest(top)
          /\ Exact(top, ctx[t]) => Exact(top, state)
      BY GetFields DEF Identified, Tracks, Exact
    <2>4. /\ ctx'[t] = BeginBinderIdentityClear(state, top.raw)
          /\ lost'[t] = (lost[t] \/ state = NoState)
      BY <1>0, <2>1
    <2> HIDE DEF top
    <2>5. /\ Cleared(top) \in Frame /\ Cleared(top).caller = top.caller
          /\ Honest(Cleared(top))
      BY <1>b, <2>3, ClearedFrame
    <2>6. /\ Tracks(Cleared(top), ctx'[t])
          /\ Exact(top, state) /\ state # NoState => Exact(Cleared(top), ctx'[t])
      BY <1>b, <2>3, <2>4, ClearTracked
    <2> QED
      BY <1>3, <2>2, <2>3, <2>4, <2>5, <2>6
  <1>5. CASE HookedRestoreCallingIdentity(t)
    <2>1. PICK state \in GetThreadState(t) :
            ctx' = [ctx EXCEPT ![t] = EndBinderIdentityClear(state)]
      BY <1>5 DEF HookedRestoreCallingIdentity
    <2>2. /\ frames' = [frames EXCEPT ![t] = Append(Pop(@), Restored(top))]
          /\ top.tokens # << >> /\ lost' = lost
      BY <1>5 DEF HookedRestoreCallingIdentity, TopFrame, Restored
    <2>3. /\ state \in Context /\ Tracks(top, state) /\ Honest(top)
          /\ Exact(top, ctx[t]) => Exact(top, state)
      BY GetFields DEF Identified, Tracks, Exact
    <2>4. ctx'[t] = EndBinderIdentityClear(state)
      BY <1>0, <2>1
    <2> HIDE DEF top
    <2>5. /\ Restored(top) \in Frame /\ Restored(top).caller = top.caller
          /\ Honest(Restored(top))
      BY <1>b, <2>2, <2>3, RestoredFrame
    <2>6. /\ Tracks(Restored(top), ctx'[t])
          /\ Exact(top, state) => Exact(Restored(top), ctx'[t])
      BY <1>b, <2>2, <2>3, <2>4, RestoreTracked
    <2> QED
      BY <1>3, <2>2, <2>3, <2>5, <2>6
  <1>6. CASE FuseReceive(t)
    <2>1. role[t] = "fuse" /\ UNCHANGED <<frames, ctx>>
      BY <1>6 DEF FuseReceive
    <2> QED
      BY <1>d, <2>1, IdentityKept
  <1>7. ASSUME Capture(t), frames' = frames
        PROVE  Identified(t)'
    <2>1. PICK state \in GetThreadState(t) :
            /\ ctx'[t] = BeginFuseRequest(state, serving[t].request, serving[t].uid)
            /\ lost'[t] = (lost[t] \/ state = NoState)
      BY <1>0, <1>7 DEF Capture
    <2>2. /\ ctx'[t].binder_clear_depth = ctx[t].binder_clear_depth
          /\ ctx'[t].saved_binder_uid = ctx[t].saved_binder_uid
      <3>1. /\ state \in Context
            /\ state.binder_clear_depth = ctx[t].binder_clear_depth
            /\ state.saved_binder_uid = ctx[t].saved_binder_uid
        BY GetFields
      <3>2. /\ ctx'[t].binder_clear_depth = state.binder_clear_depth
            /\ ctx'[t].saved_binder_uid = state.saved_binder_uid
        <4>1. ctx'[t] = BeginFuseRequest(state, serving[t].request, serving[t].uid)
          BY <2>1
        <4> QED
          BY <3>1, <4>1, FuseBegins, SMTT(30)
      <3> QED
        BY <3>1, <3>2
    <2> QED
      BY <1>7, <1>d, <2>1, <2>2, IdentityKept
  <1>8. CASE HookedFuseReqUserdata(t)
    <2>1. frames' = frames /\ (Capture(t) \/ UNCHANGED <<ctx, lost>>)
      BY <1>8 DEF HookedFuseReqUserdata
    <2>2. CASE UNCHANGED <<ctx, lost>>
      BY <1>d, <2>1, <2>2, IdentityKept
    <2> QED
      BY <1>7, <2>1, <2>2
  <1>9. CASE HookedFuseReqContext(t)
    BY <1>7, <1>9 DEF HookedFuseReqContext
  <1>10. CASE HookedFuseReply(t)
    <2>1. /\ UNCHANGED <<frames, lost>>
          /\ \/ UNCHANGED ctx
             \/ \E r \in Requests, state \in GetThreadState(t) :
                  ctx' = [ctx EXCEPT ![t] = EndFuseRequest(state, r)]
      BY <1>10 DEF HookedFuseReply
    <2>2. CASE UNCHANGED ctx
      BY <1>d, <2>1, <2>2, IdentityKept
    <2>3. ASSUME NEW r \in Requests, NEW state \in GetThreadState(t),
                 ctx' = [ctx EXCEPT ![t] = EndFuseRequest(state, r)]
          PROVE  Identified(t)'
      <3>1. ctx'[t] = EndFuseRequest(state, r)
        BY <1>0, <2>3
      <3>2. /\ ctx'[t].binder_clear_depth = ctx[t].binder_clear_depth
            /\ ctx'[t].saved_binder_uid = ctx[t].saved_binder_uid
        <4>1. /\ state \in Context
              /\ state.binder_clear_depth = ctx[t].binder_clear_depth
              /\ state.saved_binder_uid = ctx[t].saved_binder_uid
          BY GetFields
        <4>2. /\ ctx'[t].binder_clear_depth = state.binder_clear_depth
              /\ ctx'[t].saved_binder_uid = state.saved_binder_uid
          BY <3>1, <4>1, FuseEnds, SMTT(30)
        <4> QED
          BY <4>1, <4>2
      <3> QED
        BY <1>d, <2>1, <3>2, IdentityKept
    <2> QED
      BY <2>1, <2>2, <2>3
  <1>11. CASE FusePutOff(t) \/ InnerCall(t)
    <2>1. UNCHANGED <<frames, ctx, lost>>
      BY <1>11 DEF FusePutOff, InnerCall
    <2> QED
      BY <1>d, <2>1, IdentityKept
  <1>12. CASE FileOperation(t)
    <2>1. frames' = frames
      BY <1>12, FileOperations
    <2>2. PICK kind, args, links : Enter(t, kind, args, links)
      BY <1>12, FileOperations
    <2>3. CASE EntersPassive(t, kind, args, links)
      BY <1>d, <2>1, <2>3, IdentityKept DEF EntersPassive
    <2>4. ASSUME NEW state \in GetThreadState(t), EntersWith(t, state, kind, args, links)
          PROVE  Identified(t)'
      <3>1. /\ ctx'[t] \in {state, [state EXCEPT !.in_path_hook = TRUE]}
            /\ lost'[t] = (lost[t] \/ state = NoState)
        BY <1>0, <2>4 DEF EntersWith
      <3>2. state \in Context
        BY GetFields
      <3>3. /\ ctx'[t].binder_clear_depth = state.binder_clear_depth
            /\ ctx'[t].saved_binder_uid = state.saved_binder_uid
        BY <3>1, <3>2 DEF Context
      <3> QED
        BY <1>d, <2>1, <3>1, <3>3, GetFields, IdentityKept
    <2> QED
      BY <2>2, <2>3, <2>4, Entering
  <1>13. CASE CallReturns(t)
    <2>1. /\ UNCHANGED <<frames, lost>>
          /\ ctx'[t] \in {ctx[t], [ctx[t] EXCEPT !.in_path_hook = FALSE]}
      BY <1>0, <1>13 DEF CallReturns
    <2>2. /\ ctx'[t].binder_clear_depth = ctx[t].binder_clear_depth
          /\ ctx'[t].saved_binder_uid = ctx[t].saved_binder_uid
      BY <1>a, <2>1 DEF Context
    <2> QED
      BY <1>d, <2>1, <2>2, IdentityKept
  <1> QED
    BY <1>1, <1>2, <1>4, <1>5, <1>6, <1>8, <1>9, <1>10, <1>11, <1>12, <1>13
       DEF ThreadStep, FileOperation

(* Steps that leave the request of a thread alone. *)
LEMMA ServedKept ==
  ASSUME NEW t \in Threads, Served(t), role'[t] = role[t], serving'[t] = serving[t],
         fuseHooks' = fuseHooks, fuseContext' = fuseContext,
         ctx'[t].fuse_uid = ctx[t].fuse_uid, lost[t] => lost'[t],
         serving[t].asked = "hooked" /\ ~lost[t]
            => ctx'[t].fuse_request = ctx[t].fuse_request
  PROVE  Served(t)'
  BY DEF Served, Captures

(* A thread that captured its request has its state. *)
LEMMA HasState ==
  ASSUME ThreadTypes, NEW t \in Threads, Served(t), serving[t].asked = "hooked", ~lost[t]
  PROVE  ctx[t] # NoState
  <1>1. serving[t] # NoServing /\ serving[t] \in Serving \cup {NoServing}
    <2>1. NoServing.asked = "no"
      BY DEF NoServing
    <2> QED
      BY <2>1 DEF ThreadTypes
  <1>2. serving[t].request \in Requests
    BY <1>1 DEF Serving
  <1>3. ctx[t].fuse_request = serving[t].request
    BY DEF Served
  <1>4. NoState.fuse_request = "no state"
    BY DEF NoState
  <1> QED
    BY <1>2, <1>3, <1>4, RedirectAssumption

(* A step of a thread keeps track of its FUSE request: it is captured when *)
(* the handler asks for the session's data or its context, and dropped     *)
(* with its reply, not with another one's.                                 *)
LEMMA ServedStep ==
  ASSUME WellBehaved, ThreadTypes, FuseInv, NEW t \in Threads, ThreadStep(t),
         Identified(t), Served(t)
  PROVE  Served(t)'
  <1>0. /\ frames \in [Threads -> Seq(Frame) \ {<< >>}]
        /\ ctx \in [Threads -> Context] /\ lost \in [Threads -> BOOLEAN]
        /\ serving \in [Threads -> Serving \cup {NoServing}]
        /\ role \in [Threads -> {"binder", "fuse"}]
    BY DEF ThreadTypes
  <1>a. /\ frames[t] \in Seq(Frame) /\ frames[t] # << >> /\ ctx[t] \in Context
        /\ role[t] \in {"binder", "fuse"}
    BY <1>0
  <1>b. Top(frames[t]) \in Frame
    BY <1>a, TopFacts
  <1>c. UNCHANGED <<fuseHooks, fuseContext, role>>
    BY ThreadSteps DEF fuseVars
  <1>d. ASSUME NEW state \in GetThreadState(t), serving[t].asked = "hooked", ~lost[t]
        PROVE  state = ctx[t]
    BY <1>d, HasState, GetFields
  <1>e. NoServing.asked = "no" /\ NoServing.uid = NoUid
    BY DEF NoServing
  <1>1. CASE Transact(t)
    <2>1. role[t] = "binder" /\ UNCHANGED <<ctx, serving>>
      BY <1>1 DEF Transact
    <2> QED
      BY <1>c, <1>e, <2>1 DEF Served, Captures
  <1>2. CASE Return(t) \/ InnerCall(t)
    <2>1. UNCHANGED <<ctx, lost, serving>>
      BY <1>2 DEF Return, InnerCall
    <2> QED
      BY <1>c, <2>1, ServedKept
  <1>3. CASE HookedClearCallingIdentity(t)
    <2>1. PICK state \in GetThreadState(t) :
            /\ ctx' = [ctx EXCEPT ![t] =
                         BeginBinderIdentityClear(state, Top(frames[t]).raw)]
            /\ lost' = [lost EXCEPT ![t] = @ \/ state = NoState]
      BY <1>3 DEF HookedClearCallingIdentity, RawCallingUid
    <2>2. /\ ctx'[t] = BeginBinderIdentityClear(state, Top(frames[t]).raw)
          /\ lost'[t] = (lost[t] \/ state = NoState) /\ serving' = serving
      BY <1>0, <1>3, <2>1 DEF HookedClearCallingIdentity
    <2>3. /\ state \in Context /\ Tracks(Top(frames[t]), state) /\ Honest(Top(frames[t]))
          /\ state.fuse_uid = ctx[t].fuse_uid
      BY GetFields DEF Identified, Tracks
    <2>4. ctx'[t].fuse_uid = ctx[t].fuse_uid /\ ctx'[t].fuse_request = state.fuse_request
      BY <1>b, <2>2, <2>3, ClearTracked
    <2> QED
      BY <1>c, <1>d, <2>2, <2>4, ServedKept
  <1>4. CASE HookedRestoreCallingIdentity(t)
    <2>1. PICK state \in GetThreadState(t) :
            ctx' = [ctx EXCEPT ![t] = EndBinderIdentityClear(state)]
      BY <1>4 DEF HookedRestoreCallingIdentity
    <2>2. /\ ctx'[t] = EndBinderIdentityClear(state) /\ UNCHANGED <<lost, serving>>
          /\ Top(frames[t]).tokens # << >>
      BY <1>0, <1>4, <2>1 DEF HookedRestoreCallingIdentity
    <2>3. /\ state \in Context /\ Tracks(Top(frames[t]), state)
          /\ state.fuse_uid = ctx[t].fuse_uid
      BY GetFields DEF Identified, Tracks
    <2>4. ctx'[t].fuse_uid = ctx[t].fuse_uid /\ ctx'[t].fuse_request = state.fuse_request
      BY <1>b, <2>2, <2>3, RestoreTracked
    <2> QED
      BY <1>c, <1>d, <2>2, <2>4, ServedKept
  <1>5. CASE FuseReceive(t)
    <2>1. role[t] = "fuse" /\ ctx' = ctx
      BY <1>5 DEF FuseReceive
    <2>2. serving'[t].asked = "no"
      BY <1>0, <1>5, SMTT(30) DEF FuseReceive
    <2> QED
      BY <1>c, <2>1, <2>2 DEF Served, Captures
  <1>6. ASSUME Captures, Capture(t), serving[t] # NoServing,
               serving' = [serving EXCEPT ![t].asked = "hooked"]
        PROVE  Served(t)'
    <2>1. PICK state \in GetThreadState(t) :
            /\ ctx'[t] = BeginFuseRequest(state, serving[t].request, serving[t].uid)
            /\ lost'[t] = (lost[t] \/ state = NoState)
      BY <1>0, <1>6 DEF Capture
    <2>2. serving[t] \in Serving /\ state \in Context
      BY <1>0, <1>6, GetFields
    <2>3. /\ serving'[t].asked = "hooked" /\ serving'[t].uid = serving[t].uid
          /\ serving'[t].request = serving[t].request
      BY <1>0, <1>6, <2>2 DEF Serving
    <2>4. state # NoState =>
            /\ ctx'[t].fuse_request = serving[t].request
            /\ ctx'[t].fuse_uid = CallerOrNone(serving[t].uid)
      BY <2>1, <2>2 DEF BeginFuseRequest, Context
    <2>5. state = NoState => lost'[t] /\ ctx'[t].fuse_uid = NoUid
      <3>1. NoState.fuse_uid = NoUid
        BY DEF NoState
      <3> QED
        BY <2>1, <3>1 DEF BeginFuseRequest
    <2>6. role[t] # "binder"
      BY <1>6 DEF Served
    <2> QED
      BY <1>6, <1>c, <2>3, <2>4, <2>5, <2>6 DEF Served, Captures
  <1>7. CASE HookedFuseReqUserdata(t)
    <2>1. /\ serving[t] # NoServing
          /\ serving' = [serving EXCEPT ![t].asked = IF Captures THEN "hooked" ELSE "unhooked"]
          /\ IF Captures THEN Capture(t) ELSE UNCHANGED <<ctx, lost>>
      BY <1>7 DEF HookedFuseReqUserdata, Captures
    <2>2. CASE Captures
      BY <1>6, <2>1, <2>2
    <2>3. CASE ~Captures
      <3>1. serving[t] \in Serving /\ role[t] # "binder"
        BY <1>0, <2>1 DEF Served
      <3>2. serving'[t].asked = "unhooked"
        BY <1>0, <2>1, <2>3, <3>1 DEF Serving
      <3> QED
        BY <1>c, <2>1, <2>3, <3>1, <3>2 DEF Served, Captures
    <2> QED
      BY <2>2, <2>3
  <1>8. CASE HookedFuseReqContext(t)
    <2>1. Captures
      BY <1>8 DEF HookedFuseReqContext, FuseInv
    <2> QED
      BY <1>6, <1>8, <2>1 DEF HookedFuseReqContext
  <1>9. CASE FusePutOff(t)
    <2>1. serving'[t] = NoServing /\ ctx' = ctx
      BY <1>0, <1>9 DEF FusePutOff
    <2> QED
      BY <1>c, <1>e, <2>1 DEF Served, Captures
  <1>10. CASE HookedFuseReply(t)
    <2>1. PICK r \in Requests :
            /\ serving' = [serving EXCEPT ![t] = IF r = @.request THEN NoServing ELSE @]
            /\ \/ UNCHANGED ctx
               \/ \E state \in GetThreadState(t) :
                    ctx' = [ctx EXCEPT ![t] = EndFuseRequest(state, r)]
      BY <1>10 DEF HookedFuseReply
    <2>2. lost' = lost /\ serving[t] # NoServing
      BY <1>10 DEF HookedFuseReply
    <2>3. role[t] # "binder"
      BY <2>2 DEF Served
    <2>4. \/ ctx'[t] = ctx[t]
          \/ \E state \in GetThreadState(t) : ctx'[t] = EndFuseRequest(state, r)
      BY <1>0, <2>1
    <2>5. ctx'[t].fuse_uid \in {NoUid, ctx[t].fuse_uid}
      <3>1. ASSUME NEW state \in GetThreadState(t), ctx'[t] = EndFuseRequest(state, r)
            PROVE  ctx'[t].fuse_uid \in {NoUid, ctx[t].fuse_uid}
        <4>1. state \in Context /\ state.fuse_uid = ctx[t].fuse_uid
          BY GetFields
        <4> QED
          BY <3>1, <4>1 DEF EndFuseRequest, Context
      <3> QED
        BY <2>4, <3>1
    <2>6. CASE r = serving[t].request
      <3>1. serving'[t] = NoServing
        BY <1>0, <2>1, <2>6
      <3> QED
        BY <1>c, <1>e, <2>3, <2>5, <3>1 DEF Served, Captures
    <2>7. CASE r # serving[t].request
      <3>1. serving'[t] = serving[t]
        BY <1>0, <2>1, <2>7
      <3>2. ASSUME serving[t].asked = "hooked", ~lost[t] PROVE ctx'[t] = ctx[t]
        <4>1. ctx[t].fuse_request # r
          BY <2>7, <3>2 DEF Served
        <4>2. EndFuseRequest(ctx[t], r) = ctx[t]
          BY <4>1 DEF EndFuseRequest
        <4> QED
          BY <1>d, <2>4, <3>2, <4>2
      <3> QED
        BY <1>c, <2>2, <2>3, <2>5, <3>1, <3>2 DEF Served, Captures
    <2> QED
      BY <2>6, <2>7
  <1>11. CASE FileOperation(t)
    <2>1. serving' = serving
      BY <1>11, FileOperations
    <2>2. PICK kind, args, links : Enter(t, kind, args, links)
      BY <1>11, FileOperations
    <2>3. CASE EntersPassive(t, kind, args, links)
      BY <1>c, <2>1, <2>3, ServedKept DEF EntersPassive
    <2>4. ASSUME NEW state \in GetThreadState(t), EntersWith(t, state, kind, args, links)
          PROVE  Served(t)'
      <3>1. /\ ctx'[t] \in {state, [state EXCEPT !.in_path_hook = TRUE]}
            /\ lost'[t] = (lost[t] \/ state = NoState)
        BY <1>0, <2>4 DEF EntersWith
      <3>2. state \in Context /\ state.fuse_uid = ctx[t].fuse_uid
        BY GetFields
      <3>3. /\ ctx'[t].fuse_uid = ctx[t].fuse_uid
            /\ ctx'[t].fuse_request = state.fuse_request
        BY <3>1, <3>2 DEF Context
      <3> QED
        BY <1>c, <1>d, <2>1, <3>1, <3>3, ServedKept
    <2> QED
      BY <2>2, <2>3, <2>4, Entering
  <1>12. CASE CallReturns(t)
    <2>1. /\ UNCHANGED <<serving, lost>>
          /\ ctx'[t] \in {ctx[t], [ctx[t] EXCEPT !.in_path_hook = FALSE]}
      BY <1>0, <1>12 DEF CallReturns
    <2>2. /\ ctx'[t].fuse_uid = ctx[t].fuse_uid
          /\ ctx'[t].fuse_request = ctx[t].fuse_request
      BY <1>a, <2>1 DEF Context
    <2> QED
      BY <1>c, <2>1, <2>2, ServedKept
  <1> QED
    BY <1>1, <1>2, <1>3, <1>4, <1>5, <1>7, <1>8, <1>9, <1>10, <1>11, <1>12
       DEF ThreadStep, FileOperation

-----------------------------------------------------------------------------
(* A library that uses a hook for the context captures its requests. *)
LEMMA FuseInvStep ==
  ASSUME WellBehaved, ThreadTypes, FuseInv, NEW t \in Threads, ThreadStep(t)
  PROVE  FuseInv'
  <1>1. UNCHANGED <<fuse, fuseHooks, fuseContext>>
    BY ThreadSteps DEF fuseVars
  <1>2. ASSUME fuse \in {"idle", "installing"}, NEW u \in Threads
        PROVE  serving'[u] = NoServing
    <2>1. \A v \in Threads : serving[v] = NoServing
      BY <1>2 DEF FuseInv
    <2>2. CASE u = t
      <3>1. ~FuseReceive(t) /\ ~HookedFuseReqUserdata(t) /\ ~HookedFuseReqContext(t)
              /\ ~HookedFuseReply(t) /\ ~FusePutOff(t)
        BY <1>2, <2>1 DEF FuseReceive, HookedFuseReqUserdata, HookedFuseReqContext,
           HookedFuseReply, FusePutOff
      <3>2. serving' = serving
        BY <3>1, FileOperations DEF ThreadStep, FileOperation, Transact, Return,
           HookedClearCallingIdentity, HookedRestoreCallingIdentity, InnerCall, CallReturns
      <3> QED
        BY <2>1, <3>2
    <2>3. CASE u # t
      BY <2>1, <2>3, OtherThreads
    <2> QED
      BY <2>2, <2>3
  <1> QED
    BY <1>1, <1>2 DEF FuseInv, Captures

(* Every step of a thread keeps its identity and its request. *)
LEMMA IdentityThread ==
  ASSUME WellBehaved, ThreadTypes, IdentityInv, NEW t \in Threads, ThreadStep(t)
  PROVE  IdentityInv'
  <1>1. FuseInv'
    BY FuseInvStep DEF IdentityInv
  <1>2. ASSUME NEW u \in Threads, u # t PROVE (Identified(u) /\ Served(u))'
    <2>1. UNCHANGED <<frames[u], ctx[u], lost[u], serving[u]>>
      BY <1>2, OtherThreads
    <2>2. UNCHANGED <<role, fuseHooks, fuseContext>>
      BY ThreadSteps DEF fuseVars
    <2>3. Identified(u) /\ Served(u)
      BY DEF IdentityInv
    <2>4. Identified(u)'
      BY <2>1, <2>2, <2>3, IdentityKept
    <2>5. Served(u)'
      BY <2>1, <2>2, <2>3, ServedKept
    <2> QED
      BY <2>4, <2>5
  <1>3. (Identified(t) /\ Served(t))'
    BY IdentifiedStep, ServedStep DEF IdentityInv
  <1> QED
    BY <1>1, <1>2, <1>3 DEF IdentityInv

(* So does a step of the installation, which hooks the FUSE library before *)
(* a request is served.                                                    *)
LEMMA IdentityInstall ==
  ASSUME WellBehaved, InstallInv, IdentityInv, Install \/ UNCHANGED vars
  PROVE  IdentityInv'
  <1>1. UNCHANGED <<role, frames, ctx, lost, serving>>
    BY InstallSteps DEF threadVars, vars
  <1>2. \A t \in Threads : Identified(t)'
    BY <1>1, IdentityKept DEF IdentityInv
  <1>3. CASE MaybeInstallFuseHooks
    <2>1. PICK hooked \in FuseImportSets, found \in BOOLEAN :
            fuseHooks' = hooked /\ fuseContext' = (found \/ "fuse_req_ctx" \in hooked)
      BY <1>3 DEF MaybeInstallFuseHooks
    <2>2. fuse = "installing" /\ fuse' \in {"active", "failed"}
      BY <1>3 DEF MaybeInstallFuseHooks
    <2>3. FuseInv'
      BY <2>1, <2>2 DEF FuseInv, Captures, WellBehaved
    <2>4. ~Captures /\ \A t \in Threads : serving[t] = NoServing
      BY <2>2 DEF InstallInv, Captures, IdentityInv, FuseInv
    <2>5. NoServing.asked = "no"
      BY DEF NoServing
    <2>6. \A t \in Threads : Served(t)'
      BY <1>1, <2>4, <2>5 DEF IdentityInv, Served
    <2> QED
      BY <1>2, <2>3, <2>6 DEF IdentityInv
  <1>4. CASE HookedDlopen
    <2>1. fuse = "idle" /\ UNCHANGED <<fuseHooks, fuseContext>>
      BY <1>4 DEF HookedDlopen
    <2>2. FuseInv'
      BY <1>1, <2>1 DEF FuseInv, Captures, IdentityInv
    <2>3. \A t \in Threads : Served(t)'
      BY <1>1, <2>1, ServedKept DEF IdentityInv
    <2> QED
      BY <1>2, <2>2, <2>3 DEF IdentityInv
  <1>5. CASE UNCHANGED fuseVars
    <2>1. UNCHANGED <<fuse, fuseHooks, fuseContext>>
      BY <1>5 DEF fuseVars
    <2>2. FuseInv'
      BY <1>1, <2>1 DEF FuseInv, Captures, IdentityInv
    <2>3. \A t \in Threads : Served(t)'
      BY <1>1, <2>1, ServedKept DEF IdentityInv
    <2> QED
      BY <1>2, <2>2, <2>3 DEF IdentityInv
  <1>6. MaybeInstallFuseHooks \/ HookedDlopen \/ UNCHANGED fuseVars
    BY DEF Install, InstallRules, InstallBinderIdentityHooks, RegisterMappedHooks,
       PltHookPatch, RegisterHooks, Specialize, vars
  <1> QED
    BY <1>3, <1>4, <1>5, <1>6

(* No thread serves anyone at first. *)
LEMMA IdentityInit == Init => IdentityInv
  <1> SUFFICES ASSUME Init PROVE IdentityInv
    OBVIOUS
  <1>1. fuseHooks = {} /\ \A t \in Threads : serving[t] = NoServing
    BY DEF Init
  <1>2. FuseInv
    BY <1>1 DEF FuseInv
  <1>3. ASSUME NEW t \in Threads PROVE Identified(t) /\ Served(t)
    <2>1. frames[t] = <<OwnFrame>> /\ ctx[t] = NoState
      BY DEF Init, OwnFrame
    <2>2. Len(frames[t]) = 1 /\ Top(frames[t]) = OwnFrame
      BY <2>1, SMTT(30) DEF Top
    <2>3. OwnFrame.tokens = << >> /\ OwnFrame.raw = Self /\ OwnFrame.caller = Self
      BY DEF OwnFrame
    <2>4. /\ NoState.binder_clear_depth = 0 /\ NoState.saved_binder_uid = NoUid
          /\ NoState.fuse_uid = NoUid /\ NoServing.asked = "no"
      BY DEF NoState, NoServing
    <2>5. Honest(OwnFrame) /\ Tracks(OwnFrame, NoState)
      BY <2>3, <2>4, SMTT(30) DEF Honest, Tracks
    <2>6. Identified(t)
      BY <2>1, <2>2, <2>3, <2>5, SMTT(30) DEF Identified
    <2>7. Served(t)
      BY <1>1, <2>1, <2>4 DEF Served
    <2> QED
      BY <2>6, <2>7
  <1> QED
    BY <1>2, <1>3 DEF IdentityInv

-----------------------------------------------------------------------------
(* Whom a hook takes for the caller. *)

(* The uid that the hooks take for the caller is that of the request the   *)
(* thread serves, or none; it is not none where the thread had its state   *)
(* all along.                                                              *)
LEMMA EffectiveCaller ==
  ASSUME ThreadTypes, IdentityInv, NEW t \in Threads, Ready(t),
         NEW c, c = ctx[t] \/ c \in GetThreadState(t)
  PROVE  LET uid == EffectiveCallerUid(c, RawCallingUid(t))
         IN  /\ uid \in {NoUid, Origin(t)}
             /\ ~lost[t] /\ (role[t] = "fuse" => serving[t].asked = "hooked")
                  => uid = Origin(t)
  <1> DEFINE f == Top(frames[t])
             uid == EffectiveCallerUid(c, f.raw)
             saved == c.saved_binder_uid
  <1>1. /\ c.saved_binder_uid = ctx[t].saved_binder_uid /\ c.fuse_uid = ctx[t].fuse_uid
        /\ c.binder_clear_depth = ctx[t].binder_clear_depth
    BY GetFields
  <1>2. /\ Identified(t) /\ Served(t)
        /\ role[t] \in {"binder", "fuse"} /\ ctx[t] \in Context
        /\ frames[t] \in Seq(Frame) /\ frames[t] # << >>
        /\ serving[t] \in Serving \cup {NoServing}
    BY DEF IdentityInv, ThreadTypes
  <1>3. /\ f \in Frame /\ f.tokens \in Seq(Uid) /\ f.raw \in Uid /\ f.caller \in Uid
        /\ c.binder_clear_depth \in Nat
    <2>1. f \in Frame
      BY <1>2, TopFacts
    <2> QED
      BY <1>1, <1>2, <2>1 DEF Frame, Context
  <1>4. Self \notin Apps /\ NoUid \notin Apps /\ System \notin Apps
    BY RedirectAssumption
  <1> USE DEF CallerOrNone, IsApplicationCaller
  <1>5. /\ c.fuse_uid = NoUid /\ f.raw \notin Apps => uid = CallerOrNone(saved)
        /\ c.fuse_uid = NoUid /\ f.raw \in Apps => uid = f.raw
        /\ c.fuse_uid \in Apps => uid = c.fuse_uid
    BY <1>4 DEF EffectiveCallerUid
  <1>6. f.raw \in {f.caller, Self} /\ saved \in {NoUid, CallerOrNone(f.caller)}
    BY <1>1, <1>2 DEF Identified, Honest, Tracks
  <1>7. CASE role[t] = "binder"
    <2>1. c.fuse_uid = NoUid /\ Origin(t) = CallerOrNone(f.caller)
      BY <1>1, <1>2, <1>7 DEF Served, Origin
    <2>2. uid \in {NoUid, Origin(t)}
      BY <1>4, <1>5, <1>6, <2>1
    <2>3. ASSUME ~lost[t] PROVE uid = Origin(t)
      <3>1. CASE Len(frames[t]) = 1
        <4>1. f.caller = Self
          BY <1>2, <3>1 DEF Identified
        <4> QED
          BY <1>4, <2>1, <2>2, <4>1
      <3>2. CASE Len(frames[t]) = 2
        <4>1. Exact(f, c)
          BY <1>1, <1>2, <2>3, <3>2 DEF Identified, Exact
        <4>2. CASE f.tokens = << >>
          <5>1. f.raw = f.caller /\ c.binder_clear_depth = 0 /\ saved = NoUid
            BY <1>1, <1>2, <4>1, <4>2 DEF Identified, Honest, Exact, Tracks
          <5> QED
            BY <1>4, <1>5, <2>1, <5>1
        <4>3. CASE f.tokens # << >>
          <5>1. f.raw = Self /\ Len(f.tokens) > 0
            <6>1. Len(f.tokens) \in Nat \ {0}
              BY <1>3, <4>3, TopFacts
            <6>2. Len(f.tokens) > 0
              BY <6>1, SMTT(30)
            <6>3. Honest(f)
              BY <1>2 DEF Identified
            <6> QED
              BY <4>3, <6>2, <6>3 DEF Honest
          <5>2. saved = CallerOrNone(f.caller)
            BY <4>1, <5>1 DEF Exact
          <5> QED
            BY <1>4, <1>5, <2>1, <5>1, <5>2
        <4> QED
          BY <4>2, <4>3
      <3> QED
        BY <1>2, <3>1, <3>2 DEF Identified
    <2> QED
      BY <1>7, <2>2, <2>3 DEF RawCallingUid
  <1>8. CASE role[t] = "fuse"
    <2>1. /\ Origin(t) = CallerOrNone(serving[t].uid)
          /\ serving[t].asked \in {"hooked", "unhooked"}
      <3>1. Origin(t) = CallerOrNone(serving[t].uid)
        BY <1>8 DEF Origin
      <3>2. NoServing.asked = "no" /\ serving[t].asked # "no"
        BY <1>8 DEF Ready, NoServing
      <3>3. serving[t] \in Serving
        BY <1>2, <3>2
      <3>4. serving[t].asked \in {"no", "hooked", "unhooked"}
        BY <3>3 DEF Serving
      <3> QED
        BY <3>1, <3>2, <3>4
    <2>2. f.caller = Self
      BY <1>2, <1>8 DEF Identified
    <2>3. f.raw \notin Apps /\ CallerOrNone(saved) = NoUid
      BY <1>4, <1>6, <2>2
    <2>4. c.fuse_uid \in {NoUid, Origin(t)}
      BY <1>1, <1>2, <2>1 DEF Served
    <2>5. uid = c.fuse_uid
      BY <1>4, <1>5, <2>1, <2>3, <2>4
    <2>6. ~lost[t] /\ serving[t].asked = "hooked" => c.fuse_uid = Origin(t)
      BY <1>1, <1>2, <2>1 DEF Served
    <2> QED
      BY <1>8, <2>4, <2>5, <2>6 DEF RawCallingUid
  <1> QED
    BY <1>2, <1>7, <1>8

-----------------------------------------------------------------------------
(* Least and greatest elements *)

(* A part of a sequence of components. *)
LEMMA PartFacts ==
  ASSUME NEW S, NEW s, NEW m \in Int, NEW n \in Int, \A i \in m..n : s[i] \in S
  PROVE  /\ SubSeq(s, m, n) \in Seq(S)
         /\ Len(SubSeq(s, m, n)) = IF m <= n THEN n - m + 1 ELSE 0
         /\ \A i \in 1..(n - m + 1) : SubSeq(s, m, n)[i] = s[m + i - 1]
  BY SMTT(30)

(* Two of them, one after the other. *)
LEMMA JoinFacts ==
  ASSUME NEW S, NEW s \in Seq(S), NEW r \in Seq(S)
  PROVE  /\ s \o r \in Seq(S) /\ Len(s \o r) \in Nat
         /\ Len(s \o r) = Len(s) + Len(r)
         /\ \A i \in 1..(Len(s) + Len(r)) :
               (s \o r)[i] = IF i <= Len(s) THEN s[i] ELSE r[i - Len(s)]
  BY SMTT(30)

(* A set of naturals has a least element. *)
LEMMA LeastNatural ==
  ASSUME NEW S, S \subseteq Nat, S # {}
  PROVE  \E m \in S : \A n \in S : m <= n
  <1>1. PICK m \in S : \A n \in S : ~(<<n, m>> \in OpToRel(<, Nat))
    BY WFMin, NatLessThanWellFounded
  <1>2. \A n \in S : ~(n < m)
    BY <1>1 DEF OpToRel
  <1> QED
    BY <1>2, SMTT(30)

(* A bounded one has a greatest. *)
LEMMA GreatestNatural ==
  ASSUME NEW n \in Nat, NEW S, S \subseteq 0..n, S # {}
  PROVE  \E m \in S : \A k \in S : k <= m
  <1> DEFINE T == {k \in 0..n : n - k \in S}
  <1>1. T \subseteq Nat
    BY SMTT(30)
  <1>2. T # {}
    <2>1. PICK k : k \in S
      OBVIOUS
    <2>2. k \in 0..n
      BY <2>1
    <2>3. n - k \in 0..n /\ n - (n - k) = k
      BY <2>2, SMTT(30)
    <2>4. n - k \in T
      BY <2>1, <2>3
    <2> QED
      BY <2>4
  <1> HIDE DEF T
  <1>3. PICK m \in T : \A k \in T : m <= k
    BY <1>1, <1>2, LeastNatural
  <1>4. m \in 0..n /\ n - m \in S
    BY DEF T
  <1>5. ASSUME NEW k \in S PROVE k <= n - m
    <2>1. k \in 0..n
      OBVIOUS
    <2>2. n - k \in 0..n /\ n - (n - k) = k
      BY <2>1, SMTT(30)
    <2>3. n - k \in T
      BY <2>2 DEF T
    <2>4. m <= n - k
      BY <1>3, <2>3
    <2> QED
      BY <1>4, <2>1, <2>4, SMTT(30)
  <1> QED
    BY <1>4, <1>5

(* A total and transitive relation has a first element in every finite     *)
(* set of indices: the loops over the rules keep the best one so far.      *)
LEMMA BestIndex ==
  ASSUME NEW n \in Nat, NEW D, D \subseteq 1..n, D # {}, NEW R,
         \A i, j \in D : <<i, j>> \in R \/ <<j, i>> \in R,
         \A i, j, k \in D : <<i, j>> \in R /\ <<j, k>> \in R => <<i, k>> \in R
  PROVE  \E i \in D : \A j \in D : <<i, j>> \in R
  <1> DEFINE Prefix(m) == {i \in D : i <= m}
             Bad == {m \in 0..n : /\ Prefix(m) # {}
                                  /\ ~\E i \in Prefix(m) : \A j \in Prefix(m) : <<i, j>> \in R}
  <1>0. \A i \in D : i \in Nat /\ 1 <= i /\ i <= n
    BY SMTT(30)
  <1>1. Prefix(n) = D
    BY <1>0
  <1>a. \A i \in D : ~(i <= 0)
    BY <1>0, SMTT(30)
  <1>b. ASSUME NEW m \in Nat, m # 0, NEW j
        PROVE  j \in Prefix(m) <=> j \in Prefix(m - 1) \/ (j = m /\ m \in D)
    <2>1. CASE j \in D
      <3>1. j \in Nat /\ (j <= m <=> j <= m - 1 \/ j = m)
        BY <1>0, <1>b, <2>1, SMTT(30)
      <3> QED
        BY <2>1, <3>1
    <2> QED
      BY <2>1
  <1>2. SUFFICES Bad = {}
    <2>1. n \notin Bad /\ n \in 0..n
      BY <1>2, SMTT(30)
    <2> QED
      BY <1>1, <2>1
  <1>3. SUFFICES ASSUME Bad # {} PROVE FALSE
    OBVIOUS
  <1>4. PICK m \in Bad : \A k \in Bad : m <= k
    <2>1. Bad \subseteq Nat
      BY SMTT(30)
    <2> HIDE DEF Bad
    <2> QED
      BY <1>3, <2>1, LeastNatural
  <1>5. m \in 0..n
    OBVIOUS
  <1>6. /\ Prefix(m) # {}
        /\ ~\E i \in Prefix(m) : \A j \in Prefix(m) : <<i, j>> \in R
    OBVIOUS
  <1>7. m # 0
    <2>1. Prefix(0) = {}
      BY <1>a
    <2> HIDE DEF Prefix, Bad
    <2> QED
      BY <1>6, <2>1
  <1>8. \/ Prefix(m - 1) = {}
        \/ \E i \in Prefix(m - 1) : \A j \in Prefix(m - 1) : <<i, j>> \in R
    <2>1. m - 1 \in 0..n /\ ~(m <= m - 1)
      BY <1>5, <1>7, SMTT(30)
    <2>2. m - 1 \notin Bad
      <3> HIDE DEF Bad
      <3> QED
        BY <1>4, <2>1
    <2> HIDE DEF Prefix
    <2> QED
      BY <2>1, <2>2
  <1> HIDE DEF Bad
  <1>9. \A j : j \in Prefix(m) <=> j \in Prefix(m - 1) \/ (j = m /\ m \in D)
    BY <1>5, <1>7, <1>b, SMTT(30)
  <1>10. \A j \in Prefix(m - 1) : j \in D
    OBVIOUS
  <1> HIDE DEF Prefix
  <1>11. m \in D
    BY <1>6, <1>8, <1>9
  <1>12. <<m, m>> \in R
    BY <1>11
  <1>13. CASE Prefix(m - 1) = {}
    BY <1>6, <1>9, <1>11, <1>12, <1>13, SMTT(30)
  <1>14. CASE \E i \in Prefix(m - 1) : \A j \in Prefix(m - 1) : <<i, j>> \in R
    <2>1. PICK i \in Prefix(m - 1) : \A j \in Prefix(m - 1) : <<i, j>> \in R
      BY <1>14
    <2>2. CASE <<i, m>> \in R
      BY <1>6, <1>9, <2>1, <2>2
    <2>3. CASE <<m, i>> \in R
      <3>1. \A j \in Prefix(m - 1) : <<m, j>> \in R
        BY <1>10, <1>11, <2>1, <2>3
      <3> QED
        BY <1>6, <1>9, <1>11, <1>12, <3>1
    <2> QED
      BY <1>10, <1>11, <2>2, <2>3
  <1> QED
    BY <1>8, <1>13, <1>14

-----------------------------------------------------------------------------
(* Prefixes and tails *)

(* MatchesLogicalPath compares component by component. *)
LEMMA PrefixComponents ==
  ASSUME NEW p \in Seq(Nat), NEW q \in Seq(Nat)
  PROVE  MatchesLogicalPath(q, p) <=> Len(p) <= Len(q) /\ \A i \in 1..Len(p) : p[i] = q[i]
  <1> DEFINE n == Len(p)
             b == SubSeq(q, 1, n)
  <1>1. n \in Nat /\ Len(q) \in Nat /\ \A i \in 1..Len(q) : q[i] \in Nat
    BY SMTT(30)
  <1>2. MatchesLogicalPath(q, p) <=> n <= Len(q) /\ b = p
    BY DEF MatchesLogicalPath
  <1>3. SUFFICES ASSUME n <= Len(q) PROVE b = p <=> \A i \in 1..n : p[i] = q[i]
    BY <1>2
  <1>4. p = [i \in 1..n |-> p[i]]
    BY SMTT(30)
  <1> HIDE DEF n
  <1>5. \A i \in 1..n : q[i] \in Nat
    BY <1>1, <1>3, SMTT(30)
  <1>6. /\ b \in Seq(Nat) /\ Len(b) = IF 1 <= n THEN n - 1 + 1 ELSE 0
        /\ \A i \in 1..(n - 1 + 1) : b[i] = q[1 + i - 1]
    BY <1>1, <1>5, PartFacts, SMTT(30)
  <1> HIDE DEF b
  <1>7. Len(b) = n /\ \A i \in 1..n : b[i] = q[i]
    BY <1>1, <1>6, SMTT(30)
  <1>8. b = [i \in 1..n |-> b[i]]
    BY <1>6, <1>7, SMTT(30)
  <1> QED
    BY <1>4, <1>7, <1>8

(* Of two sources that hold a path, one holds the other. *)
LEMMA PrefixesNest ==
  ASSUME NEW p \in Seq(Nat), NEW q \in Seq(Nat), NEW s \in Seq(Nat),
         MatchesLogicalPath(s, p), MatchesLogicalPath(s, q)
  PROVE  MatchesLogicalPath(q, p) \/ MatchesLogicalPath(p, q)
  <1>1. Len(p) \in Nat /\ Len(q) \in Nat
    BY SMTT(30)
  <1>2. /\ \A i \in 1..Len(p) : p[i] = s[i]
        /\ \A i \in 1..Len(q) : q[i] = s[i]
    BY PrefixComponents
  <1>3. CASE Len(p) <= Len(q)
    <2>1. \A i \in 1..Len(p) : i \in 1..Len(q)
      BY <1>1, <1>3, SMTT(30)
    <2>2. \A i \in 1..Len(p) : p[i] = q[i]
      BY <1>2, <2>1
    <2> QED
      BY <1>3, <2>2, PrefixComponents
  <1>4. CASE Len(q) <= Len(p)
    <2>1. \A i \in 1..Len(q) : i \in 1..Len(p)
      BY <1>1, <1>4, SMTT(30)
    <2>2. \A i \in 1..Len(q) : q[i] = p[i]
      BY <1>2, <2>1
    <2> QED
      BY <1>4, <2>2, PrefixComponents
  <1> QED
    BY <1>1, <1>3, <1>4, SMTT(30)

(* The tail of a path after a prefix. *)
LEMMA TailFacts ==
  ASSUME NEW p \in Seq(Nat), NEW s \in Seq(Nat), MatchesLogicalPath(s, p)
  PROVE  /\ TailAfter(s, p) \in Seq(Nat)
         /\ p \o TailAfter(s, p) = s
  <1> DEFINE m == Len(p)
             n == Len(s)
             u == TailAfter(s, p)
  <1>1. m \in Nat /\ n \in Nat /\ m <= n /\ \A i \in 1..m : p[i] = s[i]
    BY PrefixComponents, SMTT(30)
  <1>2. \A i \in (m + 1)..n : s[i] \in Nat
    BY <1>1, SMTT(30)
  <1>e. \A i \in 1..n : s[i] \in Nat
    BY SMTT(30)
  <1> HIDE DEF m, n
  <1>3. /\ u \in Seq(Nat) /\ Len(u) = IF m + 1 <= n THEN n - (m + 1) + 1 ELSE 0
        /\ \A i \in 1..(n - (m + 1) + 1) : u[i] = s[m + 1 + i - 1]
    <2>1. u = SubSeq(s, m + 1, n)
      BY DEF TailAfter, m, n
    <2>2. m + 1 \in Int /\ n \in Int
      BY <1>1, SMTT(30)
    <2> HIDE DEF u
    <2> QED
      BY <1>2, <2>1, <2>2, PartFacts, SMTT(30)
  <1> HIDE DEF u
  <1>4. Len(u) = n - m /\ \A i \in 1..(n - m) : u[i] = s[m + i]
    BY <1>1, <1>3, SMTT(30)
  <1> DEFINE c == p \o u
  <1>5. /\ c \in Seq(Nat) /\ Len(c) = m + Len(u)
        /\ \A i \in 1..(m + Len(u)) : c[i] = IF i <= m THEN p[i] ELSE u[i - m]
    BY <1>3, JoinFacts DEF m
  <1> HIDE DEF c
  <1>6. Len(c) = n
    BY <1>1, <1>4, <1>5, SMTT(30)
  <1>7. ASSUME NEW i \in 1..n PROVE c[i] = s[i]
    <2>0. i \in 1..(m + Len(u))
      BY <1>1, <1>4, <1>7, SMTT(30)
    <2>1. c[i] = IF i <= m THEN p[i] ELSE u[i - m]
      BY <1>5, <2>0
    <2>2. CASE i <= m
      <3>1. i \in 1..m
        BY <1>1, <1>7, <2>2, SMTT(30)
      <3>2. p[i] = s[i]
        BY <1>1, <3>1
      <3> QED
        BY <2>1, <2>2, <3>2
    <2>3. CASE ~(i <= m)
      <3>1. i - m \in 1..(n - m) /\ m + (i - m) = i
        BY <1>1, <1>7, <2>3, SMTT(30)
      <3>2. u[i - m] = s[m + (i - m)]
        BY <1>4, <3>1
      <3> QED
        BY <2>1, <2>3, <3>1, <3>2
    <2> QED
      BY <2>2, <2>3
  <1>8. c = s
    <2>1. c = [i \in 1..n |-> c[i]] /\ s = [i \in 1..n |-> s[i]]
      BY <1>5, <1>6, SMTT(30) DEF n
    <2> QED
      BY <1>7, <2>1
  <1> QED
    BY <1>3, <1>8 DEF c, u

(* A prefix that is put before a tail comes off again. *)
LEMMA ConcatFacts ==
  ASSUME NEW p \in Seq(Nat), NEW u \in Seq(Nat)
  PROVE  MatchesLogicalPath(p \o u, p) /\ TailAfter(p \o u, p) = u
  <1> DEFINE m == Len(p)
             k == Len(u)
             c == p \o u
             v == TailAfter(c, p)
  <1>1. m \in Nat /\ k \in Nat
    BY SMTT(30)
  <1>2. /\ c \in Seq(Nat) /\ Len(c) = m + k
        /\ \A i \in 1..(m + k) : c[i] = IF i <= m THEN p[i] ELSE u[i - m]
    BY JoinFacts
  <1> HIDE DEF m, k, c
  <1>3. m <= m + k /\ \A i \in 1..m : i \in 1..(m + k) /\ i <= m
    BY <1>1, SMTT(30)
  <1>4. MatchesLogicalPath(c, p)
    BY <1>2, <1>3, PrefixComponents DEF m
  <1>5. \A i \in (m + 1)..(m + k) : c[i] \in Nat
    <2>1. \A i \in (m + 1)..(m + k) : i \in 1..(m + k)
      BY <1>1, SMTT(30)
    <2>2. \A i \in 1..Len(c) : c[i] \in Nat
      BY <1>2, SMTT(30)
    <2> QED
      BY <1>2, <2>1, <2>2
  <1>6. v \in Seq(Nat) /\ Len(v) = k /\ \A i \in 1..k : v[i] = c[m + i]
    <2> DEFINE x == m + 1
               y == m + k
    <2>1. v = SubSeq(c, x, y)
      BY <1>2 DEF TailAfter, m
    <2>2. x \in Int /\ y \in Int /\ \A i \in x..y : c[i] \in Nat
      BY <1>1, <1>5, SMTT(30)
    <2> HIDE DEF v, x, y
    <2>3. /\ v \in Seq(Nat) /\ Len(v) = IF x <= y THEN y - x + 1 ELSE 0
          /\ \A i \in 1..(y - x + 1) : v[i] = c[x + i - 1]
      BY <2>1, <2>2, PartFacts, SMTT(30)
    <2>4. y - x + 1 = k /\ (~(x <= y) => k = 0) /\ \A i \in 1..k : x + i - 1 = m + i
      BY <1>1, SMTT(30) DEF x, y
    <2> QED
      BY <2>3, <2>4
  <1> HIDE DEF v
  <1>7. ASSUME NEW i \in 1..k PROVE v[i] = u[i]
    <2> DEFINE j == m + i
    <2>1. j \in 1..(m + k) /\ ~(j <= m) /\ j - m = i
      BY <1>1, <1>7, SMTT(30)
    <2>2. v[i] = c[j]
      BY <1>6, <1>7
    <2> HIDE DEF j
    <2>3. c[j] = u[j - m]
      BY <1>2, <2>1
    <2> QED
      BY <2>1, <2>2, <2>3
  <1>8. v = u
    <2>1. v = [i \in 1..k |-> v[i]] /\ u = [i \in 1..k |-> u[i]]
      BY <1>6, SMTT(30) DEF k
    <2> QED
      BY <1>7, <2>1
  <1> QED
    BY <1>4, <1>8 DEF c, v

-----------------------------------------------------------------------------
(* The order of rule paths *)

(* The first place where two sequences differ, or where the shorter one ends. *)
DiffersAt(p, q, i) ==
    /\ i \in 1..Len(q) /\ i <= Len(p) + 1
    /\ \A j \in 1..(i - 1) : p[j] = q[j]
    /\ i <= Len(p) => p[i] < q[i]

(* The order is decided there. *)
LEMMA FirstDiffersAt ==
  ASSUME NEW p \in Seq(Nat), NEW q \in Seq(Nat)
  PROVE  FirstDiffers(p, q) <=> \E i \in Nat : DiffersAt(p, q, i)
  <1>0. Len(p) \in Nat /\ Len(q) \in Nat
    BY SMTT(30)
  <1>1. ASSUME p # q, MatchesLogicalPath(q, p) PROVE DiffersAt(p, q, Len(p) + 1)
    <2>1. Len(p) <= Len(q) /\ (\A i \in 1..Len(p) : p[i] = q[i]) /\ p # q
      BY <1>1, PrefixComponents
    <2>2. Len(p) # Len(q)
      <3>1. SUFFICES ASSUME Len(p) = Len(q) PROVE FALSE
        OBVIOUS
      <3>2. p = [i \in 1..Len(p) |-> p[i]] /\ q = [i \in 1..Len(p) |-> q[i]]
        BY <3>1, SMTT(30)
      <3> QED
        BY <2>1, <3>2
    <2> QED
      BY <1>0, <2>1, <2>2, SMTT(30) DEF DiffersAt
  <1>2. ASSUME NEW i \in 1..Len(p), i <= Len(q), p[i] < q[i],
               \A j \in 1..(i - 1) : p[j] = q[j]
        PROVE  DiffersAt(p, q, i) /\ i \in Nat
    BY <1>0, <1>2, SMTT(30) DEF DiffersAt
  <1>3. ASSUME NEW i \in Nat, DiffersAt(p, q, i) PROVE FirstDiffers(p, q)
    <2>1. CASE i <= Len(p)
      BY <1>0, <1>3, <2>1, SMTT(30) DEF FirstDiffers, DiffersAt
    <2>2. CASE i = Len(p) + 1
      <3>1. Len(p) < Len(q) /\ \A j \in 1..Len(p) : p[j] = q[j]
        BY <1>0, <1>3, <2>2, SMTT(30) DEF DiffersAt
      <3>2. MatchesLogicalPath(q, p) /\ p # q
        BY <1>0, <3>1, PrefixComponents, SMTT(30)
      <3> QED
        BY <3>2 DEF FirstDiffers
    <2> QED
      BY <1>0, <1>3, <2>1, <2>2, SMTT(30) DEF DiffersAt
  <1>4. FirstDiffers(p, q) => \E i \in Nat : DiffersAt(p, q, i)
    BY <1>0, <1>1, <1>2, SMTT(30) DEF FirstDiffers
  <1> QED
    BY <1>3, <1>4

(* It is irreflexive. *)
LEMMA FirstDiffersIrreflexive == ASSUME NEW p \in Seq(Nat) PROVE ~FirstDiffers(p, p)
  <1>1. \A i \in 1..Len(p) : p[i] \in Nat
    BY SMTT(30)
  <1>2. \A i \in Nat : ~DiffersAt(p, p, i)
    BY <1>1, SMTT(30) DEF DiffersAt
  <1> QED
    BY <1>2, FirstDiffersAt

(* It is transitive. *)
LEMMA FirstDiffersTransitive ==
  ASSUME NEW p \in Seq(Nat), NEW q \in Seq(Nat), NEW r \in Seq(Nat),
         FirstDiffers(p, q), FirstDiffers(q, r)
  PROVE  FirstDiffers(p, r)
  <1>1. PICK i \in Nat : DiffersAt(p, q, i)
    BY FirstDiffersAt
  <1>2. PICK k \in Nat : DiffersAt(q, r, k)
    BY FirstDiffersAt
  <1>3. Len(p) \in Nat /\ Len(q) \in Nat /\ Len(r) \in Nat
    BY SMTT(30)
  <1>4. /\ \A j \in 1..Len(p) : p[j] \in Nat
        /\ \A j \in 1..Len(q) : q[j] \in Nat
        /\ \A j \in 1..Len(r) : r[j] \in Nat
    BY SMTT(30)
  <1>5. /\ 1 <= i /\ i <= Len(q) /\ i <= Len(p) + 1 /\ (i <= Len(p) => p[i] < q[i])
        /\ 1 <= k /\ k <= Len(r) /\ k <= Len(q) + 1 /\ (k <= Len(q) => q[k] < r[k])
    BY <1>1, <1>2, <1>3, SMTT(30) DEF DiffersAt
  <1>a. 1 <= i /\ i <= Len(q) /\ i <= Len(p) + 1 /\ 1 <= k /\ k <= Len(r)
    BY <1>5
  <1>6. /\ \A j \in 1..(i - 1) : p[j] = q[j]
        /\ \A j \in 1..(k - 1) : q[j] = r[j]
    BY <1>1, <1>2 DEF DiffersAt
  <1>7. CASE i < k
    <2>1. i \in 1..(k - 1) /\ i \in 1..Len(r) /\ \A j \in 1..(i - 1) : j \in 1..(k - 1)
      BY <1>3, <1>5, <1>7, SMTT(30)
    <2>2. DiffersAt(p, r, i)
      BY <1>5, <1>6, <2>1 DEF DiffersAt
    <2> QED
      BY <2>2, FirstDiffersAt
  <1>8. CASE k < i
    <2>1. /\ k \in 1..(i - 1) /\ k \in 1..Len(r) /\ k <= Len(p) /\ k <= Len(q)
          /\ \A j \in 1..(k - 1) : j \in 1..(i - 1)
      BY <1>3, <1>8, <1>a, SMTT(30)
    <2>2. p[k] = q[k] /\ q[k] < r[k]
      BY <1>5, <1>6, <2>1
    <2>3. k <= Len(p) + 1
      BY <1>3, <2>1, SMTT(30)
    <2>4. DiffersAt(p, r, k)
      BY <1>6, <2>1, <2>2, <2>3 DEF DiffersAt
    <2> QED
      BY <2>4, FirstDiffersAt
  <1>9. CASE i = k
    <2>1. i \in 1..Len(r) /\ i \in 1..Len(q) /\ (i <= Len(p) => i \in 1..Len(p))
      BY <1>3, <1>5, <1>9, SMTT(30)
    <2>2. ASSUME i <= Len(p) PROVE p[i] < r[i]
      <3>1. p[i] < q[i] /\ q[i] < r[i]
        BY <1>5, <1>9, <1>a, <2>2
      <3>2. p[i] \in Nat /\ q[i] \in Nat /\ r[i] \in Nat
        BY <1>4, <2>1, <2>2
      <3> QED
        BY <3>1, <3>2, SMTT(30)
    <2>3. DiffersAt(p, r, i)
      BY <1>5, <1>6, <1>9, <2>1, <2>2 DEF DiffersAt
    <2> QED
      BY <2>3, FirstDiffersAt
  <1> QED
    BY <1>7, <1>8, <1>9, SMTT(30)

(* Two different sequences are ordered. *)
LEMMA FirstDiffersTotal ==
  ASSUME NEW p \in Seq(Nat), NEW q \in Seq(Nat), p # q
  PROVE  FirstDiffers(p, q) \/ FirstDiffers(q, p)
  <1> DEFINE m == Len(p)
             n == Len(q)
             D == {i \in 1..m : i <= n /\ p[i] # q[i]}
  <1>0. m \in Nat /\ n \in Nat
    BY SMTT(30)
  <1>1. (\A j \in 1..m : p[j] \in Nat) /\ (\A j \in 1..n : q[j] \in Nat)
    BY SMTT(30)
  <1>2. CASE D # {}
    <2>1. D \subseteq Nat
      BY <1>0, SMTT(30)
    <2>2. PICK i \in D : \A j \in D : i <= j
      <3> HIDE DEF D
      <3> QED
        BY <1>2, <2>1, LeastNatural
    <2>3. i \in 1..m /\ i \in 1..n /\ p[i] # q[i]
      BY <1>0, SMTT(30)
    <2>4. \A j \in 1..(i - 1) : j \notin D /\ j \in 1..m /\ j <= n
      <3>1. \A j \in 1..(i - 1) : ~(i <= j) /\ j \in 1..m /\ j <= n
        BY <1>0, <2>3, SMTT(30)
      <3> HIDE DEF D
      <3> QED
        BY <2>2, <3>1
    <2>5. \A j \in 1..(i - 1) : p[j] = q[j]
      BY <2>4
    <2> HIDE DEF D
    <2>6. p[i] < q[i] \/ q[i] < p[i]
      BY <1>1, <2>3, SMTT(30)
    <2>7. i \in Nat /\ i <= m + 1 /\ i <= n + 1
      BY <1>0, <2>3, SMTT(30)
    <2>8. DiffersAt(p, q, i) \/ DiffersAt(q, p, i)
      BY <2>3, <2>5, <2>6, <2>7 DEF DiffersAt
    <2> QED
      BY <2>7, <2>8, FirstDiffersAt
  <1>3. CASE D = {}
    <2>1. \A j \in 1..m : j <= n => p[j] = q[j]
      BY <1>3
    <2> HIDE DEF D
    <2>2. CASE m < n
      <3>1. m + 1 \in 1..n /\ \A j \in 1..m : j <= n
        BY <1>0, <2>2, SMTT(30)
      <3>2. DiffersAt(p, q, m + 1) /\ m + 1 \in Nat
        BY <1>0, <2>1, <3>1, SMTT(30) DEF DiffersAt
      <3> QED
        BY <3>2, FirstDiffersAt
    <2>3. CASE n < m
      <3>1. n + 1 \in 1..m /\ \A j \in 1..n : j <= n /\ j \in 1..m
        BY <1>0, <2>3, SMTT(30)
      <3>2. DiffersAt(q, p, n + 1) /\ n + 1 \in Nat
        BY <1>0, <2>1, <3>1, SMTT(30) DEF DiffersAt
      <3> QED
        BY <3>2, FirstDiffersAt
    <2>4. m # n
      <3>1. SUFFICES ASSUME m = n PROVE FALSE
        OBVIOUS
      <3>2. p = [i \in 1..m |-> p[i]] /\ q = [i \in 1..m |-> q[i]]
        BY <3>1, SMTT(30)
      <3>3. \A i \in 1..m : p[i] = q[i]
        BY <1>0, <2>1, <3>1, SMTT(30)
      <3> QED
        BY <3>2, <3>3
    <2> QED
      BY <1>0, <2>2, <2>3, <2>4, SMTT(30)
  <1> QED
    BY <1>2, <1>3

(* A name and the byte after it are told apart by their place in the order. *)
LEMMA ByteOrderInjective ==
  ASSUME NEW m \in Nat, NEW n \in Nat, NEW a \in BOOLEAN, NEW b \in BOOLEAN,
         ByteOrder(m, a) = ByteOrder(n, b)
  PROVE  m = n
  BY SMTT(30) DEF ByteOrder

LEMMA BytesFacts ==
  ASSUME NEW p \in Seq(Nat)
  PROVE  /\ Bytes(p) \in Seq(Nat) /\ Len(Bytes(p)) = Len(p)
         /\ \A i \in 1..Len(p) : Bytes(p)[i] = ByteOrder(p[i], i = Len(p))
  <1>1. Len(p) \in Nat /\ DOMAIN p = 1..Len(p) /\ \A i \in 1..Len(p) : p[i] \in Nat
    BY SMTT(30)
  <1>2. \A m \in Nat : \A a \in BOOLEAN : ByteOrder(m, a) \in Nat
    BY SMTT(30) DEF ByteOrder
  <1>3. /\ Bytes(p) = [i \in 1..Len(p) |-> ByteOrder(p[i], i = Len(p))]
        /\ \A i \in 1..Len(p) : Bytes(p)[i] = ByteOrder(p[i], i = Len(p))
    BY <1>1 DEF Bytes
  <1>4. \A i \in 1..Len(p) : Bytes(p)[i] \in Nat
    <2> TAKE i \in 1..Len(p)
    <2> DEFINE last == i = Len(p)
    <2>1. last \in BOOLEAN /\ p[i] \in Nat
      BY <1>1
    <2>2. Bytes(p)[i] = ByteOrder(p[i], last)
      BY <1>3
    <2> HIDE DEF last
    <2> QED
      BY <1>2, <2>1, <2>2
  <1>5. Bytes(p) \in [1..Len(p) -> Nat]
    <2>1. Bytes(p) = [i \in 1..Len(p) |-> Bytes(p)[i]]
      BY <1>3
    <2> QED
      BY <1>4, <2>1
  <1>6. Bytes(p) \in Seq(Nat) /\ Len(Bytes(p)) = Len(p)
    BY <1>1, <1>5, SMTT(30)
  <1> QED
    BY <1>3, <1>6

(* Paths with the same bytes are the same. *)
LEMMA BytesInjective ==
  ASSUME NEW p \in Seq(Nat), NEW q \in Seq(Nat), Bytes(p) = Bytes(q)
  PROVE  p = q
  <1>1. /\ Len(p) \in Nat /\ (\A i \in 1..Len(p) : p[i] \in Nat)
        /\ Len(q) \in Nat /\ (\A i \in 1..Len(q) : q[i] \in Nat)
    BY SMTT(30)
  <1>2. Len(p) = Len(q)
    BY BytesFacts
  <1>3. ASSUME NEW i \in 1..Len(p) PROVE p[i] = q[i]
    <2> DEFINE last == i = Len(p)
    <2>1. ByteOrder(p[i], last) = ByteOrder(q[i], last)
      <3>1. i \in 1..Len(q) /\ (i = Len(q) <=> last)
        BY <1>2
      <3>2. Bytes(p)[i] = ByteOrder(p[i], i = Len(p))
        BY BytesFacts
      <3>3. Bytes(q)[i] = ByteOrder(q[i], i = Len(q))
        BY <3>1, BytesFacts
      <3> QED
        BY <1>2, <3>2, <3>3
    <2>2. last \in BOOLEAN /\ p[i] \in Nat /\ q[i] \in Nat
      BY <1>1, <1>2, <1>3
    <2> HIDE DEF last
    <2> QED
      BY <2>1, <2>2, ByteOrderInjective
  <1> QED
    BY <1>1, <1>2, <1>3, SMTT(30)

(* No path is before itself. *)
LEMMA BeforeIrreflexive == ASSUME NEW p \in Seq(Nat) PROVE ~Before(p, p)
  BY BytesFacts, FirstDiffersIrreflexive DEF Before

(* strcmp is transitive. *)
LEMMA BeforeTransitive ==
  ASSUME NEW p \in Seq(Nat), NEW q \in Seq(Nat), NEW r \in Seq(Nat),
         Before(p, q), Before(q, r)
  PROVE  Before(p, r)
  BY BytesFacts, FirstDiffersTransitive DEF Before

(* Two different paths are ordered. *)
LEMMA BeforeTotal ==
  ASSUME NEW p \in Seq(Nat), NEW q \in Seq(Nat), p # q
  PROVE  Before(p, q) \/ Before(q, p)
  <1>1. Bytes(p) # Bytes(q)
    BY BytesInjective
  <1> QED
    BY <1>1, BytesFacts, FirstDiffersTotal DEF Before

-----------------------------------------------------------------------------
(* The rules that are selected *)

MappingRule(Uids) == [caller_uid : Uids, user_id : Nat, visible : Seq(Nat), backing : Seq(Nat)]

(* No source of a caller lies below another one. *)
Unnested(list) ==
    \A i, j \in DOMAIN list :
        /\ list[i].caller_uid = list[j].caller_uid
        /\ list[i].user_id = list[j].user_id
        => \/ list[i].visible = list[j].visible
           \/ ~MatchesLogicalPath(list[j].visible, list[i].visible)

(* No source of a caller has two targets. *)
Unambiguous(list) ==
    \A i, j \in DOMAIN list :
        /\ list[i].caller_uid = list[j].caller_uid
        /\ list[i].user_id = list[j].user_id
        /\ list[i].visible = list[j].visible
        => list[i].backing = list[j].backing

(* RewriteAbsolutePath selects one of the rules that hold the path. *)
LEMMA RewriteSelects ==
  ASSUME NEW Uids, NEW list \in Seq(MappingRule(Uids)), NEW found,
         found \subseteq DOMAIN list, found # {}
  PROVE  \E i \in found : \A j \in found :
             LET longer(x, y) == Len(list[x].visible) > Len(list[y].visible)
             IN  longer(i, j) \/ (~longer(j, i) /\ i <= j)
  <1> DEFINE len(i) == Len(list[i].visible)
             R == {e \in found \X found : \/ len(e[1]) > len(e[2])
                                          \/ ~(len(e[2]) > len(e[1])) /\ e[1] <= e[2]}
  <1>1. DOMAIN list = 1..Len(list) /\ Len(list) \in Nat
    BY SMTT(30)
  <1>2. \A i \in found : i \in Nat /\ len(i) \in Nat
    BY <1>1, SMTT(30) DEF MappingRule
  <1>3. \A i, j \in found :
           <<i, j>> \in R <=> len(i) > len(j) \/ (~(len(j) > len(i)) /\ i <= j)
    OBVIOUS
  <1> HIDE DEF len, R
  <1>4. ASSUME NEW i \in found, NEW j \in found PROVE <<i, j>> \in R \/ <<j, i>> \in R
    <2>1. len(i) \in Nat /\ len(j) \in Nat /\ i \in Nat /\ j \in Nat
      BY <1>2
    <2> QED
      BY <1>3, <2>1, SMTT(30)
  <1>5. ASSUME NEW i \in found, NEW j \in found, NEW k \in found,
               <<i, j>> \in R, <<j, k>> \in R
        PROVE  <<i, k>> \in R
    <2>1. /\ len(i) \in Nat /\ len(j) \in Nat /\ len(k) \in Nat
          /\ i \in Nat /\ j \in Nat /\ k \in Nat
      BY <1>2
    <2>2. len(i) > len(j) \/ (~(len(j) > len(i)) /\ i <= j)
      BY <1>3, <1>5
    <2>3. len(j) > len(k) \/ (~(len(k) > len(j)) /\ j <= k)
      BY <1>3, <1>5, SMTT(30)
    <2>4. len(i) > len(k) \/ (~(len(k) > len(i)) /\ i <= k)
      BY <2>1, <2>2, <2>3, SMTT(30)
    <2> QED
      BY <1>3, <2>4
  <1>6. \E i \in found : \A j \in found : <<i, j>> \in R
    BY <1>1, <1>4, <1>5, BestIndex
  <1> QED
    BY <1>3, <1>6 DEF len

(* RestoreAbsolutePath selects one of the rules that hold the path. *)
LEMMA RestoreSelects ==
  ASSUME NEW Uids, NEW list \in Seq(MappingRule(Uids)), NEW found,
         found \subseteq DOMAIN list, found # {}
  PROVE  \E i \in found : \A j \in found :
             LET better(x, y) ==
                   \/ Len(list[x].backing) > Len(list[y].backing)
                   \/ /\ Len(list[x].backing) = Len(list[y].backing)
                      /\ Before(list[x].visible, list[y].visible)
             IN  better(i, j) \/ (~better(j, i) /\ i <= j)
  <1> DEFINE len(i) == Len(list[i].backing)
             vis(i) == list[i].visible
             better(x, y) == \/ len(x) > len(y)
                             \/ len(x) = len(y) /\ Before(vis(x), vis(y))
             R == {e \in found \X found : \/ better(e[1], e[2])
                                          \/ ~better(e[2], e[1]) /\ e[1] <= e[2]}
  <1>1. DOMAIN list = 1..Len(list) /\ Len(list) \in Nat
    BY SMTT(30)
  <1>2. \A i \in found : i \in Nat /\ len(i) \in Nat /\ vis(i) \in Seq(Nat)
    <2>1. \A i \in found : i \in Nat /\ list[i] \in MappingRule(Uids)
      BY <1>1, SMTT(30)
    <2>2. \A rule \in MappingRule(Uids) :
              rule.visible \in Seq(Nat) /\ rule.backing \in Seq(Nat)
      BY DEF MappingRule
    <2>3. \A s \in Seq(Nat) : Len(s) \in Nat
      BY SMTT(30)
    <2> QED
      BY <2>1, <2>2, <2>3
  <1>3. \A i, j \in found : <<i, j>> \in R <=> better(i, j) \/ (~better(j, i) /\ i <= j)
    BY SMTT(30)
  <1> HIDE DEF len, vis, R
  <1>4. \A i, j \in found : Before(vis(i), vis(j)) \/ Before(vis(j), vis(i)) \/ vis(i) = vis(j)
    BY <1>2, BeforeTotal
  <1>5. \A i \in found : ~Before(vis(i), vis(i))
    BY <1>2, BeforeIrreflexive
  <1>6. \A i, j, k \in found :
           Before(vis(i), vis(j)) /\ Before(vis(j), vis(k)) => Before(vis(i), vis(k))
    BY <1>2, BeforeTransitive
  <1>7. \A i, j \in found :
           <<i, j>> \in R <=> \/ len(i) > len(j)
                              \/ len(i) = len(j) /\ Before(vis(i), vis(j))
                              \/ len(i) = len(j) /\ vis(i) = vis(j) /\ i <= j
    <2>1. ASSUME NEW i \in found, NEW j \in found
          PROVE  <<i, j>> \in R <=> \/ len(i) > len(j)
                                    \/ len(i) = len(j) /\ Before(vis(i), vis(j))
                                    \/ len(i) = len(j) /\ vis(i) = vis(j) /\ i <= j
      <3>1. /\ len(i) \in Nat /\ len(j) \in Nat
            /\ <<i, j>> \in R <=> better(i, j) \/ (~better(j, i) /\ i <= j)
        BY <1>2, <1>3
      <3>2. /\ Before(vis(i), vis(j)) \/ Before(vis(j), vis(i)) \/ vis(i) = vis(j)
            /\ ~Before(vis(i), vis(i)) /\ ~Before(vis(j), vis(j))
            /\ ~(Before(vis(i), vis(j)) /\ Before(vis(j), vis(i)))
        BY <1>4, <1>5, <1>6
      <3> QED
        BY <3>1, <3>2, SMTT(30)
    <2> QED
      BY <2>1
  <1> HIDE DEF better
  <1>8. ASSUME NEW i \in found, NEW j \in found PROVE <<i, j>> \in R \/ <<j, i>> \in R
    <2>1. len(i) \in Nat /\ len(j) \in Nat /\ i \in Nat /\ j \in Nat
      BY <1>2
    <2>2. Before(vis(i), vis(j)) \/ Before(vis(j), vis(i)) \/ vis(i) = vis(j)
      BY <1>4
    <2> QED
      BY <1>7, <2>1, <2>2, SMTT(30)
  <1>9. ASSUME NEW i \in found, NEW j \in found, NEW k \in found,
               <<i, j>> \in R, <<j, k>> \in R
        PROVE  <<i, k>> \in R
    <2>1. /\ len(i) \in Nat /\ len(j) \in Nat /\ len(k) \in Nat
          /\ i \in Nat /\ j \in Nat /\ k \in Nat
      BY <1>2
    <2>2. Before(vis(i), vis(j)) /\ Before(vis(j), vis(k)) => Before(vis(i), vis(k))
      BY <1>6
    <2>3. \/ len(i) > len(j)
          \/ len(i) = len(j) /\ Before(vis(i), vis(j))
          \/ len(i) = len(j) /\ vis(i) = vis(j) /\ i <= j
      BY <1>7, <1>9, SMTT(30)
    <2>4. \/ len(j) > len(k)
          \/ len(j) = len(k) /\ Before(vis(j), vis(k))
          \/ len(j) = len(k) /\ vis(j) = vis(k) /\ j <= k
      BY <1>7, <1>9
    <2>5. \/ len(i) > len(k)
          \/ len(i) = len(k) /\ Before(vis(i), vis(k))
          \/ len(i) = len(k) /\ vis(i) = vis(k) /\ i <= k
      BY <2>1, <2>2, <2>3, <2>4, SMTT(30)
    <2> QED
      BY <1>7, <2>5
  <1>10. \E i \in found : \A j \in found : <<i, j>> \in R
    BY <1>1, <1>8, <1>9, BestIndex
  <1> QED
    BY <1>3, <1>10 DEF better, len, vis

(* A path that is rewritten stays a path, and fits. *)
LEMMA RewriteTypes ==
  ASSUME NEW Uids, NEW list \in Seq(MappingRule(Uids)), NEW uid, NEW path \in Path
  PROVE  LET out == RewriteAbsolutePath(list, uid, path)
         IN  out \in Path /\ Len(out.comps) <= PathMax
  <1> DEFINE found == Holding(list, uid, path, "visible")
             longer(i, j) == Len(list[i].visible) > Len(list[j].visible)
             selected == CHOOSE i \in found :
                            \A j \in found : longer(i, j) \/ (~longer(j, i) /\ i <= j)
             out == RewriteAbsolutePath(list, uid, path)
  <1>0. NoPath \in Path /\ Len(NoPath.comps) <= PathMax /\ PathMax \in Nat
    <2>1. NoPath \in Path
      BY SMTT(30) DEF NoPath, Path
    <2>3. NoPath.comps = << >>
      BY DEF NoPath
    <2>2. Len(<< >>) = 0 /\ PathMax \in Nat
      BY MapperAssumption
    <2> QED
      BY <2>1, <2>2, <2>3, SMTT(30)
  <1>1. CASE out = NoPath
    BY <1>0, <1>1
  <1>2. CASE out # NoPath
    <2>1. found # {} /\ out = Replaced(path, list[selected].visible, list[selected].backing)
      BY <1>2 DEF RewriteAbsolutePath
    <2>2. found \subseteq DOMAIN list
      BY DEF Holding
    <2>3. selected \in found
      <3> HIDE DEF found
      <3>1. \E i \in found : \A j \in found : longer(i, j) \/ (~longer(j, i) /\ i <= j)
        BY <2>1, <2>2, RewriteSelects
      <3> QED
        BY <3>1
    <2> DEFINE v == list[selected].visible
               b == list[selected].backing
               tail == TailAfter(path.comps, v)
    <2>4. MatchesLogicalPath(path.comps, v)
      BY <2>3 DEF Holding
    <2>5. v \in Seq(Nat) /\ b \in Seq(Nat) /\ path.comps \in Seq(Nat)
      <3>1. selected \in DOMAIN list
        BY <2>2, <2>3
      <3> HIDE DEF selected
      <3>2. list[selected] \in MappingRule(Uids)
        BY <3>1, SMTT(30)
      <3> QED
        BY <3>2 DEF MappingRule, Path
    <2> HIDE DEF v, b
    <2>6. tail \in Seq(Nat)
      BY <2>4, <2>5, TailFacts
    <2> HIDE DEF tail
    <2>7. b \o tail \in Seq(Nat)
      BY <2>5, <2>6, JoinFacts
    <2>8. /\ out = [path EXCEPT !.comps = b \o tail]
          /\ ~(Len([path EXCEPT !.comps = b \o tail].comps) > PathMax)
      BY <1>2, <2>1 DEF Replaced, v, b, tail
    <2>9. out \in Path /\ out.comps = b \o tail
      BY <2>7, <2>8 DEF Path
    <2>10. Len(b \o tail) \in Nat /\ ~(Len(b \o tail) > PathMax)
      <3>1. [path EXCEPT !.comps = b \o tail].comps = b \o tail
        BY <2>7 DEF Path
      <3> QED
        BY <2>7, <2>8, <3>1, SMTT(30)
    <2> QED
      BY <1>0, <2>9, <2>10, SMTT(30)
  <1> QED
    BY <1>1, <1>2

(* realpath translates the canonical name of a rewritten path back.  The   *)
(* visible path leads the same caller to that name again, where no source  *)
(* of the caller lies below another one.                                   *)
THEOREM RestoreThenRewrite ==
  ASSUME NEW Uids, NEW list \in Seq(MappingRule(Uids)), Unnested(list), Unambiguous(list),
         NEW uid, NEW path \in Path, Len(path.comps) <= PathMax,
         RestoreAbsolutePath(list, uid, path) # NoPath
  PROVE  RewriteAbsolutePath(list, uid, RestoreAbsolutePath(list, uid, path)) = path
  <1> DEFINE found == Holding(list, uid, path, "backing")
             better(i, j) ==
                \/ Len(list[i].backing) > Len(list[j].backing)
                \/ /\ Len(list[i].backing) = Len(list[j].backing)
                   /\ Before(list[i].visible, list[j].visible)
             selected == CHOOSE i \in found :
                            \A j \in found : better(i, j) \/ (~better(j, i) /\ i <= j)
             out == RestoreAbsolutePath(list, uid, path)
             v == list[selected].visible
             b == list[selected].backing
             tail == TailAfter(path.comps, b)
  <1>1. /\ found # {} /\ AllTailsSafe(list, found, path, "backing")
        /\ out = Replaced(path, b, v)
    BY DEF RestoreAbsolutePath
  <1>2. found \subseteq DOMAIN list
    BY DEF Holding
  <1>3. selected \in found
    <2> HIDE DEF found
    <2>1. \E i \in found : \A j \in found : better(i, j) \/ (~better(j, i) /\ i <= j)
      BY <1>1, <1>2, RestoreSelects
    <2> QED
      BY <2>1
  <1> HIDE DEF selected
  <1>4. /\ selected \in DOMAIN list /\ list[selected].caller_uid = uid
        /\ UnderRoot(path, list[selected].user_id)
        /\ MatchesLogicalPath(path.comps, b) /\ HasSafeTail(tail)
    BY <1>1, <1>3 DEF Holding, AllTailsSafe
  <1>5. v \in Seq(Nat) /\ b \in Seq(Nat) /\ path.comps \in Seq(Nat)
    <2>1. list[selected] \in MappingRule(Uids)
      BY <1>4, SMTT(30)
    <2> QED
      BY <2>1 DEF MappingRule, Path
  <1> HIDE DEF found, v, b, out
  <1>6. tail \in Seq(Nat) /\ b \o tail = path.comps
    BY <1>4, <1>5, TailFacts
  <1>7. /\ out = [path EXCEPT !.comps = v \o tail] /\ out # path
    BY <1>1 DEF Replaced, out
  <1> HIDE DEF tail
  <1>8. v \o tail \in Seq(Nat) /\ MatchesLogicalPath(v \o tail, v) /\ TailAfter(v \o tail, v) = tail
    BY <1>5, <1>6, ConcatFacts, JoinFacts
  <1>9. /\ out.comps = v \o tail /\ out.root = path.root /\ out.user = path.user
        /\ [out EXCEPT !.comps = b \o tail] = path
    BY <1>6, <1>7, <1>8 DEF Path
  <1> DEFINE again == Holding(list, uid, out, "visible")
             longer(i, j) == Len(list[i].visible) > Len(list[j].visible)
             chosen == CHOOSE i \in again :
                          \A j \in again : longer(i, j) \/ (~longer(j, i) /\ i <= j)
  <1>10. UnderRoot(out, list[selected].user_id)
    BY <1>4, <1>9 DEF UnderRoot
  <1>11. selected \in again
    BY <1>4, <1>8, <1>9, <1>10 DEF Holding, v
  <1>12. again \subseteq DOMAIN list
    BY DEF Holding
  <1>13. ASSUME NEW i \in again PROVE list[i].visible = v /\ list[i].backing = b
    <2>1. /\ i \in DOMAIN list /\ list[i].caller_uid = uid
          /\ UnderRoot(out, list[i].user_id) /\ MatchesLogicalPath(out.comps, list[i].visible)
      BY <1>13 DEF Holding
    <2>2. list[i].user_id = list[selected].user_id
      BY <1>10, <2>1 DEF UnderRoot
    <2>3. list[i].visible \in Seq(Nat)
      <3>1. list[i] \in MappingRule(Uids)
        BY <2>1, SMTT(30)
      <3> QED
        BY <3>1 DEF MappingRule
    <2>4. MatchesLogicalPath(v, list[i].visible) \/ MatchesLogicalPath(list[i].visible, v)
      BY <1>5, <1>8, <1>9, <2>1, <2>3, PrefixesNest
    <2>5. /\ ~(list[i].visible # v /\ MatchesLogicalPath(v, list[i].visible))
          /\ ~(v # list[i].visible /\ MatchesLogicalPath(list[i].visible, v))
      BY <1>4, <2>1, <2>2 DEF Unnested, v
    <2>6. list[i].visible = v
      BY <2>4, <2>5
    <2> QED
      BY <1>4, <2>1, <2>2, <2>6 DEF Unambiguous, v, b
  <1>14. chosen \in again
    <2> HIDE DEF again
    <2>1. \E i \in again : \A j \in again : longer(i, j) \/ (~longer(j, i) /\ i <= j)
      BY <1>11, <1>12, RewriteSelects
    <2> QED
      BY <2>1
  <1>15. AllTailsSafe(list, again, out, "visible")
    <2>1. \A i \in again : HasSafeTail(TailAfter(out.comps, list[i].visible))
      <3> HIDE DEF again
      <3> QED
        BY <1>4, <1>8, <1>9, <1>13
    <2> QED
      BY <2>1 DEF AllTailsSafe
  <1>16. RewriteAbsolutePath(list, uid, out)
           = Replaced(out, list[chosen].visible, list[chosen].backing)
    BY <1>11, <1>15 DEF RewriteAbsolutePath
  <1>17. Replaced(out, v, b) = path
    <2>1. TailAfter(out.comps, v) = tail
      BY <1>8, <1>9
    <2>2. ~(Len(path.comps) > PathMax)
      <3>1. Len(path.comps) \in Nat /\ PathMax \in Nat
        BY <1>5, MapperAssumption, SMTT(30)
      <3> QED
        BY <3>1, SMTT(30)
    <2> QED
      BY <1>7, <1>9, <2>1, <2>2 DEF Replaced
  <1>18. list[chosen].visible = v /\ list[chosen].backing = b
    <2> HIDE DEF chosen, again
    <2> QED
      BY <1>13, <1>14, SMTT(30)
  <1> HIDE DEF chosen
  <1> QED
    BY <1>16, <1>17, <1>18 DEF out

-----------------------------------------------------------------------------
(* The rules that Install has copied *)

Rule == [caller_uid : Apps \cup {Self, System}, user_id : Nat,
         visible : Seq(Nat), backing : Seq(Nat)]

(* The rules that Install has copied: of applications, and unambiguous. *)
RulesInv ==
    /\ rules \in Seq(Rule)
    /\ \A i \in DOMAIN rules : rules[i].caller_uid \in Apps \cup {Self}
    /\ \A i, j \in DOMAIN rules : ~Ambiguous(rules[i], rules[j])

-----------------------------------------------------------------------------
(* The rules and the caller *)

(* Install copies rules up to the first that is not valid or contradicts   *)
(* an earlier one.                                                         *)
LEMMA CopiedRules ==
  ASSUME NEW policy \in Policies
  PROVE  LET input == LoadProviderRules(policy)
             kept == {i \in 0..Len(input) : Copied(input, i)}
             last == CHOOSE i \in kept : \A j \in kept : j <= i
             copy == SubSeq(input, 1, last)
         IN  /\ copy \in Seq(Rule)
             /\ \A i \in DOMAIN copy : copy[i].caller_uid \in Apps \cup {Self}
             /\ \A i, j \in DOMAIN copy : ~Ambiguous(copy[i], copy[j])
  <1> DEFINE input == LoadProviderRules(policy)
             kept == {i \in 0..Len(input) : Copied(input, i)}
             last == CHOOSE i \in kept : \A j \in kept : j <= i
             copy == SubSeq(input, 1, last)
  <1>1. input \in Seq(Rule)
    BY PoliciesAssumption DEF Rule
  <1> HIDE DEF input
  <1>2. Len(input) \in Nat /\ 0 \in kept
    BY <1>1, SMTT(30) DEF Copied
  <1>3. kept \subseteq 0..Len(input) /\ kept # {}
    BY <1>2
  <1>4. last \in kept
    <2> HIDE DEF kept
    <2>1. \E m \in kept : \A j \in kept : j <= m
      BY <1>2, <1>3, GreatestNatural
    <2> QED
      BY <2>1
  <1>5. last \in 0..Len(input) /\ Copied(input, last)
    BY <1>4
  <1> HIDE DEF last
  <1>6. last \in Nat /\ \A i \in 1..last : input[i] \in Rule
    BY <1>1, <1>5, SMTT(30)
  <1>7. /\ copy \in Seq(Rule) /\ Len(copy) = last
        /\ \A i \in 1..last : copy[i] = input[i]
    <2>1. /\ copy \in Seq(Rule)
          /\ Len(copy) = IF 1 <= last THEN last - 1 + 1 ELSE 0
          /\ \A i \in 1..(last - 1 + 1) : copy[i] = input[1 + i - 1]
      BY <1>6, PartFacts, SMTT(30)
    <2> HIDE DEF copy
    <2> QED
      BY <1>6, <2>1, SMTT(30)
  <1> HIDE DEF copy
  <1>8. DOMAIN copy = 1..last
    BY <1>7, SMTT(30)
  <1>9. \A i \in 1..last : ValidRule(copy[i])
    BY <1>5, <1>7 DEF Copied
  <1>10. ASSUME NEW i \in 1..last, NEW j \in 1..last PROVE ~Ambiguous(copy[i], copy[j])
    <2>1. i \in Nat /\ j \in Nat
      BY <1>6, SMTT(30)
    <2>2. CASE i < j
      <3>1. i \in 1..(j - 1)
        BY <2>1, <2>2, SMTT(30)
      <3> QED
        BY <1>5, <1>7, <3>1 DEF Copied
    <2>3. CASE j < i
      <3>1. j \in 1..(i - 1)
        BY <2>1, <2>3, SMTT(30)
      <3>2. ~Ambiguous(copy[j], copy[i])
        BY <1>5, <1>7, <3>1 DEF Copied
      <3> QED
        BY <3>2 DEF Ambiguous
    <2>4. CASE i = j
      BY <2>4 DEF Ambiguous
    <2> QED
      BY <2>1, <2>2, <2>3, <2>4, SMTT(30)
  <1>11. \A i \in 1..last : copy[i].caller_uid \in Apps \cup {Self}
    BY <1>9 DEF ValidRule
  <1>12. /\ copy \in Seq(Rule)
         /\ \A i \in DOMAIN copy : copy[i].caller_uid \in Apps \cup {Self}
         /\ \A i, j \in DOMAIN copy : ~Ambiguous(copy[i], copy[j])
    BY <1>7, <1>8, <1>10, <1>11
  <1> QED
    BY <1>12 DEF copy, last, input

(* The rules in use are valid and do not contradict each other. *)
LEMMA RulesKept == ASSUME RulesInv, [Next]_vars PROVE RulesInv'
  <1>1. CASE rules' = rules
    BY <1>1 DEF RulesInv
  <1>2. CASE rules' = << >>
    BY <1>2, SMTT(30) DEF RulesInv
  <1>3. CASE InstallRules
    <2> DEFINE input(policy) == LoadProviderRules(policy)
               kept(policy) == {i \in 0..Len(input(policy)) : Copied(input(policy), i)}
               last(policy) == CHOOSE i \in kept(policy) : \A j \in kept(policy) : j <= i
    <2>1. \/ rules' = rules
          \/ \E policy \in Policies : rules' = SubSeq(input(policy), 1, last(policy))
      BY <1>3 DEF InstallRules
    <2>2. ASSUME NEW policy \in Policies, rules' = SubSeq(input(policy), 1, last(policy))
          PROVE  RulesInv'
      BY <2>2, CopiedRules DEF RulesInv
    <2> QED
      BY <1>1, <2>1, <2>2
  <1>4. CASE RegisterHooks
    <2>1. rules' = rules \/ rules' = << >>
      BY <1>4 DEF RegisterHooks
    <2> QED
      BY <1>1, <1>2, <2>1
  <1>5. ASSUME NEW t \in Threads, ThreadStep(t) PROVE rules' = rules
    BY <1>5, ThreadSteps DEF installVars
  <1>6. InstallRules \/ RegisterHooks \/ rules' = rules
    BY <1>5 DEF Next, Install, InstallBinderIdentityHooks, RegisterMappedHooks, PltHookPatch,
       Specialize, HookedDlopen, MaybeInstallFuseHooks, installVars, vars
  <1> QED
    BY <1>1, <1>3, <1>4, <1>6

-----------------------------------------------------------------------------
(* Whose rules a hook applies. *)

(* No rule is for an unknown caller. *)
LEMMA NoCallerNoRule ==
  ASSUME RulesInv, NEW path PROVE RewriteAbsolutePath(rules, NoUid, path) = NoPath
  <1>1. NoUid \notin Apps \cup {Self}
    BY RedirectAssumption DEF NoUid, Self
  <1>2. Holding(rules, NoUid, path, "visible") = {}
    BY <1>1 DEF Holding, RulesInv
  <1> QED
    BY <1>2 DEF RewriteAbsolutePath

(* The quick test for a source never hides a rule. *)
LEMMA ViewMatches ==
  ASSUME NEW uid, NEW path, RewriteAbsolutePath(rules, uid, path) # NoPath
  PROVE  MatchesVisiblePath(rules, path)
  <1> DEFINE found == Holding(rules, uid, path, "visible")
  <1>1. found # {} /\ AllTailsSafe(rules, found, path, "visible")
    BY DEF RewriteAbsolutePath
  <1>2. PICK i \in found : HasSafeTail(TailAfter(path.comps, rules[i]["visible"]))
    BY <1>1 DEF AllTailsSafe
  <1>3. /\ i \in DOMAIN rules /\ UnderRoot(path, rules[i].user_id)
        /\ MatchesLogicalPath(path.comps, rules[i]["visible"])
    BY <1>2 DEF Holding
  <1> QED
    BY <1>2, <1>3 DEF MatchesVisiblePath

(* What the hook passes on, for one path. *)
LEMMA RewritesForCaller ==
  ASSUME ThreadTypes, IdentityInv, RulesInv, NEW t \in Threads, Ready(t),
         NEW state \in GetThreadState(t), NEW path
  PROVE  LET final == RewriteAtPath(t, state, path)
             view == RewriteAbsolutePath(rules, Origin(t), path)
         IN  /\ final \in {path, view}
             /\ ~lost[t] /\ (role[t] = "fuse" => serving[t].asked = "hooked")
                  /\ view # NoPath => final = view
  <1> DEFINE uid == EffectiveCallerUid(state, RawCallingUid(t))
             final == RewriteAtPath(t, state, path)
             view == RewriteAbsolutePath(rules, Origin(t), path)
  <1>1. /\ uid \in {NoUid, Origin(t)}
        /\ ~lost[t] /\ (role[t] = "fuse" => serving[t].asked = "hooked") => uid = Origin(t)
    BY EffectiveCaller
  <1>2. /\ uid = NoUid => RewriteAbsolutePath(rules, uid, path) = NoPath
        /\ view # NoPath => MatchesVisiblePath(rules, path)
    BY NoCallerNoRule, ViewMatches
  <1> HIDE DEF uid
  <1>3. final = IF \/ ~MatchesVisiblePath(rules, path)
                   \/ RewriteAbsolutePath(rules, uid, path) = NoPath
                THEN path ELSE RewriteAbsolutePath(rules, uid, path)
    BY DEF RewriteAtPath, uid
  <1> QED
    BY <1>1, <1>2, <1>3

(* Every path that a hook passes on fits its buffer. *)
LEMMA PathTypes ==
  ASSUME NEW args \in Seq(PathArgs), NEW i \in DOMAIN args
  PROVE  Paths(args)[i] \in Path /\ Len(Paths(args)[i].comps) <= PathMax
  <1> DEFINE arg == args[i]
  <1>1. arg \in [dir : Path, comps : Seq(Nat)] /\ Paths(args)[i] = ResolveAtPath(arg)
    BY PathsAssumption, SMTT(30) DEF Paths
  <1> HIDE DEF arg
  <1>2. arg.dir \in Path /\ arg.comps \in Seq(Nat) /\ arg.dir.comps \in Seq(Nat)
    BY <1>1 DEF Path
  <1>3. PathMax \in Nat /\ Len(<< >>) = 0
    BY MapperAssumption
  <1>4. CASE ResolveAtPath(arg) = NoPath
    <2>1. NoPath \in Path
      BY SMTT(30) DEF NoPath, Path
    <2>2. NoPath.comps = << >>
      BY DEF NoPath
    <2> QED
      BY <1>1, <1>3, <1>4, <2>1, <2>2, SMTT(30)
  <1>5. CASE ResolveAtPath(arg) # NoPath
    <2> DEFINE c == arg.dir.comps \o arg.comps
    <2>1. /\ ResolveAtPath(arg) = [arg.dir EXCEPT !.comps = c]
          /\ ~(Len(arg.dir.comps) + Len(arg.comps) > PathMax)
      BY <1>5 DEF ResolveAtPath
    <2>2. /\ c \in Seq(Nat) /\ Len(c) \in Nat
          /\ Len(c) = Len(arg.dir.comps) + Len(arg.comps)
      BY <1>2, JoinFacts
    <2> HIDE DEF c
    <2>3. [arg.dir EXCEPT !.comps = c] \in Path /\ [arg.dir EXCEPT !.comps = c].comps = c
      BY <1>2, <2>2 DEF Path
    <2>5. ~(Len(c) > PathMax)
      BY <2>1, <2>2
    <2> QED
      BY <1>1, <1>3, <2>1, <2>2, <2>3, <2>5, SMTT(30)
  <1> QED
    BY <1>4, <1>5

(* So does what RewriteAtPath makes of it. *)
LEMMA RewriteAtTypes ==
  ASSUME RulesInv, NEW t, NEW state, NEW path \in Path, Len(path.comps) <= PathMax
  PROVE  RewriteAtPath(t, state, path) \in Path /\ Len(RewriteAtPath(t, state, path).comps) <= PathMax
  <1> DEFINE uid == EffectiveCallerUid(state, RawCallingUid(t))
             out == RewriteAbsolutePath(rules, uid, path)
  <1>1. rules \in Seq(MappingRule(Apps \cup {Self, System}))
    BY DEF RulesInv, Rule, MappingRule
  <1> HIDE DEF uid
  <1>2. out \in Path /\ Len(out.comps) <= PathMax
    BY <1>1, RewriteTypes
  <1> HIDE DEF out
  <1>3. RewriteAtPath(t, state, path) \in {path, out}
    BY DEF RewriteAtPath, out, uid
  <1> QED
    BY <1>2, <1>3

(* What realpath returns when it returns a name for a rewritten path. *)
LEMMA RealpathVisible ==
  ASSUME ThreadTypes, IdentityInv, RulesInv, FlatRules, NEW t \in Threads, Ready(t),
         NEW state \in GetThreadState(t), NEW args \in Seq(PathArgs) \ {<< >>},
         NEW links \in Canonical \cup {NoPath}, NEW finals, finals = Rewritten(t, state, args),
         finals # Paths(args),
         NEW canonical, canonical = IF links = NoPath THEN finals[1] ELSE links,
         NEW path, path = RestoreAbsolutePath(rules,
                            EffectiveCallerUid(ctx[t], RawCallingUid(t)), canonical),
         path # NoPath
  PROVE  RewriteAbsolutePath(rules, Origin(t), path) = canonical
  <1> DEFINE uid == EffectiveCallerUid(state, RawCallingUid(t))
             final == finals[1]
  <1>1. uid = Origin(t)
    <2>1. uid \in {NoUid, Origin(t)}
      BY EffectiveCaller
    <2>2. SUFFICES ASSUME uid = NoUid PROVE FALSE
      BY <2>1
    <2>3. \A p : RewriteAtPath(t, state, p) = p
      BY <2>2, NoCallerNoRule DEF RewriteAtPath
    <2> QED
      BY <2>3 DEF Rewritten, Paths
  <1>2. EffectiveCallerUid(ctx[t], RawCallingUid(t)) = uid
    BY GetFields DEF EffectiveCallerUid
  <1>3. canonical \in Path /\ Len(canonical.comps) <= PathMax
    <2>1. 1 \in DOMAIN args
      BY SMTT(30)
    <2>2. final = RewriteAtPath(t, state, Paths(args)[1])
      BY <2>1 DEF Rewritten
    <2>3. Paths(args)[1] \in Path /\ Len(Paths(args)[1].comps) <= PathMax
      BY <2>1, PathTypes
    <2>4. final \in Path /\ Len(final.comps) <= PathMax
      <3> HIDE DEF final
      <3> QED
        BY <2>2, <2>3, RewriteAtTypes
    <2>5. links # NoPath => links \in Path /\ Len(links.comps) <= PathMax
      BY PathsAssumption
    <2> QED
      BY <2>4, <2>5
  <1>4. path = RestoreAbsolutePath(rules, Origin(t), canonical)
    BY <1>1, <1>2
  <1> HIDE DEF uid, final
  <1>5. rules \in Seq(MappingRule(Apps \cup {Self, System}))
    BY DEF RulesInv, Rule, MappingRule
  <1>6. Unnested(rules) /\ Unambiguous(rules)
    BY DEF FlatRules, Unnested, RulesInv, Ambiguous, Unambiguous
  <1> QED
    BY <1>3, <1>4, <1>5, <1>6, RestoreThenRewrite, SMTT(30)

-----------------------------------------------------------------------------
(* The properties of a call, as CallerNeverGuessed, CallerSeesView and     *)
(* RealpathIsVisible state them for every thread.                          *)

NeverGuessed(t) ==
    InCall(t) =>
        \A i \in DOMAIN call[t].args :
            call[t].finals[i] \in
                {call[t].args[i], RewriteAbsolutePath(rules, Origin(t), call[t].args[i])}

SeesView(t) ==
    /\ InCall(t) /\ call[t].outer /\ ~lost[t]
    /\ role[t] = "fuse" => serving[t].asked = "hooked"
    => \A i \in DOMAIN call[t].args :
        LET view == RewriteAbsolutePath(rules, Origin(t), call[t].args[i])
        IN  view # NoPath => call[t].finals[i] = view

Visible(t) ==
    /\ IsRewritten(t) /\ call[t].kind = "realpath" /\ call[t].result.path # NoPath
    /\ FlatRules
    => RewriteAbsolutePath(rules, Origin(t), call[t].result.path) = call[t].result.canonical

CallCorrect(t) == NeverGuessed(t) /\ SeesView(t) /\ Visible(t)

CallerInv == \A t \in Threads : CallCorrect(t)

(* The caller of a thread and its view change only outside of a call. *)
LEMMA CallKept ==
  ASSUME NEW t \in Threads, CallCorrect(t), role' = role, rules' = rules,
         frames'[t] = frames[t], serving'[t] = serving[t], lost'[t] = lost[t],
         InCall(t)' => /\ InCall(t) /\ call'[t].args = call[t].args
                       /\ call'[t].finals = call[t].finals /\ call'[t].outer = call[t].outer
                       /\ call'[t].kind = call[t].kind /\ call'[t].result = call[t].result
  PROVE  CallCorrect(t)'
  <1>1. Origin(t)' = Origin(t)
    BY DEF Origin
  <1>2. NeverGuessed(t)'
    BY <1>1 DEF CallCorrect, NeverGuessed
  <1>3. SeesView(t)'
    BY <1>1 DEF CallCorrect, SeesView
  <1>4. Visible(t)'
    BY <1>1 DEF CallCorrect, Visible, IsRewritten, FlatRules
  <1> QED
    BY <1>2, <1>3, <1>4 DEF CallCorrect

(* A hook that passes its paths on. *)
LEMMA PassesOn ==
  ASSUME NEW t, call'[t].finals = call'[t].args, ~call'[t].outer
  PROVE  CallCorrect(t)'
  <1>1. NeverGuessed(t)'
    BY DEF NeverGuessed
  <1>2. SeesView(t)'
    BY DEF SeesView
  <1>3. Visible(t)'
    BY DEF Visible, IsRewritten
  <1> QED
    BY <1>1, <1>2, <1>3 DEF CallCorrect

(* The rules change only while the hooks are passive. *)
LEMMA CallerInstall ==
  ASSUME InstallInv, GuardInv, CallerInv, Install \/ UNCHANGED vars
  PROVE  CallerInv'
  <1>1. UNCHANGED <<role, frames, serving, lost, call>> /\ (enabled => rules' = rules)
    BY InstallSteps DEF vars, installVars, threadVars
  <1>2. ASSUME NEW t \in Threads PROVE CallCorrect(t)'
    <2>1. CASE rules' = rules
      BY <1>1, <2>1, CallKept DEF CallerInv, InCall
    <2>2. CASE ~enabled
      <3>1. InCall(t) => ~call[t].outer /\ call[t].finals = call[t].args
        BY <2>2 DEF GuardInv, Guarded
      <3> QED
        BY <1>1, <3>1 DEF CallCorrect, NeverGuessed, SeesView, Visible, IsRewritten, InCall
    <2> QED
      BY <1>1, <2>1, <2>2
  <1> QED
    BY <1>2 DEF CallerInv

(* A hook that rewrites its paths. *)
LEMMA CallerEnters ==
  ASSUME ThreadTypes, IdentityInv, RulesInv, NEW t \in Threads, Ready(t),
         role' = role, rules' = rules, Origin(t)' = Origin(t), serving'[t] = serving[t],
         ~lost'[t] => ~lost[t],
         NEW state \in GetThreadState(t), NEW kind, NEW args \in Seq(PathArgs) \ {<< >>},
         NEW links \in Canonical \cup {NoPath},
         NEW finals, finals = Rewritten(t, state, args),
         call'[t].args = Paths(args), call'[t].finals = finals, call'[t].kind = kind,
         kind = "realpath" =>
            call'[t].result = Resolved(t, finals[1], finals # Paths(args), links)
  PROVE  CallCorrect(t)'
  <1> DEFINE view(path) == RewriteAbsolutePath(rules, Origin(t), path)
  <1>1. ASSUME NEW i \in DOMAIN Paths(args)
        PROVE  finals[i] = RewriteAtPath(t, state, Paths(args)[i])
    BY DEF Rewritten, Paths
  <1>2. NeverGuessed(t)'
    <2>1. ASSUME NEW i \in DOMAIN Paths(args)
          PROVE  finals[i] \in {Paths(args)[i], view(Paths(args)[i])}
      BY <1>1, RewritesForCaller
    <2> QED
      BY <2>1 DEF NeverGuessed
  <1>3. SeesView(t)'
    <2>1. ASSUME ~lost[t], role[t] = "fuse" => serving[t].asked = "hooked",
                 NEW i \in DOMAIN Paths(args), view(Paths(args)[i]) # NoPath
          PROVE  finals[i] = view(Paths(args)[i])
      BY <1>1, <2>1, RewritesForCaller
    <2> QED
      BY <2>1 DEF SeesView
  <1>4. Visible(t)'
    <2>1. ASSUME kind = "realpath", FlatRules, finals # Paths(args),
                 call'[t].result.path # NoPath
          PROVE  view(call'[t].result.path) = call'[t].result.canonical
      <3> DEFINE canonical == IF links = NoPath THEN finals[1] ELSE links
                 path == RestoreAbsolutePath(rules,
                           EffectiveCallerUid(ctx[t], RawCallingUid(t)), canonical)
      <3>1. call'[t].result = [canonical |-> canonical, path |-> path]
        BY <2>1 DEF Resolved
      <3>2. /\ canonical = IF links = NoPath THEN finals[1] ELSE links
            /\ path = RestoreAbsolutePath(rules,
                         EffectiveCallerUid(ctx[t], RawCallingUid(t)), canonical)
        OBVIOUS
      <3> HIDE DEF canonical, path
      <3>3. call'[t].result.canonical = canonical /\ call'[t].result.path = path
        BY <3>1, SMTT(30)
      <3>4. RewriteAbsolutePath(rules, Origin(t), path) = canonical
        BY <2>1, <3>2, <3>3, RealpathVisible, SMTT(30)
      <3> QED
        BY <3>3, <3>4
    <2>2. FlatRules' = FlatRules
      BY DEF FlatRules
    <2> QED
      BY <2>1, <2>2 DEF Visible, IsRewritten
  <1> QED
    BY <1>2, <1>3, <1>4 DEF CallCorrect

(* A step of a thread: a hook takes the rules of the caller it serves, and *)
(* the caller stays until the hook returns.                                *)
LEMMA CallerThread ==
  ASSUME ThreadTypes, IdentityInv, RulesInv, CallerInv, NEW t \in Threads, ThreadStep(t)
  PROVE  CallerInv'
  <1>0. role' = role /\ rules' = rules
    BY ThreadSteps DEF installVars
  <1>1. ASSUME NEW u \in Threads, u # t PROVE CallCorrect(u)'
    <2>1. UNCHANGED <<frames[u], lost[u], call[u], serving[u]>>
      BY <1>1, OtherThreads
    <2> QED
      BY <1>0, <2>1, CallKept DEF CallerInv, InCall
  <1>2. CallCorrect(t)'
    <2>1. CASE IdentityStep(t)
      BY <2>1, IdentitySteps DEF CallCorrect, NeverGuessed, SeesView, Visible, IsRewritten, InCall
    <2>2. CASE CallReturns(t)
      <3>1. call'[t] = NoCall
        BY <2>2 DEF CallReturns, ThreadTypes
      <3> QED
        BY <3>1 DEF CallCorrect, NeverGuessed, SeesView, Visible, IsRewritten, InCall
    <2>3. CASE InnerCall(t)
      <3>1. call[t] # NoCall /\ UNCHANGED <<frames, lost, serving>>
        BY <2>3 DEF InnerCall
      <3>2. PICK path : call' = [call EXCEPT ![t].inner = path]
        BY <2>3, Zenon DEF InnerCall
      <3>3. CallRecord(call[t]) /\ DOMAIN call = Threads
        BY <3>1 DEF ThreadTypes, InCall
      <3>4. call'[t] = [call[t] EXCEPT !.inner = path]
        BY <3>2, <3>3
      <3>5. /\ call'[t].args = call[t].args /\ call'[t].finals = call[t].finals
            /\ call'[t].outer = call[t].outer /\ call'[t].kind = call[t].kind
            /\ call'[t].result = call[t].result
        BY <3>3, <3>4 DEF CallRecord
      <3> QED
        BY <1>0, <3>1, <3>5, CallKept DEF CallerInv, InCall
    <2>4. CASE FileOperation(t)
      <3>1. Ready(t) /\ UNCHANGED <<frames, serving>>
        BY <2>4, FileOperations
      <3>2. PICK kind \in {"path", "rename", "realpath"}, args \in Seq(PathArgs) \ {<< >>},
                 links \in Canonical \cup {NoPath} : Enter(t, kind, args, links)
        BY <2>4, FileOperations
      <3>3. Origin(t)' = Origin(t) /\ DOMAIN call = Threads /\ lost \in [Threads -> BOOLEAN]
        BY <1>0, <3>1 DEF Origin, ThreadTypes
      <3>4. CASE EntersPassive(t, kind, args, links)
        <4> DEFINE outer == FALSE
                   paths == Paths(args)
        <4>1. call'[t] = Started(t, kind, args, links, outer, paths)
          BY <3>3, <3>4 DEF EntersPassive
        <4> HIDE DEF outer, paths
        <4>2. /\ call'[t].outer = outer
              /\ call'[t].finals = paths /\ call'[t].args = Paths(args)
          BY <4>1, StartedFields, SMTT(30)
        <4>3. ~call'[t].outer /\ call'[t].finals = call'[t].args
          BY <4>2 DEF outer, paths
        <4> QED
          BY <4>3, PassesOn
      <3>5. ASSUME NEW state \in GetThreadState(t), EntersWith(t, state, kind, args, links)
            PROVE  CallCorrect(t)'
        <4> DEFINE finals == IF HookGuard(state) THEN Rewritten(t, state, args)
                             ELSE Paths(args)
                   outer == HookGuard(state)
        <4>1. /\ call'[t] = Started(t, kind, args, links, outer, finals)
              /\ lost'[t] = (lost[t] \/ state = NoState)
          BY <3>3, <3>5 DEF EntersWith
        <4>2. /\ HookGuard(state) => finals = Rewritten(t, state, args)
              /\ ~HookGuard(state) => finals = Paths(args)
          OBVIOUS
        <4> HIDE DEF finals, outer
        <4>3. /\ call'[t].outer = outer /\ call'[t].args = Paths(args)
              /\ call'[t].finals = finals /\ call'[t].kind = kind
              /\ kind = "realpath" =>
                    call'[t].result = Resolved(t, finals[1], finals # Paths(args), links)
          BY <4>1, StartedFields, SMTT(30)
        <4>4. CASE ~HookGuard(state)
          <5>1. call'[t].finals = call'[t].args /\ ~call'[t].outer
            BY <4>2, <4>3, <4>4 DEF outer
          <5> QED
            BY <5>1, PassesOn
        <4>5. CASE HookGuard(state)
          <5>1. finals = Rewritten(t, state, args) /\ (~lost'[t] => ~lost[t])
            BY <4>1, <4>2, <4>5
          <5>2. serving'[t] = serving[t]
            BY <3>1
          <5> QED
            BY <1>0, <3>1, <3>3, <4>3, <5>1, <5>2, CallerEnters, ZenonT(40)
        <4> QED
          BY <4>4, <4>5
      <3> QED
        BY <3>2, <3>4, <3>5, Entering
    <2> QED
      BY <2>1, <2>2, <2>3, <2>4, StepCases
  <1> QED
    BY <1>1, <1>2 DEF CallerInv

(* The inductive invariant. *)
ProviderInv ==
    InstallInv /\ ThreadTypes /\ GuardInv /\ IdentityInv /\ RulesInv /\ CallerInv

(* It holds in every reachable state. *)
THEOREM CallerInvariance == WellBehaved /\ Spec => []ProviderInv
  <1>1. Init => ProviderInv
    <2> SUFFICES ASSUME Init PROVE ProviderInv
      OBVIOUS
    <2>1. RulesInv
      BY SMTT(30) DEF Init, RulesInv
    <2>2. GuardInv /\ CallerInv
      BY DEF Init, GuardInv, Guarded, CallerInv, CallCorrect, NeverGuessed, SeesView, Visible,
             IsRewritten, InCall
    <2> QED
      BY <2>1, <2>2, InstallInvInit, ThreadTypesInit, IdentityInit DEF ProviderInv
  <1>2. WellBehaved /\ ProviderInv /\ [Next]_vars => ProviderInv'
    <2> SUFFICES ASSUME WellBehaved, ProviderInv, [Next]_vars PROVE ProviderInv'
      OBVIOUS
    <2>1. InstallInv' /\ RulesInv'
      BY InstallInvKept, RulesKept DEF ProviderInv
    <2>2. CASE Install \/ UNCHANGED vars
      BY <2>1, <2>2, ThreadTypesInstall, GuardInstall, IdentityInstall, CallerInstall
         DEF ProviderInv
    <2>3. ASSUME NEW t \in Threads, ThreadStep(t) PROVE ProviderInv'
      BY <2>1, <2>3, ThreadTypesStep, GuardStep, IdentityThread, CallerThread
         DEF ProviderInv
    <2> QED
      BY <2>2, <2>3 DEF Next
  <1>3. WellBehaved => []WellBehaved
    BY DEF WellBehaved
  <1> QED
    BY <1>1, <1>2, <1>3, PTL DEF Spec

(* A hook never takes one application for another (EffectiveCallerUid): a  *)
(* path goes through unchanged or by the rules of the application whose    *)
(* request is served, however identities were cleared and requests         *)
(* answered.                                                               *)
THEOREM CallerKnown == WellBehaved /\ Spec => []CallerNeverGuessed
  <1>1. ProviderInv => CallerNeverGuessed
    BY DEF ProviderInv, CallerInv, CallCorrect, NeverGuessed, CallerNeverGuessed
  <1> QED
    BY <1>1, CallerInvariance, PTL

(* A thread that did not lose its state rewrites every path of its caller  *)
(* that has a rule, also with the identity cleared.                        *)
THEOREM ViewIsComplete == WellBehaved /\ Spec => []CallerSeesView
  <1>1. ProviderInv => CallerSeesView
    BY DEF ProviderInv, CallerInv, CallCorrect, SeesView, CallerSeesView
  <1> QED
    BY <1>1, CallerInvariance, PTL

(* What HookedRealpath returns for a rewritten path is a name by which the *)
(* same caller reaches the same file, if no source of a caller lies below  *)
(* another one.                                                            *)
THEOREM RealpathReturnsView == WellBehaved /\ Spec => []RealpathIsVisible
  <1>1. ProviderInv => RealpathIsVisible
    BY DEF ProviderInv, CallerInv, CallCorrect, Visible, RealpathIsVisible
  <1> QED
    BY <1>1, CallerInvariance, PTL
=============================================================================
