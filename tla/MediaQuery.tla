----------------------------- MODULE MediaQuery -----------------------------
(***************************************************************************)
(* The client side of deny rules for MediaStore: the hook on BinderProxy   *)
(* (zygisk/src/media_query_hook.cpp), the filter it adds to queries        *)
(* (zygisk/src/media_query_filter.cpp) and its installation in             *)
(* postAppSpecialize (zygisk/src/module_entry.cpp).                        *)
(*                                                                         *)
(* Paths are sequences of characters because LIKE patterns are; Root       *)
(* stands for "/storage/emulated/<user>".  A selection is a text whose     *)
(* tokens are comparisons of a column, AND, OR and parentheses, as the     *)
(* hook puts texts together without reading them; its question marks take  *)
(* the arguments in order.                                                 *)
(***************************************************************************)
EXTENDS Naturals, Sequences, SequencesExt

CONSTANTS Threads,
          Plans,         \* sequences of deny paths, below the root
          Queries,       \* what the app writes into a parcel, by thread
          Binders,       \* remote objects the app may call
          Providers,     \* those of them that are content providers
          Table,         \* rows of the media database: [data, mime]
          MaxDenyPaths,  \* kMaxDenyPaths
          MaxSelection,  \* kMaxSelectionSize, in tokens
          Stride         \* room for one argument, in characters

ASSUME MediaAssumption ==
    /\ Providers \subseteq Binders
    /\ {MaxDenyPaths, MaxSelection, Stride} \subseteq Nat

Null == <<"null">>
Root == <<"r">>
NoBinder == "none"
NoFilter == [selection |-> << >>, args |-> << >>]
NoCall == [pc |-> "idle"]

VARIABLES
    plan,      \* deny paths of media_plan_
    phase,     \* how far Install is
    filter,    \* g_cached_deny_filter and g_cached_deny_arguments
    cached,    \* g_cached_descriptor_binder
    call       \* the transaction a thread is in

vars == <<plan, phase, filter, cached, call>>

-----------------------------------------------------------------------------
(* The filter *)

(* Mutant: wildcards in a path are not escaped. *)
CopyPrefix(path) == path \o <<"/", "%">>

CopyLikePrefix(path) ==
    LET escaped(c) == IF c \in {"%", "_", "\\"} THEN <<"\\", c>> ELSE <<c>>
    IN  FlattenSeq([i \in DOMAIN path |-> escaped(path[i])]) \o <<"/", "%">>

(* Both arguments of a path fit their slots. *)
Fits(path) == Len(path) < Stride /\ Len(CopyLikePrefix(path)) < Stride

(* kClause. *)
Clause == <<"(", "data IS NULL", "OR", "(", "data != ?", "AND", "data NOT LIKE ?", ")", ")">>

BuildDenySelection(paths) ==
    [selection |-> FlattenSeq([i \in DOMAIN paths |->
                      IF i = 1 THEN Clause ELSE <<"AND">> \o Clause]),
     args |-> FlattenSeq([i \in DOMAIN paths |-> <<paths[i], CopyLikePrefix(paths[i])>>])]

CanBuild(paths) ==
    /\ Len(BuildDenySelection(paths).selection) < MaxSelection
    /\ \A i \in DOMAIN paths : Last(paths[i]) # "/" /\ Fits(paths[i])

-----------------------------------------------------------------------------
(* Installation, after a mount that was committed *)

DenyPaths == [i \in DOMAIN plan |-> Root \o <<"/">> \o plan[i]]

(* postAppSpecialize and the checks of Install.  A module that does not    *)
(* install the hook is unloaded.                                           *)
Install ==
    /\ phase = "start"
    /\ phase' = IF Len(DenyPaths) \in 1..MaxDenyPaths THEN "jni" ELSE "off"
    /\ UNCHANGED <<plan, filter, cached, call>>

(* Every class, method and constant is found, or the hook is given up. *)
InitializeJni ==
    /\ phase = "jni"
    /\ phase' \in {"filter", "off"}
    /\ UNCHANGED <<plan, filter, cached, call>>

(* Java may also run out of memory for the filter. *)
InitializeDenyFilter ==
    /\ phase = "filter"
    /\ \/ /\ CanBuild(DenyPaths)
          /\ phase' = "ready"
          /\ filter' = BuildDenySelection(DenyPaths)
       \/ phase' = "off" /\ UNCHANGED filter
    /\ UNCHANGED <<plan, cached, call>>

HookTransactNative ==
    /\ phase = "ready"
    /\ phase' \in {"hooked", "off"}
    /\ UNCHANGED <<plan, filter, cached, call>>

StoreOriginal ==
    /\ phase = "hooked"
    /\ phase' = "active"
    /\ UNCHANGED <<plan, filter, cached, call>>

-----------------------------------------------------------------------------
(* TransactHook *)

(* The call is passed on with query q; `failed': Java threw on the way. *)
Passed(t, q, failed) ==
    call' = [call EXCEPT ![t] = [@ EXCEPT !.pc = "sent", !.sent = q, !.failed = failed]]

(* A thread calls a remote object; `hooked': through a hook that is ready. *)
Transact(t) ==
    /\ call[t] = NoCall
    /\ \E binder \in Binders, q \in Queries[t] :
        call' = [call EXCEPT ![t] =
            [pc |-> IF phase \in {"hooked", "active"} THEN "hook" ELSE "sent",
             hooked |-> phase = "active", binder |-> binder, query |-> q, sent |-> q,
             failed |-> FALSE]]
    /\ UNCHANGED <<plan, phase, filter, cached>>

(* The hook is in place before the original function is known. *)
NoOriginal(t) ==
    /\ call[t].pc = "hook" /\ phase = "hooked"
    /\ call' = [call EXCEPT ![t].pc = "no original"]
    /\ UNCHANGED <<plan, phase, filter, cached>>

(* Looks again, and answers with false if it is still unknown. *)
CallOriginal(t) ==
    /\ call[t].pc = "no original"
    /\ IF phase = "hooked" THEN call' = [call EXCEPT ![t].pc = "dropped"]
       ELSE Passed(t, call[t].query, FALSE)
    /\ UNCHANGED <<plan, phase, filter, cached>>

OtherCode(t) ==
    /\ call[t].pc = "hook" /\ phase = "active" /\ call[t].query.code # "query"
    /\ Passed(t, call[t].query, FALSE)
    /\ UNCHANGED <<plan, phase, filter, cached>>

(* IsProviderBinder, up to its compare-and-swap. *)
IsProviderBinder(t) ==
    /\ call[t].pc = "hook" /\ phase = "active" /\ call[t].query.code = "query"
    /\ IF call[t].binder = cached
       THEN call' = [call EXCEPT ![t].pc = "parse"]
       ELSE \E threw \in BOOLEAN :
                IF call[t].binder \in Providers /\ ~threw
                THEN call' = [call EXCEPT ![t].pc = "cache"]
                ELSE Passed(t, call[t].query, threw)
    /\ UNCHANGED <<plan, phase, filter, cached>>

CacheBinder(t) ==
    /\ call[t].pc = "cache"
    /\ cached' \in IF cached = NoBinder THEN {call[t].binder, NoBinder} ELSE {cached}
    /\ call' = [call EXCEPT ![t].pc = "parse"]
    /\ UNCHANGED <<plan, phase, filter>>

IsMediaUri(q) == q.authority = "media"

(* Mutant: the filter's arguments come first. *)
MergeArgumentsInFront(original) == filter.args \o original

MergeArguments(original) == original \o filter.args

(* Mutant: the texts are joined as they are, and AND binds before OR. *)
JoinedSelection(original) ==
    IF original = << >> THEN filter.selection
    ELSE original \o <<"AND">> \o filter.selection

MergedSelection(original) ==
    IF original = << >> THEN filter.selection
    ELSE <<"(">> \o original \o <<")", "AND", "(">> \o filter.selection \o <<")">>

(* What is sent when the bundle could not be filled: the parcel as it was, *)
(* since the bundle is a copy.                                             *)
Fallback(q) == q

ApplyFilterToBundle(q) ==
    [q EXCEPT !.selection = MergedSelection(@), !.args = MergeArguments(@)]

(* The parcel is read, and written again with the filter, unless anything  *)
(* is not as expected.                                                     *)
RewriteQuery(t) ==
    /\ call[t].pc = "parse"
    /\ LET q == call[t].query
       IN  \E threw \in BOOLEAN :
            Passed(t, IF \/ threw \/ ~IsMediaUri(q) \/ q.extra
                         \/ Len(MergedSelection(q.selection)) >= MaxSelection
                      THEN Fallback(q) ELSE ApplyFilterToBundle(q),
                   threw)
    /\ UNCHANGED <<plan, phase, filter, cached>>

Return(t) ==
    /\ call[t].pc \in {"sent", "dropped"}
    /\ call' = [call EXCEPT ![t] = NoCall]
    /\ UNCHANGED <<plan, phase, filter, cached>>

-----------------------------------------------------------------------------
Init ==
    /\ plan \in Plans
    /\ phase = "start" /\ filter = NoFilter /\ cached = NoBinder
    /\ call = [t \in Threads |-> NoCall]

Next ==
    \/ Install \/ InitializeJni \/ InitializeDenyFilter \/ HookTransactNative \/ StoreOriginal
    \/ \E t \in Threads :
        \/ Transact(t) \/ NoOriginal(t) \/ CallOriginal(t) \/ OtherCode(t) \/ IsProviderBinder(t)
        \/ CacheBinder(t) \/ RewriteQuery(t) \/ Return(t)

Spec == Init /\ [][Next]_vars

-----------------------------------------------------------------------------
(* What the database makes of a query: AND binds before OR, a comparison   *)
(* with NULL does not hold, LIKE ignores case, an argument that is missing *)
(* is NULL, one too many is an error.                                      *)

Lower(c) == IF c = "A" THEN "a" ELSE c

RECURSIVE Like(_, _)
Like(text, pattern) ==
    IF pattern = << >> THEN text = << >>
    ELSE CASE Head(pattern) = "%" ->
                  \E i \in 0..Len(text) : Like(SubSeq(text, i + 1, Len(text)), Tail(pattern))
           [] Head(pattern) = "_" -> text # << >> /\ Like(Tail(text), Tail(pattern))
           [] Head(pattern) = "\\" ->
                  /\ text # << >> /\ Len(pattern) > 1 /\ Head(text) = pattern[2]
                  /\ Like(Tail(text), SubSeq(pattern, 3, Len(pattern)))
           [] OTHER -> /\ text # << >> /\ Lower(Head(text)) = Lower(Head(pattern))
                       /\ Like(Tail(text), Tail(pattern))

HasMark(token) == token \in {"data = ?", "data != ?", "data NOT LIKE ?", "mime != ?"}

Marks(text) == Len(SelectSeq(text, HasMark))

Compares(token, row, arg) ==
    CASE token = "data IS NULL" -> row.data = Null
      [] token = "data = ?" -> row.data # Null /\ arg # Null /\ row.data = arg
      [] token = "data != ?" -> row.data # Null /\ arg # Null /\ row.data # arg
      [] token = "data NOT LIKE ?" -> row.data # Null /\ arg # Null /\ ~Like(row.data, arg)
      [] token = "mime != ?" -> row.mime # Null /\ arg # Null /\ row.mime # arg

(* The rows for which the expression from i to j of a selection holds. *)
RECURSIVE Matches(_, _, _)
Matches(q, i, j) ==
    LET text == q.selection
        count(word, n) == Len(SelectSeq(SubSeq(text, i, n), LAMBDA t : t = word))
        outside(word) ==
            {n \in i .. j : text[n] = word /\ count("(", n) = count(")", n)}
        left(S) == Matches(q, i, (CHOOSE n \in S : TRUE) - 1)
        right(S) == Matches(q, (CHOOSE n \in S : TRUE) + 1, j)
        mark == Marks(SubSeq(text, 1, i))
        arg == IF HasMark(text[i]) /\ mark <= Len(q.args) THEN q.args[mark] ELSE Null
    IN  IF outside("OR") # {} THEN left(outside("OR")) \cup right(outside("OR"))
        ELSE IF outside("AND") # {} THEN left(outside("AND")) \cap right(outside("AND"))
        ELSE IF text[i] = "(" THEN Matches(q, i + 1, j - 1)
        ELSE {row \in Table : Compares(text[i], row, arg)}

Rows(q) ==
    IF Len(q.args) > Marks(q.selection) THEN {}
    ELSE IF q.selection = << >> THEN Table ELSE Matches(q, 1, Len(q.selection))
-----------------------------------------------------------------------------
(* Properties *)

(* Type invariant. *)
TypeOK ==
    /\ plan \in Plans
    /\ phase \in {"start", "jni", "filter", "ready", "hooked", "active", "off"}
    /\ Len(filter.selection) < MaxSelection
    /\ \A i \in DOMAIN filter.args : Len(filter.args[i]) < Stride
    /\ cached \in Providers \cup {NoBinder}
    /\ \A t \in Threads :
        call[t].pc \in {"idle", "hook", "no original", "cache", "parse", "sent", "dropped"}

(* A query of the media provider that the hook can read and whose          *)
(* selection leaves room for the filter.                                   *)
IsFilterable(c) ==
    /\ c.hooked /\ ~c.failed /\ c.binder \in Providers
    /\ c.query.code = "query" /\ c.query.authority = "media" /\ ~c.query.extra
    /\ Len(MergedSelection(c.query.selection)) < MaxSelection

(* No row at or below a denied directory answers a query made through the  *)
(* hook, if the app's selection is an expression by itself, with AND, OR   *)
(* and any number of arguments: in the text "(%s) AND (%s)" the filter     *)
(* still binds everything the app selects (ApplyFilterToBundle), and every *)
(* deny entry of the plan is in it.  The hook does not parse the selection,*)
(* and nothing is said of a text that is no expression.                    *)
DeniedRowsHidden ==
    \A t \in Threads :
        call[t].pc = "sent" /\ IsFilterable(call[t]) =>
            \A row \in Rows(call[t].sent), i \in DOMAIN DenyPaths :
                row.data # DenyPaths[i] /\ ~IsPrefix(DenyPaths[i] \o <<"/">>, row.data)

Folded(path) == [i \in DOMAIN path |-> Lower(path[i])]

(* The hook hides nothing else: a query with an argument for every         *)
(* question mark returns every other row that it would have returned and   *)
(* no new one, also after an exception half way and with wildcards in the  *)
(* names of denied directories: the app's question marks and the filter's  *)
(* meet their own arguments (MergeArguments, CopyLikePrefix).  Only the    *)
(* case of a denied name is ignored.  A query that is short of arguments   *)
(* takes the filter's first ones, and nothing is said of its rows.         *)
OtherRowsKept ==
    \A t \in Threads :
        call[t].pc = "sent" /\ Len(call[t].query.args) >= Marks(call[t].query.selection) =>
            LET wanted == Rows(call[t].query)
                found == Rows(call[t].sent)
            IN  /\ found \subseteq wanted
                /\ \A row \in wanted \ found :
                    \E i \in DOMAIN DenyPaths :
                        \/ row.data = DenyPaths[i]
                        \/ IsPrefix(Folded(DenyPaths[i] \o <<"/">>), Folded(row.data))
=============================================================================
