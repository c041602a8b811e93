------------------------- MODULE ProviderPathMapper -------------------------
(***************************************************************************)
(* How the provider hook maps paths there and back                         *)
(* (zygisk/src/provider_path_mapper.cpp) and where its rules come from     *)
(* (LoadProviderRules in zygisk/src/module_entry.cpp).                     *)
(*                                                                         *)
(* An absolute path is a storage root, the user in it and the components   *)
(* after it.  Names are numbers, in the order of their bytes (ByteOrder);  *)
(* a rule has no empty component, a path may, where two slashes meet.      *)
(***************************************************************************)
EXTENDS Naturals, Sequences, Folds

CONSTANTS PathMax,   \* longest path, in components
          MaxRules   \* kMaxRules = kMaxMountRules

ASSUME MapperAssumption == PathMax \in Nat \ {0} /\ MaxRules \in Nat \ {0}

Empty == 0           \* the component between two slashes
Dot == 1
DotDot == 2
Brace == 3           \* a name with '{' or '}'

NoPath == [root |-> "none", user |-> 0, comps |-> << >>]
Roots == {"/storage/emulated", "/mnt/user", "/data/media"}
Path == [root : Roots \cup {"none", "other"}, user : Nat, comps : Seq(Nat)]

MatchesLogicalPath(suffix, prefix) ==
    Len(prefix) <= Len(suffix) /\ SubSeq(suffix, 1, Len(prefix)) = prefix

(* A component with the byte after it: '/', or the end of the path.  A     *)
(* name that is a multiple of ten begins the nine after it, of which the   *)
(* first four go on with a byte before '/' and the others with one after.  *)
ByteOrder(name, last) ==
    3 * name + (IF last THEN 0 ELSE IF name % 10 = 0 THEN 14 ELSE 1)
Bytes(path) == [i \in DOMAIN path |-> ByteOrder(path[i], i = Len(path))]

(* The lesser at the first difference, or the one that ends there. *)
FirstDiffers(x, y) ==
    \/ x # y /\ MatchesLogicalPath(y, x)
    \/ \E i \in 1..Len(x) : /\ i <= Len(y) /\ x[i] < y[i]
                            /\ \A j \in 1..(i - 1) : x[j] = y[j]

(* strcmp of two rule paths: "a-" is before "a/b". *)
Before(p, q) == FirstDiffers(Bytes(p), Bytes(q))

UnderRoot(path, user) == path.root \in Roots /\ path.user = user

TailAfter(suffix, prefix) == SubSeq(suffix, Len(prefix) + 1, Len(suffix))

HasSafeTail(tail) == \A i \in DOMAIN tail : tail[i] \notin {Dot, DotDot}

MatchesVisiblePath(rules, path) ==
    \E i \in DOMAIN rules :
        /\ UnderRoot(path, rules[i].user_id)
        /\ MatchesLogicalPath(path.comps, rules[i].visible)
        /\ HasSafeTail(TailAfter(path.comps, rules[i].visible))

(* The path with one prefix in the place of another, or NoPath when the    *)
(* buffer is too small or nothing changes.                                 *)
Replaced(path, from, to) ==
    LET out == [path EXCEPT !.comps = to \o TailAfter(path.comps, from)]
    IN  IF Len(out.comps) > PathMax \/ out = path THEN NoPath ELSE out

(* The rules of a caller whose side `side' holds the path. *)
Holding(rules, uid, path, side) ==
    {i \in DOMAIN rules : /\ rules[i].caller_uid = uid
                          /\ UnderRoot(path, rules[i].user_id)
                          /\ MatchesLogicalPath(path.comps, rules[i][side])}

AllTailsSafe(rules, found, path, side) ==
    \A i \in found : HasSafeTail(TailAfter(path.comps, rules[i][side]))

(* The longest visible path wins, then the first rule. *)
RewriteAbsolutePath(rules, uid, path) ==
    LET found == Holding(rules, uid, path, "visible")
        longer(i, j) == Len(rules[i].visible) > Len(rules[j].visible)
        selected == CHOOSE i \in found :
                        \A j \in found : longer(i, j) \/ (~longer(j, i) /\ i <= j)
    IN  IF found = {} \/ ~AllTailsSafe(rules, found, path, "visible") THEN NoPath
        ELSE Replaced(path, rules[selected].visible, rules[selected].backing)

(* Mutant: the rules of every caller are searched. *)
RestoreForAnyCaller(rules, uid, path) ==
    LET found == UNION {Holding(rules, rules[i].caller_uid, path, "backing") :
                            i \in DOMAIN rules}
        selected == CHOOSE i \in found :
                        \A j \in found : Len(rules[i].backing) >= Len(rules[j].backing)
    IN  IF found = {} \/ ~AllTailsSafe(rules, found, path, "backing") THEN NoPath
        ELSE Replaced(path, rules[selected].backing, rules[selected].visible)

(* The longest backing path wins, then the least visible path, then the    *)
(* first rule.                                                             *)
RestoreAbsolutePath(rules, uid, path) ==
    LET found == Holding(rules, uid, path, "backing")
        better(i, j) ==
            \/ Len(rules[i].backing) > Len(rules[j].backing)
            \/ /\ Len(rules[i].backing) = Len(rules[j].backing)
               /\ Before(rules[i].visible, rules[j].visible)
        selected == CHOOSE i \in found :
                        \A j \in found : better(i, j) \/ (~better(j, i) /\ i <= j)
    IN  IF found = {} \/ ~AllTailsSafe(rules, found, path, "backing") THEN NoPath
        ELSE Replaced(path, rules[selected].backing, rules[selected].visible)

-----------------------------------------------------------------------------
(* From the policy to rules.  A package of the policy has the numbers of   *)
(* its users, any_user when the list has a '*', and `uid', its uid for     *)
(* each user it is installed for; the backing path of a mount is expanded. *)

IsAllowedTarget(path) ==
    /\ path # << >>
    /\ \A i \in DOMAIN path : path[i] \notin {Empty, Dot, DotDot, Brace}

(* The lists one after the other, as loops that add to one list. *)
Concatenated(lists) ==
    MapThenFoldSet(LAMBDA list, rest : list \o rest, << >>, LAMBDA i : lists[i],
                   LAMBDA I : CHOOSE i \in I : \A j \in I : i <= j, DOMAIN lists)

RulesOfUser(package, user) ==
    LET fits(path) == IsAllowedTarget(path) /\ Len(path) < PathMax
        usable(m) == m.action = "redirect" /\ fits(m.visible) /\ fits(m.backing)
        rule(m) == [caller_uid |-> package.uid[user], user_id |-> user,
                    visible |-> m.visible, backing |-> m.backing]
        mounts == SelectSeq(package.mounts, usable)
    IN  [i \in DOMAIN mounts |-> rule(mounts[i])]

(* A user the package is not installed for is skipped. *)
RulesOfPackage(package) ==
    IF ~package.provider_compat \/ package.any_user THEN << >>
    ELSE LET installed(user) == user \in DOMAIN package.uid
             users == SelectSeq(package.users, installed)
         IN  Concatenated([i \in DOMAIN users |-> RulesOfUser(package, users[i])])

(* The rules beyond the capacity are dropped. *)
LoadProviderRules(policy) ==
    LET all == Concatenated([i \in DOMAIN policy |-> RulesOfPackage(policy[i])])
    IN  SubSeq(all, 1, IF Len(all) < MaxRules THEN Len(all) ELSE MaxRules)
=============================================================================
