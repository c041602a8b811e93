-------------------------- MODULE MCRuleConflicts ---------------------------
(* Small instances of RuleConflicts.  'a', 'b' and 'c' are ordinary name   *)
(* bytes, '-' is one that sorts before '/'.                                *)
EXTENDS RuleConflicts

a == <<97>>
c == <<99>>
a_b == <<97, 47, 98>>
a_b_c == <<97, 47, 98, 47, 99>>
ab == <<97, 98>>
aDash == <<97, 45>>
aSlash == <<97, 47>>
aDotDot == <<97, 47, 46, 46>>
aBrace == <<97, 125>>
user == UserMark
package == PackageMark


DashPaths == {a, aDash, a_b}
LetterPaths == {a, ab, a_b}
AnyPaths == {a, ab, a_b, a_b_c, aDash, aSlash, aDotDot, aBrace}
AnySources == {a, ab, a_b}
OneTarget == {c}
AnyTargets == {ab, a_b, aBrace, user, package}

Plain == [enabled |-> TRUE, file_picker |-> FALSE, all_users |-> FALSE]
Picker == [Plain EXCEPT !.file_picker = TRUE]
PlainFlags == {Plain}
AnyFlags == {Plain, Picker, [Picker EXCEPT !.all_users = TRUE], [Plain EXCEPT !.enabled = FALSE]}

(* Sections before this one: none, one that is fine, one whose warnings    *)
(* leave no room for an error, and one with an error of its own.           *)
After(kept, apps) == [kept |-> kept, apps |-> apps]
First == {After(<< >>, "none")}
AnyEarlier == {After(<< >>, "none"), After(<<"deny_redundant">>, "encode"),
               After(<<"deny_redundant", "duplicate_redirect">>, "encode"),
               After(<<"path_invalid">>, "refused")}
=============================================================================
