----------------------------- MODULE MCRulesText -----------------------------
(* Texts that begin like a rules file and then go on in any way. *)
EXTENDS RulesText

Format == <<"format", "=", "1", "nl">>
App == Format \o <<"[", "apps", ".", "p", "]", "nl">>
ListOf(key) == App \o <<key, "=", "[">>
OneRule == ListOf("redirect") \o <<"a", "->", "b", ",">>
TwoRules == OneRule \o <<"nl", "b", "->", "a", "]", "nl">>
Inline == Format \o <<"apps", "=", "{", "p", "=", "{", "redirect", "=", "[", "a">>
Double == Format \o <<"[+", "[", "apps", ".", "p", "]+", "]", "nl", "redirect", "=", "[">>

In(head, more, alphabet) == [head |-> head, more |-> more, alphabet |-> alphabet]

MCInputs == {
    In(<< >>, 5, {"format", "=", "1", "2", "nl", "#"}),
    In(Format, 4, {"[", "[+", "]", "]+", "apps", "p", "redirect", "=", "nl", "."}),
    In(Format, 5, {"compatibility", ".", "allow_legacy_mount", "=", "true"}),
    In(App, 4, {"enabled", "file_picker", "=", "true", "1", "nl"}),
    In(App, 5, {"[", "apps", ".", "a", "]"}),
    In(App \o <<"enabled", "=", "true", "nl">>, 5, {"[", "apps", ".", "p", "]"}),
    In(ListOf("users"), 4, {"1", "2", "true", "a", ",", "]", "nl"}),
    In(ListOf("processes"), 4, {"p", "a", "1", ",", "]"}),
    In(ListOf("deny"), 5, {"a", "m", "->", ",", "]", "nl"}),
    In(ListOf("redirect"), 5, {"a", "b", "m", "->", ",", "]", "nl"}),
    In(ListOf("redirect"), 6, {"a", "#", "nl", "->", "]"}),
    In(ListOf("redirect"), 4, {"a", "->", ",", "[", "]", "{", "}", "true", "=", "long"}),
    In(OneRule, 4, {"a", "b", "->", ",", "]", "#", "nl", "{", "}", "open"}),
    In(OneRule \o <<"{", "from", "=", "a", ",">>, 5, {",", "to", "=", "b", "}", "]"}),
    In(TwoRules, 4, {"a", "deny", "=", "[", "]", ",", "->", "#", "nl", "."}),
    In(Inline, 5, {"->", "a", "]", "}", ",", "nl"}),
    In(Double, 4, {"a", "->", "b", "]"})}

MCLimits == [depth |-> 3, tokens |-> 30, rewrites |-> 2, segments |-> 13, generated |-> 60,
             diagnostics |-> 2, apps |-> 1, rules |-> 3]
=============================================================================
