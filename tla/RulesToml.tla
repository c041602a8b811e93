------------------------------ MODULE RulesToml ------------------------------
(***************************************************************************)
(* TOML, as far as rules files use it: what toml::parse does               *)
(* (third_party/tomlplusplus/toml.hpp), which the rules compiler calls on  *)
(* the desugared text (rules/src/compiler.cpp).                            *)
(* With arrows it is the grammar of docs/04-rule-file-refactoring-         *)
(* design.md, in which an array element may be "source" -> "target".       *)
(*                                                                         *)
(* A text is a sequence of lexemes with blanks between them, except after  *)
(* "[+" and "]+", which touch the bracket that follows.  "p", "a" and "b"  *)
(* are one-line strings, of which "p" is a package name; "m" is a          *)
(* multiline string; "#" is a comment up to the end of its line.  The      *)
(* parser returns the nodes of the tree as rows that know their path.      *)
(***************************************************************************)
EXTENDS Integers, SequencesExt, TLC

Strings == {"p", "a", "b"}
Bare == {"format", "compatibility", "allow_legacy_mount", "apps", "enabled", "users",
         "processes", "file_picker", "deny", "redirect", "from", "to", "true", "1", "2"}
Keys == Strings \cup Bare
Open == {"[", "[+"}
Close == {"]", "]+"}

At(t, i) == IF i \in DOMAIN t THEN t[i] ELSE "eof"

(* A half-open span of lexemes. *)
Span(begin, end) == [begin |-> begin, end |-> end]

Row(path, kind, word, begin, end) ==
    [path |-> path, kind |-> kind, word |-> word, span |-> Span(begin, end)]

Fail(i) == [ok |-> FALSE, next |-> i, rows |-> {}]
Got(i, rows) == [ok |-> TRUE, next |-> i, rows |-> rows]

(* The first lexeme from i on that is not in blank. *)
Skip(t, i, blank) ==
    CHOOSE j \in i .. Len(t) + 1 : /\ At(t, j) \notin blank
                                   /\ \A k \in i .. j - 1 : t[k] \in blank

(* A dotted key: how many names it has, and the names. *)
KeyLen(t, i) ==
    CHOOSE n \in 0 .. Len(t) :
        /\ \A j \in 0 .. n - 1 : /\ At(t, i + 2 * j) \in Keys
                                 /\ j > 0 => t[i + 2 * j - 1] = "."
        /\ ~ (At(t, i + 2 * n) \in Keys /\ (n > 0 => At(t, i + 2 * n - 1) = "."))
KeyNames(t, i) == [j \in 1 .. KeyLen(t, i) |-> t[i + 2 * j - 2]]
KeyEnd(t, i) == i + 2 * KeyLen(t, i) - 1

RowAt(rows, path) == {r \in rows : r.path = path}
Inside(rows, path) == {r \in rows : Len(r.path) = Len(path) + 1 /\ IsPrefix(path, r.path)}

(* The row of a dotted key: its last name is new, the names before it are  *)
(* tables that dotted keys or the headers of other tables have made.       *)
Inner(base, names) == {base \o SubSeq(names, 1, n) : n \in 1 .. Len(names) - 1}
MayAdd(rows, base, names) ==
    /\ RowAt(rows, base \o names) = {}
    /\ \A p \in Inner(base, names) : \A r \in RowAt(rows, p) : r.kind \in {"dotted", "implicit"}
Dotted(rows, base, names, i) ==
    {Row(p, "dotted", "", i, i) : p \in {q \in Inner(base, names) : RowAt(rows, q) = {}}}

RECURSIVE Value(_, _, _, _), Elements(_, _, _, _, _), Fields(_, _, _, _, _)

(* Adds the rows to what was read, if it was. *)
With(rows, got) == IF got.ok THEN Got(got.next, rows \cup got.rows) ELSE got

(* Where the target of an arrow rule at i is, or 0. *)
ArrowTarget(t, i) ==
    LET arrow == Skip(t, i + 1, {"nl"})
        target == Skip(t, arrow + 1, {"nl"})
    IN  IF At(t, i) \in Strings /\ At(t, arrow) = "->" /\ arrow < Len(t)
           /\ At(t, target) \in Strings
        THEN target ELSE 0

Scalar(kind, t, i, path) == Got(i + 1, {Row(path, kind, t[i], i, i + 1)})

(* A list or an inline table from i on, with its own row. *)
Closed(kind, path, i, got) == With({Row(path, kind, "", i, got.next)}, got)

Value(t, arrows, i, path) ==
    CASE At(t, i) \in Strings \cup {"m"} -> Scalar("string", t, i, path)
      [] At(t, i) = "true" -> Scalar("bool", t, i, path)
      [] At(t, i) \in {"1", "2"} -> Scalar("int", t, i, path)
      [] At(t, i) \in Open -> Closed("array", path, i, Elements(t, arrows, i + 1, path, 0))
      [] At(t, i) = "{" /\ At(t, i + 1) = "}" -> Closed("inline", path, i, Got(i + 2, {}))
      [] At(t, i) = "{" /\ At(t, i + 1) # "}" ->
            Closed("inline", path, i, Fields(t, arrows, i + 1, path, {}))
      [] OTHER -> Fail(i)

(* One element: an arrow rule where arrows are allowed, or a value. *)
Element(t, arrows, i, path, target) ==
    IF arrows /\ target # 0 THEN Got(target + 1, {Row(path, "arrow", "", i, target + 1)})
    ELSE Value(t, arrows, i, path)

(* What follows element n at i; a comma may end the list. *)
AfterElement(t, arrows, i, path, n, element) ==
    CASE ~ element.ok -> element
      [] element.ok /\ At(t, i) \in Close -> Got(i + 1, element.rows)
      [] element.ok /\ At(t, i) = "," ->
            With(element.rows, Elements(t, arrows, i + 1, path, n + 1))
      [] OTHER -> Fail(i)

NextElement(t, arrows, path, n, element) ==
    AfterElement(t, arrows, Skip(t, element.next, {"nl", "#"}), path, n, element)

ElementAt(t, arrows, i, path, n) ==
    IF At(t, i) \in Close THEN Got(i + 1, {})
    ELSE NextElement(t, arrows, path, n,
                     Element(t, arrows, i, Append(path, ToString(n)), ArrowTarget(t, i)))

(* The elements from number n on. *)
Elements(t, arrows, from, path, n) ==
    ElementAt(t, arrows, Skip(t, from, {"nl", "#"}), path, n)

(* key = value at i, added to what the table has. *)
PairOf(t, arrows, i, base, rows, names, end) ==
    CASE names = << >> -> Fail(i)
      [] names # << >> /\ At(t, end) # "=" -> Fail(end)
      [] names # << >> /\ At(t, end) = "=" /\ ~ MayAdd(rows, base, names) -> Fail(i)
      [] OTHER -> With(rows \cup Dotted(rows, base, names, i),
                       Value(t, arrows, end + 1, base \o names))
Pair(t, arrows, i, base, rows) ==
    PairOf(t, arrows, i, base, rows, KeyNames(t, i), KeyEnd(t, i))

(* The pairs of an inline table, on one line. *)
AfterPair(t, arrows, base, pair) ==
    CASE ~ pair.ok -> pair
      [] pair.ok /\ At(t, pair.next) = "}" -> Got(pair.next + 1, pair.rows)
      [] pair.ok /\ At(t, pair.next) = "," -> Fields(t, arrows, pair.next + 1, base, pair.rows)
      [] OTHER -> Fail(pair.next)
Fields(t, arrows, i, base, rows) == AfterPair(t, arrows, base, Pair(t, arrows, i, base, rows))

-----------------------------------------------------------------------------
(* Headers.  A name on the way may be that of an array of tables, and then *)
(* stands for its last table.                                              *)
TableAt(rows, path, back) ==
    Append(path, ToString(Cardinality(Inside(rows, path)) - back))
Resolve(rows, names) ==
    FoldLeft(LAMBDA path, name :
                LET p == Append(path, name)
                IN  IF \E r \in RowAt(rows, p) : r.kind = "tables" THEN TableAt(rows, p, 1) ELSE p,
             << >>, names)

(* Where the names of the header at i begin, and whether it is closed as   *)
(* it was opened.                                                          *)
HeaderNames(t, i) == IF t[i] = "[+" THEN i + 2 ELSE i + 1
HeaderEnd(t, i) ==
    LET first == HeaderNames(t, i)
        end == KeyEnd(t, first)
    IN  IF KeyLen(t, first) = 0 THEN Fail(first)
        ELSE IF t[i] = "[" THEN IF At(t, end) = "]" THEN Got(end + 1, {}) ELSE Fail(end)
        ELSE IF t[i + 1] # "[" THEN Fail(i + 1)
        ELSE IF At(t, end) = "]+" /\ At(t, end + 1) = "]" THEN Got(end + 2, {})
        ELSE Fail(end)

HeaderPath(t, i, rows) ==
    LET names == KeyNames(t, HeaderNames(t, i))
    IN  Append(Resolve(rows, Front(names)), Last(names))

(* A table that only the headers of others have made may get its own, as   *)
(* long as it holds tables only.                                           *)
Tables == {"table", "implicit", "dotted", "inline"}
HoldsTables(rows, row) ==
    \/ row.kind \in Tables \cup {"tables"}
    \/ /\ row.kind = "array" /\ Inside(rows, row.path) # {}
       /\ \A r \in Inside(rows, row.path) : r.kind \in Tables
MayPromote(rows, row) ==
    row.kind = "implicit" /\ \A r \in Inside(rows, row.path) : HoldsTables(rows, r)

(* The table of the header, and the tables above it, if they can be: no    *)
(* table is added to one in braces.                                        *)
Header(t, i, rows) ==
    LET end == HeaderEnd(t, i)
        double == t[i] = "[+"
        names == KeyNames(t, HeaderNames(t, i))
        path == HeaderPath(t, i, rows)
        above == {Resolve(rows, SubSeq(names, 1, n)) : n \in 1 .. Len(names) - 1}
        made == {Row(p, "implicit", "", i, i) : p \in {q \in above : RowAt(rows, q) = {}}}
        old == RowAt(rows, path)
        new == IF double
               THEN {Row(TableAt(rows, path, 0), "table", "", i, end.next),
                     Row(path, "tables", "", 0, 0)}
               ELSE {Row(path, "table", "", i, end.next)}
    IN  IF ~ end.ok THEN end
        ELSE IF \/ \E p \in above : \E r \in RowAt(rows, p) : r.kind \notin Tables \ {"inline"}
                \/ \E r \in old : IF double THEN r.kind # "tables" ELSE ~ MayPromote(rows, r)
        THEN Fail(i)
        ELSE Got(end.next, (rows \ old) \cup made \cup new)

(* The statements from i on, in the table base. *)
RECURSIVE Statements(_, _, _, _, _)
Statements(t, arrows, from, base, rows) ==
    LET i == Skip(t, from, {"nl", "#"})
        one == IF At(t, i) \in Open THEN Header(t, i, rows) ELSE Pair(t, arrows, i, base, rows)
        table == IF At(t, i) \notin Open THEN base
                 ELSE IF t[i] = "[+" THEN TableAt(rows, HeaderPath(t, i, rows), 0)
                 ELSE HeaderPath(t, i, rows)
    IN  IF i > Len(t) THEN Got(i, rows)
        ELSE IF ~ one.ok THEN one
        ELSE IF At(t, one.next) \notin {"nl", "#", "eof"} THEN Fail(one.next)
        ELSE Statements(t, arrows, one.next, table, one.rows)

Parse(t, arrows) == Statements(t, arrows, 1, << >>, {})
=============================================================================
