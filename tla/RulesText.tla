------------------------------ MODULE RulesText ------------------------------
(***************************************************************************)
(* From the text of a rules file to its document (rules/src/compiler.cpp): *)
(* the format line, the scanner, the desugarer that writes an inline table *)
(* for every arrow rule and remembers where each piece came from           *)
(* (rules/src/desugarer.cpp), the TOML parser, the binding of its tables   *)
(* to the rules they were written for, and the decoder.  At every step the *)
(* text read so far is taken as a whole file.                              *)
(***************************************************************************)
EXTENDS RulesScanner

-----------------------------------------------------------------------------
(* format_probe.cpp *)

ProbeRulesFormat(t) ==
    LET i == Skip(t, 1, {"nl", "#"})
    IN  CASE i > Len(t) -> "format_missing"
          [] i <= Len(t) /\ ~ (t[i] = "format" /\ At(t, i + 1) = "=") -> "format_invalid"
          [] OTHER -> CASE At(t, i + 3) \notin {"nl", "#", "eof"} -> "format_invalid"
                        [] At(t, i + 2) = "1" -> "ok"
                        [] At(t, i + 2) = "2" -> "format_unsupported"
                        [] OTHER -> "format_invalid"

-----------------------------------------------------------------------------
(* desugarer.cpp *)

Prefix == <<"{", "from", "=">>
Middle == <<",", "to", "=">>
Suffix == <<"}">>

(* The text with the table of every rule in its place, the segments it is  *)
(* made of, and the span of each table.                                    *)
AppendSegment(out, piece, original, kind) ==
    IF piece = << >> THEN out
    ELSE [out EXCEPT
            !.text = @ \o piece,
            !.segments = Append(@, [generated |-> Span(Len(out.text) + 1,
                                                       Len(out.text) + 1 + Len(piece)),
                                    original |-> original, kind |-> kind])]
AppendCopied(out, t, begin, end) ==
    AppendSegment(out, SubSeq(t, begin, end - 1), Span(begin, end), "copied")

(* Mutant: the table is taken to begin before the text that is copied. *)
TableSpanEarly(copied, before, all) == Span(copied + 1, all + 1)

(* generated_table, from the lengths of the text on the way. *)
TableSpan(copied, before, all) == Span(before + 1, all + 1)

EmitRule(out, t, rule) ==
    LET whole == Span(rule.source, rule.target + 1)
        before == AppendCopied(out, t, out.cursor, rule.source)
        source == AppendCopied(AppendSegment(before, Prefix, whole, "rule"),
                               t, rule.source, rule.source + 1)
        middle == AppendSegment(source, Middle, Span(rule.arrow, rule.arrow + 1), "arrow")
        target == AppendCopied(middle, t, rule.target, rule.target + 1)
        all == AppendSegment(target, Suffix, whole, "rule")
    IN  [all EXCEPT
            !.cursor = rule.target + 1,
            !.redirects = Append(@, [id |-> Len(@) + 1, rule |-> rule,
                                     table |-> TableSpan(Len(out.text), Len(before.text),
                                                         Len(all.text))])]

EmitDesugaredSource(t, rules) ==
    LET empty == [text |-> << >>, segments |-> << >>, redirects |-> << >>, cursor |-> 1]
        out == FoldLeft(LAMBDA o, r : EmitRule(o, t, r), empty, rules)
    IN  IF rules = << >> THEN [empty EXCEPT !.text = t]
        ELSE AppendCopied(out, t, out.cursor, Len(t) + 1)

IsValidRewrite(rule) == rule.source < rule.arrow /\ rule.arrow < rule.target

(* The size after the first n rules, which it may lower. *)
GeneratedSize(t, rules, n) ==
    FoldLeft(LAMBDA size, r : size + Len(Prefix \o Middle \o Suffix) + 1 - (r.target - r.source),
             Len(t), SubSeq(rules, 1, n))

(* The early returns of EmitDesugaredSource. *)
DesugarErrors(t, rules, out) ==
    IF \/ \E i \in DOMAIN rules : ~ IsValidRewrite(rules[i])
       \/ \E i \in 2 .. Len(rules) : rules[i].source <= rules[i - 1].target
    THEN {"internal"}
    ELSE IF \E n \in DOMAIN rules : GeneratedSize(t, rules, n) > Limits.generated THEN {"limit"}
    ELSE IF Len(out.segments) <= Limits.segments THEN {}
    ELSE IF out.cursor <= Len(t) /\ Len(out.segments) = Limits.segments + 1 THEN {"internal"}
    ELSE {"limit"}

(* Mutant: a copied segment is mapped as a whole. *)
MapSegmentWhole(segment, span) == segment.original

(* What one segment says of the part of the span in it. *)
MapSegment(segment, span) ==
    LET delta == segment.original.begin - segment.generated.begin
    IN  IF segment.kind # "copied" THEN segment.original
        ELSE Span(Max({span.begin, segment.generated.begin}) + delta,
                  Min({span.end, segment.generated.end}) + delta)

(* RewriteMap::MapGeneratedSpan; the end of the one text is the end of the *)
(* other.                                                                  *)
MapGeneratedSpan(t, out, span) ==
    LET touched == {i \in DOMAIN out.segments :
                       LET g == out.segments[i].generated
                       IN  g.begin < span.end /\ span.begin < g.end}
        parts == {MapSegment(out.segments[i], span) : i \in touched}
    IN  IF out.segments = << >> THEN span
        ELSE IF span.begin > Len(out.text) THEN Span(Len(t) + 1, Len(t) + 1)
        ELSE Span(Min({p.begin : p \in parts}), Max({p.end : p \in parts}))

(* toml++ counts lines and columns; GeneratedPositionIndex counts back. *)
Position(t, i) ==
    LET lines == {j \in 1 .. i - 1 : At(t, j) = "nl"}
    IN  [line |-> Cardinality(lines) + 1, column |-> i - Max(lines \cup {0})]
ToByte(t, position) ==
    LET starts == {1} \cup {j + 1 : j \in {k \in DOMAIN t : t[k] = "nl"}}
        start == CHOOSE s \in starts :
                     Cardinality({r \in starts : r < s}) = position.line - 1
    IN  IF position.line > Cardinality(starts) THEN Len(t) + 1
        ELSE Min({start + position.column - 1} \cup {j \in start .. Len(t) : t[j] = "nl"}
                  \cup {Len(t) + 1})
Region(t, span) ==
    Span(ToByte(t, Position(t, span.begin)), ToByte(t, Position(t, span.end)))

-----------------------------------------------------------------------------
(* compiler.cpp: the tables of the tree that were written for a rule. *)

InlineNodes(rows) == {r \in rows : r.kind = "inline"}
Bound(t, rows, redirect) == {r \in InlineNodes(rows) : Region(t, r.span) = redirect.table}

(* Mutant: every inline table counts as a rule. *)
AnyOrigin(t, rows, redirects, row) == TRUE

HasOrigin(t, rows, redirects, row) ==
    \E i \in DOMAIN redirects : row \in Bound(t, rows, redirects[i])

IsRedirectScope(path) == Len(path) = 4 /\ path[1] = "apps" /\ path[3] = "redirect"

(* Tables and rules are told apart by their spans, and each rule has one.  *)
BindGenerated(t, rows, redirects) ==
    LET nodes == InlineNodes(rows)
        clash == \/ \E r, q \in nodes : r # q /\ Region(t, r.span) = Region(t, q.span)
                 \/ \E i, j \in DOMAIN redirects : i # j /\ redirects[i].table = redirects[j].table
    IN  IF clash \/ \E i \in DOMAIN redirects : Bound(t, rows, redirects[i]) = {}
        THEN {"internal"}
        ELSE {"arrow_scope" : r \in {q \in nodes : HasOrigin(t, rows, redirects, q)
                                                   /\ ~ IsRedirectScope(q.path)}}

Children(rows, path) == Inside(rows, path)
Get(rows, path, key) == RowAt(rows, Append(path, key))
IsTable(row) == row.kind \in Tables
IsArray(row) == row.kind \in {"array", "tables"}
Unless(valid, code) == IF valid THEN {} ELSE {code}

CheckFields(rows, path, allowed) ==
    Unless(\A r \in Children(rows, path) : Last(r.path) \in allowed, "unknown_field")

(* toml++'s value<T>() converts: an integer is a boolean and a boolean is   *)
(* an integer, so that enabled = 1 and users = [true] are accepted.        *)
ConvertsTo(kind) == IF kind = "string" THEN {"string"} ELSE {"bool", "int"}
Converted(row) == IF row.kind = "bool" THEN "1" ELSE row.word

DecodeBool(rows, path, key) ==
    Unless(\A r \in Get(rows, path, key) : r.kind \in ConvertsTo("bool"), "boolean_required")

(* An array, all of whose elements are of the kind, once each if unique. *)
DecodeList(rows, path, key, kind) ==
    UNION {Unless(/\ IsArray(list)
                  /\ \A r \in Children(rows, list.path) : r.kind \in ConvertsTo(kind), "type")
              : list \in Get(rows, path, key)}
Words(rows, path) == {Converted(r) : r \in Children(rows, path)}
Repeats(rows, path) == Cardinality(Words(rows, path)) < Cardinality(Children(rows, path))

DecodeUsers(rows, path) ==
    LET users == Append(path, "users")
    IN  DecodeList(rows, path, "users", "int") \cup
        UNION {Unless(Children(rows, users) # {} /\ ~ Repeats(rows, users), "user_invalid")
                  : r \in Get(rows, path, "users")}

IsPackageName(name) == name = "p"
IsProcessName(package, name) == name = package
DecodeProcesses(rows, path) ==
    LET processes == Append(path, "processes")
    IN  DecodeList(rows, path, "processes", "string") \cup
        Unless(/\ \A w \in Words(rows, processes) : IsProcessName(Last(path), w)
               /\ ~ Repeats(rows, processes), "process_invalid")

(* Only tables written for an arrow are rules, and they have two fields. *)
GeneratedShape(rows, row) ==
    LET fields == Children(rows, row.path)
    IN  {Last(q.path) : q \in fields} = {"from", "to"} /\ \A q \in fields : q.kind = "string"

DecodeRedirect(t, rows, redirects, path) ==
    LET rules(list) == {r \in Children(rows, list.path) :
                           r.kind = "inline" /\ HasOrigin(t, rows, redirects, r)}
    IN  UNION {Unless(IsArray(list) /\ rules(list) = Children(rows, list.path), "redirect_syntax")
               \cup Unless(\A r \in rules(list) : GeneratedShape(rows, r), "internal")
                  : list \in Get(rows, path, "redirect")}

RulesOf(rows, path) ==
    Children(rows, Append(path, "deny")) \cup Children(rows, Append(path, "redirect"))

DecodeApp(t, rows, redirects, path) ==
    CheckFields(rows, path, {"enabled", "users", "processes", "file_picker", "deny", "redirect"})
    \cup DecodeBool(rows, path, "enabled") \cup DecodeBool(rows, path, "file_picker")
    \cup DecodeUsers(rows, path) \cup DecodeProcesses(rows, path)
    \cup DecodeList(rows, path, "deny", "string")
    \cup DecodeRedirect(t, rows, redirects, path)
    \cup Unless(Cardinality(RulesOf(rows, path)) <= Limits.rules, "limit")

DecodeCompatibility(rows) ==
    UNION {Unless(IsTable(r), "type") : r \in Get(rows, << >>, "compatibility")}
    \cup CheckFields(rows, <<"compatibility">>, {"allow_legacy_mount"})
    \cup DecodeBool(rows, <<"compatibility">>, "allow_legacy_mount")

(* With no apps, or too many, none of them is looked at. *)
DecodeApps(t, rows, redirects, apps) ==
    IF apps = {} \/ \A r \in Get(rows, << >>, "apps") : ~ IsTable(r) THEN {"apps_required"}
    ELSE IF Cardinality(apps) > Limits.apps THEN {"limit"}
    ELSE UNION {IF IsPackageName(Last(r.path)) /\ IsTable(r)
                THEN DecodeApp(t, rows, redirects, r.path) ELSE {"package_invalid"}
                  : r \in apps}

DecodeRoot(t, rows, redirects) ==
    CheckFields(rows, << >>, {"format", "compatibility", "apps"})
    \cup Unless(\E r \in Get(rows, << >>, "format") : Converted(r) = "1", "format_type")
    \cup DecodeCompatibility(rows)
    \cup DecodeApps(t, rows, redirects, Children(rows, <<"apps">>))

(* The rules of the document, with what their origins say of them. *)
Redirects(rows, out) ==
    {[id |-> out.redirects[i].id, rule |-> out.redirects[i].rule,
      from |-> {q.word : q \in Get(rows, r.path, "from")},
      to |-> {q.word : q \in Get(rows, r.path, "to")}]
        : <<i, r>> \in {<<j, q>> \in (DOMAIN out.redirects) \X InlineNodes(rows) :
                            q \in Bound(out.text, rows, out.redirects[j])}}

Rejected(codes, at) == [ok |-> FALSE, codes |-> codes, at |-> at, redirects |-> {}, deny |-> {}]

(* Decoder::Run: what the tree holds, unless binding or decoding has found *)
(* something; at is where an error is said to be.                          *)
FirstOf(codes, more) == IF codes # {} THEN codes ELSE more
Decoded(t, out, rows, codes) ==
    IF codes # {} THEN Rejected(codes, 0)
    ELSE [ok |-> TRUE, codes |-> {}, at |-> 0, redirects |-> Redirects(rows, out),
          deny |-> {[word |-> r.word,
                     at |-> MapGeneratedSpan(t, out, Region(out.text, r.span)).begin]
                       : r \in {q \in rows : q.kind = "string" /\ Len(q.path) = 4
                                             /\ q.path[3] = "deny"}}]
Run(t, out, parsed) ==
    IF parsed.ok
    THEN Decoded(t, out, parsed.rows,
                 FirstOf(BindGenerated(out.text, parsed.rows, out.redirects),
                         DecodeRoot(out.text, parsed.rows, out.redirects)))
    ELSE Rejected({"toml_parse"},
             MapGeneratedSpan(t, out, Region(out.text, Span(parsed.next, parsed.next + 1))).begin)

(* ParseRulesDocument, stage by stage. *)
ParseDesugared(t, out, errors) ==
    IF errors # {} THEN Rejected(errors, 0) ELSE Run(t, out, Parse(out.text, FALSE))
Desugared(t, rules, out) == ParseDesugared(t, out, DesugarErrors(t, rules, out))
Scanned(t, s) ==
    IF s.diagnostics # << >>
    THEN Rejected({s.diagnostics[i].code : i \in DOMAIN s.diagnostics}, 0)
    ELSE Desugared(t, s.candidates, EmitDesugaredSource(t, s.candidates))
ParseRulesDocument(t, s) ==
    IF ProbeRulesFormat(t) # "ok" THEN Rejected({ProbeRulesFormat(t)}, 0)
    ELSE Scanned(t, FinishAtEof(s))

-----------------------------------------------------------------------------
(* What the text says, read with the grammar that has arrows. *)
Whole == text # << >> /\ Last(text) \notin {"[+", "]+"}
Compiled == ParseRulesDocument(text, scan)
Written == Parse(text, TRUE)
Arrows(rows) == {r \in rows : r.kind = "arrow"}
Denied(rows) == {r \in rows : r.kind = "string" /\ Len(r.path) = 4 /\ r.path[3] = "deny"}
InRedirect(row) == Len(row.path) = 4 /\ SubSeq(row.path, 1, 3) = <<"apps", "p", "redirect">>
ArrowsInPlace(rows) == {r \in rows : InRedirect(r)} = Arrows(rows)

(* The document holds the rules and the deny entries of these rows. *)
HoldsRules(document, rows) ==
    /\ {<<c.from, c.to, c.rule.source, c.rule.target>> : c \in document.redirects}
          = {<<{text[r.span.begin]}, {text[r.span.end - 1]}, r.span.begin, r.span.end - 1>>
                : r \in Arrows(rows)}
    /\ Cardinality({c.id : c \in document.redirects}) = Cardinality(Arrows(rows))
    /\ document.deny = {[word |-> r.word, at |-> r.span.begin] : r \in Denied(rows)}
States(document, written) ==
    written.ok /\ ArrowsInPlace(written.rows) /\ HoldsRules(document, written.rows)
Meant(document, written) == document.ok => States(document, written)

(* Every document that is accepted holds the rules the text states, no     *)
(* more and no fewer, each once, with source and target the right way      *)
(* round and the place where it is written; a table that somebody wrote    *)
(* with from and to is never taken for a rule.                             *)
CompiledIsMeant == Whole => Meant(Compiled, Written)

(* The text is a document with rules only where they may be. *)
IsDocument(written) ==
    /\ written.ok /\ ProbeRulesFormat(text) = "ok"
    /\ ArrowsInPlace(written.rows)
    /\ DecodeRoot(text, written.rows, << >>) \subseteq {"redirect_syntax"}
    /\ \A r \in Get(written.rows, <<"apps", "p">>, "redirect") : IsArray(r)
Accepted(document) == document.ok \/ {"limit", "omitted"} \cap document.codes # {}

(* And every text that states a document is accepted, unless it is beyond  *)
(* the limits: the scanner, which knows nothing of keys and tables, turns  *)
(* no rule away.                                                           *)
MeantIsCompiled == Whole /\ IsDocument(Written) => Accepted(Compiled)

(* A parse error is one of the text, and shown where it is. *)
PointsAt(document, written) ==
    document.codes = {"toml_parse"} => ~ written.ok /\ document.at = written.next

(* A parse error in the text the desugarer has made is reported at the     *)
(* lexeme of the file that is wrong, however many rules come before it.    *)
ErrorsPointAtSource == Whole => PointsAt(Compiled, Written)

(* No text makes the stages disagree about a rule: the tables that were    *)
(* written are found where they were written, and the segments suffice.    *)
NeverInternal == Whole => "internal" \notin Compiled.codes
=============================================================================
