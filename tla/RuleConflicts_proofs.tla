------------------------ MODULE RuleConflicts_proofs ------------------------
(***************************************************************************)
(* The rules compiler refuses what it should and nothing else.  The        *)
(* invariant says what each pass leaves behind and what the diagnostics    *)
(* mean; the properties of RuleConflicts follow from it.                   *)
(***************************************************************************)
EXTENDS RuleScans_proofs

(* Most leaves are first-order; those with arithmetic or records name the  *)
(* SMT solver.                                                             *)
USE Zenon

-----------------------------------------------------------------------------
(* The inductive invariant *)

BadRule == \E p \in SectionPaths : ExceedsPathLimits(p) \/ ~NormalizeRulePath(p)

(* No rule of the section has been lost. *)
Whole ==
    /\ Range(app.redirects) = Rs
    /\ \A d \in Ds : \E e \in Range(app.deny) : IsSameOrAncestor(e, d)

(* Nothing was reported that refuses the section, nor dropped. *)
Quiet(kept) == ~HasErrors(kept) /\ Len(kept) < MaxDiagnostics

(* The redirects are in order, each of them once. *)
InOrderOnce(u) == \A i, j \in 1..Len(u) : i < j => RedirectLess(u[i], u[j])

(* ValidateRedirects found nothing in u. *)
RedirectsApart(u) ==
    /\ \A i \in 1..Len(u) : ~PathsOverlap(u[i].source, u[i].target) /\ ~SourceConflict(u, i)
    /\ ~HasCycle(u)

(* ValidateDeny found no entry of d at or above a source of u. *)
DenyApart(d, u) == \A i \in 1..Len(u) : ~DenyConflict(d, u[i].source)

(* A section as it was parsed, after others. *)
Section == [deny : Seq(ByteString), redirects : Seq(ByteRedirect),
            flags : [enabled : BOOLEAN, file_picker : BOOLEAN, all_users : BOOLEAN],
            earlier : [kept : Seq(Codes), apps : {"none", "encode", "refused"}]]

ListsOK ==
    /\ input \in Section
    /\ app \in [deny : Seq(ByteString), redirects : Seq(ByteRedirect)]
    /\ diagnostics \in Seq(Codes) /\ Len(diagnostics) <= MaxDiagnostics
    /\ Range(app.deny) \subseteq Ds /\ Range(app.redirects) \subseteq Rs

(* The plan has the rules of the document, the package put in. *)
PlanComplete ==
    /\ plan \in Seq(ByteRule)
    /\ Range(plan) = {Expanded(x) : x \in Range(ToPolicyDocument(app))}

Inv ==
    /\ ListsOK
    /\ phase # "normalize" => Whole \/ (BadRule /\ ~Quiet(diagnostics))
    /\ HasErrors(diagnostics) => Refusable
    /\ phase \in {"deny", "encode", "accepted"} =>
          InOrderOnce(app.redirects) /\ (Quiet(diagnostics) => RedirectsApart(app.redirects))
    /\ phase \in {"encode", "accepted"} =>
          Folded(app.deny) /\ (Quiet(diagnostics) => DenyApart(app.deny, app.redirects))
    /\ phase = "accepted" =>
          /\ ~HasErrors(diagnostics)
          /\ input.flags.enabled => PlanComplete
    /\ phase = "rejected" => Refusable

-----------------------------------------------------------------------------
(* What the passes compute *)

(* Lists of one code, and of none. *)
LEMMA UnitLists ==
  ASSUME NEW code \in Codes
  PROVE  /\ <<code>> \in Seq(Codes) /\ Range(<<code>>) = {code}
         /\ << >> \in Seq(Codes) /\ Range(<< >>) = {}
  <1>1. <<code>> \in Seq(Codes) /\ Len(<<code>>) = 1 /\ <<code>>[1] = code
    BY SMTT(30)
  <1>2. << >> \in Seq(Codes) /\ Len(<< >>) = 0
    BY SMTT(30)
  <1>3. ASSUME NEW t, t = <<code>> PROVE Range(t) = {code}
    <2>1. t \in Seq(Codes) /\ Len(t) = 1 /\ t[1] = code
      BY <1>1, <1>3
    <2>2. Range(t) = {t[i] : i \in 1..Len(t)}
      BY <2>1, ListRange
    <2>3. (\A i \in 1..1 : i = 1) /\ 1 \in 1..1
      BY SMTT(30)
    <2> QED
      BY <2>1, <2>2, <2>3
  <1>4. ASSUME NEW t, t = << >> PROVE Range(t) = {}
    <2>1. t \in Seq(Codes) /\ Len(t) = 0
      BY <1>2, <1>4
    <2>2. Range(t) = {t[i] : i \in 1..Len(t)}
      BY <2>1, ListRange
    <2>3. \A i \in 1..0 : FALSE
      BY SMTT(30)
    <2> QED
      BY <2>1, <2>2, <2>3
  <1> QED
    BY <1>1, <1>2, <1>3, <1>4

(* Two lists of codes joined. *)
LEMMA CodesJoined ==
  ASSUME NEW s \in Seq(Codes), NEW t \in Seq(Codes)
  PROVE  s \o t \in Seq(Codes) /\ Range(s \o t) = Range(s) \cup Range(t)
  BY RangeOfJoin, SMTT(30)

(* The code of a rule: none where its paths pass. *)
LEMMA RuleCodeFacts ==
  ASSUME NEW paths
  PROVE  /\ RuleCode(paths) \in {<< >>, <<"resource_limit">>, <<"path_invalid">>}
         /\ RuleCode(paths) = << >> <=>
              \A p \in paths : ~ExceedsPathLimits(p) /\ NormalizeRulePath(p)
  <1>0. <<"resource_limit">> # << >> /\ <<"path_invalid">> # << >>
    OBVIOUS
  <1>1. CASE \E p \in paths : ExceedsPathLimits(p)
    <2>1. RuleCode(paths) = <<"resource_limit">>
      BY <1>1 DEF RuleCode
    <2> QED
      BY <1>0, <1>1, <2>1
  <1>2. CASE (\A p \in paths : ~ExceedsPathLimits(p)) /\ \E p \in paths : ~NormalizeRulePath(p)
    <2>1. RuleCode(paths) = <<"path_invalid">>
      BY <1>2 DEF RuleCode
    <2> QED
      BY <1>0, <1>2, <2>1
  <1>3. CASE \A p \in paths : ~ExceedsPathLimits(p) /\ NormalizeRulePath(p)
    <2>1. RuleCode(paths) = << >>
      BY <1>3 DEF RuleCode
    <2> QED
      BY <1>3, <2>1
  <1> QED
    BY <1>1, <1>2, <1>3

(* What is left of the rules in s and what is reported of them, where c    *)
(* has the code of each.                                                   *)
Normalized(A, s, c, kept, codes) ==
    /\ kept \in Seq(A) /\ Range(kept) \subseteq Range(s)
    /\ codes \in Seq(Codes) /\ Range(codes) \subseteq {"resource_limit", "path_invalid"}
    /\ Range(codes) # {} <=> \E i \in 1..Len(s) : c[i] # << >>
    /\ (\A i \in 1..Len(s) : c[i] = << >>) => Range(kept) = Range(s)

(* Normalising a list of rules keeps the good ones and reports the others. *)
LEMMA NormalizedList ==
  ASSUME NEW A, NEW s \in Seq(A), NEW c,
         c \in [1..Len(s) -> {<< >>, <<"resource_limit">>, <<"path_invalid">>}]
  PROVE  Normalized(A, s, c, Pick(s, {i \in DOMAIN c : c[i] = << >>}), Flatten(c))
  <1> DEFINE good == {i \in DOMAIN c : c[i] = << >>}
             kept == Pick(s, good)
             codes == Flatten(c)
  <1>0. Len(s) \in Nat /\ Range(s) = {s[i] : i \in 1..Len(s)} /\ DOMAIN c = 1..Len(s)
    BY ListRange
  <1>1. kept \in Seq(A) /\ \A x : x \in Range(kept) <=> \E i \in 1..Len(s) : i \in good /\ x = s[i]
    BY RangeOfPick, SMTT(30)
  <1> HIDE DEF kept
  <1>2. Range(kept) \subseteq Range(s)
    BY <1>0, <1>1
  <1>3. (\A i \in 1..Len(s) : c[i] = << >>) => Range(kept) = Range(s)
    BY <1>0, <1>1, SMTT(30)
  <1>u. /\ <<"resource_limit">> \in Seq(Codes) /\ Range(<<"resource_limit">>) = {"resource_limit"}
        /\ <<"path_invalid">> \in Seq(Codes) /\ Range(<<"path_invalid">>) = {"path_invalid"}
        /\ << >> \in Seq(Codes) /\ Range(<< >>) = {}
    <2>1. "resource_limit" \in Codes /\ "path_invalid" \in Codes
      BY DEF Codes
    <2> QED
      BY <2>1, UnitLists
  <1>4. ASSUME NEW i \in 1..Len(s)
        PROVE  /\ c[i] \in Seq(Codes) /\ Range(c[i]) \subseteq {"resource_limit", "path_invalid"}
               /\ Range(c[i]) # {} <=> c[i] # << >>
    <2>1. c[i] = << >> \/ c[i] = <<"resource_limit">> \/ c[i] = <<"path_invalid">>
      OBVIOUS
    <2>2. CASE c[i] = << >>
      BY <1>u, <2>2
    <2>3. CASE c[i] = <<"resource_limit">>
      BY <1>u, <2>3
    <2>4. CASE c[i] = <<"path_invalid">>
      BY <1>u, <2>4
    <2> QED
      BY <2>1, <2>2, <2>3, <2>4
  <1>5. c \in Seq(Seq(Codes)) /\ Len(c) = Len(s)
    BY <1>0, <1>4, SMTT(30)
  <1>6. codes \in Seq(Codes) /\ \A x : x \in Range(codes) <=> \E i \in 1..Len(s) : x \in Range(c[i])
    BY <1>5, FlattenFacts
  <1> HIDE DEF codes
  <1>7. Range(codes) \subseteq {"resource_limit", "path_invalid"}
    BY <1>4, <1>6
  <1>8. Range(codes) # {} <=> \E i \in 1..Len(s) : c[i] # << >>
    BY <1>4, <1>6
  <1> QED
    BY <1>1, <1>2, <1>3, <1>6, <1>7, <1>8 DEF kept, codes, Normalized

(* What ValidateRedirects reports: of the sorted list s, of the list u     *)
(* left of it, and of a file picker.                                       *)
RedirectReport(s, u, picker) ==
    CodesFor(s, Repeats(s), "duplicate_redirect")
    \o Flatten([i \in DOMAIN u |->
                  (IF PathsOverlap(u[i].source, u[i].target)
                   THEN <<"source_target_overlap">> ELSE << >>)
                  \o (IF SourceConflict(u, i) THEN <<"source_conflict">> ELSE << >>)])
    \o (IF HasCycle(u) THEN <<"cycle">> ELSE << >>)
    \o (IF picker /\ u = << >> THEN <<"file_picker_requires_redirect">> ELSE << >>)

(* There is an error in it exactly where two ends overlap, two neighbours  *)
(* conflict, the visit closes, or a file picker has no redirect.           *)
LEMMA RedirectCodes ==
  ASSUME NEW s \in Seq(ByteRedirect), NEW u \in Seq(ByteRedirect), NEW picker \in BOOLEAN
  PROVE  /\ RedirectReport(s, u, picker) \in Seq(Codes)
         /\ (\E c \in Range(RedirectReport(s, u, picker)) : c \notin Warnings) <=>
                  \/ ~RedirectsApart(u)
                  \/ picker /\ u = << >>
  <1> DEFINE c1 == CodesFor(s, Repeats(s), "duplicate_redirect")
             c2 == Flatten([i \in DOMAIN u |->
                        (IF PathsOverlap(u[i].source, u[i].target)
                         THEN <<"source_target_overlap">> ELSE << >>)
                        \o (IF SourceConflict(u, i) THEN <<"source_conflict">> ELSE << >>)])
             c3 == IF HasCycle(u) THEN <<"cycle">> ELSE << >>
             c4 == IF picker /\ u = << >> THEN <<"file_picker_requires_redirect">> ELSE << >>
  <1>r. RedirectReport(s, u, picker) = c1 \o c2 \o c3 \o c4
    BY DEF RedirectReport
  <1>1. c1 \in Seq(Codes) /\ \A c \in Range(c1) : c \in Warnings
    <2>1. "duplicate_redirect" \in Codes /\ "duplicate_redirect" \in Warnings
      BY DEF Codes, Warnings
    <2> QED
      BY <2>1, CodesForFacts, SMTT(30)
  <1>u. /\ \A c \in {"source_target_overlap", "source_conflict", "cycle",
                     "file_picker_requires_redirect"} :
              c \in Codes /\ c \notin Warnings /\ <<c>> \in Seq(Codes) /\ Range(<<c>>) = {c}
        /\ << >> \in Seq(Codes) /\ Range(<< >>) = {}
    <2>1. \A c \in {"source_target_overlap", "source_conflict", "cycle",
                    "file_picker_requires_redirect"} : c \in Codes /\ c \notin Warnings
      BY DEF Codes, Warnings
    <2> QED
      BY <2>1, UnitLists
  <1> DEFINE Ends(i) == PathsOverlap(u[i].source, u[i].target)
             a(i) == IF Ends(i) THEN <<"source_target_overlap">> ELSE << >>
             b(i) == IF SourceConflict(u, i) THEN <<"source_conflict">> ELSE << >>
             pairs == [i \in DOMAIN u |-> a(i) \o b(i)]
  <1>d. DOMAIN u = 1..Len(u) /\ Len(u) \in Nat
    BY SMTT(30)
  <1>2. ASSUME NEW i \in 1..Len(u)
        PROVE  /\ pairs[i] \in Seq(Codes)
               /\ \A c \in Range(pairs[i]) : c \notin Warnings
               /\ (\E c : c \in Range(pairs[i])) <=> Ends(i) \/ SourceConflict(u, i)
    <2>1. a(i) \in Seq(Codes) /\ Range(a(i)) = IF Ends(i) THEN {"source_target_overlap"} ELSE {}
      BY <1>u
    <2>2. b(i) \in Seq(Codes) /\ Range(b(i)) = IF SourceConflict(u, i) THEN {"source_conflict"} ELSE {}
      BY <1>u
    <2>3. pairs[i] = a(i) \o b(i)
      BY <1>d
    <2> HIDE DEF a, b, pairs, Ends
    <2>4. pairs[i] \in Seq(Codes) /\ Range(pairs[i]) = Range(a(i)) \cup Range(b(i))
      BY <2>1, <2>2, <2>3, CodesJoined
    <2>5. "source_target_overlap" \notin Warnings /\ "source_conflict" \notin Warnings
      BY <1>u
    <2> QED
      BY <2>1, <2>2, <2>4, <2>5, SMTT(30)
  <1>3. pairs \in Seq(Seq(Codes)) /\ Len(pairs) = Len(u)
    <2>1. DOMAIN pairs = 1..Len(u)
      BY <1>d
    <2>2. pairs = [i \in 1..Len(u) |-> pairs[i]]
      BY <1>d
    <2> HIDE DEF pairs
    <2> QED
      BY <1>d, <1>2, <2>1, <2>2, SMTT(30)
  <1>4. c2 = Flatten(pairs)
    OBVIOUS
  <1> HIDE DEF pairs, a, b
  <1>5. c2 \in Seq(Codes) /\ \A c : c \in Range(c2) <=> \E i \in 1..Len(u) : c \in Range(pairs[i])
    BY <1>3, <1>4, FlattenFacts
  <1>6. /\ \A c \in Range(c2) : c \notin Warnings
        /\ (\E c : c \in Range(c2)) <=> \E i \in 1..Len(u) : Ends(i) \/ SourceConflict(u, i)
    BY <1>2, <1>5
  <1>7. c3 \in Seq(Codes) /\ Range(c3) = (IF HasCycle(u) THEN {"cycle"} ELSE {})
    BY <1>u
  <1>8. c4 \in Seq(Codes)
        /\ Range(c4) = (IF picker /\ u = << >> THEN {"file_picker_requires_redirect"} ELSE {})
    BY <1>u
  <1> HIDE DEF c1, c2, c3, c4
  <1>9. c1 \o c2 \in Seq(Codes) /\ Range(c1 \o c2) = Range(c1) \cup Range(c2)
    BY <1>1, <1>5, CodesJoined
  <1> DEFINE d == c1 \o c2
  <1>10. d \o c3 \in Seq(Codes) /\ Range(d \o c3) = Range(d) \cup Range(c3)
    <2> HIDE DEF d
    <2>1. d \in Seq(Codes)
      BY <1>9 DEF d
    <2> QED
      BY <2>1, <1>7, CodesJoined
  <1> DEFINE e == d \o c3
  <1>11. e \o c4 \in Seq(Codes) /\ Range(e \o c4) = Range(e) \cup Range(c4)
    <2> HIDE DEF e
    <2>1. e \in Seq(Codes)
      BY <1>10 DEF e
    <2> QED
      BY <2>1, <1>8, CodesJoined
  <1> DEFINE all == e \o c4
  <1>12. all \in Seq(Codes) /\ Range(all) = Range(c1) \cup Range(c2) \cup Range(c3) \cup Range(c4)
    BY <1>9, <1>10, <1>11
  <1>13. all = c1 \o c2 \o c3 \o c4
    OBVIOUS
  <1> HIDE DEF all, e, d
  <1>14. "cycle" \notin Warnings /\ "file_picker_requires_redirect" \notin Warnings
    BY <1>u
  <1>15. RedirectsApart(u) <=> (\A i \in 1..Len(u) : ~Ends(i) /\ ~SourceConflict(u, i)) /\ ~HasCycle(u)
    BY SMTT(30) DEF RedirectsApart
  <1> HIDE DEF Ends
  <1>16. (\E c \in Range(all) : c \notin Warnings) <=> ~RedirectsApart(u) \/ (picker /\ u = << >>)
    BY <1>1, <1>6, <1>7, <1>8, <1>12, <1>14, <1>15, SMTT(30)
  <1> QED
    BY <1>12, <1>13, <1>16, <1>r

(* What ValidateDeny reports when n entries were dropped and those in d    *)
(* are left.                                                               *)
DenyReport(n, d, u) ==
    [i \in 1..n |-> "deny_redundant"]
    \o CodesFor(u, {i \in DOMAIN u : DenyConflict(d, u[i].source)}, "deny_redirect_conflict")

(* There is an error in it exactly where an entry conflicts with a source. *)
LEMMA DenyCodes ==
  ASSUME NEW n \in Nat, NEW d, NEW u \in Seq(ByteRedirect)
  PROVE  /\ DenyReport(n, d, u) \in Seq(Codes)
         /\ (\E c \in Range(DenyReport(n, d, u)) : c \notin Warnings) <=> ~DenyApart(d, u)
  <1> DEFINE c1 == [i \in 1..n |-> "deny_redundant"]
             c2 == CodesFor(u, {i \in DOMAIN u : DenyConflict(d, u[i].source)},
                            "deny_redirect_conflict")
  <1>r. DenyReport(n, d, u) = c1 \o c2
    BY DEF DenyReport
  <1> DEFINE I == {i \in DOMAIN u : DenyConflict(d, u[i].source)}
  <1>0. "deny_redundant" \in Codes /\ "deny_redirect_conflict" \in Codes
        /\ "deny_redundant" \in Warnings /\ "deny_redirect_conflict" \notin Warnings
    BY DEF Codes, Warnings
  <1>1. c1 \in Seq(Codes)
    BY <1>0, SMTT(30)
  <1>2. \A c \in Range(c1) : c \in Warnings
    BY <1>0 DEF Range
  <1>i. \A i \in 1..Len(u) : i \in I <=> DenyConflict(d, u[i].source)
    BY SMTT(30)
  <1> HIDE DEF I
  <1>3. /\ c2 \in Seq(Codes) /\ Range(c2) \subseteq {"deny_redirect_conflict"}
        /\ Range(c2) # {} <=> \E i \in 1..Len(u) : i \in I
    <2> DEFINE code == "deny_redirect_conflict"
    <2>1. c2 = CodesFor(u, I, code)
      BY DEF I
    <2>2. code \in Codes
      BY <1>0
    <2> HIDE DEF code
    <2>3. LET cs == CodesFor(u, I, code)
          IN  /\ cs \in Seq(Codes) /\ Range(cs) \subseteq {code}
              /\ Range(cs) # {} <=> \E i \in 1..Len(u) : i \in I
      BY <2>2, CodesForFacts
    <2> QED
      BY <2>1, <2>3 DEF code
  <1> HIDE DEF c1, c2
  <1>4. c1 \o c2 \in Seq(Codes) /\ Range(c1 \o c2) = Range(c1) \cup Range(c2)
    BY <1>1, <1>3, CodesJoined
  <1>5. (\E c \in Range(c1 \o c2) : c \notin Warnings) <=> \E c : c \in Range(c2)
    BY <1>0, <1>2, <1>3, <1>4, SMTT(30)
  <1> QED
    BY <1>3, <1>4, <1>5, <1>i, <1>r DEF DenyApart

(* A report keeps the errors there were, adds those among the codes, and   *)
(* stays quiet only if both were.                                          *)
LEMMA ReportFacts ==
  ASSUME NEW kept \in Seq(Codes), Len(kept) <= MaxDiagnostics, NEW codes \in Seq(Codes),
         NEW d, d = AddDiagnostic(kept, codes)
  PROVE  /\ d \in Seq(Codes) /\ Len(d) <= MaxDiagnostics
         /\ HasErrors(kept) => HasErrors(d)
         /\ HasErrors(d) => HasErrors(kept) \/ \E c \in Range(codes) : c \notin Warnings
         /\ Quiet(d) => Quiet(kept) /\ \A c \in Range(codes) : c \in Warnings
  <1>1. /\ d \in Seq(Codes) /\ Len(d) <= MaxDiagnostics
        /\ Range(d) \subseteq Range(kept) \cup Range(codes)
        /\ Range(kept) \subseteq Range(d)
        /\ Len(d) < MaxDiagnostics => Len(kept) < MaxDiagnostics /\ Range(codes) \subseteq Range(d)
    BY AddDiagnosticFacts
  <1>2. /\ HasErrors(kept) <=> \E c \in Range(kept) : c \notin Warnings
        /\ HasErrors(d) <=> \E c \in Range(d) : c \notin Warnings
    BY <1>1, ErrorsInRange
  <1> QED
    BY <1>1, <1>2 DEF Quiet

(* What a section can be refused for is settled by the section. *)
LEMMA SectionStays ==
  ASSUME input' = input
  PROVE  /\ Rs' = Rs /\ Ds' = Ds
         /\ BadRule' <=> BadRule
         /\ Refusable' <=> Refusable
  <1>1. Rs' = Rs /\ Ds' = Ds
    BY DEF Rs, Ds
  <1>2. SectionPaths' = SectionPaths
    BY <1>1 DEF SectionPaths
  <1>3. BadRule' <=> BadRule
    BY <1>2 DEF BadRule
  <1>4. Cyclic' <=> Cyclic
    BY <1>1 DEF Cyclic
  <1>5. Conflicting' <=> Conflicting
    BY <1>1, <1>4 DEF Conflicting
  <1>6. Refusable' <=> Refusable
    BY <1>1, <1>2, <1>5 DEF Refusable
  <1> QED
    BY <1>1, <1>3, <1>6

(* A bad rule is a reason to refuse the section. *)
LEMMA BadRuleRefusable ==
  ASSUME BadRule
  PROVE  Refusable
  BY DEF BadRule, Refusable

(* NormalizeSection keeps the invariant. *)
LEMMA NormalizeKeeps ==
  ASSUME Inv, NormalizeSection
  PROVE  Inv'
  <1> DEFINE cd == [i \in DOMAIN input.deny |-> RuleCode({input.deny[i]})]
             cr == [i \in DOMAIN input.redirects |-> RuleCode(RedirectPaths(input.redirects[i]))]
             kd == Pick(input.deny, {i \in DOMAIN cd : cd[i] = << >>})
             kr == Pick(input.redirects, {i \in DOMAIN cr : cr[i] = << >>})
             fd == Flatten(cd)
             fr == Flatten(cr)
             codes == fd \o fr
             D == input.deny
             R == input.redirects
  <1>0. /\ phase = "normalize" /\ phase' = "redirects" /\ input' = input
        /\ app' = [deny |-> kd, redirects |-> kr]
        /\ diagnostics' = AddDiagnostic(diagnostics, codes)
    BY DEF NormalizeSection, Report
  <1>1. /\ D \in Seq(ByteString) /\ R \in Seq(ByteRedirect)
        /\ diagnostics \in Seq(Codes) /\ Len(diagnostics) <= MaxDiagnostics
        /\ input \in Section /\ (HasErrors(diagnostics) => Refusable)
    BY <1>0 DEF Inv, ListsOK, Section
  <1>s. /\ Rs' = Rs /\ Ds' = Ds /\ (BadRule' <=> BadRule) /\ (Refusable' <=> Refusable)
    BY <1>0, SectionStays
  <1>r. Ds = Range(D) /\ Rs = Range(R)
    BY DEF Ds, Rs
  <1>d. DOMAIN D = 1..Len(D) /\ DOMAIN R = 1..Len(R)
    BY <1>1, SMTT(30)
  <1>p. /\ \A i \in 1..Len(D) : D[i] \in Ds
        /\ \A i \in 1..Len(R) : R[i] \in Rs
    BY <1>1, <1>r, ListRange, SMTT(30)
  <1>2. ASSUME NEW i \in 1..Len(D)
        PROVE  /\ cd[i] \in {<< >>, <<"resource_limit">>, <<"path_invalid">>}
               /\ cd[i] # << >> => BadRule
    <2>1. cd[i] = RuleCode({D[i]})
      BY <1>d
    <2>2. \A p \in {D[i]} : p \in SectionPaths
      BY <1>p DEF SectionPaths
    <2> HIDE DEF cd, D
    <2> QED
      BY <2>1, <2>2, RuleCodeFacts DEF BadRule
  <1>3. ASSUME NEW i \in 1..Len(R)
        PROVE  /\ cr[i] \in {<< >>, <<"resource_limit">>, <<"path_invalid">>}
               /\ cr[i] # << >> => BadRule
    <2>1. cr[i] = RuleCode(RedirectPaths(R[i]))
      BY <1>d
    <2>2. \A p \in RedirectPaths(R[i]) : p \in SectionPaths
      BY <1>p DEF SectionPaths
    <2> HIDE DEF cr, R
    <2> QED
      BY <2>1, <2>2, RuleCodeFacts DEF BadRule
  <1>4. /\ cd \in [1..Len(D) -> {<< >>, <<"resource_limit">>, <<"path_invalid">>}]
        /\ cr \in [1..Len(R) -> {<< >>, <<"resource_limit">>, <<"path_invalid">>}]
    BY <1>d, <1>2, <1>3
  <1> HIDE DEF cd, cr, D, R
  <1>5. /\ kd \in Seq(ByteString) /\ Range(kd) \subseteq Ds
        /\ fd \in Seq(Codes) /\ Range(fd) \subseteq {"resource_limit", "path_invalid"}
        /\ Range(fd) # {} <=> \E i \in 1..Len(D) : cd[i] # << >>
        /\ (\A i \in 1..Len(D) : cd[i] = << >>) => Range(kd) = Ds
    <2>1. Normalized(ByteString, D, cd, Pick(D, {i \in DOMAIN cd : cd[i] = << >>}), fd)
      BY <1>1, <1>4, NormalizedList
    <2>2. Normalized(ByteString, D, cd, kd, fd)
      BY <2>1 DEF D
    <2> HIDE DEF kd, fd
    <2> QED
      BY <1>r, <2>2 DEF Normalized
  <1>6. /\ kr \in Seq(ByteRedirect) /\ Range(kr) \subseteq Rs
        /\ fr \in Seq(Codes) /\ Range(fr) \subseteq {"resource_limit", "path_invalid"}
        /\ Range(fr) # {} <=> \E i \in 1..Len(R) : cr[i] # << >>
        /\ (\A i \in 1..Len(R) : cr[i] = << >>) => Range(kr) = Rs
    <2>1. Normalized(ByteRedirect, R, cr, Pick(R, {i \in DOMAIN cr : cr[i] = << >>}), fr)
      BY <1>1, <1>4, NormalizedList
    <2>2. Normalized(ByteRedirect, R, cr, kr, fr)
      BY <2>1 DEF R
    <2> HIDE DEF kr, fr
    <2> QED
      BY <1>r, <2>2 DEF Normalized
  <1> HIDE DEF kd, kr, fd, fr
  <1>7. codes \in Seq(Codes) /\ Range(codes) = Range(fd) \cup Range(fr)
    BY <1>5, <1>6, CodesJoined
  <1>8. /\ \A c \in Range(codes) : c \notin Warnings
        /\ Range(codes) # {} => BadRule
        /\ Range(codes) = {} => Range(kd) = Ds /\ Range(kr) = Rs
    <2>2. "resource_limit" \notin Warnings /\ "path_invalid" \notin Warnings
      BY SMTT(30) DEF Warnings
    <2>3. \A c \in Range(codes) : c \notin Warnings
      BY <1>5, <1>6, <1>7, <2>2, SMTT(30)
    <2>4. Range(codes) # {} => BadRule
      BY <1>2, <1>3, <1>5, <1>6, <1>7
    <2>5. Range(codes) = {} => Range(kd) = Ds /\ Range(kr) = Rs
      BY <1>5, <1>6, <1>7, SMTT(30)
    <2> QED
      BY <2>3, <2>4, <2>5
  <1> HIDE DEF codes
  <1>9. /\ diagnostics' \in Seq(Codes) /\ Len(diagnostics') <= MaxDiagnostics
        /\ HasErrors(diagnostics') => HasErrors(diagnostics) \/ \E c \in Range(codes) : c \notin Warnings
        /\ Quiet(diagnostics') => \A c \in Range(codes) : c \in Warnings
    BY <1>0, <1>1, <1>7, ReportFacts
  <1>10. app'.deny = kd /\ app'.redirects = kr
         /\ app' \in [deny : Seq(ByteString), redirects : Seq(ByteRedirect)]
    BY <1>0, <1>5, <1>6, SMTT(30)
  <1>11. ListsOK'
    BY <1>0, <1>1, <1>5, <1>6, <1>9, <1>10, <1>s DEF ListsOK
  <1>12. Range(codes) = {} => Whole'
    <2> SUFFICES ASSUME Range(codes) = {} PROVE Whole'
      OBVIOUS
    <2>1. Range(app'.redirects) = Rs' /\ Range(app'.deny) = Ds'
      BY <1>8, <1>10, <1>s
    <2>2. \A d \in Ds' : IsSameOrAncestor(d, d)
      BY DEF IsSameOrAncestor
    <2> QED
      BY <2>1, <2>2 DEF Whole
  <1>13. Range(codes) # {} => BadRule' /\ ~Quiet(diagnostics')
    BY <1>8, <1>9, <1>s
  <1>14. HasErrors(diagnostics') => Refusable'
    BY <1>1, <1>8, <1>9, <1>s, BadRuleRefusable
  <1>15. phase' # "normalize" /\ phase' \notin {"deny", "encode", "accepted"} /\ phase' # "rejected"
         /\ phase' # "accepted" /\ phase' \notin {"encode", "accepted"}
    BY <1>0
  <1> QED
    BY <1>11, <1>12, <1>13, <1>14, <1>15 DEF Inv

(* The byte tests on the ends of redirects decide nesting. *)
LEMMA NestedIsOverlap ==
  ASSUME NEW p \in ByteString, NEW q \in ByteString
  PROVE  Nested(p, q) <=> PathsOverlap(p, q)
  BY InsideIsAncestor DEF Nested, PathsOverlap

(* What ValidateRedirects refuses is a conflict of the section. *)
LEMMA RedirectsJustified ==
  ASSUME NEW u \in Seq(ByteRedirect), Range(u) \subseteq Rs, InOrderOnce(u), ~RedirectsApart(u)
  PROVE  Conflicting
  <1>0. Len(u) \in Nat /\ \A i \in 1..Len(u) : u[i] \in ByteRedirect /\ u[i] \in Rs
    BY ListRange, SMTT(30)
  <1>1. \A i \in 1..Len(u) : u[i].source \in ByteString /\ u[i].target \in ByteString
    BY <1>0 DEF ByteRedirect
  <1>2. ASSUME NEW i \in 1..Len(u), PathsOverlap(u[i].source, u[i].target) PROVE Conflicting
    <2>1. Nested(u[i].source, u[i].target)
      BY <1>1, <1>2, NestedIsOverlap
    <2> QED
      BY <1>0, <2>1 DEF Conflicting
  <1>3. ASSUME NEW i \in 1..Len(u), SourceConflict(u, i) PROVE Conflicting
    <2>1. i > 1 /\ PathsOverlap(u[i - 1].source, u[i].source)
      BY <1>3 DEF SourceConflict
    <2> DEFINE k == i - 1
    <2>2. k \in 1..Len(u) /\ k < i
      BY <1>0, <2>1, SMTT(30)
    <2>3. PathsOverlap(u[k].source, u[i].source)
      BY <2>1
    <2> HIDE DEF k
    <2>4. Nested(u[k].source, u[i].source)
      BY <1>1, <2>2, <2>3, NestedIsOverlap
    <2>5. RedirectLess(u[k], u[i])
      BY <2>2 DEF InOrderOnce
    <2>6. u[k] # u[i]
      BY <1>0, <2>2, <2>5, RedirectOrder
    <2> QED
      BY <1>0, <2>2, <2>4, <2>6 DEF Conflicting
  <1>4. ASSUME HasCycle(u) PROVE Conflicting
    <2>1. PICK S \in SUBSET Range(u) : LeadsBack(S)
      BY <1>4, CycleFacts
    <2>2. S \in SUBSET Rs
      BY <2>1
    <2>3. Cyclic
      BY <2>1, <2>2, SMTT(30) DEF Cyclic, LeadsBack
    <2> QED
      BY <2>3 DEF Conflicting
  <1> QED
    BY <1>2, <1>3, <1>4 DEF RedirectsApart

(* ValidateRedirects keeps the invariant. *)
LEMMA RedirectsKeep ==
  ASSUME Inv, ValidateRedirects
  PROVE  Inv'
  <1> DEFINE r == app.redirects
             sorted == Sort(app.redirects, RedirectLess)
             u == DropDuplicates(sorted)
             picker == input.flags.file_picker
             c1 == CodesFor(sorted, Repeats(sorted), "duplicate_redirect")
             c2 == Flatten([i \in DOMAIN u |->
                        (IF PathsOverlap(u[i].source, u[i].target)
                         THEN <<"source_target_overlap">> ELSE << >>)
                        \o (IF SourceConflict(u, i) THEN <<"source_conflict">> ELSE << >>)])
             c3 == IF HasCycle(u) THEN <<"cycle">> ELSE << >>
             c4 == IF picker /\ u = << >> THEN <<"file_picker_requires_redirect">> ELSE << >>
             codes == c1 \o c2 \o c3 \o c4
  <1>0. /\ phase = "redirects" /\ phase' = "deny" /\ input' = input
        /\ app' = [app EXCEPT !.redirects = u]
        /\ diagnostics' = AddDiagnostic(diagnostics, codes)
    BY DEF ValidateRedirects, Report
  <1>1. /\ r \in Seq(ByteRedirect) /\ app.deny \in Seq(ByteString)
        /\ app \in [deny : Seq(ByteString), redirects : Seq(ByteRedirect)]
        /\ diagnostics \in Seq(Codes) /\ Len(diagnostics) <= MaxDiagnostics
        /\ input \in Section
        /\ picker \in BOOLEAN
        /\ Range(app.deny) \subseteq Ds /\ Range(r) \subseteq Rs
    BY DEF Inv, ListsOK, Section
  <1>2. /\ Whole \/ (BadRule /\ ~Quiet(diagnostics))
        /\ HasErrors(diagnostics) => Refusable
    BY <1>0 DEF Inv
  <1>s. /\ Rs' = Rs /\ Ds' = Ds /\ (BadRule' <=> BadRule) /\ (Refusable' <=> Refusable)
    BY <1>0, SectionStays
  <1>3. /\ sorted \in Seq(ByteRedirect) /\ Range(sorted) = Range(r)
        /\ \A i, j \in 1..Len(sorted) : i < j => ~RedirectLess(sorted[j], sorted[i])
    BY <1>1, SortedRedirects
  <1> HIDE DEF sorted
  <1>4. /\ u \in Seq(ByteRedirect) /\ Range(u) = Range(r)
        /\ \A i, j \in 1..Len(u) : i < j => RedirectLess(u[i], u[j])
    BY <1>3, DropFacts
  <1> HIDE DEF u
  <1>5. InOrderOnce(u)
    BY <1>4 DEF InOrderOnce
  <1>6. /\ codes \in Seq(Codes)
        /\ (\E c \in Range(codes) : c \notin Warnings) <=>
              ~RedirectsApart(u) \/ (picker /\ u = << >>)
    <2>1. codes = RedirectReport(sorted, u, picker)
      BY DEF RedirectReport
    <2> HIDE DEF picker, codes
    <2>2. picker \in BOOLEAN
      BY <1>1, SMTT(30)
    <2> QED
      BY <1>3, <1>4, <2>1, <2>2, RedirectCodes
  <1> HIDE DEF c1, c2, c3, c4, codes
  <1>7. /\ diagnostics' \in Seq(Codes) /\ Len(diagnostics') <= MaxDiagnostics
        /\ HasErrors(diagnostics) => HasErrors(diagnostics')
        /\ HasErrors(diagnostics') => HasErrors(diagnostics) \/ \E c \in Range(codes) : c \notin Warnings
        /\ Quiet(diagnostics') => Quiet(diagnostics) /\ \A c \in Range(codes) : c \in Warnings
    BY <1>0, <1>1, <1>6, ReportFacts
  <1>8. /\ app'.deny = app.deny /\ app'.redirects = u
        /\ app' \in [deny : Seq(ByteString), redirects : Seq(ByteRedirect)]
    BY <1>0, <1>1, <1>4
  <1>9. ListsOK'
    BY <1>0, <1>1, <1>4, <1>7, <1>8, <1>s, SMTT(30) DEF ListsOK
  <1>10. Whole => Whole'
    BY <1>4, <1>8, <1>s DEF Whole
  <1>11. ASSUME picker, u = << >> PROVE Refusable
    <2>1. Range(u) = {}
      <3>1. "cycle" \in Codes
        BY DEF Codes
      <3> QED
        BY <1>11, <3>1, UnitLists
    <2>2. CASE Whole
      <3>1. Rs = {}
        BY <1>4, <2>1, <2>2 DEF Whole
      <3> QED
        BY <1>11, <3>1 DEF Refusable
    <2> QED
      BY <1>2, <2>2, BadRuleRefusable
  <1>12. ~RedirectsApart(u) => Refusable
    <2>1. ~RedirectsApart(u) => Conflicting
      BY <1>1, <1>4, <1>5, RedirectsJustified, SMTT(30)
    <2> QED
      BY <2>1, SMTT(30) DEF Refusable
  <1>13. HasErrors(diagnostics') => Refusable'
    BY <1>2, <1>6, <1>7, <1>11, <1>12, <1>s
  <1>14. Quiet(diagnostics') => RedirectsApart(u)
    BY <1>6, <1>7, SMTT(30)
  <1>15. phase' # "normalize" /\ phase' # "rejected" /\ phase' # "accepted"
         /\ phase' \notin {"encode", "accepted"}
    BY <1>0, SMTT(30)
  <1> QED
    BY <1>2, <1>5, <1>7, <1>8, <1>9, <1>10, <1>13, <1>14, <1>15, <1>s DEF Inv

(* ValidateDeny keeps the invariant. *)
LEMMA DenyKeeps ==
  ASSUME Inv, ValidateDeny
  PROVE  Inv'
  <1> DEFINE r == app.redirects
             sorted == Sort(app.deny, BytesLess)
             u == FoldDeny(sorted)
             n == Len(sorted) - Len(u)
             c1 == [i \in 1..n |-> "deny_redundant"]
             c2 == CodesFor(r, {i \in DOMAIN r : DenyConflict(u, r[i].source)},
                            "deny_redirect_conflict")
             codes == c1 \o c2
  <1>0. /\ phase = "deny" /\ phase' = "encode" /\ input' = input
        /\ app' = [app EXCEPT !.deny = u]
        /\ diagnostics' = AddDiagnostic(diagnostics, codes)
    BY DEF ValidateDeny, Report
  <1>1. /\ r \in Seq(ByteRedirect) /\ app.deny \in Seq(ByteString)
        /\ app \in [deny : Seq(ByteString), redirects : Seq(ByteRedirect)]
        /\ diagnostics \in Seq(Codes) /\ Len(diagnostics) <= MaxDiagnostics
        /\ input \in Section
        /\ Range(app.deny) \subseteq Ds /\ Range(r) \subseteq Rs
    BY DEF Inv, ListsOK, Section
  <1>2. /\ Whole \/ (BadRule /\ ~Quiet(diagnostics))
        /\ HasErrors(diagnostics) => Refusable
        /\ InOrderOnce(r) /\ (Quiet(diagnostics) => RedirectsApart(r))
    BY <1>0 DEF Inv
  <1>s. /\ Rs' = Rs /\ Ds' = Ds /\ (BadRule' <=> BadRule) /\ (Refusable' <=> Refusable)
    BY <1>0, SectionStays
  <1>b. Ds \subseteq ByteString /\ \A x \in Rs : x \in ByteRedirect /\ x.source \in ByteString
    <2>1. Range(input.deny) \subseteq ByteString /\ Range(input.redirects) \subseteq ByteRedirect
      BY <1>1, ListRange DEF Section
    <2> QED
      BY <2>1 DEF Ds, Rs, ByteRedirect
  <1>3. /\ sorted \in Seq(ByteString) /\ Range(sorted) = Range(app.deny) /\ Ascending(sorted)
    BY <1>1, SortedBytes
  <1> HIDE DEF sorted
  <1>4. /\ u \in Seq(ByteString) /\ Folded(u) /\ Len(u) <= Len(sorted)
        /\ Range(u) \subseteq Range(app.deny)
        /\ \A d \in Range(app.deny) : \E c \in Range(u) : IsSameOrAncestor(c, d)
    BY <1>3, FoldFacts
  <1> HIDE DEF u
  <1>5. n \in Nat
    BY <1>3, <1>4, SMTT(30)
  <1> HIDE DEF n
  <1>6. codes \in Seq(Codes) /\ ((\E c \in Range(codes) : c \notin Warnings) <=> ~DenyApart(u, r))
    <2>1. codes = DenyReport(n, u, r)
      BY DEF DenyReport
    <2> HIDE DEF codes, r
    <2>2. r \in Seq(ByteRedirect)
      BY <1>1
    <2> QED
      BY <1>5, <2>1, <2>2, DenyCodes
  <1> HIDE DEF c1, c2, codes
  <1>7. /\ diagnostics' \in Seq(Codes) /\ Len(diagnostics') <= MaxDiagnostics
        /\ HasErrors(diagnostics) => HasErrors(diagnostics')
        /\ HasErrors(diagnostics') => HasErrors(diagnostics) \/ \E c \in Range(codes) : c \notin Warnings
        /\ Quiet(diagnostics') => Quiet(diagnostics) /\ \A c \in Range(codes) : c \in Warnings
    BY <1>0, <1>1, <1>6, ReportFacts
  <1>8. /\ app'.deny = u /\ app'.redirects = r
        /\ app' \in [deny : Seq(ByteString), redirects : Seq(ByteRedirect)]
    BY <1>0, <1>1, <1>4
  <1>9. ListsOK'
    <2>1. Range(u) \subseteq Ds
      BY <1>1, <1>4
    <2> QED
      BY <1>0, <1>1, <2>1, <1>7, <1>8, <1>s DEF ListsOK
  <1>10. Whole => Whole'
    <2> SUFFICES ASSUME Whole PROVE Whole'
      OBVIOUS
    <2>1. ASSUME NEW d \in Ds PROVE \E e \in Range(u) : IsSameOrAncestor(e, d)
      <3>1. PICK f \in Range(app.deny) : IsSameOrAncestor(f, d)
        BY DEF Whole
      <3>2. PICK e \in Range(u) : IsSameOrAncestor(e, f)
        BY <1>4, <3>1
      <3>3. d \in ByteString /\ f \in ByteString /\ e \in ByteString
        BY <1>1, <1>4, <1>b, <3>1, <3>2
      <3> QED
        BY <3>1, <3>2, <3>3, AncestorTransitive
    <2>2. Range(r) = Rs
      BY DEF Whole
    <2> QED
      BY <1>8, <1>s, <2>1, <2>2 DEF Whole
  <1>11. ~DenyApart(u, r) => Refusable
    <2> SUFFICES ASSUME ~DenyApart(u, r) PROVE Refusable
      OBVIOUS
    <2>1. PICK i \in 1..Len(r) : DenyConflict(u, r[i].source)
      BY DEF DenyApart
    <2>2. r[i] \in Range(r)
      BY <1>1, <2>1, ListRange, SMTT(30)
    <2>3. r[i] \in Rs /\ r[i].source \in ByteString
      BY <1>1, <1>b, <2>2, SMTT(30)
    <2>4. PICK c \in Range(u) : IsSameOrAncestor(c, r[i].source)
      BY <1>4, <2>1, <2>3, DenyConflictFacts
    <2>5. c \in Ds /\ c \in ByteString
      BY <1>1, <1>4, <1>b, <2>4
    <2>6. Inside(c, r[i].source)
      BY <2>3, <2>4, <2>5, InsideIsAncestor
    <2>7. Conflicting
      BY <2>3, <2>5, <2>6 DEF Conflicting
    <2> QED
      BY <2>7 DEF Refusable
  <1>12. HasErrors(diagnostics') => Refusable'
    BY <1>2, <1>6, <1>7, <1>11, <1>s, SMTT(30)
  <1>13. Quiet(diagnostics') => RedirectsApart(r) /\ DenyApart(u, r)
    BY <1>2, <1>6, <1>7
  <1>14. phase' # "normalize" /\ phase' # "rejected" /\ phase' # "accepted"
    BY <1>0
  <1> QED
    BY <1>2, <1>4, <1>7, <1>8, <1>9, <1>10, <1>12, <1>13, <1>14, <1>s DEF Inv

(* The rules of the document are those of the two lists, deny entries      *)
(* first.                                                                  *)
LEMMA DocumentFacts ==
  ASSUME NEW a, a.deny \in Seq(ByteString), a.redirects \in Seq(ByteRedirect)
  PROVE  LET rules == ToPolicyDocument(a)
             n == Len(a.deny)
             m == Len(a.redirects)
         IN  /\ rules \in Seq(ByteRule) /\ Len(rules) = n + m
             /\ \A i \in 1..n : rules[i] = DenyRule(a.deny[i])
             /\ \A i \in 1..(n + m) : i > n => i - n \in 1..m /\ rules[i] = RedirectRule(a.redirects[i - n])
             /\ \A k \in 1..m : n + k \in 1..(n + m) /\ rules[n + k] = RedirectRule(a.redirects[k])
  <1> DEFINE n == Len(a.deny)
             m == Len(a.redirects)
             s == [i \in 1..n |-> DenyRule(a.deny[i])]
             t == [i \in 1..m |-> RedirectRule(a.redirects[i])]
  <1>0. n \in Nat /\ m \in Nat
    BY SMTT(30)
  <1>1. ASSUME NEW p \in ByteString PROVE DenyRule(p) \in ByteRule
    BY SMTT(30) DEF DenyRule, ByteRule, ByteString
  <1>2. ASSUME NEW r \in ByteRedirect PROVE RedirectRule(r) \in ByteRule
    BY DEF RedirectRule, ByteRule, ByteRedirect
  <1>3. (\A i \in 1..n : a.deny[i] \in ByteString) /\ \A i \in 1..m : a.redirects[i] \in ByteRedirect
    BY SMTT(30)
  <1> HIDE DEF n, m
  <1>4. s \in Seq(ByteRule) /\ Len(s) = n /\ \A i \in 1..n : s[i] = DenyRule(a.deny[i])
    BY <1>0, <1>1, <1>3, SMTT(30)
  <1>5. t \in Seq(ByteRule) /\ Len(t) = m /\ \A i \in 1..m : t[i] = RedirectRule(a.redirects[i])
    BY <1>0, <1>2, <1>3, SMTT(30)
  <1>6. ToPolicyDocument(a) = s \o t
    BY DEF ToPolicyDocument, n, m
  <1> HIDE DEF s, t
  <1>7. /\ s \o t \in Seq(ByteRule) /\ Len(s \o t) = n + m
        /\ \A i \in 1..n : (s \o t)[i] = s[i]
        /\ \A i \in 1..(n + m) : i > n => (s \o t)[i] = t[i - n]
    <2>1. s \o t \in Seq(ByteRule) /\ Len(s \o t) = Len(s) + Len(t)
      BY <1>4, <1>5, RangeOfJoin
    <2>2. ASSUME NEW i \in 1..Len(s) PROVE (s \o t)[i] = s[i]
      BY <1>4, <1>5, SMTT(30)
    <2>3. ASSUME NEW i \in 1..(Len(s) + Len(t)), i > Len(s) PROVE (s \o t)[i] = t[i - Len(s)]
      <3>1. Len(s) \in Nat /\ Len(t) \in Nat /\ s \in Seq(ByteRule) /\ t \in Seq(ByteRule)
        BY <1>4, <1>5, SMTT(30)
      <3>2. i \in 1..Len(s \o t) /\ ~(i <= Len(s))
        BY <2>1, <2>3, <3>1, SMTT(30)
      <3> QED
        BY <3>1, <3>2, SMTT(30)
    <2> QED
      BY <1>4, <1>5, <2>1, <2>2, <2>3, SMTT(30)
  <1>8. /\ \A i \in 1..(n + m) : i > n => i - n \in 1..m
        /\ \A k \in 1..m : n + k \in 1..(n + m) /\ n + k > n /\ n + k - n = k
    BY <1>0, SMTT(30)
  <1>9. ASSUME NEW i \in 1..(n + m), i > n PROVE (s \o t)[i] = RedirectRule(a.redirects[i - n])
    BY <1>5, <1>7, <1>8, <1>9
  <1>10. ASSUME NEW k \in 1..m PROVE (s \o t)[n + k] = RedirectRule(a.redirects[k])
    <2> DEFINE i == n + k
    <2>1. i \in 1..(n + m) /\ i > n /\ i - n = k
      BY <1>0, SMTT(30)
    <2> HIDE DEF i
    <2>2. (s \o t)[i] = RedirectRule(a.redirects[k])
      BY <1>9, <2>1
    <2> QED
      BY <2>2 DEF i
  <1> QED
    BY <1>4, <1>6, <1>7, <1>8, <1>9, <1>10 DEF n, m

(* The rules of the document, whatever their order. *)
LEMMA DocumentRange ==
  ASSUME NEW a, a.deny \in Seq(ByteString), a.redirects \in Seq(ByteRedirect)
  PROVE  \A x : x \in Range(ToPolicyDocument(a)) <=>
                  \/ \E d \in Range(a.deny) : x = DenyRule(d)
                  \/ \E r \in Range(a.redirects) : x = RedirectRule(r)
  <1> DEFINE rules == ToPolicyDocument(a)
             n == Len(a.deny)
             m == Len(a.redirects)
  <1>0. n \in Nat /\ m \in Nat
    BY SMTT(30)
  <1>1. /\ rules \in Seq(ByteRule) /\ Len(rules) = n + m
        /\ \A i \in 1..n : rules[i] = DenyRule(a.deny[i])
        /\ \A i \in 1..(n + m) : i > n => i - n \in 1..m /\ rules[i] = RedirectRule(a.redirects[i - n])
        /\ \A k \in 1..m : n + k \in 1..(n + m) /\ rules[n + k] = RedirectRule(a.redirects[k])
    BY DocumentFacts
  <1>2. /\ Range(a.deny) = {a.deny[i] : i \in 1..n}
        /\ Range(a.redirects) = {a.redirects[i] : i \in 1..m}
    BY ListRange
  <1> HIDE DEF rules, n, m
  <1>3. Range(rules) = {rules[i] : i \in 1..(n + m)}
    BY <1>1, ListRange
  <1>4. /\ \A i \in 1..(n + m) : i > n \/ i \in 1..n
        /\ \A i \in 1..n : i \in 1..(n + m)
    BY <1>0, SMTT(30)
  <1>5. ASSUME NEW x \in Range(rules)
        PROVE  \/ \E d \in Range(a.deny) : x = DenyRule(d)
               \/ \E r \in Range(a.redirects) : x = RedirectRule(r)
    <2>1. PICK i \in 1..(n + m) : x = rules[i]
      BY <1>3, <1>5
    <2>2. CASE i \in 1..n
      BY <1>1, <1>2, <2>1, <2>2
    <2>3. CASE i > n
      BY <1>1, <1>2, <2>1, <2>3, SMTT(30)
    <2> QED
      BY <1>4, <2>2, <2>3
  <1>6. ASSUME NEW d \in Range(a.deny) PROVE DenyRule(d) \in Range(rules)
    <2>1. PICK i \in 1..n : d = a.deny[i]
      BY <1>2, <1>6
    <2> QED
      BY <1>1, <1>3, <1>4, <2>1
  <1>7. ASSUME NEW r \in Range(a.redirects) PROVE RedirectRule(r) \in Range(rules)
    <2>1. PICK i \in 1..m : r = a.redirects[i]
      BY <1>2, <1>7
    <2> QED
      BY <1>1, <1>3, <2>1
  <1> QED
    BY <1>5, <1>6, <1>7 DEF rules

(* The paths of the lists are paths of the section. *)
LEMMA PathsOfSection ==
  ASSUME ListsOK
  PROVE  /\ Ds \subseteq ByteString
         /\ \A r \in Rs : r \in ByteRedirect /\ r.source \in ByteString /\ r.target \in ByteString
         /\ Ds \subseteq SectionPaths
         /\ \A r \in Rs : r.source \in SectionPaths /\ r.target \in SectionPaths
  <1>1. input.deny \in Seq(ByteString) /\ input.redirects \in Seq(ByteRedirect)
    BY DEF ListsOK, Section
  <1>2. Ds \subseteq ByteString /\ Rs \subseteq ByteRedirect
    BY <1>1, ListRange DEF Ds, Rs
  <1>3. \A r \in Rs : r.source \in ByteString /\ r.target \in ByteString
    BY <1>2 DEF ByteRedirect
  <1>4. \A r \in Rs : r.source \in SectionPaths /\ r.target \in SectionPaths
    BY DEF SectionPaths, RedirectPaths
  <1>5. Ds \subseteq SectionPaths
    BY DEF SectionPaths
  <1> QED
    BY <1>2, <1>3, <1>4, <1>5

(* A document the encoder does not take comes from a section that gives    *)
(* reason for it.                                                          *)
LEMMA EncoderJustified ==
  ASSUME Inv, phase = "encode", ~HasErrors(diagnostics), ~ValidatePolicy(ToPolicyDocument(app))
  PROVE  Refusable
  <1> SUFFICES ASSUME ~Refusable PROVE FALSE
    OBVIOUS
  <1> DEFINE rules == ToPolicyDocument(app)
             d == app.deny
             r == app.redirects
             n == Len(d)
             m == Len(r)
  <1>w. Whole
    BY BadRuleRefusable, SMTT(30) DEF Inv
  <1>1. /\ ListsOK /\ InOrderOnce(r) /\ Folded(d)
        /\ d \in Seq(ByteString) /\ r \in Seq(ByteRedirect)
        /\ Range(d) \subseteq Ds /\ Range(r) = Rs
    BY <1>w DEF Inv, ListsOK, Whole
  <1>0. /\ n \in Nat /\ m \in Nat
        /\ \A i \in 1..n : d[i] \in ByteString /\ d[i] \in Range(d)
        /\ \A i \in 1..m : r[i] \in ByteRedirect /\ r[i] \in Range(r)
    BY <1>1, ListRange, SMTT(30)
  <1>2. /\ Ds \subseteq ByteString /\ Ds \subseteq SectionPaths
        /\ \A x \in Rs : x.source \in ByteString /\ x.source \in SectionPaths /\ x.target \in SectionPaths
    BY <1>1, PathsOfSection
  <1>3. /\ rules \in Seq(ByteRule) /\ Len(rules) = n + m
        /\ \A i \in 1..n : rules[i] = DenyRule(d[i])
        /\ \A i \in 1..(n + m) : i > n => i - n \in 1..m /\ rules[i] = RedirectRule(r[i - n])
        /\ \A k \in 1..m : n + k \in 1..(n + m) /\ rules[n + k] = RedirectRule(r[k])
    BY <1>1, DocumentFacts
  <1>4. /\ \A p \in Ds : NormalizeVisible(p)
        /\ \A x \in Rs : NormalizeVisible(x.source) /\ NormalizeBacking(x.target)
        /\ ~Conflicting
        /\ ~(input.flags.file_picker /\ (input.flags.all_users \/ Rs = {}))
    BY DEF Refusable
  <1>v. ~ValidatePolicy(rules)
    OBVIOUS
  <1> HIDE DEF rules, d, r, n, m
  <1>d. DOMAIN rules = 1..(n + m) /\ \A i \in 1..(n + m) : i \in 1..n \/ i > n
    BY <1>0, <1>3, SMTT(30)
  <1>e. \A x : DenyRule(x).action = "deny" /\ DenyRule(x).visible = x
    BY DEF DenyRule
  <1>f. \A x : /\ RedirectRule(x).action = "redirect"
               /\ RedirectRule(x).visible = x.source /\ RedirectRule(x).backing = x.target
    BY DEF RedirectRule
  <1>5. ASSUME NEW i \in 1..(n + m)
        PROVE  /\ NormalizeVisible(rules[i].visible)
               /\ rules[i].action = "redirect" => NormalizeBacking(rules[i].backing)
    <2>1. CASE i \in 1..n
      BY <1>0, <1>1, <1>2, <1>3, <1>4, <1>e, <2>1, SMTT(30)
    <2>2. CASE i > n
      <3>1. PICK k \in 1..m : rules[i] = RedirectRule(r[k])
        BY <1>3, <2>2
      <3>2. r[k] \in Rs
        BY <1>0, <1>1
      <3> QED
        BY <1>2, <1>4, <1>f, <3>1, <3>2
    <2> QED
      BY <1>d, <2>1, <2>2
  <1>6. ASSUME NEW i \in 1..(n + m), NEW j \in 1..(n + m), i < j,
               rules[i].visible = rules[j].visible
        PROVE  FALSE
    <2>1. CASE i \in 1..n /\ j \in 1..n
      <3>1. BytesLess(d[i], d[j])
        BY <1>1, <1>6, <2>1 DEF Folded, n
      <3>2. d[i] = d[j]
        BY <1>3, <1>6, <1>e, <2>1
      <3> QED
        BY <1>0, <2>1, <3>1, <3>2, BytesLessAsymmetric
    <2>2. CASE i \in 1..n /\ j > n
      <3>1. PICK k \in 1..m : rules[j] = RedirectRule(r[k])
        BY <1>3, <2>2
      <3>2. d[i] = r[k].source
        BY <1>3, <1>6, <1>e, <1>f, <2>2, <3>1
      <3>3. d[i] \in Ds /\ r[k] \in Rs
        BY <1>0, <1>1, <2>2, SMTT(30)
      <3>4. Inside(d[i], r[k].source)
        BY <3>2 DEF Inside
      <3> QED
        BY <1>4, <3>3, <3>4, SMTT(30) DEF Conflicting
    <2>3. CASE i > n /\ j > n
      <3> DEFINE k == i - n
                 l == j - n
      <3>1. k \in 1..m /\ l \in 1..m /\ rules[i] = RedirectRule(r[k]) /\ rules[j] = RedirectRule(r[l])
        BY <1>3, <2>3
      <3>2. k < l
        BY <1>0, <1>6, SMTT(30)
      <3> HIDE DEF k, l
      <3>3. r[k].source = r[l].source
        BY <1>6, <1>f, <3>1
      <3>4. RedirectLess(r[k], r[l])
        BY <1>1, <3>1, <3>2 DEF InOrderOnce, m
      <3>5. r[k] # r[l]
        BY <1>0, <3>1, <3>4, RedirectOrder
      <3>6. Nested(r[k].source, r[l].source)
        BY <3>3 DEF Nested, Inside
      <3>7. r[k] \in Rs /\ r[l] \in Rs
        BY <1>0, <1>1, <3>1
      <3> QED
        BY <1>4, <3>5, <3>6, <3>7 DEF Conflicting
    <2>4. ~(i > n /\ j \in 1..n)
      BY <1>0, <1>6, SMTT(30)
    <2> QED
      BY <1>d, <2>1, <2>2, <2>3, <2>4
  <1>7. ASSUME NEW i \in 1..(n + m), NEW j \in 1..(n + m), rules[i].visible = rules[j].visible
        PROVE  i = j
    <2>1. i = j \/ i < j \/ j < i
      BY <1>0, SMTT(30)
    <2> QED
      BY <1>6, <1>7, <2>1
  <1>8. ASSUME input.flags.file_picker
        PROVE  ~input.flags.all_users /\ \E i \in 1..(n + m) : rules[i].action = "redirect"
    <2>1. Rs # {} /\ ~input.flags.all_users
      BY <1>4, <1>8
    <2>2. Range(r) = {r[i] : i \in 1..m}
      BY <1>1, ListRange, SMTT(30) DEF m
    <2>3. PICK k \in 1..m : TRUE
      BY <1>1, <2>1, <2>2
    <2> QED
      BY <1>3, <1>f, <2>1, <2>3
  <1> QED
    BY <1>5, <1>7, <1>8, <1>d, <1>v DEF ValidatePolicy

(* A path with the package put in is one. *)
LEMMA ExpandedPath ==
  ASSUME NEW path \in ByteString
  PROVE  ExpandPathPlaceholders(path) \in ByteString
  <1> DEFINE covered(i) == \E b \in 1 .. i - 1 :
                              MarkedAt(path, PackageMark, b) /\ i < b + Len(PackageMark)
             ss == [i \in 1 .. Len(path) |->
                       IF MarkedAt(path, PackageMark, i) THEN Package
                       ELSE IF covered(i) THEN << >> ELSE <<path[i]>>]
  <1>1. ExpandPathPlaceholders(path) = Flatten(ss)
    BY DEF ExpandPathPlaceholders, ExpandPackage
  <1>2. Package \in Seq(Byte)
    BY SectionAssumption, SMTT(30)
  <1>3. Len(path) \in Nat /\ \A i \in 1..Len(path) : path[i] \in Byte
    BY SMTT(30) DEF ByteString
  <1>4. << >> \in Seq(Byte) /\ \A x \in Byte : <<x>> \in Seq(Byte)
    BY SMTT(30)
  <1>5. \A i \in 1..Len(path) : ss[i] \in Seq(Byte)
    BY <1>2, <1>3, <1>4
  <1>6. ss \in Seq(Seq(Byte))
    <2>1. ss \in [1..Len(path) -> Seq(Byte)]
      BY <1>5
    <2> HIDE DEF ss
    <2> QED
      BY <1>3, <2>1, SMTT(30)
  <1> HIDE DEF ss
  <1> QED
    BY <1>1, <1>6, FlattenFacts DEF ByteString

(* A rule with the package put in. *)
LEMMA ExpandedRule ==
  ASSUME NEW x \in ByteRule
  PROVE  /\ Expanded(x) \in ByteRule
         /\ Expanded(x).action = x.action /\ Expanded(x).visible = x.visible
         /\ Expanded(x).backing = ExpandPathPlaceholders(x.backing)
  <1>1. x.backing \in ByteString
    BY DEF ByteRule
  <1>2. ExpandPathPlaceholders(x.backing) \in ByteString
    BY <1>1, ExpandedPath
  <1> QED
    BY <1>2, SMTT(30) DEF Expanded, ByteRule

(* A list of rules with the package put in. *)
LEMMA ExpandedList ==
  ASSUME NEW rules \in Seq(ByteRule)
  PROVE  LET ex == [i \in DOMAIN rules |-> Expanded(rules[i])]
         IN  ex \in Seq(ByteRule) /\ Range(ex) = {Expanded(x) : x \in Range(rules)}
  <1> DEFINE n == Len(rules)
             ex == [i \in DOMAIN rules |-> Expanded(rules[i])]
  <1>1. n \in Nat /\ DOMAIN rules = 1..n /\ \A i \in 1..n : rules[i] \in ByteRule
    BY SMTT(30)
  <1>2. ex \in [1..n -> ByteRule]
    BY <1>1, ExpandedRule
  <1>3. DOMAIN ex = 1..n /\ \A i \in 1..n : ex[i] = Expanded(rules[i])
    BY <1>1
  <1> HIDE DEF ex, n
  <1>4. ex \in Seq(ByteRule)
    BY <1>1, <1>2, SMTT(30)
  <1>5. Range(ex) = {Expanded(x) : x \in Range(rules)}
    BY <1>1, <1>3 DEF Range
  <1> QED
    BY <1>4, <1>5 DEF ex

(* EncodeAndVerify keeps the invariant. *)
LEMMA EncodeKeeps ==
  ASSUME Inv, EncodeAndVerify
  PROVE  Inv'
  <1> DEFINE rules == ToPolicyDocument(app)
             ex == [i \in DOMAIN rules |-> Expanded(rules[i])]
  <1>0. phase = "encode" /\ input' = input /\ app' = app
    BY DEF EncodeAndVerify
  <1>s. /\ Rs' = Rs /\ Ds' = Ds /\ (BadRule' <=> BadRule) /\ (Refusable' <=> Refusable)
    BY <1>0, SectionStays
  <1>1. /\ ListsOK
        /\ diagnostics \in Seq(Codes) /\ Len(diagnostics) <= MaxDiagnostics
        /\ app.deny \in Seq(ByteString) /\ app.redirects \in Seq(ByteRedirect)
        /\ Whole \/ (BadRule /\ ~Quiet(diagnostics))
        /\ HasErrors(diagnostics) => Refusable
        /\ InOrderOnce(app.redirects) /\ (Quiet(diagnostics) => RedirectsApart(app.redirects))
        /\ Folded(app.deny) /\ (Quiet(diagnostics) => DenyApart(app.deny, app.redirects))
    BY <1>0 DEF Inv, ListsOK
  <1>w. Whole' <=> Whole
    BY <1>0, <1>s, SMTT(30) DEF Whole
  <1>2. CASE HasErrors(diagnostics) /\ phase' = "rejected" /\ diagnostics' = diagnostics
    <2>1. ListsOK'
      BY <1>0, <1>1, <1>2, <1>s DEF ListsOK
    <2>2. phase' # "normalize" /\ phase' \notin {"deny", "encode", "accepted"}
          /\ phase' \notin {"encode", "accepted"} /\ phase' # "accepted"
      BY <1>2, SMTT(30)
    <2> QED
      BY <1>1, <1>2, <1>s, <1>w, <2>1, <2>2, SMTT(30) DEF Inv
  <1>3. CASE /\ ~HasErrors(diagnostics) /\ ~Encodes(rules)
             /\ diagnostics' = AddDiagnostic(diagnostics, <<"policy_encode">>)
             /\ phase' = "rejected"
    <2>1. Refusable
      <3>1. input.earlier.apps \in {"none", "encode", "refused"}
        BY <1>1 DEF ListsOK, Section
      <3>2. CASE ~input.flags.enabled
        <4>1. input.earlier.apps # "encode"
          BY <1>3, <3>2 DEF Encodes
        <4> QED
          BY <3>1, <3>2, <4>1 DEF Refusable
      <3>3. CASE input.flags.enabled
        <4>1. input.earlier.apps = "refused" \/ ~ValidatePolicy(rules)
          BY <1>3, <3>3 DEF Encodes
        <4>2. CASE input.earlier.apps = "refused"
          BY <4>2 DEF Refusable
        <4>3. CASE ~ValidatePolicy(rules)
          BY <1>0, <1>3, <4>3, EncoderJustified
        <4> QED
          BY <4>1, <4>2, <4>3
      <3> QED
        BY <3>2, <3>3
    <2>2. "policy_encode" \in Codes
      BY DEF Codes
    <2>3. <<"policy_encode">> \in Seq(Codes)
      BY <2>2, UnitLists, SMTT(30)
    <2>4. /\ diagnostics' \in Seq(Codes) /\ Len(diagnostics') <= MaxDiagnostics
          /\ Quiet(diagnostics') => Quiet(diagnostics)
      BY <1>1, <1>3, <2>3, ReportFacts, ZenonT(30)
    <2>5. ListsOK'
      BY <1>0, <1>1, <2>4, <1>s DEF ListsOK
    <2>6. phase' # "normalize" /\ phase' \notin {"deny", "encode", "accepted"}
          /\ phase' \notin {"encode", "accepted"} /\ phase' # "accepted"
      BY <1>3, SMTT(30)
    <2> QED
      BY <1>1, <1>3, <1>s, <1>w, <2>1, <2>4, <2>5, <2>6, SMTT(30) DEF Inv
  <1>4. CASE /\ ~HasErrors(diagnostics) /\ diagnostics' = diagnostics
             /\ plan' = IF input.flags.enabled THEN Sort(ex, PlanLess) ELSE << >>
             /\ phase' = "accepted"
    <2>1. rules \in Seq(ByteRule)
      BY <1>1, DocumentFacts
    <2>2. ex \in Seq(ByteRule) /\ Range(ex) = {Expanded(x) : x \in Range(rules)}
      <3> HIDE DEF rules
      <3> QED
        BY <2>1, ExpandedList
    <2>3. ASSUME input'.flags.enabled
          PROVE  PlanComplete'
      <3>1. plan' = Sort(ex, PlanLess)
        BY <1>0, <1>4, <2>3
      <3> HIDE DEF ex
      <3>2. plan' \in Seq(ByteRule) /\ Range(plan') = Range(ex)
        BY <2>2, <3>1, SortedPlan, SMTT(30)
      <3> QED
        BY <1>0, <2>2, <3>2 DEF PlanComplete
    <2>4. ListsOK'
      BY <1>0, <1>1, <1>4, <1>s DEF ListsOK
    <2>5. phase' # "normalize" /\ phase' # "rejected"
      BY <1>4, SMTT(30)
    <2> QED
      BY <1>0, <1>1, <1>4, <1>s, <1>w, <2>3, <2>4, <2>5, SMTT(30) DEF Inv
  <1> QED
    BY <1>2, <1>3, <1>4 DEF EncodeAndVerify, Report

(* Every step keeps the invariant, and it holds at the start. *)
THEOREM RulesInvariant == Spec => []Inv
  <1>1. Init => Inv
    <2> SUFFICES ASSUME Init PROVE Inv
      OBVIOUS
    <2>1. ASSUME NEW S, S \subseteq ByteString, NEW n \in Nat, NEW s \in SeqUpTo(S, n)
          PROVE  s \in Seq(ByteString)
      <3>1. PICK k \in 0..n : s \in [1..k -> S]
        BY DEF SeqUpTo
      <3> QED
        BY <2>1, <3>1, SMTT(30)
    <2>2. ASSUME NEW n \in Nat, NEW s \in SeqUpTo(Redirects, n) PROVE s \in Seq(ByteRedirect)
      <3>1. PICK k \in 0..n : s \in [1..k -> Redirects]
        BY DEF SeqUpTo
      <3>2. Redirects \subseteq ByteRedirect
        BY SectionAssumption DEF Redirects, ByteRedirect, ByteString
      <3> QED
        BY <3>1, <3>2, SMTT(30)
    <2>3. /\ DenyPaths \subseteq ByteString /\ MaxDeny \in Nat /\ MaxRedirects \in Nat
          /\ Flags \subseteq [enabled : BOOLEAN, file_picker : BOOLEAN, all_users : BOOLEAN]
          /\ MaxDiagnostics \in Nat
          /\ Earlier \subseteq [kept : Seq(Codes), apps : {"none", "encode", "refused"}]
          /\ \A e \in Earlier : Len(e.kept) <= MaxDiagnostics
      BY SectionAssumption DEF ByteString
    <2>4. input \in Section /\ input.earlier \in Earlier
      <3>1. input \in [deny : SeqUpTo(DenyPaths, MaxDeny),
                       redirects : SeqUpTo(Redirects, MaxRedirects), flags : Flags,
                       earlier : Earlier]
        BY DEF Init
      <3>2. input.deny \in Seq(ByteString)
        BY <2>1, <2>3, <3>1
      <3>3. input.redirects \in Seq(ByteRedirect)
        BY <2>2, <2>3, <3>1
      <3>4. input.flags \in [enabled : BOOLEAN, file_picker : BOOLEAN, all_users : BOOLEAN]
        BY <2>3, <3>1
      <3>5. input = [deny |-> input.deny, redirects |-> input.redirects, flags |-> input.flags,
                     earlier |-> input.earlier]
        BY <3>1
      <3>6. /\ input.earlier \in Earlier
            /\ input.earlier \in [kept : Seq(Codes), apps : {"none", "encode", "refused"}]
        BY <2>3, <3>1
      <3> QED
        BY <3>2, <3>3, <3>4, <3>5, <3>6 DEF Section
    <2>5. /\ app \in [deny : Seq(ByteString), redirects : Seq(ByteRedirect)]
          /\ app.deny = << >> /\ app.redirects = << >>
      BY SMTT(30) DEF Init
    <2>6. /\ diagnostics \in Seq(Codes) /\ Len(diagnostics) <= MaxDiagnostics
          /\ diagnostics = input.earlier.kept /\ phase = "normalize"
      BY <2>3, <2>4 DEF Init
    <2>7. Range(app.deny) = {} /\ Range(app.redirects) = {}
      BY <2>5, SMTT(30) DEF Range
    <2>8. ListsOK
      BY <2>4, <2>5, <2>6, <2>7 DEF ListsOK
    <2>9. HasErrors(diagnostics) => Refusable
      BY <2>6 DEF Refusable
    <2> QED
      BY <2>6, <2>8, <2>9 DEF Inv
  <1>2. Inv /\ [Next]_vars => Inv'
    <2> SUFFICES ASSUME Inv, [Next]_vars PROVE Inv'
      OBVIOUS
    <2>1. CASE NormalizeSection
      BY <2>1, NormalizeKeeps
    <2>2. CASE ValidateRedirects
      BY <2>2, RedirectsKeep, SMTT(30)
    <2>3. CASE ValidateDeny
      BY <2>3, DenyKeeps
    <2>4. CASE EncodeAndVerify
      BY <2>4, EncodeKeeps
    <2>5. CASE UNCHANGED vars
      <3>1. input' = input /\ app' = app /\ diagnostics' = diagnostics /\ phase' = phase /\ plan' = plan
        BY <2>5 DEF vars
      <3>2. /\ Rs' = Rs /\ Ds' = Ds /\ (BadRule' <=> BadRule) /\ (Refusable' <=> Refusable)
        BY <3>1, SectionStays
      <3>3. ListsOK' <=> ListsOK
        BY <3>1, <3>2 DEF ListsOK
      <3>4. Whole' <=> Whole
        BY <3>1, <3>2 DEF Whole
      <3>5. PlanComplete' <=> PlanComplete
        BY <3>1 DEF PlanComplete
      <3> QED
        BY <3>1, <3>2, <3>3, <3>4, <3>5 DEF Inv
    <2> QED
      BY <2>1, <2>2, <2>3, <2>4, <2>5 DEF Next
  <1> QED
    BY <1>1, <1>2, PTL DEF Spec

-----------------------------------------------------------------------------
(* What the invariant says of an accepted section *)

(* No rule is lost as long as no diagnostic was dropped. *)
LEMMA AcceptedWhole ==
  ASSUME Inv, phase = "accepted", NothingDropped
  PROVE  Whole /\ Quiet(diagnostics)
  <1>1. Quiet(diagnostics)
    BY DEF Inv, Quiet, NothingDropped
  <1> QED
    BY <1>1 DEF Inv

(* The neighbour scans find every conflict where they suffice. *)
LEMMA ConflictsFound ==
  ASSUME Inv, phase = "accepted", ScanSuffices
  PROVE  ~Conflicting
  <1> DEFINE d == app.deny
             r == app.redirects
             n == Len(r)
  <1>2. Quiet(diagnostics)
    BY AcceptedWhole DEF ScanSuffices
  <1>1. /\ ListsOK /\ Whole
        /\ d \in Seq(ByteString) /\ r \in Seq(ByteRedirect)
        /\ InOrderOnce(r) /\ Folded(d) /\ Range(d) \subseteq Ds
    BY AcceptedWhole DEF Inv, ListsOK, ScanSuffices
  <1>3. RedirectsApart(r) /\ DenyApart(d, r)
    BY <1>2 DEF Inv
  <1>4. Range(r) = Rs /\ \A x \in Ds : \E e \in Range(d) : IsSameOrAncestor(e, x)
    BY <1>1 DEF Whole
  <1>5. /\ Ds \subseteq ByteString /\ Ds \subseteq SectionPaths
        /\ \A x \in Rs : /\ x.source \in ByteString /\ x.target \in ByteString
                         /\ x.source \in SectionPaths /\ x.target \in SectionPaths
    BY <1>1, PathsOfSection
  <1>6. \A p \in SectionPaths : \A i \in DOMAIN p : p[i] >= Slash
    BY DEF ScanSuffices
  <1>7. n \in Nat /\ Range(r) = {r[i] : i \in 1..n} /\ \A i \in 1..n : r[i] \in Rs
    BY <1>1, <1>4, ListRange, SMTT(30)
  <1> HIDE DEF d, r, n
  <1>8. ASSUME NEW x \in Rs, Nested(x.source, x.target) PROVE FALSE
    <2>1. PICK i \in 1..n : x = r[i]
      BY <1>4, <1>7, <1>8
    <2>2. ~PathsOverlap(x.source, x.target)
      BY <1>3, <2>1 DEF RedirectsApart, n
    <2> QED
      BY <1>5, <1>8, <2>2, NestedIsOverlap
  <1>9. ASSUME NEW i \in 1..n, NEW j \in 1..n, i < j, PathsOverlap(r[i].source, r[j].source)
        PROVE  FALSE
    <2> DEFINE src == [k \in 1..n |-> r[k].source]
    <2>1. \A k \in 1..n : r[k].source \in ByteString /\ r[k].source \in SectionPaths
      BY <1>5, <1>7
    <2>2. src \in Seq(ByteString) /\ Len(src) = n /\ \A k \in 1..n : src[k] = r[k].source
      BY <1>7, <2>1, SMTT(30)
    <2> HIDE DEF src
    <2>3. Ascending(src)
      <3>1. ASSUME NEW k \in 1..n, NEW l \in 1..n, k < l
            PROVE  BytesLess(r[k].source, r[l].source) \/ r[k].source = r[l].source
        BY <1>1, <3>1 DEF InOrderOnce, RedirectLess, n
      <3> QED
        BY <2>2, <3>1, SMTT(30) DEF Ascending
    <2>4. PlainBytes(src)
      <3>1. ASSUME NEW k \in 1..n PROVE \A b \in 1..Len(src[k]) : src[k][b] >= Slash
        <4>1. src[k] \in ByteString /\ src[k] \in SectionPaths
          BY <2>1, <2>2
        <4>2. DOMAIN src[k] = 1..Len(src[k])
          BY <4>1, SMTT(30) DEF ByteString
        <4> QED
          BY <1>6, <4>1, <4>2
      <3> QED
        BY <2>2, <3>1 DEF PlainBytes
    <2>5. PathsOverlap(src[i], src[j])
      BY <1>9, <2>2
    <2>6. PICK k \in 2..Len(src) : PathsOverlap(src[k - 1], src[k])
      BY <1>9, <2>2, <2>3, <2>4, <2>5, NeighbourScan
    <2>7. k \in 1..n /\ k - 1 \in 1..n /\ k > 1
      BY <1>7, <2>2, <2>6, SMTT(30)
    <2>8. SourceConflict(r, k)
      BY <2>2, <2>6, <2>7 DEF SourceConflict
    <2> QED
      BY <1>3, <2>7, <2>8 DEF RedirectsApart, n
  <1>10. ASSUME NEW i \in 1..n, NEW j \in 1..n, PathsOverlap(r[i].source, r[j].source)
         PROVE  i = j
    <2>1. PathsOverlap(r[j].source, r[i].source)
      BY <1>10 DEF PathsOverlap
    <2>2. i = j \/ i < j \/ j < i
      BY <1>7, SMTT(30)
    <2> QED
      BY <1>9, <1>10, <2>1, <2>2
  <1>11. ASSUME NEW x \in Rs, NEW y \in Rs, x # y, Nested(x.source, y.source) PROVE FALSE
    <2>1. PICK i \in 1..n : x = r[i]
      BY <1>4, <1>7, <1>11
    <2>2. PICK j \in 1..n : y = r[j]
      BY <1>4, <1>7, <1>11
    <2>3. PathsOverlap(x.source, y.source)
      BY <1>5, <1>11, NestedIsOverlap
    <2> QED
      BY <1>10, <1>11, <2>1, <2>2, <2>3
  <1>12. ASSUME NEW x \in Ds, NEW y \in Rs, Inside(x, y.source) PROVE FALSE
    <2>1. PICK i \in 1..n : y = r[i]
      BY <1>4, <1>7, <1>12
    <2>2. PICK e \in Range(d) : IsSameOrAncestor(e, x)
      BY <1>4, <1>12
    <2>3. e \in ByteString /\ x \in ByteString /\ y.source \in ByteString
      BY <1>1, <1>5, <1>12, <2>2, SMTT(30)
    <2>4. IsSameOrAncestor(x, y.source)
      BY <1>12, <2>3, InsideIsAncestor
    <2>5. IsSameOrAncestor(e, y.source)
      BY <2>2, <2>3, <2>4, AncestorTransitive
    <2>6. PlainBytes(d)
      <3>1. ASSUME NEW k \in 1..Len(d) PROVE \A b \in 1..Len(d[k]) : d[k][b] >= Slash
        <4>1. d[k] \in Range(d)
          BY <1>1, ListRange, SMTT(30)
        <4>2. d[k] \in ByteString /\ d[k] \in SectionPaths
          BY <1>1, <1>5, <4>1
        <4>3. DOMAIN d[k] = 1..Len(d[k])
          BY <4>2, SMTT(30) DEF ByteString
        <4> QED
          BY <1>6, <4>2, <4>3
      <3> QED
        BY <3>1 DEF PlainBytes
    <2>7. DenyConflict(d, y.source)
      BY <1>1, <2>2, <2>3, <2>5, <2>6, DenyConflictFacts
    <2> QED
      BY <1>3, <2>1, <2>7 DEF DenyApart, n
  <1>13. ASSUME Cyclic PROVE FALSE
    <2>1. PICK S \in SUBSET Range(r) : LeadsBack(S)
      BY <1>4, <1>13 DEF Cyclic, LeadsBack
    <2>2. ASSUME NEW i \in 1..n, NEW j \in 1..n, r[i].source = r[j].source PROVE i = j
      BY <1>10, <2>2 DEF PathsOverlap, IsSameOrAncestor
    <2>3. HasCycle(r)
      BY <1>1, <2>1, <2>2, CycleFacts DEF n
    <2> QED
      BY <1>3, <2>3 DEF RedirectsApart
  <1> QED
    BY <1>8, <1>11, <1>12, <1>13 DEF Conflicting

(* Looking at neighbours finds every conflict of a section in which no     *)
(* byte sorts before '/' and no diagnostic was dropped (ValidateRedirects, *)
(* ValidateDeny).                                                          *)
THEOREM ConflictsAreFound == Spec => []NeighboursFindConflicts
  <1>1. Inv => NeighboursFindConflicts
    BY ConflictsFound DEF NeighboursFindConflicts
  <1> QED
    BY <1>1, RulesInvariant, PTL

(* No document is refused without a reason in one of its sections, the     *)
(* braces the encoder does not take being one.                             *)
THEOREM RejectionIsJustified == Spec => []RejectionJustified
  <1>1. Inv => RejectionJustified
    BY DEF Inv, RejectionJustified
  <1> QED
    BY <1>1, RulesInvariant, PTL

(* The folded deny list denies what the section denies, and nothing else,  *)
(* as long as no diagnostic was dropped (ValidateDeny).                    *)
THEOREM DenyIsCovered == Spec => []DenyCoverage
  <1>1. ASSUME Inv, phase = "accepted", NothingDropped PROVE DenyCoverage
    <2>1. ListsOK /\ Whole /\ Range(app.deny) \subseteq Ds
      BY <1>1, AcceptedWhole DEF Inv, ListsOK
    <2>2. Ds \subseteq ByteString
      BY <2>1, PathsOfSection
    <2>3. AllPaths \subseteq ByteString
      BY SectionAssumption DEF AllPaths, ByteString
    <2>4. ASSUME NEW q \in AllPaths, NEW x \in Ds, Inside(x, q)
          PROVE  \E e \in Range(app.deny) : Inside(e, q)
      <3>1. PICK e \in Range(app.deny) : IsSameOrAncestor(e, x)
        BY <2>1, <2>4 DEF Whole
      <3>2. e \in ByteString /\ x \in ByteString /\ q \in ByteString
        BY <2>1, <2>2, <2>3, <2>4, <3>1
      <3>3. IsSameOrAncestor(x, q)
        BY <2>4, <3>2, InsideIsAncestor, SMTT(30)
      <3>4. IsSameOrAncestor(e, q)
        BY <3>1, <3>2, <3>3, AncestorTransitive
      <3> QED
        BY <3>1, <3>2, <3>4, InsideIsAncestor, SMTT(30)
    <2> QED
      BY <2>1, <2>4 DEF DenyCoverage
  <1>2. Inv => DenyCoverage
    BY <1>1 DEF DenyCoverage
  <1> QED
    BY <1>2, RulesInvariant, PTL

(* The redirect of a rule is the only one met on the way to its source, so *)
(* it leads an app to its target, the package put in (the plan             *)
(* EncodeAndVerify encodes).                                               *)
THEOREM RedirectsTakeEffect == Spec => []RedirectTakesEffect
  <1>1. ASSUME Inv, phase = "accepted", input.flags.enabled, ScanSuffices, NEW r \in Rs
        PROVE  View(r.source) = [denied |-> FALSE, at |-> Destination(r)]
    <2>0. Whole
      BY <1>1, AcceptedWhole DEF ScanSuffices
    <2>1. /\ ListsOK /\ app.deny \in Seq(ByteString) /\ app.redirects \in Seq(ByteRedirect)
          /\ Range(app.deny) \subseteq Ds /\ Range(app.redirects) = Rs
          /\ plan \in Seq(ByteRule)
          /\ Range(plan) = {Expanded(x) : x \in Range(ToPolicyDocument(app))}
      BY <1>1, <2>0 DEF Inv, ListsOK, Whole, PlanComplete
    <2>2. /\ Ds \subseteq ByteString
          /\ \A x \in Rs : x.source \in ByteString /\ x.target \in ByteString
      BY <2>1, PathsOfSection
    <2>3. ~Conflicting
      BY <1>1, ConflictsFound
    <2>4. \A x : x \in Range(plan) <=> \/ \E d \in Range(app.deny) : x = Expanded(DenyRule(d))
                                       \/ \E s \in Rs : x = Expanded(RedirectRule(s))
      <3>1. \A x : x \in Range(ToPolicyDocument(app)) <=>
                      \/ \E d \in Range(app.deny) : x = DenyRule(d)
                      \/ \E s \in Rs : x = RedirectRule(s)
        BY <2>1, DocumentRange
      <3> DEFINE doc == Range(ToPolicyDocument(app))
      <3>2. \A x : x \in Range(plan) <=> \E y \in doc : x = Expanded(y)
        BY <2>1
      <3>3. /\ \A d \in Range(app.deny) : DenyRule(d) \in doc
            /\ \A s \in Rs : RedirectRule(s) \in doc
            /\ \A y \in doc : \/ \E d \in Range(app.deny) : y = DenyRule(d)
                             \/ \E s \in Rs : y = RedirectRule(s)
        BY <3>1
      <3> HIDE DEF doc
      <3> QED
        BY <3>2, <3>3
    <2>e. /\ \A d \in ByteString : Expanded(DenyRule(d)).visible = d
          /\ \A s \in Rs : /\ Expanded(RedirectRule(s)).visible = s.source
                           /\ Expanded(RedirectRule(s)).backing = Destination(s)
                           /\ Expanded(RedirectRule(s)).action = "redirect"
      <3>1. ASSUME NEW d \in ByteString PROVE Expanded(DenyRule(d)).visible = d
        <4>1. DenyRule(d) \in ByteRule /\ DenyRule(d).visible = d
          BY SMTT(30) DEF DenyRule, ByteRule, ByteString
        <4> QED
          BY <4>1, ExpandedRule
      <3>2. ASSUME NEW s \in Rs
            PROVE  /\ Expanded(RedirectRule(s)).visible = s.source
                   /\ Expanded(RedirectRule(s)).backing = Destination(s)
                   /\ Expanded(RedirectRule(s)).action = "redirect"
        <4>1. /\ RedirectRule(s) \in ByteRule
              /\ RedirectRule(s).visible = s.source /\ RedirectRule(s).backing = s.target
              /\ RedirectRule(s).action = "redirect"
          BY <2>2, <3>2 DEF RedirectRule, ByteRule
        <4> QED
          BY <4>1, ExpandedRule DEF Destination
      <3> QED
        BY <3>1, <3>2
    <2>5. Len(plan) \in Nat /\ DOMAIN plan = 1..Len(plan) /\ Range(plan) = {plan[i] : i \in 1..Len(plan)}
      BY <2>1, ListRange
    <2> DEFINE path == r.source
               met == {i \in DOMAIN plan : IsSameOrAncestor(plan[i].visible, path)}
               first == {i \in met : \A j \in met : Len(plan[i].visible) <= Len(plan[j].visible)}
               f == CHOOSE i \in first : TRUE
    <2>6. ASSUME NEW i \in met PROVE plan[i] = Expanded(RedirectRule(r))
      <3>1. plan[i] \in Range(plan) /\ IsSameOrAncestor(plan[i].visible, path)
        BY <2>5, <2>6, SMTT(30)
      <3>2. ASSUME NEW d \in Range(app.deny), plan[i] = Expanded(DenyRule(d)) PROVE FALSE
        <4>2. d \in Ds /\ d \in ByteString /\ path \in ByteString
          BY <1>1, <2>1, <2>2, <3>2, SMTT(30)
        <4>1. plan[i].visible = d
          BY <2>e, <3>2, <4>2
        <4>3. Inside(d, path)
          BY <3>1, <4>1, <4>2, InsideIsAncestor
        <4> QED
          BY <1>1, <2>3, <4>2, <4>3 DEF Conflicting
      <3>3. ASSUME NEW s \in Rs, plan[i] = Expanded(RedirectRule(s)) PROVE s = r
        <4>1. plan[i].visible = s.source
          BY <2>e, <3>3
        <4>2. s.source \in ByteString /\ path \in ByteString
          BY <1>1, <2>2, <3>3
        <4>3. Nested(s.source, path)
          BY <3>1, <4>1, <4>2, InsideIsAncestor DEF Nested
        <4> QED
          BY <1>1, <2>3, <3>3, <4>3 DEF Conflicting
      <3> QED
        BY <2>4, <3>1, <3>2, <3>3, SMTT(30)
    <2> DEFINE rr == Expanded(RedirectRule(r))
    <2>7. rr.visible = path /\ rr.backing = Destination(r) /\ rr.action = "redirect"
      BY <1>1, <2>e
    <2>8. \E i : i \in met
      <3>1. PICK i \in DOMAIN plan : plan[i] = Expanded(RedirectRule(r))
        BY <1>1, <2>4, <2>5
      <3> QED
        BY <2>7, <3>1 DEF IsSameOrAncestor
    <2>p. path \in Seq(Byte) /\ Destination(r) \in Seq(Byte) /\ Len(path) \in Nat
      <3>1. Destination(r) \in ByteString
        BY <1>1, <2>2, ExpandedPath DEF Destination
      <3> QED
        BY <1>1, <2>2, <3>1, SMTT(30) DEF ByteString
    <2>9. View(path) = IF met = {} THEN [denied |-> FALSE, at |-> path]
                       ELSE IF plan[f].action = "deny"
                            THEN [denied |-> TRUE, at |-> << >>]
                            ELSE [denied |-> FALSE,
                                  at |-> plan[f].backing
                                         \o SubSeq(path, Len(plan[f].visible) + 1, Len(path))]
      BY DEF View
    <2>q. (\A i \in met : plan[i] = rr) /\ \E i : i \in met
      BY <2>6, <2>8
    <2> HIDE DEF met, path, rr
    <2>10. \A i \in met : i \in first
      BY <2>q, <2>7, <2>p, SMTT(30)
    <2>11. f \in first
      BY <2>q, <2>10
    <2>12. plan[f] = rr
      BY <2>q, <2>11
    <2> HIDE DEF f, first
    <2>13. SubSeq(path, Len(path) + 1, Len(path)) = << >>
      BY <2>p, SMTT(30)
    <2>14. Destination(r) \o << >> = Destination(r)
      BY <2>p, SMTT(30)
    <2>15. View(path) = [denied |-> FALSE, at |-> Destination(r)]
      BY <2>7, <2>q, <2>9, <2>12, <2>13, <2>14
    <2> QED
      BY <2>15 DEF path
  <1>2. Inv => RedirectTakesEffect
    BY <1>1 DEF RedirectTakesEffect
  <1> QED
    BY <1>2, RulesInvariant, PTL
=============================================================================
