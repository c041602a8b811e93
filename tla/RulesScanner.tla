---------------------------- MODULE RulesScanner ----------------------------
(***************************************************************************)
(* The scanner that finds the "source" -> "target" rules of a rules file   *)
(* before TOML is parsed (rules/src/arrow_scanner.cpp).  It reads the text *)
(* once, one lexeme per step, keeps a stack of open brackets and the last  *)
(* two tokens, and decides from those alone which arrows are rules.        *)
(* Lexemes are those of RulesToml, and "open" and "long", strings without  *)
(* an end and beyond max_string_token_bytes.                               *)
(***************************************************************************)
EXTENDS RulesToml

CONSTANTS
    Inputs,   \* what is read: [head, more, alphabet], any more lexemes after head
    Limits    \* RulesLimits: [depth, tokens, rewrites, segments, generated, apps,
              \*               diagnostics, rules]

VARIABLES
    input,    \* one of Inputs
    text,     \* what has been read
    scan      \* the Scanner

scannerVars == <<input, text, scan>>

NoToken == [kind |-> "none", at |-> 0, frame |-> 0]
NoPending == [stage |-> "none", source |-> 0, arrow |-> 0, target |-> 0, frame |-> 0]

Scanner ==
    [frames |-> << >>, nextFrame |-> 1, previous |-> NoToken, last |-> NoToken,
     pending |-> NoPending, suppress |-> 0, statementStart |-> TRUE,
     expectingValue |-> FALSE, comment |-> FALSE, stopped |-> FALSE, skip |-> FALSE,
     tokens |-> 0, candidates |-> << >>, diagnostics |-> << >>]

CurrentFrameId(s) == IF s.frames = << >> THEN 0 ELSE Last(s.frames).id

(* The last diagnostic makes room for the note that some are left out. *)
AddDiagnostic(s, code, at) ==
    LET entry == [code |-> code, at |-> at]
        full == Len(s.diagnostics) >= Limits.diagnostics /\ s.diagnostics # << >>
    IN  IF ~ full THEN [s EXCEPT !.diagnostics = Append(@, entry)]
        ELSE IF Last(s.diagnostics).code = "omitted" THEN s
        ELSE [s EXCEPT !.diagnostics = Append(Front(@), [code |-> "omitted", at |-> at])]

Stop(s, code, at) == [AddDiagnostic(s, code, at) EXCEPT !.stopped = TRUE]

IsValueArrayFrame(s, id) == \E i \in DOMAIN s.frames : s.frames[i].id = id /\ s.frames[i].kind = "value"

ConfirmCandidate(s) ==
    LET p == s.pending
        rest == [s EXCEPT !.pending = NoPending]
    IN  IF Len(s.candidates) >= Limits.rewrites THEN AddDiagnostic(rest, "limit", p.arrow)
        ELSE [rest EXCEPT !.candidates =
                 Append(@, [source |-> p.source, arrow |-> p.arrow, target |-> p.target])]

(* Mutant: only a comma ends a rule. *)
EndsAtComma(token, frame) == token.kind = "comma" /\ token.frame = frame

Ends(token, frame) == token.kind \in {"comma", "close_array"} /\ token.frame = frame

(* The token after an arrow, or after its target. *)
HandlePendingCandidate(s, token) ==
    LET p == s.pending
        drop(code) == AddDiagnostic([s EXCEPT !.pending = NoPending], code, token.at)
    IN  IF p.stage = "target"
        THEN IF token.kind = "string" /\ token.frame = p.frame
             THEN [s EXCEPT !.pending.target = token.at, !.pending.stage = "delimiter"]
             ELSE drop("operand")
        ELSE IF Ends(token, p.frame) THEN ConfirmCandidate(s)
        ELSE IF token.kind = "arrow" THEN drop("chained")
        ELSE IF token.kind \in {"string", "multiline"}
             THEN [drop("missing_comma") EXCEPT !.suppress = p.frame]
        ELSE drop("context")

(* An arrow, no rule pending: the tokens before it must be a string and    *)
(* the start of its element, in one value array.                           *)
HandleArrow(s, token) ==
    IF s.last.kind # "string" THEN AddDiagnostic(s, "operand", token.at)
    ELSE IF s.comment THEN AddDiagnostic(s, "comment_inside", token.at)
    ELSE IF \/ s.previous.kind \notin {"open_array", "comma"}
            \/ s.previous.frame # s.last.frame \/ s.last.frame # token.frame
            \/ ~ IsValueArrayFrame(s, token.frame)
    THEN AddDiagnostic(s, "context", token.at)
    ELSE [s EXCEPT !.pending = [stage |-> "target", source |-> s.last.at, arrow |-> token.at,
                                target |-> 0, frame |-> token.frame]]

HandlePending(s, token) ==
    LET t == IF s.suppress # 0 /\ Ends(token, s.suppress) THEN [s EXCEPT !.suppress = 0] ELSE s
    IN  IF s.suppress # 0 /\ token.kind = "arrow" /\ token.frame = s.suppress THEN s
        ELSE IF s.pending # NoPending THEN HandlePendingCandidate(t, token)
        ELSE IF token.kind = "arrow" THEN HandleArrow(t, token)
        ELSE t

Emit(s, kind, at) ==
    LET token == [kind |-> kind, at |-> at, frame |-> CurrentFrameId(s)]
    IN  IF s.stopped THEN s
        ELSE IF s.tokens >= Limits.tokens THEN Stop(s, "limit", at)
        ELSE [HandlePending([s EXCEPT !.tokens = @ + 1], token) EXCEPT
                 !.previous = s.last, !.last = token, !.comment = FALSE]

(* What follows is (not) a value; the statement has begun. *)
Then(s, value) == [s EXCEPT !.expectingValue = value, !.statementStart = FALSE]

PushFrame(s, kind, closing, at) ==
    IF Len(s.frames) >= Limits.depth THEN Stop(s, "limit", at)
    ELSE [s EXCEPT !.frames = Append(@, [kind |-> kind, id |-> s.nextFrame, closing |-> closing]),
                   !.nextFrame = @ + 1]

PopFrame(s, closing) ==
    IF s.frames # << >> /\ Last(s.frames).closing = closing
    THEN [s EXCEPT !.frames = Front(@)] ELSE s

OpenArray(s, x, at) ==
    LET header == s.frames = << >> /\ s.statementStart /\ ~ s.expectingValue
        kind == CASE header /\ x = "[+" -> "array_table"
                  [] header /\ x = "[" -> "table"
                  [] s.expectingValue -> "value"
                  [] OTHER -> "unknown"
        pushed == PushFrame(s, kind, "]", at)
    IN  IF pushed.stopped THEN pushed
        ELSE [Then(Emit(pushed, "open_array", at), kind = "value") EXCEPT
                 !.skip = kind = "array_table"]

CloseArray(s, x, at) ==
    LET double == x = "]+" /\ s.frames # << >> /\ Last(s.frames).kind = "array_table"
    IN  [PopFrame(Emit(s, "close_array", at), "]") EXCEPT
            !.expectingValue = FALSE, !.skip = double]

OpenBrace(s, at) ==
    LET pushed == PushFrame(s, IF s.expectingValue THEN "inline" ELSE "unknown", "}", at)
    IN  IF pushed.stopped THEN pushed ELSE Then(Emit(pushed, "open_inline", at), FALSE)

CloseBrace(s, at) ==
    [PopFrame(Emit(s, "close_inline", at), "}") EXCEPT !.expectingValue = FALSE]

HandleComment(s, at) ==
    IF s.pending.stage = "target"
    THEN AddDiagnostic([s EXCEPT !.pending = NoPending], "comment_inside", at)
    ELSE IF s.pending = NoPending THEN [s EXCEPT !.comment = TRUE] ELSE s

Newline(s) ==
    IF s.frames = << >> THEN [s EXCEPT !.statementStart = TRUE, !.expectingValue = FALSE] ELSE s

Comma(s, at) ==
    [Emit(s, "comma", at) EXCEPT
        !.expectingValue = s.frames # << >> /\ Last(s.frames).kind = "value"]

(* The end of the text: candidates, unless there were errors. *)
FinishAtEof(s) ==
    LET done == CASE s.pending.stage = "target" ->
                        AddDiagnostic([s EXCEPT !.pending = NoPending], "operand", s.pending.arrow)
                  [] s.pending.stage = "delimiter" -> ConfirmCandidate(s)
                  [] OTHER -> s
    IN  IF done.diagnostics # << >> THEN [done EXCEPT !.candidates = << >>] ELSE done

-----------------------------------------------------------------------------
(* The lexemes that may come next. *)
Coming ==
    LET n == Len(text)
        wanted == IF n < Len(input.head) THEN {input.head[n + 1]}
                  ELSE IF n < Len(input.head) + input.more THEN input.alphabet ELSE {}
    IN  {x \in wanted : n > 0 => /\ text[n] = "#" => x = "nl"
                                 /\ text[n] = "[+" => x \in Open
                                 /\ text[n] = "]+" => x \in Close}

Read(x, s) == ~ scan.stopped /\ text' = Append(text, x) /\ scan' = s /\ UNCHANGED input
Here == Len(text) + 1

ReadNewline == "nl" \in Coming /\ Read("nl", Newline(scan))
ReadComment == "#" \in Coming /\ Read("#", HandleComment(scan, Here))

ReadString ==
    \E x \in Coming \cap (Strings \cup {"m", "open", "long"}) :
        Read(x, CASE x = "long" -> Stop(scan, "limit", Here)
                  [] x = "open" -> Stop(scan, "string_boundary", Here)
                  [] OTHER -> Then(Emit(scan, IF x = "m" THEN "multiline" ELSE "string", Here), FALSE))

ReadArrow == "->" \in Coming /\ Read("->", Emit(scan, "arrow", Here))

(* Of a double bracket the second half has been read with the first. *)
ReadOpenArray ==
    \E x \in Coming \cap Open :
        Read(x, IF scan.skip THEN [scan EXCEPT !.skip = FALSE] ELSE OpenArray(scan, x, Here))
ReadCloseArray ==
    \E x \in Coming \cap Close :
        Read(x, IF scan.skip THEN [scan EXCEPT !.skip = FALSE] ELSE CloseArray(scan, x, Here))

ReadOpenBrace == "{" \in Coming /\ Read("{", OpenBrace(scan, Here))
ReadCloseBrace == "}" \in Coming /\ Read("}", CloseBrace(scan, Here))
ReadEquals == "=" \in Coming /\ Read("=", Then(Emit(scan, "equals", Here), TRUE))
ReadComma == "," \in Coming /\ Read(",", Comma(scan, Here))
ReadDot == "." \in Coming /\ Read(".", Then(Emit(scan, "dot", Here), FALSE))
ReadOther == \E x \in Coming \cap Bare : Read(x, Then(Emit(scan, "other", Here), FALSE))

Init == input \in Inputs /\ text = << >> /\ scan = Scanner

Next ==
    \/ ReadNewline \/ ReadComment \/ ReadString \/ ReadArrow
    \/ ReadOpenArray \/ ReadCloseArray \/ ReadOpenBrace \/ ReadCloseBrace
    \/ ReadEquals \/ ReadComma \/ ReadDot \/ ReadOther

Spec == Init /\ [][Next]_scannerVars
=============================================================================
