----------------------------- MODULE RulePaths ------------------------------
(***************************************************************************)
(* Rule paths as the compiler and the policy encoder see them: sequences   *)
(* of bytes compared as byte strings (rules/src/semantic.cpp,              *)
(* core/src/path.cpp).  Directory containment is decided on the bytes too, *)
(* so where '/' stands in the byte order matters.                          *)
(***************************************************************************)
EXTENDS Lists, FiniteSets

CONSTANTS
    MaxPathBytes,        \* RulesLimits::max_path_bytes and kMaxLogicalPathBytes
    MaxPathComponents,   \* RulesLimits::max_path_components
    MaxComponentBytes    \* kMaxPathComponentBytes

ASSUME LimitsAssumption ==
    {MaxPathBytes, MaxPathComponents, MaxComponentBytes} \subseteq Nat \ {0}

Slash == 47
Dot == 46
OpenBrace == 123
CloseBrace == 125
Byte == 0 .. 255

(* "{package}" and "{user}". *)
PackageMark == <<OpenBrace, 112, 97, 99, 107, 97, 103, 101, CloseBrace>>
UserMark == <<OpenBrace, 117, 115, 101, 114, CloseBrace>>

(* std::string's operator<. *)
BytesLess(p, q) == Precedes(p, q)

(* Mutant: the byte after the prefix is not looked at. *)
IsBytePrefix(ancestor, path) ==
    /\ Len(path) >= Len(ancestor)
    /\ \A i \in 1 .. Len(ancestor) : path[i] = ancestor[i]

IsSameOrAncestor(ancestor, path) ==
    \/ path = ancestor
    \/ /\ Len(path) > Len(ancestor)
       /\ \A i \in 1 .. Len(ancestor) : path[i] = ancestor[i]
       /\ path[Len(ancestor) + 1] = Slash

PathsOverlap(p, q) == IsSameOrAncestor(p, q) \/ IsSameOrAncestor(q, p)

Slashes(path) == {i \in 1 .. Len(path) : path[i] = Slash}

(* The positions a component can start at; a trailing '/' starts an empty  *)
(* one behind the last byte.                                               *)
ComponentStarts(path) == {1} \cup {i + 1 : i \in Slashes(path)}

Component(path, begin) ==
    LET end == CHOOSE e \in begin .. Len(path) + 1 :
                  /\ e = Len(path) + 1 \/ path[e] = Slash
                  /\ \A i \in begin .. e - 1 : path[i] # Slash
    IN  SubSeq(path, begin, end - 1)

BadComponent(component) ==
    component \in {<< >>, <<Dot>>, <<Dot, Dot>>}

Depth(path) == 1 + Cardinality(Slashes(path))

ExceedsPathLimits(path) ==
    \/ Len(path) > MaxPathBytes
    \/ path # << >> /\ Depth(path) > MaxPathComponents

(* The loop of NormalizeRulePath ends with the last byte, so the empty     *)
(* component behind a trailing '/' is not examined.                        *)
NormalizeRulePath(path) ==
    /\ path # << >>
    /\ Len(path) <= MaxPathBytes
    /\ path[1] # Slash
    /\ \A b \in ComponentStarts(path) \cap (1 .. Len(path)) :
          ~BadComponent(Component(path, b))
    /\ \A i \in 1 .. Len(path) : path[i] >= 32 /\ path[i] # 127

(* The first half of ExpandPathPlaceholders: every "{package}" replaced.   *)
(* Two of them never overlap.                                              *)
MarkedAt(path, mark, i) ==
    /\ i >= 1 /\ i + Len(mark) - 1 <= Len(path)
    /\ \A k \in 1 .. Len(mark) : path[i + k - 1] = mark[k]
ExpandPackage(path, package) ==
    LET covered(i) == \E b \in 1 .. i - 1 :
                         MarkedAt(path, PackageMark, b) /\ i < b + Len(PackageMark)
    IN  Flatten([i \in 1 .. Len(path) |->
                    IF MarkedAt(path, PackageMark, i) THEN package
                    ELSE IF covered(i) THEN << >> ELSE <<path[i]>>])

(* The second half: every brace left is one of a "{user}". *)
KnownPlaceholders(path) ==
    \A i \in 1 .. Len(path) :
        /\ path[i] = OpenBrace => MarkedAt(path, UserMark, i)
        /\ path[i] = CloseBrace => MarkedAt(path, UserMark, i - Len(UserMark) + 1)

ContainsPlaceholder(path) ==
    \E i \in 1 .. Len(path) : path[i] \in {OpenBrace, CloseBrace}

(* The encoder's check examines every component, and its length. *)
NormalizeLogicalPath(path) ==
    /\ path # << >>
    /\ Len(path) <= MaxPathBytes
    /\ path[1] # Slash
    /\ \A i \in 1 .. Len(path) : path[i] # 0
    /\ \A b \in ComponentStarts(path) :
          /\ ~BadComponent(Component(path, b))
          /\ Len(Component(path, b)) <= MaxComponentBytes
=============================================================================
