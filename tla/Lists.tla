-------------------------------- MODULE Lists --------------------------------
(* The lists the compiler and the encoder build: std::vector, std::sort    *)
(* and the order of strings and tuples.                                    *)
EXTENDS Naturals, Sequences, Functions

(* The elements of s at the positions in I, in their order. *)
Pick(s, I) ==
    LET picked[n \in 0 .. Len(s)] ==
            IF n = 0 THEN << >>
            ELSE IF n \in I THEN Append(picked[n - 1], s[n]) ELSE picked[n - 1]
    IN  picked[Len(s)]

(* The first m lists of ss one after the other, and all of them. *)
Joined(ss, m) ==
    LET joined[n \in 0 .. Len(ss)] ==
            IF n = 0 THEN << >> ELSE joined[n - 1] \o ss[n]
    IN  joined[m]
Flatten(ss) == Joined(ss, Len(ss))

(* std::sort for an order in which only equal elements are equivalent. *)
Orders(n) == {p \in [1 .. n -> 1 .. n] : \A k \in 1 .. n : \E i \in 1 .. n : p[i] = k}
Sort(s, Less(_, _)) ==
    LET order == CHOOSE p \in Orders(Len(s)) :
                    \A i, j \in 1 .. Len(s) : i < j => ~Less(s[p[j]], s[p[i]])
    IN  [i \in 1 .. Len(s) |-> s[order[i]]]

(* The order of strings and tuples, by their first difference. *)
Precedes(p, q) ==
    \/ /\ Len(p) < Len(q)
       /\ \A i \in 1 .. Len(p) : p[i] = q[i]
    \/ \E i \in 1 .. Len(p) :
          /\ i <= Len(q)
          /\ \A j \in 1 .. i - 1 : p[j] = q[j]
          /\ p[i] < q[i]
=============================================================================
