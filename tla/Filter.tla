------------------------------- MODULE Filter -------------------------------
(* The elements of a sequence that lie in a set, in their order.           *)
EXTENDS Naturals, Sequences

Filter(s, T) ==
  LET f[n \in 0..Len(s)] ==
        IF n = 0 THEN <<>>
        ELSE IF s[n] \in T THEN Append(f[n - 1], s[n])
        ELSE f[n - 1]
  IN  f[Len(s)]
=============================================================================
