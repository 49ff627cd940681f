------------------------------ MODULE Filters -------------------------------
(* SelectSeq for a set in the place of a test, as a recursive function,    *)
(* which can be proved about.                                              *)
EXTENDS Naturals, Sequences

\* The elements of s that are in S, in the order they have in s.
Filter(s, S) ==
    LET part[i \in 0..Len(s)] ==
          IF i = 0 THEN <<>>
          ELSE IF s[i] \in S THEN Append(part[i - 1], s[i]) ELSE part[i - 1]
    IN  part[Len(s)]
=============================================================================
