------------------------------ MODULE Selections ------------------------------
(***************************************************************************)
(* The part of a sequence that is in a set, in its order. It is what       *)
(* SelectSeq selects, which the proof system has as a primitive without a  *)
(* definition to reason with.                                              *)
(***************************************************************************)
EXTENDS Integers, Sequences

\* The elements of s that are in S.
Selected(s, S) ==
    LET upTo[i \in 0 .. Len(s)] ==
            IF i = 0 THEN <<>>
            ELSE IF s[i] \in S THEN Append(upTo[i - 1], s[i])
            ELSE upTo[i - 1]
    IN  upTo[Len(s)]
=============================================================================
