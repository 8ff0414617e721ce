---------------------------- MODULE MCLogFactory ----------------------------
(* LogFactory on small instances.                                           *)
EXTENDS LogFactory

\* Selected selects what SelectSeq does.
ASSUME SelectedIsSelectSeq ==
    \A s \in UNION {[1 .. n -> 0 .. 2] : n \in 0 .. 4} : \A S \in SUBSET (0 .. 2) :
        Selected(s, S) = SelectSeq(s, LAMBDA x : x \in S)

\* The threads run the same code, each with a sink of its own.
Symmetry == Permutations(Threads)
=============================================================================
