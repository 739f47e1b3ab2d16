------------------------------ MODULE MCStorage ------------------------------
(* Two processes, two groups, three faces; ids, names and labels are         *)
(* interchangeable.                                                          *)
EXTENDS Storage, TLC

CONSTANTS p1, p2, g1, g2, f1, f2, f3, n1, n2, l1, l2

MCProcs    == {p1, p2}
MCGroupIds == {g1, g2}
MCFaceIds  == {f1, f2, f3}
MCNames    == {n1, n2}
MCLabels   == {l1, l2}

MCSymmetry == Permutations(MCProcs) \cup Permutations(MCGroupIds)
              \cup Permutations(MCFaceIds) \cup Permutations(MCNames)
              \cup Permutations(MCLabels)
=============================================================================
