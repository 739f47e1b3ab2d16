------------------------------- MODULE Matching -------------------------------
(***************************************************************************)
(* Comparing a feature with the enrolled ones                              *)
(* (facepass-core/src/matching.rs).                                        *)
(*                                                                         *)
(* Features are sequences of integers.  A cosine is a quotient with square *)
(* roots in it, so a similarity is kept as the signed square of the cosine,*)
(* the exact fraction [n, d], which is ordered as the cosines are.         *)
(***************************************************************************)
EXTENDS Integers, Sequences, SequencesExt, FiniteSets

Dot(a, b) == FoldLeft(+, 0, [i \in DOMAIN a |-> a[i] * b[i]])

\* A feature of length 0 is similar to nothing.
CosineSimilarity(a, b) ==
    LET dot == Dot(a, b)  norms == Dot(a, a) * Dot(b, b)
    IN  IF norms = 0 THEN [n |-> 0, d |-> 1]
        ELSE [n |-> IF dot < 0 THEN -dot * dot ELSE dot * dot, d |-> norms]

AtLeast(s, t) == s.n * t.d >= t.n * s.d

\* Vectors of different lengths are an error, and one such candidate fails all.
Comparable(query, candidates) ==
    \A i \in DOMAIN candidates : Len(candidates[i]) = Len(query)

Similarities(query, candidates) ==
    [i \in DOMAIN candidates |-> CosineSimilarity(query, candidates[i])]

NoMatch == 0

\* The best so far is kept against a candidate that is no better.
Keeps_Newest(best, similarity) == FALSE
Keeps(best, similarity) == AtLeast(best, similarity)

\* The index of the best candidate, NoMatch when there is none
FindBestMatch(query, candidates) ==
    LET sims == Similarities(query, candidates)
        Consider(best, i) ==
            IF best # NoMatch /\ Keeps(sims[best], sims[i]) THEN best ELSE i
    IN  FoldLeft(Consider, NoMatch, [i \in DOMAIN candidates |-> i])

PassedThreshold(query, candidate, threshold) ==
    AtLeast(CosineSimilarity(query, candidate), threshold)

MatchesAny(query, candidates, threshold) ==
    \E i \in DOMAIN candidates : PassedThreshold(query, candidates[i], threshold)

\* Indices of the candidates that pass, by falling similarity; the sort is
\* stable, so equals stay in the order they were enrolled.
FindAllMatches(query, candidates, threshold) ==
    LET sims == Similarities(query, candidates)
        passing == {i \in DOMAIN candidates : AtLeast(sims[i], threshold)}
        Before(i, j) == AtLeast(sims[i], sims[j]) /\ (AtLeast(sims[j], sims[i]) => i < j)
    IN  CHOOSE order \in [1..Cardinality(passing) -> passing] :
            \A i, j \in DOMAIN order : i < j => Before(order[i], order[j])
=============================================================================
