------------------------------ MODULE MCFuser ------------------------------
(* The fuser on small streams, with a reference for its pairing.           *)
EXTENDS Fuser, FiniteSetsExt

\* Sets of index pairs of two frame sequences in which no frame is used twice
\* and the two frames of a pair are close enough
Matchings(a, b) ==
    {m \in SUBSET ((DOMAIN a) \X (DOMAIN b)) :
        /\ \A x \in m : Diff(a[x[1]], b[x[2]]) < MatchNs
        /\ \A x, y \in m : x # y => x[1] # y[1] /\ x[2] # y[2]}

\* The greedy loop over the cache fronts pairs as many frames as any choice
\* of pairs could, for the caches it started from.
PairingIsMaximum ==
    pc = "match" /\ ~BothCached =>
        pairs = Max({Cardinality(m) : m \in Matchings(pass["A"], pass["B"])})
=============================================================================
