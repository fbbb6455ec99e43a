--------------------------- MODULE MCStoreOpening ---------------------------
\* Three meta roots and two blocks roots, named crosswise: the first meta root is a
\* directory where nothing was ever created, the second a store from before ids. A
\* third has its blocks database at the place older builds kept it.
EXTENDS StoreOpening, TLC

CONSTANTS d1, d2, d3, r1, r2, p1, p2

\* Every kind of process on the first meta root; the second is opened on either
\* blocks root and re-paired.
Crosswise ==
    {<<"s3", d1, r1>>, <<"resp", d1, r1>>, <<"tool", d1, r1>>,
     <<"s3", d2, r1>>, <<"s3", d2, r2>>, <<"repair", d2, r1>>, <<"repair", d1, r1>>,
     <<"s3", d3, r2>>}

NewAndOld == d1 :> Absent @@ d2 :> NoId @@ d3 :> Legacy

Symmetry == Permutations({p1, p2})
=============================================================================
