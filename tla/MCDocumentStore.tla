--------------------------- MODULE MCDocumentStore ---------------------------
EXTENDS DocumentStore, TLC

CONSTANTS d1, d2, r1, r2, k1

\* Two downloads and a task of one document, none of the other.
SameDoc == r1 :> d1 @@ r2 :> d1 @@ k1 :> d1
=============================================================================
