--------------------------- MODULE MCRagEmbedding ---------------------------
(***************************************************************************)
(* RagEmbedding on small instances.                                        *)
(***************************************************************************)
EXTENDS RagEmbedding, TLC

CONSTANTS s1, s2, a, b, u1, u2

MCSymmetry == Permutations(Source) \cup Permutations(Text) \cup Permutations(User)
=============================================================================
