------------------------- MODULE MCSystemStateFold ---------------------------
(* Four sessions, one of which may be registered out of order: as its own    *)
(* parent, below an unknown parent, or again, also below its own descendant; *)
(* two plugins that may take a tool name from each other.                    *)
EXTENDS SystemStateFold, TLC

CONSTANTS s1, s2, s3, s4, p1, p2, n1, n2, a1

MCSymmetry == Permutations({s1, s2, s3, s4}) \union Permutations({p1, p2})
                  \union Permutations({n1, n2})

=============================================================================
