----------------------------- MODULE MCMeshGoal ------------------------------
(* Replies that tell the verdict rules apart: none, one, a change of mind,  *)
(* an unknown status after a verdict, and a verdict followed by prose.      *)
EXTENDS MeshGoal

CONSTANTS t1

MCReplies ==
    { << >>,
      << ContinueVerdict(t1), DoneVerdict >>,
      << DoneVerdict, Garbled >>,
      << BlockedVerdict(t1), Prose >> }

=============================================================================
