-------------------------- MODULE MCApprovalChain --------------------------
(***************************************************************************)
(* One document whose amount calls for two steps, of which one person may  *)
(* sign both, submitted twice; one that is posted at once.                 *)
(***************************************************************************)
EXTENDS ApprovalChain, TLC

CONSTANTS author, head, cfo, big, small, s1, s2, s3

MCSteps == {10, 20}
MCMaySign == (10 :> {author, head, cfo} @@ 20 :> {cfo})
MCChain == (big :> {10, 20} @@ small :> {})
MCDocumentOf == (s1 :> big @@ s2 :> big @@ s3 :> small)
Symmetry == Permutations(Decisions) \cup Permutations({s1, s2}) \cup Permutations(Requests)
=============================================================================
