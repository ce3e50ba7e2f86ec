--------------------------- MODULE MCRepositoryGc ---------------------------
(* An instance of RepositoryGc for TLC: one put, one reset and one worker. *)
EXTENDS RepositoryGc, TLC

CONSTANTS p, x

MCPayloadOf == p :> x
=============================================================================
