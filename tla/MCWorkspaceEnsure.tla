-------------------------- MODULE MCWorkspaceEnsure --------------------------
(* Two calls that may each run any operation meet in every pair; a third    *)
(* one, in the run of the late fill, trusts the cell that the two left.     *)
EXTENDS WorkspaceEnsure, TLC

CONSTANTS c1, c2, c3

MCMay == [c \in Calls |-> {"use", "get", "force", "delete"}]
MCMayFill == c1 :> {"get"} @@ c2 :> {"delete"} @@ c3 :> {"use"}
=============================================================================
