--------------------------- MODULE MCSharedBinding ---------------------------
(***************************************************************************)
(* Instances of SharedBinding for TLC.                                     *)
(***************************************************************************)
EXTENDS SharedBinding

\* The constructor NewOwnedRoleBinding starts from NewConfig and only unsets
\* watched; a RoleBinding put together by hand can say updated.
NewOwnedRoleBinding == FALSE
ConfiguredByHand == TRUE
=============================================================================
