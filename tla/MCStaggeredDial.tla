-------------------------- MODULE MCStaggeredDial --------------------------
(***************************************************************************)
(* StaggeredDial with up to four addresses of either family.               *)
(***************************************************************************)
EXTENDS StaggeredDial
=============================================================================
