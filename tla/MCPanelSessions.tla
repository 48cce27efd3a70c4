-------------------------- MODULE MCPanelSessions --------------------------
(***************************************************************************)
(* PanelSessions for TLC.                                                  *)
(***************************************************************************)
EXTENDS PanelSessions, TLC

\* Tasks that handle requests are alike.
Interchangeable == Permutations(Requests)
=============================================================================
