---------------------------- MODULE MCJiraFetch -----------------------------
(* Finite instances of JiraFetch for TLC.                                   *)
EXTENDS JiraFetch
=============================================================================
