----------------------------- MODULE MCWebPage ------------------------------
(***************************************************************************)
(* Two pages that want different configurations.                           *)
(***************************************************************************)
EXTENDS WebPage
=============================================================================
