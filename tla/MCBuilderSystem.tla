---------------------------- MODULE MCBuilderSystem ----------------------------
(***************************************************************************)
(* The system with one script, which puts out one script.                  *)
(***************************************************************************)
EXTENDS BuilderSystem
=============================================================================
