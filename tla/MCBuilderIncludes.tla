--------------------------- MODULE MCBuilderIncludes ---------------------------
(***************************************************************************)
(* The builder on small instances: MaxScripts scripts and a few sweeps.    *)
(***************************************************************************)
EXTENDS BuilderRefinement
=============================================================================
