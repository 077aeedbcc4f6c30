---------------------------- MODULE MCScriptExecute ----------------------------
(***************************************************************************)
(* Script::execute with reads of two bytes and pipes of three.              *)
(***************************************************************************)
EXTENDS ScriptExecute
=============================================================================
