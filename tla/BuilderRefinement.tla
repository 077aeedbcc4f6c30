--------------------------- MODULE BuilderRefinement ---------------------------
(***************************************************************************)
(* The places for script output in the tree of a BuilderIncludes, as       *)
(* IncludeSlots sees them.                                                 *)
(***************************************************************************)
EXTENDS BuilderIncludes

Phase ==
    CASE pc \in {"built", "destroyed"} -> "published"
      [] pc = "threw"                  -> "failed"
      [] OTHER                         -> "building"

SlotOf(s) ==
    CASE s > created                               -> "unused"
      [] s <= created /\ thr[s] = "joined"         ->
             IF attached[s] = Null THEN "empty" ELSE "filled"
      [] s <= created /\ thr[s] # "joined" /\ (s \in cancelled \/ pc = "threw")
                                                   -> "abandoned"
      [] OTHER                                     -> "pending"

Abstract == INSTANCE IncludeSlots WITH
    Slots <- Scripts,
    phase <- Phase,
    slot  <- [s \in Scripts |-> SlotOf(s)]

(* The builder implements the promise of IncludeSlots: no step changes a    *)
(* place that is settled, and no tree is handed out while a thread that was *)
(* neither joined nor cancelled may still owe a result.                     *)
Refinement == Abstract!Spec
=============================================================================
