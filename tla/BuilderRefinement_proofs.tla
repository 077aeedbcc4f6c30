----------------------- MODULE BuilderRefinement_proofs -----------------------
(***************************************************************************)
(* Every behaviour of BuilderIncludes is one of IncludeSlots: the initial  *)
(* state maps to an initial state, and every step to a step or a stutter.  *)
(***************************************************************************)
EXTENDS BuilderRefinement, BuilderIncludes_proofs

slots == [s \in Scripts |-> SlotOf(s)]

(* The value of a slot, case by case. *)
LEMMA SlotCases ==
    ASSUME TypeOK, NEW s \in Scripts
    PROVE  /\ s > created => SlotOf(s) = "unused"
           /\ s <= created /\ thr[s] = "joined" =>
                 SlotOf(s) = IF attached[s] = Null THEN "empty" ELSE "filled"
           /\ s <= created /\ thr[s] # "joined" /\ s \in cancelled => SlotOf(s) = "abandoned"
           /\ s <= created /\ thr[s] # "joined" /\ pc = "threw" => SlotOf(s) = "abandoned"
           /\ s <= created /\ thr[s] # "joined" /\ s \notin cancelled /\ pc # "threw" =>
                 SlotOf(s) = "pending"
<1>1. s \in Nat /\ created \in Nat
  BY MaxScriptsAssumption DEF TypeOK, Scripts
<1>2. s > created <=> ~(s <= created)
  BY <1>1
<1> QED
  BY <1>2 DEF SlotOf

LEMMA PhaseCases ==
    /\ pc \in {"built", "destroyed"} => Phase = "published"
    /\ pc = "threw" => Phase = "failed"
    /\ pc \notin {"built", "destroyed", "threw"} => Phase = "building"
BY DEF Phase

LEMMA RefinementInit == Init => Abstract!Init
<1> SUFFICES ASSUME Init PROVE Abstract!Init
  OBVIOUS
<1>1. TypeOK
  BY TypeInit
<1>2. \A s \in Scripts : s > created
  BY MaxScriptsAssumption DEF Init, Scripts
<1>3. \A s \in Scripts : SlotOf(s) = "unused"
  BY <1>1, <1>2, SlotCases
<1>4. Phase = "building"
  BY PhaseCases DEF Init
<1> QED
  BY <1>3, <1>4 DEF Abstract!Init

(* A step that changes neither the phase nor any slot is a stutter. *)
LEMMA Stutter ==
    ASSUME TypeOK, TypeOK',
           created' = created, cancelled' = cancelled, attached' = attached,
           \A s \in Scripts : thr'[s] = "joined" <=> thr[s] = "joined",
           pc' = "threw" <=> pc = "threw",
           Phase' = Phase
    PROVE  UNCHANGED <<Phase, slots>>
<1>1. ASSUME NEW s \in Scripts
      PROVE  SlotOf(s)' = SlotOf(s)
  BY DEF SlotOf
<1> QED
  BY <1>1 DEF slots

LEMMA RefinementStep ==
    TypeOK /\ IteratorInv /\ RecordInv /\ TypeOK' /\ RecordInv' /\ [Next]_vars =>
        [Abstract!Next]_<<Phase, slots>>
<1> SUFFICES ASSUME TypeOK, IteratorInv, RecordInv, TypeOK', RecordInv', [Next]_vars
             PROVE  [Abstract!Next]_<<Phase, slots>>
  OBVIOUS
<1> USE DEF Null, End
<1>s. /\ slots \in [Scripts -> {"unused", "pending", "filled", "empty", "abandoned"}]
      /\ \A s \in Scripts : slots[s] = SlotOf(s)
  BY SlotCases DEF slots, SlotOf
<1>1. CASE ScriptUse
  <2>1. PICK n \in Scripts : n = created + 1 /\ created \in Nat
    BY <1>1, MaxScriptsAssumption DEF ScriptUse, TypeOK, Scripts
  <2>2. Phase = "building" /\ Phase' = "building"
    BY <1>1, PhaseCases DEF ScriptUse, Phase
  <2>3. SlotOf(n) = "unused"
    BY <2>1, SlotCases
  <2>4. SlotOf(n)' = "pending"
    <3>1. n \notin cancelled /\ n = created' /\ cancelled' = cancelled
      BY <1>1, <2>1 DEF ScriptUse, TypeOK
    <3>2. thr'[n] = "run" /\ pc' = "parse"
      BY <1>1, <2>1 DEF ScriptUse, TypeOK
    <3>3. ~(n > created')
      BY <2>1, <3>1
    <3> QED
      BY <3>1, <3>2, <3>3 DEF SlotOf
  <2>5. ASSUME NEW s \in Scripts, s # n
        PROVE  SlotOf(s)' = SlotOf(s)
    <3>1. thr'[s] = thr[s]
      BY <1>1, <2>1, <2>5 DEF ScriptUse, TypeOK
    <3>2. s \in Nat /\ (s > created' <=> s > created) /\ (s <= created' <=> s <= created)
      BY <1>1, <2>1, <2>5, MaxScriptsAssumption DEF ScriptUse, Scripts
    <3> QED
      BY <1>1, <3>1, <3>2 DEF ScriptUse, SlotOf
  <2>6. slots' = [slots EXCEPT ![n] = "pending"]
    BY <2>1, <2>4, <2>5 DEF slots
  <2> QED
    BY <1>s, <2>1, <2>2, <2>3, <2>6 DEF Abstract!Next, Abstract!Meet, slots
<1>2. ASSUME ParseThrows \/ LinksThrow
      PROVE  Abstract!Fail
  <2>1. Phase = "building" /\ Phase' = "failed"
    BY <1>2, PhaseCases DEF ParseThrows, LinksThrow, Phase
  <2>2. ASSUME NEW s \in Scripts
        PROVE  SlotOf(s)' = IF SlotOf(s) = "pending" THEN "abandoned" ELSE SlotOf(s)
    BY <1>2, MaxScriptsAssumption, SlotCases
    DEF ParseThrows, LinksThrow, SlotOf, TypeOK, Scripts
  <2> QED
    BY <1>s, <2>1, <2>2 DEF Abstract!Fail, slots
<1>3. CASE Join
  <2>1. /\ it \in Scripts /\ it <= created /\ it \notin cancelled /\ thr[it] # "joined"
        /\ it \in executed_list
    BY <1>3, MaxScriptsAssumption
    DEF Join, IteratorInv, RecordInv, ThreadInv, CancelInv, TypeOK, Scripts
  <2>2. Phase = "building" /\ Phase' = "building"
    BY <1>3, PhaseCases DEF Join, Phase
  <2>3. SlotOf(it) = "pending"
    BY <1>3, <2>1, SlotCases DEF Join
  <2>j. PICK j \in Scripts : j = it
    BY <2>1
  <2> DEFINE how == IF attached'[j] = Null THEN "empty" ELSE "filled"
  <2>4. SlotOf(j)' = how
    <3>1. thr'[j] = "joined" /\ j <= created' /\ ~(j > created')
      BY <1>3, <2>1, <2>j, MaxScriptsAssumption DEF Join, TypeOK, Scripts
    <3> QED
      BY <3>1 DEF SlotOf
  <2>5. ASSUME NEW s \in Scripts, s # j
        PROVE  SlotOf(s)' = SlotOf(s)
    <3>1. thr'[s] = thr[s] /\ attached'[s] = attached[s]
      BY <1>3, <2>1, <2>j, <2>5 DEF Join, TypeOK
    <3> QED
      BY <1>3, <3>1 DEF Join, SlotOf
  <2>6. slots' = [slots EXCEPT ![j] = how]
    BY <2>j, <2>4, <2>5 DEF slots
  <2>7. how \in Abstract!Settled
    BY DEF Abstract!Settled
  <2> HIDE DEF how
  <2> QED
    BY <1>s, <2>j, <2>2, <2>3, <2>6, <2>7 DEF Abstract!Next, Abstract!Settle, slots
<1>4. CASE CancelOne
  <2>1. it \in Scripts /\ it <= created /\ thr[it] # "joined" /\ it \in executed_list
    BY <1>4, MaxScriptsAssumption
    DEF CancelOne, IteratorInv, RecordInv, ThreadInv, TypeOK, Scripts
  <2>2. Phase = "building" /\ Phase' = "building"
    BY <1>4, PhaseCases DEF CancelOne, Phase
  <2>3. SlotOf(it) \in {"pending", "abandoned"}
    BY <1>4, <2>1, SlotCases DEF CancelOne
  <2>j. PICK j \in Scripts : j = it
    BY <2>1
  <2>4. SlotOf(j)' = "abandoned"
    <3>1. /\ thr'[j] # "joined" /\ j <= created' /\ ~(j > created')
          /\ j \in cancelled'
      BY <1>4, <2>1, <2>j, MaxScriptsAssumption DEF CancelOne, TypeOK, Scripts
    <3> QED
      BY <3>1 DEF SlotOf
  <2>5. ASSUME NEW s \in Scripts, s # j
        PROVE  SlotOf(s)' = SlotOf(s)
    BY <1>4, <2>1, <2>j, <2>5 DEF CancelOne, SlotOf
  <2>6. slots' = [slots EXCEPT ![j] = "abandoned"]
    BY <2>j, <2>4, <2>5 DEF slots
  <2>7. CASE SlotOf(it) = "pending"
    BY <1>s, <2>j, <2>2, <2>6, <2>7
    DEF Abstract!Next, Abstract!Settle, Abstract!Settled, slots
  <2>8. CASE SlotOf(it) = "abandoned"
    <3>1. slots' = slots
      BY <1>s, <2>j, <2>6, <2>8
    <3> QED
      BY <2>2, <3>1
  <2> QED
    BY <2>3, <2>7, <2>8
<1>5. CASE LinksAssigned
  <2>1. Phase = "building" /\ Phase' = "published"
    BY <1>5, PhaseCases DEF LinksAssigned, Phase
  <2>2. ASSUME NEW s \in Scripts
        PROVE  SlotOf(s) # "pending" /\ SlotOf(s)' = SlotOf(s)
    <3>1. s <= created => thr[s] = "joined" \/ s \in cancelled
      BY <1>5 DEF LinksAssigned, RecordInv, ThreadInv, CancelInv
    <3>2. s > created \/ s <= created
      BY MaxScriptsAssumption DEF TypeOK, Scripts
    <3> QED
      BY <1>5, <3>1, <3>2, SlotCases DEF LinksAssigned, SlotOf
  <2> QED
    BY <1>s, <2>1, <2>2 DEF Abstract!Next, Abstract!Publish, slots
<1>6. CASE Destroy
  BY <1>6, Stutter DEF Destroy, Phase
<1>7. CASE ParseDone
  BY <1>7, Stutter DEF ParseDone, Phase, threadVars, history
<1>8. CASE SweepBegin
  BY <1>8, Stutter DEF SweepBegin, Phase, threadVars, history
<1>9. CASE VisitDone
  BY <1>9, Stutter DEF VisitDone, Phase, threadVars, history
<1>10. CASE VisitPending
  BY <1>10, Stutter DEF VisitPending, Phase, threadVars, history
<1>11. CASE SweepEnd
  BY <1>11, Stutter DEF SweepEnd, Phase, threadVars, history
<1>12. CASE LoopExit
  BY <1>12, Stutter DEF LoopExit, Phase, threadVars, history
<1>13. CASE CancelEnd
  BY <1>13, Stutter DEF CancelEnd, Phase, threadVars, history
<1>14. ASSUME NEW s \in Scripts, ThreadStep(s)
      PROVE  UNCHANGED <<Phase, slots>>
  <2>1. UNCHANGED <<pc, created, attached, cancelled>>
    BY <1>14 DEF ThreadStep, ThreadWrites, Produce, StoreOut, StoreDone, Exit, Unwind,
                builderVars
  <2>2. \A t \in Scripts : thr'[t] = "joined" <=> thr[t] = "joined"
    BY <1>14 DEF ThreadStep, ThreadWrites, Produce, StoreOut, StoreDone, Exit, Unwind, TypeOK
  <2> QED
    BY <2>1, <2>2, Stutter DEF Phase
<1>15. CASE UNCHANGED vars
  BY <1>15, Stutter DEF vars, builderVars, Phase
<1> QED
  BY <1>1, <1>2, <1>3, <1>4, <1>5, <1>6, <1>7, <1>8, <1>9, <1>10, <1>11, <1>12, <1>13, <1>14, <1>15 DEF Next, BuilderStep, Abstract!Next

(* The builder implements IncludeSlots for any number of scripts and sweeps: *)
(* a settled place never changes, and no tree leaves with a place pending.   *)
THEOREM BuilderImplementsSlots == Spec => Refinement
<1>1. Spec => [](TypeOK /\ IteratorInv /\ RecordInv)
  BY TypeInit, TypeStep, RecordInit, RecordStep, PTL DEF Spec
<1>2. slots = [s \in Scripts |-> SlotOf(s)]
  BY DEF slots
<1> QED
  BY <1>1, RefinementInit, RefinementStep, PTL
  DEF Spec, Refinement, Abstract!Spec, slots
=============================================================================
