------------------------ MODULE BuilderIncludes_proofs ------------------------
(***************************************************************************)
(* Proofs about BuilderIncludes for any number of scripts and of sweeps.   *)
(***************************************************************************)
EXTENDS BuilderIncludes, FiniteSetTheorems, WellFoundedInduction, TLAPS

(* The iterator of whichever loop runs points into the list. *)
IteratorInv ==
    /\ pc \in {"sweep", "join", "cancel"} /\ it # End => it \in executed_list
    /\ pc = "join" => it # End
    /\ pc \in {"sweep", "join"} => sweep < timeout_join_count

(* How far a thread got, the place of its record and its stores. *)
ThreadInv ==
    \A s \in Scripts :
        /\ thr[s] = "idle" <=> s > created
        /\ s \in executed_list => thr[s] # "joined"
        /\ s <= created /\ s \notin executed_list =>
              \/ thr[s] = "joined"
              \/ pc = "threw"
              \/ pc = "destroyed" /\ s \in cancelled
        /\ s \in executed_list /\ thr[s] = "store" /\ "out" \notin todo[s] =>
              args_out[s] = result[s]
        /\ s \in executed_list /\ thr[s] = "exited" => args_out[s] = result[s]
        /\ thr[s] = "unwound" => s \in cancelled

(* The loop that cancels leaves nobody out, and only that loop cancels. *)
CancelInv ==
    /\ cancelled # {} => pc \in {"cancel", "links", "built", "threw", "destroyed"}
    /\ pc = "cancel" =>
          \A s \in executed_list : it = End \/ s < it => s \in cancelled
    /\ pc \in {"links", "built", "destroyed"} => executed_list \subseteq cancelled

(* A record the iterator has passed in this sweep although its flag was    *)
(* set already has a predecessor joined in this sweep to show for it.      *)
SkipInv ==
    /\ SkipBound
    /\ \A s \in Scripts : s > created => ripe[s] = 0
    /\ pc \in {"sweep", "join"} =>
          \A s \in seen \cap executed_list :
              /\ args_done[s]
              /\ it = End \/ it > s =>
                    ripe[s] + 1 + Cardinality(Before(executed_list, s)) <= s - 1

IInv ==
    /\ TypeOK
    /\ IteratorInv
    /\ ThreadInv
    /\ CancelInv
    /\ SkipInv
    /\ AttachedIsResult

-----------------------------------------------------------------------------
(* Facts about the list. *)

(* A nonempty set of natural numbers has a least element: the list of      *)
(* records has a first element, and so has every tail of it.               *)
LEMMA LeastElement ==
    ASSUME NEW L, L \subseteq Nat, L # {}
    PROVE  \E t \in L : \A u \in L : t <= u
<1>1. PICK t \in L : \A u \in L : <<u, t>> \notin OpToRel(<, Nat)
  BY NatLessThanWellFounded, WFMin
<1>2. \A u \in L : ~(u < t)
  BY <1>1 DEF OpToRel
<1> QED
  BY <1>2

(* ++it yields the next record of the list, and end() after the last one.  *)
LEMMA SuccNext ==
    ASSUME NEW L, L \subseteq Nat, NEW s \in Nat
    PROVE  /\ Succ(L, s) # End => Succ(L, s) \in L /\ Succ(L, s) > s
           /\ Succ(L, s) \in L \cup {End}
           /\ \A u \in L : u > s => Succ(L, s) # End /\ Succ(L, s) <= u
<1>1. CASE \E t \in L : t > s
  <2> DEFINE tail == {t \in L : t > s}
  <2>1. PICK t \in tail : \A u \in tail : t <= u
    BY <1>1, LeastElement
  <2>2. \E v \in L : v > s /\ \A u \in L : u > s => v <= u
    BY <2>1
  <2>3. /\ Succ(L, s) \in L
        /\ Succ(L, s) > s
        /\ \A u \in L : u > s => Succ(L, s) <= u
    BY <1>1, <2>2, Zenon DEF Succ
  <2>4. Succ(L, s) # End
    BY <2>3 DEF End
  <2> QED
    BY <2>3, <2>4
<1>2. CASE ~ \E t \in L : t > s
  BY <1>2 DEF Succ, End
<1> QED
  BY <1>1, <1>2

(* Taking a record off the list, and adding one at its end.                *)
LEMMA BeforeRemoved ==
    ASSUME NEW n \in Nat, NEW L \in SUBSET (1..n), NEW j \in L, NEW s \in L, s # j
    PROVE  /\ Cardinality(Before(L, s)) \in Nat
           /\ Cardinality(Before(L \ {j}, s)) \in Nat
           /\ Cardinality(Before(L \ {j}, s)) =
                 IF j < s THEN Cardinality(Before(L, s)) - 1
                          ELSE Cardinality(Before(L, s))
<1>1. IsFiniteSet(Before(L, s)) /\ IsFiniteSet(Before(L \ {j}, s))
  <2>1. IsFiniteSet(1..n)
    BY FS_Interval
  <2> QED
    BY <2>1, FS_Subset DEF Before
<1>2. Before(L \ {j}, s) = Before(L, s) \ {j}
  BY DEF Before
<1>3. j \in Before(L, s) <=> j < s
  BY DEF Before
<1> QED
  BY <1>1, <1>2, <1>3, FS_RemoveElement, FS_CardinalityType

LEMMA BeforeAdded ==
    ASSUME NEW n \in Nat, NEW L \in SUBSET (1..n)
    PROVE  /\ \A s \in L : Before(L \cup {n + 1}, s) = Before(L, s)
           /\ Cardinality(Before(L \cup {n + 1}, n + 1)) \in Nat
           /\ Cardinality(Before(L \cup {n + 1}, n + 1)) <= n
<1>1. Before(L \cup {n + 1}, n + 1) \in SUBSET (1..n)
  <2>1. ASSUME NEW t \in Before(L \cup {n + 1}, n + 1)
        PROVE  t \in 1..n
    <3>1. t \in L \cup {n + 1} /\ t < n + 1
      BY <2>1 DEF Before
    <3>2. t # n + 1
      BY <3>1
    <3> QED
      BY <3>1, <3>2
  <2> QED
    BY <2>1
<1>2. IsFiniteSet(1..n) /\ Cardinality(1..n) = n
  BY FS_Interval
<1>3. \A s \in L : Before(L \cup {n + 1}, s) = Before(L, s)
  BY DEF Before
<1> QED
  BY <1>1, <1>2, <1>3, FS_Subset, FS_CardinalityType

-----------------------------------------------------------------------------
(* Type correctness. *)

LEMMA TypeInit == Init => TypeOK /\ IteratorInv
BY MaxScriptsAssumption, JoinCountAssumption
DEF Init, NewFlag, TypeOK, IteratorInv, Scripts, Null, End, Fields

(* Every assignment to the iterator is an iterator of the list it is for.  *)
LEMMA IteratorMoves ==
    ASSUME TypeOK
    PROVE  /\ \A s \in Nat : AfterPending(executed_list, s) \in executed_list \cup {End}
           /\ \A s \in Nat : AfterErase(executed_list, s) \in (executed_list \ {s}) \cup {End}
           /\ CancelFrom(executed_list) \in executed_list \cup {End}
           /\ \A s \in Nat : Succ(executed_list, s) \in executed_list \cup {End}
           /\ it \in Nat /\ End \in Nat
<1>1. executed_list \subseteq Nat
  BY DEF TypeOK
<1>2. \A s \in Nat : Succ(executed_list, s) \in executed_list \cup {End}
  BY <1>1, SuccNext
<1>3. ASSUME NEW s \in Nat
      PROVE  AfterErase(executed_list, s) \in (executed_list \ {s}) \cup {End}
  <2> DEFINE L == executed_list \ {s}
  <2>1. L \subseteq Nat
    BY <1>1
  <2>2. \A u \in Nat : Succ(L, u) \in L \cup {End}
    BY <2>1, SuccNext
  <2>3. Succ(L, s) \in Nat
    BY <2>1, <2>2 DEF End
  <2> QED
    BY <2>2, <2>3 DEF AfterErase
<1>4. it \in Nat
  BY DEF TypeOK, End
<1> QED
  BY <1>2, <1>3, <1>4 DEF AfterPending, CancelFrom, End

LEMMA TypeStep ==
    TypeOK /\ IteratorInv /\ [Next]_vars => TypeOK' /\ IteratorInv'
<1> SUFFICES ASSUME TypeOK, IteratorInv, [Next]_vars
             PROVE  TypeOK' /\ IteratorInv'
  OBVIOUS
<1>m. /\ \A s \in Nat : AfterPending(executed_list, s) \in executed_list \cup {End}
      /\ \A s \in Nat : AfterErase(executed_list, s) \in (executed_list \ {s}) \cup {End}
      /\ CancelFrom(executed_list) \in executed_list \cup {End}
      /\ \A s \in Nat : Succ(executed_list, s) \in executed_list \cup {End}
      /\ it \in Nat /\ End \in Nat
  BY IteratorMoves
<1> USE MaxScriptsAssumption, JoinCountAssumption
    DEF TypeOK, IteratorInv, Scripts, Null, End, Fields, SweepsLeft
<1>1. CASE ScriptUse
  <2>1. created' \in 0..MaxScripts /\ created' = created + 1 /\ created + 1 \in Scripts
    BY <1>1 DEF ScriptUse
  <2>2. 1..created \subseteq 1..created' /\ created + 1 \in 1..created'
    BY <2>1
  <2> QED
    BY <1>1, <2>1, <2>2 DEF ScriptUse, threadVars, history
<1>2. CASE ParseThrows
  BY <1>2 DEF ParseThrows, threadVars, history
<1>3. CASE ParseDone
  BY <1>3 DEF ParseDone, threadVars, history
<1>4. CASE SweepBegin
  BY <1>4, <1>m DEF SweepBegin, threadVars, history
<1>5. CASE VisitDone
  BY <1>5 DEF VisitDone, threadVars, history
<1>6. CASE VisitPending
  BY <1>6, <1>m DEF VisitPending, threadVars, history
<1>7. CASE Join
  BY <1>7, <1>m DEF Join, threadVars, history
<1>8. CASE SweepEnd
  BY <1>8 DEF SweepEnd, threadVars, history
<1>9. CASE LoopExit
  BY <1>9, <1>m DEF LoopExit, threadVars, history
<1>10. CASE CancelOne
  BY <1>10, <1>m DEF CancelOne, threadVars, history
<1>11. CASE CancelEnd
  BY <1>11 DEF CancelEnd, threadVars, history
<1>12. CASE LinksAssigned
  BY <1>12 DEF LinksAssigned, threadVars, history
<1>13. CASE LinksThrow
  BY <1>13 DEF LinksThrow, threadVars, history
<1>14. CASE Destroy
  BY <1>14 DEF Destroy, threadVars, history
<1>15. ASSUME NEW s \in Scripts, ThreadStep(s)
      PROVE  TypeOK' /\ IteratorInv'
  <2>1. CASE \E r \in {Null, s} : Produce(s, r)
    BY <2>1 DEF Produce, builderVars, history
  <2>2. CASE StoreOut(s)
    BY <2>2 DEF StoreOut, builderVars, history
  <2>3. CASE StoreDone(s)
    BY <2>3 DEF StoreDone, builderVars, history
  <2>4. CASE Exit(s)
    BY <2>4 DEF Exit, builderVars, threadVars, history
  <2>5. CASE Unwind(s)
    BY <2>5 DEF Unwind, builderVars, threadVars, history
  <2> QED
    BY <1>15, <2>1, <2>2, <2>3, <2>4, <2>5 DEF ThreadStep, ThreadWrites
<1>16. CASE UNCHANGED vars
  BY <1>16 DEF vars, builderVars, threadVars, history
<1> QED
  BY <1>1, <1>2, <1>3, <1>4, <1>5, <1>6, <1>7, <1>8, <1>9, <1>10, <1>11, <1>12, <1>13, <1>14, <1>15, <1>16 DEF Next, BuilderStep

(* Every variable keeps its type, in any number of scripts and sweeps.      *)
THEOREM TypeCorrect == Spec => []TypeOK
<1>1. Spec => [](TypeOK /\ IteratorInv)
  BY TypeInit, TypeStep, PTL DEF Spec
<1> QED
  BY <1>1, PTL

-----------------------------------------------------------------------------
(* Threads and their records. *)

RecordInv == ThreadInv /\ CancelInv /\ AttachedIsResult

LEMMA RecordInit == Init => RecordInv
BY MaxScriptsAssumption, JoinCountAssumption
DEF Init, RecordInv, ThreadInv, CancelInv, AttachedIsResult, Scripts, Null, End

(* The loop that cancels passes nobody: what the iterator leaves behind is  *)
(* below it, and the iterator is at the end only when nothing is left.      *)
LEMMA CancelCovers ==
    ASSUME TypeOK
    PROVE  /\ CancelFrom(executed_list) = End => executed_list = {}
           /\ \A s \in executed_list : ~(s < CancelFrom(executed_list))
           /\ \A j \in Nat, s \in executed_list :
                 Succ(executed_list, j) = End \/ s < Succ(executed_list, j) => s <= j
<1>1. executed_list \subseteq Nat /\ \A s \in executed_list : s > 0
  BY DEF TypeOK
<1>2. \A j \in Nat : /\ Succ(executed_list, j) \in executed_list \cup {End}
                     /\ \A u \in executed_list : u > j =>
                           Succ(executed_list, j) # End /\ Succ(executed_list, j) <= u
  BY <1>1, SuccNext
<1>3. /\ CancelFrom(executed_list) = End => executed_list = {}
      /\ \A s \in executed_list : ~(s < CancelFrom(executed_list))
  <2>1. End \in Nat
    BY DEF End
  <2>2. \A u \in executed_list :
           CancelFrom(executed_list) # End /\ CancelFrom(executed_list) <= u
    BY <1>1, <1>2, <2>1 DEF CancelFrom, End
  <2>3. CancelFrom(executed_list) \in Nat
    BY <1>1, <1>2, <2>1 DEF CancelFrom
  <2> QED
    BY <1>1, <2>2, <2>3
<1>4. ASSUME NEW j \in Nat, NEW s \in executed_list,
             Succ(executed_list, j) = End \/ s < Succ(executed_list, j)
      PROVE  s <= j
  <2>1. Succ(executed_list, j) \in Nat
    <3>1. executed_list \cup {End} \subseteq Nat
      BY <1>1 DEF End
    <3> QED
      BY <3>1, <1>2
  <2>2. s \in Nat
    BY <1>1
  <2>3. s > j => Succ(executed_list, j) # End /\ s >= Succ(executed_list, j)
    BY <1>2, <2>1, <2>2
  <2> QED
    BY <1>4, <2>1, <2>2, <2>3
<1> QED
  BY <1>3, <1>4

LEMMA RecordStep ==
    TypeOK /\ IteratorInv /\ TypeOK' /\ RecordInv /\ [Next]_vars => RecordInv'
<1> SUFFICES ASSUME TypeOK, IteratorInv, TypeOK', RecordInv, [Next]_vars
             PROVE  RecordInv'
  OBVIOUS
<1> USE DEF Scripts, Null, End, Fields
<1>t. TypeOK /\ TypeOK' /\ IteratorInv /\ RecordInv
  OBVIOUS
<1>1. CASE ScriptUse
  BY <1>t, <1>1 DEF ScriptUse, threadVars, history, RecordInv, ThreadInv, CancelInv, AttachedIsResult, TypeOK, IteratorInv
<1>2. CASE ParseThrows
  BY <1>t, <1>2 DEF ParseThrows, threadVars, history, RecordInv, ThreadInv, CancelInv, AttachedIsResult, TypeOK, IteratorInv
<1>3. CASE ParseDone
  BY <1>t, <1>3 DEF ParseDone, threadVars, history, RecordInv, ThreadInv, CancelInv, AttachedIsResult, TypeOK, IteratorInv
<1>4. CASE SweepBegin
  BY <1>t, <1>4 DEF SweepBegin, threadVars, history, RecordInv, ThreadInv, CancelInv, AttachedIsResult, TypeOK, IteratorInv
<1>5. CASE VisitDone
  BY <1>t, <1>5 DEF VisitDone, threadVars, history, RecordInv, ThreadInv, CancelInv, AttachedIsResult, TypeOK, IteratorInv
<1>6. CASE VisitPending
  BY <1>t, <1>6 DEF VisitPending, threadVars, history, RecordInv, ThreadInv, CancelInv, AttachedIsResult, TypeOK, IteratorInv
<1>7. CASE Join
  BY <1>t, <1>7 DEF Join, threadVars, history, RecordInv, ThreadInv, CancelInv, AttachedIsResult, TypeOK, IteratorInv, ThreadEnded
<1>8. CASE SweepEnd
  BY <1>t, <1>8 DEF SweepEnd, threadVars, history, RecordInv, ThreadInv, CancelInv, AttachedIsResult, TypeOK, IteratorInv
<1>9. CASE LoopExit
  <2>1. /\ pc = "loop" /\ pc' = "cancel" /\ it' = CancelFrom(executed_list)
        /\ UNCHANGED <<created, executed_list, attached, cancelled, thr, todo,
                       args_out, result>>
    BY <1>9 DEF LoopExit, threadVars
  <2>2. CancelInv'
    BY <2>1, CancelCovers DEF CancelInv
  <2>3. ThreadInv' /\ AttachedIsResult'
    BY <1>t, <2>1 DEF RecordInv, ThreadInv, AttachedIsResult
  <2> QED
    BY <2>2, <2>3 DEF RecordInv
<1>10. CASE CancelOne
  <2>1. /\ pc = "cancel" /\ pc' = "cancel" /\ it # End /\ it \in Nat
        /\ it' = Succ(executed_list, it) /\ cancelled' = cancelled \cup {it}
        /\ UNCHANGED <<created, executed_list, attached, thr, todo, args_out, result>>
    BY <1>10, IteratorMoves DEF CancelOne, threadVars
  <2>2. ASSUME NEW s \in executed_list, it' = End \/ s < it'
        PROVE  s \in cancelled'
    <3>1. s \in Nat /\ s <= it
      BY <2>1, <2>2, CancelCovers DEF TypeOK
    <3>2. s = it \/ s < it
      BY <2>1, <3>1
    <3> QED
      BY <1>t, <2>1, <3>2 DEF RecordInv, CancelInv
  <2>3. CancelInv'
    BY <2>1, <2>2 DEF CancelInv
  <2>4. ThreadInv' /\ AttachedIsResult'
    BY <1>t, <2>1 DEF RecordInv, ThreadInv, AttachedIsResult
  <2> QED
    BY <2>3, <2>4 DEF RecordInv
<1>11. CASE CancelEnd
  BY <1>t, <1>11 DEF CancelEnd, threadVars, history, RecordInv, ThreadInv, CancelInv, AttachedIsResult, TypeOK, IteratorInv
<1>12. CASE LinksAssigned
  BY <1>t, <1>12 DEF LinksAssigned, threadVars, history, RecordInv, ThreadInv, CancelInv, AttachedIsResult, TypeOK, IteratorInv
<1>13. CASE LinksThrow
  BY <1>t, <1>13 DEF LinksThrow, threadVars, history, RecordInv, ThreadInv, CancelInv, AttachedIsResult, TypeOK, IteratorInv
<1>14. CASE Destroy
  BY <1>t, <1>14 DEF Destroy, threadVars, history, RecordInv, ThreadInv, CancelInv, AttachedIsResult, TypeOK, IteratorInv
<1>15. ASSUME NEW s \in Scripts, ThreadStep(s)
      PROVE  RecordInv'
  <2>1. CASE \E r \in {Null, s} : Produce(s, r)
    BY <1>t, <2>1 DEF Produce, builderVars, history, RecordInv, ThreadInv, CancelInv, AttachedIsResult, TypeOK, IteratorInv
  <2>2. CASE StoreOut(s)
    BY <1>t, <2>2 DEF StoreOut, builderVars, history, RecordInv, ThreadInv, CancelInv, AttachedIsResult, TypeOK, IteratorInv
  <2>3. CASE StoreDone(s)
    BY <1>t, <2>3 DEF StoreDone, builderVars, history, RecordInv, ThreadInv, CancelInv, AttachedIsResult, TypeOK, IteratorInv
  <2>4. CASE Exit(s)
    BY <1>t, <2>4 DEF Exit, builderVars, threadVars, history, RecordInv, ThreadInv, CancelInv, AttachedIsResult, TypeOK, IteratorInv
  <2>5. CASE Unwind(s)
    BY <1>t, <2>5 DEF Unwind, builderVars, threadVars, history, RecordInv, ThreadInv, CancelInv, AttachedIsResult, TypeOK, IteratorInv
  <2> QED
    BY <1>15, <2>1, <2>2, <2>3, <2>4, <2>5 DEF ThreadStep, ThreadWrites
<1>16. CASE UNCHANGED vars
  BY <1>t, <1>16 DEF vars, builderVars, threadVars, history, RecordInv, ThreadInv, CancelInv, AttachedIsResult, TypeOK, IteratorInv
<1> QED
  BY <1>1, <1>2, <1>3, <1>4, <1>5, <1>6, <1>7, <1>8, <1>9, <1>10, <1>11, <1>12, <1>13, <1>14, <1>15, <1>16 DEF Next, BuilderStep

(* A script's place in the tree gets the whole result of its own thread, or *)
(* stays empty, in every interleaving of the stores and the sweeps.         *)
THEOREM AttachedCorrect == Spec => []AttachedIsResult
<1>1. Spec => [](TypeOK /\ IteratorInv /\ RecordInv)
  BY TypeInit, TypeStep, RecordInit, RecordStep, PTL DEF Spec
<1>2. RecordInv => AttachedIsResult
  BY DEF RecordInv
<1> QED
  BY <1>1, <1>2, PTL

(* The only writes into a freed record are those of threads the builder     *)
(* left behind by an exception or gave up on before it was destroyed.       *)
THEOREM RecordsCorrect == Spec => []RecordOutlivesThread
<1>1. Spec => [](TypeOK /\ IteratorInv /\ RecordInv)
  BY TypeInit, TypeStep, RecordInit, RecordStep, PTL DEF Spec
<1>2. TypeOK /\ RecordInv => RecordOutlivesThread
  <2> SUFFICES ASSUME TypeOK, RecordInv, NEW s \in 1..created
               PROVE  thr[s] \in {"run", "store"} /\ s \notin executed_list =>
                          pc = "threw" \/ (pc = "destroyed" /\ s \in cancelled)
    BY DEF RecordOutlivesThread
  <2>1. s \in Scripts /\ s <= created
    BY MaxScriptsAssumption DEF TypeOK, Scripts
  <2> QED
    BY <2>1 DEF RecordInv, ThreadInv
<1> QED
  BY <1>1, <1>2, PTL

-----------------------------------------------------------------------------
(* Records passed over. *)

Rank(s) == Cardinality(Before(executed_list, s))

LEMMA RankType == TypeOK => \A s \in executed_list : Rank(s) \in Nat
<1> SUFFICES ASSUME TypeOK, NEW s \in executed_list
             PROVE  Rank(s) \in Nat
  OBVIOUS
<1>1. IsFiniteSet(1..created)
  BY FS_Interval DEF TypeOK
<1>2. Before(executed_list, s) \in SUBSET (1..created)
  BY DEF TypeOK, Before
<1> QED
  BY <1>1, <1>2, FS_Subset, FS_CardinalityType DEF Rank

LEMMA SkipInit == Init => SkipInv
BY DEF Init, SkipInv, SkipBound

(* The list as it was, and the history with it: nothing to show but that    *)
(* the flags of records on the list are never reset.                        *)
LEMMA SkipUnchanged ==
    ASSUME SkipInv, UNCHANGED <<pc, created, executed_list, it, history>>,
           \A s \in executed_list : args_done[s] => args_done'[s]
    PROVE  SkipInv'
BY DEF SkipInv, SkipBound, history, Before

LEMMA SkipStep ==
    TypeOK /\ IteratorInv /\ TypeOK' /\ SkipInv /\ [Next]_vars => SkipInv'
<1> SUFFICES ASSUME TypeOK, IteratorInv, TypeOK', SkipInv, [Next]_vars
             PROVE  SkipInv'
  OBVIOUS
<1>r. \A s \in executed_list : Rank(s) \in Nat /\ s \in Nat /\ s > 0 /\ ripe[s] \in Nat
  <2>1. \A s \in executed_list : s \in Scripts /\ s \in Nat /\ s > 0
    BY MaxScriptsAssumption DEF TypeOK, Scripts
  <2>2. ripe \in [Scripts -> Nat]
    BY DEF TypeOK
  <2> QED
    BY <2>1, <2>2, RankType
<1>z. \A s \in Scripts : s > created => ripe[s] = 0
  BY DEF SkipInv
<1>s. /\ \A s \in executed_list : ripe[s] + Rank(s) <= s - 1
      /\ pc \in {"sweep", "join"} =>
            \A s \in seen \cap executed_list :
                /\ args_done[s]
                /\ it = End \/ it > s => ripe[s] + 1 + Rank(s) <= s - 1
  BY DEF SkipInv, SkipBound, Rank
<1>1. CASE ScriptUse
  <2> DEFINE n == created + 1
  <2>1. /\ created \in Nat
        /\ executed_list \in SUBSET (1..created)
        /\ executed_list' = executed_list \cup {n}
        /\ ripe' = ripe
        /\ pc' = "parse"
    BY <1>1 DEF ScriptUse, history, TypeOK
  <2> HIDE DEF n
  <2>n. n = created + 1 /\ n \in Nat /\ n \in Scripts
    BY <1>1, MaxScriptsAssumption DEF n, ScriptUse, TypeOK, Scripts
  <2>2. /\ \A s \in executed_list : Before(executed_list', s) = Before(executed_list, s)
        /\ Cardinality(Before(executed_list', n)) \in Nat
        /\ Cardinality(Before(executed_list', n)) <= created
    BY <2>1, <2>n, BeforeAdded
  <2>3. ripe[n] = 0
    BY <2>1, <2>n, <1>z
  <2>4. \A s \in executed_list' : ripe'[s] + Cardinality(Before(executed_list', s)) <= s - 1
    <3>1. \A s \in executed_list : ripe[s] + Cardinality(Before(executed_list', s)) <= s - 1
      BY <1>s, <2>2 DEF Rank
    <3>2. ripe[n] + Cardinality(Before(executed_list', n)) <= n - 1
      BY <2>1, <2>2, <2>3, <2>n
    <3> QED
      BY <2>1, <3>1, <3>2
  <2>5. \A s \in Scripts : s > created' => ripe'[s] = 0
    BY <1>1, <1>z, <2>1 DEF ScriptUse, Scripts
  <2> QED
    BY <2>1, <2>4, <2>5 DEF SkipInv, SkipBound
<1>2. CASE ParseThrows
  BY <1>2, <1>z DEF ParseThrows, SkipInv, SkipBound, history
<1>3. CASE ParseDone
  BY <1>3, <1>s, <1>z DEF ParseDone, SkipInv, SkipBound, Rank, history
<1>4. CASE SweepBegin
  <2>1. executed_list \subseteq Nat /\ End \in Nat
    BY DEF TypeOK, End
  <2>2. \A s \in executed_list : it' # End /\ it' <= s
    BY <1>4, <1>r, <2>1, SuccNext DEF SweepBegin, End
  <2>3. it' \in Nat
    BY DEF TypeOK, End
  <2>4. \A s \in executed_list : ~(it' = End \/ it' > s)
    BY <1>r, <2>2, <2>3
  <2> QED
    BY <1>4, <1>s, <1>z, <2>4 DEF SweepBegin, SkipInv, SkipBound, Rank, threadVars
<1>5. CASE VisitDone
  BY <1>5, <1>s, <1>z DEF VisitDone, SkipInv, SkipBound, Rank, threadVars, history
<1>6. CASE VisitPending
  <2>1. it \in executed_list /\ it \in Nat /\ it' \in Nat /\ executed_list \subseteq Nat
    BY <1>6 DEF VisitPending, IteratorInv, TypeOK, End
  <2>2. \A u \in executed_list : u > it => it' # End /\ it' <= u
    BY <1>6, <2>1, SuccNext DEF VisitPending, AfterPending
  <2>3. ASSUME NEW s \in seen \cap executed_list, it' = End \/ it' > s
        PROVE  ripe[s] + 1 + Rank(s) <= s - 1
    <3>1. args_done[s] /\ s # it
      BY <1>6, <1>s DEF VisitPending
    <3>2. s \in executed_list /\ s \in Nat
      BY <1>r
    <3>3. ~(s > it)
      BY <2>1, <2>2, <2>3, <3>2
    <3>4. s < it
      BY <2>1, <3>1, <3>2, <3>3
    <3> QED
      BY <1>6, <1>s, <3>4, <2>1, <1>r DEF VisitPending
  <2> QED
    BY <1>6, <1>s, <1>z, <2>3 DEF VisitPending, SkipInv, SkipBound, Rank, threadVars, history
<1>7. CASE Join
  <2>1. /\ it \in executed_list /\ it \in Nat
        /\ executed_list \in SUBSET (1..created) /\ created \in Nat
        /\ executed_list' = executed_list \ {it}
        /\ UNCHANGED <<ripe, seen, args_done>>
    BY <1>7 DEF Join, IteratorInv, TypeOK, threadVars, history, End
  <2>2. \A s \in executed_list' :
            Rank(s)' = IF it < s THEN Rank(s) - 1 ELSE Rank(s)
    BY <2>1, BeforeRemoved DEF Rank
  <2>3. \A s \in executed_list' : ripe[s] + Rank(s)' <= s - 1
    BY <1>r, <1>s, <2>1, <2>2
  <2>4. ASSUME NEW s \in seen \cap executed_list'
        PROVE  args_done[s] /\ ripe[s] + 1 + Rank(s)' <= s - 1
    <3>1. s \in seen \cap executed_list /\ s # it /\ s \in Nat
      BY <2>1, <1>r
    <3>2. CASE it < s
      BY <1>7, <1>r, <1>s, <2>2, <3>1, <3>2 DEF Join
    <3>3. CASE it > s
      BY <1>7, <1>r, <1>s, <2>2, <3>1, <3>3 DEF Join
    <3> QED
      BY <3>1, <3>2, <3>3, <2>1
  <2> QED
    BY <1>7, <1>z, <2>1, <2>3, <2>4 DEF Join, SkipInv, SkipBound, Rank
<1>8. CASE SweepEnd
  <2>1. \A s \in executed_list :
           ripe'[s] = IF s \in seen \cap executed_list THEN ripe[s] + 1 ELSE ripe[s]
    BY <1>8, MaxScriptsAssumption DEF SweepEnd, TypeOK, Scripts
  <2>2. \A s \in executed_list : ripe'[s] + Rank(s) <= s - 1
    BY <1>8, <1>s, <1>r, <2>1 DEF SweepEnd
  <2>3. \A s \in Scripts : s > created => ripe'[s] = 0
    BY <1>8, <1>z, <1>r DEF SweepEnd, TypeOK, Scripts
  <2> QED
    BY <1>8, <2>2, <2>3 DEF SweepEnd, SkipInv, SkipBound, Rank
<1>9. CASE LoopExit
  BY <1>9, <1>s, <1>z DEF LoopExit, SkipInv, SkipBound, Rank, history
<1>10. CASE CancelOne
  BY <1>10, <1>s, <1>z DEF CancelOne, SkipInv, SkipBound, Rank, history
<1>11. CASE CancelEnd
  BY <1>11, <1>s, <1>z DEF CancelEnd, SkipInv, SkipBound, Rank, history
<1>12. CASE LinksAssigned
  BY <1>12, <1>s, <1>z DEF LinksAssigned, SkipInv, SkipBound, Rank, history
<1>13. CASE LinksThrow
  BY <1>13, <1>z DEF LinksThrow, SkipInv, SkipBound, history
<1>14. CASE Destroy
  BY <1>14, <1>z DEF Destroy, SkipInv, SkipBound, history
<1>15. ASSUME NEW s \in Scripts, ThreadStep(s)
       PROVE  SkipInv'
  <2>1. UNCHANGED <<pc, created, executed_list, it, history>>
    BY <1>15 DEF ThreadStep, ThreadWrites, Produce, StoreOut, StoreDone, Exit, Unwind,
                 builderVars
  <2>2. \A t \in executed_list : args_done[t] => args_done'[t]
    BY <1>15, MaxScriptsAssumption
    DEF ThreadStep, ThreadWrites, Produce, StoreOut, StoreDone, Exit, Unwind,
        threadVars, TypeOK, Scripts
  <2> QED
    BY <2>1, <2>2, SkipUnchanged
<1>16. CASE UNCHANGED vars
  BY <1>16, SkipUnchanged DEF vars, builderVars, threadVars
<1> QED
  BY <1>1, <1>2, <1>3, <1>4, <1>5, <1>6, <1>7, <1>8, <1>9, <1>10, <1>11, <1>12,
     <1>13, <1>14, <1>15, <1>16
  DEF Next, BuilderStep

(* A finished script is passed over at most once for every script before    *)
(* it that is still on the list, although the loop skips and wraps.         *)
THEOREM SkipsBounded == Spec => []SkipBound
<1>1. Spec => [](TypeOK /\ IteratorInv /\ SkipInv)
  BY TypeInit, TypeStep, SkipInit, SkipStep, PTL DEF Spec
<1>2. SkipInv => SkipBound
  BY DEF SkipInv
<1> QED
  BY <1>1, <1>2, PTL

(* All of the invariant at once, for the proofs that build on this module.  *)
THEOREM Invariance == Spec => []IInv
<1>1. Spec => [](TypeOK /\ IteratorInv /\ RecordInv /\ SkipInv)
  BY TypeInit, TypeStep, RecordInit, RecordStep, SkipInit, SkipStep, PTL DEF Spec
<1>2. TypeOK /\ IteratorInv /\ RecordInv /\ SkipInv => IInv
  BY DEF IInv, RecordInv
<1> QED
  BY <1>1, <1>2, PTL

-----------------------------------------------------------------------------
(* The measure of what is left to do. *)

(* A tuple precedes another when it is less at the first place they differ. *)
LessOfFive(a1, a2, a3, a4, a5, b1, b2, b3, b4, b5) ==
    \/ a1 < b1
    \/ a1 = b1 /\ a2 < b2
    \/ a1 = b1 /\ a2 = b2 /\ a3 < b3
    \/ a1 = b1 /\ a2 = b2 /\ a3 = b3 /\ a4 < b4
    \/ a1 = b1 /\ a2 = b2 /\ a3 = b3 /\ a4 = b4 /\ a5 < b5

LEMMA PrecedesFive ==
    ASSUME NEW a1 \in Int, NEW a2 \in Int, NEW a3 \in Int, NEW a4 \in Int, NEW a5 \in Int,
           NEW b1 \in Int, NEW b2 \in Int, NEW b3 \in Int, NEW b4 \in Int, NEW b5 \in Int,
           LessOfFive(a1, a2, a3, a4, a5, b1, b2, b3, b4, b5)
    PROVE  Precedes(<<a1, a2, a3, a4, a5>>, <<b1, b2, b3, b4, b5>>)
<1> DEFINE a == <<a1, a2, a3, a4, a5>>
           b == <<b1, b2, b3, b4, b5>>
<1>1. /\ a[1] = a1 /\ a[2] = a2 /\ a[3] = a3 /\ a[4] = a4 /\ a[5] = a5
      /\ b[1] = b1 /\ b[2] = b2 /\ b[3] = b3 /\ b[4] = b4 /\ b[5] = b5
      /\ DOMAIN b = 1..5
  OBVIOUS
<1> HIDE DEF a, b
<1>2. /\ \A m \in 1..(1 - 1) : a[m] = b[m]
      /\ \A m \in 1..(2 - 1) : m = 1
      /\ \A m \in 1..(3 - 1) : m = 1 \/ m = 2
      /\ \A m \in 1..(4 - 1) : m = 1 \/ m = 2 \/ m = 3
      /\ \A m \in 1..(5 - 1) : m = 1 \/ m = 2 \/ m = 3 \/ m = 4
  OBVIOUS
<1>3. CASE a1 < b1
  <2>1. 1 \in DOMAIN b /\ a[1] < b[1]
    BY <1>1, <1>3
  <2> QED
    BY <1>2, <2>1 DEF Precedes, a, b
<1>4. CASE a1 = b1 /\ a2 < b2
  <2>1. 2 \in DOMAIN b /\ a[2] < b[2] /\ \A m \in 1..(2 - 1) : a[m] = b[m]
    BY <1>1, <1>2, <1>4
  <2> QED
    BY <2>1 DEF Precedes, a, b
<1>5. CASE a1 = b1 /\ a2 = b2 /\ a3 < b3
  <2>1. 3 \in DOMAIN b /\ a[3] < b[3] /\ \A m \in 1..(3 - 1) : a[m] = b[m]
    BY <1>1, <1>2, <1>5
  <2> QED
    BY <2>1 DEF Precedes, a, b
<1>6. CASE a1 = b1 /\ a2 = b2 /\ a3 = b3 /\ a4 < b4
  <2>1. 4 \in DOMAIN b /\ a[4] < b[4] /\ \A m \in 1..(4 - 1) : a[m] = b[m]
    BY <1>1, <1>2, <1>6
  <2> QED
    BY <2>1 DEF Precedes, a, b
<1>7. CASE a1 = b1 /\ a2 = b2 /\ a3 = b3 /\ a4 = b4 /\ a5 < b5
  <2>1. 5 \in DOMAIN b /\ a[5] < b[5] /\ \A m \in 1..(5 - 1) : a[m] = b[m]
    BY <1>1, <1>2, <1>7
  <2> QED
    BY <2>1 DEF Precedes, a, b
<1> QED
  BY <1>3, <1>4, <1>5, <1>6, <1>7 DEF LessOfFive

(* The places of the measure that are differences and sizes. *)
ToMeet    == MaxScripts - created
ToSweep   == timeout_join_count - sweep
OnList    == Cardinality(executed_list)
ToVisit   == Cardinality(Ahead)

LEMMA AheadFinite ==
    TypeOK => IsFiniteSet(executed_list) /\ IsFiniteSet(Ahead)
              /\ OnList \in Nat /\ ToVisit \in Nat
<1> SUFFICES ASSUME TypeOK
             PROVE  IsFiniteSet(executed_list) /\ IsFiniteSet(Ahead)
                    /\ OnList \in Nat /\ ToVisit \in Nat
  OBVIOUS
<1>1. IsFiniteSet(0..created) /\ created \in Nat
  BY FS_Interval DEF TypeOK
<1>2. executed_list \in SUBSET (0..created) /\ Ahead \in SUBSET (0..created)
  BY <1>1 DEF TypeOK, Ahead, End
<1>3. IsFiniteSet(executed_list) /\ IsFiniteSet(Ahead)
  BY <1>1, <1>2, FS_Subset
<1> QED
  BY <1>3, FS_CardinalityType DEF OnList, ToVisit

(* A finite set that loses an element gets smaller. *)
LEMMA Shrinks ==
    ASSUME NEW T, IsFiniteSet(T), NEW S \in SUBSET T, NEW x \in T, x \notin S
    PROVE  Cardinality(S) < Cardinality(T)
<1>1. Cardinality(S) # Cardinality(T)
  BY FS_Subset
<1>2. Cardinality(S) \in Nat /\ Cardinality(T) \in Nat /\ Cardinality(S) <= Cardinality(T)
  BY FS_Subset, FS_CardinalityType
<1> QED
  BY <1>1, <1>2

(* The five kinds of progress, and the absence of any. *)
LEMMA Advance ==
    ASSUME TypeOK, TypeOK',
           \/ StagesLeft' < StagesLeft
           \/ StagesLeft' = StagesLeft /\ created' > created
           \/ StagesLeft' = StagesLeft /\ created' = created /\ sweep' > sweep
           \/ /\ StagesLeft' = StagesLeft /\ created' = created /\ sweep' = sweep
              /\ OnList' < OnList
           \/ /\ StagesLeft' = StagesLeft /\ created' = created /\ sweep' = sweep
              /\ executed_list' = executed_list /\ ToVisit' < ToVisit
    PROVE  Precedes(Left', Left)
<1>1. /\ created \in Int /\ created' \in Int /\ MaxScripts \in Int
      /\ sweep \in Int /\ sweep' \in Int /\ timeout_join_count \in Int
  BY MaxScriptsAssumption, JoinCountAssumption DEF TypeOK
<1>2. Left = <<StagesLeft, ToMeet, ToSweep, OnList, ToVisit>>
  BY DEF Left, ToMeet, ToSweep, OnList, ToVisit
<1>3. Left' = <<StagesLeft', ToMeet', ToSweep', OnList', ToVisit'>>
  BY DEF Left, ToMeet, ToSweep, OnList, ToVisit
<1>4. StagesLeft \in Int /\ StagesLeft' \in Int
  BY DEF StagesLeft
<1>5. OnList \in Int /\ ToVisit \in Int
  BY AheadFinite
<1>6. OnList' \in Int /\ ToVisit' \in Int
  <2>1. (OnList \in Nat /\ ToVisit \in Nat)'
    BY AheadFinite, PTL
  <2> QED
    BY <2>1
<1>7. /\ ToMeet \in Int /\ ToMeet' \in Int /\ ToSweep \in Int /\ ToSweep' \in Int
      /\ created' > created => ToMeet' < ToMeet
      /\ created' = created => ToMeet' = ToMeet
      /\ sweep' > sweep => ToSweep' < ToSweep
      /\ sweep' = sweep => ToSweep' = ToSweep
  <2>1. /\ ToMeet = MaxScripts - created /\ ToMeet' = MaxScripts - created'
        /\ ToSweep = timeout_join_count - sweep /\ ToSweep' = timeout_join_count - sweep'
    BY DEF ToMeet, ToSweep
  <2>2. \A k, m, n \in Int : m > n => k - m < k - n
    OBVIOUS
  <2>3. \A k, m \in Int : k - m \in Int
    OBVIOUS
  <2> QED
    BY <1>1, <2>1, <2>2, <2>3
<1>8. executed_list' = executed_list => OnList' = OnList
  BY DEF OnList
<1>9. LessOfFive(StagesLeft', ToMeet', ToSweep', OnList', ToVisit',
                 StagesLeft, ToMeet, ToSweep, OnList, ToVisit)
  BY <1>7, <1>8, Zenon DEF LessOfFive
<1>10. Precedes(<<StagesLeft', ToMeet', ToSweep', OnList', ToVisit'>>,
                <<StagesLeft, ToMeet, ToSweep, OnList, ToVisit>>)
  <2>1. /\ StagesLeft' \in Int /\ ToMeet' \in Int /\ ToSweep' \in Int
        /\ OnList' \in Int /\ ToVisit' \in Int
        /\ StagesLeft \in Int /\ ToMeet \in Int /\ ToSweep \in Int
        /\ OnList \in Int /\ ToVisit \in Int
    BY <1>4, <1>5, <1>6, <1>7, Zenon
  <2> QED
    BY <1>9, <2>1, PrecedesFive
<1> QED
  BY <1>2, <1>3, <1>10

(* A step that leaves the stage, the counters and the list as they were     *)
(* leaves fewer records to visit when it takes one of them off Ahead.       *)
LEMMA AdvanceVisit ==
    ASSUME TypeOK, TypeOK', StagesLeft' = StagesLeft,
           UNCHANGED <<created, sweep, executed_list>>,
           Ahead' \subseteq Ahead, NEW x \in Ahead, x \notin Ahead'
    PROVE  Precedes(Left', Left)
<1>1. Cardinality(Ahead') < Cardinality(Ahead)
  BY AheadFinite, Shrinks
<1>2. ToVisit' < ToVisit
  BY <1>1 DEF ToVisit
<1> QED
  BY <1>2, Advance

(* The rest of the list from the iterator on, after it has moved on. *)
LEMMA AheadNext ==
    ASSUME TypeOK, it \in executed_list, it' = Succ(executed_list, it),
           UNCHANGED executed_list
    PROVE  \A s \in executed_list : it' # End /\ it' <= s => it < s
<1>1. executed_list \subseteq Nat /\ it \in Nat
  BY DEF TypeOK, End
<1>2. it' # End => it' \in Nat /\ it' > it
  BY <1>1, SuccNext
<1> QED
  BY <1>1, <1>2

(* Every step of the builder leaves less to do: the five places of the      *)
(* measure are the stages of build_tree, the scripts, the sweeps, the list  *)
(* and the records a loop has yet to visit.                                 *)
LEMMA AdvanceStep ==
    ASSUME TypeOK, IteratorInv, TypeOK', BuilderStep
    PROVE  Precedes(Left', Left)
<1>n. executed_list \subseteq Nat /\ (\A s \in executed_list : s # End) /\ it \in Nat
      /\ created \in Int /\ sweep \in Int
  BY DEF TypeOK, End
<1>1. CASE ScriptUse
  BY <1>1, <1>n, Advance DEF ScriptUse, StagesLeft
<1>2. CASE ParseThrows
  BY <1>2, Advance DEF ParseThrows, StagesLeft
<1>3. CASE ParseDone
  BY <1>3, Advance DEF ParseDone, StagesLeft
<1>4. CASE SweepBegin
  <2>1. Ahead' \subseteq Ahead /\ End \in Ahead /\ End \notin Ahead'
    BY <1>4, <1>n DEF SweepBegin, Ahead
  <2> QED
    BY <1>4, <2>1, AdvanceVisit DEF SweepBegin, StagesLeft
<1>5. CASE VisitDone
  <2>1. Ahead' \subseteq Ahead /\ it \in Ahead /\ it \notin Ahead'
    BY <1>5, <1>n DEF VisitDone, Ahead, IteratorInv
  <2> QED
    BY <1>5, <2>1, AdvanceVisit DEF VisitDone, StagesLeft
<1>6. CASE VisitPending
  <2>1. \A s \in executed_list : it' # End /\ it' <= s => it < s
    BY <1>6, AheadNext DEF VisitPending, AfterPending, IteratorInv
  <2>2. Ahead' \subseteq Ahead /\ it \in Ahead /\ it \notin Ahead'
    BY <1>6, <1>n, <2>1 DEF VisitPending, Ahead, IteratorInv
  <2> QED
    BY <1>6, <2>2, AdvanceVisit DEF VisitPending, StagesLeft
<1>7. CASE Join
  <2>1. it \in executed_list /\ executed_list' = executed_list \ {it}
    BY <1>7 DEF Join, IteratorInv
  <2>2. OnList' < OnList
    BY <2>1, AheadFinite, Shrinks DEF OnList
  <2> QED
    BY <1>7, <2>2, Advance DEF Join, StagesLeft
<1>8. CASE SweepEnd
  BY <1>8, <1>n, Advance DEF SweepEnd, StagesLeft
<1>9. CASE LoopExit
  BY <1>9, Advance DEF LoopExit, StagesLeft
<1>10. CASE CancelOne
  <2>1. \A s \in executed_list : it' # End /\ it' <= s => it < s
    BY <1>10, AheadNext DEF CancelOne, IteratorInv
  <2>2. Ahead' \subseteq Ahead /\ it \in Ahead /\ it \notin Ahead'
    BY <1>10, <1>n, <2>1 DEF CancelOne, Ahead, IteratorInv
  <2> QED
    BY <1>10, <2>2, AdvanceVisit DEF CancelOne, StagesLeft
<1>11. CASE CancelEnd
  BY <1>11, Advance DEF CancelEnd, StagesLeft
<1>12. CASE LinksAssigned
  BY <1>12, Advance DEF LinksAssigned, StagesLeft
<1>13. CASE LinksThrow
  BY <1>13, Advance DEF LinksThrow, StagesLeft
<1> QED
  BY <1>1, <1>2, <1>3, <1>4, <1>5, <1>6, <1>7, <1>8, <1>9, <1>10, <1>11, <1>12, <1>13
  DEF BuilderStep

(* No other thread gives the builder more to do, nor does the destructor.   *)
LEMMA OthersKeepLeft ==
    ASSUME TypeOK, TypeOK', Next, ~BuilderStep
    PROVE  Precedes(Left', Left) \/ Left' = Left
<1>1. CASE Destroy
  <2>1. CASE executed_list = {}
    BY <1>1, <2>1 DEF Destroy, Left, StagesLeft, Ahead
  <2>2. CASE executed_list # {}
    <3>1. PICK x \in executed_list : TRUE
      BY <2>2
    <3>2. OnList' < OnList
      BY <1>1, <3>1, AheadFinite, Shrinks DEF Destroy, OnList
    <3> QED
      BY <1>1, <3>2, Advance DEF Destroy, StagesLeft
  <2> QED
    BY <2>1, <2>2
<1>2. ASSUME NEW s \in Scripts, ThreadStep(s)
      PROVE  Left' = Left
  <2>1. UNCHANGED builderVars
    BY <1>2 DEF ThreadStep, ThreadWrites, Produce, StoreOut, StoreDone, Exit, Unwind
  <2> QED
    BY <2>1 DEF builderVars, Left, StagesLeft, Ahead
<1> QED
  BY <1>1, <1>2 DEF Next

(* build_tree takes boundedly many steps, whatever the scripts do, although *)
(* the loop that joins skips and wraps: there is no sweep without an end.   *)
THEOREM BuilderTerminates == Spec => BuilderAdvances
<1>1. Spec => [](TypeOK /\ IteratorInv)
  BY TypeInit, TypeStep, PTL DEF Spec
<1>2. (TypeOK /\ IteratorInv) /\ (TypeOK /\ IteratorInv)' /\ [Next]_vars =>
         [Precedes(Left', Left) \/ (~BuilderStep /\ Left' = Left)]_vars
  BY AdvanceStep, OthersKeepLeft
<1> QED
  BY <1>1, <1>2, PTL DEF Spec, BuilderAdvances

-----------------------------------------------------------------------------
(* What the loop that joins waits for. *)

(* The flag is the word of a thread that has its result, and is never taken *)
(* back.                                                                    *)
FlagInv ==
    /\ \A s \in Scripts : args_done[s] => thr[s] \in {"store", "exited", "joined"}
    /\ pc = "join" => args_done[it]

LEMMA FlagInit == Init => FlagInv
BY DEF Init, NewFlag, FlagInv

LEMMA FlagStep ==
    TypeOK /\ IteratorInv /\ RecordInv /\ FlagInv /\ [Next]_vars => FlagInv'
<1> SUFFICES ASSUME TypeOK, IteratorInv, RecordInv, FlagInv, [Next]_vars
             PROVE  FlagInv'
  OBVIOUS
<1>i. /\ pc = "join" => it \in Scripts
      /\ thr \in [Scripts -> {"idle", "run", "store", "exited", "unwound", "joined"}]
      /\ args_done \in [Scripts -> BOOLEAN]
  BY MaxScriptsAssumption DEF TypeOK, IteratorInv, Scripts, End
<1>1. CASE ScriptUse
  <2>1. created + 1 \in Scripts /\ thr[created + 1] = "idle"
    BY <1>1, MaxScriptsAssumption DEF ScriptUse, TypeOK, RecordInv, ThreadInv, Scripts
  <2> QED
    BY <1>1, <1>i, <2>1 DEF ScriptUse, threadVars, FlagInv
<1>2. CASE ParseThrows \/ ParseDone \/ SweepBegin \/ VisitDone \/ VisitPending \/ SweepEnd
           \/ LoopExit \/ CancelOne \/ CancelEnd \/ LinksAssigned \/ LinksThrow \/ Destroy
  <2>1. UNCHANGED <<args_done, thr>> /\ (pc' = "join" => args_done[it'])
    BY <1>2
    DEF ParseThrows, ParseDone, SweepBegin, VisitDone, VisitPending, SweepEnd, LoopExit,
        CancelOne, CancelEnd, LinksAssigned, LinksThrow, Destroy, threadVars, FlagInv
  <2> QED
    BY <2>1 DEF FlagInv
<1>3. CASE Join
  BY <1>3, <1>i DEF Join, threadVars, FlagInv
<1>4. ASSUME NEW s \in Scripts, ThreadStep(s)
      PROVE  FlagInv'
  <2>1. UNCHANGED <<pc, it>>
    BY <1>4 DEF ThreadStep, ThreadWrites, Produce, StoreOut, StoreDone, Exit, Unwind,
                builderVars
  <2>2. CASE \E r \in {Null, s} : Produce(s, r)
    BY <1>i, <2>1, <2>2 DEF Produce, FlagInv
  <2>3. CASE StoreOut(s)
    BY <1>i, <2>1, <2>3 DEF StoreOut, FlagInv
  <2>4. CASE StoreDone(s)
    BY <1>i, <2>1, <2>4 DEF StoreDone, FlagInv
  <2>5. CASE Exit(s)
    BY <1>i, <2>1, <2>5 DEF Exit, threadVars, FlagInv
  <2>6. CASE Unwind(s)
    BY <1>i, <2>1, <2>6 DEF Unwind, threadVars, FlagInv
  <2> QED
    BY <1>4, <2>2, <2>3, <2>4, <2>5, <2>6 DEF ThreadStep, ThreadWrites
<1>5. CASE UNCHANGED vars
  BY <1>5 DEF vars, builderVars, threadVars, FlagInv
<1> QED
  BY <1>1, <1>2, <1>3, <1>4, <1>5 DEF Next, BuilderStep

(* No join of assign_includes waits for a script: the thread it waits for   *)
(* has run its script and will store and exit.                              *)
THEOREM JoinsAreBrief == Spec => []JoinWaitsForExit
<1>1. Spec => [](TypeOK /\ IteratorInv /\ RecordInv /\ FlagInv)
  BY TypeInit, TypeStep, RecordInit, RecordStep, FlagInit, FlagStep, PTL DEF Spec
<1>2. TypeOK /\ IteratorInv /\ RecordInv /\ FlagInv => JoinWaitsForExit
  <2> SUFFICES ASSUME TypeOK, IteratorInv, RecordInv, FlagInv, pc = "join"
               PROVE  thr[it] \in {"store", "exited"}
    BY DEF JoinWaitsForExit
  <2>1. it \in executed_list /\ it \in Scripts
    BY MaxScriptsAssumption DEF IteratorInv, TypeOK, Scripts, End
  <2> QED
    BY <2>1 DEF RecordInv, ThreadInv, FlagInv
<1> QED
  BY <1>1, <1>2, PTL
=============================================================================
