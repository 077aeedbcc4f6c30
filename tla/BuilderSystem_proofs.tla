------------------------- MODULE BuilderSystem_proofs -------------------------
(***************************************************************************)
(* Proofs about a Builder, its script and the nested Builder.  The         *)
(* invariants of the three components are those of their own proofs: every *)
(* step of the system is a step or a stutter of each, but for the nested   *)
(* Builder when its thread is unwound.  What is new is how far one is when *)
(* the other is where it is.                                               *)
(***************************************************************************)
EXTENDS BuilderSystem, BuilderRefinement_proofs

XP == INSTANCE ScriptExecute_proofs

NP == INSTANCE BuilderRefinement_proofs WITH
    MaxScripts <- NestedScripts,
    pc <- npc, created <- ncreated, executed_list <- nexecuted_list, it <- nit,
    sweep <- nsweep, args_out <- nargs_out, args_done <- nargs_done,
    attached <- nattached, thr <- nthr, todo <- ntodo, result <- nresult,
    cancelled <- ncancelled, seen <- nseen, ripe <- nripe

-----------------------------------------------------------------------------
(* The components as the system and as the proofs name them. *)

(* In a dead frame the listener may bring the process down. *)
ListenerCrashes == XP!ListenerAlive /\ XP!FrameGone /\ xpc' = "crashed"

LEMMA ExecuteSame ==
    /\ X!Init => XP!Init
    /\ X!CallerStep => XP!CallerStep /\ XP!Next
                       /\ xpc \notin {"returned", "threw", "cancelled", "crashed"}
    /\ X!CallerStep => xpc' # "cancelled"
    /\ X!Cancel => XP!Next /\ xpc' = "cancelled" /\ xpc \notin {"returned", "threw"}
    /\ X!ChildStep => XP!Next /\ xpc' = xpc
    /\ X!ListenerStep => XP!ListenerStep /\ XP!Next /\ (xpc' = xpc \/ ListenerCrashes)
<1> USE DEF X!callerVars, X!childVars, X!pipes, X!listenerVars,
            XP!callerVars, XP!childVars, XP!pipes, XP!listenerVars
<1>1. X!Init => XP!Init
  BY DEF X!Init, XP!Init
<1>2. X!Cancel => XP!Next /\ xpc' = "cancelled" /\ xpc \notin {"returned", "threw"}
  BY DEF X!Cancel, XP!Cancel, XP!Next
<1>3. X!CallerStep =>
         XP!CallerStep /\ xpc \notin {"returned", "threw", "cancelled", "crashed"}
         /\ xpc' # "cancelled"
  <2>1. X!ForkFails => XP!ForkFails /\ xpc = "start" /\ xpc' = "threw"
    BY DEF X!ForkFails, XP!ForkFails
  <2>2. X!Fork => XP!Fork /\ xpc = "start" /\ xpc' = "listen"
    BY DEF X!Fork, XP!Fork
  <2>3. X!ListenerStarts => XP!ListenerStarts /\ xpc = "listen" /\ xpc' = "check"
    BY DEF X!ListenerStarts, XP!ListenerStarts
  <2>4. X!ListenerFails => XP!ListenerFails /\ xpc = "listen" /\ xpc' = "check"
    BY DEF X!ListenerFails, XP!ListenerFails
  <2>5. X!WaitpidNone => XP!WaitpidNone /\ xpc = "check" /\ xpc' = "sleep"
    BY DEF X!WaitpidNone, XP!WaitpidNone, X!Ended, XP!Ended
  <2>6. X!Wake => XP!Wake /\ xpc = "sleep" /\ xpc' \in {"check", "reset"}
    BY DEF X!Wake, XP!Wake, X!LoopGoesOn, XP!LoopGoesOn
  <2>7. X!WaitpidReaps => XP!WaitpidReaps /\ xpc = "check" /\ xpc' = "reset"
    BY DEF X!WaitpidReaps, XP!WaitpidReaps, X!Ended, XP!Ended
  <2>8. X!Reset => XP!Reset /\ xpc = "reset" /\ xpc' \in {"kill", "join"}
    BY DEF X!Reset, XP!Reset, X!NeedsKill, XP!NeedsKill, X!WIFEXITED, XP!WIFEXITED,
           X!reaped, XP!reaped, X!FlagAfterLoop, XP!FlagAfterLoop
  <2>9. X!Kill => XP!Kill /\ xpc = "kill" /\ xpc' = "join"
    BY DEF X!Kill, XP!Kill
  <2>10. X!Join => XP!Join /\ xpc = "join" /\ xpc' = "returned"
    BY DEF X!Join, XP!Join, X!ListenerJoinable, XP!ListenerJoinable
  <2>11. X!JoinNothing => XP!JoinNothing /\ xpc = "join" /\ xpc' \in {"returned", "crashed"}
    BY DEF X!JoinNothing, XP!JoinNothing
  <2>12. X!WaitpidFails => XP!WaitpidFails /\ xpc = "check" /\ xpc' = "reset"
    BY DEF X!WaitpidFails, XP!WaitpidFails, X!Ended, XP!Ended
  <2> QED
    BY <2>1, <2>2, <2>3, <2>4, <2>5, <2>6, <2>7, <2>8, <2>9, <2>10, <2>11, <2>12, Zenon
    DEF X!CallerStep, XP!CallerStep
<1>4. X!ChildStep => XP!ChildStep /\ xpc' = xpc
  BY DEF X!ChildStep, XP!ChildStep, X!ExecOk, XP!ExecOk, X!ExecFails, XP!ExecFails,
         X!WriteOut, XP!WriteOut, X!WriteErr, XP!WriteErr, X!ChildEnds, XP!ChildEnds
<1>5. X!ListenerStep => XP!ListenerStep /\ (xpc' = xpc \/ ListenerCrashes)
  <2> USE DEF X!FrameGone, XP!FrameGone
  <2>0. /\ \A n : X!ReadSize(n) = XP!ReadSize(n)
        /\ \A p : X!Descriptors(p) = XP!Descriptors(p)
        /\ \A d : X!ReadFrom(d) <=> XP!ReadFrom(d)
    BY DEF X!Descriptors, XP!Descriptors, X!ReadFrom, XP!ReadFrom, X!ErrLeft, XP!ErrLeft,
           X!ReadSize, XP!ReadSize
  <2>1. X!LTop => XP!LTop /\ xpc' = xpc
    BY DEF X!LTop, XP!LTop
  <2>2. X!LPoll => XP!LPoll /\ xpc' = xpc
    BY DEF X!LPoll, XP!LPoll, X!Readable, XP!Readable
  <2>3. X!LOut => XP!LOut /\ xpc' = xpc
    BY <2>0 DEF X!LOut, XP!LOut
  <2>4. X!LErr => XP!LErr /\ xpc' = xpc
    BY <2>0 DEF X!LErr, XP!LErr, X!Continues, XP!Continues
  <2>5. X!LBlocks => XP!LBlocks /\ xpc' = xpc
    BY DEF X!LBlocks, XP!LBlocks
  <2>6. X!LCrashes => XP!LCrashes /\ ListenerCrashes
    BY DEF X!LCrashes, XP!LCrashes, ListenerCrashes, XP!ListenerAlive
  <2> QED
    BY <2>1, <2>2, <2>3, <2>4, <2>5, <2>6 DEF X!ListenerStep, XP!ListenerStep
<1> QED
  BY <1>1, <1>2, <1>3, <1>4, <1>5 DEF XP!Next

LEMMA NestedSame ==
    /\ N!Init => NP!Init
    /\ N!BuilderStep => NP!BuilderStep /\ NP!Next /\ npc \notin {"built", "threw", "destroyed"}
                                 /\ npc' # "destroyed"
    /\ N!Destroy => NP!Next /\ npc = "built" /\ npc' = "destroyed"
    /\ \A s \in N!Scripts : N!ThreadStep(s) => NP!Next /\ npc' = npc
<1> USE DEF N!builderVars, N!threadVars, N!history, NP!builderVars, NP!threadVars, NP!history,
            N!Scripts, NP!Scripts, N!Null, NP!Null, N!End, NP!End, N!Fields, NP!Fields,
            N!Succ, NP!Succ
<1>1. N!Init => NP!Init
  BY DEF N!Init, NP!Init, N!NewFlag, NP!NewFlag
<1>2. N!BuilderStep => NP!BuilderStep /\ npc \notin {"built", "threw", "destroyed"}
                                      /\ npc' # "destroyed"
  <2>1. N!ScriptUse => NP!ScriptUse /\ npc = "parse" /\ npc' = "parse"
    BY DEF N!ScriptUse, NP!ScriptUse
  <2>2. N!ParseThrows => NP!ParseThrows /\ npc = "parse" /\ npc' = "threw"
    BY DEF N!ParseThrows, NP!ParseThrows
  <2>3. N!ParseDone => NP!ParseDone /\ npc = "parse" /\ npc' = "loop"
    BY DEF N!ParseDone, NP!ParseDone
  <2>4. N!SweepBegin => NP!SweepBegin /\ npc = "loop" /\ npc' = "sweep"
    BY DEF N!SweepBegin, NP!SweepBegin, N!SweepsLeft, NP!SweepsLeft
  <2>5. N!VisitDone => NP!VisitDone /\ npc = "sweep" /\ npc' = "join"
    BY DEF N!VisitDone, NP!VisitDone
  <2>6. N!VisitPending => NP!VisitPending /\ npc = "sweep" /\ npc' = "sweep"
    BY DEF N!VisitPending, NP!VisitPending, N!AfterPending, NP!AfterPending
  <2>7. N!Join => NP!Join /\ npc = "join" /\ npc' = "sweep"
    BY DEF N!Join, NP!Join, N!ThreadEnded, NP!ThreadEnded, N!AfterErase, NP!AfterErase
  <2>8. N!SweepEnd => NP!SweepEnd /\ npc = "sweep" /\ npc' = "loop"
    BY DEF N!SweepEnd, NP!SweepEnd
  <2>9. N!LoopExit => NP!LoopExit /\ npc = "loop" /\ npc' = "cancel"
    BY DEF N!LoopExit, NP!LoopExit, N!SweepsLeft, NP!SweepsLeft, N!CancelFrom, NP!CancelFrom
  <2>10. N!CancelOne => NP!CancelOne /\ npc = "cancel" /\ npc' = "cancel"
    BY DEF N!CancelOne, NP!CancelOne
  <2>11. N!CancelEnd => NP!CancelEnd /\ npc = "cancel" /\ npc' = "links"
    BY DEF N!CancelEnd, NP!CancelEnd
  <2>12. N!LinksAssigned => NP!LinksAssigned /\ npc = "links" /\ npc' = "built"
    BY DEF N!LinksAssigned, NP!LinksAssigned
  <2>13. N!LinksThrow => NP!LinksThrow /\ npc = "links" /\ npc' = "threw"
    BY DEF N!LinksThrow, NP!LinksThrow
  <2> QED
    BY <2>1, <2>2, <2>3, <2>4, <2>5, <2>6, <2>7, <2>8, <2>9, <2>10, <2>11, <2>12, <2>13, Zenon
    DEF N!BuilderStep, NP!BuilderStep
<1>3. N!Destroy => NP!Destroy /\ npc = "built" /\ npc' = "destroyed"
  BY DEF N!Destroy, NP!Destroy
<1>4. ASSUME NEW s \in N!Scripts, N!ThreadStep(s)
      PROVE  NP!ThreadStep(s) /\ npc' = npc
  <2>1. ASSUME NEW r, N!Produce(s, r) PROVE NP!Produce(s, r) /\ npc' = npc
    BY <2>1 DEF N!Produce, NP!Produce
  <2>2. N!StoreOut(s) => NP!StoreOut(s) /\ npc' = npc
    BY DEF N!StoreOut, NP!StoreOut
  <2>3. N!StoreDone(s) => NP!StoreDone(s) /\ npc' = npc
    BY DEF N!StoreDone, NP!StoreDone
  <2>4. N!Exit(s) => NP!Exit(s) /\ npc' = npc
    BY DEF N!Exit, NP!Exit
  <2>5. N!Unwind(s) => NP!Unwind(s) /\ npc' = npc
    BY DEF N!Unwind, NP!Unwind
  <2> QED
    BY <1>4, <2>1, <2>2, <2>3, <2>4, <2>5
    DEF N!ThreadStep, NP!ThreadStep, N!ThreadWrites, NP!ThreadWrites
<1>5. N!Scripts = NP!Scripts
  OBVIOUS
<1> QED
  BY <1>1, <1>2, <1>3, <1>4, <1>5 DEF NP!Next

(* What the steps of the outer Builder do to the script's thread. *)
LEMMA OuterSteps ==
    ASSUME TypeOK, RecordInv, BuilderStep \/ Destroy
    PROVE  /\ result' = result
           /\ \/ thr'[The] = thr[The]
              \/ thr[The] = "idle" /\ thr'[The] = "run"
              \/ thr[The] = "exited" /\ thr'[The] = "joined"
<1> USE DEF builderVars, threadVars, history
<1>1. The \in Scripts
  BY OneScriptAssumption DEF The, Scripts
<1>2. CASE ScriptUse
  <2>1. created + 1 = The => thr[The] = "idle"
    BY <1>1 DEF RecordInv, ThreadInv, TypeOK, The
  <2> QED
    BY <1>1, <1>2, <2>1 DEF ScriptUse, TypeOK
<1>3. CASE Join
  <2>1. it \in {End} \cup 1..created /\ ThreadEnded(it) /\ pc = "join"
    BY <1>3 DEF Join, TypeOK
  <2>2. thr[The] = "unwound" => The \in cancelled
    BY <1>1 DEF RecordInv, ThreadInv
  <2>3. cancelled = {}
    BY <2>1 DEF RecordInv, CancelInv
  <2> QED
    BY <1>1, <1>3, <2>1, <2>2, <2>3 DEF Join, TypeOK, ThreadEnded
<1>4. CASE (BuilderStep /\ ~ScriptUse /\ ~Join) \/ Destroy
  BY <1>4 DEF BuilderStep, ParseThrows, ParseDone, SweepBegin, VisitDone, VisitPending,
     SweepEnd, LoopExit, CancelOne, CancelEnd, LinksAssigned, LinksThrow, Destroy
<1> QED
  BY <1>2, <1>3, <1>4

-----------------------------------------------------------------------------
(* How far the call of execute, the nested Builder and the thread are, seen *)
(* from each other.                                                         *)
Flow ==
    /\ npc # "parse" => xpc = "returned"
    /\ thr[The] \in {"store", "exited", "joined"} => xpc \in {"returned", "threw"}
    /\ thr[The] = "unwound" => xpc \in {"returned", "cancelled", "crashed"}
    /\ thr[The] \in {"idle", "run", "unwound"} => result[The] = Null
    /\ result[The] # Null => npc \in {"built", "destroyed"}

OuterInv == TypeOK /\ IteratorInv /\ RecordInv
NestedInv == NP!TypeOK /\ NP!IteratorInv /\ NP!RecordInv
SystemInv == OuterInv /\ XP!IInv /\ NestedInv /\ Flow

LEMMA SystemInvInit == SystemInit => SystemInv
<1> SUFFICES ASSUME SystemInit PROVE SystemInv
  OBVIOUS
<1>1. Init /\ XP!Init /\ NP!Init
  BY ExecuteSame, NestedSame DEF SystemInit
<1>2. OuterInv
  BY <1>1, TypeInit, RecordInit DEF OuterInv
<1>3. XP!IInv
  BY <1>1, ParametersAssumption, XP!InvInit
<1>4. NestedInv
  BY <1>1, ParametersAssumption, JoinCountAssumption, NP!TypeInit, NP!RecordInit DEF NestedInv
<1>5. Flow
  BY <1>1, OneScriptAssumption DEF Flow, Init, NP!Init, Scripts, The
<1> QED
  BY <1>2, <1>3, <1>4, <1>5 DEF SystemInv

(* Every step is one of each component, or leaves it alone. *)
LEMMA Steps ==
    ASSUME [SystemNext]_systemVars
    PROVE  /\ [Next]_vars
           /\ [XP!Next]_(XP!vars)
           /\ [NP!Next]_(NP!vars) \/ UnwindNested
<1>1. UNCHANGED executeVars => UNCHANGED XP!vars
  BY DEF executeVars, XP!vars, XP!callerVars, XP!childVars, XP!pipes, XP!listenerVars
<1>2. UNCHANGED nestedVars => UNCHANGED NP!vars
  BY DEF nestedVars, NP!vars, NP!builderVars, NP!threadVars, NP!history
<1>3. The \in Scripts
  BY OneScriptAssumption DEF The, Scripts
<1>4. \A r \in {Null, The} : Produce(The, r) => Next
  BY <1>3 DEF Next, ThreadStep
<1>5. StoreOut(The) \/ StoreDone(The) \/ Exit(The) \/ Unwind(The) => Next
  BY <1>3 DEF Next, ThreadStep, ThreadWrites
<1>6. ScriptThread => [Next]_vars /\ [XP!Next]_(XP!vars) /\ [NP!Next]_(NP!vars)
  BY <1>1, <1>2, <1>4, <1>5, ExecuteSame, NestedSame
  DEF ScriptThread, Execute, BuildNested, ProduceTree, ProduceNothing, Store, DestroyNested,
      ExitThread
<1>7. UnwindExecute => [Next]_vars /\ [XP!Next]_(XP!vars) /\ [NP!Next]_(NP!vars)
  BY <1>2, <1>5, ExecuteSame DEF UnwindExecute
<1>8. UnwindNested => [Next]_vars /\ [XP!Next]_(XP!vars)
  BY <1>1, <1>5 DEF UnwindNested
<1>9. OuterBuilder \/ Owner => [Next]_vars /\ [XP!Next]_(XP!vars) /\ [NP!Next]_(NP!vars)
  BY <1>1, <1>2 DEF OuterBuilder, Owner, Next
<1>10. NestedThread => [Next]_vars /\ [XP!Next]_(XP!vars) /\ [NP!Next]_(NP!vars)
  BY <1>1, NestedSame DEF NestedThread
<1>11. Listener \/ Child => [Next]_vars /\ [XP!Next]_(XP!vars) /\ [NP!Next]_(NP!vars)
  BY <1>2, ExecuteSame DEF Listener, Child
<1>12. UNCHANGED systemVars => [Next]_vars /\ [XP!Next]_(XP!vars) /\ [NP!Next]_(NP!vars)
  BY <1>1, <1>2 DEF systemVars
<1> QED
  BY <1>6, <1>7, <1>8, <1>9, <1>10, <1>11, <1>12
  DEF SystemNext, InProcess, UnwindThread

(* The unwound nested Builder is like one that threw. *)
LEMMA UnwindNestedInv ==
    ASSUME NestedInv, UnwindNested
    PROVE  NestedInv'
<1>1. /\ npc' = "threw" /\ nexecuted_list' = {}
      /\ UNCHANGED <<ncreated, nit, nsweep, nargs_out, nargs_done, nattached, nthr, ntodo,
                     nresult, ncancelled, nseen, nripe>>
  BY DEF UnwindNested
<1>2. NP!TypeOK' /\ NP!IteratorInv'
  BY <1>1 DEF NestedInv, NP!TypeOK, NP!IteratorInv
<1>3. NP!RecordInv'
  BY <1>1 DEF NestedInv, NP!RecordInv, NP!ThreadInv, NP!CancelInv, NP!AttachedIsResult
<1> QED
  BY <1>2, <1>3 DEF NestedInv

LEMMA FlowStep ==
    ASSUME OuterInv, XP!IInv, Flow, [SystemNext]_systemVars
    PROVE  Flow'
<1>1. /\ The \in Scripts /\ The # Null /\ thr \in [Scripts -> {"idle", "run", "store", "exited", "unwound", "joined"}]
      /\ result \in [Scripts -> Scripts \cup {Null}]
  BY OneScriptAssumption DEF The, Scripts, Null, OuterInv, TypeOK
<1>2. CASE Execute
  <2>1. xpc \notin {"returned", "threw"} /\ xpc' # "cancelled" /\ thr[The] = "run"
    BY <1>2, ExecuteSame DEF Execute, InProcessor
  <2> QED
    BY <1>2, <2>1 DEF Execute, Flow, vars, builderVars, threadVars, nestedVars
<1>3. CASE BuildNested
  BY <1>3, NestedSame DEF BuildNested, InProcessor, Flow, vars, builderVars, threadVars,
     executeVars
<1>4. CASE ProduceTree
  BY <1>1, <1>4 DEF ProduceTree, NestedBuilt, Produce, Flow, executeVars, nestedVars
<1>5. CASE ProduceNothing
  BY <1>1, <1>5 DEF ProduceNothing, Produce, Flow, executeVars, nestedVars
<1>6. CASE Store
  BY <1>1, <1>6 DEF Store, StoreOut, StoreDone, Flow, executeVars, nestedVars
<1>7. CASE DestroyNested
  BY <1>7, NestedSame DEF DestroyNested, Flow, vars, builderVars, threadVars, executeVars
<1>8. CASE ExitThread
  BY <1>1, <1>8 DEF ExitThread, Exit, Flow, threadVars, executeVars, nestedVars
<1>9. CASE UnwindExecute
  <2>1. xpc \notin {"returned", "threw"} /\ xpc' = "cancelled"
    BY <1>9, ExecuteSame DEF UnwindExecute
  <2> QED
    BY <1>1, <1>9, <2>1 DEF UnwindExecute, Unwind, Flow, threadVars, nestedVars
<1>10. CASE UnwindNested
  BY <1>1, <1>10 DEF UnwindNested, NestedCancellable, Unwind, Flow, threadVars, executeVars
<1>11. CASE OuterBuilder \/ Owner
  <2>1. /\ result' = result
        /\ \/ thr'[The] = thr[The]
           \/ thr[The] = "idle" /\ thr'[The] = "run"
           \/ thr[The] = "exited" /\ thr'[The] = "joined"
    BY <1>11, OuterSteps DEF OuterInv, OuterBuilder, Owner
  <2> QED
    BY <1>11, <2>1 DEF OuterBuilder, Owner, Flow, executeVars, nestedVars
<1>12. CASE NestedThread
  BY <1>12, NestedSame DEF NestedThread, Flow, vars, builderVars, threadVars, executeVars
<1>13. CASE Listener \/ Child
  <2>1. XP!ListenerAlive /\ XP!FrameGone => xpc = "cancelled"
    BY DEF XP!IInv, XP!ListenerInv, XP!FrameKept, XP!FrameGone
  <2>2. xpc' = xpc \/ (xpc = "cancelled" /\ xpc' = "crashed")
    BY <1>13, <2>1, ExecuteSame DEF Listener, Child, ListenerCrashes
  <2> QED
    BY <1>13, <2>2 DEF Listener, Child, Flow, vars, builderVars, threadVars, nestedVars
<1>14. CASE UNCHANGED systemVars
  BY <1>14 DEF systemVars, Flow, vars, builderVars, threadVars, executeVars, nestedVars
<1> QED
  BY <1>2, <1>3, <1>4, <1>5, <1>6, <1>7, <1>8, <1>9, <1>10, <1>11, <1>12, <1>13, <1>14
  DEF SystemNext, InProcess, ScriptThread, UnwindThread

LEMMA SystemInvStep == SystemInv /\ [SystemNext]_systemVars => SystemInv'
<1> SUFFICES ASSUME SystemInv, [SystemNext]_systemVars PROVE SystemInv'
  OBVIOUS
<1>1. OuterInv'
  BY Steps, TypeStep, RecordStep DEF SystemInv, OuterInv
<1>2. XP!IInv'
  BY Steps, ParametersAssumption, XP!InvStep DEF SystemInv
<1>3. NestedInv'
  <2>1. CASE [NP!Next]_(NP!vars)
    BY <2>1, ParametersAssumption, JoinCountAssumption, NP!TypeStep, NP!RecordStep
    DEF SystemInv, NestedInv
  <2> QED
    BY <2>1, Steps, UnwindNestedInv DEF SystemInv
<1>4. Flow'
  BY FlowStep DEF SystemInv
<1> QED
  BY <1>1, <1>2, <1>3, <1>4 DEF SystemInv

THEOREM SystemInvariance == SystemSpec => []SystemInv
BY SystemInvInit, SystemInvStep, PTL DEF SystemSpec

-----------------------------------------------------------------------------
(* Every variable of the three components keeps its type. *)
THEOREM SystemTyped == SystemSpec => []SystemTypeOK
<1>1. SystemInv => SystemTypeOK
  <2>1. XP!IInv => X!TypeOK
    BY DEF XP!IInv, XP!TypeOK, X!TypeOK
  <2>2. NP!TypeOK => N!TypeOK
    BY DEF NP!TypeOK, N!TypeOK, NP!Scripts, N!Scripts, NP!Null, N!Null, NP!End, N!End,
           NP!Fields, N!Fields
  <2> QED
    BY <2>1, <2>2 DEF SystemInv, OuterInv, NestedInv, SystemTypeOK
<1> QED
  BY <1>1, SystemInvariance, PTL

(* A thread that ended by itself leaves neither a listener nor an unsignalled *)
(* child, and one that was unwound does so only when it was in execute.     *)
THEOREM NothingIsLeft == SystemSpec => []NothingLeftBehind
<1>1. SystemInv => NothingLeftBehind
  <2> SUFFICES ASSUME SystemInv, thr[The] \in {"exited", "joined", "unwound"},
                      X!ListenerAlive \/ ChildLeft
               PROVE  /\ thr[The] = "unwound" /\ The \in cancelled
                      /\ xpc = "cancelled" \/ ~ProcessRuns
    BY DEF NothingLeftBehind
  <2>1. XP!CallerInv /\ XP!ListenerInv /\ XP!TypeOK
    BY DEF SystemInv, XP!IInv
  <2>2. xpc # "returned" /\ xpc # "threw"
    BY <2>1 DEF X!ListenerAlive, ChildLeft, XP!CallerInv, XP!ListenerInv, XP!ListenerAlive,
       XP!FrameGone, XP!FrameKept, XP!Ended, XP!reaped, XP!TypeOK
  <2>3. thr[The] = "unwound" /\ (xpc = "cancelled" \/ ~ProcessRuns)
    BY <2>2 DEF SystemInv, Flow, ProcessRuns
  <2>4. The \in cancelled
    BY <2>3, OneScriptAssumption DEF SystemInv, OuterInv, RecordInv, ThreadInv, The, Scripts
  <2> QED
    BY <2>3, <2>4
<1> QED
  BY <1>1, SystemInvariance, PTL

(* A nested script's thread writes into freed memory only if it was given   *)
(* up on, or no tree came of its document.                                  *)
THEOREM NestedRecordsCorrect == SystemSpec => []NestedRecordOutlivesThread
<1>1. SystemInv => NestedRecordOutlivesThread
  <2> SUFFICES ASSUME SystemInv, NEW s \in 1..ncreated,
                      nthr[s] \in {"run", "store"}, s \notin nexecuted_list
               PROVE  \/ s \in ncancelled
                      \/ npc = "threw" /\ result[The] = Null /\ attached[The] = Null
    BY DEF NestedRecordOutlivesThread
  <2>1. ncreated \in 0..NestedScripts
    BY DEF SystemInv, NestedInv, NP!TypeOK
  <2>2. s \in NP!Scripts /\ s <= ncreated
    BY <2>1, ParametersAssumption DEF NP!Scripts
  <2>3. s \in ncancelled \/ npc = "threw"
    BY <2>2 DEF SystemInv, NestedInv, NP!RecordInv, NP!ThreadInv
  <2>4. npc = "threw" => result[The] = Null
    BY DEF SystemInv, Flow
  <2>5. attached[The] = Null \/ attached[The] = result[The]
    BY OneScriptAssumption
    DEF SystemInv, OuterInv, RecordInv, AttachedIsResult, The, Scripts
  <2> QED
    BY <2>3, <2>4, <2>5
<1> QED
  BY <1>1, SystemInvariance, PTL

(* A tree handed out is settled to its depth, for any number of nested      *)
(* scripts and of sweeps.                                                   *)
THEOREM TreesSettled == SystemSpec => []TreeIsSettled
<1>1. SystemInv => TreeIsSettled
  <2> SUFFICES ASSUME SystemInv, pc \in {"built", "destroyed"}
               PROVE  /\ \A s \in 1..created : thr[s] = "joined" \/ s \in cancelled
                      /\ attached[The] # Null =>
                            \A s \in 1..ncreated : nthr[s] = "joined" \/ s \in ncancelled
    BY DEF TreeIsSettled
  <2>1. ASSUME NEW s \in 1..created PROVE thr[s] = "joined" \/ s \in cancelled
    <3>1. created \in 0..MaxScripts
      BY DEF SystemInv, OuterInv, TypeOK
    <3>2. s \in Scripts /\ s <= created
      BY <3>1, MaxScriptsAssumption DEF Scripts
    <3>3. s \notin executed_list => thr[s] = "joined" \/ s \in cancelled
      BY <3>2 DEF SystemInv, OuterInv, RecordInv, ThreadInv
    <3> QED
      BY <3>3 DEF SystemInv, OuterInv, RecordInv, CancelInv
  <2>2. ASSUME attached[The] # Null, NEW s \in 1..ncreated
        PROVE  nthr[s] = "joined" \/ s \in ncancelled
    <3>1. ncreated \in 0..NestedScripts
      BY DEF SystemInv, NestedInv, NP!TypeOK
    <3>2. s \in NP!Scripts /\ s <= ncreated
      BY <3>1, ParametersAssumption DEF NP!Scripts
    <3>3. npc \in {"built", "destroyed"}
      BY <2>2, OneScriptAssumption
      DEF SystemInv, OuterInv, RecordInv, AttachedIsResult, Flow, The, Scripts
    <3>4. s \notin nexecuted_list => nthr[s] = "joined" \/ s \in ncancelled
      BY <3>2, <3>3 DEF SystemInv, NestedInv, NP!RecordInv, NP!ThreadInv
    <3> QED
      BY <3>3, <3>4 DEF SystemInv, NestedInv, NP!RecordInv, NP!CancelInv
  <2> QED
    BY <2>1, <2>2
<1> QED
  BY <1>1, SystemInvariance, PTL

(* The system is a Builder and a call of execute: what is proved of         *)
(* BuilderIncludes and of ScriptExecute by themselves holds here, and the   *)
(* state "run" of a thread stands for all that is spelled out.              *)
THEOREM SystemIsComposed == SystemSpec => Spec /\ XP!Spec
<1>1. SystemInit => Init /\ XP!Init
  BY ExecuteSame DEF SystemInit
<1>2. [SystemNext]_systemVars => [Next]_vars /\ [XP!Next]_(XP!vars)
  BY Steps
<1> QED
  BY <1>1, <1>2, PTL DEF SystemSpec, Spec, XP!Spec

-----------------------------------------------------------------------------
(* What either Builder promises. *)

(* IncludeSlots, as the nested Builder's places and as the proofs name it. *)
nestedSlots == [s \in N!Scripts |-> N!SlotOf(s)]

LEMMA PromiseSame ==
    /\ N!Phase = NP!Phase /\ N!Phase' = NP!Phase'
    /\ nestedSlots = NP!slots /\ nestedSlots' = NP!slots'
    /\ NP!Abstract!Init => N!Abstract!Init
    /\ NP!Abstract!Next => N!Abstract!Next
<1>1. N!Phase = NP!Phase /\ N!Phase' = NP!Phase'
  BY DEF N!Phase, NP!Phase
<1>2. N!Scripts = NP!Scripts
  BY DEF N!Scripts, NP!Scripts
<1>3. \A s \in N!Scripts : N!SlotOf(s) = NP!SlotOf(s) /\ N!SlotOf(s)' = NP!SlotOf(s)'
  BY DEF N!SlotOf, NP!SlotOf, N!Null, NP!Null
<1>4. nestedSlots = NP!slots /\ nestedSlots' = NP!slots'
  BY <1>2, <1>3 DEF nestedSlots, NP!slots
<1>5. NP!Abstract!Init => N!Abstract!Init
  BY <1>1, <1>2, <1>4 DEF N!Abstract!Init, NP!Abstract!Init, nestedSlots, NP!slots
<1>6. \A s \in N!Scripts : NP!Abstract!Meet(s) => N!Abstract!Meet(s)
  BY <1>1, <1>4 DEF N!Abstract!Meet, NP!Abstract!Meet, nestedSlots, NP!slots
<1>7. \A s \in N!Scripts, how \in NP!Abstract!Settled :
         NP!Abstract!Settle(s, how) => N!Abstract!Settle(s, how)
  BY <1>1, <1>4 DEF N!Abstract!Settle, NP!Abstract!Settle, nestedSlots, NP!slots
<1>8. NP!Abstract!Publish => N!Abstract!Publish
  BY <1>1, <1>2, <1>4
  DEF N!Abstract!Publish, NP!Abstract!Publish, nestedSlots, NP!slots
<1>9. NP!Abstract!Fail => N!Abstract!Fail
  BY <1>1, <1>4 DEF N!Abstract!Fail, NP!Abstract!Fail, nestedSlots, NP!slots
<1>10. NP!Abstract!Next => N!Abstract!Next
  <2>1. N!Abstract!Settled = NP!Abstract!Settled
    BY DEF N!Abstract!Settled, NP!Abstract!Settled
  <2> QED
    BY <1>2, <1>6, <1>7, <1>8, <1>9, <2>1, Zenon
    DEF N!Abstract!Next, NP!Abstract!Next
<1> QED
  BY <1>1, <1>4, <1>5, <1>10

(* To its tree, the unwound nested Builder is one that failed. *)
LEMMA UnwindFails ==
    ASSUME NestedInv, NestedInv', UnwindNested
    PROVE  NP!Abstract!Fail
<1>1. /\ npc' = "threw" /\ UNCHANGED <<ncreated, nthr, nattached, ncancelled>>
      /\ npc \notin {"built", "destroyed", "threw"}
  BY DEF UnwindNested, NestedCancellable
<1>2. NP!Phase = "building" /\ NP!Phase' = "failed"
  BY <1>1 DEF NP!Phase
<1>3. ASSUME NEW s \in NP!Scripts
      PROVE  NP!SlotOf(s)' = IF NP!SlotOf(s) = "pending" THEN "abandoned" ELSE NP!SlotOf(s)
  <2>1. s \in Nat /\ ncreated \in Nat
    BY ParametersAssumption DEF NestedInv, NP!TypeOK, NP!Scripts
  <2> QED
    BY <1>1, <2>1 DEF NP!SlotOf
<1> QED
  BY <1>2, <1>3 DEF NP!Abstract!Fail, NP!slots

LEMMA NestedPromiseStep ==
    ASSUME SystemInv, SystemInv', [SystemNext]_systemVars
    PROVE  [N!Abstract!Next]_<<N!Phase, nestedSlots>>
<1>1. NestedInv /\ NestedInv'
  BY DEF SystemInv
<1>2. [NP!Abstract!Next]_<<NP!Phase, NP!slots>>
  <2>1. CASE [NP!Next]_(NP!vars)
    BY <1>1, <2>1, NP!RefinementStep, ParametersAssumption, JoinCountAssumption DEF NestedInv
  <2>2. CASE UnwindNested
    BY <1>1, <2>2, UnwindFails DEF NP!Abstract!Next
  <2> QED
    BY <2>1, <2>2, Steps
<1> QED
  BY <1>2, PromiseSame

(* Both Builders implement IncludeSlots, for any number of nested scripts   *)
(* and of sweeps, and wherever the nested one is unwound.                   *)
THEOREM PromisesKept == SystemSpec => BuildersKeepPromise
<1>1. SystemInit => Abstract!Init /\ N!Abstract!Init
  <2> SUFFICES ASSUME SystemInit PROVE Abstract!Init /\ N!Abstract!Init
    OBVIOUS
  <2>1. Init /\ NP!Init
    BY NestedSame DEF SystemInit
  <2>2. NP!Abstract!Init
    BY <2>1, NP!RefinementInit, ParametersAssumption, JoinCountAssumption
  <2> QED
    BY <2>1, <2>2, RefinementInit, PromiseSame
<1>2. SystemInv /\ SystemInv' /\ [SystemNext]_systemVars => [Abstract!Next]_<<Phase, slots>>
  BY Steps, RefinementStep DEF SystemInv, OuterInv
<1>3. SystemInv /\ SystemInv' /\ [SystemNext]_systemVars =>
         [N!Abstract!Next]_<<N!Phase, nestedSlots>>
  BY NestedPromiseStep
<1> QED
  BY <1>1, <1>2, <1>3, SystemInvariance, PTL
  DEF SystemSpec, BuildersKeepPromise, Refinement, Abstract!Spec, slots,
      N!Refinement, N!Abstract!Spec, nestedSlots

-----------------------------------------------------------------------------
(* What is left to do for the script's thread. *)

LEMMA LeftSame ==
    /\ X!Left = XP!Left /\ X!Left' = XP!Left' /\ (X!LoopOver <=> XP!LoopOver)
    /\ N!Left = NP!Left /\ N!Left' = NP!Left'
    /\ \A a, b : XP!Precedes(a, b) => Precedes(a, b)
    /\ \A a, b : NP!Precedes(a, b) => Precedes(a, b)
<1>1. X!Left = XP!Left /\ X!Left' = XP!Left' /\ (X!LoopOver <=> XP!LoopOver)
  BY DEF X!Left, XP!Left, X!PartsLeft, XP!PartsLeft, X!LoopOver, XP!LoopOver,
         X!ListenerLeft, XP!ListenerLeft
<1>2. N!StagesLeft = NP!StagesLeft /\ N!StagesLeft' = NP!StagesLeft'
  BY DEF N!StagesLeft, NP!StagesLeft
<1>3. N!Ahead = NP!Ahead /\ N!Ahead' = NP!Ahead'
  BY DEF N!Ahead, NP!Ahead, N!End, NP!End
<1>4. N!Left = NP!Left /\ N!Left' = NP!Left'
  <2>1. \A S : N!Cardinality(S) = NP!Cardinality(S)
    BY Zenon DEF N!Cardinality, NP!Cardinality
  <2> QED
    BY <1>2, <1>3, <2>1 DEF N!Left, NP!Left
<1>5. \A a, b : XP!Precedes(a, b) => Precedes(a, b)
  BY DEF XP!Precedes, Precedes
<1>6. \A a, b : NP!Precedes(a, b) => Precedes(a, b)
  BY DEF NP!Precedes, Precedes
<1> QED
  BY <1>1, <1>4, <1>5, <1>6

(* What is left of a component that is not touched. *)
LEMMA LeftUnchanged ==
    /\ UNCHANGED executeVars => X!Left' = X!Left
    /\ UNCHANGED nestedVars => N!Left' = N!Left
    /\ UNCHANGED <<thr, todo, npc>> => StageLeft' = StageLeft /\ ClosingLeft' = ClosingLeft
<1>1. UNCHANGED executeVars => X!Left' = X!Left
  BY DEF executeVars, X!Left, X!PartsLeft, X!LoopOver, X!ListenerLeft
<1>2. UNCHANGED nestedVars => N!Left' = N!Left
  BY DEF nestedVars, N!Left, N!StagesLeft, N!Ahead
<1>3. UNCHANGED <<thr, todo, npc>> => StageLeft' = StageLeft /\ ClosingLeft' = ClosingLeft
  BY DEF StageLeft, ClosingLeft
<1> QED
  BY <1>1, <1>2, <1>3

LEMMA TheFacts ==
    ASSUME OuterInv
    PROVE  /\ The \in Scripts /\ Scripts = {The}
           /\ thr \in [Scripts -> {"idle", "run", "store", "exited", "unwound", "joined"}]
           /\ todo \in [Scripts -> SUBSET Fields] /\ todo[The] \subseteq Fields
           /\ IsFiniteSet(todo[The]) /\ Cardinality(todo[The]) \in Nat
<1>1. The \in Scripts /\ Scripts = {The}
  BY OneScriptAssumption DEF The, Scripts
<1>2. /\ thr \in [Scripts -> {"idle", "run", "store", "exited", "unwound", "joined"}]
      /\ todo \in [Scripts -> SUBSET Fields]
  BY DEF OuterInv, TypeOK
<1>3. IsFiniteSet(Fields)
  <2>1. IsFiniteSet({"out"} \cup {"done"})
    BY FS_Singleton, FS_AddElement
  <2>2. Fields = {"out"} \cup {"done"}
    BY DEF Fields
  <2> QED
    BY <2>1, <2>2
<1>4. todo[The] \in SUBSET Fields
  BY <1>1, <1>2
<1> QED
  BY <1>1, <1>2, <1>3, <1>4, FS_Subset, FS_CardinalityType

(* The steps of the script's thread. *)
LEMMA ThreadStepNearer ==
    ASSUME SystemInv, SystemInv', ScriptThread
    PROVE  ThreadNearer
<1>0. /\ OuterInv /\ NestedInv /\ NestedInv'
      /\ XP!IInv /\ XP!TypeOK'
  BY DEF SystemInv, XP!IInv
<1>1. CASE Execute
  <2>1. XP!CallerStep /\ UNCHANGED <<thr, vars>>
    BY <1>1, ExecuteSame DEF Execute, vars
  <2>2. XP!Precedes(XP!Left', XP!Left)
    BY <1>0, <2>1, XP!AdvanceStep, ParametersAssumption
  <2>3. Precedes(X!Left', X!Left)
    BY <2>2, LeftSame
  <2>4. StageLeft' = StageLeft
    BY <2>1 DEF StageLeft
  <2> QED
    BY <2>3, <2>4 DEF ThreadNearer
<1>2. CASE BuildNested
  <2>1. NP!BuilderStep /\ UNCHANGED <<thr, vars, executeVars>>
    BY <1>2, NestedSame DEF BuildNested, vars
  <2>2. NP!Precedes(NP!Left', NP!Left)
    BY <1>0, <2>1, NP!AdvanceStep, ParametersAssumption, JoinCountAssumption DEF NestedInv
  <2>3. Precedes(N!Left', N!Left)
    BY <2>2, LeftSame
  <2>4. StageLeft' = StageLeft /\ X!Left' = X!Left
    BY <2>1, LeftUnchanged DEF StageLeft
  <2> QED
    BY <2>3, <2>4 DEF ThreadNearer
<1>3. CASE ProduceTree \/ ProduceNothing
  <2>1. thr[The] = "run" /\ thr' = [thr EXCEPT ![The] = "store"]
    BY <1>3 DEF ProduceTree, ProduceNothing, Produce
  <2>2. StageLeft = 2 /\ StageLeft' = 1
    BY <1>0, <2>1, TheFacts DEF StageLeft
  <2> QED
    BY <2>2 DEF ThreadNearer
<1>4. CASE Store
  <2>1. PICK f \in todo[The] : todo' = [todo EXCEPT ![The] = @ \ {f}]
    BY <1>4 DEF Store, StoreOut, StoreDone
  <2>2. todo'[The] = todo[The] \ {f}
    BY <1>0, <2>1, TheFacts
  <2>3. Cardinality(todo'[The]) = Cardinality(todo[The]) - 1
    BY <1>0, <2>1, <2>2, TheFacts, FS_RemoveElement
  <2>4. UNCHANGED <<thr, npc, executeVars, nestedVars>>
    BY <1>4 DEF Store, StoreOut, StoreDone, nestedVars
  <2>5. ClosingLeft' < ClosingLeft
    BY <1>0, <2>3, <2>4, TheFacts DEF ClosingLeft
  <2>6. StageLeft' = StageLeft /\ X!Left' = X!Left /\ N!Left' = N!Left
    BY <2>4, LeftUnchanged DEF StageLeft
  <2> QED
    BY <2>5, <2>6 DEF ThreadNearer
<1>5. CASE DestroyNested
  <2>1. /\ UNCHANGED <<thr, todo, vars, executeVars>>
        /\ NP!Next /\ npc = "built" /\ npc' = "destroyed"
    BY <1>5, NestedSame DEF DestroyNested, vars, threadVars
  <2>2. ~NP!BuilderStep
    BY <2>1 DEF NP!BuilderStep, NP!ScriptUse, NP!ParseThrows, NP!ParseDone, NP!SweepBegin,
                NP!VisitDone, NP!VisitPending, NP!Join, NP!SweepEnd, NP!LoopExit,
                NP!CancelOne, NP!CancelEnd, NP!LinksAssigned, NP!LinksThrow
  <2>3. NP!Precedes(NP!Left', NP!Left) \/ NP!Left' = NP!Left
    BY <1>0, <2>1, <2>2, NP!OthersKeepLeft, ParametersAssumption, JoinCountAssumption
    DEF NestedInv
  <2>4. Precedes(N!Left', N!Left) \/ N!Left' = N!Left
    BY <2>3, LeftSame
  <2>5. StageLeft' = StageLeft /\ X!Left' = X!Left
    BY <2>1, LeftUnchanged DEF StageLeft
  <2>6. ClosingLeft' < ClosingLeft
    BY <1>0, <2>1, TheFacts DEF ClosingLeft
  <2> QED
    BY <2>4, <2>5, <2>6 DEF ThreadNearer
<1>6. CASE ExitThread
  <2>1. thr[The] = "store" /\ thr' = [thr EXCEPT ![The] = "exited"]
    BY <1>6 DEF ExitThread, Exit
  <2>2. StageLeft = 1 /\ StageLeft' = 0
    BY <1>0, <2>1, TheFacts DEF StageLeft
  <2> QED
    BY <2>2 DEF ThreadNearer
<1> QED
  BY <1>1, <1>2, <1>3, <1>4, <1>5, <1>6 DEF ScriptThread

(* The listener, when a join is what is left of execute. *)
LEMMA ListenerNearer ==
    ASSUME SystemInv, SystemInv', X!LoopOver, Listener
    PROVE  ThreadNearer
<1>1. /\ XP!LoopOver /\ XP!ListenerStep /\ UNCHANGED <<thr, vars>>
      /\ XP!IInv /\ XP!TypeOK'
  BY ExecuteSame, LeftSame DEF Listener, vars, SystemInv, XP!IInv
<1>2. XP!Precedes(XP!Left', XP!Left)
  BY <1>1, XP!AdvanceStep, ParametersAssumption
<1>3. Precedes(X!Left', X!Left)
  BY <1>2, LeftSame
<1>4. StageLeft' = StageLeft
  BY <1>1 DEF StageLeft
<1> QED
  BY <1>3, <1>4 DEF ThreadNearer

(* The others do not set the thread back; the outer Builder starts it, and  *)
(* a cancellation ends it.                                                  *)
LEMMA OthersNoSetback ==
    ASSUME SystemInv, [SystemNext]_systemVars,
           ~ScriptThread, ~(X!LoopOver /\ Listener)
    PROVE  ThreadNearer \/ UNCHANGED <<StageLeft, X!Left, N!Left, ClosingLeft>>
<1>0. OuterInv
  BY DEF SystemInv
<1>1. CASE OuterBuilder
  <2>1. UNCHANGED <<todo, npc, executeVars, nestedVars>>
    BY <1>1 DEF OuterBuilder, nestedVars, BuilderStep, ScriptUse, ParseThrows, ParseDone,
       SweepBegin, VisitDone, VisitPending, Join, SweepEnd, LoopExit, CancelOne, CancelEnd,
       LinksAssigned, LinksThrow, threadVars
  <2>2. CASE ScriptUse
    <3>1. created = 0 /\ thr[The] = "idle" /\ thr' = [thr EXCEPT ![The] = "run"]
      <4>1. created = 0
        BY <1>0, <2>2, OneScriptAssumption DEF ScriptUse, OuterInv, TypeOK
      <4> QED
        BY <1>0, <2>2, <4>1, TheFacts
        DEF ScriptUse, OuterInv, RecordInv, ThreadInv, The
    <3>2. StageLeft = 3 /\ StageLeft' = 2
      BY <1>0, <3>1, TheFacts DEF StageLeft
    <3> QED
      BY <3>2 DEF ThreadNearer
  <2>3. CASE Join
    <3>1. StageLeft' = StageLeft
      BY <1>0, <2>3, TheFacts DEF Join, ThreadEnded, StageLeft
    <3> QED
      BY <2>1, <3>1, LeftUnchanged DEF ClosingLeft
  <2>4. CASE ~ScriptUse /\ ~Join
    <3>1. UNCHANGED thr
      BY <1>1, <2>4 DEF OuterBuilder, BuilderStep, ParseThrows, ParseDone,
         SweepBegin, VisitDone, VisitPending, SweepEnd, LoopExit, CancelOne, CancelEnd,
         LinksAssigned, LinksThrow
    <3> QED
      BY <2>1, <3>1, LeftUnchanged
  <2> QED
    BY <2>2, <2>3, <2>4
<1>2. CASE Owner
  BY <1>2, LeftUnchanged DEF Owner, Destroy, threadVars, nestedVars
<1>3. CASE UnwindThread
  <2>1. thr[The] = "run" /\ thr' = [thr EXCEPT ![The] = "unwound"]
    BY <1>3 DEF UnwindThread, UnwindExecute, UnwindNested, Unwind
  <2>2. StageLeft = 2 /\ StageLeft' = 0
    BY <1>0, <2>1, TheFacts DEF StageLeft
  <2> QED
    BY <2>2 DEF ThreadNearer
<1>4. CASE NestedThread
  <2>1. UNCHANGED <<N!builderVars, thr, todo, executeVars>>
    BY <1>4 DEF NestedThread, N!ThreadStep, N!ThreadWrites, N!Produce, N!StoreOut,
       N!StoreDone, N!Exit, N!Unwind, vars, threadVars
  <2>2. N!Left' = N!Left /\ npc' = npc
    BY <2>1 DEF N!builderVars, N!Left, N!StagesLeft, N!Ahead
  <2> QED
    BY <2>1, <2>2, LeftUnchanged
<1>5. CASE Listener
  <2>1. UNCHANGED <<thr, todo, npc, nestedVars>> /\ ~X!LoopOver /\ X!ListenerStep
    BY <1>5 DEF Listener, vars, threadVars, nestedVars
  <2>2. X!Left' = X!Left
    <3>1. CASE ~X!LCrashes
      <4>1. UNCHANGED X!callerVars
        BY <2>1, <3>1 DEF X!ListenerStep, X!LTop, X!LPoll, X!LOut, X!LErr, X!LBlocks
      <4> QED
        BY <2>1, <4>1 DEF X!callerVars, X!Left, X!PartsLeft, X!LoopOver
    <3>2. CASE X!LCrashes
      BY <3>2 DEF X!LCrashes, X!FrameGone, X!Left, X!PartsLeft, X!LoopOver
    <3> QED
      BY <3>1, <3>2
  <2> QED
    BY <2>1, <2>2, LeftUnchanged
<1>6. CASE Child
  <2>1. UNCHANGED <<X!callerVars, X!listenerVars, thr, todo, npc, nestedVars>>
    BY <1>6 DEF Child, X!ChildStep, X!ExecOk, X!ExecFails, X!WriteOut, X!WriteErr,
       X!ChildEnds, vars, threadVars, nestedVars
  <2>2. X!Left' = X!Left
    BY <2>1 DEF X!callerVars, X!listenerVars, X!Left, X!PartsLeft, X!LoopOver, X!ListenerLeft
  <2> QED
    BY <2>1, <2>2, LeftUnchanged
<1>7. CASE UNCHANGED systemVars
  BY <1>7, LeftUnchanged DEF systemVars, vars, threadVars, nestedVars
<1> QED
  BY <1>1, <1>2, <1>3, <1>4, <1>5, <1>6, <1>7 DEF SystemNext, InProcess

(* The thread of a script takes boundedly many steps, for any number of     *)
(* nested scripts, sweeps and checks, and whatever the children do.         *)
THEOREM ThreadTerminates == SystemSpec => ThreadAdvances
<1>1. SystemInv /\ SystemInv' /\ [SystemNext]_systemVars =>
         [\/ ThreadNearer
          \/ /\ UNCHANGED <<StageLeft, X!Left, N!Left, ClosingLeft>>
             /\ ~ScriptThread
             /\ ~(X!LoopOver /\ Listener)]_systemVars
  BY ThreadStepNearer, ListenerNearer, OthersNoSetback
<1> QED
  BY <1>1, SystemInvariance, PTL DEF SystemSpec, ThreadAdvances
=============================================================================
