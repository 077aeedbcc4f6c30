----------------------------- MODULE BuilderSystem -----------------------------
(***************************************************************************)
(* A Builder, one of its scripts in full, and the Builder that parses what *)
(* the script put out.  script_processor runs Script::execute and then the *)
(* constructor of the nested Builder on the script's thread; the outer     *)
(* Builder may cancel that thread in the middle of either.                 *)
(*                                                                         *)
(* The outer Builder is BuilderIncludes, the call of execute is            *)
(* ScriptExecute and the nested Builder another BuilderIncludes, whose     *)
(* variables are those of the outer one with an n in front; its scripts    *)
(* are as BuilderIncludes has them.  The outer document has one script:    *)
(* what several do to each other is the subject of BuilderIncludes.        *)
(***************************************************************************)
EXTENDS BuilderRefinement

CONSTANTS
    NestedScripts,                      \* bound: scripts in the output
    BufSize, PipeCap, n_polls, MaxOutput, MaxError

ASSUME OneScriptAssumption  == MaxScripts = 1
ASSUME ParametersAssumption ==
    /\ NestedScripts \in Nat \ {0}
    /\ BufSize \in Nat \ {0} /\ PipeCap \in Nat \ {0} /\ n_polls \in Nat \ {0}
    /\ MaxOutput \in Nat \ {0} /\ MaxError \in Nat

VARIABLES
    xpc, n_checked, python_is_active, accum, child, waitpid_return, killed, written,
    written_err, unread_out, unread_err, lpc, active2, revents, unreadAtReset

VARIABLES
    npc, ncreated, nexecuted_list, nit, nsweep, nargs_out, nargs_done, nattached,
    nthr, ntodo, nresult, ncancelled, nseen, nripe

X == INSTANCE ScriptExecute

N == INSTANCE BuilderRefinement WITH
    MaxScripts <- NestedScripts,
    pc <- npc, created <- ncreated, executed_list <- nexecuted_list, it <- nit,
    sweep <- nsweep, args_out <- nargs_out, args_done <- nargs_done,
    attached <- nattached, thr <- nthr, todo <- ntodo, result <- nresult,
    cancelled <- ncancelled, seen <- nseen, ripe <- nripe

The == 1   \* the script

executeVars == <<xpc, n_checked, python_is_active, accum, child, waitpid_return, killed, written,
                 written_err, unread_out, unread_err, lpc, active2, revents, unreadAtReset>>
nestedVars == <<npc, ncreated, nexecuted_list, nit, nsweep, nargs_out, nargs_done,
                nattached, nthr, ntodo, nresult, ncancelled, nseen, nripe>>
systemVars == <<vars, executeVars, nestedVars>>

SystemTypeOK == TypeOK /\ X!TypeOK /\ N!TypeOK

SystemInit == Init /\ X!Init /\ N!Init

-----------------------------------------------------------------------------
(* Helpers.  A definition marked "slip" is a plausible mistake in the one  *)
(* that follows it; no action uses it.                                     *)

(* What a crash of execute leaves: nothing runs but the child. *)
ProcessRuns == xpc # "crashed"

(* The script's thread is in the try block of script_processor. *)
InProcessor == thr[The] = "run"

(* The nested constructor has returned. *)
NestedParsed == npc \notin {"parse", "threw"}   \* slip: a tree as soon as it is parsed
NestedBuilt == npc = "built"

(* Where the nested constructor prints, sleeps or joins. *)
NestedUnwindable ==                     \* slip: in the rest of the block, too
    npc \in {"parse", "loop", "sweep", "join", "cancel", "links", "built"}
NestedCancellable == npc \in {"parse", "loop", "sweep", "join", "cancel", "links"}

(* A child runs that nobody sent the signal. *)
ChildLeft == child \in {"exec", "running"} /\ ~killed

-----------------------------------------------------------------------------
(* The script's thread. *)

Execute ==
    /\ InProcessor
    /\ X!CallerStep
    /\ UNCHANGED <<vars, nestedVars>>

BuildNested ==
    /\ InProcessor
    /\ xpc = "returned"
    /\ N!BuilderStep
    /\ UNCHANGED <<vars, executeVars>>

(* builder2.release_root(), or one of the two handlers. *)
ProduceTree ==
    /\ NestedBuilt
    /\ Produce(The, The)
    /\ UNCHANGED <<executeVars, nestedVars>>

ProduceNothing ==
    /\ xpc = "threw" \/ npc = "threw"
    /\ Produce(The, Null)
    /\ UNCHANGED <<executeVars, nestedVars>>

(* The stores, and behind them, at the end of the block, ~Builder. *)
Store ==
    /\ StoreOut(The) \/ StoreDone(The)
    /\ UNCHANGED <<executeVars, nestedVars>>

DestroyNested ==
    /\ thr[The] = "store"
    /\ N!Destroy
    /\ UNCHANGED <<vars, executeVars>>

ExitThread ==
    /\ npc # "built"
    /\ Exit(The)
    /\ UNCHANGED <<executeVars, nestedVars>>

(* The cancelled thread meets a cancellation point in execute ... *)
UnwindExecute ==
    /\ Unwind(The)
    /\ X!Cancel
    /\ UNCHANGED nestedVars

(* ... or behind it: the members of the nested Builder are destroyed as by *)
(* an exception, whatever its scripts' threads do.                         *)
UnwindNested ==
    /\ Unwind(The)
    /\ xpc = "returned"
    /\ NestedCancellable
    /\ npc' = "threw"
    /\ nexecuted_list' = {}
    /\ UNCHANGED <<executeVars, ncreated, nit, nsweep, nargs_out, nargs_done,
                   nattached, nthr, ntodo, nresult, ncancelled, nseen, nripe>>

ScriptThread ==
    \/ Execute \/ BuildNested \/ ProduceTree \/ ProduceNothing
    \/ Store \/ DestroyNested \/ ExitThread

UnwindThread == UnwindExecute \/ UnwindNested

(* The others. *)
OuterBuilder == BuilderStep /\ UNCHANGED <<executeVars, nestedVars>>
Owner == Destroy /\ UNCHANGED <<executeVars, nestedVars>>
NestedThread ==
    /\ \E s \in N!Scripts : N!ThreadStep(s)
    /\ UNCHANGED <<vars, executeVars>>
Listener == X!ListenerStep /\ UNCHANGED <<vars, nestedVars>>
Child == X!ChildStep /\ UNCHANGED <<vars, nestedVars>>

InProcess ==
    /\ ProcessRuns
    /\ \/ OuterBuilder \/ Owner
       \/ ScriptThread \/ UnwindThread
       \/ NestedThread \/ Listener

SystemNext == InProcess \/ Child

SystemSpec == SystemInit /\ [][SystemNext]_systemVars

(* The threads of the process are scheduled: the builder's, the script's,   *)
(* the listener, and those that have only their records left to write.      *)
(* Nothing makes a child or a nested script end.                            *)
SystemFairness ==
    /\ WF_systemVars(ProcessRuns /\ OuterBuilder)
    /\ WF_systemVars(ProcessRuns /\ ScriptThread)
    /\ WF_systemVars(ProcessRuns /\ Listener)
    /\ \A s \in N!Scripts :
          WF_systemVars(ProcessRuns /\ N!ThreadWrites(s) /\ UNCHANGED <<vars, executeVars>>)

FairSystem == SystemSpec /\ SystemFairness

-----------------------------------------------------------------------------
(* Properties. *)

(* Whatever the scripts and their children do, the thread of a script ends: *)
(* the outer Builder would get its result in the end if it did not give up  *)
(* first.                                                                   *)
ScriptThreadEnds ==
    InProcessor ~> (thr[The] \in {"exited", "unwound", "joined"} \/ ~ProcessRuns)

(* What is left to do for the script's thread, the weightiest first: its    *)
(* own stages, what is left of execute, what is left of the nested Builder, *)
(* and the stores and ~Builder behind them.                                 *)
StageLeft ==
    CASE thr[The] = "idle"  -> 3
      [] thr[The] = "run"   -> 2
      [] thr[The] = "store" -> 1
      [] OTHER              -> 0
ClosingLeft == Cardinality(todo[The]) + (IF npc = "built" THEN 1 ELSE 0)

ThreadNearer ==
    \/ StageLeft' < StageLeft
    \/ StageLeft' = StageLeft /\ Precedes(X!Left', X!Left)
    \/ StageLeft' = StageLeft /\ X!Left' = X!Left /\ Precedes(N!Left', N!Left)
    \/ /\ StageLeft' = StageLeft /\ X!Left' = X!Left /\ N!Left' = N!Left
       /\ ClosingLeft' < ClosingLeft

(* Each step of the script's thread brings it nearer its end, and so does   *)
(* each of the listener it is about to wait for.  No step of the Builders,  *)
(* of the nested scripts' threads, of the listener or of the child sets it  *)
(* back.                                                                    *)
ThreadAdvances ==
    [][\/ ThreadNearer
       \/ /\ UNCHANGED <<StageLeft, X!Left, N!Left, ClosingLeft>>
          /\ ~ScriptThread
          /\ ~(X!LoopOver /\ Listener)]_systemVars

(* When the script's thread has ended, neither its listener nor a child     *)
(* without a signal is left, unless its Builder gave it up inside execute:  *)
(* in the dead frame the listener may bring the process down.               *)
NothingLeftBehind ==
    thr[The] \in {"exited", "joined", "unwound"} /\ (X!ListenerAlive \/ ChildLeft) =>
        /\ thr[The] = "unwound" /\ The \in cancelled
        /\ xpc = "cancelled" \/ ~ProcessRuns

(* A nested script's thread loses its record only when the nested Builder   *)
(* gave up on it, or when no tree came out of the nested Builder, because   *)
(* its document was refused or its own thread was given up on.              *)
NestedRecordOutlivesThread ==
    \A s \in 1..ncreated :
        nthr[s] \in {"run", "store"} /\ s \notin nexecuted_list =>
            \/ s \in ncancelled
            \/ npc = "threw" /\ result[The] = Null /\ attached[The] = Null

(* A tree that is handed out is settled to its depth: each script of the    *)
(* document was joined or given up on, and so was each script of a          *)
(* document that was put in a script's place.                               *)
TreeIsSettled ==
    pc \in {"built", "destroyed"} =>
        /\ \A s \in 1..created : thr[s] = "joined" \/ s \in cancelled
        /\ attached[The] # Null =>
              \A s \in 1..ncreated : nthr[s] = "joined" \/ s \in ncancelled

(* What a Builder promises its tree (IncludeSlots) holds of both, though     *)
(* the nested one may be unwound anywhere, and with it whoever would settle *)
(* its places: a settled place never changes, and no tree is handed on with *)
(* a place that may yet be filled.                                          *)
BuildersKeepPromise == Refinement /\ N!Refinement

(* "Wait for the python stdout listener to finish": the frame of execute    *)
(* outlives the listener that uses it.                                      *)
FrameOutlivesListener == X!ListenerAlive => ~X!FrameGone
=============================================================================
