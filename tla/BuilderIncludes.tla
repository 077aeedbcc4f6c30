---------------------------- MODULE BuilderIncludes ----------------------------
(***************************************************************************)
(* The life of one Builder: its parser starts one thread for every script  *)
(* of the document, build_tree then runs assign_includes, which polls the  *)
(* threads' "done" flags for a bounded number of sweeps, joins the threads *)
(* it finds done and cancels the rest, and assign_links.                   *)
(*                                                                         *)
(* Threads share one Executed record each with the builder and use no      *)
(* lock.  A script is named by its place in the order of creation, which   *)
(* is also its place in executed_list_; 0 stands for nullptr and, as an    *)
(* iterator, for executed_list_.end().                                     *)
(***************************************************************************)
EXTENDS Integers, FiniteSets

CONSTANTS
    MaxScripts,          \* bound: scripts in one document
    timeout_join_count   \* sweeps of assign_includes (timeout_join_count_)

ASSUME MaxScriptsAssumption == MaxScripts \in Nat \ {0}
ASSUME JoinCountAssumption  == timeout_join_count \in Nat \ {0}

Scripts == 1..MaxScripts
Null    == 0
End     == 0
Fields  == {"out", "done"}

VARIABLES
    pc,             \* where the builder's thread is
    created,        \* number of add_executed calls
    executed_list,  \* scripts whose Executed record is in executed_list_
    it,             \* the iterator of assign_includes' loops
    sweep,          \* its counter i
    args_out,       \* Executed_args::out of every record
    args_done,      \* Executed_args::done of every record
    attached,       \* Attached::attached of every script's target node
    thr,            \* where every script-processing thread is
    todo,           \* stores into its record the thread has yet to make
    result,         \* tree the thread got from its script, Null on an error
    cancelled,      \* scripts whose thread pthread_cancel was called for
    seen,           \* history: records whose flag was set at the sweep's start
    ripe            \* history: completed sweeps that began with the flag set

builderVars == <<pc, created, executed_list, it, sweep, attached, cancelled>>
threadVars  == <<args_out, args_done, todo, result>>
history     == <<seen, ripe>>
vars == <<builderVars, threadVars, thr, history>>

TypeOK ==
    /\ pc \in {"parse", "loop", "sweep", "join", "cancel", "links",
               "built", "threw", "destroyed"}
    /\ created \in 0..MaxScripts
    /\ executed_list \subseteq 1..created
    /\ it \in {End} \cup 1..created
    /\ sweep \in 0..timeout_join_count
    /\ args_out \in [Scripts -> Scripts \cup {Null}]
    /\ args_done \in [Scripts -> BOOLEAN]
    /\ attached \in [Scripts -> Scripts \cup {Null}]
    /\ thr \in [Scripts -> {"idle", "run", "store", "exited", "unwound", "joined"}]
    /\ todo \in [Scripts -> SUBSET Fields]
    /\ result \in [Scripts -> Scripts \cup {Null}]
    /\ cancelled \subseteq 1..created
    /\ seen \subseteq 1..created
    /\ ripe \in [Scripts -> Nat]

(* The flag of a new record, set before its thread is started. *)
NewFlagGarbage == TRUE   \* slip: left uninitialised, so any value
NewFlag == FALSE

Init ==
    /\ pc = "parse"
    /\ created = 0
    /\ executed_list = {}
    /\ it = End
    /\ sweep = 0
    /\ args_out = [s \in Scripts |-> Null]
    /\ args_done = [s \in Scripts |-> NewFlag]
    /\ attached = [s \in Scripts |-> Null]
    /\ thr = [s \in Scripts |-> "idle"]
    /\ todo = [s \in Scripts |-> {}]
    /\ result = [s \in Scripts |-> Null]
    /\ cancelled = {}
    /\ seen = {}
    /\ ripe = [s \in Scripts |-> 0]

-----------------------------------------------------------------------------
(* Helpers.  A definition marked "slip" is a plausible mistake in the one  *)
(* that follows it; no action uses it.                                     *)

(* ++iterator of a std::list.  Incrementing end() is undefined; the lists   *)
(* of libstdc++ and libc++ are circular, so it yields begin(): Succ(L, End) *)
(* is begin() of L.                                                         *)
Succ(L, s) ==
    IF \E t \in L : t > s
    THEN CHOOSE t \in L : t > s /\ \A u \in L : u > s => t <= u
    ELSE End

(* The condition of the for statement that counts the sweeps. *)
SweepsLeftInclusive == sweep <= timeout_join_count   \* slip: one sweep more
SweepsLeft == sweep < timeout_join_count

(* A thread pthread_join returns for without waiting. *)
FlaggedIsEnded(s) == thr[s] # "run"   \* slip: the flag is taken for the end
ThreadEnded(s) == thr[s] \in {"exited", "unwound"}

(* Where the loop that joins stands after the erasure of record s: the body *)
(* has already moved the iterator on when the for statement does it again.  *)
AfterErase(L, s) == Succ(L \ {s}, Succ(L \ {s}, s))

(* Where that loop stands after a record whose flag is not set. *)
SkipPending(L, s) == Succ(L, Succ(L, s))   \* slip: two increments here too
StayPending(L, s) == s                     \* slip: wait until the flag is set
AfterPending(L, s) == Succ(L, s)

(* The loop over the records that are left, in which pthread_cancel is      *)
(* called, starts here.                                                     *)
CancelNone(L) == End                       \* slip: the loop is missing
CancelAllButFirst(L) == Succ(L, Succ(L, End))   \* slip: incremented at once
CancelFrom(L) == Succ(L, End)

-----------------------------------------------------------------------------
(* The parser: one script after the other, then the end of the document.   *)

(* script_use: a new record and target, and a thread that starts at once.  *)
ScriptUse ==
    /\ pc = "parse"
    /\ created < MaxScripts
    /\ created' = created + 1
    /\ executed_list' = executed_list \cup {created + 1}
    /\ thr' = [thr EXCEPT ![created + 1] = "run"]
    /\ UNCHANGED <<pc, it, sweep, attached, cancelled, threadVars, history>>

(* A syntax error, a lexer error or a pthread_create that fails leaves the *)
(* constructor by an exception: the members are destroyed, the records     *)
(* with them, whatever their threads do.                                   *)
ParseThrows ==
    /\ pc = "parse"
    /\ pc' = "threw"
    /\ executed_list' = {}
    /\ UNCHANGED <<created, it, sweep, attached, cancelled, threadVars, thr, history>>

ParseDone ==
    /\ pc = "parse"
    /\ pc' = "loop"
    /\ UNCHANGED <<created, executed_list, it, sweep, attached, cancelled,
                   threadVars, thr, history>>

-----------------------------------------------------------------------------
(* assign_includes. *)

SweepBegin ==
    /\ pc = "loop"
    /\ SweepsLeft
    /\ executed_list # {}
    /\ pc' = "sweep"
    /\ it' = Succ(executed_list, End)
    /\ seen' = {s \in executed_list : args_done[s]}
    /\ UNCHANGED <<created, executed_list, sweep, attached, cancelled,
                   threadVars, thr, ripe>>

(* The unsynchronised read of it->args.done. *)
VisitDone ==
    /\ pc = "sweep"
    /\ it # End
    /\ args_done[it]
    /\ pc' = "join"
    /\ UNCHANGED <<created, executed_list, it, sweep, attached, cancelled,
                   threadVars, thr, history>>

VisitPending ==
    /\ pc = "sweep"
    /\ it # End
    /\ ~args_done[it]
    /\ it' = AfterPending(executed_list, it)
    /\ UNCHANGED <<pc, created, executed_list, sweep, attached, cancelled,
                   threadVars, thr, history>>

(* pthread_join returns; the result goes to its place in the tree and the  *)
(* record leaves the list.  The exception for a join that fails cannot be  *)
(* met and is left out: the thread was created, for else parsing had       *)
(* thrown, it is not the builder's own, and no other thread joins it.      *)
Join ==
    /\ pc = "join"
    /\ ThreadEnded(it)
    /\ pc' = "sweep"
    /\ attached' = [attached EXCEPT ![it] = args_out[it]]
    /\ thr' = [thr EXCEPT ![it] = "joined"]
    /\ executed_list' = executed_list \ {it}
    /\ it' = AfterErase(executed_list, it)
    /\ UNCHANGED <<created, sweep, cancelled, threadVars, history>>

(* usleep(timeout_join_period_us_) and ++i. *)
SweepEnd ==
    /\ pc = "sweep"
    /\ it = End
    /\ pc' = "loop"
    /\ sweep' = sweep + 1
    /\ ripe' = [s \in Scripts |->
                  IF s \in seen \cap executed_list THEN ripe[s] + 1 ELSE ripe[s]]
    /\ seen' = {}
    /\ UNCHANGED <<created, executed_list, it, attached, cancelled, threadVars, thr>>

LoopExit ==
    /\ pc = "loop"
    /\ ~SweepsLeft \/ executed_list = {}
    /\ pc' = "cancel"
    /\ it' = CancelFrom(executed_list)
    /\ UNCHANGED <<created, executed_list, sweep, attached, cancelled,
                   threadVars, thr, history>>

CancelOne ==
    /\ pc = "cancel"
    /\ it # End
    /\ cancelled' = cancelled \cup {it}
    /\ it' = Succ(executed_list, it)
    /\ UNCHANGED <<pc, created, executed_list, sweep, attached, threadVars, thr, history>>

CancelEnd ==
    /\ pc = "cancel"
    /\ it = End
    /\ pc' = "links"
    /\ UNCHANGED <<created, executed_list, it, sweep, attached, cancelled,
                   threadVars, thr, history>>

-----------------------------------------------------------------------------
(* assign_links ends the constructor; the destructor frees the records.    *)

LinksAssigned ==
    /\ pc = "links"
    /\ pc' = "built"
    /\ UNCHANGED <<created, executed_list, it, sweep, attached, cancelled,
                   threadVars, thr, history>>

(* An undefined link or a reference dig cannot follow. *)
LinksThrow ==
    /\ pc = "links"
    /\ pc' = "threw"
    /\ executed_list' = {}
    /\ UNCHANGED <<created, it, sweep, attached, cancelled, threadVars, thr, history>>

Destroy ==
    /\ pc = "built"
    /\ pc' = "destroyed"
    /\ executed_list' = {}
    /\ UNCHANGED <<created, it, sweep, attached, cancelled, threadVars, thr, history>>

-----------------------------------------------------------------------------
(* script_processor.  Its three stores into the record (out and done; e is *)
(* never read by anyone) race with the builder's reads, so they may become *)
(* visible in any order.                                                   *)

(* The script ran and its output was parsed (r is the tree) or an          *)
(* exception was caught (r = Null).  A thread that was cancelled may get   *)
(* here before it meets a cancellation point.                              *)
Produce(s, r) ==
    /\ thr[s] = "run"
    /\ thr' = [thr EXCEPT ![s] = "store"]
    /\ result' = [result EXCEPT ![s] = r]
    /\ todo' = [todo EXCEPT ![s] = Fields]
    /\ UNCHANGED <<builderVars, args_out, args_done, history>>

(* A store into a record that was freed reaches nobody. *)
StoreOut(s) ==
    /\ thr[s] = "store"
    /\ "out" \in todo[s]
    /\ todo' = [todo EXCEPT ![s] = @ \ {"out"}]
    /\ args_out' = IF s \in executed_list
                   THEN [args_out EXCEPT ![s] = result[s]] ELSE args_out
    /\ UNCHANGED <<builderVars, args_done, result, thr, history>>

StoreDone(s) ==
    /\ thr[s] = "store"
    /\ "done" \in todo[s]
    /\ todo' = [todo EXCEPT ![s] = @ \ {"done"}]
    /\ args_done' = IF s \in executed_list
                    THEN [args_done EXCEPT ![s] = TRUE] ELSE args_done
    /\ UNCHANGED <<builderVars, args_out, result, thr, history>>

Exit(s) ==
    /\ thr[s] = "store"
    /\ todo[s] = {}
    /\ thr' = [thr EXCEPT ![s] = "exited"]
    /\ UNCHANGED <<builderVars, threadVars, history>>

(* A cancelled thread meets a cancellation point (usleep, poll, read, ...). *)
Unwind(s) ==
    /\ thr[s] = "run"
    /\ s \in cancelled
    /\ thr' = [thr EXCEPT ![s] = "unwound"]
    /\ UNCHANGED <<builderVars, threadVars, history>>

-----------------------------------------------------------------------------
BuilderStep ==
    \/ ScriptUse \/ ParseThrows \/ ParseDone
    \/ SweepBegin \/ VisitDone \/ VisitPending \/ Join \/ SweepEnd \/ LoopExit
    \/ CancelOne \/ CancelEnd \/ LinksAssigned \/ LinksThrow

ThreadWrites(s) == StoreOut(s) \/ StoreDone(s) \/ Exit(s)

ThreadStep(s) ==
    \/ \E r \in {Null, s} : Produce(s, r)
    \/ ThreadWrites(s)
    \/ Unwind(s)

Next == BuilderStep \/ Destroy \/ \E s \in Scripts : ThreadStep(s)

Spec == Init /\ [][Next]_vars

(* The builder's thread is never descheduled for ever, and neither is a     *)
(* thread that only has its record left to write.  Nothing makes a script   *)
(* end, and nothing makes the owner of a Builder destroy it.                *)
Fairness ==
    /\ WF_vars(BuilderStep)
    /\ \A s \in Scripts : WF_vars(ThreadWrites(s))

FairSpec == Spec /\ Fairness

-----------------------------------------------------------------------------
(* Properties. *)

(* assign_includes waits for a thread without a limit only at pthread_join, *)
(* and never for one that still runs its script: of that thread nothing is  *)
(* left but the other store and its exit, in whatever order the stores      *)
(* became visible.                                                          *)
JoinWaitsForExit == pc = "join" => thr[it] \in {"store", "exited"}

(* What assign_includes puts into the tree is what the script's thread      *)
(* produced, whole: the racy flag is read before the other store may be     *)
(* visible, and it is pthread_join that makes the pointer safe to read.     *)
(* A target whose thread was not joined stays empty.                        *)
AttachedIsResult ==
    \A s \in Scripts :
        attached[s] = IF thr[s] = "joined" THEN result[s] ELSE Null

(* A thread that may still write its Executed record (script_processor      *)
(* holds a pointer into the list) finds it allocated, unless the            *)
(* constructor threw or the Builder was destroyed after giving up on the    *)
(* thread: these are the only two ways to a write into freed memory.        *)
RecordOutlivesThread ==
    \A s \in 1..created :
        thr[s] \in {"run", "store"} /\ s \notin executed_list =>
            \/ pc = "threw"
            \/ pc = "destroyed" /\ s \in cancelled

Before(L, s) == {t \in L : t < s}

(* The loop of assign_includes skips the record that follows one it joins,  *)
(* and wraps around when it joins the last one.  Still, a record cannot be  *)
(* passed over for ever: every sweep that began with its flag set and ended *)
(* without joining it took one of the records before it off the list.       *)
SkipBound ==
    \A s \in executed_list :
        ripe[s] + Cardinality(Before(executed_list, s)) <= s - 1

(* build_tree ends, with a tree or an exception, whatever the scripts do.   *)
BuildTerminates == <>(pc \in {"built", "threw", "destroyed"})

(* What is left to do for build_tree, the weightiest first: its stages, the *)
(* scripts not yet met, the sweeps, the records on the list, and those the  *)
(* loop that runs has yet to visit.                                         *)
StagesLeft ==
    CASE pc = "parse"                     -> 4
      [] pc \in {"loop", "sweep", "join"} -> 3
      [] pc = "cancel"                    -> 2
      [] pc = "links"                     -> 1
      [] OTHER                            -> 0
Ahead ==
    CASE pc = "loop"                             -> executed_list \cup {End}
      [] pc \in {"sweep", "cancel"} /\ it # End -> {s \in executed_list : it <= s}
      [] pc = "join"                             -> {s \in executed_list : it < s}
      [] OTHER                                   -> {}
Left ==
    <<StagesLeft, MaxScripts - created, timeout_join_count - sweep,
      Cardinality(executed_list), Cardinality(Ahead)>>

(* The order of a dictionary. *)
Precedes(a, b) ==
    \E k \in DOMAIN b : a[k] < b[k] /\ \A m \in 1..(k - 1) : a[m] = b[m]

(* The iterator of assign_includes may jump back to the first record, and   *)
(* passes over others.  Still, each step of the builder leaves less to do,  *)
(* and no step of another thread leaves more.                               *)
BuilderAdvances == [][Precedes(Left', Left) \/ (~BuilderStep /\ Left' = Left)]_vars

(* A script that was found finished when a sweep of assign_includes began   *)
(* has its structure assigned to its place on the tree: it is not given up  *)
(* as late.                                                                 *)
DoneScriptAttached ==
    \A s \in cancelled : ripe[s] = 0

(* "If done and *out is nullptr we throw this exception": no tree is        *)
(* published with the place of a failed script silently empty.              *)
FailedScriptThrows ==
    pc = "built" =>
        \A s \in Scripts : thr[s] = "joined" => args_out[s] # Null
=============================================================================
