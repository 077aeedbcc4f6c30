----------------------------- MODULE ScriptExecute -----------------------------
(***************************************************************************)
(* One call of Script::execute: the calling thread forks a child that runs *)
(* the interpreter, starts a listener thread that reads the child's two    *)
(* output pipes, polls for the child's end a bounded number of times,      *)
(* tells the listener to stop through an unsynchronised flag on its own    *)
(* stack, kills the child if it has not ended well, and joins the listener.*)
(*                                                                         *)
(* Output is counted, not spelled: only how much of it is written, waits   *)
(* in a pipe or has been collected matters here.                           *)
(***************************************************************************)
EXTENDS Integers

CONSTANTS
    BufSize,    \* bytes one read takes at most (LSCL_SCRIPT_READ_BUFFER_SIZE-1)
    PipeCap,    \* bytes a pipe holds before its writer blocks
    n_polls,    \* calls of waitpid (timeout_process_check_number_)
    MaxOutput,  \* bound: bytes the child writes to its stdout
    MaxError    \* bound: bytes it writes to its stderr

ASSUME BufSizeAssumption   == BufSize \in Nat \ {0}
ASSUME PipeCapAssumption   == PipeCap \in Nat \ {0}
ASSUME PollsAssumption     == n_polls \in Nat \ {0}
ASSUME MaxOutputAssumption == MaxOutput \in Nat \ {0}
ASSUME MaxErrorAssumption  == MaxError \in Nat

VARIABLES
    xpc,               \* where the calling thread is
    n_checked,         \* waitpid calls counted
    python_is_active,  \* the flag the listener reads
    accum,             \* bytes the listener collected
    child,             \* the child process
    waitpid_return,    \* of the last call: zero, the child's pid, or an error
    killed,            \* kill was called
    written,           \* bytes the child wrote to its stdout
    written_err,       \* and to its stderr
    unread_out,        \* bytes in the stdout pipe
    unread_err,        \* bytes in the stderr pipe
    lpc,               \* where the listener thread is
    active2,           \* its copy of the flag, python_is_active_2
    revents,           \* pipes its last poll found readable
    unreadAtReset      \* history: unread_out when the flag was reset

callerVars   == <<xpc, n_checked, python_is_active, waitpid_return, killed, unreadAtReset>>
childVars    == <<child, written, written_err>>
pipes        == <<unread_out, unread_err>>
listenerVars == <<lpc, active2, revents, accum>>
vars == <<callerVars, childVars, pipes, listenerVars>>

TypeOK ==
    /\ xpc \in {"start", "listen", "check", "sleep", "reset", "kill", "join",
                "returned", "threw", "cancelled", "crashed"}
    /\ n_checked \in 0..n_polls
    /\ python_is_active \in BOOLEAN
    /\ accum \in 0..MaxOutput
    /\ child \in {"none", "exec", "running", "exited", "signaled"}
    /\ waitpid_return \in {"zero", "child", "error"}
    /\ killed \in BOOLEAN
    /\ written \in 0..MaxOutput
    /\ written_err \in 0..MaxError
    /\ unread_out \in 0..PipeCap
    /\ unread_err \in 0..PipeCap
    /\ lpc \in {"none", "top", "poll", "out", "err", "blocked", "exited"}
    /\ active2 \in BOOLEAN
    /\ revents \subseteq {"out", "err"}
    /\ unreadAtReset \in 0..PipeCap

Init ==
    /\ xpc = "start"
    /\ n_checked = 0
    /\ python_is_active = TRUE
    /\ accum = 0
    /\ child = "none"
    /\ waitpid_return = "zero"
    /\ killed = FALSE
    /\ written = 0
    /\ written_err = 0
    /\ unread_out = 0
    /\ unread_err = 0
    /\ lpc = "none"
    /\ active2 = TRUE
    /\ revents = {}
    /\ unreadAtReset = 0

-----------------------------------------------------------------------------
(* Helpers.  A definition marked "slip" is a plausible mistake in the one  *)
(* that follows it; no action uses it.                                     *)

Ended == child \in {"exited", "signaled"}

(* The condition of the do-while loop around waitpid, after n calls. *)
LoopGoesOnInclusive(n) == n <= n_polls   \* slip: one call more
LoopGoesOn(n) == n < n_polls

(* What the caller stores into the flag after the loop. *)
FlagKept == python_is_active             \* slip: the reset is missing
FlagAfterLoop == FALSE

reaped == waitpid_return = "child"

(* Of the status, which is the zero it began with unless waitpid set it. *)
WIFEXITED == reaped => child = "exited"

(* The branch after the loop: everything but a noticed, normal exit. *)
NeedsKillIfSignaled == reaped /\ child = "signaled"   \* slip: not on a timeout
NeedsKill == ~(waitpid_return # "zero" /\ WIFEXITED)

(* pthread_join on the listener returns. *)
ListenerToldToStop == ~python_is_active  \* slip: no join
ListenerJoinable == lpc = "exited"

(* The listener's while condition at the end of an iteration. *)
ContinuesOnFlag == python_is_active      \* slip: the flag itself, no last read
Continues == active2

(* Bytes one read takes from a pipe that holds n. *)
ReadSize(n) == IF n < BufSize THEN n ELSE BufSize

(* Bytes left in the stderr pipe when the listener has dealt with it. *)
ErrIgnored(n) == n                       \* slip: stderr is never read
ErrLeft(n) == n - ReadSize(n)

-----------------------------------------------------------------------------
(* The calling thread. *)

(* fork() < 0: "return 0" builds a std::string from a null pointer, which  *)
(* throws.                                                                 *)
ForkFails ==
    /\ xpc = "start"
    /\ xpc' = "threw"
    /\ UNCHANGED <<n_checked, python_is_active, waitpid_return, killed, unreadAtReset,
                   childVars, pipes, listenerVars>>

Fork ==
    /\ xpc = "start"
    /\ xpc' = "listen"
    /\ child' = "exec"
    /\ UNCHANGED <<n_checked, python_is_active, waitpid_return, killed, unreadAtReset,
                   written, written_err, pipes, listenerVars>>

ListenerStarts ==
    /\ xpc = "listen"
    /\ xpc' = "check"
    /\ lpc' = "top"
    /\ UNCHANGED <<n_checked, python_is_active, waitpid_return, killed, unreadAtReset,
                   childVars, pipes, active2, revents, accum>>

(* pthread_create fails: a message is printed and the call goes on. *)
ListenerFails ==
    /\ xpc = "listen"
    /\ xpc' = "check"
    /\ UNCHANGED <<n_checked, python_is_active, waitpid_return, killed, unreadAtReset,
                   childVars, pipes, listenerVars>>

(* waitpid(WNOHANG) finds the child running: sleep, count, test. *)
WaitpidNone ==
    /\ xpc = "check"
    /\ ~Ended
    /\ xpc' = "sleep"
    /\ UNCHANGED <<n_checked, python_is_active, waitpid_return, killed, unreadAtReset,
                   childVars, pipes, listenerVars>>

Wake ==
    /\ xpc = "sleep"
    /\ n_checked' = n_checked + 1
    /\ xpc' = IF LoopGoesOn(n_checked + 1) THEN "check" ELSE "reset"
    /\ UNCHANGED <<python_is_active, waitpid_return, killed, unreadAtReset,
                   childVars, pipes, listenerVars>>

WaitpidReaps ==
    /\ xpc = "check"
    /\ Ended
    /\ waitpid_return' = "child"
    /\ n_checked' = n_checked + 1
    /\ xpc' = "reset"
    /\ UNCHANGED <<python_is_active, killed, unreadAtReset,
                   childVars, pipes, listenerVars>>

(* Where SIGCHLD is ignored no zombie waits for waitpid: it returns -1, the *)
(* loop ends, and the status is still the zero it began with.               *)
WaitpidFails ==
    /\ xpc = "check"
    /\ Ended
    /\ waitpid_return' = "error"
    /\ n_checked' = n_checked + 1
    /\ xpc' = "reset"
    /\ UNCHANGED <<python_is_active, killed, unreadAtReset,
                   childVars, pipes, listenerVars>>

Reset ==
    /\ xpc = "reset"
    /\ python_is_active' = FlagAfterLoop
    /\ unreadAtReset' = unread_out
    /\ xpc' = IF NeedsKill THEN "kill" ELSE "join"
    /\ UNCHANGED <<n_checked, waitpid_return, killed, childVars, pipes, listenerVars>>

(* A child that ignores the signal, or has ended, is as it was; one that    *)
(* does not dies by ChildEnds.                                               *)
Kill ==
    /\ xpc = "kill"
    /\ killed' = TRUE
    /\ xpc' = "join"
    /\ UNCHANGED <<n_checked, python_is_active, waitpid_return, unreadAtReset,
                   childVars, pipes, listenerVars>>

Join ==
    /\ xpc = "join"
    /\ lpc # "none"
    /\ ListenerJoinable
    /\ xpc' = "returned"
    /\ UNCHANGED <<n_checked, python_is_active, waitpid_return, killed, unreadAtReset,
                   childVars, pipes, listenerVars>>

(* pthread_join on the pthread_t that pthread_create left uninitialised. *)
JoinNothing ==
    /\ xpc = "join"
    /\ lpc = "none"
    /\ xpc' \in {"returned", "crashed"}
    /\ UNCHANGED <<n_checked, python_is_active, waitpid_return, killed, unreadAtReset,
                   childVars, pipes, listenerVars>>

(* pthread_cancel by assign_includes acts at a close behind the fork, at    *)
(* waitpid, usleep and pthread_join, or at the write of a printf (the first *)
(* that of a failed fork) and unwinds the frame of execute: nobody stops    *)
(* the listener, nobody kills the child.                                    *)
Cancel ==
    /\ xpc \in {"start", "listen", "check", "sleep", "reset", "kill", "join"}
    /\ xpc' = "cancelled"
    /\ UNCHANGED <<n_checked, python_is_active, waitpid_return, killed, unreadAtReset,
                   childVars, pipes, listenerVars>>

-----------------------------------------------------------------------------
(* The child process. *)

ExecOk ==
    /\ child = "exec"
    /\ child' = "running"
    /\ UNCHANGED <<callerVars, written, written_err, pipes, listenerVars>>

(* execvp fails: the message goes into the stdout pipe and the child       *)
(* leaves with exit(7).                                                    *)
ExecFails ==
    /\ child = "exec"
    /\ child' = "exited"
    /\ written' = written + 1
    /\ unread_out' = unread_out + 1
    /\ UNCHANGED <<callerVars, written_err, unread_err, listenerVars>>

(* A full pipe blocks the writer. *)
WriteOut ==
    /\ child = "running"
    /\ written < MaxOutput
    /\ unread_out < PipeCap
    /\ written' = written + 1
    /\ unread_out' = unread_out + 1
    /\ UNCHANGED <<callerVars, child, written_err, unread_err, listenerVars>>

WriteErr ==
    /\ child = "running"
    /\ written_err < MaxError
    /\ unread_err < PipeCap
    /\ written_err' = written_err + 1
    /\ unread_err' = unread_err + 1
    /\ UNCHANGED <<callerVars, child, written, unread_out, listenerVars>>

(* The interpreter exits, with any code, or a signal ends it. *)
ChildEnds(how) ==
    /\ child = "running"
    /\ child' = how
    /\ UNCHANGED <<callerVars, written, written_err, pipes, listenerVars>>

-----------------------------------------------------------------------------
(* The listener thread, python_listener. *)

FrameGone == xpc \in {"returned", "threw", "cancelled"}

(* Its arguments lie in execute's frame.  Once that is gone the flag, the  *)
(* descriptors and the string are anything: a read takes from either pipe  *)
(* or from elsewhere, and what it took is not in accum.                    *)
Descriptors(pipe) == IF FrameGone THEN {"out", "err", "other"} ELSE {pipe}

ReadFrom(d) ==
    /\ unread_out' = IF d = "out" THEN unread_out - ReadSize(unread_out) ELSE unread_out
    /\ unread_err' = IF d = "err" THEN ErrLeft(unread_err) ELSE unread_err

LTop ==
    /\ lpc = "top"
    /\ lpc' = "poll"
    /\ active2' \in IF FrameGone THEN BOOLEAN ELSE {python_is_active}
    /\ UNCHANGED <<callerVars, childVars, pipes, revents, accum>>

(* poll returns at once on data and after its timeout without; only data   *)
(* sets POLLIN.                                                            *)
Readable == {p \in {"out", "err"} :
                (p = "out" /\ unread_out > 0) \/ (p = "err" /\ unread_err > 0)}
LPoll ==
    /\ lpc = "poll"
    /\ lpc' = "out"
    /\ revents' \in IF FrameGone THEN SUBSET {"out", "err"} ELSE {Readable}
    /\ UNCHANGED <<callerVars, childVars, pipes, active2, accum>>

LOut ==
    /\ lpc = "out"
    /\ lpc' = "err"
    /\ IF "out" \in revents THEN \E d \in Descriptors("out") : ReadFrom(d)
                            ELSE UNCHANGED pipes
    /\ accum' = IF "out" \in revents /\ ~FrameGone
                THEN accum + ReadSize(unread_out) ELSE accum
    /\ UNCHANGED <<callerVars, childVars, active2, revents>>

LErr ==
    /\ lpc = "err"
    /\ lpc' = IF Continues THEN "top" ELSE "exited"
    /\ IF "err" \in revents THEN \E d \in Descriptors("err") : ReadFrom(d)
                            ELSE UNCHANGED pipes
    /\ UNCHANGED <<callerVars, childVars, active2, revents, accum>>

(* With a dead frame poll may have no timeout, and a read may be of a       *)
(* descriptor that never has data.                                          *)
LBlocks ==
    /\ FrameGone
    /\ lpc \in revents \cup {"poll"}
    /\ lpc' = "blocked"
    /\ UNCHANGED <<callerVars, childVars, pipes, active2, revents, accum>>

(* And each use of a pointer out of it may end the process.                 *)
LCrashes ==
    /\ FrameGone
    /\ lpc \in {"top", "poll", "out", "err"}
    /\ lpc' = "exited"
    /\ xpc' = "crashed"
    /\ UNCHANGED <<n_checked, python_is_active, waitpid_return, killed, unreadAtReset,
                   childVars, pipes, active2, revents, accum>>

-----------------------------------------------------------------------------
CallerStep ==
    \/ ForkFails \/ Fork \/ ListenerStarts \/ ListenerFails
    \/ WaitpidNone \/ Wake \/ WaitpidReaps \/ WaitpidFails
    \/ Reset \/ Kill \/ Join \/ JoinNothing

ChildStep ==
    \/ ExecOk \/ ExecFails \/ WriteOut \/ WriteErr
    \/ \E how \in {"exited", "signaled"} : ChildEnds(how)

ListenerStep == LTop \/ LPoll \/ LOut \/ LErr \/ LBlocks \/ LCrashes

Next == CallerStep \/ Cancel \/ ChildStep \/ ListenerStep

Spec == Init /\ [][Next]_vars

(* Both threads of the process are scheduled.  Nothing is assumed of the    *)
(* child: it may hang, and it may ignore the signal.                        *)
Fairness == WF_vars(CallerStep) /\ WF_vars(ListenerStep)

FairSpec == Spec /\ Fairness

-----------------------------------------------------------------------------
(* Properties. *)

ListenerAlive == lpc \notin {"none", "exited"}

(* The listener uses the flag and the string in the frame of execute: that  *)
(* frame is left under it only by a cancellation of the calling thread.     *)
DeadFrameNeedsCancel == ListenerAlive /\ FrameGone => xpc = "cancelled"

(* What the listener's one read after the flag was reset can lose: if the   *)
(* child was seen to end and its stdout held no more than one buffer then,  *)
(* all of its output is returned; of n more bytes, n at most are lost.      *)
LossBound ==
    xpc = "returned" /\ waitpid_return # "zero" /\ lpc = "exited" =>
        /\ accum + unread_out = written
        /\ unread_out = 0 \/ unread_out + BufSize <= unreadAtReset

(* When execute returns, a child it has forked was either sent the signal,  *)
(* and then it was seen to die by a signal or all n_polls checks had found  *)
(* it running, or was left alone, and then it has ended: it was seen to     *)
(* exit, or waitpid failed because there was no child any more.             *)
ChildAccounted ==
    xpc = "returned" =>
        IF killed
        THEN \/ reaped /\ child = "signaled"
             \/ waitpid_return = "zero" /\ n_checked = n_polls
        ELSE \/ reaped /\ child = "exited"
             \/ waitpid_return = "error" /\ Ended

(* execute ends in bounded time, whatever the child does.                   *)
ExecuteReturns == <>(xpc \in {"returned", "threw", "cancelled", "crashed"})

(* What is left to do for execute, the weightiest first: the parts of the   *)
(* function, the checks, the sleep between two of them, and, once the loop  *)
(* is over, the steps of a listener that finds the flag reset.              *)
PartsLeft ==
    CASE xpc = "start"              -> 6
      [] xpc = "listen"             -> 5
      [] xpc \in {"check", "sleep"} -> 4
      [] xpc = "reset"              -> 3
      [] xpc = "kill"               -> 2
      [] xpc = "join"               -> 1
      [] OTHER                      -> 0
LoopOver == xpc \in {"kill", "join"}
ListenerLeft ==
    CASE lpc = "top"  -> 4
      [] lpc = "poll" -> IF active2 THEN 7 ELSE 3
      [] lpc = "out"  -> IF active2 THEN 6 ELSE 2
      [] lpc = "err"  -> IF active2 THEN 5 ELSE 1
      [] OTHER        -> 0
Left ==
    <<PartsLeft, n_polls - n_checked, IF xpc = "check" THEN 1 ELSE 0,
      IF LoopOver THEN ListenerLeft ELSE 0>>

(* The order of a dictionary. *)
Precedes(a, b) ==
    \E k \in DOMAIN b : a[k] < b[k] /\ \A m \in 1..(k - 1) : a[m] = b[m]

(* Each step of the caller leaves less of execute to do, and so does each   *)
(* of the listener when the loop is over: the join waits for seven steps at *)
(* most.  Nothing the child or the listener does leaves more.               *)
ExecuteAdvances ==
    [][\/ Precedes(Left', Left)
       \/ Left' = Left /\ ~CallerStep /\ ~(LoopOver /\ ListenerStep)]_vars

(* A child that blocks on a full stderr pipe is set going again by a        *)
(* listener that is not in its last turn, also when it is told to stop in   *)
(* the meantime: only a cancellation can come in between.                   *)
StderrDrains ==
    (ListenerAlive /\ ~FrameGone /\ active2 /\ unread_err = PipeCap)
        ~> (unread_err < PipeCap \/ xpc = "cancelled")

(* "Python is timed out!": the signal is for a child that was still running *)
(* when all the checks were made.                                           *)
KilledOnlyOnTimeout == killed => waitpid_return = "zero" /\ n_checked = n_polls
=============================================================================
