-------------------------- MODULE ScriptExecute_proofs --------------------------
(***************************************************************************)
(* Proofs about Script::execute for any buffer, pipe, number of polls and  *)
(* amount of output.                                                       *)
(***************************************************************************)
EXTENDS ScriptExecute, TLAPS

(* How far the call is, and what it knows of the child by then. *)
CallerInv ==
    /\ child = "none" => xpc \in {"start", "threw", "cancelled"}
    /\ xpc \in {"start", "threw"} => child = "none"
    /\ lpc # "none" => xpc \notin {"start", "listen", "threw"} /\ child # "none"
    /\ xpc \in {"start", "listen", "check", "sleep"} =>
          n_checked < n_polls /\ waitpid_return = "zero"
    /\ xpc \in {"start", "listen", "check", "sleep", "reset"} => python_is_active /\ ~killed
    /\ xpc \in {"reset", "kill"} => waitpid_return # "zero" \/ n_checked = n_polls
    /\ waitpid_return # "zero" => Ended
    /\ xpc \in {"kill", "join"} => ~python_is_active
    /\ xpc = "kill" => NeedsKill /\ ~killed
    /\ xpc \in {"join", "returned"} =>
          IF killed
          THEN \/ reaped /\ child = "signaled"
               \/ waitpid_return = "zero" /\ n_checked = n_polls
          ELSE \/ reaped /\ child = "exited"
               \/ waitpid_return = "error" /\ Ended

(* The frame of execute was not unwound under the listener. *)
FrameKept == xpc \notin {"cancelled", "crashed"}

(* Output is in the pipe or collected, as long as it can be. *)
OutputInv ==
    /\ FrameKept => accum + unread_out = written
    /\ accum + unread_out <= written
    /\ child \in {"none", "exec"} => written = 0

(* The listener stops only when told, and stays inside the frame of execute *)
(* unless that is unwound by a cancellation.                                *)
ListenerInv ==
    FrameKept =>
        /\ ListenerAlive => ~FrameGone
        /\ ~active2 => ~python_is_active
        /\ lpc = "exited" => ~active2

(* The last iteration of the listener, after the child was seen to end: it  *)
(* polls, finds what is left readable, and reads one buffer of it.          *)
LastReadInv ==
    FrameKept /\ waitpid_return # "zero" /\ ~python_is_active =>
        /\ unread_out <= unreadAtReset
        /\ ~active2 /\ lpc = "out" => "out" \in revents \/ unread_out = 0
        /\ ~active2 /\ lpc \in {"err", "exited"} =>
              unread_out = 0 \/ unread_out + BufSize <= unreadAtReset

IInv == TypeOK /\ CallerInv /\ OutputInv /\ ListenerInv /\ LastReadInv

LEMMA InvInit == Init => IInv
<1> SUFFICES ASSUME Init PROVE IInv
  OBVIOUS
<1> USE DEF Init
<1>1. TypeOK
  <2>1. 0 \in 0..n_polls /\ 0 \in 0..MaxOutput /\ 0 \in 0..MaxError /\ 0 \in 0..PipeCap
    BY PipeCapAssumption, PollsAssumption, MaxOutputAssumption, MaxErrorAssumption
  <2> QED
    BY <2>1, Zenon DEF TypeOK
<1>2. CallerInv
  BY PollsAssumption DEF CallerInv, Ended, NeedsKill, reaped, WIFEXITED
<1>3. OutputInv
  BY DEF OutputInv
<1>4. ListenerInv
  BY DEF ListenerInv, ListenerAlive, FrameGone, FrameKept
<1>5. LastReadInv
  BY DEF LastReadInv
<1> QED
  BY <1>1, <1>2, <1>3, <1>4, <1>5 DEF IInv

LEMMA InvStep == IInv /\ [Next]_vars => IInv'
<1> SUFFICES ASSUME IInv, [Next]_vars
             PROVE  IInv'
  OBVIOUS
<1> USE BufSizeAssumption, PipeCapAssumption, PollsAssumption, MaxOutputAssumption,
        MaxErrorAssumption
    DEF IInv, TypeOK, CallerInv, OutputInv, ListenerInv, LastReadInv,
        ListenerAlive, FrameGone, FrameKept, Ended, reaped, WIFEXITED, NeedsKill,
        callerVars, childVars, pipes, listenerVars
<1>1. CASE ForkFails
  BY <1>1 DEF ForkFails
<1>2. CASE Fork
  BY <1>2 DEF Fork
<1>3. CASE ListenerStarts
  BY <1>3 DEF ListenerStarts
<1>4. CASE ListenerFails
  BY <1>4 DEF ListenerFails
<1>5. CASE WaitpidNone
  BY <1>5 DEF WaitpidNone
<1>6. CASE Wake
  BY <1>6 DEF Wake, LoopGoesOn
<1>7. CASE WaitpidReaps
  BY <1>7 DEF WaitpidReaps
<1>8. CASE Reset
  <2>1. /\ xpc = "reset" /\ active2 = TRUE /\ lpc # "exited"
        /\ xpc' \in {"kill", "join"} /\ (xpc' = "kill" <=> NeedsKill)
        /\ python_is_active' = FALSE /\ unreadAtReset' = unread_out
        /\ UNCHANGED <<n_checked, waitpid_return, killed, childVars, pipes, listenerVars>>
    BY <1>8 DEF Reset, FlagAfterLoop
  <2>2. TypeOK'
    BY <2>1
  <2>3. CallerInv'
    BY <2>1
  <2>4. OutputInv'
    BY <2>1
  <2>5. ListenerInv' /\ LastReadInv'
    BY <2>1
  <2> QED
    BY <2>2, <2>3, <2>4, <2>5
<1>9. CASE Kill
  BY <1>9 DEF Kill
<1>10. CASE Join
  BY <1>10 DEF Join, ListenerJoinable
<1>11. CASE JoinNothing
  BY <1>11 DEF JoinNothing
<1>12. CASE Cancel
  BY <1>12 DEF Cancel
<1>13. CASE ExecOk
  BY <1>13 DEF ExecOk
<1>14. CASE ExecFails
  BY <1>14 DEF ExecFails
<1>15. CASE WriteOut
  BY <1>15 DEF WriteOut
<1>16. CASE WriteErr
  BY <1>16 DEF WriteErr
<1>17. ASSUME NEW how \in {"exited", "signaled"}, ChildEnds(how)
       PROVE  IInv'
  BY <1>17 DEF ChildEnds
<1>18. CASE LTop
  BY <1>18 DEF LTop
<1>19. CASE LPoll
  BY <1>19 DEF LPoll, Readable
<1>20. CASE LOut
  BY <1>20 DEF LOut, Descriptors, ReadFrom, ReadSize, ErrLeft
<1>21. CASE LErr
  BY <1>21 DEF LErr, Continues, Descriptors, ReadFrom, ReadSize, ErrLeft
<1>22. CASE LBlocks
  BY <1>22 DEF LBlocks
<1>23. CASE LCrashes
  BY <1>23 DEF LCrashes
<1>24. CASE WaitpidFails
  BY <1>24 DEF WaitpidFails
<1>25. CASE UNCHANGED vars
  BY <1>25 DEF vars
<1> QED
  BY <1>1, <1>2, <1>3, <1>4, <1>5, <1>6, <1>7, <1>8, <1>9, <1>10, <1>11, <1>12, <1>13, <1>14, <1>15, <1>16, <1>17, <1>18, <1>19, <1>20, <1>21, <1>22,
     <1>23, <1>24, <1>25
  DEF Next, CallerStep, ChildStep, ListenerStep

THEOREM Invariance == Spec => []IInv
BY InvInit, InvStep, PTL DEF Spec

(* Every variable keeps its type: the pipes and counters their bounds.      *)
THEOREM TypeCorrect == Spec => []TypeOK
<1>1. IInv => TypeOK
  BY DEF IInv
<1> QED
  BY <1>1, Invariance, PTL

(* The final read of the listener loses at most what exceeds one buffer at  *)
(* the moment the flag was reset, for any buffer and pipe size.             *)
THEOREM LossBounded == Spec => []LossBound
<1>1. IInv => LossBound
  <2> SUFFICES ASSUME IInv, xpc = "returned", waitpid_return # "zero", lpc = "exited"
               PROVE  /\ accum + unread_out = written
                      /\ unread_out = 0 \/ unread_out + BufSize <= unreadAtReset
    BY DEF LossBound
  <2> QED
    BY DEF IInv, OutputInv, ListenerInv, LastReadInv, FrameKept
<1> QED
  BY <1>1, Invariance, PTL

(* A returning call has left its child exited or signalled, for cause.      *)
THEOREM ChildrenAccounted == Spec => []ChildAccounted
<1>1. IInv => ChildAccounted
  BY DEF IInv, CallerInv, ChildAccounted
<1> QED
  BY <1>1, Invariance, PTL

(* The frame the listener uses goes before it ends only when the caller is *)
(* cancelled: every other way out of execute joins the listener.           *)
THEOREM FrameSafe == Spec => []DeadFrameNeedsCancel
<1>1. IInv => DeadFrameNeedsCancel
  BY DEF IInv, ListenerInv, FrameKept, FrameGone, DeadFrameNeedsCancel
<1> QED
  BY <1>1, Invariance, PTL

-----------------------------------------------------------------------------
(* The measure of what is left to do. *)

(* A tuple precedes another when it is less at the first place they differ. *)
LessOfFour(a1, a2, a3, a4, b1, b2, b3, b4) ==
    \/ a1 < b1
    \/ a1 = b1 /\ a2 < b2
    \/ a1 = b1 /\ a2 = b2 /\ a3 < b3
    \/ a1 = b1 /\ a2 = b2 /\ a3 = b3 /\ a4 < b4

LEMMA PrecedesFour ==
    ASSUME NEW a1 \in Int, NEW a2 \in Int, NEW a3 \in Int, NEW a4 \in Int,
           NEW b1 \in Int, NEW b2 \in Int, NEW b3 \in Int, NEW b4 \in Int,
           LessOfFour(a1, a2, a3, a4, b1, b2, b3, b4)
    PROVE  Precedes(<<a1, a2, a3, a4>>, <<b1, b2, b3, b4>>)
<1> DEFINE a == <<a1, a2, a3, a4>>
           b == <<b1, b2, b3, b4>>
<1>1. /\ a[1] = a1 /\ a[2] = a2 /\ a[3] = a3 /\ a[4] = a4
      /\ b[1] = b1 /\ b[2] = b2 /\ b[3] = b3 /\ b[4] = b4
      /\ DOMAIN b = 1..4
  OBVIOUS
<1> HIDE DEF a, b
<1>2. /\ \A m \in 1..(1 - 1) : a[m] = b[m]
      /\ \A m \in 1..(2 - 1) : m = 1
      /\ \A m \in 1..(3 - 1) : m = 1 \/ m = 2
      /\ \A m \in 1..(4 - 1) : m = 1 \/ m = 2 \/ m = 3
  OBVIOUS
<1>3. CASE a1 < b1
  <2>1. 1 \in DOMAIN b /\ a[1] < b[1]
    BY <1>1, <1>3
  <2> QED
    BY <1>2, <2>1 DEF Precedes, a, b
<1>4. CASE a1 = b1 /\ a2 < b2
  <2>1. 2 \in DOMAIN b /\ a[2] < b[2] /\ \A m \in 1..(2 - 1) : a[m] = b[m]
    BY <1>1, <1>2, <1>4
  <2> QED
    BY <2>1 DEF Precedes, a, b
<1>5. CASE a1 = b1 /\ a2 = b2 /\ a3 < b3
  <2>1. 3 \in DOMAIN b /\ a[3] < b[3] /\ \A m \in 1..(3 - 1) : a[m] = b[m]
    BY <1>1, <1>2, <1>5
  <2> QED
    BY <2>1 DEF Precedes, a, b
<1>6. CASE a1 = b1 /\ a2 = b2 /\ a3 = b3 /\ a4 < b4
  <2>1. 4 \in DOMAIN b /\ a[4] < b[4] /\ \A m \in 1..(4 - 1) : a[m] = b[m]
    BY <1>1, <1>2, <1>6
  <2> QED
    BY <2>1 DEF Precedes, a, b
<1> QED
  BY <1>3, <1>4, <1>5, <1>6 DEF LessOfFour

(* The measure's other places: the checks to make, whether the caller is    *)
(* about to make one, and what a join would wait for.                       *)
ChecksLeft == n_polls - n_checked
LookLeft   == IF xpc = "check" THEN 1 ELSE 0
WaitLeft   == IF LoopOver THEN ListenerLeft ELSE 0

(* The kinds of progress: a part of execute is done, a check of the child   *)
(* is done, or the listener is a step nearer its end.                       *)
LEMMA Advance ==
    ASSUME TypeOK, TypeOK',
           \/ PartsLeft' < PartsLeft
           \/ PartsLeft' = PartsLeft /\ n_checked' > n_checked
           \/ PartsLeft' = PartsLeft /\ n_checked' = n_checked /\ LookLeft' < LookLeft
           \/ /\ PartsLeft' = PartsLeft /\ n_checked' = n_checked
              /\ LookLeft' = LookLeft /\ WaitLeft' < WaitLeft
    PROVE  Precedes(Left', Left)
<1>1. n_checked \in Int /\ n_checked' \in Int /\ n_polls \in Int
  BY PollsAssumption DEF TypeOK
<1>2. Left = <<PartsLeft, ChecksLeft, LookLeft, WaitLeft>>
  BY DEF Left, ChecksLeft, LookLeft, WaitLeft
<1>3. Left' = <<PartsLeft', ChecksLeft', LookLeft', WaitLeft'>>
  BY DEF Left, ChecksLeft, LookLeft, WaitLeft
<1>4. /\ PartsLeft \in Int /\ LookLeft \in Int /\ WaitLeft \in Int
      /\ PartsLeft' \in Int /\ LookLeft' \in Int /\ WaitLeft' \in Int
  BY DEF PartsLeft, LookLeft, WaitLeft, ListenerLeft
<1>5. /\ ChecksLeft \in Int /\ ChecksLeft' \in Int
      /\ n_checked' > n_checked => ChecksLeft' < ChecksLeft
      /\ n_checked' = n_checked => ChecksLeft' = ChecksLeft
  <2>1. ChecksLeft = n_polls - n_checked /\ ChecksLeft' = n_polls - n_checked'
    BY DEF ChecksLeft
  <2>2. \A k, m, n \in Int : m > n => k - m < k - n
    OBVIOUS
  <2>3. \A k, m \in Int : k - m \in Int
    OBVIOUS
  <2> QED
    BY <1>1, <2>1, <2>2, <2>3
<1>6. LessOfFour(PartsLeft', ChecksLeft', LookLeft', WaitLeft',
                 PartsLeft, ChecksLeft, LookLeft, WaitLeft)
  BY <1>5, Zenon DEF LessOfFour
<1>7. Precedes(<<PartsLeft', ChecksLeft', LookLeft', WaitLeft'>>,
               <<PartsLeft, ChecksLeft, LookLeft, WaitLeft>>)
  BY <1>4, <1>5, <1>6, PrecedesFour
<1> QED
  BY <1>2, <1>3, <1>7

(* Every step of the caller brings execute nearer its end, and once the     *)
(* loop is over so does every step of the listener: the flag was reset by   *)
(* then, and the listener can leave its own loop only at the bottom.        *)
LEMMA AdvanceStep ==
    ASSUME IInv, TypeOK', CallerStep \/ (LoopOver /\ ListenerStep)
    PROVE  Precedes(Left', Left)
<1> USE DEF PartsLeft, LookLeft, WaitLeft, LoopOver
<1>t. TypeOK /\ TypeOK' /\ n_checked \in Int
  BY DEF IInv, TypeOK
<1>f. LoopOver => ~python_is_active
  BY DEF IInv, CallerInv
<1>1. CASE ForkFails
  BY <1>1, <1>t, Advance DEF ForkFails
<1>2. CASE Fork
  BY <1>2, <1>t, Advance DEF Fork
<1>3. CASE ListenerStarts
  BY <1>3, <1>t, Advance DEF ListenerStarts
<1>4. CASE ListenerFails
  BY <1>4, <1>t, Advance DEF ListenerFails
<1>5. CASE WaitpidNone
  BY <1>5, <1>t, Advance DEF WaitpidNone
<1>6. CASE Wake
  BY <1>6, <1>t, Advance DEF Wake
<1>7. CASE WaitpidReaps
  BY <1>7, <1>t, Advance DEF WaitpidReaps
<1>8. CASE Reset
  BY <1>8, <1>t, Advance DEF Reset
<1>9. CASE Kill
  BY <1>9, <1>t, Advance DEF Kill
<1>10. CASE Join
  BY <1>10, <1>t, Advance DEF Join
<1>11. CASE JoinNothing
  BY <1>11, <1>t, Advance DEF JoinNothing
<1>13. CASE WaitpidFails
  BY <1>13, <1>t, Advance DEF WaitpidFails
<1>12. CASE LoopOver /\ ListenerStep
  <2>1. /\ n_checked' = n_checked /\ LoopOver /\ LoopOver'
        /\ PartsLeft' = PartsLeft /\ LookLeft' = LookLeft
    BY <1>12 DEF ListenerStep, LTop, LPoll, LOut, LErr, LBlocks, LCrashes, FrameGone, callerVars
  <2>2. ListenerLeft' < ListenerLeft
    <3>1. CASE LTop
      BY <1>12, <1>f, <3>1 DEF LTop, FrameGone, ListenerLeft
    <3>2. CASE LPoll
      BY <3>2, <1>t DEF LPoll, TypeOK, ListenerLeft
    <3>3. CASE LOut
      BY <3>3, <1>t DEF LOut, TypeOK, ListenerLeft
    <3>4. CASE LErr
      BY <3>4, <1>t DEF LErr, Continues, TypeOK, ListenerLeft
    <3>5. CASE LBlocks \/ LCrashes
      BY <1>12, <3>5 DEF LBlocks, LCrashes, FrameGone
    <3> QED
      BY <1>12, <3>1, <3>2, <3>3, <3>4, <3>5 DEF ListenerStep
  <2>3. WaitLeft' < WaitLeft
    BY <2>1, <2>2
  <2> HIDE DEF PartsLeft, LookLeft, WaitLeft, LoopOver
  <2> QED
    BY <1>t, <2>1, <2>3, Advance
<1> QED
  BY <1>1, <1>2, <1>3, <1>4, <1>5, <1>6, <1>7, <1>8, <1>9, <1>10, <1>11, <1>12, <1>13
  DEF CallerStep

(* Nobody else gives the caller more to do. *)
LEMMA OthersKeepLeft ==
    ASSUME TypeOK, TypeOK', Next, ~CallerStep, ~(LoopOver /\ ListenerStep)
    PROVE  Precedes(Left', Left) \/ Left' = Left
<1>1. CASE Cancel
  BY <1>1, Advance DEF Cancel, PartsLeft
<1>2. CASE ChildStep
  <2>1. UNCHANGED <<callerVars, listenerVars>>
    BY <1>2 DEF ChildStep, ExecOk, ExecFails, WriteOut, WriteErr, ChildEnds
  <2> QED
    BY <2>1 DEF callerVars, listenerVars, Left, PartsLeft, LoopOver, ListenerLeft
<1>3. CASE ~LoopOver /\ ListenerStep /\ ~LCrashes
  <2>1. UNCHANGED callerVars
    BY <1>3 DEF ListenerStep, LTop, LPoll, LOut, LErr, LBlocks
  <2> QED
    BY <1>3, <2>1 DEF callerVars, Left, PartsLeft, LoopOver
<1>4. CASE LCrashes
  <2>1. FrameGone /\ xpc' = "crashed" /\ n_checked' = n_checked
    BY <1>4 DEF LCrashes
  <2>2. PartsLeft' = 0 /\ PartsLeft = 0 /\ ~LoopOver /\ ~LoopOver'
    BY <2>1 DEF FrameGone, PartsLeft, LoopOver
  <2> QED
    BY <2>1, <2>2 DEF FrameGone, Left
<1> QED
  BY <1>1, <1>2, <1>3, <1>4 DEF Next

(* execute ends whatever its child does: the caller takes boundedly many    *)
(* steps, and its join waits for seven of the listener's at most.           *)
THEOREM ExecuteTerminates == Spec => ExecuteAdvances
<1>1. IInv /\ IInv' /\ [Next]_vars =>
         [\/ Precedes(Left', Left)
          \/ Left' = Left /\ ~CallerStep /\ ~(LoopOver /\ ListenerStep)]_vars
  BY AdvanceStep, OthersKeepLeft DEF IInv
<1> QED
  BY <1>1, Invariance, PTL DEF Spec, ExecuteAdvances
=============================================================================
