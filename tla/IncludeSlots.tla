------------------------------ MODULE IncludeSlots ------------------------------
(***************************************************************************)
(* What a Builder promises about the places of a document that a script's  *)
(* output is to fill, without threads, flags or sweeps: each place is      *)
(* settled once, by the script's result or by giving up, and the tree is   *)
(* handed out only when every place is settled.                            *)
(***************************************************************************)
CONSTANT Slots

VARIABLES phase, slot

Settled == {"filled", "empty", "abandoned"}

Init ==
    /\ phase = "building"
    /\ slot = [s \in Slots |-> "unused"]

Meet(s) ==
    /\ slot[s] = "unused"
    /\ phase = "building"
    /\ slot' = [slot EXCEPT ![s] = "pending"]
    /\ UNCHANGED phase

Settle(s, how) ==
    /\ slot[s] = "pending"
    /\ phase = "building"
    /\ slot' = [slot EXCEPT ![s] = how]
    /\ UNCHANGED phase

(* The tree is complete as far as it ever will be. *)
Publish ==
    /\ phase = "building"
    /\ \A s \in Slots : slot[s] # "pending"
    /\ phase' = "published"
    /\ UNCHANGED slot

(* An exception leaves nobody to settle what is pending. *)
Fail ==
    /\ phase = "building"
    /\ phase' = "failed"
    /\ slot' = [s \in Slots |-> IF slot[s] = "pending" THEN "abandoned" ELSE slot[s]]

Next ==
    \/ \E s \in Slots : Meet(s) \/ \E how \in Settled : Settle(s, how)
    \/ Publish
    \/ Fail

Spec == Init /\ [][Next]_<<phase, slot>>
=============================================================================
