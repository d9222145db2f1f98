----------------------------- MODULE VideoPromise -----------------------------
(***************************************************************************)
(* What the video gateway promises about a job, whatever happens to its    *)
(* processes: it is sent to the provider at most once and never before its *)
(* cost was reserved, how it ended is final until the record is pruned,    *)
(* and it is completed only when it was sent and its cost is settled.  A   *)
(* charge moves forward only: a settled cost is never released, an actual  *)
(* cost never replaced by another amount.                                  *)
(*                                                                         *)
(* It does not promise that the reservation still stands when the job is   *)
(* sent, nor that a job nobody wants any more is not sent: a worker that   *)
(* has admitted the job sends it although a Cancel that read it as queued  *)
(* has ended it and released its cost, and so does the recovery of a job   *)
(* whose client left in Create's Enqueue and whose record stayed queued.   *)
(***************************************************************************)
EXTENDS Naturals

CONSTANTS
    Jobs,
    Actuals       \* costs a provider may report

VARIABLES
    status,       \* job -> "none", "open" or how it ended
    sent,         \* job -> how often the provider accepted it
    charge        \* job -> the state of its cost, and the actual one

vars == <<status, sent, charge>>

Ends == {"completed", "cancelled", "forced"}
Is(j, state) == charge[j].state = state
Paid(j) == Is(j, "estimate") \/ Is(j, "actual")

Init ==
    /\ status = [j \in Jobs |-> "none"]
    /\ sent = [j \in Jobs |-> 0]
    /\ charge = [j \in Jobs |-> [state |-> "absent", actual |-> 0]]

Hold(j) ==
    /\ status[j] = "none" /\ Is(j, "absent")
    /\ charge' = [charge EXCEPT ![j].state = "reserved"]
    /\ UNCHANGED <<status, sent>>

Accept(j) ==
    /\ status[j] = "none" /\ Is(j, "reserved")
    /\ status' = [status EXCEPT ![j] = "open"]
    /\ UNCHANGED <<sent, charge>>

DryRun(j) ==
    /\ status[j] = "none" /\ Is(j, "absent")
    /\ status' = [status EXCEPT ![j] = "dry"]
    /\ UNCHANGED <<sent, charge>>

Send(j) ==
    /\ sent[j] = 0 /\ ~Is(j, "absent")
    /\ sent' = [sent EXCEPT ![j] = 1]
    /\ UNCHANGED <<status, charge>>

Bill(j) ==
    /\ \/ /\ Is(j, "reserved")
          /\ charge' = [charge EXCEPT ![j].state = "released"]
       \/ /\ Is(j, "reserved") \/ Is(j, "released")
          /\ charge' = [charge EXCEPT ![j].state = "estimate"]
       \/ /\ Is(j, "reserved") \/ Is(j, "released") \/ Is(j, "estimate")
          /\ \E a \in Actuals : charge' = [charge EXCEPT ![j] = [state |-> "actual", actual |-> a]]
    /\ UNCHANGED <<status, sent>>

End(j) ==
    /\ status[j] = "open"
    /\ \E s \in Ends :
         /\ s = "completed" => sent[j] = 1 /\ Paid(j)
         /\ status' = [status EXCEPT ![j] = s]
    /\ UNCHANGED <<sent, charge>>

Forget(j) ==
    /\ status[j] \in Ends \cup {"dry"}
    /\ status' = [status EXCEPT ![j] = "none"]
    /\ UNCHANGED <<sent, charge>>

Next == \E j \in Jobs : Hold(j) \/ Accept(j) \/ DryRun(j) \/ Send(j) \/ Bill(j) \/ End(j) \/ Forget(j)

Spec == Init /\ [][Next]_vars
==============================================================================
