------------------------------ MODULE JobContract ------------------------------
(***************************************************************************)
(* What the harness promises Tropibot about each job, whatever happens to  *)
(* its process, its disk and the connection: the workflow of a job is      *)
(* started at most once and before any outcome is offered, one outcome is  *)
(* ever offered for it, and the harness lets go of a job only when Tropibot *)
(* no longer waits for it or the operator has settled a disputed outcome.  *)
(*                                                                         *)
(* The abstract side of HarnessWorker: records, saves, control points,     *)
(* heartbeats and the process are gone.                                    *)
(***************************************************************************)
CONSTANTS
    Jobs,
    Outcomes,       \* completion bodies
    NoOutcome

VARIABLES
    status,     \* Tropibot's view of each job
    started,    \* jobs whose workflow was started
    offered,    \* the outcome Tropibot was sent for each job
    accepted,   \* the outcome it recorded
    settled     \* jobs the harness has a record of and is done with

vars == <<status, started, offered, accepted, settled>>

Init ==
    /\ status = [j \in Jobs |-> "queued"]
    /\ started = {}
    /\ offered = [j \in Jobs |-> NoOutcome]
    /\ accepted = [j \in Jobs |-> NoOutcome]
    /\ settled = {}

Change(j, from, to) == status[j] = from /\ status' = [status EXCEPT ![j] = to]

\* One job at a time.
Assign(j) ==
    /\ \A k \in Jobs : status[k] # "claimed"
    /\ Change(j, "queued", "claimed")
    /\ UNCHANGED <<started, offered, accepted, settled>>

\* The claim may have been withdrawn in the meantime, but is not reported on.
Start(j) ==
    /\ status[j] \in {"claimed", "released"}
    /\ j \notin started /\ j \notin settled /\ offered[j] = NoOutcome
    /\ started' = started \cup {j}
    /\ UNCHANGED <<status, offered, accepted, settled>>

Offers(j, o) ==
    /\ offered[j] \in {o, NoOutcome} /\ j \notin settled
    /\ offered' = [offered EXCEPT ![j] = o]

\* An outcome that Tropibot refuses: the claim was withdrawn.
Refuse(j, o) ==
    /\ status[j] = "released"
    /\ Offers(j, o)
    /\ UNCHANGED <<status, started, accepted, settled>>

Complete(j, o) ==
    /\ Change(j, "claimed", "completed")
    /\ Offers(j, o)
    /\ accepted' = [accepted EXCEPT ![j] = o]
    /\ UNCHANGED <<started, settled>>

Withdraw(j) ==
    /\ Change(j, "claimed", "released")
    /\ UNCHANGED <<started, offered, accepted, settled>>

\* Only a dispute about an outcome brings a claim back.
Reinstate(j) ==
    /\ offered[j] # NoOutcome /\ j \notin settled
    /\ Change(j, "released", "claimed")
    /\ UNCHANGED <<started, offered, accepted, settled>>

\* The operator decides a disputed outcome, even if it was reinstated.
Disputed(j) == status[j] = "claimed" /\ offered[j] # NoOutcome

Settle(j) ==
    /\ status[j] \in {"completed", "released"} \/ Disputed(j)
    /\ settled' = settled \cup {j}
    /\ UNCHANGED <<status, started, offered, accepted>>

Next ==
    \E j \in Jobs :
        \/ Assign(j) \/ Start(j) \/ Withdraw(j) \/ Reinstate(j) \/ Settle(j)
        \/ \E o \in Outcomes : Refuse(j, o) \/ Complete(j, o)

Spec == Init /\ [][Next]_vars
================================================================================
