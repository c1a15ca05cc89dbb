------------------------------ MODULE Delivery ------------------------------
(***************************************************************************)
(* What the dispatcher promises for every authorized outreach, whatever    *)
(* fails on the way: at most one payment link is ever created for it, it   *)
(* is settled at most once, and it is only called complete when its link   *)
(* exists.  A link may appear at any time before that, even after the      *)
(* outreach was given up: a request that timed out can still arrive.       *)
(***************************************************************************)
EXTENDS Integers

CONSTANT Entries
VARIABLES status,   \* entry -> pending, complete or failed_permanently, as committed
          created   \* entry -> payment links Razorpay has created for it

delivery == <<status, created>>

Init ==
  /\ status = [e \in Entries |-> "pending"]
  /\ created = [e \in Entries |-> 0]

CreateLink(e) ==
  /\ created[e] = 0
  /\ created' = [created EXCEPT ![e] = 1]
  /\ UNCHANGED status

(* One dispatcher run commits: it settles some entries.                    *)
Settle(done, given_up) ==
  /\ \A e \in done \union given_up : status[e] = "pending"
  /\ \A e \in done : created[e] = 1
  /\ status' = [e \in Entries |-> CASE e \in done     -> "complete"
                                    [] e \in given_up -> "failed_permanently"
                                    [] OTHER          -> status[e]]
  /\ UNCHANGED created

Next ==
  \/ \E e \in Entries : CreateLink(e)
  \/ \E done, given_up \in SUBSET Entries : Settle(done, given_up)

Spec == Init /\ [][Next]_delivery
=============================================================================
