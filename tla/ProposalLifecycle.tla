-------------------------- MODULE ProposalLifecycle --------------------------
(***************************************************************************)
(* What the approval workflow promises of a rule the advisor proposes: it  *)
(* takes effect once, by a reviewer's decision or at once in auto mode; a  *)
(* rejected rule never does; one in effect is withdrawn by the operator,   *)
(* or by the reaper, and then not before it is Ttl old.  (A proposal's age *)
(* is counted up to Ttl.)                                                  *)
(***************************************************************************)
EXTENDS Naturals

CONSTANTS Proposal, Ttl

VARIABLES
  status,  \* status[p]: "new", "pending", "approved", "closed", "expired"
  old      \* old[p]: the time since p was proposed

lifecycleVars == <<status, old>>

Init == status = [p \in Proposal |-> "new"] /\ old = [p \in Proposal |-> 0]

Becomes(p, s) == status' = [status EXCEPT ![p] = s] /\ UNCHANGED old

Propose(p)     == status[p] = "new" /\ Becomes(p, "pending")
AutoApprove(p) == status[p] = "new" /\ Becomes(p, "approved")
Approve(p)     == status[p] = "pending" /\ Becomes(p, "approved")
Reject(p)      == status[p] = "pending" /\ Becomes(p, "closed")
Expire(p)      == status[p] = "approved" /\ old[p] = Ttl /\ Becomes(p, "expired")
Withdraw(p)    == status[p] = "approved" /\ Becomes(p, "closed")

Tick ==
  /\ old' = [p \in Proposal |->
               IF status[p] # "new" /\ old[p] < Ttl THEN old[p] + 1 ELSE old[p]]
  /\ UNCHANGED status

Next ==
  \/ \E p \in Proposal : \/ Propose(p) \/ AutoApprove(p) \/ Approve(p)
                         \/ Reject(p) \/ Expire(p) \/ Withdraw(p)
  \/ Tick

Spec == Init /\ [][Next]_lifecycleVars

=============================================================================
