---------------------------- MODULE BulkPromise ----------------------------
(***************************************************************************)
(* What POST /sim/gateways/bulk promises, whatever happens to its items:   *)
(* each item is decided once, independently of the others, and the answer  *)
(* is given when all are decided and tells the outcome of each.            *)
(***************************************************************************)
EXTENDS Sequences

CONSTANTS Posts,  \* bulk requests
          Lists   \* lists of factory ids a request may work on

VARIABLES outcome,  \* per request: outcome of every item so far
          answer    \* per request: the outcomes told to the client
vars == <<outcome, answer>>

Outcomes == {"pending", "gateway", "error"}

Init ==
  /\ outcome = [b \in Posts |-> <<>>]
  /\ answer = [b \in Posts |-> <<>>]

Accept(b) ==
  /\ outcome[b] = <<>>
  /\ \E list \in Lists : outcome' = [outcome EXCEPT ![b] = [i \in DOMAIN list |-> "pending"]]
  /\ UNCHANGED answer

Decide(b) ==
  /\ \E i \in DOMAIN outcome[b], o \in {"gateway", "error"} :
       /\ outcome[b][i] = "pending"
       /\ outcome' = [outcome EXCEPT ![b][i] = o]
  /\ UNCHANGED answer

Answer(b) ==
  /\ answer[b] = <<>>
  /\ \A i \in DOMAIN outcome[b] : outcome[b][i] # "pending"
  /\ answer' = [answer EXCEPT ![b] = outcome[b]]
  /\ UNCHANGED outcome

Next == \E b \in Posts : Accept(b) \/ Decide(b) \/ Answer(b)

Spec == Init /\ [][Next]_vars
=============================================================================
