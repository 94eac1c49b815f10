--------------------------- MODULE GatewayCatalog ---------------------------
(***************************************************************************)
(* What the API lets a client see of gateways: each row of the store goes  *)
(* through stages, and one that was taken out of service is not served     *)
(* again by the process that did so.  Requests, the map, worker objects,   *)
(* connections and failures are GatewayRegistry's business.                *)
(***************************************************************************)
CONSTANTS Ids, Gateways, None

VARIABLES stage,   \* per row id, see Stages
          holder   \* per row id: its management id while the row exists
vars == <<stage, holder>>

\* new: never inserted; stored: a row that the process has still to serve;
\* served: its worker answers requests; retired: the process will not serve it
\* any more, although the row exists; removed: the row is gone.
Stages == {"new", "stored", "served", "retired", "removed"}

Init ==
  /\ stage = [id \in Ids |-> "new"]
  /\ holder = [id \in Ids |-> None]

\* A row is inserted with a fresh id, for a management id no other row has.
Store(id, g) ==
  /\ stage[id] = "new"
  /\ \A other \in Ids : holder[other] # g
  /\ stage' = [stage EXCEPT ![id] = "stored"]
  /\ holder' = [holder EXCEPT ![id] = g]

Serve(id) ==
  /\ stage[id] = "stored"
  /\ stage' = [stage EXCEPT ![id] = "served"]
  /\ UNCHANGED holder

Retire(id) ==
  /\ stage[id] = "served"
  /\ stage' = [stage EXCEPT ![id] = "retired"]
  /\ UNCHANGED holder

\* An error keeps rows from being served.
GiveUp(S) ==
  /\ \A id \in S : stage[id] = "stored"
  /\ stage' = [id \in Ids |-> IF id \in S THEN "retired" ELSE stage[id]]
  /\ UNCHANGED holder

Remove(id) ==
  /\ stage[id] \in {"stored", "retired"}
  /\ stage' = [stage EXCEPT ![id] = "removed"]
  /\ holder' = [holder EXCEPT ![id] = None]

\* The process ends; the rows are what is left.
Restart ==
  /\ stage' = [id \in Ids |-> IF stage[id] \in {"served", "retired"} THEN "stored"
                              ELSE stage[id]]
  /\ UNCHANGED holder

Next ==
  \/ \E id \in Ids : Serve(id) \/ Retire(id) \/ Remove(id)
  \/ \E id \in Ids, g \in Gateways : Store(id, g)
  \/ \E S \in SUBSET Ids : GiveUp(S)
  \/ Restart

Spec == Init /\ [][Next]_vars
=============================================================================
