----------------------------- MODULE BulkCreate -----------------------------
(***************************************************************************)
(* POST /sim/gateways/bulk: the handler, BulkCreateGateways with one       *)
(* goroutine per factory id behind a semaphore, the saga each of them      *)
(* runs, and the onboarding at the provisioning service, which accepts a   *)
(* factory id once (adapters/http/gateway_handler.go and                   *)
(* provisioning_client.go, app/registry.go).                               *)
(*                                                                         *)
(* Several requests may be under way and name the same factory ids: a      *)
(* client that lost patience repeats its request.  An item of request b is *)
(* a pair <<b, i>> of the request and a position in its list.              *)
(***************************************************************************)
EXTENDS Integers, Sequences, FiniteSets

CONSTANTS
  Posts,        \* bulk requests
  Factories,    \* factory ids
  Blank,        \* an entry of white space
  RawLists,     \* per request: lists of factory ids its client may post
  Concurrency,  \* bulkCreateConcurrency
  NoItem,       \* no item
  MaxFaults     \* bound: errors of the network, the services and the store

ASSUME BlankAssumption == Blank \notin Factories
ASSUME ConcurrencyAssumption == Concurrency \in Nat \ {0}
ASSUME FaultsAssumption == MaxFaults \in Nat
ASSUME NoItemAssumption == NoItem \notin Posts \X Nat
ASSUME ListsAssumption == \A b \in Posts : RawLists[b] \subseteq Seq(Factories \cup {Blank})

VARIABLES
  call,    \* per request: where its handler is
  ids,     \* per request: the factory ids it works on
  gone,    \* requests whose client went away: their context is cancelled
  step,    \* per request and position: next step of the goroutine
  result,  \* results[idx]: a gateway or nil
  errs,    \* errs[idx]
  answer,  \* per request: the response
  owner,   \* external: per factory id, the item it was provisioned for
  stored,  \* items with a row
  online,  \* items with a running worker
  faults   \* used up of the bound

itemVars == <<step, result, errs>>
vars == <<call, ids, gone, itemVars, answer, owner, stored, online, faults>>

Items   == UNION {{<<b, i>> : i \in DOMAIN ids[b]} : b \in Posts}
Working == {"onboard", "insert", "connect", "sensors", "start", "undo", "release"}
Errors  == {"none", "conflict", "failed"}
NoAnswer == [code |-> 0, gateways |-> <<>>, errors |-> <<>>]

\* The entries of s at the positions in T, in the order of s: the k-th of them is
\* at the position in T that has k positions of T up to it.
Rank(T, i) == Cardinality({j \in T : j <= i})
Entries(s, T) == [k \in 1..Cardinality(T) |-> s[CHOOSE i \in T : Rank(T, i) = k]]

\* sanitizeFactoryIDs, repeated by resolveBulkFactoryIDs: blank entries vanish,
\* repeated ones stay.
Sanitize(raw) == Entries(raw, {i \in DOMAIN raw : raw[i] # Blank})

Init ==
  /\ call = [b \in Posts |-> "idle"]
  /\ ids = [b \in Posts |-> <<>>]
  /\ gone = {}
  /\ step = [b \in Posts |-> <<>>]
  /\ result = [b \in Posts |-> <<>>]
  /\ errs = [b \in Posts |-> <<>>]
  /\ answer = [b \in Posts |-> NoAnswer]
  /\ owner = [f \in Factories |-> NoItem]
  /\ stored = {} /\ online = {}
  /\ faults = 0

-----------------------------------------------------------------------------
(* The handler *)

\* A list without factory ids is a 400.
Post(b, raw) ==
  /\ call[b] = "idle"
  /\ LET list == Sanitize(raw)
         all(x) == [i \in DOMAIN list |-> x]
     IN /\ call' = [call EXCEPT ![b] = IF list = <<>> THEN "refused" ELSE "running"]
        /\ ids' = [ids EXCEPT ![b] = list]
        /\ step' = [step EXCEPT ![b] = all("queued")]
        /\ result' = [result EXCEPT ![b] = all("nil")]
        /\ errs' = [errs EXCEPT ![b] = all("none")]
  /\ UNCHANGED <<gone, answer, owner, stored, online, faults>>

\* The client closes the connection.
ClientLeaves(b) ==
  /\ call[b] = "running"
  /\ b \notin gone
  /\ gone' = gone \cup {b}
  /\ UNCHANGED <<call, ids, itemVars, answer, owner, stored, online, faults>>

Failed(b)   == {i \in DOMAIN ids[b] : errs[b][i] # "none"}
Finished(b) == \A i \in DOMAIN ids[b] : step[b][i] = "finished"

\* GatewayListFromDomain leaves out the items without a gateway.
GatewayList(b) == Entries(ids[b], {i \in DOMAIN ids[b] : result[b][i] = "gateway"})

\* Faulty variant: the errors are listed without the empty ones.
AnswerCompactErrors(b) ==
  /\ call[b] = "running" /\ Finished(b)
  /\ call' = [call EXCEPT ![b] = "answered"]
  /\ answer' = [answer EXCEPT ![b] =
       [code |-> IF Failed(b) # {} THEN 207 ELSE 201,
        gateways |-> GatewayList(b),
        errors |-> Entries(errs[b], Failed(b))]]
  /\ UNCHANGED <<ids, gone, itemVars, owner, stored, online, faults>>

\* wg.Wait has returned: 207 with the error of every position, or 201.
Answer(b) ==
  /\ call[b] = "running" /\ Finished(b)
  /\ call' = [call EXCEPT ![b] = "answered"]
  /\ answer' = [answer EXCEPT ![b] =
       [code |-> IF Failed(b) # {} THEN 207 ELSE 201,
        gateways |-> GatewayList(b), errors |-> errs[b]]]
  /\ UNCHANGED <<ids, gone, itemVars, owner, stored, online, faults>>

-----------------------------------------------------------------------------
(* One goroutine: the semaphore and the saga *)

At(b, i, l)   == i \in DOMAIN step[b] /\ step[b][i] = l
Goto(b, i, l) == step' = [step EXCEPT ![b][i] = l] /\ UNCHANGED <<result, errs>>

\* A call with a cancelled context always fails; any other one may fail, within
\* the bound.
Succeed(b) == b \notin gone /\ UNCHANGED faults

Fault == faults < MaxFaults /\ faults' = faults + 1

Fail(b) ==
  \/ b \in gone /\ UNCHANGED faults
  \/ b \notin gone /\ Fault

\* Faulty variant: the error is not recorded.
ReturnErrorUnrecorded(b, i, e) == Goto(b, i, "release")

\* CreateAndStart returns an error and no gateway.
ReturnError(b, i, e) ==
  /\ errs' = [errs EXCEPT ![b][i] = e]
  /\ step' = [step EXCEPT ![b][i] = "release"]
  /\ UNCHANGED result

\* Goroutines of the request that hold the semaphore.
Holders(b) == {i \in DOMAIN step[b] : step[b][i] \in Working}

\* sem <- struct{}{}
Acquire(b, i) ==
  /\ At(b, i, "queued")
  /\ Cardinality(Holders(b)) < Concurrency
  /\ Goto(b, i, "onboard")
  /\ UNCHANGED <<call, ids, gone, answer, owner, stored, online, faults>>

\* The service provisions the factory id for this item and the answer arrives.
OnboardGranted(b, i) ==
  /\ At(b, i, "onboard")
  /\ owner[ids[b][i]] = NoItem
  /\ Succeed(b)
  /\ owner' = [owner EXCEPT ![ids[b][i]] = <<b, i>>]
  /\ Goto(b, i, "insert")
  /\ UNCHANGED <<call, ids, gone, answer, stored, online>>

\* Faulty variant: the status 409 is taken for a success of an earlier attempt.
OnboardConflictIgnored(b, i) ==
  /\ At(b, i, "onboard")
  /\ owner[ids[b][i]] # NoItem
  /\ Succeed(b)
  /\ Goto(b, i, "insert")
  /\ UNCHANGED <<call, ids, gone, answer, owner, stored, online>>

\* Status 409: provisioned before, for whichever item.
OnboardConflict(b, i) ==
  /\ At(b, i, "onboard")
  /\ owner[ids[b][i]] # NoItem
  /\ Succeed(b)
  /\ ReturnError(b, i, "conflict")
  /\ UNCHANGED <<call, ids, gone, answer, owner, stored, online>>

\* Any other error: refused, not sent, timed out or not decoded.  The service may
\* have provisioned the factory id all the same.
OnboardError(b, i) ==
  /\ At(b, i, "onboard")
  /\ Fail(b)
  /\ \/ UNCHANGED owner
     \/ /\ owner[ids[b][i]] = NoItem
        /\ owner' = [owner EXCEPT ![ids[b][i]] = <<b, i>>]
  /\ ReturnError(b, i, "failed")
  /\ UNCHANGED <<call, ids, gone, answer, stored, online>>

\* store.CreateGateway; the identity is spent when it fails.
CreateGateway(b, i) ==
  /\ At(b, i, "insert")
  /\ \/ Succeed(b) /\ stored' = stored \cup {<<b, i>>} /\ Goto(b, i, "connect")
     \/ Fail(b) /\ UNCHANGED stored /\ ReturnError(b, i, "failed")
  /\ UNCHANGED <<call, ids, gone, answer, owner, online>>

\* Faulty variant: the worker runs before the sensors are listed.
ConnectAndStart(b, i) ==
  /\ At(b, i, "connect")
  /\ \/ online' = online \cup {<<b, i>>} /\ Goto(b, i, "sensors") /\ UNCHANGED faults
     \/ Goto(b, i, "undo") /\ Fault /\ UNCHANGED online
  /\ UNCHANGED <<call, ids, gone, answer, owner, stored>>

\* connector.Connect does not look at the context's cancellation.
Connect(b, i) ==
  /\ At(b, i, "connect")
  /\ \/ Goto(b, i, "sensors") /\ UNCHANGED faults
     \/ Goto(b, i, "undo") /\ Fault
  /\ UNCHANGED <<call, ids, gone, answer, owner, stored, online>>

ListSensors(b, i) ==
  /\ At(b, i, "sensors")
  /\ \/ Succeed(b) /\ Goto(b, i, "start")
     \/ Fail(b) /\ Goto(b, i, "undo")
  /\ UNCHANGED <<call, ids, gone, answer, owner, stored, online>>

\* startWorker, whose failing UpdateStatus is only logged.
StartWorker(b, i) ==
  /\ At(b, i, "start")
  /\ online' = online \cup {<<b, i>>}
  /\ result' = [result EXCEPT ![b][i] = "gateway"]
  /\ step' = [step EXCEPT ![b][i] = "release"]
  /\ UNCHANGED <<call, ids, gone, errs, answer, owner, stored, faults>>

\* compensate, with the request's context: the row may stay.
Compensate(b, i) ==
  /\ At(b, i, "undo")
  /\ \/ Succeed(b) /\ stored' = stored \ {<<b, i>>}
     \/ Fail(b) /\ UNCHANGED stored
  /\ ReturnError(b, i, "failed")
  /\ UNCHANGED <<call, ids, gone, answer, owner, online>>

\* Faulty variant: an item that failed keeps its place in the semaphore.
ReleaseOnSuccess(b, i) ==
  /\ At(b, i, "release")
  /\ result[b][i] = "gateway"
  /\ Goto(b, i, "finished")
  /\ UNCHANGED <<call, ids, gone, answer, owner, stored, online, faults>>

\* The deferred <-sem and wg.Done.
Release(b, i) ==
  /\ At(b, i, "release")
  /\ Goto(b, i, "finished")
  /\ UNCHANGED <<call, ids, gone, answer, owner, stored, online, faults>>

-----------------------------------------------------------------------------
Item(b, i) ==
  \/ Acquire(b, i)
  \/ OnboardGranted(b, i) \/ OnboardConflict(b, i) \/ OnboardError(b, i)
  \/ CreateGateway(b, i) \/ Connect(b, i) \/ ListSensors(b, i)
  \/ StartWorker(b, i) \/ Compensate(b, i) \/ Release(b, i)

Next ==
  \E b \in Posts :
    \/ \E raw \in RawLists[b] : Post(b, raw)
    \/ ClientLeaves(b)
    \/ \E i \in DOMAIN ids[b] : Item(b, i)
    \/ Answer(b)

Spec == Init /\ [][Next]_vars

\* The goroutines are scheduled and their calls end: the HTTP client gives up
\* after 15 s, the store and the connection attempts have limits of their own.
FairSpec ==
  /\ Spec
  /\ \A b \in Posts : WF_vars((\E i \in DOMAIN ids[b] : Item(b, i)) \/ Answer(b))

-----------------------------------------------------------------------------
(* Properties *)

\* Types; the lists of a request have one entry per factory id, and the saga does
\* not leave a worker without a row.
TypeOK ==
  /\ call \in [Posts -> {"idle", "running", "answered", "refused"}]
  /\ ids \in [Posts -> Seq(Factories)]
  /\ gone \subseteq Posts
  /\ \A b \in Posts :
       LET D == DOMAIN ids[b]
       IN /\ step[b] \in [D -> Working \cup {"queued", "finished"}]
          /\ result[b] \in [D -> {"nil", "gateway"}]
          /\ errs[b] \in [D -> Errors]
          /\ answer[b].code \in {0, 201, 207}
  /\ owner \in [Factories -> Items \cup {NoItem}]
  /\ stored \subseteq Items /\ online \subseteq stored
  /\ faults \in 0..MaxFaults

\* A factory id is good for one onboarding.  When it is spent, either the gateway
\* runs, or its item is still at work, or its client was told of an error for
\* this position: no identity is lost behind a success.
NoSilentConsumption ==
  \A f \in Factories : owner[f] # NoItem =>
    LET b == owner[f][1]  i == owner[f][2]
    IN \/ result[b][i] = "gateway" /\ owner[f] \in stored \cap online
       \/ errs[b][i] # "none"
       \/ step[b][i] \in Working \ {"release"}

\* A factory id that is listed twice, or in two requests, becomes one gateway.
OneGatewayPerFactory ==
  \A x, y \in stored : ids[x[1]][x[2]] = ids[y[1]][y[2]] => x = y

\* What the client concludes from its response about position i: an error if one
\* is listed there, else the gateway that is left when the failed items before it
\* are taken out.
Concluded(b, i) ==
  LET a == answer[b]
      k == Cardinality({j \in 1..i : a.errors[j] = "none"})
  IN IF a.errors[i] # "none" THEN "error"
     ELSE IF k \in DOMAIN a.gateways /\ a.gateways[k] = ids[b][i] THEN "gateway"
     ELSE "unknown"

\* The handler and its goroutines implement the promise.  The outcome of an item
\* is what its goroutine has recorded; the answer is what the client can conclude,
\* for the whole list, from gateways without positions and errors with them.
Promise == INSTANCE BulkPromise WITH
  Lists <- {Sanitize(raw) : raw \in UNION {RawLists[b] : b \in Posts}} \ {<<>>},
  outcome <- [b \in Posts |-> [i \in DOMAIN ids[b] |->
                IF result[b][i] = "gateway" THEN "gateway"
                ELSE IF errs[b][i] # "none" THEN "error" ELSE "pending"]],
  answer <- [b \in Posts |-> [i \in DOMAIN answer[b].errors |-> Concluded(b, i)]]

PromiseSpec == Promise!Spec

\* A bulk request is answered: an item that fails frees its place for the next.
BulkReturns == \A b \in Posts : call[b] = "running" ~> call[b] = "answered"
=============================================================================
