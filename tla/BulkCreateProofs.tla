-------------------------- MODULE BulkCreateProofs --------------------------
(***************************************************************************)
(* Theorems about BulkCreate for every number of requests, every lists,    *)
(* every width of the semaphore and every number of errors.                *)
(*                                                                         *)
(* The invariant follows one item through its saga: from the moment the    *)
(* service provisions the factory id for it, the item owns it, and it ends *)
(* with a gateway or with an error, never with both or with neither.       *)
(***************************************************************************)
EXTENDS BulkCreate, FiniteSetTheorems, TLAPS

\* A request has nothing before it is posted and no answer before it is answered.
Fresh ==
  \A b \in Posts : /\ call[b] = "idle" => ids[b] = <<>>
                   /\ call[b] # "answered" => answer[b] = NoAnswer
                   /\ call[b] = "refused" => ids[b] = <<>>

Domains == /\ DOMAIN step = Posts /\ DOMAIN result = Posts
           /\ DOMAIN errs = Posts /\ DOMAIN answer = Posts

TypeInv == TypeOK /\ Fresh /\ Domains

\* Between the onboarding and the end of the saga, with the row and without.
WithRow == {"connect", "sensors", "start", "undo"}
Owning  == WithRow \cup {"insert"}
Decided == {"release", "finished"}

ItemInv(b, i) ==
  /\ step[b][i] \in Owning => owner[ids[b][i]] = <<b, i>>
  /\ step[b][i] \in WithRow => <<b, i>> \in stored
  /\ step[b][i] \in {"queued", "onboard"} => \A f \in Factories : owner[f] # <<b, i>>
  /\ step[b][i] \in Decided <=> errs[b][i] # "none" \/ result[b][i] = "gateway"
  /\ errs[b][i] = "none" \/ result[b][i] # "gateway"
  /\ result[b][i] = "gateway" <=> <<b, i>> \in online
  /\ <<b, i>> \in stored => owner[ids[b][i]] = <<b, i>>

SagaInv == \A b \in Posts : \A i \in DOMAIN ids[b] : ItemInv(b, i)

\* An answer is given when all items are decided, and has an error per position.
AnswerInv ==
  \A b \in Posts : call[b] = "answered" =>
    Finished(b) /\ answer[b].errors = errs[b] /\ answer[b].gateways = GatewayList(b)

-----------------------------------------------------------------------------
(* Positions and ranks *)

\* In a set of positions, ranks are numbered from 1 and each belongs to one
\* position.
LEMMA RankFacts ==
  ASSUME NEW n \in Nat, NEW T \in SUBSET (1..n)
  PROVE  /\ IsFiniteSet(T) /\ Cardinality(T) \in Nat
         /\ \A i \in T : Rank(T, i) \in 1..Cardinality(T)
         /\ \A i, j \in T : Rank(T, i) = Rank(T, j) => i = j
         /\ \A k \in 1..Cardinality(T) : \E i \in T : Rank(T, i) = k
  <1>1. IsFiniteSet(T) /\ Cardinality(T) \in Nat
    <2>1. IsFiniteSet(1..n)
      BY FS_Interval
    <2>2. IsFiniteSet(T)
      BY <2>1, FS_Subset
    <2> QED BY <2>2, FS_CardinalityType
  <1> DEFINE Upto(i) == {j \in T : j <= i}
  <1>2. \A i : IsFiniteSet(Upto(i)) /\ Cardinality(Upto(i)) \in Nat
               /\ Cardinality(Upto(i)) <= Cardinality(T)
    BY <1>1, FS_Subset, FS_CardinalityType
  <1>3. \A i \in T : Rank(T, i) \in 1..Cardinality(T)
    <2> SUFFICES ASSUME NEW i \in T PROVE Rank(T, i) \in 1..Cardinality(T)
      OBVIOUS
    <2>1. i \in Upto(i)
      OBVIOUS
    <2>2. Cardinality(Upto(i)) # 0
      BY <1>2, <2>1, FS_EmptySet
    <2> QED BY <1>1, <1>2, <2>2 DEF Rank
  <1>4. ASSUME NEW i \in T, NEW j \in T, i < j
        PROVE  Rank(T, i) # Rank(T, j)
    <2>1. \A m \in T : m \in Int /\ (m <= i => m <= j)
      BY <1>4
    <2>2. j <= j /\ ~(j <= i)
      BY <1>4
    <2>3. Upto(i) \in SUBSET Upto(j) /\ j \in Upto(j) /\ j \notin Upto(i)
      BY <2>1, <2>2
    <2>4. Upto(i) # Upto(j)
      BY <2>3
    <2>5. Cardinality(Upto(i)) # Cardinality(Upto(j))
      BY <1>2, <2>3, <2>4, FS_Subset
    <2> QED BY <2>5 DEF Rank
  <1>5. \A i, j \in T : Rank(T, i) = Rank(T, j) => i = j
    <2> SUFFICES ASSUME NEW i \in T, NEW j \in T, i # j PROVE Rank(T, i) # Rank(T, j)
      OBVIOUS
    <2>1. i < j \/ j < i
      OBVIOUS
    <2> QED BY <1>4, <2>1
  <1>6. \A k \in 1..Cardinality(T) : \E i \in T : Rank(T, i) = k
    <2> DEFINE rank == [i \in T |-> Rank(T, i)]
               K == 1..Cardinality(T)
    <2>1. rank \in Injection(T, K)
      BY <1>3, <1>5 DEF Injection, IsInjective
    <2>2. Cardinality(K) = Cardinality(T) /\ IsFiniteSet(K)
      BY <1>1, FS_Interval
    <2>3. rank \in Surjection(T, K)
      BY <1>1, <2>1, <2>2, FS_Injection
    <2> QED BY <2>3 DEF Surjection
  <1> QED BY <1>1, <1>3, <1>5, <1>6

\* The entries at chosen positions: each in its place, and nothing else.
LEMMA EntriesFacts ==
  ASSUME NEW S, NEW s \in Seq(S), NEW T \in SUBSET (DOMAIN s)
  PROVE  /\ DOMAIN Entries(s, T) = 1..Cardinality(T) /\ Cardinality(T) \in Nat
         /\ \A i \in T : /\ Rank(T, i) \in 1..Cardinality(T)
                         /\ Entries(s, T)[Rank(T, i)] = s[i]
         /\ \A k \in 1..Cardinality(T) : \E i \in T : Entries(s, T)[k] = s[i]
         /\ \A R : (\A i \in T : s[i] \in R) => Entries(s, T) \in Seq(R)
         /\ T = {} <=> Entries(s, T) = <<>>
  <1> DEFINE P(k) == CHOOSE i \in T : Rank(T, i) = k
  <1>1. Len(s) \in Nat /\ DOMAIN s = 1..Len(s)
    OBVIOUS
  <1>2. /\ IsFiniteSet(T) /\ Cardinality(T) \in Nat
        /\ \A i \in T : Rank(T, i) \in 1..Cardinality(T)
        /\ \A i, j \in T : Rank(T, i) = Rank(T, j) => i = j
        /\ \A k \in 1..Cardinality(T) : \E i \in T : Rank(T, i) = k
    BY <1>1, RankFacts
  <1>3. \A k \in 1..Cardinality(T) : P(k) \in T /\ Rank(T, P(k)) = k
    BY <1>2
  <1>4. \A i \in T : P(Rank(T, i)) = i
    BY <1>2, <1>3
  <1>5. DOMAIN Entries(s, T) = 1..Cardinality(T)
        /\ \A k \in 1..Cardinality(T) : Entries(s, T)[k] = s[P(k)]
    BY DEF Entries
  <1>6. \A R : (\A i \in T : s[i] \in R) => Entries(s, T) \in Seq(R)
    <2> SUFFICES ASSUME NEW R, \A i \in T : s[i] \in R PROVE Entries(s, T) \in Seq(R)
      OBVIOUS
    <2>1. Entries(s, T) \in [1..Cardinality(T) -> R]
      BY <1>3 DEF Entries
    <2> QED BY <2>1, <1>2
  <1>7. T = {} <=> Entries(s, T) = <<>>
    <2>1. Entries(s, T) \in Seq(S)
      BY <1>6
    <2>2. Len(Entries(s, T)) = Cardinality(T)
      BY <1>2, <1>5, <2>1
    <2> QED BY <1>2, <2>1, <2>2, FS_EmptySet
  <1> QED BY <1>2, <1>3, <1>4, <1>5, <1>6, <1>7

\* Sanitizing gives a list of factory ids.
LEMMA SanitizeFacts ==
  ASSUME NEW b \in Posts, NEW raw \in RawLists[b]
  PROVE  Sanitize(raw) \in Seq(Factories)
  <1>1. raw \in Seq(Factories \cup {Blank})
    BY ListsAssumption
  <1> DEFINE T == {i \in DOMAIN raw : raw[i] # Blank}
  <1>2. T \in SUBSET (DOMAIN raw) /\ \A i \in T : raw[i] \in Factories
    BY <1>1
  <1>3. Entries(raw, T) \in Seq(Factories)
    BY <1>1, <1>2, EntriesFacts
  <1> QED BY <1>3 DEF Sanitize

\* The items are the positions of the requests' lists.
LEMMA ItemFacts ==
  ASSUME TypeInv
  PROVE  /\ \A b \in Posts : \A i \in DOMAIN ids[b] :
              <<b, i>> \in Items /\ <<b, i>> # NoItem /\ ids[b][i] \in Factories
         /\ \A x \in Items : \E b \in Posts : \E i \in DOMAIN ids[b] : x = <<b, i>>
  <1>1. \A b \in Posts : ids[b] \in Seq(Factories)
    BY DEF TypeInv, TypeOK
  <1>2. \A b \in Posts : \A i \in DOMAIN ids[b] : i \in Nat /\ ids[b][i] \in Factories
    BY <1>1
  <1>3. \A b \in Posts : \A i \in DOMAIN ids[b] : <<b, i>> # NoItem
    BY <1>2, NoItemAssumption
  <1> QED BY <1>2, <1>3 DEF Items

-----------------------------------------------------------------------------
(* The steps of a goroutine, seen from its item *)

\* One entry of one request is updated.
LEMMA UpdateFacts ==
  ASSUME NEW F, DOMAIN F = Posts, NEW b \in Posts, NEW i \in DOMAIN F[b], NEW l,
         NEW G, G = [F EXCEPT ![b][i] = l]
  PROVE  /\ DOMAIN G = Posts
         /\ \A c \in Posts : c # b => G[c] = F[c]
         /\ G[b][i] = l
         /\ \A j \in DOMAIN F[b] : j # i => G[b][j] = F[b][j]
         /\ \A D, V : F[b] \in [D -> V] /\ l \in V => G[b] \in [D -> V]
  OBVIOUS

Moved(b, i, l, r, e) == step'[b][i] = l /\ result'[b][i] = r /\ errs'[b][i] = e

\* Where the step leads from each state of the item, and what it does outside.
Moves(b, i) ==
  LET to(l) == Moved(b, i, l, result[b][i], errs[b][i])
      erring == \E e \in Errors \ {"none"} : Moved(b, i, "release", result[b][i], e)
      own == owner[ids[b][i]] = NoItem /\ owner' = [owner EXCEPT ![ids[b][i]] = <<b, i>>]
  IN \/ step[b][i] = "queued" /\ to("onboard") /\ UNCHANGED <<owner, stored, online>>
     \/ step[b][i] = "onboard" /\ to("insert") /\ own /\ UNCHANGED <<stored, online>>
     \/ /\ step[b][i] = "onboard" /\ erring
        /\ own \/ UNCHANGED owner
        /\ UNCHANGED <<stored, online>>
     \/ /\ step[b][i] = "insert" /\ to("connect") /\ stored' = stored \cup {<<b, i>>}
        /\ UNCHANGED <<owner, online>>
     \/ step[b][i] = "insert" /\ erring /\ UNCHANGED <<owner, stored, online>>
     \/ /\ step[b][i] \in {"connect", "sensors"}
        /\ to("sensors") \/ to("start") \/ to("undo")
        /\ UNCHANGED <<owner, stored, online>>
     \/ /\ step[b][i] = "start" /\ Moved(b, i, "release", "gateway", errs[b][i])
        /\ online' = online \cup {<<b, i>>} /\ UNCHANGED <<owner, stored>>
     \/ /\ step[b][i] = "undo" /\ erring
        /\ stored' = stored \/ stored' = stored \ {<<b, i>>}
        /\ UNCHANGED <<owner, online>>
     \/ step[b][i] = "release" /\ to("finished") /\ UNCHANGED <<owner, stored, online>>

\* Nothing else of the requests changes, and the types are kept.
Locally(b, i) ==
  /\ UNCHANGED <<call, ids, gone, answer>> /\ faults' \in 0..MaxFaults
  /\ Domains'
  /\ \A c \in Posts : c # b =>
       step'[c] = step[c] /\ result'[c] = result[c] /\ errs'[c] = errs[c]
  /\ \A j \in DOMAIN ids[b] : j # i =>
       step'[b][j] = step[b][j] /\ result'[b][j] = result[b][j] /\ errs'[b][j] = errs[b][j]
  /\ step'[b] \in [DOMAIN ids[b] -> Working \cup {"queued", "finished"}]
  /\ result'[b] \in [DOMAIN ids[b] -> {"nil", "gateway"}]
  /\ errs'[b] \in [DOMAIN ids[b] -> Errors]

\* A goroutine that goes on without a result.
LEMMA GotoLocally ==
  ASSUME TypeInv, NEW b \in Posts, NEW i \in DOMAIN ids[b],
         NEW l \in Working \cup {"queued", "finished"}, Goto(b, i, l),
         UNCHANGED <<call, ids, gone, answer>>, faults' \in 0..MaxFaults
  PROVE  Locally(b, i) /\ Moved(b, i, l, result[b][i], errs[b][i])
  <1>1. step' = [step EXCEPT ![b][i] = l] /\ UNCHANGED <<result, errs>>
    BY DEF Goto
  <1>2. /\ step[b] \in [DOMAIN ids[b] -> Working \cup {"queued", "finished"}]
        /\ result[b] \in [DOMAIN ids[b] -> {"nil", "gateway"}]
        /\ errs[b] \in [DOMAIN ids[b] -> Errors]
        /\ Domains
    BY DEF TypeInv, TypeOK
  <1>3. DOMAIN step = Posts /\ i \in DOMAIN step[b] /\ DOMAIN step[b] = DOMAIN ids[b]
    BY <1>2 DEF Domains
  <1>4. /\ DOMAIN step' = Posts
        /\ \A c \in Posts : c # b => step'[c] = step[c]
        /\ step'[b][i] = l
        /\ \A j \in DOMAIN ids[b] : j # i => step'[b][j] = step[b][j]
        /\ step'[b] \in [DOMAIN ids[b] -> Working \cup {"queued", "finished"}]
    BY <1>1, <1>2, <1>3, UpdateFacts
  <1> QED BY <1>1, <1>2, <1>4 DEF Locally, Moved, Domains

\* A goroutine whose saga has failed.
LEMMA ErrorLocally ==
  ASSUME TypeInv, NEW b \in Posts, NEW i \in DOMAIN ids[b],
         NEW e \in Errors \ {"none"}, ReturnError(b, i, e),
         UNCHANGED <<call, ids, gone, answer>>, faults' \in 0..MaxFaults
  PROVE  Locally(b, i) /\ Moved(b, i, "release", result[b][i], e)
  <1>1. /\ step' = [step EXCEPT ![b][i] = "release"] /\ UNCHANGED result
        /\ errs' = [errs EXCEPT ![b][i] = e]
    BY DEF ReturnError
  <1>2. /\ step[b] \in [DOMAIN ids[b] -> Working \cup {"queued", "finished"}]
        /\ result[b] \in [DOMAIN ids[b] -> {"nil", "gateway"}]
        /\ errs[b] \in [DOMAIN ids[b] -> Errors]
        /\ Domains
    BY DEF TypeInv, TypeOK
  <1>3. /\ DOMAIN step = Posts /\ i \in DOMAIN step[b] /\ DOMAIN step[b] = DOMAIN ids[b]
        /\ DOMAIN errs = Posts /\ i \in DOMAIN errs[b] /\ DOMAIN errs[b] = DOMAIN ids[b]
    BY <1>2 DEF Domains
  <1>4. /\ DOMAIN step' = Posts
        /\ \A c \in Posts : c # b => step'[c] = step[c]
        /\ step'[b][i] = "release"
        /\ \A j \in DOMAIN ids[b] : j # i => step'[b][j] = step[b][j]
        /\ step'[b] \in [DOMAIN ids[b] -> Working \cup {"queued", "finished"}]
    <2>1. "release" \in Working \cup {"queued", "finished"}
      BY DEF Working
    <2> QED BY <1>1, <1>2, <1>3, <2>1, UpdateFacts
  <1>5. /\ DOMAIN errs' = Posts
        /\ \A c \in Posts : c # b => errs'[c] = errs[c]
        /\ errs'[b][i] = e
        /\ \A j \in DOMAIN ids[b] : j # i => errs'[b][j] = errs[b][j]
        /\ errs'[b] \in [DOMAIN ids[b] -> Errors]
    BY <1>1, <1>2, <1>3, UpdateFacts
  <1> QED BY <1>1, <1>2, <1>4, <1>5 DEF Locally, Moved, Domains

\* A goroutine whose saga has ended with a running worker.
LEMMA StartLocally ==
  ASSUME TypeInv, NEW b \in Posts, NEW i \in DOMAIN ids[b], StartWorker(b, i)
  PROVE  Locally(b, i) /\ Moved(b, i, "release", "gateway", errs[b][i])
  <1>1. /\ step' = [step EXCEPT ![b][i] = "release"]
        /\ result' = [result EXCEPT ![b][i] = "gateway"]
        /\ UNCHANGED <<call, ids, gone, errs, answer, faults>>
    BY DEF StartWorker
  <1>2. /\ step[b] \in [DOMAIN ids[b] -> Working \cup {"queued", "finished"}]
        /\ result[b] \in [DOMAIN ids[b] -> {"nil", "gateway"}]
        /\ errs[b] \in [DOMAIN ids[b] -> Errors]
        /\ faults \in 0..MaxFaults
        /\ Domains
    BY DEF TypeInv, TypeOK
  <1>3. /\ DOMAIN step = Posts /\ i \in DOMAIN step[b] /\ DOMAIN step[b] = DOMAIN ids[b]
        /\ DOMAIN result = Posts /\ i \in DOMAIN result[b]
        /\ DOMAIN result[b] = DOMAIN ids[b]
    BY <1>2 DEF Domains
  <1>4. /\ DOMAIN step' = Posts
        /\ \A c \in Posts : c # b => step'[c] = step[c]
        /\ step'[b][i] = "release"
        /\ \A j \in DOMAIN ids[b] : j # i => step'[b][j] = step[b][j]
        /\ step'[b] \in [DOMAIN ids[b] -> Working \cup {"queued", "finished"}]
    <2>1. "release" \in Working \cup {"queued", "finished"}
      BY DEF Working
    <2> QED BY <1>1, <1>2, <1>3, <2>1, UpdateFacts
  <1>5. /\ DOMAIN result' = Posts
        /\ \A c \in Posts : c # b => result'[c] = result[c]
        /\ result'[b][i] = "gateway"
        /\ \A j \in DOMAIN ids[b] : j # i => result'[b][j] = result[b][j]
        /\ result'[b] \in [DOMAIN ids[b] -> {"nil", "gateway"}]
    BY <1>1, <1>2, <1>3, UpdateFacts
  <1> QED BY <1>1, <1>2, <1>4, <1>5 DEF Locally, Moved, Domains

\* Every step of a goroutine is one of the moves of its item.
LEMMA ItemStep ==
  ASSUME TypeInv, NEW b \in Posts, NEW i \in DOMAIN ids[b], Item(b, i)
  PROVE  Locally(b, i) /\ Moves(b, i)
  <1>0. faults \in Nat /\ faults <= MaxFaults /\ MaxFaults \in Nat
    BY FaultsAssumption DEF TypeInv, TypeOK
  <1>a. /\ Succeed(b) => faults' \in 0..MaxFaults
        /\ Fail(b) => faults' \in 0..MaxFaults
        /\ Fault => faults' \in 0..MaxFaults
        /\ UNCHANGED faults => faults' \in 0..MaxFaults
    BY <1>0 DEF Succeed, Fail, Fault
  <1>b. \A l \in {"onboard", "insert", "connect", "sensors", "start", "undo", "finished"} :
          /\ Goto(b, i, l) /\ UNCHANGED <<call, ids, gone, answer>> /\ faults' \in 0..MaxFaults
          => Locally(b, i) /\ Moved(b, i, l, result[b][i], errs[b][i])
    <2> TAKE l \in {"onboard", "insert", "connect", "sensors", "start", "undo", "finished"}
    <2>1. l \in Working \cup {"queued", "finished"}
      BY DEF Working
    <2> QED BY <2>1, GotoLocally
  <1>c. \A e \in {"conflict", "failed"} :
          /\ ReturnError(b, i, e) /\ UNCHANGED <<call, ids, gone, answer>>
          /\ faults' \in 0..MaxFaults
          => /\ Locally(b, i)
             /\ \E x \in Errors \ {"none"} : Moved(b, i, "release", result[b][i], x)
    <2> TAKE e \in {"conflict", "failed"}
    <2>1. e \in Errors \ {"none"}
      BY DEF Errors
    <2> QED BY <2>1, ErrorLocally
  <1>1. CASE Acquire(b, i)
    <2>1. /\ step[b][i] = "queued" /\ Goto(b, i, "onboard")
          /\ UNCHANGED <<call, ids, gone, answer, owner, stored, online, faults>>
      BY <1>1 DEF Acquire, At
    <2> QED BY <1>a, <1>b, <2>1 DEF Moves
  <1>2. CASE OnboardGranted(b, i)
    <2>1. /\ step[b][i] = "onboard" /\ Goto(b, i, "insert") /\ Succeed(b)
          /\ owner[ids[b][i]] = NoItem /\ owner' = [owner EXCEPT ![ids[b][i]] = <<b, i>>]
          /\ UNCHANGED <<call, ids, gone, answer, stored, online>>
      BY <1>2 DEF OnboardGranted, At
    <2> QED BY <1>a, <1>b, <2>1 DEF Moves
  <1>3. CASE OnboardConflict(b, i)
    <2>1. /\ step[b][i] = "onboard" /\ ReturnError(b, i, "conflict") /\ Succeed(b)
          /\ UNCHANGED <<call, ids, gone, answer, owner, stored, online>>
      BY <1>3 DEF OnboardConflict, At
    <2> QED BY <1>a, <1>c, <2>1 DEF Moves
  <1>4. CASE OnboardError(b, i)
    <2>1. /\ step[b][i] = "onboard" /\ ReturnError(b, i, "failed") /\ Fail(b)
          /\ \/ UNCHANGED owner
             \/ /\ owner[ids[b][i]] = NoItem
                /\ owner' = [owner EXCEPT ![ids[b][i]] = <<b, i>>]
          /\ UNCHANGED <<call, ids, gone, answer, stored, online>>
      BY <1>4 DEF OnboardError, At
    <2> QED BY <1>a, <1>c, <2>1 DEF Moves
  <1>5. CASE CreateGateway(b, i)
    <2>1. /\ step[b][i] = "insert"
          /\ UNCHANGED <<call, ids, gone, answer, owner, online>>
          /\ \/ Succeed(b) /\ stored' = stored \cup {<<b, i>>} /\ Goto(b, i, "connect")
             \/ Fail(b) /\ UNCHANGED stored /\ ReturnError(b, i, "failed")
      BY <1>5 DEF CreateGateway, At
    <2>2. CASE stored' = stored \cup {<<b, i>>} /\ Goto(b, i, "connect") /\ Succeed(b)
      BY <1>a, <1>b, <2>1, <2>2 DEF Moves
    <2>3. CASE UNCHANGED stored /\ ReturnError(b, i, "failed") /\ Fail(b)
      BY <1>a, <1>c, <2>1, <2>3 DEF Moves
    <2> QED BY <2>1, <2>2, <2>3
  <1>6. CASE Connect(b, i)
    <2>1. /\ step[b][i] = "connect"
          /\ UNCHANGED <<call, ids, gone, answer, owner, stored, online>>
          /\ \/ Goto(b, i, "sensors") /\ UNCHANGED faults
             \/ Goto(b, i, "undo") /\ Fault
      BY <1>6 DEF Connect, At
    <2> QED BY <1>a, <1>b, <2>1 DEF Moves
  <1>7. CASE ListSensors(b, i)
    <2>1. /\ step[b][i] = "sensors"
          /\ UNCHANGED <<call, ids, gone, answer, owner, stored, online>>
          /\ \/ Goto(b, i, "start") /\ Succeed(b)
             \/ Goto(b, i, "undo") /\ Fail(b)
      BY <1>7 DEF ListSensors, At
    <2> QED BY <1>a, <1>b, <2>1 DEF Moves
  <1>8. CASE StartWorker(b, i)
    <2>1. /\ step[b][i] = "start" /\ online' = online \cup {<<b, i>>}
          /\ UNCHANGED <<owner, stored>>
      BY <1>8 DEF StartWorker, At
    <2> QED BY <1>8, <2>1, StartLocally DEF Moves
  <1>9. CASE Compensate(b, i)
    <2>1. /\ step[b][i] = "undo" /\ ReturnError(b, i, "failed")
          /\ UNCHANGED <<call, ids, gone, answer, owner, online>>
          /\ \/ Succeed(b) /\ stored' = stored \ {<<b, i>>}
             \/ Fail(b) /\ UNCHANGED stored
      BY <1>9 DEF Compensate, At
    <2> QED BY <1>a, <1>c, <2>1 DEF Moves
  <1>10. CASE Release(b, i)
    <2>1. /\ step[b][i] = "release" /\ Goto(b, i, "finished")
          /\ UNCHANGED <<call, ids, gone, answer, owner, stored, online, faults>>
      BY <1>10 DEF Release, At
    <2> QED BY <1>a, <1>b, <2>1 DEF Moves
  <1> QED BY <1>1, <1>2, <1>3, <1>4, <1>5, <1>6, <1>7, <1>8, <1>9, <1>10 DEF Item

-----------------------------------------------------------------------------
(* Types and the saga *)

\* A move touches the outside at its own item only.
LEMMA MoveFacts ==
  ASSUME TypeInv, NEW b \in Posts, NEW i \in DOMAIN ids[b], Moves(b, i)
  PROVE  /\ owner' \in [Factories -> Items \cup {NoItem}]
         /\ \A f \in Factories :
              owner'[f] = owner[f] \/ (owner[f] = NoItem /\ owner'[f] = <<b, i>>)
         /\ \A x : x # <<b, i>> => (x \in stored' <=> x \in stored)
                                /\ (x \in online' <=> x \in online)
         /\ stored' \subseteq Items
  <1>1. <<b, i>> \in Items /\ ids[b][i] \in Factories
    BY ItemFacts
  <1>2. owner \in [Factories -> Items \cup {NoItem}] /\ stored \subseteq Items
    BY DEF TypeInv, TypeOK
  <1>3. \/ owner' = owner
        \/ owner[ids[b][i]] = NoItem /\ owner' = [owner EXCEPT ![ids[b][i]] = <<b, i>>]
    BY DEF Moves
  <1>4. /\ stored' = stored \/ stored' = stored \cup {<<b, i>>} \/ stored' = stored \ {<<b, i>>}
        /\ online' = online \/ online' = online \cup {<<b, i>>}
    BY DEF Moves
  <1>5. owner' \in [Factories -> Items \cup {NoItem}]
    BY <1>1, <1>2, <1>3
  <1>6. \A f \in Factories :
          owner'[f] = owner[f] \/ (owner[f] = NoItem /\ owner'[f] = <<b, i>>)
    BY <1>1, <1>2, <1>3
  <1> QED BY <1>1, <1>2, <1>4, <1>5, <1>6

\* The item that moves, and the others.
LEMMA MoveSaga ==
  ASSUME TypeInv, SagaInv, NEW b \in Posts, NEW i \in DOMAIN ids[b],
         Locally(b, i), Moves(b, i)
  PROVE  SagaInv' /\ online' \subseteq stored'
  <1>1. UNCHANGED ids
    BY DEF Locally
  <1>2. /\ <<b, i>> \in Items /\ <<b, i>> # NoItem /\ ids[b][i] \in Factories
        /\ \A c \in Posts : \A j \in DOMAIN ids[c] : <<c, j>> # NoItem /\ ids[c][j] \in Factories
    BY ItemFacts
  <1>3. /\ owner \in [Factories -> Items \cup {NoItem}] /\ online \subseteq stored
        /\ step[b][i] \in Working \cup {"queued", "finished"}
        /\ result[b][i] \in {"nil", "gateway"} /\ errs[b][i] \in Errors
    BY DEF TypeInv, TypeOK
  <1>4. ItemInv(b, i)
    BY DEF SagaInv
  <1>5. ASSUME NEW c \in Posts, NEW j \in DOMAIN ids[c], c # b \/ j # i
        PROVE  ItemInv(c, j)'
    <2>1. step'[c][j] = step[c][j] /\ result'[c][j] = result[c][j] /\ errs'[c][j] = errs[c][j]
      BY <1>5 DEF Locally
    <2>2. <<c, j>> # <<b, i>>
      BY <1>5
    <2>3. (<<c, j>> \in stored' <=> <<c, j>> \in stored)
          /\ (<<c, j>> \in online' <=> <<c, j>> \in online)
      BY <2>2, MoveFacts
    <2>4. /\ owner[ids[c][j]] = <<c, j>> => owner'[ids[c][j]] = <<c, j>>
          /\ (\A f \in Factories : owner[f] # <<c, j>>) => \A f \in Factories : owner'[f] # <<c, j>>
      BY <1>2, <2>2, MoveFacts
    <2>5. ItemInv(c, j)
      BY DEF SagaInv
    <2> QED BY <1>1, <2>1, <2>3, <2>4, <2>5 DEF ItemInv
  <1>6. ItemInv(b, i)' /\ (<<b, i>> \in online' => <<b, i>> \in stored')
    <2> DEFINE own == owner[ids[b][i]] = NoItem
                      /\ owner' = [owner EXCEPT ![ids[b][i]] = <<b, i>>]
               err == step'[b][i] = "release" /\ result'[b][i] = result[b][i] /\ errs'[b][i] # "none"
               to(l) == /\ step'[b][i] = l /\ result'[b][i] = result[b][i]
                        /\ errs'[b][i] = errs[b][i]
    <2> USE DEF ItemInv, Owning, WithRow, Decided
    <2>1. own => owner'[ids[b][i]] = <<b, i>>
      BY <1>2, <1>3
    <2>2. CASE /\ step[b][i] = "queued" /\ to("onboard")
               /\ UNCHANGED <<owner, stored, online>>
      BY <1>1, <1>3, <1>4, <2>2
    <2>3. CASE /\ step[b][i] = "onboard" /\ to("insert") /\ own
               /\ UNCHANGED <<stored, online>>
      BY <1>1, <1>3, <1>4, <2>1, <2>3
    <2>4. CASE /\ step[b][i] = "onboard" /\ err /\ (own \/ UNCHANGED owner)
               /\ UNCHANGED <<stored, online>>
      BY <1>1, <1>3, <1>4, <2>1, <2>4
    <2>5. CASE /\ step[b][i] = "insert" /\ to("connect")
               /\ stored' = stored \cup {<<b, i>>} /\ UNCHANGED <<owner, online>>
      BY <1>1, <1>3, <1>4, <2>5
    <2>6. CASE /\ step[b][i] = "insert" /\ err /\ UNCHANGED <<owner, stored, online>>
      BY <1>1, <1>3, <1>4, <2>6
    <2>7. CASE /\ step[b][i] \in {"connect", "sensors"}
               /\ to("sensors") \/ to("start") \/ to("undo")
               /\ UNCHANGED <<owner, stored, online>>
      BY <1>1, <1>3, <1>4, <2>7
    <2>8. CASE /\ step[b][i] = "start" /\ step'[b][i] = "release"
               /\ result'[b][i] = "gateway" /\ errs'[b][i] = errs[b][i]
               /\ online' = online \cup {<<b, i>>} /\ UNCHANGED <<owner, stored>>
      BY <1>1, <1>3, <1>4, <2>8
    <2>9. CASE /\ step[b][i] = "undo" /\ err /\ UNCHANGED <<owner, online>>
               /\ stored' = stored \/ stored' = stored \ {<<b, i>>}
      BY <1>1, <1>3, <1>4, <2>9
    <2>10. CASE /\ step[b][i] = "release" /\ to("finished")
                /\ UNCHANGED <<owner, stored, online>>
      BY <1>1, <1>3, <1>4, <2>10
    <2>11. (\E e \in Errors \ {"none"} : Moved(b, i, "release", result[b][i], e)) => err
      BY DEF Moved
    <2>12. \A l : Moved(b, i, l, result[b][i], errs[b][i]) => to(l)
      BY DEF Moved
    <2>13. Moved(b, i, "release", "gateway", errs[b][i]) =>
             step'[b][i] = "release" /\ result'[b][i] = "gateway" /\ errs'[b][i] = errs[b][i]
      BY DEF Moved
    <2> HIDE DEF err, to, own, ItemInv
    <2> QED BY <2>2, <2>3, <2>4, <2>5, <2>6, <2>7, <2>8, <2>9, <2>10, <2>11, <2>12, <2>13
            DEF Moves, own
  <1>7. SagaInv'
    BY <1>1, <1>5, <1>6 DEF SagaInv
  <1>8. online' \subseteq stored'
    BY <1>3, <1>6, MoveFacts
  <1> QED BY <1>7, <1>8

-----------------------------------------------------------------------------
(* The inductive invariant *)

IInv == TypeInv /\ SagaInv /\ AnswerInv

\* A server that has answered nothing satisfies the invariant.
LEMMA InitIInv ==
  ASSUME Init
  PROVE  IInv
  <1> USE DEF Init
  <1>1. Items = {}
    BY DEF Items
  <1>2. TypeOK
    <2>1. faults \in 0..MaxFaults
      BY FaultsAssumption
    <2>2. \A b \in Posts : ids[b] = <<>> /\ step[b] = <<>> /\ result[b] = <<>> /\ errs[b] = <<>>
                          /\ answer[b].code = 0
      BY DEF NoAnswer
    <2> QED BY <1>1, <2>1, <2>2 DEF TypeOK
  <1>3. Fresh /\ Domains
    BY DEF Fresh, Domains
  <1>4. SagaInv /\ AnswerInv
    BY DEF SagaInv, AnswerInv
  <1> QED BY <1>2, <1>3, <1>4 DEF IInv, TypeInv

\* A request is posted: its items are new to the service and to the store.
LEMMA PostStep ==
  ASSUME IInv, NEW b \in Posts, NEW raw \in RawLists[b], Post(b, raw)
  PROVE  IInv'
  <1> DEFINE list == Sanitize(raw)
             all(x) == [i \in DOMAIN list |-> x]
  <1>1. /\ call[b] = "idle"
        /\ call' = [call EXCEPT ![b] = IF list = <<>> THEN "refused" ELSE "running"]
        /\ ids' = [ids EXCEPT ![b] = list]
        /\ step' = [step EXCEPT ![b] = all("queued")]
        /\ result' = [result EXCEPT ![b] = all("nil")]
        /\ errs' = [errs EXCEPT ![b] = all("none")]
        /\ UNCHANGED <<gone, answer, owner, stored, online, faults>>
    BY DEF Post
  <1>2. list \in Seq(Factories)
    BY SanitizeFacts
  <1> HIDE DEF list
  <1>3. TypeOK /\ Fresh /\ Domains /\ SagaInv /\ AnswerInv
    BY DEF IInv, TypeInv
  <1>4. /\ ids'[b] = list /\ step'[b] = all("queued") /\ result'[b] = all("nil")
        /\ errs'[b] = all("none") /\ call'[b] \in {"running", "refused"}
        /\ call'[b] = "refused" => list = <<>>
    BY <1>1, <1>3 DEF TypeOK, Domains
  <1>5. \A c \in Posts : c # b => /\ ids'[c] = ids[c] /\ step'[c] = step[c]
                                 /\ result'[c] = result[c] /\ errs'[c] = errs[c]
                                 /\ call'[c] = call[c]
    BY <1>1, <1>3 DEF TypeOK, Domains
  <1>6. ids[b] = <<>> /\ answer[b] = NoAnswer
    BY <1>1, <1>3 DEF Fresh
  <1>7. Items \subseteq Items'
    BY <1>5, <1>6 DEF Items
  <1>8. TypeOK'
    <2>1. /\ call' \in [Posts -> {"idle", "running", "answered", "refused"}]
          /\ ids' \in [Posts -> Seq(Factories)] /\ gone' \subseteq Posts
          /\ faults' \in 0..MaxFaults /\ online' \subseteq stored'
      BY <1>1, <1>2, <1>3 DEF TypeOK
    <2>2. stored' \subseteq Items' /\ owner' \in [Factories -> Items' \cup {NoItem}]
      BY <1>1, <1>3, <1>7 DEF TypeOK
    <2>3. \A c \in Posts : /\ step'[c] \in [DOMAIN ids'[c] -> Working \cup {"queued", "finished"}]
                          /\ result'[c] \in [DOMAIN ids'[c] -> {"nil", "gateway"}]
                          /\ errs'[c] \in [DOMAIN ids'[c] -> Errors]
      <3>1. /\ all("queued") \in [DOMAIN list -> Working \cup {"queued", "finished"}]
            /\ all("nil") \in [DOMAIN list -> {"nil", "gateway"}]
            /\ all("none") \in [DOMAIN list -> Errors]
        BY DEF Errors
      <3>2. \A c \in Posts : /\ step[c] \in [DOMAIN ids[c] -> Working \cup {"queued", "finished"}]
                            /\ result[c] \in [DOMAIN ids[c] -> {"nil", "gateway"}]
                            /\ errs[c] \in [DOMAIN ids[c] -> Errors]
        BY <1>3 DEF TypeOK
      <3>3. /\ step'[b] \in [DOMAIN ids'[b] -> Working \cup {"queued", "finished"}]
            /\ result'[b] \in [DOMAIN ids'[b] -> {"nil", "gateway"}]
            /\ errs'[b] \in [DOMAIN ids'[b] -> Errors]
        BY <1>4, <3>1
      <3> QED BY <1>5, <3>2, <3>3
    <2>4. \A c \in Posts : answer'[c].code \in {0, 201, 207}
      BY <1>1, <1>3 DEF TypeOK
    <2> QED BY <2>1, <2>2, <2>3, <2>4 DEF TypeOK
  <1>9. Fresh' /\ Domains'
    BY <1>1, <1>3, <1>4, <1>5, <1>6 DEF Fresh, Domains
  <1>10. SagaInv'
    <2>1. ASSUME NEW i \in DOMAIN list PROVE ItemInv(b, i)'
      <3>1. \A x \in Items : x # <<b, i>>
        BY <1>6 DEF Items
      <3>2. /\ owner \in [Factories -> Items \cup {NoItem}] /\ stored \subseteq Items
            /\ online \subseteq stored
        BY <1>3 DEF TypeOK
      <3>3. <<b, i>> # NoItem
        BY <1>2, NoItemAssumption
      <3>4. /\ <<b, i>> \notin stored' /\ <<b, i>> \notin online'
            /\ \A f \in Factories : owner'[f] # <<b, i>>
        BY <1>1, <3>1, <3>2, <3>3
      <3>5. step'[b][i] = "queued" /\ result'[b][i] = "nil" /\ errs'[b][i] = "none"
        BY <1>4
      <3> QED BY <3>4, <3>5 DEF ItemInv, Owning, WithRow, Decided
    <2>2. ASSUME NEW c \in Posts, c # b, NEW i \in DOMAIN ids[c] PROVE ItemInv(c, i)'
      <3>1. ItemInv(c, i)
        BY <1>3 DEF SagaInv
      <3> QED BY <1>1, <1>5, <2>2, <3>1 DEF ItemInv
    <2> QED BY <1>4, <1>5, <2>1, <2>2 DEF SagaInv
  <1>11. AnswerInv'
    <2> SUFFICES ASSUME NEW c \in Posts, call'[c] = "answered"
                 PROVE  /\ Finished(c)' /\ answer'[c].errors = errs'[c]
                        /\ answer'[c].gateways = GatewayList(c)'
      BY DEF AnswerInv
    <2>1. c # b
      BY <1>4
    <2>2. Finished(c) /\ answer[c].errors = errs[c] /\ answer[c].gateways = GatewayList(c)
      BY <1>3, <1>5, <2>1 DEF AnswerInv
    <2>3. ids'[c] = ids[c] /\ step'[c] = step[c] /\ result'[c] = result[c] /\ errs'[c] = errs[c]
      BY <1>5, <2>1
    <2>4. Finished(c)' /\ GatewayList(c)' = GatewayList(c)
      BY <2>2, <2>3 DEF Finished, GatewayList
    <2> QED BY <1>1, <2>2, <2>3, <2>4
  <1> QED BY <1>8, <1>9, <1>10, <1>11 DEF IInv, TypeInv

\* A goroutine goes on: its request is not answered yet.
LEMMA ItemIInv ==
  ASSUME IInv, NEW b \in Posts, NEW i \in DOMAIN ids[b], Item(b, i)
  PROVE  IInv'
  <1>1. TypeInv /\ TypeOK /\ Fresh /\ SagaInv /\ AnswerInv
    BY DEF IInv, TypeInv
  <1>2. Locally(b, i) /\ Moves(b, i)
    BY <1>1, ItemStep
  <1>3. SagaInv' /\ online' \subseteq stored'
    BY <1>1, <1>2, MoveSaga
  <1>4. UNCHANGED <<call, ids, gone, answer>> /\ faults' \in 0..MaxFaults /\ Domains'
    BY <1>2 DEF Locally
  <1>5. Items' = Items
    BY <1>4 DEF Items
  <1>6. TypeOK'
    <2>1. owner' \in [Factories -> Items' \cup {NoItem}] /\ stored' \subseteq Items'
      BY <1>1, <1>2, <1>5, MoveFacts
    <2>2. \A c \in Posts : /\ step'[c] \in [DOMAIN ids'[c] -> Working \cup {"queued", "finished"}]
                          /\ result'[c] \in [DOMAIN ids'[c] -> {"nil", "gateway"}]
                          /\ errs'[c] \in [DOMAIN ids'[c] -> Errors]
      BY <1>1, <1>2, <1>4 DEF TypeOK, Locally
    <2> QED BY <1>1, <1>3, <1>4, <2>1, <2>2 DEF TypeOK
  <1>7. Fresh'
    BY <1>1, <1>4 DEF Fresh
  <1>8. AnswerInv'
    <2> SUFFICES ASSUME NEW c \in Posts, call'[c] = "answered"
                 PROVE  /\ Finished(c)' /\ answer'[c].errors = errs'[c]
                        /\ answer'[c].gateways = GatewayList(c)'
      BY DEF AnswerInv
    <2>1. Finished(c) /\ answer[c].errors = errs[c] /\ answer[c].gateways = GatewayList(c)
      BY <1>1, <1>4 DEF AnswerInv
    <2>2. step[b][i] # "finished"
      BY <1>2 DEF Moves
    <2>3. c # b
      BY <2>1, <2>2 DEF Finished
    <2>4. step'[c] = step[c] /\ result'[c] = result[c] /\ errs'[c] = errs[c] /\ UNCHANGED ids
      BY <1>2, <2>3 DEF Locally
    <2>5. Finished(c)' /\ GatewayList(c)' = GatewayList(c)
      BY <2>1, <2>4 DEF Finished, GatewayList
    <2> QED BY <1>4, <2>1, <2>4, <2>5
  <1> QED BY <1>3, <1>4, <1>6, <1>7, <1>8 DEF IInv, TypeInv

\* Answering keeps it: the answer repeats what the items came to.
LEMMA AnswerStep ==
  ASSUME IInv, NEW b \in Posts, Answer(b)
  PROVE  IInv'
  <1>1. /\ call[b] = "running" /\ Finished(b)
        /\ call' = [call EXCEPT ![b] = "answered"]
        /\ UNCHANGED <<ids, gone, itemVars, owner, stored, online, faults>>
        /\ answer' = [answer EXCEPT ![b] =
             [code |-> IF Failed(b) # {} THEN 207 ELSE 201,
              gateways |-> GatewayList(b), errors |-> errs[b]]]
    BY DEF Answer
  <1>2. TypeOK /\ Fresh /\ Domains /\ SagaInv /\ AnswerInv
    BY DEF IInv, TypeInv
  <1>3. UNCHANGED <<ids, gone, step, result, errs, owner, stored, online, faults>>
    BY <1>1 DEF itemVars
  <1>4. /\ call'[b] = "answered"
        /\ answer'[b].code \in {0, 201, 207}
        /\ answer'[b].gateways = GatewayList(b) /\ answer'[b].errors = errs[b]
        /\ \A c \in Posts : c # b => call'[c] = call[c] /\ answer'[c] = answer[c]
    BY <1>1, <1>2 DEF TypeOK, Domains
  <1>5. call' \in [Posts -> {"idle", "running", "answered", "refused"}] /\ DOMAIN answer' = Posts
    BY <1>1, <1>2 DEF TypeOK, Domains
  <1>6. Items' = Items
    BY <1>3 DEF Items
  <1>7. TypeOK'
    <2>1. \A c \in Posts : answer'[c].code \in {0, 201, 207}
      BY <1>2, <1>4 DEF TypeOK
    <2> QED BY <1>2, <1>3, <1>5, <1>6, <2>1 DEF TypeOK
  <1>8. Fresh' /\ Domains'
    BY <1>2, <1>3, <1>4, <1>5 DEF Fresh, Domains
  <1>9. SagaInv'
    <2> SUFFICES ASSUME NEW c \in Posts, NEW i \in DOMAIN ids[c] PROVE ItemInv(c, i)'
      BY <1>3 DEF SagaInv
    <2>1. ItemInv(c, i)
      BY <1>2 DEF SagaInv
    <2> QED BY <1>3, <2>1 DEF ItemInv
  <1>10. AnswerInv'
    <2>1. \A c \in Posts : Finished(c)' = Finished(c) /\ GatewayList(c)' = GatewayList(c)
      BY <1>3 DEF Finished, GatewayList
    <2> QED BY <1>1, <1>2, <1>3, <1>4, <2>1 DEF AnswerInv
  <1> QED BY <1>7, <1>8, <1>9, <1>10 DEF IInv, TypeInv

\* A client that leaves changes nothing that was recorded.
LEMMA LeaveStep ==
  ASSUME IInv, gone' \subseteq Posts,
         UNCHANGED <<call, ids, itemVars, answer, owner, stored, online, faults>>
  PROVE  IInv'
  <1>1. UNCHANGED <<call, ids, step, result, errs, answer, owner, stored, online, faults>>
    BY DEF itemVars
  <1>2. TypeOK /\ Fresh /\ Domains /\ SagaInv /\ AnswerInv
    BY DEF IInv, TypeInv
  <1>3. Items' = Items
    BY <1>1 DEF Items
  <1>4. TypeOK'
    BY <1>1, <1>2, <1>3 DEF TypeOK
  <1>5. Fresh' /\ Domains'
    BY <1>1, <1>2 DEF Fresh, Domains
  <1>6. SagaInv'
    <2> SUFFICES ASSUME NEW c \in Posts, NEW i \in DOMAIN ids[c] PROVE ItemInv(c, i)'
      BY <1>1 DEF SagaInv
    <2>1. ItemInv(c, i)
      BY <1>2 DEF SagaInv
    <2> QED BY <1>1, <2>1 DEF ItemInv
  <1>7. \A c \in Posts : Finished(c)' = Finished(c) /\ GatewayList(c)' = GatewayList(c)
    BY <1>1 DEF Finished, GatewayList
  <1>8. AnswerInv'
    BY <1>1, <1>2, <1>7 DEF AnswerInv
  <1> QED BY <1>4, <1>5, <1>6, <1>8 DEF IInv, TypeInv

\* So does every other step,
LEMMA NextIInv ==
  ASSUME IInv, [Next]_vars
  PROVE  IInv'
  <1>1. ASSUME NEW b \in Posts, NEW raw \in RawLists[b], Post(b, raw) PROVE IInv'
    BY <1>1, PostStep
  <1>2. ASSUME NEW b \in Posts, ClientLeaves(b) PROVE IInv'
    <2>1. gone \subseteq Posts
      BY DEF IInv, TypeInv, TypeOK
    <2> QED BY <1>2, <2>1, LeaveStep DEF ClientLeaves
  <1>3. ASSUME NEW b \in Posts, NEW i \in DOMAIN ids[b], Item(b, i) PROVE IInv'
    BY <1>3, ItemIInv
  <1>4. ASSUME NEW b \in Posts, Answer(b) PROVE IInv'
    BY <1>4, AnswerStep
  <1>5. CASE UNCHANGED vars
    <2>1. gone \subseteq Posts
      BY DEF IInv, TypeInv, TypeOK
    <2> QED BY <1>5, <2>1, LeaveStep DEF vars
  <1> QED BY <1>1, <1>2, <1>3, <1>4, <1>5 DEF Next

\* and it holds in every reachable state.
LEMMA Inductive == Spec => []IInv
  BY InitIInv, NextIInv, PTL DEF Spec

-----------------------------------------------------------------------------
(* Theorems *)

\* Types, lists of one length per request, and no worker without a row.
THEOREM TypeCorrect == Spec => []TypeOK
  <1>1. IInv => TypeOK
    BY DEF IInv, TypeInv
  <1> QED BY <1>1, Inductive, PTL

\* An identity that is spent is never lost behind a success: its item has a row
\* and a running worker, or is still at work, or has an error recorded.
THEOREM IdentitiesAccounted == Spec => []NoSilentConsumption
  <1>1. IInv => NoSilentConsumption
    <2> SUFFICES ASSUME IInv, NEW f \in Factories, owner[f] # NoItem
                 PROVE  LET b == owner[f][1]  i == owner[f][2]
                        IN \/ result[b][i] = "gateway" /\ owner[f] \in stored \cap online
                           \/ errs[b][i] # "none"
                           \/ step[b][i] \in Working \ {"release"}
      BY DEF NoSilentConsumption
    <2>1. TypeInv /\ TypeOK /\ SagaInv
      BY DEF IInv, TypeInv
    <2>2. owner[f] \in Items
      BY <2>1 DEF TypeOK
    <2>3. PICK b \in Posts : \E i \in DOMAIN ids[b] : owner[f] = <<b, i>>
      BY <2>1, <2>2, ItemFacts
    <2>4. PICK i \in DOMAIN ids[b] : owner[f] = <<b, i>>
      BY <2>3
    <2>5. ItemInv(b, i) /\ step[b][i] \in Working \cup {"queued", "finished"}
      BY <2>1 DEF SagaInv, TypeOK
    <2>6. step[b][i] \notin {"queued", "onboard"}
      BY <2>4, <2>5 DEF ItemInv
    <2>7. \/ result[b][i] = "gateway" /\ owner[f] \in stored \cap online
          \/ errs[b][i] # "none"
          \/ step[b][i] \in Working \ {"release"}
      <3>1. CASE step[b][i] \in Decided
        <4>1. online \subseteq stored
          BY <2>1 DEF TypeOK
        <4> QED BY <2>4, <2>5, <3>1, <4>1 DEF ItemInv
      <3>2. CASE step[b][i] \notin Decided
        BY <2>5, <2>6, <3>2 DEF Decided, Working
      <3> QED BY <3>1, <3>2
    <2> QED BY <2>4, <2>7
  <1> QED BY <1>1, Inductive, PTL

\* However often and in whichever requests a factory id is named, one item with
\* that id has a row.
THEOREM OneRowPerFactory == Spec => []OneGatewayPerFactory
  <1>1. IInv => OneGatewayPerFactory
    <2> SUFFICES ASSUME IInv, NEW x \in stored, NEW y \in stored,
                        ids[x[1]][x[2]] = ids[y[1]][y[2]]
                 PROVE  x = y
      BY DEF OneGatewayPerFactory
    <2>1. TypeInv /\ SagaInv /\ stored \subseteq Items
      BY DEF IInv, TypeInv, TypeOK
    <2>2. \A z \in stored : owner[ids[z[1]][z[2]]] = z
      <3> SUFFICES ASSUME NEW z \in stored PROVE owner[ids[z[1]][z[2]]] = z
        OBVIOUS
      <3>1. PICK b \in Posts : \E i \in DOMAIN ids[b] : z = <<b, i>>
        BY <2>1, ItemFacts
      <3>2. PICK i \in DOMAIN ids[b] : z = <<b, i>>
        BY <3>1
      <3>3. ItemInv(b, i)
        BY <2>1 DEF SagaInv
      <3> QED BY <3>2, <3>3 DEF ItemInv
    <2> QED BY <2>2
  <1> QED BY <1>1, Inductive, PTL

-----------------------------------------------------------------------------
(* The promise *)

\* The variables of the promise, and what the client is told in terms of what the
\* goroutines recorded.
Outcome(b, i) == IF result[b][i] = "gateway" THEN "gateway"
                 ELSE IF errs[b][i] # "none" THEN "error" ELSE "pending"
Outcomes == [b \in Posts |-> [i \in DOMAIN ids[b] |-> Outcome(b, i)]]
Told     == [b \in Posts |-> [i \in DOMAIN answer[b].errors |-> Concluded(b, i)]]
ToldInv  == Told = [b \in Posts |-> IF call[b] = "answered" THEN Outcomes[b] ELSE <<>>]

\* An item of an answered request: with an error at its position the client
\* concludes an error, else it finds the gateway by counting the positions without
\* an error.
LEMMA ConcludedIsOutcome ==
  ASSUME IInv, NEW b \in Posts, call[b] = "answered", NEW i \in DOMAIN ids[b]
  PROVE  Concluded(b, i) = Outcome(b, i)
  <1>1. Finished(b) /\ answer[b].errors = errs[b] /\ answer[b].gateways = GatewayList(b)
    BY DEF IInv, AnswerInv
  <1>2. /\ ids[b] \in Seq(Factories)
        /\ result[b] \in [DOMAIN ids[b] -> {"nil", "gateway"}]
        /\ errs[b] \in [DOMAIN ids[b] -> Errors]
    BY DEF IInv, TypeInv, TypeOK
  <1>3. \A j \in DOMAIN ids[b] : errs[b][j] = "none" <=> result[b][j] = "gateway"
    <2> SUFFICES ASSUME NEW j \in DOMAIN ids[b]
                 PROVE  errs[b][j] = "none" <=> result[b][j] = "gateway"
      OBVIOUS
    <2>1. ItemInv(b, j) /\ step[b][j] = "finished"
      BY <1>1 DEF IInv, SagaInv, Finished
    <2> QED BY <2>1 DEF ItemInv, Decided
  <1>4. CASE errs[b][i] # "none"
    BY <1>1, <1>3, <1>4 DEF Concluded, Outcome
  <1>5. CASE errs[b][i] = "none"
    <2> DEFINE T == {j \in DOMAIN ids[b] : result[b][j] = "gateway"}
               U == {j \in 1..i : errs[b][j] = "none"}
    <2>1. i \in T /\ T \in SUBSET (DOMAIN ids[b])
      BY <1>3, <1>5
    <2>2. DOMAIN ids[b] = 1..Len(ids[b]) /\ Len(ids[b]) \in Nat
      BY <1>2
    <2>3. U = {j \in T : j <= i}
      <3>1. \A j : j \in 1..i <=> j \in DOMAIN ids[b] /\ j <= i
        BY <2>2
      <3> QED BY <1>3, <3>1
    <2>4. Cardinality(U) = Rank(T, i)
      BY <2>3 DEF Rank
    <2>5. /\ Rank(T, i) \in DOMAIN Entries(ids[b], T)
          /\ Entries(ids[b], T)[Rank(T, i)] = ids[b][i]
      BY <1>2, <2>1, EntriesFacts
    <2>6. GatewayList(b) = Entries(ids[b], T)
      BY DEF GatewayList
    <2>7. Concluded(b, i) = "gateway"
      BY <1>1, <1>5, <2>4, <2>5, <2>6 DEF Concluded
    <2> QED BY <1>3, <1>5, <2>7 DEF Outcome
  <1> QED BY <1>4, <1>5

\* What a client has been told is what came of its items.
LEMMA ToldIsOutcome ==
  ASSUME IInv
  PROVE  ToldInv
  <1> SUFFICES ASSUME NEW b \in Posts
               PROVE  Told[b] = IF call[b] = "answered" THEN Outcomes[b] ELSE <<>>
    BY DEF ToldInv, Told
  <1>1. CASE call[b] = "answered"
    <2>1. answer[b].errors = errs[b] /\ DOMAIN errs[b] = DOMAIN ids[b]
      BY <1>1 DEF IInv, AnswerInv, TypeInv, TypeOK
    <2>2. \A i \in DOMAIN ids[b] : Concluded(b, i) = Outcome(b, i)
      BY <1>1, ConcludedIsOutcome
    <2> QED BY <1>1, <2>1, <2>2 DEF Told, Outcomes
  <1>2. CASE call[b] # "answered"
    <2>1. answer[b].errors = <<>>
      BY <1>2 DEF IInv, TypeInv, Fresh, NoAnswer
    <2>2. DOMAIN answer[b].errors = {}
      BY <2>1
    <2>3. Told[b] = [i \in DOMAIN answer[b].errors |-> Concluded(b, i)]
      BY DEF Told
    <2> QED BY <1>2, <2>2, <2>3
  <1> QED BY <1>1, <1>2

\* The actions of the promise, over the variables that implement it.
LEMMA PromiseActions ==
  /\ \A b \in Posts, raw \in UNION {RawLists[c] : c \in Posts} :
       /\ Outcomes[b] = <<>> /\ Sanitize(raw) # <<>> /\ UNCHANGED Told
       /\ Outcomes' = [Outcomes EXCEPT ![b] = [i \in DOMAIN Sanitize(raw) |-> "pending"]]
       => Promise!Accept(b)
  /\ \A b \in Posts : \A i \in DOMAIN Outcomes[b], o \in {"gateway", "error"} :
       /\ Outcomes[b][i] = "pending" /\ UNCHANGED Told
       /\ Outcomes' = [Outcomes EXCEPT ![b][i] = o]
       => Promise!Decide(b)
  /\ \A b \in Posts :
       /\ Told[b] = <<>> /\ \A i \in DOMAIN Outcomes[b] : Outcomes[b][i] # "pending"
       /\ Told' = [Told EXCEPT ![b] = Outcomes[b]] /\ UNCHANGED Outcomes
       => Promise!Answer(b)
  /\ UNCHANGED <<Outcomes, Told>> => UNCHANGED Promise!vars
  <1> USE DEF Outcomes, Outcome, Told
  <1>1. ASSUME NEW b \in Posts, NEW raw \in UNION {RawLists[c] : c \in Posts},
               Outcomes[b] = <<>>, Sanitize(raw) # <<>>, UNCHANGED Told,
               Outcomes' = [Outcomes EXCEPT ![b] = [i \in DOMAIN Sanitize(raw) |-> "pending"]]
        PROVE  Promise!Accept(b)
    <2>1. Sanitize(raw) \in {Sanitize(r) : r \in UNION {RawLists[c] : c \in Posts}} \ {<<>>}
      BY <1>1
    <2> QED BY <1>1, <2>1 DEF Promise!Accept
  <1>2. ASSUME NEW b \in Posts, NEW i \in DOMAIN Outcomes[b], NEW o \in {"gateway", "error"},
               Outcomes[b][i] = "pending", UNCHANGED Told,
               Outcomes' = [Outcomes EXCEPT ![b][i] = o]
        PROVE  Promise!Decide(b)
    BY <1>2 DEF Promise!Decide
  <1>3. ASSUME NEW b \in Posts,
               Told[b] = <<>>, \A i \in DOMAIN Outcomes[b] : Outcomes[b][i] # "pending",
               Told' = [Told EXCEPT ![b] = Outcomes[b]], UNCHANGED Outcomes
        PROVE  Promise!Answer(b)
    BY <1>3 DEF Promise!Answer
  <1>4. UNCHANGED <<Outcomes, Told>> => UNCHANGED Promise!vars
    BY DEF Promise!vars
  <1> HIDE DEF Outcomes, Outcome, Told
  <1> QED BY <1>1, <1>2, <1>3, <1>4

\* Each step of the handler or of a goroutine is a step of the promise or none.
LEMMA PromiseStep ==
  ASSUME IInv, IInv', ToldInv, ToldInv', [Next]_vars
  PROVE  [Promise!Next]_(Promise!vars)
  <1>1. /\ Told = [b \in Posts |-> IF call[b] = "answered" THEN Outcomes[b] ELSE <<>>]
        /\ Told' = [b \in Posts |-> IF call'[b] = "answered" THEN Outcomes'[b] ELSE <<>>]
    BY DEF ToldInv
  <1>2. TypeInv /\ TypeOK /\ Fresh /\ Domains /\ SagaInv /\ DOMAIN call = Posts
    BY DEF IInv, TypeInv, TypeOK
  <1>3. ASSUME UNCHANGED <<call, ids, result, errs>>
        PROVE  UNCHANGED Promise!vars
    <2>1. Outcomes' = Outcomes
      BY <1>3 DEF Outcomes, Outcome
    <2>2. Told' = Told
      BY <1>1, <1>3, <2>1
    <2> QED BY <2>1, <2>2, PromiseActions
  <1>4. ASSUME NEW b \in Posts, NEW raw \in RawLists[b], Post(b, raw)
        PROVE  Promise!Accept(b) \/ UNCHANGED Promise!vars
    <2> DEFINE list == Sanitize(raw)
    <2>1. /\ call[b] = "idle" /\ call'[b] # "answered"
          /\ \A c \in Posts : c # b => call'[c] = call[c]
      BY <1>2, <1>4 DEF Post
    <2>2. /\ ids' = [ids EXCEPT ![b] = list]
          /\ result' = [result EXCEPT ![b] = [i \in DOMAIN list |-> "nil"]]
          /\ errs' = [errs EXCEPT ![b] = [i \in DOMAIN list |-> "none"]]
      BY <1>4 DEF Post
    <2> HIDE DEF list
    <2>3. ids[b] = <<>> /\ DOMAIN ids = Posts
      BY <1>2, <2>1 DEF Fresh, TypeOK
    <2>4. Outcomes' = [Outcomes EXCEPT ![b] = [i \in DOMAIN list |-> "pending"]]
      <3>1. ids'[b] = list /\ result'[b] = [i \in DOMAIN list |-> "nil"]
            /\ errs'[b] = [i \in DOMAIN list |-> "none"]
        BY <1>2, <2>2, <2>3 DEF Domains
      <3>2. \A c \in Posts : c # b => /\ ids'[c] = ids[c] /\ result'[c] = result[c]
                                     /\ errs'[c] = errs[c]
        BY <1>2, <2>2, <2>3 DEF Domains
      <3>3. Outcomes'[b] = [i \in DOMAIN list |-> "pending"]
        BY <3>1 DEF Outcomes, Outcome
      <3>4. \A c \in Posts : c # b => Outcomes'[c] = Outcomes[c]
        BY <3>2 DEF Outcomes, Outcome
      <3> QED BY <3>3, <3>4 DEF Outcomes
    <2>5. Told' = Told
      BY <1>1, <2>1, <2>4 DEF Outcomes
    <2>6. Outcomes[b] = <<>>
      BY <2>3 DEF Outcomes
    <2>7. CASE list = <<>>
      <3>1. [i \in DOMAIN list |-> "pending"] = <<>>
        BY <2>7
      <3>2. Outcomes' = [Outcomes EXCEPT ![b] = Outcomes[b]]
        BY <2>4, <2>6, <3>1
      <3>3. Outcomes = [c \in Posts |-> Outcomes[c]]
        BY DEF Outcomes
      <3>4. Outcomes' = Outcomes
        BY <3>2, <3>3
      <3> QED BY <2>5, <3>4, PromiseActions
    <2>8. CASE list # <<>>
      <3>1. raw \in UNION {RawLists[c] : c \in Posts}
        OBVIOUS
      <3> QED BY <2>4, <2>5, <2>6, <2>8, <3>1, PromiseActions DEF list
    <2> QED BY <2>7, <2>8
  <1>5. ASSUME NEW b \in Posts, NEW i \in DOMAIN ids[b], Item(b, i)
        PROVE  Promise!Decide(b) \/ UNCHANGED Promise!vars
    <2>1. Locally(b, i) /\ Moves(b, i)
      BY <1>2, <1>5, ItemStep
    <2>2. ItemInv(b, i) /\ UNCHANGED <<call, ids>>
      BY <1>2, <2>1 DEF SagaInv, Locally
    <2>3. /\ \A c \in Posts : c # b => result'[c] = result[c] /\ errs'[c] = errs[c]
          /\ \A j \in DOMAIN ids[b] : j # i => result'[b][j] = result[b][j] /\ errs'[b][j] = errs[b][j]
      BY <2>1 DEF Locally
    <2>4. Outcomes' = [Outcomes EXCEPT ![b][i] = Outcome(b, i)']
      <3>1. \A c \in Posts : c # b => Outcomes'[c] = Outcomes[c]
        BY <2>2, <2>3 DEF Outcomes, Outcome
      <3>2. \A j \in DOMAIN ids[b] : j # i => Outcome(b, j)' = Outcome(b, j)
        BY <2>3 DEF Outcome
      <3>3. Outcomes'[b] = [Outcomes[b] EXCEPT ![i] = Outcome(b, i)']
        BY <2>2, <3>2 DEF Outcomes
      <3> QED BY <3>1, <3>3 DEF Outcomes
    <2>5. Told' = Told
      <3>1. ASSUME NEW c \in Posts, call[c] = "answered" PROVE Outcomes'[c] = Outcomes[c]
        <4>1. Finished(c)
          BY <3>1 DEF IInv, AnswerInv
        <4>2. c # b
          BY <2>1, <4>1 DEF Moves, Finished
        <4> QED BY <2>2, <2>3, <4>2 DEF Outcomes, Outcome
      <3> QED BY <1>1, <2>2, <3>1
    <2>6. CASE Outcome(b, i)' = Outcome(b, i)
      <3>1. Outcomes' = [Outcomes EXCEPT ![b][i] = Outcome(b, i)]
        BY <2>4, <2>6
      <3>2. Outcomes = [c \in Posts |-> [j \in DOMAIN ids[c] |-> Outcomes[c][j]]]
            /\ Outcomes[b][i] = Outcome(b, i)
        BY DEF Outcomes
      <3>3. Outcomes' = Outcomes
        BY <3>1, <3>2
      <3> QED BY <2>5, <3>3, PromiseActions
    <2>7. CASE Outcome(b, i)' # Outcome(b, i)
      <3>1. \/ result'[b][i] = result[b][i] /\ errs'[b][i] = errs[b][i]
            \/ step[b][i] \notin Decided
        BY <2>1 DEF Moves, Moved, Decided
      <3>2. step[b][i] \notin Decided
        BY <2>7, <3>1 DEF Outcome
      <3>3. Outcome(b, i) = "pending"
        BY <2>2, <3>2 DEF ItemInv, Outcome
      <3>4. Outcome(b, i)' \in {"gateway", "error"}
        BY <2>7, <3>3 DEF Outcome
      <3>5. i \in DOMAIN Outcomes[b] /\ Outcomes[b][i] = "pending"
        BY <3>3 DEF Outcomes
      <3> QED BY <2>4, <2>5, <3>4, <3>5, PromiseActions
    <2> QED BY <2>6, <2>7
  <1>6. ASSUME NEW b \in Posts, Answer(b)
        PROVE  Promise!Answer(b)
    <2>1. /\ call[b] = "running" /\ Finished(b) /\ call' = [call EXCEPT ![b] = "answered"]
          /\ UNCHANGED <<ids, step, result, errs>>
      BY <1>6 DEF Answer, itemVars
    <2>2. Outcomes' = Outcomes
      BY <2>1 DEF Outcomes, Outcome
    <2>3. Told' = [Told EXCEPT ![b] = Outcomes[b]] /\ Told[b] = <<>>
      BY <1>1, <1>2, <2>1, <2>2
    <2>4. ASSUME NEW i \in DOMAIN Outcomes[b] PROVE Outcomes[b][i] # "pending"
      <3>1. i \in DOMAIN ids[b]
        BY DEF Outcomes
      <3>2. ItemInv(b, i) /\ step[b][i] = "finished"
        BY <1>2, <2>1, <3>1 DEF SagaInv, Finished
      <3> QED BY <3>1, <3>2 DEF ItemInv, Decided, Outcomes, Outcome
    <2> QED BY <2>2, <2>3, <2>4, PromiseActions
  <1>7. ASSUME NEW b \in Posts, ClientLeaves(b) PROVE UNCHANGED Promise!vars
    BY <1>3, <1>7 DEF ClientLeaves, itemVars
  <1>8. CASE UNCHANGED vars
    BY <1>3, <1>8 DEF vars, itemVars
  <1> QED BY <1>4, <1>5, <1>6, <1>7, <1>8 DEF Next, Promise!Next

\* The handler and its goroutines implement the promise: every item is decided
\* once, whatever happens to the others, and what the client can conclude from its
\* answer is the outcome of every item.
THEOREM PromiseKept == Spec => PromiseSpec
  <1>1. Init => Promise!Init
    <2> SUFFICES ASSUME Init PROVE Promise!Init
      OBVIOUS
    <2>1. \A b \in Posts : DOMAIN ids[b] = {} /\ DOMAIN answer[b].errors = {}
      BY DEF Init, NoAnswer
    <2> QED BY <2>1 DEF Promise!Init
  <1>2. IInv => ToldInv
    BY ToldIsOutcome
  <1>3. IInv /\ IInv' /\ ToldInv /\ ToldInv' /\ [Next]_vars => [Promise!Next]_(Promise!vars)
    BY PromiseStep
  <1> QED BY <1>1, <1>2, <1>3, Inductive, PTL DEF Spec, PromiseSpec, Promise!Spec
=============================================================================
