-------------------------- MODULE Dispatch_proofs --------------------------
(***************************************************************************)
(* What the data callbacks guarantee for every agent, every set of metrics *)
(* and instances, and requests of any length, provided the exceptions the  *)
(* agent throws carry error codes.                                         *)
(***************************************************************************)
EXTENDS Dispatch, SequenceTheorems, TLAPS

\* pcp::exception is documented to carry a PCP error code: a negative number.
NegativeCodes == \A c \in AgentCodes : c < 0

\* Whatever is thrown at a callback becomes an error code.
LEMMA ThrownIsError ==
  ASSUME NEW t \in Thrown(AgentCodes)
  PROVE  CodeOf(t) \in Int /\ (NegativeCodes => CodeOf(t) < 0)
BY DispatchAssumption DEF Thrown, CodeOf, NegativeCodes, PM_ERR_PMID, PM_ERR_GENERIC

\* Whatever fetch_value throws becomes a code that promises no value.
LEMMA ThrownIsNoValue ==
  ASSUME NEW t \in Thrown(ValueCodes)
  PROVE  CodeOf(t) \in Int /\ (NegativeCodes => CodeOf(t) <= PMDA_FETCH_NOVALUES)
BY DispatchAssumption DEF Thrown, ValueCodes, CodeOf, NegativeCodes, PM_ERR_PMID,
                          PM_ERR_GENERIC, PMDA_FETCH_NOVALUES

\* A check passes, or refuses with an error code.
LEMMA CheckIsError ==
  ASSUME NEW id \in Ids
  PROVE  /\ FetchCheck(id) = 0 \/ (FetchCheck(id) \in Int /\ FetchCheck(id) < 0)
         /\ StoreCheck(id) = 0 \/ (StoreCheck(id) \in Int /\ StoreCheck(id) < 0)
BY DEF FetchCheck, StoreCheck, validate_instance, PM_ERR_PMID, PM_ERR_INDOM, PM_ERR_INST,
       PM_ERR_PERMISSION

\* The request at hand is one a client may send.
LEMMA RequestsAreSeqs == StoreRequests \subseteq Seq(Ids)
BY DispatchAssumption DEF StoreRequests

\* The first state is well typed.
LEMMA TypeInit == Init => TypeOK
<1>1. DOMAIN NoReply = {} /\ <<>> \in Seq(Ids) /\ Len(<<>>) = 0
  BY DEF NoReply
<1>2. 0 \in 0..MaxBatch /\ 1 \in 1..(0 + 1) /\ Pending \in Int
  BY DispatchAssumption DEF Pending
<1> QED BY <1>1, <1>2 DEF Init, TypeOK

\* Every step keeps the types.
LEMMA TypeStep == TypeOK /\ [Next]_vars => TypeOK'
<1> SUFFICES ASSUME TypeOK, [Next]_vars PROVE TypeOK'
  OBVIOUS
<1> USE DispatchAssumption DEF TypeOK
<1>0. DOMAIN NoReply = {} /\ <<>> \in Seq(Ids) /\ Len(<<>>) = 0
  BY DEF NoReply
<1>1. ASSUME NEW result \in StoreRequests, OnStore(result) PROVE TypeOK'
  <2>1. result \in Seq(Ids)
    BY RequestsAreSeqs
  <2>2. 1 \in 1..(Len(result) + 1)
    BY <2>1
  <2> QED BY <1>0, <1>1, <2>1, <2>2 DEF OnStore, StoreLocals, FetchLocals
<1>2. CASE OnFetch
  <2>1. batch' \in 0..MaxBatch /\ 1 \in 1..(0 + 1)
    BY <1>2 DEF OnFetch
  <2> QED BY <1>0, <1>2, <2>1 DEF OnFetch, StoreLocals, FetchLocals
<1>3. CASE StoreRefused
  <2>1. StoreCheck(request[position]) \in Int
    BY <1>3, CheckIsError DEF StoreRefused
  <2> QED BY <1>3, <2>1 DEF StoreRefused, Answer, storeVars, fetchVars
<1>4. CASE StoreTaken
  <2>1. request[position] \in Ids /\ position + 1 \in 1..(Len(request) + 1)
    BY <1>4 DEF StoreTaken
  <2>2. applied' \in Seq(Ids)
    BY <1>4, <2>1 DEF StoreTaken
  <2> QED BY <1>4, <2>1, <2>2 DEF StoreTaken, AgentMayInsert, fetchVars
<1>5. ASSUME NEW t \in Thrown(AgentCodes), StoreThrows(t) PROVE TypeOK'
  BY <1>5, ThrownIsError DEF StoreThrows, Answer, AgentMayInsert, storeVars, fetchVars
<1>6. CASE StoreReturns
  BY <1>6 DEF StoreReturns, Answer, storeVars, fetchVars, PM_ERR_PERMISSION
<1>7. ASSUME NEW list \in SUBSET Askable, FetchBegun(list) PROVE TypeOK'
  BY <1>7 DEF FetchBegun, Askable, AgentMayInsert, storeVars
<1>8. ASSUME NEW t \in Thrown(AgentCodes), BeginThrows(t) PROVE TypeOK'
  BY <1>8 DEF BeginThrows, Thrown, Answer, AgentMayInsert, storeVars, fetchVars
<1>9. ASSUME NEW t \in Thrown(AgentCodes), BeginEscapes(t) PROVE TypeOK'
  BY <1>9 DEF BeginEscapes, storeVars, fetchVars
<1>10. ASSUME NEW id \in Ids, NEW code \in Int, NEW value, Deliver(id, code, value),
              live' \in [Domains -> SUBSET Instances],
              value = NoAtom \/ value \in [id : Ids, batch : 0..MaxBatch]
       PROVE TypeOK'
  BY <1>10 DEF Deliver, storeVars
<1>11. ASSUME NEW id \in Ids, NEW c \in FetchCodes, FetchTaken(id, c) PROVE TypeOK'
  <2>1. [id |-> id, batch |-> batch] \in [id : Ids, batch : 0..MaxBatch]
    OBVIOUS
  <2>2. c \in Int
    BY DEF FetchCodes, PMDA_FETCH_NOVALUES, PMDA_FETCH_STATIC, PMDA_FETCH_DYNAMIC
  <2>3. live' \in [Domains -> SUBSET Instances] /\ Deliver(id, c, [id |-> id, batch |-> batch])
    BY <1>11 DEF FetchTaken, AgentMayInsert
  <2> QED BY <1>10, <2>1, <2>2, <2>3
<1>12. ASSUME NEW id \in Ids, FetchRefused(id) PROVE TypeOK'
  BY <1>12, <1>10, CheckIsError DEF FetchRefused
<1>13. ASSUME NEW id \in Ids, NEW t \in Thrown(ValueCodes), FetchThrows(id, t) PROVE TypeOK'
  BY <1>13, <1>10, ThrownIsNoValue DEF FetchThrows, AgentMayInsert
<1>14. CASE FetchReturns
  BY <1>14 DEF FetchReturns, Answer, storeVars, fetchVars
<1>15. CASE AgentInserts
  BY <1>15 DEF AgentInserts, AgentMayInsert, storeVars, fetchVars
<1>16. CASE UNCHANGED vars
  BY <1>16 DEF vars
<1> QED
  BY <1>1, <1>2, <1>3, <1>4, <1>5, <1>6, <1>7, <1>8, <1>9, <1>11, <1>12, <1>13, <1>14,
     <1>15, <1>16 DEF Next, Run

\* The variables of the data callbacks keep to their types.
THEOREM DispatchTypeCorrect == Spec => []TypeOK
BY TypeInit, TypeStep, PTL DEF Spec
-----------------------------------------------------------------------------
(* on_store.                                                               *)

\* The instances a validated value named are still there later: live only grows.
StoreInv == TypeOK /\ StoreInOrder /\ AnyStoredRight /\ OnlyStorableReachAgent

\* Nothing is stored at first.
LEMMA StoreInit == Init => StoreInv
<1> SUFFICES ASSUME Init PROVE StoreInv
  OBVIOUS
<1>1. Len(applied) = 0 /\ position = 1 /\ ~any_stored
  BY DEF Init
<1> QED
  BY <1>1, TypeInit DEF StoreInv, StoreInOrder, AnyStoredRight, OnlyStorableReachAgent

\* A step that leaves the request alone keeps what has been said of it.
LEMMA StoreUntouched ==
  ASSUME StoreInv, TypeOK', UNCHANGED storeVars,
         \A d \in Domains : live[d] \subseteq live'[d]
  PROVE  StoreInv'
<1>1. StoreInOrder' /\ AnyStoredRight'
  BY DEF StoreInv, StoreInOrder, AnyStoredRight, storeVars
<1>2. OnlyStorableReachAgent'
  <2> SUFFICES ASSUME NEW i \in 1..Len(applied)
               PROVE  LET id == applied[i]
                      IN  /\ id[1] \in DOMAIN supported_metrics
                          /\ supported_metrics[id[1]].storable
                          /\ IF supported_metrics[id[1]].domain = NoDomain
                             THEN id[2] = PM_INDOM_NULL
                             ELSE id[2] \in live'[supported_metrics[id[1]].domain]
    BY DEF OnlyStorableReachAgent, storeVars
  <2>1. applied[i][1] \in DOMAIN supported_metrics =>
          supported_metrics[applied[i][1]].domain \in Domains \cup {NoDomain}
    BY DispatchAssumption
  <2> QED BY <2>1 DEF StoreInv, OnlyStorableReachAgent
<1> QED
  BY <1>1, <1>2 DEF StoreInv

\* Every step keeps what is said of the store under way.
LEMMA StoreStep == StoreInv /\ [Next]_vars => StoreInv'
<1> SUFFICES ASSUME StoreInv, [Next]_vars PROVE StoreInv'
  OBVIOUS
<1>1. TypeOK /\ TypeOK'
  BY TypeStep DEF StoreInv
<1>2. ASSUME NEW result, StoreLocals(result) PROVE StoreInv'
  <2>1. applied' = <<>> /\ position' = 1 /\ any_stored' = FALSE
    BY <1>2 DEF StoreLocals
  <2> QED BY <1>1, <2>1 DEF StoreInv, StoreInOrder, AnyStoredRight, OnlyStorableReachAgent
<1>3. CASE StoreTaken
  <2> DEFINE id == request[position]
             n == Len(applied)
  <2>1. /\ n = position - 1 /\ n \in Nat /\ id \in Ids /\ applied \in Seq(Ids)
    BY <1>1, <1>3 DEF StoreInv, StoreInOrder, StoreTaken, TypeOK
  <2>2. /\ applied' = Append(applied, id) /\ position' = position + 1
        /\ request' = request /\ any_stored' = TRUE /\ StoreCheck(id) = 0
        /\ \A d \in Domains : live[d] \subseteq live'[d]
    BY <1>3 DEF StoreTaken, AgentMayInsert
  <2>3. /\ Len(applied') = n + 1
        /\ \A i \in 1..n : applied'[i] = applied[i]
        /\ applied'[n + 1] = id
    BY <2>1, <2>2
  <2>4. StoreInOrder' /\ AnyStoredRight'
    <3>1. Len(applied') = position' - 1
      BY <1>1, <2>1, <2>2, <2>3 DEF TypeOK
    <3>2. \A i \in 1..n : applied[i] = request[i]
      BY DEF StoreInv, StoreInOrder
    <3>3. position = n + 1
      BY <1>1, <2>1 DEF TypeOK
    <3>4. \A i \in 1..(n + 1) : applied'[i] = request'[i]
      BY <2>1, <2>2, <2>3, <3>2, <3>3
    <3>5. StoreInOrder'
      BY <2>3, <3>1, <3>4 DEF StoreInOrder
    <3>6. any_stored' /\ Len(applied') > 0
      BY <2>1, <2>2, <2>3
    <3> QED BY <3>5, <3>6 DEF AnyStoredRight
  <2>5. /\ id[1] \in DOMAIN supported_metrics
        /\ supported_metrics[id[1]].storable
        /\ IF supported_metrics[id[1]].domain = NoDomain
           THEN id[2] = PM_INDOM_NULL
           ELSE id[2] \in live[supported_metrics[id[1]].domain]
    <3> HIDE DEF id
    <3> QED BY <2>2 DEF StoreCheck, FetchCheck, validate_instance, PM_ERR_PMID, PM_ERR_INDOM,
                    PM_ERR_INST, PM_ERR_PERMISSION
  <2>6. \A m \in DOMAIN supported_metrics :
          supported_metrics[m].domain \in Domains \cup {NoDomain}
    BY DispatchAssumption
  <2>7. OnlyStorableReachAgent'
    <3> SUFFICES ASSUME NEW i \in 1..(n + 1)
                 PROVE  LET x == applied'[i]
                        IN  /\ x[1] \in DOMAIN supported_metrics
                            /\ supported_metrics[x[1]].storable
                            /\ IF supported_metrics[x[1]].domain = NoDomain
                               THEN x[2] = PM_INDOM_NULL
                               ELSE x[2] \in live'[supported_metrics[x[1]].domain]
      BY <2>3 DEF OnlyStorableReachAgent
    <3>1. CASE i = n + 1
      <4> HIDE DEF id
      <4> QED BY <3>1, <2>2, <2>3, <2>5, <2>6
    <3>2. CASE i \in 1..n
      BY <3>2, <2>2, <2>3, <2>6 DEF StoreInv, OnlyStorableReachAgent
    <3> QED BY <3>1, <3>2, <2>1
  <2> QED BY <1>1, <2>4, <2>7 DEF StoreInv
<1>4. CASE UNCHANGED storeVars /\ (UNCHANGED live \/ AgentMayInsert)
  BY <1>1, <1>4, StoreUntouched DEF AgentMayInsert
<1> QED
  BY <1>2, <1>3, <1>4 DEF Next, Run, OnStore, OnFetch, StoreRefused, StoreThrows, StoreReturns,
     FetchBegun, AgentInserts, BeginThrows, BeginEscapes, FetchTaken, FetchRefused, FetchThrows,
     Deliver, FetchReturns, fetchVars, storeVars, vars

\* For any request, store_value is given its values one by one, in order, and
\* nothing after a value that failed.
THEOREM StoresInOrder == Spec => []StoreInOrder
<1>1. StoreInv => StoreInOrder
  BY DEF StoreInv
<1> QED BY <1>1, StoreInit, StoreStep, PTL DEF Spec

\* The agent is asked to store into nothing but its storable metrics, and for
\* instances it holds.
THEOREM OnlyStorable == Spec => []OnlyStorableReachAgent
<1>1. StoreInv => OnlyStorableReachAgent
  BY DEF StoreInv
<1> QED BY <1>1, StoreInit, StoreStep, PTL DEF Spec

\* When on_store returns, its status says whether it has stored all there was.
LEMMA StoreReturnsRight ==
  ASSUME NegativeCodes, StoreInv, Next, ReturnsFromStore
  PROVE  rc' >= 0 <=> (applied' = request /\ request # <<>>)
<1> USE DEF ReturnsFromStore
<1>1. TypeOK /\ Len(applied) = position - 1
  BY DEF StoreInv, StoreInOrder
<1>2. CASE StoreRefused
  <2>1. request[position] \in Ids /\ StoreCheck(request[position]) # 0
    BY <1>1, <1>2 DEF StoreRefused, TypeOK
  <2>2. rc' < 0 /\ rc' \in Int
    BY <1>2, <2>1, CheckIsError DEF StoreRefused, Answer
  <2>3. applied' # request
    BY <1>1, <1>2 DEF StoreRefused, storeVars, TypeOK
  <2> QED BY <2>2, <2>3
<1>3. ASSUME NEW t \in Thrown(AgentCodes), StoreThrows(t)
      PROVE  rc' >= 0 <=> (applied' = request /\ request # <<>>)
  <2>1. rc' < 0 /\ rc' \in Int
    BY <1>3, ThrownIsError DEF StoreThrows, Answer
  <2>2. applied' # request
    BY <1>1, <1>3 DEF StoreThrows, storeVars, TypeOK
  <2> QED BY <2>1, <2>2
<1>4. CASE StoreReturns
  <2>1. Len(applied) = Len(request)
    BY <1>1, <1>4 DEF StoreReturns, TypeOK
  <2>2. applied = request
    BY <1>1, <2>1, SeqEqual DEF StoreInv, StoreInOrder, TypeOK
  <2>3. any_stored <=> request # <<>>
    BY <1>1, <2>2 DEF StoreInv, AnyStoredRight, TypeOK
  <2> QED BY <1>4, <2>2, <2>3 DEF StoreReturns, Answer, storeVars, PM_ERR_PERMISSION
<1> QED BY <1>2, <1>3, <1>4 DEF Next, Run, OnStore, OnFetch, StoreTaken, FetchBegun, AgentInserts,
           BeginThrows, BeginEscapes, FetchTaken, FetchRefused, FetchThrows, Deliver, FetchReturns

\* on_store answers with success exactly when it has stored all there was, if
\* the agent throws error codes only.
THEOREM StoreSuccess == ASSUME NegativeCodes PROVE Spec => StoreSuccessMeansAll
<1>1. StoreInv /\ [Next]_vars =>
        [ReturnsFromStore => (rc' >= 0 <=> (applied' = request /\ request # <<>>))]_vars
  BY StoreReturnsRight
<1> QED
  BY <1>1, StoreInit, StoreStep, PTL DEF Spec, StoreSuccessMeansAll
-----------------------------------------------------------------------------
(* on_fetch_callback.                                                      *)

\* Every step keeps the delivered values fresh, if codes thrown are negative.
LEMMA FetchStep ==
  ASSUME NegativeCodes, TypeOK, DeliveredFresh, [Next]_vars
  PROVE  DeliveredFresh'
<1>1. CASE FetchLocals
  BY <1>1 DEF FetchLocals, NoReply, DeliveredFresh
<1>2. ASSUME NEW id \in Ids, NEW code \in Int, code <= PMDA_FETCH_NOVALUES,
             Deliver(id, code, atom)
      PROVE  DeliveredFresh'
  <2>1. delivered' = delivered /\ batch' = batch
    BY <1>2 DEF Deliver, PMDA_FETCH_NOVALUES
  <2> QED BY <2>1 DEF DeliveredFresh
<1>3. ASSUME NEW id \in Ids, NEW c \in FetchCodes, FetchTaken(id, c)
      PROVE  DeliveredFresh'
  <2> DEFINE value == [id |-> id, batch |-> batch]
  <2>1. batch' = batch /\
        delivered' = IF c > PMDA_FETCH_NOVALUES
                     THEN [i \in DOMAIN delivered \cup {id} |->
                             IF i = id THEN value ELSE delivered[i]]
                     ELSE delivered
    BY <1>3 DEF FetchTaken, Deliver
  <2> QED BY <2>1 DEF DeliveredFresh
<1>4. ASSUME NEW id \in Ids, FetchRefused(id) PROVE DeliveredFresh'
  BY <1>2, <1>4, CheckIsError DEF FetchRefused, PMDA_FETCH_NOVALUES
<1>5. ASSUME NEW id \in Ids, NEW t \in Thrown(ValueCodes), FetchThrows(id, t) PROVE DeliveredFresh'
  BY <1>2, <1>5, ThrownIsNoValue DEF FetchThrows
<1>6. CASE UNCHANGED <<batch, delivered>>
  BY <1>6 DEF DeliveredFresh
<1> QED
  BY <1>1, <1>3, <1>4, <1>5, <1>6 DEF Next, Run, OnStore, OnFetch, StoreRefused, StoreTaken,
     StoreThrows, StoreReturns, FetchBegun, AgentInserts, BeginThrows, BeginEscapes,
     FetchReturns, fetchVars, vars

\* Every value a client gets was fetched for it, in this fetch, if the agent
\* throws error codes only.
THEOREM FetchesFresh == ASSUME NegativeCodes PROVE Spec => []DeliveredFresh
<1>1. Init => DeliveredFresh
  BY DEF Init, NoReply, DeliveredFresh
<1>2. TypeOK /\ DeliveredFresh /\ [Next]_vars => DeliveredFresh'
  BY FetchStep
<1> QED
  BY <1>1, <1>2, DispatchTypeCorrect, PTL DEF Spec

-----------------------------------------------------------------------------
(* Dispatch implements Requests.                                           *)

\* A check that passes finds the metric, and the instance in its domain.
LEMMA CheckedIsThere ==
  ASSUME NEW id \in Ids, FetchCheck(id) = 0
  PROVE  Client!There(id)
BY DispatchAssumption DEF FetchCheck, validate_instance, Client!There, PM_ERR_PMID,
                          PM_ERR_INDOM, PM_ERR_INST

\* What is there remains when domains grow.
LEMMA ThereRemains ==
  ASSUME NEW id, Client!There(id), \A d \in Domains : live[d] \subseteq live'[d]
  PROVE  Client!There(id)'
<1>1. id[1] \in DOMAIN supported_metrics =>
        supported_metrics[id[1]].domain \in Domains \cup {NoDomain}
  BY DispatchAssumption
<1> QED BY <1>1 DEF Client!There

\* A fetch has stored nothing, a store replies with no values, and what is in a
\* reply belongs to a metric and an instance that are there.
OutcomeInv ==
  /\ pc \in {"store", "begin"} => delivered = NoReply
  /\ pc \in {"begin", "fetch"} => applied = <<>> /\ request = <<>>
  /\ \A id \in DOMAIN delivered : Client!There(id)

\* The whole invariant of the data path.
CallbacksInv == StoreInv /\ DeliveredFresh /\ OutcomeInv

\* No domain loses an instance.
LEMMA DomainsGrow ==
  ASSUME TypeOK, [Next]_vars
  PROVE  \A d \in Domains : live[d] \subseteq live'[d]
BY DEF Next, Run, OnStore, OnFetch, StoreRefused, StoreTaken, StoreThrows, StoreReturns,
   FetchBegun, AgentInserts, BeginThrows, BeginEscapes, FetchTaken, FetchRefused, FetchThrows,
   FetchReturns, Deliver, AgentMayInsert, vars

\* Nothing is in a reply at first.
LEMMA OutcomeInit == Init => OutcomeInv
BY DEF Init, OutcomeInv, NoReply

\* Every step keeps what is said of outcomes.
LEMMA OutcomeStep ==
  ASSUME NegativeCodes, TypeOK, OutcomeInv, [Next]_vars
  PROVE  OutcomeInv'
<1>1. \A id : Client!There(id) => Client!There(id)'
  BY DomainsGrow, ThereRemains
<1>2. CASE UNCHANGED <<request, applied, delivered>> /\ (pc' = pc \/ pc' \in {"idle", "terminated"})
  BY <1>1, <1>2 DEF OutcomeInv
<1>3. CASE StoreTaken
  BY <1>1, <1>3 DEF OutcomeInv, StoreTaken, fetchVars
<1>4. ASSUME NEW result, StoreLocals(result) /\ FetchLocals /\ pc' \in {"store", "begin"},
             pc' = "begin" => result = <<>>
      PROVE  OutcomeInv'
  BY <1>4 DEF OutcomeInv, StoreLocals, FetchLocals, NoReply
<1>5. ASSUME NEW list \in SUBSET Askable, FetchBegun(list) PROVE OutcomeInv'
  BY <1>1, <1>5 DEF OutcomeInv, FetchBegun, storeVars
<1>6. ASSUME NEW id \in Ids, NEW value, NEW c, Deliver(id, c, value), pc = "fetch",
             c > PMDA_FETCH_NOVALUES => Client!There(id)
      PROVE  OutcomeInv'
  <2>1. DOMAIN delivered' \subseteq DOMAIN delivered \cup
          (IF c > PMDA_FETCH_NOVALUES THEN {id} ELSE {})
    BY <1>6 DEF Deliver
  <2>2. UNCHANGED <<pc, request, applied>>
    BY <1>6 DEF Deliver, storeVars
  <2> QED BY <1>1, <1>6, <2>1, <2>2 DEF OutcomeInv
<1>7. ASSUME NEW id \in Ids, NEW c \in FetchCodes, FetchTaken(id, c) PROVE OutcomeInv'
  BY <1>6, <1>7, CheckedIsThere DEF FetchTaken
<1>8. ASSUME NEW id \in Ids, FetchRefused(id) PROVE OutcomeInv'
  BY <1>6, <1>8, CheckIsError DEF FetchRefused, PMDA_FETCH_NOVALUES
<1>9. ASSUME NEW id \in Ids, NEW t \in Thrown(ValueCodes), FetchThrows(id, t) PROVE OutcomeInv'
  BY <1>6, <1>9, ThrownIsNoValue, CheckedIsThere DEF FetchThrows
<1>10. ASSUME NEW result, OnStore(result) PROVE OutcomeInv'
  BY <1>4, <1>10 DEF OnStore
<1>11. CASE OnFetch
  BY <1>4, <1>11 DEF OnFetch
<1>12. CASE \/ StoreRefused \/ StoreReturns \/ AgentInserts \/ FetchReturns \/ UNCHANGED vars
            \/ \E t \in Thrown(AgentCodes) : StoreThrows(t) \/ BeginThrows(t) \/ BeginEscapes(t)
  BY <1>2, <1>12 DEF StoreRefused, StoreThrows, StoreReturns, BeginThrows, BeginEscapes,
     AgentInserts, FetchReturns, Answer, storeVars, fetchVars, vars
<1> QED
  BY <1>3, <1>5, <1>7, <1>8, <1>9, <1>10, <1>11, <1>12 DEF Next, Run

\* Each step of the callbacks is a step of Requests, or none.
LEMMA StepServes ==
  ASSUME NegativeCodes, CallbacksInv, [Next]_vars
  PROVE  Client!Next
<1> USE DEF CallbacksInv
<1>1. TypeOK /\ TypeOK' /\ \A d \in Domains : live[d] \subseteq live'[d]
  BY TypeStep, DomainsGrow DEF StoreInv
<1>2. live' \in [Domains -> SUBSET Instances]
  BY <1>1 DEF TypeOK
<1> DEFINE stored == IF pc = "idle" THEN applied ELSE <<>>
           reply  == IF pc = "idle" THEN delivered ELSE NoReply
           code   == IF pc = "idle" THEN rc ELSE 0
<1>3. CASE UNCHANGED <<pc, request, batch>> /\ (pc = "idle" => UNCHANGED <<applied, delivered, rc>>)
  BY <1>1, <1>2, <1>3 DEF Client!Next
<1>4. ASSUME NEW result \in StoreRequests, OnStore(result) PROVE Client!AskStore
  BY <1>4, RequestsAreSeqs DEF OnStore, StoreLocals, FetchLocals, Client!AskStore, Client!Open,
     Client!Outcome, Client!NoReply, NoReply
<1>5. ASSUME ReturnsFromStore, Next, UNCHANGED <<applied, request, batch, delivered>>
      PROVE  Client!AnswerStore
  <2> DEFINE n == Len(applied)
  <2>1. /\ applied \in Seq(Ids) /\ request \in Seq(Ids) /\ n \in 0..Len(request)
        /\ \A i \in 1..n : applied[i] = request[i]
    BY <1>1 DEF TypeOK, StoreInv, StoreInOrder
  <2>2. applied = SubSeq(request, 1, n)
    BY <2>1, SubSeqProperties, SeqEqual
  <2>3. \A i \in 1..n : Client!There(request[i]) /\ supported_metrics[request[i][1]].storable
    BY <2>1 DEF StoreInv, OnlyStorableReachAgent, Client!There
  <2>4. rc' >= 0 <=> n = Len(request) /\ n > 0
    <3>1. rc' >= 0 <=> (applied = request /\ request # <<>>)
      BY <1>5, StoreReturnsRight
    <3>2. n = Len(request) => applied = request
      BY <2>1, SeqEqual
    <3>3. request # <<>> <=> Len(request) > 0
      BY <2>1
    <3> QED BY <2>1, <3>1, <3>2, <3>3
  <2>5. pc = "store" /\ pc' = "idle" /\ delivered' = Client!NoReply /\ rc' \in Int
    BY <1>1, <1>5 DEF ReturnsFromStore, OutcomeInv, NoReply, Client!NoReply, TypeOK
  <2>6. stored' = SubSeq(request, 1, n) /\ reply' = Client!NoReply /\ code' = rc'
    BY <1>5, <2>2, <2>5
  <2>7. /\ \A i \in 1..n : Client!There(request[i]) /\ supported_metrics[request[i][1]].storable
        /\ code' \in Int /\ (code' >= 0 <=> n = Len(request) /\ n > 0)
        /\ Client!Outcome(SubSeq(request, 1, n), Client!NoReply, code')
    BY <2>3, <2>4, <2>5, <2>6 DEF Client!Outcome
  <2> HIDE DEF n
  <2> QED BY <1>5, <2>1, <2>5, <2>7 DEF Client!AnswerStore
<1>6. ASSUME OnFetch PROVE Client!AskFetch
  BY <1>6 DEF OnFetch, StoreLocals, FetchLocals, Client!AskFetch, Client!Open, Client!Outcome,
     Client!NoReply, NoReply
<1>7. ASSUME NEW list, FetchBegun(list) PROVE Client!Prepare
  BY <1>7 DEF FetchBegun, storeVars, Client!Prepare
<1>8. ASSUME NEW t \in Thrown(AgentCodes), BeginThrows(t) PROVE Client!RefuseFetch
  <2>1. rc' = CodeOf(t)
    BY <1>8 DEF BeginThrows, Answer, CodeOf
  <2>2. rc' \in Int /\ rc' < 0
    BY <2>1, ThrownIsError
  <2>3. applied' = <<>> /\ delivered' = Client!NoReply
    BY <1>8 DEF BeginThrows, OutcomeInv, NoReply, Client!NoReply, storeVars, fetchVars
  <2> QED BY <1>8, <2>2, <2>3 DEF BeginThrows, Answer, storeVars, fetchVars,
             Client!RefuseFetch, Client!Outcome
<1>9. ASSUME FetchReturns PROVE Client!AnswerFetch
  <2>1. applied' = <<>>
    BY <1>9 DEF FetchReturns, OutcomeInv, storeVars
  <2>2. pc = "fetch" /\ pc' = "idle" /\ rc' = 0 /\ UNCHANGED <<request, batch, delivered>>
    BY <1>9 DEF FetchReturns, Answer, storeVars, fetchVars
  <2>3. stored' = <<>> /\ reply' = delivered /\ code' = 0
    BY <2>1, <2>2
  <2>4. \A id \in DOMAIN delivered :
          Client!There(id) /\ delivered[id] = [id |-> id, batch |-> batch]
    BY DEF OutcomeInv, DeliveredFresh
  <2> QED BY <2>2, <2>3, <2>4 DEF Client!AnswerFetch, Client!Outcome
<1>10. ASSUME NEW t, BeginEscapes(t) PROVE Client!Die
  BY <1>10 DEF BeginEscapes, storeVars, fetchVars, Client!Die
<1>11. ASSUME NEW t, StoreThrows(t), Next PROVE Client!AnswerStore
  <2>1. ReturnsFromStore /\ UNCHANGED <<applied, request, batch, delivered>>
    BY <1>11 DEF StoreThrows, Answer, ReturnsFromStore, storeVars, fetchVars
  <2> QED BY <1>5, <1>11, <2>1
<1>12. ASSUME Next, StoreRefused \/ StoreReturns PROVE Client!AnswerStore
  <2>1. ReturnsFromStore /\ UNCHANGED <<applied, request, batch, delivered>>
    BY <1>12 DEF StoreRefused, StoreReturns, Answer, ReturnsFromStore, storeVars, fetchVars
  <2> QED BY <1>5, <1>12, <2>1
<1>13. CASE \/ StoreTaken \/ AgentInserts \/ UNCHANGED vars
            \/ \E id \in Ids, c \in FetchCodes : FetchTaken(id, c)
            \/ \E id \in Ids : FetchRefused(id)
            \/ \E id \in Ids, t \in Thrown(ValueCodes) : FetchThrows(id, t)
  BY <1>3, <1>13 DEF StoreTaken, AgentInserts, FetchTaken, FetchRefused, FetchThrows, Deliver,
     storeVars, fetchVars, vars
<1> QED
  BY <1>1, <1>2, <1>4, <1>6, <1>7, <1>8, <1>9, <1>10, <1>11, <1>12, <1>13
     DEF Next, Run, Client!Next

\* For any agent whose exceptions carry errors, any metrics and instances, and
\* requests of any length: the callbacks implement Requests.  Whatever happens on
\* the way, a client sees one outcome per request.
THEOREM RequestsServed == ASSUME NegativeCodes PROVE Spec => ServesRequests
<1>1. Init => Client!Init
  BY DEF Init, Client!Init, Client!NoReply, NoReply, Pending
<1>2. Init => CallbacksInv
  BY StoreInit, OutcomeInit DEF CallbacksInv, Init, NoReply, DeliveredFresh
<1>3. CallbacksInv /\ [Next]_vars => CallbacksInv'
  BY StoreStep, FetchStep, OutcomeStep DEF CallbacksInv, StoreInv
<1>4. CallbacksInv /\ [Next]_vars => [Client!Next]_(Client!vars)
  BY StepServes
<1> QED
  BY <1>1, <1>2, <1>3, <1>4, PTL DEF Spec, ServesRequests, Client!Spec
-----------------------------------------------------------------------------
(* Agents whose exceptions come from pcp::cache.                           *)

Cache == INSTANCE Cache

\* A pmdaCache: names have one id each, and entries are active or not.
IsCache(entries) ==
  /\ \A n \in DOMAIN entries :
       entries[n].status \in {Cache!PMDA_CACHE_ACTIVE, Cache!PMDA_CACHE_INACTIVE}
  /\ \A m, n \in DOMAIN entries : entries[m].id = entries[n].id => m = n

\* The entries that a lookup by one of these ids or names finds.
Sought(entries, ids, names) ==
  {n \in DOMAIN entries : n \in names \/ entries[n].id \in ids}

\* A lookup that finds one entry throws its status if it is not active and has to
\* be, and nothing else.
LEMMA OneLookup ==
  ASSUME NEW entries, IsCache(entries), NEW n \in DOMAIN entries, NEW f \in Cache!Flags
  PROVE  /\ Cache!LookedUp(entries, {n}, f).thrown <=>
               f = Cache!require_active /\ n \notin Cache!Active(entries)
         /\ Cache!LookedUp(entries, {n}, f).thrown =>
               Cache!LookedUp(entries, {n}, f).code = Cache!PMDA_CACHE_INACTIVE
<1>1. (CHOOSE m \in {n} : TRUE) = n /\ {n} # {}
  OBVIOUS
<1>2. CASE f = Cache!require_active /\ entries[n].status # Cache!PMDA_CACHE_ACTIVE
  <2>1. Cache!LookedUp(entries, {n}, f) = Cache!Throws(entries[n].status)
    BY <1>1, <1>2 DEF Cache!LookedUp
  <2> QED BY <1>2, <2>1 DEF Cache!Throws, Cache!Active, IsCache
<1>3. CASE ~(f = Cache!require_active /\ entries[n].status # Cache!PMDA_CACHE_ACTIVE)
  <2>1. Cache!LookedUp(entries, {n}, f) = Cache!Returned(entries[n].opaque)
    BY <1>1, <1>3 DEF Cache!LookedUp
  <2> QED BY <1>3, <2>1 DEF Cache!Returned, Cache!Active
<1> QED BY <1>2, <1>3

\* A lookup that finds nothing throws PM_ERR_INST.
LEMMA NoLookup ==
  ASSUME NEW entries, NEW f
  PROVE  /\ Cache!LookedUp(entries, {}, f).thrown
         /\ Cache!LookedUp(entries, {}, f).code < 0
BY DEF Cache!LookedUp, Cache!Throws, Cache!PM_ERR_INST

\* What a lookup finds is one entry that it sought, or nothing.
LEMMA FoundOne ==
  ASSUME NEW entries, IsCache(entries), NEW x
  PROVE  /\ LET byId == {n \in DOMAIN entries : entries[n].id = x}
            IN  byId = {} \/ \E n \in DOMAIN entries : byId = {n} /\ entries[n].id = x
         /\ LET byName == {n \in DOMAIN entries : n = x}
            IN  byName = {} \/ \E n \in DOMAIN entries : byName = {n} /\ n = x
<1> DEFINE byId == {n \in DOMAIN entries : entries[n].id = x}
<1>1. ASSUME byId # {} PROVE \E n \in DOMAIN entries : byId = {n} /\ entries[n].id = x
  <2>1. PICK n \in DOMAIN entries : entries[n].id = x
    BY <1>1
  <2>2. byId = {n}
    BY <2>1 DEF IsCache
  <2> QED BY <2>1, <2>2
<1> QED BY <1>1

\* The lookups of an agent throw nothing but errors exactly if every entry that
\* they find is active; an inactive one gives a positive code to the callback.
THEOREM LookupsThrowErrors ==
  ASSUME NEW entries, IsCache(entries), NEW ids, NEW names
  PROVE  (\A c \in Cache!LookupCodes(entries, ids, names) : c < 0)
           <=> Sought(entries, ids, names) \subseteq Cache!Active(entries)
<1> DEFINE codes    == Cache!LookupCodes(entries, ids, names)
           outcomes == {Cache!lookup(entries, i, f) : i \in ids, f \in Cache!Flags}
                         \cup {Cache!lookup_name(entries, n, f) : n \in names, f \in Cache!Flags}
<1>1. codes = {o.code : o \in {p \in outcomes : p.thrown}}
  BY DEF Cache!LookupCodes
<1>2. \A o \in outcomes : o.thrown => o.code \in codes
  BY <1>1
<1>3. \A c \in codes : \E o \in outcomes : o.thrown /\ c = o.code
  BY <1>1
<1> HIDE DEF codes
<1>4. ASSUME Sought(entries, ids, names) \subseteq Cache!Active(entries), NEW o \in outcomes,
             o.thrown
      PROVE  o.code < 0
  <2>1. \E found : \E f \in Cache!Flags :
           /\ o = Cache!LookedUp(entries, found, f)
           /\ found = {} \/ \E n \in Sought(entries, ids, names) : found = {n}
    <3>1. CASE \E i \in ids, f \in Cache!Flags : o = Cache!lookup(entries, i, f)
      <4>1. PICK i \in ids, f \in Cache!Flags : o = Cache!lookup(entries, i, f)
        BY <3>1
      <4> DEFINE found == {n \in DOMAIN entries : entries[n].id = i}
      <4>2. o = Cache!LookedUp(entries, found, f)
        BY <4>1 DEF Cache!lookup
      <4>3. found = {} \/ \E n \in DOMAIN entries : found = {n} /\ entries[n].id = i
        BY FoundOne
      <4> HIDE DEF found
      <4>4. found = {} \/ \E n \in Sought(entries, ids, names) : found = {n}
        BY <4>1, <4>3 DEF Sought
      <4> QED BY <4>1, <4>2, <4>4
    <3>2. CASE \E n \in names, f \in Cache!Flags : o = Cache!lookup_name(entries, n, f)
      <4>1. PICK x \in names, f \in Cache!Flags : o = Cache!lookup_name(entries, x, f)
        BY <3>2
      <4> DEFINE found == {n \in DOMAIN entries : n = x}
      <4>2. o = Cache!LookedUp(entries, found, f)
        BY <4>1 DEF Cache!lookup_name
      <4>3. found = {} \/ \E n \in DOMAIN entries : found = {n} /\ n = x
        BY FoundOne
      <4> HIDE DEF found
      <4>4. found = {} \/ \E n \in Sought(entries, ids, names) : found = {n}
        BY <4>1, <4>3 DEF Sought
      <4> QED BY <4>1, <4>2, <4>4
    <3> QED BY <3>1, <3>2
  <2>2. PICK found, f : /\ f \in Cache!Flags /\ o = Cache!LookedUp(entries, found, f)
                        /\ found = {} \/ \E n \in Sought(entries, ids, names) : found = {n}
    BY <2>1
  <2>3. CASE found = {}
    BY <2>2, <2>3, NoLookup
  <2>4. ASSUME NEW n \in Sought(entries, ids, names), found = {n} PROVE FALSE
    <3>1. n \in DOMAIN entries /\ n \in Cache!Active(entries)
      BY <1>4 DEF Sought
    <3> QED BY <1>4, <2>2, <2>4, <3>1, OneLookup
  <2> QED BY <2>2, <2>3, <2>4
<1>5. ASSUME NEW n \in Sought(entries, ids, names), n \notin Cache!Active(entries)
      PROVE  \E c \in codes : ~(c < 0)
  <2>1. Cache!require_active \in Cache!Flags
    BY DEF Cache!require_active, Cache!Flags
  <2> DEFINE o == Cache!LookedUp(entries, {n}, Cache!require_active)
  <2>2. o.thrown /\ o.code = Cache!PMDA_CACHE_INACTIVE
    BY <1>5, <2>1, OneLookup DEF Sought
  <2>3. o \in outcomes
    <3>1. CASE n \in names
      BY <2>1, <3>1 DEF Cache!lookup_name, Sought
    <3>2. CASE entries[n].id \in ids
      <4>1. {m \in DOMAIN entries : entries[m].id = entries[n].id} = {n}
        BY DEF IsCache, Sought
      <4>2. o = Cache!lookup(entries, entries[n].id, Cache!require_active)
        BY <4>1 DEF Cache!lookup
      <4> QED BY <2>1, <3>2, <4>2
    <3> QED BY <3>1, <3>2 DEF Sought
  <2>4. o.code \in codes
    BY <1>2, <2>2, <2>3
  <2> QED BY <2>2, <2>4 DEF Cache!PMDA_CACHE_INACTIVE
<1> QED BY <1>2, <1>3, <1>4, <1>5 DEF codes

\* An agent that throws errors of its own, and passes on what lookups in a cache
\* throw, serves requests as promised if what it looks up is active or absent.
THEOREM CachedAgentsServe ==
  ASSUME NEW entries, IsCache(entries), NEW ids, NEW names, NEW errors,
         \A c \in errors : c < 0,
         AgentCodes = errors \cup Cache!LookupCodes(entries, ids, names),
         Sought(entries, ids, names) \subseteq Cache!Active(entries)
  PROVE  Spec => ServesRequests
<1>1. NegativeCodes
  BY LookupsThrowErrors DEF NegativeCodes
<1> QED BY <1>1, RequestsServed
=============================================================================
