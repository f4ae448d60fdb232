------------------------------ MODULE Dispatch ------------------------------
(***************************************************************************)
(* The data callbacks of pcp::pmda, called by libpcp_pmda, around the      *)
(* three functions an agent overrides: begin_fetch_values, fetch_value and *)
(* store_value.  A callback validates the ids it is given, calls the agent *)
(* and turns whatever the agent throws into a status code.                 *)
(*                                                                         *)
(* One thread runs it all, but a request is not one step: each call of the *)
(* agent may end in its own way and may add instances to the domains that  *)
(* the next value is validated against.                                    *)
(*                                                                         *)
(* Abstracted: a metric is its PMID; a value is where it came from; the    *)
(* value sets of a pmResult are flattened into one sequence of values, for *)
(* nothing happens between one value set and the next.                     *)
(***************************************************************************)
EXTENDS Integers, Sequences, FiniteSets

CONSTANTS
  PMIDs,              \* every PMID a client may ask for
  supported_metrics,  \* registered PMID |-> [domain, storable]
  Domains, NoDomain,  \* instance_domain objects, and the NULL pointer
  Instances,          \* instance ids
  PM_INDOM_NULL,      \* the instance id that says "no instance"
  AgentCodes,         \* codes of the pcp::exceptions the agent throws
  MaxValues,          \* bound: values in one store
  MaxBatch            \* bound: fetches begun

Ids == PMIDs \X (Instances \cup {PM_INDOM_NULL})

ASSUME DispatchAssumption ==
  /\ DOMAIN supported_metrics \subseteq PMIDs
  /\ NoDomain \notin Domains
  /\ PM_INDOM_NULL \notin Instances
  /\ supported_metrics \in [DOMAIN supported_metrics ->
                              [domain : Domains \cup {NoDomain}, storable : BOOLEAN]]
  /\ AgentCodes \subseteq Int
  /\ MaxValues \in Nat /\ MaxBatch \in Nat

VARIABLES
  pc,         \* which callback is running, and where it is
  live,       \* the instances each instance_domain object holds
  request,    \* the values to store, in order
  position,   \* index of the value on_store is at
  any_stored,
  applied,    \* values store_value has taken in this request, in order
  batch,      \* number of begin_fetch_values calls so far
  todo,       \* what pmdaFetch has yet to ask for
  atom,       \* pmdaFetch's pmAtomValue: the id and batch it was last set for
  delivered,  \* id |-> the atom pmdaFetch put in the reply
  rc          \* what the last callback returned

vars == <<pc, live, request, position, any_stored, applied,
          batch, todo, atom, delivered, rc>>

storeVars == <<request, position, any_stored, applied>>
fetchVars == <<batch, todo, atom, delivered>>
-----------------------------------------------------------------------------
(* Codes of pmapi.h and pmda.h: errors are negative.                       *)

PM_ERR_GENERIC    == -12345
PM_ERR_PMID       == -12357
PM_ERR_INST       == -12359
PM_ERR_INDOM      == -12360
PM_ERR_PERMISSION == -12387
PMDA_FETCH_NOVALUES == 0
PMDA_FETCH_STATIC   == 1
PMDA_FETCH_DYNAMIC  == 2
Pending == -1            \* no callback has returned yet

FetchCodes == {PMDA_FETCH_NOVALUES, PMDA_FETCH_STATIC, PMDA_FETCH_DYNAMIC}

\* What the agent may throw: a pcp::exception with a code, a std::out_of_range,
\* another std::exception, or something else.
Thrown(codes) == {[how |-> "pcp", code |-> c] : c \in codes}
          \cup {[how |-> h, code |-> 0] : h \in {"out_of_range", "std", "unknown"}}

\* fetch_value is told to throw PMDA_FETCH_NOVALUES where it has no value.
ValueCodes == AgentCodes \cup {PMDA_FETCH_NOVALUES}

\* The catch clauses of on_fetch_callback and on_store.
CodeOf(thrown) ==
  CASE thrown.how = "pcp"          -> thrown.code
    [] thrown.how = "out_of_range" -> PM_ERR_PMID
    [] OTHER                       -> PM_ERR_GENERIC

NoAtom == [id |-> <<>>, batch |-> 0]
NoReply == [id \in {} |-> NoAtom]

TypeOK ==
  /\ pc \in {"idle", "store", "begin", "fetch", "terminated"}
  /\ live \in [Domains -> SUBSET Instances]
  /\ request \in Seq(Ids)
  /\ position \in 1..(Len(request) + 1)
  /\ any_stored \in BOOLEAN
  /\ applied \in Seq(Ids)
  /\ batch \in 0..MaxBatch
  /\ todo \subseteq Ids
  /\ atom = NoAtom \/ atom \in [id : Ids, batch : 0..MaxBatch]
  /\ DOMAIN delivered \subseteq Ids
  /\ rc \in Int
-----------------------------------------------------------------------------
(* What is checked before the agent is called.                             *)

\* validate_instance: 0, or the code it throws.
validate_instance(description, instance) ==
  IF instance # PM_INDOM_NULL
  THEN IF description.domain = NoDomain THEN PM_ERR_INDOM
       ELSE IF instance \notin live[description.domain] THEN PM_ERR_INST ELSE 0
  ELSE IF description.domain # NoDomain THEN PM_ERR_INDOM ELSE 0

\* supported_metrics.at(cluster).at(item), then validate_instance.
FetchCheck(id) ==
  IF id[1] \notin DOMAIN supported_metrics THEN PM_ERR_PMID
  ELSE validate_instance(supported_metrics[id[1]], id[2])

\* Mutant: the storable flag is not looked at.
StoreCheckUnflagged(id) == FetchCheck(id)

\* The same, and then the storable flag.
StoreCheck(id) ==
  IF FetchCheck(id) # 0 THEN FetchCheck(id)
  ELSE IF ~supported_metrics[id[1]].storable THEN PM_ERR_PERMISSION ELSE 0

\* While it runs, the agent may add instances to its domains.
AgentMayInsert == live' \in {l \in [Domains -> SUBSET Instances] :
                               \A d \in Domains : live[d] \subseteq l[d]}
-----------------------------------------------------------------------------
Init ==
  /\ pc = "idle"
  /\ live \in [Domains -> SUBSET Instances]
  /\ request = <<>> /\ position = 1 /\ any_stored = FALSE /\ applied = <<>>
  /\ batch = 0 /\ todo = {} /\ atom = NoAtom /\ delivered = NoReply
  /\ rc = Pending

Answer(code) == rc' = code /\ pc' = "idle"

(* on_store.                                                               *)

\* The locals of a callback that has returned are gone.
StoreLocals(result) ==
  request' = result /\ position' = 1 /\ any_stored' = FALSE /\ applied' = <<>>
FetchLocals == todo' = {} /\ atom' = NoAtom /\ delivered' = NoReply

\* libpcp_pmda passes a client's pmResult to on_store.
OnStore(result) ==
  /\ pc = "idle"
  /\ StoreLocals(result) /\ FetchLocals
  /\ pc' = "store"
  /\ UNCHANGED <<live, batch, rc>>

\* The value at hand fails a check: the rest of the request is dropped.
StoreRefused ==
  /\ pc = "store" /\ position <= Len(request)
  /\ StoreCheck(request[position]) # 0
  /\ Answer(StoreCheck(request[position]))
  /\ UNCHANGED <<live, storeVars, fetchVars>>

\* Mutant: the index is advanced in the body and by the loop.
StoreTakenTwice ==
  /\ pc = "store" /\ position <= Len(request)
  /\ StoreCheck(request[position]) = 0
  /\ applied' = Append(applied, request[position])
  /\ any_stored' = TRUE
  /\ position' = position + 2
  /\ AgentMayInsert
  /\ UNCHANGED <<pc, request, fetchVars, rc>>

\* store_value takes the value at hand.
StoreTaken ==
  /\ pc = "store" /\ position <= Len(request)
  /\ StoreCheck(request[position]) = 0
  /\ applied' = Append(applied, request[position])
  /\ any_stored' = TRUE
  /\ position' = position + 1
  /\ AgentMayInsert
  /\ UNCHANGED <<pc, request, fetchVars, rc>>

\* Mutant: the exception is caught inside the loop, which goes on.
StoreThrowsOn(thrown) ==
  /\ pc = "store" /\ position <= Len(request)
  /\ StoreCheck(request[position]) = 0
  /\ position' = position + 1
  /\ AgentMayInsert
  /\ UNCHANGED <<pc, request, any_stored, applied, fetchVars, rc>>

\* store_value throws: the rest of the request is dropped.
StoreThrows(thrown) ==
  /\ pc = "store" /\ position <= Len(request)
  /\ StoreCheck(request[position]) = 0
  /\ Answer(CodeOf(thrown))
  /\ AgentMayInsert
  /\ UNCHANGED <<storeVars, fetchVars>>

\* Mutant: the return for a request that stored nothing is missing.
StoreReturnsStored ==
  /\ pc = "store" /\ position > Len(request) /\ any_stored
  /\ Answer(0)
  /\ UNCHANGED <<live, storeVars, fetchVars>>

\* Mutant: a request without a value to store succeeds.
StoreReturnsZero ==
  /\ pc = "store" /\ position > Len(request)
  /\ Answer(0)
  /\ UNCHANGED <<live, storeVars, fetchVars>>

\* No value is left; without any stored, pmdaStore refuses the request.
StoreReturns ==
  /\ pc = "store" /\ position > Len(request)
  /\ Answer(IF any_stored THEN 0 ELSE PM_ERR_PERMISSION)
  /\ UNCHANGED <<live, storeVars, fetchVars>>

(* on_fetch and on_fetch_callback.                                         *)

\* libpcp_pmda passes a fetch request to on_fetch.
OnFetch ==
  /\ pc = "idle" /\ batch < MaxBatch
  /\ StoreLocals(<<>>) /\ FetchLocals
  /\ batch' = batch + 1
  /\ pc' = "begin"
  /\ UNCHANGED <<live, rc>>

\* The instances pmdaFetch asks for: of the registered metrics, and for an
\* instance only where the metric has a domain.  It knows the domain's
\* instances from the indom table or from a pmdaCache, not from the object.
Askable == {id \in Ids : /\ id[1] \in DOMAIN supported_metrics
                         /\ id[2] = PM_INDOM_NULL <=>
                              supported_metrics[id[1]].domain = NoDomain}

\* begin_fetch_values returns, and pmdaFetch starts on the client's list.
FetchBegun(list) ==
  /\ pc = "begin"
  /\ todo' = list
  /\ pc' = "fetch"
  /\ AgentMayInsert
  /\ UNCHANGED <<storeVars, batch, atom, delivered, rc>>

\* begin_fetch_values inserts instances on its way to an end.
AgentInserts ==
  /\ pc = "begin"
  /\ AgentMayInsert
  /\ UNCHANGED <<pc, storeVars, fetchVars, rc>>

\* Mutant: the exception is logged and the fetch reported as done.
BeginThrowsIgnored(thrown) ==
  /\ pc = "begin" /\ thrown.how = "pcp"
  /\ Answer(0)
  /\ AgentMayInsert
  /\ UNCHANGED <<storeVars, fetchVars>>

\* begin_fetch_values throws a pcp::exception: the fetch is over.
BeginThrows(thrown) ==
  /\ pc = "begin" /\ thrown.how = "pcp"
  /\ Answer(thrown.code)
  /\ AgentMayInsert
  /\ UNCHANGED <<storeVars, fetchVars>>

\* Anything else it throws leaves on_fetch and the C library that called it.
BeginEscapes(thrown) ==
  /\ pc = "begin" /\ thrown.how # "pcp"
  /\ pc' = "terminated"
  /\ UNCHANGED <<live, storeVars, fetchVars, rc>>

\* pmdaFetch puts its atom in the reply when the callback's code says there is
\* a value, whether or not the callback has set it.
Deliver(id, code, value) ==
  /\ todo' = todo \ {id}
  /\ atom' = value
  /\ delivered' = IF code > PMDA_FETCH_NOVALUES
                  THEN [i \in DOMAIN delivered \cup {id} |->
                          IF i = id THEN value ELSE delivered[i]]
                  ELSE delivered
  /\ UNCHANGED <<pc, storeVars, batch, rc>>

\* Mutant: *avp is not assigned.
FetchTakenUnset(id, code) ==
  /\ pc = "fetch" /\ id \in todo
  /\ FetchCheck(id) = 0
  /\ Deliver(id, code, atom)
  /\ AgentMayInsert

\* fetch_value returns a value and its code.
FetchTaken(id, code) ==
  /\ pc = "fetch" /\ id \in todo
  /\ FetchCheck(id) = 0
  /\ Deliver(id, code, [id |-> id, batch |-> batch])
  /\ AgentMayInsert

\* A check refuses the id, and *avp keeps what it held.
FetchRefused(id) ==
  /\ pc = "fetch" /\ id \in todo
  /\ FetchCheck(id) # 0
  /\ Deliver(id, FetchCheck(id), atom)
  /\ UNCHANGED live

\* fetch_value throws, and *avp keeps what it held.
FetchThrows(id, thrown) ==
  /\ pc = "fetch" /\ id \in todo
  /\ FetchCheck(id) = 0
  /\ Deliver(id, CodeOf(thrown), atom)
  /\ AgentMayInsert

\* pmdaFetch has been through the client's list.
FetchReturns ==
  /\ pc = "fetch" /\ todo = {}
  /\ Answer(0)
  /\ UNCHANGED <<live, storeVars, fetchVars>>

\* Bounded sequences of values a client may store.
StoreRequests == UNION {[1..n -> Ids] : n \in 0..MaxValues}

\* What goes on within a callback, rather than starts one.
Run ==
  \/ StoreRefused
  \/ StoreTaken
  \/ \E t \in Thrown(AgentCodes) : StoreThrows(t)
  \/ StoreReturns
  \/ \E list \in SUBSET Askable : FetchBegun(list)
  \/ \E t \in Thrown(AgentCodes) : BeginThrows(t)
  \/ \E t \in Thrown(AgentCodes) : BeginEscapes(t)
  \/ \E id \in Ids, c \in FetchCodes : FetchTaken(id, c)
  \/ \E id \in Ids : FetchRefused(id)
  \/ \E id \in Ids, t \in Thrown(ValueCodes) : FetchThrows(id, t)
  \/ FetchReturns

Next ==
  \/ \E result \in StoreRequests : OnStore(result)
  \/ OnFetch
  \/ AgentInserts
  \/ Run

Spec == Init /\ [][Next]_vars

\* A callback that has started runs on: the agent's functions return or throw.
FairSpec == Spec /\ WF_vars(Run)
-----------------------------------------------------------------------------
(* Properties.                                                             *)

\* Whatever fails, and whichever instances appear meanwhile, what store_value
\* has taken is the request up to the value on_store is at: no value is
\* skipped, repeated or taken after one that failed.
StoreInOrder ==
  /\ Len(applied) = position - 1
  /\ \A i \in 1..Len(applied) : applied[i] = request[i]

ReturnsFromStore == pc = "store" /\ pc' = "idle"

\* on_store reports success exactly when every value of the request has been
\* stored and there was one to store: a negative code never hides a complete
\* store, a success never hides a value that was dropped.
StoreSuccessMeansAll ==
  [][ReturnsFromStore => (rc' >= 0 <=> (applied' = request /\ request # <<>>))]_vars

\* What an agent is asked to store is a metric it registered as storable, with
\* an instance if, and only if, the metric has a domain, and one it holds.
OnlyStorableReachAgent ==
  \A i \in 1..Len(applied) :
    LET id == applied[i]
    IN  /\ id[1] \in DOMAIN supported_metrics
        /\ supported_metrics[id[1]].storable
        /\ IF supported_metrics[id[1]].domain = NoDomain
           THEN id[2] = PM_INDOM_NULL
           ELSE id[2] \in live[supported_metrics[id[1]].domain]

\* any_stored is what decides between success and PM_ERR_PERMISSION.
AnyStoredRight == any_stored <=> Len(applied) > 0

\* Each value in a fetch reply was fetched for the id it is reported under,
\* after the begin_fetch_values of the same fetch.
DeliveredFresh ==
  \A id \in DOMAIN delivered : delivered[id] = [id |-> id, batch |-> batch]

\* What there is to see of the callbacks once a request is answered.
Client == INSTANCE Requests WITH
  phase <- pc, asked <- request, fetches <- batch,
  stored <- IF pc = "idle" THEN applied ELSE <<>>,
  reply  <- IF pc = "idle" THEN delivered ELSE NoReply,
  code   <- IF pc = "idle" THEN rc ELSE 0

\* To those who send requests, each of them has one outcome, all at once: the
\* loops, the checks and what the agent throws in between leave no other trace.
ServesRequests == Client!Spec

\* A client gets an answer to every request, unless the agent has taken the
\* process down.
Answered ==
  /\ pc = "store" ~> pc = "idle"
  /\ pc = "begin" ~> pc \in {"idle", "terminated"}
=============================================================================
