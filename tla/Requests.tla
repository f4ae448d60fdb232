------------------------------ MODULE Requests ------------------------------
(***************************************************************************)
(* What the data callbacks promise to those who send requests.  Whatever   *)
(* the agent does meanwhile, a request has one outcome, seen all at once   *)
(* when it is answered: the first values of a store are stored, and all of *)
(* them exactly when it succeeds; the values of a reply were fetched for   *)
(* it, and a fetch that fails replies with none.  What is stored or        *)
(* replied belongs to registered metrics and to instances that there are.  *)
(* Dispatch implements this specification.                                 *)
(***************************************************************************)
EXTENDS Integers, Sequences

CONSTANTS
  Ids,                \* pairs of a metric and an instance a client may name
  supported_metrics,  \* registered metric |-> [domain, storable]
  Domains, NoDomain, Instances, PM_INDOM_NULL

VARIABLES
  phase,    \* the request that is being served
  asked,    \* the values to store
  fetches,  \* number of fetches so far
  live,     \* the instances of each domain
  stored, reply, code   \* outcome of the last request, when it has one

vars == <<phase, asked, fetches, live, stored, reply, code>>

NoReply == [id \in {} |-> <<>>]

\* A registered metric, with an instance of its domain, or with none if it has none.
There(id) ==
  /\ id[1] \in DOMAIN supported_metrics
  /\ LET domain == supported_metrics[id[1]].domain
     IN  IF domain = NoDomain THEN id[2] = PM_INDOM_NULL ELSE id[2] \in live[domain]

Outcome(s, r, c) == stored' = s /\ reply' = r /\ code' = c

\* There is nothing to see of a request under way.
Open == Outcome(<<>>, NoReply, 0)

Init ==
  /\ phase = "idle" /\ asked = <<>> /\ fetches = 0
  /\ live \in [Domains -> SUBSET Instances]
  /\ stored = <<>> /\ reply = NoReply /\ code \in Int

AskStore ==
  /\ phase = "idle" /\ phase' = "store"
  /\ asked' \in Seq(Ids) /\ Open
  /\ UNCHANGED fetches

\* A success stands for the whole request, and one that has values to store.
AnswerStore ==
  /\ phase = "store" /\ phase' = "idle"
  /\ \E n \in 0..Len(asked) :
       /\ \A i \in 1..n : There(asked[i]) /\ supported_metrics[asked[i][1]].storable
       /\ code' \in Int /\ (code' >= 0 <=> n = Len(asked) /\ n > 0)
       /\ Outcome(SubSeq(asked, 1, n), NoReply, code')
  /\ UNCHANGED <<asked, fetches>>

AskFetch ==
  /\ phase = "idle" /\ phase' = "begin"
  /\ asked' = <<>> /\ Open
  /\ fetches' = fetches + 1

\* The agent has brought its values up to date for this fetch.
Prepare ==
  /\ phase = "begin" /\ phase' = "fetch"
  /\ UNCHANGED <<asked, fetches, stored, reply, code>>

\* The agent could not: an error, and no values.
RefuseFetch ==
  /\ phase = "begin" /\ phase' = "idle"
  /\ code' \in Int /\ code' < 0 /\ Outcome(<<>>, NoReply, code')
  /\ UNCHANGED <<asked, fetches>>

\* A value says for which id, and in which fetch, it was obtained.
AnswerFetch ==
  /\ phase = "fetch" /\ phase' = "idle"
  /\ Outcome(<<>>, reply', 0)
  /\ \A id \in DOMAIN reply' :
       There(id) /\ reply'[id] = [id |-> id, batch |-> fetches]
  /\ UNCHANGED <<asked, fetches>>

\* The agent takes the process down.
Die ==
  /\ phase = "begin" /\ phase' = "terminated"
  /\ UNCHANGED <<asked, fetches, stored, reply, code>>

\* Instances may appear at any time, and none goes.
Next ==
  /\ live' \in [Domains -> SUBSET Instances]
  /\ \A d \in Domains : live[d] \subseteq live'[d]
  /\ \/ AskStore \/ AnswerStore
     \/ AskFetch \/ Prepare \/ RefuseFetch \/ AnswerFetch
     \/ Die
     \/ UNCHANGED <<phase, asked, fetches, stored, reply, code>>

Spec == Init /\ [][Next]_vars
=============================================================================
