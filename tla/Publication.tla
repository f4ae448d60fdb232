---------------------------- MODULE Publication ----------------------------
(***************************************************************************)
(* What registering a PMDA promises to the library that will call it: at   *)
(* one moment, and only once, the tables of metrics and of instance        *)
(* domains become visible, and the table then says of every metric the     *)
(* agent described, and of no other, which instance domain it has.         *)
(* Registration implements this specification.                             *)
(***************************************************************************)
CONSTANTS Domains, NoDomain

VARIABLES supported_metrics,  \* what get_supported_metrics() returned
          described           \* metric |-> domain, as the published tables say

vars == <<supported_metrics, described>>

\* Nothing is visible before the tables are published.
Nothing == [metric \in {} |-> NoDomain]

Init == described = Nothing

\* The tables become visible, complete, in one step.
Publish ==
  /\ described = Nothing
  /\ described' = supported_metrics
  /\ UNCHANGED supported_metrics

Spec == Init /\ [][Publish]_vars

FairSpec == Spec /\ WF_vars(Publish)
=============================================================================
