------------------------------ MODULE Builders ------------------------------
(***************************************************************************)
(* How an agent describes its metrics: metrics_description is a map of     *)
(* clusters that is filled by chained functor calls, and an iterator to    *)
(* the cluster that the last cluster functor named.  Descriptions are      *)
(* returned by value and assigned, so the iterator is copied, too: what it *)
(* points into then is the question of this module.                        *)
(*                                                                         *)
(* Abstracted: the attributes of a metric are one value.  The three        *)
(* overloads of each metric functor differ in the order of arguments only. *)
(***************************************************************************)
EXTENDS Integers, Sequences, FiniteSets

CONSTANTS
  Objects,        \* metrics_description objects
  ClusterIds, ItemIds,
  Names,          \* cluster names
  Metrics,        \* what describes a metric
  NoCluster,      \* no cluster has been named
  MaxCalls        \* bound: functor calls altogether

ASSUME BuildersAssumption ==
  NoCluster \notin ClusterIds \cup Objects /\ MaxCalls \in Nat

VARIABLES
  alive,                  \* objects within their lifetime
  fresh,                  \* objects yet to be constructed
  clusters,               \* the map each object is
  most_recent_cluster,    \* the iterator of each object
  undefined,              \* an iterator was used that must not be
  calls,                  \* history: the functor calls an object stems from,
  number,                 \* the number of all calls,
  borrowed,               \* objects that have their iterator from another one,
  strayed                 \* and whether one of these was given a metric

vars == <<alive, fresh, clusters, most_recent_cluster, undefined,
          calls, number, borrowed, strayed>>
-----------------------------------------------------------------------------
EmptyMap == [c \in {} |-> NoCluster]

\* An iterator is an element, or the end, of an object's map; or it is invalid.
End(o) == [of |-> o, at |-> NoCluster]
Invalid == [of |-> NoCluster, at |-> NoCluster]
Element(o, c) == [of |-> o, at |-> c]
PointsInto(it, o) == it.of = o /\ it.at # NoCluster

\* A functor call: of a cluster, or of a metric and the cluster it is meant for.
ClusterCall(c, name) == [kind |-> "cluster", cluster |-> c, name |-> name]
MetricCall(c, item, metric) ==
  [kind |-> "metric", cluster |-> c, item |-> item, metric |-> metric]

FunctorCalls ==
  [kind : {"cluster"}, cluster : ClusterIds, name : Names] \cup
  [kind : {"metric"}, cluster : ClusterIds \cup {NoCluster}, item : ItemIds, metric : Metrics]

\* The calls that name a cluster, and those that add an item to it.
NamingCalls(h, c) == {i \in 1..Len(h) : h[i].kind = "cluster" /\ h[i].cluster = c}
AddingCalls(h, c, item) ==
  {i \in 1..Len(h) : h[i].kind = "metric" /\ h[i].cluster = c /\ h[i].item = item}

First(S) == CHOOSE i \in S : \A j \in S : i <= j
Last(S)  == CHOOSE i \in S : \A j \in S : j <= i

\* The cluster that the last cluster functor among the calls has named.
LastNamed(h) ==
  LET named == {i \in 1..Len(h) : h[i].kind = "cluster"}
  IN  IF named = {} THEN NoCluster ELSE h[Last(named)].cluster

\* A cluster, and the maps from some of the keys.
Maps(keys, values) == UNION {[S -> values] : S \in SUBSET keys}
MetricClusters == [name : Names, items : Maps(ItemIds, Metrics)]
Iterators == {Invalid} \cup [of : Objects, at : ClusterIds \cup {NoCluster}]

\* An iterator that points to an element points to one there is.
ElementsExist ==
  \A o, p \in Objects : PointsInto(most_recent_cluster[o], p) =>
    p \in alive /\ most_recent_cluster[o].at \in DOMAIN clusters[p]

\* What the state is made of; no iterator dangles unnoticed, so an insertion that
\* leaves its cluster out shows here.
TypeOK ==
  /\ alive \subseteq Objects /\ fresh \subseteq Objects \ alive
  /\ clusters \in [Objects -> Maps(ClusterIds, MetricClusters)]
  /\ most_recent_cluster \in [Objects -> Iterators]
  /\ ElementsExist
  /\ undefined \in BOOLEAN /\ strayed \in BOOLEAN
  /\ calls \in [Objects -> Seq(FunctorCalls)]
  /\ number \in 0..MaxCalls
  /\ borrowed \subseteq Objects

Init ==
  /\ alive = {} /\ fresh = Objects
  /\ clusters = [o \in Objects |-> EmptyMap]
  /\ most_recent_cluster = [o \in Objects |-> Invalid]
  /\ undefined = FALSE
  /\ calls = [o \in Objects |-> <<>>] /\ number = 0
  /\ borrowed = {} /\ strayed = FALSE
-----------------------------------------------------------------------------
(* Functor calls.                                                          *)

Called(o, call) ==
  /\ number < MaxCalls /\ number' = number + 1
  /\ calls' = [calls EXCEPT ![o] = Append(@, call)]

\* metrics_description(), with the iterator at its end.
Construct(o) ==
  /\ ~undefined /\ o \in fresh
  /\ alive' = alive \cup {o} /\ fresh' = fresh \ {o}
  /\ most_recent_cluster' = [most_recent_cluster EXCEPT ![o] = End(o)]
  /\ UNCHANGED <<clusters, undefined, calls, number, borrowed, strayed>>

\* std::map::insert of a cluster: one that is there keeps its name and metrics.
ClusterInserted(map, c, name) ==
  [d \in DOMAIN map \cup {c} |->
     IF d \in DOMAIN map THEN map[d] ELSE [name |-> name, items |-> EmptyMap]]

\* Mutant: the iterator only moves to a new cluster.
InsertNewCluster(o, c, name) ==
  /\ ~undefined /\ o \in alive
  /\ clusters' = [clusters EXCEPT ![o] = ClusterInserted(@, c, name)]
  /\ most_recent_cluster' = IF c \in DOMAIN clusters[o] THEN most_recent_cluster
                            ELSE [most_recent_cluster EXCEPT ![o] = Element(o, c)]
  /\ borrowed' = borrowed \ {o}
  /\ Called(o, ClusterCall(c, name))
  /\ UNCHANGED <<alive, fresh, undefined, strayed>>

\* Mutant: find in place of insert.
LookUpCluster(o, c, name) ==
  /\ ~undefined /\ o \in alive
  /\ most_recent_cluster' = [most_recent_cluster EXCEPT ![o] = Element(o, c)]
  /\ borrowed' = borrowed \ {o}
  /\ Called(o, ClusterCall(c, name))
  /\ UNCHANGED <<alive, fresh, clusters, undefined, strayed>>

\* The cluster functor; insert's iterator is the cluster's, new or not.
InsertCluster(o, c, name) ==
  /\ ~undefined /\ o \in alive
  /\ clusters' = [clusters EXCEPT ![o] = ClusterInserted(@, c, name)]
  /\ most_recent_cluster' = [most_recent_cluster EXCEPT ![o] = Element(o, c)]
  /\ borrowed' = borrowed \ {o}
  /\ Called(o, ClusterCall(c, name))
  /\ UNCHANGED <<alive, fresh, undefined, strayed>>

\* The metric functor of a cluster: an item that is there keeps its metric.
ItemInserted(items, item, metric) ==
  [i \in DOMAIN items \cup {item} |-> IF i \in DOMAIN items THEN items[i] ELSE metric]
MetricInserted(cluster, item, metric) ==
  [cluster EXCEPT !.items = ItemInserted(@, item, metric)]

\* The metric functor.  An iterator at this object's own end is recognised and
\* nothing is done but throw; one at another's end is taken for an element.
InsertMetric(o, item, metric) ==
  LET it == most_recent_cluster[o]
  IN  /\ ~undefined /\ o \in alive
      /\ Called(o, MetricCall(LastNamed(calls[o]), item, metric))
      /\ undefined' = (it # End(o) /\ it.at = NoCluster)
      /\ clusters' = IF it.at = NoCluster THEN clusters
                     ELSE [clusters EXCEPT ![it.of][it.at] = MetricInserted(@, item, metric)]
      /\ strayed' = (strayed \/ o \in borrowed)
      /\ UNCHANGED <<alive, fresh, most_recent_cluster, borrowed>>

\* The functor of a cluster, called by the agent on one it has looked up.
InsertInto(o, c, item, metric) ==
  /\ ~undefined /\ o \in alive /\ c \in DOMAIN clusters[o]
  /\ Called(o, MetricCall(c, item, metric))
  /\ clusters' = [clusters EXCEPT ![o][c] = MetricInserted(@, item, metric)]
  /\ UNCHANGED <<alive, fresh, most_recent_cluster, undefined, borrowed, strayed>>
-----------------------------------------------------------------------------
(* From one object to another.                                             *)

\* Iterators into a map whose elements are gone.
Lost(it, o) == IF PointsInto(it, o) THEN Invalid ELSE it

\* Copy construction, as in returning what a chain of functors refers to, or
\* assignment: the members are copied one by one.
Copy(p, q) ==
  /\ ~undefined /\ p \in alive /\ q \in (alive \cup fresh) \ {p}
  /\ alive' = alive \cup {q} /\ fresh' = fresh \ {q}
  /\ clusters' = [clusters EXCEPT ![q] = clusters[p]]
  /\ most_recent_cluster' = [o \in Objects |->
       Lost(most_recent_cluster[IF o = q THEN p ELSE o], q)]
  /\ calls' = [calls EXCEPT ![q] = calls[p]]
  /\ borrowed' = borrowed \cup {q}
  /\ UNCHANGED <<undefined, number, strayed>>

\* Where an iterator points when p's elements have become q's.
Moved(it, p, q) == IF PointsInto(it, p) THEN Element(q, it.at) ELSE Lost(it, q)

\* Since C++11, assignment of a returned value: q takes over the elements.
Move(p, q) ==
  /\ ~undefined /\ p \in alive /\ q \in (alive \cup fresh) \ {p}
  /\ alive' = alive \cup {q} /\ fresh' = fresh \ {q}
  /\ clusters' = [clusters EXCEPT ![q] = clusters[p], ![p] = EmptyMap]
  /\ most_recent_cluster' = [o \in Objects |->
       Moved(most_recent_cluster[IF o = q THEN p ELSE o], p, q)]
  /\ calls' = [calls EXCEPT ![q] = calls[p], ![p] = <<>>]
  /\ borrowed' = {p} \cup (IF p \in borrowed \/ most_recent_cluster[p] = End(p)
                           THEN borrowed \cup {q} ELSE borrowed \ {q})
  /\ UNCHANGED <<undefined, number, strayed>>

Destroy(p) ==
  /\ ~undefined /\ p \in alive
  /\ alive' = alive \ {p}
  /\ clusters' = [clusters EXCEPT ![p] = EmptyMap]
  /\ most_recent_cluster' = [o \in Objects |->
       IF most_recent_cluster[o].of = p THEN Invalid ELSE most_recent_cluster[o]]
  /\ calls' = [calls EXCEPT ![p] = <<>>]
  /\ UNCHANGED <<fresh, undefined, number, borrowed, strayed>>

Next ==
  \E o \in Objects :
    \/ Construct(o)
    \/ \E c \in ClusterIds, name \in Names : InsertCluster(o, c, name)
    \/ \E item \in ItemIds, metric \in Metrics : InsertMetric(o, item, metric)
    \/ \E c \in ClusterIds, item \in ItemIds, metric \in Metrics : InsertInto(o, c, item, metric)
    \/ \E q \in Objects : Copy(o, q) \/ Move(o, q)
    \/ Destroy(o)

Spec == Init /\ [][Next]_vars
-----------------------------------------------------------------------------
(* Properties.                                                             *)

\* What a sequence of calls describes: the clusters it names, each with the name
\* it had first, and with the first metric under each item that was added while
\* the cluster was the last one named.
NameIn(h, c) == h[First(NamingCalls(h, c))].name
ItemsIn(h, c) ==
  [i \in {j \in ItemIds : AddingCalls(h, c, j) # {}} |-> h[First(AddingCalls(h, c, i))].metric]
Described(h) ==
  [c \in {d \in ClusterIds : NamingCalls(h, d) # {}} |->
     [name |-> NameIn(h, c), items |-> ItemsIn(h, c)]]

\* An object is what the calls describe that were made on it, and on those it
\* was copied from; and every call is well-defined.
AsDescribed == ~undefined /\ \A o \in alive : clusters[o] = Described(calls[o])

\* So it is, if after each copy a cluster is named before a metric is added.
AsDescribedUnlessStrayed == ~strayed => AsDescribed
-----------------------------------------------------------------------------
(* The inductive invariant.                                                *)

\* An iterator that is not borrowed stands at the cluster last named.
OwnIterators ==
  \A o \in alive \ borrowed :
    most_recent_cluster[o] =
      IF LastNamed(calls[o]) = NoCluster THEN End(o) ELSE Element(o, LastNamed(calls[o]))

\* A metric is only added to a cluster that has been named.
NamedFirst(h) ==
  \A i \in 1..Len(h) : h[i].kind = "metric" /\ h[i].cluster # NoCluster
                         => NamingCalls(h, h[i].cluster) # {}

\* An object yet to be constructed has no past.
FreshIsEmpty == \A o \in fresh : clusters[o] = EmptyMap /\ calls[o] = <<>>

\* AsDescribedUnlessStrayed, with what keeps it so.
RightUnlessStrayed ==
  ~strayed => AsDescribed /\ \A o \in alive : NamedFirst(calls[o])

Ind == TypeOK /\ FreshIsEmpty /\ OwnIterators /\ RightUnlessStrayed
=============================================================================
