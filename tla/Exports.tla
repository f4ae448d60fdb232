------------------------------ MODULE Exports ------------------------------
(***************************************************************************)
(* The support files a PMDA exports: export_pmns_data writes the metric    *)
(* namespace, export_help_text the help texts.  One process may be asked   *)
(* for several exports, and the variable that remembers the last group     *)
(* name in the first listing of export_pmns_data is static.                *)
(*                                                                         *)
(* Abstracted: a file is what it lists, in order; layout, numbers and the  *)
(* texts themselves are left out.  The domain header and the root file     *)
(* hold nothing that depends on the metrics.                               *)
(***************************************************************************)
EXTENDS Integers, Sequences, FiniteSets, SequencesExt

CONSTANTS
  ClusterNames,        \* names of clusters; the unnamed cluster's is ""
  MetricNames,
  Domains, NoDomain,   \* instance_domain objects, and the NULL pointer
  DomainIds,           \* ids the agent may give to its domains
  MaxClusters,         \* bound: clusters of an agent
  MaxItems,            \* bound: metrics of a cluster
  MaxExports           \* bound: exports by one process

ASSUME ExportsAssumption ==
  /\ NoDomain \notin Domains
  /\ MaxClusters \in Nat /\ MaxItems \in Nat /\ MaxExports \in Nat

VARIABLES
  supported_metrics,       \* the clusters in the order of their ids, each a
                           \* name and its items in the order of theirs
  domain_id,
  previous_cluster_name,   \* the static one
  exports,                 \* number of exports so far
  pmns,                    \* the last namespace file
  help                     \* the last help file

vars == <<supported_metrics, domain_id, previous_cluster_name, exports, pmns, help>>
-----------------------------------------------------------------------------
MetricRecords == [name : MetricNames, domain : Domains \cup {NoDomain}]
ClusterRecords == [name : ClusterNames \cup {""}, items : BoundedSeq(MetricRecords, MaxItems)]

\* A metric is its cluster and its item.
Metrics == {m \in (1..MaxClusters) \X (1..MaxItems) :
              m[1] <= Len(supported_metrics) /\ m[2] <= Len(supported_metrics[m[1]].items)}

InCluster(c) == [i \in 1..Len(supported_metrics[c].items) |-> <<c, i>>]
Named(c) == supported_metrics[c].name # ""
MetricOf(m) == supported_metrics[m[1]].items[m[2]]

EmptyFile(previous) == [top |-> <<>>, groups |-> <<>>, previous |-> previous]
NoFile == EmptyFile("")
NoHelp == [metrics |-> {}, domains |-> {}]

TypeOK ==
  /\ supported_metrics \in Seq([name : ClusterNames \cup {""}, items : Seq(MetricRecords)])
  /\ domain_id \in [Domains -> DomainIds]
  /\ previous_cluster_name \in ClusterNames \cup {""}
  /\ exports \in 0..MaxExports
  /\ pmns.top \in Seq([group : ClusterNames] \cup [metric : Metrics])
  /\ pmns.groups \in Seq([name : ClusterNames, metrics : Seq(Metrics)])
  /\ help.metrics \subseteq Metrics /\ help.domains \subseteq Domains

Init ==
  /\ supported_metrics \in BoundedSeq(ClusterRecords, MaxClusters)
  /\ domain_id \in [Domains -> DomainIds]
  /\ previous_cluster_name = "" /\ exports = 0 /\ pmns = NoFile /\ help = NoHelp
-----------------------------------------------------------------------------
(* export_pmns_data.                                                       *)

\* Mutant: the name is only remembered for a cluster with metrics.
ListClusterIfAny(file, c) ==
  LET name == supported_metrics[c].name
      metrics == InCluster(c)
  IN  IF ~Named(c)
      THEN [file EXCEPT !.top = @ \o [i \in 1..Len(metrics) |-> [metric |-> metrics[i]]]]
      ELSE IF name # file.previous
      THEN [file EXCEPT !.top = Append(@, [group |-> name]),
                        !.previous = IF metrics = <<>> THEN @ ELSE name]
      ELSE file

\* The second pass at a cluster: the metrics of an unnamed one, the name of a
\* group that is not the one just listed.
ListCluster(file, c) ==
  LET name == supported_metrics[c].name
      metrics == InCluster(c)
  IN  IF ~Named(c)
      THEN [file EXCEPT !.top = @ \o [i \in 1..Len(metrics) |-> [metric |-> metrics[i]]]]
      ELSE IF name # file.previous
      THEN [file EXCEPT !.top = Append(@, [group |-> name]), !.previous = name]
      ELSE file

\* Mutant: the third pass does not skip the unnamed clusters.
WriteAnyGroup(file, c) ==
  LET name == supported_metrics[c].name
  IN  IF file.groups = <<>> \/ name # file.previous
      THEN [file EXCEPT !.groups = Append(@, [name |-> name, metrics |-> InCluster(c)]),
                        !.previous = name]
      ELSE [file EXCEPT !.groups[Len(file.groups)].metrics = @ \o InCluster(c)]

\* The third pass at a cluster: a new group, or more of the one just written.
WriteGroup(file, c) ==
  LET name == supported_metrics[c].name
  IN  IF ~Named(c) THEN file
      ELSE IF name # file.previous
      THEN [file EXCEPT !.groups = Append(@, [name |-> name, metrics |-> InCluster(c)]),
                        !.previous = name]
      ELSE [file EXCEPT !.groups[Len(file.groups)].metrics = @ \o InCluster(c)]

\* The second pass after c clusters, from the name the static variable holds.
Listed[c \in 0..Len(supported_metrics)] ==
  IF c = 0 THEN EmptyFile(previous_cluster_name) ELSE ListCluster(Listed[c - 1], c)

\* The third pass after c clusters; its variable is a new one.
Written[c \in 0..Len(supported_metrics)] ==
  IF c = 0 THEN NoFile ELSE WriteGroup(Written[c - 1], c)

\* The two listings; what the second pass leaves in its static variable stays.
PmnsFile ==
  LET clusters == Len(supported_metrics)
  IN  [top |-> Listed[clusters].top, groups |-> Written[clusters].groups,
       previous |-> Listed[clusters].previous]

WritePmns == pmns' = PmnsFile /\ previous_cluster_name' = PmnsFile.previous

(* export_help_text.                                                       *)

\* The name a metric has in a help file; the PMDA's own name is in all of them.
FullName(m) == <<supported_metrics[m[1]].name, MetricOf(m).name>>

Before(m, n) == m[1] < n[1] \/ (m[1] = n[1] /\ m[2] < n[2])

\* Mutant: texts are collected by the metric's name in its cluster.
HelpByMetricName ==
  [metrics |-> {m \in Metrics : ~\E n \in Metrics :
                  Before(n, m) /\ MetricOf(n).name = MetricOf(m).name},
   domains |-> {MetricOf(m).domain : m \in Metrics} \ {NoDomain}]

\* The two maps: std::map::insert keeps the metric first met under a name, and
\* the domain first met under an id.
HelpFile ==
  [metrics |-> {m \in Metrics : ~\E n \in Metrics : Before(n, m) /\ FullName(n) = FullName(m)},
   domains |-> {MetricOf(m).domain : m \in {n \in Metrics :
                  /\ MetricOf(n).domain # NoDomain
                  /\ ~\E l \in Metrics :
                       /\ Before(l, n) /\ MetricOf(l).domain # NoDomain
                       /\ domain_id[MetricOf(l).domain] = domain_id[MetricOf(n).domain]}}]

Counted ==
  /\ exports < MaxExports
  /\ exports' = exports + 1
  /\ UNCHANGED <<supported_metrics, domain_id>>

ExportPmns ==
  /\ Counted /\ WritePmns
  /\ UNCHANGED help

ExportHelp ==
  /\ Counted /\ help' = HelpFile
  /\ UNCHANGED <<pmns, previous_cluster_name>>

\* export_support_files: the domain header, help, pmns and root.
ExportAll ==
  /\ Counted /\ help' = HelpFile /\ WritePmns

Next == ExportPmns \/ ExportHelp \/ ExportAll

Spec == Init /\ [][Next]_vars
-----------------------------------------------------------------------------
(* Properties.                                                             *)

Groups == {supported_metrics[c].name : c \in 1..Len(supported_metrics)} \ {""}

\* The places in a namespace file: of an entry at its top, of a group, and of a
\* metric in the groups.
TopPlaces(file, entry) == {i \in 1..Len(file.top) : file.top[i] = entry}
GroupPlaces(file, name) == {g \in 1..Len(file.groups) : file.groups[g].name = name}
PlacesInGroups(file, m) ==
  UNION {{<<g, i>> : i \in {j \in 1..Len(file.groups[g].metrics) : file.groups[g].metrics[j] = m}} :
           g \in 1..Len(file.groups)}

\* A namespace file is a tree that holds every metric: each group is listed at
\* the top once and written once, and each metric has one place, in its group
\* or at the top.
IsTree(file) ==
  /\ \A name \in Groups : Cardinality(TopPlaces(file, [group |-> name])) = 1
                          /\ Cardinality(GroupPlaces(file, name)) = 1
  /\ \A m \in Metrics :
       IF Named(m[1])
       THEN /\ TopPlaces(file, [metric |-> m]) = {}
            /\ Cardinality(PlacesInGroups(file, m)) = 1
            /\ \A p \in PlacesInGroups(file, m) :
                 file.groups[p[1]].name = supported_metrics[m[1]].name
       ELSE /\ PlacesInGroups(file, m) = {}
            /\ Cardinality(TopPlaces(file, [metric |-> m])) = 1

\* Clusters of one name have no cluster of another name between them.
NamesTogether ==
  \A b, c, d \in 1..Len(supported_metrics) :
    b < c /\ c < d /\ Named(c) /\ supported_metrics[b].name = supported_metrics[d].name
      => ~Named(b) \/ supported_metrics[c].name = supported_metrics[b].name

NothingWritten == pmns = NoFile

\* A namespace file that a process writes is a tree of all metrics, if the
\* clusters that share a name have ids next to each other, and unless the agent
\* has one group only and an earlier file has listed it.
ExportedIsTree ==
  [][(ExportPmns \/ ExportAll) /\ NamesTogether /\ Groups # {previous_cluster_name}
       => IsTree(pmns')]_vars

\* Every namespace file is, whatever has been exported before it.
EveryExportIsTree == ~NothingWritten /\ NamesTogether => IsTree(pmns)

\* The help file covers every metric and the instances of every domain, as far
\* as full names, and ids, are distinct.
HelpCoversAll ==
  LET used == {MetricOf(m).domain : m \in Metrics} \ {NoDomain}
  IN  help # NoHelp =>
        /\ (\A m, n \in Metrics : FullName(m) = FullName(n) => m = n) => help.metrics = Metrics
        /\ (\A d, e \in used : domain_id[d] = domain_id[e] => d = e) => help.domains = used
=============================================================================
