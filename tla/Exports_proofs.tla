--------------------------- MODULE Exports_proofs ---------------------------
(***************************************************************************)
(* For any clusters, metrics and domains: the types, what a help file      *)
(* covers after any number of exports, and that a namespace file is a tree *)
(* of all metrics.                                                         *)
(*                                                                         *)
(* The third part counts clusters: what a pass has listed after c of them  *)
(* is what those c have to list, each once (Once, ListedOnce, WrittenOnce).*)
(***************************************************************************)
EXTENDS Exports, FiniteSetTheorems, SequenceTheorems, WellFoundedInduction, TLAPS

\* A nonempty set of numbers has a least element.
LEMMA LeastOf ==
  ASSUME NEW S \in SUBSET Nat, S # {}
  PROVE  \E i \in S : \A j \in S : i <= j
<1> DEFINE less == OpToRel(<, Nat)
<1>1. less = {ss \in Nat \X Nat : ss[1] < ss[2]}
  BY Zenon DEF OpToRel
<1>2. IsWellFoundedOn(less, Nat)
  BY NatLessThanWellFounded, Zenon
<1> HIDE DEF less
<1>3. PICK i \in S : \A j \in S : ~(<<j, i>> \in less)
  BY <1>2, WFMin, Zenon
<1>4. ASSUME NEW j \in S PROVE i <= j
  <2>1. i \in Nat /\ j \in Nat
    OBVIOUS
  <2>2. CASE j < i
    <3>1. <<j, i>> \in {ss \in Nat \X Nat : ss[1] < ss[2]}
      BY <2>1, <2>2
    <3> QED BY <1>1, <1>3, <3>1, Zenon
  <2> QED BY <2>1, <2>2
<1> QED BY <1>4

\* A set of numbers that holds 0 and with each number the next holds them all.
LEMMA Counting ==
  ASSUME NEW N \in Nat, NEW T \in SUBSET (0..N), 0 \in T,
         \A c \in 1..N : c - 1 \in T => c \in T
  PROVE  T = 0..N
<1> SUFFICES ASSUME (0..N) \ T # {} PROVE FALSE
  OBVIOUS
<1> DEFINE S == (0..N) \ T
<1>1. S \in SUBSET Nat /\ S # {}
  OBVIOUS
<1>2. PICK c \in S : \A d \in S : c <= d
  BY <1>1, LeastOf
<1>3. c \in 1..N /\ c - 1 \in 0..N /\ ~(c <= c - 1)
  BY <1>1, <1>2
<1>4. c - 1 \in T
  BY <1>2, <1>3
<1> QED BY <1>2, <1>3, <1>4

\* What goes from a first element through one step for each number.
Runs(N, S, first, step) ==
  {f \in [0..N -> S] : f[0] = first /\ \A c \in 1..N : f[c] = step[c][f[c - 1]]}

\* There is one if each step stays in the set.
LEMMA Recursion ==
  ASSUME NEW N \in Nat, NEW S, NEW base \in S, NEW step \in [1..N -> [S -> S]]
  PROVE  Runs(N, S, base, step) # {}
<1> DEFINE T == {n \in 0..N : \E f \in [0..n -> S] :
                   f[0] = base /\ \A c \in 1..n : f[c] = step[c][f[c - 1]]}
<1>1. 0 \in T
  <2> DEFINE f == [c \in 0..0 |-> base]
  <2>1. f \in [0..0 -> S] /\ f[0] = base
    OBVIOUS
  <2> HIDE DEF f
  <2>2. \A c \in 1..0 : f[c] = step[c][f[c - 1]]
    OBVIOUS
  <2> QED BY <2>1, <2>2
<1>2. ASSUME NEW n \in 1..N, n - 1 \in T PROVE n \in T
  <2>1. PICK f \in [0..(n - 1) -> S] :
               f[0] = base /\ \A c \in 1..(n - 1) : f[c] = step[c][f[c - 1]]
    BY <1>2
  <2> DEFINE g == [c \in 0..n |-> IF c < n THEN f[c] ELSE step[n][f[n - 1]]]
  <2>2. f[n - 1] \in S
    BY <2>1
  <2>3. step[n][f[n - 1]] \in S
    BY <2>2
  <2>4. g \in [0..n -> S]
    BY <2>1, <2>3
  <2>5. g[0] = base
    BY <2>1
  <2>6. ASSUME NEW c \in 1..n PROVE g[c] = step[c][g[c - 1]]
    <3>1. g[c - 1] = f[c - 1] /\ g[c] = IF c < n THEN f[c] ELSE step[n][f[n - 1]]
      OBVIOUS
    <3> HIDE DEF g
    <3>2. CASE c = n
      <4>1. g[n] = step[n][f[n - 1]]
        BY <3>1, <3>2
      <4> QED BY <3>1, <3>2, <4>1
    <3>3. CASE c # n
      BY <2>1, <3>1, <3>3
    <3> QED BY <3>2, <3>3
  <2> HIDE DEF g
  <2> QED BY <2>4, <2>5, <2>6
<1> HIDE DEF T
<1>3. T = 0..N
  <2>1. T \in SUBSET (0..N)
    BY DEF T
  <2> QED BY <1>1, <1>2, <2>1, Counting
<1> QED BY <1>3 DEF T, Runs

-----------------------------------------------------------------------------
(* Help files.                                                             *)

\* In the order of the exports' loops, some metrics have a first one.
LEMMA FirstMetric ==
  ASSUME NEW T \in SUBSET Metrics, T # {}
  PROVE  \E n \in T : \A l \in T : ~Before(l, n)
<1>1. \A n \in T : n \in Nat \X Nat /\ n = <<n[1], n[2]>>
  BY ExportsAssumption DEF Metrics
<1> DEFINE clusters == {n[1] : n \in T}
<1>2. clusters \in SUBSET Nat /\ clusters # {}
  BY <1>1
<1> HIDE DEF clusters
<1>3. PICK c \in clusters : \A b \in clusters : c <= b
  BY <1>2, LeastOf
<1> DEFINE items == {n[2] : n \in {m \in T : m[1] = c}}
<1>4. items \in SUBSET Nat /\ items # {}
  BY <1>1, <1>3 DEF clusters
<1> HIDE DEF items
<1>5. PICK i \in items : \A j \in items : i <= j
  BY <1>4, LeastOf
<1>6. PICK n \in T : n[1] = c /\ n[2] = i
  BY <1>5 DEF items
<1>7. ASSUME NEW l \in T PROVE ~Before(l, n)
  <2>1. l[1] \in clusters /\ (l[1] = c => l[2] \in items)
    BY DEF clusters, items
  <2>2. c <= l[1] /\ (l[1] = c => i <= l[2])
    BY <1>3, <1>5, <2>1
  <2>3. l[1] \in Nat /\ l[2] \in Nat /\ c \in Nat /\ i \in Nat
    BY <1>1, <1>6
  <2> QED BY <1>6, <2>2, <2>3 DEF Before
<1> QED BY <1>7

\* No metric comes before itself.
LEMMA BeforeNotSelf == ASSUME NEW m \in Metrics, NEW n \in Metrics, Before(n, m)
                       PROVE  n # m
BY ExportsAssumption DEF Before, Metrics

\* The metrics that have an instance domain, and the domains that they have.
WithDomain == {m \in Metrics : MetricOf(m).domain # NoDomain}
Used == {MetricOf(m).domain : m \in Metrics} \ {NoDomain}

\* A help file written from these metrics covers all of them whose names are
\* distinct, and every domain if their ids are.
LEMMA HelpFileCovers ==
  /\ (\A m, n \in Metrics : FullName(m) = FullName(n) => m = n) => HelpFile.metrics = Metrics
  /\ (\A d, e \in Used : domain_id[d] = domain_id[e] => d = e) => HelpFile.domains = Used
<1>1. ASSUME \A m, n \in Metrics : FullName(m) = FullName(n) => m = n
      PROVE  HelpFile.metrics = Metrics
  <2>1. \A m, n \in Metrics : Before(n, m) => FullName(n) # FullName(m)
    BY <1>1, BeforeNotSelf
  <2> QED BY <2>1 DEF HelpFile
<1>2. ASSUME \A d, e \in Used : domain_id[d] = domain_id[e] => d = e
      PROVE  HelpFile.domains = Used
  <2> DEFINE first == {n \in WithDomain : ~\E l \in WithDomain :
                         Before(l, n) /\ domain_id[MetricOf(l).domain] = domain_id[MetricOf(n).domain]}
  <2>1. HelpFile.domains = {MetricOf(m).domain : m \in first}
    BY DEF HelpFile, WithDomain
  <2>2. \A m \in WithDomain : m \in Metrics /\ MetricOf(m).domain \in Used
    BY DEF WithDomain, Used
  <2>3. ASSUME NEW d \in Used PROVE \E m \in first : MetricOf(m).domain = d
    <3> DEFINE T == {m \in WithDomain : MetricOf(m).domain = d}
    <3>1. T \in SUBSET Metrics /\ T # {}
      BY <2>2 DEF Used, WithDomain
    <3>2. PICK n \in T : \A l \in T : ~Before(l, n)
      BY <3>1, FirstMetric
    <3>3. n \in first
      BY <1>2, <2>2, <3>2
    <3> QED BY <3>2, <3>3
  <2> QED BY <2>1, <2>2, <2>3
<1> QED BY <1>1, <1>2

\* A help file is one written from the metrics as they are, whatever has been
\* exported before.
HelpInv == help = NoHelp \/ help = HelpFile

\* After any number of exports, of any kind, the help file covers every metric
\* and every domain whose full names, and ids, are distinct.
THEOREM HelpFilesCoverAll == Spec => []HelpCoversAll
<1>1. Init => HelpInv
  BY DEF Init, HelpInv
<1>2. HelpInv /\ [Next]_vars => HelpInv'
  <2> SUFFICES ASSUME HelpInv, [Next]_vars PROVE HelpInv'
    OBVIOUS
  <2>1. UNCHANGED <<supported_metrics, domain_id>>
    BY DEF Next, ExportPmns, ExportHelp, ExportAll, Counted, vars
  <2>2. HelpFile' = HelpFile
    BY <2>1 DEF HelpFile, Metrics, MetricOf, FullName
  <2>3. help' = help \/ help' = HelpFile
    BY DEF Next, ExportPmns, ExportHelp, ExportAll, vars
  <2> QED BY <2>2, <2>3 DEF HelpInv, NoHelp
<1>3. HelpInv => HelpCoversAll
  BY HelpFileCovers DEF HelpInv, HelpCoversAll, Used
<1> QED BY <1>1, <1>2, <1>3, PTL DEF Spec
-----------------------------------------------------------------------------
(* Namespace files.                                                        *)

\* The metrics and clusters of an agent keep within the bounds.
AgentOK ==
  /\ supported_metrics \in BoundedSeq(ClusterRecords, MaxClusters)
  /\ previous_cluster_name \in ClusterNames \cup {""}

ClusterCount == Len(supported_metrics)
Entries == [group : ClusterNames] \cup [metric : Metrics]
GroupRecords == [name : ClusterNames, metrics : Seq(Metrics)]
PmnsFiles == [top : Seq(Entries), groups : Seq(GroupRecords),
              previous : ClusterNames \cup {""}]

\* A group of that name is being written.
GroupFiles == {f \in PmnsFiles : f.previous # "" => f.groups # <<>>}

\* The number of clusters is a number.
LEMMA AgentSize == AgentOK => ClusterCount \in Nat
<1> SUFFICES ASSUME AgentOK PROVE ClusterCount \in Nat
  OBVIOUS
<1>1. PICK n \in 0..MaxClusters : supported_metrics \in [1..n -> ClusterRecords]
  BY DEF AgentOK, BoundedSeq, SeqOf
<1> QED BY <1>1, ExportsAssumption DEF ClusterCount

\* What is known of the cluster with a given place.
LEMMA ClusterFacts ==
  ASSUME AgentOK, NEW c \in 1..ClusterCount
  PROVE  /\ ClusterCount \in Nat /\ ClusterCount <= MaxClusters
         /\ supported_metrics[c].name \in ClusterNames \cup {""}
         /\ Len(supported_metrics[c].items) \in Nat
         /\ supported_metrics[c].items \in Seq(MetricRecords)
         /\ InCluster(c) \in Seq(Metrics)
         /\ Len(InCluster(c)) = Len(supported_metrics[c].items)
         /\ \A i \in 1..Len(InCluster(c)) : InCluster(c)[i] = <<c, i>> /\ <<c, i>> \in Metrics
<1>1. PICK n \in 0..MaxClusters : supported_metrics \in [1..n -> ClusterRecords]
  BY DEF AgentOK, BoundedSeq, SeqOf
<1>2. n \in Nat /\ ClusterCount = n
  BY <1>1, ExportsAssumption DEF ClusterCount
<1>3. supported_metrics[c] \in ClusterRecords
  BY <1>1, <1>2
<1>4. /\ supported_metrics[c].name \in ClusterNames \cup {""}
      /\ supported_metrics[c].items \in BoundedSeq(MetricRecords, MaxItems)
  BY <1>3 DEF ClusterRecords
<1>5. PICK k \in 0..MaxItems : supported_metrics[c].items \in [1..k -> MetricRecords]
  BY <1>4 DEF BoundedSeq, SeqOf
<1>6. k \in Nat /\ Len(supported_metrics[c].items) = k
      /\ supported_metrics[c].items \in Seq(MetricRecords)
  BY <1>5, ExportsAssumption
<1>7. \A i \in 1..k : <<c, i>> \in Metrics
  BY <1>1, <1>2, <1>6, ExportsAssumption DEF Metrics, ClusterCount
<1>8. InCluster(c) = [i \in 1..k |-> <<c, i>>]
  BY <1>6 DEF InCluster
<1>9. InCluster(c) \in Seq(Metrics) /\ Len(InCluster(c)) = k
  BY <1>6, <1>7, <1>8
<1>10. \A i \in 1..k : InCluster(c)[i] = <<c, i>>
  BY <1>8
<1>11. ClusterCount \in Nat /\ ClusterCount <= MaxClusters /\ k \in 0..MaxItems
  BY <1>2, ExportsAssumption
<1> QED BY <1>4, <1>6, <1>7, <1>9, <1>10, <1>11

\* The entries that an unnamed cluster adds at the top.
Ungrouped(c) == [i \in 1..Len(InCluster(c)) |-> [metric |-> InCluster(c)[i]]]

\* They are entries.
LEMMA UngroupedType ==
  ASSUME AgentOK, NEW c \in 1..ClusterCount
  PROVE  /\ Ungrouped(c) \in Seq(Entries)
         /\ Len(Ungrouped(c)) = Len(InCluster(c))
<1>1. Len(InCluster(c)) \in Nat
  BY ClusterFacts
<1>2. ASSUME NEW i \in 1..Len(InCluster(c)) PROVE [metric |-> InCluster(c)[i]] \in Entries
  <2>1. InCluster(c)[i] \in Metrics
    BY ClusterFacts
  <2>2. [metric |-> InCluster(c)[i]] \in [metric : Metrics]
    BY <2>1
  <2> QED BY <2>2 DEF Entries
<1> QED BY <1>1, <1>2 DEF Ungrouped

\* What a namespace file is made of.
LEMMA PmnsFileType ==
  ASSUME NEW top \in Seq(Entries), NEW groups \in Seq(GroupRecords),
         NEW previous \in ClusterNames \cup {""}
  PROVE  LET f == [top |-> top, groups |-> groups, previous |-> previous]
         IN  f \in PmnsFiles /\ (groups # <<>> => f \in GroupFiles)
<1> DEFINE f == [top |-> top, groups |-> groups, previous |-> previous]
<1>1. f \in PmnsFiles
  BY DEF PmnsFiles
<1>2. f.groups = groups
  OBVIOUS
<1> QED BY <1>1, <1>2 DEF GroupFiles

\* What the second pass does at a cluster.
LEMMA ListClusterIs ==
  ASSUME AgentOK, NEW f \in PmnsFiles, NEW c \in 1..ClusterCount
  PROVE  LET name == supported_metrics[c].name
             g    == ListCluster(f, c)
         IN  /\ g \in PmnsFiles
             /\ ~Named(c) => g.top = f.top \o Ungrouped(c) /\ g.previous = f.previous
             /\ Named(c) /\ name = f.previous => g.top = f.top /\ g.previous = f.previous
             /\ Named(c) /\ name # f.previous =>
                  g.top = Append(f.top, [group |-> name]) /\ g.previous = name
<1> DEFINE name == supported_metrics[c].name
<1>1. f = [top |-> f.top, groups |-> f.groups, previous |-> f.previous]
  BY DEF PmnsFiles
<1>2. f.top \in Seq(Entries) /\ f.groups \in Seq(GroupRecords) /\ f.previous \in ClusterNames \cup {""}
  BY DEF PmnsFiles
<1>3. CASE ~Named(c)
  <2>1. ListCluster(f, c) = [f EXCEPT !.top = @ \o Ungrouped(c)]
    BY <1>3 DEF ListCluster, Ungrouped
  <2>2. f.top \o Ungrouped(c) \in Seq(Entries)
    BY <1>2, UngroupedType, ConcatProperties
  <2>3. ListCluster(f, c) = [top |-> f.top \o Ungrouped(c), groups |-> f.groups,
                             previous |-> f.previous]
    BY <1>1, <2>1
  <2>4. ListCluster(f, c) \in PmnsFiles
    BY <1>2, <2>2, <2>3, PmnsFileType
  <2> QED BY <1>3, <2>3, <2>4
<1>4. CASE Named(c) /\ name # f.previous
  <2>1. ListCluster(f, c) = [f EXCEPT !.top = Append(@, [group |-> name]), !.previous = name]
    BY <1>4 DEF ListCluster
  <2>2. name \in ClusterNames
    BY <1>4, ClusterFacts DEF Named
  <2>3. [group |-> name] \in [group : ClusterNames]
    BY <2>2
  <2>4. [group |-> name] \in Entries
    BY <2>3 DEF Entries
  <2>5. Append(f.top, [group |-> name]) \in Seq(Entries)
    BY <1>2, <2>4, AppendProperties
  <2>6. ListCluster(f, c) = [top |-> Append(f.top, [group |-> name]), groups |-> f.groups,
                             previous |-> name]
    BY <1>1, <2>1
  <2>7. ListCluster(f, c) \in PmnsFiles
    <3> HIDE DEF name
    <3>1. name \in ClusterNames \cup {""}
      BY <2>2
    <3> QED BY <1>2, <2>5, <2>6, <3>1, PmnsFileType
  <2> QED BY <1>4, <2>6, <2>7
<1>5. CASE Named(c) /\ name = f.previous
  <2>1. ListCluster(f, c) = f
    BY <1>5 DEF ListCluster
  <2> QED BY <1>5, <2>1
<1> QED BY <1>3, <1>4, <1>5

\* What the third pass does at a cluster.
LEMMA WriteGroupIs ==
  ASSUME AgentOK, NEW f \in GroupFiles, NEW c \in 1..ClusterCount
  PROVE  LET name == supported_metrics[c].name
             last == Len(f.groups)
             g    == WriteGroup(f, c)
         IN  /\ g \in GroupFiles
             /\ ~Named(c) => g = f
             /\ Named(c) /\ name # f.previous =>
                  /\ g.groups = Append(f.groups, [name |-> name, metrics |-> InCluster(c)])
                  /\ g.previous = name
             /\ Named(c) /\ name = f.previous =>
                  /\ last \in 1..Len(f.groups) /\ Len(g.groups) = last
                  /\ g.groups[last] = [name    |-> f.groups[last].name,
                                       metrics |-> f.groups[last].metrics \o InCluster(c)]
                  /\ \A i \in 1..last : i # last => g.groups[i] = f.groups[i]
                  /\ g.previous = name
<1> DEFINE name == supported_metrics[c].name
           last == Len(f.groups)
<1>1. f = [top |-> f.top, groups |-> f.groups, previous |-> f.previous]
  BY DEF GroupFiles, PmnsFiles
<1>2. f.top \in Seq(Entries) /\ f.groups \in Seq(GroupRecords) /\ f.previous \in ClusterNames \cup {""}
  BY DEF GroupFiles, PmnsFiles
<1>3. InCluster(c) \in Seq(Metrics) /\ name \in ClusterNames \cup {""}
  BY ClusterFacts
<1>4. CASE ~Named(c)
  BY <1>4 DEF WriteGroup
<1>5. CASE Named(c) /\ name # f.previous
  <2> DEFINE group == [name |-> name, metrics |-> InCluster(c)]
  <2>1. WriteGroup(f, c) = [f EXCEPT !.groups = Append(@, group), !.previous = name]
    BY <1>5 DEF WriteGroup
  <2>2. name \in ClusterNames
    BY <1>3, <1>5 DEF Named
  <2>3. WriteGroup(f, c) = [top |-> f.top, groups |-> Append(f.groups, group), previous |-> name]
    BY <1>1, <2>1
  <2>4. group \in GroupRecords
    BY <1>3, <2>2 DEF GroupRecords
  <2>5. Append(f.groups, group) \in Seq(GroupRecords) /\ Append(f.groups, group) # <<>>
    <3> HIDE DEF group
    <3> QED BY <1>2, <2>4, AppendProperties
  <2>6. WriteGroup(f, c) \in GroupFiles
    <3> HIDE DEF name, group
    <3> QED BY <1>2, <1>3, <2>3, <2>5, PmnsFileType
  <2> QED BY <1>5, <2>3, <2>6
<1>6. CASE Named(c) /\ name = f.previous
  <2> DEFINE old  == f.groups[last]
             more == old.metrics \o InCluster(c)
             new  == [name |-> old.name, metrics |-> more]
             groups == [f.groups EXCEPT ![last] = new]
  <2>1. f.groups # <<>> /\ name # ""
    BY <1>6 DEF GroupFiles, Named
  <2>2. last \in 1..Len(f.groups) /\ last \in Nat
    <3>1. Len(f.groups) \in Nat \ {0}
      BY <1>2, <2>1, EmptySeq
    <3> QED BY <3>1
  <2>3. old \in GroupRecords
    BY <1>2, <2>2, ElementOfSeq
  <2>4. old = [name |-> old.name, metrics |-> old.metrics]
        /\ old.name \in ClusterNames /\ old.metrics \in Seq(Metrics)
    <3> HIDE DEF old
    <3> QED BY <2>3 DEF GroupRecords
  <2>5. more \in Seq(Metrics)
    BY <1>3, <2>4, ConcatProperties
  <2>6. new \in GroupRecords
    <3> HIDE DEF old, more
    <3> QED BY <2>4, <2>5 DEF GroupRecords
  <2>7. [old EXCEPT !.metrics = old.metrics \o InCluster(c)] = new
    <3> HIDE DEF old
    <3> DEFINE o == [name |-> old.name, metrics |-> old.metrics]
    <3>1. [o EXCEPT !.metrics = more] = [name |-> old.name, metrics |-> more]
      <4> HIDE DEF more
      <4> QED OBVIOUS
    <3> QED BY <2>4, <3>1
  <2>8. WriteGroup(f, c) = [f EXCEPT !.groups = groups]
    <3>1. WriteGroup(f, c) = [f EXCEPT !.groups[last].metrics = @ \o InCluster(c)]
      BY <1>6 DEF WriteGroup
    <3>2. [f EXCEPT !.groups[last].metrics = @ \o InCluster(c)]
            = [f EXCEPT !.groups = [f.groups EXCEPT ![last] =
                 [old EXCEPT !.metrics = @ \o InCluster(c)]]]
      OBVIOUS
    <3> QED BY <2>7, <3>1, <3>2
  <2>9. /\ groups \in Seq(GroupRecords) /\ Len(groups) = last
        /\ groups[last] = new /\ \A i \in 1..last : i # last => groups[i] = f.groups[i]
    <3> DEFINE s == f.groups
    <3>1. s \in Seq(GroupRecords) /\ last \in 1..Len(s)
      BY <1>2, <2>2
    <3> HIDE DEF new, last, old, s
    <3>2. /\ [s EXCEPT ![last] = new] \in Seq(GroupRecords)
          /\ Len([s EXCEPT ![last] = new]) = Len(s)
          /\ \A i \in 1..Len(s) : [s EXCEPT ![last] = new][i] = IF i = last THEN new ELSE s[i]
      BY <2>6, <3>1, ExceptSeq
    <3>3. /\ groups \in Seq(GroupRecords) /\ Len(groups) = Len(f.groups)
          /\ \A i \in 1..Len(f.groups) : groups[i] = IF i = last THEN new ELSE f.groups[i]
      BY <3>2 DEF s
    <3>4. Len(f.groups) = last
      BY DEF last
    <3> QED BY <2>2, <3>3, <3>4
  <2> HIDE DEF groups
  <2>10. WriteGroup(f, c) = [top |-> f.top, groups |-> groups, previous |-> f.previous]
    BY <1>1, <2>8
  <2>11. groups # <<>>
    BY <2>2, <2>9, EmptySeq
  <2>12. WriteGroup(f, c) \in GroupFiles
    BY <1>2, <2>9, <2>10, <2>11, PmnsFileType
  <2> QED BY <1>6, <2>2, <2>9, <2>10, <2>12
<1> QED BY <1>4, <1>5, <1>6

\* Both passes end, and each of their files is made from the one before.
LEMMA ListedIs ==
  ASSUME AgentOK
  PROVE  /\ Listed \in [0..ClusterCount -> PmnsFiles]
         /\ Listed[0] = EmptyFile(previous_cluster_name)
         /\ \A c \in 1..ClusterCount : Listed[c] = ListCluster(Listed[c - 1], c)
<1> DEFINE base == EmptyFile(previous_cluster_name)
           step == [c \in 1..ClusterCount |-> [f \in PmnsFiles |-> ListCluster(f, c)]]
           Is(f) == f = [c \in 0..ClusterCount |-> IF c = 0 THEN base ELSE ListCluster(f[c - 1], c)]
<1>2. ClusterCount \in Nat
  BY AgentSize
<1>3. base \in PmnsFiles
  BY EmptySeq, PmnsFileType DEF AgentOK, EmptyFile
<1>4. step \in [1..ClusterCount -> [PmnsFiles -> PmnsFiles]]
  BY ListClusterIs
<1>5. PICK f \in [0..ClusterCount -> PmnsFiles] :
        f[0] = base /\ \A c \in 1..ClusterCount : f[c] = step[c][f[c - 1]]
  <2> HIDE DEF base, step
  <2>1. Runs(ClusterCount, PmnsFiles, base, step) # {}
    BY <1>2, <1>3, <1>4, Recursion
  <2> QED BY <2>1 DEF Runs
<1>6. ASSUME NEW c \in 1..ClusterCount PROVE f[c] = ListCluster(f[c - 1], c)
  <2>1. f[c - 1] \in PmnsFiles
    BY <1>2
  <2> QED BY <1>5, <2>1
<1>7. Is(f)
  <2> HIDE DEF base, step
  <2>1. \A c \in 0..ClusterCount : f[c] = IF c = 0 THEN base ELSE ListCluster(f[c - 1], c)
    BY <1>2, <1>5, <1>6
  <2> QED BY <2>1
<1>8. Is(Listed)
  <2>1. Listed = CHOOSE l : Is(l)
    BY DEF Listed, ClusterCount
  <2> HIDE DEF Is
  <2> QED BY <1>7, <2>1
<1>9. /\ Listed[0] = base
      /\ \A c \in 1..ClusterCount : Listed[c] = ListCluster(Listed[c - 1], c)
  <2> HIDE DEF base
  <2> QED BY <1>2, <1>8
<1>10. Listed \in [0..ClusterCount -> PmnsFiles]
  <2> DEFINE T == {c \in 0..ClusterCount : Listed[c] \in PmnsFiles}
  <2>1. 0 \in T
    BY <1>2, <1>3, <1>9
  <2>2. ASSUME NEW c \in 1..ClusterCount, c - 1 \in T PROVE c \in T
    <3>1. Listed[c - 1] \in PmnsFiles /\ Listed[c] = ListCluster(Listed[c - 1], c)
      BY <1>9, <2>2
    <3>2. ListCluster(Listed[c - 1], c) \in PmnsFiles
      BY <3>1, ListClusterIs
    <3>3. c \in 0..ClusterCount
      BY <1>2
    <3> QED BY <3>1, <3>2, <3>3
  <2>3. T \in SUBSET (0..ClusterCount)
    OBVIOUS
  <2> HIDE DEF T
  <2>4. T = 0..ClusterCount
    BY <1>2, <2>1, <2>2, <2>3, Counting
  <2>5. \A c \in 0..ClusterCount : Listed[c] \in PmnsFiles
    BY <2>4 DEF T
  <2>6. Listed = [c \in 0..ClusterCount |-> Listed[c]]
    BY <1>8
  <2> QED BY <2>5, <2>6
<1> QED BY <1>9, <1>10

\* As ListedIs, of the third pass.
LEMMA WrittenIs ==
  ASSUME AgentOK
  PROVE  /\ Written \in [0..ClusterCount -> GroupFiles]
         /\ Written[0] = NoFile
         /\ \A c \in 1..ClusterCount : Written[c] = WriteGroup(Written[c - 1], c)
<1> DEFINE step == [c \in 1..ClusterCount |-> [f \in GroupFiles |-> WriteGroup(f, c)]]
           Is(f) == f = [c \in 0..ClusterCount |-> IF c = 0 THEN NoFile ELSE WriteGroup(f[c - 1], c)]
<1>1. ClusterCount \in Nat
  BY AgentSize
<1>2. NoFile \in GroupFiles
  <2>1. NoFile \in PmnsFiles /\ NoFile.previous = ""
    BY EmptySeq, PmnsFileType DEF NoFile, EmptyFile
  <2> QED BY <2>1 DEF GroupFiles
<1>3. step \in [1..ClusterCount -> [GroupFiles -> GroupFiles]]
  BY WriteGroupIs
<1>4. PICK f \in [0..ClusterCount -> GroupFiles] :
        f[0] = NoFile /\ \A c \in 1..ClusterCount : f[c] = step[c][f[c - 1]]
  <2> HIDE DEF step
  <2>1. Runs(ClusterCount, GroupFiles, NoFile, step) # {}
    BY <1>1, <1>2, <1>3, Recursion
  <2> QED BY <2>1 DEF Runs
<1>5. ASSUME NEW c \in 1..ClusterCount PROVE f[c] = WriteGroup(f[c - 1], c)
  <2>1. f[c - 1] \in GroupFiles
    BY <1>1
  <2> QED BY <1>4, <2>1
<1>6. Is(f)
  <2> HIDE DEF step
  <2>1. \A c \in 0..ClusterCount : f[c] = IF c = 0 THEN NoFile ELSE WriteGroup(f[c - 1], c)
    BY <1>1, <1>4, <1>5
  <2> QED BY <2>1
<1>7. Is(Written)
  <2>1. Written = CHOOSE w : Is(w)
    BY DEF Written, ClusterCount
  <2> HIDE DEF Is
  <2> QED BY <1>6, <2>1
<1>8. /\ Written[0] = NoFile
      /\ \A c \in 1..ClusterCount : Written[c] = WriteGroup(Written[c - 1], c)
  BY <1>1, <1>7
<1>9. Written \in [0..ClusterCount -> GroupFiles]
  <2> DEFINE T == {c \in 0..ClusterCount : Written[c] \in GroupFiles}
  <2>1. 0 \in T
    BY <1>1, <1>2, <1>8
  <2>2. ASSUME NEW c \in 1..ClusterCount, c - 1 \in T PROVE c \in T
    <3>1. Written[c - 1] \in GroupFiles /\ Written[c] = WriteGroup(Written[c - 1], c)
      BY <1>8, <2>2
    <3>2. WriteGroup(Written[c - 1], c) \in GroupFiles
      BY <3>1, WriteGroupIs
    <3>3. c \in 0..ClusterCount
      BY <1>1
    <3> QED BY <3>1, <3>2, <3>3
  <2>3. T \in SUBSET (0..ClusterCount)
    OBVIOUS
  <2> HIDE DEF T
  <2>4. T = 0..ClusterCount
    BY <1>1, <2>1, <2>2, <2>3, Counting
  <2>5. \A c \in 0..ClusterCount : Written[c] \in GroupFiles
    BY <2>4 DEF T
  <2>6. Written = [c \in 0..ClusterCount |-> Written[c]]
    BY <1>7
  <2> QED BY <2>5, <2>6
<1> QED BY <1>8, <1>9
-----------------------------------------------------------------------------
(* Sequences that list each element of a set once.                         *)

\* The sequence lists the elements of S, each once, and nothing else.
Once(s, S) ==
  /\ s \in Seq(S)
  /\ \A x \in S : \E i \in 1..Len(s) : s[i] = x
  /\ \A i, j \in 1..Len(s) : s[i] = s[j] => i = j

\* Nothing is listed in an empty list.
LEMMA OnceEmpty == Once(<<>>, {})
<1>1. <<>> \in Seq({}) /\ Len(<<>>) = 0
  BY EmptySeq
<1> QED BY <1>1 DEF Once

\* Two lists with nothing in common, one after the other.
LEMMA OnceConcat ==
  ASSUME NEW S, NEW T, NEW s, NEW t, Once(s, S), Once(t, T), S \cap T = {}
  PROVE  Once(s \o t, S \cup T)
<1> DEFINE U == S \cup T
           u == s \o t
<1>1. s \in Seq(S) /\ t \in Seq(T) /\ Len(s) \in Nat /\ Len(t) \in Nat
  BY DEF Once
<1>2. s \in Seq(U) /\ t \in Seq(U)
  BY <1>1
<1>3. /\ u \in Seq(U) /\ Len(u) = Len(s) + Len(t)
      /\ \A i \in 1..(Len(s) + Len(t)) : u[i] = IF i <= Len(s) THEN s[i] ELSE t[i - Len(s)]
  BY <1>2, ConcatProperties
<1> HIDE DEF u
<1>4. \A i \in 1..Len(s) : i \in 1..Len(u) /\ u[i] = s[i]
  BY <1>1, <1>3
<1>5. ASSUME NEW i \in 1..Len(t) PROVE i + Len(s) \in 1..Len(u) /\ u[i + Len(s)] = t[i]
  <2>1. i + Len(s) \in 1..(Len(s) + Len(t)) /\ ~(i + Len(s) <= Len(s))
    BY <1>1
  <2>2. (i + Len(s)) - Len(s) = i
    BY <1>1
  <2> QED BY <1>3, <2>1, <2>2
<1>6. \A i \in 1..Len(s) : s[i] \in S
  BY <1>1, ElementOfSeq
<1>7. \A i \in 1..Len(t) : t[i] \in T
  BY <1>1, ElementOfSeq
<1>8. ASSUME NEW x \in U PROVE \E i \in 1..Len(u) : u[i] = x
  <2>1. CASE x \in S
    BY <2>1, <1>4 DEF Once
  <2>2. CASE x \in T
    <3>1. PICK i \in 1..Len(t) : t[i] = x
      BY <2>2 DEF Once
    <3> QED BY <3>1, <1>5
  <2> QED BY <2>1, <2>2
<1>9. ASSUME NEW i \in 1..Len(u), NEW j \in 1..Len(u), u[i] = u[j] PROVE i = j
  <2>1. i \in 1..Len(s) \/ i - Len(s) \in 1..Len(t)
    BY <1>1, <1>3
  <2>2. j \in 1..Len(s) \/ j - Len(s) \in 1..Len(t)
    BY <1>1, <1>3
  <2>3. ASSUME NEW k \in 1..Len(u), k - Len(s) \in 1..Len(t) PROVE u[k] = t[k - Len(s)]
    BY <1>1, <1>3, <2>3
  <2>4. CASE i \in 1..Len(s) /\ j \in 1..Len(s)
    BY <2>4, <1>4, <1>9 DEF Once
  <2>5. CASE i - Len(s) \in 1..Len(t) /\ j - Len(s) \in 1..Len(t)
    <3>1. t[i - Len(s)] = t[j - Len(s)]
      BY <2>3, <2>5, <1>9
    <3>2. i - Len(s) = j - Len(s)
      BY <2>5, <3>1 DEF Once
    <3> QED BY <1>1, <1>3, <3>2
  <2>6. CASE i \in 1..Len(s) /\ j - Len(s) \in 1..Len(t)
    <3>1. u[i] \in S /\ u[j] \in T
      BY <1>4, <1>6, <1>7, <2>3, <2>6
    <3> QED BY <1>9, <3>1
  <2>7. CASE i - Len(s) \in 1..Len(t) /\ j \in 1..Len(s)
    <3>1. u[i] \in T /\ u[j] \in S
      BY <1>4, <1>6, <1>7, <2>3, <2>7
    <3> QED BY <1>9, <3>1
  <2> QED BY <2>1, <2>2, <2>4, <2>5, <2>6, <2>7
<1> QED BY <1>3, <1>8, <1>9 DEF Once, u

\* A new entry at the end of a list.
LEMMA OnceAppend ==
  ASSUME NEW S, NEW s, NEW x, Once(s, S), x \notin S
  PROVE  Once(Append(s, x), S \cup {x})
<1> DEFINE U == S \cup {x}
           u == Append(s, x)
<1>1. s \in Seq(S) /\ s \in Seq(U) /\ x \in U /\ Len(s) \in Nat
  BY DEF Once
<1>2. /\ u \in Seq(U) /\ Len(u) = Len(s) + 1
      /\ \A i \in 1..Len(s) : u[i] = s[i]
      /\ u[Len(s) + 1] = x
  <2> HIDE DEF U
  <2> QED BY <1>1, AppendProperties
<1> HIDE DEF u
<1>3. \A i \in 1..Len(s) : s[i] \in S /\ s[i] # x
  BY <1>1, ElementOfSeq
<1>4. \A i \in 1..Len(u) : i \in 1..Len(s) \/ i = Len(s) + 1
  BY <1>1, <1>2
<1>5. ASSUME NEW y \in U PROVE \E i \in 1..Len(u) : u[i] = y
  <2>1. CASE y \in S
    <3>1. PICK i \in 1..Len(s) : s[i] = y
      BY <2>1 DEF Once
    <3> QED BY <1>1, <1>2, <3>1
  <2>2. CASE y = x
    BY <1>1, <1>2, <2>2
  <2> QED BY <2>1, <2>2
<1>6. ASSUME NEW i \in 1..Len(u), NEW j \in 1..Len(u), u[i] = u[j] PROVE i = j
  <2>1. \A k, l \in 1..Len(s) : s[k] = s[l] => k = l
    BY DEF Once
  <2>2. CASE i \in 1..Len(s) /\ j \in 1..Len(s)
    <3>1. s[i] = s[j]
      BY <1>2, <1>6, <2>2
    <3> QED BY <2>1, <2>2, <3>1
  <2>3. CASE i \in 1..Len(s) /\ j = Len(s) + 1
    <3>1. u[i] = s[i] /\ u[j] = x
      BY <1>2, <2>3
    <3> QED BY <1>3, <1>6, <2>3, <3>1
  <2>4. CASE i = Len(s) + 1 /\ j \in 1..Len(s)
    <3>1. u[j] = s[j] /\ u[i] = x
      BY <1>2, <2>4
    <3> QED BY <1>3, <1>6, <2>4, <3>1
  <2>5. CASE i = Len(s) + 1 /\ j = Len(s) + 1
    BY <2>5
  <2> QED BY <1>4, <2>2, <2>3, <2>4, <2>5
<1> QED BY <1>2, <1>5, <1>6 DEF Once, u

Places(s, x) == {i \in 1..Len(s) : s[i] = x}

\* An element has one place in the sequence, anything else none.
LEMMA OncePlaces ==
  ASSUME NEW S, NEW s, NEW x, Once(s, S)
  PROVE  /\ x \in S => Cardinality(Places(s, x)) = 1
         /\ x \notin S => Places(s, x) = {}
<1>1. CASE x \in S
  <2>1. PICK i \in 1..Len(s) : s[i] = x
    BY <1>1 DEF Once
  <2>2. Places(s, x) = {i}
    BY <2>1 DEF Once, Places
  <2> QED BY <1>1, <2>2, FS_Singleton
<1>2. CASE x \notin S
  <2>1. \A i \in 1..Len(s) : s[i] \in S
    BY ElementOfSeq DEF Once
  <2> QED BY <1>2, <2>1 DEF Places
<1> QED BY <1>1, <1>2
-----------------------------------------------------------------------------
(* What the passes list.                                                   *)

NameOf(c) == supported_metrics[c].name
Names(c) == {NameOf(b) : b \in {d \in 1..c : Named(d)}}
GroupEntry(name) == [group |-> name]
MetricEntry(m) == [metric |-> m]

\* What the first c clusters put at the top, and what they have in a group.
Tops(c) == {GroupEntry(name) : name \in Names(c)}
             \cup {MetricEntry(m) : m \in {n \in Metrics : n[1] <= c /\ ~Named(n[1])}}
GroupMetrics(name, c) == {m \in Metrics : m[1] <= c /\ NameOf(m[1]) = name}

\* The name of the last of the first c clusters that has one, or the given one
\* while none has.
LastNamed(given, name, c) ==
  \/ name = given /\ \A b \in 1..c : ~Named(b)
  \/ \E b \in 1..c : /\ Named(b) /\ name = NameOf(b)
                     /\ \A d \in 1..c : Named(d) => d <= b

\* The first cluster with a name has another than the given one.
NewFirst(given) ==
  \A c \in 1..ClusterCount : Named(c) /\ NameOf(c) = given => \E b \in 1..(c - 1) : Named(b)

ListedOnce(f, c) == LastNamed(previous_cluster_name, f.previous, c) /\ Once(f.top, Tops(c))

GroupNames(f) == [g \in 1..Len(f.groups) |-> f.groups[g].name]

WrittenOnce(f, c) ==
  /\ LastNamed("", f.previous, c)
  /\ Once(GroupNames(f), Names(c))
  /\ \A g \in 1..Len(f.groups) :
       Once(f.groups[g].metrics, GroupMetrics(f.groups[g].name, c))
  /\ f.previous # "" => f.groups[Len(f.groups)].name = f.previous

\* The names of the groups, place by place.
LEMMA GroupNamesIs ==
  ASSUME NEW f \in GroupFiles
  PROVE  /\ f.groups \in Seq(GroupRecords) /\ Len(f.groups) \in Nat
         /\ Len(GroupNames(f)) = Len(f.groups)
         /\ \A g \in 1..Len(f.groups) : GroupNames(f)[g] = f.groups[g].name
<1>1. f.groups \in Seq(GroupRecords)
  BY DEF GroupFiles, PmnsFiles
<1>2. Len(f.groups) \in Nat
  BY <1>1, LenProperties
<1> QED BY <1>1, <1>2 DEF GroupNames

\* Entries for different things are different.
LEMMA EntriesDiffer ==
  ASSUME NEW x, NEW y
  PROVE  /\ GroupEntry(x) # MetricEntry(y)
         /\ GroupEntry(x) = GroupEntry(y) => x = y
         /\ MetricEntry(x) = MetricEntry(y) => x = y
<1>1. GroupEntry(x) # MetricEntry(y)
  <2>1. DOMAIN GroupEntry(x) = {"group"} /\ DOMAIN MetricEntry(y) = {"metric"}
    BY DEF GroupEntry, MetricEntry
  <2>2. "group" # "metric"
    OBVIOUS
  <2>3. "group" \notin DOMAIN MetricEntry(y)
    BY <2>1, <2>2
  <2> QED BY <2>1, <2>3
<1>2. GroupEntry(x) = GroupEntry(y) => x = y
  <2>1. GroupEntry(x).group = x /\ GroupEntry(y).group = y
    BY DEF GroupEntry
  <2> QED BY <2>1
<1>3. MetricEntry(x) = MetricEntry(y) => x = y
  <2>1. MetricEntry(x).metric = x /\ MetricEntry(y).metric = y
    BY DEF MetricEntry
  <2> QED BY <2>1
<1> QED BY <1>1, <1>2, <1>3

\* The last name after one more cluster.
LEMMA LastNamedStep ==
  ASSUME NEW c \in Nat \ {0}, NEW given, NEW name, LastNamed(given, name, c - 1)
  PROVE  /\ ~Named(c) => LastNamed(given, name, c)
         /\ Named(c) => LastNamed(given, NameOf(c), c)
<1>1. \A b \in 1..c : b \in 1..(c - 1) \/ b = c
  OBVIOUS
<1>2. c \in 1..c /\ \A b \in 1..c : b <= c
  OBVIOUS
<1>3. CASE ~Named(c)
  <2>1. CASE name = given /\ \A b \in 1..(c - 1) : ~Named(b)
    BY <1>1, <1>3, <2>1 DEF LastNamed
  <2>2. ASSUME NEW b \in 1..(c - 1), Named(b), name = NameOf(b),
               \A d \in 1..(c - 1) : Named(d) => d <= b
        PROVE  LastNamed(given, name, c)
    <3>1. b \in 1..c
      OBVIOUS
    <3> QED BY <1>1, <1>3, <2>2, <3>1 DEF LastNamed
  <2> QED BY <1>3, <2>1, <2>2 DEF LastNamed
<1>4. CASE Named(c)
  BY <1>2, <1>4 DEF LastNamed
<1> QED BY <1>3, <1>4

\* Places below a cluster that is between the first and the last.
LEMMA Between ==
  ASSUME NEW n \in Nat, NEW c \in 1..n, NEW b \in 1..(c - 1), NEW l \in 1..(c - 1),
         b <= l, b # l
  PROVE  b \in 1..n /\ l \in 1..n /\ b < l /\ l < c
OBVIOUS

\* With names together, a name that is not the last one is new.
LEMMA NewName ==
  ASSUME AgentOK, NamesTogether, NEW c \in 1..ClusterCount, NEW given, NEW name,
         NewFirst(given), LastNamed(given, name, c - 1), Named(c)
  PROVE  IF NameOf(c) = name THEN NameOf(c) \in Names(c - 1) ELSE NameOf(c) \notin Names(c - 1)
<1>1. NameOf(c) # "" /\ c \in Nat /\ c <= ClusterCount /\ ClusterCount \in Nat
  <2>1. ClusterCount \in Nat
    BY AgentSize
  <2>2. c \in Nat /\ c <= ClusterCount
    BY <2>1
  <2> QED BY <2>1, <2>2 DEF Named, NameOf
<1>2. CASE NameOf(c) = name
  <2>1. PICK b \in 1..(c - 1) : Named(b) /\ name = NameOf(b)
    BY <1>1, <1>2 DEF LastNamed, NewFirst
  <2> QED BY <1>2, <2>1 DEF Names
<1>3. CASE NameOf(c) # name
  <2> SUFFICES ASSUME NEW b \in 1..(c - 1), Named(b), NameOf(b) = NameOf(c) PROVE FALSE
    BY <1>3 DEF Names
  <2>1. PICK l \in 1..(c - 1) : /\ Named(l) /\ name = NameOf(l)
                                /\ \A d \in 1..(c - 1) : Named(d) => d <= l
    BY DEF LastNamed
  <2>2. b # l
    BY <1>3, <2>1
  <2>3. b \in 1..ClusterCount /\ l \in 1..ClusterCount /\ b < l /\ l < c
    BY <1>1, <2>1, <2>2, Between
  <2> QED BY <1>3, <2>1, <2>3 DEF NamesTogether, NameOf, ClusterCount
<1> QED BY <1>2, <1>3

\* Before anything is listed, every name is new.
LEMMA NothingNew == NewFirst("")
BY DEF NewFirst, Named, NameOf

\* A cluster's metrics are its own.
LEMMA ClusterOnce ==
  ASSUME AgentOK, NEW c \in 1..ClusterCount
  PROVE  /\ Once(InCluster(c), {m \in Metrics : m[1] = c})
         /\ Once(Ungrouped(c), {MetricEntry(m) : m \in {n \in Metrics : n[1] = c}})
<1> DEFINE M == {m \in Metrics : m[1] = c}
           s == InCluster(c)
           n == Len(s)
<1>1. n \in Nat /\ s \in Seq(Metrics)
      /\ \A i \in 1..n : s[i] = <<c, i>> /\ <<c, i>> \in Metrics
  BY ClusterFacts
<1>2. ASSUME NEW m \in M PROVE \E i \in 1..n : s[i] = m
  <2>1. m \in (1..MaxClusters) \X (1..MaxItems) /\ m[1] = c
        /\ m[2] <= Len(supported_metrics[c].items)
    BY DEF Metrics
  <2>2. m[2] \in 1..n
    <3>1. m[2] \in 1..MaxItems /\ m[2] <= n
      BY <2>1, ClusterFacts
    <3>2. n \in Nat /\ MaxItems \in Nat
      BY ClusterFacts, ExportsAssumption
    <3> HIDE DEF n
    <3> QED BY <3>1, <3>2
  <2>3. m = <<c, m[2]>>
    BY <2>1
  <2> QED BY <1>1, <2>2, <2>3
<1>3. ASSUME NEW i \in 1..n PROVE s[i] \in M /\ s[i][2] = i
  <2>1. <<c, i>>[1] = c /\ <<c, i>>[2] = i
    OBVIOUS
  <2> QED BY <1>1, <2>1
<1>4. s \in Seq(M)
  <2>1. s = [i \in 1..n |-> s[i]]
    BY DEF InCluster
  <2> QED BY <1>1, <1>3, <2>1
<1>5. Once(s, M)
  <2>1. \A i, j \in 1..n : s[i] = s[j] => i = j
    BY <1>3
  <2> HIDE DEF M, s
  <2> QED BY <1>2, <1>4, <2>1 DEF Once
<1> DEFINE E == {MetricEntry(m) : m \in M}
           u == Ungrouped(c)
<1>6. Len(u) = n /\ \A i \in 1..n : u[i] = MetricEntry(s[i])
  BY <1>1, UngroupedType DEF Ungrouped, MetricEntry
<1>7. u \in Seq(E)
  <2>1. \A i \in 1..n : u[i] \in E
    BY <1>3, <1>6
  <2>2. u = [i \in 1..n |-> u[i]]
    BY DEF Ungrouped
  <2> QED BY <1>1, <2>1, <2>2
<1>8. ASSUME NEW x \in E PROVE \E i \in 1..n : u[i] = x
  <2>1. PICK m \in M : x = MetricEntry(m)
    OBVIOUS
  <2> QED BY <1>2, <1>6, <2>1
<1>9. ASSUME NEW i \in 1..n, NEW j \in 1..n, u[i] = u[j] PROVE i = j
  <2> HIDE DEF u, s, n
  <2>1. s[i] = s[j]
    BY <1>6, <1>9, EntriesDiffer
  <2> QED BY <1>3, <2>1
<1>10. Once(u, E)
  <2> HIDE DEF E, u, n
  <2> QED BY <1>6, <1>7, <1>8, <1>9 DEF Once
<1> QED BY <1>5, <1>10

\* What cluster c adds to what the clusters before it have.
LEMMA Additions ==
  ASSUME AgentOK, NEW c \in 1..ClusterCount
  PROVE  /\ Names(c) = IF Named(c) THEN Names(c - 1) \cup {NameOf(c)} ELSE Names(c - 1)
         /\ Tops(c) = IF Named(c) THEN Tops(c - 1) \cup {GroupEntry(NameOf(c))}
                      ELSE Tops(c - 1) \cup {MetricEntry(m) : m \in {n \in Metrics : n[1] = c}}
         /\ \A name : GroupMetrics(name, c) =
              IF name = NameOf(c) THEN GroupMetrics(name, c - 1) \cup {m \in Metrics : m[1] = c}
              ELSE GroupMetrics(name, c - 1)
         /\ \A name : name \notin Names(c - 1) /\ name # "" => GroupMetrics(name, c - 1) = {}
<1>1. c \in Nat /\ c > 0
  <2>1. ClusterCount \in Nat
    BY AgentSize
  <2> QED BY <2>1
<1>2. \A d : d \in 1..c <=> d \in 1..(c - 1) \/ d = c
  BY <1>1
<1>3. Names(c) = IF Named(c) THEN Names(c - 1) \cup {NameOf(c)} ELSE Names(c - 1)
  BY <1>2 DEF Names
<1>4. ASSUME NEW m \in Metrics
      PROVE  /\ m[1] <= c <=> m[1] <= c - 1 \/ m[1] = c
             /\ ~(m[1] <= c - 1 /\ m[1] = c)
             /\ m[1] <= c - 1 => m[1] \in 1..(c - 1)
  <2>1. m[1] \in 1..MaxClusters /\ MaxClusters \in Nat
    BY ExportsAssumption DEF Metrics
  <2> QED BY <1>1, <2>1
<1>5. Tops(c) = IF Named(c) THEN Tops(c - 1) \cup {GroupEntry(NameOf(c))}
                ELSE Tops(c - 1) \cup {MetricEntry(m) : m \in {n \in Metrics : n[1] = c}}
  <2> DEFINE M(d) == {n \in Metrics : n[1] <= d /\ ~Named(n[1])}
  <2>1. M(c) = IF Named(c) THEN M(c - 1) ELSE M(c - 1) \cup {n \in Metrics : n[1] = c}
    BY <1>4
  <2>2. \A d : Tops(d) = {GroupEntry(x) : x \in Names(d)} \cup {MetricEntry(m) : m \in M(d)}
    BY DEF Tops
  <2> HIDE DEF M
  <2> QED BY <1>3, <2>1, <2>2
<1>6. ASSUME NEW name
      PROVE  GroupMetrics(name, c) =
               IF name = NameOf(c) THEN GroupMetrics(name, c - 1) \cup {m \in Metrics : m[1] = c}
               ELSE GroupMetrics(name, c - 1)
  BY <1>4 DEF GroupMetrics
<1>7. ASSUME NEW name, name \notin Names(c - 1), name # ""
      PROVE  GroupMetrics(name, c - 1) = {}
  <2> SUFFICES ASSUME NEW m \in Metrics, m[1] <= c - 1, NameOf(m[1]) = name PROVE FALSE
    BY DEF GroupMetrics
  <2>1. m[1] \in 1..(c - 1) /\ Named(m[1])
    BY <1>4, <1>7 DEF Named, NameOf
  <2> QED BY <1>7, <2>1 DEF Names
<1> QED BY <1>3, <1>5, <1>6, <1>7

\* The second pass lists what a cluster adds, and nothing twice.
LEMMA ListedOnceStep ==
  ASSUME AgentOK, NamesTogether, NewFirst(previous_cluster_name),
         NEW c \in 1..ClusterCount, NEW f \in PmnsFiles, ListedOnce(f, c - 1)
  PROVE  ListedOnce(ListCluster(f, c), c)
<1> DEFINE g == ListCluster(f, c)
<1> SUFFICES ListedOnce(g, c)
  OBVIOUS
<1>1. LastNamed(previous_cluster_name, f.previous, c - 1) /\ Once(f.top, Tops(c - 1))
  BY DEF ListedOnce
<1>2. c \in Nat \ {0}
  <2>1. ClusterCount \in Nat
    BY AgentSize
  <2> QED BY <2>1
<1>3. CASE ~Named(c)
  <2>1. g.top = f.top \o Ungrouped(c) /\ g.previous = f.previous
    BY <1>3, ListClusterIs
  <2> DEFINE own == {MetricEntry(m) : m \in {n \in Metrics : n[1] = c}}
  <2>2. Tops(c - 1) \cap own = {}
    <3>1. ASSUME NEW m \in Metrics, NEW n \in Metrics, m[1] <= c - 1, n[1] = c PROVE m # n
      BY <1>2, <3>1
    <3> QED BY <3>1, EntriesDiffer DEF Tops
  <2>3. Once(Ungrouped(c), own)
    BY ClusterOnce
  <2> HIDE DEF own
  <2>4. Once(f.top \o Ungrouped(c), Tops(c - 1) \cup own)
    BY <1>1, <2>2, <2>3, OnceConcat
  <2>5. Tops(c) = Tops(c - 1) \cup own
    BY <1>3, Additions DEF own
  <2>6. LastNamed(previous_cluster_name, f.previous, c)
    BY <1>1, <1>2, <1>3, LastNamedStep
  <2> HIDE DEF g
  <2> QED BY <2>1, <2>4, <2>5, <2>6 DEF ListedOnce
<1>4. CASE Named(c)
  <2> DEFINE name == NameOf(c)
  <2>1. LastNamed(previous_cluster_name, name, c)
    BY <1>1, <1>2, <1>4, LastNamedStep
  <2>2. Tops(c) = Tops(c - 1) \cup {GroupEntry(name)}
    BY <1>4, Additions
  <2>3. \A b : GroupEntry(name) \in Tops(b) <=> name \in Names(b)
    BY EntriesDiffer DEF Tops
  <2>4. CASE name = f.previous
    <3>1. g.top = f.top /\ g.previous = f.previous
      BY <1>4, <2>4, ListClusterIs DEF NameOf
    <3>2. GroupEntry(name) \in Tops(c - 1)
      BY <1>1, <1>4, <2>3, <2>4, NewName
    <3>3. Tops(c) = Tops(c - 1)
      BY <2>2, <3>2
    <3> HIDE DEF g, name
    <3> QED BY <1>1, <2>1, <2>4, <3>1, <3>3 DEF ListedOnce
  <2>5. CASE name # f.previous
    <3>1. g.top = Append(f.top, GroupEntry(name)) /\ g.previous = name
      BY <1>4, <2>5, ListClusterIs DEF NameOf, GroupEntry
    <3>2. GroupEntry(name) \notin Tops(c - 1)
      BY <1>1, <1>4, <2>3, <2>5, NewName
    <3> HIDE DEF g, name
    <3>3. Once(Append(f.top, GroupEntry(name)), Tops(c - 1) \cup {GroupEntry(name)})
      BY <1>1, <3>2, OnceAppend
    <3> QED BY <2>1, <2>2, <3>1, <3>3 DEF ListedOnce
  <2> QED BY <2>4, <2>5
<1> QED BY <1>3, <1>4

\* The third pass writes each group once, and all of a cluster into its group.
LEMMA WrittenOnceStep ==
  ASSUME AgentOK, NamesTogether, NEW c \in 1..ClusterCount, NEW f \in GroupFiles,
         WrittenOnce(f, c - 1)
  PROVE  WrittenOnce(WriteGroup(f, c), c)
<1> DEFINE h == WriteGroup(f, c)
           name == NameOf(c)
           last == Len(f.groups)
           own == {m \in Metrics : m[1] = c}
<1> SUFFICES WrittenOnce(h, c)
  OBVIOUS
<1>1. /\ LastNamed("", f.previous, c - 1)
      /\ Once(GroupNames(f), Names(c - 1))
      /\ \A g \in 1..last : Once(f.groups[g].metrics, GroupMetrics(f.groups[g].name, c - 1))
      /\ f.previous # "" => f.groups[last].name = f.previous
  BY DEF WrittenOnce
<1>2. c \in Nat \ {0}
  <2>1. ClusterCount \in Nat
    BY AgentSize
  <2> QED BY <2>1
<1>3. f.groups \in Seq(GroupRecords) /\ last \in Nat
  BY GroupNamesIs
<1>4. ASSUME NEW g \in 1..last PROVE f.groups[g].name \in Names(c - 1)
  <2> DEFINE s == GroupNames(f)
  <2>1. s \in Seq(Names(c - 1)) /\ Len(s) = last /\ s[g] = f.groups[g].name
    BY <1>1, GroupNamesIs DEF Once
  <2> HIDE DEF s
  <2> QED BY <2>1, ElementOfSeq
<1>5. Once(InCluster(c), own)
  BY ClusterOnce
<1>6. CASE ~Named(c)
  <2>1. h = f
    BY <1>6, WriteGroupIs
  <2>2. Names(c) = Names(c - 1)
    BY <1>6, Additions
  <2>3. ASSUME NEW g \in 1..last
        PROVE  GroupMetrics(f.groups[g].name, c) = GroupMetrics(f.groups[g].name, c - 1)
    <3>1. f.groups[g].name # name
      BY <1>4, <1>6 DEF Names, Named, NameOf
    <3> QED BY <3>1, Additions
  <2>4. LastNamed("", f.previous, c)
    BY <1>1, <1>2, <1>6, LastNamedStep
  <2> HIDE DEF h
  <2> QED BY <1>1, <2>1, <2>2, <2>3, <2>4 DEF WrittenOnce
<1>7. CASE Named(c) /\ name # f.previous
  <2> DEFINE group == [name |-> name, metrics |-> InCluster(c)]
  <2>1. h \in GroupFiles /\ h.groups = Append(f.groups, group) /\ h.previous = name
    BY <1>7, WriteGroupIs DEF NameOf
  <2>2. /\ Len(h.groups) = last + 1 /\ h.groups[last + 1] = group
        /\ \A g \in 1..last : h.groups[g] = f.groups[g]
    <3>1. group \in GroupRecords
      BY <1>7, ClusterFacts DEF GroupRecords, Named, NameOf
    <3> HIDE DEF group
    <3> QED BY <1>3, <2>1, <3>1, AppendProperties
  <2>3. h.groups[last + 1].name = name /\ h.groups[last + 1].metrics = InCluster(c)
    BY <2>2
  <2> HIDE DEF h, group
  <2>4. name \notin Names(c - 1) /\ Names(c) = Names(c - 1) \cup {name}
    BY <1>1, <1>7, NewName, NothingNew, Additions
  <2>5. GroupNames(h) = Append(GroupNames(f), name)
    <3> DEFINE s == GroupNames(f)
               t == GroupNames(h)
               U == Names(c - 1) \cup {name}
    <3>1. s \in Seq(U) /\ Len(s) = last /\ name \in U
      <4>1. s \in Seq(Names(c - 1)) /\ Names(c - 1) \subseteq U
        BY <1>1 DEF Once
      <4>2. Len(s) = last
        BY GroupNamesIs
      <4> HIDE DEF s
      <4> QED BY <4>1, <4>2
    <3>2. /\ Append(s, name) \in Seq(U) /\ Len(Append(s, name)) = last + 1
          /\ \A g \in 1..last : Append(s, name)[g] = s[g]
          /\ Append(s, name)[last + 1] = name
      <4> HIDE DEF s, U, name, last
      <4> QED BY <3>1, AppendProperties
    <3>3. Len(t) = last + 1 /\ t[last + 1] = name /\ \A g \in 1..last : t[g] = s[g]
      <4>1. Len(t) = last + 1 /\ \A g \in 1..(last + 1) : t[g] = h.groups[g].name
        BY <2>1, <2>2, GroupNamesIs
      <4>2. \A g \in 1..last : g \in 1..(last + 1) /\ s[g] = f.groups[g].name
        BY <1>3, GroupNamesIs
      <4>3. last + 1 \in 1..(last + 1)
        BY <1>3
      <4> QED BY <2>2, <2>3, <4>1, <4>2, <4>3
    <3>4. \A g \in 1..(last + 1) : t[g] = Append(s, name)[g]
      BY <1>3, <3>2, <3>3
    <3>5. t \in Seq(U)
      <4>1. t = [g \in 1..(last + 1) |-> t[g]]
        BY <2>2 DEF GroupNames
      <4>2. \A g \in 1..(last + 1) : Append(s, name)[g] \in U
        <5> HIDE DEF s, U, name, last
        <5> QED BY <3>2, ElementOfSeq
      <4>3. \A g \in 1..(last + 1) : t[g] \in U
        BY <3>4, <4>2
      <4>4. last + 1 \in Nat
        BY <1>3
      <4> HIDE DEF t, s, U, name, last
      <4> QED BY <4>1, <4>3, <4>4
    <3> HIDE DEF t, s, U, name, last
    <3> QED BY <3>2, <3>3, <3>4, <3>5, SeqEqual DEF s, t
  <2>6. Once(GroupNames(h), Names(c))
    <3> HIDE DEF name
    <3>1. Once(Append(GroupNames(f), name), Names(c - 1) \cup {name})
      BY <1>1, <2>4, OnceAppend
    <3> QED BY <2>4, <2>5, <3>1
  <2>7. ASSUME NEW g \in 1..(last + 1)
        PROVE  Once(h.groups[g].metrics, GroupMetrics(h.groups[g].name, c))
    <3>1. CASE g = last + 1
      <4>1. GroupMetrics(name, c - 1) = {} /\ GroupMetrics(name, c) = own
        BY <1>7, <2>4, Additions DEF Named, NameOf
      <4> QED BY <1>5, <2>3, <3>1, <4>1
    <3>2. CASE g # last + 1
      <4>1. g \in 1..last /\ h.groups[g] = f.groups[g]
        BY <1>3, <2>2, <3>2
      <4>2. h.groups[g].name # name
        BY <1>4, <2>4, <4>1
      <4>3. GroupMetrics(h.groups[g].name, c) = GroupMetrics(h.groups[g].name, c - 1)
        BY <4>2, Additions
      <4>4. Once(f.groups[g].metrics, GroupMetrics(f.groups[g].name, c - 1))
        BY <1>1, <4>1
      <4> QED BY <4>1, <4>3, <4>4
    <3> QED BY <3>1, <3>2
  <2>8. LastNamed("", name, c)
    BY <1>1, <1>2, <1>7, LastNamedStep
  <2> HIDE DEF name
  <2> QED BY <2>1, <2>2, <2>3, <2>6, <2>7, <2>8 DEF WrittenOnce
<1>8. CASE Named(c) /\ name = f.previous
  <2>1. /\ h \in GroupFiles /\ last \in 1..last /\ Len(h.groups) = last
        /\ h.groups[last] = [name    |-> f.groups[last].name,
                             metrics |-> f.groups[last].metrics \o InCluster(c)]
        /\ \A i \in 1..last : i # last => h.groups[i] = f.groups[i]
        /\ h.previous = name
    BY <1>8, WriteGroupIs DEF NameOf
  <2>2. f.groups[last].name = name
    BY <1>1, <1>8 DEF Named, NameOf
  <2>3. /\ h.groups[last].name = name
        /\ h.groups[last].metrics = f.groups[last].metrics \o InCluster(c)
    BY <2>1, <2>2
  <2> HIDE DEF h
  <2>4. Names(c) = Names(c - 1)
    <3>1. name \in Names(c - 1)
      BY <1>1, <1>8, NewName, NothingNew
    <3>2. Names(c) = Names(c - 1) \cup {name}
      BY <1>8, Additions
    <3> QED BY <3>1, <3>2
  <2>5. GroupNames(h) = GroupNames(f)
    BY <2>1, <2>2, <2>3 DEF GroupNames
  <2>6. ASSUME NEW g \in 1..last
        PROVE  Once(h.groups[g].metrics, GroupMetrics(h.groups[g].name, c))
    <3>1. CASE g = last
      <4>1. Once(f.groups[last].metrics, GroupMetrics(name, c - 1))
        BY <1>1, <2>1, <2>2
      <4>2. GroupMetrics(name, c - 1) \cap own = {}
        <5>1. ASSUME NEW m \in Metrics, m[1] <= c - 1, m[1] = c PROVE FALSE
          BY <1>2, <5>1
        <5> QED BY <5>1 DEF GroupMetrics
      <4>3. GroupMetrics(name, c) = GroupMetrics(name, c - 1) \cup own
        BY Additions
      <4> HIDE DEF own
      <4>4. Once(f.groups[last].metrics \o InCluster(c), GroupMetrics(name, c - 1) \cup own)
        BY <1>5, <4>1, <4>2, OnceConcat
      <4> QED BY <2>3, <3>1, <4>3, <4>4
    <3>2. CASE g # last
      <4>1. h.groups[g] = f.groups[g]
        BY <2>1, <3>2
      <4>2. f.groups[g].name # name
        <5>1. GroupNames(f)[g] # GroupNames(f)[last]
          BY <1>1, <2>1, <3>2, GroupNamesIs DEF Once
        <5> QED BY <2>1, <2>2, <5>1, GroupNamesIs
      <4> QED BY <1>1, <4>1, <4>2, Additions
    <3> QED BY <3>1, <3>2
  <2>7. LastNamed("", name, c)
    BY <1>1, <1>2, <1>8, LastNamedStep
  <2> HIDE DEF name
  <2> QED BY <1>1, <2>1, <2>3, <2>4, <2>5, <2>6, <2>7 DEF WrittenOnce
<1> QED BY <1>6, <1>7, <1>8

\* What is written is a namespace file.
LEMMA PmnsFileIs ==
  ASSUME AgentOK
  PROVE  /\ PmnsFile \in PmnsFiles
         /\ PmnsFile.top = Listed[ClusterCount].top
         /\ PmnsFile.groups = Written[ClusterCount].groups
<1> DEFINE l == Listed[ClusterCount]
           w == Written[ClusterCount]
<1>1. ClusterCount \in 0..ClusterCount
  BY AgentSize
<1>2. l \in PmnsFiles /\ w \in GroupFiles
  BY <1>1, ListedIs, WrittenIs
<1>3. PmnsFile = [top |-> l.top, groups |-> w.groups, previous |-> l.previous]
  BY DEF PmnsFile, ClusterCount
<1> HIDE DEF l, w
<1>4. /\ l.top \in Seq(Entries) /\ w.groups \in Seq(GroupRecords)
      /\ l.previous \in ClusterNames \cup {""}
  BY <1>2 DEF GroupFiles, PmnsFiles
<1>5. PmnsFile \in PmnsFiles
  BY <1>3, <1>4, PmnsFileType
<1> QED BY <1>3, <1>5 DEF l, w

\* The numbers a pass goes through.
LEMMA Zeroth ==
  ASSUME NEW n \in Nat
  PROVE  /\ 0 \in 0..n /\ n \in 0..n
         /\ \A c \in 1..n : c \in 0..n /\ c - 1 \in 0..n
OBVIOUS

\* Nor does it go through any without clusters.
LEMMA NoNumber == 1..0 = {}
OBVIOUS

\* An empty file.
LEMMA NothingIn ==
  /\ NoFile.top = <<>> /\ NoFile.previous = "" /\ Len(NoFile.groups) = 0
  /\ GroupNames(NoFile) = <<>>
<1>1. NoFile.top = <<>> /\ NoFile.previous = "" /\ NoFile.groups = <<>>
  BY DEF NoFile, EmptyFile
<1>2. Len(NoFile.groups) = 0
  BY <1>1, EmptySeq
<1>3. GroupNames(NoFile) \in Seq({}) /\ Len(GroupNames(NoFile)) = 0
  BY <1>2 DEF GroupNames
<1>4. GroupNames(NoFile) = <<>>
  BY <1>3, EmptySeq
<1> QED BY <1>1, <1>2, <1>4

\* The cluster of a metric is one of the agent.
LEMMA ClusterOf ==
  ASSUME AgentOK, NEW m \in Metrics
  PROVE  m[1] \in Nat /\ ~(m[1] <= 0) /\ m[1] <= ClusterCount /\ m[1] \in 1..ClusterCount
<1> DEFINE c == m[1]
<1>1. c \in 1..MaxClusters /\ c <= ClusterCount
  BY DEF Metrics, ClusterCount
<1> HIDE DEF c
<1>2. c \in Nat /\ 1 <= c
  BY <1>1, ExportsAssumption
<1>3. ClusterCount \in Nat
  BY AgentSize
<1> QED BY <1>1, <1>2, <1>3 DEF c

\* Whatever the clusters are called, the second pass keeps the last name.
LEMMA ListedLast ==
  ASSUME AgentOK
  PROVE  LastNamed(previous_cluster_name, PmnsFile.previous, ClusterCount)
<1> DEFINE L == {c \in 0..ClusterCount :
                   LastNamed(previous_cluster_name, Listed[c].previous, c)}
<1>1. ClusterCount \in Nat
  BY AgentSize
<1>2. 0 \in L
  <2>1. Listed[0].previous = previous_cluster_name
    BY ListedIs DEF EmptyFile
  <2>2. LastNamed(previous_cluster_name, previous_cluster_name, 0)
    BY NoNumber DEF LastNamed
  <2> QED BY <1>1, <2>1, <2>2, Zeroth
<1>3. ASSUME NEW c \in 1..ClusterCount, c - 1 \in L PROVE c \in L
  <2>1. c \in 0..ClusterCount /\ c - 1 \in 0..ClusterCount
    BY <1>1, Zeroth
  <2>2. Listed[c - 1] \in PmnsFiles /\ Listed[c] = ListCluster(Listed[c - 1], c)
    BY <2>1, ListedIs
  <2>3. /\ ~Named(c) => Listed[c].previous = Listed[c - 1].previous
        /\ Named(c) => Listed[c].previous = NameOf(c)
    <3> DEFINE f == Listed[c - 1]
               g == ListCluster(f, c)
    <3>1. f \in PmnsFiles /\ Listed[c] = g
      BY <2>2
    <3> HIDE DEF f
    <3>2. /\ ~Named(c) => g.previous = f.previous
          /\ Named(c) /\ NameOf(c) = f.previous => g.previous = f.previous
          /\ Named(c) /\ NameOf(c) # f.previous => g.previous = NameOf(c)
      BY <3>1, ListClusterIs DEF NameOf
    <3> HIDE DEF g
    <3> QED BY <3>1, <3>2 DEF f
  <2>4. LastNamed(previous_cluster_name, Listed[c - 1].previous, c - 1)
    BY <1>3
  <2>5. c \in Nat \ {0}
    BY <1>1
  <2>6. LastNamed(previous_cluster_name, Listed[c].previous, c)
    BY <2>3, <2>4, <2>5, LastNamedStep
  <2> QED BY <2>1, <2>6
<1>4. L \in SUBSET (0..ClusterCount)
  OBVIOUS
<1> HIDE DEF L
<1>5. ClusterCount \in L
  BY <1>1, <1>2, <1>3, <1>4, Counting, Zeroth
<1>6. PmnsFile.previous = Listed[ClusterCount].previous
  BY DEF PmnsFile, ClusterCount
<1> QED BY <1>5, <1>6 DEF L

\* What the static variable holds between two exports: nothing, or the name of
\* the last cluster that has one.
PreviousIsLast == LastNamed("", previous_cluster_name, ClusterCount) \/ previous_cluster_name = ""

\* With names together, the first name is the last one in an agent of one group
\* only.
LEMMA FirstIsNew ==
  ASSUME AgentOK, NamesTogether, PreviousIsLast, Groups # {previous_cluster_name}
  PROVE  NewFirst(previous_cluster_name)
<1> DEFINE p == previous_cluster_name
<1> SUFFICES ASSUME NEW c \in 1..ClusterCount, Named(c), NameOf(c) = p,
                    ~\E b \in 1..(c - 1) : Named(b)
             PROVE  FALSE
  BY DEF NewFirst
<1>1. ClusterCount \in Nat
  BY AgentSize
<1>2. p # ""
  BY DEF Named, NameOf
<1>3. PICK l \in 1..ClusterCount : /\ Named(l) /\ p = NameOf(l)
                                   /\ \A d \in 1..ClusterCount : Named(d) => d <= l
  BY <1>2 DEF PreviousIsLast, LastNamed
<1>4. ASSUME NEW d \in 1..ClusterCount, Named(d) PROVE NameOf(d) = p
  <2>1. d <= l
    BY <1>3, <1>4
  <2>2. d \notin 1..(c - 1)
    BY <1>4
  <2>3. d = c \/ d = l \/ (c < d /\ d < l)
    <3>1. c \in Nat /\ d \in Nat /\ l \in Nat /\ 1 <= d
      BY <1>1
    <3> QED BY <2>1, <2>2, <3>1
  <2>4. CASE c < d /\ d < l
    BY <1>3, <1>4, <2>4 DEF NamesTogether, NameOf, ClusterCount
  <2> QED BY <1>3, <2>3, <2>4
<1>5. Groups = {p}
  <2>1. Groups = Names(ClusterCount)
    BY DEF Groups, Names, Named, NameOf, ClusterCount
  <2>2. p \in Names(ClusterCount)
    BY DEF Names
  <2>3. \A name \in Names(ClusterCount) : name = p
    BY <1>4 DEF Names
  <2> QED BY <2>1, <2>2, <2>3
<1> QED BY <1>5

\* The two passes, each to its end.
LEMMA AllOnce ==
  ASSUME AgentOK, NamesTogether, NewFirst(previous_cluster_name)
  PROVE  /\ ListedOnce(Listed[ClusterCount], ClusterCount)
         /\ WrittenOnce(Written[ClusterCount], ClusterCount)
<1> DEFINE L == {c \in 0..ClusterCount : ListedOnce(Listed[c], c)}
           W == {c \in 0..ClusterCount : WrittenOnce(Written[c], c)}
<1>1. ClusterCount \in Nat
  BY AgentSize
<1>2. Names(0) = {} /\ Tops(0) = {} /\ LastNamed("", "", 0)
      /\ LastNamed(previous_cluster_name, previous_cluster_name, 0)
  <2>1. \A m \in Metrics : ~(m[1] <= 0)
    BY ClusterOf
  <2> QED BY <2>1, NoNumber DEF Names, Tops, LastNamed
<1>3. 0 \in L
  <2>1. Listed[0].top = <<>> /\ Listed[0].previous = previous_cluster_name
    BY ListedIs DEF EmptyFile
  <2>2. LastNamed(previous_cluster_name, Listed[0].previous, 0) /\ Once(Listed[0].top, Tops(0))
    BY <1>2, <2>1, OnceEmpty
  <2> QED BY <1>1, <2>2, Zeroth DEF ListedOnce
<1>4. 0 \in W
  <2>1. Written[0] = NoFile
    BY WrittenIs
  <2>2. WrittenOnce(NoFile, 0)
    BY <1>2, OnceEmpty, NothingIn, NoNumber DEF WrittenOnce
  <2> QED BY <1>1, <2>1, <2>2, Zeroth
<1>5. ASSUME NEW c \in 1..ClusterCount PROVE c \in 0..ClusterCount /\ c - 1 \in 0..ClusterCount
  BY <1>1, Zeroth
<1>6. ASSUME NEW c \in 1..ClusterCount, c - 1 \in L PROVE c \in L
  <2>1. Listed[c - 1] \in PmnsFiles /\ Listed[c] = ListCluster(Listed[c - 1], c)
    BY <1>5, ListedIs
  <2>2. ListedOnce(Listed[c], c)
    BY <1>6, <2>1, ListedOnceStep
  <2> QED BY <1>5, <2>2
<1>7. ASSUME NEW c \in 1..ClusterCount, c - 1 \in W PROVE c \in W
  <2>1. Written[c - 1] \in GroupFiles /\ Written[c] = WriteGroup(Written[c - 1], c)
    BY <1>5, WrittenIs
  <2>2. WrittenOnce(Written[c], c)
    BY <1>7, <2>1, WrittenOnceStep
  <2> QED BY <1>5, <2>2
<1>8. L \in SUBSET (0..ClusterCount) /\ W \in SUBSET (0..ClusterCount)
  OBVIOUS
<1> HIDE DEF L, W
<1>9. L = 0..ClusterCount /\ W = 0..ClusterCount
  BY <1>1, <1>3, <1>4, <1>6, <1>7, <1>8, Counting
<1>10. ClusterCount \in L /\ ClusterCount \in W
  BY <1>1, <1>9, Zeroth
<1> QED BY <1>10 DEF L, W

\* The file has one place for everything.
LEMMA FileIsTree ==
  ASSUME AgentOK, NamesTogether, NewFirst(previous_cluster_name)
  PROVE  IsTree(PmnsFile)
<1> DEFINE f == PmnsFile
           N == ClusterCount
<1>1. Once(f.top, Tops(N))
  BY AllOnce, PmnsFileIs DEF ListedOnce
<1>2. /\ Once(GroupNames(f), Names(N))
      /\ \A g \in 1..Len(f.groups) : Once(f.groups[g].metrics, GroupMetrics(f.groups[g].name, N))
  BY AllOnce, PmnsFileIs DEF WrittenOnce, GroupNames
<1>3. /\ Len(f.groups) \in Nat /\ Len(GroupNames(f)) = Len(f.groups)
      /\ \A g \in 1..Len(f.groups) : GroupNames(f)[g] = f.groups[g].name
  <2> DEFINE w == Written[N]
  <2>1. w \in GroupFiles
    BY AgentSize, WrittenIs, Zeroth
  <2>2. f.groups = w.groups
    BY PmnsFileIs
  <2>3. GroupNames(f) = GroupNames(w)
    BY <2>2 DEF GroupNames
  <2> HIDE DEF w, f
  <2> QED BY <2>1, <2>2, <2>3, GroupNamesIs
<1>4. Groups = Names(N)
  BY DEF Groups, Names, Named, NameOf, ClusterCount
<1> HIDE DEF f, N
<1>5. \A g \in 1..Len(f.groups) : f.groups[g].name \in Names(N)
  BY <1>2, <1>3, ElementOfSeq DEF Once
<1>6. ASSUME NEW name \in Groups
      PROVE  /\ Cardinality(TopPlaces(f, [group |-> name])) = 1
             /\ Cardinality(GroupPlaces(f, name)) = 1
  <2>1. GroupEntry(name) \in Tops(N)
    BY <1>4 DEF Tops
  <2>2. TopPlaces(f, GroupEntry(name)) = Places(f.top, GroupEntry(name))
    BY DEF TopPlaces, Places
  <2>3. Cardinality(TopPlaces(f, GroupEntry(name))) = 1
    BY <1>1, <2>1, <2>2, OncePlaces
  <2>4. GroupPlaces(f, name) = Places(GroupNames(f), name)
    BY <1>3 DEF GroupPlaces, Places
  <2>5. Cardinality(Places(GroupNames(f), name)) = 1
    BY <1>2, <1>4, OncePlaces
  <2> QED BY <2>3, <2>4, <2>5 DEF GroupEntry
<1>7. ASSUME NEW m \in Metrics, Named(m[1])
      PROVE  /\ TopPlaces(f, [metric |-> m]) = {}
             /\ Cardinality(PlacesInGroups(f, m)) = 1
             /\ \A p \in PlacesInGroups(f, m) : f.groups[p[1]].name = supported_metrics[m[1]].name
  <2>1. MetricEntry(m) \notin Tops(N)
    BY <1>7, EntriesDiffer DEF Tops
  <2>2. TopPlaces(f, MetricEntry(m)) = Places(f.top, MetricEntry(m))
    BY DEF TopPlaces, Places
  <2>3. TopPlaces(f, MetricEntry(m)) = {}
    BY <1>1, <2>1, <2>2, OncePlaces
  <2>4. m[1] \in 1..N /\ m[1] <= N
    BY ClusterOf DEF N
  <2>5. NameOf(m[1]) \in Names(N)
    BY <1>7, <2>4 DEF Names
  <2>6. PICK g \in 1..Len(f.groups) : f.groups[g].name = NameOf(m[1])
    <3>1. PICK g \in 1..Len(GroupNames(f)) : GroupNames(f)[g] = NameOf(m[1])
      BY <1>2, <2>5 DEF Once
    <3> QED BY <1>3, <3>1
  <2>7. m \in GroupMetrics(f.groups[g].name, N)
    BY <2>4, <2>6 DEF GroupMetrics
  <2>8. PICK i \in 1..Len(f.groups[g].metrics) : f.groups[g].metrics[i] = m
    BY <1>2, <2>7 DEF Once
  <2>9. ASSUME NEW h \in 1..Len(f.groups), NEW j \in 1..Len(f.groups[h].metrics),
               f.groups[h].metrics[j] = m
        PROVE  h = g /\ j = i
    <3>1. m \in GroupMetrics(f.groups[h].name, N)
      BY <1>2, <2>9, ElementOfSeq DEF Once
    <3>2. f.groups[h].name = NameOf(m[1])
      BY <3>1 DEF GroupMetrics
    <3>3. h = g
      <4>1. GroupNames(f)[h] = GroupNames(f)[g]
        BY <1>3, <2>6, <3>2
      <4>2. h \in 1..Len(GroupNames(f)) /\ g \in 1..Len(GroupNames(f))
        BY <1>3
      <4> QED BY <1>2, <4>1, <4>2 DEF Once
    <3>4. Once(f.groups[g].metrics, GroupMetrics(f.groups[g].name, N))
      BY <1>2
    <3> QED BY <2>8, <2>9, <3>3, <3>4 DEF Once
  <2>10. PlacesInGroups(f, m) = {<<g, i>>}
    <3>1. <<g, i>> \in PlacesInGroups(f, m)
      <4>1. i \in {j \in 1..Len(f.groups[g].metrics) : f.groups[g].metrics[j] = m}
        BY <2>8
      <4> DEFINE at(h) == {<<h, k>> : k \in {j \in 1..Len(f.groups[h].metrics) :
                                               f.groups[h].metrics[j] = m}}
      <4>2. <<g, i>> \in at(g)
        BY <4>1
      <4>3. PlacesInGroups(f, m) = UNION {at(h) : h \in 1..Len(f.groups)}
        BY DEF PlacesInGroups
      <4> HIDE DEF at
      <4> QED BY <4>2, <4>3
    <3>2. ASSUME NEW p \in PlacesInGroups(f, m) PROVE p = <<g, i>>
      <4>1. PICK h \in 1..Len(f.groups) : \E j \in 1..Len(f.groups[h].metrics) :
                   f.groups[h].metrics[j] = m /\ p = <<h, j>>
        BY DEF PlacesInGroups
      <4> QED BY <2>9, <4>1
    <3> QED BY <3>1, <3>2
  <2>11. Cardinality(PlacesInGroups(f, m)) = 1
    BY <2>10, FS_Singleton
  <2>12. \A p \in PlacesInGroups(f, m) : p[1] = g
    <3>1. <<g, i>>[1] = g
      OBVIOUS
    <3> QED BY <2>10, <3>1
  <2> QED BY <2>3, <2>6, <2>11, <2>12 DEF MetricEntry, NameOf
<1>8. ASSUME NEW m \in Metrics, ~Named(m[1])
      PROVE  /\ PlacesInGroups(f, m) = {}
             /\ Cardinality(TopPlaces(f, [metric |-> m])) = 1
  <2>1. m[1] <= N
    BY ClusterOf DEF N
  <2>2. MetricEntry(m) \in Tops(N)
    BY <1>8, <2>1 DEF Tops
  <2>3. TopPlaces(f, MetricEntry(m)) = Places(f.top, MetricEntry(m))
    BY DEF TopPlaces, Places
  <2>4. Cardinality(TopPlaces(f, MetricEntry(m))) = 1
    BY <1>1, <2>2, <2>3, OncePlaces
  <2>5. ASSUME NEW g \in 1..Len(f.groups), NEW j \in 1..Len(f.groups[g].metrics),
               f.groups[g].metrics[j] = m
        PROVE  FALSE
    <3>1. m \in GroupMetrics(f.groups[g].name, N)
      BY <1>2, <2>5, ElementOfSeq DEF Once
    <3>2. f.groups[g].name = NameOf(m[1]) /\ f.groups[g].name \in Names(N)
      BY <1>5, <3>1 DEF GroupMetrics
    <3> QED BY <1>8, <3>2 DEF Names, Named, NameOf
  <2> QED BY <2>4, <2>5 DEF PlacesInGroups, MetricEntry
<1>9. IsTree(f)
  BY <1>6, <1>7, <1>8 DEF IsTree
<1> QED BY <1>9 DEF f

\* What the namespace files rest on.
PmnsInv == AgentOK /\ PreviousIsLast

\* It holds before the first export.
LEMMA PmnsInit == Init => PmnsInv
BY DEF Init, PmnsInv, AgentOK, PreviousIsLast

\* And after any.
LEMMA PmnsStep == PmnsInv /\ [Next]_vars => PmnsInv'
<1> SUFFICES ASSUME PmnsInv, [Next]_vars PROVE PmnsInv'
  OBVIOUS
<1>1. AgentOK /\ PreviousIsLast
  BY DEF PmnsInv
<1>2. UNCHANGED supported_metrics
  BY DEF Next, ExportPmns, ExportHelp, ExportAll, Counted, vars
<1>3. previous_cluster_name' = PmnsFile.previous \/ UNCHANGED previous_cluster_name
  BY DEF Next, ExportPmns, ExportHelp, ExportAll, WritePmns, vars
<1>4. PmnsFile.previous \in ClusterNames \cup {""}
  BY <1>1, PmnsFileIs DEF PmnsFiles
<1>5. AgentOK'
  BY <1>1, <1>2, <1>3, <1>4 DEF AgentOK
<1>6. PmnsFile.previous = previous_cluster_name \/ LastNamed("", PmnsFile.previous, ClusterCount)
  BY <1>1, ListedLast DEF LastNamed
<1>7. PreviousIsLast'
  BY <1>1, <1>2, <1>3, <1>6 DEF PreviousIsLast, LastNamed, Named, NameOf, ClusterCount
<1> QED BY <1>5, <1>7 DEF PmnsInv

\* For any agent whose clusters of one name have ids next to each other, any
\* number of exports, in any order, write namespace files that are trees of all
\* metrics, unless its only group has been listed before.
THEOREM ExportsAreTrees == Spec => ExportedIsTree
<1>1. PmnsInv /\ [Next]_vars =>
        [(ExportPmns \/ ExportAll) /\ NamesTogether /\ Groups # {previous_cluster_name}
           => IsTree(pmns')]_vars
  <2> SUFFICES ASSUME PmnsInv, ExportPmns \/ ExportAll, NamesTogether,
                      Groups # {previous_cluster_name}
               PROVE  IsTree(pmns')
    OBVIOUS
  <2>1. pmns' = PmnsFile
    BY DEF ExportPmns, ExportAll, WritePmns
  <2>2. AgentOK /\ PreviousIsLast
    BY DEF PmnsInv
  <2>3. IsTree(PmnsFile)
    BY <2>2, FirstIsNew, FileIsTree
  <2> QED BY <2>1, <2>3
<1> QED BY <1>1, PmnsInit, PmnsStep, PTL DEF Spec, ExportedIsTree

\* What an agent has stays what it has, and files hold nothing else.
TypeInv == AgentOK /\ TypeOK

\* A help file lists metrics and domains of the agent.
LEMMA HelpFileType ==
  ASSUME AgentOK
  PROVE  HelpFile.metrics \subseteq Metrics /\ HelpFile.domains \subseteq Domains
<1>1. ASSUME NEW m \in Metrics PROVE MetricOf(m).domain \in Domains \cup {NoDomain}
  <2>1. m[1] \in 1..ClusterCount
    BY ClusterOf
  <2>2. supported_metrics[m[1]].items \in Seq(MetricRecords)
    BY <2>1, ClusterFacts
  <2>3. m[2] \in 1..Len(supported_metrics[m[1]].items)
    <3>1. m[2] \in 1..MaxItems /\ m[2] <= Len(supported_metrics[m[1]].items)
      BY DEF Metrics
    <3>2. MaxItems \in Nat /\ Len(supported_metrics[m[1]].items) \in Nat
      BY <2>1, ClusterFacts, ExportsAssumption
    <3> QED BY <3>1, <3>2
  <2>4. MetricOf(m) \in MetricRecords
    BY <2>2, <2>3, ElementOfSeq DEF MetricOf
  <2> QED BY <2>4 DEF MetricRecords
<1>2. HelpFile.metrics \subseteq Metrics
  BY DEF HelpFile
<1>3. HelpFile.domains \subseteq Domains
  <2> SUFFICES ASSUME NEW d \in HelpFile.domains PROVE d \in Domains
    OBVIOUS
  <2>1. PICK m \in Metrics : d = MetricOf(m).domain /\ d # NoDomain
    BY DEF HelpFile
  <2> QED BY <1>1, <2>1
<1> QED BY <1>2, <1>3

\* The first state is well typed.
LEMMA TypeInit == Init => TypeInv
<1> SUFFICES ASSUME Init PROVE TypeInv
  OBVIOUS
<1>1. AgentOK
  BY DEF Init, AgentOK
<1>2. supported_metrics \in Seq([name : ClusterNames \cup {""}, items : Seq(MetricRecords)])
  <2> DEFINE R == [name : ClusterNames \cup {""}, items : Seq(MetricRecords)]
  <2> SUFFICES supported_metrics \in Seq(R)
    OBVIOUS
  <2>1. PICK n \in 0..MaxClusters : supported_metrics \in [1..n -> ClusterRecords]
    BY DEF Init, BoundedSeq, SeqOf
  <2>2. n \in Nat /\ ClusterCount = n
    BY <2>1, ExportsAssumption DEF ClusterCount
  <2>3. ASSUME NEW c \in 1..n PROVE supported_metrics[c] \in R
    <3>1. supported_metrics[c] \in ClusterRecords
      BY <2>1
    <3>2. supported_metrics[c].items \in Seq(MetricRecords)
      BY <1>1, <2>2, ClusterFacts
    <3> QED BY <3>1, <3>2 DEF ClusterRecords
  <2> HIDE DEF R
  <2>4. supported_metrics \in [1..n -> R]
    BY <2>1, <2>3
  <2> QED BY <2>2, <2>4
<1>3. NoFile.top = <<>> /\ NoFile.groups = <<>>
  BY DEF NoFile, EmptyFile
<1>4. /\ NoFile.top \in Seq([group : ClusterNames] \cup [metric : Metrics])
      /\ NoFile.groups \in Seq([name : ClusterNames, metrics : Seq(Metrics)])
  BY <1>3, EmptySeq
<1>5. 0 \in 0..MaxExports
  BY ExportsAssumption
<1>6. NoHelp.metrics \subseteq Metrics /\ NoHelp.domains \subseteq Domains
  BY DEF NoHelp
<1> QED BY <1>1, <1>2, <1>4, <1>5, <1>6 DEF Init, TypeInv, TypeOK

\* And so is the state after any export.
LEMMA TypeStep == TypeInv /\ [Next]_vars => TypeInv'
<1> SUFFICES ASSUME TypeInv, [Next]_vars PROVE TypeInv'
  OBVIOUS
<1>1. AgentOK /\ TypeOK
  BY DEF TypeInv
<1>2. UNCHANGED <<supported_metrics, domain_id>>
  BY DEF Next, ExportPmns, ExportHelp, ExportAll, Counted, vars
<1>3. Metrics' = Metrics
  BY <1>2 DEF Metrics
<1>4. \/ pmns' = PmnsFile /\ previous_cluster_name' = PmnsFile.previous
      \/ UNCHANGED <<pmns, previous_cluster_name>>
  BY DEF Next, ExportPmns, ExportHelp, ExportAll, WritePmns, vars
<1>5. /\ PmnsFile.top \in Seq([group : ClusterNames] \cup [metric : Metrics])
      /\ PmnsFile.groups \in Seq([name : ClusterNames, metrics : Seq(Metrics)])
      /\ PmnsFile.previous \in ClusterNames \cup {""}
  BY <1>1, PmnsFileIs DEF PmnsFiles, Entries, GroupRecords
<1>6. /\ pmns'.top \in Seq([group : ClusterNames] \cup [metric : Metrics])
      /\ pmns'.groups \in Seq([name : ClusterNames, metrics : Seq(Metrics)])
      /\ previous_cluster_name' \in ClusterNames \cup {""}
  BY <1>1, <1>4, <1>5 DEF TypeOK
<1>7. help'.metrics \subseteq Metrics /\ help'.domains \subseteq Domains
  <2>1. help' = HelpFile \/ help' = help
    BY DEF Next, ExportPmns, ExportHelp, ExportAll, vars
  <2> QED BY <1>1, <2>1, HelpFileType DEF TypeOK
<1>8. exports' \in 0..MaxExports
  <2>1. exports \in 0..MaxExports /\ MaxExports \in Nat
    BY <1>1, ExportsAssumption DEF TypeOK
  <2>2. exports' = exports \/ (exports < MaxExports /\ exports' = exports + 1)
    BY DEF Next, ExportPmns, ExportHelp, ExportAll, Counted, vars
  <2> QED BY <2>1, <2>2
<1>9. AgentOK'
  BY <1>1, <1>2, <1>6 DEF AgentOK
<1> QED BY <1>1, <1>2, <1>3, <1>6, <1>7, <1>8, <1>9 DEF TypeInv, TypeOK

\* A process that exports any number of times writes nothing but its groups
\* and metrics, each metric into some group or to the top.
THEOREM ExportTypes == Spec => []TypeOK
<1>1. TypeInv => TypeOK
  BY DEF TypeInv
<1> QED BY <1>1, TypeInit, TypeStep, PTL DEF Spec
=============================================================================
