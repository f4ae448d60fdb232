---------------------------- MODULE Registration ----------------------------
(***************************************************************************)
(* pcp::pmda::initialize_pmda: the metrics an agent describes become the   *)
(* metric and instance-domain tables that libpcp_pmda works from, and the  *)
(* map from instance-domain ids to instance_domain objects that the text   *)
(* callback works from.  The nested loops over the metric clusters are one *)
(* action per metric, so that every assertion of the code has a state it   *)
(* can be read in.                                                         *)
(*                                                                         *)
(* Abstracted: the attributes of a metric other than its domain (type,     *)
(* units, semantics, texts, opaque pointer) are the metric's key, `desc';  *)
(* the instances copied into a pmdaIndom are the domain they come from,    *)
(* `owner'.  The 12 + 10 bits of a PMID and the 22 bits of a serial are    *)
(* the constants ClusterSize, ItemSize and SerialSize.                     *)
(***************************************************************************)
EXTENDS Integers, Sequences, FiniteSets

CONSTANTS
  Clusters, Items,          \* metric ids the agent may use
  Domains,                  \* instance_domain objects
  NoDomain,                 \* the NULL domain pointer of a metric
  DomainIds,                \* ids the agent may give to its domains
  PmdaDomain,               \* the agent's PMDA domain number
  ClusterSize, ItemSize,    \* number of clusters and items a PMID can hold
  SerialSize,               \* number of serials a pmInDom can hold
  PM_INDOM_NULL             \* the id that says "no instance domain"

ASSUME RegistrationAssumption ==
  /\ Clusters \subseteq Nat /\ Items \subseteq Nat
  /\ IsFiniteSet(Clusters \X Items)
  /\ IsFiniteSet(Domains) /\ NoDomain \notin Domains
  /\ DomainIds \subseteq Nat
  /\ PmdaDomain \in Nat
  /\ ClusterSize \in Nat \ {0} /\ ItemSize \in Nat \ {0}
  /\ SerialSize \in Nat \ {0}
  /\ PM_INDOM_NULL \in Nat

\* The flag bit above the domain and the serial is set in PM_INDOM_NULL and in
\* no id that pmdaInit builds.
ASSUME NullIndomAssumption == PM_INDOM_NULL >= (PmdaDomain + 1) * SerialSize

VARIABLES
  supported_metrics,     \* metric key |-> its domain or NoDomain
  domain_id,             \* instance_domain::domain_id of each domain
  pm_instance_domain,    \* instance_domain::pm_instance_domain of each domain
  pc,                    \* where initialize_pmda is
  visited,               \* the metrics the loops have passed
  metric_count, indom_count,
  instance_domain_ids,   \* local map: domain |-> index in the indom table
  local_domains,         \* local vector instance_domains
  metric_table, indom_table,
  indom_index,           \* index of the recording loop
  instance_domains,      \* member map: id |-> domain
  interface              \* the pmdaInterface: default callbacks, ours, ours with tables

vars == <<supported_metrics, domain_id, pm_instance_domain, pc, visited,
          metric_count, indom_count, instance_domain_ids, local_domains,
          metric_table, indom_table, indom_index, instance_domains, interface>>

locals == <<instance_domain_ids, local_domains, metric_table, visited>>
-----------------------------------------------------------------------------
(* Identifiers.                                                            *)

Keys == Clusters \X Items

\* Mutant: cluster and item in the wrong order.
PMDA_PMID_Swapped(key) == ((key[2] % ClusterSize) * ItemSize) + (key[1] % ItemSize)

\* PMDA_PMID(cluster, item): each part is cut to its width.
PMDA_PMID(key) == ((key[1] % ClusterSize) * ItemSize) + (key[2] % ItemSize)

\* The cluster and the item the callbacks read back from a PMID.
pmID_key(pmid) == <<(pmid \div ItemSize) % ClusterSize, pmid % ItemSize>>

pmInDom_serial(indom) == indom % SerialSize
pmInDom_build(domain, serial) == (domain * SerialSize) + serial

\* A metric whose ids fit the widths of a PMID.
InWidth(key) == key[1] < ClusterSize /\ key[2] < ItemSize

\* The order of the two nested std::map iterations.
Before(k, l) == k[1] < l[1] \/ (k[1] = l[1] /\ k[2] < l[2])

\* The domains that some metric of a set refers to.
DomainsOf(keys) == {supported_metrics[k] : k \in keys} \ {NoDomain}

EmptyMap == [x \in {} |-> NoDomain]

TypeOK ==
  /\ DOMAIN supported_metrics \subseteq Keys
  /\ supported_metrics \in [DOMAIN supported_metrics -> Domains \cup {NoDomain}]
  /\ domain_id \in [Domains -> DomainIds]
  /\ pm_instance_domain \in [Domains -> Nat]
  /\ pc \in {"count", "rows", "init", "record", "done"}
  /\ visited \subseteq DOMAIN supported_metrics
  /\ metric_count \in Nat /\ indom_count \in Nat
  /\ DOMAIN instance_domain_ids \subseteq Domains
  /\ instance_domain_ids \in [DOMAIN instance_domain_ids -> Nat]
  /\ local_domains \in Seq(Domains)
  /\ metric_table \in Seq([desc : Keys, pmid : Nat, indom : Nat])
  /\ indom_table \in Seq([owner : Domains, it_indom : Nat])
  /\ indom_index \in Nat
  /\ DOMAIN instance_domains \subseteq Nat
  /\ instance_domains \in [DOMAIN instance_domains -> Domains]
  /\ interface \in {"libpcp", "pmda", "published"}
-----------------------------------------------------------------------------
Init ==
  /\ supported_metrics \in UNION {[S -> Domains \cup {NoDomain}] : S \in SUBSET Keys}
  /\ domain_id \in [Domains -> DomainIds]
  /\ pm_instance_domain = [d \in Domains |-> PM_INDOM_NULL]
  /\ pc = "count"
  /\ visited = {}
  /\ metric_count = 0 /\ indom_count = 0
  /\ instance_domain_ids = EmptyMap /\ local_domains = <<>>
  /\ metric_table = <<>> /\ indom_table = <<>>
  /\ indom_index = 0
  /\ instance_domains = EmptyMap
  /\ interface = "libpcp"

\* Mutant: NULL is taken for one of the counted domains.
CountNullDomain ==
  /\ pc = "count"
  /\ metric_count' = Cardinality(DOMAIN supported_metrics)
  /\ indom_count' = Cardinality({supported_metrics[k] : k \in DOMAIN supported_metrics}) - 1
  /\ pc' = "rows"
  /\ UNCHANGED <<supported_metrics, domain_id, pm_instance_domain, locals,
                 indom_table, indom_index, instance_domains, interface>>

\* Mutant: only metrics with a domain are counted.
CountInstanced ==
  /\ pc = "count"
  /\ metric_count' = Cardinality({k \in DOMAIN supported_metrics :
                                    supported_metrics[k] # NoDomain})
  /\ indom_count' = Cardinality(DomainsOf(DOMAIN supported_metrics))
  /\ pc' = "rows"
  /\ UNCHANGED <<supported_metrics, domain_id, pm_instance_domain, locals,
                 indom_table, indom_index, instance_domains, interface>>

\* count_metrics and the allocation of both tables.
CountMetrics ==
  /\ pc = "count"
  /\ metric_count' = Cardinality(DOMAIN supported_metrics)
  /\ indom_count' = Cardinality(DomainsOf(DOMAIN supported_metrics))
  /\ pc' = "rows"
  /\ UNCHANGED <<supported_metrics, domain_id, pm_instance_domain, locals,
                 indom_table, indom_index, instance_domains, interface>>

\* The metric both iterators stand at.
IsNext(k) ==
  /\ k \in DOMAIN supported_metrics \ visited
  /\ \A l \in DOMAIN supported_metrics \ visited : ~Before(l, k)

\* Mutant: the map entry is overwritten, not inserted.
RenumberDomain(ids, d) ==
  [e \in DOMAIN ids \cup {d} |->
     IF e # d THEN ids[e] ELSE Cardinality(DOMAIN ids \ {d})]

\* std::map::insert of the next index: a domain already there keeps its own.
NumberDomain(ids, d) ==
  [e \in DOMAIN ids \cup {d} |->
     IF e \in DOMAIN ids THEN ids[e] ELSE Cardinality(DOMAIN ids)]

\* The metric has no domain: its row says so.
VisitSingular(k) ==
  /\ supported_metrics[k] = NoDomain
  /\ metric_table' = Append(metric_table,
       [desc |-> k, pmid |-> PMDA_PMID(k), indom |-> PM_INDOM_NULL])
  /\ UNCHANGED <<instance_domain_ids, local_domains, indom_table>>

\* The metric's domain is numbered at its first use, and its table row is
\* filled by allocate_pmda_indom; the metric's row gets the domain's number.
VisitWithDomain(k) ==
  LET d == supported_metrics[k]
  IN  /\ d # NoDomain
      /\ instance_domain_ids' = NumberDomain(instance_domain_ids, d)
      /\ metric_table' = Append(metric_table,
           [desc |-> k, pmid |-> PMDA_PMID(k), indom |-> instance_domain_ids'[d]])
      /\ IF d \in DOMAIN instance_domain_ids
         THEN UNCHANGED <<local_domains, indom_table>>
         ELSE /\ local_domains' = Append(local_domains, d)
              /\ indom_table' = Append(indom_table,
                   [owner |-> d, it_indom |-> domain_id[d]])

\* One turn of the inner loop.
Visit(k) ==
  /\ pc = "rows" /\ IsNext(k)
  /\ VisitSingular(k) \/ VisitWithDomain(k)
  /\ visited' = visited \cup {k}
  /\ UNCHANGED <<supported_metrics, domain_id, pm_instance_domain, pc,
                 metric_count, indom_count, indom_index, instance_domains, interface>>

\* Mutant: the loops may be left before the last metric.
SetCallbacksEarly ==
  /\ pc = "rows" /\ (visited = {} => DOMAIN supported_metrics = {})
  /\ interface' = "pmda"
  /\ pc' = "init"
  /\ UNCHANGED <<supported_metrics, domain_id, pm_instance_domain, locals,
                 metric_count, indom_count, indom_table, indom_index, instance_domains>>

\* Both loops are over; set_callbacks, and the interface is ready for pmdaInit.
SetCallbacks ==
  /\ pc = "rows" /\ visited = DOMAIN supported_metrics
  /\ interface' = "pmda"
  /\ pc' = "init"
  /\ UNCHANGED <<supported_metrics, domain_id, pm_instance_domain, locals,
                 metric_count, indom_count, indom_table, indom_index, instance_domains>>

\* The PMDA domain number is put over each indom and PMID of the tables.
FixIndom(indom) == pmInDom_build(PmdaDomain, pmInDom_serial(indom))
FixPmid(pmid)   == (PmdaDomain * ClusterSize * ItemSize) + pmid

\* pmdaInit: libpcp_pmda takes the two tables and completes their ids in place.
pmdaInit ==
  /\ pc = "init"
  /\ metric_table' = [i \in 1..Len(metric_table) |->
       [metric_table[i] EXCEPT !.pmid = FixPmid(@),
                               !.indom = IF @ = PM_INDOM_NULL THEN @ ELSE FixIndom(@)]]
  /\ indom_table' = [i \in 1..Len(indom_table) |->
       [indom_table[i] EXCEPT !.it_indom = FixIndom(@)]]
  /\ interface' = "published"
  /\ pc' = "record"
  /\ UNCHANGED <<supported_metrics, domain_id, pm_instance_domain, visited,
                 metric_count, indom_count, instance_domain_ids, local_domains,
                 indom_index, instance_domains>>

\* Mutant: operator[] in place of insert.
Overwritten(map, id, d) ==
  [i \in DOMAIN map \cup {id} |-> IF i = id THEN d ELSE map[i]]

\* std::map::insert: a key already there keeps its domain.
Inserted(map, id, d) ==
  [i \in DOMAIN map \cup {id} |-> IF i \in DOMAIN map THEN map[i] ELSE d]

\* Mutant: the id given by pmdaInit is not recorded.
RecordOwnIdOnly ==
  /\ pc = "record" /\ indom_index < indom_count
  /\ LET d  == local_domains[indom_index + 1]
         pm == indom_table[indom_index + 1].it_indom
     IN  /\ pm_instance_domain' = [pm_instance_domain EXCEPT ![d] = pm]
         /\ instance_domains' = Inserted(instance_domains, domain_id[d], d)
  /\ indom_index' = indom_index + 1
  /\ UNCHANGED <<supported_metrics, domain_id, pc, locals, metric_count,
                 indom_count, indom_table, interface>>

\* One turn of the recording loop.
RecordIndom ==
  /\ pc = "record" /\ indom_index < indom_count
  /\ LET d  == local_domains[indom_index + 1]
         pm == indom_table[indom_index + 1].it_indom
     IN  /\ pm_instance_domain' = [pm_instance_domain EXCEPT ![d] = pm]
         /\ instance_domains' =
              Inserted(Inserted(instance_domains, domain_id[d], d), pm, d)
  /\ indom_index' = indom_index + 1
  /\ UNCHANGED <<supported_metrics, domain_id, pc, locals, metric_count,
                 indom_count, indom_table, interface>>

\* initialize_pmda returns.
Return ==
  /\ pc = "record" /\ indom_index >= indom_count
  /\ pc' = "done"
  /\ UNCHANGED <<supported_metrics, domain_id, pm_instance_domain, locals,
                 metric_count, indom_count, indom_table, indom_index,
                 instance_domains, interface>>

Next ==
  \/ CountMetrics
  \/ \E k \in Keys : Visit(k)
  \/ SetCallbacks
  \/ pmdaInit
  \/ RecordIndom
  \/ Return

Spec == Init /\ [][Next]_vars

\* initialize_pmda is one thread that nothing blocks.
FairSpec == Spec /\ WF_vars(Next)
-----------------------------------------------------------------------------
(* Properties.                                                             *)

Published == interface = "published"
Metrics == DOMAIN supported_metrics
UsedDomains == DomainsOf(Metrics)

\* The assertions of initialize_pmda hold whenever control is at them: there
\* is room for the next metric's row, no domain is numbered past the table,
\* the map and the vector of domains grow together, and after the loops both
\* tables are exactly full.
AssertsHold ==
  /\ pc = "rows" /\ visited # Metrics => Len(metric_table) < metric_count
  /\ pc # "count" => \A d \in DOMAIN instance_domain_ids :
                        instance_domain_ids[d] < indom_count
  /\ Cardinality(DOMAIN instance_domain_ids) = Len(local_domains)
  /\ pc \in {"init", "record", "done"} =>
       /\ Cardinality(DOMAIN instance_domain_ids) = indom_count
       /\ Len(local_domains) = indom_count
       /\ Len(metric_table) = metric_count

\* The domain at the position of the indom table that a metric's row names.
DomainAt(indom) == indom_table[pmInDom_serial(indom) + 1].owner

\* Every metric, and nothing else, has one row, and in a published table the
\* row's indom holds the table position of the very domain the metric was
\* described with: metrics share an indom exactly when they share a domain.
RowNamesItsDomain ==
  Published /\ Cardinality(UsedDomains) <= SerialSize =>
    /\ {metric_table[i].desc : i \in 1..Len(metric_table)} = Metrics
    /\ \A i, j \in 1..Len(metric_table) :
         metric_table[i].desc = metric_table[j].desc => i = j
    /\ \A i \in 1..Len(metric_table) :
         LET d == supported_metrics[metric_table[i].desc]
         IN  IF d = NoDomain
             THEN metric_table[i].indom = PM_INDOM_NULL
             ELSE /\ metric_table[i].indom # PM_INDOM_NULL
                  /\ pmInDom_serial(metric_table[i].indom) < Len(indom_table)
                  /\ DomainAt(metric_table[i].indom) = d

\* A published PMID leads the callbacks (pmID_cluster, pmID_item, then the map
\* lookups) to the cluster and the item it was made of, each cut to its width.
\* So an id that is too wide changes neither the other id nor the PMDA domain,
\* but leads to another metric or to none, and only then.
PmidFindsItsMetric ==
  Published => \A i \in 1..Len(metric_table) :
    LET key   == metric_table[i].desc
        found == pmID_key(metric_table[i].pmid)
    IN  /\ found = <<key[1] % ClusterSize, key[2] % ItemSize>>
        /\ found = key <=> InWidth(key)

\* libpcp_pmda takes the instances of a metric from the first row of the indom
\* table whose it_indom is the metric's indom.
FindsIndom(row, j) ==
  /\ j \in 1..Len(indom_table)
  /\ indom_table[j].it_indom = row.indom
  /\ \A i \in 1..(j - 1) : indom_table[i].it_indom # row.indom

ResolvesToItsDomain(row) ==
  supported_metrics[row.desc] # NoDomain =>
    \E j \in 1..Len(indom_table) :
      FindsIndom(row, j) /\ indom_table[j].owner = supported_metrics[row.desc]

\* A metric with an optional instance domain is fetched over the instances of
\* that domain, whatever id the agent gave to it.
IndomResolves ==
  Published => \A i \in 1..Len(metric_table) : ResolvesToItsDomain(metric_table[i])

\* The agent's ids count its domains in the order of their first use.
OrdinalIds ==
  \A d \in DOMAIN instance_domain_ids : domain_id[d] = instance_domain_ids[d]

\* A metric is fetched over the instances of its own domain, provided the
\* agent's ids are the numbers that initialize_pmda gives to the domains.
OrdinalIndomResolves == OrdinalIds /\ Cardinality(UsedDomains) <= SerialSize => IndomResolves

DistinctIds ==
  \A d, e \in UsedDomains : domain_id[d] = domain_id[e] => d = e
NarrowIds == \A d \in UsedDomains : domain_id[d] < SerialSize

\* Once initialize_pmda returns, a domain in use is found under its own id and
\* under the id pmdaInit gave to it, if ids are distinct and fit their width.
BothIdsReach ==
  pc = "done" /\ DistinctIds /\ NarrowIds =>
    \A d \in UsedDomains :
      /\ domain_id[d] \in DOMAIN instance_domains
      /\ instance_domains[domain_id[d]] = d
      /\ pm_instance_domain[d] \in DOMAIN instance_domains
      /\ instance_domains[pm_instance_domain[d]] = d

\* Whatever the ids, an id is never recorded for a domain that does not carry
\* it, an id in use is always recorded, and of the domains that carry an id
\* under their own numbering the map holds none used later than another.
RecordedIsCarried ==
  pc = "done" =>
    /\ \A id \in DOMAIN instance_domains :
         id \in {domain_id[instance_domains[id]], pm_instance_domain[instance_domains[id]]}
    /\ \A d \in UsedDomains :
         /\ {domain_id[d], pm_instance_domain[d]} \subseteq DOMAIN instance_domains
         /\ instance_domain_ids[instance_domains[domain_id[d]]] <= instance_domain_ids[d]

\* The tables are published by one step, complete, and are the ones the agent
\* described; and initialize_pmda does publish them.
described ==
  IF ~Published THEN EmptyMap
  ELSE [k \in {metric_table[i].desc : i \in 1..Len(metric_table)} |->
          LET i == CHOOSE n \in 1..Len(metric_table) : metric_table[n].desc = k
          IN  IF metric_table[i].indom = PM_INDOM_NULL THEN NoDomain
              ELSE DomainAt(metric_table[i].indom)]

Abstract == INSTANCE Publication WITH
  supported_metrics <- supported_metrics, described <- described

\* Registration implements the abstract publication of the tables.
PublishesOnce == Abstract!FairSpec
-----------------------------------------------------------------------------
(* The inductive invariant.                                                *)

CountsRight ==
  pc # "count" => /\ metric_count = Cardinality(Metrics)
                  /\ indom_count = Cardinality(UsedDomains)

\* How far control is, and what the loops have passed by then.
Progress ==
  /\ pc = "count" => visited = {}
  /\ pc \in {"init", "record", "done"} => visited = Metrics
  /\ Published <=> pc \in {"record", "done"}

\* The local map, the local vector and the indom table describe one numbering
\* of the domains met so far.
OneNumbering ==
  /\ DOMAIN instance_domain_ids = DomainsOf(visited)
  /\ Len(local_domains) = Cardinality(DOMAIN instance_domain_ids)
  /\ Len(indom_table) = Len(local_domains)
  /\ \A d \in DOMAIN instance_domain_ids :
       /\ instance_domain_ids[d] < Len(local_domains)
       /\ local_domains[instance_domain_ids[d] + 1] = d
       /\ indom_table[instance_domain_ids[d] + 1].owner = d

\* The metrics passed so far have one row each.
OneRowEach ==
  /\ Len(metric_table) = Cardinality(visited)
  /\ {metric_table[i].desc : i \in 1..Len(metric_table)} = visited
  /\ \A i, j \in 1..Len(metric_table) :
       metric_table[i].desc = metric_table[j].desc => i = j

\* The indom a row holds for a metric's domain, before and after pmdaInit.
IndomOf(d) ==
  IF d = NoDomain THEN PM_INDOM_NULL
  ELSE IF Published THEN FixIndom(instance_domain_ids[d]) ELSE instance_domain_ids[d]

RowsNumbered ==
  Cardinality(UsedDomains) <= SerialSize =>
    \A i \in 1..Len(metric_table) :
      metric_table[i].indom = IndomOf(supported_metrics[metric_table[i].desc])

\* TypeOK and all of these are inductive together: each assertion of the code
\* follows from them, none of the assertions is inductive alone.
Ind ==
  /\ TypeOK
  /\ CountsRight
  /\ Progress
  /\ OneNumbering
  /\ OneRowEach
  /\ RowsNumbered
=============================================================================
