------------------------ MODULE Registration_proofs ------------------------
(***************************************************************************)
(* What initialize_pmda guarantees for every agent: any finite set of      *)
(* metrics over any finite set of domains, whatever their ids; and, for    *)
(* any widths of the bit fields, which ids lead where once it has          *)
(* published its tables and recorded its domains.                          *)
(***************************************************************************)
EXTENDS Registration, FiniteSetTheorems, TLAPS

\* The widest step of arithmetic: a multiple grows by at least its factor.
LEMMA ProductStep ==
  ASSUME NEW a \in Int, NEW b \in Int, NEW s \in Nat, a >= b + 1
  PROVE  a * s >= (b * s) + s
<1>1. (a - (b + 1)) * s >= 0
  OBVIOUS
<1>2. (a - (b + 1)) * s = (a * s) - (b * s) - s
  OBVIOUS
<1>3. a * s \in Int /\ b * s \in Int
  OBVIOUS
<1> QED
  BY <1>1, <1>2, <1>3

\* pmInDom_serial gives back the serial that pmInDom_build was given.
LEMMA SerialOfBuild ==
  ASSUME NEW i \in Nat, i < SerialSize
  PROVE  /\ pmInDom_build(PmdaDomain, i) \in Nat
         /\ pmInDom_serial(pmInDom_build(PmdaDomain, i)) = i
         /\ pmInDom_build(PmdaDomain, i) < PM_INDOM_NULL
<1> DEFINE x == (PmdaDomain * SerialSize) + i
           q == x \div SerialSize
           r == x % SerialSize
<1>0. SerialSize \in Nat /\ SerialSize > 0 /\ PmdaDomain \in Nat
  BY RegistrationAssumption
<1>1. x \in Nat
  BY <1>0
<1>2. x = (q * SerialSize) + r /\ q \in Int /\ r \in 0..(SerialSize - 1)
  <2> HIDE DEF x
  <2> QED BY <1>0, <1>1
<1> HIDE DEF q, r
<1>3. ~(PmdaDomain >= q + 1)
  BY <1>0, <1>2, ProductStep
<1>4. ~(q >= PmdaDomain + 1)
  BY <1>0, <1>2, ProductStep
<1>5. q = PmdaDomain
  BY <1>0, <1>2, <1>3, <1>4
<1>6. r = i
  BY <1>0, <1>2, <1>5
<1>7. x < PM_INDOM_NULL
  BY <1>0, NullIndomAssumption, ProductStep, RegistrationAssumption
<1> QED
  BY <1>1, <1>6, <1>7 DEF pmInDom_build, pmInDom_serial, r

\* Positions of a table hold what the table is made of, and Append keeps the
\* rows there are and puts one after them.
LEMMA ElementOfSeq ==
  ASSUME NEW S, NEW s \in Seq(S), NEW i \in 1..Len(s)
  PROVE  s[i] \in S
OBVIOUS

\* One more element.
LEMMA AppendToSeq ==
  ASSUME NEW S, NEW s \in Seq(S), NEW e \in S
  PROVE  /\ Append(s, e) \in Seq(S)
         /\ Len(Append(s, e)) = Len(s) + 1
         /\ Len(s) \in Nat
         /\ \A i \in 1..Len(s) : Append(s, e)[i] = s[i]
         /\ Append(s, e)[Len(s) + 1] = e
OBVIOUS
\* A function on 1..n is a sequence of length n.
LEMMA FunctionIsSeq ==
  ASSUME NEW S, NEW n \in Nat, NEW f \in [1..n -> S]
  PROVE  f \in Seq(S) /\ Len(f) = n
OBVIOUS
-----------------------------------------------------------------------------
(* Cardinalities of what the loops collect.                                *)

\* Every set the algorithm counts is finite, and the domains met so far are no
\* more than the domains in use.
LEMMA FiniteCounts ==
  ASSUME TypeOK
  PROVE  /\ IsFiniteSet(Metrics) /\ IsFiniteSet(visited)
         /\ Cardinality(Metrics) \in Nat /\ Cardinality(visited) \in Nat
         /\ UsedDomains \subseteq Domains /\ IsFiniteSet(UsedDomains)
         /\ Cardinality(UsedDomains) \in Nat
         /\ DomainsOf(visited) \subseteq UsedDomains
         /\ IsFiniteSet(DomainsOf(visited))
         /\ Cardinality(DomainsOf(visited)) \in Nat
         /\ Cardinality(DomainsOf(visited)) <= Cardinality(UsedDomains)
<1>1. IsFiniteSet(Metrics) /\ IsFiniteSet(visited)
  BY RegistrationAssumption, FS_Subset DEF TypeOK, Metrics, Keys
<1>2. UsedDomains \subseteq Domains /\ DomainsOf(visited) \subseteq UsedDomains
  BY DEF TypeOK, UsedDomains, DomainsOf, Metrics
<1>3. IsFiniteSet(UsedDomains)
  BY <1>2, RegistrationAssumption, FS_Subset
<1>4. /\ IsFiniteSet(DomainsOf(visited))
      /\ Cardinality(DomainsOf(visited)) <= Cardinality(UsedDomains)
  BY <1>2, <1>3, FS_Subset
<1> QED
  BY <1>1, <1>2, <1>3, <1>4, FS_CardinalityType

\* Meeting one more metric adds its domain, if it has one, to those met.
LEMMA DomainsOfNext ==
  ASSUME NEW S, NEW k
  PROVE  DomainsOf(S \cup {k}) = DomainsOf(S) \cup ({supported_metrics[k]} \ {NoDomain})
BY DEF DomainsOf
-----------------------------------------------------------------------------
(* Ind holds initially and every action preserves it.                      *)

\* The invariant holds before initialize_pmda begins,
LEMMA InitInd == Init => Ind
<1> SUFFICES ASSUME Init PROVE Ind
  OBVIOUS
<1> USE RegistrationAssumption
<1>1. TypeOK
  <2>1. /\ DOMAIN supported_metrics \subseteq Keys
        /\ supported_metrics \in [DOMAIN supported_metrics -> Domains \cup {NoDomain}]
    BY DEF Init
  <2>2. EmptyMap \in [DOMAIN EmptyMap -> {}] /\ DOMAIN EmptyMap = {}
    BY DEF EmptyMap
  <2> QED BY <2>1, <2>2 DEF Init, TypeOK
<1>2. DomainsOf(visited) = {} /\ Cardinality({}) = 0
  BY FS_EmptySet DEF Init, DomainsOf
<1>3. OneNumbering
  BY <1>2 DEF Init, OneNumbering, EmptyMap
<1>4. CountsRight /\ Progress /\ RowsNumbered
  BY DEF Init, CountsRight, Progress, RowsNumbered, Published
<1>5. OneRowEach
  BY <1>2 DEF Init, OneRowEach
<1> QED
  BY <1>1, <1>3, <1>4, <1>5 DEF Ind

\* A step that leaves the tables and their visibility alone leaves alone what
\* the invariant says of them.
LEMMA TablesUnchanged ==
  ASSUME Ind, UNCHANGED <<supported_metrics, locals, indom_table>>, Published' <=> Published
  PROVE  OneNumbering' /\ OneRowEach' /\ RowsNumbered'
<1>1. OneNumbering'
  BY DEF Ind, OneNumbering, DomainsOf, locals
<1>2. OneRowEach'
  BY DEF Ind, OneRowEach, locals
<1>3. UsedDomains' = UsedDomains
  BY DEF UsedDomains, Metrics, DomainsOf
<1>4. ASSUME NEW d PROVE IndomOf(d)' = IndomOf(d)
  BY DEF IndomOf, FixIndom, locals
<1>5. RowsNumbered'
  BY <1>3, <1>4 DEF Ind, RowsNumbered, locals
<1> QED
  BY <1>1, <1>2, <1>5

\* after the counts are taken,
LEMMA CountInd == Ind /\ CountMetrics => Ind'
<1> SUFFICES ASSUME Ind, CountMetrics PROVE Ind'
  OBVIOUS
<1>1. TypeOK'
  BY FiniteCounts DEF Ind, TypeOK, CountMetrics, locals, Metrics, UsedDomains
<1>2. CountsRight' /\ Progress'
  BY DEF Ind, CountsRight, Progress, CountMetrics, locals, Metrics, UsedDomains,
         DomainsOf, Published
<1>3. OneNumbering' /\ OneRowEach' /\ RowsNumbered'
  BY TablesUnchanged DEF CountMetrics, Published
<1> QED
  BY <1>1, <1>2, <1>3 DEF Ind

\* after the callbacks are set,
LEMMA SetCallbacksInd == Ind /\ SetCallbacks => Ind'
<1> SUFFICES ASSUME Ind, SetCallbacks PROVE Ind'
  OBVIOUS
<1>1. TypeOK'
  BY DEF Ind, TypeOK, SetCallbacks, locals
<1>2. CountsRight' /\ Progress'
  BY DEF Ind, CountsRight, Progress, SetCallbacks, locals, Metrics, UsedDomains,
         DomainsOf, Published
<1>3. OneNumbering' /\ OneRowEach' /\ RowsNumbered'
  BY TablesUnchanged DEF Ind, Progress, SetCallbacks, Published
<1> QED
  BY <1>1, <1>2, <1>3 DEF Ind

\* when it returns,
LEMMA ReturnInd == Ind /\ Return => Ind'
<1> SUFFICES ASSUME Ind, Return PROVE Ind'
  OBVIOUS
<1>1. TypeOK'
  BY DEF Ind, TypeOK, Return, locals
<1>2. CountsRight' /\ Progress'
  BY DEF Ind, CountsRight, Progress, Return, locals, Metrics, UsedDomains,
         DomainsOf, Published
<1>3. OneNumbering' /\ OneRowEach' /\ RowsNumbered'
  BY TablesUnchanged DEF Return, Published
<1> QED
  BY <1>1, <1>2, <1>3 DEF Ind

\* and with each domain recorded.
LEMMA RecordInd == Ind /\ RecordIndom => Ind'
<1> SUFFICES ASSUME Ind, RecordIndom PROVE Ind'
  OBVIOUS
<1> DEFINE d  == local_domains[indom_index + 1]
           pm == indom_table[indom_index + 1].it_indom
<1>1. Len(local_domains) = indom_count /\ Len(indom_table) = indom_count
  BY DEF Ind, RecordIndom, CountsRight, Progress, OneNumbering, UsedDomains, Metrics
<1>2. d \in Domains /\ pm \in Nat /\ domain_id[d] \in Nat
  <2>1. indom_index + 1 \in 1..indom_count
    <3>1. indom_index \in Nat /\ indom_count \in Nat /\ indom_index < indom_count
      BY DEF Ind, TypeOK, RecordIndom
    <3> QED BY <3>1
  <2>2. d \in Domains
    BY <1>1, <2>1 DEF Ind, TypeOK
  <2>3. indom_table[indom_index + 1] \in [owner : Domains, it_indom : Nat]
    <3>1. indom_table \in Seq([owner : Domains, it_indom : Nat])
      BY DEF Ind, TypeOK
    <3>2. indom_index + 1 \in 1..Len(indom_table)
      BY <1>1, <2>1
    <3> QED BY <3>1, <3>2, ElementOfSeq
  <2>4. domain_id[d] \in Nat
    <3> HIDE DEF d
    <3>1. domain_id[d] \in DomainIds
      BY <2>2 DEF Ind, TypeOK
    <3> QED BY <3>1, RegistrationAssumption
  <2> QED BY <2>2, <2>3, <2>4
<1>3. ASSUME NEW map, DOMAIN map \subseteq Nat, map \in [DOMAIN map -> Domains], NEW id \in Nat
      PROVE  /\ DOMAIN Inserted(map, id, d) \subseteq Nat
             /\ Inserted(map, id, d) \in [DOMAIN Inserted(map, id, d) -> Domains]
  BY <1>2, <1>3 DEF Inserted
<1>4. /\ DOMAIN instance_domains' \subseteq Nat
      /\ instance_domains' \in [DOMAIN instance_domains' -> Domains]
  <2> DEFINE first == Inserted(instance_domains, domain_id[d], d)
  <2>1. DOMAIN first \subseteq Nat /\ first \in [DOMAIN first -> Domains]
    BY <1>2, <1>3 DEF Ind, TypeOK
  <2>2. instance_domains' = Inserted(first, pm, d)
    BY DEF RecordIndom
  <2> HIDE DEF first, d, pm
  <2> QED BY <2>1, <2>2, <1>2, <1>3
<1>5. TypeOK'
  <2>1. pm_instance_domain' = [pm_instance_domain EXCEPT ![d] = pm]
    BY DEF RecordIndom
  <2>2. pm_instance_domain' \in [Domains -> Nat]
    BY <2>1, <1>2 DEF Ind, TypeOK
  <2>3. indom_index' \in Nat
    BY DEF Ind, TypeOK, RecordIndom
  <2> QED BY <2>2, <2>3, <1>4 DEF Ind, TypeOK, RecordIndom, locals
<1>6. CountsRight' /\ Progress'
  BY DEF Ind, CountsRight, Progress, RecordIndom, locals, Metrics, UsedDomains,
         DomainsOf, Published
<1>7. OneNumbering' /\ OneRowEach' /\ RowsNumbered'
  BY TablesUnchanged DEF RecordIndom, Published
<1> QED
  BY <1>5, <1>6, <1>7 DEF Ind
-----------------------------------------------------------------------------
(* The turns of the inner loop.                                            *)

Row == [desc : Keys, pmid : Nat, indom : Nat]

\* A PMID is a number.
LEMMA PmidInNat == ASSUME NEW k \in Keys PROVE PMDA_PMID(k) \in Nat
<1>1. k[1] \in Nat /\ k[2] \in Nat
  BY RegistrationAssumption DEF Keys
<1>2. k[1] % ClusterSize \in Nat /\ k[2] % ItemSize \in Nat
  BY <1>1, RegistrationAssumption
<1>3. ASSUME NEW a \in Nat, NEW b \in Nat PROVE (a * ItemSize) + b \in Nat
  BY RegistrationAssumption
<1> QED
  BY <1>2, <1>3 DEF PMDA_PMID

\* A row added for a metric not yet passed leaves one row for each passed.
LEMMA RowAdded ==
  ASSUME Ind, NEW k \in Metrics \ visited, NEW row \in Row, row.desc = k,
         metric_table' = Append(metric_table, row), visited' = visited \cup {k}
  PROVE  /\ OneRowEach'
         /\ metric_table' \in Seq(Row)
         /\ Len(metric_table') = Len(metric_table) + 1
         /\ Len(metric_table) \in Nat
         /\ \A i \in 1..Len(metric_table) : metric_table'[i] = metric_table[i]
         /\ metric_table'[Len(metric_table) + 1] = row
<1>1. metric_table \in Seq(Row)
  BY DEF Ind, TypeOK, Row
<1>2. /\ metric_table' \in Seq(Row)
      /\ Len(metric_table') = Len(metric_table) + 1
      /\ Len(metric_table) \in Nat
      /\ \A i \in 1..Len(metric_table) : metric_table'[i] = metric_table[i]
      /\ metric_table'[Len(metric_table) + 1] = row
  BY <1>1, AppendToSeq
<1>3. Cardinality(visited') = Cardinality(visited) + 1
  BY FiniteCounts, FS_AddElement DEF Ind
<1>4. Len(metric_table') = Cardinality(visited')
  BY <1>2, <1>3 DEF Ind, OneRowEach
<1>5. {metric_table'[i].desc : i \in 1..Len(metric_table')} = visited'
  <2>1. {metric_table[i].desc : i \in 1..Len(metric_table)} = visited
    BY DEF Ind, OneRowEach
  <2> QED BY <2>1, <1>2
<1>6. \A i, j \in 1..Len(metric_table') :
        metric_table'[i].desc = metric_table'[j].desc => i = j
  <2>1. \A i \in 1..Len(metric_table) : metric_table[i].desc # k
    BY DEF Ind, OneRowEach
  <2> QED BY <2>1, <1>2 DEF Ind, OneRowEach
<1> QED
  BY <1>2, <1>4, <1>5, <1>6 DEF OneRowEach

\* A metric without a domain adds a row.
LEMMA SingularInd ==
  ASSUME Ind, NEW k \in Keys, Visit(k), VisitSingular(k)
  PROVE  Ind'
<1> DEFINE row == [desc |-> k, pmid |-> PMDA_PMID(k), indom |-> PM_INDOM_NULL]
<1>1. row \in Row /\ row.desc = k /\ row.indom = PM_INDOM_NULL
  BY PmidInNat, RegistrationAssumption DEF Row
<1>2. /\ k \in Metrics \ visited
      /\ metric_table' = Append(metric_table, row)
      /\ visited' = visited \cup {k}
      /\ supported_metrics[k] = NoDomain
      /\ UNCHANGED <<supported_metrics, instance_domain_ids, local_domains, indom_table, interface>>
  BY DEF Visit, VisitSingular, IsNext, Metrics
<1> HIDE DEF row
<1>3. /\ OneRowEach'
      /\ metric_table' \in Seq(Row)
      /\ Len(metric_table') = Len(metric_table) + 1
      /\ Len(metric_table) \in Nat
      /\ \A i \in 1..Len(metric_table) : metric_table'[i] = metric_table[i]
      /\ metric_table'[Len(metric_table) + 1] = row
  BY <1>1, <1>2, RowAdded
<1>4. TypeOK'
  BY <1>2, <1>3 DEF Ind, TypeOK, Visit, Row, Metrics
<1>5. CountsRight' /\ Progress'
  BY DEF Ind, CountsRight, Progress, Visit, Metrics, UsedDomains, DomainsOf, Published
<1>6. OneNumbering'
  <2>1. DomainsOf(visited') = DomainsOf(visited)
    BY <1>2 DEF DomainsOf
  <2>2. DomainsOf(visited)' = DomainsOf(visited')
    BY <1>2 DEF DomainsOf
  <2> QED BY <2>1, <2>2, <1>2 DEF Ind, OneNumbering
<1>7. RowsNumbered'
  <2>1. UsedDomains' = UsedDomains
    BY <1>2 DEF UsedDomains, Metrics, DomainsOf
  <2>2. ASSUME NEW d PROVE IndomOf(d)' = IndomOf(d)
    BY <1>2 DEF IndomOf, FixIndom, Published
  <2>3. IndomOf(NoDomain) = PM_INDOM_NULL
    BY DEF IndomOf
  <2> QED BY <1>1, <1>2, <1>3, <2>1, <2>2, <2>3 DEF Ind, RowsNumbered
<1> QED
  BY <1>3, <1>4, <1>5, <1>6, <1>7 DEF Ind

\* The local map, the vector and the indom table still describe one numbering
\* when a metric's domain has been looked up or added.
LEMMA DomainNumbered ==
  ASSUME Ind, NEW k \in Keys, Visit(k), VisitWithDomain(k)
  PROVE  /\ OneNumbering'
         /\ instance_domain_ids' \in [DOMAIN instance_domain_ids' -> Nat]
         /\ local_domains' \in Seq(Domains)
         /\ indom_table' \in Seq([owner : Domains, it_indom : Nat])
         /\ \A e \in DOMAIN instance_domain_ids :
              instance_domain_ids'[e] = instance_domain_ids[e]
         /\ supported_metrics[k] \in DOMAIN instance_domain_ids'
<1> DEFINE d == supported_metrics[k]
           ids == instance_domain_ids
<1>1. /\ k \in Metrics /\ d # NoDomain /\ d \in Domains
      /\ ids' = NumberDomain(ids, d)
      /\ supported_metrics' = supported_metrics /\ visited' = visited \cup {k}
  BY DEF Visit, VisitWithDomain, IsNext, Metrics, Ind, TypeOK
<1>2. DomainsOf(visited)' = DomainsOf(visited) \cup {d}
  <2>1. DomainsOf(visited)' = DomainsOf(visited \cup {k})
    BY <1>1 DEF DomainsOf
  <2> QED BY <2>1, <1>1, DomainsOfNext
<1>3. /\ DOMAIN ids = DomainsOf(visited) /\ ids \in [DOMAIN ids -> Nat]
      /\ IsFiniteSet(DOMAIN ids) /\ Cardinality(DOMAIN ids) \in Nat
      /\ Len(local_domains) = Cardinality(DOMAIN ids)
      /\ Len(indom_table) = Cardinality(DOMAIN ids)
  BY FiniteCounts DEF Ind, OneNumbering, TypeOK
<1>4. /\ local_domains \in Seq(Domains)
      /\ indom_table \in Seq([owner : Domains, it_indom : Nat])
  BY DEF Ind, TypeOK
<1>5. CASE d \in DOMAIN ids
  <2>1. /\ ids' = ids
        /\ UNCHANGED <<local_domains, indom_table>>
    <3>1. ids' = [e \in DOMAIN ids |-> ids[e]]
      BY <1>1, <1>5 DEF NumberDomain
    <3> QED BY <3>1, <1>3, <1>5 DEF VisitWithDomain
  <2>2. DomainsOf(visited)' = DomainsOf(visited)
    BY <1>2, <1>3, <1>5
  <2>3. OneNumbering'
    BY <2>1, <2>2 DEF Ind, OneNumbering
  <2> QED BY <1>1, <1>3, <1>4, <1>5, <2>1, <2>3
<1>6. CASE d \notin DOMAIN ids
  <2> DEFINE n == Cardinality(DOMAIN ids)
             row == [owner |-> d, it_indom |-> domain_id[d]]
  <2>1. /\ DOMAIN ids' = DOMAIN ids \cup {d}
        /\ \A e \in DOMAIN ids : ids'[e] = ids[e]
        /\ ids'[d] = n
        /\ ids' \in [DOMAIN ids' -> Nat]
    BY <1>1, <1>3, <1>6 DEF NumberDomain
  <2>2. /\ local_domains' = Append(local_domains, d)
        /\ indom_table' = Append(indom_table, row)
    BY <1>6 DEF VisitWithDomain
  <2>3. row \in [owner : Domains, it_indom : Nat] /\ row.owner = d
    <3>1. domain_id[d] \in DomainIds
      BY <1>1 DEF Ind, TypeOK
    <3> QED BY <3>1, <1>1, RegistrationAssumption
  <2> HIDE DEF row, d
  <2>4. /\ local_domains' \in Seq(Domains)
        /\ Len(local_domains') = n + 1
        /\ \A i \in 1..n : local_domains'[i] = local_domains[i]
        /\ local_domains'[n + 1] = d
    BY <1>1, <1>3, <1>4, <2>2, AppendToSeq
  <2>5. /\ indom_table' \in Seq([owner : Domains, it_indom : Nat])
        /\ Len(indom_table') = n + 1
        /\ \A i \in 1..n : indom_table'[i] = indom_table[i]
        /\ indom_table'[n + 1] = row
    BY <1>3, <1>4, <2>2, <2>3, AppendToSeq
  <2>6. Cardinality(DOMAIN ids') = n + 1
    BY <1>3, <1>6, <2>1, FS_AddElement
  <2>7. \A e \in DOMAIN ids :
          /\ ids[e] \in 0..(n - 1)
          /\ local_domains[ids[e] + 1] = e
          /\ indom_table[ids[e] + 1].owner = e
    BY <1>3 DEF Ind, OneNumbering
  <2>8. \A e \in DOMAIN ids' :
          /\ ids'[e] < Len(local_domains')
          /\ local_domains'[ids'[e] + 1] = e
          /\ indom_table'[ids'[e] + 1].owner = e
    <3> TAKE e \in DOMAIN ids'
    <3>1. CASE e = d
      BY <3>1, <1>3, <2>1, <2>3, <2>4, <2>5
    <3>2. CASE e # d
      <4>1. e \in DOMAIN ids /\ ids'[e] = ids[e] /\ ids[e] + 1 \in 1..n
        BY <3>2, <2>1, <2>7, <1>3
      <4> QED BY <4>1, <2>4, <2>5, <2>7, <1>3
    <3> QED BY <3>1, <3>2
  <2>9. OneNumbering'
    BY <1>2, <1>3, <2>1, <2>4, <2>5, <2>6, <2>8 DEF OneNumbering
  <2> QED BY <2>1, <2>4, <2>5, <2>9 DEF d
<1> QED
  BY <1>5, <1>6

\* A metric with one adds a row, and the domain if it is new.
LEMMA WithDomainInd ==
  ASSUME Ind, NEW k \in Keys, Visit(k), VisitWithDomain(k)
  PROVE  Ind'
<1> DEFINE d == supported_metrics[k]
           row == [desc |-> k, pmid |-> PMDA_PMID(k), indom |-> instance_domain_ids'[d]]
<1>1. /\ OneNumbering'
      /\ instance_domain_ids' \in [DOMAIN instance_domain_ids' -> Nat]
      /\ local_domains' \in Seq(Domains)
      /\ indom_table' \in Seq([owner : Domains, it_indom : Nat])
      /\ \A e \in DOMAIN instance_domain_ids :
           instance_domain_ids'[e] = instance_domain_ids[e]
      /\ d \in DOMAIN instance_domain_ids'
  BY DomainNumbered
<1>2. /\ k \in Metrics \ visited /\ d # NoDomain /\ d \in Domains
      /\ metric_table' = Append(metric_table, row)
      /\ visited' = visited \cup {k}
      /\ pc = "rows"
      /\ UNCHANGED <<supported_metrics, interface>>
  BY DEF Visit, VisitWithDomain, IsNext, Metrics, Ind, TypeOK
<1>3. row \in Row /\ row.desc = k /\ row.indom = instance_domain_ids'[d]
  BY <1>1, PmidInNat DEF Row
<1> HIDE DEF row
<1>4. /\ OneRowEach'
      /\ metric_table' \in Seq(Row)
      /\ Len(metric_table') = Len(metric_table) + 1
      /\ Len(metric_table) \in Nat
      /\ \A i \in 1..Len(metric_table) : metric_table'[i] = metric_table[i]
      /\ metric_table'[Len(metric_table) + 1] = row
  BY <1>2, <1>3, RowAdded
<1>5. DOMAIN instance_domain_ids' \subseteq Domains
  BY <1>2 DEF VisitWithDomain, NumberDomain, Ind, TypeOK
<1>6. TypeOK'
  BY <1>1, <1>2, <1>4, <1>5 DEF Ind, TypeOK, Visit, Row, Metrics
<1>7. CountsRight' /\ Progress'
  BY DEF Ind, CountsRight, Progress, Visit, Metrics, UsedDomains, DomainsOf, Published
<1>8. RowsNumbered'
  <2>1. UsedDomains' = UsedDomains
    BY <1>2 DEF UsedDomains, Metrics, DomainsOf
  <2>2. ~Published /\ ~Published'
    BY <1>2 DEF Ind, Progress, Published
  <2> DEFINE IndomThen(e) == IF e = NoDomain THEN PM_INDOM_NULL ELSE instance_domain_ids'[e]
  <2>3. ASSUME Cardinality(UsedDomains) <= SerialSize, NEW i \in 1..Len(metric_table)
        PROVE  metric_table'[i].indom = IndomThen(supported_metrics[metric_table'[i].desc])
    <3> DEFINE e == supported_metrics[metric_table[i].desc]
    <3>1. metric_table[i].indom =
            IF e = NoDomain THEN PM_INDOM_NULL ELSE instance_domain_ids[e]
      BY <2>2, <2>3 DEF Ind, RowsNumbered, IndomOf
    <3>2. e \in DOMAIN instance_domain_ids \/ e = NoDomain
      BY DEF Ind, OneNumbering, OneRowEach, DomainsOf
    <3> QED BY <3>1, <3>2, <1>1, <1>4
  <2>4. row.indom = IndomThen(supported_metrics[row.desc])
    BY <1>2, <1>3
  <2>5. ASSUME Cardinality(UsedDomains) <= SerialSize, NEW i \in 1..Len(metric_table')
        PROVE  metric_table'[i].indom = IndomThen(supported_metrics[metric_table'[i].desc])
    <3>1. CASE i \in 1..Len(metric_table)
      BY <3>1, <2>3, <2>5
    <3>2. CASE i = Len(metric_table) + 1
      BY <3>2, <2>4, <1>4
    <3> QED BY <3>1, <3>2, <1>4
  <2> QED BY <1>2, <2>1, <2>2, <2>5 DEF RowsNumbered, IndomOf
<1> QED
  BY <1>1, <1>4, <1>6, <1>7, <1>8 DEF Ind
-----------------------------------------------------------------------------
(* pmdaInit completes the ids in place.                                    *)

\* An index below the number of serials survives pmdaInit's completion.
LEMMA FixedIndom ==
  /\ \A i \in Nat : FixIndom(i) \in Nat
  /\ \A i \in 0..(SerialSize - 1) :
       pmInDom_serial(FixIndom(i)) = i /\ FixIndom(i) < PM_INDOM_NULL
<1>1. ASSUME NEW i \in Nat PROVE FixIndom(i) \in Nat
  <2>1. pmInDom_serial(i) \in Nat /\ pmInDom_serial(i) < SerialSize
    BY RegistrationAssumption DEF pmInDom_serial
  <2> QED BY <2>1, SerialOfBuild DEF FixIndom
<1>2. ASSUME NEW i \in 0..(SerialSize - 1)
      PROVE  pmInDom_serial(FixIndom(i)) = i /\ FixIndom(i) < PM_INDOM_NULL
  <2>1. i \in Nat /\ i < SerialSize
    BY RegistrationAssumption
  <2>2. pmInDom_serial(i) = i
    BY <2>1, RegistrationAssumption DEF pmInDom_serial
  <2> QED BY <2>1, <2>2, SerialOfBuild DEF FixIndom
<1> QED
  BY <1>1, <1>2

\* Every index in the local map is a serial, if there are enough serials.
LEMMA IndexIsSerial ==
  ASSUME Ind, Cardinality(UsedDomains) <= SerialSize, NEW d \in DOMAIN instance_domain_ids
  PROVE  instance_domain_ids[d] \in 0..(SerialSize - 1) /\ instance_domain_ids[d] < PM_INDOM_NULL
<1>1. /\ instance_domain_ids[d] \in Nat
      /\ instance_domain_ids[d] < Cardinality(DomainsOf(visited))
  BY DEF Ind, TypeOK, OneNumbering
<1>2. Cardinality(DomainsOf(visited)) <= Cardinality(UsedDomains)
  BY FiniteCounts DEF Ind
<1>3. Cardinality(DomainsOf(visited)) \in Nat /\ Cardinality(UsedDomains) \in Nat
  BY FiniteCounts DEF Ind
<1>4. SerialSize <= PM_INDOM_NULL
  BY NullIndomAssumption, ProductStep, RegistrationAssumption
<1> QED
  BY <1>1, <1>2, <1>3, <1>4, RegistrationAssumption

\* pmdaInit puts the same number over all ids.
LEMMA pmdaInitInd == Ind /\ pmdaInit => Ind'
<1> SUFFICES ASSUME Ind, pmdaInit PROVE Ind'
  OBVIOUS
<1>1. /\ metric_table \in Seq(Row) /\ Len(metric_table) \in Nat
      /\ indom_table \in Seq([owner : Domains, it_indom : Nat]) /\ Len(indom_table) \in Nat
  BY DEF Ind, TypeOK, Row
<1>2. ASSUME NEW i \in 1..Len(metric_table)
      PROVE  /\ metric_table'[i] \in Row
             /\ metric_table'[i].desc = metric_table[i].desc
             /\ metric_table'[i].indom = IF metric_table[i].indom = PM_INDOM_NULL
                                         THEN PM_INDOM_NULL
                                         ELSE FixIndom(metric_table[i].indom)
  <2> DEFINE r == metric_table[i]
             ind == IF r.indom = PM_INDOM_NULL THEN r.indom ELSE FixIndom(r.indom)
  <2>1. r \in Row
    BY <1>1, ElementOfSeq
  <2>2. metric_table'[i] = [[r EXCEPT !.pmid = FixPmid(r.pmid)] EXCEPT !.indom = ind]
    BY DEF pmdaInit
  <2>3. FixPmid(r.pmid) \in Nat
    BY <2>1, RegistrationAssumption DEF Row, FixPmid
  <2>4. ind \in Nat
    BY <2>1, FixedIndom DEF Row
  <2> HIDE DEF r, ind
  <2>5. metric_table'[i] \in Row /\ metric_table'[i].desc = r.desc /\ metric_table'[i].indom = ind
    BY <2>1, <2>2, <2>3, <2>4 DEF Row
  <2> QED BY <2>5 DEF r, ind
<1>3. ASSUME NEW i \in 1..Len(indom_table)
      PROVE  /\ indom_table'[i] \in [owner : Domains, it_indom : Nat]
             /\ indom_table'[i].owner = indom_table[i].owner
  <2> DEFINE r == indom_table[i]
  <2>1. r \in [owner : Domains, it_indom : Nat]
    BY <1>1, ElementOfSeq
  <2>2. indom_table'[i] = [r EXCEPT !.it_indom = FixIndom(r.it_indom)]
    BY DEF pmdaInit
  <2>3. FixIndom(r.it_indom) \in Nat
    BY <2>1, FixedIndom
  <2> HIDE DEF r
  <2> QED BY <2>1, <2>2, <2>3 DEF r
<1>4. /\ Len(metric_table') = Len(metric_table) /\ metric_table' \in Seq(Row)
      /\ Len(indom_table') = Len(indom_table)
      /\ indom_table' \in Seq([owner : Domains, it_indom : Nat])
  <2>1. metric_table' \in [1..Len(metric_table) -> Row]
    BY <1>2 DEF pmdaInit
  <2>2. indom_table' \in [1..Len(indom_table) -> [owner : Domains, it_indom : Nat]]
    BY <1>3 DEF pmdaInit
  <2>3. Len(metric_table') = Len(metric_table) /\ metric_table' \in Seq(Row)
    BY <1>1, <2>1, FunctionIsSeq
  <2>4. /\ Len(indom_table') = Len(indom_table)
        /\ indom_table' \in Seq([owner : Domains, it_indom : Nat])
    BY <1>1, <2>2, FunctionIsSeq
  <2> QED BY <2>3, <2>4
<1>5. TypeOK'
  BY <1>4 DEF Ind, TypeOK, pmdaInit, Row
<1>6. CountsRight' /\ Progress'
  BY DEF Ind, CountsRight, Progress, pmdaInit, Metrics, UsedDomains, DomainsOf, Published
<1>7. OneNumbering'
  <2>1. /\ DomainsOf(visited)' = DomainsOf(visited)
        /\ UNCHANGED <<instance_domain_ids, local_domains>>
    BY DEF DomainsOf, pmdaInit
  <2>2. \A d \in DOMAIN instance_domain_ids : instance_domain_ids[d] + 1 \in 1..Len(indom_table)
    <3> SUFFICES ASSUME NEW d \in DOMAIN instance_domain_ids
                 PROVE  instance_domain_ids[d] + 1 \in 1..Len(indom_table)
      OBVIOUS
    <3>1. instance_domain_ids[d] \in Nat /\ instance_domain_ids[d] < Len(indom_table)
      BY DEF Ind, OneNumbering, TypeOK
    <3>2. Len(indom_table) \in Nat
      BY <1>1
    <3> QED BY <3>1, <3>2
  <2> QED BY <2>1, <2>2, <1>3, <1>4 DEF Ind, OneNumbering
<1>8. OneRowEach'
  <2>1. visited' = visited
    BY DEF pmdaInit
  <2>2. {metric_table'[i].desc : i \in 1..Len(metric_table')} = visited
    BY <1>2, <1>4 DEF Ind, OneRowEach
  <2> QED BY <2>1, <2>2, <1>2, <1>4 DEF Ind, OneRowEach
<1>9. RowsNumbered'
  <2>1. /\ UsedDomains' = UsedDomains
        /\ UNCHANGED <<supported_metrics, instance_domain_ids>>
    BY DEF UsedDomains, Metrics, DomainsOf, pmdaInit
  <2>2. ~Published /\ Published'
    BY DEF Ind, Progress, Published, pmdaInit
  <2>3. ASSUME Cardinality(UsedDomains) <= SerialSize, NEW i \in 1..Len(metric_table)
        PROVE  LET e == supported_metrics[metric_table[i].desc]
               IN  metric_table'[i].indom =
                     IF e = NoDomain THEN PM_INDOM_NULL ELSE FixIndom(instance_domain_ids[e])
    <3> DEFINE e == supported_metrics[metric_table[i].desc]
    <3>1. metric_table[i].indom =
            IF e = NoDomain THEN PM_INDOM_NULL ELSE instance_domain_ids[e]
      BY <2>2, <2>3 DEF Ind, RowsNumbered, IndomOf
    <3>2. e \in DOMAIN instance_domain_ids \/ e = NoDomain
      BY DEF Ind, OneNumbering, OneRowEach, DomainsOf
    <3> HIDE DEF e
    <3>3. CASE e = NoDomain
      BY <3>1, <3>3, <1>2 DEF e
    <3>4. CASE e # NoDomain
      <4>1. instance_domain_ids[e] < PM_INDOM_NULL /\ instance_domain_ids[e] \in Nat
        BY <2>3, <3>2, <3>4, IndexIsSerial
      <4>2. metric_table[i].indom = instance_domain_ids[e] /\ metric_table[i].indom # PM_INDOM_NULL
        BY <3>1, <3>4, <4>1, RegistrationAssumption
      <4> QED BY <3>4, <4>2, <1>2 DEF e
    <3> QED BY <3>3, <3>4
  <2> QED BY <1>2, <1>4, <2>1, <2>2, <2>3 DEF RowsNumbered, IndomOf, FixIndom
<1> QED
  BY <1>5, <1>6, <1>7, <1>8, <1>9 DEF Ind
-----------------------------------------------------------------------------
(* The theorems.                                                           *)

\* Every step keeps the invariant.
LEMMA NextInd == Ind /\ [Next]_vars => Ind'
<1> SUFFICES ASSUME Ind, [Next]_vars PROVE Ind'
  OBVIOUS
<1>1. CASE CountMetrics
  BY <1>1, CountInd
<1>2. ASSUME NEW k \in Keys, Visit(k) PROVE Ind'
  <2>1. CASE VisitSingular(k)
    BY <1>2, <2>1, SingularInd
  <2>2. CASE VisitWithDomain(k)
    BY <1>2, <2>2, WithDomainInd
  <2> QED BY <1>2, <2>1, <2>2 DEF Visit
<1>3. CASE SetCallbacks
  BY <1>3, SetCallbacksInd
<1>4. CASE pmdaInit
  BY <1>4, pmdaInitInd
<1>5. CASE RecordIndom
  BY <1>5, RecordInd
<1>6. CASE Return
  BY <1>6, ReturnInd
<1>7. CASE UNCHANGED vars
  <2>1. TypeOK'
    BY <1>7 DEF Ind, TypeOK, vars
  <2>2. CountsRight' /\ Progress'
    BY <1>7 DEF Ind, CountsRight, Progress, Published, Metrics, UsedDomains, DomainsOf, vars
  <2>3. OneNumbering' /\ OneRowEach' /\ RowsNumbered'
    BY <1>7, TablesUnchanged DEF vars, locals, Published
  <2> QED BY <2>1, <2>2, <2>3 DEF Ind
<1> QED
  BY <1>1, <1>2, <1>3, <1>4, <1>5, <1>6, <1>7 DEF Next

\* The tables keep the shape the invariant describes, for any finite number of
\* metrics and domains.
THEOREM Inductive == Spec => []Ind
<1> QED BY InitInd, NextInd, PTL DEF Spec

\* Every variable of initialize_pmda keeps to its type.
THEOREM TypeCorrect == Spec => []TypeOK
<1>1. Ind => TypeOK
  BY DEF Ind
<1> QED BY <1>1, Inductive, PTL

\* No assertion of initialize_pmda can fail: count_metrics allocates what the
\* two loops fill, whichever metrics share a domain.
THEOREM AssertionsNeverFail == Spec => []AssertsHold
<1>1. ASSUME Ind PROVE AssertsHold
  <2> USE <1>1, FiniteCounts DEF Ind
  <2>1. pc = "rows" /\ visited # Metrics => Len(metric_table) < metric_count
    <3> SUFFICES ASSUME pc = "rows", visited # Metrics PROVE Len(metric_table) < metric_count
      OBVIOUS
    <3>1. Cardinality(visited) < Cardinality(Metrics)
      <4>1. /\ visited \in SUBSET Metrics /\ IsFiniteSet(Metrics)
            /\ Cardinality(visited) \in Nat /\ Cardinality(Metrics) \in Nat
        BY DEF TypeOK, Metrics
      <4>2. /\ Cardinality(visited) <= Cardinality(Metrics)
            /\ Cardinality(visited) = Cardinality(Metrics) => visited = Metrics
        BY <4>1, FS_Subset
      <4> QED BY <4>1, <4>2
    <3> QED BY <3>1 DEF CountsRight, OneRowEach
  <2>2. pc # "count" => \A d \in DOMAIN instance_domain_ids : instance_domain_ids[d] < indom_count
    <3> SUFFICES ASSUME pc # "count", NEW d \in DOMAIN instance_domain_ids
                 PROVE  instance_domain_ids[d] < indom_count
      OBVIOUS
    <3>1. /\ instance_domain_ids[d] \in Nat
          /\ instance_domain_ids[d] < Cardinality(DomainsOf(visited))
      BY DEF OneNumbering, TypeOK
    <3>2. indom_count = Cardinality(UsedDomains)
      BY DEF CountsRight
    <3>3. /\ Cardinality(DomainsOf(visited)) <= Cardinality(UsedDomains)
          /\ Cardinality(DomainsOf(visited)) \in Nat /\ Cardinality(UsedDomains) \in Nat
      OBVIOUS
    <3> QED BY <3>1, <3>2, <3>3
  <2>3. pc \in {"init", "record", "done"} =>
          /\ Cardinality(DOMAIN instance_domain_ids) = indom_count
          /\ Len(local_domains) = indom_count
          /\ Len(metric_table) = metric_count
    BY DEF CountsRight, Progress, OneNumbering, OneRowEach, UsedDomains
  <2> QED BY <2>1, <2>2, <2>3 DEF AssertsHold, OneNumbering
<1> QED
  BY <1>1, Inductive, PTL

\* Between steps, the invariant makes the published rows name their domains.
LEMMA RowsNamed == Ind => RowNamesItsDomain
<1>1. ASSUME Ind PROVE RowNamesItsDomain
  <2> SUFFICES ASSUME Published, Cardinality(UsedDomains) <= SerialSize
               PROVE  RowNamesItsDomain
    BY DEF RowNamesItsDomain
  <2>1. visited = Metrics
    BY <1>1 DEF Ind, Progress, Published
  <2>2. ASSUME NEW i \in 1..Len(metric_table)
        PROVE  LET d == supported_metrics[metric_table[i].desc]
               IN  IF d = NoDomain
                   THEN metric_table[i].indom = PM_INDOM_NULL
                   ELSE /\ metric_table[i].indom # PM_INDOM_NULL
                        /\ pmInDom_serial(metric_table[i].indom) < Len(indom_table)
                        /\ DomainAt(metric_table[i].indom) = d
    <3> DEFINE d == supported_metrics[metric_table[i].desc]
    <3>1. metric_table[i].indom =
            IF d = NoDomain THEN PM_INDOM_NULL ELSE FixIndom(instance_domain_ids[d])
      BY <1>1 DEF Ind, RowsNumbered, IndomOf
    <3>2. d \in DOMAIN instance_domain_ids \/ d = NoDomain
      BY <1>1 DEF Ind, OneNumbering, OneRowEach, DomainsOf
    <3> HIDE DEF d
    <3>3. CASE d # NoDomain
      <4>1. /\ instance_domain_ids[d] \in 0..(SerialSize - 1)
            /\ instance_domain_ids[d] < Len(indom_table)
            /\ indom_table[instance_domain_ids[d] + 1].owner = d
        BY <1>1, <3>2, <3>3, IndexIsSerial DEF Ind, OneNumbering
      <4>2. ASSUME NEW n \in 0..(SerialSize - 1)
            PROVE  pmInDom_serial(FixIndom(n)) = n /\ FixIndom(n) # PM_INDOM_NULL
        <5>1. n \in Nat /\ PM_INDOM_NULL \in Nat
          BY RegistrationAssumption
        <5>2. FixIndom(n) \in Nat
          BY <5>1, FixedIndom
        <5> QED BY <5>1, <5>2, FixedIndom
      <4> QED BY <3>1, <3>3, <4>1, <4>2 DEF DomainAt, d
    <3> QED BY <3>1, <3>3 DEF d
  <2> QED BY <1>1, <2>1, <2>2 DEF Ind, OneRowEach, RowNamesItsDomain
<1> QED BY <1>1

\* In the published tables the row of a metric names the position of the very
\* domain the metric was described with.
THEOREM RowsNameTheirDomains == Spec => []RowNamesItsDomain
<1> QED BY RowsNamed, Inductive, PTL

\* What the published tables say of the metrics is what the agent said.
LEMMA DescribedRight ==
  ASSUME Cardinality(Domains) <= SerialSize, Ind, Published
  PROVE  described = supported_metrics
<1>1. Cardinality(UsedDomains) <= SerialSize
  <2>1. Cardinality(UsedDomains) <= Cardinality(Domains) /\ Cardinality(Domains) \in Nat
    BY FiniteCounts, FS_Subset, FS_CardinalityType, RegistrationAssumption DEF Ind
  <2> QED BY <2>1, FiniteCounts, RegistrationAssumption DEF Ind
<1>2. RowNamesItsDomain
  BY RowsNamed
<1>3. {metric_table[i].desc : i \in 1..Len(metric_table)} = Metrics
  BY <1>1, <1>2 DEF RowNamesItsDomain
<1>4. ASSUME NEW k \in Metrics
      PROVE  LET i == CHOOSE n \in 1..Len(metric_table) : metric_table[n].desc = k
             IN  (IF metric_table[i].indom = PM_INDOM_NULL THEN NoDomain
                  ELSE DomainAt(metric_table[i].indom)) = supported_metrics[k]
  <2> DEFINE i == CHOOSE n \in 1..Len(metric_table) : metric_table[n].desc = k
  <2>1. \E n \in 1..Len(metric_table) : metric_table[n].desc = k
    BY <1>3
  <2>2. i \in 1..Len(metric_table) /\ metric_table[i].desc = k
    BY <2>1
  <2> HIDE DEF i
  <2>3. IF supported_metrics[k] = NoDomain
        THEN metric_table[i].indom = PM_INDOM_NULL
        ELSE /\ metric_table[i].indom # PM_INDOM_NULL
             /\ DomainAt(metric_table[i].indom) = supported_metrics[k]
    BY <1>1, <1>2, <2>2 DEF RowNamesItsDomain
  <2> QED BY <2>3 DEF i
<1>5. supported_metrics = [k \in Metrics |-> supported_metrics[k]]
  BY DEF Ind, TypeOK, Metrics
<1> QED
  BY <1>3, <1>4, <1>5 DEF described

\* Registration implements its abstract specification: the tables appear in one
\* step, complete and right, and are never replaced.
THEOREM PublicationRefined ==
  ASSUME Cardinality(Domains) <= SerialSize
  PROVE  Spec => Abstract!Spec
<1>1. Init => Abstract!Init
  BY DEF Init, Abstract!Init, Abstract!Nothing, described, Published, EmptyMap
<1>2. Ind /\ Published => described = supported_metrics
  BY DescribedRight
<1>3. (Ind /\ Published => described = supported_metrics)'
  BY <1>2, PTL
<1>4. Ind /\ Ind' /\ [Next]_vars => [Abstract!Publish]_(Abstract!vars)
  <2> SUFFICES ASSUME Ind, Ind', [Next]_vars
               PROVE  Abstract!Publish \/ UNCHANGED <<supported_metrics, described>>
    BY DEF Abstract!vars
  <2>1. UNCHANGED supported_metrics
    BY DEF Next, CountMetrics, Visit, SetCallbacks, pmdaInit, RecordIndom, Return, vars
  <2>2. Published => Published'
    BY DEF Next, CountMetrics, Visit, SetCallbacks, pmdaInit, RecordIndom, Return, vars,
           Published, Ind, Progress
  <2>3. Published' => described' = supported_metrics'
    BY <1>3
  <2>4. Published => described = supported_metrics
    BY <1>2
  <2>5. ~Published => described = Abstract!Nothing
    BY DEF described, EmptyMap, Abstract!Nothing
  <2>6. ~Published' => described' = Abstract!Nothing
    BY DEF described, EmptyMap, Abstract!Nothing
  <2>7. CASE ~Published /\ Published'
    BY <2>1, <2>3, <2>5, <2>7 DEF Abstract!Publish
  <2>8. CASE Published \/ ~Published'
    BY <2>1, <2>2, <2>3, <2>4, <2>5, <2>6, <2>8
  <2> QED BY <2>7, <2>8
<1> QED
  BY <1>1, <1>4, Inductive, PTL DEF Spec, Abstract!Spec
-----------------------------------------------------------------------------
(* The ids of the tables and of the maps.                                  *)

\* The position of a domain in the local vector and in the indom table is its
\* number, and the table has its id, completed once pmdaInit has seen it.
Owners ==
  \A j \in 1..Len(local_domains) :
    LET d == local_domains[j]
    IN  /\ d \in DOMAIN instance_domain_ids
        /\ instance_domain_ids[d] = j - 1
        /\ indom_table[j].owner = d
        /\ indom_table[j].it_indom = IF Published THEN FixIndom(domain_id[d]) ELSE domain_id[d]

\* Each row has its metric's PMID, completed once pmdaInit has seen it.
Pmids ==
  \A i \in 1..Len(metric_table) :
    LET pmid == PMDA_PMID(metric_table[i].desc)
    IN  metric_table[i].pmid = IF Published THEN FixPmid(pmid) ELSE pmid

\* The domains before indom_index are recorded, no other is, and where ids
\* collide the map has the domain that came first.
Recorded ==
  /\ pc \notin {"record", "done"} => indom_index = 0 /\ DOMAIN instance_domains = {}
  /\ indom_index <= Len(local_domains)
  /\ pc = "done" => indom_index = Len(local_domains)
  /\ \A j \in 1..indom_index :
       LET d == local_domains[j]
       IN  /\ pm_instance_domain[d] = indom_table[j].it_indom
           /\ {domain_id[d], pm_instance_domain[d]} \subseteq DOMAIN instance_domains
           /\ instance_domain_ids[instance_domains[domain_id[d]]] < j
  /\ \A id \in DOMAIN instance_domains :
       LET d == instance_domains[id]
       IN  /\ d \in DOMAIN instance_domain_ids
           /\ instance_domain_ids[d] < indom_index
           /\ id \in {domain_id[d], pm_instance_domain[d]}

IdInv == Owners /\ Pmids /\ Recorded
-----------------------------------------------------------------------------
(* Ids taken apart.                                                        *)

\* A multiple and a remainder are found again by division.
LEMMA Divided ==
  ASSUME NEW s \in Nat \ {0}, NEW m \in Nat, NEW r \in 0..(s - 1)
  PROVE  ((m * s) + r) \div s = m /\ ((m * s) + r) % s = r /\ (m * s) + r \in Nat
<1> DEFINE x == (m * s) + r
           q == x \div s
           t == x % s
<1>1. x \in Nat
  OBVIOUS
<1>2. x = (q * s) + t /\ q \in Int /\ t \in 0..(s - 1)
  <2> HIDE DEF x
  <2> QED BY <1>1
<1> HIDE DEF q, t
<1>3. ~(m >= q + 1)
  BY <1>2, ProductStep
<1>4. ~(q >= m + 1)
  BY <1>2, ProductStep
<1>5. q = m
  BY <1>2, <1>3, <1>4
<1>6. t = r
  BY <1>2, <1>5
<1> QED BY <1>1, <1>5, <1>6 DEF q, t

\* pmID_cluster and pmID_item find the ids a completed PMID was made of, cut to
\* their widths, whatever the PMDA domain over them.
LEMMA PmidCut ==
  ASSUME NEW key \in Keys
  PROVE  pmID_key(FixPmid(PMDA_PMID(key))) = <<key[1] % ClusterSize, key[2] % ItemSize>>
<1> DEFINE c == key[1] % ClusterSize
           i == key[2] % ItemSize
           above == (PmdaDomain * ClusterSize) + c
<1>1. /\ ClusterSize \in Nat \ {0} /\ ItemSize \in Nat \ {0} /\ PmdaDomain \in Nat
      /\ c \in 0..(ClusterSize - 1) /\ i \in 0..(ItemSize - 1)
  <2>1. key[1] \in Nat /\ key[2] \in Nat
    BY RegistrationAssumption DEF Keys
  <2>2. ClusterSize \in Nat \ {0} /\ ItemSize \in Nat \ {0} /\ PmdaDomain \in Nat
    BY RegistrationAssumption
  <2> QED BY <2>1, <2>2
<1>3. above \in Nat /\ above % ClusterSize = c
  <2> HIDE DEF c, i
  <2> QED BY <1>1, Divided
<1>4. FixPmid(PMDA_PMID(key)) = (above * ItemSize) + i
  <2>1. FixPmid(PMDA_PMID(key)) = (PmdaDomain * ClusterSize * ItemSize) + ((c * ItemSize) + i)
    BY DEF FixPmid, PMDA_PMID
  <2> HIDE DEF c, i
  <2> QED BY <2>1, <1>1
<1> HIDE DEF above, c, i
<1>5. /\ ((above * ItemSize) + i) \div ItemSize = above
      /\ ((above * ItemSize) + i) % ItemSize = i
  BY <1>1, <1>3, Divided
<1>6. pmID_key(FixPmid(PMDA_PMID(key))) = <<c, i>>
  BY <1>1, <1>3, <1>4, <1>5 DEF pmID_key
<1> QED BY <1>6 DEF c, i

\* Ids are what they are cut to exactly if they fit.
LEMMA CutIsOwn ==
  ASSUME NEW key \in Keys
  PROVE  <<key[1] % ClusterSize, key[2] % ItemSize>> = key <=> InWidth(key)
<1>1. /\ key = <<key[1], key[2]>> /\ key[1] \in Nat /\ key[2] \in Nat
      /\ ClusterSize \in Nat \ {0} /\ ItemSize \in Nat \ {0}
  <2>1. key = <<key[1], key[2]>> /\ key[1] \in Clusters /\ key[2] \in Items
    BY DEF Keys
  <2> QED BY <2>1, RegistrationAssumption
<1>2. \A n \in Nat, s \in Nat \ {0} : n % s = n <=> n < s
  OBVIOUS
<1>3. /\ key[1] % ClusterSize = key[1] <=> key[1] < ClusterSize
      /\ key[2] % ItemSize = key[2] <=> key[2] < ItemSize
  BY <1>1, <1>2
<1> QED BY <1>1, <1>3 DEF InWidth

\* A metric whose ids fit is found under its PMID.
LEMMA PmidBack ==
  ASSUME NEW key \in Keys, InWidth(key)
  PROVE  pmID_key(FixPmid(PMDA_PMID(key))) = key
BY PmidCut, CutIsOwn
-----------------------------------------------------------------------------
(* The invariant.                                                          *)

\* There are no ids at first.
LEMMA IdInit == Init => IdInv
<1> SUFFICES ASSUME Init PROVE IdInv
  OBVIOUS
<1>1. /\ local_domains = <<>> /\ metric_table = <<>> /\ indom_index = 0
      /\ pc = "count" /\ DOMAIN instance_domains = {}
  BY DEF Init, EmptyMap
<1>2. Owners /\ Pmids
  BY <1>1 DEF Owners, Pmids
<1>3. Recorded
  BY <1>1 DEF Recorded
<1> QED BY <1>2, <1>3 DEF IdInv

\* What the types and the numbering say of the positions.
LEMMA Positions ==
  ASSUME Ind
  PROVE  /\ Len(local_domains) \in Nat /\ Len(indom_table) = Len(local_domains)
         /\ local_domains \in Seq(Domains)
         /\ indom_table \in Seq([owner : Domains, it_indom : Nat])
         /\ indom_index \in Nat
         /\ \A d \in DOMAIN instance_domain_ids :
              /\ instance_domain_ids[d] \in Nat
              /\ instance_domain_ids[d] + 1 \in 1..Len(local_domains)
              /\ local_domains[instance_domain_ids[d] + 1] = d
BY DEF Ind, TypeOK, OneNumbering

\* A step that changes no table and records nothing.
LEMMA IdsUnchanged ==
  ASSUME IdInv,
         UNCHANGED <<domain_id, local_domains, instance_domain_ids, indom_table, metric_table,
                     instance_domains, pm_instance_domain, indom_index>>,
         Published' <=> Published, pc \in {"record", "done"} => pc' \in {"record", "done"},
         pc' = "done" => indom_index = Len(local_domains)
  PROVE  IdInv'
<1>1. Owners'
  BY DEF IdInv, Owners, FixIndom
<1>2. Pmids'
  BY DEF IdInv, Pmids, FixPmid
<1>3. Recorded'
  BY DEF IdInv, Recorded
<1> QED BY <1>1, <1>2, <1>3 DEF IdInv

\* Before pmdaInit, a row with its metric's PMID is added.
LEMMA PmidsAdded ==
  ASSUME Ind, IdInv, NEW k \in Keys, Visit(k)
  PROVE  Pmids'
<1>1. PICK indom \in Nat :
        metric_table' = Append(metric_table,
                               [desc |-> k, pmid |-> PMDA_PMID(k), indom |-> indom])
  <2>1. CASE VisitSingular(k)
    BY <2>1, RegistrationAssumption DEF VisitSingular
  <2>2. CASE VisitWithDomain(k)
    <3>1. /\ instance_domain_ids' \in [DOMAIN instance_domain_ids' -> Nat]
          /\ supported_metrics[k] \in DOMAIN instance_domain_ids'
      BY <2>2, DomainNumbered
    <3>2. instance_domain_ids'[supported_metrics[k]] \in Nat
      BY <3>1
    <3> QED BY <2>2, <3>2 DEF VisitWithDomain
  <2> QED BY <2>1, <2>2 DEF Visit
<1> DEFINE row == [desc |-> k, pmid |-> PMDA_PMID(k), indom |-> indom]
<1>2. row \in Row /\ row.desc = k /\ row.pmid = PMDA_PMID(k)
  BY PmidInNat DEF Row
<1>3. metric_table \in Seq(Row) /\ metric_table' = Append(metric_table, row)
  BY <1>1 DEF Ind, TypeOK, Row
<1> HIDE DEF row
<1>4. /\ Len(metric_table') = Len(metric_table) + 1 /\ Len(metric_table) \in Nat
      /\ \A i \in 1..Len(metric_table) : metric_table'[i] = metric_table[i]
      /\ metric_table'[Len(metric_table) + 1] = row
  BY <1>2, <1>3, AppendToSeq
<1>5. ~Published /\ ~Published'
  BY DEF Visit, Ind, Progress, Published
<1>6. ASSUME NEW i \in 1..Len(metric_table')
      PROVE  metric_table'[i].pmid = PMDA_PMID(metric_table'[i].desc)
  <2>1. CASE i \in 1..Len(metric_table)
    BY <2>1, <1>4, <1>5 DEF IdInv, Pmids
  <2>2. CASE i = Len(metric_table) + 1
    BY <2>2, <1>2, <1>4
  <2> QED BY <2>1, <2>2, <1>4
<1> QED BY <1>5, <1>6 DEF Pmids

\* A domain met for the first time comes last in vector and table.
LEMMA OwnersAdded ==
  ASSUME Ind, IdInv, NEW k \in Keys, Visit(k)
  PROVE  Owners'
<1>1. ~Published /\ ~Published' /\ domain_id' = domain_id
  BY DEF Visit, Ind, Progress, Published
<1>2. /\ Len(local_domains) \in Nat /\ Len(indom_table) = Len(local_domains)
      /\ local_domains \in Seq(Domains)
      /\ indom_table \in Seq([owner : Domains, it_indom : Nat])
  BY Positions
<1>3. \A j \in 1..Len(local_domains) :
        /\ local_domains[j] \in DOMAIN instance_domain_ids
        /\ instance_domain_ids[local_domains[j]] = j - 1
        /\ indom_table[j].owner = local_domains[j]
        /\ indom_table[j].it_indom = domain_id[local_domains[j]]
  BY <1>1 DEF IdInv, Owners
<1>4. CASE VisitSingular(k)
  <2>1. UNCHANGED <<instance_domain_ids, local_domains, indom_table>>
    BY <1>4 DEF VisitSingular
  <2> QED BY <1>1, <1>3, <2>1 DEF Owners
<1>5. CASE VisitWithDomain(k)
  <2> DEFINE d == supported_metrics[k]
             ids == instance_domain_ids
             n == Len(local_domains)
             row == [owner |-> d, it_indom |-> domain_id[d]]
  <2>1. /\ d \in Domains /\ ids' = NumberDomain(ids, d)
        /\ DOMAIN ids' = DOMAIN ids \cup {d}
        /\ \A e \in DOMAIN ids : ids'[e] = ids[e]
        /\ d \notin DOMAIN ids => ids'[d] = n
    BY <1>5 DEF VisitWithDomain, NumberDomain, Visit, IsNext, Ind, TypeOK, OneNumbering
  <2>2. CASE d \in DOMAIN ids
    <3>1. UNCHANGED <<local_domains, indom_table>>
      BY <1>5, <2>2 DEF VisitWithDomain
    <3> QED BY <1>1, <1>3, <2>1, <3>1 DEF Owners
  <2>3. CASE d \notin DOMAIN ids
    <3>1. local_domains' = Append(local_domains, d) /\ indom_table' = Append(indom_table, row)
      BY <1>5, <2>3 DEF VisitWithDomain
    <3>2. /\ row \in [owner : Domains, it_indom : Nat] /\ row.owner = d
          /\ row.it_indom = domain_id[d]
      <4>1. domain_id[d] \in DomainIds
        BY <2>1 DEF Ind, TypeOK
      <4> QED BY <2>1, <4>1, RegistrationAssumption
    <3> HIDE DEF row, d
    <3>3. /\ Len(local_domains') = n + 1
          /\ \A j \in 1..n : local_domains'[j] = local_domains[j]
          /\ local_domains'[n + 1] = d
      BY <1>2, <2>1, <3>1, AppendToSeq
    <3>4. /\ \A j \in 1..n : indom_table'[j] = indom_table[j]
          /\ indom_table'[n + 1] = row
      BY <1>2, <3>1, <3>2, AppendToSeq
    <3>5. ASSUME NEW j \in 1..Len(local_domains')
          PROVE  /\ local_domains'[j] \in DOMAIN ids'
                 /\ ids'[local_domains'[j]] = j - 1
                 /\ indom_table'[j].owner = local_domains'[j]
                 /\ indom_table'[j].it_indom = domain_id[local_domains'[j]]
      <4>1. CASE j \in 1..n
        BY <4>1, <1>3, <2>1, <3>3, <3>4
      <4>2. CASE j = n + 1
        BY <4>2, <1>2, <2>1, <2>3, <3>2, <3>3, <3>4
      <4> QED BY <4>1, <4>2, <3>3, <1>2
    <3> QED BY <1>1, <3>5 DEF Owners
  <2> QED BY <2>2, <2>3
<1> QED BY <1>4, <1>5 DEF Visit

\* Each turn of the loops keeps what is said of ids,
LEMMA VisitIds ==
  ASSUME Ind, Ind', IdInv, NEW k \in Keys, Visit(k)
  PROVE  IdInv'
<1>1. Owners' /\ Pmids'
  BY PmidsAdded, OwnersAdded
<1>2. /\ indom_index' = 0 /\ DOMAIN instance_domains' = {}
      /\ pc' = "rows" /\ Len(local_domains') \in Nat
  <2>1. Len(local_domains') \in Nat
    BY DEF Ind, TypeOK
  <2> QED BY <2>1 DEF Visit, IdInv, Recorded
<1>3. Recorded'
  BY <1>2 DEF Recorded
<1> QED BY <1>1, <1>3 DEF IdInv

\* so does pmdaInit,
LEMMA pmdaInitIds ==
  ASSUME Ind, IdInv, pmdaInit
  PROVE  IdInv'
<1>1. ~Published /\ Published'
  BY DEF Ind, Progress, Published, pmdaInit
<1>2. /\ metric_table \in Seq(Row) /\ Len(metric_table) \in Nat
      /\ indom_table \in Seq([owner : Domains, it_indom : Nat])
      /\ Len(indom_table) = Len(local_domains) /\ Len(indom_table) \in Nat
  BY Positions DEF Ind, TypeOK, Row
<1>3. ASSUME NEW i \in 1..Len(metric_table)
      PROVE  /\ metric_table'[i].desc = metric_table[i].desc
             /\ metric_table'[i].pmid = FixPmid(metric_table[i].pmid)
  <2> DEFINE r == metric_table[i]
             ind == IF r.indom = PM_INDOM_NULL THEN r.indom ELSE FixIndom(r.indom)
  <2>1. r \in Row
    BY <1>2, ElementOfSeq
  <2>2. metric_table'[i] = [[r EXCEPT !.pmid = FixPmid(r.pmid)] EXCEPT !.indom = ind]
    BY DEF pmdaInit
  <2> HIDE DEF r, ind
  <2>3. metric_table'[i].desc = r.desc /\ metric_table'[i].pmid = FixPmid(r.pmid)
    BY <2>1, <2>2 DEF Row
  <2> QED BY <2>3 DEF r
<1>4. ASSUME NEW i \in 1..Len(indom_table)
      PROVE  /\ indom_table'[i].owner = indom_table[i].owner
             /\ indom_table'[i].it_indom = FixIndom(indom_table[i].it_indom)
  <2> DEFINE r == indom_table[i]
  <2>1. r \in [owner : Domains, it_indom : Nat]
    BY <1>2, ElementOfSeq
  <2>2. indom_table'[i] = [r EXCEPT !.it_indom = FixIndom(r.it_indom)]
    BY DEF pmdaInit
  <2> HIDE DEF r
  <2> QED BY <2>1, <2>2 DEF r
<1>5. /\ Len(metric_table') = Len(metric_table)
      /\ UNCHANGED <<local_domains, instance_domain_ids, domain_id, indom_index,
                     instance_domains>>
      /\ pc = "init" /\ pc' = "record"
  <2>1. DOMAIN metric_table' = 1..Len(metric_table)
    BY DEF pmdaInit
  <2>2. metric_table' \in Seq(Row) => Len(metric_table') = Len(metric_table)
    BY <1>2, <2>1
  <2>3. Ind'
    BY pmdaInitInd
  <2>4. metric_table' \in Seq(Row)
    BY <2>3 DEF Ind, TypeOK, Row
  <2> QED BY <2>2, <2>4 DEF pmdaInit
<1>6. Owners'
  <2>1. \A j \in 1..Len(local_domains) :
          LET d == local_domains[j]
          IN  /\ d \in DOMAIN instance_domain_ids /\ instance_domain_ids[d] = j - 1
              /\ indom_table[j].owner = d /\ indom_table[j].it_indom = domain_id[d]
    BY <1>1 DEF IdInv, Owners
  <2>2. \A j \in 1..Len(local_domains) :
          LET d == local_domains[j]
          IN  indom_table'[j].owner = d /\ indom_table'[j].it_indom = FixIndom(domain_id[d])
    BY <2>1, <1>2, <1>4
  <2> QED BY <1>1, <1>5, <2>1, <2>2 DEF Owners, FixIndom
<1>7. Pmids'
  <2>1. \A i \in 1..Len(metric_table) :
          metric_table[i].pmid = PMDA_PMID(metric_table[i].desc)
    BY <1>1 DEF IdInv, Pmids
  <2>2. \A i \in 1..Len(metric_table') :
          metric_table'[i].pmid = FixPmid(PMDA_PMID(metric_table'[i].desc))
    BY <1>3, <1>5, <2>1
  <2> QED BY <1>1, <2>2 DEF Pmids, FixPmid
<1>8. Recorded'
  BY <1>5 DEF IdInv, Recorded
<1> QED BY <1>6, <1>7, <1>8 DEF IdInv

\* so does each domain recorded,
LEMMA RecordIds ==
  ASSUME Ind, IdInv, RecordIndom
  PROVE  IdInv'
<1> DEFINE n  == indom_index
           d  == local_domains[n + 1]
           pm == indom_table[n + 1].it_indom
           ids == instance_domain_ids
<1>1. /\ n \in Nat /\ n < Len(local_domains) /\ Len(local_domains) \in Nat /\ n + 1 \in 1..Len(local_domains)
  <2>1. Len(local_domains) = indom_count
    BY DEF Ind, RecordIndom, CountsRight, Progress, OneNumbering, UsedDomains, Metrics
  <2>2. n \in Nat /\ Len(local_domains) \in Nat
    BY Positions
  <2>3. n < indom_count
    BY DEF RecordIndom
  <2> QED BY <2>1, <2>2, <2>3
<1>2. /\ UNCHANGED <<domain_id, instance_domain_ids, local_domains, metric_table, indom_table,
                     pc, interface>>
      /\ indom_index' = n + 1 /\ pc = "record"
      /\ pm_instance_domain' = [pm_instance_domain EXCEPT ![d] = pm]
      /\ instance_domains' = Inserted(Inserted(instance_domains, domain_id[d], d), pm, d)
  BY DEF RecordIndom, locals
<1>3. Owners' /\ Pmids'
  BY <1>2 DEF IdInv, Owners, Pmids, Published, FixIndom, FixPmid
<1>4. /\ d \in DOMAIN ids /\ ids[d] = n
      /\ \A j \in 1..Len(local_domains) : ids[local_domains[j]] = j - 1
  BY <1>1 DEF IdInv, Owners
<1>5. DOMAIN pm_instance_domain = Domains /\ d \in Domains
  BY <1>4 DEF Ind, TypeOK
<1> HIDE DEF d, pm
<1>6. pm_instance_domain'[d] = pm /\ \A e \in Domains \ {d} : pm_instance_domain'[e] = pm_instance_domain[e]
  BY <1>2, <1>5
<1>7. /\ DOMAIN instance_domains' = DOMAIN instance_domains \cup {domain_id[d], pm}
      /\ \A id \in DOMAIN instance_domains : instance_domains'[id] = instance_domains[id]
      /\ \A id \in {domain_id[d], pm} \ DOMAIN instance_domains : instance_domains'[id] = d
  <2> DEFINE first == Inserted(instance_domains, domain_id[d], d)
  <2>1. /\ DOMAIN first = DOMAIN instance_domains \cup {domain_id[d]}
        /\ \A id \in DOMAIN instance_domains : first[id] = instance_domains[id]
        /\ domain_id[d] \notin DOMAIN instance_domains => first[domain_id[d]] = d
    BY DEF Inserted
  <2>2. instance_domains' = Inserted(first, pm, d)
    BY <1>2
  <2> HIDE DEF first
  <2>3. /\ DOMAIN instance_domains' = DOMAIN first \cup {pm}
        /\ \A id \in DOMAIN first : instance_domains'[id] = first[id]
        /\ pm \notin DOMAIN first => instance_domains'[pm] = d
    BY <2>2 DEF Inserted
  <2> QED BY <2>1, <2>3
<1>8. ASSUME NEW id \in DOMAIN instance_domains'
      PROVE  LET e == instance_domains'[id]
             IN  /\ e \in DOMAIN ids /\ ids[e] < n + 1
                 /\ id \in {domain_id[e], pm_instance_domain'[e]}
  <2>1. CASE id \in DOMAIN instance_domains
    <3> DEFINE e == instance_domains[id]
    <3>1. e \in DOMAIN ids /\ ids[e] < n /\ id \in {domain_id[e], pm_instance_domain[e]}
      BY <2>1 DEF IdInv, Recorded
    <3>2. e # d /\ e \in Domains /\ ids[e] \in Nat
      <4>1. ids[e] # n
        BY <3>1, <1>1, Positions
      <4>2. DOMAIN ids \subseteq Domains /\ ids[e] \in Nat
        BY <3>1, Positions DEF Ind, TypeOK
      <4> QED BY <3>1, <4>1, <4>2, <1>4
    <3>3. instance_domains'[id] = e
      BY <2>1, <1>7
    <3> HIDE DEF e
    <3> QED BY <3>1, <3>2, <3>3, <1>1, <1>6
  <2>2. CASE id \in {domain_id[d], pm} \ DOMAIN instance_domains
    <3>1. instance_domains'[id] = d
      BY <2>2, <1>7
    <3> QED BY <2>2, <3>1, <1>1, <1>4, <1>6
  <2> QED BY <2>1, <2>2, <1>7
<1>9. ASSUME NEW j \in 1..(n + 1)
      PROVE  LET e == local_domains[j]
             IN  /\ pm_instance_domain'[e] = indom_table[j].it_indom
                 /\ {domain_id[e], pm_instance_domain'[e]} \subseteq DOMAIN instance_domains'
                 /\ ids[instance_domains'[domain_id[e]]] < j
  <2> DEFINE e == local_domains[j]
  <2>1. CASE j \in 1..n
    <3>1. /\ pm_instance_domain[e] = indom_table[j].it_indom
          /\ {domain_id[e], pm_instance_domain[e]} \subseteq DOMAIN instance_domains
          /\ ids[instance_domains[domain_id[e]]] < j
      BY <2>1 DEF IdInv, Recorded
    <3>2. e # d /\ e \in Domains
      <4>1. ids[e] = j - 1 /\ j \in 1..Len(local_domains)
        BY <2>1, <1>1, <1>4
      <4>2. e \in Domains
        BY <4>1, Positions, ElementOfSeq
      <4>3. j - 1 # n
        BY <2>1, <1>1
      <4> QED BY <4>1, <4>2, <4>3, <1>4
    <3>3. pm_instance_domain'[e] = pm_instance_domain[e]
      BY <3>2, <1>6
    <3> HIDE DEF e
    <3>4. instance_domains'[domain_id[e]] = instance_domains[domain_id[e]]
      BY <3>1, <1>7
    <3>5. {domain_id[e], pm_instance_domain'[e]} \subseteq DOMAIN instance_domains'
      BY <3>1, <3>3, <1>7
    <3> QED BY <3>1, <3>3, <3>4, <3>5 DEF e
  <2>2. CASE j = n + 1
    <3>1. e = d /\ indom_table[j].it_indom = pm
      BY <2>2 DEF d, pm
    <3>2. {domain_id[d], pm} \subseteq DOMAIN instance_domains'
      BY <1>7
    <3>3. ids[instance_domains'[domain_id[d]]] < n + 1
      BY <3>2, <1>8
    <3> HIDE DEF e
    <3> QED BY <2>2, <3>1, <3>2, <3>3, <1>6 DEF e
  <2> QED BY <2>1, <2>2, <1>1
<1>10. Recorded'
  BY <1>1, <1>2, <1>8, <1>9 DEF Recorded
<1> QED BY <1>3, <1>10 DEF IdInv

\* and so does every step.
LEMMA IdStep == Ind /\ Ind' /\ IdInv /\ [Next]_vars => IdInv'
<1> SUFFICES ASSUME Ind, Ind', IdInv, [Next]_vars PROVE IdInv'
  OBVIOUS
<1>1. ASSUME NEW k \in Keys, Visit(k) PROVE IdInv'
  BY <1>1, VisitIds
<1>2. CASE pmdaInit
  BY <1>2, pmdaInitIds
<1>3. CASE RecordIndom
  BY <1>3, RecordIds
<1>4. CASE Return
  <2>1. indom_index >= Len(local_domains)
    BY <1>4 DEF Return, Ind, CountsRight, Progress, OneNumbering, UsedDomains, Metrics
  <2>2. indom_index = Len(local_domains)
    BY <2>1, Positions DEF IdInv, Recorded
  <2> QED BY <1>4, <2>2, IdsUnchanged DEF Return, locals, Published
<1>5. CASE CountMetrics \/ SetCallbacks
  <2>1. ~Published /\ pc \in {"count", "rows"}
    BY <1>5 DEF CountMetrics, SetCallbacks, Ind, Progress
  <2> QED BY <1>5, <2>1, IdsUnchanged DEF CountMetrics, SetCallbacks, locals, Published
<1>6. CASE UNCHANGED vars
  BY <1>6, IdsUnchanged DEF vars, Published, IdInv, Recorded
<1> QED BY <1>1, <1>2, <1>3, <1>4, <1>5, <1>6 DEF Next

\* The ids of initialize_pmda's tables and map are right at every step.
THEOREM IdsRight == Spec => [](Ind /\ IdInv)
<1>1. Init => Ind /\ IdInv
  BY InitInd, IdInit
<1>2. Ind /\ IdInv /\ [Next]_vars => (Ind /\ IdInv)'
  BY NextInd, IdStep
<1> QED BY <1>1, <1>2, PTL DEF Spec
-----------------------------------------------------------------------------
(* The theorems.                                                           *)

\* A published PMID leads the callbacks to the ids it was made of, cut to their
\* widths: to its own metric exactly if that metric's ids fit.
THEOREM PmidsLeadBack == Spec => []PmidFindsItsMetric
<1>1. Ind /\ IdInv => PmidFindsItsMetric
  <2> SUFFICES ASSUME Ind, IdInv, Published, NEW i \in 1..Len(metric_table)
               PROVE  LET key   == metric_table[i].desc
                          found == pmID_key(metric_table[i].pmid)
                      IN  /\ found = <<key[1] % ClusterSize, key[2] % ItemSize>>
                          /\ found = key <=> InWidth(key)
    BY DEF PmidFindsItsMetric
  <2>1. metric_table[i].desc \in Keys
    <3>1. metric_table \in Seq(Row)
      BY DEF Ind, TypeOK, Row
    <3>2. metric_table[i] \in Row
      BY <3>1, ElementOfSeq
    <3> QED BY <3>2 DEF Row
  <2>2. metric_table[i].pmid = FixPmid(PMDA_PMID(metric_table[i].desc))
    BY DEF IdInv, Pmids
  <2> QED BY <2>1, <2>2, PmidCut, CutIsOwn
<1> QED BY <1>1, IdsRight, PTL

\* With ids that count its domains, an agent's metrics are fetched over the
\* instances of their own domains.
THEOREM OrdinalsResolve == Spec => []OrdinalIndomResolves
<1>1. Ind /\ IdInv => OrdinalIndomResolves
  <2> SUFFICES ASSUME Ind, IdInv, OrdinalIds, Cardinality(UsedDomains) <= SerialSize, Published,
                      NEW i \in 1..Len(metric_table),
                      supported_metrics[metric_table[i].desc] # NoDomain
               PROVE  \E j \in 1..Len(indom_table) :
                        /\ FindsIndom(metric_table[i], j)
                        /\ indom_table[j].owner = supported_metrics[metric_table[i].desc]
    BY DEF OrdinalIndomResolves, IndomResolves, ResolvesToItsDomain
  <2> DEFINE d == supported_metrics[metric_table[i].desc]
             j == instance_domain_ids[d] + 1
  <2>1. d \in DOMAIN instance_domain_ids
    BY DEF Ind, OneNumbering, OneRowEach, DomainsOf
  <2>2. metric_table[i].indom = FixIndom(instance_domain_ids[d])
    BY DEF Ind, RowsNumbered, IndomOf
  <2> HIDE DEF d
  <2>3. j \in 1..Len(indom_table) /\ Len(indom_table) = Len(local_domains) /\ Len(indom_table) \in Nat
    BY <2>1, Positions
  <2>4. ASSUME NEW n \in 1..Len(indom_table)
        PROVE  /\ indom_table[n].it_indom = FixIndom(n - 1)
               /\ n - 1 \in 0..(SerialSize - 1)
    <3> DEFINE e == local_domains[n]
    <3>1. /\ e \in DOMAIN instance_domain_ids /\ instance_domain_ids[e] = n - 1
          /\ indom_table[n].it_indom = FixIndom(domain_id[e])
      BY <2>3 DEF IdInv, Owners
    <3> HIDE DEF e
    <3>2. domain_id[e] = n - 1
      BY <3>1 DEF OrdinalIds
    <3>3. instance_domain_ids[e] \in 0..(SerialSize - 1)
      BY <3>1, IndexIsSerial
    <3> QED BY <3>1, <3>2, <3>3
  <2>5. indom_table[j].it_indom = metric_table[i].indom
    <3>1. j - 1 = instance_domain_ids[d]
      BY <2>1, Positions
    <3> QED BY <2>2, <2>3, <2>4, <3>1
  <2>6. ASSUME NEW n \in 1..(j - 1) PROVE indom_table[n].it_indom # metric_table[i].indom
    <3>1. n \in 1..Len(indom_table) /\ n # j
      BY <2>3
    <3>2. /\ pmInDom_serial(indom_table[n].it_indom) = n - 1
          /\ pmInDom_serial(indom_table[j].it_indom) = j - 1
      BY <2>3, <2>4, <3>1, FixedIndom
    <3>3. n - 1 # j - 1
      BY <2>3, <3>1
    <3> QED BY <2>5, <3>2, <3>3
  <2>7. indom_table[j].owner = d
    BY <2>1 DEF Ind, OneNumbering
  <2>8. FindsIndom(metric_table[i], j)
    BY <2>3, <2>5, <2>6 DEF FindsIndom
  <2> QED BY <2>3, <2>7, <2>8 DEF d
<1> QED BY <1>1, IdsRight, PTL

\* The domains in use, when all is recorded.
LEMMA UsedAreRecorded ==
  ASSUME Ind, IdInv, pc = "done", NEW d \in UsedDomains
  PROVE  /\ d \in DOMAIN instance_domain_ids /\ d \in Domains
         /\ instance_domain_ids[d] \in Nat /\ domain_id[d] \in Nat
         /\ {domain_id[d], pm_instance_domain[d]} \subseteq DOMAIN instance_domains
         /\ pm_instance_domain[d] = FixIndom(domain_id[d])
         /\ instance_domain_ids[instance_domains[domain_id[d]]] < instance_domain_ids[d] + 1
<1>1. d \in DOMAIN instance_domain_ids /\ d \in Domains /\ Published
  BY DEF Ind, Progress, OneNumbering, UsedDomains, Metrics, TypeOK
<1> DEFINE j == instance_domain_ids[d] + 1
<1>2. /\ j \in 1..Len(local_domains) /\ local_domains[j] = d
      /\ instance_domain_ids[d] \in Nat
  BY <1>1, Positions
<1>3. j \in 1..indom_index
  BY <1>2 DEF IdInv, Recorded
<1>4. /\ pm_instance_domain[d] = indom_table[j].it_indom
      /\ {domain_id[d], pm_instance_domain[d]} \subseteq DOMAIN instance_domains
      /\ instance_domain_ids[instance_domains[domain_id[d]]] < j
  BY <1>2, <1>3 DEF IdInv, Recorded
<1>5. indom_table[j].it_indom = FixIndom(domain_id[d])
  BY <1>1, <1>2 DEF IdInv, Owners
<1>6. domain_id[d] \in Nat
  <2>1. domain_id[d] \in DomainIds
    BY <1>1 DEF Ind, TypeOK
  <2> QED BY <2>1, RegistrationAssumption
<1> QED BY <1>1, <1>2, <1>4, <1>5, <1>6

\* What the map has for an id carries that id, and is in use.
LEMMA MapHasUsed ==
  ASSUME Ind, IdInv, pc = "done", NEW id \in DOMAIN instance_domains
  PROVE  LET e == instance_domains[id]
         IN  /\ e \in UsedDomains /\ e \in DOMAIN instance_domain_ids
             /\ id \in {domain_id[e], pm_instance_domain[e]}
BY DEF IdInv, Recorded, Ind, OneNumbering, Progress, UsedDomains, Metrics

\* A domain in use is found under its own id and under pmdaInit's.
LEMMA DoneReach == Ind /\ IdInv => BothIdsReach
<1> SUFFICES ASSUME Ind, IdInv, pc = "done", DistinctIds, NarrowIds, NEW d \in UsedDomains
             PROVE  /\ domain_id[d] \in DOMAIN instance_domains
                    /\ instance_domains[domain_id[d]] = d
                    /\ pm_instance_domain[d] \in DOMAIN instance_domains
                    /\ instance_domains[pm_instance_domain[d]] = d
  BY DEF BothIdsReach
<1>1. ASSUME NEW e \in UsedDomains
      PROVE  /\ pmInDom_serial(domain_id[e]) = domain_id[e]
             /\ pmInDom_serial(pm_instance_domain[e]) = domain_id[e]
  <2>1. domain_id[e] \in 0..(SerialSize - 1) /\ pm_instance_domain[e] = FixIndom(domain_id[e])
    <3>1. domain_id[e] < SerialSize
      BY DEF NarrowIds
    <3>2. domain_id[e] \in Nat /\ pm_instance_domain[e] = FixIndom(domain_id[e])
      BY UsedAreRecorded
    <3> QED BY <3>1, <3>2, RegistrationAssumption
  <2>2. pmInDom_serial(FixIndom(domain_id[e])) = domain_id[e]
    BY <2>1, FixedIndom
  <2>3. domain_id[e] % SerialSize = domain_id[e]
    BY <2>1, RegistrationAssumption
  <2> QED BY <2>1, <2>2, <2>3 DEF pmInDom_serial
<1>2. ASSUME NEW id \in {domain_id[d], pm_instance_domain[d]}, id \in DOMAIN instance_domains
      PROVE  instance_domains[id] = d
  <2> DEFINE e == instance_domains[id]
  <2>1. e \in UsedDomains /\ id \in {domain_id[e], pm_instance_domain[e]}
    BY <1>2, MapHasUsed
  <2> HIDE DEF e
  <2>2. pmInDom_serial(id) = domain_id[e] /\ pmInDom_serial(id) = domain_id[d]
    BY <1>1, <1>2, <2>1
  <2>3. e = d
    BY <2>1, <2>2 DEF DistinctIds
  <2> QED BY <2>3 DEF e
<1>3. {domain_id[d], pm_instance_domain[d]} \subseteq DOMAIN instance_domains
  BY UsedAreRecorded
<1> QED BY <1>2, <1>3

\* Every domain in use is reached under the agent's own id for it and under the
\* one pmdaInit made of it, if ids are distinct and fit their bit field.
THEOREM IdsReach == Spec => []BothIdsReach
<1> QED BY DoneReach, IdsRight, PTL

\* No id is recorded for a domain without it, and the first of those that share
\* an id is the one that is found.
THEOREM RecordsAreCarried == Spec => []RecordedIsCarried
<1>1. Ind /\ IdInv => RecordedIsCarried
  <2> SUFFICES ASSUME Ind, IdInv, pc = "done" PROVE RecordedIsCarried
    BY DEF RecordedIsCarried
  <2>1. ASSUME NEW id \in DOMAIN instance_domains
        PROVE  id \in {domain_id[instance_domains[id]], pm_instance_domain[instance_domains[id]]}
    BY MapHasUsed
  <2>2. ASSUME NEW d \in UsedDomains
        PROVE  /\ {domain_id[d], pm_instance_domain[d]} \subseteq DOMAIN instance_domains
               /\ instance_domain_ids[instance_domains[domain_id[d]]] <= instance_domain_ids[d]
    <3>1. /\ {domain_id[d], pm_instance_domain[d]} \subseteq DOMAIN instance_domains
          /\ instance_domain_ids[d] \in Nat
          /\ instance_domain_ids[instance_domains[domain_id[d]]] < instance_domain_ids[d] + 1
      BY UsedAreRecorded
    <3>2. instance_domain_ids[instance_domains[domain_id[d]]] \in Nat
      BY <3>1, MapHasUsed, Positions
    <3> QED BY <3>1, <3>2
  <2> QED BY <2>1, <2>2 DEF RecordedIsCarried
<1> QED BY <1>1, IdsRight, PTL
=============================================================================
