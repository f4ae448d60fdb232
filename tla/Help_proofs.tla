---------------------------- MODULE Help_proofs ----------------------------
(***************************************************************************)
(* What help requests find in the tables and maps that registration leaves *)
(* behind, for any agent, any texts and any widths of the bit fields.      *)
(***************************************************************************)
EXTENDS Help, Registration_proofs

\* A text that is there is found, in the style asked for if there is one.
LEMMA TextFound ==
  ASSUME NEW of, NEW written \in SUBSET Styles, NEW type
  PROVE  LET text == TextIn(of, written, type)
         IN  IF written = {} THEN text = NoText
             ELSE /\ text.of = of
                  /\ text.style \in written
                  /\ Wanted(type) \in written => text.style = Wanted(type)
<1>1. CASE written = {}
  BY <1>1 DEF TextIn
<1>2. CASE written # {}
  <2> DEFINE style == IF Wanted(type) \in written THEN Wanted(type)
                      ELSE CHOOSE s \in written : TRUE
  <2>1. TextIn(of, written, type) = [of |-> of, style |-> style]
    BY <1>2 DEF TextIn
  <2>2. style \in written /\ (Wanted(type) \in written => style = Wanted(type))
    BY <1>2
  <2> HIDE DEF style
  <2> QED BY <1>2, <2>1, <2>2
<1> QED BY <1>1, <1>2

\* A client that asks for the text of a published PMID gets its metric's own.
THEOREM MetricTextsAreTheirOwn == Spec => []MetricTextIsItsOwn
<1>1. Ind /\ IdInv => MetricTextIsItsOwn
  <2> SUFFICES ASSUME Ind, IdInv, pc = "done", NEW i \in 1..Len(metric_table),
                      InWidth(metric_table[i].desc),
                      NEW type \in MetricRequests, NEW texts \in Texts
               PROVE  LET row     == metric_table[i]
                          text    == on_text(row.pmid, type, texts)
                          written == texts.metric[row.desc]
                      IN  IF written = {} THEN text = NoText
                          ELSE /\ text.of = row.desc
                               /\ text.style \in written
                               /\ Wanted(type) \in written => text.style = Wanted(type)
    BY DEF MetricTextIsItsOwn, WideEnough
  <2> DEFINE key == metric_table[i].desc
             written == texts.metric[key]
  <2>1. Published /\ key \in Metrics
    BY DEF Ind, Progress, OneRowEach
  <2>2. key \in Keys
    <3>1. metric_table \in Seq(Row)
      BY DEF Ind, TypeOK, Row
    <3>2. metric_table[i] \in Row
      BY <3>1, ElementOfSeq
    <3> QED BY <3>2 DEF Row
  <2>3. pmID_key(metric_table[i].pmid) = key
    <3>1. metric_table[i].pmid = FixPmid(PMDA_PMID(key))
      BY <2>1 DEF IdInv, Pmids
    <3> QED BY <2>2, <3>1, PmidBack
  <2>4. written \in SUBSET Styles
    BY <2>2, HelpAssumption
  <2>5. on_text(metric_table[i].pmid, type, texts) = TextIn(key, written, type)
    BY <2>1, <2>3 DEF on_text, MetricText, MetricRequests, Metrics
  <2> HIDE DEF key, written
  <2> QED BY <2>4, <2>5, TextFound DEF key, written
<1> QED BY <1>1, IdsRight, PTL

\* The domain number of an id that pmdaInit completed is the PMDA's.
LEMMA DomainOfFixed ==
  ASSUME NEW n \in Nat, PmdaDomain \in 1..(DomainSize - 1), SerialSize > 1
  PROVE  pmInDom_domain(FixIndom(n)) = PmdaDomain /\ FixIndom(n) # PmdaDomain
<1> DEFINE r == pmInDom_serial(n)
<1>1. /\ PmdaDomain \in Nat /\ SerialSize \in Nat \ {0} /\ DomainSize \in Nat \ {0}
      /\ r \in 0..(SerialSize - 1)
  BY RegistrationAssumption, HelpAssumption DEF pmInDom_serial
<1>2. FixIndom(n) = (PmdaDomain * SerialSize) + r
  BY DEF FixIndom, pmInDom_build
<1> HIDE DEF r
<1>3. FixIndom(n) \div SerialSize = PmdaDomain
  BY <1>1, <1>2, Divided
<1>4. PmdaDomain % DomainSize = PmdaDomain
  BY <1>1
<1>5. PmdaDomain \div SerialSize # PmdaDomain
  <2> DEFINE q == PmdaDomain \div SerialSize
             t == PmdaDomain % SerialSize
  <2>1. PmdaDomain = (q * SerialSize) + t /\ q \in Int /\ t \in 0..(SerialSize - 1)
    BY <1>1
  <2> HIDE DEF q, t
  <2>2. q = PmdaDomain => q * SerialSize >= q + q
    BY <1>1, <2>1
  <2> QED BY <1>1, <2>1, <2>2 DEF q
<1> QED BY <1>3, <1>4, <1>5 DEF pmInDom_domain

\* Two domains in use with one number in the order of use are one domain.
LEMMA NumbersApart ==
  ASSUME Ind, IdInv, pc = "done", NEW d \in UsedDomains, NEW e \in UsedDomains,
         instance_domain_ids[d] = instance_domain_ids[e]
  PROVE  d = e
<1>1. d \in DOMAIN instance_domain_ids /\ e \in DOMAIN instance_domain_ids
  BY UsedAreRecorded
<1> QED BY <1>1, Positions

\* A request about a domain finds the text of an instance of the first domain
\* that has the number of the PMDA, and no text if there is none.
THEOREM IndomTextsOfNamesakes == Spec => []IndomTextOfNamesake
<1>1. Ind /\ IdInv => IndomTextOfNamesake
  <2> SUFFICES ASSUME Ind, IdInv, pc = "done", PmdaDomain \in 1..(DomainSize - 1), SerialSize > 1,
                      NEW j \in 1..Len(indom_table), NEW type \in IndomRequests,
                      NEW texts \in Texts
               PROVE  LET indom == indom_table[j].it_indom
                          text  == on_text(indom, type, texts)
                      IN  /\ Namesakes = {} => text = NoText
                          /\ \A d \in Namesakes :
                               (\A e \in Namesakes :
                                  instance_domain_ids[d] <= instance_domain_ids[e])
                               => text = InstanceText(d, pmInDom_serial(indom), type, texts)
    BY DEF IndomTextOfNamesake
  <2> DEFINE indom == indom_table[j].it_indom
             inst  == pmInDom_serial(indom)
             named == instance_domains[PmdaDomain]
  <2>1. PICK n \in Nat : indom = FixIndom(n)
    <3>1. j \in 1..Len(local_domains) /\ Published
      BY DEF Ind, OneNumbering, Progress
    <3>2. indom = FixIndom(domain_id[local_domains[j]])
      BY <3>1 DEF IdInv, Owners
    <3>3. local_domains[j] \in Domains
      BY <3>1, ElementOfSeq DEF Ind, TypeOK
    <3>4. domain_id[local_domains[j]] \in Nat
      BY <3>3, RegistrationAssumption DEF Ind, TypeOK
    <3> QED BY <3>2, <3>4
  <2>2. pmInDom_domain(indom) = PmdaDomain
    BY <2>1, DomainOfFixed
  <2> HIDE DEF indom
  <2>3. ASSUME PmdaDomain \in DOMAIN instance_domains PROVE named \in Namesakes
    <3>1. /\ named \in UsedDomains
          /\ PmdaDomain \in {domain_id[named], pm_instance_domain[named]}
      BY <2>3, MapHasUsed
    <3> HIDE DEF named
    <3>2. domain_id[named] \in Nat /\ pm_instance_domain[named] = FixIndom(domain_id[named])
      BY <3>1, UsedAreRecorded
    <3>3. pm_instance_domain[named] # PmdaDomain
      BY <3>2, DomainOfFixed
    <3> QED BY <3>1, <3>3 DEF Namesakes
  <2>4. on_text(indom, type, texts) =
          IF PmdaDomain \in DOMAIN instance_domains
          THEN InstanceText(named, inst, type, texts) ELSE NoText
    <3>1. on_text(indom, type, texts) = IndomText(indom, type, texts)
      BY DEF on_text, IndomRequests
    <3> QED BY <2>2, <3>1 DEF IndomText, InstanceText
  <2>5. ASSUME NEW d \in Namesakes,
               \A e \in Namesakes : instance_domain_ids[d] <= instance_domain_ids[e]
        PROVE  PmdaDomain \in DOMAIN instance_domains /\ named = d
    <3>1. /\ d \in UsedDomains /\ domain_id[d] = PmdaDomain
          /\ instance_domain_ids[d] \in Nat
          /\ PmdaDomain \in DOMAIN instance_domains
          /\ instance_domain_ids[named] < instance_domain_ids[d] + 1
      BY <2>5, UsedAreRecorded DEF Namesakes
    <3>2. named \in Namesakes /\ named \in UsedDomains
      BY <2>3, <3>1 DEF Namesakes
    <3> HIDE DEF named
    <3>3. instance_domain_ids[named] \in Nat
      BY <3>2, UsedAreRecorded
    <3>4. instance_domain_ids[d] <= instance_domain_ids[named]
      BY <2>5, <3>2
    <3>5. instance_domain_ids[named] = instance_domain_ids[d]
      BY <3>1, <3>3, <3>4
    <3> QED BY <3>1, <3>2, <3>5, NumbersApart
  <2> HIDE DEF inst, named
  <2>6. Namesakes = {} => on_text(indom, type, texts) = NoText
    BY <2>3, <2>4
  <2>7. ASSUME NEW d \in Namesakes,
               \A e \in Namesakes : instance_domain_ids[d] <= instance_domain_ids[e]
        PROVE  on_text(indom, type, texts) = InstanceText(d, inst, type, texts)
    BY <2>4, <2>5, <2>7
  <2> QED BY <2>6, <2>7 DEF indom, inst
<1> QED BY <1>1, IdsRight, PTL
=============================================================================
