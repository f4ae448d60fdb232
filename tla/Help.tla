------------------------------- MODULE Help --------------------------------
(***************************************************************************)
(* pcp::pmda::on_text on top of Registration: a help request names a       *)
(* metric, or an instance domain, by the id that pmdaInit completed; the   *)
(* callback takes the id apart again to find the texts the agent wrote,    *)
(* and leaves the request to pmdaText when it finds none.  It changes      *)
(* nothing, so it is an operator.                                          *)
(*                                                                         *)
(* Abstracted: a text is whose it is and its style; an empty text is one   *)
(* that is not there.                                                      *)
(***************************************************************************)
EXTENDS Registration

CONSTANTS
  DomainSize,   \* number of PMDA domains a pmInDom can hold
  Texts         \* what agents may have written: for each metric key, and each
                \* instance id of each domain, the styles there is a text in

Styles == {"short", "verbose"}

ASSUME HelpAssumption ==
  /\ DomainSize \in Nat \ {0}
  /\ \A texts \in Texts :
       /\ texts.metric \in [Keys -> SUBSET Styles]
       /\ \A d \in Domains : /\ DOMAIN texts.instance[d] \subseteq Nat
                             /\ \A i \in DOMAIN texts.instance[d] :
                                  texts.instance[d][i] \subseteq Styles
-----------------------------------------------------------------------------
NoText == [of |-> <<>>, style |-> "none"]    \* the request goes on to pmdaText

\* What a request may ask for: flags of pmLookupText.
Types == SUBSET {"ONELINE", "PMID", "INDOM"}

pmInDom_domain(indom) == (indom \div SerialSize) % DomainSize

\* The style that is asked for.
Wanted(type) == IF "ONELINE" \in type THEN "short" ELSE "verbose"

\* Mutant: no fallback from the style asked for to the other.
WantedStyleOnly(of, written, type) ==
  IF Wanted(type) \in written THEN [of |-> of, style |-> Wanted(type)] ELSE NoText

\* The text in the style asked for, else in the other; PM_ERR_TEXT if neither.
TextIn(of, written, type) ==
  IF written = {} THEN NoText
  ELSE [of |-> of, style |-> IF Wanted(type) \in written THEN Wanted(type)
                             ELSE CHOOSE s \in written : TRUE]

\* supported_metrics.at(cluster).at(item), or out_of_range.
MetricText(ident, type, texts) ==
  LET key == pmID_key(ident)
  IN  IF key \in DOMAIN supported_metrics
      THEN TextIn(key, texts.metric[key], type) ELSE NoText

\* Mutant: the domain is looked up under the serial, the instance under the
\* domain number.
IndomTextSwapped(ident, type, texts) ==
  LET id   == pmInDom_serial(ident)
      inst == pmInDom_domain(ident)
  IN  IF id \in DOMAIN instance_domains
      THEN LET d == instance_domains[id]
           IN  IF inst \in DOMAIN texts.instance[d]
               THEN TextIn(<<d, inst>>, texts.instance[d][inst], type) ELSE NoText
      ELSE NoText

\* instance_domains.at(domain)->at(serial), or out_of_range.
IndomText(ident, type, texts) ==
  LET id   == pmInDom_domain(ident)
      inst == pmInDom_serial(ident)
  IN  IF id \in DOMAIN instance_domains
      THEN LET d == instance_domains[id]
           IN  IF inst \in DOMAIN texts.instance[d]
               THEN TextIn(<<d, inst>>, texts.instance[d][inst], type) ELSE NoText
      ELSE NoText

on_text(ident, type, texts) ==
  IF "PMID" \in type THEN MetricText(ident, type, texts)
  ELSE IF "INDOM" \in type THEN IndomText(ident, type, texts)
  ELSE NoText
-----------------------------------------------------------------------------
(* Properties.                                                             *)

\* The published rows whose metric's own ids a PMID can hold.
WideEnough == {metric_table[i] : i \in {j \in 1..Len(metric_table) :
                                          InWidth(metric_table[j].desc)}}

MetricRequests == {type \in Types : "PMID" \in type}

\* The text a client gets for a published PMID is the described metric's own,
\* one that was written, and in the style asked for if that was written; and a
\* metric with any text at all never goes without one.
MetricTextIsItsOwn ==
  pc = "done" =>
    \A row \in WideEnough, type \in MetricRequests, texts \in Texts :
      LET text    == on_text(row.pmid, type, texts)
          written == texts.metric[row.desc]
      IN  IF written = {} THEN text = NoText
          ELSE /\ text.of = row.desc
               /\ text.style \in written
               /\ Wanted(type) \in written => text.style = Wanted(type)

IndomRequests == {{"INDOM"}, {"INDOM", "ONELINE"}}

\* The domains in use to which the agent has given the number of its own PMDA.
Namesakes == {d \in UsedDomains : domain_id[d] = PmdaDomain}

\* The text that stands for an instance, if the domain has the instance.
InstanceText(d, inst, type, texts) ==
  IF inst \in DOMAIN texts.instance[d]
  THEN TextIn(<<d, inst>>, texts.instance[d][inst], type) ELSE NoText

\* A request about an instance domain names it by its published id, in which
\* on_text takes the PMDA's number for the agent's own id of a domain, and the
\* serial for an instance.  So no request about a domain finds a text, and all
\* go on to pmdaText, unless some domain has the number of the PMDA: then any
\* of them finds the text of an instance of that domain, the first one used if
\* there are several, and never of another.
IndomTextOfNamesake ==
  pc = "done" /\ PmdaDomain \in 1..(DomainSize - 1) /\ SerialSize > 1 =>
    \A j \in 1..Len(indom_table), type \in IndomRequests, texts \in Texts :
      LET indom == indom_table[j].it_indom
          text  == on_text(indom, type, texts)
      IN  /\ Namesakes = {} => text = NoText
          /\ \A d \in Namesakes :
               (\A e \in Namesakes : instance_domain_ids[d] <= instance_domain_ids[e])
               => text = InstanceText(d, pmInDom_serial(indom), type, texts)
=============================================================================
