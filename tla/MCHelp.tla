------------------------------- MODULE MCHelp ------------------------------
(***************************************************************************)
(* Texts for Help: over the four of them each of four metrics, and each of *)
(* four instances, has every combination of styles.                        *)
(***************************************************************************)
EXTENDS Help

MCTexts ==
  LET combination == <<{}, {"short"}, {"verbose"}, Styles>>
  IN  {[metric   |-> [k \in Keys |-> combination[1 + ((k[1] + k[2] + n) % 4)]],
        instance |-> [d \in Domains |-> [i \in 0..4 |-> combination[1 + ((i + n) % 4)]]]] :
         n \in 0..3}
=============================================================================
