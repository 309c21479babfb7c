------------------------------ MODULE MCParties ------------------------------
(***************************************************************************)
(* Small databases for Parties: an organisation, a trading name of the     *)
(* same name that may be its duplicate or still to be created, and two     *)
(* people.  A person is affiliated with both of them, or both people with  *)
(* one of them.                                                            *)
(***************************************************************************)
EXTENDS Parties, TLC

CONSTANTS o1, o2, q1, q2, c1, c2, d1, f1, v1, v2

MCKind == [p \in PartyIds |-> CASE p = o1 -> "ORGANISATION"
                                [] p = o2 -> "TRADING_NAME"
                                [] OTHER -> "INDIVIDUAL"]
MCName == [p \in PartyIds |-> IF p \in {o1, o2} THEN "Acme" ELSE "Someone"]

Live == [status |-> "ACTIVE", archived |-> FALSE, into |-> NoRow]
Contact(p, v, primary, verified, active) ==
    [party |-> p, value |-> v, primary |-> primary, verified |-> verified, active |-> active]
Place(p) == [party |-> p, table |-> "SOURCE", primary |-> TRUE, active |-> TRUE]
Affiliation(q, p, primary) ==
    [person |-> q, organisation |-> p, current |-> TRUE, primary_contact |-> primary]

\* Both organisations, with a contact in common or not.
Duplicates(value, primary) ==
    [parties |-> [p \in PartyIds |-> Live],
     roles |-> [p \in PartyIds |-> [r \in Roles |->
                   CASE p = o1 -> "INACTIVE" [] p = o2 -> "ACTIVE" [] OTHER -> "NONE"]],
     contacts |-> [i \in ContactIds |->
                      CASE i = c1 -> Contact(o1, v1, TRUE, FALSE, TRUE)
                        [] i = c2 -> Contact(o2, value, primary, TRUE, primary)
                        [] OTHER -> NoRow],
     places |-> [i \in PlaceIds |-> IF i = d1 THEN Place(o1) ELSE Place(o2)],
     affiliations |-> [i \in AffiliationIds |->
                          IF i = f1 THEN Affiliation(q1, o1, TRUE)
                          ELSE IF value = v1 THEN Affiliation(q1, o2, FALSE)
                          ELSE Affiliation(q2, o1, FALSE)]]

\* The first organisation alone.
Single ==
    [parties |-> [p \in PartyIds |-> IF p = o2 THEN NoRow ELSE Live],
     roles |-> [p \in PartyIds |-> [r \in Roles |-> IF p = o1 THEN "ACTIVE" ELSE "NONE"]],
     contacts |-> [i \in ContactIds |->
                      IF i = c1 THEN Contact(o1, v1, TRUE, FALSE, TRUE) ELSE NoRow],
     places |-> [i \in PlaceIds |-> IF i = d1 THEN Place(o1) ELSE NoRow],
     affiliations |-> [i \in AffiliationIds |->
                          IF i = f1 THEN Affiliation(q1, o1, TRUE) ELSE NoRow]]

MCGiven == {Single} \cup {Duplicates(value, primary) : value \in {v1, v2}, primary \in BOOLEAN}

Symmetry == Permutations(Clerks)
=============================================================================
