--------------------------- MODULE MCPartyDocuments ---------------------------
(***************************************************************************)
(* Two uploads of the same content.                                        *)
(***************************************************************************)
EXTENDS PartyDocuments, TLC

MCContent == [d \in DocumentIds |-> "scan"]
=============================================================================
