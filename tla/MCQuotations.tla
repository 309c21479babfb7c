----------------------------- MODULE MCQuotations -----------------------------
(***************************************************************************)
(* Small instances of Quotations.                                          *)
(***************************************************************************)
EXTENDS Quotations
=============================================================================
