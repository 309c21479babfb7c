------------------------------ MODULE OrderBalance ------------------------------
(***************************************************************************)
(* What the fulfilment of an item promises about quantities, whatever rows *)
(* it keeps: the client is delivered what was ordered or it is closed as   *)
(* rejected, once; a rejected quantity is fulfilled again at most once;    *)
(* revenue follows acceptance.                                             *)
(***************************************************************************)
EXTENDS Integers

VARIABLES
    ordered,     \* ordered by the client
    reopened,    \* rejected and given to a replacement attempt
    accepted,    \* accepted by the client
    rejected,    \* rejected by the client
    closed,      \* rejected for good
    recognized   \* billed quantity recognised as revenue

quantities == <<ordered, reopened, accepted, rejected, closed, recognized>>

Init ==
    /\ ordered = 0 /\ reopened = 0 /\ accepted = 0 /\ rejected = 0
    /\ closed = 0 /\ recognized = 0

Order ==
    /\ ordered' \in Nat /\ ordered <= ordered'
    /\ UNCHANGED <<reopened, accepted, rejected, closed, recognized>>

\* The client accepts one part of what arrived and rejects another.
Answer ==
    /\ accepted' \in Nat /\ accepted <= accepted'
    /\ rejected' \in Nat /\ rejected <= rejected'
    /\ accepted' + rejected' <= ordered + reopened
    /\ UNCHANGED <<ordered, reopened, closed, recognized>>

Reopen ==
    /\ reopened' \in Nat /\ reopened <= reopened'
    /\ reopened' + closed <= rejected
    /\ UNCHANGED <<ordered, accepted, rejected, closed, recognized>>

Close ==
    /\ closed' \in Nat /\ closed <= closed'
    /\ reopened + closed' <= rejected
    /\ UNCHANGED <<ordered, reopened, accepted, rejected, recognized>>

Recognize ==
    /\ recognized' \in Nat /\ recognized <= recognized'
    /\ recognized' <= accepted
    /\ UNCHANGED <<ordered, reopened, accepted, rejected, closed>>

Next == Order \/ Answer \/ Reopen \/ Close \/ Recognize

Spec == Init /\ [][Next]_quantities

-----------------------------------------------------------------------------
\* Nothing is delivered that was not ordered, and nothing that was given up
\* is delivered as well, through any number of rejections and replacements
\* (tracking.py: remaining_quantity); revenue is not ahead of acceptance.
NeverOverfulfilled ==
    /\ accepted + closed <= ordered
    /\ recognized <= accepted

\* Why: each quantity answered was sent for an order or for a replacement,
\* each replacement and closure uses a rejection up.
Accounted ==
    /\ ordered \in Nat /\ reopened \in Nat /\ accepted \in Nat
    /\ rejected \in Nat /\ closed \in Nat /\ recognized \in Nat
    /\ accepted + rejected <= ordered + reopened
    /\ reopened + closed <= rejected
    /\ recognized <= accepted

=============================================================================
