------------------------------ MODULE MCBilling ------------------------------
(***************************************************************************)
(* Instances of Billing for TLC: a customer pays the first invoice.        *)
(***************************************************************************)
EXTENDS Billing, TLC

CONSTANTS c1, c2, h1, h2, p1

MCInvoiceOf == p1 :> 1

\* Requests and deliveries are interchangeable.
Interchangeable == Permutations({c1, c2}) \union Permutations({h1, h2})
=============================================================================
