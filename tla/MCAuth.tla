------------------------------- MODULE MCAuth -------------------------------
(* Values for TLC's instance of Auth. *)
EXTENDS Auth

CONSTANT ip1

\* Every browser behind one address.
OneAddress == [b \in Browsers |-> ip1]
=============================================================================
