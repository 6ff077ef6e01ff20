---- MODULE MCInvoicing ----
\* Constants for model-checking Invoicing.
EXTENDS Invoicing, TLC
CONSTANTS c1, c2
OneDesk == [c \in {c1} |-> Operations]
Symmetric == Permutations(Invoices)
====
