----------------------------- MODULE MCElastic -----------------------------
(* Small instances of ElasticSearch for TLC: a version with one migration  *)
(* and a later one that adds another.                                      *)
EXTENDS ElasticSearch

CONSTANTS old, new, products, orders

OldAndNew == [p \in Procs |-> IF p = old THEN <<products>> ELSE <<products, orders>>]
Distinct  == [f \in Files |-> {f}]
\* 001-create-products-index.ts and 002-create-orders-index.ts
Sharing   == [f \in Files |-> Files]
=============================================================================
