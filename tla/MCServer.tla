------------------------------ MODULE MCServer ------------------------------
(* Small instances of ServerLifecycle for TLC. *)
EXTENDS ServerLifecycle

CONSTANTS redis, sql, flush, report

TwoInits == <<redis, sql>>
OneStop  == <<flush>>
TwoStops == <<flush, report>>
=============================================================================
