---------------------------- MODULE MCApiServices ----------------------------
(* Small instances of ApiServices for TLC. *)
EXTENDS ApiServices, TLC

CONSTANTS chat, other, k1, k2, c1

Rates     == chat :> 1 @@ other :> 2
OnePath   == [k \in Key |-> "model.gguf"]
Ingests   == c1 :> "qdrant_ingest"
OneClient == {"client"}
ModelPath == {"model.gguf"}
=============================================================================
