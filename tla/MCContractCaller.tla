--------------------------- MODULE MCContractCaller ---------------------------
(* Instances of ContractCaller for TLC. *)
EXTENDS ContractCaller
=============================================================================
