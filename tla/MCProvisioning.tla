---------------------------- MODULE MCProvisioning ----------------------------
(* Two versions of DuckDB.  Only the functions that the second adds are    *)
(* named: one bound by dlopen and one that goes through the shim.          *)
EXTENDS Provisioning

MCContractOf == <<{}, {"f", "v"}>>
MCModuleOf == [n \in {"f", "v"} |-> IF n = "f" THEN "a" ELSE "b"]
=============================================================================
