--------------------------- MODULE MCReplication ---------------------------
(* Three other domain controllers, and the ways to wait for them. *)
EXTENDS Replication

CONSTANTS d0, d1, d2, d3

Config(w, f, ts) == [Wait |-> w, ForceSync |-> f, Targets |-> ts]

MCConfigs == { Config(FALSE, FALSE, {}), Config(TRUE, TRUE, {"all"}),
               Config(TRUE, FALSE, {d0, d1, d2}), Config(TRUE, FALSE, {d0}) }
=============================================================================
