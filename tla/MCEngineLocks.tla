--------------------------- MODULE MCEngineLocks ---------------------------
(* Instances of EngineLocks for TLC. *)
EXTENDS EngineLocks, TLC

CONSTANTS t1, t2, t3, a, b, word

(* Both tenants hash to the last of two shards. *)
MCShardOf == [t \in Tenants |-> NShards]

Kinds(kinds, tenant) == [kind : kinds, tenant : {tenant}, term : Terms]

(* Two threads that write one tenant, three that read it, one that makes   *)
(* the other tenant.                                                       *)
MCCalls ==
  t1 :> Kinds({"index", "delete"}, a)
    @@ t2 :> Kinds({"query", "stats"}, a)
    @@ t3 :> Kinds({"index", "query"}, a) \cup Kinds({"index"}, b)
=============================================================================
