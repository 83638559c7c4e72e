------------------------------ MODULE MCStorage -----------------------------
(* Small instances of Storage. *)
EXTENDS Storage

CONSTANTS c, d  \* two clients

Focus(b, k) == [backend |-> b, kind |-> k]

All  == {Focus(b, k) : b \in {"sled", "redb", "redis"}, k \in Kinds}
RedbKeys == {Focus("redb", "KV")}
=============================================================================
