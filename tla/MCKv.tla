-------------------------------- MODULE MCKv --------------------------------
(* Instances of the key-value store for TLC. *)
EXTENDS KvProps

AllKeys == {Keys}
NoKeySets == {}
Everywhere == PCs
InCollection == {"gc_copy"}
AllOps == {"set", "get", "del", "del_matching", "factory"}
SetDel == {"set", "del"}
OnlySet == {"set"}
=============================================================================
