----------------------------- MODULE MCRegistry -----------------------------
(* Two processes on one registry file.  One of them creates and             *)
(* records (up, deploy) while the other lists, tombstones, removes and       *)
(* creates again (destroy, sync, up).  Both may upsert one name at once.     *)
EXTENDS Registry, TLC

CONSTANTS writer, cleaner

MCDoes ==
  writer :> {"UpsertCluster", "UpsertNode", "UpsertDeployment",
             "AppendHistory", "RecordResource"} @@
  cleaner :> {"UpsertCluster", "DeleteCluster", "MarkSynced",
              "MarkClusterDestroyed", "RemoveNode", "DeleteDeployment",
              "ListResources", "MarkResourceDestroyed"}

MCSymmetry == Permutations(Names) \cup Permutations(Times)
=============================================================================
