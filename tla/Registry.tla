------------------------------ MODULE Registry ------------------------------
(***************************************************************************)
(* The SQLite registry (internal/registry/sqlite): five tables shared by   *)
(* every clusterbox process and goroutine.                                 *)
(*                                                                         *)
(* A table is a set of rows.  Each SQL statement autocommits, so a         *)
(* statement is one atomic step; a method that first resolves a cluster    *)
(* name to a row id (clusterID) and then writes is TWO steps, and other    *)
(* clients may run in between.  The pool of one connection serialises the  *)
(* statements of a process, never its methods.                             *)
(***************************************************************************)
EXTENDS Naturals, Sequences, SequencesExt

CONSTANTS
  Clients,     \* processes that hold a registry handle
  Does,        \* Does[c]: the methods client c calls
  Names,       \* cluster names
  Hosts,       \* node hostnames
  Services,    \* deployment services
  Exts,        \* cloud ids of resources
  Times,       \* timestamps
  NULL,        \* SQL NULL
  MaxId,       \* bound: largest rowid of clusters
  MaxResource, \* bound: largest id of cluster_resources
  MaxHistory,  \* bound: rows of deployment_history
  MaxCalls     \* bound: method calls of a behaviour

Methods ==
  {"UpsertCluster", "DeleteCluster", "MarkSynced", "MarkClusterDestroyed",
   "UpsertNode", "RemoveNode", "UpsertDeployment", "DeleteDeployment",
   "AppendHistory", "RecordResource", "ListResources",
   "MarkResourceDestroyed"}

ASSUME RegistryAssumption ==
  /\ MaxId \in Nat /\ MaxResource \in Nat /\ MaxHistory \in Nat
  /\ MaxCalls \in Nat
  /\ NULL \notin Times
  /\ Does \in [Clients -> SUBSET Methods]

VARIABLES
  clusters,     \* rows of clusters
  nodes,        \* rows of nodes, keyed by (cid, host)
  deployments,  \* rows of deployments, keyed by (cid, svc)
  resources,    \* rows of cluster_resources
  resourceSeq,  \* the AUTOINCREMENT high-water mark of cluster_resources
  history,      \* rows of deployment_history, oldest first
  calls,        \* methods called so far
  call,         \* the method a client is inside, after its clusterID query
  listed,       \* the resource rows a client got from ListResources
  raced         \* history: names two clients have set out to insert at once

tables == <<clusters, nodes, deployments, resources, resourceSeq, history>>
vars == <<clusters, nodes, deployments, resources, resourceSeq, history,
          calls, call, listed, raced>>

NoId == 0
Ids == 1 .. MaxId

\* The columns the properties tell apart.  synced is last_synced_at # NULL;
\* no caller of UpsertCluster sets LastSynced, so an upsert writes NULL.
ClusterRow == [id: Ids, name: Names, synced: BOOLEAN,
               destroyed: Times \cup {NULL}]
NodeRow == [cid: Ids, host: Hosts]
DeploymentRow == [cid: Ids, svc: Services]
ResourceRow == [id: 1 .. MaxResource, cid: Ids, ext: Exts,
                destroyed: Times \cup {NULL}]
HistoryRow == [cid: Ids \cup {NULL}, name: Names]

Idle == [method |-> "none"]
Pending == [method: Methods, name: Names, cid: Ids \cup {NoId}]

-----------------------------------------------------------------------------
(* Queries. *)

Active(n) == {r \in clusters : r.name = n /\ r.destroyed = NULL}

\* The id the clusterID query yields: the first active row of a table scan,
\* which SQLite runs in rowid order; NoId stands for ErrNotFound.
ClusterID(n) ==
  IF Active(n) = {} THEN {NoId}
  ELSE {k \in Ids : /\ \E r \in Active(n) : r.id = k
                    /\ \A r \in Active(n) : k <= r.id}

\* GetCluster filters on destroyed_at IS NULL.
GetCluster(n) == Active(n)

\* clusters.id is INTEGER PRIMARY KEY without AUTOINCREMENT: a new row gets
\* the largest rowid in the table plus one.
NextRowid == {k \in Ids : /\ \A r \in clusters : r.id < k
                          /\ k = 1 \/ \E r \in clusters : r.id = k - 1}

\* The foreign-key check SQLite makes on an insert.
References(cid) == \E r \in clusters : r.id = cid

-----------------------------------------------------------------------------
(* The two halves of a method. *)

\* A method that finds no active row returns at once, without a trace,
\* except for the two that have something to write all the same.
WritesWhenMissing == {"UpsertCluster", "AppendHistory"}

\* A client calls a method when it is inside none.
Call(c, m) ==
  /\ call[c] = Idle /\ m \in Does[c]
  /\ calls < MaxCalls
  /\ calls' = calls + 1

\* A method of one statement: it begins and returns in one step.
Once(c, m) == Call(c, m) /\ UNCHANGED <<call, raced>>

In(c, m) == call[c].method = m

\* Client c is between the look-up of n, which found no row, and the INSERT.
Inserting(c, n) ==
  In(c, "UpsertCluster") /\ call[c].name = n /\ call[c].cid = NoId

Begin(c, m) ==
  /\ Call(c, m)
  /\ \E n \in Names : \E k \in ClusterID(n) :
       /\ k # NoId \/ m \in WritesWhenMissing
       /\ call' = [call EXCEPT ![c] = [method |-> m, name |-> n, cid |-> k]]
       /\ raced' = raced \cup
            {x \in {n} : /\ m = "UpsertCluster" /\ k = NoId
                        /\ \E d \in Clients : Inserting(d, n)}
  /\ UNCHANGED <<tables, listed>>

Return(c) ==
  /\ call' = [call EXCEPT ![c] = Idle]
  /\ UNCHANGED <<calls, raced>>

\* The statement fails, or the process dies: nothing is written, and the
\* rows the process had listed are gone with it.
Abandon(c) ==
  /\ call[c] # Idle
  /\ Return(c)
  /\ listed' = [listed EXCEPT ![c] = {}]
  /\ UNCHANGED tables

-----------------------------------------------------------------------------
(* clusters *)

\* Mutant: an existing row is not updated but inserted once more.
UpsertClusterUpdateInserts(c) ==
  /\ In(c, "UpsertCluster") /\ call[c].cid # NoId
  /\ \E k \in NextRowid :
       clusters' = clusters \cup
         {[id |-> k, name |-> call[c].name, synced |-> FALSE,
           destroyed |-> NULL]}
  /\ Return(c)
  /\ UNCHANGED <<nodes, deployments, resources, resourceSeq, history, listed>>

UpsertClusterUpdate(c) ==
  /\ In(c, "UpsertCluster") /\ call[c].cid # NoId
  /\ clusters' = {IF r.id = call[c].cid THEN [r EXCEPT !.synced = FALSE] ELSE r
                  : r \in clusters}
  /\ Return(c)
  /\ UNCHANGED <<nodes, deployments, resources, resourceSeq, history, listed>>

UpsertClusterInsert(c) ==
  /\ In(c, "UpsertCluster") /\ call[c].cid = NoId
  /\ \E k \in NextRowid :
       clusters' = clusters \cup
         {[id |-> k, name |-> call[c].name, synced |-> FALSE,
           destroyed |-> NULL]}
  /\ Return(c)
  /\ UNCHANGED <<nodes, deployments, resources, resourceSeq, history, listed>>

UpsertCluster(c) == \/ Begin(c, "UpsertCluster")
                    \/ UpsertClusterUpdate(c)
                    \/ UpsertClusterInsert(c)

\* Mutant: deployment_history has a cascading foreign key as well.
DeleteClusterAndHistory(c) ==
  /\ Once(c, "DeleteCluster")
  /\ \E n \in Names :
       LET gone == {r.id : r \in Active(n)} IN
       /\ clusters' = clusters \ Active(n)
       /\ nodes' = {r \in nodes : r.cid \notin gone}
       /\ deployments' = {r \in deployments : r.cid \notin gone}
       /\ resources' = {r \in resources : r.cid \notin gone}
       /\ history' = SelectSeq(history, LAMBDA e : e.cid \notin gone)
  /\ UNCHANGED <<resourceSeq, listed>>

\* Mutant: the connection runs without PRAGMA foreign_keys = ON.
DeleteClusterNoCascade(c) ==
  /\ Once(c, "DeleteCluster")
  /\ \E n \in Names : clusters' = clusters \ Active(n)
  /\ UNCHANGED <<nodes, deployments, resources, resourceSeq, history, listed>>

\* DELETE of the active row(s) of a name; the foreign keys cascade to nodes,
\* deployments and cluster_resources.  deployment_history has none.
DeleteCluster(c) ==
  /\ Once(c, "DeleteCluster")
  /\ \E n \in Names :
       LET gone == {r.id : r \in Active(n)} IN
       /\ clusters' = clusters \ Active(n)
       /\ nodes' = {r \in nodes : r.cid \notin gone}
       /\ deployments' = {r \in deployments : r.cid \notin gone}
       /\ resources' = {r \in resources : r.cid \notin gone}
  /\ UNCHANGED <<resourceSeq, history, listed>>

MarkSynced(c) ==
  /\ Once(c, "MarkSynced")
  /\ \E n \in Names :
       clusters' = {IF r \in Active(n) THEN [r EXCEPT !.synced = TRUE] ELSE r
                    : r \in clusters}
  /\ UNCHANGED <<nodes, deployments, resources, resourceSeq, history, listed>>

\* Mutant: the statement lacks AND destroyed_at IS NULL.
MarkClusterDestroyedAgain(c) ==
  /\ Once(c, "MarkClusterDestroyed")
  /\ \E n \in Names, t \in Times :
       clusters' = {IF r.name = n THEN [r EXCEPT !.destroyed = t] ELSE r
                    : r \in clusters}
  /\ UNCHANGED <<nodes, deployments, resources, resourceSeq, history, listed>>

MarkClusterDestroyed(c) ==
  /\ Once(c, "MarkClusterDestroyed")
  /\ \E n \in Names, t \in Times :
       clusters' = {IF r \in Active(n) THEN [r EXCEPT !.destroyed = t] ELSE r
                    : r \in clusters}
  /\ UNCHANGED <<nodes, deployments, resources, resourceSeq, history, listed>>

-----------------------------------------------------------------------------
(* nodes *)

\* INSERT ... ON CONFLICT(cluster_id, hostname) DO UPDATE.
UpsertNodeWrite(c) ==
  /\ In(c, "UpsertNode") /\ References(call[c].cid)
  /\ \E h \in Hosts : nodes' = nodes \cup {[cid |-> call[c].cid, host |-> h]}
  /\ Return(c)
  /\ UNCHANGED <<clusters, deployments, resources, resourceSeq, history, listed>>

UpsertNode(c) == Begin(c, "UpsertNode") \/ UpsertNodeWrite(c)

RemoveNodeWrite(c) ==
  /\ In(c, "RemoveNode")
  /\ \E h \in Hosts : nodes' = nodes \ {[cid |-> call[c].cid, host |-> h]}
  /\ Return(c)
  /\ UNCHANGED <<clusters, deployments, resources, resourceSeq, history, listed>>

RemoveNode(c) == Begin(c, "RemoveNode") \/ RemoveNodeWrite(c)

-----------------------------------------------------------------------------
(* deployments and deployment_history *)

\* INSERT ... ON CONFLICT(cluster_id, service) DO UPDATE.
UpsertDeploymentWrite(c) ==
  /\ In(c, "UpsertDeployment") /\ References(call[c].cid)
  /\ \E s \in Services :
       deployments' = deployments \cup {[cid |-> call[c].cid, svc |-> s]}
  /\ Return(c)
  /\ UNCHANGED <<clusters, nodes, resources, resourceSeq, history, listed>>

UpsertDeployment(c) ==
  Begin(c, "UpsertDeployment") \/ UpsertDeploymentWrite(c)

DeleteDeploymentWrite(c) ==
  /\ In(c, "DeleteDeployment")
  /\ \E s \in Services :
       deployments' = deployments \ {[cid |-> call[c].cid, svc |-> s]}
  /\ Return(c)
  /\ UNCHANGED <<clusters, nodes, resources, resourceSeq, history, listed>>

DeleteDeployment(c) ==
  Begin(c, "DeleteDeployment") \/ DeleteDeploymentWrite(c)

\* Mutant: the zero id of a failed lookup is stored instead of NULL.
AppendHistoryZeroId(c) ==
  /\ In(c, "AppendHistory") /\ Len(history) < MaxHistory
  /\ history' = Append(history, [cid |-> call[c].cid, name |-> call[c].name])
  /\ Return(c)
  /\ UNCHANGED <<clusters, nodes, deployments, resources, resourceSeq, listed>>

\* The cluster id is NULL when the name has no active row; the column has no
\* foreign key, so a stale id is accepted.
AppendHistoryWrite(c) ==
  /\ In(c, "AppendHistory") /\ Len(history) < MaxHistory
  /\ history' = Append(history,
       [cid |-> IF call[c].cid = NoId THEN NULL ELSE call[c].cid,
        name |-> call[c].name])
  /\ Return(c)
  /\ UNCHANGED <<clusters, nodes, deployments, resources, resourceSeq, listed>>

AppendHistory(c) == Begin(c, "AppendHistory") \/ AppendHistoryWrite(c)

-----------------------------------------------------------------------------
(* cluster_resources *)

\* Mutant: the id column lacks AUTOINCREMENT.
RecordResourceReusesId(c) ==
  /\ In(c, "RecordResource") /\ References(call[c].cid)
  /\ UNCHANGED resourceSeq
  /\ \E k \in 1 .. MaxResource, x \in Exts :
       /\ \A r \in resources : r.id < k
       /\ k = 1 \/ \E r \in resources : r.id = k - 1
       /\ resources' = resources \cup
            {[id |-> k, cid |-> call[c].cid, ext |-> x, destroyed |-> NULL]}
  /\ Return(c)
  /\ UNCHANGED <<clusters, nodes, deployments, history, listed>>

\* A plain INSERT: nothing makes external_id unique.  AUTOINCREMENT never
\* hands out an id twice, not even after the row was deleted.
RecordResourceWrite(c) ==
  /\ In(c, "RecordResource") /\ References(call[c].cid)
  /\ resourceSeq < MaxResource
  /\ resourceSeq' = resourceSeq + 1
  /\ \E x \in Exts :
       resources' = resources \cup
         {[id |-> resourceSeq', cid |-> call[c].cid, ext |-> x,
           destroyed |-> NULL]}
  /\ Return(c)
  /\ UNCHANGED <<clusters, nodes, deployments, history, listed>>

RecordResource(c) == Begin(c, "RecordResource") \/ RecordResourceWrite(c)

ListResourcesQuery(c) ==
  /\ In(c, "ListResources")
  /\ listed' = [listed EXCEPT ![c] =
       {r \in resources : r.cid = call[c].cid /\ r.destroyed = NULL}]
  /\ Return(c)
  /\ UNCHANGED tables

ListResources(c) == Begin(c, "ListResources") \/ ListResourcesQuery(c)

\* One statement, keyed by a row id the caller listed earlier.
MarkResourceDestroyed(c) ==
  /\ Once(c, "MarkResourceDestroyed")
  /\ \E old \in listed[c], t \in Times :
       resources' = {IF r.id = old.id /\ r.destroyed = NULL
                     THEN [r EXCEPT !.destroyed = t] ELSE r
                     : r \in resources}
  /\ UNCHANGED <<clusters, nodes, deployments, resourceSeq, history, listed>>

-----------------------------------------------------------------------------
Init ==
  /\ clusters = {} /\ nodes = {} /\ deployments = {} /\ resources = {}
  /\ resourceSeq = 0 /\ calls = 0
  /\ history = <<>> /\ raced = {}
  /\ call = [c \in Clients |-> Idle]
  /\ listed = [c \in Clients |-> {}]

Next == \E c \in Clients :
  \/ UpsertCluster(c) \/ DeleteCluster(c)
  \/ MarkSynced(c) \/ MarkClusterDestroyed(c)
  \/ UpsertNode(c) \/ RemoveNode(c)
  \/ UpsertDeployment(c) \/ DeleteDeployment(c)
  \/ AppendHistory(c)
  \/ RecordResource(c) \/ ListResources(c) \/ MarkResourceDestroyed(c)
  \/ Abandon(c)

Spec == Init /\ [][Next]_vars

-----------------------------------------------------------------------------
(* Properties. *)

\* Every table holds rows of its columns' types, and every client is either
\* outside a method or past the clusterID query of one.
TypeOK ==
  /\ clusters \subseteq ClusterRow
  /\ nodes \subseteq NodeRow
  /\ deployments \subseteq DeploymentRow
  /\ resources \subseteq ResourceRow
  /\ resourceSeq \in 0 .. MaxResource
  /\ history \in Seq(HistoryRow)
  /\ calls \in 0 .. MaxCalls
  /\ call \in [Clients -> {Idle} \cup Pending]
  /\ listed \in [Clients -> SUBSET ResourceRow]
  /\ raced \subseteq Names

\* No child row outlives its cluster row, whatever a client that resolved the
\* cluster before a concurrent DeleteCluster still writes, and no id is ever
\* held by two rows of a table.
Integrity ==
  /\ \A r \in nodes \cup deployments \cup resources : References(r.cid)
  /\ \A r, q \in clusters : r.id = q.id => r = q
  /\ \A r, q \in resources : r.id = q.id => r = q

\* A resource id a client listed never comes to denote another resource, so
\* the MarkResourceDestroyed of a slow destroy cannot tombstone a row of a
\* cluster created since.
ListedRowsStable ==
  \A c \in Clients : \A r \in listed[c] : \A q \in resources :
    q.id = r.id => q.cid = r.cid /\ q.ext = r.ext

\* A name comes to have two active rows in one way only: two clients looked it
\* up, both found none, and neither had inserted yet.  Nothing else does it: no
\* update of a row that is gone, no tombstone, delete or re-creation in between.
DuplicatesWereRaced ==
  \A r, q \in clusters :
    r.name = q.name /\ r.destroyed = NULL /\ q.destroyed = NULL
      => r = q \/ r.name \in raced

\* What the Registry interface says of UpsertCluster (registry.go:22-26): all
\* methods are safe to call concurrently, and Name is the key.  Not so: see
\* DuplicatesWereRaced.
OneActivePerName ==
  \A r, q \in clusters :
    r.name = q.name /\ r.destroyed = NULL /\ q.destroyed = NULL => r = q

\* A history row that carries a cluster id names the cluster that holds the
\* id: "Each cluster lifetime gets a unique ID" (types.go:56-58).  Not so: the
\* id of a deleted row goes to the next cluster.
HistoryNamesItsLifetime ==
  \A i \in DOMAIN history : \A r \in clusters :
    history[i].cid = r.id => history[i].name = r.name

\* What the Registry interface says of DeleteCluster (registry.go:37-39): it
\* removes any rows that reference the cluster, "(nodes, deployments,
\* history)".  Not so: history stays, as sqlite.go:247-250 says.
DeleteTakesHistory ==
  \A i \in DOMAIN history :
    history[i].cid # NULL => References(history[i].cid)

\* A tombstone is final: the row of a destroyed cluster is never removed,
\* renamed, revived or stamped again, and neither are the resource rows it
\* owns removed nor their tombstones moved.
TombstonesPermanent ==
  [][/\ \A r \in clusters : r.destroyed # NULL =>
          \E q \in clusters' :
            q.id = r.id /\ q.name = r.name /\ q.destroyed = r.destroyed
     /\ \A r \in resources :
          (\E k \in clusters : k.id = r.cid /\ k.destroyed # NULL) =>
          \E q \in resources' :
            /\ q.id = r.id /\ q.cid = r.cid /\ q.ext = r.ext
            /\ r.destroyed # NULL => q.destroyed = r.destroyed]_vars

\* The audit trail is append-only: no method removes or rewrites a history row.
\* Of the two contradicting statements about DeleteCluster this is the one the
\* code keeps ("retained for audit", sqlite.go:247-250; "append-only",
\* docs/registry.md:66); the other one is DeleteTakesHistory.
HistoryAppendOnly == [][IsPrefix(history, history')]_vars
=============================================================================
