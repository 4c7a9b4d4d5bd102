-------------------------- MODULE Registry_proofs --------------------------
(***************************************************************************)
(* Proofs about Registry: for any number of clients, names, rows and calls *)
(* the tables keep their types and their references, the id a client       *)
(* listed denotes one resource for ever, tombstones and history are final, *)
(* and a name gets two active rows only from clients that race to insert.  *)
(***************************************************************************)
EXTENDS Registry, TLAPS

\* What a client knows once it is past the clusterID query of method m.
LEMMA InPending ==
  ASSUME TypeOK, NEW c \in Clients, NEW m \in Methods, In(c, m)
  PROVE  /\ call[c] \in Pending
         /\ call[c].name \in Names
         /\ call[c].cid \in Ids \cup {NoId}
BY DEF TypeOK, In, Idle, Pending, Methods

\* The id of the query is that of an active row, or NoId when there is none.
LEMMA ClusterIDType ==
  ASSUME NEW n \in Names, NEW k \in ClusterID(n)
  PROVE  /\ k \in Ids \cup {NoId}
         /\ k = NoId => Active(n) = {}
BY DEF ClusterID, Ids, NoId

\* The first half of a method only changes what one client knows.
LEMMA BeginType ==
  ASSUME TypeOK, RegistryAssumption, NEW c \in Clients, NEW m, Begin(c, m)
  PROVE  TypeOK'
<1>0. PICK n \in Names : \E k \in ClusterID(n) :
        call' = [call EXCEPT ![c] = [method |-> m, name |-> n, cid |-> k]]
  BY DEF Begin
<1>1. PICK k \in ClusterID(n) :
        call' = [call EXCEPT ![c] = [method |-> m, name |-> n, cid |-> k]]
  BY <1>0
<1>2. m \in Methods
  BY DEF Begin, Call, RegistryAssumption
<1>3. [method |-> m, name |-> n, cid |-> k] \in Pending
  BY <1>2, ClusterIDType DEF Pending
<1>4. call' \in [Clients -> {Idle} \cup Pending]
  BY <1>1, <1>3 DEF TypeOK
<1>5. calls' \in 0 .. MaxCalls
  BY DEF Begin, Call, TypeOK, RegistryAssumption
<1>6. raced' \subseteq Names
  BY DEF Begin, TypeOK
<1> QED
  BY <1>4, <1>5, <1>6 DEF Begin, tables, TypeOK

\* A return leaves the client outside of every method.
LEMMA ReturnType ==
  ASSUME TypeOK, NEW c \in Clients, Return(c)
  PROVE  /\ call' \in [Clients -> {Idle} \cup Pending]
         /\ calls' \in 0 .. MaxCalls
         /\ raced' \subseteq Names
BY DEF TypeOK, Return

\* A one-statement method counts as a call and leaves the clients' state alone.
LEMMA CallType ==
  ASSUME TypeOK, RegistryAssumption, NEW c, NEW m, Once(c, m)
  PROVE  calls' \in 0 .. MaxCalls /\ UNCHANGED <<call, raced>>
BY DEF TypeOK, Once, Call, RegistryAssumption

-----------------------------------------------------------------------------
(* The strengthening: beside the integrity of the tables, every id ever     *)
(* handed out, still in the table or only remembered by a client, is at or  *)
(* below the AUTOINCREMENT mark, which is why a fresh id hits none of them. *)

IdsBelowSeq ==
  /\ \A r \in resources : r.id <= resourceSeq
  /\ \A c \in Clients : \A r \in listed[c] : r.id <= resourceSeq

IInv == TypeOK /\ Integrity /\ IdsBelowSeq /\ ListedRowsStable

\* A freshly migrated database satisfies the inductive invariant.
LEMMA InitIInv == RegistryAssumption /\ Init => IInv
BY DEF RegistryAssumption, Init, IInv, TypeOK, Integrity, IdsBelowSeq,
       ListedRowsStable, Idle

-----------------------------------------------------------------------------
(* Type correctness. *)

\* Every step of the specification keeps the types.
LEMMA NextType ==
  ASSUME RegistryAssumption, TypeOK, [Next]_vars
  PROVE  TypeOK'
<1> USE RegistryAssumption
<1>1. CASE UNCHANGED vars
  BY <1>1 DEF TypeOK, vars
<1>2. ASSUME NEW c \in Clients, NEW m, Begin(c, m) PROVE TypeOK'
  BY <1>2, BeginType
<1>3. ASSUME NEW c \in Clients, UpsertClusterUpdate(c) PROVE TypeOK'
  <2>1. clusters' \subseteq ClusterRow
    BY <1>3 DEF UpsertClusterUpdate, TypeOK, ClusterRow
  <2> QED
    BY <1>3, <2>1, ReturnType DEF UpsertClusterUpdate, TypeOK
<1>4. ASSUME NEW c \in Clients, UpsertClusterInsert(c) PROVE TypeOK'
  <2>1. call[c].name \in Names
    BY <1>4, InPending DEF UpsertClusterInsert, Methods
  <2>2. PICK k \in NextRowid :
          clusters' = clusters \cup
            {[id |-> k, name |-> call[c].name, synced |-> FALSE,
              destroyed |-> NULL]}
    BY <1>4 DEF UpsertClusterInsert
  <2>3. k \in Ids
    BY DEF NextRowid
  <2>4. [id |-> k, name |-> call[c].name, synced |-> FALSE,
         destroyed |-> NULL] \in ClusterRow
    BY <2>1, <2>3 DEF ClusterRow
  <2>5. clusters' \subseteq ClusterRow
    BY <2>2, <2>4 DEF TypeOK
  <2> QED
    BY <1>4, <2>5, ReturnType DEF UpsertClusterInsert, TypeOK
<1>5. ASSUME NEW c \in Clients, DeleteCluster(c) PROVE TypeOK'
  BY <1>5, CallType DEF DeleteCluster, TypeOK
<1>6. ASSUME NEW c \in Clients, MarkSynced(c) PROVE TypeOK'
  <2>1. clusters' \subseteq ClusterRow
    BY <1>6 DEF MarkSynced, TypeOK, ClusterRow, Active
  <2> QED
    BY <1>6, <2>1, CallType DEF MarkSynced, TypeOK
<1>7. ASSUME NEW c \in Clients, MarkClusterDestroyed(c) PROVE TypeOK'
  <2>1. clusters' \subseteq ClusterRow
    BY <1>7 DEF MarkClusterDestroyed, TypeOK, ClusterRow, Active
  <2> QED
    BY <1>7, <2>1, CallType DEF MarkClusterDestroyed, TypeOK
<1>8. ASSUME NEW c \in Clients, UpsertNodeWrite(c) PROVE TypeOK'
  <2>1. call[c].cid \in Ids
    BY <1>8 DEF UpsertNodeWrite, References, TypeOK, ClusterRow
  <2>2. nodes' \subseteq NodeRow
    BY <1>8, <2>1 DEF UpsertNodeWrite, TypeOK, NodeRow
  <2> QED
    BY <1>8, <2>2, ReturnType DEF UpsertNodeWrite, TypeOK
<1>9. ASSUME NEW c \in Clients, RemoveNodeWrite(c) PROVE TypeOK'
  BY <1>9, ReturnType DEF RemoveNodeWrite, TypeOK
<1>10. ASSUME NEW c \in Clients, UpsertDeploymentWrite(c) PROVE TypeOK'
  <2>1. call[c].cid \in Ids
    BY <1>10 DEF UpsertDeploymentWrite, References, TypeOK, ClusterRow
  <2>2. deployments' \subseteq DeploymentRow
    BY <1>10, <2>1 DEF UpsertDeploymentWrite, TypeOK, DeploymentRow
  <2> QED
    BY <1>10, <2>2, ReturnType DEF UpsertDeploymentWrite, TypeOK
<1>11. ASSUME NEW c \in Clients, DeleteDeploymentWrite(c) PROVE TypeOK'
  BY <1>11, ReturnType DEF DeleteDeploymentWrite, TypeOK
<1>12. ASSUME NEW c \in Clients, AppendHistoryWrite(c) PROVE TypeOK'
  <2>1. call[c].name \in Names /\ call[c].cid \in Ids \cup {NoId}
    BY <1>12, InPending DEF AppendHistoryWrite, Methods
  <2>2. [cid |-> IF call[c].cid = NoId THEN NULL ELSE call[c].cid,
         name |-> call[c].name] \in HistoryRow
    BY <2>1 DEF HistoryRow
  <2>3. history' \in Seq(HistoryRow)
    BY <1>12, <2>2 DEF AppendHistoryWrite, TypeOK
  <2> QED
    BY <1>12, <2>3, ReturnType DEF AppendHistoryWrite, TypeOK
<1>13. ASSUME NEW c \in Clients, RecordResourceWrite(c) PROVE TypeOK'
  <2>1. call[c].cid \in Ids
    BY <1>13 DEF RecordResourceWrite, References, TypeOK, ClusterRow
  <2>2. resourceSeq' \in 1 .. MaxResource
    BY <1>13 DEF RecordResourceWrite, TypeOK, RegistryAssumption
  <2>3. resources' \subseteq ResourceRow
    BY <1>13, <2>1, <2>2 DEF RecordResourceWrite, TypeOK, ResourceRow
  <2>4. resourceSeq' \in 0 .. MaxResource
    BY <2>2
  <2> QED
    BY <1>13, <2>3, <2>4, ReturnType DEF RecordResourceWrite, TypeOK
<1>14. ASSUME NEW c \in Clients, ListResourcesQuery(c) PROVE TypeOK'
  <2>1. listed' \in [Clients -> SUBSET ResourceRow]
    BY <1>14 DEF ListResourcesQuery, TypeOK
  <2> QED
    BY <1>14, <2>1, ReturnType DEF ListResourcesQuery, TypeOK, tables
<1>15. ASSUME NEW c \in Clients, MarkResourceDestroyed(c) PROVE TypeOK'
  <2>1. resources' \subseteq ResourceRow
    BY <1>15 DEF MarkResourceDestroyed, TypeOK, ResourceRow
  <2> QED
    BY <1>15, <2>1, CallType DEF MarkResourceDestroyed, TypeOK
<1>16. ASSUME NEW c \in Clients, Abandon(c) PROVE TypeOK'
  <2>1. listed' \in [Clients -> SUBSET ResourceRow]
    BY <1>16 DEF Abandon, TypeOK
  <2> QED
    BY <1>16, <2>1, ReturnType DEF Abandon, TypeOK, tables
<1> QED
  BY <1>1, <1>2, <1>3, <1>4, <1>5, <1>6, <1>7, <1>8, <1>9, <1>10, <1>11,
     <1>12, <1>13, <1>14, <1>15, <1>16
  DEF Next, UpsertCluster, UpsertNode, RemoveNode, UpsertDeployment,
      DeleteDeployment, AppendHistory, RecordResource, ListResources

\* The registry's rows and the clients' calls keep their types, for any
\* number of clients and calls.
THEOREM TypeCorrect == Spec => []TypeOK
<1>1. Init => TypeOK
  BY RegistryAssumption, InitIInv DEF IInv
<1>2. TypeOK /\ [Next]_vars => TypeOK'
  BY RegistryAssumption, NextType
<1> QED
  BY <1>1, <1>2, PTL DEF Spec

-----------------------------------------------------------------------------
(* What an UPDATE leaves of a row. *)

\* r of a table is still there after the step: same key, same tombstone.
ClusterKept(r) ==
  \E q \in clusters' : /\ q.id = r.id /\ q.name = r.name
                       /\ r.destroyed # NULL => q.destroyed = r.destroyed

ResourceKept(r) ==
  \E q \in resources' : /\ q.id = r.id /\ q.cid = r.cid /\ q.ext = r.ext
                        /\ r.destroyed # NULL => q.destroyed = r.destroyed

\* An UPDATE of clusters keeps every row: its id, its name and its tombstone.
LEMMA UpdateKeepsCluster ==
  ASSUME TypeOK, NEW c \in Clients,
         UpsertClusterUpdate(c) \/ MarkSynced(c) \/ MarkClusterDestroyed(c),
         NEW r \in clusters
  PROVE  ClusterKept(r)
<1>0. r \in ClusterRow
  BY DEF TypeOK
<1>1. CASE UpsertClusterUpdate(c)
  <2> DEFINE q == IF r.id = call[c].cid THEN [r EXCEPT !.synced = FALSE] ELSE r
  <2>1. q \in clusters'
    BY <1>1 DEF UpsertClusterUpdate
  <2>2. q.id = r.id /\ q.name = r.name /\ q.destroyed = r.destroyed
    BY <1>0 DEF ClusterRow
  <2> QED
    BY <2>1, <2>2 DEF ClusterKept
<1>2. CASE MarkSynced(c)
  <2>0. PICK n \in Names :
          clusters' = {IF k \in Active(n) THEN [k EXCEPT !.synced = TRUE] ELSE k
                       : k \in clusters}
    BY <1>2 DEF MarkSynced
  <2> DEFINE q == IF r \in Active(n) THEN [r EXCEPT !.synced = TRUE] ELSE r
  <2>1. q \in clusters'
    BY <2>0
  <2>2. q.id = r.id /\ q.name = r.name /\ q.destroyed = r.destroyed
    BY <1>0 DEF ClusterRow
  <2> QED
    BY <2>1, <2>2 DEF ClusterKept
<1>3. CASE MarkClusterDestroyed(c)
  <2>0. PICK n \in Names, t \in Times :
          clusters' = {IF k \in Active(n) THEN [k EXCEPT !.destroyed = t] ELSE k
                       : k \in clusters}
    BY <1>3 DEF MarkClusterDestroyed
  <2> DEFINE q == IF r \in Active(n) THEN [r EXCEPT !.destroyed = t] ELSE r
  <2>1. q \in clusters'
    BY <2>0
  <2>2. q.id = r.id /\ q.name = r.name
    BY <1>0 DEF ClusterRow
  <2>3. r.destroyed # NULL => q.destroyed = r.destroyed
    BY DEF Active
  <2> QED
    BY <2>1, <2>2, <2>3 DEF ClusterKept
<1> QED
  BY <1>1, <1>2, <1>3

\* MarkResourceDestroyed keeps every resource row and every tombstone.
LEMMA StampKeepsResource ==
  ASSUME TypeOK, NEW c \in Clients, MarkResourceDestroyed(c), NEW r \in resources
  PROVE  ResourceKept(r)
<1>0. r \in ResourceRow
  BY DEF TypeOK
<1>1. PICK old \in listed[c], t \in Times :
        resources' = {IF k.id = old.id /\ k.destroyed = NULL
                      THEN [k EXCEPT !.destroyed = t] ELSE k
                      : k \in resources}
  BY DEF MarkResourceDestroyed
<1> DEFINE q == IF r.id = old.id /\ r.destroyed = NULL
                THEN [r EXCEPT !.destroyed = t] ELSE r
<1>2. q \in resources'
  BY <1>1
<1>3. q.id = r.id /\ q.cid = r.cid /\ q.ext = r.ext
  BY <1>0 DEF ResourceRow
<1>4. r.destroyed # NULL => q.destroyed = r.destroyed
  OBVIOUS
<1> QED
  BY <1>2, <1>3, <1>4 DEF ResourceKept

-----------------------------------------------------------------------------
(* The integrity of the tables and the stability of listed ids. *)

\* A step that leaves the resources, the mark and the lists alone, or only
\* shrinks the resources, keeps what clients know about them.
LEMMA KeepResourceIds ==
  ASSUME TypeOK, IdsBelowSeq, ListedRowsStable,
         resources' \subseteq resources, UNCHANGED <<resourceSeq, listed>>
  PROVE  IdsBelowSeq' /\ ListedRowsStable'
BY DEF IdsBelowSeq, ListedRowsStable

\* An UPDATE that rewrites rows and leaves their ids alone keeps ids unique.
LEMMA RewriteKeepsIds ==
  ASSUME NEW f, \A r \in clusters : f[r].id = r.id,
         clusters' = {f[r] : r \in clusters},
         \A r, q \in clusters : r.id = q.id => r = q
  PROVE  \A r, q \in clusters' : r.id = q.id => r = q
OBVIOUS

\* Every step of the specification keeps the inductive invariant.
LEMMA NextIInv ==
  ASSUME RegistryAssumption, IInv, [Next]_vars
  PROVE  IInv'
<1> USE RegistryAssumption
<1>0. TypeOK /\ TypeOK'
  BY NextType DEF IInv
<1>a. Integrity /\ IdsBelowSeq /\ ListedRowsStable
  BY DEF IInv
<1> SUFFICES Integrity' /\ IdsBelowSeq' /\ ListedRowsStable'
  BY <1>0 DEF IInv
<1> DEFINE Goal == Integrity' /\ IdsBelowSeq' /\ ListedRowsStable'
<1>1. CASE UNCHANGED vars
  BY <1>1, <1>a DEF vars, Integrity, References, IdsBelowSeq, ListedRowsStable
<1>2. ASSUME NEW c \in Clients, NEW m, Begin(c, m) PROVE Goal
  BY <1>2, <1>a DEF Begin, tables, Integrity, References, IdsBelowSeq,
     ListedRowsStable
<1>3. ASSUME NEW c \in Clients, UpsertClusterUpdate(c) PROVE Goal
  <2>1. Integrity'
    <3>0. \A r \in clusters : \E q \in clusters' : q.id = r.id
      BY <1>3, <1>0, UpdateKeepsCluster DEF ClusterKept
    <3>1. \A k : References(k) => References(k)'
      BY <3>0 DEF References
    <3>2. \A r, q \in clusters' : r.id = q.id => r = q
      <4> DEFINE f == [r \in clusters |-> IF r.id = call[c].cid
                  THEN [r EXCEPT !.synced = FALSE] ELSE r]
      <4>1. \A r \in clusters : f[r].id = r.id
        BY <1>0 DEF TypeOK, ClusterRow
      <4>2. clusters' = {f[r] : r \in clusters}
        BY <1>3 DEF UpsertClusterUpdate
      <4>3. \A r, q \in clusters : r.id = q.id => r = q
        BY <1>a DEF Integrity
      <4> HIDE DEF f
      <4> QED
        BY <4>1, <4>2, <4>3, RewriteKeepsIds
    <3> QED
      BY <1>3, <1>a, <3>1, <3>2 DEF UpsertClusterUpdate, Integrity
  <2> QED
    BY <1>3, <1>0, <1>a, <2>1, KeepResourceIds DEF UpsertClusterUpdate
<1>4. ASSUME NEW c \in Clients, UpsertClusterInsert(c) PROVE Goal
  <2>1. Integrity'
    <3>1. \A k : References(k) => References(k)'
      BY <1>4 DEF UpsertClusterInsert, References
    <3>2. PICK k \in NextRowid :
            clusters' = clusters \cup
              {[id |-> k, name |-> call[c].name, synced |-> FALSE,
                destroyed |-> NULL]}
      BY <1>4 DEF UpsertClusterInsert
    <3>3. k \in Nat /\ \A r \in clusters : r.id # k /\ r.id \in Nat
      BY <1>0 DEF NextRowid, TypeOK, ClusterRow, Ids
    <3>4. \A r, q \in clusters' : r.id = q.id => r = q
      <4> DEFINE new == [id |-> k, name |-> call[c].name, synced |-> FALSE,
                         destroyed |-> NULL]
      <4>1. new.id = k /\ clusters' = clusters \cup {new}
        BY <3>2
      <4>2. \A r, q \in clusters : r.id = q.id => r = q
        BY <1>a DEF Integrity
      <4> HIDE DEF new
      <4> QED
        BY <4>1, <4>2, <3>3
    <3> QED
      BY <1>4, <1>a, <3>1, <3>4 DEF UpsertClusterInsert, Integrity
  <2> QED
    BY <1>4, <1>0, <1>a, <2>1, KeepResourceIds DEF UpsertClusterInsert
<1>5. ASSUME NEW c \in Clients, DeleteCluster(c) PROVE Goal
  <2>1. PICK n \in Names :
          LET gone == {r.id : r \in Active(n)} IN
          /\ clusters' = clusters \ Active(n)
          /\ nodes' = {r \in nodes : r.cid \notin gone}
          /\ deployments' = {r \in deployments : r.cid \notin gone}
          /\ resources' = {r \in resources : r.cid \notin gone}
    BY <1>5 DEF DeleteCluster
  <2>2. Integrity'
    <3>1. \A r \in nodes' \cup deployments' \cup resources' :
            References(r.cid) /\ r.cid \notin {q.id : q \in Active(n)}
      BY <2>1, <1>a DEF Integrity
    <3>2. \A k : References(k) /\ k \notin {q.id : q \in Active(n)}
                 => References(k)'
      BY <2>1 DEF References
    <3> QED
      BY <2>1, <1>a, <3>1, <3>2 DEF Integrity
  <2> QED
    BY <1>5, <1>0, <1>a, <2>1, <2>2, KeepResourceIds DEF DeleteCluster
<1>6. ASSUME NEW c \in Clients, MarkSynced(c) PROVE Goal
  <2>1. Integrity'
    <3>0. \A r \in clusters : \E q \in clusters' : q.id = r.id
      BY <1>6, <1>0, UpdateKeepsCluster DEF ClusterKept
    <3>1. \A k : References(k) => References(k)'
      BY <3>0 DEF References
    <3>2. \A r, q \in clusters' : r.id = q.id => r = q
      <4>0. PICK n \in Names :
              clusters' = {IF r \in Active(n)
                           THEN [r EXCEPT !.synced = TRUE] ELSE r
                           : r \in clusters}
        BY <1>6 DEF MarkSynced
      <4> DEFINE f == [r \in clusters |-> IF r \in Active(n)
                  THEN [r EXCEPT !.synced = TRUE] ELSE r]
      <4>1. \A r \in clusters : f[r].id = r.id
        BY <1>0 DEF TypeOK, ClusterRow
      <4>2. clusters' = {f[r] : r \in clusters}
        BY <4>0
      <4>3. \A r, q \in clusters : r.id = q.id => r = q
        BY <1>a DEF Integrity
      <4> HIDE DEF f
      <4> QED
        BY <4>1, <4>2, <4>3, RewriteKeepsIds
    <3> QED
      BY <1>6, <1>a, <3>1, <3>2 DEF MarkSynced, Integrity
  <2> QED
    BY <1>6, <1>0, <1>a, <2>1, KeepResourceIds DEF MarkSynced
<1>7. ASSUME NEW c \in Clients, MarkClusterDestroyed(c) PROVE Goal
  <2>1. Integrity'
    <3>0. \A r \in clusters : \E q \in clusters' : q.id = r.id
      BY <1>7, <1>0, UpdateKeepsCluster DEF ClusterKept
    <3>1. \A k : References(k) => References(k)'
      BY <3>0 DEF References
    <3>2. \A r, q \in clusters' : r.id = q.id => r = q
      <4>0. PICK n \in Names, t \in Times :
              clusters' = {IF r \in Active(n)
                           THEN [r EXCEPT !.destroyed = t] ELSE r
                           : r \in clusters}
        BY <1>7 DEF MarkClusterDestroyed
      <4> DEFINE f == [r \in clusters |-> IF r \in Active(n)
                  THEN [r EXCEPT !.destroyed = t] ELSE r]
      <4>1. \A r \in clusters : f[r].id = r.id
        BY <1>0 DEF TypeOK, ClusterRow
      <4>2. clusters' = {f[r] : r \in clusters}
        BY <4>0
      <4>3. \A r, q \in clusters : r.id = q.id => r = q
        BY <1>a DEF Integrity
      <4> HIDE DEF f
      <4> QED
        BY <4>1, <4>2, <4>3, RewriteKeepsIds
    <3> QED
      BY <1>7, <1>a, <3>1, <3>2 DEF MarkClusterDestroyed, Integrity
  <2> QED
    BY <1>7, <1>0, <1>a, <2>1, KeepResourceIds DEF MarkClusterDestroyed
<1>8. ASSUME NEW c \in Clients, UpsertNodeWrite(c) PROVE Goal
  BY <1>8, <1>0, <1>a, KeepResourceIds
  DEF UpsertNodeWrite, Integrity, References
<1>9. ASSUME NEW c \in Clients, RemoveNodeWrite(c) PROVE Goal
  BY <1>9, <1>0, <1>a, KeepResourceIds
  DEF RemoveNodeWrite, Integrity, References
<1>10. ASSUME NEW c \in Clients, UpsertDeploymentWrite(c) PROVE Goal
  BY <1>10, <1>0, <1>a, KeepResourceIds
  DEF UpsertDeploymentWrite, Integrity, References
<1>11. ASSUME NEW c \in Clients, DeleteDeploymentWrite(c) PROVE Goal
  BY <1>11, <1>0, <1>a, KeepResourceIds
  DEF DeleteDeploymentWrite, Integrity, References
<1>12. ASSUME NEW c \in Clients, AppendHistoryWrite(c) PROVE Goal
  BY <1>12, <1>0, <1>a, KeepResourceIds
  DEF AppendHistoryWrite, Integrity, References
<1>13. ASSUME NEW c \in Clients, RecordResourceWrite(c) PROVE Goal
  <2>1. PICK x \in Exts :
          resources' = resources \cup
            {[id |-> resourceSeq', cid |-> call[c].cid, ext |-> x,
              destroyed |-> NULL]}
    BY <1>13 DEF RecordResourceWrite
  <2>2. resourceSeq \in Nat /\ resourceSeq' = resourceSeq + 1
    BY <1>13, <1>0 DEF RecordResourceWrite, TypeOK
  <2>3. \A r \in resources : r.id \in Nat /\ r.id <= resourceSeq
    BY <1>0, <1>a DEF IdsBelowSeq, TypeOK, ResourceRow
  <2>4. \A d \in Clients : \A r \in listed[d] :
          r.id \in Nat /\ r.id <= resourceSeq
    BY <1>0, <1>a DEF IdsBelowSeq, TypeOK, ResourceRow
  <2>5. References(call[c].cid) /\ clusters' = clusters
    BY <1>13 DEF RecordResourceWrite
  <2>6. Integrity'
    <3>1. \A r, q \in resources' : r.id = q.id => r = q
      BY <2>1, <2>2, <2>3, <1>a DEF Integrity
    <3>2. \A r \in resources' : References(r.cid)
      BY <2>1, <2>5, <1>a DEF Integrity
    <3> QED
      BY <1>13, <1>a, <2>5, <3>1, <3>2
      DEF RecordResourceWrite, Integrity, References
  <2>7. IdsBelowSeq'
    BY <1>13, <2>1, <2>2, <2>3, <2>4 DEF RecordResourceWrite, IdsBelowSeq
  <2>8. ListedRowsStable'
    BY <1>13, <1>a, <2>1, <2>2, <2>4 DEF RecordResourceWrite, ListedRowsStable
  <2> QED
    BY <2>6, <2>7, <2>8
<1>14. ASSUME NEW c \in Clients, ListResourcesQuery(c) PROVE Goal
  <2>1. \A d \in Clients : listed'[d] \subseteq listed[d] \cup resources
    BY <1>14, <1>0 DEF ListResourcesQuery, TypeOK
  <2>2. UNCHANGED tables
    BY <1>14 DEF ListResourcesQuery
  <2>3. Integrity'
    BY <2>2, <1>a DEF tables, Integrity, References
  <2>4. IdsBelowSeq'
    BY <2>1, <2>2, <1>a DEF tables, IdsBelowSeq
  <2>5. ListedRowsStable'
    BY <2>1, <2>2, <1>a DEF tables, ListedRowsStable, Integrity
  <2> QED
    BY <2>3, <2>4, <2>5
<1>15. ASSUME NEW c \in Clients, MarkResourceDestroyed(c) PROVE Goal
  <2>1. /\ UNCHANGED <<clusters, nodes, deployments, resourceSeq, listed>>
        /\ \A r \in resources' : \E q \in resources :
             r.id = q.id /\ r.cid = q.cid /\ r.ext = q.ext
    BY <1>15, <1>0 DEF MarkResourceDestroyed, TypeOK, ResourceRow
  <2>2. \A r, q \in resources' : r.id = q.id => r = q
    BY <1>15, <1>0, <1>a DEF MarkResourceDestroyed, Integrity, TypeOK, ResourceRow
  <2>3. \A r \in nodes' \cup deployments' \cup resources' : References(r.cid)
    BY <2>1, <1>a DEF Integrity
  <2>4. Integrity'
    BY <2>1, <2>2, <2>3, <1>a DEF Integrity, References
  <2>5. IdsBelowSeq' /\ ListedRowsStable'
    BY <2>1, <1>a DEF IdsBelowSeq, ListedRowsStable
  <2> QED
    BY <2>4, <2>5
<1>16. ASSUME NEW c \in Clients, Abandon(c) PROVE Goal
  <2>1. \A d \in Clients : listed'[d] \subseteq listed[d]
    BY <1>16, <1>0 DEF Abandon, TypeOK
  <2>2. UNCHANGED tables
    BY <1>16 DEF Abandon
  <2> QED
    BY <2>1, <2>2, <1>a
    DEF tables, Integrity, References, IdsBelowSeq, ListedRowsStable
<1> QED
  BY <1>1, <1>2, <1>3, <1>4, <1>5, <1>6, <1>7, <1>8, <1>9, <1>10, <1>11,
     <1>12, <1>13, <1>14, <1>15, <1>16
  DEF Next, UpsertCluster, UpsertNode, RemoveNode, UpsertDeployment,
      DeleteDeployment, AppendHistory, RecordResource, ListResources

\* The inductive invariant: typed tables, unique ids, no orphans, and the
\* AUTOINCREMENT mark above every resource id a table or a client holds.
THEOREM Inductive == Spec => []IInv
<1>1. Init => IInv
  BY RegistryAssumption, InitIInv
<1>2. IInv /\ [Next]_vars => IInv'
  BY RegistryAssumption, NextIInv
<1> QED
  BY <1>1, <1>2, PTL DEF Spec

\* No child row without its cluster and no id held by two rows, whatever the
\* clients interleave: the foreign key is checked when a stale id is written
\* and the cascade runs when a cluster goes.
THEOREM IntegrityHolds == Spec => []Integrity
<1>1. IInv => Integrity
  BY DEF IInv
<1> QED
  BY <1>1, Inductive, PTL

\* The id of a listed resource denotes that resource for ever.
THEOREM ListedIdsStable == Spec => []ListedRowsStable
<1>1. IInv => ListedRowsStable
  BY DEF IInv
<1> QED
  BY <1>1, Inductive, PTL

-----------------------------------------------------------------------------
(* Action properties. *)

\* The rows a step may take away: active clusters, and what hangs off them.
LEMMA TombstonesStep ==
  ASSUME RegistryAssumption, IInv, [Next]_vars
  PROVE  /\ \A r \in clusters : r.destroyed # NULL => ClusterKept(r)
         /\ \A r \in resources :
              (\E k \in clusters : k.id = r.cid /\ k.destroyed # NULL)
              => ResourceKept(r)
<1>0. TypeOK /\ Integrity
  BY DEF IInv
<1> DEFINE Cs == \A r \in clusters : r.destroyed # NULL => ClusterKept(r)
           Rs == \A r \in resources :
                   (\E k \in clusters : k.id = r.cid /\ k.destroyed # NULL)
                   => ResourceKept(r)
<1>1. ASSUME clusters \subseteq clusters' PROVE Cs
  BY <1>1 DEF ClusterKept
<1>2. ASSUME resources \subseteq resources' PROVE Rs
  BY <1>2 DEF ResourceKept
<1>3. ASSUME NEW c \in Clients,
             UpsertClusterUpdate(c) \/ MarkSynced(c) \/ MarkClusterDestroyed(c)
      PROVE  Cs /\ Rs
  <2>1. Cs
    BY <1>0, <1>3, UpdateKeepsCluster
  <2>2. resources \subseteq resources'
    BY <1>3 DEF UpsertClusterUpdate, MarkSynced, MarkClusterDestroyed
  <2> QED
    BY <2>1, <2>2, <1>2
<1>4. ASSUME NEW c \in Clients, DeleteCluster(c) PROVE Cs /\ Rs
  <2>1. PICK n \in Names :
          LET gone == {r.id : r \in Active(n)} IN
          /\ clusters' = clusters \ Active(n)
          /\ resources' = {r \in resources : r.cid \notin gone}
    BY <1>4 DEF DeleteCluster
  <2>2. Cs
    BY <2>1 DEF ClusterKept, Active
  <2>3. ASSUME NEW r \in resources, NEW k \in clusters,
               k.id = r.cid, k.destroyed # NULL
        PROVE  ResourceKept(r)
    <3>1. r.cid \notin {q.id : q \in Active(n)}
      BY <2>3, <1>0 DEF Active, Integrity
    <3> QED
      BY <3>1, <2>1 DEF ResourceKept
  <2> QED
    BY <2>2, <2>3
<1>5. ASSUME NEW c \in Clients, MarkResourceDestroyed(c) PROVE Cs /\ Rs
  <2>1. Rs
    BY <1>0, <1>5, StampKeepsResource
  <2>2. clusters \subseteq clusters'
    BY <1>5 DEF MarkResourceDestroyed
  <2> QED
    BY <2>1, <2>2, <1>1
<1>6. ASSUME clusters \subseteq clusters', resources \subseteq resources'
      PROVE  Cs /\ Rs
  BY <1>6, <1>1, <1>2
<1>7. CASE UNCHANGED vars
  BY <1>7, <1>6 DEF vars
<1>8. ASSUME NEW c \in Clients,
             \/ \E m : Begin(c, m)
             \/ UpsertClusterInsert(c)
             \/ UpsertNodeWrite(c) \/ RemoveNodeWrite(c)
             \/ UpsertDeploymentWrite(c) \/ DeleteDeploymentWrite(c)
             \/ AppendHistoryWrite(c)
             \/ RecordResourceWrite(c) \/ ListResourcesQuery(c)
             \/ Abandon(c)
      PROVE  Cs /\ Rs
  <2>1. clusters \subseteq clusters' /\ resources \subseteq resources'
    BY <1>8
    DEF Begin, tables, UpsertClusterInsert, UpsertNodeWrite, RemoveNodeWrite,
        UpsertDeploymentWrite, DeleteDeploymentWrite, AppendHistoryWrite,
        RecordResourceWrite, ListResourcesQuery, Abandon
  <2> QED
    BY <2>1, <1>6
<1> QED
  BY <1>3, <1>4, <1>5, <1>7, <1>8
  DEF Next, UpsertCluster, UpsertNode, RemoveNode, UpsertDeployment,
      DeleteDeployment, AppendHistory, RecordResource, ListResources

\* Tombstones are final, and a destroyed cluster keeps its resource rows.
THEOREM TombstonesFinal == Spec => TombstonesPermanent
<1>1. RegistryAssumption /\ IInv /\ [Next]_vars =>
        [/\ \A r \in clusters : r.destroyed # NULL =>
              \E q \in clusters' :
                q.id = r.id /\ q.name = r.name /\ q.destroyed = r.destroyed
         /\ \A r \in resources :
              (\E k \in clusters : k.id = r.cid /\ k.destroyed # NULL) =>
              \E q \in resources' :
                /\ q.id = r.id /\ q.cid = r.cid /\ q.ext = r.ext
                /\ r.destroyed # NULL => q.destroyed = r.destroyed]_vars
  BY TombstonesStep DEF ClusterKept, ResourceKept
<1> QED
  BY <1>1, RegistryAssumption, Inductive, PTL DEF Spec, TombstonesPermanent

\* History is append-only: DeleteCluster's cascade does not reach it.
THEOREM HistoryKept == Spec => HistoryAppendOnly
<1>1. TypeOK /\ [Next]_vars => [IsPrefix(history, history')]_vars
  <2> SUFFICES ASSUME TypeOK, [Next]_vars, vars' # vars
               PROVE  IsPrefix(history, history')
    OBVIOUS
  <2>0. history \in Seq(HistoryRow)
    BY DEF TypeOK
  <2>1. ASSUME history' = history PROVE IsPrefix(history, history')
    BY <2>0, <2>1 DEF IsPrefix
  <2>2. ASSUME NEW c \in Clients, AppendHistoryWrite(c)
        PROVE  IsPrefix(history, history')
    <3>1. PICK e \in HistoryRow : history' = Append(history, e)
      <4>1. call[c].name \in Names /\ call[c].cid \in Ids \cup {NoId}
        BY <2>2, InPending DEF AppendHistoryWrite, Methods
      <4>2. [cid |-> IF call[c].cid = NoId THEN NULL ELSE call[c].cid,
             name |-> call[c].name] \in HistoryRow
        BY <4>1 DEF HistoryRow
      <4> QED
        BY <2>2, <4>2 DEF AppendHistoryWrite
    <3> QED
      BY <2>0, <3>1 DEF IsPrefix
  <2>3. history' = history \/ \E c \in Clients : AppendHistoryWrite(c)
    BY DEF Next, vars, tables, Begin, UpsertCluster, UpsertClusterUpdate,
       UpsertClusterInsert, DeleteCluster, MarkSynced, MarkClusterDestroyed,
       UpsertNode, UpsertNodeWrite, RemoveNode, RemoveNodeWrite,
       UpsertDeployment, UpsertDeploymentWrite, DeleteDeployment,
       DeleteDeploymentWrite, AppendHistory, RecordResource,
       RecordResourceWrite, ListResources, ListResourcesQuery,
       MarkResourceDestroyed, Abandon
  <2> QED
    BY <2>1, <2>2, <2>3
<1> QED
  BY <1>1, TypeCorrect, PTL DEF Spec, HistoryAppendOnly

-----------------------------------------------------------------------------
(* Two active rows of a name.  The look-up and the INSERT of UpsertCluster   *)
(* are two statements.  For a name that is not raced at most one client is   *)
(* between them, so what it has looked up is still so when it inserts.       *)

UInv ==
  /\ DuplicatesWereRaced
  /\ \A c \in Clients, n \in Names \ raced : Inserting(c, n) =>
       /\ Active(n) = {}
       /\ \A d \in Clients : Inserting(d, n) => c = d

\* A step that makes no row active and lets no client begin an insert.
LEMMA KeepUInv ==
  ASSUME UInv, Integrity, UNCHANGED raced,
         \A q \in clusters' : q.destroyed = NULL =>
           \E r \in clusters : r.destroyed = NULL /\ r.id = q.id /\ r.name = q.name,
         \A r, q \in clusters' : r.id = q.id => r = q,
         \A c \in Clients : (call'[c].method = "UpsertCluster") => call'[c] = call[c]
  PROVE  UInv'
<1>1. DuplicatesWereRaced'
  <2> SUFFICES ASSUME NEW r \in clusters', NEW q \in clusters',
                      r.name = q.name, r.destroyed = NULL, q.destroyed = NULL,
                      r.name \notin raced
               PROVE  r.id = q.id
    BY DEF DuplicatesWereRaced
  <2>1. PICK a \in clusters : a.destroyed = NULL /\ a.id = r.id /\ a.name = r.name
    OBVIOUS
  <2>2. PICK b \in clusters : b.destroyed = NULL /\ b.id = q.id /\ b.name = q.name
    OBVIOUS
  <2> QED
    BY <2>1, <2>2 DEF UInv, DuplicatesWereRaced
<1>2. \A c \in Clients, n \in Names : Inserting(c, n)' => Inserting(c, n)
  BY DEF Inserting, In
<1>3. \A n \in Names : Active(n) = {} => Active(n)' = {}
  BY DEF Active
<1> QED
  BY <1>1, <1>2, <1>3 DEF UInv

\* Every step of the specification keeps it.
LEMMA NextUInv ==
  ASSUME RegistryAssumption, IInv, IInv', UInv, [Next]_vars
  PROVE  UInv'
<1>0. TypeOK /\ TypeOK' /\ Integrity /\ Integrity'
  BY DEF IInv
<1>k. \A r, q \in clusters' : r.id = q.id => r = q
  BY <1>0 DEF Integrity
<1>1. CASE clusters' = clusters /\ UNCHANGED <<call, raced>>
  BY <1>1 DEF UInv, DuplicatesWereRaced, Inserting, In, Active
<1>2. ASSUME NEW c \in Clients, Return(c) \/ UNCHANGED <<call, raced>>,
             clusters' \subseteq clusters
      PROVE  UInv'
  <2>1. \A d \in Clients : call'[d].method = "UpsertCluster" => call'[d] = call[d]
    BY <1>0, <1>2 DEF Return, TypeOK, Idle
  <2>2. UNCHANGED raced
    BY <1>2 DEF Return
  <2> QED
    BY <2>1, <2>2, <1>0, <1>2, <1>k, KeepUInv
<1>3. ASSUME NEW c \in Clients, NEW m, Begin(c, m) PROVE UInv'
  <2>0. PICK n \in Names : \E k \in ClusterID(n) :
          /\ call' = [call EXCEPT ![c] = [method |-> m, name |-> n, cid |-> k]]
          /\ raced' = raced \cup
               {x \in {n} : /\ m = "UpsertCluster" /\ k = NoId
                           /\ \E d \in Clients : Inserting(d, n)}
    BY <1>3 DEF Begin
  <2>1. PICK k \in ClusterID(n) :
          /\ call' = [call EXCEPT ![c] = [method |-> m, name |-> n, cid |-> k]]
          /\ raced' = raced \cup
               {x \in {n} : /\ m = "UpsertCluster" /\ k = NoId
                           /\ \E d \in Clients : Inserting(d, n)}
    BY <2>0
  <2>2. clusters' = clusters /\ call[c] = Idle
    BY <1>3 DEF Begin, tables, Call
  <2>3. k = NoId => Active(n) = {}
    BY ClusterIDType
  <2>4. \A d \in Clients :
          call'[d] = IF d = c THEN [method |-> m, name |-> n, cid |-> k]
                     ELSE call[d]
    BY <1>0, <2>1 DEF TypeOK
  <2>5. DuplicatesWereRaced'
    BY <2>1, <2>2 DEF UInv, DuplicatesWereRaced
  <2>6. \A d \in Clients, x \in Names : Inserting(d, x)' =>
          \/ d # c /\ Inserting(d, x)
          \/ d = c /\ x = n /\ m = "UpsertCluster" /\ k = NoId
    BY <2>4 DEF Inserting, In
  <2>7. ASSUME NEW d \in Clients, NEW x \in Names \ raced', Inserting(d, x)'
        PROVE  /\ Active(x)' = {}
               /\ \A e \in Clients : Inserting(e, x)' => d = e
    <3>1. x \in Names \ raced
      BY <2>1
    <3>2. Active(x)' = {}
      BY <2>2, <2>3, <2>6, <2>7, <3>1 DEF UInv, Active
    <3>3. ASSUME NEW e \in Clients, Inserting(e, x)' PROVE d = e
      <4>1. CASE d # c /\ e # c
        BY <2>6, <2>7, <3>1, <3>3, <4>1 DEF UInv
      <4>2. CASE d = c /\ e # c
        BY <2>1, <2>6, <2>7, <3>3, <4>2
      <4>3. CASE d # c /\ e = c
        BY <2>1, <2>6, <2>7, <3>3, <4>3
      <4> QED
        BY <4>1, <4>2, <4>3
    <3> QED
      BY <3>2, <3>3
  <2> QED
    BY <2>5, <2>7 DEF UInv
<1>4. ASSUME NEW c \in Clients, UpsertClusterUpdate(c) PROVE UInv'
  <2>1. \A q \in clusters' : q.destroyed = NULL =>
          \E r \in clusters : r.destroyed = NULL /\ r.id = q.id /\ r.name = q.name
    BY <1>0, <1>4 DEF UpsertClusterUpdate, TypeOK, ClusterRow
  <2>2. \A d \in Clients : call'[d].method = "UpsertCluster" => call'[d] = call[d]
    BY <1>0, <1>4 DEF UpsertClusterUpdate, Return, TypeOK, Idle
  <2>3. UNCHANGED raced
    BY <1>4 DEF UpsertClusterUpdate, Return
  <2> QED
    BY <1>0, <1>k, <2>1, <2>2, <2>3, KeepUInv
<1>5. ASSUME NEW c \in Clients, UpsertClusterInsert(c) PROVE UInv'
  <2>1. PICK k \in NextRowid :
          clusters' = clusters \cup
            {[id |-> k, name |-> call[c].name, synced |-> FALSE,
              destroyed |-> NULL]}
    BY <1>5 DEF UpsertClusterInsert
  <2> DEFINE new == [id |-> k, name |-> call[c].name, synced |-> FALSE,
                     destroyed |-> NULL]
  <2>2. new.name = call[c].name /\ clusters' = clusters \cup {new}
    BY <2>1
  <2> HIDE DEF new
  <2>3. call[c].name \in Names /\ Inserting(c, call[c].name)
    BY <1>0, <1>5, InPending DEF UpsertClusterInsert, Inserting, Methods
  <2>4. UNCHANGED raced
    BY <1>5 DEF UpsertClusterInsert, Return
  <2>5. call[c].name \notin raced =>
          \A r \in clusters : r.destroyed = NULL => r.name # call[c].name
    BY <2>3 DEF UInv, Active
  <2>6. DuplicatesWereRaced'
    BY <2>2, <2>4, <2>5 DEF UInv, DuplicatesWereRaced
  <2>7. \A d \in Clients, x \in Names :
          Inserting(d, x)' => d # c /\ Inserting(d, x)
    BY <1>0, <1>5 DEF UpsertClusterInsert, Return, TypeOK, Idle, Inserting, In
  <2>8. \A x \in Names : x # call[c].name /\ Active(x) = {} => Active(x)' = {}
    BY <2>2 DEF Active
  <2>9. ASSUME NEW d \in Clients, NEW x \in Names \ raced', Inserting(d, x)'
        PROVE  /\ Active(x)' = {}
               /\ \A e \in Clients : Inserting(e, x)' => d = e
    <3>1. x \in Names \ raced /\ d # c /\ Inserting(d, x)
      BY <2>4, <2>7, <2>9
    <3>2. x # call[c].name
      BY <2>3, <3>1 DEF UInv
    <3> QED
      BY <2>7, <2>8, <3>1, <3>2 DEF UInv
  <2> QED
    BY <2>6, <2>9 DEF UInv
<1>6. ASSUME NEW c \in Clients, MarkSynced(c) \/ MarkClusterDestroyed(c)
      PROVE  UInv'
  <2>1. \A q \in clusters' : q.destroyed = NULL =>
          \E r \in clusters : r.destroyed = NULL /\ r.id = q.id /\ r.name = q.name
    <3>1. CASE MarkSynced(c)
      BY <1>0, <3>1 DEF MarkSynced, TypeOK, ClusterRow, Active
    <3>2. CASE MarkClusterDestroyed(c)
      BY <1>0, <3>2
      DEF MarkClusterDestroyed, TypeOK, ClusterRow, Active, RegistryAssumption
    <3> QED
      BY <1>6, <3>1, <3>2
  <2>2. UNCHANGED <<call, raced>>
    BY <1>6 DEF MarkSynced, MarkClusterDestroyed, Once
  <2> QED
    BY <1>0, <1>k, <2>1, <2>2, KeepUInv
<1>7. ASSUME NEW c \in Clients,
             \/ DeleteCluster(c)
             \/ UpsertNodeWrite(c) \/ RemoveNodeWrite(c)
             \/ UpsertDeploymentWrite(c) \/ DeleteDeploymentWrite(c)
             \/ AppendHistoryWrite(c)
             \/ RecordResourceWrite(c) \/ ListResourcesQuery(c)
             \/ MarkResourceDestroyed(c) \/ Abandon(c)
      PROVE  UInv'
  <2>1. /\ Return(c) \/ UNCHANGED <<call, raced>>
        /\ clusters' \subseteq clusters
    BY <1>7
    DEF DeleteCluster, UpsertNodeWrite, RemoveNodeWrite,
        UpsertDeploymentWrite, DeleteDeploymentWrite, AppendHistoryWrite,
        RecordResourceWrite, ListResourcesQuery, MarkResourceDestroyed,
        Abandon, tables, Once
  <2> QED
    BY <2>1, <1>2
<1> QED
  BY <1>1, <1>3, <1>4, <1>5, <1>6, <1>7
  DEF vars, Next, UpsertCluster, UpsertNode, RemoveNode, UpsertDeployment,
      DeleteDeployment, AppendHistory, RecordResource, ListResources

\* Whatever the clients update, delete, tombstone and create again at once, a
\* name has two active rows only when two of them raced to insert it: two
\* look-ups that found no row, before either INSERT (sqlite.go:119).
THEOREM OnlyRacesDuplicate == Spec => []DuplicatesWereRaced
<1>1. Init => UInv
  BY DEF Init, UInv, DuplicatesWereRaced, Inserting, In, Idle
<1>2. IInv /\ IInv' /\ UInv /\ [Next]_vars => UInv'
  BY RegistryAssumption, NextUInv
<1>3. UInv => DuplicatesWereRaced
  BY DEF UInv
<1> QED
  BY <1>1, <1>2, <1>3, Inductive, PTL DEF Spec
=============================================================================
