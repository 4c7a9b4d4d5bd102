-------------------------------- MODULE Sync --------------------------------
(***************************************************************************)
(* `clusterbox sync` on one cluster: it brings the registry's node and     *)
(* deployment rows into agreement with what Pulumi and kubectl report, and *)
(* stamps the cluster row when both passes were clean.  `clusterbox diff`  *)
(* compares the same two sides without writing.                            *)
(*                                                                         *)
(* In production the Pulumi client reads the registry itself               *)
(* (registryNodeClient).  Every registry call is one step here, so the     *)
(* other commands run between any two calls of a sync; a call resolves the *)
(* cluster's name when it is made (module Registry).                       *)
(***************************************************************************)
EXTENDS Naturals, FiniteSets

CONSTANTS
  Hosts,       \* node hostnames
  Services,    \* service names
  Workloads,   \* k8s Deployment objects, in the order kubectl lists them
  ServiceOf,   \* the service name serviceName gives each of them
  Versions,    \* image tags and chart versions
  NULL,
  MaxEvents,   \* bound: steps of other commands
  MaxFaults,   \* bound: failed calls
  MaxSyncs     \* bound: syncs

VARIABLES
  active,   \* the name has an active cluster row
  synced,   \* its last_synced_at is not NULL
  nodes,    \* its node rows
  deps,     \* its deployment row of each service, or NULL
  members,  \* hosts that are nodes of the k8s cluster
  live,     \* what each Deployment object runs, or NULL
  job,      \* the running sync
  quiet,    \* no other command took a step since the sync started
  events, faults, syncs

table == <<active, synced, nodes, deps>>
world == <<members, live>>
vars == <<active, synced, nodes, deps, members, live, job, quiet, events,
          faults, syncs>>

\* joined_at is the time the node joined, or that of the sync that found it.
NodeRow == [host: Hosts, joined: {"join", "sync"}]
Statuses == {"rolled_out", "rolling", "failed"}
Kinds == {"app", "addon"}
DeploymentRow == [version: Versions, status: Statuses, kind: Kinds]

\* The replica counts of a Deployment object: complete, mid-rollout, with an
\* unavailable replica.
Shapes == {[replicas |-> 1, ready |-> 1, updated |-> 1, unavailable |-> 0],
           [replicas |-> 2, ready |-> 2, updated |-> 1, unavailable |-> 0],
           [replicas |-> 1, ready |-> 0, updated |-> 1, unavailable |-> 1]}
Pod == [version: Versions, shape: Shapes]

ASSUME SyncAssumption ==
  /\ Workloads \subseteq Nat /\ IsFiniteSet(Workloads)
  /\ ServiceOf \in [Workloads -> Services]
  /\ IsFiniteSet(Hosts) /\ IsFiniteSet(Services)
  /\ NULL \notin DeploymentRow
  /\ MaxEvents \in Nat /\ MaxFaults \in Nat /\ MaxSyncs \in Nat

rolloutStatus(s) ==
  IF s.unavailable > 0 THEN "failed"
  ELSE IF s.replicas > 0 /\ s.ready = s.replicas /\ s.updated = s.replicas
  THEN "rolled_out" ELSE "rolling"

NoNodes == {}
NoDeps == [s \in Services |-> NULL]
NoLive == [w \in Workloads |-> NULL]

Idle == [step |-> "idle", prune |-> FALSE, dry |-> FALSE, ok |-> TRUE,
         pulumi |-> {}, rows |-> {}, ups |-> {}, dels |-> {},
         live |-> NoLive, deps |-> NoDeps, left |-> {},
         added |-> 0, updated |-> 0, drift |-> 0, marked |-> FALSE]

At(s) == job.step = s
Goto(s) == job' = [job EXCEPT !.step = s]
Fault == faults < MaxFaults /\ faults' = faults + 1
NoFault == UNCHANGED faults
Mine == UNCHANGED <<world, quiet, events, syncs>>

-----------------------------------------------------------------------------
(* The other commands, and the cluster itself. *)

Event ==
  /\ events < MaxEvents /\ events' = events + 1
  /\ quiet' = FALSE
  /\ UNCHANGED <<job, faults, syncs>>

\* UpsertNode: the conflict clause leaves joined_at alone.
WithNode(rows, r) ==
  IF \E q \in rows : q.host = r.host THEN rows ELSE rows \cup {r}

\* UpsertCluster, by Provision or by recordClusterInRegistry: an existing row
\* loses its stamp, a new lifetime starts without rows.
Up ==
  /\ Event
  /\ active' = TRUE /\ synced' = FALSE
  /\ UNCHANGED <<nodes, deps, world>>

Join(h) ==
  /\ Event
  /\ h \notin members /\ members' = members \cup {h}
  /\ UNCHANGED <<table, live>>

\* recordNodeInRegistry and recordClusterInRegistry, best effort.
RecordNode(h) ==
  /\ Event
  /\ active /\ h \in members
  /\ nodes' = WithNode(nodes, [host |-> h, joined |-> "join"])
  /\ UNCHANGED <<active, synced, deps, world>>

Leave(h) ==
  /\ Event
  /\ h \in members /\ members' = members \ {h}
  /\ UNCHANGED <<table, live>>

\* removeNodeFromRegistry, best effort.
ForgetNode(h) ==
  /\ Event
  /\ h \notin members
  /\ nodes' = {r \in nodes : r.host # h}
  /\ UNCHANGED <<active, synced, deps, world>>

\* A rollout, by clusterbox or by anyone else.
Rollout(w) ==
  /\ Event
  /\ \E p \in Pod \cup {NULL} :
       p # live[w] /\ live' = [live EXCEPT ![w] = p]
  /\ UNCHANGED <<table, members>>

\* deploy and addon install record what they rolled out; the version of an
\* addon is that of its catalogue entry.
RecordDeployment(w) ==
  /\ Event
  /\ active /\ live[w] # NULL
  /\ \E k \in Kinds, v \in Versions :
       /\ k = "app" => v = live[w].version
       /\ deps' = [deps EXCEPT ![ServiceOf[w]] =
                     [version |-> v, status |-> "rolled_out", kind |-> k]]
  /\ UNCHANGED <<active, synced, nodes, world>>

\* addon uninstall removes the row of what it deleted.
DeleteDeployment(w) ==
  /\ Event
  /\ deps[ServiceOf[w]] # NULL /\ live[w] = NULL
  /\ deps' = [deps EXCEPT ![ServiceOf[w]] = NULL]
  /\ UNCHANGED <<active, synced, nodes, world>>

\* destroy: the row is tombstoned, and nothing is left of the cluster.
Destroy ==
  /\ Event
  /\ active /\ active' = FALSE /\ synced' = FALSE
  /\ nodes' = NoNodes /\ deps' = NoDeps
  /\ members' = {} /\ live' = NoLive

-----------------------------------------------------------------------------
(* Reconcile. *)

\* selectClusters; sync without a name does this for each cluster in turn.
StartSync ==
  /\ At("idle") /\ active
  /\ syncs < MaxSyncs /\ syncs' = syncs + 1
  /\ \E prune, dry \in BOOLEAN :
       job' = [Idle EXCEPT !.step = "pulumi", !.prune = prune, !.dry = dry]
  /\ quiet' = TRUE
  /\ UNCHANGED <<table, world, events, faults>>

\* A call of the node pass fails: the pass returns false, the next one runs.
NodesFail ==
  /\ At("pulumi") \/ At("list") \/ At("upsert") \/ At("remove")
  /\ At("upsert") => job.ups # {} /\ ~job.dry
  /\ At("remove") => job.dels # {} /\ ~job.dry
  /\ \/ Fault
     \/ At("upsert") /\ ~active /\ NoFault
  /\ job' = [job EXCEPT !.step = "kubectl", !.ok = FALSE]
  /\ UNCHANGED table /\ Mine

\* ListClusterNodes of registryNodeClient; no rows is ErrStackNotFound.
ListClusterNodes ==
  /\ At("pulumi")
  /\ job' = [job EXCEPT !.step = IF nodes = {} THEN "no-stack" ELSE "list",
                        !.pulumi = {r.host : r \in nodes}]
  /\ UNCHANGED table /\ NoFault /\ Mine

PruneCluster ==
  /\ At("no-stack") /\ job.prune /\ ~job.dry
  /\ \/ /\ active' = FALSE /\ synced' = FALSE
        /\ nodes' = NoNodes /\ deps' = NoDeps
        /\ Goto("kubectl") /\ NoFault
     \/ /\ job' = [job EXCEPT !.step = "kubectl", !.ok = FALSE] /\ Fault
        /\ UNCHANGED table
  /\ Mine

FlagCluster ==
  /\ At("no-stack") /\ (~job.prune \/ job.dry)
  /\ job' = [job EXCEPT !.step = "kubectl", !.drift = @ + 1]
  /\ UNCHANGED table /\ NoFault /\ Mine

ListNodes ==
  /\ At("list")
  /\ job' = [job EXCEPT !.step = "upsert", !.rows = nodes, !.ups = job.pulumi,
               !.dels = {r.host : r \in nodes} \ job.pulumi]
  /\ UNCHANGED table /\ NoFault /\ Mine

\* Mutant: the join time is not carried over and the row is replaced.
UpsertNodeAfresh ==
  /\ At("upsert")
  /\ \E h \in job.ups :
       /\ job' = [job EXCEPT !.ups = @ \ {h}]
       /\ \/ job.dry /\ UNCHANGED nodes
          \/ /\ ~job.dry /\ active
             /\ nodes' = {q \in nodes : q.host # h}
                         \cup {[host |-> h, joined |-> "sync"]}
  /\ UNCHANGED <<active, synced, deps>> /\ NoFault /\ Mine

\* The row's joined_at is kept; a host without a row gets the time of the sync.
UpsertNode ==
  /\ At("upsert")
  /\ \E h \in job.ups :
       /\ job' = [job EXCEPT !.ups = @ \ {h}]
       /\ \/ job.dry /\ UNCHANGED nodes
          \/ /\ ~job.dry /\ active
             /\ LET known == {r \in job.rows : r.host = h}
                IN \E r \in IF known = {} THEN {[host |-> h, joined |-> "sync"]}
                            ELSE known :
                     nodes' = WithNode(nodes, r)
  /\ UNCHANGED <<active, synced, deps>> /\ NoFault /\ Mine

UpsertsDone ==
  /\ At("upsert") /\ job.ups = {} /\ Goto("remove")
  /\ UNCHANGED table /\ NoFault /\ Mine

\* RemoveNode of a missing cluster is a no-op.
RemoveNode ==
  /\ At("remove")
  /\ \E h \in job.dels :
       /\ job' = [job EXCEPT !.dels = @ \ {h}]
       /\ nodes' = IF job.dry THEN nodes ELSE {r \in nodes : r.host # h}
  /\ UNCHANGED <<active, synced, deps>> /\ NoFault /\ Mine

RemovesDone ==
  /\ At("remove") /\ job.dels = {} /\ Goto("kubectl")
  /\ UNCHANGED table /\ NoFault /\ Mine

\* kubectl get deployments -A -o json, parsed.
FetchDeployments ==
  /\ At("kubectl")
  /\ job' = [job EXCEPT !.step = "deps", !.live = live]
  /\ UNCHANGED table /\ NoFault /\ Mine

ListDeployments ==
  /\ At("deps")
  /\ job' = [job EXCEPT !.step = "write", !.deps = deps,
               !.left = {w \in Workloads : job.live[w] # NULL}]
  /\ UNCHANGED table /\ NoFault /\ Mine

\* A call of the deployment pass fails, as an upsert does when the cluster is
\* gone.
DeploymentsFail ==
  /\ \/ (At("kubectl") \/ At("deps")) /\ Fault
     \/ At("write") /\ job.left # {} /\ ~job.dry /\ Fault
     \/ At("write") /\ job.left # {} /\ ~job.dry /\ ~active /\ NoFault
  /\ job' = [job EXCEPT !.step = "mark", !.ok = FALSE, !.left = {}]
  /\ UNCHANGED table /\ Mine

NextWorkload(left) == CHOOSE w \in left : \A v \in left : w <= v

\* Mutant: the status is not compared.
SameIgnoringStatus(row, pod) == row.version = pod.version

\* Neither version nor status diverged.
Same(row, pod) ==
  row.version = pod.version /\ row.status = rolloutStatus(pod.shape)

\* The row written has no kind, which the registry stores as app.
WriteDeployment ==
  /\ At("write") /\ job.left # {}
  /\ LET w == NextWorkload(job.left)
         s == ServiceOf[w]
         pod == job.live[w]
         old == job.deps[s]
         rest == [job EXCEPT !.left = @ \ {w}]
         current == IF old = NULL THEN FALSE ELSE Same(old, pod)
     IN \/ /\ current
           /\ job' = rest /\ UNCHANGED deps
        \/ /\ ~current
           /\ job' = IF old = NULL THEN [rest EXCEPT !.added = @ + 1]
                     ELSE [rest EXCEPT !.updated = @ + 1]
           /\ \/ job.dry /\ UNCHANGED deps
              \/ /\ ~job.dry /\ active
                 /\ deps' = [deps EXCEPT ![s] =
                      [version |-> pod.version, kind |-> "app",
                       status |-> rolloutStatus(pod.shape)]]
  /\ UNCHANGED <<active, synced, nodes>> /\ NoFault /\ Mine

Listed(lv) == {ServiceOf[w] : w \in {v \in Workloads : lv[v] # NULL}}

\* Mutant: the rows of unlisted services are deleted, --prune or not.
FlagServicesDeleting ==
  /\ At("write") /\ job.left = {}
  /\ LET gone == {s \in Services : job.deps[s] # NULL} \ Listed(job.live)
     IN /\ job' = [job EXCEPT !.step = "mark", !.drift = @ + Cardinality(gone)]
        /\ deps' = [s \in Services |->
                     IF ~job.dry /\ s \in gone THEN NULL ELSE deps[s]]
  /\ UNCHANGED <<active, synced, nodes>> /\ NoFault /\ Mine

\* Services of the registry that kubectl does not list are flagged, --prune or
\* not.
FlagServices ==
  /\ At("write") /\ job.left = {}
  /\ job' = [job EXCEPT !.step = "mark", !.drift = @ +
       Cardinality({s \in Services : job.deps[s] # NULL} \ Listed(job.live))]
  /\ UNCHANGED table /\ NoFault /\ Mine

\* Mutant: only the second pass counts.
MarkSyncedAnyway ==
  /\ At("mark") /\ ~job.dry
  /\ \/ /\ synced' = active /\ NoFault
        /\ job' = [job EXCEPT !.step = "report", !.marked = active]
     \/ Goto("report") /\ UNCHANGED synced /\ Fault
  /\ UNCHANGED <<active, nodes, deps>> /\ Mine

MarkSynced ==
  /\ At("mark") /\ job.ok /\ ~job.dry
  /\ \/ /\ synced' = active /\ NoFault
        /\ job' = [job EXCEPT !.step = "report", !.marked = active]
     \/ Goto("report") /\ UNCHANGED synced /\ Fault
  /\ UNCHANGED <<active, nodes, deps>> /\ Mine

LeaveStamp ==
  /\ At("mark") /\ (~job.ok \/ job.dry) /\ Goto("report")
  /\ UNCHANGED table /\ NoFault /\ Mine

\* writeSyncSummary.
Report ==
  /\ At("report") /\ job' = Idle
  /\ UNCHANGED table /\ NoFault /\ Mine

-----------------------------------------------------------------------------
(* computeDiff, as an operator on the present state. *)

LastOf(s) == CHOOSE w \in Workloads :
  /\ live[w] # NULL /\ ServiceOf[w] = s
  /\ \A v \in Workloads : live[v] # NULL /\ ServiceOf[v] = s => v <= w

Diverges(row, pod) ==
  row.version # pod.version \/ row.status # rolloutStatus(pod.shape)

ServicesAdded == {s \in Listed(live) : deps[s] = NULL}
ServicesChange ==
  {s \in Listed(live) : deps[s] # NULL /\ Diverges(deps[s], live[LastOf(s)])}
ServicesRemove == {s \in Services : deps[s] # NULL} \ Listed(live)

-----------------------------------------------------------------------------
\* There is no cluster yet, or `up` has just recorded one of one node.
Init ==
  /\ synced = FALSE
  /\ \/ active = FALSE /\ members = {} /\ nodes = NoNodes
     \/ /\ active = TRUE
        /\ \E h \in Hosts :
             members = {h} /\ nodes = {[host |-> h, joined |-> "join"]}
  /\ deps = NoDeps /\ live = NoLive
  /\ job = Idle /\ quiet = TRUE
  /\ events = 0 /\ faults = 0 /\ syncs = 0

Reconcile ==
  \/ StartSync \/ NodesFail \/ ListClusterNodes \/ PruneCluster \/ FlagCluster
  \/ ListNodes \/ UpsertNode \/ UpsertsDone \/ RemoveNode \/ RemovesDone
  \/ FetchDeployments \/ ListDeployments \/ DeploymentsFail \/ WriteDeployment
  \/ FlagServices \/ MarkSynced \/ LeaveStamp \/ Report

Others ==
  \/ Up \/ Destroy
  \/ \E h \in Hosts : Join(h) \/ RecordNode(h) \/ Leave(h) \/ ForgetNode(h)
  \/ \E w \in Workloads :
       Rollout(w) \/ RecordDeployment(w) \/ DeleteDeployment(w)

Next == Reconcile \/ Others

Spec == Init /\ [][Next]_vars
-----------------------------------------------------------------------------
(* Properties. *)

SyncSteps == {"pulumi", "no-stack", "list", "upsert", "remove", "kubectl",
              "deps", "write", "mark", "report"}

(* The rows and the job have their types, a host has at most one row, only an
   active cluster has rows, and a job is marked at its end only. *)
TypeOK ==
  /\ active \in BOOLEAN /\ synced \in BOOLEAN /\ quiet \in BOOLEAN
  /\ nodes \subseteq NodeRow
  /\ \A q, r \in nodes : q.host = r.host => q = r
  /\ \A s \in Services : deps[s] = NULL \/ deps[s] \in DeploymentRow
  /\ ~active => ~synced /\ nodes = {} /\ deps = NoDeps
  /\ members \subseteq Hosts
  /\ \A w \in Workloads : live[w] = NULL \/ live[w] \in Pod
  /\ job.step \in SyncSteps \cup {"idle"}
  /\ job.marked => At("report") /\ job.ok /\ ~job.dry
  /\ events \in 0..MaxEvents /\ faults \in 0..MaxFaults /\ syncs \in 0..MaxSyncs

SyncStep == job' # job

\* Service names that two Deployment objects of the cluster share.
Shared == {s \in Services :
  \E v, w \in Workloads : /\ v # w /\ ServiceOf[v] = s /\ ServiceOf[w] = s
                          /\ live[v] # NULL /\ live[w] # NULL}

(* A sync that stamped the cluster, while no other command ran, leaves no
   service for diff to report as added, nor as changed unless two Deployment
   objects share its name; one that flagged nothing leaves none at all.
   sync.go:148-150: the stamp means that the whole reconcile was clean. *)
StampMeansClean ==
  At("report") /\ job.marked /\ quiet =>
    /\ ServicesAdded = {} /\ ServicesChange \subseteq Shared
    /\ job.drift = 0 => ServicesRemove = {}

(* The summary of a clean dry run counts what diff lists: the package comment of
   sync.go promises that they match.  Objects that share a service name are
   counted one by one by sync and once by diff.  A cluster without node rows is
   one more drift item. *)
DryRunMatchesDiff ==
  At("report") /\ job.dry /\ job.ok /\ quiet =>
    /\ Shared = {} => /\ job.added = Cardinality(ServicesAdded)
                     /\ job.updated = Cardinality(ServicesChange)
    /\ job.drift = Cardinality(ServicesRemove) + IF nodes = {} THEN 1 ELSE 0

(* Only --prune takes rows away, and never in a dry run (sync.go:79-82, "an
   outage of the upstream API cannot silently destroy local audit history"): the
   cluster row, when it had no node rows; a deployment row, with its cluster or
   when kubectl has answered and did not list the service.  So a failed call or
   an unreachable cluster loses nothing.  While nothing else runs a sync leaves
   the node rows of any other cluster alone, joined_at included: with the
   registry as its Pulumi client it compares them with themselves. *)
SyncLosesNothing ==
  [][SyncStep =>
       /\ \/ active' = active
          \/ At("no-stack") /\ job.prune /\ ~job.dry /\ job.pulumi = {}
       /\ \A s \in Services : deps[s] # NULL /\ deps'[s] = NULL =>
            /\ job.prune /\ ~job.dry
            /\ ~active' \/ (At("write") /\ s \notin Listed(job.live))
       /\ quiet /\ nodes # {} => nodes' = nodes]_vars

(* docs/registry.md:116 and sync.go:78-82: a clean sync with --prune deletes the
   rows of the services that kubectl no longer lists.  It only flags them. *)
PruneRemovesServices ==
  At("report") /\ job.ok /\ job.prune /\ ~job.dry /\ quiet => ServicesRemove = {}

(* docs/registry.md:89 and :112: a clean sync that flagged nothing leaves one row
   per node of the cluster.  The registry-backed client cannot see the cluster,
   so it does not hold. *)
SyncRecoversNodes ==
  At("report") /\ job.marked /\ quiet /\ job.drift = 0 =>
    {r.host : r \in nodes} = members
=============================================================================
