-------------------------- MODULE HetznerLifecycle --------------------------
(***************************************************************************)
(* One Hetzner cluster over its lifetimes: `up`, `add-node`, `remove-node` *)
(* and `destroy`, run one after the other, against the cloud project and   *)
(* the inventory the registry keeps of it.                                 *)
(*                                                                         *)
(* Every call to the cloud or to the registry may fail, and the process    *)
(* may die between any two of them.  What a command leaves behind is what  *)
(* the next one starts from; the reconciler is what brings cloud and       *)
(* inventory together again.                                               *)
(***************************************************************************)
EXTENDS Naturals, Sequences

CONSTANTS
  ControlPlane,  \* the control-plane node, named like the cluster
  Workers,       \* names of worker nodes
  NULL,
  MaxCommands,   \* bound: commands of a behaviour
  MaxFaults      \* bound: failed calls and crashes of a behaviour

ASSUME HetznerAssumption ==
  /\ ControlPlane \notin Workers
  /\ MaxCommands \in Nat /\ MaxFaults \in Nat

VARIABLES
  cloud,      \* live resources of the project that carry the cluster's labels
  nextX,      \* the next external id of the cloud
  rows,       \* cluster_resources rows with provider hetzner
  nextRow,    \* the next row id
  lifetime,   \* number of cluster rows written so far
  active,     \* the last of them has destroyed_at = NULL
  job,        \* the running command
  warned,     \* the last destroy printed a warning
  commands,   \* commands started so far
  faults      \* calls that failed and crashes so far

vars == <<cloud, nextX, rows, nextRow, lifetime, active, job, warned, commands,
          faults>>
world == <<cloud, nextX>>
inventory == <<rows, nextRow, lifetime, active>>

Nodes == {ControlPlane} \cup Workers
Types == {"server", "firewall", "network", "volume"}

\* Mutant: volumes are not among the fetchers.
FetchersNoVolume == <<"server", "firewall", "network">>

\* The resource types of Reconcile's fetchers that clusterbox creates, in
\* their order.
Fetchers == <<"server", "firewall", "network", "volume">>

\* Network and firewall are named after the cluster, server and volume after
\* the node.
Owner(t, n) == IF t \in {"network", "firewall"} THEN ControlPlane ELSE n

Named(t, n) == {c \in cloud : c.type = t /\ c.node = Owner(t, n)}

Resource == [x: Nat, type: Types, node: Nodes, on: Nat \cup {NULL}]
Row == [id: Nat, lt: Nat, x: Nat, type: Types, live: BOOLEAN]

\* Mutant: the fetcher index starts at zero.
IdleFromZero == [cmd |-> "none", step |-> "idle", node |-> ControlPlane,
                 k |-> 0, adds |-> {}, gone |-> {}, left |-> {}, row |-> NULL]

Idle == [cmd |-> "none", step |-> "idle", node |-> ControlPlane, k |-> 1,
         adds |-> {}, gone |-> {}, left |-> {}, row |-> NULL]

Goto(s) == job' = [job EXCEPT !.step = s]
At(s) == job.step = s

Fault == faults < MaxFaults /\ faults' = faults + 1
NoFault == UNCHANGED faults

-----------------------------------------------------------------------------
(* The registry, as these commands use it (module Registry has its methods). *)

LiveRows == {r \in rows : active /\ r.lt = lifetime /\ r.live}

RecordResource(x, t) ==
  /\ active
  /\ rows' = rows \cup {[id |-> nextRow, lt |-> lifetime, x |-> x, type |-> t,
                         live |-> TRUE]}
  /\ nextRow' = nextRow + 1
  /\ UNCHANGED <<lifetime, active>>

MarkResourceDestroyed(id) ==
  /\ rows' = {IF r.id = id THEN [r EXCEPT !.live = FALSE] ELSE r : r \in rows}
  /\ UNCHANGED <<nextRow, lifetime, active>>

UpsertCluster ==
  /\ lifetime' = IF active THEN lifetime ELSE lifetime + 1
  /\ active' = TRUE
  /\ UNCHANGED <<rows, nextRow>>

MarkClusterDestroyed == active' = FALSE /\ UNCHANGED <<rows, nextRow, lifetime>>

-----------------------------------------------------------------------------
(* The cloud. *)

Create(t, n) ==
  /\ cloud' = cloud \cup {[x |-> nextX, type |-> t, node |-> Owner(t, n),
                           on |-> NULL]}
  /\ nextX' = nextX + 1

Servers == {c \in cloud : c.type = "server"}

\* The cloud rejects deleting a resource that is still attached to a server:
\* a volume in use, and a firewall or network any server carries.
InUse(c) == \/ c.type = "volume" /\ \E s \in Servers : s.x = c.on
            \/ c.type \in {"firewall", "network"} /\ Servers # {}

DeleteFromCloud(c) == cloud' = cloud \ {c} /\ UNCHANGED nextX

-----------------------------------------------------------------------------
(* Commands start from idle. *)

Start(cmd, step, n) ==
  /\ At("idle")
  /\ commands < MaxCommands /\ commands' = commands + 1
  /\ job' = [Idle EXCEPT !.cmd = cmd, !.step = step, !.node = n]
  /\ UNCHANGED <<world, inventory, faults>>

StartUp == Start("up", "upsert", ControlPlane) /\ UNCHANGED warned

\* AddNode needs the control plane's private address; worker names carry a
\* timestamp and are never used again.
StartAddNode ==
  /\ Named("server", ControlPlane) # {}
  /\ \E w \in Workers : /\ \A c \in cloud : c.node # w
                        /\ Start("add-node", "network", w)
  /\ UNCHANGED warned

StartRemoveNode ==
  /\ active
  /\ \E w \in Workers : Start("remove-node", "delete", w)
  /\ UNCHANGED warned

\* RunDestroyWith refuses a cluster GetCluster does not find.
StartDestroy ==
  active /\ Start("destroy", "reconcile", ControlPlane) /\ warned' = FALSE

\* The command returns an error, or the process dies.
Stop ==
  /\ ~At("idle")
  /\ job' = Idle
  /\ Fault
  /\ UNCHANGED <<world, inventory, warned, commands>>

-----------------------------------------------------------------------------
(* Provision and AddNode: CreateClusterResources. *)

\* Provision registers the cluster before it creates anything; a failure is
\* only warned about.
RegisterEarly ==
  /\ At("upsert") /\ Goto("network")
  /\ \/ UpsertCluster /\ NoFault
     \/ UNCHANGED inventory /\ Fault
  /\ UNCHANGED <<world, warned, commands>>

\* onCreated: Provision records the resource, best effort; AddNode passes nil.
Notify(x, t) ==
  \/ job.cmd = "up" /\ RecordResource(x, t) /\ NoFault
  \/ job.cmd = "up" /\ active /\ UNCHANGED inventory /\ Fault
  \/ (job.cmd # "up" \/ ~active) /\ UNCHANGED inventory /\ NoFault

\* The name is looked up and the resource reused if it exists.
Reuse(t, next) ==
  /\ At(t) /\ Goto(next)
  /\ \E c \in Named(t, job.node) : Notify(c.x, t)
  /\ UNCHANGED <<world, warned, commands>>

EnsureShared(t, next) ==
  \/ Reuse(t, next)
  \/ /\ At(t) /\ Goto(next)
     /\ Named(t, job.node) = {}
     /\ Create(t, job.node)
     /\ Notify(nextX, t)
     /\ UNCHANGED <<warned, commands>>

EnsureClusterNetwork == EnsureShared("network", "firewall")
EnsureFirewall == EnsureShared("firewall", "server")

\* A server or volume is created first and waited for in a second call; it is
\* recorded only when the wait is over.
Begin(t, wait) ==
  /\ At(t) /\ Goto(wait)
  /\ Named(t, job.node) = {}
  /\ Create(t, job.node)
  /\ UNCHANGED <<inventory, warned, commands, faults>>

EnsureServer ==
  \/ Reuse("server", "volume")
  \/ Begin("server", "server-wait")
  \/ /\ At("server-wait") /\ Goto("volume")
     /\ \E c \in Named("server", job.node) : Notify(c.x, "server")
     /\ UNCHANGED <<world, warned, commands>>

\* A reused volume is taken to be attached already.
EnsureVolume ==
  \/ Reuse("volume", "install")
  \/ Begin("volume", "attach")

AttachVolume ==
  /\ At("attach") /\ Goto("install")
  /\ \E v \in Named("volume", job.node), s \in Named("server", job.node) :
       /\ cloud' = (cloud \ {v}) \cup {[v EXCEPT !.on = s.x]}
       /\ Notify(v.x, "volume")
  /\ UNCHANGED <<nextX, warned, commands>>

\* SSH, agent and kubeconfig succeed; then `up` registers the cluster again
\* (best effort) and both commands run the reconcile hook.
Install ==
  /\ At("install") /\ Goto("reconcile")
  /\ \/ job.cmd = "up" /\ UpsertCluster /\ NoFault
     \/ job.cmd = "up" /\ UNCHANGED inventory /\ Fault
     \/ job.cmd # "up" /\ UNCHANGED inventory /\ NoFault
  /\ UNCHANGED <<world, warned, commands>>

\* RemoveNode deletes the server and nothing else; a server that is not found
\* is fine.  The cobra handler goes through RunRemoveNodeWith, whose Hetzner
\* token is empty, and without a token the reconcile hook is skipped.
RemoveNode ==
  /\ At("delete") /\ job' = Idle
  /\ IF Named("server", job.node) = {} THEN UNCHANGED world
     ELSE \E c \in Named("server", job.node) : DeleteFromCloud(c)
  /\ UNCHANGED <<inventory, warned, commands, faults>>

-----------------------------------------------------------------------------
(* Reconcile: type by type, record what is missing, tombstone what is gone. *)

AfterReconcile == IF job.cmd = "destroy" THEN "list" ELSE "idle"

\* Mutant: tombstoned rows count as known.
ListedWithDestroyed(t) == {r \in rows : active /\ r.lt = lifetime /\ r.type = t}

\* ListResourcesByType
Listed(t) == {r \in LiveRows : r.type = t}

\* Mutant: a failed listing is taken for an empty one.
ListTypeEmptyOnError ==
  /\ At("reconcile") /\ job.k <= Len(Fetchers)
  /\ LET t == Fetchers[job.k]
         known == {r.x : r \in Listed(t)}
     IN \E there \in {{c.x : c \in {d \in cloud : d.type = t}}, {}} :
          job' = [job EXCEPT !.step = "write", !.adds = there \ known,
                             !.gone = {r \in Listed(t) : r.x \notin there}]
  /\ UNCHANGED <<world, inventory, warned, commands, faults>>

ListType ==
  /\ At("reconcile") /\ job.k <= Len(Fetchers)
  /\ LET t == Fetchers[job.k]
         there == {c.x : c \in {d \in cloud : d.type = t}}
         known == {r.x : r \in Listed(t)}
     IN job' = [job EXCEPT !.step = "write", !.adds = there \ known,
                           !.gone = {r \in Listed(t) : r.x \notin there}]
  /\ UNCHANGED <<world, inventory, warned, commands, faults>>

RecordMissing ==
  /\ At("write")
  /\ \E x \in job.adds :
       /\ RecordResource(x, Fetchers[job.k])
       /\ job' = [job EXCEPT !.adds = @ \ {x}]
  /\ UNCHANGED <<world, warned, commands, faults>>

TombstoneGone ==
  /\ At("write") /\ job.adds = {}
  /\ \E r \in job.gone :
       /\ MarkResourceDestroyed(r.id)
       /\ job' = [job EXCEPT !.gone = @ \ {r}]
  /\ UNCHANGED <<world, warned, commands, faults>>

NextType ==
  /\ At("write") /\ job.adds = {} /\ job.gone = {}
  /\ job' = [job EXCEPT !.step = "reconcile", !.k = @ + 1]
  /\ UNCHANGED <<world, inventory, warned, commands, faults>>

ReconcileDone ==
  /\ At("reconcile") /\ job.k > Len(Fetchers)
  /\ Goto(AfterReconcile)
  /\ UNCHANGED <<world, inventory, warned, commands, faults>>

\* A list or a write fails, as the recording of a resource does when the
\* cluster has no active row: the reconciler returns, its caller warns.
ReconcileFails ==
  /\ At("reconcile") \/ At("write")
  /\ job' = [job EXCEPT !.step = AfterReconcile, !.adds = {}, !.gone = {}]
  /\ warned' = (warned \/ job.cmd = "destroy")
  /\ \/ Fault
     \/ ~active /\ job.adds # {} /\ NoFault
  /\ UNCHANGED <<world, inventory, commands>>

-----------------------------------------------------------------------------
(* Destroy: sweep what the inventory still has, wave by wave. *)

\* Mutant: all in one wave.
waveOrderFlat(t) == 0

waveOrder(t) ==
  CASE t = "server" -> 0 [] t \in {"volume", "firewall"} -> 1
    [] t = "network" -> 2

ListStragglers ==
  /\ At("list")
  /\ \/ /\ job' = [job EXCEPT !.step = "sweep", !.left = LiveRows]
        /\ UNCHANGED warned /\ NoFault
     \/ Goto("sweep") /\ warned' = TRUE /\ Fault
  /\ UNCHANGED <<world, inventory, commands>>

\* Any row of the lowest wave is next.
NextStragglers ==
  {r \in job.left : \A q \in job.left : waveOrder(r.type) <= waveOrder(q.type)}

\* The delete call: an unknown id, a resource in use or an API error is warned
\* about, and the row is tombstoned all the same.
DeleteStraggler ==
  /\ At("sweep")
  /\ \E r \in NextStragglers :
       /\ job' = [job EXCEPT !.step = "tombstone", !.left = @ \ {r}, !.row = r]
       /\ LET deletable == {c \in cloud : c.x = r.x /\ ~InUse(c)} IN
          \/ /\ \E c \in deletable : DeleteFromCloud(c)
             /\ UNCHANGED warned /\ NoFault
          \/ /\ deletable = {} /\ NoFault
             /\ UNCHANGED world /\ warned' = TRUE
          \/ /\ deletable # {} /\ Fault
             /\ UNCHANGED world /\ warned' = TRUE
  /\ UNCHANGED <<inventory, commands>>

TombstoneStraggler ==
  /\ At("tombstone")
  /\ job' = [job EXCEPT !.step = "sweep", !.row = NULL]
  /\ \/ MarkResourceDestroyed(job.row.id) /\ UNCHANGED warned /\ NoFault
     \/ UNCHANGED inventory /\ warned' = TRUE /\ Fault
  /\ UNCHANGED <<world, commands>>

\* RunDestroyWith stamps the cluster row once the provider is done, whatever
\* was warned about.
MarkDestroyed ==
  /\ At("sweep") /\ job.left = {}
  /\ MarkClusterDestroyed
  /\ Goto("cleanup")
  /\ UNCHANGED <<world, warned, commands, faults>>

\* The context leaves the user's kubeconfig, and destroy returns success.
FinishDestroy ==
  /\ At("cleanup") /\ job' = Idle
  /\ UNCHANGED <<world, inventory, warned, commands, faults>>

-----------------------------------------------------------------------------
Init ==
  /\ cloud = {} /\ nextX = 1
  /\ rows = {} /\ nextRow = 1
  /\ lifetime = 0 /\ active = FALSE
  /\ job = Idle /\ warned = FALSE /\ commands = 0 /\ faults = 0

Next ==
  \/ StartUp \/ StartAddNode \/ StartRemoveNode \/ StartDestroy \/ Stop
  \/ RegisterEarly \/ EnsureClusterNetwork \/ EnsureFirewall \/ EnsureServer
  \/ EnsureVolume \/ AttachVolume \/ Install \/ RemoveNode
  \/ ListType \/ RecordMissing \/ TombstoneGone \/ NextType
  \/ ReconcileDone \/ ReconcileFails
  \/ ListStragglers \/ DeleteStraggler \/ TombstoneStraggler
  \/ MarkDestroyed \/ FinishDestroy

Spec == Init /\ [][Next]_vars

-----------------------------------------------------------------------------
(* Properties. *)

Steps == {"idle", "upsert", "server-wait", "attach", "install", "delete",
          "reconcile", "write", "list", "sweep", "tombstone",
          "cleanup"} \cup Types
Commands == {"none", "up", "add-node", "remove-node", "destroy"}

\* Cloud, inventory and the running command keep their types.
TypeOK ==
  /\ cloud \subseteq Resource /\ nextX \in Nat
  /\ rows \subseteq Row /\ nextRow \in Nat
  /\ lifetime \in Nat /\ active \in BOOLEAN
  /\ job \in [cmd: Commands, step: Steps, node: Nodes, k: 1 .. 5,
              adds: SUBSET Nat, gone: SUBSET Row, left: SUBSET Row,
              row: Row \cup {NULL}]
  /\ warned \in BOOLEAN
  /\ commands \in 0 .. MaxCommands /\ faults \in 0 .. MaxFaults

\* A reconcile that ran to its end leaves the inventory in agreement with the
\* cloud: every live resource has a live row and every live row a resource,
\* whatever partial runs and lost writes came before.
ReconcileExact ==
  At("reconcile") /\ job.k > Len(Fetchers) =>
    {r.x : r \in LiveRows} = {c.x : c \in cloud}

\* A destroy that returned success and printed no warning left nothing in the
\* cloud and no live row: no server, volume or address is billed on in silence.
NothingLeftSilently ==
  At("cleanup") /\ ~warned =>
    cloud = {} /\ \A r \in rows : r.lt = lifetime => ~r.live

\* The waves suffice: while nothing has failed, the sweep never asks the cloud
\* to delete a resource that is still in use.
SweepRespectsUse ==
  At("sweep") /\ ~warned =>
    \A r \in NextStragglers : \A c \in cloud : c.x = r.x => ~InUse(c)

\* A row is tombstoned only for a resource that is gone, or by a sweep that
\* has asked for its deletion; the reconciler never tombstones a live resource.
TombstoneOnlyGone ==
  [][\A r \in rows : r.live /\ [r EXCEPT !.live = FALSE] \in rows' =>
       (\A c \in cloud : c.x # r.x) \/ (At("tombstone") /\ job.row.id = r.id)]_vars

\* docs/security.md: "after every cluster-mutating operation (up, add-node,
\* remove-node, destroy)" the reconciler records what is new and marks destroyed
\* what disappeared, so that between commands the inventory is the cloud.
InventoryBetweenCommands ==
  At("idle") /\ faults = 0 /\ active =>
    {r.x : r \in LiveRows} = {c.x : c \in cloud}

\* "an existing volume is already attached" (stack.go): once the resources of
\* a node are ready its data volume hangs on its server.
VolumeAttached ==
  At("install") => \A v \in Named("volume", job.node) :
    \E s \in Named("server", job.node) : v.on = s.x

\* "tombstone the row regardless so a re-run converges" (provider.go): what
\* is left in the cloud can still be removed by running destroy again.
RerunConverges == At("cleanup") /\ cloud # {} => active
=============================================================================
