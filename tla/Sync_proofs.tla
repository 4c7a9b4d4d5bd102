----------------------------- MODULE Sync_proofs -----------------------------
(***************************************************************************)
(* Proofs about sync and diff on one cluster: for any hosts, Deployment    *)
(* objects and service names, and with the other commands between any two  *)
(* of its registry calls, what the stamp and the summary mean and what a   *)
(* sync never loses.                                                       *)
(***************************************************************************)
EXTENDS Sync, FiniteSetTheorems, WellFoundedInduction, TLAPS

-----------------------------------------------------------------------------
(* The inductive invariant. *)

JobType ==
  [step: SyncSteps \cup {"idle"}, prune: BOOLEAN, dry: BOOLEAN, ok: BOOLEAN,
   pulumi: SUBSET Hosts, rows: SUBSET NodeRow, ups: SUBSET Hosts, dels: SUBSET Hosts,
   live: [Workloads -> Pod \cup {NULL}], deps: [Services -> DeploymentRow \cup {NULL}],
   left: SUBSET Workloads, added: Nat, updated: Nat, drift: Nat, marked: BOOLEAN]

\* TypeOK, with the job's fields and with functions on the whole domain.
Typed ==
  /\ TypeOK /\ job \in JobType
  /\ deps \in [Services -> DeploymentRow \cup {NULL}]
  /\ live \in [Workloads -> Pod \cup {NULL}]

HostsOf(rows) == {r.host : r \in rows}

\* The steps of the node pass, and those up to the loop over the deployments.
NodeSteps == {"pulumi", "no-stack", "list", "upsert", "remove"}
Before == NodeSteps \cup {"kubectl", "deps"}

\* The summary counts from zero.
Counts ==
  /\ job.step \in Before => job.added = 0 /\ job.updated = 0
  /\ job.step \in NodeSteps => job.drift = 0

\* While nothing else runs the node pass compares the rows with themselves.
NodePass ==
  /\ At("no-stack") => job.pulumi = {}
  /\ quiet =>
       /\ At("no-stack") => nodes = {}
       /\ At("list") => job.pulumi = HostsOf(nodes) /\ nodes # {}
       /\ At("upsert") => job.ups \subseteq HostsOf(nodes) /\ job.dels = {} /\ nodes # {}
       /\ At("remove") => job.dels = {} /\ nodes # {}
       /\ job.step \in {"kubectl", "deps", "write"} /\ job.ok /\ job.dry =>
            job.drift = IF nodes = {} THEN 1 ELSE 0

\* The objects the loop is through with when left are left, and their services.
Seen(left) == {w \in Workloads : live[w] # NULL} \ left
Touched(left) == {ServiceOf[w] : w \in Seen(left)}

\* While nothing else runs, what the loop is through with agrees with kubectl,
\* and the rest is as it was.
Agrees(left) ==
  /\ job.live = live
  /\ job.dry => deps = job.deps
  /\ \A s \in Services \ Touched(left) : deps[s] = job.deps[s]
  /\ ~job.dry => \A w \in Seen(left) :
       /\ deps[ServiceOf[w]] # NULL
       /\ ServiceOf[w] \notin Shared => Same(deps[ServiceOf[w]], live[w])

\* A dry run has counted the services it is through with.
Counted(left) ==
  job.dry /\ Shared = {} =>
    /\ job.added = Cardinality({s \in Touched(left) : deps[s] = NULL})
    /\ job.updated = Cardinality({s \in Touched(left) :
                       deps[s] # NULL /\ Diverges(deps[s], live[LastOf(s)])})

\* What the deployment pass has flagged when it is through.
Flagged ==
  /\ job.drift >= Cardinality(ServicesRemove)
  /\ job.dry => job.drift = Cardinality(ServicesRemove) + IF nodes = {} THEN 1 ELSE 0

DeploymentPass ==
  /\ At("write") => job.left \subseteq {w \in Workloads : job.live[w] # NULL}
  /\ quiet =>
       /\ At("deps") => job.live = live
       /\ At("write") => Agrees(job.left) /\ Counted(job.left)
       /\ (At("mark") \/ At("report")) /\ job.ok => Agrees({}) /\ Counted({}) /\ Flagged

IInv == Typed /\ Counts /\ NodePass /\ DeploymentPass

-----------------------------------------------------------------------------
(* The operators of the model. *)

LEMMA StatusTyped == ASSUME NEW s PROVE rolloutStatus(s) \in Statuses
  BY DEF rolloutStatus, Statuses

\* A host with a row keeps that row.
LEMMA WithNodeTyped ==
  ASSUME NEW rows, rows \subseteq NodeRow, \A q, r \in rows : q.host = r.host => q = r,
         NEW n \in NodeRow
  PROVE  /\ WithNode(rows, n) \subseteq NodeRow
         /\ \A q, r \in WithNode(rows, n) : q.host = r.host => q = r
         /\ n.host \in HostsOf(rows) => WithNode(rows, n) = rows
  BY DEF WithNode, HostsOf

\* The next Deployment object is one of those that are left.
LEMMA NextIsLeft ==
  ASSUME NEW left, left \subseteq Workloads, left # {} PROVE NextWorkload(left) \in left
  <1>1. left \subseteq Nat
    BY SyncAssumption DEF SyncAssumption
  <1>2. \E x \in left : \A y \in left : ~ (<<y, x>> \in OpToRel(<, Nat))
    BY <1>1, NatLessThanWellFounded, WFMin
  <1>3. \A x, y \in Nat : <<y, x>> \in OpToRel(<, Nat) <=> y < x
    BY DEF OpToRel
  <1>4. \E w \in left : \A v \in left : w <= v
    <2>1. PICK w \in left : \A v \in left : ~ (<<v, w>> \in OpToRel(<, Nat))
      BY <1>2
    <2>2. \A v \in left : ~ (v < w)
      BY <1>1, <1>3, <2>1
    <2>3. \A v \in left : w <= v
      BY <1>1, <2>2
    <2> QED BY <2>3
  <1> QED BY <1>4 DEF NextWorkload

\* A name that is not shared is that of one object.
LEMMA SoleObject ==
  ASSUME NEW w \in Workloads, live[w] # NULL, ServiceOf[w] \notin Shared
  PROVE  /\ \A v \in Workloads : live[v] # NULL /\ ServiceOf[v] = ServiceOf[w] => v = w
         /\ LastOf(ServiceOf[w]) = w
  <1>1. ServiceOf[w] \in Services /\ w <= w
    BY SyncAssumption DEF SyncAssumption
  <1>2. \A v \in Workloads : live[v] # NULL /\ ServiceOf[v] = ServiceOf[w] => v = w
    BY <1>1 DEF Shared
  <1> QED BY <1>1, <1>2 DEF LastOf

\* The services the whole loop is through with are those kubectl lists.
LEMMA AllTouched == Touched({}) = Listed(live)
  BY DEF Touched, Seen, Listed

LEMMA FiniteServices ==
  ASSUME NEW S, S \subseteq Services PROVE IsFiniteSet(S) /\ Cardinality(S) \in Nat
  BY SyncAssumption, FS_Subset, FS_CardinalityType DEF SyncAssumption

-----------------------------------------------------------------------------
(* Types. *)

\* A step of the sync that leaves the table alone.
LEMMA JobStepTyped ==
  ASSUME Typed, job' \in JobType, UNCHANGED <<table, world>>, quiet' \in BOOLEAN,
         job'.marked => job'.step = "report" /\ job'.ok /\ ~job'.dry,
         faults' \in 0 .. MaxFaults, events' = events, syncs' \in 0 .. MaxSyncs
  PROVE  Typed'
  BY DEF Typed, TypeOK, table, world, JobType, At

LEMMA FaultTyped ==
  ASSUME Typed, Fault \/ NoFault PROVE faults' \in 0 .. MaxFaults
  BY SyncAssumption DEF SyncAssumption, Typed, TypeOK, Fault, NoFault

LEMMA NoMark == ASSUME Typed, ~At("report") PROVE ~job.marked
  BY DEF Typed, TypeOK

LEMMA InitIInv == Init => IInv
  <1> SUFFICES ASSUME Init PROVE IInv
    OBVIOUS
  <1>1. deps = NoDeps /\ deps \in [Services -> DeploymentRow \cup {NULL}]
        /\ \A s \in Services : deps[s] = NULL
    BY DEF Init, NoDeps
  <1>2. live = NoLive /\ live \in [Workloads -> Pod \cup {NULL}]
        /\ \A w \in Workloads : live[w] = NULL
    BY DEF Init, NoLive
  <1>3. job = Idle /\ job.step = "idle" /\ ~job.marked
    BY DEF Init, Idle
  <1>4. job \in JobType
    BY <1>1, <1>2, <1>3 DEF Idle, JobType, SyncSteps
  <1>5. /\ nodes \subseteq NodeRow /\ \A q, r \in nodes : q.host = r.host => q = r
        /\ members \subseteq Hosts /\ (~active => nodes = {})
    BY DEF Init, NodeRow, NoNodes
  <1>6. /\ events \in 0 .. MaxEvents /\ faults \in 0 .. MaxFaults /\ syncs \in 0 .. MaxSyncs
    BY SyncAssumption DEF SyncAssumption, Init
  <1>7. TypeOK
    <2>1. active \in BOOLEAN /\ synced = FALSE /\ quiet = TRUE
      BY DEF Init
    <2> QED BY <1>1, <1>2, <1>3, <1>5, <1>6, <2>1 DEF TypeOK
  <1>8. Counts /\ NodePass /\ DeploymentPass
    BY <1>3 DEF Counts, NodePass, DeploymentPass, Before, NodeSteps, At
  <1> QED BY <1>1, <1>2, <1>4, <1>7, <1>8 DEF IInv, Typed

-----------------------------------------------------------------------------
(* The other commands. *)

LEMMA OthersAreEvents == Others => Event
  BY DEF Others, Up, Destroy, Join, RecordNode, Leave, ForgetNode, Rollout, RecordDeployment,
         DeleteDeployment

LEMMA EventTyped == ASSUME Typed, Others PROVE Typed'
  <1>1. /\ job' = job /\ quiet' = FALSE /\ faults' = faults /\ syncs' = syncs
        /\ events' \in 0 .. MaxEvents
    BY OthersAreEvents, SyncAssumption DEF SyncAssumption, Typed, TypeOK, Event
  <1> DEFINE Rows == /\ active \in BOOLEAN /\ synced \in BOOLEAN /\ nodes \subseteq NodeRow
                     /\ \A q, r \in nodes : q.host = r.host => q = r
                     /\ deps \in [Services -> DeploymentRow \cup {NULL}]
                     /\ ~active => ~synced /\ nodes = {} /\ deps = NoDeps
  <1> DEFINE World == members \subseteq Hosts /\ live \in [Workloads -> Pod \cup {NULL}]
  <1>2. Rows /\ World
    BY DEF Typed, TypeOK
  <1>3. SUFFICES Rows' /\ World'
    BY <1>1, <1>3 DEF Typed, TypeOK, At
  <1>4. CASE Up
    BY <1>2, <1>4 DEF Up, world
  <1>5. CASE Destroy
    BY <1>2, <1>5 DEF Destroy, NoNodes, NoDeps, NoLive
  <1>6. ASSUME NEW h \in Hosts, Join(h) \/ Leave(h) PROVE Rows' /\ World'
    BY <1>2, <1>6 DEF Join, Leave, table
  <1>7. ASSUME NEW h \in Hosts, RecordNode(h) PROVE Rows' /\ World'
    <2>1. [host |-> h, joined |-> "join"] \in NodeRow
      BY DEF NodeRow
    <2> QED BY <1>2, <1>7, <2>1, WithNodeTyped DEF RecordNode, world
  <1>8. ASSUME NEW h \in Hosts, ForgetNode(h) PROVE Rows' /\ World'
    BY <1>2, <1>8 DEF ForgetNode, world
  <1>9. ASSUME NEW w \in Workloads, Rollout(w) PROVE Rows' /\ World'
    BY <1>2, <1>9 DEF Rollout, table
  <1>10. ASSUME NEW w \in Workloads, RecordDeployment(w) PROVE Rows' /\ World'
    <2>1. PICK k \in Kinds, v \in Versions :
            deps' = [deps EXCEPT ![ServiceOf[w]] =
                       [version |-> v, status |-> "rolled_out", kind |-> k]]
      BY <1>10 DEF RecordDeployment
    <2>2. [version |-> v, status |-> "rolled_out", kind |-> k] \in DeploymentRow
      BY DEF DeploymentRow, Statuses
    <2>3. deps' \in [Services -> DeploymentRow \cup {NULL}]
      BY <1>2, <2>1, <2>2
    <2> QED BY <1>2, <1>10, <2>3 DEF RecordDeployment, world
  <1>11. ASSUME NEW w \in Workloads, DeleteDeployment(w) PROVE Rows' /\ World'
    <2>1. ServiceOf[w] \in Services
      BY SyncAssumption DEF SyncAssumption
    <2>2. active
      BY <1>2, <1>11, <2>1 DEF DeleteDeployment, NoDeps
    <2> QED BY <1>2, <1>11, <2>2 DEF DeleteDeployment, world
  <1> QED BY <1>4, <1>5, <1>6, <1>7, <1>8, <1>9, <1>10, <1>11 DEF Others

LEMMA EventIInv == ASSUME IInv, Others PROVE IInv'
  <1>1. job' = job /\ quiet' = FALSE
    BY OthersAreEvents DEF Event
  <1>2. Counts' /\ NodePass' /\ DeploymentPass'
    BY <1>1 DEF IInv, Counts, NodePass, DeploymentPass, At
  <1> QED BY <1>2, EventTyped DEF IInv

-----------------------------------------------------------------------------
(* The node pass. *)

LEMMA StartSyncIInv == ASSUME IInv, StartSync PROVE IInv'
  <1>1. PICK prune \in BOOLEAN, dry \in BOOLEAN :
          job' = [Idle EXCEPT !.step = "pulumi", !.prune = prune, !.dry = dry]
    BY DEF StartSync
  <1>2. job' = [step |-> "pulumi", prune |-> prune, dry |-> dry, ok |-> TRUE,
                pulumi |-> {}, rows |-> {}, ups |-> {}, dels |-> {},
                live |-> NoLive, deps |-> NoDeps, left |-> {},
                added |-> 0, updated |-> 0, drift |-> 0, marked |-> FALSE]
    BY <1>1 DEF Idle
  <1>3. NoLive \in [Workloads -> Pod \cup {NULL}] /\ NoDeps \in [Services -> DeploymentRow \cup {NULL}]
    BY DEF NoLive, NoDeps
  <1>4. /\ job' \in JobType /\ job'.step = "pulumi" /\ ~job'.marked
        /\ job'.added = 0 /\ job'.updated = 0 /\ job'.drift = 0
    BY <1>2, <1>3 DEF JobType, SyncSteps
  <1>5. UNCHANGED <<table, world, events, faults>> /\ quiet' = TRUE
    BY DEF StartSync
  <1>6. syncs' \in 0 .. MaxSyncs /\ faults' \in 0 .. MaxFaults
    BY SyncAssumption DEF SyncAssumption, StartSync, IInv, Typed, TypeOK
  <1>7. Typed'
    BY <1>4, <1>5, <1>6, JobStepTyped DEF IInv
  <1>8. Counts' /\ NodePass' /\ DeploymentPass'
    BY <1>4 DEF Counts, NodePass, DeploymentPass, Before, NodeSteps, At
  <1> QED BY <1>7, <1>8 DEF IInv

\* What a step of the sync leaves alone besides the table.
LEMMA MineTyped ==
  ASSUME Typed, Mine, UNCHANGED table, Fault \/ NoFault, job' \in JobType,
         job'.marked => job'.step = "report" /\ job'.ok /\ ~job'.dry
  PROVE  Typed'
  BY JobStepTyped, FaultTyped DEF Typed, TypeOK, Mine

LEMMA NodesFailIInv == ASSUME IInv, NodesFail PROVE IInv'
  <1>1. /\ job' = [job EXCEPT !.step = "kubectl", !.ok = FALSE]
        /\ UNCHANGED table /\ Mine /\ (Fault \/ NoFault)
        /\ job.step \in NodeSteps
    BY DEF NodesFail, NodeSteps, At
  <1>2. /\ job' \in JobType /\ job'.step = "kubectl" /\ job'.ok = FALSE
        /\ job'.added = job.added /\ job'.updated = job.updated /\ job'.marked = job.marked
    BY <1>1 DEF IInv, Typed, JobType, SyncSteps
  <1>3. ~job.marked
    BY <1>1, NoMark DEF IInv, NodeSteps, At
  <1>4. Typed'
    BY <1>1, <1>2, <1>3, MineTyped DEF IInv
  <1>5. Counts' /\ NodePass' /\ DeploymentPass'
    BY <1>1, <1>2 DEF IInv, Counts, NodePass, DeploymentPass, Before, NodeSteps, At
  <1> QED BY <1>4, <1>5 DEF IInv

LEMMA ListClusterNodesIInv == ASSUME IInv, ListClusterNodes PROVE IInv'
  <1>1. /\ job' = [job EXCEPT !.step = IF nodes = {} THEN "no-stack" ELSE "list",
                              !.pulumi = {r.host : r \in nodes}]
        /\ UNCHANGED table /\ Mine /\ NoFault /\ job.step = "pulumi"
    BY DEF ListClusterNodes, At
  <1>2. {r.host : r \in nodes} \subseteq Hosts
    BY DEF IInv, Typed, TypeOK, NodeRow
  <1>3. /\ job' \in JobType /\ job'.step = IF nodes = {} THEN "no-stack" ELSE "list"
        /\ job'.pulumi = HostsOf(nodes)
        /\ job'.added = job.added /\ job'.updated = job.updated /\ job'.marked = job.marked
        /\ job'.drift = job.drift
    BY <1>1, <1>2 DEF IInv, Typed, JobType, SyncSteps, HostsOf
  <1>4. Typed'
    BY <1>1, <1>3, NoMark, MineTyped DEF IInv, At
  <1>5. NodePass'
    BY <1>1, <1>3 DEF NodePass, At, HostsOf, table
  <1>6. Counts' /\ DeploymentPass'
    BY <1>1, <1>3 DEF IInv, Counts, DeploymentPass, Before, NodeSteps, At
  <1> QED BY <1>4, <1>5, <1>6 DEF IInv

LEMMA PruneClusterIInv == ASSUME IInv, PruneCluster PROVE IInv'
  <1>1. job.step = "no-stack" /\ Mine /\ (Fault \/ NoFault) /\ ~job.dry
    BY DEF PruneCluster, At
  <1>2. PICK ok \in {job.ok, FALSE} : job' = [job EXCEPT !.step = "kubectl", !.ok = ok]
    <2>1. job = [job EXCEPT !.ok = job.ok] /\ job.ok \in BOOLEAN
      BY DEF IInv, Typed, JobType
    <2>2. CASE Goto("kubectl")
      BY <2>1, <2>2 DEF IInv, Typed, JobType, Goto
    <2>3. CASE job' = [job EXCEPT !.step = "kubectl", !.ok = FALSE]
      BY <2>3
    <2> QED BY <2>2, <2>3 DEF PruneCluster
  <1>3. /\ job' \in JobType /\ job'.step = "kubectl" /\ job'.dry = job.dry
        /\ job'.added = job.added /\ job'.updated = job.updated /\ job'.marked = job.marked
    BY <1>2 DEF IInv, Typed, JobType, SyncSteps
  <1>4. ~job.marked
    BY <1>1, NoMark DEF IInv, At
  <1>5. Typed'
    <2>1. CASE UNCHANGED table
      BY <1>1, <1>3, <1>4, <2>1, MineTyped DEF IInv
    <2>2. CASE active' = FALSE /\ synced' = FALSE /\ nodes' = NoNodes /\ deps' = NoDeps
      <3>1. deps' \in [Services -> DeploymentRow \cup {NULL}] /\ nodes' = {}
        BY <2>2 DEF NoDeps, NoNodes
      <3>2. faults' \in 0 .. MaxFaults
        BY <1>1, FaultTyped DEF IInv
      <3>3. /\ quiet' = quiet /\ members' = members /\ live' = live
            /\ events' = events /\ syncs' = syncs
        BY <1>1 DEF Mine, world
      <3> QED BY <1>3, <1>4, <2>2, <3>1, <3>2, <3>3 DEF IInv, Typed, TypeOK, JobType
    <2> QED BY <2>1, <2>2 DEF PruneCluster
  <1>6. Counts' /\ NodePass' /\ DeploymentPass'
    BY <1>1, <1>3 DEF IInv, Counts, NodePass, DeploymentPass, Before, NodeSteps, At
  <1> QED BY <1>5, <1>6 DEF IInv

LEMMA FlagClusterIInv == ASSUME IInv, FlagCluster PROVE IInv'
  <1>1. /\ job' = [job EXCEPT !.step = "kubectl", !.drift = @ + 1]
        /\ UNCHANGED table /\ Mine /\ NoFault /\ job.step = "no-stack"
    BY DEF FlagCluster, At
  <1>2. job' = [job EXCEPT !.step = "kubectl", !.drift = 1]
    <2>1. job.drift + 1 = 1
      BY <1>1 DEF IInv, Counts, NodeSteps
    <2> QED BY <1>1, <2>1
  <1>3. /\ job' \in JobType /\ job'.step = "kubectl" /\ job'.drift = 1
        /\ job'.added = job.added /\ job'.updated = job.updated /\ job'.marked = job.marked
    BY <1>2 DEF IInv, Typed, JobType, SyncSteps
  <1>4. Typed'
    BY <1>1, <1>3, NoMark, MineTyped DEF IInv, At
  <1>5. NodePass'
    BY <1>1, <1>3 DEF IInv, NodePass, At, Mine, table
  <1>6. Counts' /\ DeploymentPass'
    BY <1>1, <1>3 DEF IInv, Counts, DeploymentPass, Before, NodeSteps, At
  <1> QED BY <1>4, <1>5, <1>6 DEF IInv

LEMMA ListNodesIInv == ASSUME IInv, ListNodes PROVE IInv'
  <1>1. /\ job' = [job EXCEPT !.step = "upsert", !.rows = nodes, !.ups = job.pulumi,
                              !.dels = {r.host : r \in nodes} \ job.pulumi]
        /\ UNCHANGED table /\ Mine /\ NoFault /\ job.step = "list"
    BY DEF ListNodes, At
  <1>2. HostsOf(nodes) \subseteq Hosts /\ nodes \subseteq NodeRow
    BY DEF IInv, Typed, TypeOK, NodeRow, HostsOf
  <1>3. /\ job' \in JobType /\ job'.step = "upsert" /\ job'.ups = job.pulumi
        /\ job'.dels = HostsOf(nodes) \ job.pulumi /\ job'.drift = job.drift
        /\ job'.added = job.added /\ job'.updated = job.updated /\ job'.marked = job.marked
    BY <1>1, <1>2 DEF IInv, Typed, JobType, SyncSteps, HostsOf
  <1>4. Typed'
    BY <1>1, <1>3, NoMark, MineTyped DEF IInv, At
  <1>5. HostsOf(nodes)' = HostsOf(nodes) /\ nodes' = nodes /\ quiet' = quiet
    BY <1>1 DEF HostsOf, table, Mine
  <1>6. NodePass'
    BY <1>1, <1>3, <1>5 DEF IInv, NodePass, At
  <1>7. Counts' /\ DeploymentPass'
    BY <1>1, <1>3 DEF IInv, Counts, DeploymentPass, Before, NodeSteps, At
  <1> QED BY <1>4, <1>6, <1>7 DEF IInv

\* The row that is written is the one that was listed, or a new one.
LEMMA UpsertWrites ==
  ASSUME IInv, UpsertNode
  PROVE  \E h \in job.ups : /\ job' = [job EXCEPT !.ups = @ \ {h}]
                            /\ \/ nodes' = nodes
                               \/ /\ ~job.dry /\ active
                                  /\ \E r \in NodeRow : r.host = h /\ nodes' = WithNode(nodes, r)
  <1>1. PICK h \in job.ups :
          /\ job' = [job EXCEPT !.ups = @ \ {h}]
          /\ \/ job.dry /\ UNCHANGED nodes
             \/ /\ ~job.dry /\ active
                /\ LET known == {r \in job.rows : r.host = h}
                   IN \E r \in IF known = {} THEN {[host |-> h, joined |-> "sync"]}
                               ELSE known :
                        nodes' = WithNode(nodes, r)
    BY DEF UpsertNode
  <1>2. h \in Hosts /\ job.rows \subseteq NodeRow
    BY DEF IInv, Typed, JobType
  <1>3. [host |-> h, joined |-> "sync"] \in NodeRow
    BY <1>2 DEF NodeRow
  <1> QED BY <1>1, <1>2, <1>3

LEMMA UpsertNodeIInv == ASSUME IInv, UpsertNode PROVE IInv'
  <1>1. PICK h \in job.ups :
          /\ job' = [job EXCEPT !.ups = @ \ {h}]
          /\ \/ nodes' = nodes
             \/ /\ ~job.dry /\ active
                /\ \E r \in NodeRow : r.host = h /\ nodes' = WithNode(nodes, r)
    BY UpsertWrites
  <1>2. UNCHANGED <<active, synced, deps>> /\ Mine /\ NoFault /\ job.step = "upsert"
    BY DEF UpsertNode, At
  <1>3. /\ job' \in JobType /\ job'.step = "upsert" /\ job'.ups = job.ups \ {h}
        /\ job'.dels = job.dels /\ job'.drift = job.drift
        /\ job'.added = job.added /\ job'.updated = job.updated /\ job'.marked = job.marked
    BY <1>1, <1>2 DEF IInv, Typed, JobType
  <1>4. nodes' \subseteq NodeRow /\ (\A q, r \in nodes' : q.host = r.host => q = r)
        /\ (~active => nodes' = nodes)
    BY <1>1, WithNodeTyped DEF IInv, Typed, TypeOK
  <1>5. quiet' = quiet /\ members' = members /\ live' = live /\ events' = events /\ syncs' = syncs
        /\ faults' = faults
    BY <1>2 DEF Mine, world, NoFault
  <1>6. ~job.marked
    BY <1>2, NoMark DEF IInv, At
  <1>7. Typed'
    BY <1>2, <1>3, <1>4, <1>5, <1>6 DEF IInv, Typed, TypeOK
  <1>8. quiet => nodes' = nodes
    BY <1>1, <1>2, WithNodeTyped DEF IInv, Typed, TypeOK, NodePass, At
  <1>9. NodePass'
    BY <1>2, <1>3, <1>5, <1>8 DEF IInv, NodePass, At, HostsOf
  <1>10. Counts' /\ DeploymentPass'
    BY <1>2, <1>3 DEF IInv, Counts, DeploymentPass, Before, NodeSteps, At
  <1> QED BY <1>7, <1>9, <1>10 DEF IInv

LEMMA DoneIInv == ASSUME IInv, UpsertsDone \/ RemovesDone PROVE IInv'
  <1>1. PICK s \in {"remove", "kubectl"} :
          /\ Goto(s) /\ UNCHANGED table /\ NoFault /\ Mine
          /\ (s = "remove" /\ job.step = "upsert") \/ (s = "kubectl" /\ job.step = "remove")
    BY DEF UpsertsDone, RemovesDone, At
  <1>2. /\ job' \in JobType /\ job'.step = s /\ job'.drift = job.drift /\ job'.dels = job.dels
        /\ job'.added = job.added /\ job'.updated = job.updated /\ job'.marked = job.marked
    BY <1>1 DEF IInv, Typed, JobType, SyncSteps, Goto
  <1>3. ~job.marked
    BY <1>1, NoMark DEF IInv, At
  <1>4. Typed'
    BY <1>1, <1>2, <1>3, MineTyped DEF IInv
  <1>5. nodes' = nodes /\ quiet' = quiet /\ job.drift = 0
    BY <1>1 DEF table, Mine, IInv, Counts, NodeSteps
  <1>6. NodePass'
    BY <1>1, <1>2, <1>5 DEF IInv, NodePass, At
  <1>7. Counts' /\ DeploymentPass'
    BY <1>1, <1>2 DEF IInv, Counts, DeploymentPass, Before, NodeSteps, At
  <1> QED BY <1>4, <1>6, <1>7 DEF IInv

LEMMA RemoveNodeIInv == ASSUME IInv, RemoveNode PROVE IInv'
  <1>1. PICK h \in job.dels :
          /\ job' = [job EXCEPT !.dels = @ \ {h}]
          /\ nodes' = IF job.dry THEN nodes ELSE {r \in nodes : r.host # h}
    BY DEF RemoveNode
  <1>2. UNCHANGED <<active, synced, deps>> /\ Mine /\ NoFault /\ job.step = "remove"
    BY DEF RemoveNode, At
  <1>3. /\ job' \in JobType /\ job'.step = "remove" /\ job'.drift = job.drift
        /\ job'.added = job.added /\ job'.updated = job.updated /\ job'.marked = job.marked
    BY <1>1, <1>2 DEF IInv, Typed, JobType
  <1>4. quiet' = quiet /\ members' = members /\ live' = live /\ events' = events /\ syncs' = syncs
        /\ faults' = faults
    BY <1>2 DEF Mine, world, NoFault
  <1>5. ~job.marked /\ nodes' \subseteq nodes
    BY <1>1, <1>2, NoMark DEF IInv, At
  <1>6. Typed'
    BY <1>2, <1>3, <1>4, <1>5 DEF IInv, Typed, TypeOK
  <1>7. ~quiet
    BY <1>1, <1>2 DEF IInv, NodePass, At
  <1>8. Counts' /\ NodePass' /\ DeploymentPass'
    BY <1>2, <1>3, <1>4, <1>7 DEF IInv, Counts, NodePass, DeploymentPass, Before, NodeSteps, At
  <1> QED BY <1>6, <1>8 DEF IInv

-----------------------------------------------------------------------------
(* The deployment pass. *)

LEMMA FetchIInv == ASSUME IInv, FetchDeployments PROVE IInv'
  <1>1. /\ job' = [job EXCEPT !.step = "deps", !.live = live]
        /\ UNCHANGED table /\ Mine /\ NoFault /\ job.step = "kubectl"
    BY DEF FetchDeployments, At
  <1>2. /\ job' \in JobType /\ job'.step = "deps" /\ job'.live = live
        /\ job'.added = job.added /\ job'.updated = job.updated /\ job'.marked = job.marked
        /\ job'.drift = job.drift /\ job'.ok = job.ok /\ job'.dry = job.dry
    BY <1>1 DEF IInv, Typed, JobType, SyncSteps
  <1>3. Typed'
    BY <1>1, <1>2, NoMark, MineTyped DEF IInv, At
  <1>4. nodes' = nodes /\ quiet' = quiet /\ live' = live
    BY <1>1 DEF table, Mine, world
  <1>5. NodePass' /\ DeploymentPass'
    BY <1>1, <1>2, <1>4 DEF IInv, NodePass, DeploymentPass, At
  <1>6. Counts'
    BY <1>1, <1>2 DEF IInv, Counts, Before, NodeSteps
  <1> QED BY <1>3, <1>5, <1>6 DEF IInv

\* Nothing is touched yet when the loop begins.
LEMMA ListDeploymentsIInv == ASSUME IInv, ListDeployments PROVE IInv'
  <1> DEFINE all == {w \in Workloads : job.live[w] # NULL}
  <1>1. /\ job' = [job EXCEPT !.step = "write", !.deps = deps, !.left = all]
        /\ UNCHANGED table /\ Mine /\ NoFault /\ job.step = "deps"
    BY DEF ListDeployments, At
  <1>2. /\ job' \in JobType /\ job'.step = "write" /\ job'.live = job.live /\ job'.deps = deps
        /\ job'.left = all
        /\ job'.added = job.added /\ job'.updated = job.updated /\ job'.marked = job.marked
        /\ job'.drift = job.drift /\ job'.ok = job.ok /\ job'.dry = job.dry
    BY <1>1 DEF IInv, Typed, JobType, SyncSteps
  <1>3. Typed'
    BY <1>1, <1>2, NoMark, MineTyped DEF IInv, At
  <1>4. nodes' = nodes /\ quiet' = quiet /\ live' = live /\ deps' = deps
    BY <1>1 DEF table, Mine, world
  <1>5. NodePass'
    BY <1>1, <1>2, <1>4 DEF IInv, NodePass, At
  <1>6. ASSUME quiet PROVE Agrees(job.left)' /\ Counted(job.left)'
    <2>1. job.live = live /\ job.added = 0 /\ job.updated = 0
      BY <1>1, <1>6 DEF IInv, DeploymentPass, Counts, Before, At
    <2>2. Touched(job.left)' = {} /\ Seen(job.left)' = {}
      BY <1>2, <1>4, <2>1 DEF Touched, Seen
    <2>3. Agrees(job.left)'
      BY <1>2, <1>4, <2>1, <2>2 DEF Agrees
    <2>4. Counted(job.left)'
      BY <1>2, <2>1, <2>2, FS_EmptySet DEF Counted
    <2> QED BY <2>3, <2>4
  <1>7. DeploymentPass'
    BY <1>2, <1>4, <1>6 DEF DeploymentPass, At
  <1>8. Counts'
    BY <1>2 DEF Counts, Before, NodeSteps
  <1> QED BY <1>3, <1>5, <1>7, <1>8 DEF IInv

LEMMA DeploymentsFailIInv == ASSUME IInv, DeploymentsFail PROVE IInv'
  <1>1. /\ job' = [job EXCEPT !.step = "mark", !.ok = FALSE, !.left = {}]
        /\ UNCHANGED table /\ Mine /\ (Fault \/ NoFault)
        /\ job.step \in {"kubectl", "deps", "write"}
    BY DEF DeploymentsFail, At
  <1>2. job' \in JobType /\ job'.step = "mark" /\ job'.ok = FALSE /\ job'.marked = job.marked
    BY <1>1 DEF IInv, Typed, JobType, SyncSteps
  <1>3. ~job.marked
    BY <1>1, NoMark DEF IInv, At
  <1>4. Typed'
    BY <1>1, <1>2, <1>3, MineTyped DEF IInv
  <1>5. Counts' /\ NodePass' /\ DeploymentPass'
    BY <1>2 DEF Counts, NodePass, DeploymentPass, Before, NodeSteps, At
  <1> QED BY <1>4, <1>5 DEF IInv

\* The service of the object that is next.
LEMMA NextObject ==
  ASSUME IInv, At("write"), job.left # {}, NEW w, w = NextWorkload(job.left)
  PROVE  /\ w \in job.left /\ w \in Workloads /\ ServiceOf[w] \in Services
         /\ job.live[w] \in Pod /\ job.live[w] # NULL
  <1>1. w \in job.left /\ w \in Workloads
    BY NextIsLeft DEF IInv, Typed, JobType
  <1>2. ServiceOf[w] \in Services
    BY <1>1, SyncAssumption DEF SyncAssumption
  <1>3. job.live[w] \in Pod /\ job.live[w] # NULL
    BY <1>1 DEF IInv, DeploymentPass, Typed, JobType
  <1> QED BY <1>1, <1>2, <1>3

LEMMA SameObjects ==
  ASSUME live' = live
  PROVE  Shared' = Shared /\ (\A s : LastOf(s)' = LastOf(s))
  BY DEF Shared, LastOf

LEMMA WriteDeploymentIInv == ASSUME IInv, WriteDeployment PROVE IInv'
  <1> DEFINE w == NextWorkload(job.left)
             s == ServiceOf[w]
             pod == job.live[w]
             old == job.deps[s]
             new == [version |-> pod.version, kind |-> "app", status |-> rolloutStatus(pod.shape)]
  <1>1. /\ job.step = "write" /\ job.left # {} /\ Mine /\ NoFault
        /\ UNCHANGED <<active, synced, nodes>>
    BY DEF WriteDeployment, At
  <1>2. /\ w \in job.left /\ w \in Workloads /\ s \in Services
        /\ pod \in Pod /\ pod # NULL
    BY <1>1, NextObject DEF At
  <1>3. \/ /\ old # NULL /\ Same(old, pod) /\ deps' = deps
           /\ job' = [job EXCEPT !.left = @ \ {w}]
        \/ /\ old = NULL \/ ~Same(old, pod)
           /\ job' = IF old = NULL THEN [job EXCEPT !.left = @ \ {w}, !.added = @ + 1]
                     ELSE [job EXCEPT !.left = @ \ {w}, !.updated = @ + 1]
           /\ \/ job.dry /\ deps' = deps
              \/ ~job.dry /\ active /\ deps' = [deps EXCEPT ![s] = new]
    <2> DEFINE rest == [job EXCEPT !.left = @ \ {w}]
    <2>1. job \in JobType
      BY DEF IInv, Typed
    <2>2. /\ [rest EXCEPT !.added = @ + 1] = [job EXCEPT !.left = @ \ {w}, !.added = @ + 1]
          /\ [rest EXCEPT !.updated = @ + 1] = [job EXCEPT !.left = @ \ {w}, !.updated = @ + 1]
      BY <2>1 DEF JobType
    <2> QED BY <2>2 DEF WriteDeployment
  <1>4. new \in DeploymentRow /\ new # NULL /\ Same(new, pod)
    BY <1>2, StatusTyped, SyncAssumption DEF SyncAssumption, DeploymentRow, Kinds, Pod, Same
  <1> HIDE DEF new
  <1>5. /\ job' \in JobType /\ job'.step = "write" /\ job'.left = job.left \ {w}
        /\ job'.live = job.live /\ job'.deps = job.deps /\ job'.dry = job.dry
        /\ job'.ok = job.ok /\ job'.drift = job.drift /\ job'.marked = job.marked
        /\ job'.added = (IF old = NULL THEN job.added + 1 ELSE job.added)
        /\ job'.updated = (IF old # NULL /\ ~Same(old, pod) THEN job.updated + 1 ELSE job.updated)
    <2>1. job \in JobType /\ job.added + 1 \in Nat /\ job.updated + 1 \in Nat
      BY DEF IInv, Typed, JobType
    <2> HIDE DEF w, s, pod, old
    <2>2. CASE job' = [job EXCEPT !.left = @ \ {w}] /\ old # NULL /\ Same(old, pod)
      BY <1>1, <2>1, <2>2 DEF JobType
    <2>3. CASE job' = [job EXCEPT !.left = @ \ {w}, !.added = @ + 1] /\ old = NULL
      BY <1>1, <2>1, <2>3 DEF JobType
    <2>4. CASE /\ job' = [job EXCEPT !.left = @ \ {w}, !.updated = @ + 1]
               /\ old # NULL /\ ~Same(old, pod)
      BY <1>1, <2>1, <2>4 DEF JobType
    <2> QED BY <1>3, <2>2, <2>3, <2>4
  <1>6. /\ quiet' = quiet /\ members' = members /\ live' = live /\ events' = events
        /\ syncs' = syncs /\ faults' = faults /\ ~job.marked
    BY <1>1, NoMark DEF Mine, world, NoFault, IInv, At
  <1>7. deps' \in [Services -> DeploymentRow \cup {NULL}] /\ (~active => deps' = deps)
    BY <1>3, <1>4 DEF IInv, Typed
  <1>8. Typed'
    BY <1>1, <1>5, <1>6, <1>7 DEF IInv, Typed, TypeOK
  <1>9. ASSUME quiet PROVE Agrees(job.left)' /\ Counted(job.left)'
    <2>1. Agrees(job.left) /\ Counted(job.left) /\ live[w] = pod
      BY <1>1, <1>9 DEF IInv, DeploymentPass, Agrees, At
    <2>2. /\ Seen(job.left)' = Seen(job.left) \cup {w} /\ w \notin Seen(job.left)
          /\ \A v \in Seen(job.left) : v \in Workloads /\ live[v] # NULL /\ v # w
      BY <1>2, <1>5, <1>6, <2>1 DEF Seen
    <2>3. Touched(job.left)' = Touched(job.left) \cup {s}
      BY <2>2 DEF Touched
    <2>4. Shared' = Shared
      BY <1>6, SameObjects
    <2>5. s \notin Shared => /\ LastOf(s) = w /\ s \notin Touched(job.left)
                             /\ \A v \in Seen(job.left) : ServiceOf[v] # s
      BY <1>2, <2>1, <2>2, SoleObject DEF Touched
    <2>6. s \notin Touched(job.left) => deps[s] = old
      BY <1>2, <2>1 DEF Agrees
    <2> HIDE DEF w, s, pod, old
    <2>7. Agrees(job.left)'
      <3>1. job'.live = live' /\ (job'.dry => deps' = job'.deps)
        BY <1>3, <1>5, <1>6, <2>1 DEF Agrees
      <3>2. \A t \in Services \ Touched(job.left)' : deps'[t] = job'.deps[t]
        BY <1>3, <1>5, <2>1, <2>3 DEF Agrees, IInv, Typed
      <3>3. ASSUME ~job.dry, NEW v \in Seen(job.left)
            PROVE  /\ deps'[ServiceOf[v]] # NULL
                   /\ ServiceOf[v] \notin Shared => Same(deps'[ServiceOf[v]], live[v])
        <4>1. /\ deps[ServiceOf[v]] # NULL
              /\ ServiceOf[v] \notin Shared => Same(deps[ServiceOf[v]], live[v])
          BY <2>1, <3>3 DEF Agrees
        <4>2. CASE ServiceOf[v] = s
          BY <1>2, <1>3, <1>4, <2>5, <3>3, <4>1, <4>2 DEF IInv, Typed
        <4>3. CASE ServiceOf[v] # s
          <5>1. ServiceOf[v] \in Services
            BY <2>2, SyncAssumption DEF SyncAssumption
          <5> QED BY <1>3, <4>1, <4>3, <5>1 DEF IInv, Typed
        <4> QED BY <4>2, <4>3
      <3>4. ASSUME ~job.dry
            PROVE  deps'[s] # NULL /\ (s \notin Shared => Same(deps'[s], pod))
        <4>1. CASE deps' = [deps EXCEPT ![s] = new]
          BY <1>2, <1>4, <4>1 DEF IInv, Typed
        <4>2. CASE deps' = deps /\ old # NULL /\ Same(old, pod)
          <5>1. s \in Touched(job.left) => deps[s] # NULL
            BY <2>1, <3>4 DEF Agrees, Touched
          <5> QED BY <2>5, <2>6, <4>2, <5>1
        <4> QED BY <1>3, <3>4, <4>1, <4>2
      <3>5. s = ServiceOf[w]
        BY DEF s
      <3>6. ~job'.dry => \A v \in Seen(job.left)' :
              /\ deps'[ServiceOf[v]] # NULL
              /\ ServiceOf[v] \notin Shared' => Same(deps'[ServiceOf[v]], live'[v])
        BY <1>5, <1>6, <2>1, <2>2, <2>4, <3>3, <3>4, <3>5
      <3> QED BY <3>1, <3>2, <3>6 DEF Agrees, Same
    <2>8. Counted(job.left)'
      <3> SUFFICES ASSUME job.dry, Shared = {}
                   PROVE  /\ job'.added = Cardinality({t \in Touched(job.left)' : deps'[t] = NULL})
                          /\ job'.updated = Cardinality({t \in Touched(job.left)' :
                               deps'[t] # NULL /\ Diverges(deps'[t], live'[LastOf(t)'])})
        BY <1>5, <2>4 DEF Counted, Diverges
      <3> DEFINE A == {t \in Touched(job.left) : deps[t] = NULL}
                 U == {t \in Touched(job.left) :
                         deps[t] # NULL /\ Diverges(deps[t], live[LastOf(t)])}
      <3>1. /\ deps' = deps /\ s \notin Touched(job.left) /\ deps[s] = old /\ LastOf(s) = w
            /\ s \notin A /\ s \notin U
        BY <1>3, <2>5, <2>6
      <3>2. Touched(job.left) \subseteq Services
        BY SyncAssumption DEF SyncAssumption, Touched, Seen
      <3>3. IsFiniteSet(A) /\ IsFiniteSet(U)
        BY <3>2, FiniteServices
      <3>4. job.added = Cardinality(A) /\ job.updated = Cardinality(U)
        BY <2>1 DEF Counted
      <3>5. \A t : LastOf(t)' = LastOf(t)
        BY <1>6, SameObjects
      <3>6. Diverges(old, pod) <=> ~Same(old, pod)
        BY DEF Diverges, Same
      <3>7. /\ {t \in Touched(job.left)' : deps'[t] = NULL} = IF old = NULL THEN A \cup {s} ELSE A
            /\ {t \in Touched(job.left)' : deps'[t] # NULL /\ Diverges(deps'[t], live'[LastOf(t)'])}
               = IF old # NULL /\ ~Same(old, pod) THEN U \cup {s} ELSE U
        BY <1>6, <2>1, <2>3, <3>1, <3>5, <3>6
      <3> HIDE DEF A, U
      <3>8. Cardinality(A \cup {s}) = Cardinality(A) + 1 /\ Cardinality(U \cup {s}) = Cardinality(U) + 1
        BY <3>1, <3>3, FS_AddElement
      <3> QED BY <1>5, <3>4, <3>7, <3>8
    <2> QED BY <2>7, <2>8
  <1>10. DeploymentPass'
    BY <1>1, <1>5, <1>6, <1>9 DEF IInv, DeploymentPass, At
  <1>11. Counts' /\ NodePass'
    BY <1>1, <1>5, <1>6 DEF IInv, Counts, NodePass, Before, NodeSteps, At
  <1> QED BY <1>8, <1>10, <1>11 DEF IInv

\* What the loop has left behind stays as long as rows and objects do.
LEMMA AgreesStays ==
  ASSUME Agrees({}), Counted({}), UNCHANGED <<deps, live>>,
         job'.live = job.live, job'.deps = job.deps, job'.dry = job.dry,
         job'.added = job.added, job'.updated = job.updated
  PROVE  Agrees({})' /\ Counted({})'
  <1>1. Shared' = Shared /\ (\A s : LastOf(s)' = LastOf(s))
    BY SameObjects
  <1>2. Seen({})' = Seen({}) /\ Touched({})' = Touched({})
    BY DEF Seen, Touched
  <1> QED BY <1>1, <1>2 DEF Agrees, Counted, Diverges

LEMMA FlagServicesIInv == ASSUME IInv, FlagServices PROVE IInv'
  <1> DEFINE gone == {s \in Services : job.deps[s] # NULL} \ Listed(job.live)
  <1>1. /\ job.step = "write" /\ job.left = {}
        /\ job' = [job EXCEPT !.step = "mark", !.drift = @ + Cardinality(gone)]
        /\ UNCHANGED table /\ NoFault /\ Mine
    BY DEF FlagServices, At
  <1>2. Cardinality(gone) \in Nat
    BY FiniteServices
  <1> HIDE DEF gone
  <1>3. job \in JobType /\ job.drift + Cardinality(gone) \in Nat
    BY <1>2 DEF IInv, Typed, JobType
  <1>4. /\ job' \in JobType /\ job'.step = "mark" /\ job'.drift = job.drift + Cardinality(gone)
        /\ job'.live = job.live /\ job'.deps = job.deps /\ job'.dry = job.dry
        /\ job'.ok = job.ok /\ job'.marked = job.marked
        /\ job'.added = job.added /\ job'.updated = job.updated
    BY <1>1, <1>3 DEF JobType, SyncSteps
  <1>5. Typed'
    BY <1>1, <1>4, NoMark, MineTyped DEF IInv, At
  <1>6. nodes' = nodes /\ deps' = deps /\ live' = live /\ quiet' = quiet
    BY <1>1 DEF table, Mine, world
  <1>7. ASSUME quiet, job.ok PROVE Agrees({})' /\ Counted({})' /\ Flagged'
    <2>1. Agrees({}) /\ Counted({})
      BY <1>1, <1>7 DEF IInv, DeploymentPass, At
    <2>2. Agrees({})' /\ Counted({})'
      BY <1>4, <1>6, <2>1, AgreesStays
    <2>3. gone = ServicesRemove
      BY <2>1, AllTouched DEF gone, ServicesRemove, Agrees
    <2>4. ServicesRemove' = ServicesRemove
      BY <1>6 DEF ServicesRemove, Listed
    <2>5. job.dry => job.drift = IF nodes = {} THEN 1 ELSE 0
      BY <1>1, <1>7 DEF IInv, NodePass, At
    <2>6. job.drift \in Nat
      BY DEF IInv, Typed, JobType
    <2>7. Flagged'
      BY <1>2, <1>4, <1>6, <2>3, <2>4, <2>5, <2>6 DEF Flagged
    <2> QED BY <2>2, <2>7
  <1>8. DeploymentPass'
    BY <1>4, <1>6, <1>7 DEF DeploymentPass, At
  <1>9. Counts' /\ NodePass'
    BY <1>4 DEF Counts, NodePass, Before, NodeSteps, At
  <1> QED BY <1>5, <1>8, <1>9 DEF IInv

\* A step from the mark to the report keeps what the passes have established.
LEMMA ReportKeeps ==
  ASSUME IInv, At("mark"), UNCHANGED <<nodes, deps, live, quiet>>,
         job'.step = "report", job'.ok = job.ok, job'.drift = job.drift,
         job'.live = job.live, job'.deps = job.deps, job'.dry = job.dry,
         job'.added = job.added, job'.updated = job.updated
  PROVE  Counts' /\ NodePass' /\ DeploymentPass'
  <1>1. ServicesRemove' = ServicesRemove
    BY DEF ServicesRemove, Listed
  <1>2. ASSUME quiet, job.ok PROVE Agrees({})' /\ Counted({})' /\ Flagged'
    <2>1. Agrees({}) /\ Counted({}) /\ Flagged
      BY <1>2 DEF IInv, DeploymentPass
    <2> QED BY <1>1, <2>1, AgreesStays DEF Flagged
  <1> QED BY <1>2 DEF Counts, NodePass, DeploymentPass, Before, NodeSteps, At

LEMMA MarkSyncedIInv == ASSUME IInv, MarkSynced PROVE IInv'
  <1>1. /\ job.step = "mark" /\ job.ok /\ ~job.dry /\ (Fault \/ NoFault) /\ Mine
        /\ UNCHANGED <<active, nodes, deps>>
    BY DEF MarkSynced, At
  <1>2. job \in JobType
    BY DEF IInv, Typed
  <1>3. /\ job' \in JobType /\ job'.step = "report" /\ job'.ok = job.ok
        /\ job'.drift = job.drift /\ job'.live = job.live /\ job'.deps = job.deps
        /\ job'.dry = job.dry /\ job'.added = job.added /\ job'.updated = job.updated
    <2>1. CASE job' = [job EXCEPT !.step = "report", !.marked = active]
      BY <1>2, <2>1 DEF IInv, Typed, TypeOK, JobType, SyncSteps
    <2>2. CASE Goto("report")
      BY <1>2, <2>2 DEF Goto, JobType, SyncSteps
    <2> QED BY <2>1, <2>2 DEF MarkSynced
  <1>4. /\ quiet' = quiet /\ members' = members /\ live' = live /\ events' = events
        /\ syncs' = syncs /\ faults' \in 0 .. MaxFaults
    BY <1>1, FaultTyped DEF Mine, world, IInv
  <1>5. synced' \in BOOLEAN /\ (~active => ~synced')
    BY DEF MarkSynced, IInv, Typed, TypeOK
  <1>6. Typed'
    <2>1. /\ job'.marked => At("report")' /\ job'.ok /\ ~job'.dry
          /\ job'.step \in SyncSteps
      BY <1>1, <1>3 DEF At, SyncSteps
    <2> QED BY <1>1, <1>3, <1>4, <1>5, <2>1 DEF IInv, Typed, TypeOK
  <1>7. Counts' /\ NodePass' /\ DeploymentPass'
    BY <1>1, <1>3, <1>4, ReportKeeps DEF At
  <1> QED BY <1>6, <1>7 DEF IInv

LEMMA LeaveStampIInv == ASSUME IInv, LeaveStamp PROVE IInv'
  <1>1. job.step = "mark" /\ Goto("report") /\ UNCHANGED table /\ NoFault /\ Mine
    BY DEF LeaveStamp, At
  <1>2. /\ job' \in JobType /\ job'.step = "report" /\ job'.ok = job.ok
        /\ job'.drift = job.drift /\ job'.live = job.live /\ job'.deps = job.deps
        /\ job'.dry = job.dry /\ job'.added = job.added /\ job'.updated = job.updated
        /\ job'.marked = job.marked
    BY <1>1 DEF IInv, Typed, JobType, SyncSteps, Goto
  <1>3. Typed'
    BY <1>1, <1>2, NoMark, MineTyped DEF IInv, At
  <1>4. nodes' = nodes /\ deps' = deps /\ live' = live /\ quiet' = quiet
    BY <1>1 DEF table, Mine, world
  <1>5. Counts' /\ NodePass' /\ DeploymentPass'
    BY <1>1, <1>2, <1>4, ReportKeeps DEF At
  <1> QED BY <1>3, <1>5 DEF IInv

LEMMA ReportIInv == ASSUME IInv, Report PROVE IInv'
  <1>1. UNCHANGED table /\ NoFault /\ Mine
    BY DEF Report
  <1>2. NoLive \in [Workloads -> Pod \cup {NULL}] /\ NoDeps \in [Services -> DeploymentRow \cup {NULL}]
    BY DEF NoLive, NoDeps
  <1>3. job' \in JobType /\ job'.step = "idle" /\ ~job'.marked
    BY <1>2 DEF Report, Idle, JobType
  <1>4. Typed'
    BY <1>1, <1>3, MineTyped DEF IInv
  <1>5. Counts' /\ NodePass' /\ DeploymentPass'
    BY <1>3 DEF Counts, NodePass, DeploymentPass, Before, NodeSteps, At
  <1> QED BY <1>4, <1>5 DEF IInv

-----------------------------------------------------------------------------
(* Every step. *)

LEMMA StutterIInv == ASSUME IInv, UNCHANGED vars PROVE IInv'
  <1>1. /\ nodes' = nodes /\ deps' = deps /\ live' = live /\ quiet' = quiet /\ job' = job
    BY DEF vars
  <1>2. Typed'
    BY DEF IInv, Typed, TypeOK, vars, At
  <1>3. Counts' /\ NodePass'
    BY <1>1 DEF IInv, Counts, NodePass, HostsOf, At
  <1>4. Shared' = Shared /\ (\A s : LastOf(s)' = LastOf(s))
    BY <1>1, SameObjects
  <1>5. \A l : Seen(l)' = Seen(l) /\ Touched(l)' = Touched(l)
    BY <1>1 DEF Seen, Touched
  <1>6. Flagged' <=> Flagged
    BY <1>1 DEF Flagged, ServicesRemove, Listed
  <1>7. ASSUME NEW l, Agrees(l) /\ Counted(l) PROVE Agrees(l)' /\ Counted(l)'
    BY <1>1, <1>4, <1>5, <1>7 DEF Agrees, Counted, Diverges
  <1>8. DeploymentPass'
    BY <1>1, <1>6, <1>7 DEF IInv, DeploymentPass, At
  <1> QED BY <1>2, <1>3, <1>8 DEF IInv

LEMMA NextIInv == ASSUME IInv, [Next]_vars PROVE IInv'
  <1>1. CASE Others
    BY <1>1, EventIInv
  <1>2. CASE StartSync
    BY <1>2, StartSyncIInv
  <1>3. CASE NodesFail
    BY <1>3, NodesFailIInv
  <1>4. CASE ListClusterNodes
    BY <1>4, ListClusterNodesIInv
  <1>5. CASE PruneCluster
    BY <1>5, PruneClusterIInv
  <1>6. CASE FlagCluster
    BY <1>6, FlagClusterIInv
  <1>7. CASE ListNodes
    BY <1>7, ListNodesIInv
  <1>8. CASE UpsertNode
    BY <1>8, UpsertNodeIInv
  <1>9. CASE UpsertsDone \/ RemovesDone
    BY <1>9, DoneIInv
  <1>10. CASE RemoveNode
    BY <1>10, RemoveNodeIInv
  <1>11. CASE FetchDeployments
    BY <1>11, FetchIInv
  <1>12. CASE ListDeployments
    BY <1>12, ListDeploymentsIInv
  <1>13. CASE DeploymentsFail
    BY <1>13, DeploymentsFailIInv
  <1>14. CASE WriteDeployment
    BY <1>14, WriteDeploymentIInv
  <1>15. CASE FlagServices
    BY <1>15, FlagServicesIInv
  <1>16. CASE MarkSynced
    BY <1>16, MarkSyncedIInv
  <1>17. CASE LeaveStamp
    BY <1>17, LeaveStampIInv
  <1>18. CASE Report
    BY <1>18, ReportIInv
  <1>19. CASE UNCHANGED vars
    BY <1>19, StutterIInv
  <1> QED
    BY <1>1, <1>2, <1>3, <1>4, <1>5, <1>6, <1>7, <1>8, <1>9, <1>10, <1>11, <1>12, <1>13, <1>14,
       <1>15, <1>16, <1>17, <1>18, <1>19 DEF Next, Reconcile

\* While nothing else runs, a sync knows at every step which services agree with
\* kubectl and what it has flagged: in every state.
THEOREM SyncInvariant == Spec => []IInv
  BY InitIInv, NextIInv, PTL DEF Spec

\* Rows and job keep their types; only an active cluster has rows.
THEOREM SyncTypes == Spec => []TypeOK
  BY SyncInvariant, PTL DEF IInv, Typed

LEMMA StampedIsClean == IInv => StampMeansClean
  <1> SUFFICES ASSUME IInv, At("report"), job.marked, quiet
               PROVE  /\ ServicesAdded = {} /\ ServicesChange \subseteq Shared
                      /\ job.drift = 0 => ServicesRemove = {}
    BY DEF StampMeansClean
  <1>1. job.ok /\ ~job.dry
    BY DEF IInv, Typed, TypeOK
  <1>2. Agrees({}) /\ Flagged
    BY <1>1 DEF IInv, DeploymentPass
  <1>3. \A s \in Listed(live) : \E w \in Seen({}) : ServiceOf[w] = s
    BY DEF Listed, Seen
  <1>4. ServicesAdded = {}
    BY <1>1, <1>2, <1>3 DEF ServicesAdded, Agrees
  <1>5. ASSUME NEW s \in ServicesChange, s \notin Shared PROVE FALSE
    <2>1. PICK w \in Seen({}) : ServiceOf[w] = s
      BY <1>3 DEF ServicesChange
    <2>2. Same(deps[s], live[w])
      BY <1>1, <1>2, <1>5, <2>1 DEF Agrees
    <2>3. LastOf(s) = w
      BY <1>5, <2>1, SoleObject DEF Seen
    <2> QED BY <2>2, <2>3 DEF ServicesChange, Same, Diverges
  <1>6. ServicesRemove \subseteq Services
    BY DEF ServicesRemove
  <1>7. job.drift = 0 => ServicesRemove = {}
    BY <1>2, <1>6, FiniteServices, FS_EmptySet DEF Flagged
  <1> QED BY <1>4, <1>5, <1>7

\* MarkSynced (sync.go) stamps a cluster only when registry and kubectl agree,
\* if nothing else ran meanwhile.
THEOREM StampIsClean == Spec => []StampMeansClean
  BY SyncInvariant, StampedIsClean, PTL

LEMMA DryRunCounts == IInv => DryRunMatchesDiff
  <1> SUFFICES ASSUME IInv, At("report"), job.dry, job.ok, quiet
               PROVE  /\ Shared = {} => /\ job.added = Cardinality(ServicesAdded)
                                        /\ job.updated = Cardinality(ServicesChange)
                      /\ job.drift = Cardinality(ServicesRemove) + IF nodes = {} THEN 1 ELSE 0
    BY DEF DryRunMatchesDiff
  <1>1. Counted({}) /\ Flagged
    BY DEF IInv, DeploymentPass
  <1>2. /\ ServicesAdded = {s \in Touched({}) : deps[s] = NULL}
        /\ ServicesChange = {s \in Touched({}) :
                               deps[s] # NULL /\ Diverges(deps[s], live[LastOf(s)])}
    BY AllTouched DEF ServicesAdded, ServicesChange
  <1> QED BY <1>1, <1>2 DEF Counted, Flagged

\* The summary of a clean dry run (sync.go) counts what computeDiff (diff.go)
\* lists.
THEOREM DryRunIsDiff == Spec => []DryRunMatchesDiff
  BY SyncInvariant, DryRunCounts, PTL

-----------------------------------------------------------------------------
(* What a step of the sync may take away. *)

LosesNothing ==
  SyncStep =>
    /\ \/ active' = active
       \/ At("no-stack") /\ job.prune /\ ~job.dry /\ job.pulumi = {}
    /\ \A s \in Services : deps[s] # NULL /\ deps'[s] = NULL =>
         /\ job.prune /\ ~job.dry
         /\ ~active' \/ (At("write") /\ s \notin Listed(job.live))
    /\ quiet /\ nodes # {} => nodes' = nodes

LEMMA TableKept == ASSUME UNCHANGED table PROVE LosesNothing
  BY DEF table, LosesNothing

LEMMA StepLosesNothing == ASSUME IInv, [Next]_vars PROVE LosesNothing
  <1>1. CASE Others \/ UNCHANGED vars
    BY <1>1, OthersAreEvents DEF Event, vars, LosesNothing, SyncStep
  <1>2. CASE \/ StartSync \/ NodesFail \/ ListClusterNodes \/ FlagCluster \/ ListNodes
             \/ UpsertsDone \/ RemovesDone \/ FetchDeployments \/ ListDeployments
             \/ DeploymentsFail \/ FlagServices \/ LeaveStamp \/ Report
    <2>1. UNCHANGED table
      BY <1>2 DEF StartSync, NodesFail, ListClusterNodes, FlagCluster, ListNodes, UpsertsDone,
                  RemovesDone, FetchDeployments, ListDeployments, DeploymentsFail, FlagServices,
                  LeaveStamp, Report
    <2> QED BY <2>1, TableKept
  <1>3. CASE PruneCluster
    <2>1. At("no-stack") /\ job.prune /\ ~job.dry /\ job.pulumi = {}
      BY <1>3 DEF PruneCluster, IInv, NodePass, At
    <2>2. UNCHANGED table \/ (~active' /\ nodes' = {})
      BY <1>3 DEF PruneCluster, NoNodes
    <2>3. quiet => nodes = {}
      BY <2>1 DEF IInv, NodePass, At
    <2>4. CASE UNCHANGED table
      BY <2>4, TableKept
    <2>5. CASE ~active' /\ nodes' = {}
      BY <2>1, <2>3, <2>5 DEF LosesNothing
    <2> QED BY <2>2, <2>4, <2>5
  <1>4. CASE UpsertNode
    <2>1. PICK h \in job.ups : nodes' = nodes \/ \E r \in NodeRow : r.host = h /\ nodes' = WithNode(nodes, r)
      BY <1>4, UpsertWrites
    <2>2. At("upsert") /\ active' = active /\ deps' = deps
      BY <1>4 DEF UpsertNode
    <2>3. quiet => nodes' = nodes
      BY <2>1, <2>2, WithNodeTyped DEF IInv, Typed, TypeOK, NodePass
    <2> QED BY <2>2, <2>3 DEF LosesNothing
  <1>5. CASE RemoveNode
    <2>1. At("remove") /\ active' = active /\ deps' = deps /\ job.dels # {}
      BY <1>5 DEF RemoveNode
    <2>2. ~quiet
      BY <2>1 DEF IInv, NodePass
    <2> QED BY <2>1, <2>2 DEF LosesNothing
  <1>6. CASE WriteDeployment
    <2> DEFINE w == NextWorkload(job.left)
               new == [version |-> job.live[w].version, kind |-> "app",
                       status |-> rolloutStatus(job.live[w].shape)]
    <2>1. /\ At("write") /\ job.left # {} /\ active' = active /\ nodes' = nodes
          /\ deps' = deps \/ deps' = [deps EXCEPT ![ServiceOf[w]] = new]
      BY <1>6 DEF WriteDeployment
    <2>2. job.live[w] \in Pod
      BY <2>1, NextObject
    <2>3. new # NULL
      BY <2>2, StatusTyped, SyncAssumption DEF SyncAssumption, DeploymentRow, Kinds, Pod
    <2> HIDE DEF new, w
    <2> QED BY <2>1, <2>3 DEF LosesNothing, IInv, Typed
  <1>7. CASE MarkSynced
    BY <1>7 DEF MarkSynced, LosesNothing
  <1> QED BY <1>1, <1>2, <1>3, <1>4, <1>5, <1>6, <1>7 DEF Next, Reconcile

\* Only a sync with --prune that is no dry run takes rows away: a cluster that had
\* no node rows, and the deployment rows of a cluster that goes or of services
\* kubectl did not list.  Alone it leaves the node rows alone.
THEOREM NothingIsLost == Spec => SyncLosesNothing
  <1>1. IInv /\ [Next]_vars => [LosesNothing]_vars
    BY StepLosesNothing
  <1> QED BY <1>1, SyncInvariant, PTL DEF Spec, SyncLosesNothing, LosesNothing
=============================================================================
