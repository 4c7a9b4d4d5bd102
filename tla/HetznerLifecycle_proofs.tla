----------------------- MODULE HetznerLifecycle_proofs -----------------------
(***************************************************************************)
(* Proofs about one Hetzner cluster over its lifetimes: for any workers,   *)
(* any commands, failed calls and crashes, a reconcile that ran to its end *)
(* is exact, and a destroy that printed no warning has left nothing.       *)
(***************************************************************************)
EXTENDS HetznerLifecycle, TLAPS

-----------------------------------------------------------------------------
(* The inductive invariant. *)

\* An external id is one resource, and none that is still to come.
ResourceIds ==
  /\ \A c \in cloud : c.x < nextX
  /\ \A c, d \in cloud : c.x = d.x => c = d

\* A row id is one row; a row is about a resource there has been.
RowIds ==
  /\ \A r \in rows : r.id < nextRow /\ r.x < nextX
  /\ \A q, r \in rows : q.id = r.id => q = r

\* Row and resource of one id are of one type.
SameTypes == \A r \in rows, c \in cloud : r.x = c.x => r.type = c.type

There(t) == {c.x : c \in {d \in cloud : d.type = t}}
Known(t) == {r.x : r \in Listed(t)}

\* The steps before the reconcile.
Early == {"upsert", "server-wait", "attach", "install"} \cup Types

\* What a reconciler has before it: types it is done with are in agreement, and
\* of the present one it is to write exactly what is missing by now.
Walk ==
  /\ At("reconcile") \/ At("write") =>
       \A i \in 1 .. Len(Fetchers) : i < job.k => There(Fetchers[i]) = Known(Fetchers[i])
  /\ At("write") =>
       LET t == Fetchers[job.k]
       IN /\ job.k <= Len(Fetchers)
          /\ job.adds = There(t) \ Known(t)
          /\ job.gone = {r \in Listed(t) : r.x \notin There(t)}

\* Provisioning has all types before it; a destroy keeps its cluster active
\* until it marks it, and only its sweep has rows left to do.
Course ==
  /\ job.step \in Early => job.k = 1 /\ job.cmd \in {"up", "add-node"}
  /\ At("list") \/ At("sweep") \/ At("tombstone") => job.cmd = "destroy" /\ active
  /\ (At("reconcile") \/ At("write")) /\ job.cmd = "destroy" => active
  /\ At("sweep") \/ At("tombstone") \/ job.left = {}

Left == {r.x : r \in job.left}
LiveX == {c.x : c \in cloud}

\* While nothing was warned about, a sweep has a row for all that is left in
\* the cloud, and no live row but those it is about to take.
Sweep ==
  /\ At("sweep") \/ At("tombstone") => job.left \subseteq rows
  /\ At("tombstone") => job.row \in rows \ job.left
  /\ At("list") /\ ~warned => LiveX = {r.x : r \in LiveRows}
  /\ At("sweep") /\ ~warned => LiveX \subseteq Left /\ LiveRows = job.left
  /\ At("tombstone") /\ ~warned =>
       LiveX \subseteq Left /\ LiveRows = job.left \cup {job.row}

IInv ==
  /\ TypeOK /\ ResourceIds /\ RowIds /\ SameTypes
  /\ Course /\ Walk /\ Sweep /\ NothingLeftSilently

-----------------------------------------------------------------------------
(* Facts about the constants and about a job that goes on. *)

LEMMA FetchersAre ==
  /\ Len(Fetchers) = 4 /\ Fetchers \in [1 .. 4 -> Types]
  /\ Fetchers[1] = "server" /\ Fetchers[2] = "firewall"
  /\ Fetchers[3] = "network" /\ Fetchers[4] = "volume"
  BY DEF Fetchers, Types

JobType ==
  [cmd: Commands, step: Steps, node: Nodes, k: 1 .. 5, adds: SUBSET Nat, gone: SUBSET Row,
   left: SUBSET Row, row: Row \cup {NULL}]

LEMMA JobTyped == TypeOK => job \in JobType
  BY DEF TypeOK, JobType

\* A job that only goes to another step.
LEMMA GotoJob ==
  ASSUME TypeOK, NEW s \in Steps, Goto(s)
  PROVE  /\ job' \in JobType /\ job'.step = s /\ job'.cmd = job.cmd /\ job'.node = job.node
         /\ job'.k = job.k /\ job'.adds = job.adds /\ job'.gone = job.gone
         /\ job'.left = job.left /\ job'.row = job.row
  BY JobTyped DEF Goto, JobType

LEMMA FaultTyped ==
  ASSUME TypeOK, Fault \/ NoFault PROVE faults' \in 0 .. MaxFaults
  BY HetznerAssumption DEF HetznerAssumption, TypeOK, Fault, NoFault

LEMMA InitIInv == Init => IInv
  <1> SUFFICES ASSUME Init PROVE IInv
    OBVIOUS
  <1>1. /\ job.step = "idle" /\ job.cmd = "none" /\ job.k = 1
        /\ job.adds = {} /\ job.gone = {} /\ job.left = {} /\ job.row = NULL
        /\ job.node = ControlPlane
    BY DEF Init, Idle
  <1>2. job \in JobType
    BY DEF Init, Idle, JobType, Commands, Steps, Nodes
  <1>3. TypeOK
    <2>1. commands \in 0 .. MaxCommands /\ faults \in 0 .. MaxFaults
      BY HetznerAssumption DEF HetznerAssumption, Init
    <2>2. /\ cloud \subseteq Resource /\ nextX \in Nat /\ rows \subseteq Row /\ nextRow \in Nat
          /\ lifetime \in Nat /\ active \in BOOLEAN /\ warned \in BOOLEAN
      BY DEF Init
    <2> QED BY <1>2, <2>1, <2>2 DEF TypeOK, JobType
  <1>4. ResourceIds /\ RowIds /\ SameTypes
    BY DEF Init, ResourceIds, RowIds, SameTypes
  <1>5. Course /\ Walk /\ Sweep /\ NothingLeftSilently
    BY <1>1 DEF Course, Walk, Sweep, NothingLeftSilently, At, Early, Types
  <1> QED BY <1>3, <1>4, <1>5 DEF IInv

-----------------------------------------------------------------------------
(* What commands do to cloud and inventory before they reconcile. *)

\* The cloud gains resources with new ids, or changes what one hangs on.
Grows ==
  /\ cloud' \subseteq Resource /\ nextX' \in Nat /\ nextX <= nextX'
  /\ ResourceIds'
  /\ \A c \in cloud' : c.x >= nextX \/ \E d \in cloud : d.x = c.x /\ d.type = c.type

\* The inventory gains a row about a resource that is there, or nothing.
Records ==
  \/ UNCHANGED inventory
  \/ \E c \in cloud' : RecordResource(c.x, c.type)

LEMMA RecordsSound ==
  ASSUME TypeOK, ResourceIds, RowIds, SameTypes, Grows, Records
  PROVE  /\ rows' \subseteq Row /\ nextRow' \in Nat /\ lifetime' \in Nat /\ active' \in BOOLEAN
         /\ RowIds' /\ SameTypes'
  <1>1. \A r \in rows : r \in Row /\ r.x < nextX /\ r.x \in Nat /\ r.id \in Nat
    BY DEF TypeOK, RowIds, Row
  <1>2. \A r \in rows, c \in cloud' : r.x = c.x => r.type = c.type
    BY <1>1 DEF Grows, SameTypes, TypeOK, Resource
  <1>3. CASE UNCHANGED inventory
    BY <1>1, <1>2, <1>3 DEF inventory, TypeOK, RowIds, SameTypes, Grows
  <1>4. ASSUME NEW c \in cloud', RecordResource(c.x, c.type)
        PROVE  /\ rows' \subseteq Row /\ nextRow' \in Nat /\ lifetime' \in Nat
               /\ active' \in BOOLEAN /\ RowIds' /\ SameTypes'
    <2> DEFINE new == [id |-> nextRow, lt |-> lifetime, x |-> c.x, type |-> c.type, live |-> TRUE]
    <2>1. /\ rows' = rows \cup {new} /\ nextRow' = nextRow + 1
          /\ lifetime' = lifetime /\ active' = active
      BY <1>4 DEF RecordResource
    <2>2. new \in Row /\ new.x < nextX'
      BY DEF Row, TypeOK, Grows, Resource, ResourceIds
    <2> HIDE DEF new
    <2>3. RowIds'
      <3>1. new.id = nextRow
        BY DEF new
      <3>2. nextRow \in Nat /\ nextX \in Nat /\ nextX' \in Nat /\ nextX <= nextX'
        BY DEF TypeOK, Grows
      <3>3. \A r \in rows : r.id < nextRow
        BY DEF RowIds
      <3> QED BY <1>1, <2>1, <2>2, <3>1, <3>2, <3>3 DEF RowIds
    <2>4. SameTypes'
      BY <1>2, <2>1 DEF new, SameTypes, Grows, ResourceIds
    <2>5. nextRow + 1 \in Nat /\ lifetime \in Nat /\ active \in BOOLEAN /\ rows \subseteq Row
      BY DEF TypeOK
    <2> QED BY <2>1, <2>2, <2>3, <2>4, <2>5
  <1> QED BY <1>3, <1>4 DEF Records

\* A step of provisioning keeps the invariant if it does no more than that.
LEMMA EarlyStep ==
  ASSUME IInv, job.step \in Early, NEW s \in Early \cup {"reconcile"}, Goto(s),
         Grows, Records, UNCHANGED <<warned, commands>>, Fault \/ NoFault
  PROVE  IInv'
  <1>1. s \in Steps
    BY DEF Early, Steps
  <1>2. /\ job' \in JobType /\ job'.step = s /\ job'.cmd = job.cmd /\ job'.k = job.k
        /\ job'.left = job.left
    BY <1>1, GotoJob DEF IInv
  <1>3. job.k = 1 /\ job.cmd \in {"up", "add-node"} /\ job.left = {}
    BY DEF IInv, Course, At, Early, Types
  <1>4. TypeOK' /\ ResourceIds' /\ RowIds' /\ SameTypes'
    BY <1>2, RecordsSound, FaultTyped DEF IInv, Grows, TypeOK, JobType
  <1>5. Course' /\ Walk' /\ Sweep' /\ NothingLeftSilently'
    BY <1>2, <1>3 DEF Course, Walk, Sweep, NothingLeftSilently, At, Early, Types
  <1> QED BY <1>4, <1>5 DEF IInv

LEMMA WorldGrows ==
  ASSUME TypeOK, ResourceIds, UNCHANGED world PROVE Grows
  BY DEF TypeOK, ResourceIds, world, Grows, Resource

LEMMA CreateGrows ==
  ASSUME TypeOK, ResourceIds, NEW t \in Types, NEW n \in Nodes, Create(t, n)
  PROVE  Grows /\ \E c \in cloud' : c.x = nextX /\ c.type = t
  <1> DEFINE new == [x |-> nextX, type |-> t, node |-> Owner(t, n), on |-> NULL]
  <1>1. cloud' = cloud \cup {new} /\ nextX' = nextX + 1
    BY DEF Create
  <1>2. new \in Resource
    BY DEF Resource, TypeOK, Owner, Nodes
  <1>3. \A c \in cloud : c.x < nextX /\ c.x \in Nat /\ c \in Resource
    BY DEF TypeOK, ResourceIds, Resource
  <1>4. ResourceIds'
    BY <1>1, <1>3 DEF ResourceIds, TypeOK
  <1>5. Grows
    BY <1>1, <1>2, <1>3, <1>4 DEF Grows, TypeOK
  <1>6. new \in cloud' /\ new.x = nextX /\ new.type = t
    BY <1>1
  <1> QED BY <1>5, <1>6

LEMMA NotifyRecords ==
  ASSUME NEW x, NEW t, Notify(x, t), \E c \in cloud' : c.x = x /\ c.type = t
  PROVE  Records /\ (Fault \/ NoFault)
  BY DEF Notify, Records

\* Registering the cluster moves no row.
LEMMA EarlyUpsert ==
  ASSUME IInv, job.step \in Early, NEW s \in Early \cup {"reconcile"}, Goto(s),
         UpsertCluster, UNCHANGED <<world, warned, commands>>, Fault \/ NoFault
  PROVE  IInv'
  <1>1. /\ rows' = rows /\ nextRow' = nextRow /\ lifetime' \in Nat /\ active' = TRUE
    BY DEF UpsertCluster, IInv, TypeOK
  <1>2. /\ job' \in JobType /\ job'.step = s /\ job'.cmd = job.cmd /\ job'.k = job.k
        /\ job'.left = job.left
    BY GotoJob DEF IInv, Early, Steps
  <1>3. job.k = 1 /\ job.cmd \in {"up", "add-node"} /\ job.left = {}
    BY DEF IInv, Course, At, Early, Types
  <1>4. TypeOK' /\ ResourceIds' /\ RowIds' /\ SameTypes'
    BY <1>1, <1>2, FaultTyped
    DEF IInv, TypeOK, JobType, world, ResourceIds, RowIds, SameTypes
  <1>5. Course' /\ Walk' /\ Sweep' /\ NothingLeftSilently'
    BY <1>2, <1>3 DEF Course, Walk, Sweep, NothingLeftSilently, At, Early, Types
  <1> QED BY <1>4, <1>5 DEF IInv

LEMMA RegisterEarlyIInv == ASSUME IInv, RegisterEarly PROVE IInv'
  <1>1. /\ job.step = "upsert" /\ Goto("network") /\ UNCHANGED <<world, warned, commands>>
        /\ Fault \/ NoFault
    BY DEF RegisterEarly, At
  <1>2. {"upsert", "network"} \subseteq Early
    BY DEF Early, Types
  <1>3. CASE UNCHANGED inventory
    BY <1>1, <1>2, <1>3, WorldGrows, EarlyStep DEF IInv, Records
  <1>4. CASE UpsertCluster
    BY <1>1, <1>2, <1>4, EarlyUpsert
  <1> QED BY <1>3, <1>4 DEF RegisterEarly

\* A resource that is reused is there under its id.
LEMMA ReuseIInv ==
  ASSUME IInv, NEW t \in Types, NEW next \in Early, Reuse(t, next) PROVE IInv'
  <1>1. /\ job.step = t /\ Goto(next) /\ UNCHANGED <<world, warned, commands>>
        /\ \E c \in cloud : c.type = t /\ Notify(c.x, t)
    BY DEF Reuse, At, Named
  <1>2. Records /\ (Fault \/ NoFault)
    BY <1>1, NotifyRecords DEF world
  <1> QED BY <1>1, <1>2, WorldGrows, EarlyStep DEF IInv, Early

LEMMA CreateIInv ==
  ASSUME IInv, NEW t \in Types, NEW next \in Early, At(t), Goto(next), Create(t, job.node),
         Notify(nextX, t), UNCHANGED <<warned, commands>>
  PROVE  IInv'
  <1>1. job.step = t /\ job.node \in Nodes
    BY DEF At, IInv, TypeOK
  <1>2. Grows /\ \E c \in cloud' : c.x = nextX /\ c.type = t
    BY <1>1, CreateGrows DEF IInv
  <1>3. Records /\ (Fault \/ NoFault)
    BY <1>2, NotifyRecords
  <1> QED BY <1>1, <1>2, <1>3, EarlyStep DEF Early

LEMMA SharedIInv ==
  ASSUME IInv, EnsureClusterNetwork \/ EnsureFirewall PROVE IInv'
  <1>1. ASSUME NEW t \in Types, NEW next \in Early, EnsureShared(t, next) PROVE IInv'
    BY <1>1, ReuseIInv, CreateIInv DEF EnsureShared
  <1>2. {"network", "firewall", "server"} \subseteq Types /\ Types \subseteq Early
    BY DEF Types, Early
  <1> QED BY <1>1, <1>2 DEF EnsureClusterNetwork, EnsureFirewall

LEMMA BeginIInv ==
  ASSUME IInv, NEW t \in Types, NEW wait \in Early, Begin(t, wait) PROVE IInv'
  <1>1. /\ job.step = t /\ job.node \in Nodes /\ Goto(wait) /\ Create(t, job.node)
        /\ UNCHANGED <<inventory, warned, commands, faults>>
    BY DEF Begin, At, IInv, TypeOK
  <1>2. Grows /\ Records /\ NoFault
    BY <1>1, CreateGrows DEF IInv, Records, NoFault
  <1> QED BY <1>1, <1>2, EarlyStep DEF Early

LEMMA EnsureServerIInv == ASSUME IInv, EnsureServer PROVE IInv'
  <1>1. CASE Reuse("server", "volume")
    BY <1>1, ReuseIInv DEF Types, Early
  <1>2. CASE Begin("server", "server-wait")
    BY <1>2, BeginIInv DEF Types, Early
  <1>3. ASSUME At("server-wait"), Goto("volume"), UNCHANGED <<world, warned, commands>>,
               NEW c \in Named("server", job.node), Notify(c.x, "server")
        PROVE  IInv'
    <2>1. c \in cloud' /\ c.type = "server"
      BY <1>3 DEF Named, world
    <2>2. Records /\ (Fault \/ NoFault)
      BY <1>3, <2>1, NotifyRecords
    <2> QED BY <1>3, <2>2, WorldGrows, EarlyStep DEF IInv, Early, Types, At
  <1> QED BY <1>1, <1>2, <1>3 DEF EnsureServer

LEMMA EnsureVolumeIInv == ASSUME IInv, EnsureVolume PROVE IInv'
  <1>1. "volume" \in Types /\ {"install", "attach"} \subseteq Early
    BY DEF Types, Early
  <1> QED BY <1>1, ReuseIInv, BeginIInv DEF EnsureVolume

\* A volume that is attached keeps its id.
LEMMA AttachVolumeIInv == ASSUME IInv, AttachVolume PROVE IInv'
  <1>1. PICK v \in Named("volume", job.node), s \in Named("server", job.node) :
          /\ cloud' = (cloud \ {v}) \cup {[v EXCEPT !.on = s.x]}
          /\ Notify(v.x, "volume")
    BY DEF AttachVolume
  <1>2. /\ job.step = "attach" /\ Goto("install") /\ UNCHANGED <<nextX, warned, commands>>
    BY DEF AttachVolume, At
  <1> DEFINE w == [v EXCEPT !.on = s.x]
  <1>3. v \in cloud /\ v \in Resource /\ v.type = "volume" /\ s \in Resource
    BY DEF Named, IInv, TypeOK
  <1>4. w \in Resource /\ w.x = v.x /\ w.type = v.type
    BY <1>3 DEF Resource
  <1> HIDE DEF w
  <1>5. cloud' = (cloud \ {v}) \cup {w}
    BY <1>1 DEF w
  <1>6. ResourceIds'
    BY <1>2, <1>3, <1>4, <1>5 DEF IInv, ResourceIds
  <1>7. Grows
    BY <1>2, <1>3, <1>4, <1>5, <1>6 DEF IInv, TypeOK, Grows
  <1>8. Records /\ (Fault \/ NoFault)
    BY <1>1, <1>3, <1>4, <1>5, NotifyRecords
  <1> QED BY <1>2, <1>7, <1>8, EarlyStep DEF Early

LEMMA InstallIInv == ASSUME IInv, Install PROVE IInv'
  <1>1. /\ job.step = "install" /\ Goto("reconcile") /\ UNCHANGED <<world, warned, commands>>
        /\ Fault \/ NoFault
    BY DEF Install, At
  <1>2. "install" \in Early
    BY DEF Early
  <1>3. CASE UNCHANGED inventory
    BY <1>1, <1>2, <1>3, WorldGrows, EarlyStep DEF IInv, Records
  <1>4. CASE UpsertCluster
    BY <1>1, <1>2, <1>4, EarlyUpsert
  <1> QED BY <1>3, <1>4 DEF Install

-----------------------------------------------------------------------------
(* Commands begin and end. *)

\* Resources that disappear disturb nobody's identity.
LEMMA CloudShrinks ==
  ASSUME IInv, cloud' \subseteq cloud, nextX' = nextX, UNCHANGED inventory
  PROVE  /\ cloud' \subseteq Resource /\ nextX' \in Nat /\ rows' \subseteq Row
         /\ nextRow' \in Nat /\ lifetime' \in Nat /\ active' \in BOOLEAN
         /\ ResourceIds' /\ RowIds' /\ SameTypes'
  BY DEF IInv, TypeOK, ResourceIds, RowIds, SameTypes, inventory

LEMMA WorldStays ==
  ASSUME IInv, UNCHANGED <<world, inventory>>
  PROVE  /\ cloud' \subseteq Resource /\ nextX' \in Nat /\ rows' \subseteq Row
         /\ nextRow' \in Nat /\ lifetime' \in Nat /\ active' \in BOOLEAN
         /\ ResourceIds' /\ RowIds' /\ SameTypes'
  BY CloudShrinks DEF world

LEMMA StartIInv ==
  ASSUME IInv, StartUp \/ StartAddNode \/ StartRemoveNode \/ StartDestroy PROVE IInv'
  <1>1. PICK cmd \in Commands, s \in {"upsert", "network", "delete", "reconcile"}, n \in Nodes :
          /\ Start(cmd, s, n)
          /\ s = "reconcile" => active
          /\ s \in {"upsert", "network"} => cmd \in {"up", "add-node"}
          /\ warned' \in BOOLEAN
    BY DEF StartUp, StartAddNode, StartRemoveNode, StartDestroy, Commands, Nodes, IInv, TypeOK
  <1>2. /\ job' = [Idle EXCEPT !.cmd = cmd, !.step = s, !.node = n]
        /\ UNCHANGED <<world, inventory, faults>>
        /\ commands < MaxCommands /\ commands' = commands + 1
    BY <1>1 DEF Start
  <1>3. job' \in JobType /\ job'.step = s /\ job'.cmd = cmd /\ job'.k = 1 /\ job'.left = {}
    <2>1. s \in Steps
      BY DEF Steps, Types
    <2>2. job' = [cmd |-> cmd, step |-> s, node |-> n, k |-> 1, adds |-> {}, gone |-> {},
                  left |-> {}, row |-> NULL]
      BY <1>2 DEF Idle
    <2> QED BY <2>1, <2>2 DEF JobType
  <1>4. commands' \in 0 .. MaxCommands
    BY <1>2, HetznerAssumption DEF HetznerAssumption, IInv, TypeOK
  <1>5. TypeOK' /\ ResourceIds' /\ RowIds' /\ SameTypes'
    BY <1>1, <1>2, <1>3, <1>4, WorldStays DEF IInv, TypeOK, JobType
  <1>6. Course' /\ Walk' /\ Sweep' /\ NothingLeftSilently'
    BY <1>1, <1>2, <1>3
    DEF Course, Walk, Sweep, NothingLeftSilently, At, Early, Types, inventory
  <1> QED BY <1>5, <1>6 DEF IInv

LEMMA EndIInv ==
  ASSUME IInv, Stop \/ RemoveNode \/ FinishDestroy PROVE IInv'
  <1>1. /\ job' = Idle /\ cloud' \subseteq cloud /\ nextX' = nextX
        /\ UNCHANGED <<inventory, warned, commands>> /\ (Fault \/ NoFault)
    BY DEF Stop, RemoveNode, FinishDestroy, world, DeleteFromCloud, NoFault
  <1>2. job' \in JobType /\ job'.step = "idle" /\ job'.left = {}
    BY <1>1 DEF Idle, JobType, Steps, Commands, Nodes
  <1>3. TypeOK' /\ ResourceIds' /\ RowIds' /\ SameTypes'
    BY <1>1, <1>2, CloudShrinks, FaultTyped DEF IInv, TypeOK, JobType
  <1>4. Course' /\ Walk' /\ Sweep' /\ NothingLeftSilently'
    BY <1>2 DEF Course, Walk, Sweep, NothingLeftSilently, At, Early, Types
  <1> QED BY <1>3, <1>4 DEF IInv

-----------------------------------------------------------------------------
(* The reconciler. *)

LEMMA SameLists ==
  ASSUME UNCHANGED <<world, inventory>>, NEW t
  PROVE  /\ There(t)' = There(t) /\ Known(t)' = Known(t) /\ Listed(t)' = Listed(t)
         /\ LiveRows' = LiveRows /\ LiveX' = LiveX
  BY DEF There, Known, Listed, LiveRows, LiveX, world, inventory

LEMMA ListTypeIInv == ASSUME IInv, ListType PROVE IInv'
  <1> DEFINE t == Fetchers[job.k]
  <1>1. /\ job.step = "reconcile" /\ job.k <= Len(Fetchers)
        /\ job' = [job EXCEPT !.step = "write", !.adds = There(t) \ Known(t),
                              !.gone = {r \in Listed(t) : r.x \notin There(t)}]
        /\ UNCHANGED <<world, inventory, warned, commands, faults>>
    BY DEF ListType, At, There, Known
  <1>2. There(t) \subseteq Nat /\ Listed(t) \subseteq Row
    BY DEF There, Listed, LiveRows, IInv, TypeOK, Resource
  <1>3. /\ job' \in JobType /\ job'.step = "write" /\ job'.k = job.k /\ job'.cmd = job.cmd
        /\ job'.adds = There(t) \ Known(t)
        /\ job'.gone = {r \in Listed(t) : r.x \notin There(t)} /\ job'.left = job.left
    BY <1>1, <1>2, JobTyped DEF IInv, JobType, Steps
  <1>4. TypeOK' /\ ResourceIds' /\ RowIds' /\ SameTypes'
    BY <1>1, <1>3, WorldStays DEF IInv, TypeOK, JobType
  <1>5. Walk'
    BY <1>1, <1>3, SameLists DEF IInv, Walk, At
  <1>6. Course' /\ Sweep' /\ NothingLeftSilently'
    BY <1>1, <1>3 DEF IInv, Course, Sweep, NothingLeftSilently, At, Early, Types, inventory
  <1> QED BY <1>4, <1>5, <1>6 DEF IInv

\* What is recorded was missing, and is not missing any more.
LEMMA RecordMissingIInv == ASSUME IInv, RecordMissing PROVE IInv'
  <1> DEFINE t == Fetchers[job.k]
  <1>1. PICK x \in job.adds : RecordResource(x, t) /\ job' = [job EXCEPT !.adds = @ \ {x}]
    BY DEF RecordMissing
  <1>2. /\ job.step = "write" /\ UNCHANGED <<world, warned, commands, faults>>
    BY DEF RecordMissing, At
  <1>3. /\ job.k \in 1 .. 4 /\ t \in Types /\ job.adds = There(t) \ Known(t)
        /\ job.gone = {r \in Listed(t) : r.x \notin There(t)}
    BY <1>2, FetchersAre DEF IInv, Walk, At, TypeOK
  <1>4. PICK c \in cloud : c.x = x /\ c.type = t
    BY <1>1, <1>3 DEF There
  <1>5. /\ job' \in JobType /\ job'.step = "write" /\ job'.k = job.k /\ job'.cmd = job.cmd
        /\ job'.adds = job.adds \ {x} /\ job'.gone = job.gone /\ job'.left = job.left
    BY <1>1, <1>2, JobTyped DEF IInv, JobType
  <1>6. Records
    BY <1>1, <1>2, <1>4 DEF Records, world
  <1>7. TypeOK' /\ ResourceIds' /\ RowIds' /\ SameTypes'
    BY <1>2, <1>5, <1>6, WorldGrows, RecordsSound DEF IInv, TypeOK, JobType, Grows
  <1> DEFINE new == [id |-> nextRow, lt |-> lifetime, x |-> x, type |-> t, live |-> TRUE]
  <1>8. /\ active /\ rows' = rows \cup {new} /\ lifetime' = lifetime /\ active' = active
        /\ new.x = x /\ new.type = t /\ new.lt = lifetime /\ new.live
    BY <1>1 DEF RecordResource
  <1> HIDE DEF new
  <1>9. LiveRows' = LiveRows \cup {new}
    BY <1>8 DEF LiveRows
  <1>10. /\ Listed(t)' = Listed(t) \cup {new}
         /\ \A u : u # t => Listed(u)' = Listed(u)
         /\ \A u : There(u)' = There(u)
    <2>1. \A u : There(u)' = There(u)
      BY <1>2 DEF There, world
    <2>2. t' = t
      BY <1>5
    <2>3. \A u : Listed(u)' = {r \in LiveRows \cup {new} : r.type = u}
      BY <1>9 DEF Listed
    <2>4. \A u : Listed(u) = {r \in LiveRows : r.type = u}
      BY DEF Listed
    <2> HIDE DEF t
    <2>5. Listed(t)' = Listed(t) \cup {new}
      BY <1>8, <2>2, <2>3, <2>4
    <2>6. \A u : u # t => Listed(u)' = Listed(u)
      BY <1>8, <2>3, <2>4
    <2> QED BY <2>1, <2>5, <2>6
  <1>11. Known(t)' = Known(t) \cup {x} /\ \A u : u # t => Known(u)' = Known(u)
    BY <1>8, <1>10 DEF Known
  <1>12. \A i \in 1 .. 4 : i < job.k => Fetchers[i] # t
    BY <1>3, FetchersAre
  <1>13. Walk'
    <2>1. \A i \in 1 .. Len(Fetchers) : i < job.k => There(Fetchers[i])' = Known(Fetchers[i])'
      BY <1>2, <1>10, <1>11, <1>12, FetchersAre DEF IInv, Walk, At
    <2>2. job'.adds = There(t)' \ Known(t)'
      BY <1>3, <1>5, <1>10, <1>11
    <2>3. job'.gone = {r \in Listed(t)' : r.x \notin There(t)'}
      BY <1>1, <1>3, <1>5, <1>8, <1>10
    <2> QED BY <1>3, <1>5, <2>1, <2>2, <2>3, FetchersAre DEF Walk, At
  <1>14. Course' /\ Sweep' /\ NothingLeftSilently'
    BY <1>2, <1>5, <1>8 DEF IInv, Course, Sweep, NothingLeftSilently, At, Early, Types
  <1> QED BY <1>7, <1>13, <1>14 DEF IInv

\* A tombstone changes one row.
LEMMA MarkOne ==
  ASSUME IInv, NEW r \in rows, MarkResourceDestroyed(r.id), UNCHANGED world
  PROVE  /\ LiveRows' = LiveRows \ {r}
         /\ rows' = (rows \ {r}) \cup {[r EXCEPT !.live = FALSE]}
         /\ rows' \subseteq Row /\ nextRow' \in Nat /\ lifetime' \in Nat /\ active' \in BOOLEAN
         /\ cloud' \subseteq Resource /\ nextX' \in Nat
         /\ ResourceIds' /\ RowIds' /\ SameTypes'
         /\ lifetime' = lifetime /\ active' = active
  <1> DEFINE dead == [r EXCEPT !.live = FALSE]
  <1>1. r \in Row /\ rows \subseteq Row /\ \A q \in rows : q.id = r.id => q = r
    BY DEF IInv, TypeOK, RowIds
  <1>2. dead \in Row /\ dead.id = r.id /\ dead.x = r.x /\ dead.type = r.type
        /\ dead.live = FALSE /\ dead.lt = r.lt
    BY <1>1 DEF Row
  <1>3. /\ rows' = {IF q.id = r.id THEN [q EXCEPT !.live = FALSE] ELSE q : q \in rows}
        /\ UNCHANGED <<nextRow, lifetime, active>>
    BY DEF MarkResourceDestroyed
  <1>4. rows' = (rows \ {r}) \cup {dead}
    BY <1>1, <1>3
  <1> HIDE DEF dead
  <1>5. LiveRows' = LiveRows \ {r}
    BY <1>2, <1>3, <1>4 DEF LiveRows
  <1>6. RowIds'
    BY <1>1, <1>2, <1>3, <1>4 DEF IInv, RowIds, world
  <1>7. SameTypes' /\ ResourceIds'
    BY <1>2, <1>4 DEF IInv, SameTypes, ResourceIds, world
  <1> QED BY <1>1, <1>2, <1>3, <1>4, <1>5, <1>6, <1>7 DEF dead, IInv, TypeOK, world

LEMMA TombstoneGoneIInv == ASSUME IInv, TombstoneGone PROVE IInv'
  <1> DEFINE t == Fetchers[job.k]
  <1>1. PICK r \in job.gone : MarkResourceDestroyed(r.id) /\ job' = [job EXCEPT !.gone = @ \ {r}]
    BY DEF TombstoneGone
  <1>2. job.step = "write" /\ UNCHANGED <<world, warned, commands, faults>>
    BY DEF TombstoneGone, At
  <1>3. /\ job.k \in 1 .. 4 /\ t \in Types /\ job.adds = There(t) \ Known(t)
        /\ job.gone = {q \in Listed(t) : q.x \notin There(t)}
    BY <1>2, FetchersAre DEF IInv, Walk, At, TypeOK
  <1>4. r \in rows /\ r \in Listed(t) /\ r.type = t /\ r.x \notin There(t)
    BY <1>1, <1>3 DEF Listed, LiveRows
  <1>5. /\ job' \in JobType /\ job'.step = "write" /\ job'.k = job.k /\ job'.cmd = job.cmd
        /\ job'.adds = job.adds /\ job'.gone = job.gone \ {r} /\ job'.left = job.left
    BY <1>1, <1>2, JobTyped DEF IInv, JobType
  <1>6. TypeOK' /\ ResourceIds' /\ RowIds' /\ SameTypes'
    BY <1>1, <1>2, <1>4, <1>5, MarkOne DEF IInv, TypeOK, JobType
  <1>7. LiveRows' = LiveRows \ {r} /\ active' = active
    BY <1>1, <1>2, <1>4, MarkOne
  <1>8. /\ Listed(t)' = Listed(t) \ {r}
        /\ \A u : u # t => Listed(u)' = Listed(u)
        /\ \A u : There(u)' = There(u)
    <2>1. \A u : There(u)' = There(u)
      BY <1>2 DEF There, world
    <2>2. t' = t
      BY <1>5
    <2>3. \A u : Listed(u)' = {q \in LiveRows \ {r} : q.type = u}
      BY <1>7 DEF Listed
    <2>4. \A u : Listed(u) = {q \in LiveRows : q.type = u}
      BY DEF Listed
    <2> HIDE DEF t
    <2>5. Listed(t)' = Listed(t) \ {r}
      BY <1>4, <2>2, <2>3, <2>4
    <2>6. \A u : u # t => Listed(u)' = Listed(u)
      BY <1>4, <2>3, <2>4
    <2> QED BY <2>1, <2>5, <2>6
  <1>9. /\ There(t) \ Known(t)' = There(t) \ Known(t)
        /\ \A u : u # t => Known(u)' = Known(u)
    BY <1>4, <1>8 DEF Known
  <1>10. \A i \in 1 .. 4 : i < job.k => Fetchers[i] # t
    BY <1>3, FetchersAre
  <1>11. Walk'
    <2>1. \A i \in 1 .. Len(Fetchers) : i < job.k => There(Fetchers[i])' = Known(Fetchers[i])'
      BY <1>2, <1>8, <1>9, <1>10, FetchersAre DEF IInv, Walk, At
    <2>2. job'.adds = There(t)' \ Known(t)'
      BY <1>3, <1>5, <1>8, <1>9
    <2>3. job'.gone = {q \in Listed(t)' : q.x \notin There(t)'}
      BY <1>3, <1>5, <1>8
    <2> QED BY <1>3, <1>5, <2>1, <2>2, <2>3, FetchersAre DEF Walk, At
  <1>12. Course' /\ Sweep' /\ NothingLeftSilently'
    BY <1>2, <1>5, <1>7 DEF IInv, Course, Sweep, NothingLeftSilently, At, Early, Types
  <1> QED BY <1>6, <1>11, <1>12 DEF IInv

\* With nothing left to write the type is in agreement.
LEMMA NextTypeIInv == ASSUME IInv, NextType PROVE IInv'
  <1> DEFINE t == Fetchers[job.k]
  <1>1. /\ job.step = "write" /\ job.adds = {} /\ job.gone = {}
        /\ job' = [job EXCEPT !.step = "reconcile", !.k = @ + 1]
        /\ UNCHANGED <<world, inventory, warned, commands, faults>>
    BY DEF NextType, At
  <1>2. /\ job.k \in 1 .. 4 /\ {} = There(t) \ Known(t)
        /\ {} = {r \in Listed(t) : r.x \notin There(t)}
    BY <1>1, FetchersAre DEF IInv, Walk, At, TypeOK
  <1>3. There(t) = Known(t)
    BY <1>2 DEF Known
  <1>4. /\ job' \in JobType /\ job'.step = "reconcile" /\ job'.k = job.k + 1
        /\ job'.cmd = job.cmd /\ job'.left = job.left
    <2>1. job.k + 1 \in 1 .. 5 /\ "reconcile" \in Steps
      BY <1>2 DEF Steps
    <2> QED BY <1>1, <2>1, JobTyped DEF IInv, JobType
  <1>5. TypeOK' /\ ResourceIds' /\ RowIds' /\ SameTypes'
    BY <1>1, <1>4, WorldStays DEF IInv, TypeOK, JobType
  <1>6. Walk'
    <2>1. \A i \in 1 .. Len(Fetchers) : i < job.k + 1 => There(Fetchers[i]) = Known(Fetchers[i])
      BY <1>1, <1>2, <1>3, FetchersAre DEF IInv, Walk, At
    <2> QED BY <1>1, <1>4, <2>1, SameLists DEF Walk, At
  <1>7. Course' /\ Sweep' /\ NothingLeftSilently'
    BY <1>1, <1>4 DEF IInv, Course, Sweep, NothingLeftSilently, At, Early, Types, inventory
  <1> QED BY <1>5, <1>6, <1>7 DEF IInv

\* All types in agreement is the inventory in agreement.
LEMMA Exact == IInv => ReconcileExact
  <1> SUFFICES ASSUME IInv, At("reconcile"), job.k > Len(Fetchers)
               PROVE  {r.x : r \in LiveRows} = LiveX
    BY DEF ReconcileExact, LiveX
  <1>1. \A i \in 1 .. 4 : There(Fetchers[i]) = Known(Fetchers[i])
    BY FetchersAre DEF IInv, Walk, TypeOK
  <1>2. \A t \in Types : There(t) = Known(t)
    BY <1>1, FetchersAre DEF Types
  <1>3. /\ \A r \in LiveRows : r.type \in Types
        /\ \A c \in cloud : c.type \in Types
    BY DEF LiveRows, IInv, TypeOK, Row, Resource
  <1>4. \A r \in LiveRows : r.x \in Known(r.type)
    BY DEF Known, Listed
  <1>5. \A c \in cloud : c.x \in There(c.type)
    BY DEF There
  <1>6. \A t : There(t) \subseteq LiveX /\ Known(t) \subseteq {r.x : r \in LiveRows}
    BY DEF There, Known, Listed, LiveX
  <1> QED BY <1>2, <1>3, <1>4, <1>5, <1>6 DEF LiveX

LEMMA ReconcileDoneIInv == ASSUME IInv, ReconcileDone PROVE IInv'
  <1>1. /\ job.step = "reconcile" /\ job.k > Len(Fetchers) /\ Goto(AfterReconcile)
        /\ UNCHANGED <<world, inventory, warned, commands, faults>>
    BY DEF ReconcileDone, At
  <1>2. /\ AfterReconcile \in Steps
        /\ AfterReconcile \in {"list", "idle"} /\ (AfterReconcile = "list" => job.cmd = "destroy")
    BY DEF AfterReconcile, Steps
  <1>3. /\ job' \in JobType /\ job'.step = AfterReconcile /\ job'.cmd = job.cmd
        /\ job'.left = job.left
    BY <1>1, <1>2, GotoJob DEF IInv
  <1>4. TypeOK' /\ ResourceIds' /\ RowIds' /\ SameTypes'
    BY <1>1, <1>3, WorldStays DEF IInv, TypeOK, JobType
  <1>5. LiveX = {r.x : r \in LiveRows}
    BY <1>1, Exact DEF ReconcileExact, At, LiveX
  <1>6. (job'.step = "list" => active') /\ job.left = {}
    BY <1>1, <1>2, <1>3 DEF IInv, Course, At, inventory
  <1>7. LiveX' = {r.x : r \in LiveRows'}
    BY <1>1, <1>5, SameLists
  <1>8. Course' /\ Walk' /\ Sweep' /\ NothingLeftSilently'
    BY <1>2, <1>3, <1>6, <1>7
    DEF Course, Walk, Sweep, NothingLeftSilently, At, Early, Types
  <1> QED BY <1>4, <1>8 DEF IInv

LEMMA ReconcileFailsIInv == ASSUME IInv, ReconcileFails PROVE IInv'
  <1>1. /\ job.step \in {"reconcile", "write"}
        /\ job' = [job EXCEPT !.step = AfterReconcile, !.adds = {}, !.gone = {}]
        /\ warned' = (warned \/ job.cmd = "destroy") /\ (Fault \/ NoFault)
        /\ UNCHANGED <<world, inventory, commands>>
    BY DEF ReconcileFails, At
  <1>2. /\ AfterReconcile \in Steps
        /\ AfterReconcile \in {"list", "idle"} /\ (AfterReconcile = "list" => job.cmd = "destroy")
    BY DEF AfterReconcile, Steps
  <1>3. /\ job' \in JobType /\ job'.step = AfterReconcile /\ job'.cmd = job.cmd
        /\ job'.left = job.left
    BY <1>1, <1>2, JobTyped DEF IInv, JobType
  <1>4. warned' \in BOOLEAN
    BY <1>1
  <1>5. TypeOK' /\ ResourceIds' /\ RowIds' /\ SameTypes'
    BY <1>1, <1>3, <1>4, WorldStays, FaultTyped DEF IInv, TypeOK, JobType
  <1>6. (job'.step = "list" => active' /\ warned') /\ job.left = {}
    BY <1>1, <1>2, <1>3 DEF IInv, Course, At, inventory
  <1>7. Course' /\ Walk' /\ Sweep' /\ NothingLeftSilently'
    BY <1>2, <1>3, <1>6 DEF Course, Walk, Sweep, NothingLeftSilently, At, Early, Types
  <1> QED BY <1>5, <1>7 DEF IInv

-----------------------------------------------------------------------------
(* Destroy. *)

LEMMA ListStragglersIInv == ASSUME IInv, ListStragglers PROVE IInv'
  <1>1. job.step = "list" /\ active /\ job.cmd = "destroy" /\ job.left = {}
    BY DEF ListStragglers, At, IInv, Course
  <1>2. UNCHANGED <<world, inventory, commands>> /\ (Fault \/ NoFault) /\ warned' \in BOOLEAN
    BY DEF ListStragglers, IInv, TypeOK
  <1>3. LiveRows \subseteq rows /\ LiveRows \subseteq Row
    BY DEF LiveRows, IInv, TypeOK
  <1>4. CASE job' = [job EXCEPT !.step = "sweep", !.left = LiveRows] /\ UNCHANGED warned
    <2>1. job' \in JobType /\ job'.step = "sweep" /\ job'.left = LiveRows /\ job'.cmd = job.cmd
      BY <1>3, <1>4, JobTyped DEF IInv, JobType, Steps
    <2>2. TypeOK' /\ ResourceIds' /\ RowIds' /\ SameTypes'
      BY <1>2, <2>1, WorldStays, FaultTyped DEF IInv, TypeOK, JobType
    <2>3. ~warned => LiveX = Left'
      BY <1>1, <2>1 DEF IInv, Sweep, At, Left
    <2>4. LiveRows' = LiveRows /\ LiveX' = LiveX /\ rows' = rows /\ active' = active
      BY <1>2, SameLists DEF inventory
    <2>5. Sweep'
      BY <1>3, <1>4, <2>1, <2>3, <2>4 DEF Sweep, At
    <2>6. Course' /\ Walk' /\ NothingLeftSilently'
      BY <1>1, <2>1, <2>4 DEF Course, Walk, NothingLeftSilently, At, Early, Types
    <2> QED BY <2>2, <2>5, <2>6 DEF IInv
  <1>5. CASE Goto("sweep") /\ warned' = TRUE
    <2>1. job' \in JobType /\ job'.step = "sweep" /\ job'.left = job.left /\ job'.cmd = job.cmd
      BY <1>5, GotoJob DEF IInv, Steps
    <2>2. TypeOK' /\ ResourceIds' /\ RowIds' /\ SameTypes'
      BY <1>2, <1>5, <2>1, WorldStays, FaultTyped DEF IInv, TypeOK, JobType
    <2>3. rows' = rows /\ active' = active
      BY <1>2 DEF inventory
    <2>4. Course' /\ Walk' /\ Sweep' /\ NothingLeftSilently'
      BY <1>1, <1>5, <2>1, <2>3 DEF IInv, Course, Walk, Sweep, NothingLeftSilently, At, Early, Types
    <2> QED BY <2>2, <2>4 DEF IInv
  <1> QED BY <1>4, <1>5 DEF ListStragglers

\* What is taken from the list is, unless something was warned about, also
\* taken from the cloud.
LEMMA DeleteStragglerIInv == ASSUME IInv, DeleteStraggler PROVE IInv'
  <1>1. PICK r \in NextStragglers :
          /\ job' = [job EXCEPT !.step = "tombstone", !.left = @ \ {r}, !.row = r]
          /\ LET deletable == {c \in cloud : c.x = r.x /\ ~InUse(c)} IN
             \/ /\ \E c \in deletable : DeleteFromCloud(c)
                /\ UNCHANGED warned /\ NoFault
             \/ /\ deletable = {} /\ NoFault
                /\ UNCHANGED world /\ warned' = TRUE
             \/ /\ deletable # {} /\ Fault
                /\ UNCHANGED world /\ warned' = TRUE
    BY DEF DeleteStraggler
  <1>2. /\ job.step = "sweep" /\ UNCHANGED <<inventory, commands>> /\ (Fault \/ NoFault)
        /\ nextX' = nextX /\ cloud' \subseteq cloud /\ warned' \in BOOLEAN
    BY <1>1 DEF DeleteStraggler, At, world, DeleteFromCloud, IInv, TypeOK
  <1>3. job.cmd = "destroy" /\ active /\ job.left \subseteq rows
    BY <1>2 DEF IInv, Course, Sweep, At
  <1>4. r \in job.left /\ r \in rows /\ r \in Row
    BY <1>1, <1>3 DEF NextStragglers, IInv, TypeOK
  <1>5. /\ job' \in JobType /\ job'.step = "tombstone" /\ job'.cmd = job.cmd
        /\ job'.left = job.left \ {r} /\ job'.row = r
    BY <1>1, <1>4, JobTyped DEF IInv, JobType, Steps
  <1>6. TypeOK' /\ ResourceIds' /\ RowIds' /\ SameTypes'
    BY <1>2, <1>5, CloudShrinks, FaultTyped DEF IInv, TypeOK, JobType
  <1>7. rows' = rows /\ active' = active /\ LiveRows' = LiveRows
    BY <1>2 DEF inventory, LiveRows
  <1>8. ASSUME ~warned' PROVE LiveX' \subseteq Left' /\ LiveRows' = job'.left \cup {job'.row}
    <2>1. ~warned /\ \E c \in cloud : c.x = r.x /\ cloud' = cloud \ {c}
      BY <1>1, <1>8 DEF DeleteFromCloud
    <2>2. \A c \in cloud' : c \in cloud /\ c.x # r.x
      BY <2>1 DEF IInv, ResourceIds
    <2>3. LiveX \subseteq Left /\ LiveRows = job.left
      BY <1>2, <2>1 DEF IInv, Sweep, At
    <2>4. \A c \in cloud' : \E q \in job.left : q.x = c.x /\ q # r
      BY <2>2, <2>3 DEF LiveX, Left
    <2>5. LiveX' \subseteq Left'
      BY <1>5, <2>4 DEF LiveX, Left
    <2> QED BY <1>4, <1>5, <1>7, <2>3, <2>5
  <1>9. Sweep'
    BY <1>3, <1>4, <1>5, <1>7, <1>8 DEF Sweep, At
  <1>10. Course' /\ Walk' /\ NothingLeftSilently'
    BY <1>3, <1>5, <1>7 DEF Course, Walk, NothingLeftSilently, At, Early, Types
  <1> QED BY <1>6, <1>9, <1>10 DEF IInv

LEMMA TombstoneStragglerIInv == ASSUME IInv, TombstoneStraggler PROVE IInv'
  <1>1. /\ job.step = "tombstone" /\ job' = [job EXCEPT !.step = "sweep", !.row = NULL]
        /\ UNCHANGED <<world, commands>> /\ (Fault \/ NoFault) /\ warned' \in BOOLEAN
    BY DEF TombstoneStraggler, At, IInv, TypeOK
  <1>2. job.cmd = "destroy" /\ active /\ job.left \subseteq rows /\ job.row \in rows \ job.left
    BY <1>1 DEF IInv, Course, Sweep, At
  <1>3. /\ job' \in JobType /\ job'.step = "sweep" /\ job'.cmd = job.cmd /\ job'.left = job.left
    BY <1>1, JobTyped DEF IInv, JobType, Steps
  <1>4. CASE MarkResourceDestroyed(job.row.id) /\ UNCHANGED warned
    <2>1. /\ LiveRows' = LiveRows \ {job.row} /\ active' = active
          /\ rows' = (rows \ {job.row}) \cup {[job.row EXCEPT !.live = FALSE]}
      BY <1>1, <1>2, <1>4, MarkOne
    <2>2. TypeOK' /\ ResourceIds' /\ RowIds' /\ SameTypes'
      BY <1>1, <1>2, <1>3, <1>4, MarkOne, FaultTyped DEF IInv, TypeOK, JobType
    <2>3. LiveX' = LiveX /\ Left' = Left
      BY <1>1, <1>3 DEF LiveX, Left, world
    <2>4. Sweep'
      BY <1>1, <1>2, <1>3, <1>4, <2>1, <2>3 DEF IInv, Sweep, At
    <2>5. Course' /\ Walk' /\ NothingLeftSilently'
      BY <1>2, <1>3, <2>1 DEF Course, Walk, NothingLeftSilently, At, Early, Types
    <2> QED BY <2>2, <2>4, <2>5 DEF IInv
  <1>5. CASE UNCHANGED inventory /\ warned' = TRUE
    <2>1. TypeOK' /\ ResourceIds' /\ RowIds' /\ SameTypes'
      BY <1>1, <1>3, <1>5, WorldStays, FaultTyped DEF IInv, TypeOK, JobType
    <2>2. Course' /\ Walk' /\ Sweep' /\ NothingLeftSilently'
      BY <1>2, <1>3, <1>5
      DEF Course, Walk, Sweep, NothingLeftSilently, At, Early, Types, inventory
    <2> QED BY <2>1, <2>2 DEF IInv
  <1> QED BY <1>4, <1>5 DEF TombstoneStraggler

\* A sweep that is through without a warning has left nothing.
LEMMA MarkDestroyedIInv == ASSUME IInv, MarkDestroyed PROVE IInv'
  <1>1. /\ job.step = "sweep" /\ job.left = {} /\ Goto("cleanup") /\ active' = FALSE
        /\ UNCHANGED <<world, rows, nextRow, lifetime, warned, commands, faults>>
    BY DEF MarkDestroyed, MarkClusterDestroyed, At
  <1>2. job' \in JobType /\ job'.step = "cleanup" /\ job'.left = job.left
    BY <1>1, GotoJob DEF IInv, Steps
  <1>3. TypeOK' /\ ResourceIds' /\ RowIds' /\ SameTypes'
    BY <1>1, <1>2 DEF IInv, TypeOK, JobType, world, ResourceIds, RowIds, SameTypes
  <1>4. ASSUME ~warned PROVE cloud = {} /\ \A r \in rows : r.lt = lifetime => ~r.live
    <2>1. LiveX \subseteq Left /\ LiveRows = {} /\ active
      BY <1>1, <1>4 DEF IInv, Sweep, Course, At
    <2> QED BY <1>1, <2>1 DEF LiveX, Left, LiveRows
  <1>5. NothingLeftSilently'
    BY <1>1, <1>4 DEF NothingLeftSilently, world
  <1>6. Course' /\ Walk' /\ Sweep'
    BY <1>1, <1>2 DEF Course, Walk, Sweep, At, Early, Types
  <1> QED BY <1>3, <1>5, <1>6 DEF IInv

-----------------------------------------------------------------------------
(* Every step. *)

LEMMA StutterIInv == ASSUME IInv, UNCHANGED vars PROVE IInv'
  <1>1. UNCHANGED <<world, inventory, job, warned, commands, faults>>
    BY DEF vars, world, inventory
  <1>2. TypeOK' /\ ResourceIds' /\ RowIds' /\ SameTypes'
    BY <1>1, WorldStays DEF IInv, TypeOK
  <1>3. Course' /\ NothingLeftSilently'
    BY <1>1 DEF IInv, Course, NothingLeftSilently, At, world, inventory
  <1>4. Walk'
    BY <1>1, SameLists DEF IInv, Walk, At
  <1>5. Sweep'
    BY <1>1, SameLists DEF IInv, Sweep, At, Left, inventory
  <1> QED BY <1>2, <1>3, <1>4, <1>5 DEF IInv

LEMMA NextIInv == ASSUME IInv, [Next]_vars PROVE IInv'
  <1>1. CASE StartUp \/ StartAddNode \/ StartRemoveNode \/ StartDestroy
    BY <1>1, StartIInv
  <1>2. CASE Stop \/ RemoveNode \/ FinishDestroy
    BY <1>2, EndIInv
  <1>3. CASE RegisterEarly
    BY <1>3, RegisterEarlyIInv
  <1>4. CASE EnsureClusterNetwork \/ EnsureFirewall
    BY <1>4, SharedIInv
  <1>5. CASE EnsureServer
    BY <1>5, EnsureServerIInv
  <1>6. CASE EnsureVolume
    BY <1>6, EnsureVolumeIInv
  <1>7. CASE AttachVolume
    BY <1>7, AttachVolumeIInv
  <1>8. CASE Install
    BY <1>8, InstallIInv
  <1>9. CASE ListType
    BY <1>9, ListTypeIInv
  <1>10. CASE RecordMissing
    BY <1>10, RecordMissingIInv
  <1>11. CASE TombstoneGone
    BY <1>11, TombstoneGoneIInv
  <1>12. CASE NextType
    BY <1>12, NextTypeIInv
  <1>13. CASE ReconcileDone
    BY <1>13, ReconcileDoneIInv
  <1>14. CASE ReconcileFails
    BY <1>14, ReconcileFailsIInv
  <1>15. CASE ListStragglers
    BY <1>15, ListStragglersIInv
  <1>16. CASE DeleteStraggler
    BY <1>16, DeleteStragglerIInv
  <1>17. CASE TombstoneStraggler
    BY <1>17, TombstoneStragglerIInv
  <1>18. CASE MarkDestroyed
    BY <1>18, MarkDestroyedIInv
  <1>19. CASE UNCHANGED vars
    BY <1>19, StutterIInv
  <1> QED
    BY <1>1, <1>2, <1>3, <1>4, <1>5, <1>6, <1>7, <1>8, <1>9, <1>10, <1>11, <1>12, <1>13, <1>14,
       <1>15, <1>16, <1>17, <1>18, <1>19 DEF Next

\* Resources and rows keep their identity, a reconciler knows what it has done,
\* and a sweep has a row for whatever is left: in every state.
THEOREM LifecycleInvariant == Spec => []IInv
  BY InitIInv, NextIInv, PTL DEF Spec

\* The program's state keeps its types.
THEOREM LifecycleTypes == Spec => []TypeOK
  BY LifecycleInvariant, PTL DEF IInv

\* A reconcile (reconciler.go) that ran to its end leaves a live row for every
\* live resource and a live resource for every live row, whatever partial
\* runs, lost writes and crashes came before.
THEOREM ReconcilesExactly == Spec => []ReconcileExact
  BY LifecycleInvariant, Exact, PTL

\* A destroy that ends without a warning leaves nothing in the cloud and no live
\* row of the lifetime it ended.
THEOREM DestroyLeavesNothing == Spec => []NothingLeftSilently
  BY LifecycleInvariant, PTL DEF IInv

\* While nothing has failed, the resources that are still there are among those
\* the sweep has a row for: the one that would block the next deletion would
\* be of an earlier wave.
LEMMA WavesSuffice == IInv => SweepRespectsUse
  <1> SUFFICES ASSUME IInv, At("sweep"), ~warned, NEW r \in NextStragglers,
                      NEW c \in cloud, c.x = r.x, InUse(c)
               PROVE  FALSE
    BY DEF SweepRespectsUse
  <1>1. r \in job.left /\ \A q \in job.left : waveOrder(r.type) <= waveOrder(q.type)
    BY DEF NextStragglers
  <1>2. job.left \subseteq rows /\ LiveX \subseteq Left
    BY DEF IInv, Sweep
  <1>3. r.type = c.type
    BY <1>1, <1>2 DEF IInv, SameTypes
  <1>4. PICK s \in cloud : s.type = "server"
    BY DEF InUse, Servers
  <1>5. PICK q \in job.left : q.x = s.x
    BY <1>2 DEF LiveX, Left
  <1>6. q.type = "server"
    BY <1>2, <1>4, <1>5 DEF IInv, SameTypes
  <1>7. c.type \in {"volume", "firewall", "network"}
    BY DEF InUse
  <1>8. waveOrder(q.type) = 0 /\ waveOrder(r.type) \in {1, 2}
    BY <1>3, <1>6, <1>7 DEF waveOrder
  <1> QED BY <1>1, <1>5, <1>8

\* Until something fails, the sweep of Destroy never asks the cloud to delete
\* a resource that is still in use.
THEOREM SweepInOrder == Spec => []SweepRespectsUse
  BY LifecycleInvariant, WavesSuffice, PTL

-----------------------------------------------------------------------------
(* What a step may tombstone. *)

GoneOrSwept ==
  \A r \in rows : r.live /\ [r EXCEPT !.live = FALSE] \in rows' =>
    (\A c \in cloud : c.x # r.x) \/ (At("tombstone") /\ job.row.id = r.id)

\* A step that keeps the rows, or adds live ones, tombstones none.
LEMMA NoneMarked ==
  ASSUME IInv, \A q \in rows' : q \in rows \/ q.live PROVE GoneOrSwept
  <1> SUFFICES ASSUME NEW r \in rows, r.live, [r EXCEPT !.live = FALSE] \in rows' PROVE FALSE
    BY DEF GoneOrSwept
  <1> DEFINE dead == [r EXCEPT !.live = FALSE]
  <1>1. r \in Row
    BY DEF IInv, TypeOK
  <1>2. dead.id = r.id /\ ~dead.live
    BY <1>1 DEF Row
  <1>3. dead \in rows
    BY <1>2
  <1> QED BY <1>2, <1>3 DEF IInv, RowIds

\* A step that marks one row tombstones at most that one.
LEMMA OneMarked ==
  ASSUME IInv, NEW id, MarkResourceDestroyed(id), NEW r \in rows, r.live,
         [r EXCEPT !.live = FALSE] \in rows'
  PROVE  r.id = id
  <1> DEFINE dead == [r EXCEPT !.live = FALSE]
  <1>1. rows \subseteq Row /\ r \in Row
    BY DEF IInv, TypeOK
  <1>2. dead.id = r.id /\ ~dead.live
    BY <1>1 DEF Row
  <1>3. PICK q \in rows : dead = IF q.id = id THEN [q EXCEPT !.live = FALSE] ELSE q
    BY DEF MarkResourceDestroyed
  <1>4. q.id = dead.id
    BY <1>1, <1>3 DEF Row
  <1>5. q = r
    BY <1>2, <1>4 DEF IInv, RowIds
  <1> QED BY <1>2, <1>3, <1>5

LEMMA RecordMarksNone ==
  ASSUME IInv, NEW x, NEW t, RecordResource(x, t) PROVE GoneOrSwept
  BY NoneMarked DEF RecordResource

LEMMA StepMarks == ASSUME IInv, [Next]_vars PROVE GoneOrSwept
  <1>1. CASE rows' = rows
    BY <1>1, NoneMarked
  <1>2. ASSUME NEW x, NEW t, Notify(x, t) PROVE GoneOrSwept
    BY <1>1, <1>2, RecordMarksNone DEF Notify, inventory
  <1>3. ASSUME NEW t, NEW next, Reuse(t, next) PROVE GoneOrSwept
    BY <1>2, <1>3 DEF Reuse
  <1>4. CASE EnsureClusterNetwork \/ EnsureFirewall
    BY <1>2, <1>3, <1>4 DEF EnsureClusterNetwork, EnsureFirewall, EnsureShared
  <1>5. CASE EnsureServer \/ EnsureVolume \/ AttachVolume
    <2>1. ASSUME NEW t, NEW wait, Begin(t, wait) PROVE rows' = rows
      BY <2>1 DEF Begin, inventory
    <2> QED BY <1>1, <1>2, <1>3, <1>5, <2>1 DEF EnsureServer, EnsureVolume, AttachVolume
  <1>6. CASE RecordMissing
    BY <1>6, RecordMarksNone DEF RecordMissing
  <1>7. CASE TombstoneGone
    <2>1. PICK g \in job.gone : MarkResourceDestroyed(g.id)
      BY <1>7 DEF TombstoneGone
    <2>2. /\ job.k \in 1 .. 4 /\ g \in rows
          /\ g.type = Fetchers[job.k] /\ g.x \notin There(Fetchers[job.k])
      BY <1>7, <2>1, FetchersAre
      DEF TombstoneGone, At, IInv, Walk, TypeOK, Listed, LiveRows
    <2>3. \A c \in cloud : c.x # g.x
      BY <2>2 DEF There, IInv, SameTypes
    <2>4. \A r \in rows : r.id = g.id => r = g
      BY <2>2 DEF IInv, RowIds
    <2> QED BY <2>1, <2>3, <2>4, OneMarked DEF GoneOrSwept
  <1>8. CASE TombstoneStraggler
    <2>1. At("tombstone") /\ (MarkResourceDestroyed(job.row.id) \/ UNCHANGED inventory)
      BY <1>8 DEF TombstoneStraggler
    <2>2. CASE MarkResourceDestroyed(job.row.id)
      BY <2>1, <2>2, OneMarked DEF GoneOrSwept
    <2> QED BY <1>1, <2>1, <2>2 DEF inventory
  <1>9. CASE \/ StartUp \/ StartAddNode \/ StartRemoveNode \/ StartDestroy \/ Stop
             \/ RegisterEarly \/ Install \/ RemoveNode \/ ListType \/ NextType
             \/ ReconcileDone \/ ReconcileFails \/ ListStragglers \/ DeleteStraggler
             \/ MarkDestroyed \/ FinishDestroy \/ UNCHANGED vars
    <2>1. rows' = rows
      BY <1>9
      DEF StartUp, StartAddNode, StartRemoveNode, StartDestroy, Start, Stop, RegisterEarly,
          UpsertCluster, Install, RemoveNode, ListType, NextType, ReconcileDone, ReconcileFails,
          ListStragglers, DeleteStraggler, MarkDestroyed, MarkClusterDestroyed, FinishDestroy,
          inventory, vars
    <2> QED BY <1>1, <2>1
  <1> QED BY <1>4, <1>5, <1>6, <1>7, <1>8, <1>9 DEF Next

\* No step tombstones the row of a resource that is there, but for a sweep that
\* has asked for its deletion.
THEOREM OnlyGoneTombstoned == Spec => TombstoneOnlyGone
  <1>1. IInv /\ [Next]_vars => [GoneOrSwept]_vars
    BY StepMarks
  <1> QED BY <1>1, LifecycleInvariant, PTL DEF Spec, TombstoneOnlyGone, GoneOrSwept
=============================================================================
