------------------------------ MODULE NodeOps ------------------------------
(***************************************************************************)
(* `add-node --count n` and `remove-node --node a --node b` on one         *)
(* cluster.  Each command starts a goroutine per node and takes their      *)
(* results from a channel; the main goroutine alone writes node rows.      *)
(* Several commands may run at once, in processes of their own.            *)
(*                                                                         *)
(* A worker is known in three places: the cloud has its server, Kubernetes *)
(* its node object, the registry its row.  A worker's name is the time, in *)
(* milliseconds, at which its goroutine read the clock.                    *)
(***************************************************************************)
EXTENDS Naturals, FiniteSets

CONSTANTS
  Procs,        \* processes
  Threads,      \* goroutines a command may start
  NULL,
  MaxClock,     \* bound: milliseconds
  MaxCommands,  \* bound: commands
  MaxFaults     \* bound: failed calls and unresolved providers

ASSUME NodeOpsAssumption ==
  /\ IsFiniteSet(Threads)
  /\ MaxClock \in Nat /\ MaxCommands \in Nat /\ MaxFaults \in Nat
  /\ NULL \notin Nat

VARIABLES
  servers,    \* names of live servers
  k8s,        \* names of node objects
  cordoned,   \* those that were drained
  rows,       \* hostnames of node rows
  clock,
  job,        \* the running command of each process
  lostWrite,  \* a registry write failed
  used,       \* history: names an add-node goroutine took
  contested,  \* history: names two of them took, or that a remove-node was
              \* asked for before their add-node had ended
  commands, faults

cluster == <<servers, k8s, cordoned>>
history == <<used, contested>>
vars == <<servers, k8s, cordoned, rows, clock, job, lostWrite, used, contested,
          commands, faults>>

Names == 0 .. MaxClock

\* A goroutine that was not started is "off"; "ok" and "failed" wait in the
\* channel, "took-ok" and "took-failed" have been received.
Off == [at |-> "off", name |-> NULL]

\* cmd, its goroutines, whether the provider was resolved, and the result.
Idle == [cmd |-> "none", th |-> [t \in Threads |-> Off], prov |-> TRUE,
         result |-> "none"]

Busy(p) == job[p].cmd # "none"
Thread(p, t) == job[p].th[t]
At(p, t, s) == Thread(p, t).at = s
Goto(p, t, s) == job' = [job EXCEPT ![p].th[t].at = s]

\* A goroutine of a running command works on name n.
Working(cmd, n) ==
  \E p \in Procs, t \in Threads :
    job[p].cmd = cmd /\ Thread(p, t).name = n /\ ~At(p, t, "off")

Fault == faults < MaxFaults /\ faults' = faults + 1
NoFault == UNCHANGED faults
Same == UNCHANGED <<clock, lostWrite, history, commands>>

Tick ==
  /\ clock < MaxClock /\ clock' = clock + 1
  /\ UNCHANGED <<cluster, rows, job, lostWrite, history, commands, faults>>

-----------------------------------------------------------------------------
(* add-node: addProviderWorkers, and Provider.AddNode in each goroutine. *)

Start(p, j) ==
  /\ ~Busy(p)
  /\ commands < MaxCommands /\ commands' = commands + 1
  /\ job' = [job EXCEPT ![p] = j]
  /\ UNCHANGED <<cluster, rows, clock, lostWrite>>

StartAdd(p) ==
  /\ \E T \in SUBSET Threads : T # {} /\
       Start(p, [Idle EXCEPT !.cmd = "add", !.th =
         [t \in Threads |-> IF t \in T THEN [Off EXCEPT !.at = "name"] ELSE Off]])
  /\ NoFault /\ UNCHANGED history

Name(p, t) ==
  /\ At(p, t, "name") /\ clock < MaxClock
  /\ job' = [job EXCEPT ![p].th[t] = [at |-> "lookup", name |-> clock]]
  /\ used' = used \cup {clock}
  /\ contested' = contested \cup (used \cap {clock})
  /\ UNCHANGED <<cluster, rows, clock, lostWrite, commands>> /\ NoFault

\* CreateClusterResources: a server of that name is reused.
LookupServer(p, t) ==
  /\ At(p, t, "lookup")
  /\ Goto(p, t, IF Thread(p, t).name \in servers THEN "join" ELSE "create")
  /\ UNCHANGED <<cluster, rows>> /\ NoFault /\ Same

\* Server names are unique in a project: the second create is an error.
CreateServer(p, t) ==
  /\ At(p, t, "create")
  /\ LET n == Thread(p, t).name
     IN IF n \in servers THEN Goto(p, t, "failed") /\ UNCHANGED servers
        ELSE Goto(p, t, "join") /\ servers' = servers \cup {n}
  /\ UNCHANGED <<k8s, cordoned, rows>> /\ NoFault /\ Same

\* SSH, the node token and the k3s agent, which registers the node: by then
\* the millisecond of the name is long past.
JoinNode(p, t) ==
  /\ At(p, t, "join") /\ clock > Thread(p, t).name
  /\ Thread(p, t).name \in servers
  /\ k8s' = k8s \cup {Thread(p, t).name}
  /\ Goto(p, t, "ok")
  /\ UNCHANGED <<servers, cordoned, rows>> /\ NoFault /\ Same

\* Mutant: a failed agent run is only logged.
AddFailsQuietly(p, t) ==
  /\ At(p, t, "name") \/ At(p, t, "lookup") \/ At(p, t, "create")
       \/ At(p, t, "join")
  /\ Goto(p, t, IF At(p, t, "join") THEN "ok" ELSE "failed")
  /\ \/ Fault
     \/ At(p, t, "join") /\ Thread(p, t).name \notin servers /\ NoFault
  /\ UNCHANGED <<cluster, rows>> /\ Same

\* A call fails, as all of them do on a server that is gone; what was created
\* stays.
AddFails(p, t) ==
  /\ At(p, t, "name") \/ At(p, t, "lookup") \/ At(p, t, "create")
       \/ At(p, t, "join")
  /\ Goto(p, t, "failed")
  /\ \/ Fault
     \/ At(p, t, "join") /\ Thread(p, t).name \notin servers /\ NoFault
  /\ UNCHANGED <<cluster, rows>> /\ Same

\* The main goroutine takes a result and records the row, best effort.
ReceiveAdded(p, t) ==
  /\ job[p].cmd = "add"
  /\ \/ /\ At(p, t, "ok") /\ Goto(p, t, "took-ok")
        /\ \/ /\ rows' = rows \cup {Thread(p, t).name}
              /\ UNCHANGED lostWrite /\ NoFault
           \/ UNCHANGED rows /\ lostWrite' = TRUE /\ Fault
     \/ At(p, t, "failed") /\ Goto(p, t, "took-failed")
          /\ UNCHANGED <<rows, lostWrite>> /\ NoFault
  /\ UNCHANGED <<cluster, clock, history, commands>>

-----------------------------------------------------------------------------
(* remove-node: RunRemoveNodeWithDeps, and removeOneNode in each goroutine. *)

\* The names come from the operator, who may repeat one.  When the registry
\* cannot name the provider there is none, and infrastructure is skipped.
StartRemove(p) ==
  /\ \E T \in SUBSET Threads, f \in [Threads -> servers \cup rows] :
     \E prov \in BOOLEAN :
       /\ T # {}
       /\ Start(p, [Idle EXCEPT !.cmd = "remove", !.prov = prov, !.th =
            [t \in Threads |-> IF t \in T THEN [at |-> "drain", name |-> f[t]]
                               ELSE Off]])
       /\ IF prov THEN NoFault ELSE Fault
       /\ contested' = contested
            \cup {n \in {f[t] : t \in T} : Working("add", n)}
       /\ UNCHANGED used

\* Mutant: a node that does not exist is drained all the same.
DrainUnknown(p, t) ==
  /\ At(p, t, "drain")
  /\ cordoned' = cordoned \cup {Thread(p, t).name}
  /\ \/ Goto(p, t, "delete") /\ NoFault
     \/ Goto(p, t, "failed") /\ Fault
  /\ UNCHANGED <<servers, k8s, rows>> /\ Same

\* kubectl drain cordons the node and evicts its pods; it fails on a node that
\* does not exist, and may fail after the cordon.
Drain(p, t) ==
  /\ At(p, t, "drain")
  /\ LET n == Thread(p, t).name IN
     \/ /\ n \in k8s /\ cordoned' = cordoned \cup {n}
        /\ \/ Goto(p, t, "delete") /\ NoFault
           \/ Goto(p, t, "failed") /\ Fault
     \/ /\ n \notin k8s /\ UNCHANGED cordoned
        /\ Goto(p, t, "failed") /\ NoFault
  /\ UNCHANGED <<servers, k8s, rows>> /\ Same

\* Mutant: a failed kubectl delete is ignored.
DeleteNodeUnchecked(p, t) ==
  /\ At(p, t, "delete") /\ Goto(p, t, "infra")
  /\ LET n == Thread(p, t).name IN
     \/ k8s' = k8s \ {n} /\ cordoned' = cordoned \ {n} /\ NoFault
     \/ UNCHANGED <<k8s, cordoned>> /\ Fault
  /\ UNCHANGED <<servers, rows>> /\ Same

\* kubectl delete node.
DeleteNode(p, t) ==
  /\ At(p, t, "delete")
  /\ LET n == Thread(p, t).name IN
     \/ /\ n \in k8s /\ Goto(p, t, "infra") /\ NoFault
        /\ k8s' = k8s \ {n} /\ cordoned' = cordoned \ {n}
     \/ /\ Goto(p, t, "failed") /\ UNCHANGED <<k8s, cordoned>>
        /\ IF n \in k8s THEN Fault ELSE NoFault
  /\ UNCHANGED <<servers, rows>> /\ Same

\* Mutant: an infrastructure error is logged and forgotten.
RemoveInfraForgiving(p, t) ==
  /\ At(p, t, "infra") /\ Goto(p, t, "ok")
  /\ \/ servers' = servers \ {Thread(p, t).name} /\ NoFault
     \/ UNCHANGED servers /\ Fault
  /\ UNCHANGED <<k8s, cordoned, rows>> /\ Same

\* Provider.RemoveNode: a server that is gone is fine.
RemoveInfra(p, t) ==
  /\ At(p, t, "infra")
  /\ \/ /\ Goto(p, t, "ok") /\ NoFault
        /\ servers' = IF job[p].prov THEN servers \ {Thread(p, t).name}
                      ELSE servers
     \/ job[p].prov /\ Goto(p, t, "failed") /\ UNCHANGED servers /\ Fault
  /\ UNCHANGED <<k8s, cordoned, rows>> /\ Same

\* Mutant: the row goes whatever the result.
ReceiveRemovedAll(p, t) ==
  /\ job[p].cmd = "remove"
  /\ \/ At(p, t, "ok") /\ Goto(p, t, "took-ok")
     \/ At(p, t, "failed") /\ Goto(p, t, "took-failed")
  /\ rows' = rows \ {Thread(p, t).name}
  /\ UNCHANGED <<cluster, clock, lostWrite, history, commands>> /\ NoFault

\* The main goroutine takes a result and removes the row, best effort.
ReceiveRemoved(p, t) ==
  /\ job[p].cmd = "remove"
  /\ \/ /\ At(p, t, "ok") /\ Goto(p, t, "took-ok")
        /\ \/ /\ rows' = rows \ {Thread(p, t).name}
              /\ UNCHANGED lostWrite /\ NoFault
           \/ UNCHANGED rows /\ lostWrite' = TRUE /\ Fault
     \/ At(p, t, "failed") /\ Goto(p, t, "took-failed")
          /\ UNCHANGED <<rows, lostWrite>> /\ NoFault
  /\ UNCHANGED <<cluster, clock, history, commands>>

-----------------------------------------------------------------------------
(* Both commands end when every result is in, with an error if one failed. *)

Started(p) == {t \in Threads : ~At(p, t, "off")}

Conclude(p) ==
  /\ Busy(p) /\ job[p].result = "none"
  /\ \A t \in Started(p) : At(p, t, "took-ok") \/ At(p, t, "took-failed")
  /\ job' = [job EXCEPT ![p].result =
       IF \E t \in Started(p) : At(p, t, "took-failed") THEN "error" ELSE "success"]
  /\ UNCHANGED <<cluster, rows>> /\ NoFault /\ Same

Exit(p) ==
  /\ job[p].result # "none"
  /\ job' = [job EXCEPT ![p] = Idle]
  /\ UNCHANGED <<cluster, rows>> /\ NoFault /\ Same

-----------------------------------------------------------------------------
Init ==
  /\ servers = {} /\ k8s = {} /\ cordoned = {} /\ rows = {}
  /\ clock = 0 /\ job = [p \in Procs |-> Idle]
  /\ lostWrite = FALSE /\ used = {} /\ contested = {}
  /\ commands = 0 /\ faults = 0

Next ==
  \/ Tick
  \/ \E p \in Procs :
       \/ StartAdd(p) \/ StartRemove(p) \/ Conclude(p) \/ Exit(p)
       \/ \E t \in Threads :
            \/ Name(p, t) \/ LookupServer(p, t) \/ CreateServer(p, t)
            \/ JoinNode(p, t) \/ AddFails(p, t) \/ ReceiveAdded(p, t)
            \/ Drain(p, t) \/ DeleteNode(p, t) \/ RemoveInfra(p, t)
            \/ ReceiveRemoved(p, t)

Spec == Init /\ [][Next]_vars

-----------------------------------------------------------------------------
(* Properties. *)

Steps == {"off", "name", "lookup", "create", "join", "drain", "delete", "infra",
          "ok", "failed", "took-ok", "took-failed"}

\* Names are times that have been; a cordoned node is a node.
TypeOK ==
  /\ servers \subseteq 0 .. clock /\ k8s \subseteq 0 .. clock
  /\ rows \subseteq 0 .. clock /\ cordoned \subseteq k8s
  /\ clock \in Names /\ lostWrite \in BOOLEAN
  /\ job \in [Procs -> [cmd: {"none", "add", "remove"},
                        th: [Threads -> [at: Steps, name: Names \cup {NULL}]],
                        prov: BOOLEAN, result: {"none", "success", "error"}]]
  /\ contested \subseteq used /\ used \subseteq 0 .. clock
  /\ commands \in 0 .. MaxCommands /\ faults \in 0 .. MaxFaults

Succeeded(p, cmd) == job[p].cmd = cmd /\ job[p].result = "success"
Asked(p) == {Thread(p, t).name : t \in Started(p)}

\* docs: "--count adds multiple workers in parallel".  An add-node of n workers
\* that reports success has added n workers.  Goroutines that read the same
\* millisecond share a name, so it does not hold.
AddNodeDelivers ==
  \A p \in Procs :
    Succeeded(p, "add") => Cardinality(Asked(p)) = Cardinality(Started(p))

\* What it holds of: each worker of a successful add-node whose name is its own,
\* and that nobody removes meanwhile, is in all three places.
AddedEverywhere ==
  \A p \in Procs : Succeeded(p, "add") =>
    \A n \in Asked(p) \ contested :
      n \in servers /\ n \in k8s /\ (n \in rows \/ lostWrite)

\* A remove-node that reports success leaves nothing of its nodes, with the
\* provider resolved and no write lost, however the removals interleave.
RemovedEverywhere ==
  \A p \in Procs : Succeeded(p, "remove") =>
    \A n \in Asked(p) \ contested :
      /\ n \notin k8s
      /\ n \notin servers \/ ~job[p].prov
      /\ n \notin rows \/ lostWrite

\* A worker leaves in one order, drain, node, server, row, also when two
\* removals of it race: no workload is cut off, and whatever fails the registry
\* does not forget a running machine, unless the provider was not resolved.
RemovalOrder ==
  [][\A n \in Names \ contested :
       /\ n \in k8s \ k8s' => n \in cordoned
       /\ n \in servers \ servers' => n \notin k8s
       /\ n \in rows \ rows' =>
            \/ n \notin servers
            \/ \E p \in Procs : Working("remove", n) /\ ~job[p].prov]_vars
=============================================================================
