-------------------------------- MODULE Qemu --------------------------------
(***************************************************************************)
(* The virtual machines of one QEMU cluster on the operator's machine, and *)
(* the commands `up`, `add-node`, `remove-node` and `destroy` that start   *)
(* and stop them.                                                          *)
(*                                                                         *)
(* A virtual machine is a process that outlives the command which launched *)
(* it.  All that a later command knows of it are two files in the node's   *)
(* directory: ssh.port, written before the launch, and vm.pid, written     *)
(* after it.  Node 0 is the control plane, whose directory is the state    *)
(* directory of the cluster and holds the directories of all workers; the  *)
(* index of the next worker is kept in cluster.json.                       *)
(*                                                                         *)
(* The forwarded port and the process id of a virtual machine are one      *)
(* number here: neither is used twice, and a port that is taken between    *)
(* its choice and the launch is a failed launch.                           *)
(***************************************************************************)
EXTENDS Naturals

CONSTANTS
  Procs,        \* processes
  Threads,      \* goroutines of a command, one per worker it adds
  NULL,
  MaxIdx,       \* bound: index of the last worker
  MaxVMs,       \* bound: virtual machines launched
  MaxCommands,  \* bound: commands
  MaxFaults     \* bound: failed steps and crashes

ASSUME QemuAssumption ==
  /\ MaxIdx \in Nat /\ MaxVMs \in Nat \ {0} /\ MaxCommands \in Nat /\ MaxFaults \in Nat
  /\ NULL \notin Nat /\ NULL \notin Procs

VARIABLES
  files,       \* per node: its directory, ssh.port and vm.pid (0 is no file)
  json,        \* cluster.json: the next index and the control plane; or NULL
  vms,         \* running virtual machines
  kubeconfig,  \* the control plane ~/.kube/<name>.yaml leads to, or 0
  row,         \* the registry's row of the cluster
  job,         \* the running command of each process
  tickets,     \* ports chosen so far
  contested,   \* history: indices two commands took
  excused,     \* history: virtual machines whose files were lost to another
               \* run's command on the cluster, or show a stale vm.pid
  writer,      \* history: the process that wrote cluster.json last
  commands, faults

history == <<contested, excused, writer>>
vars == <<files, json, vms, kubeconfig, row, job, tickets, history, commands, faults>>

Nodes == 0 .. MaxIdx
Ids == 1 .. MaxVMs

Gone == [dir |-> FALSE, port |-> 0, pid |-> 0]
NoFiles == [n \in Nodes |-> Gone]

\* A goroutine of AddNode: where it is, its index and port, and the
\* cluster.json it has read.
Off == [at |-> "off", n |-> 0, id |-> 0, cs |-> NULL]

\* A command: where it is, the machine it launched (up) or the worker it
\* removes, the machines that ran when it began (destroy) or that it drained
\* (remove), its goroutines.
Idle == [cmd |-> "none", at |-> "none", id |-> 0, n |-> 0, seen |-> {},
         th |-> [t \in Threads |-> Off]]

Busy(p) == job[p].cmd # "none"
At(p, s) == job[p].at = s
Goto(p, s) == job' = [job EXCEPT ![p].at = s]
ThreadAt(p, t, s) == At(p, "workers") /\ job[p].th[t].at = s
ThreadGoto(p, t, s) == job' = [job EXCEPT ![p].th[t].at = s]
End(p) == job' = [job EXCEPT ![p] = Idle]

\* The indices whose workers command q is adding.
Working == {"port", "launch", "pid", "join"}
Taken(q) ==
  {job[q].th[t].n : t \in {u \in Threads :
     At(q, "workers") /\ job[q].th[u].at \in Working \cup {"mkdir"}}}

IdsOf(V) == {v.id : v \in V}
Running(id) == id \in IdsOf(vms)
Killed(id) == {v \in vms : v.id # id}

Fault == faults < MaxFaults /\ faults' = faults + 1
NoFault == UNCHANGED faults
Same == UNCHANGED <<kubeconfig, row, commands>>

-----------------------------------------------------------------------------
Start(p, j) ==
  /\ ~Busy(p) /\ commands < MaxCommands
  /\ job' = [job EXCEPT ![p] = j] /\ commands' = commands + 1
  /\ UNCHANGED <<files, json, vms, kubeconfig, row, tickets, history, faults>>

Wanted(T) == [t \in Threads |-> IF t \in T THEN [Off EXCEPT !.at = "load"] ELSE Off]

(* up: Provider.Provision, the cluster's row, and the workers of --nodes. *)

StartUp(p) ==
  \E T \in SUBSET Threads :
    Start(p, [Idle EXCEPT !.cmd = "up", !.at = "prepare", !.th = Wanted(T)])

\* What runs now, but for the machine in vm.pid, is out of this run's sight.
UpPrepare(p) ==
  /\ At(p, "prepare") /\ Goto(p, "port")
  /\ files' = [files EXCEPT ![0].dir = TRUE]
  /\ vms' = Killed(files[0].pid)
  /\ excused' = IF files[0].dir THEN excused \cup IdsOf(vms') ELSE excused
  /\ contested' = IF \E q \in Procs \ {p} : job[q].cmd = "up"
                  THEN contested \cup {0} ELSE contested
  /\ UNCHANGED <<json, tickets, writer>> /\ Same /\ NoFault

UpPort(p) ==
  /\ At(p, "port") /\ files[0].dir /\ tickets < MaxVMs
  /\ tickets' = tickets + 1
  /\ files' = [files EXCEPT ![0].port = tickets']
  /\ job' = [job EXCEPT ![p].at = "launch", ![p].id = tickets']
  /\ UNCHANGED <<json, vms, history>> /\ Same /\ NoFault

UpLaunch(p) ==
  /\ At(p, "launch") /\ files[0].dir /\ Goto(p, "pid")
  /\ vms' = vms \cup {[id |-> job[p].id, node |-> 0, joined |-> 0]}
  /\ UNCHANGED <<files, json, tickets, history>> /\ Same /\ NoFault

UpPid(p) ==
  /\ At(p, "pid") /\ files[0].dir /\ Goto(p, "bootstrap")
  /\ files' = [files EXCEPT ![0].pid = job[p].id]
  /\ UNCHANGED <<json, vms, tickets, history>> /\ Same /\ NoFault

\* SSH, the agent's run, and the kubeconfig it returns.
UpBootstrap(p) ==
  /\ At(p, "bootstrap") /\ Running(job[p].id) /\ Goto(p, "save")
  /\ kubeconfig' = job[p].id
  /\ UNCHANGED <<files, json, vms, row, tickets, history, commands>> /\ NoFault

\* The indices start again, whatever workers there are from before or are
\* being added by other commands.
UpSave(p) ==
  /\ At(p, "save") /\ files[0].dir /\ Goto(p, "record")
  /\ json' = [next |-> 1, cp |-> job[p].id]
  /\ writer' = p
  /\ contested' = contested \cup {n \in Nodes \ {0} : files[n].dir}
                            \cup {v.node : v \in {w \in vms : w.node # 0}}
                            \cup UNION {Taken(q) : q \in Procs}
  /\ UNCHANGED <<files, vms, tickets, excused>> /\ Same /\ NoFault

\* Best effort: the row may not be written.
UpRecord(p) ==
  /\ At(p, "record") /\ Goto(p, "workers")
  /\ \/ row' = "active" /\ NoFault
     \/ UNCHANGED row /\ Fault
  /\ UNCHANGED <<files, json, vms, kubeconfig, tickets, history, commands>>

UpBlocked(p) ==
  \/ At(p, "bootstrap") /\ ~Running(job[p].id)
  \/ job[p].at \in {"port", "launch", "pid", "save"} /\ ~files[0].dir

\* Mutant: the cleanup removes the files of the control plane only.
UpFailsShallow(p) ==
  /\ job[p].at \in {"port", "launch", "pid", "bootstrap", "save"}
  /\ \/ UpBlocked(p) /\ NoFault
     \/ ~UpBlocked(p) /\ Fault
  /\ vms' = Killed(job[p].id)
  /\ files' = [files EXCEPT ![0].dir = FALSE] /\ json' = NULL
  /\ excused' = excused \cup (IdsOf(vms') \ {job[p].id})
  /\ End(p)
  /\ UNCHANGED <<tickets, contested, writer>> /\ Same

\* The deferred cleanup: the machine is killed, the state directory removed.
UpFails(p) ==
  /\ job[p].at \in {"port", "launch", "pid", "bootstrap", "save"}
  /\ \/ UpBlocked(p) /\ NoFault
     \/ ~UpBlocked(p) /\ Fault
  /\ vms' = Killed(job[p].id)
  /\ files' = NoFiles /\ json' = NULL
  /\ excused' = excused \cup (IdsOf(vms') \ {job[p].id})
  /\ End(p)
  /\ UNCHANGED <<tickets, contested, writer>> /\ Same

-----------------------------------------------------------------------------
(* add-node: Provider.AddNode in each goroutine. *)

StartAdd(p) ==
  \E T \in SUBSET Threads :
    T # {} /\ Start(p, [Idle EXCEPT !.cmd = "add", !.at = "workers", !.th = Wanted(T)])

\* Mutant: the mutex is forgotten.
LoadUnlocked(p, t) ==
  /\ ThreadAt(p, t, "load") /\ json # NULL /\ json.next <= MaxIdx
  /\ job' = [job EXCEPT ![p].th[t] = [@ EXCEPT !.at = "save", !.n = json.next, !.cs = json]]
  /\ UNCHANGED <<files, json, vms, tickets, history>> /\ Same /\ NoFault

\* The mutex of the process is held from the load to the save.
Load(p, t) ==
  /\ ThreadAt(p, t, "load") /\ json # NULL /\ json.next <= MaxIdx
  /\ \A u \in Threads : ~ThreadAt(p, u, "save")
  /\ job' = [job EXCEPT ![p].th[t] = [@ EXCEPT !.at = "save", !.n = json.next, !.cs = json]]
  /\ UNCHANGED <<files, json, vms, tickets, history>> /\ Same /\ NoFault

\* The indices another process has taken since cs was read: any from there on
\* when cluster.json has gone, and is now brought back.
Overwritten(p, cs) ==
  IF json # cs /\ writer # p
  THEN {n \in Nodes : cs.next <= n /\ (json = NULL \/ n < json.next)} ELSE {}

Save(p, t) ==
  /\ ThreadAt(p, t, "save") /\ files[0].dir /\ tickets < MaxVMs
  /\ LET cs == job[p].th[t].cs
     IN /\ json' = [cs EXCEPT !.next = @ + 1]
        /\ contested' = contested \cup Overwritten(p, cs)
  /\ writer' = p
  /\ tickets' = tickets + 1
  /\ job' = [job EXCEPT ![p].th[t] = [@ EXCEPT !.at = "mkdir", !.id = tickets']]
  /\ UNCHANGED <<files, vms, excused>> /\ Same /\ NoFault

\* MkdirAll brings the state directory back when it has gone.
MakeDir(p, t) ==
  /\ ThreadAt(p, t, "mkdir") /\ ThreadGoto(p, t, "port")
  /\ files' = [files EXCEPT ![0].dir = TRUE, ![job[p].th[t].n].dir = TRUE]
  /\ UNCHANGED <<json, vms, tickets, history>> /\ Same /\ NoFault

WritePort(p, t) ==
  LET th == job[p].th[t]
  IN /\ ThreadAt(p, t, "port") /\ files[th.n].dir /\ ThreadGoto(p, t, "launch")
     /\ files' = [files EXCEPT ![th.n].port = th.id]
     /\ UNCHANGED <<json, vms, tickets, history>> /\ Same /\ NoFault

Launch(p, t) ==
  LET th == job[p].th[t]
  IN /\ ThreadAt(p, t, "launch") /\ files[th.n].dir /\ ThreadGoto(p, t, "pid")
     /\ vms' = vms \cup {[id |-> th.id, node |-> th.n, joined |-> 0]}
     /\ UNCHANGED <<files, json, tickets, history>> /\ Same /\ NoFault

WritePid(p, t) ==
  LET th == job[p].th[t]
  IN /\ ThreadAt(p, t, "pid") /\ files[th.n].dir /\ ThreadGoto(p, t, "join")
     /\ files' = [files EXCEPT ![th.n].pid = th.id]
     /\ UNCHANGED <<json, vms, tickets, history>> /\ Same /\ NoFault

\* SSH and the agent's run, with the token that was in cluster.json.
Join(p, t) ==
  LET th == job[p].th[t]
  IN /\ ThreadAt(p, t, "join") /\ Running(th.id) /\ Running(th.cs.cp)
     /\ vms' = Killed(th.id) \cup {[id |-> th.id, node |-> th.n, joined |-> th.cs.cp]}
     /\ ThreadGoto(p, t, "ok")
     /\ UNCHANGED <<files, json, tickets, history>> /\ Same /\ NoFault

Blocked(p, t) ==
  LET th == job[p].th[t]
  IN \/ th.at = "load" /\ json = NULL
     \/ th.at = "save" /\ ~files[0].dir
     \/ th.at \in {"port", "launch", "pid"} /\ ~files[th.n].dir
     \/ th.at = "join" /\ ~(Running(th.id) /\ Running(th.cs.cp))

\* Mutant: the deferred cleanup forgets the virtual machine.
ThreadFailsNoKill(p, t) ==
  LET th == job[p].th[t]
  IN /\ At(p, "workers") /\ th.at \in Working \cup {"load", "save", "mkdir"}
     /\ \/ Blocked(p, t) /\ NoFault
        \/ ~Blocked(p, t) /\ Fault
     /\ files' = IF th.at \in Working THEN [files EXCEPT ![th.n] = Gone] ELSE files
     /\ ThreadGoto(p, t, "failed")
     /\ UNCHANGED <<json, vms, tickets, history>> /\ Same

\* The deferred cleanup: the machine is killed and the worker's directory
\* removed.  The index stays taken.
ThreadFails(p, t) ==
  LET th == job[p].th[t]
  IN /\ At(p, "workers") /\ th.at \in Working \cup {"load", "save", "mkdir"}
     /\ \/ Blocked(p, t) /\ NoFault
        \/ ~Blocked(p, t) /\ Fault
     /\ vms' = Killed(th.id)
     /\ files' = IF th.at \in Working THEN [files EXCEPT ![th.n] = Gone] ELSE files
     /\ ThreadGoto(p, t, "failed")
     /\ UNCHANGED <<json, tickets, history>> /\ Same

WorkersEnd(p) ==
  /\ At(p, "workers") /\ \A t \in Threads : job[p].th[t].at \in {"off", "ok", "failed"}
  /\ End(p)
  /\ UNCHANGED <<files, json, vms, tickets, history>> /\ Same /\ NoFault

-----------------------------------------------------------------------------
(* remove-node *)

\* Without a row no provider is found, and the infrastructure step is skipped.
StartRemove(p) ==
  \E n \in Nodes \ {0} :
    Start(p, [Idle EXCEPT !.cmd = "remove", !.at = "drain", !.n = n,
                          !.id = IF row = "none" THEN 0 ELSE 1])

Member(v, n) == v.node = n /\ v.joined = kubeconfig /\ kubeconfig # 0

\* kubectl drain and delete, through the control plane of the kubeconfig.
DeleteNode(p) ==
  /\ At(p, "drain") /\ Running(kubeconfig)
  /\ \E v \in vms : Member(v, job[p].n)
  /\ job' = [job EXCEPT ![p].at = "infra",
                        ![p].seen = IdsOf({v \in vms : Member(v, job[p].n)})]
  /\ vms' = {IF Member(v, job[p].n) THEN [v EXCEPT !.joined = 0] ELSE v : v \in vms}
  /\ UNCHANGED <<files, json, tickets, history>> /\ Same /\ NoFault

DeleteNodeFails(p) ==
  /\ At(p, "drain") /\ End(p)
  /\ ~Running(kubeconfig) \/ ~\E v \in vms : Member(v, job[p].n)
  /\ UNCHANGED <<files, json, vms, tickets, history>> /\ Same /\ NoFault

\* Another machine that has come in its place meanwhile loses its files.
RemoveInfra(p) ==
  LET n == job[p].n
  IN /\ At(p, "infra") /\ End(p)
     /\ IF job[p].id = 0 THEN UNCHANGED <<files, vms, excused>>
        ELSE /\ vms' = Killed(files[n].pid) /\ files' = [files EXCEPT ![n] = Gone]
             /\ excused' = excused \cup (IdsOf({v \in vms : v.node = n}) \ job[p].seen)
     /\ UNCHANGED <<json, tickets, contested, writer>> /\ Same /\ NoFault

-----------------------------------------------------------------------------
(* destroy *)

\* The machines command p has launched and would kill should it fail.
Held(p) ==
  IF job[p].cmd = "up" /\ job[p].at \in {"pid", "bootstrap", "save"} THEN {job[p].id}
  ELSE IF At(p, "workers")
       THEN {job[p].th[t].id : t \in {u \in Threads : job[p].th[u].at \in {"pid", "join"}}}
       ELSE {}

\* Those of them in a directory that still has the vm.pid of an earlier machine:
\* until it is overwritten nobody else can find them.
Strays(p) ==
  {v.id : v \in {w \in vms : w.id \in Held(p) /\ files[w.node].pid \notin {0, w.id}}}

StartDestroy(p) ==
  /\ row = "active"
  /\ Start(p, [Idle EXCEPT !.cmd = "destroy", !.at = "killWorkers",
                           !.seen = IdsOf(vms) \ UNION {Strays(q) : q \in Procs}])

\* Mutant: only vm.pid is looked at.
FoundByPid(n) == IF files[n].pid # 0 THEN files[n].pid ELSE 0

\* By vm.pid, or else by the port in its command line.
Found(n) == IF files[n].pid # 0 THEN files[n].pid ELSE files[n].port

KillWorkers(p) ==
  /\ At(p, "killWorkers") /\ Goto(p, "killControlPlane")
  /\ vms' = {v \in vms : \A n \in Nodes \ {0} : v.id # Found(n)}
  /\ UNCHANGED <<files, json, tickets, history>> /\ Same /\ NoFault

KillControlPlane(p) ==
  /\ At(p, "killControlPlane") /\ Goto(p, "removeFiles")
  /\ vms' = {v \in vms : v.id # Found(0)}
  /\ UNCHANGED <<files, json, tickets, history>> /\ Same /\ NoFault

\* A machine that was launched meanwhile, or is just being, loses its files.
RemoveFiles(p) ==
  /\ At(p, "removeFiles") /\ Goto(p, "mark")
  /\ kubeconfig' = 0 /\ files' = NoFiles /\ json' = NULL
  /\ excused' = excused \cup (IdsOf(vms) \ job[p].seen)
                        \cup {job[q].id : q \in {r \in Procs : At(r, "launch")}}
  /\ UNCHANGED <<vms, row, tickets, contested, writer, commands>> /\ NoFault

MarkDestroyed(p) ==
  /\ At(p, "mark") /\ Goto(p, "destroyed")
  /\ row' = "destroyed"
  /\ UNCHANGED <<files, json, vms, kubeconfig, tickets, history, commands>> /\ NoFault

DestroyEnds(p) ==
  /\ At(p, "destroyed") /\ End(p)
  /\ UNCHANGED <<files, json, vms, tickets, history>> /\ Same /\ NoFault

-----------------------------------------------------------------------------
\* A command dies, its machines do not.
Crash(p) ==
  /\ Busy(p) /\ Fault /\ End(p)
  /\ excused' = excused \cup Strays(p)
  /\ UNCHANGED <<files, json, vms, tickets, contested, writer>> /\ Same

Init ==
  /\ files = NoFiles /\ json = NULL /\ vms = {} /\ kubeconfig = 0 /\ row = "none"
  /\ job = [p \in Procs |-> Idle] /\ tickets = 0
  /\ contested = {} /\ excused = {} /\ writer = NULL
  /\ commands = 0 /\ faults = 0

Up(p) ==
  \/ StartUp(p) \/ UpPrepare(p) \/ UpPort(p) \/ UpLaunch(p) \/ UpPid(p)
  \/ UpBootstrap(p) \/ UpSave(p) \/ UpRecord(p) \/ UpFails(p)

Worker(p, t) ==
  \/ Load(p, t) \/ Save(p, t) \/ MakeDir(p, t) \/ WritePort(p, t)
  \/ Launch(p, t) \/ WritePid(p, t) \/ Join(p, t) \/ ThreadFails(p, t)

Remove(p) == StartRemove(p) \/ DeleteNode(p) \/ DeleteNodeFails(p) \/ RemoveInfra(p)

Destroy(p) ==
  \/ StartDestroy(p) \/ KillWorkers(p) \/ KillControlPlane(p)
  \/ RemoveFiles(p) \/ MarkDestroyed(p) \/ DestroyEnds(p)

Next ==
  \E p \in Procs :
    \/ Up(p) \/ StartAdd(p) \/ (\E t \in Threads : Worker(p, t)) \/ WorkersEnd(p)
    \/ Remove(p) \/ Destroy(p) \/ Crash(p)

Spec == Init /\ [][Next]_vars

-----------------------------------------------------------------------------
VMs == [id : Ids, node : Nodes, joined : {0} \cup Ids]

ThreadType ==
  [at : Working \cup {"off", "load", "save", "mkdir", "ok", "failed"},
   n : Nodes, id : {0} \cup Ids,
   cs : {NULL} \cup [next : 1 .. MaxIdx, cp : Ids]]

JobType ==
  [cmd : {"none", "up", "add", "remove", "destroy"},
   at : {"none", "prepare", "port", "launch", "pid", "bootstrap", "save", "record",
         "workers", "drain", "infra", "killWorkers", "killControlPlane",
         "removeFiles", "mark", "destroyed"},
   id : {0} \cup Ids, n : Nodes, seen : SUBSET Ids, th : [Threads -> ThreadType]]

\* The state is well formed, and no two goroutines of a process are inside
\* its mutex.
TypeOK ==
  /\ files \in [Nodes -> [dir : BOOLEAN, port : {0} \cup Ids, pid : {0} \cup Ids]]
  /\ json \in {NULL} \cup [next : 1 .. MaxIdx + 1, cp : Ids]
  /\ vms \in SUBSET VMs /\ kubeconfig \in {0} \cup Ids
  /\ row \in {"none", "active", "destroyed"}
  /\ job \in [Procs -> JobType] /\ tickets \in 0 .. MaxVMs
  /\ contested \in SUBSET Nodes /\ excused \in SUBSET Ids
  /\ writer \in {NULL} \cup Procs
  /\ \A n \in Nodes : ~files[n].dir => files[n] = Gone
  /\ \A p \in Procs : \A t, u \in Threads :
       ThreadAt(p, t, "save") /\ ThreadAt(p, u, "save") => t = u

Excused(v) == v.id \in excused \/ v.node \in contested

\* What a destroy that started now would look for, and kill: destroy refuses to
\* look without an active row (destroy.go:145-152).
DestroyFinds(v) == row = "active" /\ Found(v.node) = v.id

\* While the registry has the cluster, every virtual machine is one that destroy
\* would find, or one a running command has in hand and kills on failure (the
\* deferred cleanups, ssh.port before the launch, Destroy's fallback to the
\* port), wherever commands fail or die and however add-nodes run in parallel.
\* Exempt (excused) are machines that an `up` over an existing state directory
\* found running; those whose files another process's destroy, failing `up` or
\* remove-node of an earlier machine of their name removed; and those whose
\* command died while their directory still had the vm.pid of an earlier
\* machine (Strays): destroy then trusts that stale file and not the port.
\* Without an active row nothing is promised: see DestroyReachesAll.
NoOrphans ==
  row = "active" =>
    \A v \in vms : \/ Excused(v) \/ DestroyFinds(v)
                   \/ \E p \in Procs : v.id \in Held(p)

\* What the comments on the fallback to the port say (provider.go:518-519 and
\* 1023-1025): it serves destroy after a Provision that failed before it wrote
\* vm.pid, so that no machine leaks.  Not so: an `up` that dies there has not
\* written the row without which destroy refuses to run.
DestroyReachesAll ==
  (\A p \in Procs : ~Busy(p)) => \A v \in vms : Excused(v) \/ DestroyFinds(v)

\* A node name stands for one machine: two goroutines never boot two of them
\* as the same worker, nor does a later command reuse the index of one that
\* still runs (AddNode's mutex, cluster.json saved before it is acted upon).
\* Exempt are the indices that two processes took from the same cluster.json,
\* and those that were in use when an `up` started them over.
OneMachinePerNode ==
  \A v, w \in vms : v.node = w.node /\ v # w => Excused(v) \/ Excused(w)

\* A destroy that reports success has stopped every machine that was running
\* when it began, those whose add-node died half-way included (Destroy).
DestroyStopsAll ==
  \A p \in Procs : At(p, "destroyed") =>
    \A v \in vms : v.id \in job[p].seen => Excused(v)
=============================================================================
