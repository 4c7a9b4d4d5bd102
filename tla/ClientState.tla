----------------------------- MODULE ClientState -----------------------------
(***************************************************************************)
(* What `up`, `destroy`, `login` and `use-context` keep on the operator's  *)
(* machine besides the cluster: the kubeconfig file of each cluster, the   *)
(* entries and the current context of ~/.kube/config, the registry's rows, *)
(* and the contexts of ~/.clusterbox/config.yaml.                          *)
(*                                                                         *)
(* Both shared files are read, changed in memory and written back whole:   *)
(* nothing is locked, and os.WriteFile empties a file before it fills it.  *)
(* An empty file parses as one without entries.                            *)
(*                                                                         *)
(* The four providers differ in what a re-run of up reuses, in what they   *)
(* write into the registry themselves, and in what their Destroy leaves    *)
(* behind.  Sizes other than 1 are k3d's; a bare-metal name has one host.  *)
(***************************************************************************)
EXTENDS Naturals

CONSTANTS
  Procs,        \* processes
  Clusters,     \* names of clusters
  Foreign,      \* an entry of ~/.kube/config that is not clusterbox's
  Contexts,     \* names of contexts in config.yaml
  None,         \* no current context
  Offered,      \* the providers that up is asked for
  Sizes,        \* of k3d clusters, in nodes
  MaxLives,     \* bound: clusters created
  MaxCommands,  \* bound: commands
  MaxFaults     \* bound: failed steps and crashes

Providers == {"k3d", "qemu", "hetzner", "baremetal"}

ASSUME ClientStateAssumption ==
  /\ Offered \subseteq Providers
  /\ Foreign \notin Clusters
  /\ None \notin Clusters \cup Contexts \cup {Foreign}
  /\ Sizes \subseteq Nat \ {0} /\ 1 \in Sizes
  /\ MaxLives \in Nat /\ MaxCommands \in Nat /\ MaxFaults \in Nat

VARIABLES
  world,      \* per cluster and provider: what runs
  file,       \* ~/.kube/<name>.yaml: the cluster it leads to, or 0
  kc,         \* ~/.kube/config
  row,        \* the registry: state, provider and nodes of a cluster
  config,     \* config.yaml
  job,        \* the running command of each process
  lives,      \* clusters created so far
  unsettled,  \* history: clusters whose last command failed, warned or died
  tangled,    \* history: clusters that were brought up with two providers,
              \* that two commands worked on at once, or where one warned
  left,       \* history: clusters of which the last Hetzner sweep left machines
  resized,    \* history: clusters whose re-run asked for another size
  clobbered,  \* history: entries lost to overlapping or interrupted writes
  commands, faults

history == <<unsettled, tangled, left, resized, clobbered>>
vars == <<world, file, kc, row, config, job, lives, history, commands, faults>>

\* Those whose Destroy removes the cluster's own kubeconfig.
Tidy == {"k3d", "qemu"}
Names == Clusters \cup {Foreign}

Nothing == [life |-> 0, size |-> 0]
NoRow == [st |-> "none", prov |-> "k3d", nodes |-> {}]

\* The entry of a name is the cluster it leads to; 0 is none.
Blank == [entry |-> [n \in Names |-> 0], current |-> None]
NoConfig == [contexts |-> {}, current |-> None]

\* A command: its cluster, provider and size (up, destroy), its context
\* (login, use-context), the file it has read and what it will write.
Idle == [cmd |-> "none", at |-> "none", c |-> None, prov |-> "k3d", size |-> 1,
         base |-> Blank, new |-> Blank, cfg |-> NoConfig]

Busy(p) == job[p].cmd # "none"
At(p, s) == job[p].at = s
Goto(p, s) == job' = [job EXCEPT ![p].at = s]
End(p) == job' = [job EXCEPT ![p] = Idle]
WorkedOn(c) == \E p \in Procs : Busy(p) /\ job[p].c = c

Fault == faults < MaxFaults /\ faults' = faults + 1
NoFault == UNCHANGED faults
Same == UNCHANGED <<config, lives, left, resized, commands>>

-----------------------------------------------------------------------------
\* A k3d up, which has no business with ~/.kube/config, of a name whose
\* destroy with another provider did not get to clean that file.
Leftover(j) ==
  /\ j.cmd = "up" /\ j.prov = "k3d" /\ j.c \in unsettled
  /\ row[j.c].st = "destroyed" /\ row[j.c].prov # "k3d"

Start(p, j) ==
  /\ ~Busy(p) /\ commands < MaxCommands
  /\ job' = [job EXCEPT ![p] = j] /\ commands' = commands + 1
  /\ tangled' = IF j.c \in Clusters /\ (WorkedOn(j.c) \/ Leftover(j))
                THEN tangled \cup {j.c} ELSE tangled
  /\ unsettled' = unsettled \cup ({j.c} \cap Clusters)
  /\ UNCHANGED <<world, file, kc, row, config, lives, left, resized, clobbered, faults>>

(* up *)

First == [k3d |-> "create", qemu |-> "kill", hetzner |-> "register", baremetal |-> "create"]

StartUp(p) ==
  \E c \in Clusters, prov \in Offered, size \in Sizes :
    /\ prov # "k3d" => size = 1
    /\ Start(p, [Idle EXCEPT !.cmd = "up", !.at = First[prov], !.c = c, !.prov = prov,
                             !.size = size])

\* What may run without a row: a bare-metal host, which Destroy does not
\* touch, and what a Hetzner sweep could not delete.
Outlives(c, prov) == prov = "baremetal" \/ (prov = "hetzner" /\ c \in left)

\* Two providers serve this name now; the row will know of the last one.
Mixing(c, prov) ==
  tangled' = IF \/ row[c].st = "active" /\ row[c].prov # prov
                \/ \E q \in Providers \ {prov} : world[c][q] # Nothing /\ ~Outlives(c, q)
             THEN tangled \cup {c} ELSE tangled

\* Hetzner's Provision writes the cluster's row before it creates anything.
Register(p) ==
  LET c == job[p].c
  IN /\ At(p, "register") /\ Goto(p, "create") /\ Mixing(c, "hetzner")
     /\ row' = [row EXCEPT ![c] = [st |-> "active", prov |-> "hetzner",
                                   nodes |-> IF @.st = "active" THEN @.nodes ELSE {}]]
     /\ UNCHANGED <<world, file, kc, unsettled, clobbered>>
     /\ UNCHANGED <<config, lives, left, resized, commands>> /\ NoFault

\* QEMU's Provision kills the machine of an earlier up.
KillOld(p) ==
  /\ At(p, "kill") /\ Goto(p, "create")
  /\ world' = [world EXCEPT ![job[p].c]["qemu"] = Nothing]
  /\ UNCHANGED <<file, kc, row, unsettled, tangled, clobbered>> /\ Same /\ NoFault

\* What is there is reused: "already exists" of k3d, a server found by name,
\* an installed k3s.
Create(p) ==
  LET c == job[p].c
      prov == job[p].prov
  IN /\ At(p, "create") /\ Goto(p, "export") /\ Mixing(c, prov)
     /\ IF world[c][prov] # Nothing
        THEN /\ UNCHANGED <<world, lives>>
             /\ resized' = IF world[c][prov].size = job[p].size THEN resized
                           ELSE resized \cup {c}
        ELSE /\ lives < MaxLives /\ lives' = lives + 1
             /\ world' = [world EXCEPT ![c][prov] = [life |-> lives', size |-> job[p].size]]
             /\ UNCHANGED resized
     /\ UNCHANGED <<file, kc, row, config, unsettled, left, clobbered, commands>> /\ NoFault

\* The kubeconfig, fetched from the cluster.
ExportKubeconfig(p) ==
  LET c == job[p].c
      prov == job[p].prov
  IN /\ At(p, "export") /\ world[c][prov] # Nothing
     /\ Goto(p, IF prov = "baremetal" THEN "note" ELSE "record")
     /\ file' = [file EXCEPT ![c] = world[c][prov].life]
     /\ UNCHANGED <<world, kc, row, unsettled, tangled, clobbered>> /\ Same /\ NoFault

\* The command returns an error before it has recorded anything; QEMU's
\* Provision kills the machine it launched.
UpFails(p) ==
  LET c == job[p].c
      prov == job[p].prov
  IN /\ job[p].at \in {"create", "export"} /\ End(p)
     /\ \/ At(p, "export") /\ world[c][prov] = Nothing /\ NoFault
        \/ Fault
     /\ world' = IF prov = "qemu" THEN [world EXCEPT ![c]["qemu"] = Nothing] ELSE world
     /\ UNCHANGED <<file, kc, row, unsettled, tangled, clobbered>> /\ Same

\* Mutant: a destroyed cluster's node rows are kept.
RecordKeepsNodes(p) ==
  LET c == job[p].c
      last == At(p, "record") /\ job[p].prov = "k3d"
  IN /\ job[p].at \in {"note", "record"}
     /\ row' = [row EXCEPT ![c] =
          [st |-> "active", prov |-> job[p].prov,
           nodes |-> @.nodes \cup 1 .. job[p].size]]
     /\ IF last THEN End(p) ELSE Goto(p, IF At(p, "note") THEN "record" ELSE "merge")
     /\ unsettled' = IF last THEN unsettled \ {c} ELSE unsettled
     /\ resized' = IF row[c].st = "active" /\ ~(row[c].nodes \subseteq 1 .. job[p].size)
                   THEN resized \cup {c} ELSE resized
     /\ UNCHANGED <<world, file, kc, config, lives, tangled, left, clobbered, commands>> /\ NoFault

\* The row of the cluster and those of the nodes that were asked for, by bare
\* metal's Provision itself and then by up for every provider.  Only what is not
\* k3d's is merged into ~/.kube/config.
Record(p) ==
  LET c == job[p].c
      last == At(p, "record") /\ job[p].prov = "k3d"
  IN /\ job[p].at \in {"note", "record"}
     /\ row' = [row EXCEPT ![c] =
          [st |-> "active", prov |-> job[p].prov,
           nodes |-> (IF @.st = "active" THEN @.nodes ELSE {}) \cup 1 .. job[p].size]]
     /\ IF last THEN End(p) ELSE Goto(p, IF At(p, "note") THEN "record" ELSE "merge")
     /\ unsettled' = IF last THEN unsettled \ {c} ELSE unsettled
     /\ resized' = IF row[c].st = "active" /\ ~(row[c].nodes \subseteq 1 .. job[p].size)
                   THEN resized \cup {c} ELSE resized
     /\ UNCHANGED <<world, file, kc, config, lives, tangled, left, clobbered, commands>> /\ NoFault

\* The providers' own writes of the row are best effort.
Unrecorded(p) ==
  /\ job[p].at \in {"register", "note"} /\ Fault
  /\ Goto(p, IF At(p, "register") THEN "create" ELSE "record")
  /\ UNCHANGED <<world, file, kc, row, unsettled, tangled, clobbered>> /\ Same

\* And so are up's own and the merge: a warning.
UpWarns(p) ==
  /\ job[p].cmd = "up" /\ job[p].at \in {"record", "merge"} /\ Fault
  /\ IF At(p, "record") /\ job[p].prov # "k3d" THEN Goto(p, "merge") ELSE End(p)
  /\ tangled' = tangled \cup {job[p].c}
  /\ UNCHANGED <<world, file, kc, row, unsettled, clobbered>> /\ Same

-----------------------------------------------------------------------------
(* ~/.kube/config *)

\* Between another process's truncation and its write the file is empty.
MidWrite(p) == \E q \in Procs \ {p} : At(q, "write")

\* Entries that this command does not see, or that it will undo.
Unseen(p) ==
  IF MidWrite(p) THEN Names ELSE {}
Undone(p) ==
  IF MidWrite(p) THEN Names
  ELSE {n \in Names : kc.entry[n] # job[p].base.entry[n]}

\* Mutant: an entry that is there is not replaced.
MergeReadNew(p) ==
  LET c == job[p].c
  IN /\ At(p, "merge") /\ file[c] # 0
     /\ job' = [job EXCEPT ![p].at = "truncate", ![p].base = kc,
          ![p].new = [entry |-> [kc.entry EXCEPT ![c] = IF @ = 0 THEN file[c] ELSE @], current |-> c]]
     /\ clobbered' = clobbered \cup Unseen(p)
     /\ UNCHANGED <<world, file, kc, row, unsettled, tangled>> /\ Same /\ NoFault

\* mergeKubeconfig: the entries of the cluster's own file under its name.
MergeRead(p) ==
  LET c == job[p].c
  IN /\ At(p, "merge") /\ file[c] # 0
     /\ job' = [job EXCEPT ![p].at = "truncate", ![p].base = kc,
          ![p].new = [entry |-> [kc.entry EXCEPT ![c] = file[c]], current |-> c]]
     /\ clobbered' = clobbered \cup Unseen(p)
     /\ UNCHANGED <<world, file, kc, row, unsettled, tangled>> /\ Same /\ NoFault

\* The cluster's own file has gone: a warning.
MergeNothing(p) ==
  /\ At(p, "merge") /\ file[job[p].c] = 0 /\ End(p)
  /\ UNCHANGED <<world, file, kc, row, unsettled, tangled, clobbered>> /\ Same /\ NoFault

\* Mutant: current-context is left as it is.
CleanedKeepsCurrent(k, c) ==
  [k EXCEPT !.entry = [@ EXCEPT ![c] = 0]]

\* removeKubeconfigContext
Cleaned(k, c) ==
  [entry |-> [k.entry EXCEPT ![c] = 0], current |-> IF k.current = c THEN None ELSE k.current]

\* A file without a trace of the cluster is left alone.
CleanRead(p) ==
  LET c == job[p].c
  IN /\ At(p, "clean")
     /\ IF Cleaned(kc, c) = kc
        THEN End(p) /\ unsettled' = unsettled \ {c}
        ELSE /\ job' = [job EXCEPT ![p].at = "truncate", ![p].base = kc,
                                   ![p].new = Cleaned(kc, c)]
             /\ UNCHANGED unsettled
     /\ clobbered' = clobbered \cup Unseen(p)
     /\ UNCHANGED <<world, file, kc, row, tangled>> /\ Same /\ NoFault

Truncate(p) ==
  /\ At(p, "truncate") /\ Goto(p, "write")
  /\ kc' = Blank
  /\ clobbered' = clobbered \cup Undone(p)
  /\ UNCHANGED <<world, file, row, unsettled, tangled>> /\ Same /\ NoFault

Write(p) ==
  /\ At(p, "write") /\ End(p)
  /\ kc' = job[p].new
  /\ unsettled' = unsettled \ {job[p].c}
  /\ UNCHANGED <<world, file, row, tangled, clobbered>> /\ Same /\ NoFault

\* kubectl config use-context, by the operator.
Switch ==
  \E n \in Names :
    /\ kc.entry[n] # 0 /\ kc.current # n /\ kc' = [kc EXCEPT !.current = n]
    /\ UNCHANGED <<world, file, row, config, job, lives, history, commands, faults>>

-----------------------------------------------------------------------------
(* destroy *)

StartDestroy(p) ==
  \E c \in Clusters :
    /\ row[c].st = "active"
    /\ Start(p, [Idle EXCEPT !.cmd = "destroy", !.at = "delete", !.c = c, !.prov = row[c].prov])

\* The provider's Destroy: k3d cluster delete ("no cluster found" is a
\* success), the kill of the VM, Hetzner's sweep.  Bare metal's does nothing.
Delete(p) ==
  LET c == job[p].c
      prov == job[p].prov
  IN /\ At(p, "delete") /\ Goto(p, IF prov \in Tidy THEN "removeFile" ELSE "mark")
     /\ world' = IF prov = "baremetal" THEN world ELSE [world EXCEPT ![c][prov] = Nothing]
     /\ left' = IF prov = "hetzner" THEN left \ {c} ELSE left
     /\ UNCHANGED <<file, kc, row, unsettled, tangled, clobbered>>
     /\ UNCHANGED <<config, lives, resized, commands>> /\ NoFault

\* What the reconciler, the inventory or hcloud refuses is a warning.
SweepWarns(p) ==
  LET c == job[p].c
  IN /\ At(p, "delete") /\ job[p].prov = "hetzner" /\ world[c]["hetzner"] # Nothing
     /\ Fault /\ Goto(p, "mark")
     /\ left' = left \cup {c}
     /\ UNCHANGED <<world, file, kc, row, unsettled, tangled, clobbered>>
     /\ UNCHANGED <<config, lives, resized, commands>>

\* The errors: of the provider, of qemu's state directory, of the row.
DestroyFails(p) ==
  /\ \/ At(p, "delete") /\ job[p].prov # "baremetal"
     \/ At(p, "mark")
  /\ End(p) /\ Fault
  /\ UNCHANGED <<world, file, kc, row, unsettled, tangled, clobbered>> /\ Same

RemoveFile(p) ==
  /\ At(p, "removeFile") /\ Goto(p, "mark")
  /\ file' = [file EXCEPT ![job[p].c] = 0]
  /\ UNCHANGED <<world, kc, row, unsettled, tangled, clobbered>> /\ Same /\ NoFault

\* The clean-up of either file only warns.
DestroyWarns(p) ==
  /\ job[p].at \in {"removeFile", "clean"} /\ Fault
  /\ IF At(p, "removeFile") THEN Goto(p, "mark") ELSE End(p)
  /\ tangled' = tangled \cup {job[p].c}
  /\ UNCHANGED <<world, file, kc, row, unsettled, clobbered>> /\ Same

MarkDestroyed(p) ==
  /\ At(p, "mark") /\ Goto(p, "clean")
  /\ row' = [row EXCEPT ![job[p].c].st = "destroyed"]
  /\ UNCHANGED <<world, file, kc, unsettled, tangled, clobbered>> /\ Same /\ NoFault

-----------------------------------------------------------------------------
(* login and use-context *)

StartLogin(p) ==
  \E x \in Contexts, activate \in BOOLEAN :
    Start(p, [Idle EXCEPT !.cmd = IF activate THEN "loginActivate" ELSE "login",
                          !.at = "load", !.c = x])

StartUse(p) ==
  \E x \in Contexts : Start(p, [Idle EXCEPT !.cmd = "use", !.at = "load", !.c = x])

LoadConfig(p) ==
  LET x == job[p].c
      new == [contexts |-> config.contexts \cup {x},
              current |-> IF job[p].cmd = "login" THEN config.current ELSE x]
  IN /\ At(p, "load")
     /\ IF job[p].cmd = "use" /\ x \notin config.contexts THEN End(p)
        ELSE job' = [job EXCEPT ![p].at = "empty", ![p].cfg = new]
     /\ UNCHANGED <<world, file, kc, row, unsettled, tangled, clobbered>> /\ Same /\ NoFault

EmptyConfig(p) ==
  /\ At(p, "empty") /\ Goto(p, "save")
  /\ config' = NoConfig
  /\ UNCHANGED <<world, file, kc, row, lives, history, commands>> /\ NoFault

SaveConfig(p) ==
  /\ At(p, "save") /\ End(p)
  /\ config' = job[p].cfg
  /\ UNCHANGED <<world, file, kc, row, lives, history, commands>> /\ NoFault

-----------------------------------------------------------------------------
\* A command dies; one that was writing leaves an empty file.
Crash(p) ==
  /\ Busy(p) /\ Fault /\ End(p)
  /\ clobbered' = clobbered \cup (IF At(p, "write") THEN Names ELSE {})
  /\ UNCHANGED <<world, file, kc, row, unsettled, tangled>> /\ Same

Init ==
  /\ world = [c \in Clusters |-> [prov \in Providers |-> Nothing]]
  /\ file = [c \in Clusters |-> 0]
  /\ kc = [entry |-> [n \in Names |-> IF n = Foreign THEN 1 ELSE 0], current |-> Foreign]
  /\ row = [c \in Clusters |-> NoRow] /\ config = NoConfig
  /\ job = [p \in Procs |-> Idle] /\ lives = 0
  /\ unsettled = {} /\ tangled = {} /\ left = {} /\ resized = {} /\ clobbered = {}
  /\ commands = 0 /\ faults = 0

Up(p) ==
  \/ StartUp(p) \/ Register(p) \/ KillOld(p) \/ Create(p) \/ ExportKubeconfig(p) \/ UpFails(p)
  \/ Record(p) \/ Unrecorded(p) \/ UpWarns(p) \/ MergeRead(p) \/ MergeNothing(p)

Destroy(p) ==
  \/ StartDestroy(p) \/ Delete(p) \/ SweepWarns(p) \/ DestroyFails(p) \/ RemoveFile(p)
  \/ MarkDestroyed(p) \/ CleanRead(p) \/ DestroyWarns(p)

Config(p) ==
  StartLogin(p) \/ StartUse(p) \/ LoadConfig(p) \/ EmptyConfig(p) \/ SaveConfig(p)

Next ==
  \/ \E p \in Procs : Up(p) \/ Destroy(p) \/ Truncate(p) \/ Write(p) \/ Config(p) \/ Crash(p)
  \/ Switch

Spec == Init /\ [][Next]_vars

-----------------------------------------------------------------------------
Files == [entry : [Names -> 0 .. MaxLives + 1], current : Names \cup {None}]
Configs == [contexts : SUBSET Contexts, current : Contexts \cup {None}]

CurrentResolves ==
  /\ kc.current = None \/ kc.entry[kc.current] # 0
  /\ config.current = None \/ config.current \in config.contexts

\* The state is well formed; in particular neither file ever names a current
\* context that it does not have, whatever writes overlap (mergeKubeconfig,
\* removeKubeconfigContext, RunLoginWith, RunUseContextWith).
TypeOK ==
  /\ CurrentResolves
  /\ world \in [Clusters -> [Providers -> [life : 0 .. MaxLives, size : {0} \cup Sizes]]]
  /\ file \in [Clusters -> 0 .. MaxLives] /\ kc \in Files
  /\ \A c \in Clusters : /\ row[c].st \in {"none", "active", "destroyed"}
                         /\ row[c].prov \in Providers
                         /\ row[c].nodes \subseteq UNION {1 .. s : s \in Sizes}
  /\ config \in Configs /\ lives \in 0 .. MaxLives
  /\ \A p \in Procs : job[p].base \in Files /\ job[p].new \in Files /\ job[p].cfg \in Configs
  /\ unsettled \in SUBSET Clusters /\ tangled \in SUBSET Clusters
  /\ left \in SUBSET Clusters /\ resized \in SUBSET Clusters /\ clobbered \in SUBSET Names

\* The last command on the cluster went through, alone and without a warning
\* about a file or the row.
Settled(c) == c \notin unsettled /\ c \notin tangled /\ ~WorkedOn(c)

\* Unless another clusterbox was writing the file at the same time or was
\* interrupted in the middle, ~/.kube/config has an entry for exactly the
\* clusters that are up (k3d's have none) and leads to the present one; so does
\* the cluster's own kubeconfig, which goes with k3d's and qemu's clusters and
\* stays behind after a destroy with the other two; and entries that are not
\* clusterbox's survive (mergeKubeconfig, removeKubeconfigContext, Destroy).
KubeconfigAgrees ==
  /\ \A c \in Clusters : Settled(c) =>
       LET up == row[c].st = "active"
           life == world[c][row[c].prov].life
       IN /\ \/ c \in clobbered \/ \E p \in Procs : At(p, "write")
             \/ kc.entry[c] = IF up /\ row[c].prov # "k3d" THEN life ELSE 0
          /\ up => file[c] = life
          /\ row[c].st = "destroyed" /\ row[c].prov \in Tidy => file[c] = 0
  /\ \/ Foreign \in clobbered \/ kc.entry[Foreign] = 1
     \/ \E p \in Procs : At(p, "write")

\* When the last command on a cluster went through, an active row names the
\* provider of what runs, and its node rows are the nodes; without one nothing
\* runs but what Destroy leaves: a bare-metal host, and machines a Hetzner sweep
\* warned about.  Exempt are a name that was brought up with two providers, whose
\* row knows one of them, and the nodes of a cluster that was there, or had node
\* rows, in another size than asked for (recordClusterInRegistry, Provision,
\* Destroy).
RegistryAgrees ==
  \A c \in Clusters : Settled(c) =>
    LET running == {prov \in Providers : world[c][prov] # Nothing}
        mine == IF row[c].st = "active" THEN {row[c].prov} ELSE {}
    IN /\ mine \subseteq running /\ \A prov \in running \ mine : Outlives(c, prov)
       /\ row[c].st = "active" /\ c \notin resized =>
            row[c].nodes = 1 .. world[c][row[c].prov].size

\* The guide's claims, which the code does not keep.

\* A cluster whose destroy went through is torn down (Destroy of bare metal).
DestroyTearsDown ==
  \A c \in Clusters : Settled(c) /\ row[c].st = "destroyed" /\ c \notin left =>
    \A prov \in Providers : world[c][prov] = Nothing

\* When the sweep itself failed, destroy can be run again (Destroy of Hetzner,
\* RunDestroyWith).
SweepCanBeRerun ==
  \A c \in Clusters : Settled(c) /\ c \in left => row[c].st = "active"
=============================================================================
