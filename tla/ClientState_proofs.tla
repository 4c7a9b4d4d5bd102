-------------------------- MODULE ClientState_proofs --------------------------
(***************************************************************************)
(* Proofs about the files on the operator's machine: for any processes,    *)
(* clusters, contexts, providers and k3d sizes, and whichever steps fail   *)
(* or die, the files are well formed, and what ~/.kube/config, the         *)
(* cluster's own kubeconfig and the registry's row say of a cluster whose  *)
(* last command went through is what runs, up to what the providers'       *)
(* Destroy leaves behind.                                                  *)
(***************************************************************************)
EXTENDS ClientState, TLAPS

-----------------------------------------------------------------------------
(* The inductive invariant. *)

JobType ==
  [cmd : {"none", "up", "destroy", "login", "loginActivate", "use"},
   at : {"none", "register", "kill", "create", "export", "note", "record", "merge",
         "truncate", "write", "delete", "removeFile", "mark", "clean", "load", "empty", "save"},
   c : Clusters \cup Contexts \cup {None}, prov : Providers, size : Sizes,
   base : Files, new : Files, cfg : Configs]

RowType ==
  [st : {"none", "active", "destroyed"}, prov : Providers,
   nodes : SUBSET (UNION {1 .. s : s \in Sizes})]

\* TypeOK, with the job's and the row's fields and the counters.
Typed ==
  /\ TypeOK /\ job \in [Procs -> JobType] /\ row \in [Clusters -> RowType]
  /\ commands \in 0 .. MaxCommands /\ faults \in 0 .. MaxFaults

\* The steps of each command; the last two are common to up and destroy.
Editing == {"truncate", "write"}
BuildSteps == {"register", "kill", "create", "export", "note", "record", "merge"}
DestroySteps == {"delete", "removeFile", "mark", "clean"}
ConfigSteps == {"load", "empty", "save"}

\* Which command is at which step, on what, and for which provider.
JobForm(j) ==
  /\ j.cmd = "none" => j = Idle
  /\ j.cmd = "up" =>
       /\ j.at \in BuildSteps \cup Editing /\ j.c \in Clusters /\ j.size \in Sizes
       /\ j.prov # "k3d" => j.size = 1
       /\ j.at = "register" => j.prov = "hetzner"
       /\ j.at = "kill" => j.prov = "qemu"
       /\ j.at \in {"merge"} \cup Editing => j.prov # "k3d"
  /\ j.cmd = "destroy" => j.at \in DestroySteps \cup Editing /\ j.c \in Clusters
  /\ j.cmd \in {"login", "loginActivate", "use"} => j.at \in ConfigSteps /\ j.c \in Contexts

\* What will be written resolves its own current context, and differs from
\* what was read in the entry of the command's cluster only.
Draft(j) ==
  /\ j.at \in Editing =>
       /\ j.new.current = None \/ j.new.entry[j.new.current] # 0
       /\ \A n \in Names \ {j.c} : j.new.entry[n] = j.base.entry[n]
  /\ j.at \in {"empty", "save"} => j.cfg.current = None \/ j.cfg.current \in j.cfg.contexts

Jobs == \A p \in Procs : JobForm(job[p]) /\ Draft(job[p])

\* Two writers at once spoil every entry.
WritersClobber ==
  \A p, q \in Procs : p # q /\ At(p, "write") /\ At(q, "write") => Names \subseteq clobbered

\* The entry of a name once the write that is under way, if any, is done.
Led(n) ==
  {v \in 0 .. MaxLives + 1 :
     \/ n \in clobbered
     \/ /\ \A p \in Procs : At(p, "write") => job[p].new.entry[n] = v
        /\ (\A p \in Procs : ~At(p, "write")) => kc.entry[n] = v}

Leads(n, v) == v \in Led(n)

\* Two commands on one cluster tangle it, and a command unsettles its cluster.
Works(p, c) == Busy(p) /\ job[p].c = c

Workers ==
  \A c \in Clusters : c \notin tangled =>
    /\ \A p, q \in Procs : p # q => ~(Works(p, c) /\ Works(q, c))
    /\ c \notin unsettled => ~WorkedOn(c)

Runs(c, prov) == world[c][prov] # Nothing
RestGone(c, prov) == \A q \in Providers \ {prov} : Runs(c, q) => Outlives(c, q)
RunsOnly(c, prov) == Runs(c, prov) /\ RestGone(c, prov)
AllGone(c) == \A q \in Providers : Runs(c, q) => Outlives(c, q)
Active(c) == row[c].st = "active"

\* What is not a present life is not there at all.
Lives == \A c \in Clusters, q \in Providers : world[c][q].life = 0 => world[c][q] = Nothing

NodesAre(c, size) == c \notin resized => row[c].nodes = 1 .. size

\* Whatever went wrong: the row knows the provider of all that is there, but
\* for what Destroy leaves.
Traced(c) ==
  /\ Active(c) => RestGone(c, row[c].prov)
  /\ row[c].st = "none" \/ row[c].prov = "k3d" => Leads(c, 0)

\* After a command that went through the files agree with the world.
Agreed(c) ==
  IF Active(c)
  THEN /\ RunsOnly(c, row[c].prov) /\ NodesAre(c, world[c][row[c].prov].size)
       /\ file[c] = world[c][row[c].prov].life
       /\ Leads(c, IF row[c].prov = "k3d" THEN 0 ELSE world[c][row[c].prov].life)
  ELSE /\ AllGone(c) /\ Leads(c, 0)
       /\ row[c].st = "destroyed" /\ row[c].prov \in Tidy => file[c] = 0

\* What an up has done for its cluster when it is at a step.
UpDone(j, c) ==
  /\ j.at = "create" /\ j.prov = "k3d" => Leads(c, 0) \/ (Active(c) /\ row[c].prov # "k3d")
  /\ j.at \in {"export", "note", "record", "merge"} \cup Editing =>
       /\ RunsOnly(c, j.prov) /\ (c \notin resized => world[c][j.prov].size = j.size)
       /\ j.prov = "k3d" => Leads(c, 0)
       /\ Active(c) => row[c].prov = j.prov
  /\ j.at \in {"note", "record", "merge"} \cup Editing => file[c] = world[c][j.prov].life
  /\ j.at \in {"merge"} \cup Editing => Active(c) /\ NodesAre(c, j.size)
  /\ j.at \in Editing => j.new.entry[c] = file[c]

\* And a destroy.
DestroyDone(j, c) ==
  /\ j.prov = row[c].prov
  /\ j.at \in {"delete"} => Active(c)
  /\ j.at \in {"removeFile", "mark", "clean"} \cup Editing => AllGone(c)
  /\ j.at \in {"mark", "clean"} \cup Editing => (j.prov \in Tidy => file[c] = 0)
  /\ j.at \in {"clean"} \cup Editing => row[c].st = "destroyed"
  /\ j.at \in Editing => j.new.entry[c] = 0

Done(p, c) ==
  /\ job[p].cmd = "up" => UpDone(job[p], c)
  /\ job[p].cmd = "destroy" => DestroyDone(job[p], c)

\* What holds of a cluster that has not been tangled.
Known(c) ==
  /\ Traced(c)
  /\ c \notin unsettled => Agreed(c)
  /\ \A p \in Procs : job[p].c = c => Done(p, c)

IInv ==
  /\ Typed /\ Jobs /\ WritersClobber /\ Lives /\ Leads(Foreign, 1) /\ Workers
  /\ \A c \in Clusters : c \notin tangled => Known(c)

-----------------------------------------------------------------------------
(* How a job changes. *)

\* The job of p becomes n.
Becomes(p, n) == n \in JobType /\ job' = [job EXCEPT ![p] = n]

\* The same command on the same cluster.
Kept(n, j) == n.cmd = j.cmd /\ n.c = j.c /\ n.prov = j.prov /\ n.size = j.size

LEMMA Apart == Foreign \notin Clusters /\ None \notin Names /\ None \notin Contexts
                 /\ None \notin Clusters /\ Foreign \in Names /\ Clusters \subseteq Names
  BY ClientStateAssumption DEF Names

LEMMA BlankTyped == Blank \in Files /\ NoConfig \in Configs
  <1>1. [n \in Names |-> 0] \in [Names -> 0 .. MaxLives + 1]
    BY ClientStateAssumption
  <1>2. QED
    BY <1>1 DEF Blank, NoConfig, Files, Configs

LEMMA IdleJob ==
  /\ Idle \in JobType /\ Idle.cmd = "none" /\ Idle.at = "none" /\ Idle.c = None
  /\ JobForm(Idle) /\ Draft(Idle)
  <1>1. Idle \in JobType /\ Idle.cmd = "none" /\ Idle.at = "none" /\ Idle.c = None
    BY BlankTyped, ClientStateAssumption DEF Idle, JobType, Providers
  <1>2. QED
    BY <1>1 DEF JobForm, Draft, Editing

LEMMA Others ==
  ASSUME NEW p \in Procs, NEW n, job \in [Procs -> JobType], Becomes(p, n)
  PROVE  /\ job' \in [Procs -> JobType] /\ job'[p] = n
         /\ \A q \in Procs : q # p => job'[q] = job[q]
  BY DEF Becomes

LEMMA Moves ==
  ASSUME NEW p \in Procs, job \in [Procs -> JobType], NEW s, Goto(p, s),
         s \in BuildSteps \cup DestroySteps \cup ConfigSteps \cup Editing
  PROVE  \E n : /\ Becomes(p, n) /\ Kept(n, job[p]) /\ n.at = s
                /\ n.base = job[p].base /\ n.new = job[p].new /\ n.cfg = job[p].cfg
  <1> DEFINE n == [job[p] EXCEPT !.at = s]
  <1>1. job[p] \in JobType
    OBVIOUS
  <1>2. /\ n \in JobType /\ Kept(n, job[p]) /\ n.at = s
        /\ n.base = job[p].base /\ n.new = job[p].new /\ n.cfg = job[p].cfg
    BY <1>1 DEF JobType, Kept, BuildSteps, DestroySteps, ConfigSteps, Editing
  <1>3. job' = [job EXCEPT ![p] = n]
    BY DEF Goto
  <1>4. QED
    BY <1>2, <1>3 DEF Becomes

LEMMA Loads ==
  ASSUME NEW p \in Procs, job \in [Procs -> JobType], NEW f \in Configs,
         job' = [job EXCEPT ![p].at = "empty", ![p].cfg = f]
  PROVE  \E n : Becomes(p, n) /\ Kept(n, job[p]) /\ n.at = "empty" /\ n.cfg = f
  <1> DEFINE n == [job[p] EXCEPT !.at = "empty", !.cfg = f]
  <1>1. job[p] \in JobType
    OBVIOUS
  <1>2. n \in JobType /\ Kept(n, job[p]) /\ n.at = "empty" /\ n.cfg = f
    BY <1>1 DEF JobType, Kept
  <1>3. job' = [job EXCEPT ![p] = n]
    OBVIOUS
  <1>4. QED
    BY <1>2, <1>3 DEF Becomes

LEMMA Ends ==
  ASSUME NEW p \in Procs, End(p)
  PROVE  Becomes(p, Idle)
  BY IdleJob DEF End, Becomes

-----------------------------------------------------------------------------
(* What a step leaves alone. *)

\* A step that neither begins nor ends a write and changes no entry keeps
\* what the entries will be.
LEMMA LedStays ==
  ASSUME Typed, WritersClobber, NEW p \in Procs, NEW n, Becomes(p, n),
         ~At(p, "write"), n.at # "write", kc'.entry = kc.entry, clobbered \subseteq clobbered'
  PROVE  WritersClobber' /\ \A m \in Names : Led(m) \subseteq Led(m)'
  <1>1. /\ job' \in [Procs -> JobType] /\ job'[p] = n
        /\ \A q \in Procs : q # p => job'[q] = job[q]
    BY Others DEF Typed
  <1>2. \A q \in Procs : /\ job'[q].at = "write" <=> job[q].at = "write"
                         /\ job[q].at = "write" => job'[q] = job[q]
    BY <1>1 DEF At
  <1>3. WritersClobber'
    BY <1>2 DEF WritersClobber, At
  <1>4. QED
    BY <1>2, <1>3 DEF Led, At

\* Once all entries are clobbered nothing is said of any.
LEMMA LedClobbered ==
  ASSUME Names \subseteq clobbered'
  PROVE  WritersClobber' /\ \A m \in Names : Led(m) \subseteq Led(m)'
  BY DEF WritersClobber, Led

\* The clusters that a step does not work on.
LEMMA Elsewhere ==
  ASSUME NEW c \in Clusters, Known(c), Typed,
         world'[c] = world[c], file'[c] = file[c], row'[c] = row[c],
         c \in unsettled => c \in unsettled', c \in resized => c \in resized',
         c \in left => c \in left',
         Led(c) \subseteq Led(c)',
         \A q \in Procs : job'[q].c = c =>
            job'[q] = job[q] \/ job'[q].cmd \notin {"up", "destroy"}
  PROVE  Known(c)'
  <1>1. \A v : Leads(c, v) => v \in Led(c)'
    BY DEF Leads
  <1>2. /\ \A q \in Providers : Outlives(c, q) => Outlives(c, q)'
        /\ row[c].prov \in Providers
    BY DEF Outlives, Typed, TypeOK
  <1>3. Traced(c)'
    BY <1>1, <1>2 DEF Known, Traced, Active, Leads, RestGone, Runs
  <1>4. c \notin unsettled' => Agreed(c)'
    <2>1. CASE Active(c)
      <3>1. ASSUME c \notin unsettled'
            PROVE  /\ RunsOnly(c, row[c].prov) /\ NodesAre(c, world[c][row[c].prov].size)
                   /\ file[c] = world[c][row[c].prov].life
                   /\ Leads(c, IF row[c].prov = "k3d" THEN 0 ELSE world[c][row[c].prov].life)
        BY <2>1, <3>1 DEF Known, Agreed
      <3>2. QED
        BY <1>1, <1>2, <2>1, <3>1 DEF Agreed, Active, Leads, NodesAre, RunsOnly, RestGone, Runs
    <2>2. CASE ~Active(c)
      BY <1>1, <1>2, <2>2 DEF Known, Agreed, Active, Leads, AllGone, Runs
    <2>3. QED
      BY <2>1, <2>2
  <1>5. ASSUME NEW q \in Procs, job'[q].c = c PROVE Done(q, c)'
    <2>1. CASE job'[q].cmd \notin {"up", "destroy"}
      BY <2>1 DEF Done
    <2>2. CASE job'[q] = job[q]
      <3>1. Done(q, c)
        BY <1>5, <2>2 DEF Known
      <3>2. job'[q].cmd = "up" => UpDone(job[q], c)'
        <4>1. job[q].prov \in Providers
          BY DEF Typed, JobType
        <4>2. QED
          BY <1>1, <1>2, <2>2, <3>1, <4>1
             DEF Done, UpDone, Active, Leads, NodesAre, RunsOnly, RestGone, Runs
      <3>3. job'[q].cmd = "destroy" => DestroyDone(job[q], c)'
        BY <1>2, <2>2, <3>1 DEF Done, DestroyDone, Active, AllGone, Runs
      <3>4. QED
        BY <3>2, <3>3 DEF Done
    <2>3. QED
      BY <1>5, <2>1, <2>2
  <1>6. QED
    BY <1>3, <1>4, <1>5 DEF Known

LEMMA WorkersStay ==
  ASSUME Typed, Workers, NEW p \in Procs, NEW n, Becomes(p, n),
         n = Idle \/ Kept(n, job[p]), tangled \subseteq tangled',
         \/ unsettled \subseteq unsettled'
         \/ n = Idle /\ Busy(p) /\ unsettled \ {job[p].c} \subseteq unsettled'
  PROVE  Workers'
  <1>1. /\ job' \in [Procs -> JobType] /\ job'[p] = n
        /\ \A q \in Procs : q # p => job'[q] = job[q]
    BY Others DEF Typed
  <1>2. \A q \in Procs, c \in Clusters : Works(q, c)' => Works(q, c)
    BY <1>1, IdleJob DEF Works, Busy, Kept
  <1>3. n = Idle => \A c \in Clusters : ~Works(p, c)'
    BY <1>1, IdleJob DEF Works, Busy
  <1>4. SUFFICES ASSUME NEW c \in Clusters, c \notin tangled'
                 PROVE  /\ \A q, r \in Procs : q # r => ~(Works(q, c)' /\ Works(r, c)')
                        /\ c \notin unsettled' => \A q \in Procs : ~Works(q, c)'
    BY DEF Workers, WorkedOn, Works, Busy
  <1>5. /\ \A q, r \in Procs : q # r => ~(Works(q, c) /\ Works(r, c))
        /\ c \notin unsettled => \A q \in Procs : ~Works(q, c)
    BY <1>4 DEF Workers, WorkedOn, Works
  <1>6. Busy(p) /\ job[p].c = c => Works(p, c)
    BY DEF Works
  <1>7. QED
    BY <1>2, <1>3, <1>5, <1>6

\* Nobody but p works on the cluster of p, if it has not been tangled.
LEMMA Alone ==
  ASSUME IInv, NEW p \in Procs, Busy(p), NEW d \in Clusters, d = job[p].c, d \notin tangled
  PROVE  \A q \in Procs : q # p => job[q].c # d
  <1>1. SUFFICES ASSUME NEW q \in Procs, q # p, job[q].c = d PROVE FALSE
    OBVIOUS
  <1>2. ~Works(q, d)
    BY <1>1 DEF IInv, Workers, Works
  <1>3. job[q] = Idle
    BY <1>1, <1>2 DEF Works, Busy, IInv, Jobs, JobForm
  <1>4. QED
    BY <1>1, <1>3, IdleJob, Apart

LEMMA Unsettles ==
  ASSUME IInv, NEW p \in Procs, Busy(p), NEW d \in Clusters, d = job[p].c, d \notin tangled
  PROVE  d \in unsettled
  <1>1. Works(p, d)
    BY DEF Works
  <1>2. QED
    BY <1>1 DEF IInv, Workers, WorkedOn, Works

\* What p has to show for the cluster it works on.
LEMMA Mine ==
  ASSUME IInv, NEW p \in Procs, NEW n, Busy(p), Becomes(p, n),
         NEW d \in Clusters, d = job[p].c, d \notin tangled,
         Traced(d)', d \notin unsettled' => Agreed(d)',
         n.c = d => /\ n.cmd = "up" => UpDone(n, d)'
                    /\ n.cmd = "destroy" => DestroyDone(n, d)'
  PROVE  Known(d)'
  <1>1. /\ job' \in [Procs -> JobType] /\ job'[p] = n
        /\ \A q \in Procs : q # p => job'[q] = job[q]
    BY Others DEF IInv, Typed
  <1>2. \A q \in Procs : job'[q].c = d => q = p
    BY <1>1, Alone
  <1>3. job'[p].c = d => Done(p, d)'
    BY <1>1 DEF Done
  <1>4. QED
    BY <1>2, <1>3 DEF Known

\* One step of a command: what it must show.
LEMMA StepKeeps ==
  ASSUME IInv, NEW p \in Procs, NEW n, Busy(p), Becomes(p, n), JobForm(n), Draft(n),
         n = Idle \/ Kept(n, job[p]),
         Typed', WritersClobber', Lives',
         \A m \in Names \ {job[p].c} : Led(m) \subseteq Led(m)',
         tangled \subseteq tangled', resized \subseteq resized',
         left \ {job[p].c} \subseteq left',
         \/ unsettled \subseteq unsettled'
         \/ n = Idle /\ unsettled \ {job[p].c} \subseteq unsettled',
         \A c \in Clusters \ {job[p].c} :
            world'[c] = world[c] /\ file'[c] = file[c] /\ row'[c] = row[c],
         job[p].cmd \in {"up", "destroy"} \/ \A m \in Names : Led(m) \subseteq Led(m)',
         \A d \in Clusters : d = job[p].c /\ d \notin tangled' => Known(d)'
  PROVE  IInv'
  <1>1. /\ job' \in [Procs -> JobType] /\ job'[p] = n
        /\ \A q \in Procs : q # p => job'[q] = job[q]
    BY Others DEF IInv, Typed
  <1>2. Jobs'
    BY <1>1 DEF IInv, Jobs
  <1>3. Workers'
    <2>1. Typed /\ Workers
      BY DEF IInv
    <2>2. \/ unsettled \subseteq unsettled'
          \/ n = Idle /\ Busy(p) /\ unsettled \ {job[p].c} \subseteq unsettled'
      OBVIOUS
    <2>3. QED
      BY <2>1, <2>2, WorkersStay
  <1>4. Leads(Foreign, 1)'
    <2>1. job[p].cmd \in {"up", "destroy"} => job[p].c \in Clusters
      BY DEF IInv, Jobs, JobForm
    <2>2. Led(Foreign) \subseteq Led(Foreign)'
      BY <2>1, Apart
    <2>3. QED
      BY <2>2 DEF IInv, Leads
  <1>5. ASSUME NEW c \in Clusters, c \notin tangled' PROVE Known(c)'
    <2>1. CASE c = job[p].c
      BY <1>5, <2>1
    <2>2. CASE c # job[p].c
      <3>1. Known(c) /\ Typed
        BY <1>5 DEF IInv
      <3>2. \A q \in Procs : job'[q].c = c =>
              job'[q] = job[q] \/ job'[q].cmd \notin {"up", "destroy"}
        BY <1>1, <2>2, IdleJob, Apart DEF Kept
      <3>3. Led(c) \subseteq Led(c)'
        BY <2>2, Apart
      <3>4. /\ world'[c] = world[c] /\ file'[c] = file[c] /\ row'[c] = row[c]
            /\ c \in unsettled => c \in unsettled'
            /\ c \in resized => c \in resized'
            /\ c \in left => c \in left'
        BY <2>2
      <3>5. QED
        BY <3>1, <3>2, <3>3, <3>4, Elsewhere
    <2>3. QED
      BY <2>1, <2>2
  <1>6. QED
    BY <1>2, <1>3, <1>4, <1>5 DEF IInv

\* A step that touches neither a cluster, nor its files, nor ~/.kube/config.
LEMMA StepAside ==
  ASSUME IInv, NEW p \in Procs, NEW n, Busy(p), Becomes(p, n), JobForm(n), Draft(n),
         n = Idle \/ (Kept(n, job[p]) /\ n.cmd \notin {"up", "destroy"}),
         Typed', WritersClobber', \A m \in Names : Led(m) \subseteq Led(m)',
         tangled \subseteq tangled',
         world' = world, file' = file, row' = row, unsettled' = unsettled,
         resized' = resized, left' = left
  PROVE  IInv'
  <1>1. Lives'
    BY DEF IInv, Lives
  <1>2. ASSUME NEW d \in Clusters, d = job[p].c, d \notin tangled' PROVE Known(d)'
    <2>1. Known(d) /\ Typed
      BY <1>2 DEF IInv
    <2>2. /\ job' \in [Procs -> JobType] /\ job'[p] = n
          /\ \A q \in Procs : q # p => job'[q] = job[q]
      BY Others DEF IInv, Typed
    <2>3. \A q \in Procs : job'[q].c = d =>
            job'[q] = job[q] \/ job'[q].cmd \notin {"up", "destroy"}
      BY <2>2, IdleJob
    <2>4. Led(d) \subseteq Led(d)'
      BY Apart
    <2>5. QED
      BY <2>1, <2>3, <2>4, Elsewhere
  <1>3. QED
    BY <1>1, <1>2, StepKeeps

-----------------------------------------------------------------------------
(* The steps that work on no cluster. *)

LEMMA LoadConfigIInv ==
  ASSUME IInv, NEW p \in Procs, LoadConfig(p) PROVE IInv'
  <1> DEFINE x == job[p].c
             new == [contexts |-> config.contexts \cup {x},
                     current |-> IF job[p].cmd = "login" THEN config.current ELSE x]
  <1>1. /\ job \in [Procs -> JobType] /\ job[p] \in JobType /\ At(p, "load") /\ Busy(p)
        /\ job[p].cmd \in {"login", "loginActivate", "use"} /\ x \in Contexts
    BY DEF LoadConfig, IInv, Typed, Jobs, JobForm, At, Busy, IdleJob, Idle, JobType,
           BuildSteps, DestroySteps, Editing
  <1>2. new \in Configs /\ (new.current = None \/ new.current \in new.contexts)
    BY <1>1 DEF IInv, Typed, TypeOK, Configs, CurrentResolves
  <1>3. PICK n : /\ Becomes(p, n) /\ n.at # "write" /\ JobForm(n) /\ Draft(n)
                 /\ n = Idle \/ (Kept(n, job[p]) /\ n.cmd \notin {"up", "destroy"})
    <2>1. CASE End(p)
      BY <2>1, Ends, IdleJob
    <2>2. CASE ~End(p)
      <3>1. job' = [job EXCEPT ![p].at = "empty", ![p].cfg = new]
        BY <2>2 DEF LoadConfig
      <3>2. PICK n : Becomes(p, n) /\ Kept(n, job[p]) /\ n.at = "empty" /\ n.cfg = new
        <4> HIDE DEF new
        <4>1. QED
          BY <1>1, <1>2, <3>1, Loads
      <3>3. JobForm(n)
        BY <1>1, <3>2 DEF JobForm, Kept, ConfigSteps
      <3>4. Draft(n)
        BY <1>2, <3>2 DEF Draft, Editing
      <3>5. QED
        BY <1>1, <3>2, <3>3, <3>4 DEF Kept
    <2>3. QED
      BY <2>1, <2>2
  <1>4. kc' = kc /\ ~At(p, "write") /\ clobbered' = clobbered
    BY <1>1 DEF LoadConfig, At
  <1>5. WritersClobber' /\ \A m \in Names : Led(m) \subseteq Led(m)'
    BY <1>3, <1>4, LedStays DEF IInv
  <1>6. job' \in [Procs -> JobType]
    BY <1>1, <1>3, Others
  <1>7. Typed'
    BY <1>6 DEF IInv, Typed, TypeOK, CurrentResolves, LoadConfig, Same, NoFault, JobType
  <1>8. /\ tangled \subseteq tangled'
        /\ world' = world /\ file' = file /\ row' = row
        /\ unsettled' = unsettled /\ resized' = resized /\ left' = left
    BY DEF LoadConfig, Same
  <1>9. QED
    BY <1>1, <1>3, <1>5, <1>7, <1>8, StepAside

\* A command that ends, whatever it leaves behind: an error, a warning, a crash.
LEMMA EndIInv ==
  ASSUME IInv, NEW p \in Procs, Busy(p), End(p),
         world' = world, file' = file, row' = row, kc' = kc, config' = config,
         lives' = lives, unsettled' = unsettled, resized' = resized, left' = left, commands' = commands,
         tangled' \in SUBSET Clusters, tangled \subseteq tangled', Fault \/ NoFault,
         \/ ~At(p, "write") /\ clobbered' = clobbered
         \/ clobbered' = clobbered \cup Names
  PROVE  IInv'
  <1>1. Becomes(p, Idle) /\ job \in [Procs -> JobType]
    BY Ends DEF IInv, Typed
  <1>2. WritersClobber' /\ \A m \in Names : Led(m) \subseteq Led(m)'
    <2>1. CASE ~At(p, "write") /\ clobbered' = clobbered
      BY <1>1, <2>1, IdleJob, LedStays DEF IInv
    <2>2. CASE clobbered' = clobbered \cup Names
      BY <2>2, LedClobbered
    <2>3. QED
      BY <2>1, <2>2
  <1>3. job' \in [Procs -> JobType]
    BY <1>1, Others
  <1>4. faults' \in 0 .. MaxFaults
    BY ClientStateAssumption DEF IInv, Typed, Fault, NoFault
  <1>5. clobbered' \in SUBSET Names
    BY DEF IInv, Typed, TypeOK
  <1>6. Typed'
    BY <1>3, <1>4, <1>5 DEF IInv, Typed, TypeOK, CurrentResolves, JobType
  <1>7. QED
    BY <1>1, <1>2, <1>6, IdleJob, StepAside

LEMMA AtBusy ==
  ASSUME IInv, NEW p \in Procs, job[p].at # "none"
  PROVE  Busy(p) /\ job[p] \in JobType
  BY DEF IInv, Typed, Jobs, JobForm, Busy, Idle

LEMMA FailsIInv ==
  ASSUME IInv, NEW p \in Procs, DestroyFails(p) \/ MergeNothing(p) \/ Crash(p)
  PROVE  IInv'
  <1>1. Busy(p) /\ End(p)
    BY AtBusy DEF DestroyFails, MergeNothing, Crash, At
  <1>2. /\ world' = world /\ file' = file /\ row' = row /\ kc' = kc /\ config' = config
        /\ lives' = lives /\ unsettled' = unsettled /\ resized' = resized /\ left' = left
        /\ commands' = commands /\ tangled' = tangled /\ (Fault \/ NoFault)
    BY DEF DestroyFails, MergeNothing, Crash, Same
  <1>3. \/ ~At(p, "write") /\ clobbered' = clobbered
        \/ clobbered' = clobbered \cup Names
    BY DEF DestroyFails, MergeNothing, Crash, At
  <1>4. tangled' \in SUBSET Clusters
    BY <1>2 DEF IInv, Typed, TypeOK
  <1>5. QED
    BY <1>1, <1>2, <1>3, <1>4, EndIInv

LEMMA EmptyConfigIInv ==
  ASSUME IInv, NEW p \in Procs, EmptyConfig(p) PROVE IInv'
  <1>1. /\ job \in [Procs -> JobType] /\ job[p] \in JobType /\ At(p, "empty") /\ Busy(p)
        /\ job[p].cmd \in {"login", "loginActivate", "use"}
    BY DEF EmptyConfig, IInv, Typed, Jobs, JobForm, At, Busy, Idle, JobType,
           BuildSteps, DestroySteps, Editing
  <1>2. PICK n : Becomes(p, n) /\ Kept(n, job[p]) /\ n.at = "save" /\ n.cfg = job[p].cfg
    BY <1>1, Moves DEF EmptyConfig, ConfigSteps
  <1>3. JobForm(n) /\ Draft(n)
    BY <1>1, <1>2 DEF JobForm, Draft, Kept, ConfigSteps, Editing, At, IInv, Jobs
  <1>4. WritersClobber' /\ \A m \in Names : Led(m) \subseteq Led(m)'
    BY <1>1, <1>2, LedStays DEF IInv, EmptyConfig, history, At
  <1>5. job' \in [Procs -> JobType]
    BY <1>1, <1>2, Others
  <1>6. config' \in Configs /\ config'.current = None
    BY BlankTyped DEF EmptyConfig, NoConfig
  <1>7. Typed'
    BY <1>5, <1>6 DEF IInv, Typed, TypeOK, CurrentResolves, EmptyConfig, history, NoFault, JobType
  <1>8. /\ tangled \subseteq tangled' /\ world' = world /\ file' = file /\ row' = row
        /\ unsettled' = unsettled /\ resized' = resized /\ left' = left
    BY DEF EmptyConfig, history
  <1>9. n.cmd \notin {"up", "destroy"}
    BY <1>1, <1>2 DEF Kept
  <1>10. QED
    BY <1>1, <1>2, <1>3, <1>4, <1>7, <1>8, <1>9, StepAside

LEMMA SaveConfigIInv ==
  ASSUME IInv, NEW p \in Procs, SaveConfig(p) PROVE IInv'
  <1>1. job \in [Procs -> JobType] /\ job[p] \in JobType /\ At(p, "save") /\ Busy(p)
    BY AtBusy DEF SaveConfig, IInv, Typed, At
  <1>2. Becomes(p, Idle)
    BY Ends DEF SaveConfig
  <1>3. WritersClobber' /\ \A m \in Names : Led(m) \subseteq Led(m)'
    BY <1>1, <1>2, IdleJob, LedStays DEF IInv, SaveConfig, history, At
  <1>4. job' \in [Procs -> JobType]
    BY <1>1, <1>2, Others
  <1>5. /\ config' \in Configs
        /\ config'.current = None \/ config'.current \in config'.contexts
    BY <1>1 DEF SaveConfig, IInv, Jobs, Draft, JobType, At
  <1>6. Typed'
    BY <1>4, <1>5 DEF IInv, Typed, TypeOK, CurrentResolves, SaveConfig, history, NoFault, JobType
  <1>7. /\ tangled \subseteq tangled' /\ world' = world /\ file' = file /\ row' = row
        /\ unsettled' = unsettled /\ resized' = resized /\ left' = left
    BY DEF SaveConfig, history
  <1>8. QED
    BY <1>1, <1>2, <1>3, <1>6, <1>7, IdleJob, StepAside

-----------------------------------------------------------------------------
(* A command begins; the operator switches contexts. *)

LEMMA StartIInv ==
  ASSUME IInv, NEW p \in Procs, NEW j \in JobType, Start(p, j), JobForm(j),
         j.at \notin Editing \cup {"empty", "save"},
         \A c \in Clusters : c = j.c /\ c \notin tangled' =>
           /\ j.cmd = "up" => UpDone(j, c)
           /\ j.cmd = "destroy" => DestroyDone(j, c)
  PROVE  IInv'
  <1>1. /\ Becomes(p, j) /\ ~Busy(p) /\ job \in [Procs -> JobType] /\ j.at # "write"
        /\ ~At(p, "write")
    BY DEF Start, Becomes, IInv, Typed, Jobs, JobForm, Busy, At, Editing, Idle
  <1>2. /\ job' \in [Procs -> JobType] /\ job'[p] = j
        /\ \A q \in Procs : q # p => job'[q] = job[q]
    BY <1>1, Others
  <1>3. /\ world' = world /\ file' = file /\ row' = row /\ kc' = kc /\ config' = config
        /\ lives' = lives /\ resized' = resized /\ left' = left /\ clobbered' = clobbered
        /\ faults' = faults
        /\ unsettled' = unsettled \cup ({j.c} \cap Clusters)
        /\ tangled' = IF j.c \in Clusters /\ (WorkedOn(j.c) \/ Leftover(j))
                      THEN tangled \cup {j.c} ELSE tangled
    BY DEF Start
  <1>4. commands' \in 0 .. MaxCommands
    BY ClientStateAssumption DEF Start, IInv, Typed
  <1>5. Typed'
    BY <1>2, <1>3, <1>4 DEF IInv, Typed, TypeOK, CurrentResolves, JobType
  <1>6. WritersClobber' /\ \A m \in Names : Led(m) \subseteq Led(m)'
    BY <1>1, <1>3, LedStays DEF IInv
  <1>7. Draft(j)
    BY DEF Draft
  <1>8. Jobs'
    BY <1>2, <1>7 DEF IInv, Jobs
  <1>9. Lives' /\ Leads(Foreign, 1)'
    BY <1>3, <1>6, Apart DEF IInv, Lives, Leads
  <1>10. Workers'
    <2>1. SUFFICES ASSUME NEW c \in Clusters, c \notin tangled'
                   PROVE  /\ \A q, r \in Procs : q # r => ~(Works(q, c)' /\ Works(r, c)')
                          /\ c \notin unsettled' => \A q \in Procs : ~Works(q, c)'
      BY DEF Workers, WorkedOn, Works, Busy
    <2>2. /\ c \notin tangled
          /\ \A q, r \in Procs : q # r => ~(Works(q, c) /\ Works(r, c))
          /\ c \notin unsettled => \A q \in Procs : ~Works(q, c)
          /\ c = j.c => \A q \in Procs : ~Works(q, c)
      BY <2>1, <1>3 DEF IInv, Workers, WorkedOn, Works
    <2>3. \A q \in Procs : q # p => (Works(q, c)' <=> Works(q, c))
      BY <1>2 DEF Works, Busy
    <2>4. Works(p, c)' => c = j.c
      BY <1>2 DEF Works
    <2>5. QED
      BY <2>2, <2>3, <2>4, <1>3
  <1>11. ASSUME NEW c \in Clusters, c \notin tangled' PROVE Known(c)'
    <2>1. Known(c) /\ Typed /\ c \notin tangled
      BY <1>11, <1>3 DEF IInv
    <2>2. Led(c) \subseteq Led(c)'
      BY <1>6, Apart
    <2>3. CASE c # j.c \/ j.cmd \notin {"up", "destroy"}
      <3>1. \A q \in Procs : job'[q].c = c =>
              job'[q] = job[q] \/ job'[q].cmd \notin {"up", "destroy"}
        BY <1>2, <2>3
      <3>2. QED
        BY <1>3, <2>1, <2>2, <3>1, Elsewhere
    <2>4. CASE c = j.c
      <3>1. /\ AllGone(c)' <=> AllGone(c)
            /\ \A q : RestGone(c, q)' <=> RestGone(c, q)
            /\ \A q : RunsOnly(c, q)' <=> RunsOnly(c, q)
        BY <1>3 DEF AllGone, RestGone, RunsOnly, Runs, Outlives
      <3>2. Traced(c)'
        BY <1>3, <2>1, <2>2, <3>1 DEF Known, Traced, Active, Leads
      <3>3. c \in unsettled'
        BY <1>3, <2>4
      <3>4. \A q \in Procs : q # p => job[q].c # c
        <4>1. SUFFICES ASSUME NEW q \in Procs, q # p, job[q].c = c PROVE FALSE
          OBVIOUS
        <4>2. ~Works(q, c)
          BY <1>11, <1>3, <2>4, <4>1 DEF WorkedOn, Works
        <4>3. job[q] = Idle
          BY <4>1, <4>2 DEF Works, Busy, IInv, Jobs, JobForm
        <4>4. QED
          BY <4>1, <4>3, IdleJob, Apart
      <3>5. /\ j.cmd = "up" => UpDone(j, c)
            /\ j.cmd = "destroy" => DestroyDone(j, c)
        BY <1>11, <2>4
      <3>6. j.cmd = "up" => UpDone(j, c)'
        BY <1>3, <2>2, <3>5, <3>1 DEF UpDone, Active, NodesAre, Leads
      <3>7. j.cmd = "destroy" => DestroyDone(j, c)'
        BY <1>3, <3>5, <3>1 DEF DestroyDone, Active
      <3>8. QED
        BY <1>2, <3>2, <3>3, <3>4, <3>6, <3>7 DEF Known, Done
    <2>5. QED
      BY <2>3, <2>4
  <1>12. QED
    BY <1>5, <1>6, <1>8, <1>9, <1>10, <1>11 DEF IInv

LEMMA StartUpIInv ==
  ASSUME IInv, NEW p \in Procs, StartUp(p) PROVE IInv'
  <1>1. PICK c \in Clusters, prov \in Offered, size \in Sizes :
          /\ prov # "k3d" => size = 1
          /\ Start(p, [Idle EXCEPT !.cmd = "up", !.at = First[prov], !.c = c, !.prov = prov,
                                   !.size = size])
    BY DEF StartUp
  <1>2. PICK at : at = First[prov]
    OBVIOUS
  <1>3. /\ prov \in Providers /\ at \in {"create", "kill", "register"}
        /\ (at = "register" => prov = "hetzner") /\ (at = "kill" => prov = "qemu")
    BY <1>1, <1>2, ClientStateAssumption DEF First, Providers
  <1>4. PICK j : j = [Idle EXCEPT !.cmd = "up", !.at = at, !.c = c, !.prov = prov, !.size = size]
    OBVIOUS
  <1>5. /\ j \in JobType /\ j.cmd = "up" /\ j.at = at /\ j.c = c /\ j.prov = prov
        /\ j.size = size
    BY <1>1, <1>4, <1>3, BlankTyped DEF Idle, JobType
  <1>6. Start(p, j)
    BY <1>1, <1>2, <1>4
  <1>7. JobForm(j) /\ j.at \notin Editing \cup {"empty", "save"}
    BY <1>1, <1>5, <1>3 DEF JobForm, BuildSteps, Editing
  <1>8. ASSUME c \notin tangled' PROVE UpDone(j, c)
    <2>1. c \notin tangled /\ ~WorkedOn(c) /\ ~Leftover(j)
      BY <1>5, <1>6, <1>8 DEF Start
    <2>2. Known(c) /\ row[c] \in RowType
      BY <2>1 DEF IInv, Typed
    <2>3. ASSUME prov = "k3d" PROVE Leads(c, 0) \/ (Active(c) /\ row[c].prov # "k3d")
      <3>1. CASE c \notin unsettled
        BY <2>2, <3>1 DEF Known, Agreed
      <3>2. CASE c \in unsettled
        <4>1. row[c].st # "destroyed" \/ row[c].prov = "k3d"
          BY <1>5, <2>1, <2>3, <3>2 DEF Leftover
        <4>2. QED
          BY <2>2, <4>1 DEF Known, Traced, Active, RowType
      <3>3. QED
        BY <3>1, <3>2
    <2>4. QED
      BY <1>5, <1>3, <2>3 DEF UpDone, Editing
  <1>9. \A d \in Clusters : d = j.c /\ d \notin tangled' =>
           /\ j.cmd = "up" => UpDone(j, d)
           /\ j.cmd = "destroy" => DestroyDone(j, d)
    BY <1>5, <1>8
  <1>10. QED
    BY <1>5, <1>6, <1>7, <1>9, StartIInv

LEMMA StartDestroyIInv ==
  ASSUME IInv, NEW p \in Procs, StartDestroy(p) PROVE IInv'
  <1>1. PICK c \in Clusters :
          /\ row[c].st = "active"
          /\ Start(p, [Idle EXCEPT !.cmd = "destroy", !.at = "delete", !.c = c,
                                   !.prov = row[c].prov])
    BY DEF StartDestroy
  <1>2. row[c].prov \in Providers
    BY DEF IInv, Typed, TypeOK
  <1>3. PICK j : j = [Idle EXCEPT !.cmd = "destroy", !.at = "delete", !.c = c,
                                  !.prov = row[c].prov]
    OBVIOUS
  <1>4. /\ j \in JobType /\ j.cmd = "destroy" /\ j.at = "delete" /\ j.c = c
        /\ j.prov = row[c].prov
    BY <1>2, <1>3, BlankTyped, ClientStateAssumption DEF Idle, JobType
  <1>5. Start(p, j)
    BY <1>1, <1>3
  <1>6. JobForm(j) /\ j.at \notin Editing \cup {"empty", "save"}
    BY <1>4 DEF JobForm, DestroySteps, Editing
  <1>7. DestroyDone(j, c)
    BY <1>1, <1>4 DEF DestroyDone, Active, Editing
  <1>8. \A d \in Clusters : d = j.c /\ d \notin tangled' =>
           /\ j.cmd = "up" => UpDone(j, d)
           /\ j.cmd = "destroy" => DestroyDone(j, d)
    BY <1>4, <1>7
  <1>9. QED
    BY <1>4, <1>5, <1>6, <1>8, StartIInv

LEMMA StartConfigIInv ==
  ASSUME IInv, NEW p \in Procs, StartLogin(p) \/ StartUse(p) PROVE IInv'
  <1>1. PICK x \in Contexts, cmd \in {"login", "loginActivate", "use"} :
          Start(p, [Idle EXCEPT !.cmd = cmd, !.at = "load", !.c = x])
    <2>1. CASE StartUse(p)
      BY <2>1 DEF StartUse
    <2>2. CASE StartLogin(p)
      <3>1. PICK x \in Contexts, activate \in BOOLEAN :
              Start(p, [Idle EXCEPT !.cmd = IF activate THEN "loginActivate" ELSE "login",
                                    !.at = "load", !.c = x])
        BY <2>2 DEF StartLogin
      <3>2. PICK cmd : cmd = IF activate THEN "loginActivate" ELSE "login"
        OBVIOUS
      <3>3. cmd \in {"login", "loginActivate", "use"}
        BY <3>2
      <3>4. Start(p, [Idle EXCEPT !.cmd = cmd, !.at = "load", !.c = x])
        BY <3>1, <3>2
      <3>5. QED
        BY <3>3, <3>4
    <2>3. QED
      BY <2>1, <2>2
  <1>2. PICK j : j = [Idle EXCEPT !.cmd = cmd, !.at = "load", !.c = x]
    OBVIOUS
  <1>3. j \in JobType /\ j.cmd = cmd /\ j.at = "load" /\ j.c = x
    BY <1>2, BlankTyped, ClientStateAssumption DEF Idle, JobType, Providers
  <1>4. Start(p, j)
    BY <1>1, <1>2
  <1>5. JobForm(j) /\ j.at \notin Editing \cup {"empty", "save"}
    BY <1>3 DEF JobForm, ConfigSteps, Editing
  <1>6. \A d \in Clusters : d = j.c /\ d \notin tangled' =>
           /\ j.cmd = "up" => UpDone(j, d)
           /\ j.cmd = "destroy" => DestroyDone(j, d)
    BY <1>3
  <1>7. QED
    BY <1>3, <1>4, <1>5, <1>6, StartIInv

LEMMA SwitchIInv ==
  ASSUME IInv, Switch PROVE IInv'
  <1>1. PICK m \in Names : kc.entry[m] # 0 /\ kc' = [kc EXCEPT !.current = m]
    BY DEF Switch
  <1>2. /\ world' = world /\ file' = file /\ row' = row /\ config' = config /\ job' = job
        /\ lives' = lives /\ unsettled' = unsettled /\ tangled' = tangled /\ left' = left
        /\ resized' = resized /\ clobbered' = clobbered /\ commands' = commands
        /\ faults' = faults
    BY DEF Switch, history
  <1>3. kc' \in Files /\ kc'.entry = kc.entry /\ kc'.current = m
    BY <1>1 DEF IInv, Typed, TypeOK, Files
  <1>4. Typed'
    BY <1>1, <1>2, <1>3 DEF IInv, Typed, TypeOK, CurrentResolves
  <1>5. WritersClobber' /\ \A k \in Names : Led(k) \subseteq Led(k)'
    BY <1>2, <1>3 DEF IInv, WritersClobber, Led, At
  <1>6. Jobs' /\ Lives' /\ Workers'
    BY <1>2 DEF IInv, Jobs, Lives, Workers, WorkedOn, Works, Busy
  <1>7. Leads(Foreign, 1)'
    BY <1>5, Apart DEF IInv, Leads
  <1>8. ASSUME NEW c \in Clusters, c \notin tangled' PROVE Known(c)'
    <2>1. Known(c) /\ Typed
      BY <1>2, <1>8 DEF IInv
    <2>2. Led(c) \subseteq Led(c)'
      BY <1>5, Apart
    <2>3. QED
      BY <1>2, <2>1, <2>2, Elsewhere
  <1>9. QED
    BY <1>4, <1>5, <1>6, <1>7, <1>8 DEF IInv

-----------------------------------------------------------------------------
(* The steps on a cluster. *)

\* A command goes on without touching ~/.kube/config.
LEMMA GoesOn ==
  ASSUME IInv, NEW p \in Procs, NEW s \in BuildSteps \cup DestroySteps, Goto(p, s),
         job[p].at # "none", ~At(p, "write"), kc' = kc, clobbered' = clobbered
  PROVE  \E n : /\ Becomes(p, n) /\ Kept(n, job[p]) /\ n.at = s /\ Draft(n) /\ Busy(p)
                /\ job' \in [Procs -> JobType]
                /\ WritersClobber' /\ \A m \in Names : Led(m) \subseteq Led(m)'
  <1>1. Busy(p) /\ job \in [Procs -> JobType]
    BY AtBusy DEF IInv, Typed
  <1>2. PICK n : Becomes(p, n) /\ Kept(n, job[p]) /\ n.at = s
    BY <1>1, Moves
  <1>3. Draft(n) /\ n.at # "write"
    BY <1>2 DEF Draft, BuildSteps, DestroySteps, Editing
  <1>4. WritersClobber' /\ \A m \in Names : Led(m) \subseteq Led(m)'
    BY <1>2, <1>3, LedStays DEF IInv
  <1>5. job' \in [Procs -> JobType]
    BY <1>1, <1>2, Others
  <1>6. QED
    BY <1>1, <1>2, <1>3, <1>4, <1>5

LEMMA UpStep ==
  ASSUME IInv, NEW p \in Procs, job[p].at \in BuildSteps
  PROVE  /\ Busy(p) /\ job[p].cmd = "up" /\ job[p].c \in Clusters /\ job[p].size \in Sizes
         /\ job[p].at = "register" => job[p].prov = "hetzner"
         /\ job[p].at = "kill" => job[p].prov = "qemu"
         /\ job[p].at = "merge" => job[p].prov # "k3d"
         /\ job[p].prov # "k3d" => job[p].size = 1
         /\ job[p].prov \in Providers
         /\ job[p].c \notin tangled => Known(job[p].c) /\ UpDone(job[p], job[p].c)
  <1>1. job[p] \in JobType /\ Busy(p) /\ JobForm(job[p])
    BY AtBusy DEF IInv, Jobs, BuildSteps
  <1>2. job[p].cmd = "up"
    BY <1>1 DEF JobForm, Busy, JobType, BuildSteps, DestroySteps, ConfigSteps, Editing
  <1>3. job[p].c \in Clusters
    BY <1>1, <1>2 DEF JobForm
  <1>4. job[p].c \notin tangled => Known(job[p].c) /\ UpDone(job[p], job[p].c)
    BY <1>2, <1>3 DEF IInv, Known, Done
  <1>5. QED
    BY <1>1, <1>2, <1>4 DEF JobForm, JobType

LEMMA DestroyStep ==
  ASSUME IInv, NEW p \in Procs, job[p].at \in DestroySteps
  PROVE  /\ Busy(p) /\ job[p].cmd = "destroy" /\ job[p].c \in Clusters
         /\ job[p].prov \in Providers
         /\ job[p].c \notin tangled => Known(job[p].c) /\ DestroyDone(job[p], job[p].c)
  <1>1. job[p] \in JobType /\ Busy(p) /\ JobForm(job[p])
    BY AtBusy DEF IInv, Jobs, DestroySteps
  <1>2. job[p].cmd = "destroy"
    BY <1>1 DEF JobForm, Busy, JobType, BuildSteps, DestroySteps, ConfigSteps, Editing
  <1>3. job[p].c \in Clusters
    BY <1>1, <1>2 DEF JobForm
  <1>4. job[p].c \notin tangled => Known(job[p].c) /\ DestroyDone(job[p], job[p].c)
    BY <1>2, <1>3 DEF IInv, Known, Done
  <1>5. QED
    BY <1>1, <1>2, <1>3, <1>4 DEF JobType

Life == [life : 0 .. MaxLives, size : {0} \cup Sizes]

LEMMA NothingRuns == Nothing \in Life /\ Nothing.life = 0 /\ Nothing.size = 0
  BY ClientStateAssumption DEF Nothing, Life

\* The world of one cluster and provider is changed.
LEMMA WorldAt ==
  ASSUME world \in [Clusters -> [Providers -> Life]], NEW d \in Clusters,
         NEW prov \in Providers, NEW w \in Life, world' = [world EXCEPT ![d][prov] = w]
  PROVE  /\ world' \in [Clusters -> [Providers -> Life]] /\ world'[d][prov] = w
         /\ \A q \in Providers : q # prov => world'[d][q] = world[d][q]
         /\ \A c \in Clusters : c # d => world'[c] = world[c]
  OBVIOUS

\* What one provider runs of a cluster is gone.
LEMMA Killed ==
  ASSUME world \in [Clusters -> [Providers -> Life]], Lives, NEW d \in Clusters,
         NEW prov \in Providers, world' = [world EXCEPT ![d][prov] = Nothing]
  PROVE  /\ world' \in [Clusters -> [Providers -> Life]] /\ Lives'
         /\ \A q \in Providers : Runs(d, q)' => Runs(d, q) /\ q # prov
         /\ \A c \in Clusters : c # d => world'[c] = world[c]
  <1>1. /\ world' \in [Clusters -> [Providers -> Life]] /\ world'[d][prov] = Nothing
        /\ \A q \in Providers : q # prov => world'[d][q] = world[d][q]
        /\ \A c \in Clusters : c # d => world'[c] = world[c]
    BY NothingRuns, WorldAt
  <1>2. Lives'
    BY <1>1 DEF Lives
  <1>3. \A q \in Providers : Runs(d, q)' => Runs(d, q) /\ q # prov
    BY <1>1 DEF Runs
  <1>4. QED
    BY <1>1, <1>2, <1>3

\* Nothing starts or stops.
LEMMA SameWorld ==
  ASSUME NEW d, world' = world, left' = left
  PROVE  /\ AllGone(d)' <=> AllGone(d)
         /\ \A q : RestGone(d, q)' <=> RestGone(d, q)
         /\ \A q : RunsOnly(d, q)' <=> RunsOnly(d, q)
  BY DEF AllGone, RestGone, RunsOnly, Runs, Outlives

\* Nothing starts, and the row is left alone.
LEMMA TracedStays ==
  ASSUME Typed, NEW d \in Clusters, Traced(d), Led(d) \subseteq Led(d)', row'[d] = row[d],
         left' = left, \A q \in Providers : Runs(d, q)' => Runs(d, q)
  PROVE  Traced(d)'
  <1>1. row[d].prov \in Providers
    BY DEF Typed, TypeOK
  <1>2. RestGone(d, row[d].prov) => RestGone(d, row[d].prov)'
    BY DEF RestGone, Outlives
  <1>3. QED
    BY <1>1, <1>2 DEF Traced, Active, Leads

LEMMA RegisterIInv ==
  ASSUME IInv, NEW p \in Procs, Register(p) PROVE IInv'
  <1>1. PICK d : d = job[p].c
    OBVIOUS
  <1>2. PICK r : r = [st |-> "active", prov |-> "hetzner",
                      nodes |-> IF row[d].st = "active" THEN row[d].nodes ELSE {}]
    OBVIOUS
  <1>3. /\ At(p, "register") /\ Goto(p, "create") /\ Mixing(d, "hetzner") /\ kc' = kc
        /\ row' = [row EXCEPT ![d] = r]
        /\ world' = world /\ file' = file /\ config' = config /\ lives' = lives
        /\ unsettled' = unsettled /\ left' = left /\ resized' = resized
        /\ clobbered' = clobbered /\ commands' = commands /\ faults' = faults
    BY <1>1, <1>2 DEF Register, NoFault
  <1>4. /\ Busy(p) /\ job[p].cmd = "up" /\ d \in Clusters /\ job[p].size \in Sizes
        /\ job[p].prov = "hetzner" /\ job[p].size = 1
        /\ d \notin tangled => Known(d) /\ UpDone(job[p], d)
    BY <1>1, <1>3, UpStep DEF At, BuildSteps
  <1>5. PICK n : /\ Becomes(p, n) /\ Kept(n, job[p]) /\ n.at = "create" /\ Draft(n)
                 /\ job' \in [Procs -> JobType]
                 /\ WritersClobber' /\ \A m \in Names : Led(m) \subseteq Led(m)'
    BY <1>3, GoesOn DEF At, BuildSteps
  <1>6. JobForm(n)
    BY <1>1, <1>4, <1>5 DEF JobForm, Kept, BuildSteps, Editing
  <1>7. row \in [Clusters -> RowType]
    BY DEF IInv, Typed
  <1>8. r \in RowType /\ r.st = "active" /\ r.prov = "hetzner"
    BY <1>2, <1>4, <1>7 DEF RowType, Providers
  <1>9. /\ row' \in [Clusters -> RowType] /\ row'[d] = r
        /\ \A c \in Clusters : c # d => row'[c] = row[c]
    BY <1>3, <1>4, <1>7, <1>8
  <1>10. \A c \in Clusters : /\ row'[c].st \in {"none", "active", "destroyed"}
                             /\ row'[c].prov \in Providers
                             /\ row'[c].nodes \subseteq UNION {1 .. s : s \in Sizes}
    BY <1>9 DEF RowType
  <1>11. tangled' \in SUBSET Clusters /\ tangled \subseteq tangled'
         /\ (d \notin tangled' => d \notin tangled /\ RestGone(d, "hetzner"))
    BY <1>3, <1>4 DEF Mixing, RestGone, Runs, IInv, Typed, TypeOK
  <1>12. Typed'
    BY <1>3, <1>5, <1>9, <1>10, <1>11 DEF IInv, Typed, TypeOK, CurrentResolves, JobType
  <1>13. Lives'
    BY <1>3 DEF IInv, Lives
  <1>14. ASSUME d \notin tangled' PROVE Known(d)'
    <2>1. d \notin tangled /\ RestGone(d, "hetzner")'
      BY <1>3, <1>11, <1>14, SameWorld
    <2>2. Traced(d)'
      BY <1>8, <1>9, <2>1 DEF Traced
    <2>3. UpDone(n, d)'
      BY <1>4, <1>5 DEF UpDone, Kept, Editing
    <2>4. d \in unsettled
      BY <1>1, <1>4, <2>1, Unsettles
    <2>5. QED
      BY <1>1, <1>3, <1>4, <1>5, <2>1, <2>2, <2>3, <2>4, Mine DEF Kept
  <1>15. /\ \A c \in Clusters \ {d} :
              world'[c] = world[c] /\ file'[c] = file[c] /\ row'[c] = row[c]
         /\ resized \subseteq resized' /\ left \subseteq left'
    BY <1>3, <1>9
  <1>16. QED
    BY <1>1, <1>3, <1>4, <1>5, <1>6, <1>11, <1>12, <1>13, <1>14, <1>15, StepKeeps

LEMMA KillOldIInv ==
  ASSUME IInv, NEW p \in Procs, KillOld(p) PROVE IInv'
  <1>1. PICK d : d = job[p].c
    OBVIOUS
  <1>2. /\ At(p, "kill") /\ Goto(p, "create") /\ kc' = kc
        /\ world' = [world EXCEPT ![d]["qemu"] = Nothing]
        /\ file' = file /\ row' = row /\ config' = config /\ lives' = lives
        /\ unsettled' = unsettled /\ tangled' = tangled /\ left' = left
        /\ resized' = resized /\ clobbered' = clobbered /\ commands' = commands
        /\ faults' = faults
    BY <1>1 DEF KillOld, Same, NoFault
  <1>3. /\ Busy(p) /\ job[p].cmd = "up" /\ d \in Clusters /\ job[p].size \in Sizes
        /\ job[p].prov = "qemu" /\ job[p].size = 1
        /\ d \notin tangled => Known(d) /\ UpDone(job[p], d)
    BY <1>1, <1>2, UpStep DEF At, BuildSteps
  <1>4. PICK n : /\ Becomes(p, n) /\ Kept(n, job[p]) /\ n.at = "create" /\ Draft(n)
                 /\ job' \in [Procs -> JobType]
                 /\ WritersClobber' /\ \A m \in Names : Led(m) \subseteq Led(m)'
    BY <1>2, GoesOn DEF At, BuildSteps
  <1>5. JobForm(n)
    BY <1>1, <1>3, <1>4 DEF JobForm, Kept, BuildSteps, Editing
  <1>6. world \in [Clusters -> [Providers -> Life]] /\ Lives
    BY DEF IInv, Typed, TypeOK, Life
  <1>7. /\ world' \in [Clusters -> [Providers -> Life]] /\ Lives'
        /\ \A q \in Providers : Runs(d, q)' => Runs(d, q)
        /\ \A c \in Clusters : c # d => world'[c] = world[c]
    BY <1>2, <1>3, <1>6, Killed DEF Providers
  <1>8. Typed'
    BY <1>2, <1>4, <1>7 DEF IInv, Typed, TypeOK, CurrentResolves, JobType, Life
  <1>9. ASSUME d \notin tangled' PROVE Known(d)'
    <2>1. d \notin tangled /\ Known(d) /\ Typed
      BY <1>2, <1>3, <1>9 DEF IInv
    <2>2. Traced(d)'
      BY <1>2, <1>3, <1>4, <1>7, <2>1, Apart, TracedStays DEF Known
    <2>3. UpDone(n, d)'
      BY <1>3, <1>4 DEF UpDone, Kept, Editing
    <2>4. d \in unsettled
      BY <1>1, <1>3, <2>1, Unsettles
    <2>5. QED
      BY <1>1, <1>2, <1>3, <1>4, <2>1, <2>2, <2>3, <2>4, Mine DEF Kept
  <1>10. /\ \A c \in Clusters \ {d} :
              world'[c] = world[c] /\ file'[c] = file[c] /\ row'[c] = row[c]
         /\ resized \subseteq resized' /\ tangled \subseteq tangled' /\ left \subseteq left'
    BY <1>2, <1>7
  <1>11. QED
    BY <1>1, <1>2, <1>3, <1>4, <1>5, <1>7, <1>8, <1>9, <1>10, StepKeeps

LEMMA CreateIInv ==
  ASSUME IInv, NEW p \in Procs, Create(p) PROVE IInv'
  <1>1. PICK d : d = job[p].c
    OBVIOUS
  <1>2. PICK prov : prov = job[p].prov
    OBVIOUS
  <1>3. /\ At(p, "create") /\ Goto(p, "export") /\ Mixing(d, prov) /\ kc' = kc
        /\ file' = file /\ row' = row /\ config' = config /\ unsettled' = unsettled
        /\ left' = left /\ clobbered' = clobbered /\ commands' = commands /\ faults' = faults
        /\ IF world[d][prov] # Nothing
           THEN /\ world' = world /\ lives' = lives
                /\ resized' = IF world[d][prov].size = job[p].size THEN resized
                              ELSE resized \cup {d}
           ELSE /\ lives < MaxLives /\ lives' = lives + 1 /\ resized' = resized
                /\ world' = [world EXCEPT ![d][prov] = [life |-> lives', size |-> job[p].size]]
    BY <1>1, <1>2 DEF Create, NoFault
  <1>4. /\ Busy(p) /\ job[p].cmd = "up" /\ d \in Clusters /\ job[p].size \in Sizes
        /\ prov \in Providers /\ (prov # "k3d" => job[p].size = 1)
        /\ d \notin tangled => Known(d) /\ UpDone(job[p], d)
    BY <1>1, <1>2, <1>3, UpStep DEF At, BuildSteps
  <1>5. PICK n : /\ Becomes(p, n) /\ Kept(n, job[p]) /\ n.at = "export" /\ Draft(n)
                 /\ job' \in [Procs -> JobType]
                 /\ WritersClobber' /\ \A m \in Names : Led(m) \subseteq Led(m)'
    BY <1>3, GoesOn DEF At, BuildSteps
  <1>6. JobForm(n)
    BY <1>1, <1>2, <1>4, <1>5 DEF JobForm, Kept, BuildSteps, Editing
  <1>7. world \in [Clusters -> [Providers -> Life]] /\ Lives /\ lives \in 0 .. MaxLives
    BY DEF IInv, Typed, TypeOK, Life
  <1>8. /\ world' \in [Clusters -> [Providers -> Life]] /\ lives' \in 0 .. MaxLives
        /\ world'[d][prov] # Nothing
        /\ \A q \in Providers : q # prov => world'[d][q] = world[d][q]
        /\ d \notin resized' => world'[d][prov].size = job[p].size
        /\ \A c \in Clusters : c # d => world'[c] = world[c]
        /\ Lives'
    <2>1. CASE world[d][prov] # Nothing
      BY <1>3, <1>4, <1>7, <2>1 DEF Lives
    <2>2. CASE world[d][prov] = Nothing
      <3>1. lives' \in 0 .. MaxLives /\ lives' # 0
        BY <1>3, <1>7, <2>2, ClientStateAssumption
      <3>2. PICK w : w = [life |-> lives', size |-> job[p].size]
        OBVIOUS
      <3>3. w \in Life /\ w.life # 0 /\ w.size = job[p].size
        BY <1>4, <3>1, <3>2 DEF Life
      <3>4. world' = [world EXCEPT ![d][prov] = w]
        BY <1>3, <2>2, <3>2
      <3>5. /\ world' \in [Clusters -> [Providers -> Life]] /\ world'[d][prov] = w
            /\ \A q \in Providers : q # prov => world'[d][q] = world[d][q]
            /\ \A c \in Clusters : c # d => world'[c] = world[c]
        BY <1>4, <1>7, <3>3, <3>4, WorldAt
      <3>6. w # Nothing
        BY <3>3, NothingRuns
      <3>7. Lives'
        BY <1>7, <3>3, <3>5 DEF Lives
      <3>8. QED
        BY <3>1, <3>3, <3>5, <3>6, <3>7
    <2>3. QED
      BY <2>1, <2>2
  <1>9. /\ tangled' \in SUBSET Clusters /\ tangled \subseteq tangled'
        /\ d \notin tangled' => /\ d \notin tangled /\ RestGone(d, prov)
                                /\ Active(d) => row[d].prov = prov
    BY <1>3, <1>4 DEF Mixing, RestGone, Runs, Active, IInv, Typed, TypeOK
  <1>10. resized \subseteq resized' /\ resized' \in SUBSET Clusters
    BY <1>3, <1>4 DEF IInv, Typed, TypeOK
  <1>11. Typed'
    BY <1>3, <1>5, <1>8, <1>9, <1>10
       DEF IInv, Typed, TypeOK, CurrentResolves, JobType, Life
  <1>12. ASSUME d \notin tangled' PROVE Known(d)'
    <2>1. /\ d \notin tangled /\ Known(d) /\ UpDone(job[p], d) /\ RestGone(d, prov)
          /\ Active(d) => row[d].prov = prov
      BY <1>4, <1>9, <1>12
    <2>2. Led(d) \subseteq Led(d)'
      BY <1>4, <1>5, Apart
    <2>3. prov = "k3d" => Leads(d, 0)'
      BY <1>2, <1>3, <2>1, <2>2 DEF UpDone, At, Leads
    <2>4. RestGone(d, prov)'
      BY <1>3, <1>8, <2>1 DEF RestGone, Runs, Outlives
    <2>5. RunsOnly(d, prov)'
      BY <1>8, <2>4 DEF RunsOnly, Runs
    <2>6. Traced(d)'
      BY <1>3, <2>1, <2>2, <2>4 DEF Known, Traced, Active, Leads
    <2>7. UpDone(n, d)'
      BY <1>2, <1>3, <1>5, <1>8, <2>1, <2>3, <2>5 DEF UpDone, Active, Kept, Editing
    <2>8. d \in unsettled
      BY <1>1, <1>4, <2>1, Unsettles
    <2>9. QED
      BY <1>1, <1>3, <1>4, <1>5, <2>1, <2>6, <2>7, <2>8, Mine DEF Kept
  <1>13. /\ \A c \in Clusters \ {d} :
              world'[c] = world[c] /\ file'[c] = file[c] /\ row'[c] = row[c]
         /\ left \subseteq left'
    BY <1>3, <1>8
  <1>14. QED
    BY <1>1, <1>3, <1>4, <1>5, <1>6, <1>8, <1>9, <1>10, <1>11, <1>12, <1>13, StepKeeps

LEMMA ExportIInv ==
  ASSUME IInv, NEW p \in Procs, ExportKubeconfig(p) PROVE IInv'
  <1>1. PICK d : d = job[p].c
    OBVIOUS
  <1>2. PICK prov : prov = job[p].prov
    OBVIOUS
  <1>3. PICK s : s = IF prov = "baremetal" THEN "note" ELSE "record"
    OBVIOUS
  <1>4. /\ At(p, "export") /\ Goto(p, s) /\ s \in {"note", "record"} /\ kc' = kc
        /\ file' = [file EXCEPT ![d] = world[d][prov].life]
        /\ world' = world /\ row' = row /\ config' = config /\ lives' = lives
        /\ unsettled' = unsettled /\ tangled' = tangled /\ left' = left
        /\ resized' = resized /\ clobbered' = clobbered /\ commands' = commands
        /\ faults' = faults
    BY <1>1, <1>2, <1>3 DEF ExportKubeconfig, Same, NoFault
  <1>5. /\ Busy(p) /\ job[p].cmd = "up" /\ d \in Clusters /\ job[p].size \in Sizes
        /\ prov \in Providers /\ (prov # "k3d" => job[p].size = 1)
        /\ d \notin tangled => Known(d) /\ UpDone(job[p], d)
    BY <1>1, <1>2, <1>4, UpStep DEF At, BuildSteps
  <1>6. PICK n : /\ Becomes(p, n) /\ Kept(n, job[p]) /\ n.at = s /\ Draft(n)
                 /\ job' \in [Procs -> JobType]
                 /\ WritersClobber' /\ \A m \in Names : Led(m) \subseteq Led(m)'
    BY <1>4, GoesOn DEF At, BuildSteps
  <1>7. JobForm(n)
    BY <1>1, <1>2, <1>4, <1>5, <1>6 DEF JobForm, Kept, BuildSteps, Editing
  <1>8. /\ file' \in [Clusters -> 0 .. MaxLives] /\ file'[d] = world[d][prov].life
        /\ \A c \in Clusters : c # d => file'[c] = file[c]
    BY <1>4, <1>5 DEF IInv, Typed, TypeOK
  <1>9. Typed'
    BY <1>4, <1>6, <1>8 DEF IInv, Typed, TypeOK, CurrentResolves, JobType
  <1>10. Lives'
    BY <1>4 DEF IInv, Lives
  <1>11. ASSUME d \notin tangled' PROVE Known(d)'
    <2>1. d \notin tangled /\ Known(d) /\ UpDone(job[p], d) /\ Typed
      BY <1>4, <1>5, <1>11 DEF IInv
    <2>2. Led(d) \subseteq Led(d)'
      BY <1>5, <1>6, Apart
    <2>3. Traced(d)'
      BY <1>4, <1>5, <2>1, <2>2, TracedStays DEF Known, Runs
    <2>4. UpDone(n, d)'
      BY <1>2, <1>4, <1>6, <1>8, <2>1, <2>2, SameWorld
         DEF UpDone, Active, Kept, Editing, At, Leads
    <2>5. d \in unsettled
      BY <1>1, <1>5, <2>1, Unsettles
    <2>6. QED
      BY <1>1, <1>4, <1>5, <1>6, <2>1, <2>3, <2>4, <2>5, Mine DEF Kept
  <1>12. /\ \A c \in Clusters \ {d} :
              world'[c] = world[c] /\ file'[c] = file[c] /\ row'[c] = row[c]
         /\ tangled \subseteq tangled' /\ resized \subseteq resized' /\ left \subseteq left'
    BY <1>4, <1>8
  <1>13. QED
    BY <1>1, <1>4, <1>5, <1>6, <1>7, <1>8, <1>9, <1>10, <1>11, <1>12, StepKeeps

LEMMA UpFailsIInv ==
  ASSUME IInv, NEW p \in Procs, UpFails(p) PROVE IInv'
  <1>1. PICK d : d = job[p].c
    OBVIOUS
  <1>2. /\ job[p].at \in {"create", "export"} /\ End(p) /\ (Fault \/ NoFault) /\ kc' = kc
        /\ \/ world' = [world EXCEPT ![d]["qemu"] = Nothing]
           \/ world' = world
        /\ file' = file /\ row' = row /\ config' = config /\ lives' = lives
        /\ unsettled' = unsettled /\ tangled' = tangled /\ left' = left
        /\ resized' = resized /\ clobbered' = clobbered /\ commands' = commands
    BY <1>1 DEF UpFails, Same
  <1>3. Busy(p) /\ job[p].cmd = "up" /\ d \in Clusters /\ (d \notin tangled => Known(d))
    BY <1>1, <1>2, UpStep DEF BuildSteps
  <1>4. Becomes(p, Idle) /\ job \in [Procs -> JobType]
    BY <1>2, Ends DEF IInv, Typed
  <1>5. WritersClobber' /\ \A m \in Names : Led(m) \subseteq Led(m)'
    BY <1>2, <1>4, IdleJob, LedStays DEF IInv, At
  <1>6. job' \in [Procs -> JobType]
    BY <1>4, Others
  <1>7. world \in [Clusters -> [Providers -> Life]] /\ Lives
    BY DEF IInv, Typed, TypeOK, Life
  <1>8. /\ world' \in [Clusters -> [Providers -> Life]] /\ Lives'
        /\ \A q \in Providers : Runs(d, q)' => Runs(d, q)
        /\ \A c \in Clusters : c # d => world'[c] = world[c]
    <2>1. CASE world' = [world EXCEPT ![d]["qemu"] = Nothing]
      BY <1>3, <1>7, <2>1, Killed DEF Providers
    <2>2. CASE world' = world
      BY <1>7, <2>2 DEF Lives, Runs
    <2>3. QED
      BY <1>2, <2>1, <2>2
  <1>9. faults' \in 0 .. MaxFaults
    BY <1>2, ClientStateAssumption DEF IInv, Typed, Fault, NoFault
  <1>10. Typed'
    BY <1>2, <1>6, <1>8, <1>9 DEF IInv, Typed, TypeOK, CurrentResolves, JobType, Life
  <1>11. ASSUME d \notin tangled' PROVE Known(d)'
    <2>1. d \notin tangled /\ Known(d) /\ Typed
      BY <1>2, <1>3, <1>11 DEF IInv
    <2>2. Traced(d)'
      BY <1>2, <1>3, <1>5, <1>8, <2>1, Apart, TracedStays DEF Known
    <2>3. d \in unsettled
      BY <1>1, <1>3, <2>1, Unsettles
    <2>4. QED
      BY <1>1, <1>2, <1>3, <1>4, <2>1, <2>2, <2>3, IdleJob, Mine
  <1>12. /\ \A c \in Clusters \ {d} :
              world'[c] = world[c] /\ file'[c] = file[c] /\ row'[c] = row[c]
         /\ tangled \subseteq tangled' /\ resized \subseteq resized' /\ left \subseteq left'
         /\ unsettled \subseteq unsettled'
    BY <1>2, <1>8
  <1>13. QED
    BY <1>1, <1>2, <1>3, <1>4, <1>5, <1>8, <1>10, <1>11, <1>12, IdleJob, StepKeeps

LEMMA RecordIInv ==
  ASSUME IInv, NEW p \in Procs, Record(p) PROVE IInv'
  <1>1. PICK d : d = job[p].c
    OBVIOUS
  <1>2. PICK old : old = IF row[d].st = "active" THEN row[d].nodes ELSE {}
    OBVIOUS
  <1>3. PICK r : r = [st |-> "active", prov |-> job[p].prov, nodes |-> old \cup 1 .. job[p].size]
    OBVIOUS
  <1>4. PICK last \in BOOLEAN : last <=> At(p, "record") /\ job[p].prov = "k3d"
    OBVIOUS
  <1>5. PICK s : s = IF At(p, "note") THEN "record" ELSE "merge"
    OBVIOUS
  <1>6. /\ job[p].at \in {"note", "record"} /\ kc' = kc /\ world' = world /\ file' = file
        /\ config' = config /\ lives' = lives /\ tangled' = tangled /\ left' = left
        /\ clobbered' = clobbered /\ commands' = commands /\ faults' = faults
        /\ (last => End(p) /\ unsettled' = unsettled \ {d})
        /\ (~last => Goto(p, s) /\ unsettled' = unsettled)
        /\ resized' = IF row[d].st = "active" /\ ~(row[d].nodes \subseteq 1 .. job[p].size)
                      THEN resized \cup {d} ELSE resized
    BY <1>1, <1>4, <1>5 DEF Record, NoFault
  <1>7. /\ Busy(p) /\ job[p].cmd = "up" /\ d \in Clusters /\ job[p].size \in Sizes
        /\ job[p].prov \in Providers
        /\ job[p].prov # "k3d" => job[p].size = 1
        /\ d \notin tangled => Known(d) /\ UpDone(job[p], d)
    BY <1>1, <1>6, UpStep DEF BuildSteps
  <1>8. row \in [Clusters -> RowType] /\ job \in [Procs -> JobType] /\ row[d] \in RowType
    BY <1>7 DEF IInv, Typed
  <1>9. /\ r \in RowType /\ r.st = "active" /\ r.prov = job[p].prov
        /\ r.nodes = old \cup 1 .. job[p].size
    <2>1. old \in SUBSET (UNION {1 .. z : z \in Sizes})
      BY <1>2, <1>8 DEF RowType
    <2>2. 1 .. job[p].size \subseteq UNION {1 .. z : z \in Sizes}
      BY <1>7
    <2>3. old \cup 1 .. job[p].size \in SUBSET (UNION {1 .. z : z \in Sizes})
      BY <2>1, <2>2
    <2>4. QED
      BY <1>3, <1>7, <2>3 DEF RowType
  <1>10. row' = [row EXCEPT ![d] = r]
    BY <1>1, <1>2, <1>3 DEF Record
  <1>11. /\ row' \in [Clusters -> RowType] /\ row'[d] = r
         /\ \A c \in Clusters : c # d => row'[c] = row[c]
    BY <1>7, <1>8, <1>9, <1>10
  <1>12. PICK n : /\ Becomes(p, n) /\ Draft(n) /\ JobForm(n) /\ n.at # "write"
                  /\ last => n = Idle
                  /\ ~last => /\ Kept(n, job[p]) /\ n.at \in {"record", "merge"}
                              /\ n.at = "record" => job[p].at = "note"
    <2>1. CASE last
      BY <1>6, <2>1, Ends, IdleJob
    <2>2. CASE ~last
      <3>1. PICK n : Becomes(p, n) /\ Kept(n, job[p]) /\ n.at = s
        BY <1>5, <1>6, <1>8, <2>2, Moves DEF BuildSteps
      <3>2. Draft(n) /\ n.at # "write"
        BY <1>5, <3>1 DEF Draft, Editing
      <3>3. JobForm(n)
        <4>1. n.at = "merge" => job[p].prov # "k3d"
          BY <1>4, <1>5, <1>6, <2>2, <3>1 DEF At
        <4>2. QED
          BY <1>1, <1>5, <1>7, <3>1, <4>1 DEF JobForm, Kept, BuildSteps, Editing
      <3>4. QED
        BY <1>5, <2>2, <3>1, <3>2, <3>3 DEF At
    <2>3. QED
      BY <2>1, <2>2
  <1>13. WritersClobber' /\ \A m \in Names : Led(m) \subseteq Led(m)'
    BY <1>6, <1>12, LedStays DEF IInv, At
  <1>14. job' \in [Procs -> JobType]
    BY <1>8, <1>12, Others
  <1>15. /\ resized \subseteq resized' /\ resized' \in SUBSET Clusters
         /\ unsettled' \in SUBSET Clusters /\ unsettled \ {d} \subseteq unsettled'
    BY <1>6, <1>7 DEF IInv, Typed, TypeOK
  <1>16. \A c \in Clusters : /\ row'[c].st \in {"none", "active", "destroyed"}
                             /\ row'[c].prov \in Providers
                             /\ row'[c].nodes \subseteq UNION {1 .. z : z \in Sizes}
    BY <1>11 DEF RowType
  <1>17. Typed'
    BY <1>6, <1>11, <1>14, <1>15, <1>16 DEF IInv, Typed, TypeOK, CurrentResolves, JobType
  <1>18. Lives'
    BY <1>6 DEF IInv, Lives
  <1>19. d \notin resized' => r.nodes = 1 .. job[p].size
    BY <1>2, <1>6, <1>9
  <1>20. ASSUME d \notin tangled' PROVE Known(d)'
    <2>1. d \notin tangled /\ Known(d) /\ UpDone(job[p], d)
      BY <1>6, <1>7, <1>20
    <2>2. Led(d) \subseteq Led(d)' /\ (d \notin resized' => d \notin resized)
      BY <1>7, <1>13, <1>15, Apart
    <2> PICK prov, size : prov = job[p].prov /\ size = job[p].size
      OBVIOUS
    <2>3. /\ RunsOnly(d, prov)' /\ RestGone(d, prov)' /\ file'[d] = world'[d][prov].life
          /\ d \notin resized' => world'[d][prov].size = size
      <3>1. /\ RunsOnly(d, prov) /\ file[d] = world[d][prov].life
            /\ d \notin resized => world[d][prov].size = size
        BY <1>6, <2>1 DEF UpDone
      <3>2. RunsOnly(d, prov)'
        BY <1>6, <3>1, SameWorld
      <3>3. QED
        BY <1>6, <2>2, <3>1, <3>2 DEF RunsOnly
    <2>4. prov = "k3d" => Leads(d, 0)'
      BY <1>6, <2>1, <2>2 DEF UpDone, Leads
    <2>5. Active(d)' /\ row'[d].prov = prov /\ NodesAre(d, size)'
      BY <1>9, <1>11, <1>19 DEF Active, NodesAre
    <2>6. Traced(d)'
      BY <2>3, <2>4, <2>5 DEF Traced, Active
    <2>7. d \notin unsettled' => Agreed(d)'
      <3>1. CASE last
        <4>1. prov = "k3d"
          BY <1>4, <3>1
        <4>2. NodesAre(d, world[d][prov].size)'
          BY <1>6, <2>3, <2>5 DEF NodesAre
        <4>3. QED
          BY <2>3, <2>4, <2>5, <4>1, <4>2 DEF Agreed
      <3>2. CASE ~last
        BY <1>1, <1>6, <1>7, <2>1, <3>2, Unsettles
      <3>3. QED
        BY <3>1, <3>2
    <2>8. ASSUME n.c = d
          PROVE  (n.cmd = "up" => UpDone(n, d)') /\ (n.cmd = "destroy" => DestroyDone(n, d)')
      <3>1. /\ Kept(n, job[p]) /\ n.at \in {"record", "merge"} /\ n.prov = prov
            /\ n.cmd = "up" /\ n.size = size
        BY <1>7, <1>12, <2>8, IdleJob, Apart DEF Kept
      <3>2. QED
        BY <2>3, <2>4, <2>5, <3>1 DEF UpDone, Editing
    <2>9. QED
      BY <1>1, <1>7, <1>12, <2>1, <2>6, <2>7, <2>8, Mine
  <1>21. /\ \A c \in Clusters \ {d} :
              world'[c] = world[c] /\ file'[c] = file[c] /\ row'[c] = row[c]
         /\ tangled \subseteq tangled' /\ left \subseteq left'
    BY <1>6, <1>11
  <1>22. /\ n = Idle \/ Kept(n, job[p])
         /\ \/ unsettled \subseteq unsettled'
            \/ n = Idle /\ unsettled \ {job[p].c} \subseteq unsettled'
    BY <1>1, <1>6, <1>12
  <1>23. QED
    BY <1>1, <1>7, <1>12, <1>13, <1>15, <1>17, <1>18, <1>20, <1>21, <1>22, StepKeeps

LEMMA UnrecordedIInv ==
  ASSUME IInv, NEW p \in Procs, Unrecorded(p) PROVE IInv'
  <1>1. PICK d : d = job[p].c
    OBVIOUS
  <1>2. PICK s : s = IF At(p, "register") THEN "create" ELSE "record"
    OBVIOUS
  <1>3. /\ job[p].at \in {"register", "note"} /\ Fault /\ Goto(p, s) /\ kc' = kc
        /\ world' = world /\ file' = file /\ row' = row /\ config' = config
        /\ lives' = lives /\ unsettled' = unsettled /\ tangled' = tangled
        /\ left' = left /\ resized' = resized /\ clobbered' = clobbered
        /\ commands' = commands
    BY <1>1, <1>2 DEF Unrecorded, Same
  <1>4. /\ Busy(p) /\ job[p].cmd = "up" /\ d \in Clusters /\ job[p].size \in Sizes
        /\ (job[p].prov # "k3d" => job[p].size = 1)
        /\ (job[p].at = "register" => job[p].prov = "hetzner")
        /\ d \notin tangled => Known(d) /\ UpDone(job[p], d)
    BY <1>1, <1>3, UpStep DEF BuildSteps
  <1>5. PICK n : /\ Becomes(p, n) /\ Kept(n, job[p]) /\ n.at = s /\ Draft(n)
                 /\ job' \in [Procs -> JobType]
                 /\ WritersClobber' /\ \A m \in Names : Led(m) \subseteq Led(m)'
    BY <1>2, <1>3, GoesOn DEF At, BuildSteps
  <1>6. JobForm(n)
    BY <1>1, <1>2, <1>4, <1>5 DEF JobForm, Kept, BuildSteps, Editing
  <1>7. faults' \in 0 .. MaxFaults
    BY <1>3, ClientStateAssumption DEF IInv, Typed, Fault
  <1>8. Typed' /\ Lives'
    BY <1>3, <1>5, <1>7 DEF IInv, Typed, TypeOK, CurrentResolves, JobType, Lives
  <1>9. ASSUME d \notin tangled' PROVE Known(d)'
    <2>1. d \notin tangled /\ Known(d) /\ UpDone(job[p], d) /\ Typed
      BY <1>3, <1>4, <1>9 DEF IInv
    <2>2. Led(d) \subseteq Led(d)'
      BY <1>4, <1>5, Apart
    <2>3. Traced(d)'
      BY <1>3, <1>4, <2>1, <2>2, TracedStays DEF Known, Runs
    <2>4. UpDone(n, d)'
      <3>1. CASE s = "create"
        BY <1>2, <1>3, <1>4, <1>5, <3>1 DEF UpDone, Kept, Editing, At
      <3>2. CASE s # "create"
        <4>1. s = "record" /\ job[p].at = "note"
          BY <1>2, <1>3, <3>2 DEF At
        <4>2. QED
          BY <1>3, <1>5, <2>1, <2>2, <4>1, SameWorld DEF UpDone, Active, Kept, Editing, Leads
      <3>3. QED
        BY <3>1, <3>2
    <2>5. d \in unsettled
      BY <1>1, <1>4, <2>1, Unsettles
    <2>6. QED
      BY <1>1, <1>3, <1>4, <1>5, <2>1, <2>3, <2>4, <2>5, Mine DEF Kept
  <1>10. /\ \A c \in Clusters \ {d} :
              world'[c] = world[c] /\ file'[c] = file[c] /\ row'[c] = row[c]
         /\ tangled \subseteq tangled' /\ resized \subseteq resized' /\ left \subseteq left'
    BY <1>3
  <1>11. QED
    BY <1>1, <1>3, <1>4, <1>5, <1>6, <1>8, <1>9, <1>10, StepKeeps

\* A warning, after which nothing is claimed of the cluster.
LEMMA WarnsIInv ==
  ASSUME IInv, NEW p \in Procs, UpWarns(p) \/ DestroyWarns(p) PROVE IInv'
  <1>1. PICK d : d = job[p].c
    OBVIOUS
  <1>2. PICK s : s = IF UpWarns(p) THEN "merge" ELSE "mark"
    OBVIOUS
  <1>3. /\ job[p].at \in {"record", "merge", "removeFile", "clean"} /\ kc' = kc
        /\ world' = world /\ file' = file
        /\ row' = row /\ unsettled' = unsettled /\ clobbered' = clobbered
        /\ config' = config /\ lives' = lives /\ resized' = resized /\ left' = left
        /\ commands' = commands /\ Fault /\ tangled' = tangled \cup {d}
        /\ End(p) \/ Goto(p, s)
    BY <1>1, <1>2 DEF UpWarns, DestroyWarns, Same
  <1>4. Busy(p) /\ d \in Clusters
    BY <1>1, <1>3, UpStep, DestroyStep DEF BuildSteps, DestroySteps
  <1>5. tangled' \in SUBSET Clusters /\ tangled \subseteq tangled'
    BY <1>3, <1>4 DEF IInv, Typed, TypeOK
  <1>6. CASE End(p)
    BY <1>3, <1>4, <1>5, <1>6, EndIInv DEF At
  <1>7. CASE ~End(p)
    <2>1. Goto(p, s) /\ s \in {"merge", "mark"}
      BY <1>2, <1>3, <1>7
    <2>2. PICK n : /\ Becomes(p, n) /\ Kept(n, job[p]) /\ n.at = s /\ Draft(n)
                   /\ job' \in [Procs -> JobType]
                   /\ WritersClobber' /\ \A m \in Names : Led(m) \subseteq Led(m)'
      BY <1>3, <2>1, GoesOn DEF At, BuildSteps, DestroySteps
    <2>3. JobForm(n)
      <3>1. CASE UpWarns(p)
        <4>1. job[p].cmd = "up" /\ job[p].at \in {"record", "merge"} /\ job[p].prov # "k3d"
          BY <1>7, <3>1 DEF UpWarns, At
        <4>2. d \in Clusters /\ job[p].size \in Sizes /\ job[p].size = 1
          BY <1>1, <4>1, UpStep DEF BuildSteps
        <4>3. QED
          BY <1>1, <1>2, <2>2, <3>1, <4>1, <4>2 DEF JobForm, Kept, BuildSteps, Editing
      <3>2. CASE ~UpWarns(p)
        <4>1. job[p].cmd = "destroy"
          BY <3>2, DestroyStep DEF DestroyWarns, DestroySteps
        <4>2. QED
          BY <1>1, <1>2, <1>4, <2>2, <3>2, <4>1 DEF JobForm, Kept, DestroySteps
      <3>3. QED
        BY <3>1, <3>2
    <2>4. faults' \in 0 .. MaxFaults
      BY <1>3, ClientStateAssumption DEF IInv, Typed, Fault
    <2>5. Typed'
      BY <1>3, <1>5, <2>2, <2>4 DEF IInv, Typed, TypeOK, CurrentResolves, JobType
    <2>6. Lives'
      BY <1>3 DEF IInv, Lives
    <2>7. /\ d \in tangled' /\ resized \subseteq resized' /\ unsettled \subseteq unsettled'
          /\ left \subseteq left' /\ job[p].cmd \in {"up", "destroy"}
          /\ \A c \in Clusters \ {d} :
               world'[c] = world[c] /\ file'[c] = file[c] /\ row'[c] = row[c]
      BY <1>3, UpStep, DestroyStep DEF BuildSteps, DestroySteps
    <2>8. QED
      BY <1>1, <1>4, <1>5, <2>2, <2>3, <2>5, <2>6, <2>7, StepKeeps
  <1>8. QED
    BY <1>6, <1>7

\* The provider's Destroy, whole or with a warning of Hetzner's sweep.
LEMMA DeleteIInv ==
  ASSUME IInv, NEW p \in Procs, Delete(p) \/ SweepWarns(p) PROVE IInv'
  <1>1. PICK d : d = job[p].c
    OBVIOUS
  <1>2. PICK prov : prov = job[p].prov
    OBVIOUS
  <1>3. PICK s : s = IF Delete(p) /\ prov \in Tidy THEN "removeFile" ELSE "mark"
    OBVIOUS
  <1>4. /\ At(p, "delete") /\ Goto(p, s) /\ kc' = kc
        /\ \/ world' = [world EXCEPT ![d][prov] = Nothing] /\ prov # "baremetal"
           \/ world' = world /\ Outlives(d, prov)'
        /\ left' = left \/ (prov = "hetzner" /\ left' \in {left \cup {d}, left \ {d}})
        /\ s = "mark" => prov \notin Tidy
        /\ file' = file /\ row' = row /\ config' = config /\ lives' = lives
        /\ unsettled' = unsettled /\ tangled' = tangled /\ resized' = resized
        /\ clobbered' = clobbered /\ commands' = commands /\ (Fault \/ NoFault)
    <2>1. CASE Delete(p)
      BY <1>1, <1>2, <1>3, <2>1 DEF Delete, Outlives
    <2>2. CASE SweepWarns(p)
      <3>1. At(p, "delete") /\ Goto(p, "mark") /\ prov = "hetzner" /\ s = "mark"
        BY <1>2, <1>3, <2>2 DEF SweepWarns, Tidy
      <3>2. QED
        BY <1>1, <1>2, <2>2, <3>1 DEF SweepWarns, Outlives, Tidy
    <2>3. QED
      BY <2>1, <2>2
  <1>5. /\ Busy(p) /\ job[p].cmd = "destroy" /\ d \in Clusters /\ prov \in Providers
        /\ d \notin tangled => Known(d) /\ DestroyDone(job[p], d)
    BY <1>1, <1>2, <1>4, DestroyStep DEF At, DestroySteps
  <1>6. PICK n : /\ Becomes(p, n) /\ Kept(n, job[p]) /\ n.at = s /\ Draft(n)
                 /\ s \in {"removeFile", "mark"}
                 /\ job' \in [Procs -> JobType]
                 /\ WritersClobber' /\ \A m \in Names : Led(m) \subseteq Led(m)'
    BY <1>3, <1>4, GoesOn DEF At, DestroySteps
  <1>7. JobForm(n)
    BY <1>1, <1>5, <1>6 DEF JobForm, Kept, DestroySteps
  <1>8. world \in [Clusters -> [Providers -> Life]] /\ Lives
    BY DEF IInv, Typed, TypeOK, Life
  <1>9. /\ world' \in [Clusters -> [Providers -> Life]] /\ Lives'
        /\ \A q \in Providers : Runs(d, q)' => Runs(d, q) /\ (q # prov \/ Outlives(d, prov)')
        /\ \A c \in Clusters : c # d => world'[c] = world[c]
    <2>1. CASE world' = [world EXCEPT ![d][prov] = Nothing]
      BY <1>5, <1>8, <2>1, Killed
    <2>2. CASE world' = world /\ Outlives(d, prov)'
      BY <1>8, <2>2 DEF Lives, Runs
    <2>3. QED
      BY <1>4, <2>1, <2>2
  <1>10. left' \in SUBSET Clusters /\ faults' \in 0 .. MaxFaults
    BY <1>4, <1>5, ClientStateAssumption DEF IInv, Typed, TypeOK, Fault, NoFault
  <1>11. Typed'
    BY <1>4, <1>6, <1>9, <1>10 DEF IInv, Typed, TypeOK, CurrentResolves, JobType, Life
  <1>12. ASSUME d \notin tangled' PROVE Known(d)'
    <2>1. d \notin tangled /\ Known(d) /\ DestroyDone(job[p], d)
      BY <1>4, <1>5, <1>12
    <2>2. Led(d) \subseteq Led(d)'
      BY <1>5, <1>6, Apart
    <2>3. row[d].prov = prov /\ Active(d) /\ RestGone(d, prov)
      BY <1>2, <1>4, <2>1 DEF DestroyDone, Known, Traced, At
    <2>4. \A q \in Providers \ {prov} : Outlives(d, q) => Outlives(d, q)'
      BY <1>4 DEF Outlives
    <2>5. AllGone(d)' /\ RestGone(d, prov)'
      BY <1>9, <2>3, <2>4 DEF AllGone, RestGone
    <2>6. Traced(d)'
      BY <1>4, <2>1, <2>2, <2>3, <2>5 DEF Known, Traced, Active, Leads
    <2>7. DestroyDone(n, d)'
      BY <1>2, <1>4, <1>6, <2>3, <2>5 DEF DestroyDone, Kept, Editing
    <2>8. d \in unsettled
      BY <1>1, <1>5, <2>1, Unsettles
    <2>9. QED
      BY <1>1, <1>4, <1>5, <1>6, <2>1, <2>6, <2>7, <2>8, Mine DEF Kept
  <1>13. /\ \A c \in Clusters \ {d} :
              world'[c] = world[c] /\ file'[c] = file[c] /\ row'[c] = row[c]
         /\ tangled \subseteq tangled' /\ resized \subseteq resized' /\ left \ {d} \subseteq left'
    BY <1>4, <1>9
  <1>14. QED
    BY <1>1, <1>4, <1>5, <1>6, <1>7, <1>9, <1>11, <1>12, <1>13, StepKeeps

LEMMA RemoveFileIInv ==
  ASSUME IInv, NEW p \in Procs, RemoveFile(p) PROVE IInv'
  <1>1. PICK d : d = job[p].c
    OBVIOUS
  <1>2. /\ At(p, "removeFile") /\ Goto(p, "mark") /\ kc' = kc
        /\ file' = [file EXCEPT ![d] = 0]
        /\ world' = world /\ row' = row /\ config' = config /\ lives' = lives
        /\ unsettled' = unsettled /\ tangled' = tangled /\ left' = left /\ resized' = resized
        /\ clobbered' = clobbered /\ commands' = commands /\ faults' = faults
    BY <1>1 DEF RemoveFile, Same, NoFault
  <1>3. /\ Busy(p) /\ job[p].cmd = "destroy" /\ d \in Clusters
        /\ d \notin tangled => Known(d) /\ DestroyDone(job[p], d)
    BY <1>1, <1>2, DestroyStep DEF At, DestroySteps
  <1>4. PICK n : /\ Becomes(p, n) /\ Kept(n, job[p]) /\ n.at = "mark" /\ Draft(n)
                 /\ job' \in [Procs -> JobType]
                 /\ WritersClobber' /\ \A m \in Names : Led(m) \subseteq Led(m)'
    BY <1>2, GoesOn DEF At, DestroySteps
  <1>5. JobForm(n)
    BY <1>1, <1>3, <1>4 DEF JobForm, Kept, DestroySteps
  <1>6. /\ file' \in [Clusters -> 0 .. MaxLives] /\ file'[d] = 0
        /\ \A c \in Clusters : c # d => file'[c] = file[c]
    BY <1>2, <1>3, ClientStateAssumption DEF IInv, Typed, TypeOK
  <1>7. Typed'
    BY <1>2, <1>4, <1>6 DEF IInv, Typed, TypeOK, CurrentResolves, JobType
  <1>8. Lives'
    BY <1>2 DEF IInv, Lives
  <1>9. ASSUME d \notin tangled' PROVE Known(d)'
    <2>1. d \notin tangled /\ Known(d) /\ DestroyDone(job[p], d)
      BY <1>2, <1>3, <1>9
    <2>2. Led(d) \subseteq Led(d)'
      BY <1>3, <1>4, Apart
    <2>3. Traced(d)'
      BY <1>2, <1>3, <2>1, <2>2, TracedStays DEF IInv, Known, Runs
    <2>4. DestroyDone(n, d)'
      BY <1>2, <1>4, <1>6, <2>1, SameWorld DEF DestroyDone, Kept, Editing, At
    <2>5. d \in unsettled
      BY <1>1, <1>3, <2>1, Unsettles
    <2>6. QED
      BY <1>1, <1>2, <1>3, <1>4, <2>1, <2>3, <2>4, <2>5, Mine DEF Kept
  <1>10. /\ \A c \in Clusters \ {d} :
              world'[c] = world[c] /\ file'[c] = file[c] /\ row'[c] = row[c]
         /\ tangled \subseteq tangled' /\ resized \subseteq resized' /\ left \subseteq left'
    BY <1>2, <1>6
  <1>11. QED
    BY <1>1, <1>2, <1>3, <1>4, <1>5, <1>7, <1>8, <1>9, <1>10, StepKeeps

LEMMA MarkDestroyedIInv ==
  ASSUME IInv, NEW p \in Procs, MarkDestroyed(p) PROVE IInv'
  <1>1. PICK d : d = job[p].c
    OBVIOUS
  <1>2. /\ At(p, "mark") /\ Goto(p, "clean") /\ kc' = kc
        /\ row' = [row EXCEPT ![d].st = "destroyed"]
        /\ world' = world /\ file' = file /\ config' = config /\ lives' = lives
        /\ unsettled' = unsettled /\ tangled' = tangled /\ left' = left /\ resized' = resized
        /\ clobbered' = clobbered /\ commands' = commands /\ faults' = faults
    BY <1>1 DEF MarkDestroyed, Same, NoFault
  <1>3. /\ Busy(p) /\ job[p].cmd = "destroy" /\ d \in Clusters
        /\ d \notin tangled => Known(d) /\ DestroyDone(job[p], d)
    BY <1>1, <1>2, DestroyStep DEF At, DestroySteps
  <1>4. PICK n : /\ Becomes(p, n) /\ Kept(n, job[p]) /\ n.at = "clean" /\ Draft(n)
                 /\ job' \in [Procs -> JobType]
                 /\ WritersClobber' /\ \A m \in Names : Led(m) \subseteq Led(m)'
    BY <1>2, GoesOn DEF At, DestroySteps
  <1>5. JobForm(n)
    BY <1>1, <1>3, <1>4 DEF JobForm, Kept, DestroySteps
  <1>6. /\ row' \in [Clusters -> RowType] /\ row'[d].st = "destroyed"
        /\ row'[d].prov = row[d].prov /\ row[d] \in RowType
        /\ \A c \in Clusters : c # d => row'[c] = row[c]
    BY <1>2, <1>3 DEF IInv, Typed, RowType
  <1>7. \A c \in Clusters : /\ row'[c].st \in {"none", "active", "destroyed"}
                            /\ row'[c].prov \in Providers
                            /\ row'[c].nodes \subseteq UNION {1 .. s : s \in Sizes}
    BY <1>6 DEF RowType
  <1>8. Typed'
    BY <1>2, <1>4, <1>6, <1>7 DEF IInv, Typed, TypeOK, CurrentResolves, JobType
  <1>9. Lives'
    BY <1>2 DEF IInv, Lives
  <1>10. ASSUME d \notin tangled' PROVE Known(d)'
    <2>1. d \notin tangled /\ Known(d) /\ DestroyDone(job[p], d)
      BY <1>2, <1>3, <1>10
    <2>2. Led(d) \subseteq Led(d)'
      BY <1>3, <1>4, Apart
    <2>3. Traced(d)'
      BY <1>2, <1>6, <2>1, <2>2 DEF Known, Traced, Active, Leads
    <2>4. DestroyDone(n, d)'
      BY <1>2, <1>4, <1>6, <2>1, SameWorld DEF DestroyDone, Kept, Editing, At
    <2>5. d \in unsettled
      BY <1>1, <1>3, <2>1, Unsettles
    <2>6. QED
      BY <1>1, <1>2, <1>3, <1>4, <2>1, <2>3, <2>4, <2>5, Mine DEF Kept
  <1>11. /\ \A c \in Clusters \ {d} :
              world'[c] = world[c] /\ file'[c] = file[c] /\ row'[c] = row[c]
         /\ tangled \subseteq tangled' /\ resized \subseteq resized' /\ left \subseteq left'
    BY <1>2, <1>6
  <1>12. QED
    BY <1>1, <1>2, <1>3, <1>4, <1>5, <1>8, <1>9, <1>10, <1>11, StepKeeps

-----------------------------------------------------------------------------
(* The edits of ~/.kube/config. *)

LEMMA MergeReadIInv ==
  ASSUME IInv, NEW p \in Procs, MergeRead(p) PROVE IInv'
  <1>1. PICK d : d = job[p].c
    OBVIOUS
  <1>2. PICK w : w = [entry |-> [kc.entry EXCEPT ![d] = file[d]], current |-> d]
    OBVIOUS
  <1>3. /\ At(p, "merge") /\ file[d] # 0 /\ kc' = kc
        /\ job' = [job EXCEPT ![p].at = "truncate", ![p].base = kc, ![p].new = w]
        /\ clobbered' = clobbered \cup Unseen(p)
        /\ world' = world /\ file' = file /\ row' = row /\ config' = config
        /\ lives' = lives /\ unsettled' = unsettled /\ tangled' = tangled /\ left' = left
        /\ resized' = resized /\ commands' = commands /\ faults' = faults
    BY <1>1, <1>2 DEF MergeRead, Same, NoFault
  <1>4. /\ Busy(p) /\ job[p].cmd = "up" /\ d \in Clusters /\ job[p].size \in Sizes
        /\ job[p].prov # "k3d" /\ job[p].size = 1
        /\ d \notin tangled => Known(d) /\ UpDone(job[p], d)
    BY <1>1, <1>3, UpStep DEF At, BuildSteps
  <1>5. /\ job \in [Procs -> JobType] /\ kc \in Files /\ file[d] \in 0 .. MaxLives
        /\ d \in Names
    BY <1>4, Apart DEF IInv, Typed, TypeOK
  <1>6. /\ w \in Files /\ w.entry[d] = file[d] /\ w.current = d
        /\ \A m \in Names : m # d => w.entry[m] = kc.entry[m]
    <2>1. file[d] \in 0 .. MaxLives + 1
      BY <1>5, ClientStateAssumption
    <2>2. QED
      BY <1>2, <1>5, <2>1 DEF Files
  <1>7. PICK n : /\ Becomes(p, n) /\ Kept(n, job[p]) /\ n.at = "truncate"
                 /\ n.base = kc /\ n.new = w
    <2>1. PICK n : n = [job[p] EXCEPT !.at = "truncate", !.base = kc, !.new = w]
      OBVIOUS
    <2>2. job[p] \in JobType
      BY <1>5
    <2>3. /\ n \in JobType /\ Kept(n, job[p]) /\ n.at = "truncate"
          /\ n.base = kc /\ n.new = w
      BY <1>5, <1>6, <2>1, <2>2 DEF JobType, Kept
    <2>4. job' = [job EXCEPT ![p] = n]
      BY <1>3, <2>1
    <2>5. QED
      BY <2>3, <2>4 DEF Becomes
  <1>8. JobForm(n) /\ Draft(n)
    BY <1>1, <1>3, <1>4, <1>6, <1>7 DEF JobForm, Kept, Editing, Draft
  <1>9. WritersClobber' /\ \A m \in Names : Led(m) \subseteq Led(m)'
    BY <1>3, <1>7, LedStays DEF IInv, At
  <1>10. job' \in [Procs -> JobType] /\ clobbered' \in SUBSET Names
    BY <1>3, <1>5, <1>7, Others DEF Unseen, IInv, Typed, TypeOK
  <1>11. Typed'
    BY <1>3, <1>10 DEF IInv, Typed, TypeOK, CurrentResolves, JobType
  <1>12. Lives'
    BY <1>3 DEF IInv, Lives
  <1>13. ASSUME d \notin tangled' PROVE Known(d)'
    <2>1. d \notin tangled /\ Known(d) /\ UpDone(job[p], d)
      BY <1>3, <1>4, <1>13
    <2>2. Led(d) \subseteq Led(d)'
      BY <1>4, <1>9, Apart
    <2>3. Traced(d)'
      BY <1>3, <1>4, <2>1, <2>2, TracedStays DEF IInv, Known, Runs
    <2>4. UpDone(n, d)'
      BY <1>3, <1>4, <1>6, <1>7, <2>1, SameWorld
         DEF UpDone, Active, NodesAre, Kept, Editing, At
    <2>5. d \in unsettled
      BY <1>1, <1>4, <2>1, Unsettles
    <2>6. QED
      BY <1>1, <1>3, <1>4, <1>7, <2>1, <2>3, <2>4, <2>5, Mine DEF Kept
  <1>14. /\ \A c \in Clusters \ {d} :
              world'[c] = world[c] /\ file'[c] = file[c] /\ row'[c] = row[c]
         /\ tangled \subseteq tangled' /\ resized \subseteq resized' /\ left \subseteq left'
    BY <1>3
  <1>15. QED
    BY <1>1, <1>3, <1>4, <1>7, <1>8, <1>9, <1>11, <1>12, <1>13, <1>14, StepKeeps

LEMMA CleanReadIInv ==
  ASSUME IInv, NEW p \in Procs, CleanRead(p) PROVE IInv'
  <1>1. PICK d : d = job[p].c
    OBVIOUS
  <1>2. PICK w : w = Cleaned(kc, d)
    OBVIOUS
  <1>3. /\ At(p, "clean") /\ kc' = kc /\ clobbered' = clobbered \cup Unseen(p)
        /\ IF w = kc THEN End(p) /\ unsettled' = unsettled \ {d}
           ELSE /\ job' = [job EXCEPT ![p].at = "truncate", ![p].base = kc, ![p].new = w]
                /\ unsettled' = unsettled
        /\ world' = world /\ file' = file /\ row' = row /\ config' = config
        /\ lives' = lives /\ tangled' = tangled /\ left' = left
        /\ resized' = resized /\ commands' = commands /\ faults' = faults
    BY <1>1, <1>2 DEF CleanRead, Same, NoFault
  <1>4. /\ Busy(p) /\ job[p].cmd = "destroy" /\ d \in Clusters
        /\ d \notin tangled => Known(d) /\ DestroyDone(job[p], d)
    BY <1>1, <1>3, DestroyStep DEF At, DestroySteps
  <1>5. /\ job \in [Procs -> JobType] /\ kc \in Files /\ d \in Names
        /\ kc.current = None \/ kc.entry[kc.current] # 0
    BY <1>4, Apart DEF IInv, Typed, TypeOK, CurrentResolves
  <1>6. /\ w \in Files /\ w.entry[d] = 0
        /\ w.current = None \/ w.entry[w.current] # 0
        /\ \A m \in Names : m # d => w.entry[m] = kc.entry[m]
    <2>1. PICK cur : cur = IF kc.current = d THEN None ELSE kc.current
      OBVIOUS
    <2>2. w = [entry |-> [kc.entry EXCEPT ![d] = 0], current |-> cur]
      BY <1>2, <2>1 DEF Cleaned
    <2>3. cur \in Names \cup {None} /\ 0 \in 0 .. MaxLives + 1
      BY <1>5, <2>1, ClientStateAssumption DEF Files
    <2>4. /\ w \in Files /\ w.entry[d] = 0 /\ w.current = cur
          /\ \A m \in Names : m # d => w.entry[m] = kc.entry[m]
      BY <1>5, <2>2, <2>3 DEF Files
    <2>5. cur = None \/ (cur # d /\ cur \in Names /\ kc.entry[cur] # 0)
      BY <1>5, <2>1 DEF Files
    <2>6. QED
      BY <2>4, <2>5
  <1>7. PICK n : /\ Becomes(p, n) /\ JobForm(n) /\ Draft(n) /\ n.at # "write"
                 /\ IF w = kc THEN n = Idle
                    ELSE /\ Kept(n, job[p]) /\ n.at = "truncate"
                         /\ n.base = kc /\ n.new = w
    <2>1. CASE w = kc
      BY <1>3, <2>1, Ends, IdleJob
    <2>2. CASE w # kc
      <3>1. PICK n : /\ Becomes(p, n) /\ Kept(n, job[p]) /\ n.at = "truncate"
                     /\ n.base = kc /\ n.new = w
        <4>1. PICK n : n = [job[p] EXCEPT !.at = "truncate", !.base = kc, !.new = w]
          OBVIOUS
        <4>2. job[p] \in JobType
          BY <1>5
        <4>3. /\ n \in JobType /\ Kept(n, job[p]) /\ n.at = "truncate"
              /\ n.base = kc /\ n.new = w
          BY <1>5, <1>6, <4>1, <4>2 DEF JobType, Kept
        <4>4. job' = [job EXCEPT ![p] = n]
          BY <1>3, <2>2, <4>1
        <4>5. QED
          BY <4>3, <4>4 DEF Becomes
      <3>2. JobForm(n) /\ Draft(n)
        BY <1>1, <1>4, <1>6, <3>1 DEF JobForm, Kept, Editing, Draft
      <3>3. QED
        BY <2>2, <3>1, <3>2
    <2>3. QED
      BY <2>1, <2>2
  <1>8. WritersClobber' /\ \A m \in Names : Led(m) \subseteq Led(m)'
    BY <1>3, <1>7, LedStays DEF IInv, At
  <1>9. /\ job' \in [Procs -> JobType] /\ clobbered' \in SUBSET Names
        /\ unsettled' \in SUBSET Clusters
    BY <1>3, <1>5, <1>7, Others DEF Unseen, IInv, Typed, TypeOK
  <1>10. Typed'
    BY <1>3, <1>9 DEF IInv, Typed, TypeOK, CurrentResolves, JobType
  <1>11. Lives'
    BY <1>3 DEF IInv, Lives
  <1>12. ASSUME d \notin tangled' PROVE Known(d)'
    <2>1. d \notin tangled /\ Known(d) /\ DestroyDone(job[p], d)
      BY <1>3, <1>4, <1>12
    <2>2. Led(d) \subseteq Led(d)'
      BY <1>4, <1>8, Apart
    <2>3. Traced(d)'
      BY <1>3, <1>4, <2>1, <2>2, TracedStays DEF IInv, Known, Runs
    <2>4. n.c = d => (n.cmd = "destroy" => DestroyDone(n, d)') /\ n.cmd # "up"
      BY <1>3, <1>4, <1>6, <1>7, <2>1, IdleJob, Apart, SameWorld
         DEF DestroyDone, Kept, Editing, At
    <2>5. d \notin unsettled' => Agreed(d)'
      <3>1. CASE w = kc
        <4>1. Leads(d, 0)'
          <5>1. CASE MidWrite(p)
            BY <1>3, <1>5, <5>1, ClientStateAssumption DEF Unseen, Leads, Led
          <5>2. CASE ~MidWrite(p)
            <6>1. \A q \in Procs : ~At(q, "write")
              BY <1>3, <5>2 DEF MidWrite, At
            <6>2. kc.entry[d] = 0 /\ 0 \in 0 .. MaxLives + 1
              BY <1>6, <3>1, ClientStateAssumption
            <6>3. Leads(d, 0)
              BY <6>1, <6>2 DEF Leads, Led
            <6>4. QED
              BY <2>2, <6>3 DEF Leads
          <5>3. QED
            BY <5>1, <5>2
        <4>2. AllGone(d)' /\ ~Active(d)' /\ (row'[d].prov \in Tidy => file'[d] = 0)
          BY <1>3, <2>1, SameWorld DEF DestroyDone, Active, At
        <4>3. QED
          BY <4>1, <4>2 DEF Agreed
      <3>2. CASE w # kc
        BY <1>1, <1>3, <1>4, <2>1, <3>2, Unsettles
      <3>3. QED
        BY <3>1, <3>2
    <2>6. QED
      BY <1>1, <1>4, <1>7, <2>1, <2>3, <2>4, <2>5, Mine
  <1>13. /\ \A c \in Clusters \ {d} :
              world'[c] = world[c] /\ file'[c] = file[c] /\ row'[c] = row[c]
         /\ tangled \subseteq tangled' /\ resized \subseteq resized' /\ left \subseteq left'
    BY <1>3
  <1>14. /\ n = Idle \/ Kept(n, job[p])
         /\ \/ unsettled \subseteq unsettled'
            \/ n = Idle /\ unsettled \ {job[p].c} \subseteq unsettled'
    BY <1>1, <1>3, <1>7
  <1>15. QED
    BY <1>1, <1>4, <1>7, <1>8, <1>10, <1>11, <1>12, <1>13, <1>14, StepKeeps

LEMMA TruncateIInv ==
  ASSUME IInv, NEW p \in Procs, Truncate(p) PROVE IInv'
  <1>1. PICK d : d = job[p].c
    OBVIOUS
  <1>2. /\ At(p, "truncate") /\ Goto(p, "write") /\ kc' = Blank
        /\ clobbered' = clobbered \cup Undone(p)
        /\ world' = world /\ file' = file /\ row' = row /\ config' = config
        /\ lives' = lives /\ unsettled' = unsettled /\ tangled' = tangled /\ left' = left
        /\ resized' = resized /\ commands' = commands /\ faults' = faults
    BY <1>1 DEF Truncate, Same, NoFault
  <1>3. /\ job \in [Procs -> JobType] /\ job[p] \in JobType /\ Busy(p) /\ JobForm(job[p])
        /\ Draft(job[p])
    BY <1>2, AtBusy DEF IInv, Typed, Jobs, At
  <1>4. job[p].cmd \in {"up", "destroy"} /\ d \in Clusters /\ d \in Names
    BY <1>1, <1>2, <1>3, Apart DEF JobForm, JobType, Busy, At, ConfigSteps
  <1>5. PICK n : /\ Becomes(p, n) /\ Kept(n, job[p]) /\ n.at = "write"
                 /\ n.base = job[p].base /\ n.new = job[p].new /\ n.cfg = job[p].cfg
    BY <1>2, <1>3, Moves DEF Editing
  <1>6. /\ job' \in [Procs -> JobType] /\ job'[p] = n
        /\ \A q \in Procs : q # p => job'[q] = job[q]
    BY <1>3, <1>5, Others
  <1>7. JobForm(n)
    BY <1>1, <1>2, <1>3, <1>4, <1>5 DEF JobForm, Kept, Editing, At
  <1>8. Draft(n)
    BY <1>2, <1>3, <1>5 DEF Draft, Kept, Editing, At
  <1>9. WritersClobber'
    <2>1. SUFFICES ASSUME NEW q \in Procs, NEW r \in Procs, q # r,
                          job'[q].at = "write", job'[r].at = "write"
                   PROVE  Names \subseteq clobbered'
      BY DEF WritersClobber, At
    <2>2. CASE q # p /\ r # p
      BY <1>2, <1>6, <2>1, <2>2 DEF IInv, WritersClobber, At
    <2>3. CASE q = p \/ r = p
      BY <1>2, <1>6, <2>1, <2>3 DEF Undone, MidWrite, At
    <2>4. QED
      BY <2>2, <2>3
  <1>10. ASSUME NEW m \in Names \ {d} PROVE Led(m) \subseteq Led(m)'
    <2>1. SUFFICES ASSUME NEW v \in 0 .. MaxLives + 1, v \in Led(m), m \notin clobbered'
                   PROVE  \A q \in Procs : job'[q].at = "write" => job'[q].new.entry[m] = v
      BY <1>6, <1>5 DEF Led, At
    <2>2. m \notin clobbered /\ ~MidWrite(p) /\ kc.entry[m] = job[p].base.entry[m]
      BY <1>2, <2>1 DEF Undone
    <2>3. \A q \in Procs : ~At(q, "write")
      BY <1>2, <2>2 DEF MidWrite, At
    <2>4. kc.entry[m] = v
      BY <2>1, <2>2, <2>3 DEF Led
    <2>5. n.new.entry[m] = v
      BY <1>1, <1>2, <1>3, <1>5, <2>2, <2>4 DEF Draft, Editing, At
    <2>6. QED
      BY <1>6, <2>3, <2>5 DEF At
  <1>11. Led(d)' = {v \in 0 .. MaxLives + 1 : v = n.new.entry[d]} \/ d \in clobbered'
    <2>1. SUFFICES ASSUME d \notin clobbered'
                   PROVE  \A v \in 0 .. MaxLives + 1 : v \in Led(d)' <=> v = n.new.entry[d]
      BY DEF Led
    <2>2. \A q \in Procs : ~At(q, "write")
      BY <1>2, <1>4, <2>1 DEF Undone, MidWrite, At
    <2>3. QED
      BY <1>5, <1>6, <2>1, <2>2 DEF Led, At
  <1>12. \A v \in 0 .. MaxLives + 1 : v = n.new.entry[d] => v \in Led(d)'
    <2>1. CASE d \in clobbered'
      BY <2>1 DEF Led
    <2>2. CASE d \notin clobbered'
      BY <1>11, <2>2
    <2>3. QED
      BY <2>1, <2>2
  <1>13. clobbered' \in SUBSET Names /\ Blank \in Files /\ kc'.current = None
    BY <1>2, BlankTyped DEF Undone, IInv, Typed, TypeOK, Blank
  <1>14. Typed'
    BY <1>2, <1>6, <1>13 DEF IInv, Typed, TypeOK, CurrentResolves, JobType
  <1>15. Lives'
    BY <1>2 DEF IInv, Lives
  <1>16. ASSUME d \notin tangled' PROVE Known(d)'
    <2>1. d \notin tangled /\ Known(d)
      BY <1>2, <1>4, <1>16 DEF IInv
    <2>2. /\ job[p].cmd = "up" => UpDone(job[p], d)
          /\ job[p].cmd = "destroy" => DestroyDone(job[p], d)
      BY <1>1, <2>1 DEF Known, Done
    <2>8. row[d].prov \in Providers /\ (Active(d) => RestGone(d, row[d].prov)')
      BY <1>2, <1>4, <2>1, SameWorld DEF Known, Traced, IInv, Typed, TypeOK
    <2>3. Traced(d)'
      <3>1. CASE job[p].cmd = "up"
        <4>1. Active(d) /\ row[d].prov = job[p].prov /\ job[p].prov # "k3d"
          BY <1>2, <1>3, <2>2, <3>1 DEF UpDone, JobForm, Editing, At
        <4>2. QED
          BY <1>2, <2>8, <4>1 DEF Traced, Active
      <3>2. CASE job[p].cmd = "destroy"
        <4>1. n.new.entry[d] = 0 /\ 0 \in 0 .. MaxLives + 1
          BY <1>2, <1>5, <2>2, <3>2, ClientStateAssumption DEF DestroyDone, Editing, At
        <4>2. Leads(d, 0)'
          BY <1>12, <4>1 DEF Leads
        <4>3. QED
          BY <1>2, <2>8, <4>2 DEF Traced, Active
      <3>3. QED
        BY <1>4, <3>1, <3>2
    <2>4. n.cmd = "up" => UpDone(n, d)'
      <3>1. SUFFICES ASSUME n.cmd = "up" PROVE UpDone(n, d)'
        OBVIOUS
      <3>2. job[p].cmd = "up" /\ job[p].prov # "k3d" /\ n.prov = job[p].prov
        BY <1>2, <1>3, <1>5, <3>1 DEF JobForm, Kept, Editing, At
      <3>3. QED
        BY <1>2, <1>5, <2>2, <3>2, SameWorld DEF UpDone, Active, NodesAre, Kept, Editing, At
    <2>5. n.cmd = "destroy" => DestroyDone(n, d)'
      BY <1>2, <1>5, <2>2, SameWorld DEF DestroyDone, Kept, Editing, At
    <2>6. d \in unsettled
      BY <1>1, <1>3, <1>4, <2>1, Unsettles
    <2>7. QED
      BY <1>1, <1>2, <1>3, <1>4, <1>5, <2>1, <2>3, <2>4, <2>5, <2>6, Mine
  <1>17. /\ \A c \in Clusters \ {d} :
              world'[c] = world[c] /\ file'[c] = file[c] /\ row'[c] = row[c]
         /\ tangled \subseteq tangled' /\ resized \subseteq resized' /\ left \subseteq left'
         /\ unsettled \subseteq unsettled'
    BY <1>2
  <1>18. QED
    BY <1>1, <1>3, <1>4, <1>5, <1>7, <1>8, <1>9, <1>10, <1>14, <1>15, <1>16, <1>17, StepKeeps

LEMMA WriteIInv ==
  ASSUME IInv, NEW p \in Procs, Write(p) PROVE IInv'
  <1>1. PICK d : d = job[p].c
    OBVIOUS
  <1>2. /\ At(p, "write") /\ End(p) /\ kc' = job[p].new
        /\ unsettled' = unsettled \ {d} /\ clobbered' = clobbered
        /\ world' = world /\ file' = file /\ row' = row /\ config' = config
        /\ lives' = lives /\ tangled' = tangled /\ left' = left
        /\ resized' = resized /\ commands' = commands /\ faults' = faults
    BY <1>1 DEF Write, Same, NoFault
  <1>3. /\ job \in [Procs -> JobType] /\ job[p] \in JobType /\ Busy(p) /\ JobForm(job[p])
        /\ Draft(job[p])
    BY <1>2, AtBusy DEF IInv, Typed, Jobs, At
  <1>4. job[p].cmd \in {"up", "destroy"} /\ d \in Clusters /\ d \in Names
    BY <1>1, <1>2, <1>3, Apart DEF JobForm, JobType, Busy, At, ConfigSteps
  <1>5. /\ Becomes(p, Idle) /\ job' \in [Procs -> JobType] /\ job'[p] = Idle
        /\ \A q \in Procs : q # p => job'[q] = job[q]
    BY <1>2, <1>3, Ends, Others
  <1>6. WritersClobber'
    BY <1>2, <1>5, IdleJob DEF IInv, WritersClobber, At
  <1>7. ASSUME NEW m \in Names PROVE Led(m) \subseteq Led(m)'
    <2>1. SUFFICES ASSUME NEW v \in 0 .. MaxLives + 1, v \in Led(m), m \notin clobbered
                   PROVE  /\ kc'.entry[m] = v
                          /\ \A q \in Procs : job'[q].at # "write"
      BY <1>2 DEF Led, At
    <2>2. kc'.entry[m] = v
      BY <1>2, <2>1 DEF Led
    <2>3. \A q \in Procs : job'[q].at # "write"
      BY <1>2, <1>5, <2>1, IdleJob DEF IInv, WritersClobber, At
    <2>4. QED
      BY <2>2, <2>3
  <1>8. kc' \in Files /\ (kc'.current = None \/ kc'.entry[kc'.current] # 0)
    BY <1>2, <1>3 DEF JobType, Draft, Editing, At
  <1>9. unsettled' \in SUBSET Clusters /\ unsettled \ {job[p].c} \subseteq unsettled'
    BY <1>1, <1>2 DEF IInv, Typed, TypeOK
  <1>10. Typed'
    BY <1>2, <1>5, <1>8, <1>9 DEF IInv, Typed, TypeOK, CurrentResolves, JobType
  <1>11. Lives'
    BY <1>2 DEF IInv, Lives
  <1>12. ASSUME d \notin tangled' PROVE Known(d)'
    <2>1. d \notin tangled /\ Known(d)
      BY <1>2, <1>4, <1>12 DEF IInv
    <2>2. /\ job[p].cmd = "up" => UpDone(job[p], d)
          /\ job[p].cmd = "destroy" => DestroyDone(job[p], d)
      BY <1>1, <2>1 DEF Known, Done
    <2>3. Led(d) \subseteq Led(d)'
      BY <1>4, <1>7
    <2>4. Traced(d)'
      BY <1>2, <1>4, <2>1, <2>3, TracedStays DEF IInv, Known, Runs
    <2>5. kc'.entry[d] \in 0 .. MaxLives + 1 /\ kc'.entry[d] \in Led(d)'
      <3>1. kc'.entry[d] \in 0 .. MaxLives + 1
        BY <1>4, <1>8 DEF Files
      <3>2. d \in clobbered' \/ \A q \in Procs : job'[q].at # "write"
        BY <1>2, <1>4, <1>5, IdleJob DEF IInv, WritersClobber, At
      <3>3. QED
        BY <3>1, <3>2 DEF Led, At
    <2>6. Agreed(d)'
      <3>1. CASE job[p].cmd = "up"
        <4> PICK prov : prov = job[p].prov
          OBVIOUS
        <4>1. prov # "k3d"
          BY <1>2, <1>3, <3>1 DEF JobForm, Editing, At
        <4>2. /\ RunsOnly(d, prov) /\ file[d] = world[d][prov].life /\ Active(d)
              /\ row[d].prov = prov /\ job[p].new.entry[d] = file[d]
              /\ d \notin resized => world[d][prov].size = job[p].size
              /\ NodesAre(d, job[p].size)
          BY <1>2, <2>2, <3>1 DEF UpDone, Editing, At
        <4>3. /\ RunsOnly(d, prov)' /\ Active(d)' /\ row'[d].prov = prov
              /\ file'[d] = world'[d][prov].life
          BY <1>2, <4>2, SameWorld DEF Active
        <4>4. NodesAre(d, world[d][prov].size)'
          BY <1>2, <4>2 DEF NodesAre
        <4>5. kc'.entry[d] = world'[d][prov].life
          BY <1>2, <4>2
        <4>6. QED
          BY <2>5, <4>1, <4>3, <4>4, <4>5 DEF Agreed, Leads
      <3>2. CASE job[p].cmd = "destroy"
        <4>1. /\ AllGone(d)' /\ ~Active(d)' /\ kc'.entry[d] = 0
              /\ row'[d].prov \in Tidy => file'[d] = 0
          BY <1>2, <2>2, <3>2, SameWorld DEF DestroyDone, Active, Editing, At
        <4>2. QED
          BY <2>5, <4>1 DEF Agreed, Leads
      <3>3. QED
        BY <1>4, <3>1, <3>2
    <2>7. QED
      BY <1>1, <1>3, <1>4, <1>5, <2>1, <2>4, <2>6, IdleJob, Mine
  <1>13. /\ \A c \in Clusters \ {d} :
              world'[c] = world[c] /\ file'[c] = file[c] /\ row'[c] = row[c]
         /\ tangled \subseteq tangled' /\ resized \subseteq resized' /\ left \subseteq left'
    BY <1>2
  <1>14. QED
    BY <1>1, <1>3, <1>5, <1>6, <1>7, <1>9, <1>10, <1>11, <1>12, <1>13, IdleJob, StepKeeps

-----------------------------------------------------------------------------
(* The theorems. *)

LEMMA InitIInv == Init => IInv
  <1> SUFFICES ASSUME Init PROVE IInv
    OBVIOUS
  <1>1. world \in [Clusters -> [Providers -> Life]]
    BY NothingRuns DEF Init
  <1>2. NoRow \in RowType /\ NoRow.st = "none" /\ NoRow.prov = "k3d"
    BY DEF NoRow, RowType, Providers
  <1>3. row \in [Clusters -> RowType]
    BY <1>2 DEF Init
  <1>4. /\ kc \in Files /\ kc.current = Foreign /\ kc.entry[Foreign] = 1
        /\ \A c \in Clusters : kc.entry[c] = 0
    <2>1. [n \in Names |-> IF n = Foreign THEN 1 ELSE 0] \in [Names -> 0 .. MaxLives + 1]
      BY ClientStateAssumption
    <2>2. QED
      BY <2>1, Apart DEF Init, Files
  <1>5. /\ job \in [Procs -> JobType] /\ \A p \in Procs : job[p] = Idle
    BY IdleJob DEF Init
  <1>6. config \in Configs /\ config.current = None
    BY BlankTyped DEF Init, NoConfig
  <1>7. /\ file \in [Clusters -> 0 .. MaxLives] /\ lives \in 0 .. MaxLives
        /\ commands \in 0 .. MaxCommands /\ faults \in 0 .. MaxFaults
    BY ClientStateAssumption DEF Init
  <1>8. TypeOK
    <2>1. CurrentResolves
      BY <1>4, <1>6 DEF CurrentResolves
    <2>2. \A c \in Clusters : /\ row[c].st \in {"none", "active", "destroyed"}
                              /\ row[c].prov \in Providers
                              /\ row[c].nodes \subseteq UNION {1 .. s : s \in Sizes}
      BY <1>3 DEF RowType
    <2>3. QED
      BY <2>1, <2>2, <1>1, <1>4, <1>5, <1>6, <1>7 DEF TypeOK, Init, Life, JobType
  <1>9. Typed
    BY <1>3, <1>5, <1>7, <1>8 DEF Typed
  <1>10. Jobs /\ WritersClobber /\ Lives
    BY <1>5, IdleJob DEF Jobs, WritersClobber, Lives, At, Init
  <1>11. \A n \in Names : 0 \in 0 .. MaxLives + 1 /\ 1 \in 0 .. MaxLives + 1
    BY ClientStateAssumption
  <1>12. Leads(Foreign, 1) /\ \A c \in Clusters : Leads(c, 0)
    BY <1>4, <1>5, <1>11, Apart, IdleJob DEF Leads, Led, At
  <1>13. Workers
    BY <1>5, IdleJob DEF Workers, WorkedOn, Works, Busy
  <1>14. ASSUME NEW c \in Clusters PROVE Known(c)
    <2>1. AllGone(c) /\ ~Active(c) /\ row[c].st = "none"
      BY <1>2 DEF Init, AllGone, Runs, Active
    <2>3. Traced(c) /\ Agreed(c)
      BY <1>12, <2>1 DEF Traced, Agreed
    <2>4. \A p \in Procs : job[p].c # c
      BY <1>5, IdleJob, Apart
    <2>5. QED
      BY <2>3, <2>4 DEF Known
  <1>15. QED
    BY <1>9, <1>10, <1>12, <1>13, <1>14 DEF IInv

LEMMA NextIInv == IInv /\ [Next]_vars => IInv'
  <1> SUFFICES ASSUME IInv, [Next]_vars PROVE IInv'
    OBVIOUS
  <1>1. CASE UNCHANGED vars
    <2>1. Typed'
      BY <1>1 DEF vars, history, IInv, Typed, TypeOK, CurrentResolves, JobType, RowType
    <2>2. Jobs' /\ WritersClobber' /\ Lives' /\ Workers'
      BY <1>1 DEF vars, history, IInv, Jobs, JobForm, Draft, WritersClobber, Lives,
                  Workers, WorkedOn, Works, Busy, At
    <2>3. \A n : Led(n)' = Led(n)
      BY <1>1 DEF vars, history, Led, At
    <2>4. Leads(Foreign, 1)'
      BY <2>3 DEF IInv, Leads
    <2>5. ASSUME NEW c \in Clusters, c \notin tangled' PROVE Known(c)'
      <3>1. Known(c) /\ Typed
        BY <1>1, <2>5 DEF vars, history, IInv
      <3>2. QED
        BY <1>1, <2>3, <3>1, Elsewhere DEF vars, history
    <2>6. QED
      BY <2>1, <2>2, <2>4, <2>5 DEF IInv
  <1>2. CASE Switch
    BY <1>2, SwitchIInv
  <1>3. ASSUME NEW p \in Procs,
               Up(p) \/ Destroy(p) \/ Truncate(p) \/ Write(p) \/ Config(p) \/ Crash(p)
        PROVE  IInv'
    <2>1. CASE Up(p)
      BY <2>1, StartUpIInv, RegisterIInv, KillOldIInv, CreateIInv, ExportIInv, UpFailsIInv,
         RecordIInv, UnrecordedIInv, WarnsIInv, MergeReadIInv, FailsIInv DEF Up
    <2>2. CASE Destroy(p)
      BY <2>2, StartDestroyIInv, DeleteIInv, FailsIInv, RemoveFileIInv, MarkDestroyedIInv,
         CleanReadIInv, WarnsIInv DEF Destroy
    <2>3. CASE Config(p)
      BY <2>3, StartConfigIInv, LoadConfigIInv, EmptyConfigIInv, SaveConfigIInv DEF Config
    <2>4. QED
      BY <1>3, <2>1, <2>2, <2>3, TruncateIInv, WriteIInv, FailsIInv
  <1>4. QED
    BY <1>1, <1>2, <1>3 DEF Next

\* The invariant above holds in every reachable state: what the files, the row
\* and the commands under way know of each cluster (up, destroy, login and
\* use-context).
THEOREM FilesInvariant == Spec => []IInv
  BY InitIInv, NextIInv, PTL DEF Spec

\* The files are well formed: whatever writes of ~/.kube/config and config.yaml
\* overlap or are interrupted, neither names a current context that it does not
\* have (mergeKubeconfig, removeKubeconfigContext, RunLoginWith).
THEOREM TypeCorrect == Spec => []TypeOK
  <1>1. IInv => TypeOK
    BY DEF IInv, Typed
  <1>2. QED
    BY <1>1, FilesInvariant, PTL

\* When the last command on a cluster went through, and no write of another
\* command overlapped or died, ~/.kube/config has an entry for exactly the
\* clusters that are up, k3d's excepted, and leads to the present one; so does
\* the cluster's own file, which is gone after a destroy of a k3d or QEMU
\* cluster; and entries that are not clusterbox's survive (mergeKubeconfig,
\* removeKubeconfigContext, Destroy).
THEOREM KubeconfigTrue == Spec => []KubeconfigAgrees
  <1>1. IInv => KubeconfigAgrees
    <2> SUFFICES ASSUME IInv PROVE KubeconfigAgrees
      OBVIOUS
    <2>1. ASSUME NEW n, NEW v, Leads(n, v)
          PROVE  n \in clobbered \/ (\E p \in Procs : At(p, "write")) \/ kc.entry[n] = v
      BY <2>1 DEF Leads, Led
    <2>2. ASSUME NEW c \in Clusters, Settled(c) PROVE Agreed(c)
      BY <2>2 DEF IInv, Known, Settled
    <2>3. Leads(Foreign, 1)
      BY DEF IInv
    <2>4. QED
      BY <2>1, <2>2, <2>3 DEF KubeconfigAgrees, Agreed, Active
  <1>2. QED
    BY <1>1, FilesInvariant, PTL

\* And an active row names the provider of what runs and its node rows are the
\* nodes; without an active row nothing runs but bare-metal hosts and what a
\* Hetzner sweep warned about (recordClusterInRegistry, Provision, Destroy).
THEOREM RegistryTrue == Spec => []RegistryAgrees
  <1>1. IInv => RegistryAgrees
    <2> SUFFICES ASSUME IInv, NEW c \in Clusters, Settled(c)
                 PROVE  LET running == {prov \in Providers : world[c][prov] # Nothing}
                            mine == IF row[c].st = "active" THEN {row[c].prov} ELSE {}
                        IN /\ mine \subseteq running
                           /\ \A prov \in running \ mine : Outlives(c, prov)
                           /\ row[c].st = "active" /\ c \notin resized =>
                                row[c].nodes = 1 .. world[c][row[c].prov].size
      BY DEF RegistryAgrees
    <2>1. Agreed(c) /\ row[c].prov \in Providers
      BY DEF IInv, Known, Settled, Typed, TypeOK
    <2>2. CASE row[c].st = "active"
      BY <2>1, <2>2 DEF Agreed, Active, RunsOnly, RestGone, Runs, NodesAre
    <2>3. CASE row[c].st # "active"
      BY <2>1, <2>3 DEF Agreed, Active, AllGone, Runs
    <2>4. QED
      BY <2>2, <2>3
  <1>2. QED
    BY <1>1, FilesInvariant, PTL
=============================================================================
