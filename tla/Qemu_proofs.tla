------------------------------ MODULE Qemu_proofs ------------------------------
(***************************************************************************)
(* Proofs about the virtual machines of a QEMU cluster: for any processes, *)
(* goroutines and worker indices, and wherever a command fails or dies, no *)
(* machine runs that nobody knows of, no name stands for two machines, and *)
(* a destroy stops what was running when it began.                         *)
(***************************************************************************)
EXTENDS Qemu, TLAPS

-----------------------------------------------------------------------------
(* The inductive invariant. *)

Typed == TypeOK /\ commands \in 0 .. MaxCommands /\ faults \in 0 .. MaxFaults

UpSteps == {"prepare", "port", "launch", "pid", "bootstrap", "save", "record"}
DestroySteps == {"killWorkers", "killControlPlane", "removeFiles", "mark", "destroyed"}

\* Which command is at which step, and where its goroutines may be.
JobForm(j) ==
  /\ j.cmd = "none" => j = Idle
  /\ j.cmd = "up" => j.at \in UpSteps \cup {"workers"}
  /\ j.cmd = "add" => j.at = "workers"
  /\ j.cmd = "remove" => j.at \in {"drain", "infra"} /\ j.n # 0
  /\ j.cmd = "destroy" => j.at \in DestroySteps
  /\ j.at \in {"prepare", "port"} => j.id = 0
  /\ j.at # "workers" => \A t \in Threads : j.th[t].at \in {"off", "load"}
  /\ \A t \in Threads : LET th == j.th[t] IN
       /\ th.at \in {"off", "load", "save"} => th.id = 0
       /\ th.at = "save" => th.n = th.cs.next
       /\ th.at \in Working \cup {"save", "mkdir"} => th.n # 0 /\ th.cs # NULL

Jobs == \A p \in Procs : JobForm(job[p])

Mutex ==
  \A p \in Procs : \A t, u \in Threads :
    ThreadAt(p, t, "save") /\ ThreadAt(p, u, "save") => t = u

\* A goroutine that adds a worker, and an up that makes the control plane.
Th(p, t) == job[p].th[t]
Flying(p, t) == At(p, "workers") /\ Th(p, t).at \in Working \cup {"mkdir"}
Booting(p) == job[p].at \in {"launch", "pid", "bootstrap", "save"}

\* Its machine is yet to be launched.
Early(p, t) == Flying(p, t) /\ Th(p, t).at \in {"mkdir", "port", "launch"}

\* A number that was drawn is that of one machine, and one command's; a machine
\* joins when its goroutine is done with it.
Fresh(id) == ~Running(id) /\ \A q \in Procs : id \notin job[q].seen

Tickets ==
  /\ \A v \in vms : v.id <= tickets
  /\ \A v, w \in vms : v.id = w.id => v = w
  /\ \A q \in Procs : \A id \in job[q].seen : id <= tickets
  /\ \A p \in Procs, t \in Threads : Flying(p, t) =>
       /\ 0 < Th(p, t).id /\ Th(p, t).id <= tickets
       /\ Early(p, t) => Fresh(Th(p, t).id)
       /\ \A v \in vms : v.id = Th(p, t).id => v.node = Th(p, t).n /\ v.joined = 0
       /\ \A q \in Procs : At(q, "infra") => Th(p, t).id \notin job[q].seen
  /\ \A p \in Procs : Booting(p) =>
       /\ 0 < job[p].id /\ job[p].id <= tickets
       /\ At(p, "launch") => Fresh(job[p].id)
       /\ \A v \in vms : v.id = job[p].id => v.node = 0

Distinct ==
  /\ \A p, q \in Procs, t, u \in Threads :
       Flying(p, t) /\ Flying(q, u) /\ Th(p, t).id = Th(q, u).id => p = q /\ t = u
  /\ \A p, q \in Procs : Booting(p) /\ Booting(q) /\ job[p].id = job[q].id => p = q
  /\ \A p, q \in Procs, u \in Threads :
       Booting(p) /\ Flying(q, u) => job[p].id # Th(q, u).id

\* An index that no other run has put in doubt is one goroutine's, whose
\* directory is new.
InUse(n) ==
  \/ \E p \in Procs, t \in Threads : Flying(p, t) /\ Th(p, t).n = n
  \/ files[n].dir
  \/ \E v \in vms : v.node = n

Owned(n) ==
  /\ \A p, q \in Procs, t, u \in Threads :
       Flying(p, t) /\ Flying(q, u) /\ Th(p, t).n = n /\ Th(q, u).n = n => p = q /\ t = u
  /\ \A p \in Procs, t \in Threads : Flying(p, t) /\ Th(p, t).n = n =>
       /\ ~Early(p, t) \/ \A v \in vms : v.node # n
       /\ \A v \in vms : v.node = n => v.id = Th(p, t).id
       /\ Th(p, t).at = "mkdir" => ~files[n].dir
       /\ Th(p, t).at # "join" => files[n].pid = 0
       /\ Th(p, t).at \in {"launch", "pid"} /\ files[n].dir => files[n].port = Th(p, t).id

\* Indices are taken in order, by whoever wrote cluster.json last.
Ordered(n) ==
  InUse(n) =>
    /\ json # NULL => n < json.next
    /\ \A p \in Procs, t \in Threads :
         ThreadAt(p, t, "save") /\ writer = p => n < Th(p, t).cs.next

Indices == \A n \in Nodes \ {0} : n \notin contested => Owned(n) /\ Ordered(n)

\* The control plane of the only up.
ControlPlane ==
  0 \notin contested =>
    /\ \A p, q \in Procs : job[p].cmd = "up" /\ job[q].cmd = "up" /\ p # q =>
         At(p, "prepare") \/ At(q, "prepare")
    /\ \A p \in Procs : job[p].at \in {"port", "launch", "pid"} =>
         /\ \A v \in vms : v.node = 0 /\ v.id \notin excused => At(p, "pid") /\ v.id = job[p].id
         /\ At(p, "launch") /\ job[p].id \notin excused => files[0].port = job[p].id
         /\ At(p, "pid") /\ job[p].id \notin excused /\ Running(job[p].id) =>
              files[0].port = job[p].id

FoundAt(v) == Found(v.node) = v.id

\* Every machine can be found in its node's files, or is about to be.
Known(v) ==
  \/ Excused(v) \/ FoundAt(v)
  \/ v.node = 0 /\ \E p \in Procs : At(p, "pid") /\ v.id = job[p].id

\* The machine that joined the cluster is the one in vm.pid.
Recorded(v) ==
  Excused(v) \/
    /\ v.joined # 0 => files[v.node].pid = v.id
    /\ \A p \in Procs, t \in Threads :
         ThreadAt(p, t, "join") /\ Th(p, t).id = v.id => files[v.node].pid = v.id
    /\ \A q \in Procs : At(q, "infra") /\ v.id \in job[q].seen => files[v.node].pid = v.id

\* How far a destroy has come with the machines that ran when it began.
Stopped(v) ==
  Excused(v) \/ \A q \in Procs : job[q].cmd = "destroy" /\ v.id \in job[q].seen =>
    /\ job[q].at \in {"killWorkers", "killControlPlane"} /\ FoundAt(v)
    /\ At(q, "killControlPlane") => v.node = 0

Machines == \A v \in vms : Known(v) /\ Recorded(v) /\ Stopped(v)

IInv ==
  Typed /\ Jobs /\ Mutex /\ Tickets /\ Distinct /\ Indices /\ ControlPlane /\ Machines

-----------------------------------------------------------------------------
(* How a job changes. *)

\* What JobForm says of a goroutine.
ThreadForm(th) ==
  /\ th.at \in {"off", "load", "save"} => th.id = 0
  /\ th.at = "save" => th.n = th.cs.next
  /\ th.at \in Working \cup {"save", "mkdir"} => th.n # 0 /\ th.cs # NULL

\* The job of p becomes n, in which no goroutine is under way.
Calm(p, n) ==
  /\ n \in JobType /\ JobForm(n) /\ job' = [job EXCEPT ![p] = n]
  /\ n.at = "workers" => \A u \in Threads : n.th[u].at \in {"off", "load"}

\* Goroutine t of p becomes m.
Hop(p, t, m) ==
  /\ At(p, "workers") /\ m \in ThreadType /\ ThreadForm(m)
  /\ job' = [job EXCEPT ![p].th[t] = m]

LEMMA NodesAre == 0 \in Nodes /\ Nodes \subseteq Nat /\ 0 \notin Ids /\ Ids \subseteq Nat
  BY QemuAssumption DEF Nodes, Ids

LEMMA IdleForm == Idle \in JobType /\ JobForm(Idle) /\ Idle.at = "none" /\ Idle.seen = {}
                    /\ Idle.cmd = "none" /\ Idle.id = 0 /\ Idle.n = 0
                    /\ \A t \in Threads : Idle.th[t].at = "off" /\ Idle.th[t].id = 0
<1>1. Off \in ThreadType /\ Off.at = "off" /\ Off.id = 0
  BY NodesAre DEF Off, ThreadType
<1> QED
  BY <1>1, NodesAre DEF Idle, JobType, JobForm, UpSteps, DestroySteps, Working

LEMMA Calmly ==
  ASSUME Typed, Jobs, NEW p \in Procs, NEW n, Calm(p, n)
  PROVE  /\ job' \in [Procs -> JobType] /\ Jobs' /\ job'[p] = n
         /\ \A q \in Procs : q # p => job'[q] = job[q]
         /\ \A q \in Procs, u \in Threads :
              Flying(q, u)' => q # p /\ Flying(q, u) /\ job'[q] = job[q]
         /\ \A q \in Procs, u \in Threads :
              ThreadAt(q, u, "save")' => q # p /\ ThreadAt(q, u, "save") /\ job'[q] = job[q]
<1>1. /\ job' \in [Procs -> JobType] /\ job'[p] = n
      /\ \A q \in Procs : q # p => job'[q] = job[q]
  BY DEF Calm, Typed, TypeOK
<1>2. Jobs'
  <2> SUFFICES ASSUME NEW q \in Procs PROVE JobForm(job'[q])
    BY DEF Jobs
  <2> QED
    BY <1>1 DEF Calm, Jobs
<1>3. ASSUME NEW u \in Threads PROVE ~Flying(p, u)' /\ ~ThreadAt(p, u, "save")'
  <2>1. n.cmd = "none" => n.at = "none"
    BY IdleForm DEF Calm, JobForm
  <2> QED
    BY <1>1, <2>1 DEF Calm, Flying, Th, ThreadAt, At, Working
<1>4. ASSUME NEW q \in Procs, NEW u \in Threads, q # p
      PROVE  (Flying(q, u)' <=> Flying(q, u)) /\ (ThreadAt(q, u, "save")' <=> ThreadAt(q, u, "save"))
  BY <1>1, <1>4 DEF Flying, Th, ThreadAt, At
<1> QED
  BY <1>1, <1>2, <1>3, <1>4

LEMMA Hops ==
  ASSUME Typed, Jobs, NEW p \in Procs, NEW t \in Threads, NEW m, Hop(p, t, m)
  PROVE  /\ job' \in [Procs -> JobType] /\ Jobs' /\ job'[p].th[t] = m
         /\ \A q \in Procs : /\ job'[q].cmd = job[q].cmd /\ job'[q].at = job[q].at
                             /\ job'[q].id = job[q].id /\ job'[q].n = job[q].n
                             /\ job'[q].seen = job[q].seen
         /\ \A q \in Procs, u \in Threads :
              q # p \/ u # t => job'[q].th[u] = job[q].th[u]
<1> DEFINE n == [job[p] EXCEPT !.th[t] = m]
<1>1. job[p] \in JobType /\ job \in [Procs -> JobType] /\ m \in ThreadType
  BY DEF Typed, TypeOK, Hop
<1>2. /\ n \in JobType /\ n.cmd = job[p].cmd /\ n.at = job[p].at /\ n.id = job[p].id
      /\ n.n = job[p].n /\ n.seen = job[p].seen /\ n.th[t] = m
      /\ \A u \in Threads : u # t => n.th[u] = job[p].th[u]
  BY <1>1 DEF JobType
<1>3. job' = [job EXCEPT ![p] = n]
  BY <1>1 DEF Hop
<1>4. JobForm(n)
  <2>1. job[p].at = "workers" /\ JobForm(job[p]) /\ ThreadForm(m)
    BY DEF Hop, At, Jobs
  <2>2. \A u \in Threads : ThreadForm(n.th[u])
    BY <1>2, <2>1 DEF JobForm, ThreadForm
  <2>3. n.cmd # "none"
    BY <1>2, <2>1, IdleForm DEF JobForm
  <2> HIDE DEF n
  <2> QED
    BY <1>2, <2>1, <2>2, <2>3 DEF JobForm, ThreadForm
<1> HIDE DEF n
<1>5. /\ job' \in [Procs -> JobType] /\ job'[p] = n
      /\ \A q \in Procs : q # p => job'[q] = job[q]
  BY <1>1, <1>2, <1>3
<1>6. Jobs'
  <2> SUFFICES ASSUME NEW q \in Procs PROVE JobForm(job'[q])
    BY DEF Jobs
  <2> QED
    BY <1>4, <1>5 DEF Jobs
<1> QED
  BY <1>2, <1>5, <1>6

-----------------------------------------------------------------------------
(* What keeps the parts of the invariant, whatever the action. *)

\* No goroutine works on v, and its vm.pid is written.
Settled(v) ==
  /\ \A q \in Procs, u \in Threads : Flying(q, u)' => job'[q].th[u].id # v.id
  /\ Excused(v)' \/ files'[v.node].pid = v.id

\* No machine is new, though some may be gone, and some join or leave the cluster.
Fewer ==
  /\ \A v \in vms' : \E w \in vms :
       w.id = v.id /\ w.node = v.node /\ (w.joined = 0 => v.joined = 0 \/ Settled(v))
  /\ \A v, w \in vms' : v.id = w.id => v = w

\* No number and no index comes into use.
NoNewIds ==
  /\ \A q \in Procs, u \in Threads : Flying(q, u)' =>
       /\ Flying(q, u) /\ (Early(q, u)' => Early(q, u))
       /\ job'[q].th[u].id = job[q].th[u].id /\ job'[q].th[u].n = job[q].th[u].n
  /\ \A q \in Procs : Booting(q)' =>
       Booting(q) /\ job'[q].id = job[q].id /\ (At(q, "launch")' => At(q, "launch"))

\* What a command sees is running and no goroutine's.
SeesRunning ==
  \A q \in Procs : \A id \in job'[q].seen :
    /\ id \in job[q].seen \/ Running(id)
    /\ At(q, "infra")' => \A p \in Procs, t \in Threads : Flying(p, t) => job[p].th[t].id # id

LEMMA SubsetFewer == ASSUME Tickets, vms' \subseteq vms PROVE Fewer
  BY DEF Fewer, Tickets

LEMMA NotRunning ==
  ASSUME Fewer, NEW id, ~Running(id)
  PROVE  ~Running(id)'
  BY DEF Fewer, Running, IdsOf

LEMMA TicketsStay ==
  ASSUME Typed, Tickets, Fewer, NoNewIds, SeesRunning, tickets' = tickets
  PROVE  Tickets'
<1>1. \A v, w \in vms' : v.id = w.id => v = w
  BY DEF Fewer
<1>2. \A v \in vms' : v.id <= tickets'
  BY DEF Fewer, Tickets
<1>3. \A q \in Procs : \A id \in job'[q].seen : id <= tickets'
  BY DEF SeesRunning, Running, IdsOf, Tickets
<1>4. ASSUME NEW id, Fresh(id) PROVE Fresh(id)'
  <2>1. ~Running(id)'
    BY <1>4, NotRunning DEF Fresh
  <2>2. ASSUME NEW q \in Procs PROVE id \notin job'[q].seen
    BY <1>4 DEF Fresh, SeesRunning
  <2> QED
    BY <2>1, <2>2 DEF Fresh
<1>5. ASSUME NEW p \in Procs, NEW t \in Threads, Flying(p, t)'
      PROVE  /\ 0 < Th(p, t).id' /\ Th(p, t).id' <= tickets'
             /\ Early(p, t)' => Fresh(Th(p, t).id)'
             /\ \A v \in vms' : v.id = Th(p, t).id' => v.node = Th(p, t).n' /\ v.joined = 0
             /\ \A q \in Procs : At(q, "infra")' => Th(p, t).id' \notin job'[q].seen
  <2>1. /\ Flying(p, t) /\ (Early(p, t)' => Early(p, t))
        /\ job'[p].th[t].id = job[p].th[t].id /\ job'[p].th[t].n = job[p].th[t].n
    BY <1>5 DEF NoNewIds
  <2>2. /\ 0 < Th(p, t).id /\ Th(p, t).id <= tickets
        /\ Early(p, t) => Fresh(Th(p, t).id)
        /\ \A v \in vms : v.id = Th(p, t).id => v.node = Th(p, t).n /\ v.joined = 0
        /\ \A q \in Procs : At(q, "infra") => Th(p, t).id \notin job[q].seen
    BY <2>1 DEF Tickets
  <2>3. \A q \in Procs : At(q, "infra")' => Th(p, t).id' \notin job'[q].seen
    BY <2>1 DEF SeesRunning, Th
  <2>4. \A v \in vms' : v.id = Th(p, t).id' => v.node = Th(p, t).n' /\ v.joined = 0
    BY <2>1, <2>2, <1>5 DEF Fewer, Settled, Th
  <2>5. ASSUME Early(p, t)' PROVE Fresh(Th(p, t).id)'
    <3>1. PICK id : id = job[p].th[t].id
      OBVIOUS
    <3>2. Fresh(id)
      BY <2>1, <2>2, <2>5, <3>1 DEF Th
    <3>3. Fresh(id)'
      BY <3>2, <1>4
    <3> QED
      BY <2>1, <3>1, <3>3 DEF Th, Fresh, Running, IdsOf
  <2> QED
    BY <2>1, <2>2, <2>3, <2>4, <2>5 DEF Th
<1>6. ASSUME NEW p \in Procs, Booting(p)'
      PROVE  /\ 0 < job'[p].id /\ job'[p].id <= tickets'
             /\ At(p, "launch")' => Fresh(job[p].id)'
             /\ \A v \in vms' : v.id = job'[p].id => v.node = 0
  <2>1. Booting(p) /\ job'[p].id = job[p].id /\ (At(p, "launch")' => At(p, "launch"))
    BY <1>6 DEF NoNewIds
  <2>2. /\ 0 < job[p].id /\ job[p].id <= tickets
        /\ At(p, "launch") => Fresh(job[p].id)
        /\ \A v \in vms : v.id = job[p].id => v.node = 0
    BY <2>1 DEF Tickets
  <2>3. ASSUME At(p, "launch")' PROVE Fresh(job[p].id)'
    <3>1. PICK id : id = job[p].id
      OBVIOUS
    <3>2. Fresh(id)'
      BY <2>1, <2>2, <2>3, <3>1, <1>4
    <3> QED
      BY <2>1, <3>1, <3>2 DEF Fresh, Running, IdsOf
  <2> QED
    BY <2>1, <2>2, <2>3 DEF Fewer
<1> QED
  BY <1>1, <1>2, <1>3, <1>5, <1>6 DEF Tickets

LEMMA DistinctStays == ASSUME Distinct, NoNewIds PROVE Distinct'
<1>1. \A p, q \in Procs, t, u \in Threads :
        Flying(p, t)' /\ Flying(q, u)' /\ Th(p, t).id' = Th(q, u).id' => p = q /\ t = u
  BY DEF Distinct, NoNewIds, Th
<1>2. \A p, q \in Procs : Booting(p)' /\ Booting(q)' /\ job'[p].id = job'[q].id => p = q
  BY DEF Distinct, NoNewIds
<1>3. \A p, q \in Procs, u \in Threads : Booting(p)' /\ Flying(q, u)' => job'[p].id # Th(q, u).id'
  BY DEF Distinct, NoNewIds, Th
<1> QED
  BY <1>1, <1>2, <1>3 DEF Distinct

\* Whoever adds node n has not moved, and its directory is as it was or gone.
Untouched(n) ==
  /\ \A q \in Procs, u \in Threads : Flying(q, u)' /\ job'[q].th[u].n = n =>
       /\ Flying(q, u) /\ (Early(q, u)' => Early(q, u)) /\ job'[q].th[u] = job[q].th[u]
  /\ files'[n] = files[n] \/ files'[n] = Gone

\* No index comes into use, and none is taken from another cluster.json.
NoNewIndex ==
  /\ \A n \in Nodes \ {0} : InUse(n)' => InUse(n)
  /\ json' = json \/ json' = NULL
  /\ writer' = writer
  /\ \A q \in Procs, u \in Threads : ThreadAt(q, u, "save")' =>
       ThreadAt(q, u, "save") /\ job'[q].th[u].cs = job[q].th[u].cs

LEMMA OwnedStays ==
  ASSUME NEW n \in Nodes, Owned(n), Fewer, Untouched(n)
  PROVE  Owned(n)'
<1>1. \A q \in Procs, u \in Threads : Flying(q, u)' /\ job'[q].th[u].n = n =>
        Flying(q, u) /\ (Early(q, u)' => Early(q, u)) /\ job'[q].th[u] = job[q].th[u]
  BY DEF Untouched
<1>2. \A p, q \in Procs, t, u \in Threads :
        Flying(p, t)' /\ Flying(q, u)' /\ Th(p, t).n' = n /\ Th(q, u).n' = n => p = q /\ t = u
  BY <1>1 DEF Owned, Th
<1>3. ASSUME NEW p \in Procs, NEW t \in Threads, Flying(p, t)', Th(p, t).n' = n
      PROVE  /\ ~Early(p, t)' \/ \A v \in vms' : v.node # n
             /\ \A v \in vms' : v.node = n => v.id = Th(p, t).id'
             /\ Th(p, t).at' = "mkdir" => ~files'[n].dir
             /\ Th(p, t).at' # "join" => files'[n].pid = 0
             /\ Th(p, t).at' \in {"launch", "pid"} /\ files'[n].dir => files'[n].port = Th(p, t).id'
  <2>1. Flying(p, t) /\ (Early(p, t)' => Early(p, t)) /\ job'[p].th[t] = job[p].th[t]
    BY <1>1, <1>3 DEF Th
  <2>2. /\ ~Early(p, t) \/ \A v \in vms : v.node # n
        /\ \A v \in vms : v.node = n => v.id = Th(p, t).id
        /\ Th(p, t).at = "mkdir" => ~files[n].dir
        /\ Th(p, t).at # "join" => files[n].pid = 0
        /\ Th(p, t).at \in {"launch", "pid"} /\ files[n].dir => files[n].port = Th(p, t).id
    BY <2>1, <1>3 DEF Owned, Th
  <2>3. Th(p, t)' = Th(p, t)
    BY <2>1 DEF Th
  <2>4. ~Early(p, t)' \/ \A v \in vms' : v.node # n
    BY <2>1, <2>2 DEF Fewer
  <2>5. \A v \in vms' : v.node = n => v.id = Th(p, t).id'
    BY <2>2, <2>3 DEF Fewer
  <2>6. /\ Th(p, t).at' = "mkdir" => ~files'[n].dir
        /\ Th(p, t).at' # "join" => files'[n].pid = 0
        /\ Th(p, t).at' \in {"launch", "pid"} /\ files'[n].dir => files'[n].port = Th(p, t).id'
    BY <2>2, <2>3 DEF Untouched, Gone
  <2> QED
    BY <2>4, <2>5, <2>6
<1> QED
  BY <1>2, <1>3 DEF Owned

LEMMA OrderedStays ==
  ASSUME NEW n \in Nodes \ {0}, Ordered(n), NoNewIndex
  PROVE  Ordered(n)'
<1> SUFFICES ASSUME InUse(n)'
             PROVE  /\ json' # NULL => n < json'.next
                    /\ \A p \in Procs, t \in Threads :
                         ThreadAt(p, t, "save")' /\ writer' = p => n < job'[p].th[t].cs.next
  BY DEF Ordered, Th
<1>1. /\ json # NULL => n < json.next
      /\ \A p \in Procs, t \in Threads :
           ThreadAt(p, t, "save") /\ writer = p => n < job[p].th[t].cs.next
  BY DEF Ordered, NoNewIndex, Th
<1> QED
  BY <1>1 DEF NoNewIndex

LEMMA IndicesStay ==
  ASSUME Indices, Fewer, contested \subseteq contested', NoNewIndex,
         \A n \in Nodes \ {0} : Untouched(n)
  PROVE  Indices'
<1> SUFFICES ASSUME NEW n \in Nodes \ {0}, n \notin contested'
             PROVE  Owned(n)' /\ Ordered(n)'
  BY DEF Indices
<1>1. Owned(n) /\ Ordered(n)
  BY DEF Indices
<1> QED
  BY <1>1, OwnedStays, OrderedStays

LEMMA InUseStays ==
  ASSUME NEW n \in Nodes, Fewer, InUse(n)',
         \A q \in Procs, u \in Threads : Flying(q, u)' =>
           Flying(q, u) /\ job'[q].th[u].n = job[q].th[u].n,
         files'[n].dir => InUse(n)
  PROVE  InUse(n)
<1>1. CASE \E q \in Procs, u \in Threads : Flying(q, u)' /\ job'[q].th[u].n = n
  BY <1>1 DEF InUse, Th
<1>2. CASE \E v \in vms' : v.node = n
  BY <1>2 DEF InUse, Fewer
<1> QED
  BY <1>1, <1>2 DEF InUse, Th

\* No up begins its work, and the files of the control plane stay.
ControlKept ==
  /\ \A q \in Procs : job'[q].cmd = "up" =>
       At(q, "prepare")' \/ (job[q].cmd = "up" /\ ~At(q, "prepare"))
  /\ \A q \in Procs : job'[q].at \in {"port", "launch", "pid"} =>
       job'[q].at = job[q].at /\ job'[q].id = job[q].id
  /\ files'[0].port = files[0].port

LEMMA ControlPlaneStays ==
  ASSUME ControlPlane, Fewer, ControlKept, contested \subseteq contested',
         excused \subseteq excused'
  PROVE  ControlPlane'
<1> SUFFICES ASSUME 0 \notin contested'
             PROVE  /\ \A p, q \in Procs : job'[p].cmd = "up" /\ job'[q].cmd = "up" /\ p # q =>
                         At(p, "prepare")' \/ At(q, "prepare")'
                    /\ \A p \in Procs : job'[p].at \in {"port", "launch", "pid"} =>
                         /\ \A v \in vms' : v.node = 0 /\ v.id \notin excused' =>
                              At(p, "pid")' /\ v.id = job'[p].id
                         /\ At(p, "launch")' /\ job'[p].id \notin excused' => files'[0].port = job'[p].id
                         /\ At(p, "pid")' /\ job'[p].id \notin excused' /\ Running(job[p].id)' =>
                              files'[0].port = job'[p].id
  BY DEF ControlPlane
<1>1. \A p, q \in Procs : job'[p].cmd = "up" /\ job'[q].cmd = "up" /\ p # q =>
        At(p, "prepare")' \/ At(q, "prepare")'
  BY DEF ControlPlane, ControlKept
<1>2. ASSUME NEW p \in Procs, job'[p].at \in {"port", "launch", "pid"}
      PROVE  /\ \A v \in vms' : v.node = 0 /\ v.id \notin excused' =>
                  At(p, "pid")' /\ v.id = job'[p].id
             /\ At(p, "launch")' /\ job'[p].id \notin excused' => files'[0].port = job'[p].id
             /\ At(p, "pid")' /\ job'[p].id \notin excused' /\ Running(job[p].id)' =>
                  files'[0].port = job'[p].id
  <2>1. job'[p].at = job[p].at /\ job'[p].id = job[p].id
    BY <1>2 DEF ControlKept
  <2>2. /\ \A v \in vms : v.node = 0 /\ v.id \notin excused => At(p, "pid") /\ v.id = job[p].id
        /\ At(p, "launch") /\ job[p].id \notin excused => files[0].port = job[p].id
        /\ At(p, "pid") /\ job[p].id \notin excused /\ Running(job[p].id) =>
             files[0].port = job[p].id
    BY <2>1, <1>2 DEF ControlPlane
  <2>3. \A v \in vms' : v.node = 0 /\ v.id \notin excused' => At(p, "pid")' /\ v.id = job'[p].id
    BY <2>1, <2>2 DEF Fewer, At
  <2>4. Running(job[p].id)' => Running(job[p].id)
    BY <2>1 DEF Fewer, Running, IdsOf
  <2> QED
    BY <2>1, <2>2, <2>3, <2>4 DEF ControlKept, At
<1> QED
  BY <1>1, <1>2

\* No command relies on more files than it did, or those are there.
NoNewSight ==
  /\ \A q \in Procs, u \in Threads : ThreadAt(q, u, "join")' =>
       \/ ThreadAt(q, u, "join") /\ job'[q].th[u].id = job[q].th[u].id
       \/ \A v \in vms' : v.id = job'[q].th[u].id => Excused(v)' \/ files'[v.node].pid = v.id
  /\ \A q \in Procs : At(q, "infra")' => At(q, "infra") /\ job'[q].seen = job[q].seen

NoNewClaim ==
  /\ NoNewSight
  /\ \A q \in Procs : job'[q].cmd = "destroy" =>
       \/ job'[q].seen = {}
       \/ job[q].cmd = "destroy" /\ job'[q].at = job[q].at /\ job'[q].seen = job[q].seen

\* The files that lead to v still do.
StillThere(v) ==
  /\ files[v.node].pid = v.id => files'[v.node].pid = v.id
  /\ Found(v.node) = v.id => Found(v.node)' = v.id

Grow == contested \subseteq contested' /\ excused \subseteq excused'

LEMMA KnownStays ==
  ASSUME NEW v, NEW w, w.id = v.id, w.node = v.node, Known(w), Grow, Excused(v)' \/ StillThere(v),
         \A q \in Procs : At(q, "pid") /\ v.node = 0 /\ v.id = job[q].id /\ ~Excused(v)' =>
           (At(q, "pid")' /\ job'[q].id = job[q].id) \/ FoundAt(v)'
  PROVE  Known(v)'
  BY DEF Known, Grow, Excused, StillThere, FoundAt

LEMMA RecordedStays ==
  ASSUME NEW v \in vms', NEW w, w.id = v.id, w.node = v.node, Recorded(w), Grow, Excused(v)' \/ StillThere(v),
         NoNewSight, w.joined = 0 => v.joined = 0 \/ Settled(v)
  PROVE  Recorded(v)'
<1> SUFFICES ASSUME ~Excused(v)'
             PROVE  /\ v.joined # 0 => files'[v.node].pid = v.id
                    /\ \A p \in Procs, t \in Threads :
                         ThreadAt(p, t, "join")' /\ job'[p].th[t].id = v.id => files'[v.node].pid = v.id
                    /\ \A q \in Procs : At(q, "infra")' /\ v.id \in job'[q].seen => files'[v.node].pid = v.id
  BY DEF Recorded, Th
<1>1. ~Excused(w)
  BY DEF Excused, Grow
<1>2. /\ w.joined # 0 => files[w.node].pid = w.id
      /\ \A p \in Procs, t \in Threads :
           ThreadAt(p, t, "join") /\ job[p].th[t].id = w.id => files[w.node].pid = w.id
      /\ \A q \in Procs : At(q, "infra") /\ w.id \in job[q].seen => files[w.node].pid = w.id
  BY <1>1 DEF Recorded, Th
<1> QED
  BY <1>2 DEF StillThere, NoNewSight, Settled

LEMMA StoppedStays ==
  ASSUME NEW v, NEW w, w.id = v.id, w.node = v.node, Stopped(w), Grow, Excused(v)' \/ StillThere(v),
         NoNewClaim
  PROVE  Stopped(v)'
<1> SUFFICES ASSUME ~Excused(v)', NEW q \in Procs, job'[q].cmd = "destroy", v.id \in job'[q].seen
             PROVE  /\ job'[q].at \in {"killWorkers", "killControlPlane"} /\ FoundAt(v)'
                    /\ At(q, "killControlPlane")' => v.node = 0
  BY DEF Stopped
<1>1. ~Excused(w)
  BY DEF Excused, Grow
<1>2. job[q].cmd = "destroy" /\ job'[q].at = job[q].at /\ job'[q].seen = job[q].seen
  BY DEF NoNewClaim
<1>3. /\ job[q].at \in {"killWorkers", "killControlPlane"} /\ FoundAt(w)
      /\ At(q, "killControlPlane") => w.node = 0
  BY <1>1, <1>2 DEF Stopped
<1> QED
  BY <1>2, <1>3 DEF StillThere, FoundAt, At

LEMMA MachinesStay ==
  ASSUME Machines, Fewer, Grow, NoNewClaim, \A v \in vms' : Excused(v)' \/ StillThere(v),
         \A v \in vms' : \A q \in Procs :
           At(q, "pid") /\ v.node = 0 /\ v.id = job[q].id /\ ~Excused(v)' =>
             (At(q, "pid")' /\ job'[q].id = job[q].id) \/ FoundAt(v)'
  PROVE  Machines'
<1> SUFFICES ASSUME NEW v \in vms' PROVE Known(v)' /\ Recorded(v)' /\ Stopped(v)'
  BY DEF Machines
<1>1. PICK w \in vms :
        w.id = v.id /\ w.node = v.node /\ (w.joined = 0 => v.joined = 0 \/ Settled(v))
  BY DEF Fewer
<1>2. Known(w) /\ Recorded(w) /\ Stopped(w)
  BY DEF Machines
<1>3. Known(v)'
  BY <1>1, <1>2, KnownStays
<1>4. Recorded(v)'
  BY <1>1, <1>2, RecordedStays DEF NoNewClaim
<1>5. Stopped(v)'
  BY <1>1, <1>2, StoppedStays
<1> QED
  BY <1>3, <1>4, <1>5

-----------------------------------------------------------------------------
(* A command takes a step of its own, none of its goroutines under way. *)

Steps ==
  {"none", "prepare", "port", "launch", "pid", "bootstrap", "save", "record", "workers",
   "drain", "infra", "killWorkers", "killControlPlane", "removeFiles", "mark", "destroyed"}

LEMMA Goes ==
  ASSUME Typed, NEW p \in Procs, NEW s \in Steps, Goto(p, s)
  PROVE  \E n \in JobType :
           /\ job' = [job EXCEPT ![p] = n] /\ n.at = s /\ n.cmd = job[p].cmd /\ n.id = job[p].id
           /\ n.n = job[p].n /\ n.seen = job[p].seen /\ n.th = job[p].th
<1> DEFINE n == [job[p] EXCEPT !.at = s]
<1>1. job \in [Procs -> JobType] /\ job[p] \in JobType
  BY DEF Typed, TypeOK
<1>2. n \in JobType
  BY <1>1 DEF JobType, Steps
<1>3. /\ job' = [job EXCEPT ![p] = n] /\ n.at = s /\ n.cmd = job[p].cmd /\ n.id = job[p].id
      /\ n.n = job[p].n /\ n.seen = job[p].seen /\ n.th = job[p].th
  BY <1>1 DEF Goto, JobType
<1> QED
  BY <1>2, <1>3

LEMMA Ends == ASSUME Typed, NEW p \in Procs, End(p) PROVE Calm(p, Idle)
  BY IdleForm DEF End, Calm

LEMMA NoSteps == ASSUME NEW j \in JobType, JobForm(j)
                 PROVE  /\ j.at \in {"drain", "infra"} => j.cmd = "remove"
                        /\ j.at \in UpSteps => j.cmd = "up"
                        /\ j.at \in DestroySteps <=> j.cmd = "destroy"
                        /\ j.cmd = "none" => j.at = "none"
                        /\ j.at = "none" => j.cmd = "none"
                        /\ j.at = "workers" => j.cmd \in {"up", "add"}
  BY IdleForm DEF JobForm, JobType, UpSteps, DestroySteps

LEMMA MutexCalm ==
  ASSUME Typed, Jobs, Mutex, NEW p \in Procs, NEW n, Calm(p, n)
  PROVE  Mutex'
<1>1. \A q \in Procs, u \in Threads : ThreadAt(q, u, "save")' => ThreadAt(q, u, "save")
  BY Calmly
<1> QED
  BY <1>1 DEF Mutex

\* An up goes on with the machine it has.
BootsAs(n, j) ==
  n.at \in {"launch", "pid", "bootstrap", "save"} =>
    /\ j.at \in {"launch", "pid", "bootstrap", "save"} /\ n.id = j.id
    /\ n.at = "launch" => j.at = "launch"

LEMMA CalmIds ==
  ASSUME Typed, Jobs, NEW p \in Procs, NEW n, Calm(p, n), BootsAs(n, job[p])
  PROVE  NoNewIds
<1>1. \A q \in Procs, u \in Threads : Flying(q, u)' => Flying(q, u) /\ job'[q] = job[q]
  BY Calmly
<1>2. \A q \in Procs, u \in Threads : Flying(q, u)' => (Early(q, u)' => Early(q, u))
  BY <1>1 DEF Early, Th
<1>3. \A q \in Procs : q # p => job'[q] = job[q]
  BY Calmly
<1>4. job'[p] = n
  BY Calmly
<1>5. ASSUME NEW q \in Procs, Booting(q)'
      PROVE  Booting(q) /\ job'[q].id = job[q].id /\ (At(q, "launch")' => At(q, "launch"))
  BY <1>3, <1>4, <1>5 DEF Booting, At, BootsAs
<1> QED
  BY <1>1, <1>2, <1>5 DEF NoNewIds

LEMMA CalmSees ==
  ASSUME Typed, Jobs, Tickets, NEW p \in Procs, NEW n, Calm(p, n),
         n.seen \subseteq job[p].seen, n.at # "infra"
  PROVE  SeesRunning
<1>1. job'[p] = n /\ \A q \in Procs : q # p => job'[q] = job[q]
  BY Calmly
<1>2. ASSUME NEW q \in Procs, NEW id \in job'[q].seen
      PROVE  id \in job[q].seen
  BY <1>1, <1>2
<1>3. ASSUME NEW q \in Procs, NEW id \in job'[q].seen, At(q, "infra")', NEW r \in Procs, NEW t \in Threads,
             Flying(r, t)
      PROVE  job[r].th[t].id # id
  <2>1. At(q, "infra") /\ id \in job[q].seen
    BY <1>1, <1>3 DEF At
  <2> QED
    BY <2>1, <1>3 DEF Tickets, Th
<1> QED
  BY <1>2, <1>3 DEF SeesRunning

LEMMA TicketsCalm ==
  ASSUME Typed, Jobs, Tickets, Distinct, NEW p \in Procs, NEW n, Calm(p, n), BootsAs(n, job[p]),
         n.seen \subseteq job[p].seen, n.at # "infra", Fewer, tickets' = tickets
  PROVE  Tickets' /\ Distinct'
<1>1. NoNewIds
  BY CalmIds
<1>2. SeesRunning
  BY CalmSees
<1> QED
  BY <1>1, <1>2, TicketsStay, DistinctStays

LEMMA CalmUntouched ==
  ASSUME Typed, Jobs, NEW p \in Procs, NEW n, Calm(p, n), NEW k \in Nodes,
         files'[k] = files[k] \/ files'[k] = Gone
  PROVE  Untouched(k)
<1>1. \A q \in Procs, u \in Threads : Flying(q, u)' => Flying(q, u) /\ job'[q] = job[q]
  BY Calmly
<1> QED
  BY <1>1 DEF Untouched, Early, Th

LEMMA IndicesCalm ==
  ASSUME Typed, Jobs, Indices, NEW p \in Procs, NEW n, Calm(p, n), Fewer,
         contested \subseteq contested', json' = json \/ json' = NULL, writer' = writer,
         \A k \in Nodes \ {0} : files'[k] = files[k] \/ files'[k] = Gone
  PROVE  Indices'
<1>1. \A k \in Nodes \ {0} : Untouched(k)
  BY CalmUntouched
<1>2. \A q \in Procs, u \in Threads : Flying(q, u)' => Flying(q, u) /\ job'[q] = job[q]
  BY Calmly
<1>3. ASSUME NEW k \in Nodes \ {0}, InUse(k)' PROVE InUse(k)
  <2>1. files'[k].dir => InUse(k)
    BY DEF InUse, Gone
  <2> QED
    BY <1>2, <1>3, <2>1, InUseStays
<1>4. \A q \in Procs, u \in Threads : ThreadAt(q, u, "save")' =>
        ThreadAt(q, u, "save") /\ job'[q] = job[q]
  BY Calmly
<1>5. NoNewIndex
  BY <1>3, <1>4 DEF NoNewIndex
<1> QED
  BY <1>1, <1>5, IndicesStay

\* An up keeps its place, or begins.
UpsAs(n, j) ==
  /\ n.cmd = "up" => n.at = "prepare" \/ (j.cmd = "up" /\ j.at # "prepare")
  /\ n.at \in {"port", "launch", "pid"} => n.at = j.at /\ n.id = j.id

LEMMA ControlCalm ==
  ASSUME Typed, Jobs, ControlPlane, NEW p \in Procs, NEW n, Calm(p, n), UpsAs(n, job[p]), Fewer,
         contested \subseteq contested', excused \subseteq excused', files'[0].port = files[0].port
  PROVE  ControlPlane'
<1>1. job'[p] = n /\ \A q \in Procs : q # p => job'[q] = job[q]
  BY Calmly
<1>2. ControlKept
  <2>1. \A q \in Procs : job'[q].cmd = "up" =>
          At(q, "prepare")' \/ (job[q].cmd = "up" /\ ~At(q, "prepare"))
    BY <1>1 DEF UpsAs, At
  <2>2. \A q \in Procs : job'[q].at \in {"port", "launch", "pid"} =>
          job'[q].at = job[q].at /\ job'[q].id = job[q].id
    BY <1>1 DEF UpsAs
  <2> QED
    BY <2>1, <2>2 DEF ControlKept
<1> QED
  BY <1>2, ControlPlaneStays

LEMMA ClaimsCalm ==
  ASSUME Typed, Jobs, NEW p \in Procs, NEW n, Calm(p, n), n.at # "infra",
         n.cmd = "destroy" => n.seen = {}
  PROVE  NoNewClaim
<1>1. job'[p] = n /\ \A q \in Procs : q # p => job'[q] = job[q]
  BY Calmly
<1>2. \A q \in Procs, u \in Threads : Flying(q, u)' => Flying(q, u) /\ job'[q] = job[q]
  BY Calmly
<1>3. \A q \in Procs, u \in Threads : ThreadAt(q, u, "join")' =>
        ThreadAt(q, u, "join") /\ job'[q].th[u].id = job[q].th[u].id
  BY <1>2 DEF Flying, ThreadAt, Th, At, Working
<1> QED
  BY <1>1, <1>3 DEF NoNewClaim, NoNewSight, At

LEMMA MachinesCalm ==
  ASSUME Typed, Jobs, Machines, NEW p \in Procs, NEW n, Calm(p, n), n.at # "infra",
         n.cmd = "destroy" => n.seen = {}, Fewer, Grow,
         \A v \in vms' : Excused(v)' \/ StillThere(v),
         At(p, "pid") => \A v \in vms' : v.node = 0 /\ v.id = job[p].id => Excused(v)' \/ FoundAt(v)'
  PROVE  Machines'
<1>1. NoNewClaim
  BY ClaimsCalm
<1>2. \A q \in Procs : q # p => job'[q] = job[q]
  BY Calmly
<1>3. \A v \in vms' : \A q \in Procs :
        At(q, "pid") /\ v.node = 0 /\ v.id = job[q].id /\ ~Excused(v)' =>
          (At(q, "pid")' /\ job'[q].id = job[q].id) \/ FoundAt(v)'
  BY <1>2 DEF At
<1> QED
  BY <1>1, <1>3, MachinesStay

-----------------------------------------------------------------------------
(* Commands begin and end. *)

LEMMA StepTyped ==
  ASSUME Typed, job' \in [Procs -> JobType], Mutex',
         files' = files \/ files' = NoFiles
           \/ \E k \in Nodes, id \in {0} \cup Ids :
                \/ files' = [files EXCEPT ![k] = Gone]
                \/ files[k].dir /\ files' = [files EXCEPT ![k].port = id]
                \/ files[k].dir /\ files' = [files EXCEPT ![k].pid = id],
         json' \in {NULL} \cup [next : 1 .. MaxIdx + 1, cp : Ids],
         vms' \in SUBSET VMs, kubeconfig' \in {0} \cup Ids,
         row' \in {"none", "active", "destroyed"}, tickets' \in 0 .. MaxVMs,
         contested' \in SUBSET Nodes, excused' \in SUBSET Ids, writer' \in {NULL} \cup Procs,
         commands' \in 0 .. MaxCommands, faults' \in 0 .. MaxFaults
  PROVE  Typed'
<1>1. /\ files' \in [Nodes -> [dir : BOOLEAN, port : {0} \cup Ids, pid : {0} \cup Ids]]
      /\ \A n \in Nodes : ~files'[n].dir => files'[n] = Gone
  <2>1. /\ files \in [Nodes -> [dir : BOOLEAN, port : {0} \cup Ids, pid : {0} \cup Ids]]
        /\ \A n \in Nodes : ~files[n].dir => files[n] = Gone
    BY DEF Typed, TypeOK
  <2>2. CASE files' = NoFiles
    BY <2>2 DEF NoFiles, Gone
  <2>3. ASSUME NEW k \in Nodes, files' = [files EXCEPT ![k] = Gone]
        PROVE  /\ files' \in [Nodes -> [dir : BOOLEAN, port : {0} \cup Ids, pid : {0} \cup Ids]]
               /\ \A n \in Nodes : ~files'[n].dir => files'[n] = Gone
    BY <2>1, <2>3 DEF Gone
  <2>4. ASSUME NEW k \in Nodes, NEW id \in {0} \cup Ids, files[k].dir,
               files' = [files EXCEPT ![k].port = id]
        PROVE  /\ files' \in [Nodes -> [dir : BOOLEAN, port : {0} \cup Ids, pid : {0} \cup Ids]]
               /\ \A n \in Nodes : ~files'[n].dir => files'[n] = Gone
    BY <2>1, <2>4
  <2>5. ASSUME NEW k \in Nodes, NEW id \in {0} \cup Ids, files[k].dir,
               files' = [files EXCEPT ![k].pid = id]
        PROVE  /\ files' \in [Nodes -> [dir : BOOLEAN, port : {0} \cup Ids, pid : {0} \cup Ids]]
               /\ \A n \in Nodes : ~files'[n].dir => files'[n] = Gone
    BY <2>1, <2>5
  <2> QED
    BY <2>1, <2>2, <2>3, <2>4, <2>5
<1>2. \A p \in Procs : \A t, u \in Threads :
        ThreadAt(p, t, "save")' /\ ThreadAt(p, u, "save")' => t = u
  BY DEF Mutex
<1> QED
  BY <1>1, <1>2 DEF Typed, TypeOK

\* What an action that only moves its command leaves alone.
Elsewhere ==
  /\ files' = files /\ json' = json /\ vms' = vms /\ kubeconfig' \in {0} \cup Ids
  /\ row' \in {"none", "active", "destroyed"} /\ tickets' = tickets
  /\ contested' = contested /\ excused' = excused /\ writer' = writer
  /\ commands' \in 0 .. MaxCommands /\ faults' \in 0 .. MaxFaults

LEMMA Stay == ASSUME files' = files PROVE \A v : StillThere(v)
  BY DEF StillThere, Found

LEMMA PlainStep ==
  ASSUME IInv, NEW p \in Procs, NEW n, Calm(p, n), Elsewhere, BootsAs(n, job[p]), UpsAs(n, job[p]),
         n.seen \subseteq job[p].seen, n.at # "infra", n.cmd = "destroy" => n.seen = {},
         ~At(p, "pid")
  PROVE  IInv'
<1> USE DEF IInv
<1>1. job' \in [Procs -> JobType] /\ Jobs'
  BY Calmly
<1>2. Mutex'
  BY MutexCalm
<1>3. Typed'
  <2>1. /\ json \in {NULL} \cup [next : 1 .. MaxIdx + 1, cp : Ids] /\ vms \in SUBSET VMs
        /\ tickets \in 0 .. MaxVMs /\ contested \in SUBSET Nodes /\ excused \in SUBSET Ids
        /\ writer \in {NULL} \cup Procs
    BY DEF Typed, TypeOK
  <2> QED
    BY <1>1, <1>2, <2>1, StepTyped DEF Elsewhere
<1>4. Fewer
  BY SubsetFewer DEF Elsewhere
<1>5. Tickets' /\ Distinct'
  BY <1>4, TicketsCalm DEF Elsewhere
<1>6. Indices'
  BY <1>4, IndicesCalm DEF Elsewhere
<1>7. ControlPlane'
  BY <1>4, ControlCalm DEF Elsewhere
<1>8. Machines'
  BY <1>4, Stay, MachinesCalm DEF Elsewhere, Grow
<1> QED
  BY <1>1, <1>2, <1>3, <1>5, <1>6, <1>7, <1>8

LEMMA Counters == ASSUME Typed PROVE /\ commands < MaxCommands => commands + 1 \in 0 .. MaxCommands
                                     /\ faults < MaxFaults => faults + 1 \in 0 .. MaxFaults
                                     /\ commands \in 0 .. MaxCommands /\ faults \in 0 .. MaxFaults
                                     /\ kubeconfig \in {0} \cup Ids
                                     /\ row \in {"none", "active", "destroyed"}
  BY QemuAssumption DEF Typed, TypeOK

LEMMA WantedForm ==
  ASSUME NEW T \in SUBSET Threads
  PROVE  /\ Wanted(T) \in [Threads -> ThreadType]
         /\ \A t \in Threads : Wanted(T)[t].at \in {"off", "load"} /\ Wanted(T)[t].id = 0
<1>1. Off \in ThreadType /\ Off.at = "off" /\ Off.id = 0
  BY NodesAre DEF Off, ThreadType
<1>2. [Off EXCEPT !.at = "load"] \in ThreadType /\ [Off EXCEPT !.at = "load"].at = "load"
      /\ [Off EXCEPT !.at = "load"].id = 0
  BY NodesAre DEF Off, ThreadType
<1> QED
  BY <1>1, <1>2 DEF Wanted

LEMMA StartStep ==
  ASSUME IInv, NEW p \in Procs, NEW n, n \in JobType, JobForm(n), Start(p, n),
         n.at \in {"prepare", "workers", "drain"}, n.seen = {}, n.cmd # "destroy",
         n.at = "workers" => n.cmd = "add" /\ \A t \in Threads : n.th[t].at \in {"off", "load"}
  PROVE  IInv'
<1>1. Calm(p, n)
  BY DEF Calm, Start
<1>2. Elsewhere
  BY Counters DEF Start, Elsewhere, history, IInv
<1>3. job[p].cmd = "none" /\ ~At(p, "pid")
  BY IdleForm DEF Start, Busy, IInv, Jobs, JobForm, At
<1>4. n.at # "prepare" => n.cmd # "up"
  BY NoSteps DEF UpSteps
<1>5. BootsAs(n, job[p]) /\ UpsAs(n, job[p])
  BY <1>4 DEF BootsAs, UpsAs
<1> QED
  BY <1>1, <1>2, <1>3, <1>5, PlainStep

LEMMA StartUpIInv == ASSUME IInv, NEW p \in Procs, StartUp(p) PROVE IInv'
<1>1. PICK T \in SUBSET Threads :
        Start(p, [Idle EXCEPT !.cmd = "up", !.at = "prepare", !.th = Wanted(T)])
  BY DEF StartUp
<1>2. PICK n : n = [Idle EXCEPT !.cmd = "up", !.at = "prepare", !.th = Wanted(T)]
  OBVIOUS
<1>3. n \in JobType /\ n.cmd = "up" /\ n.at = "prepare" /\ n.seen = {} /\ n.th = Wanted(T) /\ n.id = 0
  BY <1>2, IdleForm, WantedForm DEF JobType
<1>4. JobForm(n)
  BY <1>3, WantedForm DEF JobForm, UpSteps, Working
<1> QED
  BY <1>1, <1>2, <1>3, <1>4, StartStep

LEMMA StartAddIInv == ASSUME IInv, NEW p \in Procs, StartAdd(p) PROVE IInv'
<1>1. PICK T \in SUBSET Threads :
        Start(p, [Idle EXCEPT !.cmd = "add", !.at = "workers", !.th = Wanted(T)])
  BY DEF StartAdd
<1>2. PICK n : n = [Idle EXCEPT !.cmd = "add", !.at = "workers", !.th = Wanted(T)]
  OBVIOUS
<1>3. n \in JobType /\ n.cmd = "add" /\ n.at = "workers" /\ n.seen = {} /\ n.th = Wanted(T)
  BY <1>2, IdleForm, WantedForm DEF JobType
<1>4. JobForm(n)
  BY <1>3, WantedForm DEF JobForm, Working
<1> QED
  BY <1>1, <1>2, <1>3, <1>4, WantedForm, StartStep

LEMMA StartRemoveIInv == ASSUME IInv, NEW p \in Procs, StartRemove(p) PROVE IInv'
<1>1. PICK k \in Nodes \ {0} :
        Start(p, [Idle EXCEPT !.cmd = "remove", !.at = "drain", !.n = k,
                              !.id = IF row = "none" THEN 0 ELSE 1])
  BY DEF StartRemove
<1>2. PICK n : n = [Idle EXCEPT !.cmd = "remove", !.at = "drain", !.n = k,
                                !.id = IF row = "none" THEN 0 ELSE 1]
  OBVIOUS
<1>3. 0 \in {0} \cup Ids /\ 1 \in {0} \cup Ids
  BY QemuAssumption DEF Ids
<1>4. /\ n \in JobType /\ n.cmd = "remove" /\ n.at = "drain" /\ n.seen = {} /\ n.th = Idle.th
      /\ n.n # 0
  BY <1>2, <1>3, IdleForm DEF JobType
<1>5. JobForm(n)
  BY <1>4, IdleForm DEF JobForm, Working
<1> QED
  BY <1>1, <1>2, <1>4, <1>5, StartStep

LEMMA EndStep ==
  ASSUME IInv, NEW p \in Procs, End(p), Elsewhere, ~At(p, "pid")
  PROVE  IInv'
<1>1. Calm(p, Idle)
  BY Ends DEF IInv
<1>2. BootsAs(Idle, job[p]) /\ UpsAs(Idle, job[p])
  BY IdleForm DEF BootsAs, UpsAs
<1> QED
  BY <1>1, <1>2, IdleForm, PlainStep

LEMMA EndsIInv ==
  ASSUME IInv, NEW p \in Procs, WorkersEnd(p) \/ DeleteNodeFails(p) \/ DestroyEnds(p)
  PROVE  IInv'
<1>1. Elsewhere /\ End(p) /\ ~At(p, "pid")
  BY Counters DEF WorkersEnd, DeleteNodeFails, DestroyEnds, Elsewhere, Same, NoFault, history, IInv, At
<1> QED
  BY <1>1, EndStep

-----------------------------------------------------------------------------
(* up. *)

LEMMA UpPrepareIInv == ASSUME IInv, NEW p \in Procs, UpPrepare(p) PROVE IInv'
<1> USE DEF IInv
<1>1. PICK n \in JobType :
        /\ job' = [job EXCEPT ![p] = n] /\ n.at = "port" /\ n.cmd = job[p].cmd /\ n.id = job[p].id
        /\ n.n = job[p].n /\ n.seen = job[p].seen /\ n.th = job[p].th
  BY Goes DEF UpPrepare, Steps
<1>2. /\ job[p].at = "prepare" /\ job[p].cmd = "up" /\ JobForm(job[p]) /\ ~At(p, "pid")
      /\ job[p] \in JobType
  BY NoSteps DEF UpPrepare, At, Jobs, UpSteps, Typed, TypeOK
<1>3. JobForm(n)
  BY <1>1, <1>2 DEF JobForm, UpSteps
<1>4. Calm(p, n)
  BY <1>1, <1>3 DEF Calm
<1>5. /\ files' = [files EXCEPT ![0].dir = TRUE] /\ vms' = Killed(files[0].pid)
      /\ json' = json /\ tickets' = tickets /\ writer' = writer /\ kubeconfig' = kubeconfig
      /\ row' = row /\ commands' = commands /\ faults' = faults
      /\ contested \subseteq contested' /\ contested' \subseteq contested \cup {0}
      /\ excused \subseteq excused' /\ excused' \subseteq excused \cup IdsOf(vms')
      /\ files[0].dir => IdsOf(vms') \subseteq excused'
      /\ (\E q \in Procs \ {p} : job[q].cmd = "up") => 0 \in contested'
  BY DEF UpPrepare, Same, NoFault
<1>6. files \in [Nodes -> [dir : BOOLEAN, port : {0} \cup Ids, pid : {0} \cup Ids]]
      /\ (\A k \in Nodes : ~files[k].dir => files[k] = Gone)
  BY DEF Typed, TypeOK
<1>7. vms' \subseteq vms /\ Fewer
  BY <1>5, SubsetFewer DEF Killed
<1>8. job' \in [Procs -> JobType] /\ Jobs' /\ job'[p] = n /\ \A q \in Procs : q # p => job'[q] = job[q]
  BY <1>4, Calmly
<1>9. Mutex'
  BY <1>4, MutexCalm
<1>10. Typed'
  <2>1. /\ files' \in [Nodes -> [dir : BOOLEAN, port : {0} \cup Ids, pid : {0} \cup Ids]]
        /\ \A k \in Nodes : ~files'[k].dir => files'[k] = Gone
    BY <1>5, <1>6, NodesAre
  <2>2. contested' \in SUBSET Nodes /\ excused' \in SUBSET Ids /\ vms' \in SUBSET VMs
    BY <1>5, <1>7, NodesAre DEF Typed, TypeOK, IdsOf, VMs
  <2> QED
    BY <1>5, <1>8, <1>9, <2>1, <2>2 DEF Typed, TypeOK, Mutex
<1>11. Tickets' /\ Distinct'
  <2>1. BootsAs(n, job[p])
    BY <1>1 DEF BootsAs
  <2> QED
    BY <1>1, <1>4, <1>5, <1>7, <2>1, TicketsCalm
<1>12. \A k \in Nodes : files'[k].pid = files[k].pid /\ files'[k].port = files[k].port
                        /\ (k # 0 => files'[k] = files[k])
  BY <1>5, <1>6
<1>13. Indices'
  BY <1>4, <1>5, <1>7, <1>12, IndicesCalm
<1>14. \A v \in vms' : StillThere(v)
  <2>1. \A v \in vms' : v.node \in Nodes
    BY <1>7 DEF Typed, TypeOK, VMs
  <2> QED
    BY <2>1, <1>12 DEF StillThere, Found
<1>15. Machines'
  BY <1>1, <1>2, <1>4, <1>5, <1>7, <1>14, MachinesCalm DEF Grow
<1>16. ControlPlane'
  <2> SUFFICES ASSUME 0 \notin contested'
               PROVE  /\ \A r, q \in Procs : job'[r].cmd = "up" /\ job'[q].cmd = "up" /\ r # q =>
                           At(r, "prepare")' \/ At(q, "prepare")'
                      /\ \A q \in Procs : job'[q].at \in {"port", "launch", "pid"} =>
                           /\ \A v \in vms' : v.node = 0 /\ v.id \notin excused' =>
                                At(q, "pid")' /\ v.id = job'[q].id
                           /\ At(q, "launch")' /\ job'[q].id \notin excused' => files'[0].port = job'[q].id
                           /\ At(q, "pid")' /\ job'[q].id \notin excused' /\ Running(job[q].id)' =>
                                files'[0].port = job'[q].id
    BY DEF ControlPlane
  <2>1. \A q \in Procs : q # p => job'[q].cmd # "up" /\ job[q].cmd # "up"
    BY <1>5, <1>8
  <2>2. \A q \in Procs : q # p => job'[q].at \notin {"port", "launch", "pid"}
    BY <2>1, <1>8, NoSteps DEF Jobs, UpSteps
  <2>3. ASSUME NEW v \in vms', v.node = 0, v.id \notin excused' PROVE FALSE
    <3>1. v \in vms /\ v.id # 0
      BY <1>7, NodesAre DEF Typed, TypeOK, VMs
    <3>2. ~files[0].dir
      BY <2>3, <1>5 DEF IdsOf
    <3>3. ~FoundAt(v)
      BY <3>1, <3>2, <2>3, <1>6, NodesAre DEF FoundAt, Found, Gone
    <3>4. ~Excused(v)
      BY <2>3, <1>5 DEF Excused
    <3>5. \E q \in Procs : At(q, "pid") /\ v.id = job[q].id
      BY <3>1, <3>3, <3>4 DEF Machines, Known
    <3>6. \A q \in Procs : At(q, "pid") => job[q].cmd = "up"
      BY NoSteps DEF Jobs, UpSteps, At, Typed, TypeOK
    <3> QED
      BY <3>5, <3>6, <2>1, <1>2
  <2> QED
    BY <2>1, <2>2, <2>3, <1>1, <1>8 DEF At
<1> QED
  BY <1>8, <1>9, <1>10, <1>11, <1>13, <1>15, <1>16

LEMMA Types ==
  ASSUME Typed
  PROVE  /\ job \in [Procs -> JobType] /\ tickets \in Nat
         /\ \A q \in Procs : job[q] \in JobType /\ job[q].id \in Nat /\ job[q].seen \subseteq Nat
         /\ \A q \in Procs, t \in Threads : job[q].th[t] \in ThreadType /\ job[q].th[t].id \in Nat
         /\ \A v \in vms : v \in VMs /\ v.id \in Nat /\ v.id # 0 /\ v.node \in Nodes
<1>1. job \in [Procs -> JobType] /\ tickets \in Nat
  BY DEF Typed, TypeOK
<1>2. \A q \in Procs : job[q] \in JobType /\ job[q].id \in Nat /\ job[q].seen \subseteq Nat
  BY <1>1, NodesAre DEF JobType
<1>3. \A q \in Procs, t \in Threads : job[q].th[t] \in ThreadType
  BY <1>2 DEF JobType
<1>4. \A q \in Procs, t \in Threads : job[q].th[t].id \in Nat
  BY <1>3, NodesAre DEF ThreadType
<1>5. \A v \in vms : v \in VMs /\ v.id \in Nat /\ v.id # 0 /\ v.node \in Nodes
  BY NodesAre DEF Typed, TypeOK, VMs
<1> QED
  BY <1>1, <1>2, <1>3, <1>4, <1>5

\* A number that is drawn is new.
LEMMA NewTicket ==
  ASSUME Typed, Tickets, tickets < MaxVMs
  PROVE  /\ tickets + 1 \in Ids /\ tickets + 1 \in 0 .. MaxVMs /\ Fresh(tickets + 1)
         /\ \A q \in Procs, u \in Threads : Flying(q, u) => job[q].th[u].id # tickets + 1
         /\ \A q \in Procs : Booting(q) => job[q].id # tickets + 1
         /\ \A q \in Procs : tickets + 1 \notin job[q].seen
<1>1. tickets \in Nat /\ MaxVMs \in Nat
  BY QemuAssumption DEF Typed, TypeOK
<1>2. tickets + 1 \in Ids /\ tickets + 1 \in 0 .. MaxVMs
  BY <1>1 DEF Ids
<1>3. ~Running(tickets + 1)
  <2> SUFFICES ASSUME NEW v \in vms, v.id = tickets + 1 PROVE FALSE
    BY DEF Running, IdsOf
  <2> QED
    BY <1>1 DEF Tickets
<1>4. ASSUME NEW q \in Procs, tickets + 1 \in job[q].seen PROVE FALSE
  <2>1. \A id \in job[q].seen : id <= tickets
    BY DEF Tickets
  <2>2. tickets + 1 <= tickets
    BY <1>4, <2>1
  <2> QED
    BY <2>2, <1>1
<1>5. \A q \in Procs, u \in Threads : Flying(q, u) => job[q].th[u].id # tickets + 1
  BY <1>1 DEF Tickets, Th
<1>6. \A q \in Procs : Booting(q) => job[q].id # tickets + 1
  BY <1>1 DEF Tickets
<1> QED
  BY <1>2, <1>3, <1>4, <1>5, <1>6 DEF Fresh

\* Who has a number after one was drawn had it before, or has the new one.
Drawn ==
  /\ tickets < MaxVMs /\ tickets' = tickets + 1 /\ vms' = vms
  /\ \A q \in Procs : job'[q].seen = job[q].seen /\ (At(q, "infra")' => At(q, "infra"))
  /\ \A q \in Procs, u \in Threads : Flying(q, u)' =>
       \/ job'[q].th[u].id = tickets + 1
       \/ /\ Flying(q, u) /\ (Early(q, u)' => Early(q, u))
          /\ job'[q].th[u].id = job[q].th[u].id /\ job'[q].th[u].n = job[q].th[u].n
  /\ \A q \in Procs : Booting(q)' =>
       \/ job'[q].id = tickets + 1
       \/ Booting(q) /\ job'[q].id = job[q].id /\ (At(q, "launch")' => At(q, "launch"))

LEMMA TicketsDrawn == ASSUME Typed, Tickets, Drawn PROVE Tickets'
<1> USE DEF Drawn
<1>1. PICK k : k = tickets + 1
  OBVIOUS
<1>2. tickets \in Nat /\ k \in Nat /\ 0 < k /\ k <= tickets' /\ tickets' \in Nat
  BY <1>1, Types
<1>3. Fresh(k) /\ (\A v \in vms : v.id # k) /\ \A q \in Procs : k \notin job[q].seen
  BY <1>1, NewTicket DEF Fresh, Running, IdsOf
<1>4. ASSUME NEW id, Fresh(id) PROVE Fresh(id)'
  BY <1>4 DEF Fresh, Running
<1>5. Fresh(k)'
  BY <1>3, <1>4
<1>6. \A id \in Nat : id <= tickets => id <= tickets'
  BY <1>2
<1>7. \A v, w \in vms' : v.id = w.id => v = w
  BY DEF Tickets
<1>8. \A v \in vms' : v.id <= tickets'
  BY <1>6, Types DEF Tickets
<1>9. ASSUME NEW q \in Procs, NEW id \in job'[q].seen PROVE id <= tickets'
  <2>1. id \in job[q].seen /\ id \in Nat /\ id <= tickets
    BY <1>9, Types DEF Tickets
  <2> QED
    BY <2>1, <1>6
<1>10. ASSUME NEW q \in Procs, NEW t \in Threads, Flying(q, t)'
       PROVE  /\ 0 < job'[q].th[t].id /\ job'[q].th[t].id <= tickets'
              /\ Early(q, t)' => Fresh(Th(q, t).id)'
              /\ \A v \in vms' : v.id = job'[q].th[t].id => v.node = job'[q].th[t].n /\ v.joined = 0
              /\ \A r \in Procs : At(r, "infra")' => job'[q].th[t].id \notin job'[r].seen
  <2>1. CASE job'[q].th[t].id = k
    <3>1. Fresh(Th(q, t).id)'
      BY <1>5, <2>1 DEF Fresh, Running, Th
    <3> QED
      BY <2>1, <3>1, <1>2, <1>3
  <2>2. CASE job'[q].th[t].id # k
    <3>1. /\ Flying(q, t) /\ (Early(q, t)' => Early(q, t))
          /\ job'[q].th[t].id = job[q].th[t].id /\ job'[q].th[t].n = job[q].th[t].n
      BY <1>1, <1>10, <2>2
    <3>2. /\ 0 < job[q].th[t].id /\ job[q].th[t].id <= tickets
          /\ Early(q, t) => Fresh(Th(q, t).id)
          /\ \A v \in vms : v.id = job[q].th[t].id => v.node = job[q].th[t].n /\ v.joined = 0
          /\ \A r \in Procs : At(r, "infra") => job[q].th[t].id \notin job[r].seen
      BY <3>1 DEF Tickets, Th
    <3>3. Early(q, t)' => Fresh(Th(q, t).id)'
      <4>1. PICK id : id = job[q].th[t].id
        OBVIOUS
      <4>2. Early(q, t)' => Fresh(id)'
        BY <4>1, <3>1, <3>2, <1>4 DEF Th
      <4> QED
        BY <4>1, <4>2, <3>1 DEF Fresh, Running, Th
    <3>4. job[q].th[t].id \in Nat
      BY Types
    <3> QED
      BY <3>1, <3>2, <3>3, <3>4, <1>6
  <2> QED
    BY <2>1, <2>2
<1>11. ASSUME NEW q \in Procs, Booting(q)'
       PROVE  /\ 0 < job'[q].id /\ job'[q].id <= tickets'
              /\ At(q, "launch")' => Fresh(job[q].id)'
              /\ \A v \in vms' : v.id = job'[q].id => v.node = 0
  <2>1. CASE job'[q].id = k
    <3>1. Fresh(job[q].id)'
      BY <1>5, <2>1 DEF Fresh, Running
    <3> QED
      BY <2>1, <3>1, <1>2, <1>3
  <2>2. CASE job'[q].id # k
    <3>1. Booting(q) /\ job'[q].id = job[q].id /\ (At(q, "launch")' => At(q, "launch"))
      BY <1>1, <1>11, <2>2
    <3>2. /\ 0 < job[q].id /\ job[q].id <= tickets
          /\ At(q, "launch") => Fresh(job[q].id)
          /\ \A v \in vms : v.id = job[q].id => v.node = 0
      BY <3>1 DEF Tickets
    <3>3. At(q, "launch")' => Fresh(job[q].id)'
      <4>1. PICK id : id = job[q].id
        OBVIOUS
      <4>2. At(q, "launch")' => Fresh(id)'
        BY <4>1, <3>1, <3>2, <1>4
      <4> QED
        BY <4>1, <4>2, <3>1 DEF Fresh, Running
    <3>4. job[q].id \in Nat
      BY Types
    <3> QED
      BY <3>1, <3>2, <3>3, <3>4, <1>6
  <2> QED
    BY <2>1, <2>2
<1> QED
  BY <1>7, <1>8, <1>9, <1>10, <1>11 DEF Tickets, Th

LEMMA UpPortIInv == ASSUME IInv, NEW p \in Procs, UpPort(p) PROVE IInv'
<1> USE DEF IInv
<1>1. /\ job' = [job EXCEPT ![p].at = "launch", ![p].id = tickets + 1] /\ tickets' = tickets + 1
      /\ tickets < MaxVMs /\ files[0].dir /\ files' = [files EXCEPT ![0].port = tickets + 1]
      /\ json' = json /\ vms' = vms /\ contested' = contested /\ excused' = excused
      /\ writer' = writer /\ kubeconfig' = kubeconfig /\ row' = row /\ commands' = commands
      /\ faults' = faults
  BY DEF UpPort, Same, NoFault, history
<1>2. /\ job[p].at = "port" /\ job[p].cmd = "up" /\ JobForm(job[p]) /\ job \in [Procs -> JobType]
      /\ job[p] \in JobType
  BY NoSteps DEF UpPort, At, Jobs, UpSteps, Typed, TypeOK
<1>3. /\ tickets + 1 \in Ids /\ tickets + 1 \in 0 .. MaxVMs /\ Fresh(tickets + 1)
      /\ \A q \in Procs, u \in Threads : Flying(q, u) => job[q].th[u].id # tickets + 1
      /\ \A q \in Procs : Booting(q) => job[q].id # tickets + 1
      /\ \A q \in Procs : tickets + 1 \notin job[q].seen
  BY <1>1, NewTicket
<1>4. PICK n : n = [job[p] EXCEPT !.at = "launch", !.id = tickets + 1]
  OBVIOUS
<1>5. /\ n \in JobType /\ n.at = "launch" /\ n.cmd = "up" /\ n.id = tickets + 1
      /\ n.n = job[p].n /\ n.seen = job[p].seen /\ n.th = job[p].th
  BY <1>2, <1>3, <1>4 DEF JobType
<1>6. job' = [job EXCEPT ![p] = n]
  BY <1>1, <1>2, <1>4
<1>7. JobForm(n)
  BY <1>2, <1>5 DEF JobForm, UpSteps
<1>8. Calm(p, n)
  BY <1>5, <1>6, <1>7 DEF Calm
<1>9. /\ job' \in [Procs -> JobType] /\ Jobs' /\ job'[p] = n
      /\ \A q \in Procs : q # p => job'[q] = job[q]
  BY <1>8, Calmly
<1>10. \A q \in Procs, u \in Threads : Flying(q, u)' => q # p /\ Flying(q, u) /\ job'[q] = job[q]
  BY <1>8, Calmly
<1>11. Mutex'
  BY <1>8, MutexCalm
<1>12. Typed'
  <2>1. /\ json \in {NULL} \cup [next : 1 .. MaxIdx + 1, cp : Ids] /\ vms \in SUBSET VMs
        /\ contested \in SUBSET Nodes /\ excused \in SUBSET Ids /\ writer \in {NULL} \cup Procs
    BY DEF Typed, TypeOK
  <2> QED
    BY <1>1, <1>3, <1>9, <1>11, <2>1, NodesAre, Counters, StepTyped
<1>13. Fewer
  BY <1>1, SubsetFewer
<1>14. files \in [Nodes -> [dir : BOOLEAN, port : {0} \cup Ids, pid : {0} \cup Ids]]
  BY DEF Typed, TypeOK
<1>15. \A k \in Nodes : files'[k].pid = files[k].pid /\ (k # 0 => files'[k] = files[k])
  BY <1>1, <1>14
<1>16. files'[0].port = tickets + 1
  BY <1>1, <1>14, NodesAre
<1>17. Indices'
  BY <1>8, <1>13, <1>1, <1>15, IndicesCalm
<1>18. ASSUME NEW v \in vms, v.node = 0 PROVE Excused(v)
  <2>1. 0 \notin contested /\ v.id \notin excused => At(p, "pid")
    BY <1>18, <1>2 DEF ControlPlane
  <2> QED
    BY <2>1, <1>2, <1>18 DEF Excused, At
<1>19. Machines'
  <2>1. Grow /\ ~At(p, "pid")
    BY <1>1, <1>2 DEF Grow, At
  <2>2. ASSUME NEW v \in vms' PROVE Excused(v)' \/ StillThere(v)
    <3>1. v \in vms /\ v.node \in Nodes
      BY <1>1 DEF Typed, TypeOK, VMs
    <3>2. CASE v.node = 0
      BY <3>1, <3>2, <1>18, <1>1 DEF Excused
    <3>3. CASE v.node # 0
      BY <3>1, <3>3, <1>15 DEF StillThere, Found
    <3> QED
      BY <3>2, <3>3
  <2> QED
    BY <1>5, <1>8, <1>13, <2>1, <2>2, MachinesCalm
<1>20. ControlPlane'
  <2> SUFFICES ASSUME 0 \notin contested'
               PROVE  /\ \A r, q \in Procs : job'[r].cmd = "up" /\ job'[q].cmd = "up" /\ r # q =>
                           At(r, "prepare")' \/ At(q, "prepare")'
                      /\ \A q \in Procs : job'[q].at \in {"port", "launch", "pid"} =>
                           /\ \A v \in vms' : v.node = 0 /\ v.id \notin excused' =>
                                At(q, "pid")' /\ v.id = job'[q].id
                           /\ At(q, "launch")' /\ job'[q].id \notin excused' => files'[0].port = job'[q].id
                           /\ At(q, "pid")' /\ job'[q].id \notin excused' /\ Running(job[q].id)' =>
                                files'[0].port = job'[q].id
    BY DEF ControlPlane
  <2>1. \A q \in Procs : q # p /\ job[q].cmd = "up" => At(q, "prepare")
    BY <1>1, <1>2 DEF ControlPlane, At
  <2>2. \A q \in Procs : q # p => job'[q].at \notin {"port", "launch", "pid"}
    BY <2>1, <1>9, NoSteps DEF Jobs, UpSteps, At
  <2>3. \A v \in vms' : v.node = 0 => v.id \in excused'
    BY <1>1, <1>18 DEF Excused
  <2> QED
    BY <2>1, <2>2, <2>3, <1>2, <1>5, <1>9, <1>16 DEF At
<1>21. Distinct'
  <2>1. \A q, r \in Procs, t, u \in Threads :
          Flying(q, t)' /\ Flying(r, u)' /\ Th(q, t).id' = Th(r, u).id' => q = r /\ t = u
    BY <1>10 DEF Distinct, Th
  <2>2. \A q \in Procs : q # p => (Booting(q)' <=> Booting(q))
    BY <1>9 DEF Booting
  <2>3. \A q, r \in Procs : Booting(q)' /\ Booting(r)' /\ job'[q].id = job'[r].id => q = r
    BY <2>2, <1>3, <1>5, <1>9 DEF Distinct
  <2>4. \A q, r \in Procs, u \in Threads : Booting(q)' /\ Flying(r, u)' => job'[q].id # Th(r, u).id'
    BY <2>2, <1>3, <1>5, <1>9, <1>10 DEF Distinct, Th
  <2> QED
    BY <2>1, <2>3, <2>4 DEF Distinct
<1>22. Tickets'
  <2>1. \A q \in Procs : job'[q].seen = job[q].seen /\ (At(q, "infra")' => At(q, "infra"))
    BY <1>5, <1>9 DEF At
  <2>2. \A q \in Procs, u \in Threads : Flying(q, u)' =>
          /\ Flying(q, u) /\ (Early(q, u)' => Early(q, u))
          /\ job'[q].th[u].id = job[q].th[u].id /\ job'[q].th[u].n = job[q].th[u].n
    BY <1>10 DEF Early, Th
  <2>3. \A q \in Procs : Booting(q)' =>
          \/ job'[q].id = tickets + 1
          \/ Booting(q) /\ job'[q].id = job[q].id /\ (At(q, "launch")' => At(q, "launch"))
    BY <1>5, <1>9 DEF Booting, At
  <2> QED
    BY <1>1, <2>1, <2>2, <2>3, TicketsDrawn DEF Drawn
<1> QED
  BY <1>9, <1>11, <1>12, <1>17, <1>19, <1>20, <1>21, <1>22

\* Machine i, of a number that is one command's, is launched as node k.
Launched(i, k) ==
  /\ vms' = vms \cup {[id |-> i, node |-> k, joined |-> 0]} /\ tickets' = tickets
  /\ Fresh(i) /\ i <= tickets
  /\ \A q \in Procs : job'[q].seen = job[q].seen /\ (At(q, "infra")' <=> At(q, "infra"))
  /\ \A q \in Procs, u \in Threads : Flying(q, u)' =>
       /\ Flying(q, u) /\ (Early(q, u)' => Early(q, u))
       /\ job'[q].th[u].id = job[q].th[u].id /\ job'[q].th[u].n = job[q].th[u].n
       /\ job[q].th[u].id = i => ~Early(q, u)' /\ job[q].th[u].n = k
  /\ \A q \in Procs : Booting(q)' =>
       /\ Booting(q) /\ job'[q].id = job[q].id /\ (At(q, "launch")' => At(q, "launch"))
       /\ job[q].id = i => ~At(q, "launch")' /\ k = 0

LEMMA TicketsLaunched ==
  ASSUME Typed, Tickets, NEW i, NEW k, Launched(i, k)
  PROVE  Tickets'
<1> DEFINE new == [id |-> i, node |-> k, joined |-> 0]
<1> USE DEF Launched
<1>1. vms' = vms \cup {new} /\ new.id = i /\ new.node = k /\ new.joined = 0
  OBVIOUS
<1> HIDE DEF new
<1>2. (\A v \in vms : v.id # i) /\ \A q \in Procs : i \notin job[q].seen
  BY DEF Fresh, Running, IdsOf
<1>3. \A v, w \in vms' : v.id = w.id => v = w
  BY <1>1, <1>2 DEF Tickets
<1>4. \A v \in vms' : v.id <= tickets'
  BY <1>1 DEF Tickets
<1>5. \A q \in Procs : \A id \in job'[q].seen : id <= tickets'
  BY DEF Tickets
<1>6. ASSUME NEW id, Fresh(id), id # i PROVE Fresh(id)'
  <2>1. ~Running(id)'
    BY <1>1, <1>6 DEF Fresh, Running, IdsOf
  <2> QED
    BY <1>6, <2>1 DEF Fresh
<1>7. ASSUME NEW q \in Procs, NEW t \in Threads, Flying(q, t)'
      PROVE  /\ 0 < job'[q].th[t].id /\ job'[q].th[t].id <= tickets'
             /\ Early(q, t)' => Fresh(Th(q, t).id)'
             /\ \A v \in vms' : v.id = job'[q].th[t].id => v.node = job'[q].th[t].n /\ v.joined = 0
             /\ \A r \in Procs : At(r, "infra")' => job'[q].th[t].id \notin job'[r].seen
  <2>1. /\ Flying(q, t) /\ (Early(q, t)' => Early(q, t))
        /\ job'[q].th[t].id = job[q].th[t].id /\ job'[q].th[t].n = job[q].th[t].n
        /\ job[q].th[t].id = i => ~Early(q, t)' /\ job[q].th[t].n = k
    BY <1>7
  <2>2. /\ 0 < job[q].th[t].id /\ job[q].th[t].id <= tickets
        /\ Early(q, t) => Fresh(Th(q, t).id)
        /\ \A v \in vms : v.id = job[q].th[t].id => v.node = job[q].th[t].n /\ v.joined = 0
        /\ \A r \in Procs : At(r, "infra") => job[q].th[t].id \notin job[r].seen
    BY <2>1 DEF Tickets, Th
  <2>3. Early(q, t)' => Fresh(Th(q, t).id)'
    <3>1. PICK id : id = job[q].th[t].id
      OBVIOUS
    <3>2. Early(q, t)' => Fresh(id)'
      BY <3>1, <2>1, <2>2, <1>6 DEF Th
    <3> QED
      BY <3>1, <3>2, <2>1 DEF Fresh, Running, Th
  <2>4. \A v \in vms' : v.id = job'[q].th[t].id => v.node = job'[q].th[t].n /\ v.joined = 0
    BY <1>1, <2>1, <2>2
  <2> QED
    BY <2>1, <2>2, <2>3, <2>4
<1>8. ASSUME NEW q \in Procs, Booting(q)'
      PROVE  /\ 0 < job'[q].id /\ job'[q].id <= tickets'
             /\ At(q, "launch")' => Fresh(job[q].id)'
             /\ \A v \in vms' : v.id = job'[q].id => v.node = 0
  <2>1. /\ Booting(q) /\ job'[q].id = job[q].id /\ (At(q, "launch")' => At(q, "launch"))
        /\ job[q].id = i => ~At(q, "launch")' /\ k = 0
    BY <1>8
  <2>2. /\ 0 < job[q].id /\ job[q].id <= tickets
        /\ At(q, "launch") => Fresh(job[q].id)
        /\ \A v \in vms : v.id = job[q].id => v.node = 0
    BY <2>1 DEF Tickets
  <2>3. At(q, "launch")' => Fresh(job[q].id)'
    <3>1. PICK id : id = job[q].id
      OBVIOUS
    <3>2. At(q, "launch")' => Fresh(id)'
      BY <3>1, <2>1, <2>2, <1>6
    <3> QED
      BY <3>1, <3>2, <2>1 DEF Fresh, Running
  <2> QED
    BY <2>1, <2>2, <2>3, <1>1
<1> QED
  BY <1>3, <1>4, <1>5, <1>7, <1>8 DEF Tickets, Th

LEMMA DistinctLaunched ==
  ASSUME Distinct, NEW i, NEW k, Launched(i, k)
  PROVE  Distinct'
  BY DistinctStays DEF Launched, NoNewIds

\* The machine launched is known, and no command counts on it yet.
LEMMA MachinesLaunched ==
  ASSUME Machines, NEW i, NEW k, Launched(i, k), NoNewClaim, files' = files, Grow,
         Known([id |-> i, node |-> k, joined |-> 0])',
         \A q \in Procs, u \in Threads : ThreadAt(q, u, "join") => job[q].th[u].id # i,
         \A q \in Procs : At(q, "pid") => At(q, "pid")' /\ job'[q].id = job[q].id
  PROVE  Machines'
<1> DEFINE new == [id |-> i, node |-> k, joined |-> 0]
<1>1. vms' = vms \cup {new} /\ new.id = i /\ new.joined = 0 /\ Known(new)'
  BY DEF Launched
<1> HIDE DEF new
<1>2. ASSUME NEW v \in vms PROVE Known(v)' /\ Recorded(v)' /\ Stopped(v)'
  <2>1. v \in vms' /\ StillThere(v) /\ Known(v) /\ Recorded(v) /\ Stopped(v)
    BY <1>1, Stay DEF Machines
  <2>2. Known(v)'
    BY <2>1, KnownStays
  <2>3. Recorded(v)'
    BY <2>1, RecordedStays DEF NoNewClaim
  <2>4. Stopped(v)'
    BY <2>1, StoppedStays
  <2> QED
    BY <2>2, <2>3, <2>4
<1>3. \A q \in Procs : i \notin job'[q].seen
  BY DEF Launched, Fresh
<1>4. \A q \in Procs, u \in Threads : ThreadAt(q, u, "join")' /\ job'[q].th[u].id = i =>
        Excused(new)' \/ files'[new.node].pid = i
  BY <1>1 DEF NoNewClaim, NoNewSight
<1>5. Recorded(new)' /\ Stopped(new)'
  <2>1. Recorded(new)'
    BY <1>1, <1>3, <1>4 DEF Recorded, Th
  <2>2. Stopped(new)'
    BY <1>1, <1>3 DEF Stopped
  <2> QED
    BY <2>1, <2>2
<1> QED
  BY <1>1, <1>2, <1>5 DEF Machines

LEMMA UpLaunchIInv == ASSUME IInv, NEW p \in Procs, UpLaunch(p) PROVE IInv'
<1> USE DEF IInv
<1>1. PICK n \in JobType :
        /\ job' = [job EXCEPT ![p] = n] /\ n.at = "pid" /\ n.cmd = job[p].cmd /\ n.id = job[p].id
        /\ n.n = job[p].n /\ n.seen = job[p].seen /\ n.th = job[p].th
  BY Goes DEF UpLaunch, Steps
<1>2. PICK i : i = job[p].id
  OBVIOUS
<1>3. /\ job[p].at = "launch" /\ job[p].cmd = "up" /\ JobForm(job[p]) /\ Booting(p)
      /\ vms' = vms \cup {[id |-> i, node |-> 0, joined |-> 0]}
      /\ files' = files /\ json' = json /\ tickets' = tickets /\ contested' = contested
      /\ excused' = excused /\ writer' = writer /\ kubeconfig' = kubeconfig /\ row' = row
      /\ commands' = commands /\ faults' = faults
  BY <1>2, NoSteps, Types DEF UpLaunch, At, Jobs, UpSteps, Booting, Same, NoFault, history
<1>4. JobForm(n)
  BY <1>1, <1>3 DEF JobForm, UpSteps
<1>5. Calm(p, n)
  BY <1>1, <1>4 DEF Calm
<1>6. /\ job' \in [Procs -> JobType] /\ Jobs' /\ job'[p] = n
      /\ \A q \in Procs : q # p => job'[q] = job[q]
  BY <1>5, Calmly
<1>7. \A q \in Procs, u \in Threads : Flying(q, u)' => q # p /\ Flying(q, u) /\ job'[q] = job[q]
  BY <1>5, Calmly
<1>8. Mutex'
  BY <1>5, MutexCalm
<1>9. 0 < i /\ i <= tickets /\ Fresh(i) /\ i \in Ids
  <2>1. /\ 0 < job[p].id /\ job[p].id <= tickets /\ Fresh(job[p].id)
    BY <1>3 DEF Tickets, At
  <2>2. job[p].id \in {0} \cup Ids
    BY Types DEF JobType
  <2> QED
    BY <1>2, <2>1, <2>2
<1>10. Launched(i, 0)
  <2>1. \A q \in Procs : job'[q].seen = job[q].seen /\ (At(q, "infra")' <=> At(q, "infra"))
    BY <1>1, <1>3, <1>6 DEF At
  <2>2. \A q \in Procs, u \in Threads : Flying(q, u)' =>
          /\ Flying(q, u) /\ (Early(q, u)' => Early(q, u))
          /\ job'[q].th[u].id = job[q].th[u].id /\ job'[q].th[u].n = job[q].th[u].n
          /\ job[q].th[u].id # i
    BY <1>2, <1>3, <1>7 DEF Early, Th, Distinct
  <2>3. \A q \in Procs : Booting(q)' =>
          /\ Booting(q) /\ job'[q].id = job[q].id /\ (At(q, "launch")' => At(q, "launch"))
          /\ job[q].id = i => ~At(q, "launch")'
    BY <1>1, <1>2, <1>3, <1>6 DEF Booting, At, Distinct
  <2> QED
    BY <1>3, <1>9, <2>1, <2>2, <2>3 DEF Launched
<1>11. Tickets' /\ Distinct'
  BY <1>10, TicketsLaunched, DistinctLaunched
<1>12. Typed'
  <2>1. /\ json \in {NULL} \cup [next : 1 .. MaxIdx + 1, cp : Ids] /\ vms \in SUBSET VMs
        /\ tickets \in 0 .. MaxVMs
        /\ contested \in SUBSET Nodes /\ excused \in SUBSET Ids /\ writer \in {NULL} \cup Procs
    BY DEF Typed, TypeOK
  <2>2. vms' \in SUBSET VMs
    BY <1>3, <1>9, <2>1, NodesAre DEF VMs
  <2> QED
    BY <1>3, <1>6, <1>8, <2>1, <2>2, Counters, StepTyped
<1>13. ASSUME NEW k \in Nodes \ {0}, k \notin contested' PROVE Owned(k)' /\ Ordered(k)'
  <2>1. Owned(k) /\ Ordered(k)
    BY <1>3, <1>13 DEF Indices
  <2>2. \A q \in Procs, u \in Threads : Flying(q, u)' => Early(q, u)' = Early(q, u) /\ Th(q, u)' = Th(q, u)
    BY <1>7 DEF Early, Th
  <2>3. \A v \in vms' : v.node = k => v \in vms
    BY <1>3
  <2>4. Owned(k)'
    BY <2>1, <2>2, <2>3, <1>3, <1>7 DEF Owned
  <2>5. \A q \in Procs, u \in Threads : ThreadAt(q, u, "save")' =>
          ThreadAt(q, u, "save") /\ job'[q] = job[q]
    BY <1>5, Calmly
  <2>6. InUse(k)' => InUse(k)
    BY <2>2, <2>3, <1>3, <1>7 DEF InUse
  <2>7. Ordered(k)'
    BY <2>1, <2>5, <2>6, <1>3 DEF Ordered, Th
  <2> QED
    BY <2>4, <2>7
<1>14. Indices'
  BY <1>13 DEF Indices
<1>15. 0 \notin contested =>
         /\ \A q \in Procs : q # p /\ job[q].cmd = "up" => At(q, "prepare")
         /\ \A v \in vms : v.node = 0 => v.id \in excused
         /\ i \notin excused => files[0].port = i
  BY <1>2, <1>3 DEF ControlPlane, At
<1>16. ControlPlane'
  <2> SUFFICES ASSUME 0 \notin contested'
               PROVE  /\ \A r, q \in Procs : job'[r].cmd = "up" /\ job'[q].cmd = "up" /\ r # q =>
                           At(r, "prepare")' \/ At(q, "prepare")'
                      /\ \A q \in Procs : job'[q].at \in {"port", "launch", "pid"} =>
                           /\ \A v \in vms' : v.node = 0 /\ v.id \notin excused' =>
                                At(q, "pid")' /\ v.id = job'[q].id
                           /\ At(q, "launch")' /\ job'[q].id \notin excused' => files'[0].port = job'[q].id
                           /\ At(q, "pid")' /\ job'[q].id \notin excused' /\ Running(job[q].id)' =>
                                files'[0].port = job'[q].id
    BY DEF ControlPlane
  <2>1. \A q \in Procs : q # p /\ job[q].cmd = "up" => At(q, "prepare")
    BY <1>3, <1>15
  <2>2. \A q \in Procs : q # p => job'[q].at \notin {"port", "launch", "pid"}
    BY <2>1, <1>6, NoSteps, Types DEF Jobs, UpSteps, At
  <2>3. \A v \in vms' : v.node = 0 /\ v.id \notin excused' => v.id = i
    BY <1>3, <1>15
  <2> QED
    BY <2>1, <2>2, <2>3, <1>1, <1>2, <1>3, <1>6, <1>15 DEF At
<1>17. Machines'
  <2>1. NoNewClaim
    BY <1>1, <1>3, <1>5, ClaimsCalm
  <2>2. \A q \in Procs, u \in Threads : ThreadAt(q, u, "join") => job[q].th[u].id # i
    BY <1>2, <1>3 DEF Distinct, Flying, ThreadAt, Th, Working
  <2>3. \A q \in Procs : At(q, "pid") => At(q, "pid")' /\ job'[q].id = job[q].id
    BY <1>3, <1>6 DEF At
  <2>4. At(p, "pid")' /\ job'[p].id = i
    BY <1>1, <1>2, <1>6 DEF At
  <2>5. Known([id |-> i, node |-> 0, joined |-> 0])'
    BY <2>4 DEF Known
  <2> QED
    BY <1>3, <1>10, <2>1, <2>2, <2>3, <2>5, MachinesLaunched DEF Grow
<1> QED
  BY <1>6, <1>8, <1>11, <1>12, <1>14, <1>16, <1>17

LEMMA UpPidIInv == ASSUME IInv, NEW p \in Procs, UpPid(p) PROVE IInv'
<1> USE DEF IInv
<1>1. PICK n \in JobType :
        /\ job' = [job EXCEPT ![p] = n] /\ n.at = "bootstrap" /\ n.cmd = job[p].cmd /\ n.id = job[p].id
        /\ n.n = job[p].n /\ n.seen = job[p].seen /\ n.th = job[p].th
  BY Goes DEF UpPid, Steps
<1>2. PICK i : i = job[p].id
  OBVIOUS
<1>3. /\ job[p].at = "pid" /\ job[p].cmd = "up" /\ JobForm(job[p]) /\ files[0].dir
      /\ files' = [files EXCEPT ![0].pid = i] /\ vms' = vms
      /\ json' = json /\ tickets' = tickets /\ contested' = contested
      /\ excused' = excused /\ writer' = writer /\ kubeconfig' = kubeconfig /\ row' = row
      /\ commands' = commands /\ faults' = faults
  BY <1>2, NoSteps, Types DEF UpPid, At, Jobs, UpSteps, Same, NoFault, history
<1>4. JobForm(n)
  BY <1>1, <1>3 DEF JobForm, UpSteps
<1>5. Calm(p, n)
  BY <1>1, <1>4 DEF Calm
<1>6. job' \in [Procs -> JobType] /\ Jobs'
  BY <1>5, Calmly
<1>7. Mutex'
  BY <1>5, MutexCalm
<1>8. i \in {0} \cup Ids /\ 0 < i
  BY <1>2, <1>3, Types DEF JobType, Tickets, Booting
<1>9. Typed'
  <2>1. /\ json \in {NULL} \cup [next : 1 .. MaxIdx + 1, cp : Ids] /\ vms \in SUBSET VMs
        /\ tickets \in 0 .. MaxVMs
        /\ contested \in SUBSET Nodes /\ excused \in SUBSET Ids /\ writer \in {NULL} \cup Procs
    BY DEF Typed, TypeOK
  <2> QED
    BY <1>3, <1>6, <1>7, <1>8, <2>1, NodesAre, Counters, StepTyped
<1>10. Fewer
  BY <1>3, SubsetFewer
<1>11. files \in [Nodes -> [dir : BOOLEAN, port : {0} \cup Ids, pid : {0} \cup Ids]]
  BY DEF Typed, TypeOK
<1>12. /\ \A k \in Nodes \ {0} : files'[k] = files[k]
       /\ files'[0].pid = i /\ files'[0].port = files[0].port
  BY <1>3, <1>11, NodesAre
<1>13. Tickets' /\ Distinct'
  BY <1>1, <1>3, <1>5, <1>10, TicketsCalm DEF BootsAs
<1>14. Indices'
  BY <1>3, <1>5, <1>10, <1>12, IndicesCalm
<1>15. ControlPlane'
  BY <1>1, <1>3, <1>5, <1>10, <1>12, ControlCalm DEF UpsAs
<1>16. ASSUME NEW v \in vms' PROVE Excused(v)' \/ StillThere(v)
  <2>1. v \in vms /\ v.node \in Nodes
    BY <1>3, Types
  <2>2. CASE v.node = 0
    <3>1. Excused(v) \/ v.id = i
      BY <2>1, <2>2, <1>2, <1>3 DEF ControlPlane, Excused
    <3> QED
      BY <3>1, <2>2, <1>3, <1>8, <1>12 DEF Excused, StillThere, Found
  <2>3. CASE v.node # 0
    BY <2>1, <2>3, <1>12 DEF StillThere, Found
  <2> QED
    BY <2>2, <2>3
<1>17. \A v \in vms' : v.node = 0 /\ v.id = i => FoundAt(v)'
  BY <1>8, <1>12 DEF FoundAt, Found
<1>18. Machines'
  BY <1>1, <1>2, <1>3, <1>5, <1>10, <1>16, <1>17, MachinesCalm DEF Grow
<1> QED
  BY <1>6, <1>7, <1>9, <1>13, <1>14, <1>15, <1>18

LEMMA UpBootstrapIInv == ASSUME IInv, NEW p \in Procs, UpBootstrap(p) PROVE IInv'
<1> USE DEF IInv
<1>1. PICK n \in JobType :
        /\ job' = [job EXCEPT ![p] = n] /\ n.at = "save" /\ n.cmd = job[p].cmd /\ n.id = job[p].id
        /\ n.n = job[p].n /\ n.seen = job[p].seen /\ n.th = job[p].th
  BY Goes DEF UpBootstrap, Steps
<1>2. job[p].at = "bootstrap" /\ job[p].cmd = "up" /\ JobForm(job[p]) /\ kubeconfig' = job[p].id
  BY NoSteps, Types DEF UpBootstrap, At, Jobs, UpSteps
<1>3. Elsewhere
  BY <1>2, Types, Counters DEF UpBootstrap, Elsewhere, NoFault, history, JobType
<1>4. Calm(p, n)
  BY <1>1, <1>2 DEF Calm, JobForm, UpSteps
<1> QED
  BY <1>1, <1>2, <1>3, <1>4, PlainStep DEF BootsAs, UpsAs, At

LEMMA UpRecordIInv == ASSUME IInv, NEW p \in Procs, UpRecord(p) PROVE IInv'
<1> USE DEF IInv
<1>1. PICK n \in JobType :
        /\ job' = [job EXCEPT ![p] = n] /\ n.at = "workers" /\ n.cmd = job[p].cmd /\ n.id = job[p].id
        /\ n.n = job[p].n /\ n.seen = job[p].seen /\ n.th = job[p].th
  BY Goes DEF UpRecord, Steps
<1>2. job[p].at = "record" /\ job[p].cmd = "up" /\ JobForm(job[p])
  BY NoSteps, Types DEF UpRecord, At, Jobs, UpSteps
<1>3. Elsewhere
  BY Counters DEF UpRecord, Elsewhere, NoFault, Fault, history
<1>4. Calm(p, n)
  BY <1>1, <1>2 DEF Calm, JobForm, UpSteps
<1> QED
  BY <1>1, <1>2, <1>3, <1>4, PlainStep DEF BootsAs, UpsAs, At

\* Whatever is in use when the indices start again is put in doubt.
LEMMA UpSaveIInv == ASSUME IInv, NEW p \in Procs, UpSave(p) PROVE IInv'
<1> USE DEF IInv
<1>1. PICK n \in JobType :
        /\ job' = [job EXCEPT ![p] = n] /\ n.at = "record" /\ n.cmd = job[p].cmd /\ n.id = job[p].id
        /\ n.n = job[p].n /\ n.seen = job[p].seen /\ n.th = job[p].th
  BY Goes DEF UpSave, Steps
<1>2. /\ job[p].at = "save" /\ job[p].cmd = "up" /\ JobForm(job[p])
      /\ files' = files /\ vms' = vms /\ json' = [next |-> 1, cp |-> job[p].id]
      /\ tickets' = tickets /\ excused' = excused /\ writer' = p /\ kubeconfig' = kubeconfig
      /\ row' = row /\ commands' = commands /\ faults' = faults
      /\ contested' = contested \cup {k \in Nodes \ {0} : files[k].dir}
                                \cup {v.node : v \in {w \in vms : w.node # 0}}
                                \cup UNION {Taken(q) : q \in Procs}
  BY NoSteps, Types DEF UpSave, At, Jobs, UpSteps, Same, NoFault
<1>3. Calm(p, n)
  BY <1>1, <1>2 DEF Calm, JobForm, UpSteps
<1>4. job' \in [Procs -> JobType] /\ Jobs'
  BY <1>3, Calmly
<1>5. Mutex'
  BY <1>3, MutexCalm
<1>6. contested \subseteq contested' /\ contested' \in SUBSET Nodes
  <2>1. \A q \in Procs : Taken(q) \subseteq Nodes
    BY Types DEF Taken, ThreadType
  <2> QED
    BY <1>2, <2>1, Types DEF Typed, TypeOK
<1>7. \A k \in Nodes \ {0} : InUse(k) => k \in contested'
  <2>1. \A q \in Procs, u \in Threads : Flying(q, u) => job[q].th[u].n \in Taken(q)
    BY DEF Flying, Taken, Th
  <2> QED
    BY <2>1, <1>2 DEF InUse, Th
<1>8. Fewer
  BY <1>2, SubsetFewer
<1>9. Typed'
  <2>1. 0 < job[p].id /\ job[p].id \in {0} \cup Ids
    BY <1>2, Types DEF JobType, Tickets, Booting
  <2>2. json' \in {NULL} \cup [next : 1 .. MaxIdx + 1, cp : Ids]
    BY <2>1, <1>2, QemuAssumption
  <2>3. vms \in SUBSET VMs /\ tickets \in 0 .. MaxVMs /\ excused \in SUBSET Ids
    BY DEF Typed, TypeOK
  <2> QED
    BY <1>2, <1>4, <1>5, <1>6, <2>2, <2>3, Counters, StepTyped
<1>10. Tickets' /\ Distinct'
  BY <1>1, <1>2, <1>3, <1>8, TicketsCalm DEF BootsAs
<1>11. ASSUME NEW k \in Nodes \ {0}, k \notin contested' PROVE Owned(k)' /\ Ordered(k)'
  <2>1. Owned(k) /\ ~InUse(k)
    BY <1>6, <1>7, <1>11 DEF Indices
  <2>2. Untouched(k)
    BY <1>2, <1>3, CalmUntouched
  <2>3. Owned(k)'
    BY <2>1, <2>2, <1>8, OwnedStays
  <2>4. \A q \in Procs, u \in Threads : Flying(q, u)' => Flying(q, u) /\ job'[q] = job[q]
    BY <1>3, Calmly
  <2>5. ~InUse(k)'
    BY <2>1, <2>4, <1>2 DEF InUse, Th
  <2> QED
    BY <2>3, <2>5 DEF Ordered
<1>12. Indices'
  BY <1>11 DEF Indices
<1>13. ControlPlane'
  BY <1>1, <1>2, <1>3, <1>6, <1>8, ControlCalm DEF UpsAs
<1>14. Machines'
  BY <1>1, <1>2, <1>3, <1>6, <1>8, Stay, MachinesCalm DEF Grow, At
<1> QED
  BY <1>4, <1>5, <1>9, <1>10, <1>12, <1>13, <1>14

LEMMA UpFailsIInv == ASSUME IInv, NEW p \in Procs, UpFails(p) PROVE IInv'
<1> USE DEF IInv
<1>1. /\ job[p].at \in {"port", "launch", "pid", "bootstrap", "save"} /\ End(p)
      /\ vms' = Killed(job[p].id) /\ files' = NoFiles /\ json' = NULL
      /\ excused' = excused \cup (IdsOf(vms') \ {job[p].id})
      /\ tickets' = tickets /\ contested' = contested /\ writer' = writer
      /\ kubeconfig' = kubeconfig /\ row' = row /\ commands' = commands
      /\ faults' \in 0 .. MaxFaults
  BY Counters DEF UpFails, Same, NoFault, Fault
<1>2. job[p].cmd = "up"
  BY <1>1, NoSteps, Types DEF Jobs, UpSteps
<1>3. Calm(p, Idle)
  BY <1>1, Ends
<1>4. /\ job' \in [Procs -> JobType] /\ Jobs' /\ job'[p] = Idle
      /\ \A q \in Procs : q # p => job'[q] = job[q]
  BY <1>3, Calmly
<1>5. Mutex'
  BY <1>3, MutexCalm
<1>6. vms' \subseteq vms /\ Fewer
  BY <1>1, SubsetFewer DEF Killed
<1>7. \A v \in vms' : v.id \in excused'
  BY <1>1 DEF Killed, IdsOf
<1>8. Typed'
  <2>1. /\ vms' \in SUBSET VMs /\ tickets \in 0 .. MaxVMs /\ excused' \in SUBSET Ids
        /\ contested \in SUBSET Nodes /\ writer \in {NULL} \cup Procs
    BY <1>1, <1>6 DEF Typed, TypeOK, IdsOf, VMs
  <2> QED
    BY <1>1, <1>4, <1>5, <2>1, Counters, StepTyped
<1>9. Tickets' /\ Distinct'
  BY <1>1, <1>3, <1>6, IdleForm, TicketsCalm DEF BootsAs
<1>10. \A k \in Nodes : files'[k] = Gone
  BY <1>1 DEF NoFiles
<1>11. Indices'
  BY <1>1, <1>3, <1>6, <1>10, IndicesCalm
<1>12. ControlPlane'
  <2>1. 0 \notin contested => \A q \in Procs : q # p /\ job[q].cmd = "up" => At(q, "prepare")
    BY <1>1, <1>2 DEF ControlPlane, At
  <2>2. 0 \notin contested => \A q \in Procs : job'[q].at \notin {"port", "launch", "pid"}
    BY <2>1, <1>4, IdleForm, NoSteps, Types DEF Jobs, UpSteps, At
  <2>3. 0 \notin contested => \A q \in Procs : job'[q].cmd = "up" => At(q, "prepare")'
    BY <2>1, <1>4, IdleForm DEF At
  <2> QED
    BY <2>2, <2>3, <1>1 DEF ControlPlane
<1>13. Machines'
  BY <1>3, <1>6, <1>7, <1>1, IdleForm, MachinesCalm DEF Grow, Excused
<1> QED
  BY <1>4, <1>5, <1>8, <1>9, <1>11, <1>12, <1>13

-----------------------------------------------------------------------------
(* The goroutines of AddNode. *)

LEMMA ThreadGoes ==
  ASSUME Typed, Jobs, NEW p \in Procs, NEW t \in Threads, NEW s, At(p, "workers"), ThreadGoto(p, t, s),
         s \in Working \cup {"ok", "failed"},
         s \in Working => job[p].th[t].at \in Working \cup {"mkdir"}
  PROVE  \E m : /\ Hop(p, t, m) /\ m.at = s /\ m.n = job[p].th[t].n /\ m.id = job[p].th[t].id
                /\ m.cs = job[p].th[t].cs
<1>1. PICK m : m = [job[p].th[t] EXCEPT !.at = s]
  OBVIOUS
<1>2. job[p].th[t] \in ThreadType /\ job[p] \in JobType /\ job \in [Procs -> JobType]
  BY Types
<1>3. m \in ThreadType /\ m.at = s /\ m.n = job[p].th[t].n /\ m.id = job[p].th[t].id
      /\ m.cs = job[p].th[t].cs
  BY <1>1, <1>2 DEF ThreadType
<1>4. job' = [job EXCEPT ![p].th[t] = m]
  BY <1>1, <1>2 DEF ThreadGoto, JobType
<1>5. s \in Working => m.n # 0 /\ m.cs # NULL
  BY <1>3 DEF Jobs, JobForm
<1>6. ThreadForm(m)
  BY <1>3, <1>5 DEF ThreadForm, Working
<1> QED
  BY <1>3, <1>4, <1>6 DEF Hop

FlyingSteps == Working \cup {"mkdir"}
EarlySteps == {"mkdir", "port", "launch"}

\* A goroutine goes on with the index and the number it has.
Follows(m, th) ==
  m.at \in FlyingSteps =>
    /\ th.at \in FlyingSteps /\ m.id = th.id /\ m.n = th.n
    /\ m.at \in EarlySteps => th.at \in EarlySteps

LEMMA HopIds ==
  ASSUME Typed, Jobs, NEW p \in Procs, NEW t \in Threads, NEW m, Hop(p, t, m),
         Follows(m, job[p].th[t])
  PROVE  NoNewIds
<1>1. /\ job'[p].th[t] = m
      /\ \A q \in Procs : /\ job'[q].cmd = job[q].cmd /\ job'[q].at = job[q].at
                          /\ job'[q].id = job[q].id
      /\ \A q \in Procs, u \in Threads : q # p \/ u # t => job'[q].th[u] = job[q].th[u]
  BY Hops
<1>2. ASSUME NEW q \in Procs, NEW u \in Threads, Flying(q, u)'
      PROVE  /\ Flying(q, u) /\ (Early(q, u)' => Early(q, u))
             /\ job'[q].th[u].id = job[q].th[u].id /\ job'[q].th[u].n = job[q].th[u].n
  <2>1. CASE q = p /\ u = t
    BY <1>1, <1>2, <2>1 DEF Flying, Early, Th, At, Follows, FlyingSteps, EarlySteps
  <2>2. CASE q # p \/ u # t
    BY <1>1, <1>2, <2>2 DEF Flying, Early, Th, At
  <2> QED
    BY <2>1, <2>2
<1>3. \A q \in Procs : Booting(q)' =>
        Booting(q) /\ job'[q].id = job[q].id /\ (At(q, "launch")' => At(q, "launch"))
  BY <1>1 DEF Booting, At
<1> QED
  BY <1>2, <1>3 DEF NoNewIds

LEMMA TicketsHop ==
  ASSUME Typed, Jobs, Tickets, Distinct, NEW p \in Procs, NEW t \in Threads, NEW m, Hop(p, t, m),
         Follows(m, job[p].th[t]), Fewer, tickets' = tickets
  PROVE  Tickets' /\ Distinct'
<1>1. NoNewIds
  BY HopIds
<1>2. \A q \in Procs : job'[q].seen = job[q].seen /\ (At(q, "infra")' <=> At(q, "infra"))
  BY Hops DEF At
<1>3. SeesRunning
  BY <1>2 DEF SeesRunning, Tickets, Th
<1> QED
  BY <1>1, <1>3, TicketsStay, DistinctStays

LEMMA MutexHop ==
  ASSUME Typed, Jobs, Mutex, NEW p \in Procs, NEW t \in Threads, NEW m, Hop(p, t, m), m.at # "save"
  PROVE  /\ Mutex'
         /\ \A q \in Procs, u \in Threads : ThreadAt(q, u, "save")' =>
              ThreadAt(q, u, "save") /\ job'[q].th[u].cs = job[q].th[u].cs
<1>1. \A q \in Procs, u \in Threads : ThreadAt(q, u, "save")' =>
        ThreadAt(q, u, "save") /\ job'[q].th[u].cs = job[q].th[u].cs
  BY Hops DEF ThreadAt, At
<1> QED
  BY <1>1 DEF Mutex

LEMMA ControlHop ==
  ASSUME Typed, Jobs, ControlPlane, NEW p \in Procs, NEW t \in Threads, NEW m, Hop(p, t, m), Fewer,
         contested \subseteq contested', excused \subseteq excused', files'[0].port = files[0].port
  PROVE  ControlPlane'
<1>1. \A q \in Procs : /\ job'[q].cmd = job[q].cmd /\ job'[q].at = job[q].at
                       /\ job'[q].id = job[q].id
  BY Hops
<1>2. ControlKept
  BY <1>1 DEF ControlKept, At
<1> QED
  BY <1>2, ControlPlaneStays

LEMMA MachinesHop ==
  ASSUME Typed, Jobs, Machines, NEW p \in Procs, NEW t \in Threads, NEW m, Hop(p, t, m), Fewer, Grow,
         m.at = "join" => \A v \in vms' : v.id = m.id => Excused(v)' \/ files'[v.node].pid = v.id,
         \A v \in vms' : Excused(v)' \/ StillThere(v)
  PROVE  Machines'
<1>1. \A q \in Procs : /\ job'[q].cmd = job[q].cmd /\ job'[q].at = job[q].at
                       /\ job'[q].id = job[q].id /\ job'[q].seen = job[q].seen
  BY Hops
<1>2. \A q \in Procs, u \in Threads : ThreadAt(q, u, "join")' =>
        \/ ThreadAt(q, u, "join") /\ job'[q].th[u].id = job[q].th[u].id
        \/ \A v \in vms' : v.id = job'[q].th[u].id => Excused(v)' \/ files'[v.node].pid = v.id
  <2>1. /\ job'[p].th[t] = m
        /\ \A q \in Procs, u \in Threads : q # p \/ u # t => job'[q].th[u] = job[q].th[u]
    BY Hops
  <2> QED
    BY <1>1, <2>1 DEF ThreadAt, At
<1>3. NoNewClaim
  BY <1>1, <1>2 DEF NoNewClaim, NoNewSight, At
<1> QED
  BY <1>1, <1>3, MachinesStay DEF At

\* The index of the goroutine that moves, and the others.
LEMMA OwnedHop ==
  ASSUME Typed, Jobs, NEW p \in Procs, NEW t \in Threads, NEW m, Hop(p, t, m),
         Follows(m, job[p].th[t]), m.at \in FlyingSteps, \A k : k = m.n => Owned(k),
         ~(m.at \in EarlySteps) \/ \A v \in vms' : v.node # m.n,
         \A v \in vms' : v.node = m.n => v.id = m.id,
         m.at = "mkdir" => ~files'[m.n].dir,
         m.at # "join" => files'[m.n].pid = 0,
         m.at \in {"launch", "pid"} /\ files'[m.n].dir => files'[m.n].port = m.id
  PROVE  \A k : k = m.n => Owned(k)'
<1> SUFFICES ASSUME NEW k, k = m.n PROVE Owned(k)'
  OBVIOUS
<1>1. /\ job'[p].th[t] = m
      /\ \A q \in Procs : job'[q].at = job[q].at
      /\ \A q \in Procs, u \in Threads : q # p \/ u # t => job'[q].th[u] = job[q].th[u]
  BY Hops
<1>2. Flying(p, t) /\ Th(p, t).n = k
  BY DEF Flying, Th, Follows, FlyingSteps, Hop
<1>3. ASSUME NEW q \in Procs, NEW u \in Threads, Flying(q, u)', job'[q].th[u].n = k
      PROVE  q = p /\ u = t
  <2> SUFFICES ASSUME q # p \/ u # t PROVE FALSE
    OBVIOUS
  <2>1. Flying(q, u) /\ Th(q, u).n = k
    BY <1>1, <1>3 DEF Flying, Th, At
  <2> QED
    BY <1>2, <2>1 DEF Owned
<1>4. Early(p, t)' => m.at \in EarlySteps
  BY <1>1 DEF Early, Th, EarlySteps
<1> QED
  BY <1>1, <1>3, <1>4 DEF Owned, Th

LEMMA HopUntouched ==
  ASSUME Typed, Jobs, NEW p \in Procs, NEW t \in Threads, NEW m, Hop(p, t, m), NEW k \in Nodes,
         m.at \in FlyingSteps => m.n # k,
         files'[k] = files[k] \/ files'[k] = Gone
  PROVE  Untouched(k)
<1>1. /\ job'[p].th[t] = m
      /\ \A q \in Procs : job'[q].at = job[q].at
      /\ \A q \in Procs, u \in Threads : q # p \/ u # t => job'[q].th[u] = job[q].th[u]
  BY Hops
<1>2. ASSUME NEW q \in Procs, NEW u \in Threads, Flying(q, u)', job'[q].th[u].n = k
      PROVE  Flying(q, u) /\ (Early(q, u)' => Early(q, u)) /\ job'[q].th[u] = job[q].th[u]
  <2>1. q # p \/ u # t
    BY <1>1, <1>2 DEF Flying, Th, FlyingSteps
  <2> QED
    BY <2>1, <1>1, <1>2 DEF Flying, Early, Th, At
<1> QED
  BY <1>2 DEF Untouched

LEMMA IndicesHop ==
  ASSUME Typed, Jobs, Indices, NEW p \in Procs, NEW t \in Threads, NEW m, Hop(p, t, m),
         Follows(m, job[p].th[t]), Fewer, contested \subseteq contested', json' = json, writer' = writer,
         \A q \in Procs, u \in Threads : ThreadAt(q, u, "save")' =>
           ThreadAt(q, u, "save") /\ job'[q].th[u].cs = job[q].th[u].cs,
         \A k \in Nodes \ {0} : k # m.n \/ m.at \notin FlyingSteps =>
           files'[k] = files[k] \/ files'[k] = Gone,
         m.at \in FlyingSteps /\ m.n \notin contested' => \A k : k = m.n => Owned(k)'
  PROVE  Indices'
<1>1. NoNewIds
  BY HopIds
<1>2. ASSUME NEW k \in Nodes \ {0}, InUse(k)' PROVE InUse(k)
  <2>1. files'[k].dir => InUse(k)
    <3>1. CASE k # m.n \/ m.at \notin FlyingSteps
      BY <3>1 DEF InUse, Gone
    <3>2. CASE k = m.n /\ m.at \in FlyingSteps
      BY <3>2 DEF InUse, Flying, Th, Follows, FlyingSteps, Hop
    <3> QED
      BY <3>1, <3>2
  <2> QED
    BY <1>1, <1>2, <2>1, InUseStays DEF NoNewIds
<1>3. NoNewIndex
  BY <1>2 DEF NoNewIndex
<1> SUFFICES ASSUME NEW k \in Nodes \ {0}, k \notin contested'
             PROVE  Owned(k)' /\ Ordered(k)'
  BY DEF Indices
<1>4. Owned(k) /\ Ordered(k)
  BY DEF Indices
<1>5. Ordered(k)'
  BY <1>3, <1>4, OrderedStays
<1>6. CASE m.at \in FlyingSteps /\ k = m.n
  BY <1>5, <1>6
<1>7. CASE ~(m.at \in FlyingSteps /\ k = m.n)
  <2>1. Untouched(k)
    BY <1>7, HopUntouched
  <2> QED
    BY <2>1, <1>4, <1>5, OwnedStays
<1> QED
  BY <1>6, <1>7

LEMMA LoadIInv == ASSUME IInv, NEW p \in Procs, NEW t \in Threads, Load(p, t) PROVE IInv'
<1> USE DEF IInv
<1>1. PICK m : m = [job[p].th[t] EXCEPT !.at = "save", !.n = json.next, !.cs = json]
  OBVIOUS
<1>2. /\ At(p, "workers") /\ job[p].th[t].at = "load" /\ json # NULL /\ json.next <= MaxIdx
      /\ \A u \in Threads : ~ThreadAt(p, u, "save")
      /\ job' = [job EXCEPT ![p].th[t] = [@ EXCEPT !.at = "save", !.n = json.next, !.cs = json]]
      /\ files' = files /\ json' = json /\ vms' = vms /\ tickets' = tickets
      /\ contested' = contested /\ excused' = excused /\ writer' = writer
      /\ kubeconfig' = kubeconfig /\ row' = row /\ commands' = commands /\ faults' = faults
  BY DEF Load, ThreadAt, history, Same, NoFault
<1>3. /\ json \in [next : 1 .. MaxIdx + 1, cp : Ids] /\ json.next \in 1 .. MaxIdx
      /\ json \in [next : 1 .. MaxIdx, cp : Ids]
  <2>1. json \in [next : 1 .. MaxIdx + 1, cp : Ids]
    BY <1>2 DEF Typed, TypeOK
  <2> QED
    BY <2>1, <1>2, QemuAssumption
<1>4. job[p].th[t] \in ThreadType /\ job[p] \in JobType /\ job \in [Procs -> JobType]
  BY Types
<1>5. m \in ThreadType /\ m.at = "save" /\ m.n = json.next /\ m.cs = json /\ m.id = job[p].th[t].id
  <2>1. json.next \in Nodes /\ json \in {NULL} \cup [next : 1 .. MaxIdx, cp : Ids]
    BY <1>3, QemuAssumption DEF Nodes
  <2> QED
    BY <1>1, <1>4, <2>1 DEF ThreadType, Working
<1>6. job' = [job EXCEPT ![p].th[t] = m]
  BY <1>1, <1>2, <1>4 DEF JobType
<1>7. ThreadForm(m)
  <2>1. job[p].th[t].id = 0
    BY <1>2 DEF Jobs, JobForm
  <2> QED
    BY <2>1, <1>2, <1>3, <1>5 DEF ThreadForm, Working
<1>8. Hop(p, t, m)
  BY <1>2, <1>5, <1>6, <1>7 DEF Hop
<1>9. /\ job' \in [Procs -> JobType] /\ Jobs' /\ job'[p].th[t] = m
      /\ \A q \in Procs : job'[q].at = job[q].at
      /\ \A q \in Procs, u \in Threads : q # p \/ u # t => job'[q].th[u] = job[q].th[u]
  BY <1>8, Hops
<1>10. \A q \in Procs, u \in Threads : ThreadAt(q, u, "save")' =>
         \/ q = p /\ u = t
         \/ ThreadAt(q, u, "save") /\ job'[q].th[u] = job[q].th[u]
  BY <1>9 DEF ThreadAt, At
<1>11. Mutex'
  BY <1>2, <1>10 DEF Mutex
<1>12. Follows(m, job[p].th[t])
  BY <1>5 DEF Follows, FlyingSteps, Working
<1>13. Fewer
  BY <1>2, SubsetFewer
<1>14. Typed'
  <2>1. /\ json \in {NULL} \cup [next : 1 .. MaxIdx + 1, cp : Ids] /\ vms \in SUBSET VMs
        /\ tickets \in 0 .. MaxVMs
        /\ contested \in SUBSET Nodes /\ excused \in SUBSET Ids /\ writer \in {NULL} \cup Procs
    BY DEF Typed, TypeOK
  <2> QED
    BY <1>2, <1>9, <1>11, <2>1, Counters, StepTyped
<1>15. Tickets' /\ Distinct'
  BY <1>2, <1>8, <1>12, <1>13, TicketsHop
<1>16. ControlPlane'
  BY <1>2, <1>8, <1>13, ControlHop
<1>17. Machines'
  BY <1>2, <1>5, <1>8, <1>13, Stay, MachinesHop DEF Grow
<1>18. ASSUME NEW k \in Nodes \ {0}, k \notin contested' PROVE Owned(k)' /\ Ordered(k)'
  <2>1. Owned(k) /\ Ordered(k)
    BY <1>2, <1>18 DEF Indices
  <2>2. Untouched(k)
    BY <1>2, <1>5, <1>8, HopUntouched DEF FlyingSteps, Working
  <2>3. Owned(k)'
    BY <2>1, <2>2, <1>13, OwnedStays
  <2>4. NoNewIds
    BY <1>8, <1>12, HopIds
  <2>5. InUse(k)' => InUse(k)
    BY <2>4, <1>2, <1>13, InUseStays DEF NoNewIds, InUse
  <2>6. ASSUME InUse(k)'
        PROVE  /\ json' # NULL => k < json'.next
               /\ \A q \in Procs, u \in Threads :
                    ThreadAt(q, u, "save")' /\ writer' = q => k < job'[q].th[u].cs.next
    <3>1. /\ json # NULL => k < json.next
          /\ \A q \in Procs, u \in Threads :
               ThreadAt(q, u, "save") /\ writer = q => k < job[q].th[u].cs.next
      BY <2>1, <2>5, <2>6 DEF Ordered, Th
    <3> QED
      BY <3>1, <1>2, <1>5, <1>9, <1>10
  <2> QED
    BY <2>3, <2>6 DEF Ordered, Th
<1>19. Indices'
  BY <1>18 DEF Indices
<1> QED
  BY <1>9, <1>11, <1>14, <1>15, <1>16, <1>17, <1>19

\* What a goroutine between mkdir and join knows, unless its index is in doubt.
LEMMA Mine ==
  ASSUME IInv, NEW p \in Procs, NEW t \in Threads, At(p, "workers"),
         job[p].th[t].at \in FlyingSteps
  PROVE  /\ Flying(p, t) /\ job[p].th[t].n \in Nodes \ {0} /\ job[p].th[t].id \in Ids
         /\ job[p].th[t].cs \in [next : 1 .. MaxIdx, cp : Ids]
         /\ \A v \in vms : v.id = job[p].th[t].id => v.node = job[p].th[t].n /\ v.joined = 0
         /\ job[p].th[t].n \notin contested =>
              /\ \A k : k = job[p].th[t].n => Owned(k)
              /\ job[p].th[t].at \in EarlySteps => \A v \in vms : v.node # job[p].th[t].n
              /\ \A v \in vms : v.node = job[p].th[t].n => v.id = job[p].th[t].id
              /\ job[p].th[t].at = "mkdir" => ~files[job[p].th[t].n].dir
              /\ job[p].th[t].at # "join" => files[job[p].th[t].n].pid = 0
              /\ job[p].th[t].at \in {"launch", "pid"} /\ files[job[p].th[t].n].dir =>
                   files[job[p].th[t].n].port = job[p].th[t].id
<1> DEFINE n == job[p].th[t].n
<1> USE DEF IInv
<1>1. Flying(p, t)
  BY DEF Flying, Th, FlyingSteps
<1>2. job[p].th[t] \in ThreadType
  BY Types
<1>3. n \in Nodes \ {0} /\ job[p].th[t].cs # NULL
  BY <1>2 DEF Jobs, JobForm, FlyingSteps, ThreadType
<1>4. job[p].th[t].cs \in [next : 1 .. MaxIdx, cp : Ids]
  BY <1>2, <1>3 DEF ThreadType
<1>5. 0 < job[p].th[t].id /\ \A v \in vms : v.id = job[p].th[t].id => v.node = n /\ v.joined = 0
  BY <1>1 DEF Tickets, Th
<1>6. job[p].th[t].id \in Ids
  BY <1>2, <1>5 DEF ThreadType
<1>7. ASSUME n \notin contested
      PROVE  /\ \A k : k = n => Owned(k)
             /\ job[p].th[t].at \in EarlySteps => \A v \in vms : v.node # n
             /\ \A v \in vms : v.node = n => v.id = job[p].th[t].id
             /\ job[p].th[t].at = "mkdir" => ~files[n].dir
             /\ job[p].th[t].at # "join" => files[n].pid = 0
             /\ job[p].th[t].at \in {"launch", "pid"} /\ files[n].dir =>
                  files[n].port = job[p].th[t].id
  <2>1. PICK k : k = n
    OBVIOUS
  <2>2. Owned(k)
    BY <2>1, <1>3, <1>7 DEF Indices
  <2>3. job[p].th[t].at \in EarlySteps => Early(p, t)
    BY <1>1 DEF Early, Th, EarlySteps
  <2> QED
    BY <2>1, <2>2, <2>3, <1>1 DEF Owned, Th
<1> QED
  BY <1>1, <1>3, <1>4, <1>5, <1>6, <1>7

LEMMA MakeDirIInv == ASSUME IInv, NEW p \in Procs, NEW t \in Threads, MakeDir(p, t) PROVE IInv'
<1> USE DEF IInv
<1>1. /\ At(p, "workers") /\ job[p].th[t].at = "mkdir" /\ ThreadGoto(p, t, "port")
      /\ files' = [files EXCEPT ![0].dir = TRUE, ![job[p].th[t].n].dir = TRUE]
      /\ json' = json /\ vms' = vms /\ tickets' = tickets
      /\ contested' = contested /\ excused' = excused /\ writer' = writer
      /\ kubeconfig' = kubeconfig /\ row' = row /\ commands' = commands /\ faults' = faults
  BY DEF MakeDir, ThreadAt, history, Same, NoFault
<1>2. PICK m : Hop(p, t, m) /\ m.at = "port" /\ m.n = job[p].th[t].n /\ m.id = job[p].th[t].id
  BY <1>1, ThreadGoes DEF Working
<1>3. /\ m.n \in Nodes \ {0}
      /\ m.n \notin contested =>
           /\ \A k : k = m.n => Owned(k)
           /\ \A v \in vms : v.node # m.n
           /\ files[m.n].pid = 0
  <2>1. job[p].th[t].at \in FlyingSteps /\ job[p].th[t].at \in EarlySteps
    BY <1>1 DEF FlyingSteps, EarlySteps
  <2>2. /\ job[p].th[t].n \in Nodes \ {0}
        /\ job[p].th[t].n \notin contested =>
             /\ \A k : k = job[p].th[t].n => Owned(k)
             /\ \A v \in vms : v.node # job[p].th[t].n
             /\ files[job[p].th[t].n].pid = 0
    BY <1>1, <2>1, Mine
  <2> QED
    BY <2>2, <1>2
<1>4. job' \in [Procs -> JobType] /\ Jobs'
  BY <1>2, Hops
<1>5. Follows(m, job[p].th[t])
  BY <1>1, <1>2 DEF Follows, FlyingSteps, EarlySteps
<1>6. /\ Mutex'
      /\ \A q \in Procs, u \in Threads : ThreadAt(q, u, "save")' =>
           ThreadAt(q, u, "save") /\ job'[q].th[u].cs = job[q].th[u].cs
  BY <1>2, MutexHop
<1>7. Fewer
  BY <1>1, SubsetFewer
<1>8. files \in [Nodes -> [dir : BOOLEAN, port : {0} \cup Ids, pid : {0} \cup Ids]]
      /\ (\A k \in Nodes : ~files[k].dir => files[k] = Gone)
  BY DEF Typed, TypeOK
<1>9. /\ files' \in [Nodes -> [dir : BOOLEAN, port : {0} \cup Ids, pid : {0} \cup Ids]]
      /\ \A k \in Nodes : ~files'[k].dir => files'[k] = Gone
      /\ \A k \in Nodes : files'[k].pid = files[k].pid /\ files'[k].port = files[k].port
      /\ \A k \in Nodes \ {0} : k # m.n => files'[k] = files[k]
  BY <1>1, <1>2, <1>3, <1>8, NodesAre
<1>10. Typed'
  BY <1>1, <1>4, <1>6, <1>9 DEF Typed, TypeOK, Mutex
<1>11. Tickets' /\ Distinct'
  BY <1>1, <1>2, <1>5, <1>7, TicketsHop
<1>12. ControlPlane'
  BY <1>1, <1>2, <1>7, <1>9, NodesAre, ControlHop
<1>13. \A v \in vms' : StillThere(v)
  BY <1>1, <1>9, Types DEF StillThere, Found
<1>14. Machines'
  BY <1>1, <1>2, <1>7, <1>13, MachinesHop DEF Grow
<1>15. m.n \notin contested => \A k : k = m.n => Owned(k)'
  <2> SUFFICES ASSUME m.n \notin contested PROVE \A k : k = m.n => Owned(k)'
    OBVIOUS
  <2>1. \A k : k = m.n => Owned(k)
    BY <1>3
  <2>2. files'[m.n].pid = 0
    BY <1>3, <1>9
  <2>3. m.at \in FlyingSteps
    BY <1>2 DEF FlyingSteps, Working
  <2>4. \A v \in vms' : v.node # m.n
    BY <1>1, <1>3
  <2> HIDE DEF IInv
  <2>5. Typed /\ Jobs
    BY DEF IInv
  <2> QED
    BY <2>1, <2>2, <2>3, <2>4, <2>5, <1>2, <1>5, OwnedHop
<1>16. Indices'
  BY <1>1, <1>2, <1>5, <1>6, <1>7, <1>9, <1>15, IndicesHop DEF FlyingSteps, Working
<1> QED
  BY <1>4, <1>6, <1>10, <1>11, <1>12, <1>14, <1>16

LEMMA WritePortIInv == ASSUME IInv, NEW p \in Procs, NEW t \in Threads, WritePort(p, t) PROVE IInv'
<1> USE DEF IInv
<1>1. /\ At(p, "workers") /\ job[p].th[t].at = "port" /\ ThreadGoto(p, t, "launch")
      /\ files[job[p].th[t].n].dir
      /\ files' = [files EXCEPT ![job[p].th[t].n].port = job[p].th[t].id]
      /\ json' = json /\ vms' = vms /\ tickets' = tickets
      /\ contested' = contested /\ excused' = excused /\ writer' = writer
      /\ kubeconfig' = kubeconfig /\ row' = row /\ commands' = commands /\ faults' = faults
  BY DEF WritePort, ThreadAt, history, Same, NoFault
<1>2. PICK m : Hop(p, t, m) /\ m.at = "launch" /\ m.n = job[p].th[t].n /\ m.id = job[p].th[t].id
  BY <1>1, ThreadGoes DEF Working
<1>3. /\ m.n \in Nodes \ {0} /\ m.id \in Ids
      /\ m.n \notin contested =>
           /\ \A k : k = m.n => Owned(k)
           /\ \A v \in vms : v.node # m.n
           /\ files[m.n].pid = 0
  <2>1. job[p].th[t].at \in FlyingSteps /\ job[p].th[t].at \in EarlySteps
    BY <1>1 DEF FlyingSteps, EarlySteps, Working
  <2>2. /\ job[p].th[t].n \in Nodes \ {0} /\ job[p].th[t].id \in Ids
        /\ job[p].th[t].n \notin contested =>
             /\ \A k : k = job[p].th[t].n => Owned(k)
             /\ \A v \in vms : v.node # job[p].th[t].n
             /\ files[job[p].th[t].n].pid = 0
    BY <1>1, <2>1, Mine
  <2> QED
    BY <2>2, <1>2
<1>4. job' \in [Procs -> JobType] /\ Jobs'
  BY <1>2, Hops
<1>5. m.at \in FlyingSteps /\ Follows(m, job[p].th[t])
  BY <1>1, <1>2 DEF Follows, FlyingSteps, EarlySteps, Working
<1>6. /\ Mutex'
      /\ \A q \in Procs, u \in Threads : ThreadAt(q, u, "save")' =>
           ThreadAt(q, u, "save") /\ job'[q].th[u].cs = job[q].th[u].cs
  BY <1>2, MutexHop
<1>7. Fewer
  BY <1>1, SubsetFewer
<1>8. files \in [Nodes -> [dir : BOOLEAN, port : {0} \cup Ids, pid : {0} \cup Ids]]
  BY DEF Typed, TypeOK
<1>9. /\ files'[m.n].port = m.id /\ files'[m.n].pid = files[m.n].pid
      /\ \A k \in Nodes : k # m.n => files'[k] = files[k]
  BY <1>1, <1>2, <1>3, <1>8
<1>10. Typed'
  <2>1. /\ json \in {NULL} \cup [next : 1 .. MaxIdx + 1, cp : Ids] /\ vms \in SUBSET VMs
        /\ tickets \in 0 .. MaxVMs
        /\ contested \in SUBSET Nodes /\ excused \in SUBSET Ids /\ writer \in {NULL} \cup Procs
    BY DEF Typed, TypeOK
  <2>2. files[m.n].dir /\ files' = [files EXCEPT ![m.n].port = m.id]
    BY <1>1, <1>2
  <2> QED
    BY <1>1, <1>3, <1>4, <1>6, <2>1, <2>2, Counters, StepTyped
<1>11. Tickets' /\ Distinct'
  BY <1>1, <1>2, <1>5, <1>7, TicketsHop
<1>12. ControlPlane'
  BY <1>1, <1>2, <1>3, <1>7, <1>9, NodesAre, ControlHop
<1>13. ASSUME NEW v \in vms' PROVE Excused(v)' \/ StillThere(v)
  <2>1. v \in vms /\ v.node \in Nodes
    BY <1>1, Types
  <2>2. CASE v.node = m.n
    BY <2>1, <2>2, <1>1, <1>3 DEF Excused
  <2>3. CASE v.node # m.n
    BY <2>1, <2>3, <1>9 DEF StillThere, Found
  <2> QED
    BY <2>2, <2>3
<1>14. Machines'
  BY <1>1, <1>2, <1>7, <1>13, MachinesHop DEF Grow
<1>15. m.n \notin contested => \A k : k = m.n => Owned(k)'
  <2> SUFFICES ASSUME m.n \notin contested PROVE \A k : k = m.n => Owned(k)'
    OBVIOUS
  <2>1. \A k : k = m.n => Owned(k)
    BY <1>3
  <2>2. files'[m.n].pid = 0 /\ files'[m.n].port = m.id /\ \A v \in vms' : v.node # m.n
    BY <1>1, <1>3, <1>9
  <2> HIDE DEF IInv
  <2>3. Typed /\ Jobs
    BY DEF IInv
  <2> QED
    BY <2>1, <2>2, <2>3, <1>2, <1>5, OwnedHop
<1>16. Indices'
  BY <1>1, <1>2, <1>5, <1>6, <1>7, <1>9, <1>15, IndicesHop
<1> QED
  BY <1>4, <1>6, <1>10, <1>11, <1>12, <1>14, <1>16

LEMMA WritePidIInv == ASSUME IInv, NEW p \in Procs, NEW t \in Threads, WritePid(p, t) PROVE IInv'
<1> USE DEF IInv
<1>1. /\ At(p, "workers") /\ job[p].th[t].at = "pid" /\ ThreadGoto(p, t, "join")
      /\ files[job[p].th[t].n].dir
      /\ files' = [files EXCEPT ![job[p].th[t].n].pid = job[p].th[t].id]
      /\ json' = json /\ vms' = vms /\ tickets' = tickets
      /\ contested' = contested /\ excused' = excused /\ writer' = writer
      /\ kubeconfig' = kubeconfig /\ row' = row /\ commands' = commands /\ faults' = faults
  BY DEF WritePid, ThreadAt, history, Same, NoFault
<1>2. PICK m : Hop(p, t, m) /\ m.at = "join" /\ m.n = job[p].th[t].n /\ m.id = job[p].th[t].id
  BY <1>1, ThreadGoes DEF Working
<1>3. /\ m.n \in Nodes \ {0} /\ m.id \in Ids
      /\ \A v \in vms : v.id = m.id => v.node = m.n
      /\ m.n \notin contested =>
           /\ \A k : k = m.n => Owned(k)
           /\ \A v \in vms : v.node = m.n => v.id = m.id
  <2>1. job[p].th[t].at \in FlyingSteps
    BY <1>1 DEF FlyingSteps, Working
  <2>2. /\ job[p].th[t].n \in Nodes \ {0} /\ job[p].th[t].id \in Ids
        /\ \A v \in vms : v.id = job[p].th[t].id => v.node = job[p].th[t].n
        /\ job[p].th[t].n \notin contested =>
             /\ \A k : k = job[p].th[t].n => Owned(k)
             /\ \A v \in vms : v.node = job[p].th[t].n => v.id = job[p].th[t].id
    BY <1>1, <2>1, Mine
  <2> QED
    BY <2>2, <1>2
<1>4. job' \in [Procs -> JobType] /\ Jobs'
  BY <1>2, Hops
<1>5. m.at \in FlyingSteps /\ m.at \notin EarlySteps /\ Follows(m, job[p].th[t])
  BY <1>1, <1>2 DEF Follows, FlyingSteps, EarlySteps, Working
<1>6. /\ Mutex'
      /\ \A q \in Procs, u \in Threads : ThreadAt(q, u, "save")' =>
           ThreadAt(q, u, "save") /\ job'[q].th[u].cs = job[q].th[u].cs
  BY <1>2, MutexHop
<1>7. Fewer
  BY <1>1, SubsetFewer
<1>8. files \in [Nodes -> [dir : BOOLEAN, port : {0} \cup Ids, pid : {0} \cup Ids]]
  BY DEF Typed, TypeOK
<1>9. /\ files'[m.n].pid = m.id
      /\ \A k \in Nodes : k # m.n => files'[k] = files[k]
  BY <1>1, <1>2, <1>3, <1>8
<1>10. Typed'
  <2>1. /\ json \in {NULL} \cup [next : 1 .. MaxIdx + 1, cp : Ids] /\ vms \in SUBSET VMs
        /\ tickets \in 0 .. MaxVMs
        /\ contested \in SUBSET Nodes /\ excused \in SUBSET Ids /\ writer \in {NULL} \cup Procs
    BY DEF Typed, TypeOK
  <2>2. files[m.n].dir /\ files' = [files EXCEPT ![m.n].pid = m.id]
    BY <1>1, <1>2
  <2> QED
    BY <1>1, <1>3, <1>4, <1>6, <2>1, <2>2, Counters, StepTyped
<1>11. Tickets' /\ Distinct'
  BY <1>1, <1>2, <1>5, <1>7, TicketsHop
<1>12. ControlPlane'
  BY <1>1, <1>2, <1>3, <1>7, <1>9, NodesAre, ControlHop
<1>13. ASSUME NEW v \in vms' PROVE Excused(v)' \/ StillThere(v)
  <2>1. v \in vms /\ v.node \in Nodes
    BY <1>1, Types
  <2>2. CASE v.node = m.n
    <3>1. Excused(v)' \/ v.id = m.id
      BY <2>1, <2>2, <1>1, <1>3 DEF Excused
    <3> QED
      BY <3>1, <2>2, <1>3, <1>9, NodesAre DEF StillThere, Found
  <2>3. CASE v.node # m.n
    BY <2>1, <2>3, <1>9 DEF StillThere, Found
  <2> QED
    BY <2>2, <2>3
<1>14. \A v \in vms' : v.id = m.id => files'[v.node].pid = v.id
  BY <1>1, <1>3, <1>9
<1>15. Machines'
  BY <1>1, <1>2, <1>7, <1>13, <1>14, MachinesHop DEF Grow
<1>16. m.n \notin contested => \A k : k = m.n => Owned(k)'
  <2> SUFFICES ASSUME m.n \notin contested PROVE \A k : k = m.n => Owned(k)'
    OBVIOUS
  <2>1. \A k : k = m.n => Owned(k)
    BY <1>3
  <2>2. \A v \in vms' : v.node = m.n => v.id = m.id
    BY <1>1, <1>3
  <2> HIDE DEF IInv
  <2>3. Typed /\ Jobs
    BY DEF IInv
  <2> QED
    BY <2>1, <2>2, <2>3, <1>2, <1>5, OwnedHop
<1>17. Indices'
  BY <1>1, <1>2, <1>5, <1>6, <1>7, <1>9, <1>16, IndicesHop
<1> QED
  BY <1>4, <1>6, <1>10, <1>11, <1>12, <1>15, <1>17

LEMMA JoinIInv == ASSUME IInv, NEW p \in Procs, NEW t \in Threads, Join(p, t) PROVE IInv'
<1> USE DEF IInv
<1>1. PICK i, n, cp : i = job[p].th[t].id /\ n = job[p].th[t].n /\ cp = job[p].th[t].cs.cp
  OBVIOUS
<1>2. /\ At(p, "workers") /\ job[p].th[t].at = "join" /\ ThreadGoto(p, t, "ok") /\ Running(i)
      /\ vms' = Killed(i) \cup {[id |-> i, node |-> n, joined |-> cp]}
      /\ files' = files /\ json' = json /\ tickets' = tickets
      /\ contested' = contested /\ excused' = excused /\ writer' = writer
      /\ kubeconfig' = kubeconfig /\ row' = row /\ commands' = commands /\ faults' = faults
  BY <1>1 DEF Join, ThreadAt, history, Same, NoFault
<1>3. /\ Flying(p, t) /\ n \in Nodes \ {0} /\ i \in Ids /\ cp \in Ids
      /\ \A v \in vms : v.id = i => v.node = n
  <2>1. job[p].th[t].at \in FlyingSteps
    BY <1>2 DEF FlyingSteps, Working
  <2> QED
    BY <1>1, <1>2, <2>1, Mine
<1>4. PICK m : Hop(p, t, m) /\ m.at = "ok"
  BY <1>2, ThreadGoes DEF Working
<1>5. /\ job' \in [Procs -> JobType] /\ Jobs' /\ job'[p].th[t] = m
  BY <1>4, Hops
<1>6. m.at \notin FlyingSteps /\ Follows(m, job[p].th[t])
  BY <1>4 DEF Follows, FlyingSteps, Working
<1>7. /\ Mutex'
      /\ \A q \in Procs, u \in Threads : ThreadAt(q, u, "save")' =>
           ThreadAt(q, u, "save") /\ job'[q].th[u].cs = job[q].th[u].cs
  BY <1>4, MutexHop
<1>8. PICK new : new = [id |-> i, node |-> n, joined |-> cp]
  OBVIOUS
<1>9. vms' = Killed(i) \cup {new} /\ new.id = i /\ new.node = n
  BY <1>2, <1>8
<1>10. PICK old \in vms : old.id = i /\ old.node = n
  BY <1>2, <1>3 DEF Running, IdsOf
<1>11. Settled(new)
  <2>1. ASSUME NEW q \in Procs, NEW u \in Threads, Flying(q, u)', job'[q].th[u].id = i PROVE FALSE
    <3>1. Flying(q, u) /\ job[q].th[u].id = i
      BY <1>4, <1>6, <2>1, HopIds DEF NoNewIds
    <3>2. q = p /\ u = t
      BY <3>1, <1>1, <1>3 DEF Distinct, Th
    <3> QED
      BY <3>2, <2>1, <1>5, <1>6 DEF Flying, Th, FlyingSteps
  <2>2. Excused(new)' \/ files'[new.node].pid = new.id
    <3>1. Recorded(old) /\ ThreadAt(p, t, "join")
      BY <1>2, <1>10 DEF Machines, ThreadAt
    <3> QED
      BY <3>1, <1>1, <1>2, <1>9, <1>10 DEF Recorded, Excused, Th
  <2> QED
    BY <2>1, <2>2, <1>9 DEF Settled
<1>12. Fewer
  <2>1. \A v \in vms' : v = new \/ (v \in vms /\ v.id # i)
    BY <1>9 DEF Killed
  <2>2. \A v, w \in vms' : v.id = w.id => v = w
    BY <2>1, <1>9 DEF Tickets
  <2> QED
    BY <2>1, <2>2, <1>9, <1>10, <1>11 DEF Fewer
<1>13. Typed'
  <2>1. /\ json \in {NULL} \cup [next : 1 .. MaxIdx + 1, cp : Ids] /\ vms \in SUBSET VMs
        /\ tickets \in 0 .. MaxVMs
        /\ contested \in SUBSET Nodes /\ excused \in SUBSET Ids /\ writer \in {NULL} \cup Procs
    BY DEF Typed, TypeOK
  <2>2. new \in VMs
    BY <1>3, <1>8 DEF VMs
  <2>3. vms' \in SUBSET VMs
    BY <1>9, <2>1, <2>2 DEF Killed
  <2> QED
    BY <1>2, <1>5, <1>7, <2>1, <2>3, Counters, StepTyped
<1>14. Tickets' /\ Distinct'
  BY <1>2, <1>4, <1>6, <1>12, TicketsHop
<1>15. ControlPlane'
  BY <1>2, <1>4, <1>12, ControlHop
<1>16. Machines'
  BY <1>2, <1>4, <1>12, Stay, MachinesHop DEF Grow
<1>17. Indices'
  BY <1>2, <1>4, <1>6, <1>7, <1>12, IndicesHop
<1> QED
  BY <1>5, <1>7, <1>13, <1>14, <1>15, <1>16, <1>17

LEMMA ThreadFailsIInv == ASSUME IInv, NEW p \in Procs, NEW t \in Threads, ThreadFails(p, t) PROVE IInv'
<1> USE DEF IInv
<1>1. PICK i, n : i = job[p].th[t].id /\ n = job[p].th[t].n
  OBVIOUS
<1>2. /\ At(p, "workers") /\ ThreadGoto(p, t, "failed")
      /\ vms' = Killed(i)
      /\ files' = IF job[p].th[t].at \in Working THEN [files EXCEPT ![n] = Gone] ELSE files
      /\ json' = json /\ tickets' = tickets
      /\ contested' = contested /\ excused' = excused /\ writer' = writer
      /\ kubeconfig' = kubeconfig /\ row' = row /\ commands' = commands
      /\ faults' \in 0 .. MaxFaults
  BY <1>1, Counters DEF ThreadFails, history, Same, NoFault, Fault
<1>3. job[p].th[t].at \in Working =>
        /\ n \in Nodes \ {0}
        /\ n \notin contested => \A v \in vms : v.node = n => v.id = i
  <2>1. job[p].th[t].at \in Working => job[p].th[t].at \in FlyingSteps
    BY DEF FlyingSteps
  <2> QED
    BY <1>1, <1>2, <2>1, Mine
<1>4. PICK m : Hop(p, t, m) /\ m.at = "failed"
  BY <1>2, ThreadGoes DEF Working
<1>5. /\ job' \in [Procs -> JobType] /\ Jobs'
  BY <1>4, Hops
<1>6. m.at \notin FlyingSteps /\ Follows(m, job[p].th[t])
  BY <1>4 DEF Follows, FlyingSteps, Working
<1>7. /\ Mutex'
      /\ \A q \in Procs, u \in Threads : ThreadAt(q, u, "save")' =>
           ThreadAt(q, u, "save") /\ job'[q].th[u].cs = job[q].th[u].cs
  BY <1>4, MutexHop
<1>8. vms' \subseteq vms /\ Fewer
  BY <1>2, SubsetFewer DEF Killed
<1>9. files \in [Nodes -> [dir : BOOLEAN, port : {0} \cup Ids, pid : {0} \cup Ids]]
  BY DEF Typed, TypeOK
<1>10. /\ files'[0] = files[0]
       /\ \A k \in Nodes \ {0} : files'[k] = files[k] \/ files'[k] = Gone
       /\ \A k \in Nodes : files'[k] = files[k] \/ (k = n /\ job[p].th[t].at \in Working)
  BY <1>2, <1>3, <1>9, NodesAre
<1>11. Typed'
  <2>1. /\ json \in {NULL} \cup [next : 1 .. MaxIdx + 1, cp : Ids] /\ vms' \in SUBSET VMs
        /\ tickets \in 0 .. MaxVMs
        /\ contested \in SUBSET Nodes /\ excused \in SUBSET Ids /\ writer \in {NULL} \cup Procs
    BY <1>8 DEF Typed, TypeOK
  <2>2. files' = files \/ \E k \in Nodes : files' = [files EXCEPT ![k] = Gone]
    BY <1>2, <1>3
  <2>3. 0 \in {0} \cup Ids
    OBVIOUS
  <2> QED
    BY <1>2, <1>5, <1>7, <2>1, <2>2, <2>3, Counters, StepTyped
<1>12. Tickets' /\ Distinct'
  BY <1>2, <1>4, <1>6, <1>8, TicketsHop
<1>13. ControlPlane'
  BY <1>2, <1>4, <1>8, <1>10, ControlHop
<1>14. ASSUME NEW v \in vms' PROVE Excused(v)' \/ StillThere(v)
  <2>1. v \in vms /\ v.node \in Nodes /\ v.id # i
    BY <1>2, <1>8, Types DEF Killed
  <2>2. CASE v.node = n /\ job[p].th[t].at \in Working
    BY <2>1, <2>2, <1>2, <1>3 DEF Excused
  <2>3. CASE ~(v.node = n /\ job[p].th[t].at \in Working)
    BY <2>1, <2>3, <1>10 DEF StillThere, Found
  <2> QED
    BY <2>2, <2>3
<1>15. Machines'
  BY <1>2, <1>4, <1>8, <1>14, MachinesHop DEF Grow
<1>16. Indices'
  BY <1>2, <1>4, <1>6, <1>7, <1>8, <1>10, IndicesHop
<1> QED
  BY <1>5, <1>7, <1>11, <1>12, <1>13, <1>15, <1>16

LEMMA LaunchIInv == ASSUME IInv, NEW p \in Procs, NEW t \in Threads, Launch(p, t) PROVE IInv'
<1> USE DEF IInv
<1>1. PICK i, n : i = job[p].th[t].id /\ n = job[p].th[t].n
  OBVIOUS
<1>2. /\ At(p, "workers") /\ job[p].th[t].at = "launch" /\ ThreadGoto(p, t, "pid")
      /\ files[n].dir
      /\ vms' = vms \cup {[id |-> i, node |-> n, joined |-> 0]}
      /\ files' = files /\ json' = json /\ tickets' = tickets
      /\ contested' = contested /\ excused' = excused /\ writer' = writer
      /\ kubeconfig' = kubeconfig /\ row' = row /\ commands' = commands /\ faults' = faults
  BY <1>1 DEF Launch, ThreadAt, history, Same, NoFault
<1>3. PICK m : Hop(p, t, m) /\ m.at = "pid" /\ m.n = n /\ m.id = i
  BY <1>1, <1>2, ThreadGoes DEF Working
<1>4. /\ Flying(p, t) /\ n \in Nodes \ {0} /\ i \in Ids
      /\ n \notin contested =>
           /\ \A k : k = n => Owned(k)
           /\ \A v \in vms : v.node # n
           /\ files[n].pid = 0 /\ files[n].port = i
  <2>1. job[p].th[t].at \in FlyingSteps /\ job[p].th[t].at \in EarlySteps
    BY <1>2 DEF FlyingSteps, EarlySteps, Working
  <2>2. /\ Flying(p, t) /\ job[p].th[t].n \in Nodes \ {0} /\ job[p].th[t].id \in Ids
        /\ job[p].th[t].n \notin contested =>
             /\ \A k : k = job[p].th[t].n => Owned(k)
             /\ \A v \in vms : v.node # job[p].th[t].n
             /\ files[job[p].th[t].n].pid = 0
             /\ files[job[p].th[t].n].dir => files[job[p].th[t].n].port = job[p].th[t].id
    BY <1>2, <2>1, Mine
  <2> QED
    BY <2>2, <1>1, <1>2
<1>5. /\ job' \in [Procs -> JobType] /\ Jobs' /\ job'[p].th[t] = m
      /\ \A q \in Procs : /\ job'[q].cmd = job[q].cmd /\ job'[q].at = job[q].at
                          /\ job'[q].id = job[q].id /\ job'[q].seen = job[q].seen
      /\ \A q \in Procs, u \in Threads : q # p \/ u # t => job'[q].th[u] = job[q].th[u]
  BY <1>3, Hops
<1>6. m.at \in FlyingSteps /\ m.at \notin EarlySteps /\ Follows(m, job[p].th[t])
  BY <1>1, <1>2, <1>3 DEF Follows, FlyingSteps, EarlySteps, Working
<1>7. /\ Mutex'
      /\ \A q \in Procs, u \in Threads : ThreadAt(q, u, "save")' =>
           ThreadAt(q, u, "save") /\ job'[q].th[u].cs = job[q].th[u].cs
  BY <1>3, MutexHop
<1>8. Fresh(i) /\ i <= tickets
  <2>1. PICK k : k = Th(p, t).id
    OBVIOUS
  <2>2. Early(p, t)
    BY <1>2, <1>4 DEF Early, Th
  <2> QED
    BY <2>1, <2>2, <1>1, <1>4 DEF Tickets, Th
<1>9. NoNewIds
  BY <1>3, <1>6, HopIds
<1>10. Launched(i, n)
  <2>1. ASSUME NEW q \in Procs, NEW u \in Threads, Flying(q, u)', job[q].th[u].id = i
        PROVE  ~Early(q, u)' /\ job[q].th[u].n = n
    <3>1. q = p /\ u = t
      BY <1>1, <1>4, <1>9, <2>1 DEF NoNewIds, Distinct, Th
    <3> QED
      BY <3>1, <1>1, <1>5, <1>6 DEF Early, Th, EarlySteps
  <2>2. \A q \in Procs : Booting(q)' => job[q].id # i
    BY <1>1, <1>4, <1>9 DEF NoNewIds, Distinct, Th
  <2> QED
    BY <1>2, <1>5, <1>8, <1>9, <2>1, <2>2 DEF Launched, NoNewIds, At
<1>11. Tickets' /\ Distinct'
  BY <1>10, TicketsLaunched, DistinctLaunched
<1>12. Typed'
  <2>1. /\ json \in {NULL} \cup [next : 1 .. MaxIdx + 1, cp : Ids] /\ vms \in SUBSET VMs
        /\ tickets \in 0 .. MaxVMs
        /\ contested \in SUBSET Nodes /\ excused \in SUBSET Ids /\ writer \in {NULL} \cup Procs
    BY DEF Typed, TypeOK
  <2>2. vms' \in SUBSET VMs
    BY <1>2, <1>4, <2>1 DEF VMs
  <2> QED
    BY <1>2, <1>5, <1>7, <2>1, <2>2, Counters, StepTyped
<1>13. ControlPlane'
  <2>1. \A v \in vms' : v.node = 0 => v \in vms
    BY <1>2, <1>4
  <2>2. \A q \in Procs : At(q, "pid") /\ Running(job[q].id)' => Running(job[q].id)
    <3>1. \A q \in Procs : At(q, "pid") => job[q].id # i
      BY <1>1, <1>4 DEF Distinct, Booting, At, Th
    <3> QED
      BY <3>1, <1>2, <1>5 DEF Running, IdsOf
  <2>3. \A q \in Procs : \A s : At(q, s)' <=> At(q, s)
    BY <1>5 DEF At
  <2> QED
    BY <2>1, <2>2, <2>3, <1>2, <1>5 DEF ControlPlane
<1>14. Machines'
  <2>1. \A q \in Procs, u \in Threads : ThreadAt(q, u, "join")' =>
          ThreadAt(q, u, "join") /\ job'[q].th[u].id = job[q].th[u].id
    BY <1>3, <1>5 DEF ThreadAt, At
  <2>2. NoNewClaim
    BY <2>1, <1>5 DEF NoNewClaim, NoNewSight, At
  <2>3. Known([id |-> i, node |-> n, joined |-> 0])'
    BY <1>2, <1>4 DEF Known, Excused, FoundAt, Found
  <2>4. \A q \in Procs, u \in Threads : ThreadAt(q, u, "join") => job[q].th[u].id # i
    BY <1>1, <1>2, <1>4 DEF Distinct, Flying, ThreadAt, Th, Working
  <2>5. \A q \in Procs : At(q, "pid") => At(q, "pid")' /\ job'[q].id = job[q].id
    BY <1>5 DEF At
  <2> QED
    BY <1>2, <1>10, <2>2, <2>3, <2>4, <2>5, MachinesLaunched DEF Grow
<1>15. ASSUME NEW k \in Nodes \ {0}, k \notin contested' PROVE Owned(k)' /\ Ordered(k)'
  <2>1. Owned(k) /\ Ordered(k)
    BY <1>2, <1>15 DEF Indices
  <2>2. InUse(k)' => InUse(k)
    BY <1>1, <1>2, <1>4, <1>9 DEF InUse, NoNewIds, Th
  <2>3. Ordered(k)'
    BY <2>1, <2>2, <1>2, <1>7 DEF Ordered, Th
  <2>4. CASE k = n
    <3>1. /\ \A l : l = m.n => Owned(l)
          /\ \A v \in vms' : v.node = m.n => v.id = m.id
          /\ files'[m.n].pid = 0 /\ files'[m.n].port = m.id
      BY <2>4, <1>2, <1>3, <1>4, <1>15
    <3>2. \A l : l = m.n => Owned(l)'
      BY <3>1, <1>3, <1>6, OwnedHop
    <3> QED
      BY <3>2, <2>3, <2>4, <1>3
  <2>5. CASE k # n
    <3>1. Untouched(k)
      BY <2>5, <1>2, <1>3, HopUntouched
    <3>2. \A v \in vms' : v.node = k => v \in vms
      BY <2>5, <1>2
    <3>3. \A q \in Procs, u \in Threads : Flying(q, u)' /\ job'[q].th[u].n = k =>
            Flying(q, u) /\ (Early(q, u)' => Early(q, u)) /\ job'[q].th[u] = job[q].th[u]
      BY <3>1 DEF Untouched
    <3>4. Owned(k)'
      BY <2>1, <3>2, <3>3, <1>2 DEF Owned, Th
    <3> QED
      BY <3>4, <2>3
  <2> QED
    BY <2>4, <2>5
<1>16. Indices'
  BY <1>15 DEF Indices
<1> QED
  BY <1>5, <1>7, <1>11, <1>12, <1>13, <1>14, <1>16

\* The index was nobody's, or is put in doubt.
LEMMA SaveIInv == ASSUME IInv, NEW p \in Procs, NEW t \in Threads, Save(p, t) PROVE IInv'
<1> USE DEF IInv
<1>1. PICK cs : cs = job[p].th[t].cs
  OBVIOUS
<1>2. /\ At(p, "workers") /\ ThreadAt(p, t, "save") /\ job[p].th[t].at = "save"
      /\ files[0].dir /\ tickets < MaxVMs
      /\ json' = [cs EXCEPT !.next = @ + 1]
      /\ contested' = contested \cup Overwritten(p, cs) /\ writer' = p /\ tickets' = tickets + 1
      /\ job' = [job EXCEPT ![p].th[t] = [@ EXCEPT !.at = "mkdir", !.id = tickets + 1]]
      /\ files' = files /\ vms' = vms /\ excused' = excused
      /\ kubeconfig' = kubeconfig /\ row' = row /\ commands' = commands /\ faults' = faults
  BY <1>1 DEF Save, ThreadAt, Same, NoFault
<1>3. job[p].th[t] \in ThreadType /\ job[p] \in JobType /\ job \in [Procs -> JobType]
  BY Types
<1>4. /\ cs \in [next : 1 .. MaxIdx, cp : Ids] /\ job[p].th[t].n = cs.next
      /\ job[p].th[t].n # 0 /\ cs # NULL
  <2>1. job[p].th[t].n = cs.next /\ job[p].th[t].n # 0 /\ cs # NULL
    BY <1>1, <1>2 DEF Jobs, JobForm
  <2>2. cs \in {NULL} \cup [next : 1 .. MaxIdx, cp : Ids]
    BY <1>1, <1>3 DEF ThreadType
  <2> QED
    BY <2>1, <2>2
<1>5. tickets + 1 \in Ids /\ tickets + 1 \in 0 .. MaxVMs
      /\ (\A q \in Procs, u \in Threads : Flying(q, u) => job[q].th[u].id # tickets + 1)
      /\ \A q \in Procs : Booting(q) => job[q].id # tickets + 1
  BY <1>2, NewTicket
<1>6. PICK m : m = [job[p].th[t] EXCEPT !.at = "mkdir", !.id = tickets + 1]
  OBVIOUS
<1>7. m \in ThreadType /\ m.at = "mkdir" /\ m.id = tickets + 1 /\ m.n = cs.next /\ m.cs = cs
  BY <1>1, <1>3, <1>4, <1>5, <1>6 DEF ThreadType
<1>8. Hop(p, t, m)
  <2>1. job' = [job EXCEPT ![p].th[t] = m]
    BY <1>2, <1>3, <1>6 DEF JobType
  <2>2. ThreadForm(m)
    BY <1>4, <1>7 DEF ThreadForm
  <2> QED
    BY <1>2, <1>7, <2>1, <2>2 DEF Hop
<1>9. /\ job' \in [Procs -> JobType] /\ Jobs' /\ job'[p].th[t] = m
      /\ \A q \in Procs : /\ job'[q].cmd = job[q].cmd /\ job'[q].at = job[q].at
                          /\ job'[q].id = job[q].id /\ job'[q].seen = job[q].seen
      /\ \A q \in Procs, u \in Threads : q # p \/ u # t => job'[q].th[u] = job[q].th[u]
  BY <1>8, Hops
<1>10. /\ Mutex'
       /\ \A q \in Procs, u \in Threads : ThreadAt(q, u, "save")' =>
            ThreadAt(q, u, "save") /\ job'[q].th[u].cs = job[q].th[u].cs
  BY <1>7, <1>8, MutexHop
<1>11. \A u \in Threads : ~ThreadAt(p, u, "save")'
  BY <1>2, <1>7, <1>9, <1>10 DEF Mutex, ThreadAt
<1>12. \A q \in Procs, u \in Threads : q # p \/ u # t =>
         (Flying(q, u)' <=> Flying(q, u)) /\ (Early(q, u)' <=> Early(q, u))
  BY <1>9 DEF Flying, Early, Th, At
<1>13. \A q \in Procs : (Booting(q)' <=> Booting(q)) /\ \A s : At(q, s)' <=> At(q, s)
  BY <1>9 DEF Booting, At
<1>14. Fewer
  BY <1>2, SubsetFewer
<1>15. contested \subseteq contested' /\ contested' \in SUBSET Nodes
  BY <1>2 DEF Overwritten, Typed, TypeOK
<1>16. Typed'
  <2>1. json' \in {NULL} \cup [next : 1 .. MaxIdx + 1, cp : Ids]
    <3>1. cs.next + 1 \in 1 .. MaxIdx + 1
      BY <1>4, QemuAssumption
    <3> QED
      BY <3>1, <1>2, <1>4
  <2>2. vms \in SUBSET VMs /\ excused \in SUBSET Ids
    BY DEF Typed, TypeOK
  <2> QED
    BY <1>2, <1>5, <1>9, <1>10, <1>15, <2>1, <2>2, Counters, StepTyped
<1>17. Tickets'
  <2>1. \A q \in Procs, u \in Threads : Flying(q, u)' =>
          \/ job'[q].th[u].id = tickets + 1
          \/ /\ Flying(q, u) /\ (Early(q, u)' => Early(q, u))
             /\ job'[q].th[u].id = job[q].th[u].id /\ job'[q].th[u].n = job[q].th[u].n
    BY <1>7, <1>9, <1>12
  <2> QED
    BY <1>2, <1>9, <1>13, <2>1, TicketsDrawn DEF Drawn
<1>18. Distinct'
  <2>1. \A q, r \in Procs, u, w \in Threads :
          Flying(q, u)' /\ Flying(r, w)' /\ job'[q].th[u].id = job'[r].th[w].id => q = r /\ u = w
    BY <1>5, <1>7, <1>9, <1>12 DEF Distinct, Th
  <2>2. \A q, r \in Procs : Booting(q)' /\ Booting(r)' /\ job'[q].id = job'[r].id => q = r
    BY <1>9, <1>13 DEF Distinct
  <2>3. \A q, r \in Procs, u \in Threads : Booting(q)' /\ Flying(r, u)' => job'[q].id # job'[r].th[u].id
    BY <1>5, <1>7, <1>9, <1>12, <1>13 DEF Distinct, Th
  <2> QED
    BY <2>1, <2>2, <2>3 DEF Distinct, Th
<1>19. ControlPlane'
  BY <1>2, <1>8, <1>14, <1>15, ControlHop
<1>20. Machines'
  BY <1>2, <1>7, <1>8, <1>14, <1>15, Stay, MachinesHop DEF Grow
<1>21. ASSUME NEW k \in Nodes \ {0}, k \notin contested', InUse(k)
       PROVE  k < cs.next
  <2>1. k \in Nat /\ cs.next \in Nat
    BY <1>4, NodesAre
  <2>2. /\ json # NULL => k < json.next
        /\ writer = p => k < cs.next
    BY <1>1, <1>2, <1>15, <1>21 DEF Indices, Ordered, Th
  <2>3. CASE json = cs
    BY <2>2, <2>3, <1>4
  <2>4. CASE writer = p
    BY <2>2, <2>4
  <2>5. CASE json # cs /\ writer # p
    <3>1. k \notin Overwritten(p, cs)
      BY <1>2, <1>21
    <3>2. ~(cs.next <= k)
      BY <2>2, <2>5, <3>1 DEF Overwritten
    <3> QED
      BY <2>1, <3>2
  <2> QED
    BY <2>3, <2>4, <2>5
<1>22. ASSUME NEW k \in Nodes \ {0}, k \notin contested' PROVE Owned(k)' /\ Ordered(k)'
  <2>1. Owned(k) /\ (InUse(k) => k < cs.next) /\ k \in Nat /\ cs.next \in Nat
    BY <1>4, <1>15, <1>21, <1>22, NodesAre DEF Indices
  <2>2. json'.next = cs.next + 1
    BY <1>2, <1>4
  <2>3. CASE k = cs.next
    <3>1. ~InUse(k)
      BY <2>1, <2>3
    <3>2. ASSUME NEW q \in Procs, NEW u \in Threads, Flying(q, u)', job'[q].th[u].n = k
          PROVE  q = p /\ u = t
      BY <3>1, <3>2, <1>9, <1>12 DEF InUse, Th
    <3>3. (\A v \in vms' : v.node # k) /\ ~files'[k].dir /\ files'[k].pid = 0
      BY <3>1, <1>2 DEF InUse, Typed, TypeOK, Gone
    <3>4. Owned(k)'
      BY <3>2, <3>3, <1>7, <1>9 DEF Owned, Th
    <3> QED
      BY <3>4, <2>1, <2>2, <2>3, <1>2, <1>11 DEF Ordered
  <2>4. CASE k # cs.next
    <3>1. Untouched(k)
      BY <2>4, <1>2, <1>7, <1>8, HopUntouched
    <3>2. Owned(k)'
      BY <2>1, <3>1, <1>14, OwnedStays
    <3>3. InUse(k)' => InUse(k)
      <4>1. ASSUME NEW q \in Procs, NEW u \in Threads, Flying(q, u)', job'[q].th[u].n = k
            PROVE  Flying(q, u) /\ job[q].th[u].n = k
        <5>1. q # p \/ u # t
          BY <4>1, <2>4, <1>7, <1>9
        <5> QED
          BY <5>1, <4>1, <1>9, <1>12
      <4> QED
        BY <4>1, <1>2 DEF InUse, Th
    <3> QED
      BY <3>2, <3>3, <2>1, <2>2, <1>2, <1>11 DEF Ordered
  <2> QED
    BY <2>3, <2>4
<1>23. Indices'
  BY <1>22 DEF Indices
<1> QED
  BY <1>9, <1>10, <1>16, <1>17, <1>18, <1>19, <1>20, <1>23

-----------------------------------------------------------------------------
(* remove-node, destroy, and a command that dies. *)

LEMMA DeleteNodeIInv == ASSUME IInv, NEW p \in Procs, DeleteNode(p) PROVE IInv'
<1> USE DEF IInv
<1>1. PICK S : S = IdsOf({v \in vms : Member(v, job[p].n)})
  OBVIOUS
<1>2. PICK n : n = [job[p] EXCEPT !.at = "infra", !.seen = S]
  OBVIOUS
<1>3. /\ job[p].at = "drain"
      /\ job' = [job EXCEPT ![p].at = "infra", ![p].seen = S]
      /\ vms' = {IF Member(v, job[p].n) THEN [v EXCEPT !.joined = 0] ELSE v : v \in vms}
      /\ files' = files /\ json' = json /\ tickets' = tickets
      /\ contested' = contested /\ excused' = excused /\ writer' = writer
      /\ kubeconfig' = kubeconfig /\ row' = row /\ commands' = commands /\ faults' = faults
  BY <1>1 DEF DeleteNode, At, history, Same, NoFault
<1>4. job[p] \in JobType /\ job \in [Procs -> JobType] /\ JobForm(job[p]) /\ job[p].cmd = "remove"
  BY <1>3, Types, NoSteps DEF Jobs
<1>5. \A id \in S : \E v \in vms : v.id = id /\ v.joined # 0
  BY <1>1 DEF IdsOf, Member
<1>6. S \subseteq Ids
  BY <1>5, Types DEF VMs
<1>7. n \in JobType /\ n.at = "infra" /\ n.seen = S /\ n.cmd = job[p].cmd /\ n.id = job[p].id
      /\ n.n = job[p].n /\ n.th = job[p].th
  BY <1>2, <1>4, <1>6 DEF JobType
<1>8. job' = [job EXCEPT ![p] = n]
  BY <1>2, <1>3, <1>4
<1>9. Calm(p, n)
  BY <1>3, <1>4, <1>7, <1>8 DEF Calm, JobForm
<1>10. /\ job' \in [Procs -> JobType] /\ Jobs' /\ job'[p] = n
       /\ \A q \in Procs : q # p => job'[q] = job[q]
  BY <1>9, Calmly
<1>11. \A q \in Procs, u \in Threads : Flying(q, u)' => Flying(q, u) /\ job'[q] = job[q]
  BY <1>9, Calmly
<1>12. Mutex'
  BY <1>9, MutexCalm
<1>13. \A v \in vms' : \E w \in vms :
         w.id = v.id /\ w.node = v.node /\ (v = w \/ (v = [w EXCEPT !.joined = 0] /\ v.joined = 0))
  BY <1>3, Types DEF VMs
<1>14. Fewer
  <2>1. ASSUME NEW v \in vms', NEW w \in vms', v.id = w.id PROVE v = w
    <3>1. PICK x \in vms : v = IF Member(x, job[p].n) THEN [x EXCEPT !.joined = 0] ELSE x
      BY <1>3
    <3>2. PICK y \in vms : w = IF Member(y, job[p].n) THEN [y EXCEPT !.joined = 0] ELSE y
      BY <1>3
    <3>3. x.id = v.id /\ y.id = w.id
      BY <3>1, <3>2, Types DEF VMs
    <3>4. x = y
      BY <2>1, <3>3 DEF Tickets
    <3> QED
      BY <3>1, <3>2, <3>4
  <2>2. \A v \in vms' : \E w \in vms : w.id = v.id /\ w.node = v.node /\ (w.joined = 0 => v.joined = 0)
    BY <1>13
  <2> QED
    BY <2>1, <2>2 DEF Fewer
<1>15. Typed'
  <2>1. /\ json \in {NULL} \cup [next : 1 .. MaxIdx + 1, cp : Ids] /\ vms \in SUBSET VMs
        /\ tickets \in 0 .. MaxVMs
        /\ contested \in SUBSET Nodes /\ excused \in SUBSET Ids /\ writer \in {NULL} \cup Procs
    BY DEF Typed, TypeOK
  <2>2. vms' \in SUBSET VMs
    <3>1. \A w \in vms : [w EXCEPT !.joined = 0] \in VMs /\ w \in VMs
      BY Types DEF VMs
    <3> QED
      BY <3>1, <1>3
  <2> QED
    BY <1>3, <1>10, <1>12, <2>1, <2>2, Counters, StepTyped
<1>16. Tickets' /\ Distinct'
  <2>1. NoNewIds
    BY <1>7, <1>9, CalmIds DEF BootsAs
  <2>2. SeesRunning
    <3>1. ASSUME NEW q \in Procs, NEW id \in job'[q].seen PROVE id \in job[q].seen \/ Running(id)
      <4>1. CASE q = p
        BY <4>1, <3>1, <1>5, <1>7, <1>10 DEF Running, IdsOf
      <4>2. CASE q # p
        BY <4>2, <3>1, <1>10
      <4> QED
        BY <4>1, <4>2
    <3>2. ASSUME NEW q \in Procs, NEW id \in job'[q].seen, At(q, "infra")',
                 NEW r \in Procs, NEW u \in Threads, Flying(r, u)
          PROVE  job[r].th[u].id # id
      <4>1. CASE q = p
        <5>1. PICK v \in vms : v.id = id /\ v.joined # 0
          BY <4>1, <3>2, <1>5, <1>7, <1>10
        <5> QED
          BY <5>1, <3>2 DEF Tickets, Th
      <4>2. CASE q # p
        BY <4>2, <3>2, <1>10 DEF Tickets, Th, At
      <4> QED
        BY <4>1, <4>2
    <3> QED
      BY <3>1, <3>2 DEF SeesRunning
  <2> QED
    BY <2>1, <2>2, <1>3, <1>14, TicketsStay, DistinctStays
<1>17. Indices'
  BY <1>3, <1>9, <1>14, IndicesCalm
<1>18. ControlPlane'
  BY <1>3, <1>4, <1>7, <1>9, <1>14, ControlCalm DEF UpsAs
<1>19. ASSUME NEW v \in vms' PROVE Known(v)' /\ Recorded(v)' /\ Stopped(v)'
  <2>1. PICK w \in vms : w.id = v.id /\ w.node = v.node /\ (w.joined = 0 => v.joined = 0)
    BY <1>13
  <2>2. Known(w) /\ Recorded(w) /\ Stopped(w) /\ StillThere(v) /\ Grow
    BY <1>3, Stay DEF Machines, Grow
  <2>3. Known(v)'
    BY <2>1, <2>2, <1>3, <1>10, KnownStays DEF At
  <2>4. Stopped(v)'
    <3>1. \A q \in Procs : job'[q].cmd = "destroy" => q # p
      BY <1>4, <1>7, <1>10
    <3>2. Excused(w) => Excused(v)'
      BY <2>1, <1>3 DEF Excused
    <3>3. FoundAt(w) => FoundAt(v)'
      BY <2>1, <1>3 DEF FoundAt, Found
    <3> QED
      BY <3>1, <3>2, <3>3, <2>1, <2>2, <1>10 DEF Stopped, At
  <2>5. Recorded(v)'
    <3> SUFFICES ASSUME ~Excused(v)'
                 PROVE  /\ v.joined # 0 => files'[v.node].pid = v.id
                        /\ \A q \in Procs, u \in Threads :
                             ThreadAt(q, u, "join")' /\ job'[q].th[u].id = v.id => files'[v.node].pid = v.id
                        /\ \A q \in Procs : At(q, "infra")' /\ v.id \in job'[q].seen =>
                             files'[v.node].pid = v.id
      BY DEF Recorded, Th
    <3>1. /\ w.joined # 0 => files[w.node].pid = w.id
          /\ \A q \in Procs, u \in Threads :
               ThreadAt(q, u, "join") /\ job[q].th[u].id = w.id => files[w.node].pid = w.id
          /\ \A q \in Procs : At(q, "infra") /\ w.id \in job[q].seen => files[w.node].pid = w.id
      BY <2>1, <2>2, <1>3 DEF Recorded, Excused, Th
    <3>2. \A q \in Procs, u \in Threads : ThreadAt(q, u, "join")' =>
            ThreadAt(q, u, "join") /\ job'[q].th[u].id = job[q].th[u].id
      BY <1>11 DEF Flying, ThreadAt, Th, At, Working
    <3>3. ASSUME NEW q \in Procs, At(q, "infra")', v.id \in job'[q].seen
          PROVE  files'[v.node].pid = v.id
      <4>1. CASE q = p
        <5>1. PICK x \in vms : x.id = w.id /\ x.joined # 0
          BY <4>1, <3>3, <2>1, <1>5, <1>7, <1>10
        <5>2. x = w
          BY <5>1 DEF Tickets
        <5> QED
          BY <5>1, <5>2, <3>1, <2>1, <1>3
      <4>2. CASE q # p
        BY <4>2, <3>1, <3>3, <2>1, <1>3, <1>10 DEF At
      <4> QED
        BY <4>1, <4>2
    <3> QED
      BY <3>1, <3>2, <3>3, <2>1, <1>3
  <2> QED
    BY <2>3, <2>4, <2>5
<1> QED
  BY <1>10, <1>12, <1>15, <1>16, <1>17, <1>18, <1>19 DEF Machines

LEMMA RemoveInfraIInv == ASSUME IInv, NEW p \in Procs, RemoveInfra(p) PROVE IInv'
<1> USE DEF IInv
<1>1. PICK n : n = job[p].n
  OBVIOUS
<1>2. /\ job[p].at = "infra" /\ End(p)
      /\ \/ files' = files /\ vms' = vms /\ excused' = excused
         \/ /\ vms' = Killed(files[n].pid) /\ files' = [files EXCEPT ![n] = Gone]
            /\ excused' = excused \cup (IdsOf({v \in vms : v.node = n}) \ job[p].seen)
      /\ json' = json /\ tickets' = tickets /\ contested' = contested /\ writer' = writer
      /\ kubeconfig' = kubeconfig /\ row' = row /\ commands' = commands /\ faults' = faults
  BY <1>1 DEF RemoveInfra, At, Same, NoFault
<1>3. n \in Nodes \ {0} /\ job[p].cmd = "remove"
  BY <1>1, <1>2, Types, NoSteps DEF Jobs, JobForm, JobType
<1>4. Calm(p, Idle)
  BY <1>2, Ends
<1>5. job' \in [Procs -> JobType] /\ Jobs'
  BY <1>4, Calmly
<1>6. Mutex'
  BY <1>4, MutexCalm
<1>7. vms' \subseteq vms /\ Fewer
  BY <1>2, SubsetFewer DEF Killed
<1>8. files \in [Nodes -> [dir : BOOLEAN, port : {0} \cup Ids, pid : {0} \cup Ids]]
  BY DEF Typed, TypeOK
<1>9. files'[0] = files[0] /\ \A k \in Nodes : files'[k] = files[k] \/ files'[k] = Gone
  BY <1>2, <1>3, <1>8, NodesAre
<1>10. excused \subseteq excused' /\ excused' \in SUBSET Ids
  BY <1>2, Types DEF Typed, TypeOK, IdsOf, VMs
<1>11. Typed'
  <2>1. /\ json \in {NULL} \cup [next : 1 .. MaxIdx + 1, cp : Ids] /\ vms' \in SUBSET VMs
        /\ tickets \in 0 .. MaxVMs /\ contested \in SUBSET Nodes /\ writer \in {NULL} \cup Procs
    BY <1>7 DEF Typed, TypeOK
  <2>2. files' = files \/ \E k \in Nodes : files' = [files EXCEPT ![k] = Gone]
    BY <1>2, <1>3
  <2>3. 0 \in {0} \cup Ids
    OBVIOUS
  <2> QED
    BY <1>2, <1>5, <1>6, <1>10, <2>1, <2>2, <2>3, Counters, StepTyped
<1>12. Tickets' /\ Distinct'
  BY <1>2, <1>4, <1>7, IdleForm, TicketsCalm DEF BootsAs
<1>13. Indices'
  BY <1>2, <1>4, <1>7, <1>9, IndicesCalm
<1>14. ControlPlane'
  BY <1>2, <1>4, <1>7, <1>9, <1>10, IdleForm, ControlCalm DEF UpsAs
<1>15. ASSUME NEW v \in vms' PROVE Excused(v)' \/ StillThere(v)
  <2>1. v \in vms /\ v.node \in Nodes
    BY <1>7, Types
  <2>2. CASE files' = files
    BY <2>2, Stay
  <2>3. CASE /\ vms' = Killed(files[n].pid) /\ files' = [files EXCEPT ![n] = Gone]
             /\ excused' = excused \cup (IdsOf({w \in vms : w.node = n}) \ job[p].seen)
    <3>1. CASE v.node # n
      BY <3>1, <2>1, <2>3, <1>8 DEF StillThere, Found
    <3>2. CASE v.node = n /\ v.id \notin job[p].seen
      BY <3>2, <2>1, <2>3 DEF Excused, IdsOf
    <3>3. CASE v.node = n /\ v.id \in job[p].seen
      <4>1. v.id # files[n].pid
        BY <2>3 DEF Killed
      <4>2. Excused(v)
        BY <4>1, <3>3, <2>1, <1>2 DEF Machines, Recorded, At
      <4> QED
        BY <4>2, <1>2, <1>10 DEF Excused
    <3> QED
      BY <3>1, <3>2, <3>3
  <2> QED
    BY <2>2, <2>3, <1>2
<1>16. Machines'
  BY <1>2, <1>4, <1>7, <1>10, <1>15, IdleForm, MachinesCalm DEF Grow, At
<1> QED
  BY <1>5, <1>6, <1>11, <1>12, <1>13, <1>14, <1>16

\* A destroy takes a step.
LEMMA DestroyStep ==
  ASSUME IInv, NEW p \in Procs, NEW n, Calm(p, n), n.cmd = "destroy", vms' \subseteq vms,
         job[p].cmd = "destroy", n.seen = job[p].seen,
         files' = files, json' = json, tickets' = tickets, contested' = contested,
         excused' = excused, writer' = writer, kubeconfig' \in {0} \cup Ids,
         row' \in {"none", "active", "destroyed"}, commands' \in 0 .. MaxCommands,
         faults' \in 0 .. MaxFaults,
         \A v \in vms' : v.id \in n.seen /\ ~Excused(v) =>
           /\ n.at \in {"killWorkers", "killControlPlane"}
           /\ n.at = "killControlPlane" => v.node = 0
  PROVE  IInv'
<1> USE DEF IInv
<1>1. /\ job' \in [Procs -> JobType] /\ Jobs' /\ job'[p] = n
      /\ \A q \in Procs : q # p => job'[q] = job[q]
  BY Calmly
<1>2. Mutex'
  BY MutexCalm
<1>3. Fewer
  BY SubsetFewer
<1>4. n.at \in DestroySteps /\ n.at # "infra" /\ job[p].at \in DestroySteps
  BY NoSteps, Types DEF Calm, Jobs, DestroySteps
<1>5. BootsAs(n, job[p]) /\ UpsAs(n, job[p]) /\ ~At(p, "pid")
  BY <1>4 DEF BootsAs, UpsAs, DestroySteps, At
<1>6. Typed'
  <2>1. /\ json \in {NULL} \cup [next : 1 .. MaxIdx + 1, cp : Ids] /\ vms' \in SUBSET VMs
        /\ tickets \in 0 .. MaxVMs /\ contested \in SUBSET Nodes /\ excused \in SUBSET Ids
        /\ writer \in {NULL} \cup Procs
    BY DEF Typed, TypeOK
  <2> QED
    BY <1>1, <1>2, <2>1, StepTyped
<1>7. Tickets' /\ Distinct'
  BY <1>3, <1>4, <1>5, TicketsCalm
<1>8. Indices'
  BY <1>3, IndicesCalm
<1>9. ControlPlane'
  BY <1>3, <1>5, ControlCalm
<1>10. ASSUME NEW v \in vms' PROVE Known(v)' /\ Recorded(v)' /\ Stopped(v)'
  <2>1. v \in vms /\ Known(v) /\ Recorded(v) /\ Stopped(v) /\ StillThere(v) /\ Grow
    BY Stay DEF Machines, Grow
  <2>2. Known(v)'
    BY <2>1, <1>1, <1>5, KnownStays DEF At
  <2>3. \A q \in Procs, u \in Threads : Flying(q, u)' => Flying(q, u) /\ job'[q] = job[q]
    BY Calmly
  <2>4. NoNewSight
    BY <2>3, <1>1, <1>4 DEF NoNewSight, Flying, ThreadAt, Th, At, Working
  <2>5. Recorded(v)'
    BY <2>1, <2>4, RecordedStays
  <2>6. Stopped(v)'
    <3> SUFFICES ASSUME ~Excused(v)', NEW q \in Procs, job'[q].cmd = "destroy", v.id \in job'[q].seen
                 PROVE  /\ job'[q].at \in {"killWorkers", "killControlPlane"} /\ FoundAt(v)'
                        /\ At(q, "killControlPlane")' => v.node = 0
      BY DEF Stopped
    <3>1. ~Excused(v)
      BY DEF Excused
    <3>2. job[q].cmd = "destroy" /\ v.id \in job[q].seen
      BY <1>1
    <3>3. /\ job[q].at \in {"killWorkers", "killControlPlane"} /\ FoundAt(v)
          /\ At(q, "killControlPlane") => v.node = 0
      BY <2>1, <3>1, <3>2 DEF Stopped
    <3>4. FoundAt(v)'
      BY <3>3 DEF FoundAt, Found
    <3> QED
      BY <3>1, <3>3, <3>4, <1>1 DEF At
  <2> QED
    BY <2>2, <2>5, <2>6
<1> QED
  BY <1>1, <1>2, <1>6, <1>7, <1>8, <1>9, <1>10 DEF Machines

LEMMA KillWorkersIInv == ASSUME IInv, NEW p \in Procs, KillWorkers(p) PROVE IInv'
<1> USE DEF IInv
<1>1. PICK n \in JobType :
        /\ job' = [job EXCEPT ![p] = n] /\ n.at = "killControlPlane" /\ n.cmd = job[p].cmd
        /\ n.id = job[p].id /\ n.n = job[p].n /\ n.seen = job[p].seen /\ n.th = job[p].th
  BY Goes DEF KillWorkers, Steps
<1>2. /\ job[p].at = "killWorkers" /\ job[p].cmd = "destroy" /\ JobForm(job[p])
      /\ vms' = {v \in vms : \A k \in Nodes \ {0} : v.id # Found(k)}
      /\ files' = files /\ json' = json /\ tickets' = tickets /\ contested' = contested
      /\ excused' = excused /\ writer' = writer /\ kubeconfig' = kubeconfig /\ row' = row
      /\ commands' = commands /\ faults' = faults
  BY NoSteps, Types DEF KillWorkers, At, Jobs, DestroySteps, history, Same, NoFault
<1>3. Calm(p, n)
  BY <1>1, <1>2 DEF Calm, JobForm, DestroySteps
<1>4. ASSUME NEW v \in vms', v.id \in n.seen, ~Excused(v) PROVE v.node = 0
  <2>1. v \in vms /\ v.node \in Nodes /\ FoundAt(v)
    BY <1>1, <1>2, <1>4, Types DEF Machines, Stopped
  <2> QED
    BY <2>1, <1>2 DEF FoundAt
<1> QED
  BY <1>1, <1>2, <1>3, <1>4, Counters, DestroyStep

LEMMA KillControlPlaneIInv == ASSUME IInv, NEW p \in Procs, KillControlPlane(p) PROVE IInv'
<1> USE DEF IInv
<1>1. PICK n \in JobType :
        /\ job' = [job EXCEPT ![p] = n] /\ n.at = "removeFiles" /\ n.cmd = job[p].cmd
        /\ n.id = job[p].id /\ n.n = job[p].n /\ n.seen = job[p].seen /\ n.th = job[p].th
  BY Goes DEF KillControlPlane, Steps
<1>2. /\ job[p].at = "killControlPlane" /\ job[p].cmd = "destroy" /\ JobForm(job[p])
      /\ vms' = {v \in vms : v.id # Found(0)}
      /\ files' = files /\ json' = json /\ tickets' = tickets /\ contested' = contested
      /\ excused' = excused /\ writer' = writer /\ kubeconfig' = kubeconfig /\ row' = row
      /\ commands' = commands /\ faults' = faults
  BY NoSteps, Types DEF KillControlPlane, At, Jobs, DestroySteps, history, Same, NoFault
<1>3. Calm(p, n)
  BY <1>1, <1>2 DEF Calm, JobForm, DestroySteps
<1>4. ASSUME NEW v \in vms', v.id \in n.seen, ~Excused(v) PROVE FALSE
  <2>1. v \in vms /\ v.node = 0 /\ FoundAt(v)
    BY <1>1, <1>2, <1>4 DEF Machines, Stopped, At
  <2> QED
    BY <2>1, <1>2 DEF FoundAt
<1> QED
  BY <1>1, <1>2, <1>3, <1>4, Counters, DestroyStep

LEMMA MarkDestroyedIInv == ASSUME IInv, NEW p \in Procs, MarkDestroyed(p) PROVE IInv'
<1> USE DEF IInv
<1>1. PICK n \in JobType :
        /\ job' = [job EXCEPT ![p] = n] /\ n.at = "destroyed" /\ n.cmd = job[p].cmd
        /\ n.id = job[p].id /\ n.n = job[p].n /\ n.seen = job[p].seen /\ n.th = job[p].th
  BY Goes DEF MarkDestroyed, Steps
<1>2. /\ job[p].at = "mark" /\ job[p].cmd = "destroy" /\ JobForm(job[p])
      /\ files' = files /\ vms' = vms /\ json' = json /\ tickets' = tickets /\ contested' = contested
      /\ excused' = excused /\ writer' = writer /\ kubeconfig' = kubeconfig /\ row' = "destroyed"
      /\ commands' = commands /\ faults' = faults
  BY NoSteps, Types DEF MarkDestroyed, At, Jobs, DestroySteps, history, NoFault
<1>3. Calm(p, n)
  BY <1>1, <1>2 DEF Calm, JobForm, DestroySteps
<1>4. ASSUME NEW v \in vms', v.id \in n.seen, ~Excused(v) PROVE FALSE
  BY <1>1, <1>2, <1>4 DEF Machines, Stopped
<1> QED
  BY <1>1, <1>2, <1>3, <1>4, Counters, DestroyStep

LEMMA RemoveFilesIInv == ASSUME IInv, NEW p \in Procs, RemoveFiles(p) PROVE IInv'
<1> USE DEF IInv
<1>1. PICK n \in JobType :
        /\ job' = [job EXCEPT ![p] = n] /\ n.at = "mark" /\ n.cmd = job[p].cmd
        /\ n.id = job[p].id /\ n.n = job[p].n /\ n.seen = job[p].seen /\ n.th = job[p].th
  BY Goes DEF RemoveFiles, Steps
<1>2. PICK L : L = {job[q].id : q \in {r \in Procs : At(r, "launch")}}
  OBVIOUS
<1>3. /\ job[p].at = "removeFiles" /\ job[p].cmd = "destroy" /\ JobForm(job[p])
      /\ files' = NoFiles /\ vms' = vms /\ json' = NULL /\ tickets' = tickets
      /\ contested' = contested /\ excused' = excused \cup (IdsOf(vms) \ job[p].seen) \cup L
      /\ writer' = writer /\ kubeconfig' = 0 /\ row' = row
      /\ commands' = commands /\ faults' = faults
  BY <1>2, NoSteps, Types DEF RemoveFiles, At, Jobs, DestroySteps, NoFault
<1>4. Calm(p, n)
  BY <1>1, <1>3 DEF Calm, JobForm, DestroySteps
<1>5. /\ job' \in [Procs -> JobType] /\ Jobs' /\ job'[p] = n
      /\ \A q \in Procs : q # p => job'[q] = job[q]
  BY <1>4, Calmly
<1>6. Mutex'
  BY <1>4, MutexCalm
<1>7. Fewer
  BY <1>3, SubsetFewer
<1>8. \A q \in Procs : At(q, "launch") => job[q].id \in excused' /\ job[q].id \in Ids
  <2>1. \A q \in Procs : At(q, "launch") => 0 < job[q].id /\ job[q].id \in {0} \cup Ids
    BY Types DEF Tickets, Booting, At, JobType
  <2> QED
    BY <2>1, <1>2, <1>3
<1>9. excused \subseteq excused' /\ excused' \in SUBSET Ids
  BY <1>2, <1>3, <1>8, Types DEF Typed, TypeOK, IdsOf, VMs
<1>10. \A v \in vms : Excused(v)'
  <2> SUFFICES ASSUME NEW v \in vms PROVE Excused(v)'
    OBVIOUS
  <2>1. v.id \in job[p].seen => Excused(v)
    BY <1>3 DEF Machines, Stopped
  <2> QED
    BY <2>1, <1>3 DEF Excused, IdsOf
<1>11. Typed'
  <2>1. /\ vms \in SUBSET VMs /\ tickets \in 0 .. MaxVMs /\ contested \in SUBSET Nodes
        /\ writer \in {NULL} \cup Procs
    BY DEF Typed, TypeOK
  <2> QED
    BY <1>3, <1>5, <1>6, <1>9, <2>1, Counters, StepTyped
<1>12. Tickets' /\ Distinct'
  BY <1>1, <1>3, <1>4, <1>7, TicketsCalm DEF BootsAs
<1>13. \A k \in Nodes : files'[k] = Gone
  BY <1>3 DEF NoFiles
<1>14. Indices'
  BY <1>3, <1>4, <1>7, <1>13, IndicesCalm
<1>15. Machines'
  BY <1>1, <1>3, <1>10, <1>5 DEF Machines, Known, Recorded, Stopped
<1>16. ControlPlane'
  <2> SUFFICES ASSUME 0 \notin contested'
               PROVE  /\ \A r, q \in Procs : job'[r].cmd = "up" /\ job'[q].cmd = "up" /\ r # q =>
                           At(r, "prepare")' \/ At(q, "prepare")'
                      /\ \A q \in Procs : job'[q].at \in {"port", "launch", "pid"} =>
                           /\ \A v \in vms' : v.node = 0 /\ v.id \notin excused' =>
                                At(q, "pid")' /\ v.id = job'[q].id
                           /\ At(q, "launch")' /\ job'[q].id \notin excused' => files'[0].port = job'[q].id
                           /\ At(q, "pid")' /\ job'[q].id \notin excused' /\ Running(job[q].id)' =>
                                files'[0].port = job'[q].id
    BY DEF ControlPlane
  <2>1. \A v \in vms : v.node = 0 => v.id \in excused'
    BY <1>3, <1>10 DEF Excused
  <2>2. \A q \in Procs : job'[q].at \in {"port", "launch", "pid"} => q # p /\ job'[q] = job[q]
    BY <1>1, <1>5
  <2>3. ASSUME NEW q \in Procs, At(q, "pid")', Running(job[q].id)' PROVE job'[q].id \in excused'
    <3>1. At(q, "pid") /\ job'[q] = job[q]
      BY <2>2, <2>3 DEF At
    <3>2. PICK v \in vms : v.id = job[q].id
      BY <2>3, <3>1, <1>3 DEF Running, IdsOf
    <3>3. v.node = 0
      BY <3>1, <3>2 DEF Tickets, Booting, At
    <3> QED
      BY <3>1, <3>2, <3>3, <2>1
  <2>4. \A r, q \in Procs : job'[r].cmd = "up" /\ job'[q].cmd = "up" /\ r # q =>
          At(r, "prepare")' \/ At(q, "prepare")'
    BY <1>1, <1>3, <1>5 DEF ControlPlane, At
  <2> QED
    BY <2>1, <2>2, <2>3, <2>4, <1>3, <1>8 DEF At
<1> QED
  BY <1>5, <1>6, <1>11, <1>12, <1>14, <1>15, <1>16

\* Until its vm.pid is written, a machine is in sight or its command holds it.
LEMMA InSight ==
  ASSUME IInv, NEW v \in vms, ~Excused(v), NEW p \in Procs, At(p, "pid"), v.node = 0,
         v.id = job[p].id, v.id \notin Strays(p)
  PROVE  FoundAt(v)
<1> USE DEF IInv
<1>1. job[p].at = "pid" /\ job[p].cmd = "up"
  BY NoSteps, Types DEF At, Jobs, UpSteps
<1>2. v.id \in Held(p)
  BY <1>1 DEF Held
<1>3. files[0].pid \in {0, v.id}
  BY <1>2 DEF Strays
<1>4. 0 \notin contested /\ v.id \notin excused
  BY DEF Excused
<1>5. files[0].port = v.id
  BY <1>1, <1>4 DEF ControlPlane, Running, IdsOf, At
<1> QED
  BY <1>3, <1>5 DEF FoundAt, Found

LEMMA StartDestroyIInv == ASSUME IInv, NEW p \in Procs, StartDestroy(p) PROVE IInv'
<1> USE DEF IInv
<1>1. PICK S : S = IdsOf(vms) \ UNION {Strays(q) : q \in Procs}
  OBVIOUS
<1>2. PICK n : n = [Idle EXCEPT !.cmd = "destroy", !.at = "killWorkers", !.seen = S]
  OBVIOUS
<1>3. /\ ~Busy(p) /\ job' = [job EXCEPT ![p] = n]
      /\ files' = files /\ json' = json /\ vms' = vms /\ tickets' = tickets
      /\ contested' = contested /\ excused' = excused /\ writer' = writer
      /\ kubeconfig' = kubeconfig /\ row' = row /\ commands' \in 0 .. MaxCommands /\ faults' = faults
  BY <1>1, <1>2, Counters DEF StartDestroy, Start, history
<1>4. S \subseteq Ids /\ \A id \in S : Running(id)
  BY <1>1, Types DEF IdsOf, Running, VMs
<1>5. n \in JobType /\ n.cmd = "destroy" /\ n.at = "killWorkers" /\ n.seen = S /\ n.th = Idle.th
  BY <1>2, <1>4, IdleForm DEF JobType
<1>6. JobForm(n)
  BY <1>5, IdleForm DEF JobForm, DestroySteps, Working
<1>7. Calm(p, n)
  BY <1>3, <1>5, <1>6 DEF Calm
<1>8. /\ job' \in [Procs -> JobType] /\ Jobs' /\ job'[p] = n
      /\ \A q \in Procs : q # p => job'[q] = job[q]
  BY <1>7, Calmly
<1>9. Mutex'
  BY <1>7, MutexCalm
<1>10. Fewer
  BY <1>3, SubsetFewer
<1>11. job[p].cmd = "none" /\ ~At(p, "pid")
  BY <1>3, NoSteps, Types DEF Busy, Jobs, At
<1>12. BootsAs(n, job[p]) /\ UpsAs(n, job[p])
  BY <1>5 DEF BootsAs, UpsAs
<1>13. Typed'
  <2>1. /\ json \in {NULL} \cup [next : 1 .. MaxIdx + 1, cp : Ids] /\ vms \in SUBSET VMs
        /\ tickets \in 0 .. MaxVMs /\ contested \in SUBSET Nodes /\ excused \in SUBSET Ids
        /\ writer \in {NULL} \cup Procs
    BY DEF Typed, TypeOK
  <2> QED
    BY <1>3, <1>8, <1>9, <2>1, Counters, StepTyped
<1>14. Tickets' /\ Distinct'
  <2>1. NoNewIds
    BY <1>7, <1>12, CalmIds
  <2>2. SeesRunning
    <3>1. \A q \in Procs : \A id \in job'[q].seen : id \in job[q].seen \/ Running(id)
      BY <1>4, <1>5, <1>8
    <3>2. ASSUME NEW q \in Procs, NEW id \in job'[q].seen, At(q, "infra")',
                 NEW r \in Procs, NEW u \in Threads, Flying(r, u)
          PROVE  job[r].th[u].id # id
      <4>1. q # p
        BY <3>2, <1>5, <1>8 DEF At
      <4> QED
        BY <4>1, <3>2, <1>8 DEF Tickets, Th, At
    <3> QED
      BY <3>1, <3>2 DEF SeesRunning
  <2> QED
    BY <2>1, <2>2, <1>3, <1>10, TicketsStay, DistinctStays
<1>15. Indices'
  BY <1>3, <1>7, <1>10, IndicesCalm
<1>16. ControlPlane'
  BY <1>3, <1>7, <1>10, <1>12, ControlCalm
<1>17. ASSUME NEW v \in vms' PROVE Known(v)' /\ Recorded(v)' /\ Stopped(v)'
  <2>1. v \in vms /\ Known(v) /\ Recorded(v) /\ Stopped(v) /\ StillThere(v) /\ Grow
    BY <1>3, Stay, <1>17 DEF Machines, Grow
  <2>2. Known(v)'
    BY <2>1, <1>8, <1>11, KnownStays DEF At
  <2>3. \A q \in Procs, u \in Threads : Flying(q, u)' => Flying(q, u) /\ job'[q] = job[q]
    BY <1>7, Calmly
  <2>4. NoNewSight
    BY <2>3, <1>5, <1>8 DEF NoNewSight, Flying, ThreadAt, Th, At, Working
  <2>5. Recorded(v)'
    BY <2>1, <2>4, <1>17, RecordedStays
  <2>6. Stopped(v)'
    <3> SUFFICES ASSUME ~Excused(v)', NEW q \in Procs, job'[q].cmd = "destroy", v.id \in job'[q].seen
                 PROVE  /\ job'[q].at \in {"killWorkers", "killControlPlane"} /\ FoundAt(v)'
                        /\ At(q, "killControlPlane")' => v.node = 0
      BY DEF Stopped
    <3>1. ~Excused(v) /\ (FoundAt(v) => FoundAt(v)')
      BY <1>3 DEF Excused, FoundAt, Found
    <3>2. CASE q = p
      <4>1. v.id \in S
        BY <3>2, <1>5, <1>8
      <4>2. \A r \in Procs : v.id \notin Strays(r)
        BY <4>1, <1>1
      <4>3. FoundAt(v)
        BY <4>2, <2>1, <3>1, InSight DEF Known
      <4> QED
        BY <4>3, <3>1, <3>2, <1>5, <1>8 DEF At
    <3>3. CASE q # p
      BY <3>1, <3>3, <2>1, <1>8 DEF Stopped, At
    <3> QED
      BY <3>2, <3>3
  <2> QED
    BY <2>2, <2>5, <2>6
<1> QED
  BY <1>8, <1>9, <1>13, <1>14, <1>15, <1>16, <1>17 DEF Machines

LEMMA CrashIInv == ASSUME IInv, NEW p \in Procs, Crash(p) PROVE IInv'
<1> USE DEF IInv
<1>1. /\ End(p) /\ excused' = excused \cup Strays(p)
      /\ files' = files /\ json' = json /\ vms' = vms /\ tickets' = tickets
      /\ contested' = contested /\ writer' = writer
      /\ kubeconfig' = kubeconfig /\ row' = row /\ commands' = commands /\ faults' \in 0 .. MaxFaults
  BY Counters DEF Crash, Same, Fault
<1>2. Calm(p, Idle)
  BY <1>1, Ends
<1>3. job' \in [Procs -> JobType] /\ Jobs'
  BY <1>2, Calmly
<1>4. Mutex'
  BY <1>2, MutexCalm
<1>5. Fewer
  BY <1>1, SubsetFewer
<1>6. excused \subseteq excused' /\ excused' \in SUBSET Ids
  BY <1>1, Types DEF Typed, TypeOK, Strays, VMs
<1>7. Typed'
  <2>1. /\ json \in {NULL} \cup [next : 1 .. MaxIdx + 1, cp : Ids] /\ vms \in SUBSET VMs
        /\ tickets \in 0 .. MaxVMs /\ contested \in SUBSET Nodes /\ writer \in {NULL} \cup Procs
    BY DEF Typed, TypeOK
  <2> QED
    BY <1>1, <1>3, <1>4, <1>6, <2>1, Counters, StepTyped
<1>8. Tickets' /\ Distinct'
  BY <1>1, <1>2, <1>5, IdleForm, TicketsCalm DEF BootsAs
<1>9. Indices'
  BY <1>1, <1>2, <1>5, IndicesCalm
<1>10. ControlPlane'
  BY <1>1, <1>2, <1>5, <1>6, IdleForm, ControlCalm DEF UpsAs
<1>11. ASSUME At(p, "pid"), NEW v \in vms', v.node = 0, v.id = job[p].id
       PROVE  Excused(v)' \/ FoundAt(v)'
  <2>1. Excused(v) \/ v.id \in Strays(p) \/ FoundAt(v)
    BY <1>1, <1>11, InSight
  <2>2. FoundAt(v) => FoundAt(v)'
    BY <1>1 DEF FoundAt, Found
  <2> QED
    BY <2>1, <2>2, <1>1 DEF Excused
<1>12. Machines'
  BY <1>1, <1>2, <1>5, <1>6, <1>11, Stay, IdleForm, MachinesCalm DEF Grow
<1> QED
  BY <1>3, <1>4, <1>7, <1>8, <1>9, <1>10, <1>12

-----------------------------------------------------------------------------
(* The theorems. *)

LEMMA InitIInv == Init => IInv
<1> SUFFICES ASSUME Init PROVE IInv
  OBVIOUS
<1>1. /\ job \in [Procs -> JobType] /\ vms = {} /\ tickets = 0
      /\ \A p \in Procs : job[p] = Idle
  BY IdleForm DEF Init
<1>2. \A p \in Procs : /\ job[p].at = "none" /\ job[p].cmd = "none" /\ job[p].seen = {}
  BY <1>1, IdleForm
<1>3. Typed
  BY <1>1, <1>2, QemuAssumption, NodesAre
     DEF Typed, TypeOK, Init, NoFiles, Gone, ThreadAt, At
<1>4. Jobs
  BY <1>1, IdleForm DEF Jobs
<1>5. \A p \in Procs, t \in Threads : ~Flying(p, t) /\ ~ThreadAt(p, t, "save") /\ ~Booting(p)
  BY <1>2 DEF Flying, ThreadAt, At, Booting
<1>6. Mutex /\ Tickets /\ Distinct
  BY <1>1, <1>2, <1>5 DEF Mutex, Tickets, Distinct, Booting
<1>7. Indices
  <2>1. \A n \in Nodes : ~files[n].dir
    BY DEF Init, NoFiles, Gone
  <2> QED
    BY <1>1, <1>5, <2>1 DEF Indices, Owned, Ordered, InUse
<1>8. ControlPlane
  BY <1>2 DEF ControlPlane
<1>9. Machines
  BY <1>1 DEF Machines
<1> QED
  BY <1>3, <1>4, <1>6, <1>7, <1>8, <1>9 DEF IInv

LEMMA UnchangedIInv == ASSUME IInv, UNCHANGED vars PROVE IInv'
<1> USE DEF vars, history
<1>1. Typed' /\ Jobs' /\ Mutex'
  BY DEF IInv, Typed, TypeOK, Jobs, Mutex, ThreadAt, At
<1>2. Tickets' /\ Distinct'
  BY DEF IInv, Tickets, Distinct, Flying, Early, Booting, Th, At, Fresh, Running, IdsOf
<1>3. Indices'
  BY DEF IInv, Indices, Owned, Ordered, InUse, Flying, Early, Th, At, ThreadAt
<1>4. ControlPlane'
  BY DEF IInv, ControlPlane, Running, IdsOf, At
<1>5. Machines'
  BY DEF IInv, Machines, Known, Recorded, Stopped, Excused, FoundAt, Found, At, ThreadAt, Th
<1> QED
  BY <1>1, <1>2, <1>3, <1>4, <1>5 DEF IInv

LEMMA NextIInv == ASSUME IInv, [Next]_vars PROVE IInv'
<1>1. ASSUME NEW p \in Procs, Up(p) PROVE IInv'
  BY <1>1, StartUpIInv, UpPrepareIInv, UpPortIInv, UpLaunchIInv, UpPidIInv, UpBootstrapIInv,
     UpSaveIInv, UpRecordIInv, UpFailsIInv DEF Up
<1>2. ASSUME NEW p \in Procs, NEW t \in Threads, Worker(p, t) PROVE IInv'
  BY <1>2, LoadIInv, SaveIInv, MakeDirIInv, WritePortIInv, LaunchIInv, WritePidIInv, JoinIInv,
     ThreadFailsIInv DEF Worker
<1>3. ASSUME NEW p \in Procs, Remove(p) PROVE IInv'
  BY <1>3, StartRemoveIInv, DeleteNodeIInv, EndsIInv, RemoveInfraIInv DEF Remove
<1>4. ASSUME NEW p \in Procs, Destroy(p) PROVE IInv'
  BY <1>4, StartDestroyIInv, KillWorkersIInv, KillControlPlaneIInv, RemoveFilesIInv,
     MarkDestroyedIInv, EndsIInv DEF Destroy
<1>5. ASSUME NEW p \in Procs, StartAdd(p) \/ WorkersEnd(p) \/ Crash(p) PROVE IInv'
  BY <1>5, StartAddIInv, EndsIInv, CrashIInv
<1> QED
  BY <1>1, <1>2, <1>3, <1>4, <1>5, UnchangedIInv DEF Next

\* The invariant above holds in every reachable state: what the files of the
\* cluster, its commands and its machines know of each other (Provision,
\* AddNode, RemoveNode and Destroy of the QEMU provider).
THEOREM MachinesInvariant == Spec => []IInv
<1> QED
  BY InitIInv, NextIInv, PTL DEF Spec

\* The state keeps its types, and the mutex of AddNode lets one goroutine of a
\* process at a time between reading cluster.json and saving it.
THEOREM TypeCorrect == Spec => []TypeOK
<1>1. IInv => TypeOK
  BY DEF IInv, Typed
<1> QED
  BY <1>1, MachinesInvariant, PTL

\* While the cluster has an active row every machine is one that destroy would
\* find, or one a running command has in hand (ssh.port before the launch, vm.pid
\* after it, the deferred cleanups), whichever step of a command fails or is its
\* last.  Exempt are the excused: see NoOrphans.  Without an active row destroy
\* does not look, and nothing is claimed.
THEOREM RegisteredMachinesFound == Spec => []NoOrphans
<1>1. IInv => NoOrphans
  <2> SUFFICES ASSUME IInv, row = "active", NEW v \in vms, ~Excused(v)
               PROVE  DestroyFinds(v) \/ \E p \in Procs : v.id \in Held(p)
    BY DEF NoOrphans
  <2>1. CASE FoundAt(v)
    BY <2>1 DEF FoundAt, DestroyFinds
  <2>2. ASSUME NEW p \in Procs, At(p, "pid"), v.id = job[p].id PROVE v.id \in Held(p)
    <3>1. job[p].at = "pid" /\ job[p].cmd = "up"
      BY <2>2, NoSteps, Types DEF IInv, At, Jobs, UpSteps
    <3> QED
      BY <3>1, <2>2 DEF Held
  <2> QED
    BY <2>1, <2>2 DEF IInv, Machines, Known
<1> QED
  BY <1>1, MachinesInvariant, PTL

\* A node name stands for one machine, however the goroutines of add-node and
\* the commands of several processes interleave (AddNode's mutex, the index
\* saved before it is acted upon).
THEOREM OneMachine == Spec => []OneMachinePerNode
<1>1. IInv => OneMachinePerNode
  <2> SUFFICES ASSUME IInv, NEW v \in vms, NEW w \in vms, v.node = w.node,
                      ~Excused(v), ~Excused(w)
               PROVE  v = w
    BY DEF OneMachinePerNode
  <2>1. v.id = w.id
    <3>1. CASE FoundAt(v) /\ FoundAt(w)
      BY <3>1 DEF FoundAt
    <3>2. ASSUME NEW p \in Procs, At(p, "pid"), v.node = 0
          PROVE  v.id = w.id
      BY <3>2 DEF IInv, ControlPlane, Excused, At
    <3> QED
      BY <3>1, <3>2 DEF IInv, Machines, Known
  <2> QED
    BY <2>1 DEF IInv, Tickets
<1> QED
  BY <1>1, MachinesInvariant, PTL

\* A destroy that reports success has stopped every machine that was running
\* when it began and that the cluster's files or a running command led to,
\* those whose add-node died half-way included (Destroy).
THEOREM AllStopped == Spec => []DestroyStopsAll
<1>1. IInv => DestroyStopsAll
  <2> SUFFICES ASSUME IInv, NEW p \in Procs, At(p, "destroyed"), NEW v \in vms, v.id \in job[p].seen
               PROVE  Excused(v)
    BY DEF DestroyStopsAll
  <2>1. job[p].at = "destroyed" /\ job[p].cmd = "destroy"
    BY NoSteps, Types DEF IInv, At, Jobs, DestroySteps
  <2> QED
    BY <2>1 DEF IInv, Machines, Stopped
<1> QED
  BY <1>1, MachinesInvariant, PTL

=============================================================================
