--------------------------- MODULE NodeOps_proofs ---------------------------
(***************************************************************************)
(* Proofs about add-node and remove-node: for any number of processes and  *)
(* goroutines, any faults and any length of run, a worker that no two      *)
(* commands fight over leaves in the order drain, node, server, row.       *)
(***************************************************************************)
EXTENDS NodeOps, TLAPS

-----------------------------------------------------------------------------
(* The inductive invariant. *)

JobType == [cmd: {"none", "add", "remove"},
            th: [Threads -> [at: Steps, name: Names \cup {NULL}]],
            prov: BOOLEAN, result: {"none", "success", "error"}]

\* Every name there is was taken by an add-node goroutine.
NamesUsed == servers \cup k8s \cup rows \subseteq used

\* Which command a goroutine belongs to, and that it has a name when it needs
\* one.
Placed(p, t) ==
  LET at == job[p].th[t].at  n == job[p].th[t].name
  IN /\ n \in used \cup {NULL}
     /\ at = "name" => job[p].cmd = "add"
     /\ at \in {"lookup", "create", "join"} => job[p].cmd = "add" /\ n \in used
     /\ at \in {"drain", "delete", "infra"} => job[p].cmd = "remove" /\ n \in used
     /\ at \in {"ok", "took-ok"} => n \in used

\* What an uncontested goroutine has achieved when it reaches its next call.
Achieved(p, t) ==
  LET at == job[p].th[t].at  n == job[p].th[t].name  cmd == job[p].cmd
  IN n \notin contested =>
       /\ at = "delete" /\ n \in k8s => n \in cordoned
       /\ cmd = "remove" /\ at \in {"infra", "ok", "took-ok"} => n \notin k8s
       /\ cmd = "remove" /\ at \in {"ok", "took-ok"} /\ job[p].prov => n \notin servers
       /\ cmd = "remove" /\ at = "took-ok" => n \notin rows \/ lostWrite
       /\ cmd = "add" /\ at \in {"ok", "took-ok"} => n \in servers /\ n \in k8s
       /\ cmd = "add" /\ at = "took-ok" => n \in rows \/ lostWrite

\* A command that reports success has had a good result from every goroutine.
Finished(p) ==
  job[p].result = "success" => \A t \in Threads : job[p].th[t].at \in {"off", "took-ok"}

\* A name that an add-node and a remove-node both work on is contested.
Apart ==
  \A p, q \in Procs, t, u \in Threads :
    (/\ job[p].cmd = "add" /\ job[p].th[t].at # "off"
     /\ job[q].cmd = "remove" /\ job[q].th[u].at # "off"
     /\ job[p].th[t].name = job[q].th[u].name)
    => job[p].th[t].name \in contested \cup {NULL}

IInv ==
  /\ TypeOK /\ NamesUsed /\ Apart
  /\ \A p \in Procs, t \in Threads : Placed(p, t)
  /\ \A p \in Procs, t \in Threads : Achieved(p, t)
  /\ \A p \in Procs : Finished(p)

-----------------------------------------------------------------------------
(* What a step does to the processes. *)

LEMMA Typed == TypeOK => job \in [Procs -> JobType]
  BY DEF TypeOK, JobType

\* A goroutine goes to its next call; everything else about the processes
\* stays.
LEMMA GotoEffect ==
  ASSUME TypeOK, NEW p \in Procs, NEW t \in Threads, NEW s \in Steps, Goto(p, t, s)
  PROVE  /\ job' \in [Procs -> JobType]
         /\ \A q \in Procs : /\ job'[q].cmd = job[q].cmd /\ job'[q].prov = job[q].prov
                            /\ job'[q].result = job[q].result
         /\ \A q \in Procs, u \in Threads : job'[q].th[u].name = job[q].th[u].name
         /\ \A q \in Procs, u \in Threads :
              q # p \/ u # t => job'[q].th[u].at = job[q].th[u].at
         /\ job'[p].th[t].at = s
  <1>1. job \in [Procs -> JobType]
    BY Typed
  <1>2. /\ job[p] \in JobType
        /\ job[p].th \in [Threads -> [at: Steps, name: Names \cup {NULL}]]
        /\ job[p].th[t] \in [at: Steps, name: Names \cup {NULL}]
    BY <1>1 DEF JobType
  <1> DEFINE th == [job[p].th[t] EXCEPT !.at = s]
             ths == [job[p].th EXCEPT ![t] = th]
             j == [job[p] EXCEPT !.th = ths]
  <1>3. /\ th \in [at: Steps, name: Names \cup {NULL}]
        /\ th.at = s /\ th.name = job[p].th[t].name
    BY <1>2
  <1>4. job' = [job EXCEPT ![p] = j]
    BY <1>1, <1>2 DEF Goto
  <1> HIDE DEF th
  <1>5. /\ ths \in [Threads -> [at: Steps, name: Names \cup {NULL}]]
        /\ ths[t] = th /\ \A u \in Threads \ {t} : ths[u] = job[p].th[u]
    BY <1>2, <1>3
  <1> HIDE DEF ths
  <1>6. /\ j \in JobType /\ j.th = ths
        /\ j.cmd = job[p].cmd /\ j.prov = job[p].prov /\ j.result = job[p].result
    BY <1>2, <1>5 DEF JobType
  <1> HIDE DEF j
  <1>7. /\ job' \in [Procs -> JobType] /\ job'[p] = j
        /\ \A q \in Procs \ {p} : job'[q] = job[q]
    BY <1>1, <1>4, <1>6
  <1>8. \A q \in Procs : /\ job'[q].cmd = job[q].cmd /\ job'[q].prov = job[q].prov
                          /\ job'[q].result = job[q].result
    BY <1>6, <1>7
  <1>9. \A q \in Procs, u \in Threads :
          /\ job'[q].th[u].name = job[q].th[u].name
          /\ q # p \/ u # t => job'[q].th[u].at = job[q].th[u].at
    BY <1>3, <1>5, <1>6, <1>7
  <1>10. job'[p].th[t].at = s
    BY <1>3, <1>5, <1>6, <1>7
  <1> QED BY <1>7, <1>8, <1>9, <1>10

\* A goroutine of add-node takes its name.
LEMMA NameEffect ==
  ASSUME TypeOK, NEW p \in Procs, NEW t \in Threads, Name(p, t)
  PROVE  /\ job' \in [Procs -> JobType]
         /\ \A q \in Procs : /\ job'[q].cmd = job[q].cmd /\ job'[q].prov = job[q].prov
                            /\ job'[q].result = job[q].result
         /\ \A q \in Procs, u \in Threads :
              q # p \/ u # t => job'[q].th[u] = job[q].th[u]
         /\ job'[p].th[t].at = "lookup" /\ job'[p].th[t].name = clock
  <1>1. job \in [Procs -> JobType]
    BY Typed
  <1>2. /\ job[p] \in JobType
        /\ job[p].th \in [Threads -> [at: Steps, name: Names \cup {NULL}]]
    BY <1>1 DEF JobType
  <1> DEFINE th == [at |-> "lookup", name |-> clock]
             ths == [job[p].th EXCEPT ![t] = th]
             j == [job[p] EXCEPT !.th = ths]
  <1>3. th \in [at: Steps, name: Names \cup {NULL}] /\ th.at = "lookup" /\ th.name = clock
    BY DEF TypeOK, Steps
  <1>4. job' = [job EXCEPT ![p] = j]
    BY <1>1, <1>2 DEF Name
  <1> HIDE DEF th
  <1>5. /\ ths \in [Threads -> [at: Steps, name: Names \cup {NULL}]]
        /\ ths[t] = th /\ \A u \in Threads \ {t} : ths[u] = job[p].th[u]
    BY <1>2, <1>3
  <1> HIDE DEF ths
  <1>6. /\ j \in JobType /\ j.th = ths
        /\ j.cmd = job[p].cmd /\ j.prov = job[p].prov /\ j.result = job[p].result
    BY <1>2, <1>5 DEF JobType
  <1> HIDE DEF j
  <1>7. /\ job' \in [Procs -> JobType] /\ job'[p] = j
        /\ \A q \in Procs \ {p} : job'[q] = job[q]
    BY <1>1, <1>4, <1>6
  <1>8. \A q \in Procs : /\ job'[q].cmd = job[q].cmd /\ job'[q].prov = job[q].prov
                          /\ job'[q].result = job[q].result
    BY <1>6, <1>7
  <1>9. \A q \in Procs, u \in Threads : q # p \/ u # t => job'[q].th[u] = job[q].th[u]
    BY <1>5, <1>6, <1>7
  <1>10. job'[p].th[t].at = "lookup" /\ job'[p].th[t].name = clock
    BY <1>3, <1>5, <1>6, <1>7
  <1> QED BY <1>7, <1>8, <1>9, <1>10

\* A name is a number, and NULL is none.
LEMMA NameNotNull == TypeOK => NULL \notin used
  <1> SUFFICES ASSUME TypeOK, NULL \in used PROVE FALSE
    OBVIOUS
  <1>1. NULL \in 0 .. clock
    BY DEF TypeOK
  <1>2. NULL \in Nat
    BY <1>1
  <1> QED BY <1>2, NodeOpsAssumption DEF NodeOpsAssumption

LEMMA InitIInv == Init => IInv
  <1> SUFFICES ASSUME Init PROVE IInv
    OBVIOUS
  <1>1. job \in [Procs -> JobType]
    BY DEF Init, Idle, Off, JobType, Steps
  <1>2. TypeOK
    <2>1. clock \in Names /\ commands \in 0 .. MaxCommands /\ faults \in 0 .. MaxFaults
      BY NodeOpsAssumption DEF NodeOpsAssumption, Init, Names
    <2> QED BY <1>1, <2>1 DEF Init, TypeOK, JobType
  <1>3. NamesUsed /\ Apart
    BY DEF Init, Idle, NamesUsed, Apart
  <1>4. \A p \in Procs, t \in Threads : Placed(p, t) /\ Achieved(p, t)
    BY DEF Init, Idle, Off, Placed, Achieved
  <1>5. \A p \in Procs : Finished(p)
    BY DEF Init, Idle, Finished
  <1> QED BY <1>2, <1>3, <1>4, <1>5 DEF IInv

-----------------------------------------------------------------------------
(* One lemma per action. *)

LEMMA TickIInv == ASSUME IInv, Tick PROVE IInv'
  <1> USE NodeOpsAssumption DEF NodeOpsAssumption, Tick, cluster, history, IInv
  <1>1. clock \in Nat /\ clock' = clock + 1 /\ 0 .. clock \subseteq 0 .. clock'
    BY DEF TypeOK, Names
  <1>2. TypeOK'
    BY <1>1 DEF TypeOK, Names
  <1>3. /\ NamesUsed' /\ Apart'
        /\ \A p \in Procs, t \in Threads : Placed(p, t)' /\ Achieved(p, t)'
        /\ \A p \in Procs : Finished(p)'
    BY DEF NamesUsed, Apart, Placed, Achieved, Finished
  <1> QED BY <1>2, <1>3

LEMMA LookupServerIInv ==
  ASSUME IInv, NEW p \in Procs, NEW t \in Threads, LookupServer(p, t) PROVE IInv'
  <1>1. PICK s \in {"join", "create"} :
          /\ Goto(p, t, s) /\ job[p].th[t].at \in {"lookup"}
    BY DEF LookupServer, At, Thread
  <1>2. /\ UNCHANGED <<servers, k8s, cordoned, rows, clock, used, contested, commands>>
        /\ lostWrite' = lostWrite /\ faults' \in 0 .. MaxFaults
    <2>1. UNCHANGED <<servers, k8s, cordoned, rows, clock, used, contested, commands>>
      BY DEF LookupServer, cluster, history, Same
    <2>2. lostWrite' = lostWrite
      BY DEF IInv, TypeOK, LookupServer, Same
    <2>3. Fault \/ NoFault
      BY DEF LookupServer
    <2>4. faults' \in 0 .. MaxFaults
      BY <2>3, NodeOpsAssumption DEF NodeOpsAssumption, IInv, TypeOK, Fault, NoFault
    <2> QED BY <2>1, <2>2, <2>4
  <1> USE DEF IInv
  <1>3. /\ job' \in [Procs -> JobType]
        /\ \A q \in Procs : /\ job'[q].cmd = job[q].cmd /\ job'[q].prov = job[q].prov
                            /\ job'[q].result = job[q].result
        /\ \A q \in Procs, u \in Threads : job'[q].th[u].name = job[q].th[u].name
        /\ \A q \in Procs, u \in Threads :
             q # p \/ u # t => job'[q].th[u].at = job[q].th[u].at
        /\ job'[p].th[t].at = s
    <2>1. s \in Steps
      BY DEF Steps
    <2> QED BY <1>1, <2>1, GotoEffect
  <1>4. job[p].th[t].name \in used \cup {NULL} /\ job[p].th[t].at # "off"
    BY <1>1 DEF Placed
  <1>5. TypeOK'
    BY <1>1, <1>2, <1>3 DEF TypeOK, JobType, Placed
  <1>6. NamesUsed'
    BY <1>1, <1>2 DEF NamesUsed, Placed
  <1>7. Apart'
    BY <1>2, <1>3, <1>4 DEF Apart
  <1>8. \A q \in Procs, u \in Threads : Placed(q, u)'
    BY <1>1, <1>2, <1>3 DEF Placed
  <1>9. \A q \in Procs, u \in Threads : Achieved(q, u)'
    BY <1>1, <1>2, <1>3 DEF Achieved
  <1>10. \A q \in Procs : Finished(q)'
    BY <1>1, <1>3 DEF Finished
  <1> QED BY <1>5, <1>6, <1>7, <1>8, <1>9, <1>10

\* A server that appears is none that a removal has deleted: its name would be
\* contested.
LEMMA CreateServerIInv ==
  ASSUME IInv, NEW p \in Procs, NEW t \in Threads, CreateServer(p, t) PROVE IInv'
  <1>1. PICK s \in {"failed", "join"} :
          /\ Goto(p, t, s) /\ job[p].th[t].at \in {"create"}
          /\ servers' \in {servers, servers \cup {job[p].th[t].name}}
    BY DEF CreateServer, At, Thread
  <1>2. /\ UNCHANGED <<k8s, cordoned, rows, clock, used, contested, commands>>
        /\ lostWrite' = lostWrite /\ faults' \in 0 .. MaxFaults
    <2>1. UNCHANGED <<k8s, cordoned, rows, clock, used, contested, commands>>
      BY DEF CreateServer, cluster, history, Same
    <2>2. lostWrite' = lostWrite
      BY DEF IInv, TypeOK, CreateServer, Same
    <2>3. Fault \/ NoFault
      BY DEF CreateServer
    <2>4. faults' \in 0 .. MaxFaults
      BY <2>3, NodeOpsAssumption DEF NodeOpsAssumption, IInv, TypeOK, Fault, NoFault
    <2> QED BY <2>1, <2>2, <2>4
  <1> USE DEF IInv
  <1>3. /\ job' \in [Procs -> JobType]
        /\ \A q \in Procs : /\ job'[q].cmd = job[q].cmd /\ job'[q].prov = job[q].prov
                            /\ job'[q].result = job[q].result
        /\ \A q \in Procs, u \in Threads : job'[q].th[u].name = job[q].th[u].name
        /\ \A q \in Procs, u \in Threads :
             q # p \/ u # t => job'[q].th[u].at = job[q].th[u].at
        /\ job'[p].th[t].at = s
    <2>1. s \in Steps
      BY DEF Steps
    <2> QED BY <1>1, <2>1, GotoEffect
  <1>4. job[p].th[t].name \in used \cup {NULL} /\ job[p].th[t].at # "off"
    BY <1>1 DEF Placed
  <1>5. TypeOK'
    BY <1>1, <1>2, <1>3 DEF TypeOK, JobType, Placed
  <1>6. NamesUsed'
    BY <1>1, <1>2 DEF NamesUsed, Placed
  <1>7. Apart'
    BY <1>2, <1>3, <1>4 DEF Apart
  <1>8. \A q \in Procs, u \in Threads : Placed(q, u)'
    BY <1>1, <1>2, <1>3 DEF Placed
  <1>9. \A q \in Procs, u \in Threads : Achieved(q, u)'
    <2> SUFFICES ASSUME NEW q \in Procs, NEW u \in Threads PROVE Achieved(q, u)'
      OBVIOUS
    <2>1. job[p].cmd = "add" /\ job[p].th[t].name \in used
      BY <1>1 DEF Placed
    <2>2. job[p].th[t].name # NULL
      BY <2>1, NameNotNull
    <2>3. CASE q = p /\ u = t
      BY <1>1, <1>2, <1>3, <2>1, <2>3 DEF Achieved
    <2>4. CASE q # p \/ u # t
      <3>1. /\ job'[q].th[u].name = job[q].th[u].name /\ job'[q].th[u].at = job[q].th[u].at
            /\ job'[q].cmd = job[q].cmd /\ job'[q].prov = job[q].prov
        BY <1>3, <2>4
      <3>2. ASSUME job[q].cmd = "remove", job[q].th[u].at # "off",
                   job[q].th[u].name = job[p].th[t].name
            PROVE  job[q].th[u].name \in contested
        BY <1>4, <2>1, <2>2, <3>2 DEF Apart
      <3>3. job[q].th[u].at \in {"delete", "infra"} => job[q].cmd = "remove"
        BY DEF Placed
      <3> QED BY <1>1, <1>2, <3>1, <3>2, <3>3 DEF Achieved
    <2> QED BY <2>3, <2>4
  <1>10. \A q \in Procs : Finished(q)'
    BY <1>1, <1>3 DEF Finished
  <1> QED BY <1>5, <1>6, <1>7, <1>8, <1>9, <1>10

\* Nor is a node that joins one that a removal has drained or deleted.
LEMMA JoinNodeIInv ==
  ASSUME IInv, NEW p \in Procs, NEW t \in Threads, JoinNode(p, t) PROVE IInv'
  <1>1. PICK s \in {"ok"} :
          /\ Goto(p, t, s) /\ job[p].th[t].at \in {"join"}
          /\ job[p].th[t].name \in servers /\ k8s' = k8s \cup {job[p].th[t].name}
    BY DEF JoinNode, At, Thread
  <1>2. /\ UNCHANGED <<servers, cordoned, rows, clock, used, contested, commands>>
        /\ lostWrite' = lostWrite /\ faults' \in 0 .. MaxFaults
    <2>1. UNCHANGED <<servers, cordoned, rows, clock, used, contested, commands>>
      BY DEF JoinNode, cluster, history, Same
    <2>2. lostWrite' = lostWrite
      BY DEF IInv, TypeOK, JoinNode, Same
    <2>3. Fault \/ NoFault
      BY DEF JoinNode
    <2>4. faults' \in 0 .. MaxFaults
      BY <2>3, NodeOpsAssumption DEF NodeOpsAssumption, IInv, TypeOK, Fault, NoFault
    <2> QED BY <2>1, <2>2, <2>4
  <1> USE DEF IInv
  <1>3. /\ job' \in [Procs -> JobType]
        /\ \A q \in Procs : /\ job'[q].cmd = job[q].cmd /\ job'[q].prov = job[q].prov
                            /\ job'[q].result = job[q].result
        /\ \A q \in Procs, u \in Threads : job'[q].th[u].name = job[q].th[u].name
        /\ \A q \in Procs, u \in Threads :
             q # p \/ u # t => job'[q].th[u].at = job[q].th[u].at
        /\ job'[p].th[t].at = s
    <2>1. s \in Steps
      BY DEF Steps
    <2> QED BY <1>1, <2>1, GotoEffect
  <1>4. job[p].th[t].name \in used \cup {NULL} /\ job[p].th[t].at # "off"
    BY <1>1 DEF Placed
  <1>5. TypeOK'
    BY <1>1, <1>2, <1>3 DEF TypeOK, JobType, Placed
  <1>6. NamesUsed'
    BY <1>1, <1>2 DEF NamesUsed, Placed
  <1>7. Apart'
    BY <1>2, <1>3, <1>4 DEF Apart
  <1>8. \A q \in Procs, u \in Threads : Placed(q, u)'
    BY <1>1, <1>2, <1>3 DEF Placed
  <1>9. \A q \in Procs, u \in Threads : Achieved(q, u)'
    <2> SUFFICES ASSUME NEW q \in Procs, NEW u \in Threads PROVE Achieved(q, u)'
      OBVIOUS
    <2>1. job[p].cmd = "add" /\ job[p].th[t].name \in used
      BY <1>1 DEF Placed
    <2>2. job[p].th[t].name # NULL
      BY <2>1, NameNotNull
    <2>3. CASE q = p /\ u = t
      BY <1>1, <1>2, <1>3, <2>1, <2>3 DEF Achieved
    <2>4. CASE q # p \/ u # t
      <3>1. /\ job'[q].th[u].name = job[q].th[u].name /\ job'[q].th[u].at = job[q].th[u].at
            /\ job'[q].cmd = job[q].cmd /\ job'[q].prov = job[q].prov
        BY <1>3, <2>4
      <3>2. ASSUME job[q].cmd = "remove", job[q].th[u].at # "off",
                   job[q].th[u].name = job[p].th[t].name
            PROVE  job[q].th[u].name \in contested
        BY <1>4, <2>1, <2>2, <3>2 DEF Apart
      <3>3. job[q].th[u].at \in {"delete", "infra"} => job[q].cmd = "remove"
        BY DEF Placed
      <3> QED BY <1>1, <1>2, <3>1, <3>2, <3>3 DEF Achieved
    <2> QED BY <2>3, <2>4
  <1>10. \A q \in Procs : Finished(q)'
    BY <1>1, <1>3 DEF Finished
  <1> QED BY <1>5, <1>6, <1>7, <1>8, <1>9, <1>10

LEMMA AddFailsIInv ==
  ASSUME IInv, NEW p \in Procs, NEW t \in Threads, AddFails(p, t) PROVE IInv'
  <1>1. PICK s \in {"failed"} :
          /\ Goto(p, t, s) /\ job[p].th[t].at \in {"name", "lookup", "create", "join"}
    BY DEF AddFails, At, Thread
  <1>2. /\ UNCHANGED <<servers, k8s, cordoned, rows, clock, used, contested, commands>>
        /\ lostWrite' = lostWrite /\ faults' \in 0 .. MaxFaults
    <2>1. UNCHANGED <<servers, k8s, cordoned, rows, clock, used, contested, commands>>
      BY DEF AddFails, cluster, history, Same
    <2>2. lostWrite' = lostWrite
      BY DEF IInv, TypeOK, AddFails, Same
    <2>3. Fault \/ NoFault
      BY DEF AddFails
    <2>4. faults' \in 0 .. MaxFaults
      BY <2>3, NodeOpsAssumption DEF NodeOpsAssumption, IInv, TypeOK, Fault, NoFault
    <2> QED BY <2>1, <2>2, <2>4
  <1> USE DEF IInv
  <1>3. /\ job' \in [Procs -> JobType]
        /\ \A q \in Procs : /\ job'[q].cmd = job[q].cmd /\ job'[q].prov = job[q].prov
                            /\ job'[q].result = job[q].result
        /\ \A q \in Procs, u \in Threads : job'[q].th[u].name = job[q].th[u].name
        /\ \A q \in Procs, u \in Threads :
             q # p \/ u # t => job'[q].th[u].at = job[q].th[u].at
        /\ job'[p].th[t].at = s
    <2>1. s \in Steps
      BY DEF Steps
    <2> QED BY <1>1, <2>1, GotoEffect
  <1>4. job[p].th[t].name \in used \cup {NULL} /\ job[p].th[t].at # "off"
    BY <1>1 DEF Placed
  <1>5. TypeOK'
    BY <1>1, <1>2, <1>3 DEF TypeOK, JobType, Placed
  <1>6. NamesUsed'
    BY <1>1, <1>2 DEF NamesUsed, Placed
  <1>7. Apart'
    BY <1>2, <1>3, <1>4 DEF Apart
  <1>8. \A q \in Procs, u \in Threads : Placed(q, u)'
    BY <1>1, <1>2, <1>3 DEF Placed
  <1>9. \A q \in Procs, u \in Threads : Achieved(q, u)'
    BY <1>1, <1>2, <1>3 DEF Achieved
  <1>10. \A q \in Procs : Finished(q)'
    BY <1>1, <1>3 DEF Finished
  <1> QED BY <1>5, <1>6, <1>7, <1>8, <1>9, <1>10

LEMMA ReceiveAddedIInv ==
  ASSUME IInv, NEW p \in Procs, NEW t \in Threads, ReceiveAdded(p, t) PROVE IInv'
  <1>1. PICK s \in {"took-ok", "took-failed"} :
          /\ Goto(p, t, s) /\ job[p].th[t].at \in {"ok", "failed"}
          /\ rows' = rows \/ (job[p].th[t].at = "ok" /\ rows' = rows \cup {job[p].th[t].name})
          /\ job[p].cmd = "add" /\ (lostWrite => lostWrite')
          /\ s = "took-ok" => /\ job[p].th[t].at = "ok"
                              /\ job[p].th[t].name \in rows' \/ lostWrite'
    BY DEF ReceiveAdded, At, Thread
  <1>2. /\ UNCHANGED <<servers, k8s, cordoned, clock, used, contested, commands>>
        /\ lostWrite' \in BOOLEAN /\ faults' \in 0 .. MaxFaults
    <2>1. UNCHANGED <<servers, k8s, cordoned, clock, used, contested, commands>>
      BY DEF ReceiveAdded, cluster, history, Same
    <2>2. lostWrite' \in BOOLEAN
      BY DEF IInv, TypeOK, ReceiveAdded, Same
    <2>3. Fault \/ NoFault
      BY DEF ReceiveAdded
    <2>4. faults' \in 0 .. MaxFaults
      BY <2>3, NodeOpsAssumption DEF NodeOpsAssumption, IInv, TypeOK, Fault, NoFault
    <2> QED BY <2>1, <2>2, <2>4
  <1> USE DEF IInv
  <1>3. /\ job' \in [Procs -> JobType]
        /\ \A q \in Procs : /\ job'[q].cmd = job[q].cmd /\ job'[q].prov = job[q].prov
                            /\ job'[q].result = job[q].result
        /\ \A q \in Procs, u \in Threads : job'[q].th[u].name = job[q].th[u].name
        /\ \A q \in Procs, u \in Threads :
             q # p \/ u # t => job'[q].th[u].at = job[q].th[u].at
        /\ job'[p].th[t].at = s
    <2>1. s \in Steps
      BY DEF Steps
    <2> QED BY <1>1, <2>1, GotoEffect
  <1>4. job[p].th[t].name \in used \cup {NULL} /\ job[p].th[t].at # "off"
    BY <1>1 DEF Placed
  <1>5. TypeOK'
    BY <1>1, <1>2, <1>3 DEF TypeOK, JobType, Placed
  <1>6. NamesUsed'
    BY <1>1, <1>2 DEF NamesUsed, Placed
  <1>7. Apart'
    BY <1>2, <1>3, <1>4 DEF Apart
  <1>8. \A q \in Procs, u \in Threads : Placed(q, u)'
    <2>1. /\ s \in {"took-ok", "took-failed"} /\ job[p].th[t].at \in {"ok", "failed"}
          /\ s = "took-ok" => job[p].th[t].at = "ok"
      BY <1>1
    <2> QED BY <2>1, <1>2, <1>3 DEF Placed
  <1>9. \A q \in Procs, u \in Threads : Achieved(q, u)'
    <2> SUFFICES ASSUME NEW q \in Procs, NEW u \in Threads PROVE Achieved(q, u)'
      OBVIOUS
    <2>1. job[p].cmd = "add"
      BY <1>1
    <2>2. CASE q = p /\ u = t
      <3>1. ASSUME s = "took-ok", job[p].th[t].name \notin contested
            PROVE  LET n == job[p].th[t].name IN n \in servers /\ n \in k8s
        BY <1>1, <2>1, <3>1 DEF Achieved
      <3>2. s = "took-ok" => job[p].th[t].name \in rows' \/ lostWrite'
        BY <1>1
      <3>3. s \in {"took-ok", "took-failed"}
        BY <1>1
      <3> QED BY <1>2, <1>3, <2>1, <2>2, <3>1, <3>2, <3>3 DEF Achieved
    <2>3. CASE q # p \/ u # t
      <3>1. /\ job'[q].th[u].name = job[q].th[u].name /\ job'[q].th[u].at = job[q].th[u].at
            /\ job'[q].cmd = job[q].cmd /\ job'[q].prov = job[q].prov
        BY <1>3, <2>3
      <3>2. ASSUME job[q].cmd = "remove", job[q].th[u].at # "off",
                   job[q].th[u].name \in used, job[q].th[u].name = job[p].th[t].name
            PROVE  job[q].th[u].name \in contested
        BY <1>4, <2>1, <3>2, NameNotNull DEF Apart
      <3>3. /\ job[q].th[u].at \in {"delete", "infra"} => job[q].cmd = "remove"
            /\ job[q].th[u].at \in {"delete", "infra", "ok", "took-ok"} => job[q].th[u].name \in used
        BY DEF Placed
      <3> QED BY <1>1, <1>2, <3>1, <3>2, <3>3 DEF Achieved
    <2> QED BY <2>2, <2>3
  <1>10. \A q \in Procs : Finished(q)'
    BY <1>1, <1>3 DEF Finished
  <1> QED BY <1>5, <1>6, <1>7, <1>8, <1>9, <1>10

LEMMA DrainIInv ==
  ASSUME IInv, NEW p \in Procs, NEW t \in Threads, Drain(p, t) PROVE IInv'
  <1>1. PICK s \in {"delete", "failed"} :
          /\ Goto(p, t, s) /\ job[p].th[t].at \in {"drain"}
          /\ cordoned \subseteq cordoned' /\ cordoned' \subseteq k8s
          /\ s = "delete" => job[p].th[t].name \in cordoned'
    BY DEF Drain, At, Thread, IInv, TypeOK
  <1>2. /\ UNCHANGED <<servers, k8s, rows, clock, used, contested, commands>>
        /\ lostWrite' = lostWrite /\ faults' \in 0 .. MaxFaults
    <2>1. UNCHANGED <<servers, k8s, rows, clock, used, contested, commands>>
      BY DEF Drain, cluster, history, Same
    <2>2. lostWrite' = lostWrite
      BY DEF IInv, TypeOK, Drain, Same
    <2>3. Fault \/ NoFault
      BY DEF Drain
    <2>4. faults' \in 0 .. MaxFaults
      BY <2>3, NodeOpsAssumption DEF NodeOpsAssumption, IInv, TypeOK, Fault, NoFault
    <2> QED BY <2>1, <2>2, <2>4
  <1> USE DEF IInv
  <1>3. /\ job' \in [Procs -> JobType]
        /\ \A q \in Procs : /\ job'[q].cmd = job[q].cmd /\ job'[q].prov = job[q].prov
                            /\ job'[q].result = job[q].result
        /\ \A q \in Procs, u \in Threads : job'[q].th[u].name = job[q].th[u].name
        /\ \A q \in Procs, u \in Threads :
             q # p \/ u # t => job'[q].th[u].at = job[q].th[u].at
        /\ job'[p].th[t].at = s
    <2>1. s \in Steps
      BY DEF Steps
    <2> QED BY <1>1, <2>1, GotoEffect
  <1>4. job[p].th[t].name \in used \cup {NULL} /\ job[p].th[t].at # "off"
    BY <1>1 DEF Placed
  <1>5. TypeOK'
    BY <1>1, <1>2, <1>3 DEF TypeOK, JobType, Placed
  <1>6. NamesUsed'
    BY <1>1, <1>2 DEF NamesUsed, Placed
  <1>7. Apart'
    BY <1>2, <1>3, <1>4 DEF Apart
  <1>8. \A q \in Procs, u \in Threads : Placed(q, u)'
    BY <1>1, <1>2, <1>3 DEF Placed
  <1>9. \A q \in Procs, u \in Threads : Achieved(q, u)'
    BY <1>1, <1>2, <1>3 DEF Achieved
  <1>10. \A q \in Procs : Finished(q)'
    BY <1>1, <1>3 DEF Finished
  <1> QED BY <1>5, <1>6, <1>7, <1>8, <1>9, <1>10

\* The node is gone when its removal comes to the infrastructure.
LEMMA DeleteNodeIInv ==
  ASSUME IInv, NEW p \in Procs, NEW t \in Threads, DeleteNode(p, t) PROVE IInv'
  <1>1. PICK s \in {"infra", "failed"} :
          /\ Goto(p, t, s) /\ job[p].th[t].at \in {"delete"}
          /\ (k8s' = k8s /\ cordoned' = cordoned)
             \/ (k8s' = k8s \ {job[p].th[t].name} /\ cordoned' = cordoned \ {job[p].th[t].name})
          /\ s = "infra" => job[p].th[t].name \notin k8s'
    BY DEF DeleteNode, At, Thread
  <1>2. /\ UNCHANGED <<servers, rows, clock, used, contested, commands>>
        /\ lostWrite' = lostWrite /\ faults' \in 0 .. MaxFaults
    <2>1. UNCHANGED <<servers, rows, clock, used, contested, commands>>
      BY DEF DeleteNode, cluster, history, Same
    <2>2. lostWrite' = lostWrite
      BY DEF IInv, TypeOK, DeleteNode, Same
    <2>3. Fault \/ NoFault
      BY DEF DeleteNode
    <2>4. faults' \in 0 .. MaxFaults
      BY <2>3, NodeOpsAssumption DEF NodeOpsAssumption, IInv, TypeOK, Fault, NoFault
    <2> QED BY <2>1, <2>2, <2>4
  <1> USE DEF IInv
  <1>3. /\ job' \in [Procs -> JobType]
        /\ \A q \in Procs : /\ job'[q].cmd = job[q].cmd /\ job'[q].prov = job[q].prov
                            /\ job'[q].result = job[q].result
        /\ \A q \in Procs, u \in Threads : job'[q].th[u].name = job[q].th[u].name
        /\ \A q \in Procs, u \in Threads :
             q # p \/ u # t => job'[q].th[u].at = job[q].th[u].at
        /\ job'[p].th[t].at = s
    <2>1. s \in Steps
      BY DEF Steps
    <2> QED BY <1>1, <2>1, GotoEffect
  <1>4. job[p].th[t].name \in used \cup {NULL} /\ job[p].th[t].at # "off"
    BY <1>1 DEF Placed
  <1>5. TypeOK'
    BY <1>1, <1>2, <1>3 DEF TypeOK, JobType, Placed
  <1>6. NamesUsed'
    BY <1>1, <1>2 DEF NamesUsed, Placed
  <1>7. Apart'
    BY <1>2, <1>3, <1>4 DEF Apart
  <1>8. \A q \in Procs, u \in Threads : Placed(q, u)'
    BY <1>1, <1>2, <1>3 DEF Placed
  <1>9. \A q \in Procs, u \in Threads : Achieved(q, u)'
    <2> SUFFICES ASSUME NEW q \in Procs, NEW u \in Threads PROVE Achieved(q, u)'
      OBVIOUS
    <2>1. job[p].cmd = "remove"
      BY <1>1 DEF Placed
    <2>2. CASE q = p /\ u = t
      BY <1>1, <1>2, <1>3, <2>1, <2>2 DEF Achieved
    <2>3. CASE q # p \/ u # t
      <3>1. /\ job'[q].th[u].name = job[q].th[u].name /\ job'[q].th[u].at = job[q].th[u].at
            /\ job'[q].cmd = job[q].cmd /\ job'[q].prov = job[q].prov
        BY <1>3, <2>3
      <3>2. ASSUME job[q].cmd = "add", job[q].th[u].at # "off",
                   job[q].th[u].name \in used, job[q].th[u].name = job[p].th[t].name
            PROVE  job[q].th[u].name \in contested
        BY <1>4, <2>1, <3>2, NameNotNull DEF Apart
      <3>3. /\ job[q].th[u].at \in {"delete", "infra"} => job[q].cmd = "remove"
            /\ job[q].th[u].at \in {"delete", "infra", "ok", "took-ok"} => job[q].th[u].name \in used
        BY DEF Placed
      <3> QED BY <1>1, <1>2, <3>1, <3>2, <3>3 DEF Achieved
    <2> QED BY <2>2, <2>3
  <1>10. \A q \in Procs : Finished(q)'
    BY <1>1, <1>3 DEF Finished
  <1> QED BY <1>5, <1>6, <1>7, <1>8, <1>9, <1>10

\* With a provider the server is gone when the removal reports.
LEMMA RemoveInfraIInv ==
  ASSUME IInv, NEW p \in Procs, NEW t \in Threads, RemoveInfra(p, t) PROVE IInv'
  <1>1. PICK s \in {"ok", "failed"} :
          /\ Goto(p, t, s) /\ job[p].th[t].at \in {"infra"}
          /\ servers' \in {servers, servers \ {job[p].th[t].name}}
          /\ s = "ok" /\ job[p].prov => job[p].th[t].name \notin servers'
    BY DEF RemoveInfra, At, Thread
  <1>2. /\ UNCHANGED <<k8s, cordoned, rows, clock, used, contested, commands>>
        /\ lostWrite' = lostWrite /\ faults' \in 0 .. MaxFaults
    <2>1. UNCHANGED <<k8s, cordoned, rows, clock, used, contested, commands>>
      BY DEF RemoveInfra, cluster, history, Same
    <2>2. lostWrite' = lostWrite
      BY DEF IInv, TypeOK, RemoveInfra, Same
    <2>3. Fault \/ NoFault
      BY DEF RemoveInfra
    <2>4. faults' \in 0 .. MaxFaults
      BY <2>3, NodeOpsAssumption DEF NodeOpsAssumption, IInv, TypeOK, Fault, NoFault
    <2> QED BY <2>1, <2>2, <2>4
  <1> USE DEF IInv
  <1>3. /\ job' \in [Procs -> JobType]
        /\ \A q \in Procs : /\ job'[q].cmd = job[q].cmd /\ job'[q].prov = job[q].prov
                            /\ job'[q].result = job[q].result
        /\ \A q \in Procs, u \in Threads : job'[q].th[u].name = job[q].th[u].name
        /\ \A q \in Procs, u \in Threads :
             q # p \/ u # t => job'[q].th[u].at = job[q].th[u].at
        /\ job'[p].th[t].at = s
    <2>1. s \in Steps
      BY DEF Steps
    <2> QED BY <1>1, <2>1, GotoEffect
  <1>4. job[p].th[t].name \in used \cup {NULL} /\ job[p].th[t].at # "off"
    BY <1>1 DEF Placed
  <1>5. TypeOK'
    BY <1>1, <1>2, <1>3 DEF TypeOK, JobType, Placed
  <1>6. NamesUsed'
    BY <1>1, <1>2 DEF NamesUsed, Placed
  <1>7. Apart'
    BY <1>2, <1>3, <1>4 DEF Apart
  <1>8. \A q \in Procs, u \in Threads : Placed(q, u)'
    BY <1>1, <1>2, <1>3 DEF Placed
  <1>9. \A q \in Procs, u \in Threads : Achieved(q, u)'
    <2> SUFFICES ASSUME NEW q \in Procs, NEW u \in Threads PROVE Achieved(q, u)'
      OBVIOUS
    <2>1. job[p].cmd = "remove"
      BY <1>1 DEF Placed
    <2>2. CASE q = p /\ u = t
      BY <1>1, <1>2, <1>3, <2>1, <2>2 DEF Achieved
    <2>3. CASE q # p \/ u # t
      <3>1. /\ job'[q].th[u].name = job[q].th[u].name /\ job'[q].th[u].at = job[q].th[u].at
            /\ job'[q].cmd = job[q].cmd /\ job'[q].prov = job[q].prov
        BY <1>3, <2>3
      <3>2. ASSUME job[q].cmd = "add", job[q].th[u].at # "off",
                   job[q].th[u].name \in used, job[q].th[u].name = job[p].th[t].name
            PROVE  job[q].th[u].name \in contested
        BY <1>4, <2>1, <3>2, NameNotNull DEF Apart
      <3>3. /\ job[q].th[u].at \in {"delete", "infra"} => job[q].cmd = "remove"
            /\ job[q].th[u].at \in {"delete", "infra", "ok", "took-ok"} => job[q].th[u].name \in used
        BY DEF Placed
      <3> QED BY <1>1, <1>2, <3>1, <3>2, <3>3 DEF Achieved
    <2> QED BY <2>2, <2>3
  <1>10. \A q \in Procs : Finished(q)'
    BY <1>1, <1>3 DEF Finished
  <1> QED BY <1>5, <1>6, <1>7, <1>8, <1>9, <1>10

LEMMA ReceiveRemovedIInv ==
  ASSUME IInv, NEW p \in Procs, NEW t \in Threads, ReceiveRemoved(p, t) PROVE IInv'
  <1>1. PICK s \in {"took-ok", "took-failed"} :
          /\ Goto(p, t, s) /\ job[p].th[t].at \in {"ok", "failed"}
          /\ rows' \in {rows, rows \ {job[p].th[t].name}}
          /\ job[p].cmd = "remove" /\ (lostWrite => lostWrite')
          /\ s = "took-ok" => /\ job[p].th[t].at = "ok"
                              /\ job[p].th[t].name \notin rows' \/ lostWrite'
    BY DEF ReceiveRemoved, At, Thread
  <1>2. /\ UNCHANGED <<servers, k8s, cordoned, clock, used, contested, commands>>
        /\ lostWrite' \in BOOLEAN /\ faults' \in 0 .. MaxFaults
    <2>1. UNCHANGED <<servers, k8s, cordoned, clock, used, contested, commands>>
      BY DEF ReceiveRemoved, cluster, history, Same
    <2>2. lostWrite' \in BOOLEAN
      BY DEF IInv, TypeOK, ReceiveRemoved, Same
    <2>3. Fault \/ NoFault
      BY DEF ReceiveRemoved
    <2>4. faults' \in 0 .. MaxFaults
      BY <2>3, NodeOpsAssumption DEF NodeOpsAssumption, IInv, TypeOK, Fault, NoFault
    <2> QED BY <2>1, <2>2, <2>4
  <1> USE DEF IInv
  <1>3. /\ job' \in [Procs -> JobType]
        /\ \A q \in Procs : /\ job'[q].cmd = job[q].cmd /\ job'[q].prov = job[q].prov
                            /\ job'[q].result = job[q].result
        /\ \A q \in Procs, u \in Threads : job'[q].th[u].name = job[q].th[u].name
        /\ \A q \in Procs, u \in Threads :
             q # p \/ u # t => job'[q].th[u].at = job[q].th[u].at
        /\ job'[p].th[t].at = s
    <2>1. s \in Steps
      BY DEF Steps
    <2> QED BY <1>1, <2>1, GotoEffect
  <1>4. job[p].th[t].name \in used \cup {NULL} /\ job[p].th[t].at # "off"
    BY <1>1 DEF Placed
  <1>5. TypeOK'
    BY <1>1, <1>2, <1>3 DEF TypeOK, JobType, Placed
  <1>6. NamesUsed'
    BY <1>1, <1>2 DEF NamesUsed, Placed
  <1>7. Apart'
    BY <1>2, <1>3, <1>4 DEF Apart
  <1>8. \A q \in Procs, u \in Threads : Placed(q, u)'
    <2>1. /\ s \in {"took-ok", "took-failed"} /\ job[p].th[t].at \in {"ok", "failed"}
          /\ s = "took-ok" => job[p].th[t].at = "ok"
      BY <1>1
    <2> QED BY <2>1, <1>2, <1>3 DEF Placed
  <1>9. \A q \in Procs, u \in Threads : Achieved(q, u)'
    <2> SUFFICES ASSUME NEW q \in Procs, NEW u \in Threads PROVE Achieved(q, u)'
      OBVIOUS
    <2>1. job[p].cmd = "remove"
      BY <1>1
    <2>2. CASE q = p /\ u = t
      <3>1. ASSUME s = "took-ok", job[p].th[t].name \notin contested
            PROVE  LET n == job[p].th[t].name IN n \notin k8s /\ (job[p].prov => n \notin servers)
        BY <1>1, <2>1, <3>1 DEF Achieved
      <3>2. s = "took-ok" => job[p].th[t].name \notin rows' \/ lostWrite'
        BY <1>1
      <3>3. s \in {"took-ok", "took-failed"}
        BY <1>1
      <3> QED BY <1>2, <1>3, <2>1, <2>2, <3>1, <3>2, <3>3 DEF Achieved
    <2>3. CASE q # p \/ u # t
      <3>1. /\ job'[q].th[u].name = job[q].th[u].name /\ job'[q].th[u].at = job[q].th[u].at
            /\ job'[q].cmd = job[q].cmd /\ job'[q].prov = job[q].prov
        BY <1>3, <2>3
      <3>2. ASSUME job[q].cmd = "add", job[q].th[u].at # "off",
                   job[q].th[u].name \in used, job[q].th[u].name = job[p].th[t].name
            PROVE  job[q].th[u].name \in contested
        BY <1>4, <2>1, <3>2, NameNotNull DEF Apart
      <3>3. /\ job[q].th[u].at \in {"delete", "infra"} => job[q].cmd = "remove"
            /\ job[q].th[u].at \in {"delete", "infra", "ok", "took-ok"} => job[q].th[u].name \in used
        BY DEF Placed
      <3> QED BY <1>1, <1>2, <3>1, <3>2, <3>3 DEF Achieved
    <2> QED BY <2>2, <2>3
  <1>10. \A q \in Procs : Finished(q)'
    BY <1>1, <1>3 DEF Finished
  <1> QED BY <1>5, <1>6, <1>7, <1>8, <1>9, <1>10

\* A new command has its goroutines, and none of them is removing anything yet.
LEMMA StartAddIInv ==
  ASSUME IInv, NEW p \in Procs, StartAdd(p) PROVE IInv'
  <1>1. PICK T \in SUBSET Threads : Start(p, [Idle EXCEPT !.cmd = "add", !.th =
          [t \in Threads |-> IF t \in T THEN [Off EXCEPT !.at = "name"] ELSE Off]])
    BY DEF StartAdd
  <1> DEFINE ths == [t \in Threads |-> IF t \in T THEN [Off EXCEPT !.at = "name"] ELSE Off]
             j == [Idle EXCEPT !.cmd = "add", !.th = ths]
  <1>2. /\ ths \in [Threads -> [at: Steps, name: Names \cup {NULL}]]
        /\ \A t \in Threads : ths[t].name = NULL /\ ths[t].at \in {"off", "name"}
    BY DEF Off, Steps
  <1>3. job' = [job EXCEPT ![p] = j]
    BY <1>1 DEF Start
  <1> HIDE DEF ths
  <1>4. j \in JobType /\ j.th = ths /\ j.cmd = "add" /\ j.result = "none"
    BY <1>2 DEF JobType, Idle
  <1> HIDE DEF j
  <1>5. /\ job \in [Procs -> JobType] /\ job' \in [Procs -> JobType]
        /\ job'[p] = j /\ \A q \in Procs \ {p} : job'[q] = job[q]
    BY <1>3, <1>4, Typed DEF IInv
  <1>6. /\ UNCHANGED <<servers, k8s, cordoned, rows, clock, lostWrite, used, contested, faults>>
        /\ commands' = commands + 1 /\ commands < MaxCommands
    BY <1>1 DEF Start, StartAdd, cluster, history, NoFault
  <1>7. TypeOK'
    BY <1>5, <1>6, NodeOpsAssumption DEF NodeOpsAssumption, IInv, TypeOK, JobType
  <1>8. NamesUsed'
    BY <1>6 DEF IInv, NamesUsed
  <1>9. Apart'
    <2> SUFFICES ASSUME NEW q \in Procs, NEW r \in Procs, NEW v \in Threads, NEW u \in Threads,
                        job'[q].cmd = "add", job'[q].th[v].at # "off",
                        job'[r].cmd = "remove", job'[r].th[u].at # "off",
                        job'[q].th[v].name = job'[r].th[u].name
                 PROVE  job'[q].th[v].name \in contested' \cup {NULL}
      BY DEF Apart
    <2>1. r # p /\ job'[r] = job[r]
      BY <1>4, <1>5
    <2>2. CASE q = p
      BY <1>2, <1>4, <1>5, <2>2
    <2>3. CASE q # p
      BY <1>5, <1>6, <2>1, <2>3 DEF IInv, Apart
    <2> QED BY <2>2, <2>3
  <1>10. \A q \in Procs, u \in Threads : Placed(q, u)' /\ Achieved(q, u)'
    <2> SUFFICES ASSUME NEW q \in Procs, NEW u \in Threads
                 PROVE  Placed(q, u)' /\ Achieved(q, u)'
      OBVIOUS
    <2>1. CASE q = p
      BY <2>1, <1>2, <1>4, <1>5 DEF Placed, Achieved
    <2>2. CASE q # p
      BY <2>2, <1>5, <1>6 DEF IInv, Placed, Achieved
    <2> QED BY <2>1, <2>2
  <1>11. \A q \in Procs : Finished(q)'
    BY <1>4, <1>5 DEF IInv, Finished
  <1> QED BY <1>7, <1>8, <1>9, <1>10, <1>11 DEF IInv

\* A removal of a worker whose add-node has not ended makes its name contested.
LEMMA StartRemoveIInv ==
  ASSUME IInv, NEW p \in Procs, StartRemove(p) PROVE IInv'
  <1>1. PICK T \in SUBSET Threads, f \in [Threads -> servers \cup rows], prov \in BOOLEAN :
          /\ Start(p, [Idle EXCEPT !.cmd = "remove", !.prov = prov, !.th =
               [t \in Threads |-> IF t \in T THEN [at |-> "drain", name |-> f[t]]
                                  ELSE Off]])
          /\ contested' = contested \cup {n \in {f[t] : t \in T} : Working("add", n)}
          /\ Fault \/ NoFault
    BY DEF StartRemove
  <1> DEFINE ths == [t \in Threads |-> IF t \in T THEN [at |-> "drain", name |-> f[t]]
                                       ELSE Off]
             j == [Idle EXCEPT !.cmd = "remove", !.prov = prov, !.th = ths]
  <1>2. \A t \in Threads : f[t] \in used /\ f[t] \in Names
    <2>1. 0 .. clock \subseteq Names
      BY NodeOpsAssumption DEF NodeOpsAssumption, IInv, TypeOK, Names
    <2>2. \A t \in Threads : f[t] \in used
      BY DEF IInv, NamesUsed
    <2> QED BY <2>1, <2>2 DEF IInv, TypeOK
  <1>3. /\ ths \in [Threads -> [at: Steps, name: Names \cup {NULL}]]
        /\ \A t \in Threads :
             \/ t \in T /\ ths[t].name = f[t] /\ ths[t].at = "drain"
             \/ ths[t].name = NULL /\ ths[t].at = "off"
    BY <1>2 DEF Off, Steps
  <1>4. job' = [job EXCEPT ![p] = j]
    BY <1>1 DEF Start
  <1> HIDE DEF ths
  <1>5. j \in JobType /\ j.th = ths /\ j.cmd = "remove" /\ j.result = "none"
    BY <1>3 DEF JobType, Idle
  <1> HIDE DEF j
  <1>6. /\ job \in [Procs -> JobType] /\ job' \in [Procs -> JobType]
        /\ job'[p] = j /\ \A q \in Procs \ {p} : job'[q] = job[q]
    BY <1>4, <1>5, Typed DEF IInv
  <1>7. /\ UNCHANGED <<servers, k8s, cordoned, rows, clock, lostWrite, used>>
        /\ commands' = commands + 1 /\ commands < MaxCommands
    BY <1>1 DEF Start, StartRemove, cluster
  <1>8. contested \subseteq contested' /\ contested' \subseteq used
    BY <1>1, <1>2 DEF IInv, TypeOK
  <1>9. TypeOK'
    <2>1. faults' \in 0 .. MaxFaults
      BY <1>1, NodeOpsAssumption DEF NodeOpsAssumption, IInv, TypeOK, Fault, NoFault
    <2> QED BY <1>6, <1>7, <1>8, <2>1, NodeOpsAssumption
        DEF NodeOpsAssumption, IInv, TypeOK, JobType
  <1>10. NamesUsed'
    BY <1>7 DEF IInv, NamesUsed
  <1>11. Apart'
    <2> SUFFICES ASSUME NEW q \in Procs, NEW r \in Procs, NEW t \in Threads, NEW u \in Threads,
                        job'[q].cmd = "add", job'[q].th[t].at # "off",
                        job'[r].cmd = "remove", job'[r].th[u].at # "off",
                        job'[q].th[t].name = job'[r].th[u].name
                 PROVE  job'[q].th[t].name \in contested' \cup {NULL}
      BY DEF Apart
    <2>1. q # p /\ job'[q] = job[q]
      BY <1>5, <1>6
    <2>2. CASE r = p
      <3>1. u \in T /\ job'[r].th[u].name = f[u]
        BY <2>2, <1>3, <1>5, <1>6
      <3>2. Working("add", f[u])
        BY <2>1, <3>1 DEF Working, At, Thread
      <3> QED BY <1>1, <3>1, <3>2
    <2>3. CASE r # p
      BY <2>1, <2>3, <1>6, <1>8 DEF IInv, Apart
    <2> QED BY <2>2, <2>3
  <1>12. \A q \in Procs, u \in Threads : Placed(q, u)' /\ Achieved(q, u)'
    <2> SUFFICES ASSUME NEW q \in Procs, NEW u \in Threads
                 PROVE  Placed(q, u)' /\ Achieved(q, u)'
      OBVIOUS
    <2>1. CASE q = p
      BY <2>1, <1>2, <1>3, <1>5, <1>6, <1>7 DEF Placed, Achieved
    <2>2. CASE q # p
      BY <2>2, <1>6, <1>7, <1>8 DEF IInv, Placed, Achieved
    <2> QED BY <2>1, <2>2
  <1>13. \A q \in Procs : Finished(q)'
    BY <1>5, <1>6 DEF IInv, Finished
  <1> QED BY <1>9, <1>10, <1>11, <1>12, <1>13 DEF IInv

\* A name that was taken before is contested; a new one is nobody's.
LEMMA NameIInv ==
  ASSUME IInv, NEW p \in Procs, NEW t \in Threads, Name(p, t) PROVE IInv'
  <1>1. /\ job' \in [Procs -> JobType]
        /\ \A q \in Procs : /\ job'[q].cmd = job[q].cmd /\ job'[q].prov = job[q].prov
                            /\ job'[q].result = job[q].result
        /\ \A q \in Procs, u \in Threads :
             q # p \/ u # t => job'[q].th[u] = job[q].th[u]
        /\ job'[p].th[t].at = "lookup" /\ job'[p].th[t].name = clock
    BY NameEffect DEF IInv
  <1>2. /\ UNCHANGED <<servers, k8s, cordoned, rows, clock, lostWrite, commands, faults>>
        /\ used' = used \cup {clock} /\ contested' = contested \cup (used \cap {clock})
        /\ job[p].th[t].at = "name"
    BY DEF Name, cluster, NoFault, At, Thread
  <1>3. job[p].cmd = "add"
    BY <1>2 DEF IInv, Placed
  <1>4. TypeOK'
    <2>1. clock \in 0 .. clock
      BY NodeOpsAssumption DEF NodeOpsAssumption, IInv, TypeOK, Names
    <2> QED BY <1>1, <1>2, <2>1 DEF IInv, TypeOK, JobType
  <1>5. NamesUsed'
    BY <1>2 DEF IInv, NamesUsed
  <1>6. Apart'
    <2> SUFFICES ASSUME NEW q \in Procs, NEW r \in Procs, NEW v \in Threads, NEW u \in Threads,
                        job'[q].cmd = "add", job'[q].th[v].at # "off",
                        job'[r].cmd = "remove", job'[r].th[u].at # "off",
                        job'[q].th[v].name = job'[r].th[u].name
                 PROVE  job'[q].th[v].name \in contested' \cup {NULL}
      BY DEF Apart
    <2>1. r # p /\ job'[r].th[u] = job[r].th[u]
      BY <1>1, <1>3
    <2>2. CASE q = p /\ v = t
      <3>1. job[r].th[u].name \in used \cup {NULL}
        BY DEF IInv, Placed
      <3> QED BY <1>1, <1>2, <2>1, <2>2, <3>1
    <2>3. CASE q # p \/ v # t
      BY <1>1, <1>2, <2>1, <2>3 DEF IInv, Apart
    <2> QED BY <2>2, <2>3
  <1>7. \A q \in Procs, u \in Threads : Placed(q, u)' /\ Achieved(q, u)'
    <2> SUFFICES ASSUME NEW q \in Procs, NEW u \in Threads
                 PROVE  Placed(q, u)' /\ Achieved(q, u)'
      OBVIOUS
    <2>1. CASE q = p /\ u = t
      BY <2>1, <1>1, <1>2, <1>3 DEF Placed, Achieved
    <2>2. CASE q # p \/ u # t
      BY <2>2, <1>1, <1>2 DEF IInv, Placed, Achieved
    <2> QED BY <2>1, <2>2
  <1>8. \A q \in Procs : Finished(q)'
    BY <1>1, <1>2 DEF IInv, Finished
  <1> QED BY <1>4, <1>5, <1>6, <1>7, <1>8 DEF IInv

\* A command succeeds only when all its results are good ones.
LEMMA ConcludeIInv ==
  ASSUME IInv, NEW p \in Procs, Conclude(p) PROVE IInv'
  <1>1. PICK r \in {"error", "success"} :
          /\ job' = [job EXCEPT ![p].result = r]
          /\ r = "success" => \A t \in Threads : job[p].th[t].at \in {"off", "took-ok"}
    BY DEF Conclude, Started, At, Thread
  <1>2. UNCHANGED <<servers, k8s, cordoned, rows, clock, lostWrite, used, contested, commands, faults>>
    BY DEF Conclude, cluster, history, Same, NoFault
  <1>3. job \in [Procs -> JobType]
    BY Typed DEF IInv
  <1>4. /\ job' \in [Procs -> JobType]
        /\ \A q \in Procs : /\ job'[q].cmd = job[q].cmd /\ job'[q].prov = job[q].prov
                            /\ job'[q].th = job[q].th
                            /\ job'[q].result = IF q = p THEN r ELSE job[q].result
    BY <1>1, <1>3 DEF JobType
  <1>5. TypeOK'
    BY <1>2, <1>4 DEF IInv, TypeOK, JobType
  <1>6. NamesUsed' /\ Apart' /\ \A q \in Procs, u \in Threads : Placed(q, u)' /\ Achieved(q, u)'
    BY <1>2, <1>4 DEF IInv, NamesUsed, Apart, Placed, Achieved
  <1>7. \A q \in Procs : Finished(q)'
    BY <1>1, <1>4 DEF IInv, Finished
  <1> QED BY <1>5, <1>6, <1>7 DEF IInv

LEMMA ExitIInv ==
  ASSUME IInv, NEW p \in Procs, Exit(p) PROVE IInv'
  <1>1. UNCHANGED <<servers, k8s, cordoned, rows, clock, lostWrite, used, contested, commands, faults>>
    BY DEF Exit, cluster, history, Same, NoFault
  <1>2. Idle \in JobType /\ Idle.cmd = "none" /\ Idle.result = "none" /\ \A u \in Threads : Idle.th[u] = Off
    BY DEF Idle, Off, JobType, Steps
  <1>3. /\ job' \in [Procs -> JobType] /\ job'[p] = Idle
        /\ \A q \in Procs \ {p} : job'[q] = job[q]
    BY <1>2, Typed DEF IInv, Exit
  <1>4. TypeOK'
    BY <1>1, <1>3 DEF IInv, TypeOK, JobType
  <1>5. NamesUsed' /\ Apart'
    BY <1>1, <1>2, <1>3 DEF IInv, NamesUsed, Apart
  <1>6. \A q \in Procs, u \in Threads : Placed(q, u)' /\ Achieved(q, u)'
    <2> SUFFICES ASSUME NEW q \in Procs, NEW u \in Threads
                 PROVE  Placed(q, u)' /\ Achieved(q, u)'
      OBVIOUS
    <2>1. CASE q = p
      BY <2>1, <1>2, <1>3 DEF Placed, Achieved, Off
    <2>2. CASE q # p
      BY <2>2, <1>1, <1>3 DEF IInv, Placed, Achieved
    <2> QED BY <2>1, <2>2
  <1>7. \A q \in Procs : Finished(q)'
    BY <1>2, <1>3 DEF IInv, Finished
  <1> QED BY <1>4, <1>5, <1>6, <1>7 DEF IInv

LEMMA StutterIInv == ASSUME IInv, UNCHANGED vars PROVE IInv'
  BY DEF IInv, vars, TypeOK, NamesUsed, Apart, Placed, Achieved, Finished

LEMMA NextIInv == IInv /\ [Next]_vars => IInv'
  <1> SUFFICES ASSUME IInv, [Next]_vars PROVE IInv'
    OBVIOUS
  <1>1. CASE UNCHANGED vars
    BY <1>1, StutterIInv
  <1>2. CASE Tick
    BY <1>2, TickIInv
  <1>3. ASSUME NEW p \in Procs,
               StartAdd(p) \/ StartRemove(p) \/ Conclude(p) \/ Exit(p)
        PROVE  IInv'
    BY <1>3, StartAddIInv, StartRemoveIInv, ConcludeIInv, ExitIInv
  <1>4. ASSUME NEW p \in Procs, NEW t \in Threads,
               \/ Name(p, t) \/ LookupServer(p, t) \/ CreateServer(p, t)
               \/ JoinNode(p, t) \/ AddFails(p, t) \/ ReceiveAdded(p, t)
        PROVE  IInv'
    BY <1>4, NameIInv, LookupServerIInv, CreateServerIInv, JoinNodeIInv, AddFailsIInv,
       ReceiveAddedIInv
  <1>5. ASSUME NEW p \in Procs, NEW t \in Threads,
               \/ Drain(p, t) \/ DeleteNode(p, t) \/ RemoveInfra(p, t)
               \/ ReceiveRemoved(p, t)
        PROVE  IInv'
    BY <1>5, DrainIInv, DeleteNodeIInv, RemoveInfraIInv, ReceiveRemovedIInv
  <1> QED BY <1>1, <1>2, <1>3, <1>4, <1>5 DEF Next

-----------------------------------------------------------------------------
(* The theorems. *)

\* In every reachable state the inductive invariant holds.
THEOREM NodeOpsInvariant == Spec => []IInv
  <1>1. Init => IInv BY InitIInv
  <1>2. IInv /\ [Next]_vars => IInv' BY NextIInv
  <1> QED BY <1>1, <1>2, PTL DEF Spec

\* Names are times that have been, rows, servers and nodes have names, and only
\* nodes are cordoned.
THEOREM NodeOpsTypes == Spec => []TypeOK
  <1>1. IInv => TypeOK BY DEF IInv
  <1> QED BY <1>1, NodeOpsInvariant, PTL

\* One step of any command takes a worker in order.
Ordered ==
  \A n \in Names \ contested :
    /\ n \in k8s \ k8s' => n \in cordoned
    /\ n \in servers \ servers' => n \notin k8s
    /\ n \in rows \ rows' =>
         \/ n \notin servers
         \/ \E p \in Procs : Working("remove", n) /\ ~job[p].prov

\* Only three steps take anything away, and what the removal has achieved by
\* then is what the order asks for.
LEMMA StepOrdered == IInv /\ [Next]_vars => [Ordered]_vars
  <1> SUFFICES ASSUME IInv, Next PROVE Ordered
    OBVIOUS
  <1>1. ASSUME k8s \subseteq k8s', servers \subseteq servers', rows \subseteq rows'
        PROVE  Ordered
    BY <1>1 DEF Ordered
  <1>2. CASE Tick
    BY <1>1, <1>2 DEF Tick, cluster
  <1>3. ASSUME NEW p \in Procs,
               StartAdd(p) \/ StartRemove(p) \/ Conclude(p) \/ Exit(p)
        PROVE  Ordered
    BY <1>1, <1>3 DEF StartAdd, StartRemove, Start, Conclude, Exit, cluster
  <1>4. ASSUME NEW p \in Procs, NEW t \in Threads,
               \/ Name(p, t) \/ LookupServer(p, t) \/ CreateServer(p, t)
               \/ JoinNode(p, t) \/ AddFails(p, t) \/ ReceiveAdded(p, t) \/ Drain(p, t)
        PROVE  Ordered
    BY <1>1, <1>4 DEF Name, LookupServer, CreateServer, JoinNode, AddFails, ReceiveAdded,
       Drain, cluster
  <1>5. ASSUME NEW p \in Procs, NEW t \in Threads, DeleteNode(p, t)
        PROVE  Ordered
    BY <1>5 DEF DeleteNode, Ordered, IInv, Placed, Achieved, At, Thread
  <1>6. ASSUME NEW p \in Procs, NEW t \in Threads, RemoveInfra(p, t)
        PROVE  Ordered
    BY <1>6 DEF RemoveInfra, Ordered, IInv, Placed, Achieved, At, Thread
  <1>7. ASSUME NEW p \in Procs, NEW t \in Threads, ReceiveRemoved(p, t)
        PROVE  Ordered
    <2>1. servers' = servers /\ k8s' = k8s
      BY <1>7 DEF ReceiveRemoved, cluster
    <2>2. ASSUME NEW n \in Names \ contested, n \in rows \ rows'
          PROVE  n \notin servers \/ \E q \in Procs : Working("remove", n) /\ ~job[q].prov
      <3>1. job[p].cmd = "remove" /\ job[p].th[t].at = "ok" /\ job[p].th[t].name = n
        BY <1>7, <2>2 DEF ReceiveRemoved, At, Thread
      <3>2. CASE job[p].prov
        BY <3>1, <3>2, <2>2 DEF IInv, Achieved
      <3>3. CASE ~job[p].prov
        <4>1. Working("remove", n)
          BY <3>1 DEF Working, At, Thread
        <4> QED BY <3>3, <4>1
      <3> QED BY <3>2, <3>3
    <2> QED BY <2>1, <2>2 DEF Ordered
  <1> QED BY <1>2, <1>3, <1>4, <1>5, <1>6, <1>7 DEF Next

\* A worker leaves in one order, drain, node, server, row, whatever goroutines
\* and processes interleave and whatever fails (removeOneNode).
THEOREM WorkersLeaveInOrder == Spec => RemovalOrder
  <1>1. IInv /\ [Next]_vars => [Ordered]_vars
    BY StepOrdered
  <1>2. RemovalOrder <=> [][Ordered]_vars
    BY DEF RemovalOrder, Ordered
  <1> QED BY <1>1, <1>2, NodeOpsInvariant, PTL DEF Spec

\* A worker of a successful add-node that nobody else took or removes is in the
\* cloud, in Kubernetes and, no write lost, in the registry (addProviderWorkers).
THEOREM AddedWorkersThere == Spec => []AddedEverywhere
  <1>1. ASSUME IInv, NEW p \in Procs, Succeeded(p, "add"), NEW n \in Asked(p) \ contested
        PROVE  n \in servers /\ n \in k8s /\ (n \in rows \/ lostWrite)
    <2>1. PICK t \in Threads : job[p].th[t].name = n /\ job[p].th[t].at # "off"
      BY <1>1 DEF Asked, Started, At, Thread
    <2>2. job[p].cmd = "add" /\ job[p].th[t].at = "took-ok"
      BY <1>1, <2>1 DEF IInv, Finished, Succeeded
    <2> QED BY <1>1, <2>1, <2>2 DEF IInv, Achieved
  <1>2. IInv => AddedEverywhere
    BY <1>1 DEF AddedEverywhere
  <1> QED BY <1>2, NodeOpsInvariant, PTL

\* A successful remove-node leaves nothing of its nodes, whatever removals of
\* them ran beside it, with the provider resolved and no write lost
\* (RunRemoveNodeWithDeps).
THEOREM RemovedWorkersGone == Spec => []RemovedEverywhere
  <1>1. ASSUME IInv, NEW p \in Procs, Succeeded(p, "remove"), NEW n \in Asked(p) \ contested
        PROVE  n \notin k8s /\ (n \notin servers \/ ~job[p].prov) /\ (n \notin rows \/ lostWrite)
    <2>1. PICK t \in Threads : job[p].th[t].name = n /\ job[p].th[t].at # "off"
      BY <1>1 DEF Asked, Started, At, Thread
    <2>2. job[p].cmd = "remove" /\ job[p].th[t].at = "took-ok"
      BY <1>1, <2>1 DEF IInv, Finished, Succeeded
    <2> QED BY <1>1, <2>1, <2>2 DEF IInv, Achieved
  <1>2. IInv => RemovedEverywhere
    BY <1>1 DEF RemovedEverywhere
  <1> QED BY <1>2, NodeOpsInvariant, PTL
=============================================================================
