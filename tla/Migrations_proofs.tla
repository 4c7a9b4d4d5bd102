-------------------------- MODULE Migrations_proofs --------------------------
(***************************************************************************)
(* Proofs about the opening of registry.db: for any number of processes,   *)
(* binaries and migrations the schema is what schema_version says, a       *)
(* registry that New returned has the tables of its binary, and the file   *)
(* goes through the migrations of ForwardOnly.                             *)
(***************************************************************************)
EXTENDS Migrations, TLAPS

-----------------------------------------------------------------------------
(* The inductive invariant.  SchemaMatchesVersion alone is not inductive:  *)
(* that a commit adds the migration after the last one rests on the lock   *)
(* its process has held since its script ran.                              *)

\* The write lock is held from a script to its commit, by one process.
LockHeld ==
  /\ \A p \in Procs : At(p, "commit") => lock = p
  /\ lock # NoProc => At(lock, "commit")

\* What a process has seen or done so far has not been undone.
Progress(p) ==
  /\ proc[p].at \in {"ensure", "read", "exec", "commit"} => private
  /\ proc[p].at \in {"read", "exec", "commit"} => table
  /\ proc[p].at \in {"exec", "commit"} => proc[p].next <= proc[p].knows
  /\ At(p, "commit") => proc[p].next = version + 1
  /\ At(p, "open") => proc[p].knows <= version

IInv ==
  /\ TypeOK
  /\ SchemaMatchesVersion
  /\ Len(ran) = version
  /\ LockHeld
  /\ \A p \in Procs : Progress(p)

-----------------------------------------------------------------------------

\* A prefix of the migrations determines its length.
LEMMA PrefixLength == \A a, b \in Nat : 1 .. a = 1 .. b => a = b
  <1> SUFFICES ASSUME NEW a \in Nat, NEW b \in Nat, 1 .. a = 1 .. b
               PROVE  a = b
    OBVIOUS
  <1>1. ~(a < b)
    <2>1. ASSUME a < b PROVE b \in 1 .. b /\ b \notin 1 .. a
      BY <2>1
    <2> QED BY <2>1
  <1>2. ~(b < a)
    <2>1. ASSUME b < a PROVE a \in 1 .. a /\ a \notin 1 .. b
      BY <2>1
    <2> QED BY <2>1
  <1> QED BY <1>1, <1>2

\* The places and the states of a process.
Places == {"idle", "chmod", "ensure", "read", "exec", "commit", "open", "failed"}
ProcType == [at : Places, knows : 1 .. Latest, next : 1 .. (Latest + 1)]

\* A binary ships at least one migration, so a process that is not opening the
\* file has a state of the right type.
LEMMA IdleTyped == 1 <= Latest /\ Idle \in ProcType
  <1>1. PICK b : b \in Binaries
    BY MigrationsAssumption DEF MigrationsAssumption
  <1>2. b \in 1 .. Latest /\ Latest \in Nat
    BY <1>1, MigrationsAssumption DEF MigrationsAssumption
  <1>3. 1 <= Latest
    BY <1>2
  <1> QED BY <1>2, <1>3 DEF Idle, ProcType, Places

\* A change of place keeps the type of the processes' states.
LEMMA GotoTyped ==
  ASSUME TypeOK, NEW p \in Procs, NEW s \in Places, Goto(p, s)
  PROVE  proc' \in [Procs -> ProcType]
  BY DEF TypeOK, Goto, ProcType, Places

\* The step of p to place s, about to apply migration n.
Moves(p, n, s) == proc' = [proc EXCEPT ![p].next = n, ![p].at = s]

\* What a change of the next migration and of the place does.
LEMMA NextTyped ==
  ASSUME TypeOK, NEW p \in Procs, NEW s \in Places, NEW n \in 1 .. (Latest + 1),
         Moves(p, n, s)
  PROVE  /\ proc' \in [Procs -> ProcType]
         /\ proc'[p].at = s /\ proc'[p].next = n /\ proc'[p].knows = proc[p].knows
         /\ \A q \in Procs \ {p} : proc'[q] = proc[q]
  <1>1. proc \in [Procs -> ProcType] /\ proc[p] \in ProcType
    BY DEF TypeOK, ProcType, Places
  <1> DEFINE st == [proc[p] EXCEPT !.next = n, !.at = s]
  <1>2. st \in ProcType /\ st.at = s /\ st.next = n /\ st.knows = proc[p].knows
    BY <1>1 DEF ProcType
  <1>3. proc' = [proc EXCEPT ![p] = st]
    BY <1>1 DEF Moves
  <1> HIDE DEF st
  <1> QED BY <1>1, <1>2, <1>3

LEMMA InitIInv == Init => IInv
  <1> SUFFICES ASSUME Init PROVE IInv
    OBVIOUS
  <1> USE MigrationsAssumption DEF MigrationsAssumption, Init
  <1>1. TypeOK
    <2>1. proc \in [Procs -> ProcType]
      BY IdleTyped
    <2>2. ran \in Seq(1 .. Latest) /\ schema \subseteq 1 .. Latest /\ version \in 0 .. Latest
      OBVIOUS
    <2>3. opens \in 0 .. MaxOpens /\ faults \in 0 .. MaxFaults
      OBVIOUS
    <2>4. private \in BOOLEAN /\ table \in BOOLEAN /\ lock \in Procs \cup {NoProc}
      OBVIOUS
    <2> QED BY <2>1, <2>2, <2>3, <2>4 DEF TypeOK, ProcType, Places
  <1>2. SchemaMatchesVersion
    BY DEF SchemaMatchesVersion
  <1>3. LockHeld /\ \A p \in Procs : Progress(p)
    BY DEF LockHeld, Progress, At, Idle
  <1>4. Len(ran) = version
    OBVIOUS
  <1> QED BY <1>1, <1>2, <1>3, <1>4 DEF IInv

-----------------------------------------------------------------------------
(* One lemma per action. *)

LEMMA OpenIInv == ASSUME IInv, NEW p \in Procs, Open(p) PROVE IInv'
  <1> USE MigrationsAssumption DEF MigrationsAssumption, IInv, Open, file, Idle, At
  <1>1. TypeOK'
    <2>1. PICK k \in Binaries :
            proc' = [proc EXCEPT ![p] = [Idle EXCEPT !.at = "chmod", !.knows = k]]
      OBVIOUS
    <2>2. [Idle EXCEPT !.at = "chmod", !.knows = k] \in ProcType
      BY IdleTyped DEF ProcType, Places
    <2>3. proc' \in [Procs -> ProcType]
      BY <2>1, <2>2 DEF TypeOK, ProcType, Places
    <2>4. opens' \in 0 .. MaxOpens
      BY DEF TypeOK
    <2> QED BY <2>3, <2>4 DEF TypeOK, ProcType, Places
  <1>2. SchemaMatchesVersion' /\ (Len(ran) = version)'
    BY DEF SchemaMatchesVersion
  <1>3. LockHeld'
    BY DEF LockHeld, TypeOK
  <1>4. \A q \in Procs : Progress(q)'
    BY DEF Progress, TypeOK
  <1> QED BY <1>1, <1>2, <1>3, <1>4

LEMMA ChmodIInv == ASSUME IInv, NEW p \in Procs, Chmod(p) PROVE IInv'
  <1> USE MigrationsAssumption DEF MigrationsAssumption, IInv, Chmod, Goto, At
  <1>1. TypeOK'
    <2>1. proc' \in [Procs -> ProcType]
      BY GotoTyped DEF Places
    <2> QED BY <2>1 DEF TypeOK, ProcType, Places
  <1>2. SchemaMatchesVersion' /\ (Len(ran) = version)'
    BY DEF SchemaMatchesVersion
  <1>3. LockHeld'
    BY DEF LockHeld, TypeOK
  <1>4. \A q \in Procs : Progress(q)'
    BY DEF Progress, TypeOK
  <1> QED BY <1>1, <1>2, <1>3, <1>4

LEMMA EnsureTableIInv == ASSUME IInv, NEW p \in Procs, EnsureTable(p) PROVE IInv'
  <1> USE MigrationsAssumption DEF MigrationsAssumption, IInv, EnsureTable, Goto, At
  <1>1. TypeOK'
    <2>1. proc' \in [Procs -> ProcType]
      BY GotoTyped DEF Places
    <2> QED BY <2>1 DEF TypeOK, ProcType, Places
  <1>2. SchemaMatchesVersion' /\ (Len(ran) = version)'
    BY DEF SchemaMatchesVersion
  <1>3. LockHeld'
    BY DEF LockHeld, TypeOK
  <1>4. \A q \in Procs : Progress(q)'
    BY DEF Progress, TypeOK
  <1> QED BY <1>1, <1>2, <1>3, <1>4

LEMMA ReadVersionIInv == ASSUME IInv, NEW p \in Procs, ReadVersion(p) PROVE IInv'
  <1> USE MigrationsAssumption DEF MigrationsAssumption, IInv, ReadVersion, file, At
  <1> DEFINE there == IF version > proc[p].knows THEN "failed"
                      ELSE IF version = proc[p].knows THEN "open"
                      ELSE "exec"
  <1>0. /\ proc' \in [Procs -> ProcType]
        /\ proc'[p].at = there /\ proc'[p].next = version + 1
        /\ proc'[p].knows = proc[p].knows
        /\ \A q \in Procs \ {p} : proc'[q] = proc[q]
    <2>1. version + 1 \in 1 .. (Latest + 1)
      BY DEF TypeOK
    <2>2. there \in Places
      BY DEF Places
    <2>3. Moves(p, version + 1, there)
      BY DEF Moves
    <2>4. TypeOK
      OBVIOUS
    <2> HIDE DEF there, IInv, ReadVersion
    <2> QED BY <2>1, <2>2, <2>3, <2>4, NextTyped
  <1>1. TypeOK'
    BY <1>0 DEF TypeOK, ProcType, Places
  <1>2. SchemaMatchesVersion' /\ (Len(ran) = version)'
    BY DEF SchemaMatchesVersion
  <1>3. LockHeld'
    <2>1. there # "commit" /\ ~At(p, "commit") /\ lock' = lock
      BY DEF file
    <2> HIDE DEF there, ReadVersion
    <2> QED BY <1>0, <2>1 DEF LockHeld, TypeOK
  <1>4. \A q \in Procs : Progress(q)'
    BY <1>0 DEF Progress, TypeOK
  <1> QED BY <1>1, <1>2, <1>3, <1>4

\* A script that ran found exactly the migrations before it, so the version
\* its process commits is the one after the last.
LEMMA ExecIInv == ASSUME IInv, NEW p \in Procs, Exec(p) PROVE IInv'
  <1> USE MigrationsAssumption DEF MigrationsAssumption, IInv, Exec, file, Goto, At
  <1>1. TypeOK'
    <2>1. proc' \in [Procs -> ProcType]
      BY GotoTyped DEF Places
    <2> QED BY <2>1 DEF TypeOK, ProcType, Places
  <1>2. SchemaMatchesVersion' /\ (Len(ran) = version)'
    BY DEF SchemaMatchesVersion
  <1>3. LockHeld'
    <2>1. CASE Runs(proc[p].next)
      BY <2>1 DEF LockHeld, TypeOK
    <2>2. CASE ~Runs(proc[p].next)
      BY <2>2 DEF LockHeld, TypeOK
    <2> QED BY <2>1, <2>2
  <1>4. Runs(proc[p].next) => proc[p].next = version + 1
    <2> SUFFICES ASSUME Runs(proc[p].next) PROVE proc[p].next = version + 1
      OBVIOUS
    <2>1. proc[p].next \in 1 .. (Latest + 1) /\ version \in 0 .. Latest
      BY DEF TypeOK
    <2>2. 1 .. (proc[p].next - 1) = 1 .. version
      BY DEF Runs, SchemaMatchesVersion
    <2>3. proc[p].next - 1 \in Nat /\ version \in Nat
      BY <2>1
    <2>4. proc[p].next - 1 = version
      BY <2>2, <2>3, PrefixLength
    <2> QED BY <2>1, <2>4
  <1>5. \A q \in Procs : Progress(q)'
    <2>1. CASE Runs(proc[p].next)
      BY <2>1, <1>4 DEF Progress, TypeOK
    <2>2. CASE ~Runs(proc[p].next)
      BY <2>2 DEF Progress, TypeOK
    <2> QED BY <2>1, <2>2
  <1> QED BY <1>1, <1>2, <1>3, <1>5

\* What a commit does to the file, from the invariant.
LEMMA CommitNext ==
  ASSUME IInv, NEW p \in Procs, Commit(p)
  PROVE  /\ proc[p].next = version + 1 /\ version' = version + 1
         /\ version < Latest /\ Len(ran) = version
         /\ ran' = Append(ran, version + 1)
  BY MigrationsAssumption DEF MigrationsAssumption, IInv, Commit, Committed, Progress, TypeOK, At

LEMMA CommitIInv == ASSUME IInv, NEW p \in Procs, Commit(p) PROVE IInv'
  <1> USE MigrationsAssumption DEF MigrationsAssumption, IInv, At
  <1>0. /\ proc[p].next = version + 1 /\ version' = version + 1
        /\ version < Latest /\ ran' = Append(ran, version + 1)
        /\ schema' = schema \cup {version + 1} /\ version \in 0 .. Latest
    BY CommitNext DEF Commit, Committed, TypeOK
  <1> DEFINE there == IF proc[p].next = proc[p].knows THEN "open" ELSE "exec"
  <1>6. /\ proc' \in [Procs -> ProcType]
        /\ proc'[p].at = there /\ proc'[p].next = version + 2
        /\ proc'[p].knows = proc[p].knows
        /\ \A q \in Procs \ {p} : proc'[q] = proc[q]
    <2>1. version + 2 \in 1 .. (Latest + 1)
      BY <1>0
    <2>2. there \in Places
      BY DEF Places
    <2>3. Moves(p, proc[p].next + 1, there)
      BY DEF Moves, Commit
    <2>4. TypeOK /\ proc[p].next + 1 = version + 2
      BY <1>0
    <2> HIDE DEF there, IInv
    <2> QED BY <2>1, <2>2, <2>3, <2>4, NextTyped
  <1>1. TypeOK'
    <2>1. ran' \in Seq(1 .. Latest)
      BY <1>0 DEF TypeOK
    <2>2. schema' \subseteq 1 .. Latest /\ version' \in 0 .. Latest
      BY <1>0 DEF TypeOK
    <2> QED BY <2>1, <2>2, <1>6 DEF TypeOK, Commit, ProcType, Places
  <1>2. SchemaMatchesVersion'
    <2>1. schema' = 1 .. version'
      BY <1>0 DEF SchemaMatchesVersion
    <2>2. table /\ private
      BY DEF Progress, Commit
    <2> QED BY <2>1, <2>2 DEF SchemaMatchesVersion, Commit
  <1>3. (Len(ran) = version)'
    BY <1>0 DEF TypeOK
  <1>4. LockHeld'
    BY <1>6 DEF LockHeld, TypeOK, Commit
  <1>5. \A q \in Procs : Progress(q)'
    <2> SUFFICES ASSUME NEW q \in Procs PROVE Progress(q)'
      OBVIOUS
    <2>1. CASE q = p
      <3>1. version + 1 <= proc[p].knows /\ proc[p].knows \in 1 .. Latest
        BY <1>0 DEF Progress, TypeOK, Commit
      <3>2. table' /\ private'
        BY DEF Progress, Commit
      <3> QED BY <2>1, <3>1, <3>2, <1>0, <1>6 DEF Progress
    <2>2. CASE q # p
      <3>1. ~At(q, "commit") /\ proc'[q] = proc[q]
        BY <2>2, <1>6 DEF LockHeld, Commit, TypeOK
      <3> QED BY <2>2, <3>1, <1>0 DEF Progress, TypeOK, Commit
    <2> QED BY <2>1, <2>2
  <1> QED BY <1>1, <1>2, <1>3, <1>4, <1>5

LEMMA FailIInv == ASSUME IInv, NEW p \in Procs, Fail(p) PROVE IInv'
  <1> USE MigrationsAssumption DEF MigrationsAssumption, IInv, Fail, Opening, Released, file, Goto, At
  <1>1. TypeOK'
    <2>1. proc' \in [Procs -> ProcType]
      BY GotoTyped DEF Places
    <2> QED BY <2>1 DEF TypeOK, ProcType, Places
  <1>2. SchemaMatchesVersion' /\ (Len(ran) = version)'
    BY DEF SchemaMatchesVersion
  <1>3. LockHeld'
    BY DEF LockHeld, TypeOK
  <1>4. \A q \in Procs : Progress(q)'
    BY DEF Progress, TypeOK
  <1> QED BY <1>1, <1>2, <1>3, <1>4

LEMMA DieIInv == ASSUME IInv, NEW p \in Procs, Die(p) PROVE IInv'
  <1> USE MigrationsAssumption DEF MigrationsAssumption, IInv, Die, Opening, Released, file, Idle, At
  <1>1. TypeOK'
    <2>1. proc' \in [Procs -> ProcType]
      BY IdleTyped DEF TypeOK, ProcType, Places
    <2> QED BY <2>1 DEF TypeOK, ProcType, Places
  <1>2. SchemaMatchesVersion' /\ (Len(ran) = version)'
    BY DEF SchemaMatchesVersion
  <1>3. LockHeld'
    BY DEF LockHeld, TypeOK
  <1>4. \A q \in Procs : Progress(q)'
    BY DEF Progress, TypeOK
  <1> QED BY <1>1, <1>2, <1>3, <1>4

LEMMA CloseIInv == ASSUME IInv, NEW p \in Procs, Close(p) PROVE IInv'
  <1> USE MigrationsAssumption DEF MigrationsAssumption, IInv, Close, file, Idle, At
  <1>1. TypeOK'
    <2>1. proc' \in [Procs -> ProcType]
      BY IdleTyped DEF TypeOK, ProcType, Places
    <2> QED BY <2>1 DEF TypeOK, ProcType, Places
  <1>2. SchemaMatchesVersion' /\ (Len(ran) = version)'
    BY DEF SchemaMatchesVersion
  <1>3. LockHeld'
    BY DEF LockHeld, TypeOK
  <1>4. \A q \in Procs : Progress(q)'
    BY DEF Progress, TypeOK
  <1> QED BY <1>1, <1>2, <1>3, <1>4

LEMMA StutterIInv == ASSUME IInv, UNCHANGED vars PROVE IInv'
  BY DEF IInv, vars, TypeOK, SchemaMatchesVersion, LockHeld, Progress, At

LEMMA NextIInv == IInv /\ [Next]_vars => IInv'
  <1> SUFFICES ASSUME IInv, [Next]_vars PROVE IInv'
    OBVIOUS
  <1>1. CASE UNCHANGED vars
    BY <1>1, StutterIInv
  <1>2. CASE Next
    <2> PICK p \in Procs : Open(p) \/ Step(p) \/ Fail(p) \/ Die(p) \/ Close(p)
      BY <1>2 DEF Next
    <2>1. CASE Open(p)         BY <2>1, OpenIInv
    <2>2. CASE Chmod(p)        BY <2>2, ChmodIInv
    <2>3. CASE EnsureTable(p)  BY <2>3, EnsureTableIInv
    <2>4. CASE ReadVersion(p)  BY <2>4, ReadVersionIInv
    <2>5. CASE Exec(p)         BY <2>5, ExecIInv
    <2>6. CASE Commit(p)       BY <2>6, CommitIInv
    <2>7. CASE Fail(p)         BY <2>7, FailIInv
    <2>8. CASE Die(p)          BY <2>8, DieIInv
    <2>9. CASE Close(p)        BY <2>9, CloseIInv
    <2> QED BY <2>1, <2>2, <2>3, <2>4, <2>5, <2>6, <2>7, <2>8, <2>9 DEF Step
  <1> QED BY <1>1, <1>2

-----------------------------------------------------------------------------
(* The theorems. *)

\* In every reachable state the inductive invariant holds.
THEOREM OpeningInvariant == Spec => []IInv
  <1>1. Init => IInv BY InitIInv
  <1>2. IInv /\ [Next]_vars => IInv' BY NextIInv
  <1> QED BY <1>1, <1>2, PTL DEF Spec

\* The file, the lock and the processes keep their types.
THEOREM OpeningTypes == Spec => []TypeOK
  <1>1. IInv => TypeOK BY DEF IInv
  <1> QED BY <1>1, OpeningInvariant, PTL

\* The schema is what schema_version says, for any number of processes that
\* race, fail and die while they migrate (migrations.go, applyOne).
THEOREM SchemaFollowsVersion == Spec => []SchemaMatchesVersion
  <1>1. IInv => SchemaMatchesVersion BY DEF IInv
  <1> QED BY <1>1, OpeningInvariant, PTL

\* A registry that New returned has the tables of its binary, also when the
\* process lost the race for a migration.
THEOREM OpenRegistryUsable == Spec => []OpenHasSchema
  <1>1. IInv => OpenHasSchema
    BY DEF IInv, OpenHasSchema, Progress, SchemaMatchesVersion, TypeOK, At
  <1> QED BY <1>1, OpeningInvariant, PTL

\* Every step of every process is a migration of ForwardOnly or leaves the
\* list of the migrations alone.
LEMMA StepMigratesForward == IInv /\ [Next]_vars => [Forward!Migrate]_ran
  <1> SUFFICES ASSUME IInv, [Next]_vars PROVE Forward!Migrate \/ ran' = ran
    OBVIOUS
  <1>1. CASE UNCHANGED vars
    BY <1>1 DEF vars
  <1>2. CASE Next
    <2> PICK p \in Procs : Open(p) \/ Step(p) \/ Fail(p) \/ Die(p) \/ Close(p)
      BY <1>2 DEF Next
    <2>1. CASE Commit(p)
      <3>1. version < Latest /\ Len(ran) = version /\ ran' = Append(ran, version + 1)
        BY <2>1, CommitNext
      <3> QED BY <3>1 DEF Forward!Migrate
    <2>2. CASE ~Commit(p)
      BY <2>2 DEF Step, Open, Chmod, EnsureTable, ReadVersion, Exec, Fail, Die, Close, file
    <2> QED BY <2>1, <2>2
  <1> QED BY <1>1, <1>2

\* Opening the file implements ForwardOnly: each migration runs exactly once,
\* in order, and none is undone.
THEOREM OpeningMigratesForward == Spec => MigratesForward
  <1>1. Init => Forward!AbsInit
    BY DEF Init, Forward!AbsInit
  <1>2. IInv /\ [Next]_vars => [Forward!Migrate]_ran
    BY StepMigratesForward
  <1> QED BY <1>1, <1>2, OpeningInvariant, PTL DEF Spec, MigratesForward, Forward!AbsSpec
=============================================================================
