-------------------------- MODULE ContainerProofs ---------------------------
(****************************************************************************)
(* The container runner (ContainerRunner.tla): its record of the jobs is    *)
(* true and no container is left running unknown. And the sockets of the    *)
(* containers' processes (SocketPath.tla): who removes a file removes none  *)
(* in use.                                                                  *)
(****************************************************************************)
EXTENDS ContainerRunner, SocketPath, QueueLemmas

-----------------------------------------------------------------------------
(* Queued jobs, finite sets of files, and numbers not in use.               *)

\* A selection has only elements of the sequence that are kept, and no element
\* twice that the sequence does not have twice.
LEMMA SelectFacts ==
  ASSUME NEW E, NEW s \in Seq(E), NEW keep,
         \A i, j \in DOMAIN s : s[i] = s[j] => i = j
  PROVE  /\ Select(s, keep) \in Seq(E)
         /\ \A i \in DOMAIN Select(s, keep) : Select(s, keep)[i] \in keep
         /\ \A i, j \in DOMAIN Select(s, keep) : Select(s, keep)[i] = Select(s, keep)[j] => i = j
<1> DEFINE n == Len(s)
<1>1. n \in Nat /\ DOMAIN s = 1..n /\ \A i \in 1..n : s[i] \in E
  BY LenProperties
<1>2. PICK g \in [0..n -> Seq(E)] : SelectsBy(g, s, keep)
  BY SelectChain
<1> DEFINE Good(t, k) ==
      /\ \A i \in DOMAIN t : t[i] \in keep /\ \E m \in 1..k : s[m] = t[i]
      /\ \A i, j \in DOMAIN t : t[i] = t[j] => i = j
<1> DEFINE P == {k \in Nat : k <= n => Good(g[k], k)}
<1>3. 0 \in P
  <2>1. g[0] = <<>>
    BY <1>2 DEF SelectsBy
  <2> QED BY <2>1
<1>4. ASSUME NEW k \in Nat, k \in P PROVE k + 1 \in P
  <2> SUFFICES ASSUME k + 1 <= n PROVE Good(g[k + 1], k + 1)
    OBVIOUS
  <2>1. k + 1 \in 1..n /\ (k + 1) - 1 = k /\ k \in 0..n
    BY <1>1
  <2> DEFINE t == g[k]
  <2>2. g[k + 1] = IF s[k + 1] \in keep THEN Append(t, s[k + 1]) ELSE t
    BY <1>2, <2>1 DEF SelectsBy
  <2>3. t \in Seq(E) /\ Good(t, k)
    BY <1>2, <1>4, <2>1
  <2> HIDE DEF t, n
  <2>4. CASE s[k + 1] \notin keep
    BY <2>2, <2>3, <2>4
  <2>5. CASE s[k + 1] \in keep
    <3> DEFINE u == Append(t, s[k + 1])
    <3>1. /\ DOMAIN t = 1..Len(t) /\ DOMAIN u = 1..(Len(t) + 1) /\ Len(t) \in Nat
          /\ \A i \in DOMAIN t : u[i] = t[i]
          /\ u[Len(t) + 1] = s[k + 1]
      BY <1>1, <2>1, <2>3
    <3>2. ASSUME NEW i \in DOMAIN t PROVE t[i] # s[k + 1]
      <4>1. PICK m \in 1..k : s[m] = t[i]
        BY <2>3
      <4>2. m \in DOMAIN s /\ k + 1 \in DOMAIN s /\ m # k + 1
        BY <1>1, <2>1
      <4> QED BY <4>1, <4>2
    <3>3. Good(u, k + 1)
      <4> HIDE DEF u
      <4>1. \A i \in DOMAIN u : i \in DOMAIN t \/ i = Len(t) + 1
        BY <3>1
      <4>2. \A i \in DOMAIN u : u[i] \in keep /\ \E m \in 1..(k + 1) : s[m] = u[i]
        BY <2>3, <2>5, <3>1, <4>1
      <4>3. \A i, j \in DOMAIN u : u[i] = u[j] => i = j
        BY <2>3, <3>1, <3>2, <4>1
      <4> QED BY <4>2, <4>3
    <3> QED BY <2>2, <2>5, <3>3
  <2> QED BY <2>4, <2>5
<1> HIDE DEF P
<1>5. Nat \subseteq P
  BY <1>3, <1>4, NatSetInduction
<1>6. Good(g[n], n) /\ g[n] \in Seq(E)
  <2> HIDE DEF n, Good
  <2>1. n \in P /\ n <= n /\ n \in 0..n
    BY <1>1, <1>5
  <2>2. Good(g[n], n)
    BY <2>1 DEF P
  <2> QED BY <1>2, <2>1, <2>2
<1>7. Select(s, keep) = g[n]
  BY <1>2 DEF SelectsBy
<1> QED
  BY <1>6, <1>7

\* A function with a finite domain has finitely many values.
LEMMA FiniteRange ==
  ASSUME NEW f, IsFiniteSet(DOMAIN f) PROVE IsFiniteSet(Range(f))
<1> DEFINE g == [x \in DOMAIN f |-> f[x]]
<1>1. g \in Surjection(DOMAIN f, Range(f))
  BY DEF Surjection, Range
<1> QED BY <1>1, FS_Surjection

\* A nonempty set of naturals has a least one.
LEMMA MinExists ==
  ASSUME NEW S \in SUBSET Nat, S # {} PROVE Min(S) \in S /\ \A y \in S : Min(S) <= y
<1> DEFINE R == OpToRel(<, Nat)
<1>1. IsWellFoundedOn(R, Nat)
  BY NatLessThanWellFounded DEF OpToRel
<1>2. \E x \in S : \A y \in S : ~ (<<y, x>> \in R)
  <2> HIDE DEF R
  <2> QED BY <1>1, WFMin, Zenon
<1>3. \A x, y \in Nat : y < x => <<y, x>> \in R
  BY DEF OpToRel
<1>4. \E x \in S : \A y \in S : x <= y
  <2>1. PICK x \in S : \A y \in S : ~ (<<y, x>> \in R)
    BY <1>2
  <2> HIDE DEF R
  <2>2. ASSUME NEW y \in S PROVE x <= y
    <3>1. x \in Nat /\ y \in Nat /\ ~ (<<y, x>> \in R)
      BY <2>1
    <3>2. ~ (y < x)
      BY <1>3, <3>1, Zenon
    <3> QED BY <3>1, <3>2
  <2> QED BY <2>2
<1> QED BY <1>4, Zenon DEF Min

\* The least number from 1 that is not in use: there is one, and it is not in
\* use.
LEMMA FreshNumber ==
  ASSUME NEW used, IsFiniteSet(used)
  PROVE  LET n == Min((1..(Cardinality(used) + 1)) \ used) IN n \in Nat \ {0} /\ n \notin used
<1> DEFINE c == Cardinality(used)
<1> DEFINE S == 1..(c + 1)
<1>1. c \in Nat
  BY FS_CardinalityType
<1>2. IsFiniteSet(S) /\ Cardinality(S) = c + 1
  BY <1>1, FS_Interval
<1>3. S \ used # {}
  <2> SUFFICES ASSUME S \subseteq used PROVE FALSE
    OBVIOUS
  <2>1. Cardinality(S) <= c
    BY FS_Subset
  <2> HIDE DEF c, S
  <2> QED BY <1>1, <1>2, <2>1
<1>4. S \ used \in SUBSET Nat /\ 0 \notin S
  BY <1>1
<1> HIDE DEF S
<1>5. Min(S \ used) \in S \ used
  BY <1>3, <1>4, MinExists
<1> QED BY <1>4, <1>5 DEF S

-----------------------------------------------------------------------------
(* The container runner.                                                    *)

\* A container as Docker and its client know it.
Containers == [job : Jobs, cli : {"starting", "attached", "exit0", "exit1"}, box : BOOLEAN]

\* What the runner and run.json record of a job.
JobRecord == [status : {"queued", "running", "completed", "failed", "interrupted"}, container : Nat]

\* The record of a run: the runner's, and what run.json has of it.
Records ==
  [status : {"none", "running", "completed", "failed", "interrupted", "cleanup_failed"},
   jobs : [Jobs -> JobRecord]]

\* The types.
ContTypeOK ==
  /\ pc \in {"off", "loop", "spawned", "finally"}
  /\ runs \in Seq(Containers) /\ state \in Records /\ disk \in Records
  /\ pending \in Seq(Jobs)
  /\ active \in SUBSET Jobs /\ Cardinality(active) <= Workers
  /\ dirty \in BOOLEAN /\ interrupted \in BOOLEAN

\* What a record of run.json or of the runner says of a job is about a container of that job.
Named(rs, record, j) ==
  /\ record.container # 0 => record.container \in DOMAIN rs /\ rs[record.container].job = j
  /\ record.status = "completed" => record.container # 0 /\ rs[record.container].cli = "exit0"

\* Both records, of every job.
AllNamed == \A j \in Jobs : Named(runs, disk.jobs[j], j) /\ Named(runs, state.jobs[j], j)

\* What run.json calls completed, so does the runner.
Ahead == \A j \in Jobs : disk.jobs[j].status = "completed" => state.jobs[j] = disk.jobs[j]

\* Between invocations the only record is run.json.
AtRest == pc = "off" => state = disk

\* The queue and the jobs at work.
Queue ==
  pc # "off" =>
    /\ \A m \in DOMAIN pending : pending[m] \notin active /\ state.jobs[pending[m]].status # "completed"
    /\ \A m, n \in DOMAIN pending : pending[m] = pending[n] => m = n
    /\ \A j \in active : state.jobs[j].status = "running" /\ state.jobs[j].container # 0

\* A container exists only for the job that the runner works on.
Owned ==
  ~dirty => \A n \in DOMAIN runs : Busy(n) =>
    pc # "off" /\ runs[n].job \in active /\ state.jobs[runs[n].job].container = n

\* A client that ended well saw its container end.
Ended == \A n \in DOMAIN runs : runs[n].cli = "exit0" => ~runs[n].box

\* The run's status: nothing is final while the loop runs, and a run is
\* completed only with all its jobs.
RunStatus ==
  /\ pc \in {"loop", "spawned"} => state.status = "running"
  /\ pc = "finally" /\ state.status = "completed" => AllCompleted
  /\ disk.status = "completed" => \A j \in Jobs : disk.jobs[j].status = "completed"

\* The inductive invariant of the container runner. NoStrays is Owned with what
\* is known of the queue; Truthful follows from AllNamed, Ended and RunStatus.
ContInv ==
  ContTypeOK /\ AllNamed /\ Ahead /\ AtRest /\ Queue /\ Owned /\ Ended /\ RunStatus

\* It holds before anything has run.
LEMMA ContInit ==
  ASSUME Init PROVE ContInv
<1> USE RunnerAssumption DEF Init, NoRun
<1>1. Cardinality({}) = 0
  BY FS_EmptySet
<1>2. disk \in Records /\ state \in Records
  <2>1. [status |-> "queued", container |-> 0] \in JobRecord
    BY DEF JobRecord
  <2> QED BY <2>1 DEF Records
<1>3. runs \in Seq(Containers) /\ pending \in Seq(Jobs) /\ DOMAIN runs = {} /\ DOMAIN pending = {}
  OBVIOUS
<1>4. ContTypeOK
  <2>1. Cardinality(active) <= Workers
    BY <1>1
  <2> QED BY <1>2, <1>3, <2>1 DEF ContTypeOK
<1>5. AllNamed /\ Ahead /\ AtRest /\ Queue
  BY <1>3 DEF AllNamed, Named, Ahead, AtRest, Queue
<1>6. Owned /\ Ended /\ RunStatus
  BY <1>3 DEF Owned, Ended, RunStatus
<1> QED BY <1>4, <1>5, <1>6 DEF ContInv

\* A step of Docker: containers start and end, a client that saw its container
\* end still did, and nothing is busy that was not.
DockerOnly ==
  /\ runs' \in Seq(Containers) /\ DOMAIN runs' = DOMAIN runs
  /\ \A n \in DOMAIN runs :
       /\ runs'[n].job = runs[n].job
       /\ runs[n].cli = "exit0" => runs'[n].cli = "exit0"
       /\ runs'[n].cli = "exit0" => ~runs'[n].box
       /\ Busy(n)' => Busy(n)

\* Steps of Docker leave what the records say true.
LEMMA DockerNamed ==
  ASSUME ContInv, DockerOnly, NEW record, NEW j, Named(runs, record, j) PROVE Named(runs', record, j)
BY DEF DockerOnly, Named

\* The runner's records survive any step of Docker.
LEMMA DockerStep ==
  ASSUME ContInv, DockerOnly, DockerLeaves PROVE ContInv'
<1> USE DEF DockerLeaves, ContInv
<1>1. ContTypeOK'
  BY DEF ContTypeOK, DockerOnly
<1>2. AllNamed'
  BY DockerNamed DEF AllNamed
<1>3. (Ahead /\ AtRest /\ Queue)'
  BY DEF Ahead, AtRest, Queue
<1>4. Owned' /\ Ended'
  BY DEF Owned, Ended, DockerOnly
<1>5. RunStatus'
  BY DEF RunStatus, AllCompleted
<1> QED BY <1>1, <1>2, <1>3, <1>4, <1>5

\* One container and its client change.
LEMMA ClientStep ==
  ASSUME ContInv, NEW n \in DOMAIN runs, NEW cli \in {"starting", "attached", "exit0", "exit1"},
         NEW box \in BOOLEAN, Client(n, cli, box), DockerLeaves,
         runs[n].cli = "exit0" => cli = "exit0",
         cli = "exit0" => ~box,
         box \/ cli = "starting" => Busy(n)
  PROVE  ContInv'
<1>1. runs \in Seq(Containers) /\ DOMAIN runs = 1..Len(runs) /\ Len(runs) \in Nat
  BY DEF ContInv, ContTypeOK
<1>2. /\ runs' \in Seq(Containers) /\ DOMAIN runs' = DOMAIN runs
      /\ \A m \in DOMAIN runs : m # n => runs'[m] = runs[m]
      /\ runs'[n].job = runs[n].job /\ runs'[n].cli = cli /\ runs'[n].box = box
  <2> DEFINE new == [runs[n] EXCEPT !.cli = cli, !.box = box]
  <2>1. runs[n] \in Containers
    BY <1>1
  <2>2. new \in Containers /\ new.job = runs[n].job /\ new.cli = cli /\ new.box = box
    BY <2>1 DEF Containers
  <2>3. runs' = [runs EXCEPT ![n] = new]
    BY DEF Client
  <2>4. /\ runs' \in Seq(Containers) /\ DOMAIN runs' = DOMAIN runs /\ runs'[n] = new
        /\ \A m \in DOMAIN runs : m # n => runs'[m] = runs[m]
    <3> HIDE DEF new
    <3> QED BY <1>1, <2>2, <2>3
  <2> HIDE DEF new
  <2> QED BY <2>2, <2>4
<1>3. DockerOnly
  BY <1>2 DEF DockerOnly, Busy, ContInv, Ended
<1> QED BY <1>3, DockerStep

\* Docker creates a container, the job in it ends, the client fails.
LEMMA ContDocker ==
  ASSUME ContInv, NEW n \in DOMAIN runs, Create(n) \/ JobEnds(n) \/ ClientFails(n) PROVE ContInv'
<1>1. runs[n] \in Containers
  BY DEF ContInv, ContTypeOK
<1>2. runs[n].cli = "exit0" => ~runs[n].box
  BY DEF ContInv, Ended
<1>3. runs[n].cli \in {"starting", "attached", "exit0", "exit1"} /\ runs[n].box \in BOOLEAN
  BY <1>1 DEF Containers
<1>4. CASE Create(n)
  BY <1>4, ClientStep DEF Create, Busy
<1>5. CASE JobEnds(n)
  BY <1>2, <1>3, <1>5, ClientStep DEF JobEnds, Busy
<1>6. CASE ClientFails(n)
  BY <1>3, <1>6, ClientStep DEF ClientFails, Busy
<1> QED BY <1>4, <1>5, <1>6

\* The operator removes a container by hand.
LEMMA ContOperator ==
  ASSUME ContInv, NEW j \in Jobs, OperatorRemoves(j) PROVE ContInv'
<1> DEFINE n == disk.jobs[j].container
<1>1. n # 0 /\ runs[n].box /\ Client(n, "exit1", FALSE) /\ DockerLeaves
  BY DEF OperatorRemoves, StillOwned
<1>2. n \in DOMAIN runs
  BY <1>1 DEF ContInv, AllNamed, Named
<1>3. runs[n].cli # "exit0"
  BY <1>1, <1>2 DEF ContInv, Ended
<1> HIDE DEF n
<1> QED BY <1>1, <1>2, <1>3, ClientStep

\* A new invocation rereads run.json and queues what is not completed.
LEMMA ContStart ==
  ASSUME ContInv, Start PROVE ContInv'
<1> DEFINE keep == {j \in Jobs : disk.jobs[j].status # "completed"}
<1> DEFINE jobs == Select(JobOrder, keep)
<1>1. StartJobs(jobs)
  BY DEF Start
<1>2. /\ pc = "off" /\ pc' = "loop" /\ pending' = jobs /\ active' = {} /\ interrupted' = FALSE
      /\ state' = [status |-> "running", jobs |-> disk.jobs] /\ disk' = state'
      /\ UNCHANGED <<runs, dirty>>
  BY <1>1 DEF StartJobs
<1>3. JobOrder \in Seq(Jobs) /\ \A m, n \in DOMAIN JobOrder : JobOrder[m] = JobOrder[n] => m = n
  BY RunnerAssumption DEF IsInjective
<1>4. /\ jobs \in Seq(Jobs)
      /\ \A m \in DOMAIN jobs : disk.jobs[jobs[m]].status # "completed"
      /\ \A m, n \in DOMAIN jobs : jobs[m] = jobs[n] => m = n
  <2>1. /\ jobs \in Seq(Jobs)
        /\ \A m \in DOMAIN jobs : jobs[m] \in keep
        /\ \A m, n \in DOMAIN jobs : jobs[m] = jobs[n] => m = n
    <3> HIDE DEF keep
    <3> QED BY <1>3, SelectFacts, Zenon
  <2> HIDE DEF jobs
  <2> QED BY <2>1
<1> HIDE DEF jobs
<1> USE DEF ContInv
<1>5. disk' \in Records /\ state' \in Records /\ disk'.jobs = disk.jobs /\ state'.jobs = disk.jobs
      /\ state'.status = "running" /\ disk'.status = "running"
  BY <1>2 DEF ContTypeOK, Records
<1>6. Cardinality({}) <= Workers
  BY RunnerAssumption, FS_EmptySet
<1>7. ContTypeOK'
  BY <1>2, <1>4, <1>5, <1>6 DEF ContTypeOK
<1>8. AllNamed' /\ Ahead' /\ AtRest'
  BY <1>2, <1>5 DEF AllNamed, Ahead, AtRest
<1>9. Queue'
  BY <1>2, <1>4, <1>5 DEF Queue
<1>10. Owned' /\ Ended'
  BY <1>2 DEF Owned, Ended, Busy
<1>11. RunStatus'
  BY <1>2, <1>5 DEF RunStatus
<1> QED BY <1>7, <1>8, <1>9, <1>10, <1>11

\* The jobs at work can be counted.
LEMMA ActiveFinite ==
  ASSUME ContInv
  PROVE  IsFiniteSet(active) /\ Cardinality(active) \in Nat
<1>1. IsFiniteSet(Jobs)
  <2>1. JobOrder \in Seq(Jobs) /\ Jobs = {JobOrder[m] : m \in DOMAIN JobOrder}
    BY RunnerAssumption DEF Jobs, Range
  <2>2. DOMAIN JobOrder = 1..Len(JobOrder) /\ Len(JobOrder) \in Nat
    BY <2>1
  <2>3. IsFiniteSet(1..Len(JobOrder))
    BY <2>2, FS_Interval
  <2> DEFINE S == 1..Len(JobOrder)
  <2> DEFINE f == [m \in S |-> JobOrder[m]]
  <2>4. f \in Surjection(S, Jobs)
    BY <2>1, <2>2 DEF Surjection
  <2> QED BY <2>3, <2>4, FS_Surjection
<1> QED
  BY <1>1, FS_Subset, FS_CardinalityType DEF ContInv, ContTypeOK

\* What becomes of the jobs at work when one starts.
LEMMA ActiveGrows ==
  ASSUME ContInv, NEW j \in Jobs, Cardinality(active) < Workers
  PROVE  Cardinality(active \cup {j}) <= Workers
<1>2. IsFiniteSet(active) /\ Cardinality(active) \in Nat
  BY ActiveFinite
<1>3. Cardinality(active \cup {j}) = IF j \in active THEN Cardinality(active) ELSE Cardinality(active) + 1
  BY <1>2, FS_AddElement
<1> QED
  BY RunnerAssumption, <1>2, <1>3

\* The next job of the queue: not at work, not completed, and not queued again.
LEMMA QueueHead ==
  ASSUME ContInv, pc # "off", pending # <<>>
  PROVE  LET j == Head(pending) IN
         /\ j \in Jobs /\ j \notin active /\ state.jobs[j].status # "completed"
         /\ disk.jobs[j].status # "completed"
         /\ Tail(pending) \in Seq(Jobs)
         /\ \A m \in DOMAIN Tail(pending) :
              /\ Tail(pending)[m] # j /\ Tail(pending)[m] \notin active
              /\ Tail(pending)[m] \in Jobs
              /\ state.jobs[Tail(pending)[m]].status # "completed"
         /\ \A m, n \in DOMAIN Tail(pending) : Tail(pending)[m] = Tail(pending)[n] => m = n
<1>1. pending \in Seq(Jobs) /\ DOMAIN pending = 1..Len(pending) /\ Len(pending) \in Nat \ {0}
  BY DEF ContInv, ContTypeOK
<1>2. /\ Tail(pending) \in Seq(Jobs) /\ DOMAIN Tail(pending) = 1..(Len(pending) - 1)
      /\ \A m \in DOMAIN Tail(pending) : m + 1 \in DOMAIN pending /\ Tail(pending)[m] = pending[m + 1]
  BY <1>1
<1>3. 1 \in DOMAIN pending /\ Head(pending) = pending[1] /\ pending[1] \in Jobs
  BY <1>1
<1>4. /\ \A m \in DOMAIN pending : pending[m] \notin active /\ state.jobs[pending[m]].status # "completed"
      /\ \A m, n \in DOMAIN pending : pending[m] = pending[n] => m = n
  BY DEF ContInv, Queue
<1>5. disk.jobs[Head(pending)].status # "completed"
  BY <1>3, <1>4 DEF ContInv, Ahead
<1>6. \A m \in DOMAIN Tail(pending) :
         /\ Tail(pending)[m] # Head(pending) /\ Tail(pending)[m] \notin active
         /\ Tail(pending)[m] \in Jobs
         /\ state.jobs[Tail(pending)[m]].status # "completed"
  BY <1>1, <1>2, <1>3, <1>4
<1>7. \A m, n \in DOMAIN Tail(pending) : Tail(pending)[m] = Tail(pending)[n] => m = n
  BY <1>1, <1>2, <1>4
<1> QED BY <1>2, <1>3, <1>4, <1>5, <1>6, <1>7

\* A job is taken from the queue and its container requested.
LEMMA ContSpawn ==
  ASSUME ContInv, Spawn PROVE ContInv'
<1> DEFINE j == Head(pending)
<1> DEFINE new == Len(runs) + 1
<1> DEFINE entry == [job |-> j, cli |-> "starting", box |-> FALSE]
<1> DEFINE record == [status |-> "running", container |-> new]
<1>0. Cardinality(active) < Workers
  BY DEF Spawn
<1>1. /\ pc = "loop" /\ pc' = "spawned" /\ pending # <<>>
      /\ state' = [state EXCEPT !.jobs[j] = record]
      /\ runs' = Append(runs, entry)
      /\ active' = active \cup {j} /\ pending' = Tail(pending)
      /\ UNCHANGED <<disk, interrupted, faults, dirty>>
  BY Zenon DEF Spawn
<1>2. /\ j \in Jobs /\ j \notin active /\ state.jobs[j].status # "completed"
      /\ disk.jobs[j].status # "completed"
      /\ Tail(pending) \in Seq(Jobs)
      /\ \A m \in DOMAIN Tail(pending) :
           /\ Tail(pending)[m] # j /\ Tail(pending)[m] \notin active
           /\ Tail(pending)[m] \in Jobs
           /\ state.jobs[Tail(pending)[m]].status # "completed"
      /\ \A m, n \in DOMAIN Tail(pending) : Tail(pending)[m] = Tail(pending)[n] => m = n
  BY <1>1, QueueHead
<1>3. Cardinality(active') <= Workers /\ active' \in SUBSET Jobs
  BY <1>0, <1>1, <1>2, ActiveGrows DEF ContInv, ContTypeOK
<1>4. runs \in Seq(Containers) /\ Len(runs) \in Nat /\ DOMAIN runs = 1..Len(runs) /\ entry \in Containers
  <2>1. entry \in Containers
    BY <1>2 DEF Containers
  <2> QED BY <2>1 DEF ContInv, ContTypeOK
<1>5. /\ runs' \in Seq(Containers) /\ DOMAIN runs' = DOMAIN runs \cup {new} /\ new \notin DOMAIN runs
      /\ new \in Nat \ {0} /\ runs'[new] = entry
      /\ \A n \in DOMAIN runs : runs'[n] = runs[n] /\ n # new
  <2> HIDE DEF entry
  <2> QED BY <1>1, <1>4
<1>6. record \in JobRecord
  BY <1>5 DEF JobRecord
<1>7. /\ state' \in Records /\ state'.status = state.status /\ state'.jobs[j] = record
      /\ \A k \in Jobs : k # j => state'.jobs[k] = state.jobs[k]
  <2> HIDE DEF record, j
  <2> QED BY <1>1, <1>2, <1>6 DEF ContInv, ContTypeOK, Records
<1>8. /\ entry.job = j /\ entry.cli = "starting" /\ entry.box = FALSE
      /\ record.status = "running" /\ record.container = new
  OBVIOUS
<1> HIDE DEF entry, record, new, j
<1> USE DEF ContInv
<1>9. ContTypeOK'
  BY <1>1, <1>2, <1>3, <1>5, <1>7 DEF ContTypeOK
<1>10. ASSUME NEW r, NEW k, Named(runs, r, k) PROVE Named(runs', r, k)
  BY <1>5, <1>10 DEF Named
<1>11. AllNamed'
  <2>1. Named(runs', record, j)
    BY <1>5, <1>8 DEF Named
  <2>2. ASSUME NEW k \in Jobs PROVE Named(runs', disk'.jobs[k], k) /\ Named(runs', state'.jobs[k], k)
    <3>1. Named(runs, disk.jobs[k], k) /\ Named(runs, state.jobs[k], k)
      BY DEF AllNamed
    <3> QED BY <1>1, <1>7, <1>10, <2>1, <3>1
  <2> QED BY <2>2 DEF AllNamed
<1>12. Ahead' /\ AtRest'
  BY <1>1, <1>2, <1>7 DEF Ahead, AtRest
<1>13. Queue'
  <2>1. \A k \in active' : state'.jobs[k].status = "running" /\ state'.jobs[k].container # 0
    BY <1>1, <1>2, <1>5, <1>7, <1>8 DEF Queue, ContTypeOK
  <2>2. \A m \in DOMAIN pending' : pending'[m] \notin active' /\ state'.jobs[pending'[m]].status # "completed"
    BY <1>1, <1>2, <1>7
  <2> QED BY <1>1, <1>2, <2>1, <2>2 DEF Queue
<1>14. Owned'
  <2> SUFFICES ASSUME ~dirty, NEW n \in DOMAIN runs', Busy(n)'
               PROVE  runs'[n].job \in active' /\ state'.jobs[runs'[n].job].container = n
    BY <1>1 DEF Owned
  <2>1. CASE n = new
    BY <1>1, <1>5, <1>7, <1>8, <2>1
  <2>2. CASE n \in DOMAIN runs
    <3>1. Busy(n)
      BY <1>5, <2>2 DEF Busy
    <3>2. runs[n].job \in active /\ state.jobs[runs[n].job].container = n
      BY <2>2, <3>1 DEF Owned
    <3> QED BY <1>1, <1>2, <1>5, <1>7, <2>2, <3>2 DEF ContTypeOK
  <2> QED BY <1>5, <2>1, <2>2
<1>15. Ended'
  BY <1>5, <1>8 DEF Ended
<1>16. RunStatus'
  BY <1>1, <1>7 DEF RunStatus
<1> QED BY <1>9, <1>11, <1>12, <1>13, <1>14, <1>15, <1>16

\* The new container is on disk.
LEMMA ContSaveSpawned ==
  ASSUME ContInv, SaveSpawned PROVE ContInv'
<1> USE DEF ContInv, SaveSpawned
<1>1. ContTypeOK'
  BY DEF ContTypeOK
<1>2. (AllNamed /\ Ahead /\ AtRest /\ Queue)'
  BY DEF AllNamed, Ahead, AtRest, Queue
<1>3. (Owned /\ Ended)'
  BY DEF Owned, Ended, Busy
<1>4. RunStatus'
  BY DEF RunStatus
<1> QED BY <1>1, <1>2, <1>3, <1>4

\* A job whose directory, log or client cannot be made ends the loop.
LEMMA ContSpawnFails ==
  ASSUME ContInv, SpawnFails PROVE ContInv'
<1> DEFINE j == Head(pending)
<1>1. PICK record \in {state.jobs[j]} \cup [status : {"running", "failed"}, container : {0}] :
        state' = [state EXCEPT !.status = "failed", !.jobs[j] = record]
  BY DEF SpawnFails
<1>2. /\ pc = "loop" /\ pending # <<>> /\ pending' = Tail(pending) /\ pc' = "finally"
      /\ UNCHANGED <<disk, active, interrupted, runs, dirty>>
  BY DEF SpawnFails
<1>3. /\ j \in Jobs /\ j \notin active /\ state.jobs[j].status # "completed"
      /\ disk.jobs[j].status # "completed"
      /\ Tail(pending) \in Seq(Jobs)
      /\ \A m \in DOMAIN Tail(pending) :
           /\ Tail(pending)[m] # j /\ Tail(pending)[m] \notin active
           /\ Tail(pending)[m] \in Jobs
           /\ state.jobs[Tail(pending)[m]].status # "completed"
      /\ \A m, n \in DOMAIN Tail(pending) : Tail(pending)[m] = Tail(pending)[n] => m = n
  BY <1>2, QueueHead
<1> HIDE DEF j
<1> USE DEF ContInv
<1>4. state \in Records /\ state.jobs \in [Jobs -> JobRecord] /\ state.jobs[j] \in JobRecord
  BY <1>3 DEF ContTypeOK, Records
<1>5. record \in JobRecord /\ Named(runs, record, j) /\ record.status # "completed"
  <2>1. Named(runs, state.jobs[j], j)
    BY <1>3 DEF AllNamed
  <2>2. CASE record = state.jobs[j]
    BY <1>3, <1>4, <2>1, <2>2
  <2>3. CASE record \in [status : {"running", "failed"}, container : {0}]
    BY <2>3 DEF JobRecord, Named
  <2> QED BY <2>2, <2>3
<1>6. /\ state' \in Records /\ state'.status = "failed" /\ state'.jobs[j] = record
      /\ \A k \in Jobs : k # j => state'.jobs[k] = state.jobs[k]
  BY <1>1, <1>3, <1>4, <1>5 DEF Records
<1>7. ContTypeOK'
  BY <1>2, <1>3, <1>6 DEF ContTypeOK
<1>8. AllNamed'
  BY <1>2, <1>5, <1>6 DEF AllNamed
<1>9. Ahead' /\ AtRest'
  BY <1>2, <1>3, <1>6 DEF Ahead, AtRest
<1>10. Queue'
  BY <1>2, <1>3, <1>6 DEF Queue, ContTypeOK
<1>11. Owned' /\ Ended'
  BY <1>2, <1>3, <1>6 DEF Owned, Ended, Busy, ContTypeOK
<1>12. RunStatus'
  BY <1>2, <1>6 DEF RunStatus
<1> QED BY <1>7, <1>8, <1>9, <1>10, <1>11, <1>12

\* A client has exited and its job's outcome is recorded.
LEMMA ContReap ==
  ASSUME ContInv, NEW j \in Jobs, Reap(j) PROVE ContInv'
<1> DEFINE n == state.jobs[j].container
<1> DEFINE status == IF runs[n].cli = "exit0" THEN "completed" ELSE "failed"
<1>1. /\ pc = "loop" /\ j \in active /\ Exited(j)
      /\ runs' = [runs EXCEPT ![n] = [@ EXCEPT !.box = FALSE]]
      /\ state' = [state EXCEPT !.jobs[j].status = status]
      /\ active' = active \ {j} /\ disk' = state'
      /\ UNCHANGED <<pc, faults, pending, interrupted, dirty>>
  BY DEF Reap, Reaped
<1> USE DEF ContInv
<1>2. n # 0 /\ state.jobs[j].status = "running" /\ Named(runs, state.jobs[j], j)
  BY <1>1 DEF Queue, AllNamed
<1>3. n \in DOMAIN runs /\ runs[n].job = j /\ runs[n].cli \in {"exit0", "exit1"}
  BY <1>1, <1>2 DEF Named, Exited
<1> DEFINE new == [runs[n] EXCEPT !.box = FALSE]
<1>4. new \in Containers /\ new.job = j /\ new.cli = runs[n].cli /\ new.box = FALSE
  <2>1. runs[n] \in Containers
    BY <1>3 DEF ContTypeOK
  <2> QED BY <1>3, <2>1 DEF Containers
<1>5. /\ runs' \in Seq(Containers) /\ DOMAIN runs' = DOMAIN runs /\ runs'[n] = new
      /\ \A m \in DOMAIN runs : m # n => runs'[m] = runs[m]
  <2>1. runs' = [runs EXCEPT ![n] = new] /\ runs \in Seq(Containers)
    BY <1>1 DEF ContTypeOK
  <2> HIDE DEF new, n
  <2> QED BY <1>3, <1>4, <2>1
<1> DEFINE record == [state.jobs[j] EXCEPT !.status = status]
<1>6. record \in JobRecord /\ record.container = n /\ record.status = status
  <2>1. state.jobs[j] \in JobRecord
    BY DEF ContTypeOK, Records
  <2> QED BY <2>1 DEF JobRecord
<1>7. /\ state' \in Records /\ state'.status = state.status /\ state'.jobs[j] = record
      /\ \A k \in Jobs : k # j => state'.jobs[k] = state.jobs[k]
  <2>1. state' = [state EXCEPT !.jobs[j] = record] /\ state \in Records
    BY <1>1 DEF ContTypeOK
  <2> HIDE DEF record
  <2> QED BY <1>6, <2>1 DEF Records
<1>8. status = "completed" => runs'[n].cli = "exit0"
  BY <1>4, <1>5
<1>9. \A m \in DOMAIN runs : Busy(m)' => Busy(m) /\ m # n
  BY <1>3, <1>4, <1>5 DEF Busy
<1>10. \A m \in DOMAIN runs : runs'[m].job = runs[m].job /\ runs'[m].cli = runs[m].cli
  BY <1>3, <1>4, <1>5
<1> HIDE DEF new, record, status, n
<1>11. ContTypeOK'
  <2>1. Cardinality(active \ {j}) <= Workers
    <3>1. IsFiniteSet(active) /\ Cardinality(active) \in Nat /\ Cardinality(active) <= Workers
      BY ActiveFinite DEF ContTypeOK
    <3>2. Cardinality(active \ {j}) = Cardinality(active) - 1
      BY <1>1, <3>1, FS_RemoveElement
    <3>3. Workers \in Nat
      BY RunnerAssumption
    <3> QED BY <3>1, <3>2, <3>3
  <2> QED BY <1>1, <1>5, <1>7, <2>1 DEF ContTypeOK
<1>12. AllNamed'
  <2>1. Named(runs', record, j)
    BY <1>2, <1>3, <1>5, <1>6, <1>8, <1>10 DEF Named
  <2>2. ASSUME NEW k \in Jobs, k # j PROVE Named(runs', state'.jobs[k], k)
    <3>1. Named(runs, state.jobs[k], k)
      BY DEF AllNamed
    <3>2. state'.jobs[k] = state.jobs[k]
      BY <1>7, <2>2
    <3> QED BY <1>5, <1>10, <3>1, <3>2 DEF Named
  <2>3. \A k \in Jobs : Named(runs', state'.jobs[k], k)
    BY <1>7, <2>1, <2>2
  <2> QED BY <1>1, <2>3 DEF AllNamed
<1>13. Ahead' /\ AtRest'
  BY <1>1 DEF Ahead, AtRest
<1>14. Queue'
  <2>1. \A m \in DOMAIN pending : pending[m] \in Jobs /\ pending[m] # j
    BY <1>1 DEF Queue, ContTypeOK
  <2>2. \A k \in active' : k \in Jobs /\ k # j /\ k \in active
    BY <1>1 DEF ContTypeOK
  <2> QED BY <1>1, <1>7, <2>1, <2>2 DEF Queue
<1>15. Owned'
  <2> SUFFICES ASSUME ~dirty, NEW m \in DOMAIN runs, Busy(m)'
               PROVE  runs'[m].job \in active' /\ state'.jobs[runs'[m].job].container = m
    BY <1>1, <1>5 DEF Owned
  <2>1. Busy(m) /\ m # n
    BY <1>9
  <2>2. runs[m].job \in active /\ state.jobs[runs[m].job].container = m
    BY <2>1 DEF Owned
  <2>3. runs[m].job # j /\ runs[m].job \in Jobs
    BY <2>1, <2>2 DEF n, ContTypeOK
  <2> QED BY <1>1, <1>7, <1>10, <2>2, <2>3
<1>16. Ended'
  BY <1>3, <1>4, <1>5 DEF Ended
<1>17. RunStatus'
  BY <1>1, <1>7 DEF RunStatus
<1> QED BY <1>11, <1>12, <1>13, <1>14, <1>15, <1>16, <1>17

\* The loop ends with a status.
LEMMA ContStatus ==
  ASSUME ContInv, pc = "loop", pc' = "finally",
         NEW status \in {"completed", "failed", "interrupted"},
         status = "completed" => AllCompleted,
         state' = [state EXCEPT !.status = status],
         UNCHANGED <<disk, pending, active, interrupted, runs, dirty>>
  PROVE  ContInv'
<1> USE DEF ContInv
<1>1. state' \in Records /\ state'.status = status /\ state'.jobs = state.jobs
  BY DEF ContTypeOK, Records
<1>2. ContTypeOK'
  BY <1>1 DEF ContTypeOK
<1>3. (AllNamed /\ Ahead /\ AtRest /\ Queue)'
  BY <1>1 DEF AllNamed, Ahead, AtRest, Queue
<1>4. (Owned /\ Ended)'
  BY <1>1 DEF Owned, Ended, Busy
<1>5. RunStatus'
  BY <1>1 DEF RunStatus, AllCompleted
<1> QED BY <1>2, <1>3, <1>4, <1>5

\* The loop ends with the queue empty.
LEMMA ContLoopEnds ==
  ASSUME ContInv, LoopEnds PROVE ContInv'
<1> DEFINE status == IF interrupted THEN "interrupted" ELSE IF AllCompleted THEN "completed" ELSE "failed"
<1>1. /\ pc = "loop" /\ pc' = "finally" /\ state' = [state EXCEPT !.status = status]
      /\ UNCHANGED <<disk, pending, active, interrupted, runs, dirty>>
  BY DEF LoopEnds, LoopEndsAs
<1>2. status \in {"completed", "failed", "interrupted"} /\ (status = "completed" => AllCompleted)
  OBVIOUS
<1> HIDE DEF status
<1> QED BY <1>1, <1>2, ContStatus

\* Removing a container fails and ends the loop.
LEMMA ContReapFails ==
  ASSUME ContInv, NEW j \in Jobs, ReapFails(j) PROVE ContInv'
BY ContStatus DEF ReapFails

\* The runner is interrupted.
LEMMA ContInterrupt ==
  ASSUME ContInv, Interrupt PROVE ContInv'
<1> USE DEF ContInv, Interrupt
<1>1. ContTypeOK'
  BY DEF ContTypeOK
<1>2. (AllNamed /\ Ahead /\ AtRest /\ Queue)'
  BY DEF AllNamed, Ahead, AtRest, Queue
<1>3. (Owned /\ Ended)'
  BY DEF Owned, Ended, Busy
<1>4. RunStatus'
  BY DEF RunStatus, AllCompleted
<1> QED BY <1>1, <1>2, <1>3, <1>4

\* The runner is killed: what it had not saved is gone.
LEMMA ContCrash ==
  ASSUME ContInv, Crash PROVE ContInv'
<1> USE DEF ContInv, Crash
<1>1. ContTypeOK'
  <2>1. Cardinality({}) <= Workers
    BY RunnerAssumption, FS_EmptySet
  <2>2. <<>> \in Seq(Jobs)
    OBVIOUS
  <2> QED BY <2>1, <2>2 DEF ContTypeOK
<1>2. (AllNamed /\ Ahead /\ AtRest /\ Queue)'
  BY DEF AllNamed, Ahead, AtRest, Queue
<1>3. (Owned /\ Ended)'
  BY DEF Owned, Ended
<1>4. RunStatus'
  BY DEF RunStatus
<1> QED BY <1>1, <1>2, <1>3, <1>4

\* The finally block removes what still runs and saves the record.
LEMMA ContEndRun ==
  ASSUME ContInv, EndRun PROVE ContInv'
<1> DEFINE Good(bad) == active \ bad
<1> DEFINE Names(bad) == {state.jobs[j].container : j \in active \ bad}
<1>1. PICK bad \in SUBSET active :
        /\ runs' = [n \in DOMAIN runs |-> IF n \in Names(bad) THEN Cleaned(runs[n]) ELSE runs[n]]
        /\ disk' = [status |-> IF bad # {} THEN "cleanup_failed"
                               ELSE IF active = {} THEN state.status
                               ELSE IF interrupted THEN "interrupted" ELSE "failed",
                    jobs |-> [j \in Jobs |-> IF j \in active \ bad
                                               THEN [state.jobs[j] EXCEPT !.status = "interrupted"]
                                               ELSE state.jobs[j]]]
        /\ dirty' = (dirty \/ bad # {})
  BY Zenon DEF EndRun
<1>2. pc = "finally" /\ pc' = "off" /\ state' = disk' /\ UNCHANGED <<pending, active, interrupted>>
  BY DEF EndRun
<1> DEFINE names == Names(bad)
<1> USE DEF ContInv
<1>3. \A n \in names : n # 0
  BY <1>2 DEF Queue
<1> HIDE DEF Names
<1>4. \A n \in DOMAIN runs : /\ Cleaned(runs[n]) \in Containers
                             /\ Cleaned(runs[n]).job = runs[n].job
                             /\ runs[n].cli = "exit0" => Cleaned(runs[n]).cli = "exit0"
                             /\ Cleaned(runs[n]).cli # "starting" /\ ~Cleaned(runs[n]).box
  <2>1. \A n \in DOMAIN runs : runs[n] \in Containers
    BY DEF ContTypeOK
  <2> QED BY <2>1 DEF Cleaned, Containers
<1>5. /\ runs' \in Seq(Containers) /\ DOMAIN runs' = DOMAIN runs
      /\ \A n \in DOMAIN runs : runs'[n] = IF n \in names THEN Cleaned(runs[n]) ELSE runs[n]
  <2>1. runs \in Seq(Containers) /\ DOMAIN runs = 1..Len(runs) /\ Len(runs) \in Nat
    BY DEF ContTypeOK
  <2>2. \A n \in DOMAIN runs : runs[n] \in Containers
    BY <2>1
  <2> HIDE DEF names
  <2>3. runs' \in [1..Len(runs) -> Containers]
    BY <1>1, <1>4, <2>1, <2>2 DEF names
  <2>4. runs' \in Seq(Containers)
    BY <2>1, <2>3
  <2> QED BY <1>1, <2>4 DEF names
<1> HIDE DEF names
<1>6. /\ disk' \in Records
      /\ \A j \in Jobs : disk'.jobs[j].container = state.jobs[j].container
      /\ \A j \in Jobs : disk'.jobs[j].status = "completed" => state.jobs[j].status = "completed"
      /\ \A j \in Jobs : j \notin active => disk'.jobs[j] = state.jobs[j]
  <2>1. \A j \in Jobs : state.jobs[j] \in JobRecord
    BY DEF ContTypeOK, Records
  <2> DEFINE done(j) == [state.jobs[j] EXCEPT !.status = "interrupted"]
  <2>2. \A j \in Jobs : done(j) \in JobRecord /\ done(j).container = state.jobs[j].container
                          /\ done(j).status = "interrupted"
    BY <2>1 DEF JobRecord
  <2> DEFINE status == IF bad # {} THEN "cleanup_failed"
                       ELSE IF active = {} THEN state.status
                       ELSE IF interrupted THEN "interrupted" ELSE "failed"
  <2>3. status \in {"none", "running", "completed", "failed", "interrupted", "cleanup_failed"}
    BY DEF ContTypeOK, Records
  <2>4. disk' = [status |-> status, jobs |-> [j \in Jobs |-> IF j \in active \ bad THEN done(j) ELSE state.jobs[j]]]
    BY <1>1, Zenon
  <2> HIDE DEF done, status
  <2>5. disk'.jobs = [j \in Jobs |-> IF j \in active \ bad THEN done(j) ELSE state.jobs[j]]
    BY <2>4
  <2>6. disk'.jobs \in [Jobs -> JobRecord]
    BY <2>1, <2>2, <2>5
  <2>7. disk' \in Records
    BY <2>3, <2>4, <2>5, <2>6 DEF Records
  <2>8. ASSUME NEW j \in Jobs PROVE
             /\ disk'.jobs[j].container = state.jobs[j].container
             /\ disk'.jobs[j].status = "completed" => state.jobs[j].status = "completed"
             /\ j \notin active => disk'.jobs[j] = state.jobs[j]
    <3>1. disk'.jobs[j] = IF j \in active \ bad THEN done(j) ELSE state.jobs[j]
      BY <2>5
    <3> QED BY <2>2, <3>1
  <2> QED BY <2>7, <2>8
<1>7. disk'.status = "completed" => active = {} /\ state.status = "completed"
  BY <1>1
<1>8. ContTypeOK'
  BY <1>1, <1>2, <1>5, <1>6 DEF ContTypeOK
<1>9. AllNamed'
  <2>1. ASSUME NEW j \in Jobs PROVE Named(runs', disk'.jobs[j], j)
    <3>1. Named(runs, state.jobs[j], j)
      BY DEF AllNamed
    <3>2. disk'.jobs[j].status = "completed" => state.jobs[j].status = "completed"
      BY <1>6, Zenon
    <3>3. disk'.jobs[j].container = state.jobs[j].container
      BY <1>6, Zenon
    <3> QED BY <1>4, <1>5, <3>1, <3>2, <3>3 DEF Named
  <2> QED BY <1>2, <2>1 DEF AllNamed
<1>10. Ahead' /\ AtRest' /\ Queue'
  BY <1>2 DEF Ahead, AtRest, Queue
<1>11. Owned'
  <2> SUFFICES ASSUME ~dirty', NEW n \in DOMAIN runs PROVE ~Busy(n)'
    BY <1>5 DEF Owned
  <2>1. ~dirty /\ bad = {}
    BY <1>1 DEF ContTypeOK
  <2>2. Busy(n) => n \in names
    <3>1. Busy(n) => runs[n].job \in active /\ state.jobs[runs[n].job].container = n
      BY <2>1 DEF Owned
    <3> QED BY <2>1, <3>1 DEF names, Names
  <2>3. CASE n \in names
    BY <1>4, <1>5, <2>3 DEF Busy
  <2>4. CASE n \notin names
    BY <1>5, <2>2, <2>4 DEF Busy
  <2> QED BY <2>3, <2>4
<1>12. Ended'
  BY <1>4, <1>5 DEF Ended
<1>13. RunStatus'
  <2>1. state.status = "completed" => \A j \in Jobs : state.jobs[j].status = "completed"
    BY <1>2 DEF RunStatus, AllCompleted
  <2>2. disk'.status = "completed" => \A j \in Jobs : disk'.jobs[j].status = "completed"
    BY <1>6, <1>7, <2>1, Zenon
  <2> QED BY <1>2, <2>2 DEF RunStatus
<1> QED BY <1>8, <1>9, <1>10, <1>11, <1>12, <1>13

\* Every step preserves the invariant.
LEMMA ContNext ==
  ASSUME ContInv, [Next]_vars PROVE ContInv'
<1>1. CASE UNCHANGED vars
  <2> USE <1>1 DEF vars, ContInv
  <2>1. ContTypeOK'
    BY DEF ContTypeOK
  <2>2. (AllNamed /\ Ahead /\ AtRest /\ Queue)'
    BY DEF AllNamed, Ahead, AtRest, Queue
  <2>3. (Owned /\ Ended)'
    BY DEF Owned, Ended, Busy
  <2>4. RunStatus'
    BY DEF RunStatus, AllCompleted
  <2> QED BY <2>1, <2>2, <2>3, <2>4
<1>2. CASE Docker \/ \E n \in DOMAIN runs : ClientFails(n)
  BY <1>2, ContDocker DEF Docker
<1>3. CASE Start
  BY <1>3, ContStart
<1>4. CASE Runner
  BY <1>4, ContSpawn, ContSaveSpawned, ContReap, ContLoopEnds, ContEndRun DEF Runner
<1>5. CASE SpawnFails \/ Interrupt \/ Crash
  BY <1>5, ContSpawnFails, ContInterrupt, ContCrash
<1>6. CASE \E j \in Jobs : ReapFails(j) \/ OperatorRemoves(j)
  BY <1>6, ContReapFails, ContOperator
<1> QED
  BY <1>1, <1>2, <1>3, <1>4, <1>5, <1>6 DEF Next

\* Where every container belongs to a job at work, none is a stray.
LEMMA ContInvNoStrays ==
  ASSUME ContInv PROVE NoStrays
<1> SUFFICES ASSUME ~dirty
             PROVE  /\ OneOwner
                    /\ Cardinality({n \in DOMAIN runs : Busy(n)}) <= Workers
                    /\ pc = "off" => \A n \in DOMAIN runs : ~Busy(n)
  BY DEF NoStrays
<1> DEFINE busy == {n \in DOMAIN runs : Busy(n)}
<1>1. \A n \in busy : pc # "off" /\ runs[n].job \in active /\ state.jobs[runs[n].job].container = n
  BY DEF ContInv, Owned
<1>2. OneOwner
  BY <1>1 DEF OneOwner, Busy
<1>3. Cardinality(busy) <= Workers
  <2> DEFINE f == [n \in busy |-> runs[n].job]
  <2>1. f \in Injection(busy, active)
    BY <1>1 DEF Injection, IsInjective
  <2>2. IsFiniteSet(active) /\ Cardinality(active) \in Nat
    BY ActiveFinite
  <2>3. IsFiniteSet(busy) /\ Cardinality(busy) <= Cardinality(active)
    <3> HIDE DEF busy, f
    <3> QED BY <2>1, <2>2, FS_Injection
  <2>4. Cardinality(busy) \in Nat /\ Cardinality(active) <= Workers /\ Workers \in Nat
    BY RunnerAssumption, <2>3, FS_CardinalityType DEF ContInv, ContTypeOK
  <2> QED BY <2>2, <2>3, <2>4
<1> QED BY <1>1, <1>2, <1>3

\* What run.json calls completed has ended with success.
LEMMA ContInvTruthful ==
  ASSUME ContInv PROVE Truthful
<1>1. ASSUME NEW j \in Jobs, disk.jobs[j].status = "completed"
      PROVE  /\ runs[disk.jobs[j].container].cli = "exit0"
             /\ ~dirty => \A n \in DOMAIN runs : runs[n].job = j => ~Busy(n)
  <2>1. runs[disk.jobs[j].container].cli = "exit0"
    BY <1>1 DEF ContInv, AllNamed, Named
  <2>2. state.jobs[j].status = "completed"
    BY <1>1 DEF ContInv, Ahead
  <2>3. j \in active => pc = "off"
    BY <2>2 DEF ContInv, Queue
  <2> QED BY <2>1, <2>3 DEF ContInv, Owned
<1>2. disk.status = "completed" => \A j \in Jobs : disk.jobs[j].status = "completed"
  BY DEF ContInv, RunStatus
<1> QED BY <1>1, <1>2 DEF Truthful

\* The invariant holds in every state.
LEMMA ContInvariance == Spec => []ContInv
<1>1. Init => ContInv
  BY ContInit
<1>2. ContInv /\ [Next]_vars => ContInv'
  BY ContNext
<1> QED
  BY <1>1, <1>2, PTL DEF Spec

\* For every number of jobs and workers, whatever clients, removals and signals
\* do: unless a runner was killed or a cleanup failed, a job has one container,
\* no more than Workers exist, and none outlives its runner.
THEOREM ContainersAreOwned == Spec => []NoStrays
<1>1. ContInv => NoStrays
  BY ContInvNoStrays
<1> QED
  BY <1>1, ContInvariance, PTL

\* However the runner is interrupted, killed and resumed, what run.json calls
\* completed is so: the job's container exited with 0 and none of the job is
\* left, and a completed run has only completed jobs.
THEOREM RunIsTruthful == Spec => []Truthful
<1>1. ContInv => Truthful
  BY ContInvTruthful
<1> QED
  BY <1>1, ContInvariance, PTL

-----------------------------------------------------------------------------
(* The sockets.                                                             *)

\* Where a process can be.
Labels == {"off", "bind", "identify", "up", "close", "compare", "unlink", "next"}

\* The types.
SockTypeOK ==
  /\ file \in [Paths -> Nat] /\ candidates \in [Paths -> Nat]
  /\ bound \in [Processes -> [Paths -> Nat]] /\ identity \in [Processes -> [Paths -> Nat]]
  /\ stage \in [Processes -> Labels] /\ overlap \in BOOLEAN
  /\ \A p \in Processes : position \in [Processes -> Nat] /\ position[p] \in 1..Len(Opens[p])
  /\ check \in Paths \cup {"off", "active", "remove"}

\* The socket files a process has made at a path: the one it has open, the one
\* it remembers.
Mine(p, q) == {bound[p][q], identity[p][q]} \ {0}

\* What a process holds, it has come to.
Reached(p, q) ==
  Mine(p, q) # {} =>
    /\ stage[p] # "off"
    /\ \E m \in 1..position[p] : Opens[p][m] = q /\ (stage[p] = "bind" => m < position[p])

\* What a process holds of its current path, at each stage.
Stage(p) ==
  /\ stage[p] = "identify" => bound[p][Path(p)] # 0
  /\ stage[p] \in {"compare", "unlink", "next"} => bound[p][Path(p)] = 0
  /\ stage[p] = "unlink" => identity[p][Path(p)] # 0

\* Of every process and every path.
Placed == \A p \in Processes : Stage(p) /\ \A q \in Paths : Reached(p, q)

\* The file of a process is the one at its path, until it unlinks it.
At(p, q) ==
  /\ bound[p][q] # 0 => file[q] = bound[p][q]
  /\ identity[p][q] # 0 => file[q] = identity[p][q] \/ (stage[p] = "next" /\ Path(p) = q)

\* No two processes have the same file.
Apart(p, r, q) == p # r => Mine(p, q) \cap Mine(r, q) = {}

\* The preflight's candidates are nobody's.
Stale(p, q) == check # "off" => candidates[q] \notin Mine(p, q)

\* The file the preflight is about to remove is the candidate it found.
Doomed == check \in Paths => candidates[check] # 0 /\ file[check] = candidates[check]

\* What holds as long as no preflight began while a process was at work.
Safe ==
  /\ \A p \in Processes, q \in Paths : At(p, q) /\ Stale(p, q)
  /\ \A p, r \in Processes, q \in Paths : Apart(p, r, q)
  /\ Doomed

\* The inductive invariant of the sockets.
SockInv == SockTypeOK /\ Placed /\ (~overlap => Safe)

\* Finitely many paths.
LEMMA PathsFinite ==
  ASSUME SocketConfig PROVE IsFiniteSet(Paths)
<1>1. ASSUME NEW p \in Processes PROVE IsFiniteSet(Range(Opens[p]))
  <2>1. DOMAIN Opens[p] = 1..Len(Opens[p]) /\ Len(Opens[p]) \in Nat
    BY DEF SocketConfig
  <2>2. IsFiniteSet(DOMAIN Opens[p])
    BY <2>1, FS_Interval
  <2> QED BY <2>2, FiniteRange
<1> DEFINE f == [p \in Processes |-> Range(Opens[p])]
<1>2. IsFiniteSet(Processes)
  BY DEF SocketConfig
<1>3. IsFiniteSet(Range(f))
  BY <1>2, FiniteRange
<1>4. Range(f) = {Range(Opens[p]) : p \in Processes}
  BY DEF Range
<1>5. IsFiniteSet(UNION Range(f))
  BY <1>1, <1>3, <1>4, FS_UNION
<1> QED BY <1>4, <1>5 DEF Paths

\* A new file is none that anybody knows.
LEMMA NewFileFresh ==
  ASSUME SocketConfig, SockTypeOK
  PROVE  /\ NewFile \in Nat \ {0}
         /\ \A q \in Paths : NewFile # file[q] /\ NewFile # candidates[q]
         /\ \A p \in Processes, q \in Paths : NewFile \notin Mine(p, q)
<1> DEFINE Held1(p) == Range(bound[p]) \cup Range(identity[p])
<1>1. ASSUME NEW f \in [Paths -> Nat] PROVE IsFiniteSet(Range(f)) /\ \A q \in Paths : f[q] \in Range(f)
  <2>1. DOMAIN f = Paths
    OBVIOUS
  <2> QED BY <2>1, PathsFinite, FiniteRange DEF Range
<1>2. ASSUME NEW p \in Processes
      PROVE  IsFiniteSet(Held1(p)) /\ \A q \in Paths : Mine(p, q) \subseteq Held1(p)
  <2>1. bound[p] \in [Paths -> Nat] /\ identity[p] \in [Paths -> Nat]
    BY DEF SockTypeOK
  <2> QED BY <1>1, <2>1, FS_Union DEF Mine
<1>3. IsFiniteSet(UNION {Held1(p) : p \in Processes})
  <2> DEFINE f == [p \in Processes |-> Held1(p)]
  <2>1. IsFiniteSet(Processes)
    BY DEF SocketConfig
  <2>2. IsFiniteSet(Range(f))
    BY <2>1, FiniteRange
  <2>3. Range(f) = {Held1(p) : p \in Processes}
    BY DEF Range
  <2> HIDE DEF Held1
  <2> QED BY <1>2, <2>2, <2>3, FS_UNION
<1>4. IsFiniteSet(Range(file)) /\ IsFiniteSet(Range(candidates))
  BY <1>1 DEF SockTypeOK
<1>5. Remembered = Range(file) \cup Range(candidates) \cup UNION {Held1(p) : p \in Processes}
  BY DEF Remembered
<1> HIDE DEF Held1
<1>6. IsFiniteSet(Remembered)
  BY <1>3, <1>4, <1>5, FS_Union
<1>7. NewFile = Min((1..(Cardinality(Remembered) + 1)) \ Remembered)
  BY DEF NewFile, Min, Min, Cardinality, Cardinality
<1>8. NewFile \in Nat \ {0} /\ NewFile \notin Remembered
  BY <1>6, <1>7, FreshNumber
<1>9. \A q \in Paths : file[q] \in Remembered /\ candidates[q] \in Remembered
  BY <1>1, <1>5 DEF SockTypeOK
<1>10. \A p \in Processes, q \in Paths : Mine(p, q) \subseteq Remembered
  BY <1>2, <1>5
<1> QED BY <1>8, <1>9, <1>10

\* The path a process is at.
LEMMA PathOf ==
  ASSUME SocketConfig, SockTypeOK, NEW p \in Processes
  PROVE  Path(p) \in Paths /\ position[p] \in 1..Len(Opens[p]) /\ Len(Opens[p]) \in Nat
<1>1. Opens[p] \in Seq(Paths) /\ position[p] \in 1..Len(Opens[p])
  BY DEF SocketConfig, SockTypeOK
<1> QED BY <1>1 DEF Path

\* The invariant holds before any process runs.
LEMMA SockInitInv ==
  ASSUME SocketConfig, SocketInit PROVE SockInv
<1> USE DEF SocketInit, NoFiles
<1>1. SockTypeOK
  <2>1. \A p \in Processes : 1 \in 1..Len(Opens[p])
    BY DEF SocketConfig
  <2> QED BY <2>1 DEF SockTypeOK, Labels
<1>2. \A p \in Processes, q \in Paths : Mine(p, q) = {}
  BY DEF Mine
<1>3. Placed
  BY <1>2 DEF Placed, Reached, Stage
<1>4. Safe
  BY <1>2 DEF Safe, At, Apart, Stale, Doomed, Mine, SocketConfig
<1> QED BY <1>1, <1>3, <1>4 DEF SockInv


\* A step of one process.
Alone(p) ==
  /\ \A r \in Processes : r # p => /\ stage'[r] = stage[r] /\ position'[r] = position[r]
                                     /\ bound'[r] = bound[r] /\ identity'[r] = identity[r]
  /\ UNCHANGED <<check, candidates, overlap>>

\* A step of one process preserves it when its own part holds afterwards, its
\* new file is nobody's, and the others find theirs where they were.
LEMMA ProcessStep ==
  ASSUME SocketConfig, SockInv, NEW p \in Processes, Alone(p), SockTypeOK',
         Stage(p)', \A q \in Paths : Reached(p, q)',
         ~overlap =>
           /\ \A q \in Paths : At(p, q)'
           /\ \A q \in Paths : \A x \in Mine(p, q)' : x \in Mine(p, q) \/
                (x # candidates[q] /\ \A r \in Processes : x \notin Mine(r, q))
           /\ \A r \in Processes, q \in Paths : r # p => file'[q] = file[q] \/ At(r, q)'
           /\ check \in Paths => file'[check] = file[check]
  PROVE  SockInv'
<1> USE DEF SockInv
<1>1. \A r \in Processes : r # p =>
         stage'[r] = stage[r] /\ position'[r] = position[r] /\ Path(r)' = Path(r) /\ bound'[r] = bound[r] /\ identity'[r] = identity[r]
  BY DEF Alone, Path
<1>2. \A r \in Processes, q \in Paths : r # p => Mine(r, q)' = Mine(r, q)
  BY <1>1 DEF Mine
<1>3. Placed'
  <2>1. ASSUME NEW r \in Processes, r # p PROVE Stage(r)' /\ \A q \in Paths : Reached(r, q)'
    <3>1. Stage(r) /\ \A q \in Paths : Reached(r, q)
      BY DEF Placed
    <3>2. Stage(r)'
      BY <1>1, <2>1, <3>1 DEF Stage
    <3>3. \A q \in Paths : Reached(r, q)'
      BY <1>1, <1>2, <2>1, <3>1 DEF Reached
    <3> QED BY <3>2, <3>3
  <2> QED BY <2>1 DEF Placed
<1>4. ~overlap' => Safe'
  <2> SUFFICES ASSUME ~overlap PROVE Safe'
    BY DEF Alone
  <2>1. UNCHANGED <<check, candidates>>
    BY DEF Alone
  <2>2. ASSUME NEW r \in Processes, NEW q \in Paths PROVE At(r, q)' /\ Stale(r, q)'
    <3>1. At(r, q) /\ Stale(r, q)
      BY DEF Safe
    <3>2. CASE r = p
      BY <2>1, <3>1, <3>2 DEF Stale
    <3>3. CASE r # p
      <4>1. Stale(r, q)'
        BY <1>2, <2>1, <3>1, <3>3 DEF Stale
      <4>2. file'[q] = file[q] \/ At(r, q)'
        BY <3>3
      <4>3. At(r, q)'
        BY <1>1, <3>1, <3>3, <4>2 DEF At
      <4> QED BY <4>1, <4>3
    <3> QED BY <3>2, <3>3
  <2>3. ASSUME NEW r \in Processes, NEW s \in Processes, NEW q \in Paths PROVE Apart(r, s, q)'
    <3>1. Apart(r, s, q)
      BY DEF Safe
    <3>2. CASE r # p /\ s # p
      BY <1>2, <3>1, <3>2 DEF Apart
    <3>3. CASE r = p /\ s # p
      BY <1>2, <3>1, <3>3 DEF Apart
    <3>4. CASE r # p /\ s = p
      BY <1>2, <3>1, <3>4 DEF Apart
    <3> QED BY <3>2, <3>3, <3>4 DEF Apart
  <2>4. Doomed'
    BY <2>1 DEF Safe, Doomed
  <2> QED BY <2>2, <2>3, <2>4 DEF Safe
<1> QED BY <1>3, <1>4

\* A step that only moves a process.
LEMMA QuietProcess ==
  ASSUME SocketConfig, SockInv, NEW p \in Processes, NEW label \in Labels \ {"off", "bind", "identify"},
         Goto(p, label), stage[p] \notin {"off", "next"},
         label \in {"compare", "unlink", "next"} => bound[p][Path(p)] = 0,
         label = "unlink" => identity[p][Path(p)] # 0,
         UNCHANGED <<file, position, bound, identity, check, candidates, overlap>>
  PROVE  SockInv'
<1> USE DEF SockInv
<1>1. stage' = [stage EXCEPT ![p] = label] /\ stage' \in [Processes -> Labels] /\ stage'[p] = label
  BY DEF Goto, SockTypeOK
<1>2. Alone(p) /\ SockTypeOK'
  BY <1>1 DEF Alone, SockTypeOK
<1>3. Path(p)' = Path(p) /\ \A q \in Paths : Mine(p, q)' = Mine(p, q)
  BY DEF Path, Mine
<1>4. Stage(p)'
  BY <1>1, <1>3 DEF Stage
<1>5. ASSUME NEW q \in Paths PROVE Reached(p, q)'
  <2>1. Reached(p, q)
    BY DEF Placed
  <2> QED BY <1>1, <1>3, <2>1 DEF Reached
<1>6. ~overlap => \A q \in Paths : At(p, q)'
  BY <1>1, <1>3 DEF Safe, At
<1> QED
  BY <1>2, <1>3, <1>4, <1>5, <1>6, ProcessStep

\* A failed bind, a stop and the comparison of identities.
LEMMA SockQuiet ==
  ASSUME SocketConfig, SockInv, NEW p \in Processes, BindFails(p) \/ Stop(p) \/ Compare(p)
  PROVE  SockInv'
<1>1. CASE BindFails(p)
  BY <1>1, QuietProcess DEF BindFails, Labels
<1>2. CASE Stop(p)
  BY <1>2, QuietProcess DEF Stop, Labels
<1>3. CASE Compare(p)
  <2> DEFINE own == file[Path(p)] # 0 /\ file[Path(p)] = identity[p][Path(p)]
  <2> DEFINE label == IF own THEN "unlink" ELSE "next"
  <2>1. /\ stage[p] = "compare" /\ Goto(p, label)
        /\ UNCHANGED <<file, position, bound, identity, check, candidates, overlap>>
    BY <1>3 DEF Compare, CompareIf
  <2>2. bound[p][Path(p)] = 0
    BY <2>1 DEF SockInv, Placed, Stage
  <2>3. label \in {"unlink", "next"} /\ (label = "unlink" => identity[p][Path(p)] # 0)
    OBVIOUS
  <2> HIDE DEF label
  <2> QED BY <2>1, <2>2, <2>3, QuietProcess DEF Labels
<1> QED BY <1>1, <1>2, <1>3

\* A process starts.
LEMMA SockStart ==
  ASSUME SocketConfig, SockInv, NEW p \in Processes, StartProcess(p) PROVE SockInv'
<1> USE DEF SockInv
<1>1. /\ stage[p] = "off" /\ stage' = [stage EXCEPT ![p] = "bind"] /\ position' = [position EXCEPT ![p] = 1]
      /\ UNCHANGED <<file, bound, identity, check, candidates, overlap>>
  BY DEF StartProcess, Goto
<1>2. stage' \in [Processes -> Labels] /\ stage'[p] = "bind" /\ position' \in [Processes -> Nat] /\ position'[p] = 1
  BY <1>1 DEF SockTypeOK, Labels
<1>3. Alone(p)
  BY <1>1 DEF Alone, SockTypeOK
<1>4. SockTypeOK'
  BY <1>1, <1>2, <1>3, PathOf DEF SockTypeOK, Alone
<1>5. \A q \in Paths : Mine(p, q)' = {} /\ Mine(p, q) = {}
  BY <1>1 DEF Placed, Reached, Mine
<1>6. Stage(p)' /\ \A q \in Paths : Reached(p, q)'
  BY <1>2, <1>5 DEF Stage, Reached
<1>7. \A q \in Paths : At(p, q)'
  BY <1>5 DEF At, Mine
<1> QED
  BY <1>1, <1>3, <1>4, <1>5, <1>6, <1>7, ProcessStep

\* bind() makes a new file.
LEMMA SockBind ==
  ASSUME SocketConfig, SockInv, NEW p \in Processes, Bind(p) PROVE SockInv'
<1> DEFINE q0 == Path(p)
<1> DEFINE new == NewFile
<1> USE DEF SockInv
<1>1. /\ stage[p] = "bind" /\ file[q0] = 0 /\ stage' = [stage EXCEPT ![p] = "identify"]
      /\ file' = [file EXCEPT ![q0] = new] /\ bound' = [bound EXCEPT ![p][q0] = new]
      /\ UNCHANGED <<position, identity, check, candidates, overlap>>
  BY DEF Bind, Goto
<1>2. q0 \in Paths /\ position[p] \in 1..Len(Opens[p]) /\ q0 = Opens[p][position[p]]
  BY PathOf DEF Path
<1>3. /\ new \in Nat \ {0}
      /\ \A q \in Paths : new # file[q] /\ new # candidates[q]
      /\ \A r \in Processes, q \in Paths : new \notin Mine(r, q)
  BY NewFileFresh
<1>4. Path(p)' = q0
  BY <1>1 DEF Path
<1> HIDE DEF q0, new
<1>5. /\ stage' \in [Processes -> Labels] /\ stage'[p] = "identify"
      /\ file' \in [Paths -> Nat] /\ file'[q0] = new /\ \A q \in Paths : q # q0 => file'[q] = file[q]
      /\ bound' \in [Processes -> [Paths -> Nat]] /\ bound'[p][q0] = new
      /\ \A q \in Paths : q # q0 => bound'[p][q] = bound[p][q]
  <2>1. stage' \in [Processes -> Labels] /\ stage'[p] = "identify"
    BY <1>1 DEF SockTypeOK, Labels
  <2>2. file' \in [Paths -> Nat] /\ file'[q0] = new /\ \A q \in Paths : q # q0 => file'[q] = file[q]
    BY <1>1, <1>2, <1>3 DEF SockTypeOK
  <2>3. /\ bound' \in [Processes -> [Paths -> Nat]] /\ bound'[p][q0] = new
        /\ \A q \in Paths : q # q0 => bound'[p][q] = bound[p][q]
    BY <1>1, <1>2, <1>3 DEF SockTypeOK
  <2> QED BY <2>1, <2>2, <2>3
<1>6. Alone(p)
  BY <1>1 DEF Alone, SockTypeOK
<1>7. SockTypeOK'
  BY <1>1, <1>5 DEF SockTypeOK
<1>8. \A q \in Paths : q # q0 => Mine(p, q)' = Mine(p, q)
  BY <1>1, <1>5 DEF Mine
<1>9. \A q \in Paths : q = q0 => Mine(p, q)' \subseteq Mine(p, q) \cup {new}
  BY <1>1, <1>5 DEF Mine
<1>10. Stage(p)'
  BY <1>3, <1>4, <1>5 DEF Stage
<1>11. ASSUME NEW q \in Paths PROVE Reached(p, q)'
  <2>1. CASE q = q0
    BY <1>1, <1>2, <1>5, <2>1 DEF Reached, SockTypeOK
  <2>2. CASE q # q0
    <3>1. Reached(p, q)
      BY DEF Placed
    <3> QED BY <1>1, <1>5, <1>8, <2>2, <3>1 DEF Reached
  <2> QED BY <2>1, <2>2
<1>12. ASSUME ~overlap
       PROVE  /\ \A q \in Paths : At(p, q)'
              /\ \A r \in Processes, q \in Paths : r # p => file'[q] = file[q] \/ At(r, q)'
              /\ check \in Paths => file'[check] = file[check]
  <2>1. ASSUME NEW q \in Paths PROVE At(p, q)'
    <3>1. At(p, q)
      BY <1>12 DEF Safe
    <3>2. CASE q = q0
      BY <1>1, <1>5, <3>1, <3>2 DEF At
    <3>3. CASE q # q0
      BY <1>1, <1>5, <3>1, <3>3 DEF At
    <3> QED BY <3>2, <3>3
  <2>2. ASSUME NEW r \in Processes, NEW q \in Paths, r # p PROVE file'[q] = file[q] \/ At(r, q)'
    <3>1. CASE q # q0
      BY <1>5, <3>1
    <3>2. CASE q = q0
      <4>1. At(r, q0)
        BY <1>2, <1>12 DEF Safe
      <4>2. bound[r][q0] = 0 /\ (identity[r][q0] # 0 => stage[r] = "next" /\ Path(r) = q0)
        BY <1>1, <4>1 DEF At
      <4>3. bound'[r] = bound[r] /\ identity'[r] = identity[r] /\ stage'[r] = stage[r] /\ Path(r)' = Path(r)
        BY <1>6, <2>2 DEF Alone, Path
      <4> QED BY <3>2, <4>2, <4>3 DEF At
    <3> QED BY <3>1, <3>2
  <2>3. check \in Paths => file'[check] = file[check]
    BY <1>1, <1>5, <1>12 DEF Safe, Doomed
  <2> QED BY <2>1, <2>2, <2>3
<1>13. \A q \in Paths : \A x \in Mine(p, q)' : x \in Mine(p, q) \/
          (x # candidates[q] /\ \A r \in Processes : x \notin Mine(r, q))
  BY <1>3, <1>8, <1>9
<1> QED
  BY <1>6, <1>7, <1>10, <1>11, <1>12, <1>13, ProcessStep

\* The process remembers the identity of its file.
LEMMA SockIdentify ==
  ASSUME SocketConfig, SockInv, NEW p \in Processes, Identify(p) PROVE SockInv'
<1> DEFINE q0 == Path(p)
<1> USE DEF SockInv
<1>1. /\ stage[p] = "identify" /\ identity' = [identity EXCEPT ![p][q0] = file[q0]]
      /\ UNCHANGED <<file, bound, check, candidates, overlap>>
  BY DEF Identify
<1>2. q0 \in Paths /\ position[p] \in 1..Len(Opens[p]) /\ q0 = Opens[p][position[p]] /\ Len(Opens[p]) \in Nat
  BY PathOf DEF Path
<1>3. \/ stage' = [stage EXCEPT ![p] = "up"] /\ UNCHANGED position
      \/ /\ stage' = [stage EXCEPT ![p] = "bind"] /\ position' = [position EXCEPT ![p] = position[p] + 1]
         /\ position[p] # Len(Opens[p])
  BY DEF Identify, Goto
<1> HIDE DEF q0
<1>4. /\ stage' \in [Processes -> Labels] /\ position' \in [Processes -> Nat]
      /\ position'[p] \in 1..Len(Opens[p])
      /\ \/ stage'[p] = "up" /\ position'[p] = position[p]
         \/ stage'[p] = "bind" /\ position'[p] = position[p] + 1
  <2>1. CASE stage' = [stage EXCEPT ![p] = "up"] /\ UNCHANGED position
    BY <1>2, <2>1 DEF SockTypeOK, Labels
  <2>2. CASE /\ stage' = [stage EXCEPT ![p] = "bind"] /\ position' = [position EXCEPT ![p] = position[p] + 1]
             /\ position[p] # Len(Opens[p])
    <3>1. position \in [Processes -> Nat] /\ position[p] + 1 \in 1..Len(Opens[p])
      BY <1>2, <2>2 DEF SockTypeOK
    <3>2. stage' \in [Processes -> Labels] /\ stage'[p] = "bind"
      BY <2>2 DEF SockTypeOK, Labels
    <3> QED BY <2>2, <3>1, <3>2
  <2> QED BY <1>3, <2>1, <2>2
<1>5. /\ identity' \in [Processes -> [Paths -> Nat]] /\ identity'[p][q0] = file[q0]
      /\ \A q \in Paths : q # q0 => identity'[p][q] = identity[p][q]
  BY <1>1, <1>2 DEF SockTypeOK
<1>6. Alone(p)
  BY <1>1, <1>3 DEF Alone, SockTypeOK
<1>7. SockTypeOK'
  BY <1>1, <1>4, <1>5, <1>6 DEF SockTypeOK, Alone
<1>8. Stage(p)'
  BY <1>4 DEF Stage
<1>9. \A q \in Paths : q # q0 => Mine(p, q)' = Mine(p, q)
  BY <1>1, <1>5 DEF Mine
<1>10. ASSUME NEW q \in Paths PROVE Reached(p, q)'
  <2>0. position[p] \in Nat
    BY DEF SockTypeOK
  <2>1. CASE q = q0
    BY <1>2, <1>4, <2>0, <2>1 DEF Reached
  <2>2. CASE q # q0
    <3>1. Reached(p, q)
      BY DEF Placed
    <3>2. Mine(p, q) # {} => \E m \in 1..position[p] : Opens[p][m] = q
      BY <3>1 DEF Reached
    <3> QED BY <1>4, <1>9, <2>0, <2>2, <3>2 DEF Reached
  <2> QED BY <2>1, <2>2
<1>11. ASSUME ~overlap
       PROVE  /\ \A q \in Paths : At(p, q)'
              /\ \A q \in Paths : Mine(p, q)' \subseteq Mine(p, q)
  <2>1. file[q0] = bound[p][q0] /\ file[q0] # 0
    BY <1>1, <1>2, <1>11 DEF Safe, At, Placed, Stage, q0
  <2>2. \A q \in Paths : q = q0 => Mine(p, q)' \subseteq Mine(p, q)
    BY <1>1, <1>5, <2>1 DEF Mine
  <2>3. ASSUME NEW q \in Paths PROVE At(p, q)'
    <3>1. At(p, q)
      BY <1>11 DEF Safe
    <3>2. CASE q = q0
      BY <1>1, <1>5, <2>1, <3>2 DEF At
    <3>3. CASE q # q0
      BY <1>1, <1>5, <3>1, <3>3 DEF At
    <3> QED BY <3>2, <3>3
  <2> QED BY <1>9, <2>2, <2>3
<1> QED
  BY <1>1, <1>6, <1>7, <1>8, <1>10, <1>11, ProcessStep

\* The socket is closed; the file stays.
LEMMA SockClose ==
  ASSUME SocketConfig, SockInv, NEW p \in Processes, CloseSocket(p) PROVE SockInv'
<1> DEFINE q0 == Path(p)
<1> USE DEF SockInv
<1>1. /\ stage[p] = "close" /\ bound' = [bound EXCEPT ![p][q0] = 0] /\ stage' = [stage EXCEPT ![p] = "compare"]
      /\ UNCHANGED <<file, position, identity, check, candidates, overlap>>
  BY DEF CloseSocket, Goto
<1>2. q0 \in Paths
  BY PathOf
<1>3. Path(p)' = q0
  BY <1>1 DEF Path
<1> HIDE DEF q0
<1>4. stage' \in [Processes -> Labels] /\ stage'[p] = "compare"
  BY <1>1 DEF SockTypeOK, Labels
<1>5. /\ bound' \in [Processes -> [Paths -> Nat]] /\ bound'[p][q0] = 0
      /\ \A q \in Paths : q # q0 => bound'[p][q] = bound[p][q]
  BY <1>1, <1>2 DEF SockTypeOK
<1>6. Alone(p)
  BY <1>1 DEF Alone, SockTypeOK
<1>7. SockTypeOK'
  BY <1>1, <1>4, <1>5 DEF SockTypeOK
<1>8. Stage(p)'
  BY <1>3, <1>4, <1>5 DEF Stage
<1>9. \A q \in Paths : Mine(p, q)' \subseteq Mine(p, q)
  BY <1>1, <1>5 DEF Mine
<1>10. ASSUME NEW q \in Paths PROVE Reached(p, q)'
  <2>1. Reached(p, q)
    BY DEF Placed
  <2> QED BY <1>1, <1>4, <1>9, <2>1 DEF Reached
<1>11. ASSUME ~overlap, NEW q \in Paths PROVE At(p, q)'
  <2>1. At(p, q)
    BY <1>11 DEF Safe
  <2> QED BY <1>1, <1>5, <2>1 DEF At
<1> QED
  BY <1>1, <1>6, <1>7, <1>8, <1>9, <1>10, <1>11, ProcessStep

\* A process unlinks its own file only.
LEMMA SockUnlink ==
  ASSUME SocketConfig, SockInv, NEW p \in Processes, Unlink(p) PROVE SockInv'
<1> DEFINE q0 == Path(p)
<1> USE DEF SockInv
<1>1. /\ stage[p] = "unlink" /\ file' = [file EXCEPT ![q0] = 0] /\ stage' = [stage EXCEPT ![p] = "next"]
      /\ UNCHANGED <<position, bound, identity, check, candidates, overlap>>
  BY DEF Unlink, Goto
<1>2. q0 \in Paths /\ bound[p][q0] = 0 /\ identity[p][q0] # 0
  BY <1>1, PathOf DEF Placed, Stage
<1>3. Path(p)' = q0
  BY <1>1 DEF Path
<1> HIDE DEF q0
<1>4. stage' \in [Processes -> Labels] /\ stage'[p] = "next"
  BY <1>1 DEF SockTypeOK, Labels
<1>5. file' \in [Paths -> Nat] /\ file'[q0] = 0 /\ \A q \in Paths : q # q0 => file'[q] = file[q]
  BY <1>1, <1>2 DEF SockTypeOK
<1>6. Alone(p)
  BY <1>1 DEF Alone, SockTypeOK
<1>7. SockTypeOK'
  BY <1>1, <1>4, <1>5 DEF SockTypeOK
<1>8. Stage(p)'
  BY <1>1, <1>2, <1>3, <1>4 DEF Stage
<1>9. \A q \in Paths : Mine(p, q)' = Mine(p, q)
  BY <1>1 DEF Mine
<1>10. ASSUME NEW q \in Paths PROVE Reached(p, q)'
  <2>1. Reached(p, q)
    BY DEF Placed
  <2> QED BY <1>1, <1>4, <1>9, <2>1 DEF Reached
<1>11. ASSUME ~overlap
       PROVE  /\ \A q \in Paths : At(p, q)'
              /\ \A r \in Processes, q \in Paths : r # p => file'[q] = file[q] \/ At(r, q)'
              /\ check \in Paths => file'[check] = file[check]
  <2>1. file[q0] = identity[p][q0] /\ file[q0] \in Mine(p, q0)
    BY <1>1, <1>2, <1>11 DEF Safe, At, Mine
  <2>2. ASSUME NEW q \in Paths PROVE At(p, q)'
    <3>1. At(p, q)
      BY <1>11 DEF Safe
    <3>2. CASE q = q0
      BY <1>1, <1>2, <1>3, <1>4, <3>2 DEF At
    <3>3. CASE q # q0
      BY <1>1, <1>5, <3>1, <3>3 DEF At
    <3> QED BY <3>2, <3>3
  <2>3. ASSUME NEW r \in Processes, NEW q \in Paths, r # p PROVE file'[q] = file[q] \/ At(r, q)'
    <3>1. CASE q # q0
      BY <1>5, <3>1
    <3>2. CASE q = q0
      <4>1. At(r, q0) /\ Apart(p, r, q0)
        BY <1>2, <1>11 DEF Safe
      <4>2. bound[r][q0] # file[q0] /\ identity[r][q0] # file[q0]
        BY <1>2, <2>1, <2>3, <4>1 DEF Apart, Mine
      <4>3. bound[r][q0] = 0 /\ (identity[r][q0] # 0 => stage[r] = "next" /\ Path(r) = q0)
        BY <4>1, <4>2 DEF At
      <4>4. stage'[r] = stage[r] /\ Path(r)' = Path(r)
        BY <1>6, <2>3 DEF Alone, Path
      <4> QED BY <1>1, <3>2, <4>3, <4>4 DEF At
    <3> QED BY <3>1, <3>2
  <2>4. check \in Paths => file'[check] = file[check]
    <3> SUFFICES ASSUME check \in Paths PROVE check # q0
      BY <1>5
    <3>1. candidates[check] # 0 /\ file[check] = candidates[check] /\ check # "off"
      BY <1>11 DEF Safe, Doomed, SocketConfig
    <3>2. candidates[q0] \notin Mine(p, q0)
      BY <1>2, <1>11, <3>1 DEF Safe, Stale
    <3> QED BY <2>1, <3>1, <3>2
  <2> QED BY <2>2, <2>3, <2>4
<1> QED
  BY <1>6, <1>7, <1>8, <1>9, <1>10, <1>11, ProcessStep

\* On to the next socket, or the end.
LEMMA SockNextPath ==
  ASSUME SocketConfig, SockInv, NEW p \in Processes, NextPath(p) PROVE SockInv'
<1> DEFINE q0 == Path(p)
<1> USE DEF SockInv
<1>1. /\ stage[p] = "next" /\ identity' = [identity EXCEPT ![p][q0] = 0]
      /\ UNCHANGED <<file, bound, check, candidates, overlap>>
  BY DEF NextPath
<1>2. q0 \in Paths /\ position[p] \in 1..Len(Opens[p]) /\ q0 = Opens[p][position[p]] /\ bound[p][q0] = 0
  BY <1>1, PathOf DEF Path, Placed, Stage
<1>3. \/ stage' = [stage EXCEPT ![p] = "off"] /\ UNCHANGED position /\ position[p] = 1
      \/ /\ stage' = [stage EXCEPT ![p] = "close"] /\ position' = [position EXCEPT ![p] = position[p] - 1]
         /\ position[p] # 1
  BY DEF NextPath, Goto
<1> HIDE DEF q0
<1>4. /\ stage' \in [Processes -> Labels] /\ position' \in [Processes -> Nat]
      /\ position'[p] \in 1..Len(Opens[p])
      /\ \/ stage'[p] = "off" /\ position[p] = 1
         \/ stage'[p] = "close" /\ position'[p] = position[p] - 1
  <2>1. CASE stage' = [stage EXCEPT ![p] = "off"] /\ UNCHANGED position /\ position[p] = 1
    BY <1>2, <2>1 DEF SockTypeOK, Labels
  <2>2. CASE /\ stage' = [stage EXCEPT ![p] = "close"] /\ position' = [position EXCEPT ![p] = position[p] - 1]
             /\ position[p] # 1
    <3>1. position \in [Processes -> Nat] /\ position[p] - 1 \in 1..Len(Opens[p])
      BY <1>2, <2>2 DEF SockTypeOK
    <3>2. stage' \in [Processes -> Labels] /\ stage'[p] = "close"
      BY <2>2 DEF SockTypeOK, Labels
    <3> QED BY <2>2, <3>1, <3>2
  <2> QED BY <1>3, <2>1, <2>2
<1>5. /\ identity' \in [Processes -> [Paths -> Nat]] /\ identity'[p][q0] = 0
      /\ \A q \in Paths : q # q0 => identity'[p][q] = identity[p][q]
  BY <1>1, <1>2 DEF SockTypeOK
<1>6. Alone(p)
  BY <1>1, <1>3 DEF Alone, SockTypeOK
<1>7. SockTypeOK'
  BY <1>1, <1>4, <1>5, <1>6 DEF SockTypeOK, Alone
<1>8. Stage(p)'
  BY <1>4 DEF Stage
<1>9. \A q \in Paths : Mine(p, q)' \subseteq Mine(p, q) /\ (q = q0 => Mine(p, q)' = {})
  BY <1>1, <1>2, <1>5 DEF Mine
<1>10. ASSUME NEW q \in Paths PROVE Reached(p, q)'
  <2> SUFFICES ASSUME q # q0, Mine(p, q) # {} PROVE Reached(p, q)'
    BY <1>9 DEF Reached
  <2>1. PICK m \in 1..position[p] : Opens[p][m] = q
    BY DEF Placed, Reached
  <2>2. m # position[p] /\ position[p] \in Nat
    BY <1>2, <2>1 DEF SockTypeOK
  <2>3. position[p] # 1 /\ m \in 1..(position[p] - 1)
    BY <2>1, <2>2
  <2> QED BY <1>4, <2>1, <2>3 DEF Reached
<1>11. ASSUME ~overlap, NEW q \in Paths PROVE At(p, q)'
  <2>1. At(p, q)
    BY <1>11 DEF Safe
  <2>2. q # q0 => ~(Path(p) = q)
    BY DEF q0
  <2> QED BY <1>1, <1>2, <1>5, <2>1, <2>2 DEF At
<1> QED
  BY <1>1, <1>6, <1>7, <1>8, <1>9, <1>10, <1>11, ProcessStep

\* A killed process leaves its files behind.
LEMMA SockKilled ==
  ASSUME SocketConfig, SockInv, NEW p \in Processes, Killed(p) PROVE SockInv'
<1> USE DEF SockInv
<1>1. /\ stage' = [stage EXCEPT ![p] = "off"]
      /\ bound' = [bound EXCEPT ![p] = NoFiles] /\ identity' = [identity EXCEPT ![p] = NoFiles]
      /\ UNCHANGED <<file, position, check, candidates, overlap>>
  BY DEF Killed, Goto
<1>2. NoFiles \in [Paths -> Nat] /\ \A q \in Paths : NoFiles[q] = 0
  BY DEF NoFiles
<1>3. stage' \in [Processes -> Labels] /\ stage'[p] = "off"
  BY <1>1 DEF SockTypeOK, Labels
<1>4. /\ bound' \in [Processes -> [Paths -> Nat]] /\ bound'[p] = NoFiles
      /\ identity' \in [Processes -> [Paths -> Nat]] /\ identity'[p] = NoFiles
  BY <1>1, <1>2 DEF SockTypeOK
<1>5. Alone(p)
  BY <1>1 DEF Alone, SockTypeOK
<1>6. SockTypeOK'
  BY <1>1, <1>3, <1>4 DEF SockTypeOK
<1>7. \A q \in Paths : Mine(p, q)' = {}
  BY <1>2, <1>4 DEF Mine
<1>8. Stage(p)' /\ \A q \in Paths : Reached(p, q)' /\ At(p, q)'
  BY <1>2, <1>3, <1>4, <1>7 DEF Stage, Reached, At
<1> QED
  BY <1>1, <1>5, <1>6, <1>7, <1>8, ProcessStep

\* The preflight moves no process.
LEMMA PreflightStep ==
  ASSUME SockInv, UNCHANGED <<stage, position, bound, identity>>,
         SockTypeOK', ~overlap' => Safe'
  PROVE  SockInv'
<1>1. \A p \in Processes : Stage(p)' /\ \A q \in Paths : Reached(p, q)'
  <2>1. \A p \in Processes : Path(p)' = Path(p) /\ \A q \in Paths : Mine(p, q)' = Mine(p, q)
    BY DEF Path, Mine
  <2> QED BY <2>1 DEF SockInv, Placed, Stage, Reached
<1> QED BY <1>1 DEF SockInv, Placed

\* The preflight notes the files at the paths.
LEMMA SockScan ==
  ASSUME SocketConfig, SockInv, Scan PROVE SockInv'
<1> USE DEF SockInv, Scan, procVars
<1>1. SockTypeOK'
  BY DEF SockTypeOK
<1>2. ASSUME ~overlap' PROVE Safe'
  <2>1. ~overlap /\ \A p \in Processes : stage[p] = "off"
    BY <1>2 DEF AtWork, SockTypeOK
  <2>2. \A p \in Processes, q \in Paths : Mine(p, q)' = {}
    BY <2>1 DEF Placed, Reached, Mine
  <2>3. \A p \in Processes, q \in Paths : At(p, q)' /\ Stale(p, q)'
    BY <2>2 DEF At, Stale, Mine
  <2>4. \A p, r \in Processes, q \in Paths : Apart(p, r, q)'
    BY <2>2 DEF Apart
  <2>5. Doomed'
    BY DEF Doomed, SocketConfig
  <2> QED BY <2>3, <2>4, <2>5 DEF Safe
<1> QED BY <1>1, <1>2, PreflightStep

\* The preflight's checks change no file.
LEMMA SockCheck ==
  ASSUME SocketConfig, SockInv, CheckActive \/ (\E q \in Paths : Recheck(q)) \/ Prepared
  PROVE  SockInv'
<1> USE DEF SockInv
<1>1. /\ UNCHANGED <<file, stage, position, bound, identity, candidates, overlap>>
      /\ check # "off"
      /\ \/ check' \in {"off", "remove"}
         \/ check' \in Paths /\ candidates[check'] # 0 /\ file[check'] = candidates[check']
  BY DEF CheckActive, Recheck, Prepared, procVars
<1>2. SockTypeOK'
  BY <1>1 DEF SockTypeOK
<1>3. ASSUME ~overlap' PROVE Safe'
  <2>1. Safe
    BY <1>1, <1>3
  <2>2. \A p \in Processes, q \in Paths : Mine(p, q)' = Mine(p, q) /\ Path(p)' = Path(p)
    BY <1>1 DEF Mine, Path
  <2>3. \A p \in Processes, q \in Paths : At(p, q)' /\ Stale(p, q)'
    BY <1>1, <2>1, <2>2 DEF Safe, At, Stale
  <2>4. \A p, r \in Processes, q \in Paths : Apart(p, r, q)'
    BY <2>1, <2>2 DEF Safe, Apart
  <2>5. Doomed'
    BY <1>1 DEF Doomed, SocketConfig
  <2> QED BY <2>3, <2>4, <2>5 DEF Safe
<1> QED BY <1>1, <1>2, <1>3, PreflightStep

\* The preflight removes a file that is nobody's.
LEMMA SockRemove ==
  ASSUME SocketConfig, SockInv, RemoveFile PROVE SockInv'
<1> USE DEF SockInv
<1>1. /\ check \in Paths /\ file' = [file EXCEPT ![check] = 0] /\ candidates' = [candidates EXCEPT ![check] = 0]
      /\ check' \in {"off", "remove"} /\ UNCHANGED <<stage, position, bound, identity, overlap>>
  BY DEF RemoveFile, procVars
<1>2. /\ file' \in [Paths -> Nat] /\ candidates' \in [Paths -> Nat]
      /\ \A q \in Paths : IF q = check THEN file'[q] = 0 /\ candidates'[q] = 0
                                         ELSE file'[q] = file[q] /\ candidates'[q] = candidates[q]
  BY <1>1 DEF SockTypeOK
<1>3. SockTypeOK'
  BY <1>1, <1>2 DEF SockTypeOK
<1>4. ASSUME ~overlap' PROVE Safe'
  <2>1. Safe /\ check # "off"
    BY <1>1, <1>4 DEF SocketConfig
  <2>2. \A p \in Processes, q \in Paths : Mine(p, q)' = Mine(p, q) /\ Path(p)' = Path(p)
    BY <1>1 DEF Mine, Path
  <2>3. ASSUME NEW p \in Processes, NEW q \in Paths PROVE At(p, q)' /\ Stale(p, q)'
    <3>1. At(p, q) /\ Stale(p, q)
      BY <2>1 DEF Safe
    <3>2. Stale(p, q)'
      BY <1>2, <2>1, <2>2, <3>1 DEF Stale, Mine
    <3>3. CASE q # check
      BY <1>1, <1>2, <2>2, <3>1, <3>2, <3>3 DEF At
    <3>4. CASE q = check
      <4>1. file[q] \notin Mine(p, q) /\ file[q] # 0
        BY <1>1, <2>1, <3>1, <3>4 DEF Safe, Doomed, Stale
      <4>2. bound[p][q] # file[q] /\ identity[p][q] # file[q]
        BY <4>1 DEF Mine
      <4> QED BY <1>1, <2>2, <3>1, <3>2, <4>2 DEF At
    <3> QED BY <3>3, <3>4
  <2>4. \A p, r \in Processes, q \in Paths : Apart(p, r, q)'
    BY <2>1, <2>2 DEF Safe, Apart
  <2>5. Doomed'
    BY <1>1 DEF Doomed, SocketConfig
  <2> QED BY <2>3, <2>4, <2>5 DEF Safe
<1> QED BY <1>1, <1>3, <1>4, PreflightStep

\* Every step preserves the invariant.
LEMMA SockNext ==
  ASSUME SocketConfig, SockInv, [SocketNext]_socketVars PROVE SockInv'
<1>1. CASE UNCHANGED socketVars
  <2>1. UNCHANGED <<file, stage, position, bound, identity, check, candidates, overlap>>
    BY <1>1 DEF socketVars, procVars
  <2>2. SockTypeOK'
    BY <2>1 DEF SockInv, SockTypeOK
  <2>3. \A p \in Processes, q \in Paths : Mine(p, q)' = Mine(p, q) /\ Path(p)' = Path(p)
    BY <2>1 DEF Mine, Path
  <2>4. ~overlap' => Safe'
    BY <2>1, <2>3 DEF SockInv, Safe, At, Stale, Apart, Doomed
  <2> QED BY <2>1, <2>2, <2>4, PreflightStep
<1>2. CASE Preflight
  BY <1>2, SockScan, SockCheck, SockRemove DEF Preflight
<1>3. CASE \E p \in Processes : StartProcess(p) \/ Stop(p) \/ Killed(p) \/ Process(p)
  BY <1>3, SockStart, SockQuiet, SockKilled, SockBind, SockIdentify, SockClose, SockUnlink, SockNextPath
     DEF Process
<1> QED
  BY <1>1, <1>2, <1>3 DEF SocketNext

\* For every number of processes and every list of sockets each opens: a socket
\* that a process has bound is reached at its path until the process closes it,
\* whoever failed to open, was killed or came late before, as long as no
\* preflight began while a process was at work.
THEOREM SocketsReachable == SocketSpec => []Reachable
<1>1. SocketInit => SockInv
  BY SockInitInv, SocketAssumption
<1>2. SockInv /\ [SocketNext]_socketVars => SockInv'
  BY SockNext, SocketAssumption
<1>3. SockInv => Reachable
  BY DEF SockInv, Safe, At, Reachable
<1> QED
  BY <1>1, <1>2, <1>3, PTL DEF SocketSpec

=============================================================================
