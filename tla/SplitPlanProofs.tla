--------------------------- MODULE SplitPlanProofs ---------------------------
(***************************************************************************)
(* What SplitPlan promises for any number of jobs and of targets, and for  *)
(* every order in which a job may discover them.                           *)
(***************************************************************************)
EXTENDS SplitPlan, FiniteSetTheorems, TLAPS

-----------------------------------------------------------------------------
(* Sizes. *)

LEMMA ProcessesDiffer == Planner \notin Jobs /\ Jobs \subseteq Nat
  BY SplitPlanAssumption DEF SplitPlanAssumption, Planner, Jobs

\* The values of a configuration.
LEMMA ConfigType ==
  ASSUME TypeOK
  PROVE  /\ cfg.mode \in Modes
         /\ cfg.maxParallelism \in Int /\ cfg.maxParallelism <= MaxJobs
         /\ cfg.parallelism \in Int /\ cfg.parallelism <= MaxJobs
         /\ cfg.mode = "static" => cfg.parallelism >= 1 /\ cfg.maxParallelism = 0
         /\ MaxJobs \in Nat /\ NumTargets \in Nat
  <1>1. cfg \in Config
    BY SplitPlanAssumption DEF TypeOK, SplitPlanAssumption
  <1> QED
    BY <1>1, SplitPlanAssumption DEF TypeOK, SplitPlanAssumption, Config

Sized ==
  /\ Allowed \subseteq 1 .. MaxJobs
  /\ fallbackParallelism \in Allowed
  /\ cfg.maxParallelism > 0 => fallbackParallelism = cfg.maxParallelism

\* A valid configuration asks for at least one task.
LEMMA SizedPlanner ==
  ASSUME TypeOK, PlanIsValid \/ cfg.mode = "static"
  PROVE  Sized
  BY ConfigType DEF Sized, PlanIsValid, Allowed, fallbackParallelism

\* The number of jobs is one that the server may plan for, or has.
LEMMA SizedJobs ==
  ASSUME PlanInv, NEW n \in Jobs, HasStarted(n)
  PROVE  /\ Sized
         /\ jobs \in 1 .. MaxJobs
         /\ n < jobs
         /\ jobs \in Allowed
         /\ jobs = fallbackParallelism \/ (stored \notin {NoPlan, ErrorPlan} /\ jobs = stored.tasks)
         /\ cfg.mode # "static" /\ jobs # stored.tasks =>
              got[Planner] = PlannerFallback
         /\ cfg.mode = "static" => Allowed = {jobs}
  <1> USE DEF PlanInv, HasStarted
  <1>1. n \in Nat /\ n < jobs /\ jobs \in Int /\ jobs <= MaxJobs /\ MaxJobs \in Nat
    BY ProcessesDiffer, ConfigType DEF TypeOK, None
  <1>2. CASE cfg.mode = "static"
    <2>1. jobs = cfg.parallelism /\ jobs = fallbackParallelism /\ Allowed = {jobs}
      BY <1>2, ConfigType DEF InOrder, fallbackParallelism, Allowed
    <2> QED
      BY <1>1, <1>2, <2>1, SizedPlanner
  <1>3. CASE cfg.mode # "static"
    <2>1. pc[Planner] = "done" /\ cfg.mode # "planout" /\ jobs = got[Planner].tasks
      BY <1>1, <1>3 DEF InOrder, None
    <2>2. HasPlan(Planner)
      BY <1>3, <2>1 DEF Provenance, Processes
    <2>3. Sized
      BY <2>2, SizedPlanner DEF InOrder
    <2>4. got[Planner] = PlannerFallback \/ (got[Planner] = stored /\ stored \notin {NoPlan, ErrorPlan})
      BY <2>1, <2>2 DEF Provenance, Processes, LocalPlan, HasPlan
    <2>5. PlannerFallback.tasks = fallbackParallelism
      BY DEF PlannerFallback
    <2>6. jobs \in Allowed
      BY <2>1, <2>3, <2>4, <2>5 DEF Sized, ServersPlan
    <2> QED
      BY <1>1, <1>3, <2>1, <2>3, <2>4, <2>5, <2>6
  <1> QED
    BY <1>2, <1>3

-----------------------------------------------------------------------------
(* Plans. *)

LEMMA ModuloRange ==
  ASSUME NEW t \in Nat, NEW k \in Nat \ {0}
  PROVE  t % k \in 0 .. k - 1
  OBVIOUS

\* What a process falls back to is a plan of its own with a task in it; a job's has a task
\* for it.
LEMMA LocalPlanType ==
  ASSUME PlanInv, NEW p \in Processes,
         p = Planner => PlanIsValid,
         p # Planner => HasStarted(p)
  PROVE  /\ WellFormed(LocalPlan(p))
         /\ LocalPlan(p).tasks \in 1 .. MaxJobs
         /\ LocalPlan(p).fallback
         /\ LocalPlan(p) # NoPlan
         /\ p < LocalPlan(p).tasks
  <1> USE DEF PlanInv
  <1>1. CASE p = Planner
    <2>1. fallbackParallelism \in 1 .. MaxJobs
      BY <1>1, SizedPlanner DEF Sized
    <2>2. LocalPlan(p) = [tasks |-> fallbackParallelism, owner |-> Nobody, fallback |-> TRUE]
      BY <1>1 DEF LocalPlan, PlannerFallback
    <2>3. WellFormed(LocalPlan(p))
      BY <2>1, <2>2, ConfigType DEF WellFormed, Plan, Nobody, None
    <2> QED
      BY <1>1, <2>1, <2>2, <2>3, ConfigType DEF NoPlan, None, Planner
  <1>2. CASE p # Planner
    <2>1. p \in Jobs /\ jobs \in 1 .. MaxJobs /\ p < jobs
      BY <1>2, SizedJobs DEF Processes
    <2>2. LocalPlan(p) = [tasks |-> jobs, owner |-> [t \in Targets |-> t % jobs], fallback |-> TRUE]
      BY <1>2 DEF LocalPlan, FallbackPlan, FallbackOwner
    <2>3. Targets \subseteq Nat /\ MaxJobs \in Nat
      BY ConfigType DEF Targets
    <2>4. \A t \in Targets : t % jobs \in 0 .. jobs - 1
      BY <2>1, <2>3, ModuloRange
    <2>5. WellFormed(LocalPlan(p))
      BY <2>1, <2>2, <2>3, <2>4 DEF WellFormed, Plan
    <2> QED
      BY <2>1, <2>2, <2>3, <2>5 DEF NoPlan, None
  <1> QED
    BY <1>1, <1>2

LEMMA EmptyPlans == WellFormed(NoPlan) /\ WellFormed(ErrorPlan)
  <1>1. WellFormed(NoPlan)
    BY DEF WellFormed, NoPlan, Nobody, Plan, None
  <1>2. WellFormed(ErrorPlan)
    BY DEF WellFormed, ErrorPlan, Nobody, Plan, None
  <1> QED
    BY <1>1, <1>2

\* The server's plan, once there is one.
LEMMA StoredType ==
  ASSUME PlanInv
  PROVE  /\ WellFormed(stored)
         /\ stored \in {NoPlan, ErrorPlan} => stored.owner = Nobody
         /\ stored = ErrorPlan => stored.tasks = 0
         /\ stored = NoPlan => stored.tasks = None
  BY DEF PlanInv, TypeOK, WellFormed, NoPlan, ErrorPlan

-----------------------------------------------------------------------------
(* PlanInv is inductive. *)

\* What depends on the configuration and the number of jobs only.
LEMMA SameBuild ==
  ASSUME UNCHANGED <<cfg, jobs>>
  PROVE  /\ PlanIsValid' <=> PlanIsValid
         /\ Allowed' = Allowed
         /\ \A q : LocalPlan(q)' = LocalPlan(q)
         /\ \A q : HasStarted(q)' <=> HasStarted(q)
  BY DEF PlanIsValid, Allowed, LocalPlan, PlannerFallback, fallbackParallelism, FallbackPlan,
     FallbackOwner, HasStarted

\* A process that has come by a plan: its own, or the one the server has stored.
LEMMA EnterKeeps ==
  ASSUME PlanInv, NEW p \in Processes,
         p = Planner => pc[p] \in {"params", "create"},
         p # Planner => pc[p] \in {"fetch", "params", "create"},
         NEW plan,
         \/ plan = LocalPlan(p)
         \/ plan = stored /\ stored # NoPlan /\ (stored = ErrorPlan => p = Planner /\ cfg.mode = "planout"),
         Enter(p, plan), reached' \in BOOLEAN,
         UNCHANGED <<cfg, listed, asked, server, jobs>>
  PROVE  PlanInv'
  <1> USE DEF PlanInv
  <1>1. p = Planner => PlanIsValid /\ cfg.mode # "static"
    BY DEF InOrder
  <1>2. p # Planner => p \in Jobs /\ HasStarted(p)
    BY DEF InOrder, Processes
  <1>3. plan \in Plan /\ plan # NoPlan /\ (plan.fallback => plan.tasks > 0)
    <2>1. CASE plan = LocalPlan(p)
      BY <1>1, <1>2, <2>1, LocalPlanType, ConfigType DEF WellFormed
    <2>2. CASE plan = stored /\ stored # NoPlan
      <3>1. ~stored.fallback
        BY <2>2 DEF ServersPlan, ErrorPlan
      <3> QED
        BY <2>2, <3>1, StoredType DEF WellFormed
    <2> QED
      BY <2>1, <2>2
  <1>4. WellFormed(plan)
    <2>1. CASE plan = LocalPlan(p)
      BY <1>1, <1>2, <2>1, LocalPlanType
    <2>2. CASE plan = stored
      BY <2>2, StoredType
    <2> QED
      BY <2>1, <2>2
  <1>5. /\ got' = [got EXCEPT ![p] = plan]
        /\ \E step \in After(p, plan) : pc' = [pc EXCEPT ![p] = step]
    BY DEF Enter
  <1>6. PICK step \in After(p, plan) : pc' = [pc EXCEPT ![p] = step]
    BY <1>5
  <1>7. /\ p = Planner => step = "emit"
        /\ p # Planner => step \in {"running", "crashed", "failed"}
        /\ step = "running" => p < plan.tasks
        /\ step = "crashed" => p >= plan.tasks
    <2>1. CASE p = Planner
      BY <1>6, <2>1 DEF After
    <2>2. CASE p # Planner
      <3>0. p \in Jobs
        BY <1>2, <2>2
      <3>1. p \in Int
        BY <3>0, SplitPlanAssumption DEF Jobs, SplitPlanAssumption
      <3>3. plan.tasks \in Int
        BY <1>3 DEF Plan
      <3>2. After(p, plan) = IF p >= plan.tasks THEN {"crashed"}
                             ELSE IF plan.fallback THEN {"running"} ELSE {"running", "failed"}
        BY <2>2 DEF After
      <3> QED
        BY <1>6, <2>2, <3>1, <3>2, <3>3
    <2> QED
      BY <2>1, <2>2
  <1>8. got'[p] = plan /\ pc'[p] = step
        /\ \A q \in Processes \ {p} : got'[q] = got[q] /\ pc'[q] = pc[q]
    BY <1>5, <1>6 DEF TypeOK
  <1>9. TypeOK'
    <2>1. pc' \in [Processes -> PlannerSteps \cup JobSteps]
      BY <1>6, <1>7 DEF TypeOK, PlannerSteps, JobSteps
    <2>2. got' \in [Processes -> Plan] /\ \A q \in Processes : WellFormed(got'[q])
      BY <1>3, <1>4, <1>5, <1>8 DEF TypeOK
    <2> QED
      BY <2>1, <2>2 DEF TypeOK, server, WellFormed
  <1>10. FallbackRunsSomething'
    BY <1>3, <1>8, ProcessesDiffer DEF FallbackRunsSomething, Processes
  <1>11. InOrder'
    BY <1>1, <1>2, <1>7, <1>8, SameBuild, ProcessesDiffer DEF InOrder, HasPlan, Processes
  <1>12. ServersPlan'
    BY SameBuild DEF ServersPlan, server
  <1>13. Provenance'
    BY <1>3, <1>7, <1>8, SameBuild DEF Provenance, HasPlan, server
  <1> QED
    BY <1>9, <1>10, <1>11, <1>12, <1>13

\* A process that ends without a plan, or whose end leaves the one it had unused.
LEMMA FailureKeeps ==
  ASSUME PlanInv, NEW p \in Processes,
         p = Planner => pc[p] # "done",
         p # Planner => HasStarted(p),
         pc' = [pc EXCEPT ![p] = "failed"], reached' \in BOOLEAN,
         UNCHANGED <<cfg, listed, got, asked, server, jobs>>
  PROVE  PlanInv'
  <1> USE DEF PlanInv
  <1>1. pc'[p] = "failed" /\ \A q \in Processes \ {p} : pc'[q] = pc[q]
    BY DEF TypeOK
  <1>2. TypeOK'
    BY DEF TypeOK, server, WellFormed, PlannerSteps
  <1>3. FallbackRunsSomething'
    BY DEF FallbackRunsSomething
  <1>4. InOrder'
    BY <1>1, SameBuild, ProcessesDiffer DEF InOrder, HasPlan, Processes
  <1>5. ServersPlan'
    BY SameBuild DEF ServersPlan, server
  <1>6. Provenance'
    BY <1>1, SameBuild DEF Provenance, HasPlan, server
  <1> QED
    BY <1>2, <1>3, <1>4, <1>5, <1>6

\* A process that goes on to its next call.
LEMMA StepKeeps ==
  ASSUME PlanInv, NEW p \in Processes, NEW step \in {"fetch", "params", "create"},
         p = Planner => cfg.mode # "static" /\ PlanIsValid /\ pc[p] # "done" /\ step # "fetch",
         p # Planner => HasStarted(p),
         pc' = [pc EXCEPT ![p] = step],
         asked' \in {asked, asked \cup {p}},
         UNCHANGED <<cfg, listed, got, server, jobs, reached>>
  PROVE  PlanInv'
  <1> USE DEF PlanInv
  <1>1. pc'[p] = step /\ \A q \in Processes \ {p} : pc'[q] = pc[q]
    BY DEF TypeOK
  <1>2. TypeOK'
    BY DEF TypeOK, server, WellFormed, PlannerSteps, JobSteps
  <1>3. FallbackRunsSomething'
    BY DEF FallbackRunsSomething
  <1>4. InOrder'
    BY <1>1, SameBuild, ProcessesDiffer DEF InOrder, HasPlan, Processes
  <1>5. ServersPlan'
    BY SameBuild DEF ServersPlan, server
  <1>6. Provenance'
    BY <1>1, SameBuild DEF Provenance, HasPlan, server
  <1> QED
    BY <1>2, <1>3, <1>4, <1>5, <1>6

LEMMA InitPlan == Init => PlanInv
  <1> SUFFICES ASSUME Init PROVE PlanInv
    OBVIOUS
  <1>1. cfg \in Config /\ (cfg.mode = "static" => cfg.parallelism >= 1) /\ cfg.parallelism <= MaxJobs
        /\ MaxJobs \in Nat /\ jobs \in None .. MaxJobs
    BY SplitPlanAssumption DEF Init, SplitPlanAssumption, Config, None
  <1>2. pc[Planner] = (IF cfg.mode = "static" THEN "done" ELSE "validate")
        /\ \A n \in Jobs : pc[n] = "waiting"
    BY ProcessesDiffer DEF Init, Processes
  <1>3. \A p \in Processes : ~HasPlan(p) /\ got[p].fallback = FALSE
    BY DEF Init, HasPlan, NoPlan
  <1>5. TypeOK
    <2>1. pc \in [Processes -> PlannerSteps \cup JobSteps]
      BY DEF Init, PlannerSteps, JobSteps
    <2>2. got \in [Processes -> Plan]
      BY EmptyPlans DEF Init, WellFormed
    <2> QED
      BY <1>1, EmptyPlans, <2>1, <2>2 DEF Init, TypeOK
  <1>6. FallbackRunsSomething
    BY <1>3 DEF FallbackRunsSomething, Processes
  <1>7. InOrder
    BY <1>2, <1>3, ProcessesDiffer DEF InOrder, Init, Processes
  <1>8. ServersPlan
    BY DEF Init, ServersPlan
  <1>9. Provenance
    BY <1>2, <1>3 DEF Provenance, Processes
  <1> QED
    BY <1>5, <1>6, <1>7, <1>8, <1>9 DEF PlanInv

\* The pipeline is made once, before any job.
LEMMA EmitKeeps == PlanInv /\ Emit => PlanInv'
  <1> SUFFICES ASSUME PlanInv, Emit PROVE PlanInv'
    OBVIOUS
  <1> USE DEF PlanInv
  <1> DEFINE size == IF cfg.mode = "planout" THEN 0 ELSE got[Planner].tasks
  <1>1. /\ pc[Planner] = "emit" /\ jobs' = size
        /\ pc' = [pc EXCEPT ![Planner] = "done"]
        /\ UNCHANGED <<cfg, listed, got, asked, server, reached>>
    BY DEF Emit
  <1>2. cfg.mode # "static" /\ PlanIsValid /\ HasPlan(Planner) /\ jobs = None
    BY <1>1 DEF InOrder, Provenance, Processes
  <1>3. \A n \in Jobs : ~HasStarted(n)
    BY <1>2, ProcessesDiffer DEF HasStarted, None
  <1>4. \A n \in Jobs : pc[n] = "waiting" /\ ~HasPlan(n) /\ n \notin asked
    BY <1>3 DEF InOrder
  <1>5. size \in 0 .. MaxJobs
    <2>1. CASE cfg.mode = "planout"
      BY <2>1, ConfigType
    <2>2. CASE cfg.mode # "planout"
      <3>1. got[Planner] = PlannerFallback \/ (got[Planner] = stored /\ stored \notin {NoPlan, ErrorPlan})
        BY <1>2, <2>2 DEF Provenance, Processes, LocalPlan, HasPlan
      <3>2. Sized
        BY <1>2, SizedPlanner
      <3>3. got[Planner].tasks \in Allowed
        BY <3>1, <3>2 DEF Sized, PlannerFallback, ServersPlan
      <3>4. got[Planner].tasks \in 1 .. MaxJobs
        BY <3>2, <3>3 DEF Sized
      <3>5. size = got[Planner].tasks
        BY <2>2
      <3> QED
        BY <3>4, <3>5, ConfigType
    <2> QED
      BY <2>1, <2>2
  <1>6. pc'[Planner] = "done" /\ \A n \in Jobs : pc'[n] = "waiting"
    BY <1>1, <1>4, ProcessesDiffer DEF TypeOK, Processes
  <1>7. TypeOK'
    <2>1. pc' \in [Processes -> PlannerSteps \cup JobSteps]
      BY <1>1 DEF TypeOK, PlannerSteps
    <2>2. jobs' \in None .. MaxJobs
      BY <1>1, <1>5 DEF None
    <2> QED
      BY <1>1, <2>1, <2>2 DEF TypeOK, server, WellFormed
  <1>8. FallbackRunsSomething'
    BY <1>1 DEF FallbackRunsSomething
  <1>9. InOrder'
    BY <1>1, <1>2, <1>4, <1>6 DEF InOrder, HasPlan, PlanIsValid
  <1>10. ServersPlan'
    BY <1>1 DEF ServersPlan, server, Allowed
  <1>11. Provenance'
    <2>1. LocalPlan(Planner)' = LocalPlan(Planner)
      BY <1>1 DEF LocalPlan, PlannerFallback, fallbackParallelism
    <2> QED
      BY <1>1, <1>2, <1>4, <1>6, <2>1 DEF Provenance, HasPlan, server, Processes
  <1> QED
    BY <1>7, <1>8, <1>9, <1>10, <1>11

\* The server starts on the first request, of a size that the build allows.
LEMMA StartKeeps ==
  ASSUME PlanInv, NEW p \in Processes, ServerStarts(p)
  PROVE  PlanInv'
  <1> USE DEF PlanInv, ServerStarts
  <1>1. Sizes(p) \subseteq Allowed /\ Sizes(p) \subseteq 1 .. MaxJobs
    <2>1. CASE p = Planner
      <3>1. Sized
        BY <2>1, SizedPlanner DEF InOrder
      <3> QED
        BY <2>1, <3>1 DEF Sizes, Sized
    <2>2. CASE p # Planner
      <3>1. p \in Jobs /\ HasStarted(p)
        BY <2>2 DEF InOrder, Processes
      <3> QED
        BY <2>2, <3>1, SizedJobs DEF Sizes
    <2> QED
      BY <2>1, <2>2
  <1>2. TypeOK'
    BY <1>1 DEF TypeOK, WellFormed
  <1>3. FallbackRunsSomething'
    BY DEF FallbackRunsSomething
  <1>4. InOrder'
    BY SameBuild DEF InOrder, HasPlan
  <1>5. ServersPlan'
    BY <1>1, SameBuild DEF ServersPlan
  <1>6. Provenance'
    BY SameBuild DEF Provenance, HasPlan
  <1> QED
    BY <1>2, <1>3, <1>4, <1>5, <1>6

\* What it stores is of that size, and replaces nothing anybody has.
LEMMA FinishKeeps == PlanInv /\ ServerFinishes => PlanInv'
  <1> SUFFICES ASSUME PlanInv, ServerFinishes PROVE PlanInv'
    OBVIOUS
  <1> USE DEF PlanInv
  <1>1. /\ creating # {} /\ creating' = {}
        /\ UNCHANGED <<cfg, listed, pc, got, asked, jobs, reached>>
    BY DEF ServerFinishes
  <1>2. stored = NoPlan /\ asked # {} /\ creating \subseteq Allowed /\ creating \subseteq 1 .. MaxJobs
    BY <1>1 DEF ServersPlan, TypeOK
  <1>3. WellFormed(stored') /\ (stored' \notin {NoPlan, ErrorPlan} => stored'.tasks \in Allowed /\ ~stored'.fallback)
    <2>1. CASE stored' \in {NoPlan, ErrorPlan}
      BY <2>1, EmptyPlans
    <2>2. CASE stored' \notin {NoPlan, ErrorPlan}
      <3>1. PICK k \in creating : \E owner \in [Targets -> None .. k - 1] :
               stored' = [tasks |-> k, owner |-> owner, fallback |-> FALSE]
        BY <2>2 DEF ServerFinishes
      <3>2. PICK owner \in [Targets -> None .. k - 1] :
               stored' = [tasks |-> k, owner |-> owner, fallback |-> FALSE]
        BY <3>1
      <3>3. k \in Int /\ k \in Allowed /\ owner \in [Targets -> Int]
        BY <1>2, <3>1, <3>2, ConfigType DEF None
      <3>4. \A t \in Targets : owner[t] = None \/ owner[t] \in 0 .. k - 1
        BY <3>2, <3>3 DEF None
      <3> QED
        BY <2>2, <3>2, <3>3, <3>4 DEF WellFormed, Plan
    <2> QED
      BY <2>1, <2>2
  <1>4. TypeOK'
    BY <1>1, <1>3 DEF TypeOK, WellFormed
  <1>5. FallbackRunsSomething'
    BY <1>1 DEF FallbackRunsSomething
  <1>6. InOrder'
    BY <1>1, SameBuild DEF InOrder, HasPlan
  <1>7. ServersPlan'
    BY <1>1, <1>2, <1>3, SameBuild DEF ServersPlan
  <1>8. Provenance'
    BY <1>1, <1>2, SameBuild DEF Provenance, HasPlan
  <1> QED
    BY <1>4, <1>5, <1>6, <1>7, <1>8

\* A call that fails: a fallback, or the end of the process.
LEMMA FailKeeps ==
  ASSUME PlanInv, NEW p \in Processes, NEW e,
         p = Planner => pc[p] \in {"params", "create"},
         p # Planner => pc[p] \in {"fetch", "params", "create"},
         Fail(p, e), UNCHANGED <<cfg, listed, asked, server, jobs>>
  PROVE  PlanInv'
  <1>1. reached' \in BOOLEAN
    BY DEF Fail, PlanInv, TypeOK
  <1>2. CASE Recoverable(e)
    <2>1. Enter(p, LocalPlan(p))
      BY <1>2 DEF Fail
    <2> QED
      BY <1>1, <2>1, EnterKeeps
  <1>3. CASE ~Recoverable(e)
    <2>1. pc' = [pc EXCEPT ![p] = "failed"] /\ UNCHANGED got
      BY <1>3 DEF Fail
    <2>2. p # Planner => HasStarted(p)
      BY DEF PlanInv, InOrder, Processes
    <2> QED
      BY <1>1, <2>1, <2>2, FailureKeeps
  <1> QED
    BY <1>2, <1>3

\* An answer of the server's.
LEMMA ReceiveKeeps ==
  ASSUME PlanInv, NEW p \in Processes, stored # NoPlan,
         p = Planner => pc[p] \in {"params", "create"},
         p # Planner => pc[p] \in {"fetch", "params", "create"},
         Receive(p, stored), reached' \in BOOLEAN, UNCHANGED <<cfg, listed, asked, server, jobs>>
  PROVE  PlanInv'
  <1>1. CASE stored.tasks = 0 /\ ~(p = Planner /\ cfg.mode = "planout")
    <2>1. Enter(p, LocalPlan(p))
      BY <1>1 DEF Receive
    <2> QED
      BY <2>1, EnterKeeps
  <1>2. CASE ~(stored.tasks = 0 /\ ~(p = Planner /\ cfg.mode = "planout"))
    <2>1. Enter(p, stored)
      BY <1>2 DEF Receive
    <2>2. stored = ErrorPlan => p = Planner /\ cfg.mode = "planout"
      BY <1>2, StoredType
    <2> QED
      BY <2>1, <2>2, EnterKeeps
  <1> QED
    BY <1>1, <1>2

LEMMA CallsKeep ==
  ASSUME PlanInv, NEW p \in Processes, Calls(p)
  PROVE  PlanInv'
  <1>1. p # Planner => p \in Jobs
    BY DEF Processes
  <1>2. reached \in BOOLEAN
    BY DEF PlanInv, TypeOK
  <1>3. CASE SetUpFails(p)
    BY <1>2, <1>3, FailureKeeps, <1>1 DEF SetUpFails
  <1>4. CASE RequestParams(p)
    <2>1. pc[p] = "params" /\ pc' = [pc EXCEPT ![p] = "create"] /\ asked' = asked \cup {p}
          /\ UNCHANGED <<cfg, listed, got, server, jobs, reached>>
      BY <1>4 DEF RequestParams
    <2>2. p = Planner => cfg.mode # "static" /\ PlanIsValid
      BY <2>1 DEF PlanInv, InOrder
    <2>3. p # Planner => HasStarted(p)
      BY <1>1, <2>1 DEF PlanInv, InOrder
    <2> QED
      BY <2>1, <2>2, <2>3, StepKeeps
  <1>5. CASE RequestParamsFails(p)
    BY <1>5, FailKeeps DEF RequestParamsFails
  <1>6. CASE CreateTestPlan(p)
    BY <1>2, <1>6, ReceiveKeeps DEF CreateTestPlan
  <1>7. CASE CreateFails(p)
    BY <1>7, FailKeeps DEF CreateFails
  <1> QED
    BY <1>3, <1>4, <1>5, <1>6, <1>7 DEF Calls

LEMMA PlannerKeeps == PlanInv /\ PlannerNext => PlanInv'
  <1> SUFFICES ASSUME PlanInv, PlannerNext PROVE PlanInv'
    OBVIOUS
  <1>1. Planner \in Processes /\ reached \in BOOLEAN
    BY DEF Processes, PlanInv, TypeOK
  <1>2. CASE ValidateForPlan
    <2>1. pc[Planner] = "validate" /\ cfg.mode # "static"
      BY <1>2 DEF ValidateForPlan, PlanInv, InOrder
    <2>2. CASE PlanIsValid
      <3>1. pc' = [pc EXCEPT ![Planner] = "params"] /\ UNCHANGED <<cfg, listed, got, asked, server, jobs, reached>>
        BY <1>2, <2>2 DEF ValidateForPlan
      <3> QED
        BY <1>1, <2>1, <2>2, <3>1, StepKeeps
    <2>3. CASE ~PlanIsValid
      <3>1. pc' = [pc EXCEPT ![Planner] = "failed"] /\ UNCHANGED <<cfg, listed, got, asked, server, jobs, reached>>
        BY <1>2, <2>3 DEF ValidateForPlan
      <3> QED
        BY <1>1, <2>1, <3>1, FailureKeeps
    <2> QED
      BY <2>2, <2>3
  <1>3. CASE Calls(Planner)
    BY <1>1, <1>3, CallsKeep
  <1>4. CASE Emit
    BY <1>4, EmitKeeps
  <1>5. CASE EmitFails
    BY <1>1, <1>5, FailureKeeps DEF EmitFails
  <1> QED
    BY <1>2, <1>3, <1>4, <1>5 DEF PlannerNext

LEMMA JobKeeps ==
  ASSUME PlanInv, NEW n \in Jobs, JobNext(n)
  PROVE  PlanInv'
  <1>1. n \in Processes /\ n # Planner /\ reached \in BOOLEAN
    BY ProcessesDiffer DEF Processes, PlanInv, TypeOK
  <1>2. CASE StartJob(n)
    <2>1. /\ HasStarted(n) /\ pc' = [pc EXCEPT ![n] = "fetch"]
          /\ UNCHANGED <<cfg, listed, got, asked, server, jobs, reached>>
      BY <1>2 DEF StartJob
    <2> QED
      BY <1>1, <2>1, StepKeeps
  <1>3. CASE FetchTestPlan(n)
    BY <1>1, <1>3, ReceiveKeeps DEF FetchTestPlan
  <1>4. CASE FetchMisses(n)
    <2>1. HasStarted(n)
      BY <1>4 DEF FetchMisses, PlanInv, InOrder
    <2>2. pc' = [pc EXCEPT ![n] = "params"] /\ UNCHANGED <<cfg, listed, got, asked, server, jobs, reached>>
      BY <1>4 DEF FetchMisses
    <2> QED
      BY <1>1, <2>1, <2>2, StepKeeps
  <1>5. CASE FetchFails(n)
    BY <1>1, <1>5, FailKeeps DEF FetchFails
  <1>6. CASE Calls(n)
    BY <1>1, <1>6, CallsKeep
  <1> QED
    BY <1>2, <1>3, <1>4, <1>5, <1>6 DEF JobNext

LEMMA NextPlan == PlanInv /\ [Next]_vars => PlanInv'
  <1> SUFFICES ASSUME PlanInv, [Next]_vars PROVE PlanInv'
    OBVIOUS
  <1>1. CASE PlannerNext
    BY <1>1, PlannerKeeps
  <1>2. CASE \E n \in Jobs : JobNext(n)
    BY <1>2, JobKeeps
  <1>3. CASE \E p \in Processes : ServerStarts(p)
    BY <1>3, StartKeeps
  <1>4. CASE ServerFinishes
    BY <1>4, FinishKeeps
  <1>5. CASE UNCHANGED vars
    <2>1. UNCHANGED <<cfg, listed, pc, got, asked, stored, creating, jobs, reached>>
      BY <1>5 DEF vars
    <2>2. TypeOK' /\ FallbackRunsSomething' /\ ServersPlan'
      BY <2>1, SameBuild DEF PlanInv, TypeOK, WellFormed, FallbackRunsSomething, ServersPlan
    <2>3. InOrder' /\ Provenance'
      BY <2>1, SameBuild DEF PlanInv, InOrder, Provenance, HasPlan
    <2> QED
      BY <2>2, <2>3 DEF PlanInv
  <1> QED
    BY <1>1, <1>2, <1>3, <1>4, <1>5 DEF Next

\* Types, the sizes of plans and where each process has its plan from.
THEOREM PlanInvariant == Spec => []PlanInv
  BY InitPlan, NextPlan, PTL DEF Spec

-----------------------------------------------------------------------------
(* What PlanInv is for. *)

\* The build has a job for every task of the server's plan.
LEMMA StoredFits ==
  ASSUME PlanInv, NEW n \in Jobs, HasStarted(n), stored \notin {NoPlan, ErrorPlan}
  PROVE  stored.tasks \in 1 .. jobs
  <1>1. /\ Sized /\ jobs \in 1 .. MaxJobs
        /\ jobs = fallbackParallelism \/ jobs = stored.tasks
    BY SizedJobs
  <1>2. stored.tasks \in Allowed /\ stored.tasks \in 1 .. MaxJobs
    BY <1>1 DEF PlanInv, ServersPlan, Sized
  <1>3. \A k \in Allowed : k <= fallbackParallelism
    BY <1>1, ConfigType DEF PlanInv, Sized, Allowed, fallbackParallelism
  <1> QED
    BY <1>1, <1>2, <1>3, ConfigType DEF PlanInv

\* The tests of a job, by the kind of plan it runs on.
LEMMA RunningJobs ==
  ASSUME PlanInv, NEW n \in Jobs, pc[n] = "running"
  PROVE  /\ HasStarted(n)
         /\ \/ got[n].fallback /\ TestsOf(n) = {t \in Targets : t % jobs = n}
            \/ /\ ~got[n].fallback /\ stored \notin {NoPlan, ErrorPlan}
               /\ TestsOf(n) = {t \in Targets : stored.owner[t] = n}
  <1> USE DEF PlanInv
  <1>1. n \in Processes /\ n # Planner
    BY ProcessesDiffer DEF Processes
  <1>2. HasStarted(n)
    BY DEF InOrder
  <1>3. HasPlan(n)
    BY <1>1 DEF Provenance
  <1>4. CASE got[n] = LocalPlan(n)
    <2>1. got[n] = [tasks |-> jobs, owner |-> [t \in Targets |-> t % jobs], fallback |-> TRUE]
      BY <1>1, <1>4 DEF LocalPlan, FallbackPlan, FallbackOwner
    <2> QED
      BY <1>2, <2>1 DEF TestsOf
  <1>5. CASE got[n] = stored /\ (stored = ErrorPlan => n = Planner /\ cfg.mode = "planout")
    <2>1. stored \notin {NoPlan, ErrorPlan}
      BY <1>1, <1>3, <1>5 DEF HasPlan
    <2>2. ~stored.fallback
      BY <2>1 DEF ServersPlan
    <2> QED
      BY <1>2, <1>5, <2>1, <2>2 DEF TestsOf
  <1> QED
    BY <1>1, <1>3, <1>4, <1>5 DEF Provenance

\* The job the fallback gives a target to is one of the build's.
LEMMA FallbackOwnerStarted ==
  ASSUME PlanInv, NEW n \in Jobs, HasStarted(n), NEW t \in Targets
  PROVE  t % jobs \in Started
  <1>1. jobs \in 1 .. MaxJobs
    BY SizedJobs
  <1>2. t \in Nat /\ MaxJobs \in Nat
    BY ConfigType DEF PlanInv, Targets
  <1>3. t % jobs \in 0 .. jobs - 1
    BY <1>1, <1>2, ModuloRange
  <1> QED
    BY <1>1, <1>2, <1>3 DEF Started, Jobs, HasStarted

\* And so is the one the server's plan gives it to.
LEMMA StoredOwnerStarted ==
  ASSUME PlanInv, NEW n \in Jobs, HasStarted(n), NEW t \in Targets, stored.owner[t] # None
  PROVE  stored.owner[t] \in Started /\ stored \notin {NoPlan, ErrorPlan}
  <1>1. stored \notin {NoPlan, ErrorPlan}
    BY StoredType DEF Nobody
  <1>2. stored.owner[t] \in 0 .. stored.tasks - 1
    BY DEF PlanInv, TypeOK, WellFormed
  <1>3. stored.tasks \in 1 .. jobs /\ jobs \in 1 .. MaxJobs
    BY <1>1, StoredFits, SizedJobs
  <1>4. MaxJobs \in Nat
    BY ConfigType DEF PlanInv
  <1>5. stored.owner[t] \in 0 .. MaxJobs - 1 /\ stored.owner[t] < jobs
    BY <1>2, <1>3, <1>4
  <1> QED
    BY <1>1, <1>5 DEF Started, Jobs, HasStarted

\* Jobs that agree on where their plan is from run every target of it exactly once.
THEOREM AgreementIsComplete == Spec => []CompleteWhenAgreed
  <1>1. PlanInv => CompleteWhenAgreed
    <2> SUFFICES ASSUME PlanInv, Started # {}, NEW t \in Targets
                 PROVE  /\ RunningOn(TRUE) = Started =>
                             Cardinality({n \in Started : t \in TestsOf(n)}) = 1
                        /\ RunningOn(FALSE) = Started /\ stored.owner[t] # None =>
                             Cardinality({n \in Started : t \in TestsOf(n)}) = 1
      BY DEF CompleteWhenAgreed
    <2> DEFINE runners == {n \in Started : t \in TestsOf(n)}
    <2>1. PICK m \in Jobs : HasStarted(m)
      BY DEF Started
    <2>2. \A n \in Started : n \in Jobs
      BY DEF Started
    <2>3. ASSUME RunningOn(TRUE) = Started PROVE Cardinality(runners) = 1
      <3>1. \A n \in Started : pc[n] = "running" /\ got[n].fallback
        BY <2>3 DEF RunningOn
      <3>2. \A n \in Started : t \in TestsOf(n) <=> t % jobs = n
        BY <2>2, <3>1, RunningJobs
      <3>3. runners = {t % jobs}
        BY <2>1, <3>2, FallbackOwnerStarted
      <3> QED
        BY <3>3, FS_Singleton
    <2>4. ASSUME RunningOn(FALSE) = Started, stored.owner[t] # None PROVE Cardinality(runners) = 1
      <3>1. \A n \in Started : pc[n] = "running" /\ ~got[n].fallback
        BY <2>4 DEF RunningOn
      <3>2. \A n \in Started : t \in TestsOf(n) <=> stored.owner[t] = n
        BY <2>2, <3>1, RunningJobs
      <3>3. runners = {stored.owner[t]}
        BY <2>1, <2>4, <3>2, StoredOwnerStarted
      <3> QED
        BY <3>3, FS_Singleton
    <2> QED
      BY <2>3, <2>4
  <1> QED
    BY <1>1, PlanInvariant, PTL

\* However the jobs are divided, no target is run by more than two of them.
THEOREM TwiceAtMost == Spec => []AtMostTwice
  <1>1. PlanInv => AtMostTwice
    <2> SUFFICES ASSUME PlanInv, NEW t \in Targets
                 PROVE  Cardinality({n \in Jobs : t \in TestsOf(n)}) <= 2
      BY DEF AtMostTwice
    <2> DEFINE runners == {n \in Jobs : t \in TestsOf(n)}
               owners  == {t % jobs} \cup {stored.owner[t]}
    <2>1. runners \in SUBSET owners
      <3> SUFFICES ASSUME NEW n \in Jobs, t \in TestsOf(n) PROVE n = t % jobs \/ n = stored.owner[t]
        OBVIOUS
      <3>1. pc[n] = "running"
        BY DEF TestsOf
      <3> QED
        BY <3>1, RunningJobs
    <2>2. IsFiniteSet({t % jobs}) /\ Cardinality({t % jobs}) = 1
      BY FS_Singleton
    <2>3. IsFiniteSet(owners) /\ Cardinality(owners) \in {1, 2}
      <3> DEFINE one == {t % jobs}
      <3>1. IsFiniteSet(one) /\ Cardinality(one) = 1
        BY <2>2
      <3> HIDE DEF one
      <3>2. /\ IsFiniteSet(one \cup {stored.owner[t]})
            /\ Cardinality(one \cup {stored.owner[t]}) =
                 IF stored.owner[t] \in one THEN Cardinality(one) ELSE Cardinality(one) + 1
        BY <3>1, FS_AddElement
      <3>3. owners = one \cup {stored.owner[t]}
        BY DEF one
      <3> HIDE DEF owners
      <3> QED
        BY <3>1, <3>2, <3>3
    <2>4. IsFiniteSet(runners) /\ Cardinality(runners) <= Cardinality(owners)
      BY <2>1, <2>3, FS_Subset
    <2> HIDE DEF owners, runners
    <2>5. Cardinality(runners) \in Nat /\ Cardinality(owners) \in Nat
      BY <2>3, <2>4, FS_CardinalityType
    <2>6. Cardinality(runners) <= 2
      BY <2>3, <2>4, <2>5
    <2> QED
      BY <2>6 DEF runners
  <1> QED
    BY <1>1, PlanInvariant, PTL

\* A target of the server's plan is lost only to a job that does not run that plan.
THEOREM LossIsDisagreement == Spec => []LostOnlyByDisagreement
  <1>1. PlanInv => LostOnlyByDisagreement
    <2> SUFFICES ASSUME PlanInv, NEW t \in Targets, Started # {}, stored.owner[t] # None,
                        ~\E n \in Started : t \in TestsOf(n)
                 PROVE  /\ stored.owner[t] \in Started
                        /\ pc[stored.owner[t]] # "running" \/ got[stored.owner[t]].fallback
      BY DEF LostOnlyByDisagreement
    <2>1. PICK m \in Jobs : HasStarted(m)
      BY DEF Started
    <2>2. stored.owner[t] \in Started /\ stored.owner[t] \in Jobs
      BY <2>1, StoredOwnerStarted DEF Started
    <2> QED
      BY <2>2, RunningJobs
  <1> QED
    BY <1>1, PlanInvariant, PTL

\* A job without a task is the work of a planner that fell back beside a smaller plan.
THEOREM CrashesAreThePlanners == Spec => []CrashOnlyAfterPlannerFallback
  <1>1. PlanInv => CrashOnlyAfterPlannerFallback
    <2> SUFFICES ASSUME PlanInv, NEW n \in Jobs, pc[n] = "crashed"
                 PROVE  /\ got[Planner].fallback
                        /\ ~got[n].fallback /\ got[n].tasks < cfg.maxParallelism
      BY DEF CrashOnlyAfterPlannerFallback
    <2> USE DEF PlanInv
    <2>1. n \in Processes /\ n # Planner /\ n \in Int
      BY ProcessesDiffer DEF Processes
    <2>2. HasStarted(n) /\ HasPlan(n) /\ n >= got[n].tasks
      BY <2>1 DEF InOrder, Provenance
    <2>3. got[n] # LocalPlan(n)
      <3>1. n < LocalPlan(n).tasks /\ LocalPlan(n).tasks \in 1 .. MaxJobs
        BY <2>1, <2>2, LocalPlanType
      <3> QED
        BY <2>1, <2>2, <3>1, ConfigType
    <2>4. got[n] = stored /\ stored \notin {NoPlan, ErrorPlan}
      BY <2>1, <2>2, <2>3 DEF Provenance, HasPlan
    <2>5. stored.tasks \in Allowed /\ ~stored.fallback /\ stored.tasks \in 1 .. jobs
      BY <2>2, <2>4, StoredFits DEF ServersPlan
    <2>6. /\ jobs \in 1 .. MaxJobs /\ n < jobs
          /\ cfg.mode # "static" /\ jobs # stored.tasks => got[Planner] = PlannerFallback
          /\ cfg.mode = "static" => Allowed = {jobs}
          /\ jobs = fallbackParallelism \/ jobs = stored.tasks
      BY <2>2, SizedJobs
    <2>7. stored.tasks < jobs
      <3>1. stored.tasks <= n /\ stored.tasks \in Int /\ jobs \in Int
        BY <2>2, <2>4, <2>5, <2>6
      <3> QED
        BY <2>1, <2>6, <3>1
    <2>8. jobs = fallbackParallelism /\ got[Planner] = PlannerFallback
      BY <2>5, <2>6, <2>7
    <2>9. cfg.maxParallelism > 0 /\ jobs = cfg.maxParallelism
      BY <2>5, <2>7, <2>8, ConfigType DEF Allowed, fallbackParallelism
    <2> QED
      BY <2>4, <2>5, <2>7, <2>8, <2>9 DEF PlannerFallback
  <1> QED
    BY <1>1, PlanInvariant, PTL

=============================================================================
