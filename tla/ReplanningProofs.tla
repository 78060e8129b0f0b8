--------------------------- MODULE ReplanningProofs ---------------------------
(***************************************************************************)
(* TLAPS proofs about Replanning, for every set of orders and machines,    *)
(* every configuration and every length of the history.                    *)
(***************************************************************************)
EXTENDS Replanning, FiniteSetTheorems, TLAPS

(* While no downtime announces its end, a machine is up or out of the plan.*)
Unannounced(p) == \A m \in Machines : p.machine[m].back = None

(* A version books only machines that could run in the plant it was drawn  *)
(* from, which is the one it is compared with.                             *)
Bookable(v) ==
    v # None => \A o \in Orders : v.plan[o] # None => v.plant.machine[v.plan[o].machine].up

VersionInv == /\ \A s \in Lifecycle : Bookable(version[s])
              /\ job.pc = "deciding" => Bookable(job.candidate)

PlantInv == Unannounced(plant) /\ (job.pc = "generating" => Unannounced(job.plant))

(* An evaluation has the events of exactly the two plants it read.         *)
JobInv ==
    job.pc = "generating" =>
        /\ Bookable(job.plan)
        /\ job.events = IF job.plan = None THEN {}
                        ELSE DetectEvents(job.plan.plant, job.plant, job.at)

(* A candidate that was not rejected repeats the plan in force when it was *)
(* drawn, as far as that was about to start, and is no newer than the clock. *)
DrawnInv ==
    job.pc = "deciding" =>
        /\ job.at <= now
        /\ job.verdict # "reject" =>
              /\ job.candidate # None
              /\ \A o \in Reproduced(PlanOf(job.base), job.candidate.plant, job.at) :
                    job.candidate.plan[o] = PlanOf(job.base)[o]

-----------------------------------------------------------------------------
LEMMA LifecycleIs == {"published", "approved", "draft"} = Lifecycle
BY DEF Lifecycle

LEMMA CurrentIsVersion ==
    ASSUME TypeOK
    PROVE  Current \in Version \cup {None}
BY DEF TypeOK, Current, Lifecycle

LEMMA CandidateIsPlan ==
    ASSUME NEW old, NEW p, NEW t, NEW c \in Candidates(old, p, t)
    PROVE  c \in Plan
BY DEF Candidates

LEMMA SynchroniseKeepsType ==
    ASSUME TypeOK, Synchronise
    PROVE  plant' \in Plant /\ changes' \in 0 .. MaxChanges
<1>1. changes' \in 0 .. MaxChanges
  BY WindowAssumption DEF TypeOK, Synchronise
<1>2. /\ plant.order \in [Orders -> OrderState]
      /\ plant.machine \in [Machines -> MachineState]
      /\ plant.touched \subseteq SoftKinds
  BY DEF TypeOK, Plant
<1>3. ASSUME NEW o \in Orders, NEW s \in OrderChanges(o),
             plant' = [plant EXCEPT !.order[o] = s]
      PROVE  plant' \in Plant
  <2>1. s \in OrderState
    <3>1. plant.order[o] \in OrderState
      BY <1>2
    <3>2. \A u \in Statuses : [plant.order[o] EXCEPT !.status = u] \in OrderState
      BY <3>1 DEF OrderState
    <3>3. [plant.order[o] EXCEPT !.late = TRUE] \in OrderState
      BY <3>1 DEF OrderState
    <3>4. {"open", "failed", "rework", "closed"} \subseteq Statuses
      BY DEF Statuses
    <3>5. \/ s = [plant.order[o] EXCEPT !.status = "open"]
          \/ s \in {[plant.order[o] EXCEPT !.status = u] :
                        u \in {"open", "failed", "rework", "closed"}}
          \/ s = [plant.order[o] EXCEPT !.late = TRUE]
      BY <1>3 DEF OrderChanges
    <3> QED BY <3>2, <3>3, <3>4, <3>5
  <2>2. [plant.order EXCEPT ![o] = s] \in [Orders -> OrderState]
    BY <1>2, <2>1
  <2>3. plant' = [plant EXCEPT !.order = [plant.order EXCEPT ![o] = s]]
    BY <1>3 DEF TypeOK, Plant
  <2> QED BY <2>2, <2>3 DEF TypeOK, Plant
<1>4. ASSUME NEW m \in Machines, NEW s \in MachineChanges(m),
             plant' = [plant EXCEPT !.machine[m] = s]
      PROVE  plant' \in Plant
  <2>1. s \in MachineState
    <3>1. \/ s = [up |-> TRUE, back |-> None]
          \/ s = [up |-> FALSE, back |-> None]
          \/ s \in [up : {FALSE}, back : {t \in Time : t > now}]
      BY <1>4 DEF MachineChanges
    <3>2. CASE s = [up |-> TRUE, back |-> None] \/ s = [up |-> FALSE, back |-> None]
      <4>1. \A up \in BOOLEAN, back \in Time \cup {None} : [up |-> up, back |-> back] \in MachineState
        BY DEF MachineState
      <4> QED BY <3>2, <4>1
    <3>3. CASE s \in [up : {FALSE}, back : {t \in Time : t > now}]
      <4>1. PICK t \in Time : s = [up |-> FALSE, back |-> t]
        BY <3>3
      <4> QED BY <4>1 DEF MachineState
    <3> QED BY <3>1, <3>2, <3>3
  <2>2. [plant.machine EXCEPT ![m] = s] \in [Machines -> MachineState]
    BY <1>2, <2>1
  <2>3. plant' = [plant EXCEPT !.machine = [plant.machine EXCEPT ![m] = s]]
    BY <1>4 DEF TypeOK, Plant
  <2> QED BY <2>2, <2>3 DEF TypeOK, Plant
<1>5. ASSUME NEW k \in SoftKinds, plant' = [plant EXCEPT !.touched = @ \cup {k}]
      PROVE  plant' \in Plant
  BY <1>2, <1>5 DEF TypeOK, Plant
<1> QED BY <1>1, <1>3, <1>4, <1>5 DEF Synchronise

LEMMA GeneratedIsVersion ==
    ASSUME TypeOK, NEW c \in Plan
    PROVE  Generated(c) \in Version /\ Generated(c) # None
           /\ Generated(c).plan = c /\ Generated(c).plant = plant
BY NoneAssumption DEF Generated, Version, TypeOK

LEMMA DrawIsTyped ==
    ASSUME TypeOK, Draw
    PROVE  TypeOK'
<1>1. PICK c \in Candidates(Previous, plant, now), better \in BOOLEAN :
        job' = [pc |-> "deciding", base |-> Current, at |-> now, verdict |-> Verdict(c, better),
                candidate |-> IF Verdict(c, better) = "reject" THEN None ELSE Generated(c)]
  BY DEF Draw
<1>2. /\ job'.pc = "deciding" /\ job'.base = Current /\ job'.at = now
      /\ job'.verdict = Verdict(c, better) /\ job'.candidate \in {None, Generated(c)}
  BY <1>1
<1>3. Verdict(c, better) \in {"reject", "propose", "approve"}
  BY DEF Verdict
<1>4. Generated(c) \in Version
  BY CandidateIsPlan, GeneratedIsVersion
<1>5. UNCHANGED <<now, plant, version, changes>>
  BY DEF Draw
<1> QED BY <1>2, <1>3, <1>4, <1>5, CurrentIsVersion DEF TypeOK

LEMMA DecidedIsTyped ==
    ASSUME TypeOK, job.pc = "deciding"
    PROVE  Decided(job.candidate, job.verdict) \in [Lifecycle -> Version \cup {None}]
<1> DEFINE v == job.candidate
<1>1. v \in Version \cup {None} /\ job.verdict \in {"reject", "propose", "approve"}
  BY DEF TypeOK
<1> HIDE DEF v
<1>2. version \in [Lifecycle -> Version \cup {None}]
  BY DEF TypeOK
<1>3. Published(v) \in [Lifecycle -> Version \cup {None}]
  BY <1>1, <1>2 DEF Published, Lifecycle
<1>4. Approved(v) \in [Lifecycle -> Version \cup {None}]
  BY <1>1, <1>2 DEF Approved
<1>5. [version EXCEPT !["draft"] = v] \in [Lifecycle -> Version \cup {None}]
  BY <1>1, <1>2
<1> QED BY <1>1, <1>2, <1>3, <1>4, <1>5 DEF Decided, v

(* What a manager does to the versions.                                    *)
Manage == Approve \/ Publish \/ Reject("draft") \/ Reject("approved")

LEMMA ManagedIsTyped ==
    ASSUME TypeOK, Manage
    PROVE  version' \in [Lifecycle -> Version \cup {None}]
<1>1. version \in [Lifecycle -> Version \cup {None}]
  BY DEF TypeOK
<1>2. /\ version["draft"] \in Version \cup {None}
      /\ version["approved"] \in Version \cup {None}
  BY <1>1 DEF Lifecycle
<1>3. CASE Approve
  BY <1>1, <1>2, <1>3 DEF Approve, Approved
<1>4. CASE Publish
  BY <1>1, <1>2, <1>4 DEF Publish, Published, Lifecycle
<1>5. CASE Reject("draft") \/ Reject("approved")
  BY <1>1, <1>5 DEF Reject
<1> QED BY <1>3, <1>4, <1>5 DEF Manage

LEMMA TypeStep == TypeOK /\ [Next]_vars => TypeOK'
<1> SUFFICES ASSUME TypeOK, [Next]_vars PROVE TypeOK'
  OBVIOUS
<1>1. CASE UNCHANGED vars
  BY <1>1 DEF TypeOK, vars
<1>2. CASE Synchronise
  BY <1>2, SynchroniseKeepsType DEF Synchronise, TypeOK
<1>3. CASE Tick
  BY <1>3, WindowAssumption DEF Tick, TypeOK, Time
<1>4. ASSUME NEW r \in Requests, Begin(r) PROVE TypeOK'
  <2>1. job'.plan = Current /\ job'.plant = plant /\ job'.at = now /\ job'.pc = "generating"
    BY <1>4 DEF Begin
  <2> QED BY <1>4, <2>1, CurrentIsVersion DEF Begin, TypeOK
<1>5. CASE Finish
  BY <1>5, DecidedIsTyped DEF Finish, TypeOK, Idle
<1>6. CASE Fail
  BY <1>6 DEF Fail, TypeOK, Idle
<1>8. CASE Draw
  BY <1>8, DrawIsTyped
<1>7. CASE Manage
  <2>1. UNCHANGED <<now, plant, job, changes>>
    BY <1>7 DEF Manage, Approve, Publish, Reject
  <2> QED BY <1>7, <2>1, ManagedIsTyped DEF TypeOK
<1> QED BY <1>1, <1>2, <1>3, <1>4, <1>5, <1>6, <1>7, <1>8 DEF Next, Manage

LEMMA InitType == Init => TypeOK
<1> SUFFICES ASSUME Init PROVE TypeOK
  OBVIOUS
<1>1. now \in Time /\ changes \in 0 .. MaxChanges
  BY WindowAssumption DEF Init, Time
<1>2. plant \in Plant
  BY DEF Init, Plant, OrderState, MachineState, Statuses
<1>3. version \in [Lifecycle -> Version \cup {None}]
  BY DEF Init
<1> QED BY <1>1, <1>2, <1>3 DEF TypeOK, Init, Idle

(* The plant, the versions and the evaluation keep the values the code can *)
(* give them.                                                              *)
THEOREM TypeCorrect == Spec => []TypeOK
BY InitType, TypeStep, PTL DEF Spec

-----------------------------------------------------------------------------
(* A candidate books a machine that can run, be it new or reproduced.      *)
LEMMA CandidateIsBookable ==
    ASSUME TypeOK, Unannounced(plant), NEW c \in Candidates(Previous, plant, now)
    PROVE  Bookable(Generated(c))
<1>1. SUFFICES ASSUME NEW o \in Orders, c[o] # None
               PROVE  plant.machine[c[o].machine].up
  BY DEF Bookable, Generated
<1>2. c[o] \in Entry
  BY <1>1, CandidateIsPlan DEF Plan
<1>3. c[o].machine \in Machines
  BY <1>2 DEF Entry
<1>4. CanRun(plant, c[o].machine, now)
  <2>1. CASE o \in Reproduced(Previous, plant, now)
    BY <2>1 DEF Candidates, Reproduced
  <2>2. CASE o \notin Reproduced(Previous, plant, now)
    BY <1>1, <2>2 DEF Candidates, Placements
  <2> QED BY <2>1, <2>2
<1> QED BY <1>3, <1>4 DEF CanRun, Unannounced

LEMMA StepInv ==
    ASSUME ~ Returns, TypeOK, VersionInv, PlantInv, JobInv, [Next]_vars
    PROVE  VersionInv' /\ PlantInv' /\ JobInv'
<1>1. CASE UNCHANGED vars
  <2>1. UNCHANGED <<plant, version, job>>
    BY <1>1 DEF vars
  <2>2. VersionInv' /\ PlantInv'
    BY <2>1 DEF VersionInv, PlantInv, Unannounced
  <2>3. JobInv'
    BY <2>1 DEF JobInv
  <2> QED BY <2>2, <2>3
<1>2. CASE Synchronise
  <2>1. UNCHANGED <<version, job>>
    BY <1>2 DEF Synchronise
  <2>2. Unannounced(plant)'
    <3>1. ASSUME NEW m \in Machines, NEW s \in MachineChanges(m),
                 plant' = [plant EXCEPT !.machine[m] = s]
          PROVE  Unannounced(plant)'
      <4>1. s.back = None
        BY <3>1 DEF MachineChanges
      <4>2. plant'.machine = [plant.machine EXCEPT ![m] = s]
        BY <3>1 DEF TypeOK, Plant
      <4> QED BY <4>1, <4>2 DEF PlantInv, Unannounced, TypeOK, Plant
    <3>2. ASSUME plant'.machine = plant.machine
          PROVE  Unannounced(plant)'
      BY <3>2 DEF PlantInv, Unannounced
    <3>3. \A o, s : plant' = [plant EXCEPT !.order[o] = s] => plant'.machine = plant.machine
      BY DEF TypeOK, Plant
    <3>4. \A k : plant' = [plant EXCEPT !.touched = @ \cup {k}] => plant'.machine = plant.machine
      BY DEF TypeOK, Plant
    <3> QED BY <1>2, <3>1, <3>2, <3>3, <3>4 DEF Synchronise
  <2> QED BY <2>1, <2>2 DEF VersionInv, PlantInv, JobInv
<1>3. CASE Tick
  BY <1>3 DEF Tick, VersionInv, PlantInv, JobInv
<1>4. ASSUME NEW r \in Requests, Begin(r)
      PROVE  VersionInv' /\ PlantInv' /\ JobInv'
  <2>1. /\ UNCHANGED <<version, plant>>
        /\ job'.plan = Current /\ job'.plant = plant /\ job'.at = now
        /\ job'.pc = "generating"
        /\ job'.events = IF Current = None THEN {} ELSE DetectEvents(Current.plant, plant, now)
    BY <1>4 DEF Begin
  <2>2. Bookable(Current)
    BY DEF VersionInv, Current, Lifecycle
  <2>3. JobInv'
    BY <2>1, <2>2 DEF JobInv, Bookable
  <2>4. VersionInv' /\ PlantInv'
    BY <2>1 DEF VersionInv, PlantInv, Unannounced
  <2> QED BY <2>3, <2>4
<1>5. CASE Finish
  <2>1. job' = Idle /\ plant' = plant /\ job'.pc = "idle"
    BY <1>5 DEF Finish, Idle
  <2>2. version' = Decided(job.candidate, job.verdict) /\ Bookable(job.candidate)
    BY <1>5 DEF Finish, VersionInv
  <2>4. \A s \in Lifecycle : version'[s] \in {version[s], version["draft"], job.candidate, None}
    <3>1. /\ version \in [Lifecycle -> Version \cup {None}]
          /\ job.verdict \in {"reject", "propose", "approve"}
      BY <1>5 DEF TypeOK, Finish
    <3> QED BY <2>2, <3>1 DEF Decided, Approved, Published, Lifecycle
  <2>5. Bookable(None) /\ Bookable(version["draft"])
    BY DEF Bookable, VersionInv, Lifecycle
  <2>6. \A s \in Lifecycle : Bookable(version[s])'
    <3>1. \A s \in Lifecycle : Bookable(version'[s])
      BY <2>2, <2>4, <2>5 DEF VersionInv
    <3> QED BY <3>1 DEF Bookable
  <2> QED BY <2>1, <2>6 DEF VersionInv, PlantInv, JobInv, Unannounced
<1>8. CASE Draw
  <2>1. PICK c \in Candidates(Previous, plant, now), better \in BOOLEAN :
          job' = [pc |-> "deciding", base |-> Current, at |-> now, verdict |-> Verdict(c, better),
                  candidate |-> IF Verdict(c, better) = "reject" THEN None ELSE Generated(c)]
    BY <1>8 DEF Draw
  <2>2. job'.pc = "deciding" /\ job'.candidate \in {None, Generated(c)}
    BY <2>1
  <2>3. Bookable(Generated(c)) /\ Bookable(None)
    BY CandidateIsBookable DEF PlantInv, Bookable
  <2>4. UNCHANGED <<version, plant>>
    BY <1>8 DEF Draw
  <2>5. Bookable(job.candidate)'
    <3>1. Bookable(job'.candidate)
      BY <2>2, <2>3
    <3> QED BY <3>1 DEF Bookable
  <2> QED BY <2>2, <2>4, <2>5 DEF VersionInv, PlantInv, JobInv, Unannounced, Bookable
<1>6. CASE Fail
  BY <1>6 DEF Fail, VersionInv, PlantInv, JobInv, Idle
<1>7. CASE Manage
  <2>1. UNCHANGED <<plant, job>>
    BY <1>7 DEF Manage, Approve, Publish, Reject
  <2>2. \A s \in Lifecycle : version'[s] \in {version[q] : q \in Lifecycle} \cup {None}
    <3>1. version \in [Lifecycle -> Version \cup {None}]
      BY DEF TypeOK
    <3> QED BY <1>7, <3>1 DEF Manage, Approve, Publish, Reject, Approved, Published, Lifecycle
  <2>3. VersionInv'
    <3>1. \A s \in Lifecycle : Bookable(version'[s])
      BY <2>2 DEF VersionInv, Bookable
    <3> QED BY <2>1, <3>1 DEF VersionInv, Bookable
  <2> QED BY <2>1, <2>3 DEF PlantInv, JobInv
<1> QED BY <1>1, <1>2, <1>3, <1>4, <1>5, <1>6, <1>7, <1>8 DEF Next, Manage

LEMMA InitInv == Init => VersionInv /\ PlantInv /\ JobInv
BY DEF Init, VersionInv, PlantInv, JobInv, Bookable, Unannounced, Idle

(* A machine that was up in the plant of a version and is down now has an  *)
(* event of its own, and it is a hard one when work is left on it.         *)
LEMMA StrandedIsHard ==
    ASSUME TypeOK, PlantInv, JobInv, job.pc = "generating",
           NEW o \in StrandedWork(job.plan, job.plant, job.at)
    PROVE  Hard # {}
<1> DEFINE plan == PlanOf(job.plan)
           m    == plan[o].machine
           e    == Event("machine_down", m, TRUE)
<1>1. /\ o \in Orders /\ plan[o] # None /\ ~ Finished(plan[o], job.at)
      /\ ~ CanRun(job.plant, m, job.at)
  BY DEF StrandedWork, Relevant
<1>2. job.plan # None /\ plan = job.plan.plan
  BY <1>1 DEF PlanOf, EmptyPlan
<1>3. m \in Machines
  BY <1>1, <1>2 DEF TypeOK, Version, Plan, Entry
<1>4. job.plan.plant.machine[m].up /\ ~ job.plant.machine[m].up
  BY <1>1, <1>2 DEF JobInv, Bookable, CanRun
<1>5. e \in Failures(job.plan.plant, job.plant, job.at)
  BY <1>3, <1>4 DEF Failures
<1>6. e \in job.events
  BY <1>2, <1>5 DEF JobInv, DetectEvents
<1>7. e.pressing /\ e.type = "machine_down" /\ e.subject = m
  BY DEF Event
<1>8. o \in Scheduled(plan, job.at)
  BY <1>1 DEF Scheduled
<1> HIDE DEF e
<1>9. e \in HardEvents(job.events, plan, job.at)
  BY <1>6, <1>7, <1>8 DEF HardEvents
<1> QED BY <1>9 DEF Hard

(* While no downtime announces its end, an evaluation that finds work of   *)
(* the plan in force on a machine that cannot run has a hard event, so     *)
(* ShouldReplan replaces the plan whatever the candidate's quality.        *)
THEOREM StrandedWorkForcesAPlan ==
    ASSUME ~ Returns
    PROVE  Spec => []StrandedWorkIsHard
<1>1. TypeOK /\ VersionInv /\ PlantInv /\ JobInv /\ [Next]_vars
          => (TypeOK /\ VersionInv /\ PlantInv /\ JobInv)'
  BY TypeStep, StepInv
<1>2. TypeOK /\ PlantInv /\ JobInv => StrandedWorkIsHard
  BY StrandedIsHard DEF StrandedWorkIsHard
<1> QED BY InitType, InitInv, <1>1, <1>2, PTL DEF Spec

-----------------------------------------------------------------------------
LEMMA DrawnStep ==
    ASSUME TypeOK, DrawnInv, [Next]_vars
    PROVE  DrawnInv'
<1>1. CASE UNCHANGED <<now, job>>
  BY <1>1 DEF DrawnInv
<1>2. CASE Tick
  <2>1. now \in Nat /\ now' = now + 1 /\ job' = job
    BY <1>2, WindowAssumption DEF Tick, TypeOK, Time
  <2>2. job.pc = "deciding" => job.at \in Nat
    BY WindowAssumption DEF TypeOK, Time
  <2> QED BY <2>1, <2>2 DEF DrawnInv
<1>3. ASSUME job'.pc # "deciding" PROVE DrawnInv'
  BY <1>3 DEF DrawnInv
<1>4. CASE Draw
  <2>1. PICK c \in Candidates(Previous, plant, now), better \in BOOLEAN :
          job' = [pc |-> "deciding", base |-> Current, at |-> now, verdict |-> Verdict(c, better),
                  candidate |-> IF Verdict(c, better) = "reject" THEN None ELSE Generated(c)]
    BY <1>4 DEF Draw
  <2>2. /\ job'.base = Current /\ job'.at = now /\ now' = now
        /\ job'.verdict # "reject" => job'.candidate = Generated(c)
    BY <1>4, <2>1 DEF Draw
  <2>3. now <= now
    BY WindowAssumption DEF TypeOK, Time
  <2>4. Generated(c) # None /\ Generated(c).plan = c /\ Generated(c).plant = plant
    BY CandidateIsPlan, GeneratedIsVersion
  <2>5. \A o \in Reproduced(Previous, plant, now) : c[o] = Previous[o]
    BY DEF Candidates, Reproduced, Relevant
  <2>6. job'.verdict # "reject" =>
           \A o \in Reproduced(PlanOf(job'.base), job'.candidate.plant, job'.at) :
              job'.candidate.plan[o] = PlanOf(job'.base)[o]
    BY <2>2, <2>4, <2>5 DEF Previous
  <2> QED BY <2>2, <2>3, <2>4, <2>6 DEF DrawnInv, Reproduced, Relevant, PlanOf, CanRun, IsOpen,
                                        Finished, EmptyPlan
<1>5. \/ UNCHANGED <<now, job>> \/ Tick \/ Draw \/ job'.pc # "deciding"
  <2>1. ASSUME NEW q \in Requests, Begin(q) PROVE job'.pc = "generating"
    BY <2>1 DEF Begin
  <2> QED BY <2>1 DEF Next, vars, Synchronise, Finish, Fail, Approve, Publish, Reject, Idle
<1> QED BY <1>1, <1>2, <1>3, <1>4, <1>5

(* replanning_service.py:116-220, schedule_service.py:149-152: whatever    *)
(* managers do while an evaluation runs, the plan it puts in force by      *)
(* itself leaves work under way where it was in the plan it was drawn      *)
(* from, up to the end of the lock window.                                 *)
THEOREM WorkUnderWayStays == Spec => RunningWorkStays
<1> DEFINE
      A ==
          job.pc = "deciding" /\ job' = Idle /\ version'[Accepting] # version[Accepting]
          /\ Current # None /\ Current = job.base /\ now < job.at + LockWindow
       => \A o \in Running(Current.plan, now) :
             /\ IsOpen(job.candidate.plant, o)
             /\ CanRun(job.candidate.plant, Current.plan[o].machine, job.at)
             => PlanOf(version'[Accepting])[o] = Current.plan[o]
<1>1. ASSUME TypeOK, DrawnInv, [Next]_vars,
             job.pc = "deciding", job' = Idle, version'[Accepting] # version[Accepting],
             Current # None, Current = job.base, now < job.at + LockWindow,
             NEW o \in Running(Current.plan, now),
             IsOpen(job.candidate.plant, o),
             CanRun(job.candidate.plant, Current.plan[o].machine, job.at)
      PROVE  PlanOf(version'[Accepting])[o] = Current.plan[o]
  <2>1. job # Idle
    BY <1>1 DEF Idle
  <2>2. version' # version
    BY <1>1
  <2>3. Finish
    BY <1>1, <2>1, <2>2 DEF Next, Synchronise, Tick, Begin, Draw, Fail, Approve, Publish, Reject, vars
  <2>4. version' = Decided(job.candidate, job.verdict)
    BY <2>3 DEF Finish
  <2>5. Accepting \in {"published", "approved"} /\ version \in [Lifecycle -> Version \cup {None}]
    BY <1>1 DEF Accepting, TypeOK
  <2>6. job.verdict = "approve"
    BY <1>1, <2>4, <2>5 DEF Decided, TypeOK
  <2>7. version'[Accepting] = job.candidate
    BY <2>4, <2>5, <2>6 DEF Decided, Published, Approved, Accepting, Lifecycle
  <2>8. /\ job.candidate # None /\ job.at <= now
        /\ \A q \in Reproduced(PlanOf(job.base), job.candidate.plant, job.at) :
              job.candidate.plan[q] = PlanOf(job.base)[q]
    BY <1>1, <2>6 DEF DrawnInv
  <2>9. PlanOf(job.base) = Current.plan /\ PlanOf(version'[Accepting]) = job.candidate.plan
    BY <1>1, <2>7, <2>8 DEF PlanOf
  <2>10. /\ o \in Orders /\ Current.plan[o] # None
         /\ Current.plan[o].start <= now /\ ~ (Current.plan[o].start + 1 <= now)
    BY <1>1 DEF Running, Finished
  <2>11. Current.plan[o].start \in Nat /\ now \in Nat /\ job.at \in Nat /\ LockWindow \in Nat
    <3>1. Current \in Version
      BY <1>1, CurrentIsVersion
    <3>2. Current.plan \in Plan
      BY <3>1 DEF Version
    <3>3. Current.plan[o] \in Entry
      BY <2>10, <3>2 DEF Plan
    <3> QED BY <1>1, <3>3, WindowAssumption DEF Entry, Time, TypeOK
  <2>12. /\ ~ (Current.plan[o].start + 1 <= job.at)
         /\ Current.plan[o].start < job.at + LockWindow
    BY <1>1, <2>8, <2>10, <2>11
  <2>13. o \in Reproduced(Current.plan, job.candidate.plant, job.at)
    BY <1>1, <2>10, <2>12 DEF Reproduced, Relevant, Finished
  <2> QED BY <2>8, <2>9, <2>13
<1>2. TypeOK /\ DrawnInv /\ [Next]_vars => [A]_vars
  BY <1>1
<1>3. Init => DrawnInv
  BY DEF Init, DrawnInv, Idle
<1>4. TypeOK /\ DrawnInv /\ [Next]_vars => (TypeOK /\ DrawnInv)'
  BY TypeStep, DrawnStep
<1> HIDE DEF A
<1>5. Spec => [][A]_vars
  BY InitType, <1>2, <1>3, <1>4, PTL DEF Spec
<1> QED BY <1>5, PTL DEF RunningWorkStays, A
=============================================================================
