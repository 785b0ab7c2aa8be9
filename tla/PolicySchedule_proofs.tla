----------------------- MODULE PolicySchedule_proofs -----------------------
(***************************************************************************)
(* Proofs about PolicySchedule, for any schedules, subscribers, processes  *)
(* and times.                                                              *)
(***************************************************************************)
EXTENDS PolicySchedule, TLAPS

-----------------------------------------------------------------------------
(* Type correctness, and what the ids in use refer to.                     *)

Adding   == {"add_apply", "add_revert"}
Removing == {"rm_apply", "rm_revert", "flag"}

(* A call that is under way is about an id that exists.                    *)
CallsRefer ==
  \A p \in Process : /\ pc[p] \in Adding   => arg[p] \in docs
                     /\ pc[p] \in Removing => arg[p] \in known

(* So does every job that waits, in a scheduler or in a pool.              *)
RunsHaveDocs ==
  /\ \A x \in seen \cup queued : x[2].id \in docs
  /\ \A h \in held : h[2].id \in docs

IndInv == TypeOK /\ CallsRefer /\ JobsHaveDocs /\ RunsHaveDocs

LEMMA AmbrIsInt == AmbrMbps \subseteq Int
  BY DEF AmbrMbps, MinAmbrBps, MaxDlAmbrBps, BpsPerMbps

LEMMA JobParts ==
  /\ \A s \in Schedule : ApplyJob(s) \in Job /\ RevertJob(s) \in Job
  /\ \A s : ApplyJob(s).id = s /\ RevertJob(s).id = s
  /\ \A j \in Job : j.id \in Schedule
BY DEF Job, ApplyJob, RevertJob

(* Whatever the percentage, a job computes an integer.                     *)
LEMMA NewRateIsInt ==
  ASSUME NEW cur \in AmbrMbps, NEW j \in Job
  PROVE  NewRate(cur, Delta(j)) \in Int
<1>1. Delta(j) \in Int
  BY ScheduleAssumption, JobParts DEF Delta
<1>2. \A c, d \in Int : Scaled(c, d) \in Int
  BY DEF Scaled
<1> QED BY <1>1, <1>2, AmbrIsInt DEF NewRate

LEMMA SetRateType ==
  ASSUME TypeOK, NEW t, NEW rate \in AmbrMbps, SetRate(t, rate)
  PROVE  ambr' \in [Subscriber -> AmbrMbps]
BY DEF SetRate, TypeOK

LEMMA InitIndInv == Init => IndInv
BY ScheduleAssumption DEF Init, IndInv, TypeOK, CallsRefer, JobsHaveDocs,
   RunsHaveDocs, CallSite, Adding, Removing

USE DEF store, pools, caller, Goto, CallSite

(* A step of a tool call.                                                  *)
LEMMA ToolIndInv ==
  ASSUME IndInv, NEW p \in Process, ToolCall(p) \/ CallStep(p) \/ AddFails(p)
  PROVE  IndInv'
<1> USE DEF IndInv
<1>1. ASSUME NEW s \in Schedule, CallSchedule(p, s)
      PROVE  IndInv'
  <2>1. TypeOK'       BY <1>1 DEF CallSchedule, TypeOK
  <2>2. CallsRefer'   BY <1>1 DEF CallSchedule, TypeOK, CallsRefer, Adding, Removing
  <2>3. JobsHaveDocs' /\ RunsHaveDocs'
    BY <1>1 DEF CallSchedule, JobsHaveDocs, RunsHaveDocs
  <2> QED BY <2>1, <2>2, <2>3
<1>2. CASE AddApply(p)
  <2>0. arg[p] \in docs /\ arg[p] \in Schedule
    BY <1>2 DEF AddApply, CallsRefer, Adding, TypeOK
  <2>1. TypeOK'       BY <1>2, <2>0, JobParts DEF AddApply, TypeOK
  <2>2. CallsRefer'   BY <1>2 DEF AddApply, TypeOK, CallsRefer, Adding, Removing
  <2>3. JobsHaveDocs' /\ RunsHaveDocs'
    BY <1>2, <2>0, JobParts DEF AddApply, JobsHaveDocs, RunsHaveDocs
  <2> QED BY <2>1, <2>2, <2>3
<1>3. CASE AddRevert(p)
  <2>0. arg[p] \in docs /\ arg[p] \in Schedule
    BY <1>3 DEF AddRevert, CallsRefer, Adding, TypeOK
  <2>1. TypeOK'       BY <1>3, <2>0, JobParts DEF AddRevert, TypeOK
  <2>2. CallsRefer'   BY <1>3 DEF AddRevert, TypeOK, CallsRefer, Adding, Removing
  <2>3. JobsHaveDocs' /\ RunsHaveDocs'
    BY <1>3, <2>0, JobParts DEF AddRevert, JobsHaveDocs, RunsHaveDocs
  <2> QED BY <2>1, <2>2, <2>3
<1>4. CASE AddFails(p)
  BY <1>4 DEF AddFails, TypeOK, CallsRefer, JobsHaveDocs, RunsHaveDocs, Adding, Removing
<1>5. ASSUME NEW s \in Schedule, CallCancel(p, s)
      PROVE  IndInv'
  <2>1. TypeOK'       BY <1>5 DEF CallCancel, TypeOK
  <2>2. CallsRefer'   BY <1>5 DEF CallCancel, TypeOK, CallsRefer, Adding, Removing
  <2>3. JobsHaveDocs' /\ RunsHaveDocs'
    BY <1>5 DEF CallCancel, JobsHaveDocs, RunsHaveDocs
  <2> QED BY <2>1, <2>2, <2>3
<1>6. CASE RemoveApply(p)
  BY <1>6 DEF RemoveApply, Remove, TypeOK, CallsRefer, JobsHaveDocs, RunsHaveDocs,
              Adding, Removing
<1>7. CASE RemoveRevert(p)
  BY <1>7 DEF RemoveRevert, Remove, TypeOK, CallsRefer, JobsHaveDocs, RunsHaveDocs,
              Adding, Removing
<1>8. CASE MarkInactive(p)
  BY <1>8 DEF MarkInactive, TypeOK, CallsRefer, JobsHaveDocs, RunsHaveDocs,
              Adding, Removing
<1>9. CASE CallMonitor(p)
  BY <1>9 DEF CallMonitor, TypeOK, CallsRefer, JobsHaveDocs, RunsHaveDocs
<1>10. CASE CallPurge(p)
  BY <1>10 DEF CallPurge, TypeOK, CallsRefer, JobsHaveDocs, RunsHaveDocs,
               Adding, Removing
<1>11. ASSUME NEW j \in Job, PurgeNext(p, j)
       PROVE  IndInv'
  BY <1>11 DEF PurgeNext, Remove, TypeOK, CallsRefer, JobsHaveDocs, RunsHaveDocs
<1>12. CASE PurgeEnds(p)
  BY <1>12 DEF PurgeEnds, TypeOK, CallsRefer, JobsHaveDocs, RunsHaveDocs,
               Adding, Removing
<1> QED BY <1>1, <1>2, <1>3, <1>4, <1>5, <1>6, <1>7, <1>8, <1>9, <1>10, <1>11,
           <1>12 DEF ToolCall, CallStep

(* A step of a scheduler or of a job, and a crash.                         *)
LEMMA RunIndInv ==
  ASSUME IndInv, NEW p \in Process,
         \/ \E j \in Job : SchedulerStep(p, j) \/ RunStep(p, j) \/ ReadFails(p, j)
         \/ \E h \in held : h[1] = p /\ ApplyFails(p, h[2], h[3])
         \/ Crash(p)
  PROVE  IndInv'
<1> USE DEF IndInv
<1>1. ASSUME NEW j \in Job, Fetch(p, j)
      PROVE  IndInv'
  BY <1>1 DEF Fetch, TypeOK, CallsRefer, JobsHaveDocs, RunsHaveDocs
<1>2. ASSUME NEW j \in Job, Submit(p, j)
      PROVE  IndInv'
  BY <1>2 DEF Submit, TypeOK, CallsRefer, JobsHaveDocs, RunsHaveDocs
<1>3. ASSUME NEW j \in Job, ReadPolicy(p, j)
      PROVE  IndInv'
  <2> DEFINE source == IF Target(j) = None THEN First ELSE Target(j)
             new    == NewRate(ambr[source], Delta(j))
  <2>1. source \in Subscriber
    BY ScheduleAssumption, JobParts DEF Target
  <2>2. new \in Int
    BY <2>1, NewRateIsInt DEF TypeOK
  <2>3. /\ <<p, j>> \in queued
        /\ queued' = queued \ {<<p, j>>}
        /\ held'   = held \cup {<<p, j, new>>}
        /\ UNCHANGED <<ambr, now, up, store, seen, caller>>
    BY <1>3 DEF ReadPolicy
  <2> HIDE DEF new
  <2>4. TypeOK'       BY <2>2, <2>3 DEF TypeOK
  <2>5. CallsRefer' /\ JobsHaveDocs'  BY <2>3 DEF CallsRefer, JobsHaveDocs
  <2>6. RunsHaveDocs' BY <2>3 DEF RunsHaveDocs
  <2> QED BY <2>4, <2>5, <2>6
<1>4. ASSUME NEW j \in Job, ReadFails(p, j)
      PROVE  IndInv'
  BY <1>4 DEF ReadFails, TypeOK, CallsRefer, JobsHaveDocs, RunsHaveDocs
<1>5. ASSUME NEW j \in Job, NEW rate \in Int, ApplyPolicy(p, j, rate)
      PROVE  IndInv'
  <2>1. ambr' \in [Subscriber -> AmbrMbps]
    BY <1>5, SetRateType DEF ApplyPolicy, TypeOK
  <2>2. held' \subseteq held /\ UNCHANGED <<now, up, store, seen, queued, caller>>
    BY <1>5 DEF ApplyPolicy
  <2> QED BY <2>1, <2>2 DEF TypeOK, CallsRefer, JobsHaveDocs, RunsHaveDocs
<1>6. ASSUME NEW j \in Job, NEW rate \in Int, ApplyFails(p, j, rate)
      PROVE  IndInv'
  BY <1>6 DEF ApplyFails, TypeOK, CallsRefer, JobsHaveDocs, RunsHaveDocs
<1>7. CASE Crash(p)
  BY <1>7 DEF Crash, TypeOK, CallsRefer, JobsHaveDocs, RunsHaveDocs, Adding, Removing
<1>8. \A h \in held : h[2] \in Job /\ h[3] \in Int
  BY DEF TypeOK
<1> QED BY <1>1, <1>2, <1>3, <1>4, <1>5, <1>6, <1>7, <1>8 DEF SchedulerStep, RunStep

LEMMA TickIndInv ==
  ASSUME IndInv, Tick
  PROVE  IndInv'
<1>1. now' \in Int
  BY ScheduleAssumption DEF Tick, IndInv, TypeOK
<1> QED BY <1>1 DEF Tick, IndInv, TypeOK, CallsRefer, JobsHaveDocs, RunsHaveDocs

THEOREM StepIndInv == IndInv /\ [Next]_vars => IndInv'
<1> SUFFICES ASSUME IndInv, [Next]_vars PROVE IndInv' OBVIOUS
<1>1. CASE UNCHANGED vars
  BY <1>1 DEF vars, IndInv, TypeOK, CallsRefer, JobsHaveDocs, RunsHaveDocs
<1>2. ASSUME NEW rate \in RateArg, AgentApplies(rate)
      PROVE  IndInv'
  <2>1. ambr' \in [Subscriber -> AmbrMbps]
    BY <1>2, SetRateType, ScheduleAssumption DEF AgentApplies, IndInv
  <2> QED BY <1>2, <2>1 DEF AgentApplies, IndInv, TypeOK, CallsRefer, JobsHaveDocs,
                            RunsHaveDocs
<1> QED BY <1>1, <1>2, ToolIndInv, RunIndInv, TickIndInv DEF Next, Fails

THEOREM AlwaysIndInv == Spec => []IndInv
BY InitIndInv, StepIndInv, PTL DEF Spec

(* Whatever the jobs compute and whatever fails, no rate leaves the range  *)
(* of the policy tool (apply_policy's check, for _run_policy_change).      *)
THEOREM TypeCorrect == Spec => []TypeOK
<1>1. IndInv => TypeOK BY DEF IndInv
<1> QED BY <1>1, AlwaysIndInv, PTL

(* schedule_policy_change stores the document first: no failure or crash   *)
(* leaves a job in the store without it.                                   *)
THEOREM JobsAlwaysHaveDocs == Spec => []JobsHaveDocs
<1>1. IndInv => JobsHaveDocs BY DEF IndInv
<1> QED BY <1>1, AlwaysIndInv, PTL

-----------------------------------------------------------------------------
(* A run changes only the rates it was made for.                           *)

LEMMA ApplyOnTarget ==
  ASSUME IndInv, NEW p \in Process, NEW j \in Job, NEW rate \in Int,
         ApplyPolicy(p, j, rate), NEW u \in Subscriber, ambr'[u] # ambr[u]
  PROVE  \E h \in held \ held' : /\ Target(h[2]) \in {u, None}
                                 /\ h[2].id \in docs
                                 /\ ambr'[u] = h[3]
<1> DEFINE h == <<p, j, rate>>
<1>1. h \in held \ held' /\ h[2] = j /\ h[3] = rate
  BY DEF ApplyPolicy
<1>2. SetRate(Target(j), rate)
  BY DEF ApplyPolicy
<1>3. Target(j) \in {u, None} /\ ambr'[u] = rate
  BY <1>2 DEF SetRate
<1>4. j.id \in docs
  BY <1>1 DEF IndInv, RunsHaveDocs
<1> QED BY <1>1, <1>3, <1>4

(* A rate changes by a direct apply or by a run of a stored schedule that  *)
(* targets it (_run_policy_change passes target_imsi on).                  *)
THEOREM JobsAlwaysOnTarget == Spec => JobsStayOnTarget
<1> DEFINE OnTarget(u) ==
      ambr'[u] # ambr[u] =>
        \/ \A w \in Subscriber : ambr'[w] = ambr'[u] /\ ambr'[u] \in RateArg
        \/ \E h \in held \ held' : /\ Target(h[2]) \in {u, None}
                                   /\ h[2].id \in docs
                                   /\ ambr'[u] = h[3]
<1>1. ASSUME IndInv, [Next]_vars, NEW u \in Subscriber
      PROVE  OnTarget(u)
  <2>1. ASSUME NEW rate \in RateArg, AgentApplies(rate)
        PROVE  OnTarget(u)
    BY <2>1 DEF AgentApplies, SetRate
  <2>2. ASSUME NEW p \in Process, NEW j \in Job, RunStep(p, j)
        PROVE  OnTarget(u)
    <3>1. CASE ReadPolicy(p, j)
      BY <3>1 DEF ReadPolicy
    <3>2. ASSUME NEW h \in held, ApplyPolicy(p, j, h[3])
          PROVE  OnTarget(u)
      <4>1. h[3] \in Int
        BY <1>1 DEF IndInv, TypeOK
      <4> QED BY <1>1, <3>2, <4>1, ApplyOnTarget
    <3> QED BY <2>2, <3>1, <3>2 DEF RunStep
  <2>3. ASSUME NEW p \in Process, ToolCall(p) \/ CallStep(p) \/ Fails(p)
        PROVE  UNCHANGED ambr
    BY <2>3 DEF ToolCall, CallStep, Fails, CallSchedule, AddApply, AddRevert, AddFails,
                CallCancel, RemoveApply, RemoveRevert, MarkInactive, CallMonitor,
                CallPurge, PurgeNext, PurgeEnds, Crash, ReadFails, ApplyFails
  <2>4. ASSUME NEW p \in Process, NEW j \in Job, SchedulerStep(p, j)
        PROVE  UNCHANGED ambr
    BY <2>4 DEF SchedulerStep, Fetch, Submit
  <2>5. Tick \/ UNCHANGED vars => UNCHANGED ambr
    BY DEF Tick, vars
  <2> QED BY <1>1, <2>1, <2>2, <2>3, <2>4, <2>5 DEF Next
<1>2. IndInv /\ [Next]_vars => [\A u \in Subscriber : OnTarget(u)]_vars
  BY <1>1
<1> QED BY <1>2, AlwaysIndInv, PTL DEF Spec, JobsStayOnTarget

-----------------------------------------------------------------------------
(* Cancelling.  An id is added by one call only, before it is known.       *)

AddedOnce ==
  /\ known \subseteq docs
  /\ \A p \in Process : pc[p] \in Adding => arg[p] \notin known
  /\ \A p, q \in Process :
       pc[p] \in Adding /\ pc[q] \in Adding /\ arg[p] = arg[q] => p = q

LEMMA InitAddedOnce == Init => AddedOnce
BY DEF Init, AddedOnce, Adding

(* The steps that leave documents, jobs and calls alone.                   *)
LEMMA OtherSteps ==
  ASSUME \/ \E p \in Process, j \in Job : SchedulerStep(p, j) \/ RunStep(p, j)
         \/ \E p \in Process, j \in Job : ReadFails(p, j)
         \/ \E p \in Process, h \in held : h[1] = p /\ ApplyFails(p, h[2], h[3])
         \/ \E rate \in RateArg : AgentApplies(rate)
         \/ \E p \in Process : CallMonitor(p)
         \/ Tick
         \/ UNCHANGED vars
  PROVE  UNCHANGED <<docs, jobs, pc, arg, known, cancelled>>
BY DEF SchedulerStep, RunStep, ReadFails, ApplyFails, AgentApplies, CallMonitor, Tick,
       vars, Fetch, Submit, ReadPolicy, ApplyPolicy

(* The others, by name.                                                    *)
LEMMA StoreSteps ==
  ASSUME [Next]_vars
  PROVE  \/ UNCHANGED <<docs, jobs, pc, arg, known, cancelled>>
         \/ \E p \in Process :
              \/ \E s \in Schedule : CallSchedule(p, s) \/ CallCancel(p, s)
              \/ AddApply(p) \/ AddRevert(p) \/ AddFails(p)
              \/ RemoveApply(p) \/ RemoveRevert(p) \/ MarkInactive(p)
              \/ CallPurge(p) \/ PurgeEnds(p) \/ Crash(p)
              \/ \E j \in Job : PurgeNext(p, j)
BY OtherSteps DEF Next, ToolCall, CallStep, Fails

LEMMA StepAddedOnce ==
  ASSUME IndInv, AddedOnce, [Next]_vars
  PROVE  AddedOnce'
<1> USE DEF IndInv, TypeOK, CallsRefer, Adding
<1>1. CASE UNCHANGED <<docs, jobs, pc, arg, known, cancelled>>
  BY <1>1 DEF AddedOnce
<1>2. ASSUME NEW p \in Process, NEW s \in Schedule, CallSchedule(p, s)
      PROVE  AddedOnce'
  BY <1>2 DEF CallSchedule, AddedOnce
<1>3. ASSUME NEW p \in Process, NEW s \in Schedule, CallCancel(p, s)
      PROVE  AddedOnce'
  BY <1>3 DEF CallCancel, AddedOnce
<1>4. ASSUME NEW p \in Process, AddApply(p)
      PROVE  AddedOnce'
  BY <1>4 DEF AddApply, AddedOnce
<1>5. ASSUME NEW p \in Process, AddRevert(p)
      PROVE  AddedOnce'
  BY <1>5 DEF AddRevert, AddedOnce
<1>6. ASSUME NEW p \in Process,
             AddFails(p) \/ CallPurge(p) \/ PurgeEnds(p) \/ Crash(p)
                \/ \E j \in Job : PurgeNext(p, j)
      PROVE  AddedOnce'
  BY <1>6 DEF AddFails, CallPurge, PurgeEnds, Crash, PurgeNext, AddedOnce
<1>7. ASSUME NEW p \in Process, RemoveApply(p) \/ RemoveRevert(p) \/ MarkInactive(p)
      PROVE  AddedOnce'
  BY <1>7 DEF RemoveApply, RemoveRevert, MarkInactive, AddedOnce
<1> QED BY <1>1, <1>2, <1>3, <1>4, <1>5, <1>6, <1>7, StoreSteps

(* What the steps of a cancel have removed so far.                         *)
CancelInv ==
  /\ \A p \in Process :
       /\ pc[p] \in {"rm_revert", "flag"} => ApplyJob(arg[p]) \notin jobs
       /\ pc[p] = "flag" => RevertJob(arg[p]) \notin jobs
  /\ CancelledStaysOut

LEMMA JobCases ==
  \A j \in Job : j = ApplyJob(j.id) \/ j = RevertJob(j.id)
BY DEF Job, ApplyJob, RevertJob

LEMMA StepCancelInv ==
  ASSUME IndInv, AddedOnce, CancelInv, [Next]_vars, "mongo" \notin Fault
  PROVE  CancelInv'
<1> USE DEF IndInv, TypeOK
<1>1. CASE UNCHANGED <<docs, jobs, pc, arg, known, cancelled>>
  BY <1>1 DEF CancelInv, CancelledStaysOut
<1>2. ASSUME NEW p \in Process, NEW s \in Schedule,
             CallSchedule(p, s) \/ CallCancel(p, s)
      PROVE  CancelInv'
  BY <1>2 DEF CallSchedule, CallCancel, CancelInv, CancelledStaysOut
<1>3. ASSUME NEW p \in Process, AddApply(p) \/ AddRevert(p)
      PROVE  CancelInv'
  <2>1. /\ jobs' \subseteq jobs \cup {ApplyJob(arg[p]), RevertJob(arg[p])}
        /\ UNCHANGED <<arg, cancelled>>
        /\ \E where \in {"add_revert", "idle"} : pc' = [pc EXCEPT ![p] = where]
    BY <1>3 DEF AddApply, AddRevert
  <2>2. arg[p] \notin known
    BY <1>3 DEF AddApply, AddRevert, AddedOnce, Adding
  <2>3. \A q \in Process : pc[q] \in {"rm_revert", "flag"} => arg[q] \in known
    BY DEF CallsRefer, Removing
  <2>4. \A j \in {ApplyJob(arg[p]), RevertJob(arg[p])} : j.id = arg[p]
    BY JobParts
  <2>5. \A q \in Process : ApplyJob(arg[q]).id = arg[q] /\ RevertJob(arg[q]).id = arg[q]
    BY JobParts
  <2> QED BY <2>1, <2>2, <2>3, <2>4, <2>5 DEF CancelInv, CancelledStaysOut
<1>4. ASSUME NEW p \in Process,
             AddFails(p) \/ CallPurge(p) \/ PurgeEnds(p) \/ Crash(p)
                \/ \E j \in Job : PurgeNext(p, j)
      PROVE  CancelInv'
  BY <1>4 DEF AddFails, CallPurge, PurgeEnds, Crash, PurgeNext, Remove, CancelInv,
              CancelledStaysOut
<1>5. ASSUME NEW p \in Process, RemoveApply(p)
      PROVE  CancelInv'
  BY <1>5 DEF RemoveApply, Remove, CancelInv, CancelledStaysOut
<1>6. ASSUME NEW p \in Process, RemoveRevert(p)
      PROVE  CancelInv'
  BY <1>6 DEF RemoveRevert, Remove, CancelInv, CancelledStaysOut
<1>7. ASSUME NEW p \in Process, MarkInactive(p)
      PROVE  CancelInv'
  <2>1. \A j \in jobs : j.id # arg[p]
    BY <1>7, JobCases DEF MarkInactive, CancelInv
  <2> QED BY <1>7, <2>1 DEF MarkInactive, CancelInv, CancelledStaysOut
<1> QED BY <1>1, <1>2, <1>3, <1>4, <1>5, <1>6, <1>7, StoreSteps

LEMMA InitCancelInv == Init => CancelInv
BY DEF Init, CancelInv, CancelledStaysOut

LEMMA AlwaysCancelInv ==
  ASSUME "mongo" \notin Fault
  PROVE  Spec => [](IndInv /\ CancelInv)
<1>1. Init => AddedOnce /\ CancelInv
  BY InitAddedOnce, InitCancelInv
<1>2. IndInv /\ AddedOnce /\ CancelInv /\ [Next]_vars => (AddedOnce /\ CancelInv)'
  BY StepAddedOnce, StepCancelInv
<1> QED BY <1>1, <1>2, AlwaysIndInv, PTL DEF Spec

(* Where no database call fails, a schedule whose cancel reported success  *)
(* (cancel_schedule) is out of the store and stays out, for any number of  *)
(* processes and schedulers, crashes and purges included.                  *)
THEOREM CancelledAlwaysOut ==
  ASSUME "mongo" \notin Fault
  PROVE  Spec => []CancelledStaysOut
<1>1. CancelInv => CancelledStaysOut BY DEF CancelInv
<1> QED BY <1>1, AlwaysCancelInv, PTL

(* A scheduler's fetched jobs are in the store: remove_job waits for it.   *)
SeenStored == \A x \in seen : x[2] \in jobs

LEMMA StepSeenStored ==
  ASSUME IndInv, SeenStored, [Next]_vars, \A p, q \in Process : p = q
  PROVE  SeenStored'
<1> USE DEF IndInv, TypeOK
<1>1. ASSUME NEW p \in Process, ToolCall(p)
      PROVE  SeenStored'
  BY <1>1 DEF ToolCall, CallSchedule, CallCancel, CallMonitor, CallPurge, SeenStored
<1>2. ASSUME NEW p \in Process, Unlocked(p)
      PROVE  seen = {}
  BY <1>2 DEF Unlocked
<1>3. ASSUME NEW p \in Process, CallStep(p)
      PROVE  SeenStored'
  <2>1. CASE AddApply(p) \/ AddRevert(p) \/ MarkInactive(p) \/ PurgeEnds(p)
    BY <2>1 DEF AddApply, AddRevert, MarkInactive, PurgeEnds, SeenStored
  <2>2. CASE RemoveApply(p) \/ RemoveRevert(p) \/ \E j \in Job : PurgeNext(p, j)
    BY <2>2, <1>2 DEF RemoveApply, RemoveRevert, PurgeNext, SeenStored
  <2> QED BY <1>3, <2>1, <2>2 DEF CallStep
<1>4. ASSUME NEW p \in Process, Fails(p)
      PROVE  seen' \subseteq seen /\ UNCHANGED jobs
  BY <1>4 DEF Fails, AddFails, Crash, ReadFails, ApplyFails
<1>5. ASSUME NEW p \in Process, NEW j \in Job, SchedulerStep(p, j) \/ RunStep(p, j)
      PROVE  SeenStored'
  <2>1. CASE Fetch(p, j)
    BY <2>1 DEF Fetch, SeenStored
  <2>2. CASE Submit(p, j)
    BY <2>2 DEF Submit, SeenStored
  <2>3. ASSUME NEW rate, ReadPolicy(p, j) \/ ApplyPolicy(p, j, rate)
        PROVE  SeenStored'
    BY <2>3 DEF ReadPolicy, ApplyPolicy, SeenStored
  <2> QED BY <1>5, <2>1, <2>2, <2>3 DEF SchedulerStep, RunStep
<1>6. CASE Tick \/ UNCHANGED vars \/ \E rate \in RateArg : AgentApplies(rate)
  BY <1>6 DEF Tick, vars, AgentApplies, SeenStored
<1> QED BY <1>1, <1>3, <1>4, <1>5, <1>6 DEF Next, SeenStored

(* Only a scheduler that submits a fetched job starts a run.               *)
LEMMA StartedBySubmit ==
  ASSUME [Next]_vars, NEW p \in Process, NEW j \in Job, <<p, j>> \in queued' \ queued
  PROVE  <<p, j>> \in seen
<1>1. ASSUME NEW q \in Process, NEW k \in Job, Submit(q, k)
      PROVE  <<p, j>> \in seen
  BY <1>1 DEF Submit
<1>2. ASSUME NEW q \in Process, ToolCall(q) \/ CallStep(q) \/ Fails(q)
      PROVE  FALSE
  BY <1>2 DEF ToolCall, CallStep, Fails, CallSchedule, AddApply, AddRevert, AddFails,
              CallCancel, RemoveApply, RemoveRevert, MarkInactive, CallMonitor,
              CallPurge, PurgeNext, PurgeEnds, Crash, ReadFails, ApplyFails
<1>3. ASSUME NEW q \in Process, NEW k \in Job, Fetch(q, k) \/ RunStep(q, k)
      PROVE  FALSE
  BY <1>3 DEF Fetch, RunStep, ReadPolicy, ApplyPolicy
<1>4. ~(Tick \/ UNCHANGED vars \/ \E rate \in RateArg : AgentApplies(rate))
  BY DEF Tick, vars, AgentApplies
<1> QED BY <1>1, <1>2, <1>3, <1>4 DEF Next, SchedulerStep

(* With one process and no database failure, a cancelled schedule starts   *)
(* no further run: the scheduler's lock covers its fetch and its submit.   *)
THEOREM NeverLateStart ==
  ASSUME "mongo" \notin Fault, \A p, q \in Process : p = q
  PROVE  Spec => NoLateStart
<1>1. Init => SeenStored
  BY DEF Init, SeenStored
<1>2. IndInv /\ SeenStored /\ [Next]_vars => SeenStored'
  BY StepSeenStored
<1>3. CancelInv /\ SeenStored /\ [Next]_vars =>
        [\A p \in Process, j \in Job :
           <<p, j>> \in queued' \ queued => j.id \notin cancelled]_vars
  BY StartedBySubmit DEF CancelInv, CancelledStaysOut, SeenStored
<1>4. Spec => [](IndInv /\ CancelInv)
  BY AlwaysCancelInv
<1> QED BY <1>1, <1>2, <1>3, <1>4, PTL DEF Spec, NoLateStart

-----------------------------------------------------------------------------
(* A schedule's two jobs come and go together.                             *)

PairInv ==
  /\ \A p \in Process : /\ pc[p] # "purge"
                        /\ pc[p] = "add_revert" => ApplyJob(arg[p]) \in jobs
  /\ PairStaysWhole

(* Steps by which no process enters, leaves or changes a cancel.           *)
LEMMA SameCancels ==
  ASSUME \A p \in Process : \/ arg'[p] = arg[p] /\ pc'[p] = pc[p]
                            \/ pc[p] \notin Removing /\ pc'[p] \notin Removing,
         NEW s
  PROVE  Cancelling(s)' <=> Cancelling(s)
BY DEF Cancelling, Removing

LEMMA StepPairInv ==
  ASSUME IndInv, AddedOnce, PairInv, [Next]_vars, Fault = {},
         \A p \in Process : "purge" \notin Tools[p]
  PROVE  PairInv'
<1> USE DEF IndInv, TypeOK
<1>1. CASE UNCHANGED <<docs, jobs, pc, arg, known, cancelled>>
  BY <1>1 DEF PairInv, PairStaysWhole, Cancelling
<1>2. ASSUME NEW p \in Process, NEW s \in Schedule, CallSchedule(p, s)
      PROVE  PairInv'
  <2>1. \A t : Cancelling(t)' <=> Cancelling(t)
    BY <1>2, SameCancels DEF CallSchedule, Removing
  <2> QED BY <1>2, <2>1 DEF CallSchedule, PairInv, PairStaysWhole
<1>3. ASSUME NEW p \in Process, NEW s \in Schedule, CallCancel(p, s)
      PROVE  PairInv'
  <2>1. \A t : Cancelling(t) => Cancelling(t)'
    BY <1>3 DEF CallCancel, Cancelling
  <2> QED BY <1>3, <2>1 DEF CallCancel, PairInv, PairStaysWhole
<1>4. ASSUME NEW p \in Process, AddApply(p)
      PROVE  PairInv'
  <2>1. \A t : Cancelling(t)' <=> Cancelling(t)
    BY <1>4, SameCancels DEF AddApply, Removing
  <2> QED BY <1>4, <2>1 DEF AddApply, PairInv, PairStaysWhole
<1>5. ASSUME NEW p \in Process, AddRevert(p)
      PROVE  PairInv'
  <2>1. \A t : Cancelling(t)' <=> Cancelling(t)
    BY <1>5, SameCancels DEF AddRevert, Removing
  <2> QED BY <1>5, <2>1 DEF AddRevert, PairInv, PairStaysWhole
<1>6. ASSUME NEW p \in Process, RemoveApply(p) \/ RemoveRevert(p)
      PROVE  PairInv'
  <2>1. /\ jobs \ {ApplyJob(arg[p]), RevertJob(arg[p])} \subseteq jobs'
        /\ arg[p] \in known
        /\ \E where \in {"rm_revert", "flag"} : pc' = [pc EXCEPT ![p] = where]
        /\ pc[p] \in Removing
        /\ UNCHANGED <<arg, known, cancelled>>
    BY <1>6 DEF RemoveApply, RemoveRevert, Remove, CallsRefer, Removing
  <2>2. \A t : Cancelling(t) => Cancelling(t)'
    BY <2>1 DEF Cancelling
  <2>3. Cancelling(arg[p])'
    BY <2>1 DEF Cancelling
  <2>4. \A t : t # arg[p] => /\ ApplyJob(t) \in jobs => ApplyJob(t) \in jobs'
                             /\ RevertJob(t) \in jobs => RevertJob(t) \in jobs'
    BY <2>1, JobParts
  <2>5. \A q \in Process : pc'[q] = "add_revert" =>
          pc[q] = "add_revert" /\ arg[q] \notin known
    BY <2>1 DEF AddedOnce, Adding
  <2> QED BY <2>1, <2>2, <2>3, <2>4, <2>5 DEF PairInv, PairStaysWhole
<1>7. ASSUME NEW p \in Process, MarkInactive(p)
      PROVE  PairInv'
  <2>1. \A t : Cancelling(t) /\ t # arg[p] => Cancelling(t)'
    BY <1>7 DEF MarkInactive, Cancelling
  <2> QED BY <1>7, <2>1 DEF MarkInactive, PairInv, PairStaysWhole
<1>8. ASSUME NEW p \in Process,
             AddFails(p) \/ CallPurge(p) \/ PurgeEnds(p) \/ Crash(p)
                \/ \E j \in Job : PurgeNext(p, j)
      PROVE  FALSE
  <2>1. ~AddFails(p) /\ ~Crash(p)
    BY DEF AddFails, Crash
  <2>2. ~CallPurge(p)
    BY DEF CallPurge
  <2>3. pc[p] # "purge"
    BY DEF PairInv
  <2>4. ~PurgeEnds(p)
    BY <2>3 DEF PurgeEnds
  <2>5. ASSUME NEW j \in Job PROVE ~PurgeNext(p, j)
    BY <2>3 DEF PurgeNext
  <2> QED BY <1>8, <2>1, <2>2, <2>4, <2>5
<1> QED BY <1>1, <1>2, <1>3, <1>4, <1>5, <1>6, <1>7, <1>8, StoreSteps

(* Where nothing fails or dies and nothing purges, a schedule whose id     *)
(* schedule_policy_change returned has its apply and its revert job until  *)
(* a cancel of it begins, for any number of processes.                     *)
THEOREM PairAlwaysWhole ==
  ASSUME Fault = {}, \A p \in Process : "purge" \notin Tools[p]
  PROVE  Spec => []PairStaysWhole
<1>1. Init => PairInv
  BY DEF Init, PairInv, PairStaysWhole
<1>2. IndInv /\ AddedOnce /\ PairInv /\ [Next]_vars => (AddedOnce /\ PairInv)'
  BY StepAddedOnce, StepPairInv
<1>3. PairInv => PairStaysWhole
  BY DEF PairInv
<1> QED BY <1>1, <1>2, <1>3, InitAddedOnce, AlwaysIndInv, PTL DEF Spec

=============================================================================
