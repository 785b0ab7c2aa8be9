--------------------------- MODULE PolicySchedule ---------------------------
(***************************************************************************)
(* MonitoringManager: schedules that raise a slice's AMBR at one time of   *)
(* day and lower it at another (tools/monitoring_manager.py).              *)
(*                                                                         *)
(* A schedule is a document and two cron jobs in a MongoDB job store that  *)
(* every process shares.  A process has a scheduler only after its first   *)
(* call of a monitoring tool; the scheduler fetches the jobs that are due, *)
(* hands them to its pool and stores their next time.  A job reads the     *)
(* current AMBR, scales it and calls apply_policy, which is one step here: *)
(* SubscriberPlane has its interleavings.                                  *)
(*                                                                         *)
(* Time is the time of day, in slots.  Every schedule runs on every day.   *)
(* Rates are downlink AMBRs in Mbps; the uplink is scaled the same way.    *)
(***************************************************************************)
EXTENDS SubscriberDoc, FiniteSets

CONSTANTS
  First,     (* the subscriber get_current_policy lists first              *)
  InitRate,  (* [Subscriber -> AmbrMbps]                                   *)
  Schedule,  (* schedule ids                                               *)
  Request,   (* [Schedule -> the arguments it is made with]                *)
  Slot,      (* the times of a day, 0 .. n-1                               *)
  Process,   (* processes that import the tools                            *)
  Tools,     (* [Process -> SUBSET Tool]                                   *)
  RateArg,   (* AMBRs the agent applies itself                             *)
  Prompt,    (* TRUE: no slot passes before the jobs due in it have run    *)
  Fault      (* the failures of this instance                              *)

Tool      == {"schedule", "cancel", "monitor", "purge"}
FaultKind == {"mongo", "crash"}

ASSUME ScheduleAssumption ==
  /\ First \in Subscriber
  /\ InitRate \in [Subscriber -> AmbrMbps]
  /\ Slot \subseteq Int
  /\ Request \in [Schedule -> [action : {"increase_ambr", "decrease_ambr"},
                               delta  : Int,
                               start  : Slot,
                               end    : Slot,
                               target : Subscriber \cup {None}]]
  /\ Tools \in [Process -> SUBSET Tool]
  /\ RateArg \subseteq AmbrMbps
  /\ Prompt \in BOOLEAN
  /\ Fault \subseteq FaultKind

Job == [kind : {"apply", "revert"}, id : Schedule]

ApplyJob(s)  == [kind |-> "apply",  id |-> s]
RevertJob(s) == [kind |-> "revert", id |-> s]

VARIABLES
  ambr,      (* [Subscriber -> AmbrMbps], the slice's rate in Open5GS      *)
  docs,      (* schedule documents; none is ever marked inactive           *)
  jobs,      (* the job store                                              *)
  due,       (* the stored jobs whose next time has come                   *)
  now,       (* the current slot                                           *)
  up,        (* processes whose scheduler runs                             *)
  seen,      (* pairs: due jobs a scheduler has fetched and not submitted  *)
  queued,    (* pairs: runs handed to a process's pool                     *)
  held,      (* triples: runs that computed a new rate and have not        *)
             (* applied it                                                 *)
  pc,        (* where each process is in a tool call                       *)
  arg,       (* the schedule the call is about                             *)
  todo,      (* the jobs a purge has yet to remove                         *)
  known,     (* ids that a successful schedule call returned               *)
  cancelled  (* ids whose cancel call reported success                     *)

store  == <<docs, jobs, due>>
pools  == <<seen, queued, held>>
caller == <<pc, arg, todo, known, cancelled>>
vars   == <<ambr, now, up, store, pools, caller>>

Init ==
  /\ ambr = InitRate
  /\ docs = {} /\ jobs = {} /\ due = {}
  /\ now \in Slot
  /\ up = {}
  /\ seen = {} /\ queued = {} /\ held = {}
  /\ pc  = [p \in Process |-> "idle"]
  /\ arg = [p \in Process |-> None]
  /\ todo = [p \in Process |-> {}]
  /\ known = {} /\ cancelled = {}

Goto(p, where) == pc' = [pc EXCEPT ![p] = where]

-----------------------------------------------------------------------------
(* schedule_policy_change: the document, the apply job, the revert job.    *)

(* The arguments are parsed and the document inserted.  The insert may     *)
(* have been the first step to fail, which leaves nothing behind.          *)
CallSchedule(p, s) ==
  /\ "schedule" \in Tools[p]
  /\ pc[p] = "idle"
  /\ s \notin docs
  /\ docs' = docs \cup {s}
  /\ Goto(p, "add_apply")
  /\ arg' = [arg EXCEPT ![p] = s]
  /\ UNCHANGED <<ambr, now, up, jobs, due, pools, todo, known, cancelled>>

(* Mutant: the id is returned before the revert job is stored.             *)
AddApplyReturnsId(p) ==
  /\ pc[p] = "add_apply"
  /\ up'   = up \cup {p}
  /\ jobs' = jobs \cup {ApplyJob(arg[p])}
  /\ known' = known \cup {arg[p]}
  /\ Goto(p, "add_revert")
  /\ UNCHANGED <<ambr, now, docs, due, pools, arg, todo, cancelled>>

(* _get_scheduler starts this process's scheduler if none runs.  A job is  *)
(* first due the next time its slot begins.                                *)
AddApply(p) ==
  /\ pc[p] = "add_apply"
  /\ up'   = up \cup {p}
  /\ jobs' = jobs \cup {ApplyJob(arg[p])}
  /\ Goto(p, "add_revert")
  /\ UNCHANGED <<ambr, now, docs, due, pools, arg, todo, known, cancelled>>

AddRevert(p) ==
  /\ pc[p] = "add_revert"
  /\ jobs'  = jobs \cup {RevertJob(arg[p])}
  /\ known' = known \cup {arg[p]}
  /\ Goto(p, "idle")
  /\ UNCHANGED <<ambr, now, up, docs, due, pools, arg, todo, cancelled>>

(* The store raised: the call returns a failure, without the id.           *)
AddFails(p) ==
  /\ "mongo" \in Fault
  /\ pc[p] \in {"add_apply", "add_revert"}
  /\ up' \in {up, up \cup {p}}
  /\ Goto(p, "idle")
  /\ UNCHANGED <<ambr, now, store, pools, arg, todo, known, cancelled>>

-----------------------------------------------------------------------------
(* cancel_schedule: remove both jobs, ignoring any exception, and mark the *)
(* document.  A caller has the id only from a schedule call: list_schedules *)
(* leaves it out.                                                          *)

CallCancel(p, s) ==
  /\ "cancel" \in Tools[p]
  /\ pc[p] = "idle"
  /\ s \in known
  /\ up' = up \cup {p}
  /\ Goto(p, "rm_apply")
  /\ arg' = [arg EXCEPT ![p] = s]
  /\ UNCHANGED <<ambr, now, store, pools, todo, known, cancelled>>

(* Mutant: jobs are removed without the scheduler's lock.                  *)
UnlockedAlways(p) == TRUE

(* remove_job waits for the lock that this process's scheduler holds from  *)
(* fetching the due jobs until it has stored their next times.             *)
Unlocked(p) == \A j \in Job : <<p, j>> \notin seen

Remove(j) ==
  \/ jobs' = jobs \ {j} /\ due' = due \ {j}
  \/ "mongo" \in Fault /\ UNCHANGED <<jobs, due>>

RemoveApply(p) ==
  /\ pc[p] = "rm_apply"
  /\ Unlocked(p)
  /\ Remove(ApplyJob(arg[p]))
  /\ Goto(p, "rm_revert")
  /\ UNCHANGED <<ambr, now, up, docs, pools, arg, todo, known, cancelled>>

(* Mutant: the prefix of the second id is wrong, and the exception that    *)
(* follows is ignored.                                                     *)
RemoveRevertWrongId(p) ==
  /\ pc[p] = "rm_revert"
  /\ Unlocked(p)
  /\ Remove(ApplyJob(arg[p]))
  /\ Goto(p, "flag")
  /\ UNCHANGED <<ambr, now, up, docs, pools, arg, todo, known, cancelled>>

RemoveRevert(p) ==
  /\ pc[p] = "rm_revert"
  /\ Unlocked(p)
  /\ Remove(RevertJob(arg[p]))
  /\ Goto(p, "flag")
  /\ UNCHANGED <<ambr, now, up, docs, pools, arg, todo, known, cancelled>>

(* The update looks for a string where the documents have ObjectIds, so    *)
(* it matches none and the schedule stays active; success is reported      *)
(* unless the update raises.                                               *)
MarkInactive(p) ==
  /\ pc[p] = "flag"
  /\ \/ cancelled' = cancelled \cup {arg[p]}
     \/ "mongo" \in Fault /\ UNCHANGED cancelled
  /\ Goto(p, "idle")
  /\ UNCHANGED <<ambr, now, up, store, pools, arg, todo, known>>

-----------------------------------------------------------------------------
(* The other callers of _get_scheduler.                                    *)

(* monitor_metric adds a job of its own, which touches no policy.          *)
CallMonitor(p) ==
  /\ "monitor" \in Tools[p]
  /\ pc[p] = "idle"
  /\ up' = up \cup {p}
  /\ UNCHANGED <<ambr, now, store, pools, caller>>

(* srsran/purge_stale_schedules.py removes the jobs it finds.              *)
CallPurge(p) ==
  /\ "purge" \in Tools[p]
  /\ pc[p] = "idle"
  /\ up'   = up \cup {p}
  /\ todo' = [todo EXCEPT ![p] = jobs]
  /\ Goto(p, "purge")
  /\ UNCHANGED <<ambr, now, store, pools, arg, known, cancelled>>

PurgeNext(p, j) ==
  /\ pc[p] = "purge"
  /\ j \in todo[p]
  /\ Unlocked(p)
  /\ Remove(j)
  /\ todo' = [todo EXCEPT ![p] = @ \ {j}]
  /\ UNCHANGED <<ambr, now, up, docs, pools, pc, arg, known, cancelled>>

PurgeEnds(p) ==
  /\ pc[p] = "purge"
  /\ todo[p] = {}
  /\ Goto(p, "idle")
  /\ UNCHANGED <<ambr, now, up, store, pools, arg, todo, known, cancelled>>

-----------------------------------------------------------------------------
(* The clock and the scheduler (APScheduler).                              *)

At(j) == IF j.kind = "apply" THEN Request[j.id].start ELSE Request[j.id].end

Idle == seen = {} /\ queued = {} /\ held = {}

(* A slot passes.  A run that has not begun by then is dropped: the grace  *)
(* time of a missed run is one second.                                     *)
Tick ==
  /\ Prompt => Idle /\ (due = {} \/ up = {})
  /\ now' = IF now + 1 \in Slot THEN now + 1 ELSE 0
  /\ due' = {j \in jobs : At(j) = now'}
  /\ seen' = {} /\ queued' = {}
  /\ UNCHANGED <<ambr, up, docs, jobs, held, caller>>

Fetch(p, j) ==
  /\ p \in up
  /\ j \in due
  /\ <<p, j>> \notin seen
  /\ seen' = seen \cup {<<p, j>>}
  /\ UNCHANGED <<ambr, now, up, store, queued, held, caller>>

InPool(p, j) == \/ <<p, j>> \in queued
                \/ \E h \in held : h[1] = p /\ h[2] = j

(* The run goes to the pool, unless this process is still running the job, *)
(* and the job's next time is stored; a job removed meanwhile stays so.    *)
Submit(p, j) ==
  /\ <<p, j>> \in seen
  /\ seen'   = seen \ {<<p, j>>}
  /\ queued' = IF InPool(p, j) THEN queued ELSE queued \cup {<<p, j>>}
  /\ due'    = due \ {j}
  /\ UNCHANGED <<ambr, now, up, docs, jobs, held, caller>>

-----------------------------------------------------------------------------
(* The job callback _run_policy_change.                                    *)

Delta(j) == IF j.kind = "apply" THEN Request[j.id].delta
                                ELSE -Request[j.id].delta

(* int(cur * (1 + pct / 100)): the product, truncated towards zero.        *)
Scaled(cur, pct) == LET n == cur * (100 + pct) IN
                    IF n >= 0 THEN n \div 100 ELSE -((-n) \div 100)

(* A result below 1 Mbps is replaced by 200 Mbps, scaled.                  *)
NewRate(cur, pct) == IF Scaled(cur, pct) < 1 THEN Scaled(200, pct)
                                             ELSE Scaled(cur, pct)

Target(j) == Request[j.id].target

(* The current policy is read: the target's rate, or the first             *)
(* subscriber's for the whole slice.                                       *)
ReadPolicy(p, j) ==
  LET source == IF Target(j) = None THEN First ELSE Target(j)
      new    == NewRate(ambr[source], Delta(j))
  IN
  /\ <<p, j>> \in queued
  /\ queued' = queued \ {<<p, j>>}
  /\ held'   = held \cup {<<p, j, new>>}
  /\ UNCHANGED <<ambr, now, up, store, seen, caller>>

(* get_current_policy failed; the job logs and returns.                    *)
ReadFails(p, j) ==
  /\ "mongo" \in Fault
  /\ <<p, j>> \in queued
  /\ queued' = queued \ {<<p, j>>}
  /\ UNCHANGED <<ambr, now, up, store, seen, held, caller>>

(* Mutant: the job forgets its target.                                     *)
SetRateWholeSlice(target, rate) == ambr' = [u \in Subscriber |-> rate]

(* apply_policy on the target, or on every subscriber of the slice.        *)
SetRate(target, rate) ==
  ambr' = [u \in Subscriber |-> IF target \in {u, None} THEN rate ELSE ambr[u]]

(* Mutant: the exception leaves the run in the pool.                       *)
ApplyPolicyHangs(p, j, rate) ==
  /\ <<p, j, rate>> \in held
  /\ rate \in AmbrMbps
  /\ held' = held \ {<<p, j, rate>>}
  /\ SetRate(Target(j), rate)
  /\ UNCHANGED <<now, up, store, seen, queued, caller>>

(* A rate out of range raises in apply_policy; the job logs and returns.   *)
ApplyPolicy(p, j, rate) ==
  /\ <<p, j, rate>> \in held
  /\ held' = held \ {<<p, j, rate>>}
  /\ IF rate \in AmbrMbps THEN SetRate(Target(j), rate) ELSE UNCHANGED ambr
  /\ UNCHANGED <<now, up, store, seen, queued, caller>>

ApplyFails(p, j, rate) ==
  /\ "mongo" \in Fault
  /\ <<p, j, rate>> \in held
  /\ held' = held \ {<<p, j, rate>>}
  /\ UNCHANGED <<ambr, now, up, store, seen, queued, caller>>

(* The agent, or the harness's reset, applies a rate of its own.           *)
AgentApplies(rate) ==
  /\ SetRate(None, rate)
  /\ UNCHANGED <<now, up, store, pools, caller>>

-----------------------------------------------------------------------------
(* A process dies and is started again, without a scheduler.               *)
Crash(p) ==
  /\ "crash" \in Fault
  /\ up'     = up \ {p}
  /\ seen'   = {x \in seen   : x[1] # p}
  /\ queued' = {x \in queued : x[1] # p}
  /\ held'   = {x \in held   : x[1] # p}
  /\ todo'   = [todo EXCEPT ![p] = {}]
  /\ Goto(p, "idle")
  /\ UNCHANGED <<ambr, now, store, arg, known, cancelled>>

-----------------------------------------------------------------------------

ToolCall(p) ==
  \/ \E s \in Schedule : CallSchedule(p, s) \/ CallCancel(p, s)
  \/ CallMonitor(p) \/ CallPurge(p)

CallStep(p) ==
  \/ AddApply(p) \/ AddRevert(p)
  \/ RemoveApply(p) \/ RemoveRevert(p) \/ MarkInactive(p)
  \/ (\E j \in Job : PurgeNext(p, j)) \/ PurgeEnds(p)

SchedulerStep(p, j) == Fetch(p, j) \/ Submit(p, j)

RunStep(p, j) == \/ ReadPolicy(p, j)
                 \/ \E h \in held : /\ h[1] = p /\ h[2] = j
                                    /\ ApplyPolicy(p, j, h[3])

Fails(p) ==
  \/ AddFails(p) \/ Crash(p)
  \/ \E j \in Job : ReadFails(p, j)
  \/ \E h \in held : h[1] = p /\ ApplyFails(p, h[2], h[3])

Next == \/ \E p \in Process : ToolCall(p) \/ CallStep(p) \/ Fails(p)
        \/ \E p \in Process, j \in Job : SchedulerStep(p, j) \/ RunStep(p, j)
        \/ \E rate \in RateArg : AgentApplies(rate)
        \/ Tick

Spec == Init /\ [][Next]_vars

(* Threads that can run do run (a run has a thread of its own in the pool) *)
(* and time passes.                                                        *)
FairSpec == /\ Spec
            /\ \A p \in Process : WF_vars(CallStep(p))
            /\ \A p \in Process, j \in Job : /\ WF_vars(SchedulerStep(p, j))
                                             /\ WF_vars(RunStep(p, j))
            /\ WF_vars(Tick)

-----------------------------------------------------------------------------
(* Correctness.                                                            *)

CallSite == {"idle", "add_apply", "add_revert", "rm_apply", "rm_revert",
             "flag", "purge"}

(* Every variable keeps its type; whatever the jobs compute, no rate       *)
(* leaves the range the policy tool allows.                                *)
TypeOK ==
  /\ ambr \in [Subscriber -> AmbrMbps]
  /\ docs \subseteq Schedule
  /\ jobs \subseteq Job /\ due \subseteq jobs
  /\ now \in Int
  /\ up \subseteq Process
  /\ seen \subseteq Process \X Job
  /\ queued \subseteq Process \X Job
  /\ held \subseteq Process \X Job \X Int
  /\ pc \in [Process -> CallSite]
  /\ arg \in [Process -> Schedule \cup {None}]
  /\ todo \in [Process -> SUBSET Job]
  /\ known \subseteq Schedule /\ cancelled \subseteq known

(* The document is stored first, "so jobs can reference it": whatever      *)
(* fails or dies, a stored job's document exists.                          *)
JobsHaveDocs == \A j \in jobs : j.id \in docs

Cancelling(s) == \E p \in Process : arg[p] = s /\ pc[p] \in {"rm_apply", "rm_revert", "flag"}

(* A schedule whose id was returned has both its jobs until a cancel of it *)
(* begins: it is never left applying without reverting, nor the reverse.   *)
PairStaysWhole ==
  \A s \in known \ cancelled :
    ~Cancelling(s) => {ApplyJob(s), RevertJob(s)} \subseteq jobs

(* A cancelled schedule is out of the store and stays out, though another  *)
(* process may be storing a next time for its jobs.                        *)
CancelledStaysOut == \A j \in jobs : j.id \notin cancelled

(* A cancelled schedule starts no further run.                             *)
NoLateStart ==
  [][\A p \in Process, j \in Job :
       <<p, j>> \in queued' \ queued => j.id \notin cancelled]_vars

(* A rate changes only by a direct apply, or by a run of a schedule that   *)
(* was asked for, on a subscriber that it targets.                         *)
JobsStayOnTarget ==
  [][\A u \in Subscriber :
       ambr'[u] # ambr[u] =>
         \/ \A w \in Subscriber : ambr'[w] = ambr'[u] /\ ambr'[u] \in RateArg
         \/ \E h \in held \ held' : /\ Target(h[2]) \in {u, None}
                                    /\ h[2].id \in docs
                                    /\ ambr'[u] = h[3]]_vars

(* While its job stays in the store and a scheduler runs, a schedule fires *)
(* again and again.                                                        *)
FiresEveryDay ==
  \A p \in Process, j \in Job :
    <>[](p \in up /\ j \in jobs) => []<>(\E q \in Process : <<q, j>> \in queued)

(* A run that was started ends.                                            *)
RunsEnd == \A p \in Process, j \in Job : InPool(p, j) ~> ~InPool(p, j)

-----------------------------------------------------------------------------
(* What the repository says and the code does not do.                      *)

(* monitoring_manager.py:10: schedules are persisted "so they survive      *)
(* restarts": a job that stays in the store keeps firing.                  *)
SurvivesRestart ==
  \A j \in Job : <>[](j \in jobs) => []<>(\E q \in Process : <<q, j>> \in queued)

(* monitoring_manager.py:16: the revert job fires and the AMBR "returns to *)
(* original": with no direct apply, a revert never leaves a rate other     *)
(* than the one the schedules started from.                                *)
RevertRestores ==
  [][\A h \in held \ held' :
       h[2].kind = "revert" /\ ambr' # ambr => ambr' = InitRate]_vars

(* monitoring_manager.py:328: defaults are used "if stored value was 0":   *)
(* no stored rate is 0, so a run with a negative delta never raises one.   *)
LoweringLowers ==
  [][\A h \in held \ held', u \in Subscriber :
       Delta(h[2]) < 0 /\ ambr' # ambr /\ Target(h[2]) = u => ambr'[u] <= ambr[u]]_vars

(* mcp_server/server.py:258: the action is 'increase_ambr' or              *)
(* 'decrease_ambr': the apply job of a decrease lowers the rate.           *)
DecreaseLowers ==
  [][\A h \in held \ held', u \in Subscriber :
       /\ h[2].kind = "apply"
       /\ Request[h[2].id].action = "decrease_ambr"
       /\ Target(h[2]) = u
       => ambr'[u] <= ambr[u]]_vars

(* monitoring_manager.py:224: list_schedules returns "all active scheduled *)
(* tasks": none that was cancelled.                                        *)
ListedIsActive == docs \cap cancelled = {}

=============================================================================
