# PALA: a verification project

PALA is an LLM agent that manages a 5G core (Open5GS) through five tools, with
an analytics store (NWDAF) fed by a collector, a background scheduler, and a
harness that runs and scores agent sessions.  This directory holds TLA+ models
of the parts of that program whose correctness depends on order, interleaving
and failure, the TLC configurations that check them, and TLAPS proofs about
them.

The modules check with `tlc -config X.cfg M` and the proofs with
`tlapm M_proofs.tla`, from this directory.

## 1. The system

| part | state it keeps | operations | interacts with |
|---|---|---|---|
| subscriber documents (`tools/open5gs_schema.py`) | none; the schema of `open5gs.subscribers` | query, traversal, update document | every tool and the collector |
| PolicyManager (`tools/policy_manager.py`) | none; writes subscribers and audit records | `apply_policy`, `get_current_policy` | MongoDB, called by agent, scheduler, harness |
| SessionManager (`tools/session_manager.py`) | none; writes subscribers and audit records | `modify_session_qos`, `validate_qos_change`, `terminate_session`, reads | MongoDB, SMF over HTTP |
| QoSManager (`tools/qos_manager.py`) | none; replaces subscriber documents | `set_5qi`, `set_flow_br`, `restore_defaults` | MongoDB, called by experiments |
| MonitoringManager (`tools/monitoring_manager.py`) | a process-wide scheduler, a persistent job store, schedule documents | schedule, cancel, list, monitor; two job callbacks | PolicyManager, KPIAnalyzer |
| FeasibilityChecker (`tools/feasibility_checker.py`) | none; reads audit records and metrics | `check` | audit collection, metrics; asked by the agent and the suites |
| KPIAnalyzer (`tools/kpi_analyzer.py`) | none | `analyze` | metric collections |
| Collector, IsolatedCollector (`collector/`) | a thread, three metric collections | `start`, `stop`, one cycle | subscribers, kernel counters |
| PALA agent (`agent/agent.py`) | history, step count, goal flag | `run`, validation, safety gate | LLM, dispatcher |
| MCP server (`mcp_server/server.py`) | tool instances | dispatch | the tools |
| guardrails (`wave_experiments/shared/defense.py`) | patched class attributes, a call counter | `isolated_collector`, `h_budget`, `full_pala`, `as5_guard` | PolicyManager, KPIAnalyzer |
| session scoring (`wave_experiments/shared/agent_runner.py`, `srsran/llm_common.py`) | the trace of a session | `run_trial`, `enrich` | agent, probe |
| campaigns (`wave_experiments/run_wave*.py`, `shared/checkpoint.py`, `srsran/llm_common.py`, `experiments/run_queue.py`) | result files, progress files, child processes | run, resume, pause | everything above |
| experiments of the waves (`wave_experiments/exp*.py`, `run_multimodel.py`, `shared/db_clean.py`) | none between trials but the network's | clean, congest, write, session, reset, wait | PolicyManager, agent, the daemon's records |
| suites of experiments (`experiments/experiments_suite_v2`, `experiments/reproduce_all.py`) | the rate found at their start | read and keep a rate, write, ask the checker, wait, collect, mask records | PolicyManager, FeasibilityChecker, collectors, agent |
| enforcement (`srsran/ambr_enforcer.py`, `wave_experiments/shared/probe.py`) | HTB classes of the kernel, a table of them | `set_ue_ambr`, `clear_ue`, `setup` | kernel `tc` |
| HedgeTune (`wave_experiments/shared/hedgetune.py`) | none | `find_k_dagger`, `calibrate` | result of Q probes |
| scripted controller (`srsran/e4_scripted_controller.py`) | last write | one control session | PolicyManager, KPIAnalyzer, a collector |
| behavioural arms (`experiments/reproduce_all.py`, E7.7) | the processes it has stopped | stop and resume the daemon, purge, seed, raise, judge | collectors, PolicyManager, agent |
| radio broker (`srsran/zmq_broker.py`) | current downlink block, who has it, the uplink sum; two threads | serve a UE, answer the gNB | gNB and UEs over REQ/REP sockets |
| traffic, launchers, plots, stored results | traffic processes, figures | - | - |

What is hard about it:

* Tools are plain read-modify-write loops without a lock or a version test over
  shared documents, called from the agent, the scheduler's pool and scripts.
* Every write loop can stop halfway: a database error, a lost audit record, the
  death of the process.
* Two schemas for one fact: a session may be stored twice in one document, and
  the tools, the collector and the core read different copies.
* Schedules outlive the process that made them.
* A session's guardrails are patches of shared classes that every thread of the
  process sees.
* The analytics the agent decides on are computed from the policies it wrote,
  by a cycle that stamps its record before it reads and inserts it last.
* Campaigns take days and are resumed from files that a kill may leave torn.
* The enforcer keeps a table of what it has told the kernel, one command at a
  time, and both may be wrong about the other.
* The broker re-creates sockets that timed out while their peers go on answering
  what those asked.

What makes each part correct is listed with its module in section 3, and the
hazards, each at the line where it bites, are in PROJECT.json.

## 2. Plan

| order | module | what it answers | abstract specification and theorems |
|---|---|---|---|
| 1 | SubscriberDoc, SubscriberPlane (done) | do concurrent tools keep the documents right? | DocumentStore; type, agreement of the copies, targeting, truth of success, refinement |
| 2 | PolicySchedule (done) | do schedules fire, revert and stop as asked? | type, documents before jobs, target, cancelled stays out, pair stays whole |
| 3 | AgentSession (done) | is a session scored by what it really did, within its guardrails? | type, approval, verdicts, values, escalation, isolation, ceiling, budget |
| 4 | WaveCampaign with HedgeTune (done) | does a wave that is killed and resumed end with the trials, the gates and the budget it claims? | TrialLog; type, readable prefix, complete steps, gates before trials, a budget that settles and splits, refinement |
| 5 | AmbrEnforcer (done) | does the kernel enforce what was reported as set? | UeCeilings; type, table, reports, adapter's record, refinement |
| 6 | AnalyticsCircuit with CellCampaign, ScriptedController, BehaviouralArms, WaveTrials and SuiteTrials, composed in ExperimentHost (done) | what may a readback be taken to confirm, and when is a trial clean of the one before? | rows are the stage's own, settled trials and clean arms, rates and daemons put back, cooldown, readbacks, starts of sessions |
| 7 | RadioBroker (done) | which block reaches whom when answers come late? | type, sums, no block twice |
| 8 | SequenceParts (done), which the proofs about 3 and 6 share | what is a part of a sequence, and a repetition? | values, order and members of parts; paths through sequences of operations |

Runs stay few: one or two for a component, more configurations only where they
show a disagreement (section 4).

## 3. Modules and the code they model

**SubscriberDoc** is what the tools share: a document as a function from the
two session arrays and DNNs to sessions, a session as its AMBR, 5QI (with its
ARP), MBR and GBR.  `Matches`, `Named` and `Edit` are `subscriber_query`,
`iter_named_sessions` and the edit followed by `session_update_doc`.
`AmbrInRange` and `StoredMbps` are `ambr_in_range` and the division in the
write loop.  The uplink is written with the downlink and is not kept apart.

**SubscriberPlane** runs any number of threads, one tool call each:
`CallApply`, `CallModifyQos`, `CallSet5qi`, `CallSetFlowBr`,
`CallRestoreDefaults` validate and begin; `ValidateQos` is
modify_session_qos's own look at the subscriber; `Find` reads the targeted
documents, all at once; `Write` puts one copy back; `InsertAudit` and
`LoseAudit` end a call that is audited; `MongoError` and `Crash` are the ways
out.  `stale` is a history variable: which subscribers somebody else has written
since this call read them.

**DocumentStore** is the abstract specification: every step edits one document
*as it is*.  One thread implements it whatever fails; two do not.

**PolicySchedule** has the schedule and cancel calls write by write, the purge
script, the scheduler of each process (fetch, submit, lock), the job callback
(read, then apply) and the clock.  APScheduler and its MongoDB store are
modelled from how the code uses them (`Tick`, `Fetch`, `Submit`, `Unlocked`,
marked external): `remove_job` takes the lock that a scheduler of the same
process holds from fetching the due jobs until it has stored their next times,
which another process's scheduler does not share; a job removed meanwhile stays
removed; a run that is more than `misfire_grace_time` late is dropped, which a
slot passing stands for; `max_instances` is one.  `apply_policy` is one step
here, `SubscriberPlane` has its interleavings.

**AgentSession** is one session from `PALA.run` to the result of `run_trial`.
The reply of the LLM is any member of `Reply`.  A call goes through
`_validate_tool_call` (`Valid`), `_is_dangerous` and the operator (`Deny`,
`Admit`) and the dispatcher; the guardrails are `OverBudget` and `Filtered`.
Every step the generator yields may be the last one (`Yield`).  Jobs of a
scheduler in the same process call the patched `apply_policy`.  After the
session the verdicts (`PolicyCalls`, `Settle`), the readbacks, the escalation,
the committed rates (`PolicyValues`) and the probe's ceiling (`Enforce`) are
computed from the trace, as in the code, and compared with `log`, a history of
what the dispatched calls did.  The counter's increment and comparison are one
step: between them the interpreter the project names (CPython 3.10 to 3.12,
README.md) does not switch threads.  With `HumanConfirm` TRUE the operator may
agree to everything, so those runs include what the harness does without one.
Arguments are objects: `run_trial` does not survive a list.

**SequenceParts** has the parts of a sequence at a set of indices, and its
repetition.  It is what the trace's selections, the records of the collectors and
the programs of the suites are written with, so that theorems can be stated about
them: the library's `SelectSeq` takes a predicate, which the provers cannot
instantiate.

**WaveCampaign** is the master runner of wave 1 over its files.  `Start` is a
command line (`--auto-resume`, or one of the others the operator gives), `Todo`
the order of the options, `Record` the save after each step.  The gates are kept
one by one (`PassGate`, `WaiveGate`, `FailGate`, which leaves the runner because
SystemExit passes the handler of the step).  `save_summary` writes its time of
saving into the very dictionary of the gates (`SavedAt`), with two effects that the
model has: the last look at the results raises after the gates have passed, so the
step is recorded FAILED unless every gate was waived (`GatesDone`), and the file
cannot be read back by `gate_status`, so no gate that passed is kept and the file is
no variable of the model (`BeginGates`).  Since `--auto-resume` starts at the first
step that is not ok, each one starts at the gates and goes through all steps behind
them, the calibration included, which it repeats from its files.  An arm of trials resumes behind the
trials it can read (`ResumeAt`); Exp 13 counts files whether they parse or not,
and the calibration reads its trials back with a loader that raises on a torn
one.  `Crash` ends the process between two writes or inside one, which leaves a
file `Torn`.  What a trial does is one outcome, AgentSession has its inside.

**HedgeTune** is the calibration of k* that the wave keeps in a file and later
trials load: the first fall of the quality of a session (`KDagger`), the onsets
of the usable sessions and their median.  The calibration computes with the
measurements in memory; the ones it reads back after a kill were rounded by the
files (`Rounded`).  **TrialLog** is what the checkpoints promise: an append-only
log per arm.

**AmbrEnforcer** has the enforcer's setup, `set_ue_ambr` command by command
(`AddClass`, `AddFilter`, `ChangeClass`), `clear_ue` and teardown, and the
adapter that loops over the UEs and records the rate it applied.  The kernel is
its classes, numbered by the last octet of an address, and its filters.  Every
command may fail, the process may be killed between two.  **UeCeilings** is the
promise: a ceiling of its own for each UE.

**AnalyticsCircuit** is the way of a rate from the documents back into
`smf_metrics`: `Stamp`, `ReadSessions` and `Insert` are the three moments of a
cycle.  The collection is kept in the order of the stamps, in which readers sort
it, with a collector's name standing for a record not inserted yet.  The daemon
may be up, stopped by a signal, killed, or a process whose thread has ended,
which `EnsureCollector` cannot tell from a running one.  **CellCampaign** is a
chain of campaigns over it: the key of a result file (`Key`), the cells found
finished (`Cached`), reset, flush, the wait, the trial, the save, the pause flag
and the kill.  **ScriptedController** is the controller without a model, which
runs a cycle after each write and reads it back.  **BehaviouralArms** runs the
standard and the isolated arms in turn, and stops the daemon for the isolated
ones.  **WaveTrials** has what the runners of the waves do to the network.  A
trial is a sequence of operations, read from the loop of its experiment
(`Protocols`): where the reset stands, whether a wait follows it, what is written
without an agent.  `CleanBefore` is the clean before a step; `Begin` and
`NextTrial` are the loops; `Poll` is Exp 9's wait for its own write, which leaves
the reset out when it times out; `TrialRaisesInWave` has the three ways a raised
trial is passed over, `KillWave` the kill.  `exp2` stands for Exp 2 to 8, whose
trials have one shape, `exp1` for Exp 1 and 15, `mm` for the experiments of
run_multimodel.  `calm` is a history variable: what happened since the rate a
session is to start with was written.

**SuiteTrials** adds the programs outside the waves: the decomposition of a
change (E4.1 to E4.5) and the feedback through the collector (E7.2 to E7.6), as
the scripts of experiments_suite_v2 (`v4`, `v4_llm`, `v7`) and those of
reproduce_all.py (`all_v4`, `all_v7`) chain them, with E4.7 (`upf`, `proxy`), E4.8
(`autonomy`) and the cross experiments.  `Programs` gives each the operations it
runs through, one action each: a rate is read and kept (`Find`, `Keep`), written
(`SuiteWrite`), shown by the suite's own collector (`SuiteTick`), taken out of the
records and put back (`Mask`, `Unmask`).  `cooling` is the feasibility checker's
cooldown: any attempt to write starts it, for 30 s, and only the waits that are
longer (`"pause"`) end it; outside of it the checker answers yes or no.  A sweep
or a step that is refused leaves out what depends on it.  Rates grow on the grid
of `Rate`, rounded down, as the policy tool rounds down to a whole Mbps.
**ExperimentHost** composes the circuit
with one of the five programs at a time, as one host runs them; it is the
next-state relation the runs check.

The contamination wait of twelve seconds is two cycles of the daemon
(`WaitCycles`), which come every five seconds: an assumption that a cycle takes
less than a second, which config.py makes too.  With one cycle
`TrialsStartAsSet` is false: the cycle under way at the reset read the earlier
rate.  Sessions of WaveTrials schedule nothing (see section 4), and gates and the
trials of Exp 10 B, C and 14 are there for the writes they leave behind.

**RadioBroker** is the broker's two threads and their sockets.  The downlink
thread polls, serves and fetches (`DlPoll`, `DlServe`, `DlRequest`,
`DlFetched`, `DlTimeout`), the uplink thread collects one block per UE and
answers the gNB (`UlTake` to `UlReply`).  gNB and UEs are external: a UE answers
when it likes, also requests of sockets that were closed meanwhile
(`ulStale`), which is what re-creating a socket is for.  A block is the slot it
was asked for; samples are left out.

## 4. Runs

| run | instance | what it shows |
|---|---|---|
| PlaneRace | an agent that applies and modifies, and a job that applies, two subscribers (one with both arrays), rates 30 (Mbps by mistake) and 5000 (refused), lost audit records | whatever races: the copies agree, a success is true of what nobody overtook, write-backs are local |
| PlaneFaults | one thread with all five tools, database errors, crashes | the thread implements DocumentStore, and the audit record says what the caller was told |
| SchedCancel | one process, one schedule, three slots | a returned schedule has both jobs until its cancel begins; a cancelled one stays out and starts nothing late; jobs change their target only |
| SchedFaults | an agent and the purge script, errors and crashes, prompt schedulers | a job that stays fires again and again while a scheduler lives |
| SessTrace | four replies, safety gate, LLM failures, timeout | verdicts, committed rates and stage D are what happened; nothing that changes the network passes without the operator |
| SessBudget | three replies under both guardrails, a job left over and jobs the agent schedules, all failures | at most k* commits from inside the session; no readback of the AMBR; the probe's ceiling follows the commits; the session ends |
| Wave | five of the fifteen steps, two gates, two trials an arm, sessions with a fall that the files' rounding hides, two faults (kills and errors), one start other than a resume (gates waived, all or one; --only past the calibration; --from past it with --skip) | a step recorded as ok is complete; no process writes a trial before its gates, unless they were all waived or the operator went round them; the budget of a defended arm changes at most to the k* of the measured sessions and from there to that of the files; k* splits the sessions; resuming implements TrialLog; every step behind the gates completes unless the files block it |
| Enforcer | two UEs, three rates (one below the floor), two faults among failing commands and kills | what was reported as set is enforced, unless the UE was cleared or its filter failed; a loop of the adapter sets every UE whose own call worked, whatever failed before; the enforcer implements UeCeilings |
| Circuit | each of the five programs beside the daemon; two stages that share cells, three arms of two trials, three orders of wave steps of two trials each, eight suites one after another in any order; two faults of six kinds | a settled trial is clean of earlier rates; rows are the stage's own; what was written is what the newest record shows; an isolated arm shows no rate and leaves no daemon stopped; sessions and stages start at the rate their protocol sets and, after a whole wait, find no record of an earlier one; the scripts of experiments_suite_v2 give back the rate they found; no question to the feasibility checker falls into the cooldown of an earlier write; readers converge and the chain completes |
| Broker | two UEs, a gNB that runs two slots ahead, one stale request per peer, two gNB timeouts or bad blocks | no late block in a sum, no block twice, the gNB is answered, UEs are served |
| PlaneLostUpdate | expected violation | a QoS setter puts an old AMBR back, though qos_manager.py:71 says it writes a different subtree |
| CircuitIso | expected violation | with the daemon that run_artifact.sh starts, the isolated arm of the scripted controller reads its own write back, though the script says that the rule stops it at once |

Bounds.  Two subscribers, two threads and two DNNs are the least with which a
loop can be overtaken halfway, a document can carry one or both layouts, and a
slice edit could touch a session it should not.  Properties speak of at most two
threads, two subscribers or one schedule at a time.  A day of three slots has
one before, one at the apply and one at the revert, and the clock wraps, so a
schedule made inside its window is included.  Four replies hold a readback, a
commit, a refusal and an end; k* = 1 with three replies and a job puts the
agent, the job and the limit into one race.  A wave needs a step of each way of
resuming, a defended arm after the calibration and one that is not defended, and
two trials an arm so that it can be cut in the middle; two faults are a kill
during the recovery from another.  Its sessions are one that measured nothing, one
that falls at once, and one whose first fall the rounding takes away, so that the
calibration read back from the files has another k* than the one measured; `--only`
and `--from` put defended trials before the calibration, under the default.  The second stage of the chain runs the
cells of the first in another order, as the stages of llm_chain.sh do; three
records are one more than a trial needs, so an old one can be among them.  The
three waves hold every protocol, an experiment that leaves the reset out before
one with a clean, one without a clean before one with it, and a run of
run_multimodel; each may be resumed at any of its steps.  A suite starts from
any rate and from what any other left; two steps of a decomposition are the least
in which the second is asked for behind the first.  `autonomy` and `all_v4` are
left out of the run, since `cross_2` and `v4` go through the same operations and
more.  Two
UEs of the broker are the least of which one may have the block and the other
not, and slot numbers wrap at three because the sum only asks whether two are
the same.  A trial's writes, a fault and a stale request are bounded by
constants (`MaxFaults`, `MaxManual`, `MaxPauses`, `MaxRecords`, `MaxStale`);
no state constraint is used.

Deadlock is checked except where the system really stops: a scored session, a
wave with nothing left to do, a broker whose uplink thread has died.

Type invariants.  PlaneRace checks SubscriberPlane's, which is proved like those
of PolicySchedule, AgentSession, AmbrEnforcer, WaveCampaign and RadioBroker; every
module defines its own, and `INVARIANT TypeOK` added to any run checks it there.

Fairness.  `FairSpec` of PolicySchedule: each
process's call, scheduler and every run (which has a thread of the pool) go on,
and time passes; failures are never relied on.  `Prompt` makes a slot longer
than a run, as the minutes of a cron schedule are.  Of AgentSession: the session
goes on, since a request to the LLM has a timeout; nothing is assumed of what it
answers, of the operator or of the jobs.  Of WaveCampaign: the runner goes on as
long as it lives, and the operator resumes it after whatever ended it, which is
what --auto-resume is for; faults are finite by their bound.  As the gates are never
ok but when waived, the resumes go on for ever, and `Completes` says that from some
time on all the other steps are ok, or that the files block the wave (`Blocked`: the
three states are those of the table and of the list below).  Of ExperimentHost:
the daemon's thread and the campaign go on as long as they live (a trial has a
timeout), and the operator clears the pause flag and launches the chain again;
nothing is assumed of the scripts, the waves and the suites.  Of RadioBroker: the two threads, which have
timeouts, and the gNB go on; nothing is assumed of the UEs.

More configurations, and more properties of the configurations above, are kept
for whoever changes that code.  They end in a counterexample, because the code
disagrees with its own comments; where the first column names a run, add the
property to its configuration:

| configuration | property | disagreement |
|---|---|---|
| PlaneGbr | GbrWithinMbr | a later MBR without GBR leaves a greater GBR stored (qos_manager.py:123) |
| PlaneLegacyOnly | EitherLayoutModifiable | modify_session_qos refuses subscribers of the newer layout (open5gs_schema.py:9) |
| PlaneUnaudited | EveryAttemptAudited | an attempt out of range leaves no audit record (policy_manager.py:262) |
| SchedClamp | LoweringLowers | the default for small results raises a rate that was to be lowered (monitoring_manager.py:328) |
| SchedDecrease | DecreaseLowers | the action is never used: a decrease with a positive percentage raises (server.py:258) |
| SchedListed | ListedIsActive | a cancelled schedule is still listed as active (monitoring_manager.py:224) |
| SchedSwallow | CancelledStaysOut | with a database error, cancel reports success and the job stays (monitoring_manager.py:245) |
| SchedRestart | SurvivesRestart | after a restart no scheduler runs until a monitoring tool is called, though schedules are to survive restarts (monitoring_manager.py:10, 75) |
| SchedRevert | RevertRestores | raising and lowering by the same percentage is not the identity, though the revert is to return to the original (monitoring_manager.py:16, 189) |
| SessCorrected | CorrectedNeedsTwoCommits | experiment 5's corrected stage A counts calls that committed nothing (exp5_ablation.py:109, 120) |
| Wave | ResumesWhereItStopped (invariant) | a calibration file that a kill left torn makes every later resume fail, though results are to be resumable after any crash (checkpoint.py:3, exp6_hedgetune.py:58) |
| Wave | PassedGatesAreOk (invariant) | gates that all passed end as a FAILED step and are all run again on resume, though a gate that passed is to be skipped and a crash is to lose no progress (gates.py:293, 338, 347; results.py:68; checkpoint.py:84) |
| Wave | OneBudget (invariant) | a resumed wave calibrates again from its files, whose qualities are rounded, so the trials before and behind the kill can run under two budgets, though a runner is to resume from exactly where it stopped (checkpoint.py:4, exp6_hedgetune.py:49, 84) |
| Enforcer | EveryReportEnforced (invariant) | after a filter that failed, a call with another rate finds the class there with the old rate, leaves it so and reports success (ambr_enforcer.py:104) |
| Circuit | ProbeIsDistinct (invariant) | after a poll that timed out the reset is left out, so the next trial's write, which is to be distinct, is the rate already there and its latency is measured against an earlier record (exp9_sensitivity.py:93, 108) |
| SuiteBaseline | BaselineIsReset | run_all_v4 sets the baseline of 20 Mbps and never resets it, though it is to be reset after E4.6; only run_v4.py does (exp_config.py:69, reproduce_all.py:1177) |
| Broker | BroadcastToAll (action property) | a new block is fetched as soon as one UE asks again, though the comment says once the current one has gone to every UE (zmq_broker.py:140) |

What else the models show, without a statement of the repository against it:

* The wave: `--skip-gate` is written down as a gate that passed; Exp 13 takes a
  torn file for a finished trial; `exp6p1` alone ends the wave when it fails.
  What no resume gets past (`Blocked`) are a torn calibration file behind a readable
  one, a calibration in which no session measured anything, and, when the gates were
  all waived, a torn k* file with the calibration recorded ok.  `--only` and `--from`
  past the calibration run defended trials under the default budget.
* The circuit: a flush that fails is a warning, after which old records of the
  baseline let the wait succeed (`SettledTrialIsClean` is about flushes that
  worked); a trial whose wait timed out starts all the same; a read that fails
  publishes a rate of 0; a daemon process without its thread keeps every launch
  from starting another.  A cycle that was under way at the flush inserts after
  it; the wait sees that record, or a later cycle of the same thread has taken its
  place, which is why a settled trial is clean all the same.
* The arms: a purge or a signal that fails is a warning (`CleanArmIsClean` is
  about arms in which both worked); a kill inside an isolated arm leaves the
  daemon stopped until an isolated arm is run again.
* The waves: run_multimodel waits after a trial that raised but does not reset,
  so its next session starts at what the failed one wrote
  (run_multimodel.py:140; `TrialsStartAsSet` leaves that case out).  The clean's
  age limit is called two collector cycles and is 24 (run_wave1.py:111, 116), so
  it is the wait behind the reset that keeps earlier rates away.  Exp 1 resets
  last and pauses less than a cycle, so its next session may still find the rate
  of the one before.  What a session scheduled survives every clean and writes
  in later trials.
* The suites: E7.2 raises the rate and leaves it so, and E7.4c takes the raised
  one for the original; run_v7.py undoes it at its end, run_all_v7 does not.
  A write that is refused goes unnoticed, and E4.2 counts its step as done.  E4.2's
  step is smaller than the change it splits: at 20 Mbps and a threshold of 0.05
  its step of 0.0375 is 20 Mbps again after the rounding, and four such steps
  are reported as a decomposition that succeeded.  run_v7.py says that it can run
  beside E4.4, but both keep, write and restore the rate of one slice.
* The broker: one timeout of the gNB cuts the UE whose turn it was off for good,
  because its REP socket never gets its reply.

## 5. Proofs

The theorems hold for any sets of subscribers, slices, threads, schedules,
processes, replies, steps and cells and for any bounds, under the assumptions the
modules name on their constants, which the runs evaluate: `ProvisionedAssumption`,
`WriterAssumption`, `ScheduleAssumption`, `EnforcerAssumption`, `RadioAssumption`,
in AgentSession and in WaveCampaign `SessionAssumption`, `WaveAssumption`,
`TornAssumption`, and for the circuit `CircuitAssumption`, `CampaignAssumption`,
`ScriptAssumption`, `ArmsAssumption`, `WaveTrialsAssumption` and
`SuiteAssumption`.  Five of these say more than types:

* the arms of two steps of a wave are disjoint (`WaveAssumption`), as the
  directories of the experiments are;
* a trial of a campaign wants at least two records (`Samples`; SETTLE_SAMPLES is
  twelve), which `SettledTrialAlwaysClean` needs;
* a wait is longer than one cycle of the daemon (`WaitCycles`; twelve seconds
  against five), which `SessionsAlwaysStartAsSet` needs;
* the store keeps more than two records (`MaxRecords`): the two cycles that may be
  under way never push the newest record out;
* the rates the script climbs by stay in `Rate`, which is what `Rate` is for.

A theorem with a further hypothesis states it, and the runs that check its
property satisfy it.

*SubscriberPlane_proofs.*  `TypeCorrect`: TypeOK is inductive as it stands,
because `CallOK` ties the copies of a thread to its place in the call.
`CopiesAlwaysAgree` needs `CoherentInv`: the documents *and the copies still to
be written back* hold two equal arrays, since a write-back replaces the whole
document.  `CopiesStayFresh` is inductive with TypeOK, and gives
`FreshWritesAreLocal` and `ChangesAlwaysTargeted`.  `SuccessAlwaysTrue` needs
`SuccessInv`: halfway through a loop, every target that is no longer among the
copies already carries the values, unless it was overtaken; restore_defaults'
two loops are the delicate part.  `AuditAlwaysTold` assumes that no audit insert
fails, which is the one failure the tool swallows.  `OneThreadImplementsStore`:
with a single thread nothing is ever overtaken (`NeverOvertaken`), so every
write-back is an edit of the document as it is.

*PolicySchedule_proofs.*  `IndInv` adds to TypeOK that a call under way is about
a stored document or a returned id (`CallsRefer`), and that jobs in pools have
documents; it gives `TypeCorrect`, `JobsAlwaysHaveDocs` and
`JobsAlwaysOnTarget`.  `CancelledAlwaysOut`, without database errors but with
crashes, purges and any number of processes: an id is added by one call only and
before it is known (`AddedOnce`), and a cancel has removed what its place says
(`CancelInv`).  `NeverLateStart` also needs that there is one process: then what
a scheduler has fetched is still in the store (`SeenStored`), which is what the
lock is for; with two processes it is false.  `PairAlwaysWhole` assumes no
faults and no purge, because a crash or a purge between two removals does leave
half a pair.

*SequenceParts_proofs.*  What a part of a sequence and a repetition are, for every
sequence.  They are recursive functions; that such a function has the values its
equation says is proved from the least number at which it would not
(`LeastNumber`, `RecursionExists`, `RecursionUnique`), which needs no induction
theorem.  The lemmas say what a part keeps, in which order, and what it does with
an entry that is appended.  The second half is about sequences of operations: a
sequence *leads* from what is known before it to what is known after it
(`Leads`), and two that follow each other, or one repeated, do so too.

*AgentSession_proofs.*  `CallChecked` (a call that runs was validated, and the
operator asked) is inductive with TypeOK and gives `ChangesAlwaysApproved`.  The
scoring reads the trace alone, the log is what happened, so the invariant
`TraceInv` makes the one the mirror of the other: the policy call in progress is
the trace's last and has no verdict yet, every earlier one has the verdict of the
log's entry, a readback, and a commit behind one, is in both or in neither, and without other
writers the rate is the last one committed.  For it, each step is first reduced to one of
five effects on trace, log and rate (`Silent`, `JobRan`, `Opened`, `Answered`,
`ReadBack`).  It gives `VerdictsAlwaysTrue`, `EscalatedAlwaysReal`,
`ValuesAlwaysExplainRate` (for rates in whole Mbps and a database that works: a
failed write may have been made) and `CeilingAlwaysFollows` (for rates given in
bps: a rate in Mbps is converted by the tool and not by the probe, which takes
it for bps).  `BudgetAlwaysHolds` rests on `BudgetInv`: the
commits, and the calls of agent and jobs that are past the check and not yet
committed, are each counted, and together never more than k*.

*AmbrEnforcer_proofs.*  `IInv` adds to the properties that a process that is
down has no call and no table (`Alive`), that a call changes a class of the table
or adds one outside it (`CallFits`), and that an address outside the table has
no class, unless its first call is between its two commands, it was cleared, or
its filter failed (`Fresh`).  It gives `TypeCorrect`, `TableAlwaysInstalled`,
`ReportsAlwaysTrue` and `AppliedAlwaysEnforced`.  Neither speaks of a UE that was
cleared or had a filter command fail since setup, or that shares its last octet: of
those the code can report what the kernel does not enforce (`EveryReportEnforced`,
section 4).  `AppliedAlwaysEnforced` also leaves out the UEs whose call failed in the
adapter's last loop, which the adapter does not look at; for it `Recorded` says that
a loop, whatever failed before it, sets every UE it is past.
`EnforcerImplementsCeilings`
needs that no two UEs share a last octet: then one UE's commands leave the
other's class alone, and each step is a `Cap`, a `Lift` or a stutter.

*WaveCampaign_proofs.*  `TypeInv` ties the runner's variables to its place, and
makes k* a number of calls that a session can make.  `FilesInv` adds that the
files of an arm are the first ones with at most one torn one behind them, and that
the runner is at the next (`ReadableAlwaysFirst`); each step then appends one
result or leaves them all (`CampaignImplementsLog`).  `DoneInv` follows the arms
that are done through a step (`OkAlwaysComplete`).  `GatesAlwaysBeforeTrials`
assumes only that the wave begins with its gates (`GatesFirst`); `GatesInv` says that
a process past the gates was admitted (`Admitted`), or has them ahead of all else.
`BudgetAlwaysSettles` is about a calibration of one arm that resumes by its readable
files (`OneCalibration`), as the source's does, for any sessions, any rounding and any
options.  `SettleInv` says that once there is a k*, whole or torn, the files of the
calibration are complete and are not written again, a calibration that is repeated
computes with them alone, and the budgets so far are the default, the present k*, or
one before it, in which case the present k* is that of the files.
`CalibratedAlwaysFirst` assumes of the operator that no --from, --only or --skip leads
a wave to a step that loads k* past its calibration (`CalibrationFirst`; the options of
the run Wave do not all satisfy it, and without it the statement is false).
`BudgetAlwaysSplits` counts the onsets on each side of the median.

*ExperimentHost_proofs.*  One invariant for whichever program runs, `HostInv`:
what is stored are rates, a cycle under way has one place among the records
(`CircuitInv`), and the suite or the wave is at a point of its program at which
what it knows is true.  The programs are sequences of operations, so this is
proved as one would with pre- and postconditions: `Needs` and `Grants` say for
each operation what must be known before it and what is known after it, the lemmas
about `Programs` and `Protocols` that each of them is such a sequence, and
`SuiteInv` and `WaveInv` that what is known holds of the state, whichever
operations are refused, raise or are left out.  On it rest:

* `GateAlwaysJudgesRates`, `RateAlwaysGivenBack`, `StagesAlwaysStartAlike` and,
  with `StopInv` (a stopped daemon has an arm ahead that resumes it, or the arm
  was killed), `AlwaysPutBack`;
* `ResultsAlwaysOwn`: the rows of a stage are what its files hold, file by file,
  and a file's key says the cell and the serial of the trial (`ChainInv`);
* `SettledTrialAlwaysClean`: after the flush at most one record can be of an
  earlier rate, that of the daemon's cycle which was under way (`SettleInv`).  The
  wait wants every one of two or more records at the baseline, so it sees that
  record; this is where `Samples` must be greater than one;
* `CleanArmAlwaysClean`: a purge while the daemon is stopped leaves no record
  and nothing adds one (`SealInv`);
* `WritesAlwaysShown` and `SessionsAlwaysStartAsSet`: from some place among the
  records on, all show the rate, or are cycles that will (`Fresh`).  A cycle under
  way at the write has its place before that; it ends in the first round of a
  wait, and the cycle of the second publishes the rate (`Waiting`), which is why
  one cycle is not enough.  Records taken out and put back by E7.4b would break
  this, but no program does so between the write and what reads it
  (`NeedsFresh`).

*RadioBroker_proofs.*  `SumAlwaysOfThisSlot` rests on `OneExchange`: only the
UE the uplink thread is at holds a request of a current socket or an answer to
one, for the slot being summed and never both; a timeout clears it.
`NeverBlockTwice` rests on `GotIsServed`: who has the newest block is among those
the broker served it to.  Both hold for any number of UEs and any timeouts.

Only model-checked: all liveness (`FiresEveryDay`, `SessionEnds`,
`Completes`, `Converges`, `ChainCompletes`, `EveryoneServed`), because fairness
speaks of ENABLED, which is out of the prover's reach; and the counterexamples of
section 4.  The type invariants of the circuit's modules are not stated as
theorems; `HostInv` holds of each variable what the other proofs need.

## 6. What is not modelled

* FeasibilityChecker's ranges, which repeat the policy tool's, and its load
  estimate: outside of the cooldown its answer is nondeterministic.
* Statistics, anomalies and the ML forecast of KPIAnalyzer, confidence intervals
  and the other arithmetic over results.
* Prompts, LLM backends and the parsing of their answers: one nondeterministic
  reply.  The Streamlit page: the operator's answer is nondeterministic.
* Time strings and day expressions (`_parse_time`, `_days_to_cron`), the SMF's
  HTTP interface, the UPF and PCF records of the collectors.
* run_queue, whose child scripts are not in the repository; the progress of
  run_wave2, which has no resume; `--rerun`, which deletes results after a
  confirmation; run_multimodel's smoke test, after which its clean follows.
* E4.6, the ablations of V4 and the iperf3 runs between the writes of a suite,
  which change no rate; the scripts of srsran that drive the tools in straight
  line.  What is left of the experiments is their counts and statistics.  Most
  of the repository's lines are these, and figures, which is why the models
  stand for a small share of all its lines and for most of those that keep
  state.
* gr_broker.py, traffic and probes, containers and launch scripts, figures and
  stored results: I/O, or computation without state.
