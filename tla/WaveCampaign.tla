----------------------------- MODULE WaveCampaign -----------------------------
(***************************************************************************)
(* The master runner of a wave of experiments (wave_experiments/           *)
(* run_wave1.py) with its checkpoints: the gates, the trials of each arm,  *)
(* the calibrated budget k* and the progress of the steps are files.  The  *)
(* runner is a process that can be killed at any point and started again   *)
(* with --auto-resume.  No file is replaced atomically: a kill inside a    *)
(* write leaves a file that does not parse (Torn).                         *)
(***************************************************************************)
EXTENDS HedgeTune, SequenceParts

CONSTANTS
  Torn,
  StepOrder,      \* the steps of the wave, in order
  ArmsOf,         \* [step -> its arms of trials, in order]; << >> for a plain step
  Resume,         \* [step -> "readable", "strict" or "count"]: how an arm resumes
  NeedsKStar,     \* the steps that load k*
  Defended,       \* the arms whose trials run under k*
  Size,           \* [arm -> the number of its trials]
  Session,        \* the sessions a calibration trial can record
  MaxCalls,       \* the most policy calls that a session can make
  DefaultKStar,   \* k* when there is no file
  GateOrder,      \* the gates, in order
  Option,         \* the command lines an operator gives
  Fault,          \* subset of {"crash", "error"}
  MaxFaults,      \* bound: faults
  MaxManual       \* bound: starts other than with --auto-resume

(* A session starts with the baseline, and each policy call that succeeds  *)
(* adds one measurement.                                                   *)
ASSUME SessionAssumption ==
  /\ MaxCalls \in Nat \ {0}
  /\ Session \subseteq Seq([k : Nat, q : Nat])
  /\ \A r \in Session : Len(r) \in 1 .. MaxCalls + 1 /\ \A i \in DOMAIN r : r[i].k = i - 1

(* A trial file keeps the budget the trial ran under, if any, and of a     *)
(* calibration trial the session, its quality rounded.                     *)
Rounded(session) == [i \in DOMAIN session |-> [session[i] EXCEPT !.q = (@ + 5) \div 10]]
Trial(b, session) == [budget |-> b, steps |-> Rounded(session)]

Budgets == {None, DefaultKStar} \cup 1 .. MaxCalls
Kept    == {Trial(None, r) : r \in Session} \cup {Trial(b, << >>) : b \in Budgets}

Step == {StepOrder[i] : i \in DOMAIN StepOrder}
ArmsIn(s) == {ArmsOf[s][i] : i \in DOMAIN ArmsOf[s]}
Arm  == UNION {ArmsIn(s) : s \in Step}
Gate == {GateOrder[i] : i \in DOMAIN GateOrder}
AutoResume == [from |-> None, only |-> None, skip |-> {}, skipGate |-> {}]

Status == {"none", "ok", "FAILED", "skipped"}

(* Every arm has a directory of its own, the gates have no trials, and a   *)
(* calibration runs under no budget.                                       *)
ASSUME WaveAssumption ==
  /\ StepOrder \in Seq(Step) /\ {"gates", "exp6p1"} \subseteq Step
  /\ ArmsOf \in [Step -> Seq(Arm)] /\ ArmsOf["gates"] = << >>
  /\ \A s, t \in Step : s # t => ArmsIn(s) \cap ArmsIn(t) = {}
  /\ Resume \in [Step -> {"readable", "strict", "count"}]
  /\ NeedsKStar \subseteq Step \ {"exp6p1"} /\ Defended \subseteq Arm \ ArmsIn("exp6p1")
  /\ Size \in [Arm -> Nat \ {0}] /\ DefaultKStar \in Nat
  /\ GateOrder \in Seq(Gate)
  /\ AutoResume \in Option
  /\ Option \subseteq [from : Step \cup {None}, only : Step \cup {None},
                     skip : SUBSET Step, skipGate : SUBSET Gate]
  /\ Fault \subseteq {"crash", "error"}

(* What is no content of a file is none of its contents.                   *)
ASSUME TornAssumption ==
  /\ None \notin Nat \cup Kept \cup Step
  /\ Torn \notin Nat \cup Kept \cup {None} \cup [Step -> Status]

VARIABLES
  trials, kstar, progress,                     \* the files that are read back
  pc, opt, todo, completed, why,               \* the runner's loop over the steps
  gateTodo, results, armTodo, at, mem, budget, \* the step it runs
  faults, manual, cleared                      \* bounds, and the gates that this
                                               \* process has cleared

files  == <<trials, kstar, progress>>
loop   == <<pc, opt, todo, completed, why>>
inside == <<gateTodo, results, armTodo, at, mem, budget>>
bounds == <<faults, manual>>
vars   == <<files, loop, inside, bounds, cleared>>

Readable(a)  == {i \in 1 .. Size[a] : trials[a][i] \notin {None, Torn}}
FilesOf(a)   == {i \in 1 .. Size[a] : trials[a][i] # None}
Complete(s)  == \A a \in ArmsIn(s) : Readable(a) = 1 .. Size[a]
Recorded     == IF progress = Torn THEN [s \in Step |-> "none"] ELSE progress

Init ==
  /\ kstar = None
  /\ trials = [a \in Arm |-> [i \in 1 .. Size[a] |-> None]]
  /\ progress = [s \in Step |-> "none"]
  /\ pc = "off" /\ opt = AutoResume /\ todo = << >> /\ why = "none"
  /\ completed = [s \in Step |-> "none"]
  /\ gateTodo = << >> /\ results = {} /\ armTodo = << >> /\ at = 0
  /\ mem = << >> /\ budget = None
  /\ faults = 0 /\ manual = 0 /\ cleared = {}

Now == Head(todo)

LeaveStep ==
  /\ gateTodo' = << >> /\ results' = {} /\ armTodo' = << >> /\ at' = 0
  /\ mem' = << >> /\ budget' = None

Off ==
  /\ pc' = "off" /\ opt' = AutoResume /\ todo' = << >> /\ why' = "none"
  /\ completed' = [s \in Step |-> "none"]
  /\ cleared' = {} /\ LeaveStep

(***************************************************************************)
(* The loop over the steps.                                                *)
(***************************************************************************)
(* Mutant: a failed step counts as done.                                   *)
OpenUnlessTried ==
  {i \in DOMAIN StepOrder : Recorded[StepOrder[i]] = "none"}

Open == {i \in DOMAIN StepOrder : Recorded[StepOrder[i]] # "ok"}

StepsFrom(i) == SubSeq(StepOrder, i, Len(StepOrder))

(* --only, then --from, then --auto-resume.                                *)
Todo(o) ==
  IF o.only # None THEN << o.only >>
  ELSE IF o.from # None THEN StepsFrom(Least({i \in DOMAIN StepOrder : StepOrder[i] = o.from}))
  ELSE IF Open = {} THEN << >>
  ELSE StepsFrom(Least(Open))

Seed == Recorded

Start(o) ==
  /\ pc = "off" /\ Todo(o) # << >>
  /\ o = AutoResume \/ manual < MaxManual
  /\ manual' = IF o = AutoResume THEN manual ELSE manual + 1
  /\ pc' = "loop" /\ opt' = o /\ todo' = Todo(o) /\ completed' = Seed
  /\ UNCHANGED <<files, why, inside, faults, cleared>>

SkipStep ==
  /\ pc = "loop" /\ todo # << >> /\ Now \in opt.skip
  /\ completed' = [completed EXCEPT ![Now] = "skipped"]
  /\ todo' = Tail(todo)
  /\ UNCHANGED <<files, pc, opt, why, inside, bounds, cleared>>

Enter(s) == pc = "loop" /\ todo # << >> /\ Now = s /\ s \notin opt.skip

EndStep(status, reason) ==
  /\ pc' = "record" /\ why' = reason
  /\ completed' = [completed EXCEPT ![Now] = status]
  /\ LeaveStep
  /\ UNCHANGED <<opt, todo, cleared>>

Fatal == Now = "exp6p1" /\ completed[Now] = "FAILED"

Record ==
  /\ pc = "record" /\ ~Fatal
  /\ progress' = completed
  /\ pc' = "loop" /\ todo' = Tail(todo) /\ why' = "none"
  /\ UNCHANGED <<trials, kstar, opt, completed, inside, bounds, cleared>>

(* The wave ends without recording the step.                               *)
Abort == pc = "record" /\ Fatal /\ Off /\ UNCHANGED <<files, bounds>>

EndRun == pc = "loop" /\ todo = << >> /\ Off /\ UNCHANGED <<files, bounds>>

RunPlain ==
  \E s \in {x \in Step \ {"gates"} : ArmsOf[x] = << >>} :
    /\ Enter(s)
    /\ \/ EndStep("ok", "none") /\ UNCHANGED faults
       \/ /\ "error" \in Fault /\ faults < MaxFaults /\ faults' = faults + 1
          /\ EndStep("FAILED", "error")
    /\ UNCHANGED <<files, manual>>

(***************************************************************************)
(* The gates.  results holds the gates counted as passed and, once it has  *)
(* been saved, the entry that save_summary adds to what it saves.  No      *)
(* gates.json is ever read back: gate_status gives up at that entry, as it *)
(* does at a file that is torn, so the file is not kept here and a gate    *)
(* that passed in an earlier process is run again.                         *)
(***************************************************************************)
SavedAt == "saved_at"

BeginGates ==
  /\ Enter("gates")
  /\ pc' = "gates" /\ gateTodo' = GateOrder /\ results' = {}
  /\ UNCHANGED <<files, opt, todo, completed, why, armTodo, at, mem, budget, bounds, cleared>>

AtGate(g) == pc = "gates" /\ gateTodo # << >> /\ g = Head(gateTodo)

NextGate ==
  /\ gateTodo' = Tail(gateTodo)
  /\ UNCHANGED <<files, loop, armTodo, at, mem, budget, bounds>>

(* --skip-gate: the operator answers for the gate, and nothing is saved.   *)
WaiveGate ==
  \E g \in opt.skipGate :
    /\ AtGate(g) /\ NextGate
    /\ results' = results \cup {g} /\ cleared' = cleared \cup {g}

PassGate ==
  \E g \in Gate \ opt.skipGate :
    /\ AtGate(g) /\ NextGate
    /\ results' = results \cup {g, SavedAt} /\ cleared' = cleared \cup {g}

(* Mutant: the failure of a gate is an exception like another.             *)
FailGateCaught ==
  \E g \in Gate \ opt.skipGate :
    /\ AtGate(g) /\ "error" \in Fault /\ faults < MaxFaults /\ faults' = faults + 1
    /\ EndStep("FAILED", "error")
    /\ UNCHANGED <<files, manual>>

(* SystemExit passes the handler of the step: the runner ends.             *)
FailGate ==
  \E g \in Gate \ opt.skipGate :
    /\ AtGate(g) /\ "error" \in Fault /\ faults < MaxFaults /\ faults' = faults + 1
    /\ Off
    /\ UNCHANGED <<files, manual>>

(* The last look at the results takes the entry of save_summary for a      *)
(* gate and raises, which the handler of the step catches: the step fails  *)
(* although its gates passed, unless every one of them was waived.         *)
GatesDone ==
  /\ pc = "gates" /\ gateTodo = << >>
  /\ \/ SavedAt \in results /\ EndStep("FAILED", "error")
     \/ SavedAt \notin results /\ EndStep("ok", "none")
  /\ UNCHANGED <<files, bounds>>

(***************************************************************************)
(* The arms of trials.                                                     *)
(***************************************************************************)
BeginArms ==
  \E s \in {x \in Step : ArmsOf[x] # << >>} :
    /\ Enter(s)
    /\ \/ /\ s \in NeedsKStar /\ kstar = Torn
          /\ EndStep("FAILED", "torn")
       \/ /\ ~(s \in NeedsKStar /\ kstar = Torn)
          /\ pc' = "trials" /\ armTodo' = ArmsOf[s] /\ at' = 0
          /\ budget' = IF s \notin NeedsKStar THEN None
                       ELSE IF kstar = None THEN DefaultKStar ELSE kstar
          /\ UNCHANGED <<opt, todo, completed, why, gateTodo, results, mem, cleared>>
    /\ UNCHANGED <<files, bounds>>

(* Mutant: an arm resumes at the last trial it has, not after it.          *)
ResumeAtLast(s, a) == Greatest({1, Cardinality(Readable(a))})

ResumeAt(s, a) ==
  Cardinality(IF Resume[s] = "count" THEN FilesOf(a) ELSE Readable(a)) + 1

(* Mutant: only the last session that is read is kept.                     *)
LoadedLast(a) ==
  LET kept == Part(trials[a], Readable(a)) IN
  IF kept = << >> THEN << >> ELSE << kept[Len(kept)].steps >>

(* The sessions load_trials reads back from the files of an arm.           *)
Loaded(a) ==
  LET kept == Part(trials[a], Readable(a)) IN [i \in DOMAIN kept |-> kept[i].steps]

(* load_trials, unlike load_completed_trials, raises on a torn file.       *)
LoadRaises(s, a) ==
  Resume[s] = "strict" /\ ResumeAt(s, a) > 1 /\ FilesOf(a) # Readable(a)

EnterArm ==
  /\ pc = "trials" /\ at = 0
  /\ LET a == Head(armTodo) IN
     \/ LoadRaises(Now, a) /\ EndStep("FAILED", "torn")
     \/ /\ ~LoadRaises(Now, a)
        /\ at' = ResumeAt(Now, a)
        /\ mem' = IF Now = "exp6p1" THEN Loaded(a) ELSE << >>
        /\ UNCHANGED <<loop, gateTodo, results, armTodo, budget, cleared>>
  /\ UNCHANGED <<files, bounds>>

InTrial == pc = "trials" /\ at > 0 /\ at <= Size[Head(armTodo)]

RunTrial ==
  /\ InTrial
  /\ \E r \in IF Now = "exp6p1" THEN Session ELSE {<< >>} :
       /\ trials' = [trials EXCEPT ![Head(armTodo)][at] =
            Trial(IF Head(armTodo) \in Defended THEN budget ELSE None, r)]
       /\ mem' = IF Now = "exp6p1" THEN Append(mem, r) ELSE mem
  /\ at' = at + 1
  /\ UNCHANGED <<kstar, progress, loop, gateTodo, results, armTodo, budget, bounds, cleared>>

(* Mutant: a trial that raises is left out and the arm goes on.            *)
TrialErrorPassedOver ==
  /\ InTrial /\ "error" \in Fault /\ faults < MaxFaults
  /\ faults' = faults + 1 /\ at' = at + 1
  /\ UNCHANGED <<files, loop, gateTodo, results, armTodo, mem, budget, manual, cleared>>

(* A trial, or the reset after the last one, raises.                       *)
TrialError ==
  /\ pc = "trials" /\ at > 0 /\ "error" \in Fault /\ faults < MaxFaults
  /\ faults' = faults + 1
  /\ EndStep("FAILED", "error")
  /\ UNCHANGED <<files, manual>>

EndArm ==
  /\ pc = "trials" /\ at > 0 /\ ~InTrial
  /\ \/ /\ Len(armTodo) > 1
        /\ armTodo' = Tail(armTodo) /\ at' = 0
        /\ UNCHANGED <<loop, gateTodo, results, mem, budget, cleared>>
     \/ /\ Len(armTodo) = 1 /\ Now = "exp6p1"
        /\ pc' = "calibrate"
        /\ UNCHANGED <<opt, todo, completed, why, inside, cleared>>
     \/ /\ Len(armTodo) = 1 /\ Now # "exp6p1"
        /\ EndStep("ok", "none")
  /\ UNCHANGED <<files, bounds>>

Calibrate ==
  /\ pc = "calibrate"
  /\ \/ KStar(mem) = None /\ EndStep("FAILED", "no data") /\ UNCHANGED kstar
     \/ KStar(mem) # None /\ EndStep("ok", "none") /\ kstar' = KStar(mem)
  /\ UNCHANGED <<trials, progress, bounds>>

(***************************************************************************)
(* The process is killed, between two writes or inside one.                *)
(***************************************************************************)
Crash ==
  /\ pc # "off" /\ "crash" \in Fault /\ faults < MaxFaults /\ faults' = faults + 1
  /\ \/ UNCHANGED files
     \/ /\ InTrial /\ trials' = [trials EXCEPT ![Head(armTodo)][at] = Torn]
        /\ UNCHANGED <<kstar, progress>>
     \/ /\ pc = "calibrate" /\ KStar(mem) # None
        /\ kstar' = Torn /\ UNCHANGED <<trials, progress>>
     \/ /\ pc = "record" /\ ~Fatal
        /\ progress' = Torn /\ UNCHANGED <<trials, kstar>>
  /\ Off /\ UNCHANGED manual

Inside ==
  \/ SkipStep \/ RunPlain \/ Record \/ Abort \/ EndRun
  \/ BeginGates \/ WaiveGate \/ PassGate \/ FailGate \/ GatesDone
  \/ BeginArms \/ EnterArm \/ RunTrial \/ TrialError \/ EndArm \/ Calibrate

Next == (\E o \in Option : Start(o)) \/ Inside \/ Crash

Spec == Init /\ [][Next]_vars

(* The runner goes on as long as it lives, and the operator resumes it     *)
(* after whatever ended it.                                                *)
FairSpec == Spec /\ WF_vars(Inside) /\ WF_vars(Start(AutoResume))

(***************************************************************************)
(* Properties.                                                             *)
(***************************************************************************)
Recording == Session \cup {Rounded(r) : r \in Session} \cup {Rounded(<< >>)}

FilesOK ==
  /\ DOMAIN trials = Arm
  /\ \A a \in Arm : trials[a] \in [1 .. Size[a] -> Kept \cup {None, Torn}]
  /\ kstar \in 1 .. MaxCalls \cup {None, Torn}
  /\ progress \in [Step -> Status] \cup {Torn}

RunnerOK ==
  /\ pc \in {"off", "loop", "gates", "trials", "calibrate", "record"}
  /\ opt \in Option /\ todo \in Seq(Step) /\ completed \in [Step -> Status]
  /\ gateTodo \in Seq(Gate) /\ results \subseteq Gate \cup {SavedAt} /\ cleared \subseteq Gate
  /\ armTodo \in Seq(Arm) /\ at \in Nat /\ mem \in Seq(Recording) /\ budget \in Budgets

TypeOK == FilesOK /\ RunnerOK

Trusting == {s \in Step : Resume[s] # "count"}

(* The readable trials of an arm are the first ones, with at most one torn *)
(* file behind them: resume_info's arithmetic (one more than the number of *)
(* readable files) never skips a trial or runs one twice.                  *)
ReadablePrefix ==
  \A s \in Trusting : \A a \in ArmsIn(s) : \E m \in 0 .. Size[a] :
    Readable(a) = 1 .. m /\ FilesOf(a) \subseteq 1 .. m + 1

(* A step recorded as ok has every trial of its arms on disk, whatever     *)
(* kills and errors came before (the steps that resume by readable files). *)
OkMeansComplete ==
  progress # Torn => \A s \in Trusting : progress[s] = "ok" => Complete(s)

(* The operator's ways round the gates.                                    *)
RoundTheGates(o) ==
  o.only # None \/ o.from \notin {None, "gates"} \/ "gates" \in o.skip

(* A process writes a trial only when it has itself had every gate pass or *)
(* be waived, unless it found them all waived (only then is the step ever  *)
(* recorded ok) or the operator sent it round them: not after a gate that  *)
(* failed, a kill among the gates, or the exception that ends the step.    *)
GatesBeforeTrials ==
  [][trials' # trials =>
       cleared = Gate \/ completed["gates"] = "ok" \/ RoundTheGates(opt)]_vars

(* Gates that have all passed make the step one that is done.              *)
PassedGatesAreOk ==
  pc = "record" /\ Now = "gates" /\ cleared = Gate => completed[Now] = "ok"

(* No trial of a defended arm exists before the calibration that its       *)
(* budget comes from is complete.                                          *)
CalibratedFirst ==
  (\E a \in Defended : FilesOf(a) # {}) => Complete("exp6p1") /\ kstar # None

Calibration == ArmsOf["exp6p1"][1]

(* The sessions of a calibration as its files have them.                   *)
Filed == [i \in 1 .. Size[Calibration] |-> trials[Calibration][i].steps]

(* The budget of the trials of a defended arm changes at most twice: from  *)
(* the default, if the operator ran trials before the calibration, to the  *)
(* k* of the sessions as they were measured, and from either to the k* of  *)
(* the sessions as the files have them, rounded, which every later resume  *)
(* computes again.                                                         *)
BudgetSettles ==
  \A a \in Defended : \A i, j \in Readable(a) :
    i < j /\ trials[a][i].budget \notin {DefaultKStar, trials[a][j].budget}
      => trials[a][j].budget = KStar(Filed)

(* All the trials of the defended arms ran under one budget.               *)
OneBudget ==
  \A a, b \in Defended : \A i \in Readable(a), j \in Readable(b) :
    trials[a][i].budget = trials[b][j].budget

(* A save of the progress never forgets a step an earlier run recorded.    *)
NeverForgotten ==
  [][progress # Torn /\ progress' # Torn =>
       \A s \in Step : progress[s] # "none" => progress'[s] # "none"]_vars

Rises(session, k) ==
  \A i \in 2 .. Len(session) : session[i].k <= k => session[i].q >= session[i - 1].q

(* At least half of the sessions that were measured lose no quality before *)
(* step k*, and at least half have lost quality, or ended, by k*.          *)
BudgetSplits ==
  [][kstar' \in Nat /\ kstar' # kstar =>
       LET used == {i \in DOMAIN mem : Len(mem[i]) >= 2}
           whole == {i \in used : Rises(mem[i], kstar' - 1)}
           hurt  == {i \in used : ~Rises(mem[i], kstar') \/ Greatest(Steps(mem[i])) <= kstar'}
       IN 2 * Cardinality(whole) >= Cardinality(used)
          /\ 2 * Cardinality(hurt) >= Cardinality(used)]_vars

(* The results of an arm: its readable trials up to the first hole.        *)
Results(a) ==
  LET m == Greatest({i \in 0 .. Size[a] : 1 .. i \subseteq Readable(a)})
  IN [i \in 1 .. m |-> trials[a][i]]

Log == INSTANCE TrialLog WITH
         log <- [a \in Arm |-> Results(a)], Result <- Kept

(* Resuming implements the append-only log: the results of an arm only     *)
(* grow, one trial at a time, through kills, torn files and restarts.      *)
ImplementsLog == Log!Spec

AllButGatesOk == progress # Torn /\ \A s \in Step \ {"gates"} : progress[s] = "ok"

(* What no resume gets past: a torn calibration file behind a readable     *)
(* one, a calibration without a measured session, a torn k* file with the  *)
(* steps up to the calibration recorded ok.                                *)
Blocked ==
  \/ \E a \in ArmsIn("exp6p1") : Readable(a) # {} /\ FilesOf(a) # Readable(a)
  \/ /\ Complete("exp6p1")
     /\ \A a \in ArmsIn("exp6p1") : \A i \in Readable(a) : Len(trials[a][i].steps) < 2
  \/ kstar = Torn /\ Recorded["gates"] = "ok" /\ Recorded["exp6p1"] = "ok"

(* With --auto-resume after every end, a wave that suffers finitely many   *)
(* faults gets every step behind the gates recorded ok for good, although  *)
(* it starts at the gates each time, or its files block it.                *)
Completes == <>[]AllButGatesOk \/ <>[]Blocked

(* checkpoint.py says that a runner resumes exactly where it stopped: no   *)
(* step fails because of a file torn by a kill, and none ends ok with a    *)
(* trial that is torn.                                                     *)
ResumesWhereItStopped ==
  pc = "record" =>
    /\ why # "torn"
    /\ completed[Now] = "ok" => Complete(Now)

=============================================================================
