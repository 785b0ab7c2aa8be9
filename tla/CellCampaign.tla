----------------------------- MODULE CellCampaign -----------------------------
(***************************************************************************)
(* A chain of campaigns of LLM trials (srsran/llm_chain.sh and run_campaign*)
(* of srsran/llm_common.py) over the circuit.  Each stage runs its list of *)
(* cells; a cell's result is kept in a file named after what the cell is   *)
(* and which repeat of it this is.  Before a trial the AMBR is reset, the  *)
(* analytics are flushed and the campaign waits until every record reads   *)
(* the baseline.  The chain can be paused between cells, killed anywhere   *)
(* and launched again; it then starts at its first stage.                  *)
(***************************************************************************)
EXTENDS AnalyticsCircuit, FiniteSets

CONSTANTS
  Torn,
  Cell,
  Chain,        \* the stages: a sequence of lists of cells
  TrialRate,    \* rates an agent writes
  Samples,      \* records a trial needs before it starts
  MaxPauses     \* bound: times the operator pauses

ASSUME CampaignAssumption ==
  /\ Chain \in Seq(Seq(Cell)) /\ Chain # << >>
  /\ Samples \in 2 .. MaxRecords /\ TrialRate \subseteq Rate
  /\ MaxPauses \in Nat /\ Torn \notin [cell : Cell, serial : Nat, error : BOOLEAN]

VARIABLES
  pc,        \* where the experiment is, "off" when none runs
  stage, i,  \* the stage and the cell it is at
  flushed,   \* ghost: the flush before the trial did not fail
  settled,   \* what the wait before the trial returned
  error,     \* the trial that has ended failed
  ckpt,      \* the result files: [key -> row], or Torn
  results,   \* the rows of the stage
  paused,    \* the pause flag
  wrote,     \* ghost: the rates this trial has written
  serial,    \* ghost: trials begun
  pauses     \* bound

place    == <<pc, stage, i>>
trial    == <<flushed, settled, error, wrote>>
campaign == <<place, trial, ckpt, results, paused, serial, pauses>>

Cells == Chain[stage]

InitCampaign ==
  /\ pc = "off" /\ stage = 1 /\ i = 1
  /\ flushed = FALSE /\ settled = FALSE /\ error = FALSE
  /\ ckpt = << >> /\ results = << >> /\ paused = FALSE
  /\ wrote = {} /\ serial = 0 /\ pauses = 0

Rest == flushed' = FALSE /\ settled' = FALSE /\ error' = FALSE /\ wrote' = {}

Exit ==
  /\ pc' = "off" /\ stage' = 1 /\ i' = 1 /\ results' = << >> /\ Rest

Pause ==
  /\ ~paused /\ pauses < MaxPauses
  /\ paused' = TRUE /\ pauses' = pauses + 1
  /\ UNCHANGED <<circuit, place, trial, ckpt, results, serial>>

Unpause ==
  /\ paused /\ paused' = FALSE
  /\ UNCHANGED <<circuit, place, trial, ckpt, results, serial, pauses>>

Launch ==
  /\ pc = "off" /\ ~paused
  /\ EnsureCollector /\ pc' = "check"
  /\ UNCHANGED <<ambr, smf, seen, stage, i, trial, ckpt, results, paused, serial, pauses>>

(* check_collector asks for a record not older than thirty seconds: with a *)
(* live daemon the newest one is, otherwise it may be.                     *)
Check ==
  /\ pc = "check"
  /\ \/ Records # << >> /\ pc' = "next" /\ UNCHANGED <<stage, i, trial, results>>
     \/ (Records = << >> \/ daemon # "up") /\ Exit
  /\ UNCHANGED <<circuit, ckpt, paused, serial, pauses>>

(* Mutant: a file is named after the position of its cell.                 *)
KeyPositional == [cell |-> "any", rep |-> i]

Key == [cell |-> Cells[i], rep |-> Cardinality({j \in 1 .. i - 1 : Cells[j] = Cells[i]})]

Good(key) == key \in DOMAIN ckpt /\ ckpt[key] # Torn /\ ~ckpt[key].error

AtCell == pc = "next" /\ i <= Len(Cells)

PausedAtCell ==
  /\ AtCell /\ paused /\ Exit
  /\ UNCHANGED <<circuit, ckpt, paused, serial, pauses>>

Cached ==
  /\ AtCell /\ ~paused /\ Good(Key)
  /\ results' = Append(results, ckpt[Key]) /\ i' = i + 1
  /\ UNCHANGED <<circuit, pc, stage, trial, ckpt, paused, serial, pauses>>

(* Mutant: a file that does not parse ends the campaign.                   *)
BeginCellParsed ==
  /\ AtCell /\ ~paused /\ ~Good(Key)
  /\ IF Key \in DOMAIN ckpt /\ ckpt[Key] = Torn
     THEN Exit ELSE pc' = "reset" /\ UNCHANGED <<stage, i, trial, results>>
  /\ UNCHANGED <<circuit, ckpt, paused, serial, pauses>>

(* No file, a torn one, or the file of a cell that failed.                 *)
BeginCell ==
  /\ AtCell /\ ~paused /\ ~Good(Key)
  /\ pc' = "reset"
  /\ UNCHANGED <<circuit, stage, i, trial, ckpt, results, paused, serial, pauses>>

(* What the reset returns is ignored, before the trial and after it.       *)
Reset ==
  /\ pc \in {"reset", "after"} /\ Write(Baseline)
  /\ pc' = IF pc = "reset" THEN "flush" ELSE "save"
  /\ UNCHANGED <<smf, seen, daemon, stage, i, trial, ckpt, results, paused, serial, pauses>>

(* A failed flush is a warning.  A cycle under way is not touched by it.   *)
Flush ==
  /\ pc = "flush" /\ pc' = "settle"
  /\ \/ smf' = UnderWay /\ flushed' = TRUE /\ UNCHANGED faults
     \/ Fails("mongo") /\ flushed' = FALSE /\ UNCHANGED smf
  /\ UNCHANGED <<ambr, seen, daemon, stage, i, settled, error, wrote, ckpt, results,
                 paused, serial, pauses>>

(* Mutant: only as many of the newest records as a trial needs are read.   *)
AllBaselineRecent ==
  /\ Len(Records) >= Samples
  /\ \A k \in Len(Records) - Samples + 1 .. Len(Records) : Records[k] = Baseline

AllBaseline ==
  Len(Records) >= Samples /\ \A k \in DOMAIN Records : Records[k] = Baseline

(* The wait ends when the records are settled or after a timeout, and the  *)
(* trial starts in both cases.                                             *)
BeginTrial ==
  /\ pc = "settle" /\ pc' = "trial"
  /\ settled' \in {FALSE, AllBaseline}
  /\ serial' = serial + 1
  /\ UNCHANGED <<circuit, stage, i, flushed, error, wrote, ckpt, results, paused, pauses>>

TrialWrite ==
  /\ pc = "trial"
  /\ \E r \in TrialRate : ambr' = r /\ wrote' = wrote \cup {r}
  /\ UNCHANGED <<smf, seen, daemon, faults, place, flushed, settled, error, ckpt, results,
                 paused, serial, pauses>>

(* It fails if it raises, or if every step of it was an error.             *)
EndTrial ==
  /\ pc = "trial" /\ pc' = "after"
  /\ flushed' = FALSE /\ settled' = FALSE /\ wrote' = {}
  /\ \/ error' = FALSE /\ UNCHANGED faults
     \/ Fails("trial") /\ error' = TRUE
  /\ UNCHANGED <<ambr, smf, seen, daemon, stage, i, ckpt, results, paused, serial, pauses>>

Row == [cell |-> Cells[i], serial |-> serial, error |-> error]

Filed(row) == [key \in DOMAIN ckpt \cup {Key} |-> IF key = Key THEN row ELSE ckpt[key]]

Save ==
  /\ pc = "save" /\ pc' = "next" /\ i' = i + 1 /\ Rest
  /\ ckpt' = Filed(Row) /\ results' = Append(results, Row)
  /\ UNCHANGED <<circuit, stage, paused, serial, pauses>>

EndStage ==
  /\ pc = "next" /\ i > Len(Cells)
  /\ IF stage < Len(Chain)
     THEN /\ EnsureCollector /\ pc' = "check" /\ stage' = stage + 1 /\ i' = 1
          /\ results' = << >> /\ UNCHANGED trial
     ELSE Exit /\ UNCHANGED <<daemon, faults>>
  /\ UNCHANGED <<ambr, smf, seen, ckpt, paused, serial, pauses>>

(* The campaign is killed; inside the write of a file it leaves it torn.   *)
CrashCampaign ==
  /\ pc # "off" /\ Fails("crash") /\ Exit
  /\ \/ UNCHANGED ckpt
     \/ pc = "save" /\ ckpt' = Filed(Torn)
  /\ UNCHANGED <<ambr, smf, seen, daemon, paused, serial, pauses>>

Advance ==
  \/ Check \/ PausedAtCell \/ Cached \/ BeginCell \/ Reset \/ Flush
  \/ BeginTrial \/ EndTrial \/ Save \/ EndStage

NextCampaign == Launch \/ Advance \/ TrialWrite \/ Pause \/ Unpause \/ CrashCampaign

(***************************************************************************)
(* Properties.                                                             *)
(***************************************************************************)
Places == {"off", "check", "next", "reset", "flush", "settle", "trial", "after", "save"}

CampaignTypeOK ==
  /\ stage \in DOMAIN Chain /\ i \in 1 .. Len(Cells) + 1
  /\ wrote \subseteq Rate /\ serial \in Nat /\ pauses \in 0 .. MaxPauses
  /\ \A key \in DOMAIN ckpt : ckpt[key] = Torn \/ ckpt[key].serial \in 1 .. serial

(* In a trial whose flush and wait succeeded, every record and every cycle *)
(* under way shows the baseline or a rate this trial wrote (or 0, if the   *)
(* read of the sessions failed): no rate of an earlier trial reaches its   *)
(* readbacks, although a cycle that was under way inserts after the flush. *)
SettledTrialIsClean ==
  pc = "trial" /\ flushed /\ settled =>
    /\ \A k \in DOMAIN Records : Records[k] \in {Baseline, 0} \cup wrote
    /\ \A c \in Collector : seen[c] \in {Baseline, 0, None} \cup wrote

(* The rows of a stage are its own cells' in order, each from a trial of   *)
(* its own, however the stages overlap and wherever the chain was resumed. *)
ResultsAreOwn ==
  \A j \in DOMAIN results :
    /\ results[j].cell = Cells[j]
    /\ \A k \in DOMAIN results : results[k].serial = results[j].serial => k = j

AllGood ==
  \A s \in DOMAIN Chain : \A c \in Cell :
    \A n \in 0 .. Cardinality({j \in DOMAIN Chain[s] : Chain[s][j] = c}) - 1 :
      Good([cell |-> c, rep |-> n])

(* With finitely many faults and pauses, a chain that is launched again    *)
(* after every end has a good result for every repeat of every cell, or    *)
(* the daemon's process is left without its thread, which every launch     *)
(* takes for a running collector.                                          *)
Completes == <>[]AllGood \/ <>[](daemon = "dead")

=============================================================================
