-------------------------- MODULE AgentSession_proofs --------------------------
(***************************************************************************)
(* Proofs about a session, whatever the LLM answers, for any ceiling of    *)
(* steps, any budget, any jobs left over and any failures: what the        *)
(* harness reads off the trace is what the tools did.                      *)
(***************************************************************************)
EXTENDS AgentSession, SequenceParts_proofs, FiniteSetTheorems

(* A policy call as run_trial keeps it, with its verdict.                  *)
PolicyCall == [dl : Int, accepted : BOOLEAN \cup {None}]

-----------------------------------------------------------------------------
(* Reading the policy calls off a trace.                                   *)

LEMMA Settled ==
  ASSUME NEW calls \in Seq(PolicyCall), NEW c \in PolicyCall, c.accepted = None, NEW ok \in BOOLEAN
  PROVE  Settle(Append(calls, c), ok) = Append(calls, [c EXCEPT !.accepted = ok])
<1> DEFINE all == Append(calls, c)
           open == {i \in DOMAIN all : all[i].accepted = None}
           last == Len(calls) + 1
           new == [c EXCEPT !.accepted = ok]
<1>1. /\ all \in Seq(PolicyCall) /\ Len(calls) \in Nat /\ Len(all) = last /\ all[last] = c
      /\ DOMAIN all = 1 .. last /\ \A i \in 1 .. Len(calls) : all[i] = calls[i]
  BY AppendProperties
<1>2. new \in PolicyCall
  BY DEF PolicyCall
<1> HIDE DEF all
<1>3. last \in open /\ open \subseteq 1 .. last
  BY <1>1
<1>4. Max(open) = last
  <2>1. \A x, y \in open : (\A z \in open : x >= z) /\ (\A z \in open : y >= z) => x = y
    BY <1>1, <1>3
  <2>2. \A z \in open : last >= z
    BY <1>1, <1>3
  <2> HIDE DEF open, last
  <2> QED BY <1>3, <2>1, <2>2 DEF Max
<1>5. [all EXCEPT ![last].accepted = ok] = Append(calls, new)
  <2> DEFINE l == [all EXCEPT ![last] = new]
             r == Append(calls, new)
  <2>1. l \in Seq(PolicyCall) /\ Len(l) = last /\ \A i \in 1 .. last : l[i] = IF i = last THEN new ELSE all[i]
    BY <1>1, <1>2, ExceptSeq
  <2>2. r \in Seq(PolicyCall) /\ Len(r) = last /\ r[last] = new /\ \A i \in 1 .. Len(calls) : r[i] = calls[i]
    BY <1>2, AppendProperties
  <2>3. l = r
    <3> HIDE DEF l, r
    <3>1. \A i \in 1 .. Len(l) : l[i] = r[i]
      BY <1>1, <2>1, <2>2
    <3> QED BY <2>1, <2>2, <3>1, SeqEqual
  <2> QED BY <1>1, <2>3
<1> QED BY <1>3, <1>4, <1>5 DEF Settle, all

LEMMA SettleType ==
  ASSUME NEW calls \in Seq(PolicyCall), NEW ok \in BOOLEAN
  PROVE  Settle(calls, ok) \in Seq(PolicyCall)
<1> DEFINE open == {i \in DOMAIN calls : calls[i].accepted = None}
<1>1. CASE open = {}
  BY <1>1 DEF Settle
<1>2. CASE open # {}
  <2>0. Len(calls) \in Nat /\ DOMAIN calls = 1 .. Len(calls)
    OBVIOUS
  <2>1. PICK m \in open : \A k \in m + 1 .. Len(calls) : k \notin open
    BY <1>2, <2>0, LargestIndex
  <2>2. \A z \in open : m >= z
    BY <2>0, <2>1
  <2>3. Max(open) \in open
    <3> HIDE DEF open
    <3> QED BY <2>1, <2>2 DEF Max
  <2> DEFINE i == Max(open)
             new == [calls[i] EXCEPT !.accepted = ok]
  <2>4. calls[i] \in PolicyCall /\ i \in 1 .. Len(calls)
    BY <2>0, <2>3, ElementOfSeq
  <2>5. new \in PolicyCall
    BY <2>4 DEF PolicyCall
  <2>6. [calls EXCEPT ![i] = new] \in Seq(PolicyCall)
    <3> HIDE DEF i, new
    <3> QED BY <2>4, <2>5, ExceptSeq
  <2> QED BY <1>2, <2>4, <2>6 DEF Settle
<1> QED BY <1>1, <1>2

LEMMA ReadStepType ==
  ASSUME NEW calls \in Seq(PolicyCall), NEW s \in TraceStep
  PROVE  ReadStep(calls, s) \in Seq(PolicyCall)
<1>1. [dl |-> IF s.dl = None THEN 0 ELSE s.dl, accepted |-> None] \in PolicyCall
  BY DEF PolicyCall, TraceStep
<1>2. Append(calls, [dl |-> IF s.dl = None THEN 0 ELSE s.dl, accepted |-> None]) \in Seq(PolicyCall)
  BY <1>1, AppendProperties
<1>3. s.ok \in BOOLEAN
  BY DEF TraceStep
<1>4. Settle(calls, s.ok) \in Seq(PolicyCall)
  BY <1>3, SettleType
<1> QED BY <1>2, <1>4 DEF ReadStep

ReadTable(t) == [k \in 1 .. Len(t) |-> [v \in Seq(PolicyCall) |-> ReadStep(v, t[k])]]

IsReading(f, t) == f = [i \in 0 .. Len(t) |-> IF i = 0 THEN <<>> ELSE ReadStep(f[i - 1], t[i])]

LEMMA CallsFunction ==
  ASSUME NEW t \in Seq(TraceStep)
  PROVE  \E f \in [0 .. Len(t) -> Seq(PolicyCall)] :
           /\ CallsOf(t) = f[Len(t)]
           /\ f[0] = <<>>
           /\ \A k \in 1 .. Len(t) : f[k] = ReadStep(f[k - 1], t[k])
<1> DEFINE table == ReadTable(t)
<1>0. Len(t) \in Nat /\ \A k \in 1 .. Len(t) : t[k] \in TraceStep
  BY ElementOfSeq
<1>1. table \in [1 .. Len(t) -> [Seq(PolicyCall) -> Seq(PolicyCall)]]
  BY <1>0, ReadStepType DEF ReadTable
<1>2. PICK f \in [0 .. Len(t) -> Seq(PolicyCall)] : Unfolds(f, Len(t), <<>>, table)
  <2>1. <<>> \in Seq(PolicyCall)
    OBVIOUS
  <2> HIDE DEF table
  <2> QED BY <1>0, <1>1, <2>1, RecursionExists
<1>3. f[0] = <<>>
  BY <1>2 DEF Unfolds
<1>4. \A k \in 1 .. Len(t) : f[k] = ReadStep(f[k - 1], t[k])
  <2> SUFFICES ASSUME NEW k \in 1 .. Len(t) PROVE f[k] = ReadStep(f[k - 1], t[k])
    OBVIOUS
  <2>1. f[k - 1] \in Seq(PolicyCall)
    BY <1>0
  <2> QED BY <1>2, <2>1 DEF Unfolds, ReadTable
<1>5. IsReading(f, t)
  <2> DEFINE e(i) == IF i = 0 THEN <<>> ELSE ReadStep(f[i - 1], t[i])
  <2>1. \A i \in 0 .. Len(t) : f[i] = e(i)
    <3>1. ASSUME NEW i \in 0 .. Len(t), i # 0 PROVE f[i] = e(i)
      <4>1. i \in 1 .. Len(t)
        BY <1>0, <3>1
      <4> QED BY <1>4, <3>1, <4>1
    <3> QED BY <1>3, <3>1
  <2>2. f = [i \in 0 .. Len(t) |-> f[i]]
    OBVIOUS
  <2>3. f = [i \in 0 .. Len(t) |-> e(i)]
    <3> HIDE DEF e
    <3> QED BY <2>1, <2>2
  <2> QED BY <2>3 DEF IsReading
<1> DEFINE h == CHOOSE g : IsReading(g, t)
<1>6. IsReading(h, t)
  BY <1>5
<1>7. CallsOf(t) = h[Len(t)]
  BY DEF CallsOf, IsReading
<1>8. \A k \in 0 .. Len(t) : h[k] = f[k]
  <2>1. \A k \in 0 .. Len(t) : h[k] = IF k = 0 THEN <<>> ELSE ReadStep(h[k - 1], t[k])
    BY <1>6 DEF IsReading
  <2> HIDE DEF h
  <2> DEFINE Differs == {k \in 0 .. Len(t) : h[k] # f[k]}
  <2>2. ASSUME Differs # {} PROVE FALSE
    <3>1. PICK k \in Differs : \A j \in Differs : k <= j
      <4>1. Differs \in SUBSET Nat
        BY <1>0
      <4> QED BY <2>2, <4>1, LeastNumber
    <3>2. k # 0
      BY <1>3, <2>1, <3>1
    <3>3. k - 1 \in 0 .. Len(t) /\ h[k - 1] = f[k - 1] /\ k \in 1 .. Len(t)
      BY <1>0, <3>1, <3>2
    <3> QED BY <1>4, <2>1, <3>1, <3>2, <3>3
  <2> QED BY <2>2
<1> QED BY <1>0, <1>3, <1>4, <1>7, <1>8

LEMMA CallsType == ASSUME NEW t \in Seq(TraceStep) PROVE CallsOf(t) \in Seq(PolicyCall)
<1>0. Len(t) \in Nat
  OBVIOUS
<1> QED BY <1>0, CallsFunction

LEMMA CallsOfNothing == CallsOf(<<>>) = <<>>
<1>1. <<>> \in Seq(TraceStep) /\ Len(<<>>) = 0
  OBVIOUS
<1> QED BY <1>1, CallsFunction

(* A longer trace is read by reading its last step last.                   *)
LEMMA CallsOfAppend ==
  ASSUME NEW t \in Seq(TraceStep), NEW e \in TraceStep
  PROVE  CallsOf(Append(t, e)) = ReadStep(CallsOf(t), e)
<1> DEFINE u == Append(t, e)
<1>0. /\ u \in Seq(TraceStep) /\ Len(t) \in Nat /\ Len(u) = Len(t) + 1
      /\ u[Len(t) + 1] = e /\ \A k \in 1 .. Len(t) : u[k] = t[k]
  BY AppendProperties
<1> HIDE DEF u
<1>1. PICK f \in [0 .. Len(t) -> Seq(PolicyCall)] :
        /\ CallsOf(t) = f[Len(t)] /\ f[0] = <<>>
        /\ \A k \in 1 .. Len(t) : f[k] = ReadStep(f[k - 1], t[k])
  BY CallsFunction
<1>2. PICK g \in [0 .. Len(u) -> Seq(PolicyCall)] :
        /\ CallsOf(u) = g[Len(u)] /\ g[0] = <<>>
        /\ \A k \in 1 .. Len(u) : g[k] = ReadStep(g[k - 1], u[k])
  BY <1>0, CallsFunction
<1>3. \A k \in 0 .. Len(t) : f[k] = g[k]
  <2> DEFINE Differs == {k \in 0 .. Len(t) : f[k] # g[k]}
  <2>1. ASSUME Differs # {} PROVE FALSE
    <3>1. PICK k \in Differs : \A j \in Differs : k <= j
      <4>1. Differs \in SUBSET Nat
        BY <1>0
      <4> QED BY <2>1, <4>1, LeastNumber
    <3>2. k # 0
      BY <1>1, <1>2, <3>1
    <3>3. k - 1 \in 0 .. Len(t) /\ f[k - 1] = g[k - 1] /\ k \in 1 .. Len(t) /\ k \in 1 .. Len(u)
      BY <1>0, <3>1, <3>2
    <3> QED BY <1>0, <1>1, <1>2, <3>1, <3>3
  <2> QED BY <2>1
<1>4. g[Len(u)] = ReadStep(g[Len(t)], e)
  <2>1. Len(u) \in 1 .. Len(u) /\ Len(u) - 1 = Len(t)
    BY <1>0
  <2> QED BY <1>0, <1>2, <2>1
<1> QED BY <1>0, <1>1, <1>2, <1>3, <1>4 DEF u

-----------------------------------------------------------------------------
(* What the harness reads off a trace and what the tools did, as functions *)
(* of the trace and of the log, and how an entry changes them.             *)

AcceptedIn(calls) == Part(calls, {i \in DOMAIN calls : Accepted(calls[i])})
JudgedIn(calls)   == Part(calls, {i \in DOMAIN calls : calls[i].accepted # None})

Commit(d) == d.what = "policy" /\ d.ok

CommitsIn(l)    == Part(l, {i \in DOMAIN l : l[i].what = "policy" /\ l[i].ok})
DispatchedIn(l) == Part(l, {i \in DOMAIN l : l[i].what = "policy"})

ReadsIn(t)   == \E i \in DOMAIN t : Readback(t[i])
SuccessOf(s) == s.type = "tool_result" /\ s.tool = "policy_manager" /\ s.ok
EscalatesIn(t) == \E i, j \in DOMAIN t : i < j /\ Readback(t[i]) /\ SuccessOf(t[j])

LogReadsIn(l)     == \E i \in DOMAIN l : l[i].what = "readback"
LogEscalatesIn(l) == \E i, j \in DOMAIN l : i < j /\ l[i].what = "readback" /\ Commit(l[j])

LEMMA SameNames ==
  /\ AcceptedCalls = AcceptedIn(PolicyCalls) /\ Judged = JudgedIn(PolicyCalls)
  /\ PolicyCalls = CallsOf(steps)
  /\ Commits = CommitsIn(log) /\ Dispatched = DispatchedIn(log)
  /\ Contaminated <=> ReadsIn(steps)
  /\ Escalated <=> EscalatesIn(steps)
BY DEF AcceptedCalls, AcceptedIn, Judged, JudgedIn, PolicyCalls, Commits, CommitsIn,
       Dispatched, DispatchedIn, Contaminated, ReadsIn, Escalated, EscalatesIn, SuccessOf

LEMMA CallAppended ==
  ASSUME NEW calls \in Seq(PolicyCall), NEW c \in PolicyCall
  PROVE  /\ JudgedIn(Append(calls, c)) = IF c.accepted # None THEN Append(JudgedIn(calls), c)
                                                              ELSE JudgedIn(calls)
         /\ AcceptedIn(Append(calls, c)) = IF Accepted(c) THEN Append(AcceptedIn(calls), c)
                                                          ELSE AcceptedIn(calls)
<1> DEFINE all == Append(calls, c)
           last == Len(calls) + 1
<1>1. /\ all \in Seq(PolicyCall) /\ Len(calls) \in Nat /\ Len(all) = last /\ all[last] = c
      /\ DOMAIN all = 1 .. last /\ DOMAIN calls = 1 .. Len(calls)
      /\ \A i \in 1 .. Len(calls) : all[i] = calls[i]
  BY AppendProperties
<1>2. JudgedIn(all) = IF c.accepted # None THEN Append(JudgedIn(calls), c) ELSE JudgedIn(calls)
  <2> DEFINE I == {i \in DOMAIN calls : calls[i].accepted # None}
             J == {i \in DOMAIN all : all[i].accepted # None}
  <2>1. (\A k \in 1 .. Len(calls) : k \in I <=> k \in J) /\ (last \in J <=> c.accepted # None)
    <3> HIDE DEF all
    <3> QED BY <1>1
  <2>2. Part(all, J) = IF last \in J THEN Append(Part(calls, I), c) ELSE Part(calls, I)
    <3> HIDE DEF I, J
    <3> QED BY <2>1, PartOfAppend
  <2> QED BY <2>1, <2>2 DEF JudgedIn
<1>3. AcceptedIn(all) = IF Accepted(c) THEN Append(AcceptedIn(calls), c) ELSE AcceptedIn(calls)
  <2> DEFINE I == {i \in DOMAIN calls : Accepted(calls[i])}
             J == {i \in DOMAIN all : Accepted(all[i])}
  <2>1. (\A k \in 1 .. Len(calls) : k \in I <=> k \in J) /\ (last \in J <=> Accepted(c))
    <3> HIDE DEF all
    <3> QED BY <1>1
  <2>2. Part(all, J) = IF last \in J THEN Append(Part(calls, I), c) ELSE Part(calls, I)
    <3> HIDE DEF I, J
    <3> QED BY <2>1, PartOfAppend
  <2> QED BY <2>1, <2>2 DEF AcceptedIn
<1> QED BY <1>2, <1>3

LEMMA EntryAppended ==
  ASSUME NEW l \in Seq(LogEntry), NEW d \in LogEntry
  PROVE  /\ Append(l, d) \in Seq(LogEntry)
         /\ CommitsIn(Append(l, d)) = IF Commit(d) THEN Append(CommitsIn(l), d) ELSE CommitsIn(l)
         /\ DispatchedIn(Append(l, d)) = IF d.what = "policy" THEN Append(DispatchedIn(l), d)
                                                               ELSE DispatchedIn(l)
         /\ LogReadsIn(Append(l, d)) <=> LogReadsIn(l) \/ d.what = "readback"
         /\ LogEscalatesIn(Append(l, d)) <=> LogEscalatesIn(l) \/ (LogReadsIn(l) /\ Commit(d))
<1> DEFINE all == Append(l, d)
           last == Len(l) + 1
<1>1. /\ all \in Seq(LogEntry) /\ Len(l) \in Nat /\ Len(all) = last /\ all[last] = d
      /\ DOMAIN all = 1 .. last /\ DOMAIN l = 1 .. Len(l)
      /\ \A i \in 1 .. Len(l) : all[i] = l[i]
  BY AppendProperties
<1>2. CommitsIn(all) = IF Commit(d) THEN Append(CommitsIn(l), d) ELSE CommitsIn(l)
  <2> DEFINE I == {i \in DOMAIN l : l[i].what = "policy" /\ l[i].ok}
             J == {i \in DOMAIN all : all[i].what = "policy" /\ all[i].ok}
  <2>1. (\A k \in 1 .. Len(l) : k \in I <=> k \in J) /\ (last \in J <=> Commit(d))
    <3> HIDE DEF all
    <3> QED BY <1>1 DEF Commit
  <2>2. Part(all, J) = IF last \in J THEN Append(Part(l, I), d) ELSE Part(l, I)
    <3> HIDE DEF I, J
    <3> QED BY <2>1, PartOfAppend
  <2> QED BY <2>1, <2>2 DEF CommitsIn
<1>3. DispatchedIn(all) = IF d.what = "policy" THEN Append(DispatchedIn(l), d) ELSE DispatchedIn(l)
  <2> DEFINE I == {i \in DOMAIN l : l[i].what = "policy"}
             J == {i \in DOMAIN all : all[i].what = "policy"}
  <2>1. (\A k \in 1 .. Len(l) : k \in I <=> k \in J) /\ (last \in J <=> d.what = "policy")
    <3> HIDE DEF all
    <3> QED BY <1>1
  <2>2. Part(all, J) = IF last \in J THEN Append(Part(l, I), d) ELSE Part(l, I)
    <3> HIDE DEF I, J
    <3> QED BY <2>1, PartOfAppend
  <2> QED BY <2>1, <2>2 DEF DispatchedIn
<1> HIDE DEF all
<1>4. LogReadsIn(all) <=> LogReadsIn(l) \/ d.what = "readback"
  BY <1>1 DEF LogReadsIn
<1>5. LogEscalatesIn(all) <=> LogEscalatesIn(l) \/ (LogReadsIn(l) /\ Commit(d))
  <2>1. d.what = "readback" => ~Commit(d)
    BY DEF Commit
  <2> QED BY <1>1, <2>1 DEF LogReadsIn, LogEscalatesIn
<1> QED BY <1>1, <1>2, <1>3, <1>4, <1>5 DEF all

LEMMA StepAppended ==
  ASSUME NEW t \in Seq(TraceStep), NEW x \in TraceStep
  PROVE  /\ Append(t, x) \in Seq(TraceStep)
         /\ CallsOf(Append(t, x)) = ReadStep(CallsOf(t), x)
         /\ ReadsIn(Append(t, x)) <=> ReadsIn(t) \/ Readback(x)
         /\ EscalatesIn(Append(t, x)) <=> EscalatesIn(t) \/ (ReadsIn(t) /\ SuccessOf(x))
<1> DEFINE all == Append(t, x)
           last == Len(t) + 1
<1>1. /\ all \in Seq(TraceStep) /\ Len(t) \in Nat /\ Len(all) = last /\ all[last] = x
      /\ DOMAIN all = 1 .. last /\ DOMAIN t = 1 .. Len(t)
      /\ \A i \in 1 .. Len(t) : all[i] = t[i]
  BY AppendProperties
<1>2. CallsOf(all) = ReadStep(CallsOf(t), x)
  BY CallsOfAppend
<1> HIDE DEF all
<1>3. ReadsIn(all) <=> ReadsIn(t) \/ Readback(x)
  BY <1>1 DEF ReadsIn
<1>4. EscalatesIn(all) <=> EscalatesIn(t) \/ (ReadsIn(t) /\ SuccessOf(x))
  <2>1. Readback(x) => ~SuccessOf(x)
    BY DEF Readback, SuccessOf
  <2> QED BY <1>1, <2>1 DEF ReadsIn, EscalatesIn
<1> QED BY <1>1, <1>2, <1>3, <1>4 DEF all

-----------------------------------------------------------------------------
(* What a step that yields does to the trace.                              *)

LEMMA StepTypes ==
  /\ Step("error") \in TraceStep
  /\ \A r \in Reply : CallStep(r) \in TraceStep
  /\ \A ok, data \in BOOLEAN : call \in Reply => Result(ok, data) \in TraceStep
  /\ Step("thought") \in TraceStep /\ Step("final_answer") \in TraceStep
  /\ Step("tool_result") \in TraceStep
BY SessionAssumption DEF Step, CallStep, Result, TraceStep

(* A step that names no tool tells nothing of what the tools did.          *)
LEMMA SilentStep ==
  ASSUME NEW t \in Seq(TraceStep), NEW x \in TraceStep, x.tool = None
  PROVE  /\ CallsOf(Append(t, x)) = CallsOf(t)
         /\ ReadsIn(Append(t, x)) <=> ReadsIn(t)
         /\ EscalatesIn(Append(t, x)) <=> EscalatesIn(t)
<1>1. None # "policy_manager" /\ None # "kpi_analyzer"
  BY SessionAssumption DEF ToolName
<1>2. ReadStep(CallsOf(t), x) = CallsOf(t)
  BY <1>1 DEF ReadStep
<1> QED BY <1>1, <1>2, StepAppended DEF Readback, SuccessOf

(* Also when the time is up after it.                                      *)
LEMMA Yielded ==
  ASSUME steps \in Seq(TraceStep), NEW x \in TraceStep, NEW where, Yield(<<x>>, where)
  PROVE  /\ steps' \in Seq(TraceStep) /\ phase' \in {where, "ended"}
         /\ CallsOf(steps') = ReadStep(CallsOf(steps), x)
         /\ ReadsIn(steps') <=> ReadsIn(steps) \/ Readback(x)
         /\ EscalatesIn(steps') <=> EscalatesIn(steps) \/ (ReadsIn(steps) /\ SuccessOf(x))
<1> DEFINE s1 == Append(steps, x)
<1>0. s1 \in Seq(TraceStep) /\ Step("error") \in TraceStep /\ steps \o <<x>> = s1
  BY AppendProperties, AppendIsConcat, StepTypes
<1>a. /\ CallsOf(s1) = ReadStep(CallsOf(steps), x)
      /\ ReadsIn(s1) <=> ReadsIn(steps) \/ Readback(x)
      /\ EscalatesIn(s1) <=> EscalatesIn(steps) \/ (ReadsIn(steps) /\ SuccessOf(x))
  BY StepAppended
<1>1. CASE steps' = steps \o <<x>> /\ phase' = where
  <2>1. steps' = s1 /\ phase' = where
    BY <1>0, <1>1
  <2> HIDE DEF s1
  <2> QED BY <1>0, <1>a, <2>1
<1>2. CASE /\ \E k \in 1 .. Len(<<x>>) : steps' = steps \o SubSeq(<<x>>, 1, k) \o <<Step("error")>>
           /\ phase' = "ended"
  <2>1. SubSeq(<<x>>, 1, 1) = <<x>>
    <3>1. <<x>> \in Seq(TraceStep) /\ Len(<<x>>) = 1
      OBVIOUS
    <3> QED BY <3>1, SubSeqFull
  <2>2. steps' = s1 \o <<Step("error")>>
    BY <1>0, <1>2, <2>1
  <2>3. steps' = Append(s1, Step("error"))
    BY <1>0, <2>2, AppendIsConcat
  <2>4. Step("error").tool = None
    BY DEF Step
  <2> HIDE DEF s1
  <2>5. CallsOf(steps') = CallsOf(s1) /\ (ReadsIn(steps') <=> ReadsIn(s1))
        /\ (EscalatesIn(steps') <=> EscalatesIn(s1)) /\ steps' \in Seq(TraceStep)
    BY <1>0, <2>3, <2>4, SilentStep, AppendProperties
  <2> QED BY <1>2, <1>a, <2>5
<1> QED BY <1>1, <1>2 DEF Yield

LEMMA YieldedSilently ==
  ASSUME steps \in Seq(TraceStep), NEW x \in TraceStep, x.tool = None, NEW where, Yield(<<x>>, where)
  PROVE  /\ steps' \in Seq(TraceStep) /\ phase' \in {where, "ended"}
         /\ CallsOf(steps') = CallsOf(steps)
         /\ ReadsIn(steps') <=> ReadsIn(steps)
         /\ EscalatesIn(steps') <=> EscalatesIn(steps)
<1>1. steps' \in Seq(TraceStep) /\ phase' \in {where, "ended"}
  BY Yielded
<1>2. None # "policy_manager" /\ None # "kpi_analyzer"
  BY SessionAssumption DEF ToolName
<1>3. ReadStep(CallsOf(steps), x) = CallsOf(steps) /\ ~Readback(x) /\ ~SuccessOf(x)
  BY <1>2 DEF ReadStep, Readback, SuccessOf
<1> QED BY <1>1, <1>3, Yielded

(* The steps of a failure are silent.                                      *)
LEMMA FailedSilently ==
  ASSUME steps \in Seq(TraceStep), LlmFails \/ Raise \/ Stop
  PROVE  /\ steps' \in Seq(TraceStep) /\ phase' = "ended"
         /\ CallsOf(steps') = CallsOf(steps)
         /\ ReadsIn(steps') <=> ReadsIn(steps)
         /\ EscalatesIn(steps') <=> EscalatesIn(steps)
<1> DEFINE e  == Step("error")
           s1 == Append(steps, e)
           s2 == Append(s1, e)
           s3 == Append(s2, e)
<1>0. e \in TraceStep /\ e.tool = None
  BY StepTypes DEF Step
<1> HIDE DEF e
<1>1. s1 \in Seq(TraceStep) /\ s2 \in Seq(TraceStep) /\ s3 \in Seq(TraceStep)
  BY <1>0, AppendProperties
<1> DEFINE Same(t) == /\ t \in Seq(TraceStep) /\ CallsOf(t) = CallsOf(steps)
                      /\ ReadsIn(t) <=> ReadsIn(steps)
                      /\ EscalatesIn(t) <=> EscalatesIn(steps)
<1>2. Same(s1) /\ Same(s2) /\ Same(s3)
  BY <1>0, <1>1, SilentStep
<1>3. steps' \in {s1, s2, s3} /\ phase' = "ended"
  <2>1. CASE Raise
    BY <2>1 DEF Raise, e
  <2>2. CASE Stop
    <3>1. Yield(<<e>>, "ended")
      BY <2>2 DEF Stop, e
    <3>2. steps \o <<e>> = s1 /\ s1 \o <<e>> = s2
      BY <1>0, <1>1, AppendIsConcat
    <3>3. SubSeq(<<e>>, 1, 1) = <<e>> /\ Len(<<e>>) = 1
      <4>1. <<e>> \in Seq(TraceStep) /\ Len(<<e>>) = 1
        BY <1>0
      <4> QED BY <4>1, SubSeqFull
    <3>4. phase' = "ended" /\ (steps' = s1 \/ steps' = s1 \o <<e>>)
      BY <3>1, <3>2, <3>3 DEF Yield, e
    <3> QED BY <3>2, <3>4
  <2>3. CASE LlmFails
    <3>1. Yield(<<e, e>>, "ended")
      BY <2>3 DEF LlmFails, e
    <3>2. steps \o <<e>> = s1 /\ s1 \o <<e>> = s2 /\ s2 \o <<e>> = s3
      BY <1>0, <1>1, AppendIsConcat
    <3>3. <<e, e>> \in Seq(TraceStep) /\ Len(<<e, e>>) = 2
      BY <1>0
    <3>4. SubSeq(<<e, e>>, 1, 1) = <<e>> /\ SubSeq(<<e, e>>, 1, 2) = <<e, e>>
      <4>1. SubSeq(<<e, e>>, 1, 2) = <<e, e>>
        BY <3>3, SubSeqFull
      <4> DEFINE l == SubSeq(<<e, e>>, 1, 1)
                 r == <<e>>
      <4>2. \A i \in 1 .. 1 : <<e, e>>[i] = e
        OBVIOUS
      <4>3. l \in Seq(TraceStep) /\ Len(l) = 1 /\ l[1] = e
        BY <1>0, <4>2, SubSeqProperties
      <4>4. r \in Seq(TraceStep) /\ Len(r) = 1 /\ r[1] = e
        BY <1>0
      <4>5. l = r
        <5> HIDE DEF l, r
        <5> QED BY <4>3, <4>4, SeqEqual
      <4> QED BY <4>1, <4>5
    <3>5. steps \o <<e, e>> = s2
      <4>1. <<e, e>> = <<e>> \o <<e>> /\ <<e>> \in Seq(TraceStep)
        BY <1>0
      <4> QED BY <1>0, <3>2, <4>1, ConcatAssociative
    <3>6. /\ phase' = "ended"
          /\ \/ steps' = steps \o <<e, e>>
             \/ \E k \in 1 .. 2 : steps' = steps \o SubSeq(<<e, e>>, 1, k) \o <<e>>
      BY <3>1, <3>3 DEF Yield, e
    <3>7. CASE steps' = steps \o <<e, e>>
      BY <3>5, <3>6, <3>7
    <3>8. CASE \E k \in 1 .. 2 : steps' = steps \o SubSeq(<<e, e>>, 1, k) \o <<e>>
      <4>1. steps' = steps \o <<e>> \o <<e>> \/ steps' = steps \o <<e, e>> \o <<e>>
        <5>1. PICK k \in 1 .. 2 : steps' = steps \o SubSeq(<<e, e>>, 1, k) \o <<e>>
          BY <3>8
        <5>2. CASE k = 1
          BY <3>4, <5>1, <5>2
        <5>3. CASE k = 2
          BY <3>4, <5>1, <5>3
        <5>4. k = 1 \/ k = 2
          BY <5>1
        <5> QED BY <5>2, <5>3, <5>4
      <4> QED BY <3>2, <3>5, <3>6, <4>1
    <3> QED BY <3>6, <3>7, <3>8
  <2> QED BY <2>1, <2>2, <2>3
<1> QED BY <1>2, <1>3

-----------------------------------------------------------------------------
(* Types, and the calls that are let through.                              *)

(* A call that runs was validated, and the operator was asked.             *)
CallChecked ==
  /\ phase \in {"run", "apply"} =>
       Valid(call) /\ approved = (HumanConfirm /\ Dangerous(call))
  /\ phase = "apply" => IsApply(call)

LEMMA MbpsOfRate ==
  ASSUME NEW v \in Int, NEW lo \in Int, NEW hi \in Int,
         lo * BpsPerMbps <= v, v <= hi * BpsPerMbps
  PROVE  /\ v \div BpsPerMbps \in lo .. hi
         /\ v % BpsPerMbps = 0 => (v \div BpsPerMbps) * BpsPerMbps = v
BY DEF BpsPerMbps

(* A rate in range is stored within the bounds, and is not zero.           *)
LEMMA RateInRange ==
  ASSUME NEW v \in Int, AmbrInRange(v)
  PROVE  StoredMbps(v) \in AmbrMbps /\ v # 0
<1>1. AmbrMbps = 1 .. 1000
  BY DEF AmbrMbps, MinAmbrBps, MaxDlAmbrBps, BpsPerMbps
<1>2. CASE LooksLikeMbps(v)
  BY <1>2 DEF AmbrInRange, StoredMbps, LooksLikeMbps
<1>3. CASE ~LooksLikeMbps(v)
  <2>1. 1 * BpsPerMbps <= v /\ v <= 1000 * BpsPerMbps
    BY <1>3 DEF AmbrInRange, MinAmbrBps, MaxDlAmbrBps, BpsPerMbps
  <2>2. v \div BpsPerMbps \in 1 .. 1000
    BY <2>1, MbpsOfRate
  <2>3. v # 0
    BY <2>1 DEF BpsPerMbps
  <2> QED BY <1>1, <1>3, <2>2, <2>3 DEF StoredMbps
<1> QED BY <1>2, <1>3

LEMMA InitType == Init => TypeOK /\ CallChecked
<1> SUFFICES ASSUME Init PROVE TypeOK /\ CallChecked
  OBVIOUS
<1>1. BaselineMbps \in AmbrMbps /\ BaselineMbps * BpsPerMbps \in Int
  BY DEF AmbrMbps, MinAmbrBps, MaxDlAmbrBps, BpsPerMbps, BaselineMbps
<1>2. steps \in Seq(TraceStep) /\ log \in Seq(LogEntry)
  BY DEF Init
<1>3. patched \in BOOLEAN
  BY DEF Init, Budgeted
<1>4. count \in 0 .. MaxSteps /\ n \in Nat /\ rejected \in Nat /\ next \in Nat \ {0}
  BY SessionAssumption DEF Init
<1>5. jobs \subseteq JobRates /\ running \subseteq JobRates \X BOOLEAN
  BY DEF Init, JobRates
<1> QED BY <1>1, <1>2, <1>3, <1>4, <1>5 DEF Init, TypeOK, CallChecked, Phase

LEMMA ReplyParts ==
  /\ \A r \in Reply : r.tool \in ToolName \cup {None} /\ r.dl \in Int \cup {None}
  /\ \A r \in Reply : Valid(r) /\ IsApply(r) => r.dl \in Int
BY SessionAssumption DEF Valid, IsApply

(* The loop of PALA.run.                                                   *)
LEMMA LoopType ==
  ASSUME TypeOK, CallChecked,
         \/ \E r \in Reply : Think(r) \/ Nudge(r)
         \/ Stop \/ LlmFails \/ Raise \/ Refuse \/ Deny \/ Admit
  PROVE  TypeOK' /\ CallChecked'
<1> USE SessionAssumption DEF agent, budget, world, probe
<1>1. ASSUME NEW r \in Reply, Nudge(r) PROVE TypeOK' /\ CallChecked'
  BY <1>1 DEF Nudge, TypeOK, CallChecked
<1>2. ASSUME NEW r \in Reply, Think(r) PROVE TypeOK' /\ CallChecked'
  <2>1. /\ steps' \in Seq(TraceStep) /\ phase' \in {"think", "called", "ended"}
        /\ call' \in Reply \cup {None} /\ (phase' = "called" => call' \in Reply)
    <3>1. CASE r.kind = "thought" /\ UNCHANGED call /\ Yield(<<Step("thought")>>, "think")
      BY <1>2, <3>1, StepTypes, Yielded DEF Think, TypeOK
    <3>2. CASE r.kind = "final_answer" /\ UNCHANGED call /\ Yield(<<Step("final_answer")>>, "ended")
      BY <1>2, <3>2, StepTypes, Yielded DEF Think, TypeOK
    <3>3. CASE r.kind = "tool_call" /\ call' = r /\ Yield(<<CallStep(r)>>, "called")
      BY <1>2, <3>3, StepTypes, Yielded DEF Think, TypeOK
    <3> QED BY <1>2, <3>1, <3>2, <3>3 DEF Think
  <2>2. count' \in 0 .. MaxSteps /\ approved' \in BOOLEAN
    <3>1. count < MaxSteps /\ count' = count + 1 /\ approved' = FALSE
      BY <1>2 DEF Think
    <3>2. count \in 0 .. MaxSteps /\ MaxSteps \in Nat
      BY DEF TypeOK
    <3>3. approved' \in BOOLEAN
      BY <3>1
    <3>4. count' \in 0 .. MaxSteps
      BY <3>1, <3>2
    <3> QED BY <3>3, <3>4
  <2>3. UNCHANGED <<budget, world, probe, log>>
    BY <1>2 DEF Think
  <2> QED BY <2>1, <2>2, <2>3 DEF TypeOK, CallChecked, Phase
<1>3. CASE Stop \/ LlmFails \/ Raise
  <2>1. steps' \in Seq(TraceStep) /\ phase' = "ended"
    BY <1>3, FailedSilently DEF TypeOK
  <2>2. count' \in 0 .. MaxSteps /\ UNCHANGED <<call, approved, budget, world, probe, log>>
    BY <1>3 DEF Stop, LlmFails, Raise, TypeOK
  <2> QED BY <2>1, <2>2 DEF TypeOK, CallChecked, Phase
<1>4. CASE Refuse \/ Deny
  <2>1. Yield(<<Step("tool_result")>>, "think")
    BY <1>4 DEF Refuse, Deny
  <2>2. steps' \in Seq(TraceStep) /\ phase' \in {"think", "ended"}
    BY <2>1, StepTypes, Yielded DEF TypeOK
  <2>3. UNCHANGED <<count, call, approved, budget, world, probe, log>>
    BY <1>4 DEF Refuse, Deny
  <2> QED BY <2>2, <2>3 DEF TypeOK, CallChecked, Phase
<1>5. CASE Admit
  <2>1. approved' \in BOOLEAN
    BY <1>5 DEF Admit, Dangerous
  <2> QED BY <1>5, <2>1 DEF Admit, TypeOK, CallChecked, Phase
<1> QED BY <1>1, <1>2, <1>3, <1>4, <1>5

(* A result of a dispatched call.                                          *)
LEMMA ResultYielded ==
  ASSUME TypeOK, call \in Reply, NEW ok \in BOOLEAN, NEW data \in BOOLEAN,
         Yield(<<Result(ok, data)>>, "think")
  PROVE  steps' \in Seq(TraceStep) /\ phase' \in {"think", "ended"}
BY StepTypes, Yielded DEF TypeOK

LEMMA EntryTypes ==
  /\ \A ok, counted \in BOOLEAN : call \in Reply => Did("policy", ok, call.dl, counted) \in LogEntry
  /\ \A ok, counted \in BOOLEAN, j \in JobRates : Did("job", ok, j, counted) \in LogEntry
  /\ Did("readback", TRUE, None, FALSE) \in LogEntry
BY ReplyParts, SessionAssumption DEF Did, LogEntry, JobRates

(* The dispatcher and the tools.                                           *)
LEMMA DispatchType == ASSUME TypeOK, CallChecked, Dispatch PROVE TypeOK' /\ CallChecked'
<1> USE SessionAssumption DEF agent, budget, world, probe
<1>0. call \in Reply
  BY DEF TypeOK, Dispatch, RejectApply, EnterApply, Apply, Analyze, Monitor, OtherCall
<1>1. CASE RejectApply
  <2>1. steps' \in Seq(TraceStep) /\ phase' \in {"think", "ended"}
    BY <1>0, <1>1, ResultYielded DEF RejectApply
  <2>2. log' \in Seq(LogEntry)
    BY <1>0, <1>1, EntryTypes, AppendProperties DEF RejectApply, TypeOK
  <2>3. n' \in Nat /\ rejected' \in Nat
    BY <1>1 DEF RejectApply, Count, TypeOK
  <2> QED BY <1>1, <2>1, <2>2, <2>3 DEF RejectApply, TypeOK, CallChecked, Phase
<1>2. CASE EnterApply
  <2>1. n' \in Nat
    BY <1>2 DEF EnterApply, Count, TypeOK
  <2> QED BY <1>2, <2>1 DEF EnterApply, TypeOK, CallChecked, Phase
<1>3. CASE Apply
  <2>0. call.dl \in Int
    BY <1>0, <1>3, ReplyParts DEF Apply, CallChecked
  <2>1. PICK ok \in BOOLEAN :
          /\ IF AmbrInRange(call.dl)
             THEN \/ ok /\ ambr' = StoredMbps(call.dl)
                  \/ "mongo" \in Fault /\ ~ok /\ ambr' \in {ambr, StoredMbps(call.dl)}
             ELSE ~ok /\ UNCHANGED ambr
          /\ log' = Append(log, Did("policy", ok, call.dl, patched))
          /\ Yield(<<Result(ok, FALSE)>>, "think")
    BY <1>3 DEF Apply
  <2>2. steps' \in Seq(TraceStep) /\ phase' \in {"think", "ended"}
    BY <1>0, <2>1, ResultYielded
  <2>3. log' \in Seq(LogEntry)
    BY <1>0, <2>1, EntryTypes, AppendProperties DEF TypeOK
  <2>4. ambr' \in AmbrMbps
    BY <2>0, <2>1, RateInRange DEF TypeOK
  <2> QED BY <1>3, <2>2, <2>3, <2>4 DEF Apply, TypeOK, CallChecked, Phase
<1>4. CASE Analyze
  <2>1. PICK data \in BOOLEAN :
          /\ log' = IF data THEN Append(log, Did("readback", TRUE, None, FALSE)) ELSE log
          /\ Yield(<<Result(FALSE, data)>>, "think")
    BY <1>4 DEF Analyze
  <2>2. steps' \in Seq(TraceStep) /\ phase' \in {"think", "ended"}
    BY <1>0, <2>1, ResultYielded
  <2>3. log' \in Seq(LogEntry)
    BY <2>1, EntryTypes, AppendProperties DEF TypeOK
  <2> QED BY <1>4, <2>2, <2>3 DEF Analyze, TypeOK, CallChecked, Phase
<1>5. CASE Monitor
  <2>1. steps' \in Seq(TraceStep) /\ phase' \in {"think", "ended"}
    BY <1>0, <1>5, ResultYielded DEF Monitor
  <2>2. jobs' \subseteq JobRates /\ up' \in BOOLEAN
    BY <1>5 DEF Monitor, TypeOK, JobRates
  <2> QED BY <1>5, <2>1, <2>2 DEF Monitor, TypeOK, CallChecked, Phase
<1>6. CASE OtherCall
  <2>1. steps' \in Seq(TraceStep) /\ phase' \in {"think", "ended"}
    BY <1>0, <1>6, ResultYielded DEF OtherCall
  <2>2. log' \in Seq(LogEntry)
    BY <1>0, <1>6, EntryTypes, AppendProperties DEF OtherCall, TypeOK
  <2> QED BY <1>6, <2>1, <2>2 DEF OtherCall, TypeOK, CallChecked, Phase
<1> QED BY <1>1, <1>2, <1>3, <1>4, <1>5, <1>6 DEF Dispatch

(* After the session, and the scheduler's threads.                         *)
LEMMA RestType ==
  ASSUME TypeOK, CallChecked,
         \/ Leave \/ Enforce \/ Finish
         \/ \E j \in JobRates : JobStarts(j) \/ \E counted \in BOOLEAN : JobApplies(j, counted)
  PROVE  TypeOK' /\ CallChecked'
<1> USE SessionAssumption DEF agent, budget, world, probe
<1>1. CASE Leave
  BY <1>1 DEF Leave, TypeOK, CallChecked, Phase
<1>2. CASE Enforce
  <2>1. PolicyCalls \in Seq(PolicyCall) /\ next \in Nat \ {0}
    BY CallsType DEF TypeOK, PolicyCalls
  <2>2. ceiling' \in Int
    <3>0. next \in 1 .. Len(PolicyCalls)
      BY <1>2, <2>1 DEF Enforce
    <3>1. PolicyCalls[next].dl \in Int
      <4>1. PolicyCalls[next] \in PolicyCall
        BY <2>1, <3>0, ElementOfSeq
      <4> QED BY <4>1 DEF PolicyCall
    <3> QED BY <1>2, <2>1, <3>1 DEF Enforce, TypeOK
  <2> QED BY <1>2, <2>1, <2>2 DEF Enforce, TypeOK, CallChecked
<1>3. CASE Finish
  BY <1>3 DEF Finish, TypeOK, CallChecked, Phase
<1>4. ASSUME NEW j \in JobRates, JobStarts(j) PROVE TypeOK' /\ CallChecked'
  <2>1. n' \in Nat /\ rejected' \in Nat /\ running' \subseteq JobRates \X BOOLEAN
    BY <1>4 DEF JobStarts, Count, TypeOK
  <2> QED BY <1>4, <2>1 DEF JobStarts, TypeOK, CallChecked
<1>5. ASSUME NEW j \in JobRates, NEW counted \in BOOLEAN, JobApplies(j, counted)
      PROVE  TypeOK' /\ CallChecked'
  <2>0. j \in Int /\ AmbrInRange(j) \in BOOLEAN
    <3>1. j \in Int
      BY DEF JobRates
    <3>2. CASE LooksLikeMbps(j)
      BY <3>1, <3>2 DEF AmbrInRange
    <3>3. CASE ~LooksLikeMbps(j)
      BY <3>1, <3>3 DEF AmbrInRange
    <3> QED BY <3>1, <3>2, <3>3
  <2>1. log' \in Seq(LogEntry)
    BY <1>5, <2>0, EntryTypes, AppendProperties DEF JobApplies, TypeOK
  <2>2. ambr' \in AmbrMbps
    BY <1>5, <2>0, RateInRange DEF JobApplies, TypeOK
  <2> QED BY <1>5, <2>1, <2>2 DEF JobApplies, TypeOK, CallChecked
<1> QED BY <1>1, <1>2, <1>3, <1>4, <1>5

LEMMA StepType == ASSUME TypeOK, CallChecked, [Next]_vars PROVE TypeOK' /\ CallChecked'
<1>1. CASE UNCHANGED vars
  BY <1>1 DEF vars, agent, budget, world, probe, TypeOK, CallChecked
<1> QED BY <1>1, LoopType, DispatchType, RestType DEF Next, SessionStep, Progress

LEMMA TypeAndChecked == Spec => [](TypeOK /\ CallChecked)
BY InitType, StepType, PTL DEF Spec

(* Every variable keeps its type: the rate stays within the configured     *)
(* bounds, whatever the agent and the jobs write, and PALA.run within its  *)
(* ceiling of steps.                                                       *)
THEOREM TypeCorrect == Spec => []TypeOK
BY TypeAndChecked, PTL

(* agent.py lets no call through that changes the network unless the       *)
(* operator agreed to it, with any LLM and any arguments.                  *)
THEOREM ChangesAlwaysApproved == Spec => []ApprovedChanges
<1>1. ASSUME TypeOK, CallChecked PROVE ApprovedChanges
  <2> SUFFICES ASSUME HumanConfirm, phase \in {"run", "apply"}, Changes(call) PROVE approved
    BY DEF ApprovedChanges
  <2>1. /\ DOMAIN AllowedSub = {"policy_manager", "session_manager", "monitoring_manager"}
        /\ AllowedSub["session_manager"] = {"terminate"}
        /\ AllowedSub["monitoring_manager"] = {"schedule", "cancel"}
    BY DEF AllowedSub
  <2>2. Valid(call) /\ approved = (HumanConfirm /\ Dangerous(call))
    BY <1>1 DEF CallChecked
  <2>3. Dangerous(call)
    BY <2>1, <2>2 DEF Changes, IsApply, Valid, Dangerous
  <2> QED BY <2>2, <2>3
<1> QED BY <1>1, TypeAndChecked, PTL

-----------------------------------------------------------------------------
(* What the steps do to the trace, as it is read, to the log and the rate. *)

InCall == phase \in {"called", "run", "apply"}

Silent ==
  /\ CallsOf(steps') = CallsOf(steps) /\ log' = log /\ ambr' = ambr
  /\ ReadsIn(steps') <=> ReadsIn(steps)
  /\ EscalatesIn(steps') <=> EscalatesIn(steps)
  /\ InCall' => InCall /\ call' = call

JobRan ==
  /\ \E j \in JobRates, ok, counted \in BOOLEAN : log' = Append(log, Did("job", ok, j, counted))
  /\ UNCHANGED <<phase, call, steps>>

Opened ==
  /\ \E r \in Reply : call' = r /\ CallsOf(steps') = ReadStep(CallsOf(steps), CallStep(r))
  /\ log' = log /\ ambr' = ambr
  /\ ReadsIn(steps') <=> ReadsIn(steps)
  /\ EscalatesIn(steps') <=> EscalatesIn(steps)

Answered ==
  /\ InCall /\ ~InCall' /\ call \in Reply /\ call.tool = "policy_manager"
  /\ ReadsIn(steps') <=> ReadsIn(steps)
  /\ \E ok, counted \in BOOLEAN :
       /\ CallsOf(steps') = Settle(CallsOf(steps), ok)
       /\ EscalatesIn(steps') <=> EscalatesIn(steps) \/ (ReadsIn(steps) /\ ok)
       /\ log' = Append(log, Did("policy", ok, call.dl, counted))
       /\ ok => call.dl \in Int /\ AmbrInRange(call.dl) /\ ambr' = StoredMbps(call.dl)
       /\ ~ok /\ "mongo" \notin Fault => ambr' = ambr

ReadBack ==
  /\ ~InCall' /\ ~Isolated
  /\ CallsOf(steps') = CallsOf(steps) /\ ambr' = ambr
  /\ ReadsIn(steps')
  /\ EscalatesIn(steps') <=> EscalatesIn(steps)
  /\ log' = Append(log, Did("readback", TRUE, None, FALSE))

Effect == Silent \/ JobRan \/ Opened \/ Answered \/ ReadBack

LEMMA LoopEffect ==
  ASSUME TypeOK,
         \/ \E r \in Reply : Think(r) \/ Nudge(r)
         \/ Stop \/ LlmFails \/ Raise \/ Refuse \/ Deny \/ Admit
  PROVE  Effect
<1> USE DEF agent, budget, world, probe
<1>0. steps \in Seq(TraceStep)
  BY DEF TypeOK
<1>1. ASSUME NEW r \in Reply, Nudge(r) PROVE Silent
  BY <1>1 DEF Nudge, Silent, InCall
<1>2. ASSUME NEW r \in Reply, Think(r) PROVE Silent \/ Opened
  <2>0. log' = log /\ ambr' = ambr
    BY <1>2 DEF Think
  <2>1. CASE r.kind = "tool_call" /\ call' = r /\ Yield(<<CallStep(r)>>, "called")
    <3>1. ~Readback(CallStep(r)) /\ ~SuccessOf(CallStep(r)) /\ CallStep(r) \in TraceStep
      BY StepTypes DEF Readback, SuccessOf, CallStep, Step
    <3>2. /\ CallsOf(steps') = ReadStep(CallsOf(steps), CallStep(r))
          /\ ReadsIn(steps') <=> ReadsIn(steps)
          /\ EscalatesIn(steps') <=> EscalatesIn(steps)
      BY <1>0, <2>1, <3>1, Yielded
    <3> QED BY <2>0, <2>1, <3>2 DEF Opened
  <2>2. ASSUME NEW x \in {Step("thought"), Step("final_answer")},
               NEW where \in {"think", "ended"}, Yield(<<x>>, where)
        PROVE  Silent
    <3>1. x \in TraceStep /\ x.tool = None
      <4>1. Step("thought").tool = None /\ Step("final_answer").tool = None
        BY DEF Step
      <4>2. Step("thought") \in TraceStep /\ Step("final_answer") \in TraceStep
        BY StepTypes
      <4> QED BY <4>1, <4>2
    <3>2. /\ phase' \in {where, "ended"} /\ CallsOf(steps') = CallsOf(steps)
          /\ ReadsIn(steps') <=> ReadsIn(steps)
          /\ EscalatesIn(steps') <=> EscalatesIn(steps)
      BY <1>0, <2>2, <3>1, YieldedSilently
    <3> QED BY <2>0, <3>2 DEF Silent, InCall
  <2> QED BY <1>2, <2>1, <2>2 DEF Think
<1>3. CASE Stop \/ LlmFails \/ Raise
  <2>1. /\ phase' = "ended" /\ CallsOf(steps') = CallsOf(steps)
        /\ ReadsIn(steps') <=> ReadsIn(steps)
        /\ EscalatesIn(steps') <=> EscalatesIn(steps)
    BY <1>0, <1>3, FailedSilently
  <2>2. log' = log /\ ambr' = ambr
    BY <1>3 DEF Stop, LlmFails, Raise
  <2> QED BY <2>1, <2>2 DEF Effect, Silent, InCall
<1>4. CASE Refuse \/ Deny
  <2>1. Yield(<<Step("tool_result")>>, "think") /\ log' = log /\ ambr' = ambr
    BY <1>4 DEF Refuse, Deny
  <2>2. Step("tool_result") \in TraceStep /\ Step("tool_result").tool = None
    BY StepTypes DEF Step
  <2>3. /\ phase' \in {"think", "ended"} /\ CallsOf(steps') = CallsOf(steps)
        /\ ReadsIn(steps') <=> ReadsIn(steps)
        /\ EscalatesIn(steps') <=> EscalatesIn(steps)
    BY <1>0, <2>1, <2>2, YieldedSilently
  <2> QED BY <2>1, <2>3 DEF Effect, Silent, InCall
<1>5. CASE Admit
  BY <1>5 DEF Admit, Effect, Silent, InCall
<1> QED BY <1>1, <1>2, <1>3, <1>4, <1>5 DEF Effect

(* What the result of a dispatched call adds to the trace as it is read.   *)
LEMMA ResultEffect ==
  ASSUME TypeOK, call \in Reply, NEW ok \in BOOLEAN, NEW data \in BOOLEAN,
         Yield(<<Result(ok, data)>>, "think")
  PROVE  /\ ~InCall'
         /\ CallsOf(steps') = IF call.tool = "policy_manager" THEN Settle(CallsOf(steps), ok)
                                                              ELSE CallsOf(steps)
         /\ ReadsIn(steps') <=> ReadsIn(steps) \/ (call.tool = "kpi_analyzer" /\ data)
         /\ EscalatesIn(steps') <=>
              EscalatesIn(steps) \/ (ReadsIn(steps) /\ call.tool = "policy_manager" /\ ok)
<1> DEFINE x == Result(ok, data)
<1>1. x \in TraceStep /\ steps \in Seq(TraceStep)
  BY StepTypes DEF TypeOK
<1>2. x.type = "tool_result" /\ x.tool = call.tool /\ x.ok = ok /\ x.data = data
  BY DEF Result, Step
<1> HIDE DEF x
<1>3. /\ phase' \in {"think", "ended"} /\ CallsOf(steps') = ReadStep(CallsOf(steps), x)
      /\ ReadsIn(steps') <=> ReadsIn(steps) \/ Readback(x)
      /\ EscalatesIn(steps') <=> EscalatesIn(steps) \/ (ReadsIn(steps) /\ SuccessOf(x))
  <2>1. Yield(<<x>>, "think")
    BY DEF x
  <2> QED BY <1>1, <2>1, Yielded
<1>4. ReadStep(CallsOf(steps), x) = IF call.tool = "policy_manager" THEN Settle(CallsOf(steps), ok)
                                                                   ELSE CallsOf(steps)
  BY <1>2 DEF ReadStep
<1>5. (Readback(x) <=> call.tool = "kpi_analyzer" /\ data)
      /\ (SuccessOf(x) <=> call.tool = "policy_manager" /\ ok)
  BY <1>2 DEF Readback, SuccessOf
<1> QED BY <1>3, <1>4, <1>5 DEF InCall

LEMMA DispatchEffect == ASSUME TypeOK, CallChecked, Dispatch PROVE Effect
<1> USE DEF agent, budget, world, probe
<1>0. call \in Reply /\ InCall
  BY DEF TypeOK, InCall, Dispatch, RejectApply, EnterApply, Apply, Analyze, Monitor, OtherCall
<1>1. CASE RejectApply
  <2>1. /\ call.tool = "policy_manager" /\ ambr' = ambr
        /\ log' = Append(log, Did("policy", FALSE, call.dl, FALSE))
        /\ Yield(<<Result(FALSE, FALSE)>>, "think")
    BY <1>1 DEF RejectApply, IsApply
  <2> QED BY <1>0, <2>1, ResultEffect DEF Effect, Answered
<1>2. CASE EnterApply
  BY <1>2 DEF EnterApply, Effect, Silent, InCall
<1>3. CASE Apply
  <2>0. call.dl \in Int /\ call.tool = "policy_manager"
    BY <1>0, <1>3, ReplyParts DEF Apply, CallChecked, IsApply
  <2>1. PICK ok \in BOOLEAN :
          /\ IF AmbrInRange(call.dl)
             THEN \/ ok /\ ambr' = StoredMbps(call.dl)
                  \/ "mongo" \in Fault /\ ~ok /\ ambr' \in {ambr, StoredMbps(call.dl)}
             ELSE ~ok /\ UNCHANGED ambr
          /\ log' = Append(log, Did("policy", ok, call.dl, patched))
          /\ Yield(<<Result(ok, FALSE)>>, "think")
    BY <1>3 DEF Apply
  <2>2. /\ ok => AmbrInRange(call.dl) /\ ambr' = StoredMbps(call.dl)
        /\ ~ok /\ "mongo" \notin Fault => ambr' = ambr
    BY <2>1
  <2>3. /\ ~InCall' /\ CallsOf(steps') = Settle(CallsOf(steps), ok)
        /\ ReadsIn(steps') <=> ReadsIn(steps)
        /\ EscalatesIn(steps') <=> EscalatesIn(steps) \/ (ReadsIn(steps) /\ ok)
    BY <1>0, <2>0, <2>1, ResultEffect
  <2>4. patched \in BOOLEAN
    BY DEF TypeOK
  <2> QED BY <1>0, <2>0, <2>1, <2>2, <2>3, <2>4 DEF Effect, Answered
<1>4. CASE Analyze
  <2>1. PICK data \in BOOLEAN :
          /\ data => call.sub = "ambr_dl_mean" /\ ~Filtered(call.sub)
          /\ log' = IF data THEN Append(log, Did("readback", TRUE, None, FALSE)) ELSE log
          /\ Yield(<<Result(FALSE, data)>>, "think")
    BY <1>4 DEF Analyze
  <2>2. call.tool = "kpi_analyzer" /\ ambr' = ambr
    BY <1>4 DEF Analyze, IsKpi
  <2>3. data => ~Isolated
    BY <2>1 DEF Filtered, TypePMetrics
  <2>4. /\ ~InCall' /\ CallsOf(steps') = CallsOf(steps)
        /\ ReadsIn(steps') <=> ReadsIn(steps) \/ data
        /\ EscalatesIn(steps') <=> EscalatesIn(steps)
    BY <1>0, <2>1, <2>2, ResultEffect
  <2> QED BY <2>1, <2>2, <2>3, <2>4 DEF Effect, Silent, ReadBack
<1>5. CASE Monitor
  <2>1. PICK ok \in BOOLEAN : Yield(<<Result(ok, FALSE)>>, "think")
    BY <1>5 DEF Monitor
  <2>2. call.tool = "monitoring_manager" /\ log' = log /\ ambr' = ambr
    BY <1>5 DEF Monitor, IsSchedule
  <2> QED BY <1>0, <2>1, <2>2, ResultEffect DEF Effect, Silent
<1>6. CASE OtherCall
  <2>1. Yield(<<Result(FALSE, FALSE)>>, "think") /\ ambr' = ambr
    BY <1>6 DEF OtherCall
  <2>2. CASE call.tool = "policy_manager"
    <3>1. log' = Append(log, Did("policy", FALSE, call.dl, FALSE))
      BY <1>6, <2>2 DEF OtherCall
    <3> QED BY <1>0, <2>1, <2>2, <3>1, ResultEffect DEF Effect, Answered
  <2>3. CASE call.tool # "policy_manager"
    <3>1. log' = log
      BY <1>6, <2>3 DEF OtherCall
    <3> QED BY <1>0, <2>1, <2>3, <3>1, ResultEffect DEF Effect, Silent
  <2> QED BY <2>2, <2>3
<1> QED BY <1>1, <1>2, <1>3, <1>4, <1>5, <1>6 DEF Dispatch

LEMMA StepEffect == ASSUME TypeOK, CallChecked, [Next]_vars PROVE Effect
<1>1. CASE UNCHANGED vars
  BY <1>1 DEF vars, agent, budget, world, probe, Effect, Silent, InCall
<1>2. CASE Leave \/ Enforce \/ Finish
  BY <1>2 DEF Leave, Enforce, Finish, agent, budget, world, probe, Effect, Silent, InCall
<1>3. ASSUME NEW j \in JobRates, JobStarts(j) PROVE Effect
  BY <1>3 DEF JobStarts, agent, budget, world, probe, Effect, Silent, InCall
<1>4. ASSUME NEW j \in JobRates, NEW counted \in BOOLEAN, JobApplies(j, counted) PROVE Effect
  <2>1. AmbrInRange(j) \in BOOLEAN
    <3>1. CASE LooksLikeMbps(j)
      BY <3>1 DEF AmbrInRange
    <3>2. CASE ~LooksLikeMbps(j)
      BY <3>2 DEF AmbrInRange
    <3> QED BY <3>1, <3>2
  <2> QED BY <1>4, <2>1 DEF JobApplies, agent, Effect, JobRan
<1> QED BY <1>1, <1>2, <1>3, <1>4, LoopEffect, DispatchEffect DEF Next, SessionStep, Progress

-----------------------------------------------------------------------------
(* The trace as it is read mirrors the log.                                *)

VerdictOf(d) == [dl |-> IF d.dl = None THEN 0 ELSE d.dl, accepted |-> d.ok]

Mirrors(calls, entries) ==
  Len(calls) = Len(entries) /\ \A i \in 1 .. Len(calls) : calls[i] = VerdictOf(entries[i])

OpenCallOf(c) == [dl |-> IF c.dl = None THEN 0 ELSE c.dl, accepted |-> None]

(* A policy call in progress is the last of the trace, without a verdict.  *)
CallIsLast ==
  InCall /\ call.tool = "policy_manager" =>
    \E before \in Seq(PolicyCall) : PolicyCalls = Append(before, OpenCallOf(call))

CallsMirrorLog ==
  /\ Mirrors(Judged, Dispatched)
  /\ Mirrors(AcceptedCalls, Commits)

ReadsMirrorLog ==
  /\ ReadsIn(steps) <=> LogReadsIn(log)
  /\ EscalatesIn(steps) <=> LogEscalatesIn(log)

(* What was committed is a rate of an answer, and in range.                *)
CommitsInRange ==
  /\ \A i \in DOMAIN Commits :
       AmbrInRange(Commits[i].dl) /\ \E r \in Reply : r.dl = Commits[i].dl /\ r.dl \in Int
  /\ \A i \in DOMAIN PolicyCalls : Accepted(PolicyCalls[i]) => PolicyCalls[i].dl # 0

(* Without other writers the rate is the last one committed.               *)
RateIsLastCommit ==
  "mongo" \notin Fault /\ (\A i \in DOMAIN log : log[i].what # "job") =>
    ambr = IF Commits = <<>> THEN BaselineMbps ELSE StoredMbps(Commits[Len(Commits)].dl)

TraceInv == CallIsLast /\ CallsMirrorLog /\ ReadsMirrorLog /\ CommitsInRange /\ RateIsLastCommit

LEMMA MirrorsAppend ==
  ASSUME NEW calls \in Seq(PolicyCall), NEW entries \in Seq(LogEntry), Mirrors(calls, entries),
         NEW c \in PolicyCall, NEW d \in LogEntry, c = VerdictOf(d)
  PROVE  Mirrors(Append(calls, c), Append(entries, d))
<1> DEFINE cs == Append(calls, c)
           ds == Append(entries, d)
<1>1. /\ Len(calls) \in Nat /\ Len(cs) = Len(calls) + 1 /\ cs[Len(calls) + 1] = c
      /\ \A i \in 1 .. Len(calls) : cs[i] = calls[i]
  BY AppendProperties
<1>2. /\ Len(ds) = Len(entries) + 1 /\ ds[Len(entries) + 1] = d
      /\ \A i \in 1 .. Len(entries) : ds[i] = entries[i]
  BY AppendProperties
<1> HIDE DEF cs, ds
<1>3. Len(cs) = Len(ds)
  BY <1>1, <1>2 DEF Mirrors
<1>4. ASSUME NEW i \in 1 .. Len(cs) PROVE cs[i] = VerdictOf(ds[i])
  <2>1. CASE i = Len(calls) + 1
    BY <1>1, <1>2, <2>1 DEF Mirrors
  <2>2. CASE i # Len(calls) + 1
    <3>1. i \in 1 .. Len(calls)
      BY <1>1, <2>2
    <3> QED BY <1>1, <1>2, <3>1 DEF Mirrors
  <2> QED BY <2>1, <2>2
<1>5. Mirrors(cs, ds)
  BY <1>3, <1>4 DEF Mirrors
<1> QED BY <1>5 DEF cs, ds

LEMMA TraceTypes ==
  ASSUME TypeOK
  PROVE  /\ PolicyCalls \in Seq(PolicyCall) /\ CallsOf(steps) \in Seq(PolicyCall)
         /\ Judged \in Seq(PolicyCall) /\ AcceptedCalls \in Seq(PolicyCall)
         /\ Commits \in Seq(LogEntry) /\ Dispatched \in Seq(LogEntry)
<1>1. steps \in Seq(TraceStep) /\ log \in Seq(LogEntry)
  BY DEF TypeOK
<1>2. CallsOf(steps) \in Seq(PolicyCall)
  BY <1>1, CallsType
<1> QED BY <1>1, <1>2, PartType DEF PolicyCalls, Judged, AcceptedCalls, Commits, Dispatched

LEMMA InitTrace == Init => TraceInv
<1> SUFFICES ASSUME Init PROVE TraceInv
  OBVIOUS
<1>1. /\ PolicyCalls = <<>> /\ log = <<>> /\ steps = <<>> /\ <<>> \in Seq(PolicyCall)
      /\ <<>> \in Seq(LogEntry) /\ DOMAIN <<>> = {} /\ Len(<<>>) = 0
  BY CallsOfNothing DEF Init, PolicyCalls
<1>2. Judged = <<>> /\ AcceptedCalls = <<>>
  BY <1>1, PartNone DEF Judged, AcceptedCalls
<1>3. Commits = <<>> /\ Dispatched = <<>>
  BY <1>1, PartNone DEF Commits, Dispatched
<1>4. CallIsLast /\ ReadsMirrorLog
  BY <1>1 DEF Init, CallIsLast, InCall, ReadsMirrorLog, ReadsIn, EscalatesIn, LogReadsIn, LogEscalatesIn
<1>5. CallsMirrorLog /\ CommitsInRange /\ RateIsLastCommit
  BY <1>1, <1>2, <1>3 DEF Init, CallsMirrorLog, Mirrors, CommitsInRange, RateIsLastCommit
<1> QED BY <1>4, <1>5 DEF TraceInv

(* The names of the specification, after a step.                           *)
LEMMA NamesNext ==
  /\ PolicyCalls' = CallsOf(steps')
  /\ AcceptedCalls' = AcceptedIn(CallsOf(steps')) /\ Judged' = JudgedIn(CallsOf(steps'))
  /\ Commits' = CommitsIn(log') /\ Dispatched' = DispatchedIn(log')
BY DEF PolicyCalls, AcceptedCalls, AcceptedIn, Judged, JudgedIn, Commits, CommitsIn,
       Dispatched, DispatchedIn

(* What an entry that is no commit leaves as it is.                        *)
LEMMA SameCommits ==
  ASSUME TypeOK, CommitsInRange, Commits' = Commits, PolicyCalls' = PolicyCalls
  PROVE  CommitsInRange'
BY DEF CommitsInRange

LEMMA SilentTrace == ASSUME TypeOK, TraceInv, Silent PROVE TraceInv'
<1>1. /\ PolicyCalls' = PolicyCalls /\ log' = log /\ ambr' = ambr
      /\ AcceptedCalls' = AcceptedCalls /\ Judged' = Judged
      /\ Commits' = Commits /\ Dispatched' = Dispatched
  BY NamesNext, SameNames DEF Silent
<1>2. CallIsLast'
  BY <1>1 DEF Silent, TraceInv, CallIsLast
<1>3. ReadsMirrorLog'
  BY <1>1 DEF Silent, TraceInv, ReadsMirrorLog
<1>4. CallsMirrorLog'
  BY <1>1 DEF TraceInv, CallsMirrorLog
<1>5. RateIsLastCommit'
  BY <1>1 DEF TraceInv, RateIsLastCommit
<1> QED BY <1>1, <1>2, <1>3, <1>4, <1>5, SameCommits DEF TraceInv

LEMMA JobTrace == ASSUME TypeOK, TraceInv, JobRan PROVE TraceInv'
<1>1. PICK j \in JobRates, ok \in BOOLEAN, counted \in BOOLEAN :
        log' = Append(log, Did("job", ok, j, counted))
  BY DEF JobRan
<1> DEFINE d == Did("job", ok, j, counted)
<1>2. d \in LogEntry /\ d.what = "job" /\ ~Commit(d)
  BY EntryTypes DEF Did, Commit
<1> HIDE DEF d
<1>3. log \in Seq(LogEntry) /\ log' = Append(log, d)
  BY <1>1 DEF TypeOK, d
<1>4. /\ CommitsIn(log') = CommitsIn(log) /\ DispatchedIn(log') = DispatchedIn(log)
      /\ LogReadsIn(log') <=> LogReadsIn(log)
      /\ LogEscalatesIn(log') <=> LogEscalatesIn(log)
  BY <1>2, <1>3, EntryAppended
<1>5. /\ PolicyCalls' = PolicyCalls /\ AcceptedCalls' = AcceptedCalls /\ Judged' = Judged
      /\ Commits' = Commits /\ Dispatched' = Dispatched
  BY <1>4, NamesNext, SameNames DEF JobRan
<1>6. CallIsLast'
  BY <1>5 DEF JobRan, TraceInv, CallIsLast, InCall
<1>7. ReadsMirrorLog'
  BY <1>4 DEF JobRan, TraceInv, ReadsMirrorLog
<1>8. CallsMirrorLog'
  BY <1>5 DEF TraceInv, CallsMirrorLog
<1>9. RateIsLastCommit'
  <2>1. Len(log) + 1 \in DOMAIN log' /\ log'[Len(log) + 1] = d
    BY <1>2, <1>3, AppendProperties
  <2> QED BY <1>2, <2>1 DEF RateIsLastCommit
<1> QED BY <1>5, <1>6, <1>7, <1>8, <1>9, SameCommits DEF TraceInv

LEMMA ReadBackTrace == ASSUME TypeOK, TraceInv, ReadBack PROVE TraceInv'
<1> DEFINE d == Did("readback", TRUE, None, FALSE)
<1>1. d \in LogEntry /\ d.what = "readback" /\ ~Commit(d)
  BY EntryTypes DEF Did, Commit
<1> HIDE DEF d
<1>2. log \in Seq(LogEntry) /\ log' = Append(log, d)
  BY DEF TypeOK, ReadBack, d
<1>3. /\ CommitsIn(log') = CommitsIn(log) /\ DispatchedIn(log') = DispatchedIn(log)
      /\ LogReadsIn(log')
      /\ LogEscalatesIn(log') <=> LogEscalatesIn(log)
  BY <1>1, <1>2, EntryAppended
<1>4. /\ PolicyCalls' = PolicyCalls /\ AcceptedCalls' = AcceptedCalls /\ Judged' = Judged
      /\ Commits' = Commits /\ Dispatched' = Dispatched
  BY <1>3, NamesNext, SameNames DEF ReadBack
<1>5. CallIsLast'
  BY DEF ReadBack, CallIsLast
<1>6. ReadsMirrorLog'
  BY <1>3 DEF ReadBack, TraceInv, ReadsMirrorLog
<1>7. CallsMirrorLog'
  BY <1>4 DEF TraceInv, CallsMirrorLog
<1>8. RateIsLastCommit'
  <2>1. \A i \in DOMAIN log : i \in DOMAIN log' /\ log'[i] = log[i]
    BY <1>1, <1>2, AppendProperties
  <2>2. (\A i \in DOMAIN log' : log'[i].what # "job") => \A i \in DOMAIN log : log[i].what # "job"
    BY <2>1
  <2> QED BY <1>4, <2>2 DEF ReadBack, TraceInv, RateIsLastCommit
<1> QED BY <1>4, <1>5, <1>6, <1>7, <1>8, SameCommits DEF TraceInv

LEMMA OpenCallType ==
  ASSUME NEW c \in Reply
  PROVE  /\ OpenCallOf(c) \in PolicyCall /\ OpenCallOf(c).accepted = None
         /\ ~Accepted(OpenCallOf(c))
<1>1. c.dl \in Int \cup {None} /\ None \notin BOOLEAN
  BY ReplyParts, SessionAssumption
<1>2. OpenCallOf(c).accepted = None
  BY DEF OpenCallOf
<1>3. OpenCallOf(c) \in PolicyCall
  BY <1>1 DEF OpenCallOf, PolicyCall
<1>4. None # TRUE
  BY <1>1
<1> QED BY <1>2, <1>3, <1>4 DEF Accepted

LEMMA OpenedTrace == ASSUME TypeOK, TraceInv, Opened PROVE TraceInv'
<1>1. PICK r \in Reply : call' = r /\ CallsOf(steps') = ReadStep(CallsOf(steps), CallStep(r))
  BY DEF Opened
<1>2. PolicyCalls \in Seq(PolicyCall) /\ PolicyCalls = CallsOf(steps)
  BY TraceTypes, SameNames
<1>3. PolicyCalls' = IF r.tool = "policy_manager" THEN Append(PolicyCalls, OpenCallOf(r)) ELSE PolicyCalls
  BY <1>1, <1>2, NamesNext DEF ReadStep, CallStep, Step, OpenCallOf
<1>4. log' = log /\ ambr' = ambr /\ Commits' = Commits /\ Dispatched' = Dispatched
  BY NamesNext, SameNames DEF Opened
<1>5. Judged' = Judged /\ AcceptedCalls' = AcceptedCalls
  <2>1. Judged' = JudgedIn(PolicyCalls') /\ AcceptedCalls' = AcceptedIn(PolicyCalls')
        /\ Judged = JudgedIn(PolicyCalls) /\ AcceptedCalls = AcceptedIn(PolicyCalls)
    BY NamesNext, SameNames
  <2>2. CASE r.tool = "policy_manager"
    BY <1>2, <1>3, <2>1, <2>2, CallAppended, OpenCallType
  <2>3. CASE r.tool # "policy_manager"
    BY <1>3, <2>1, <2>3
  <2> QED BY <2>2, <2>3
<1>6. CallIsLast'
  BY <1>1, <1>2, <1>3 DEF CallIsLast
<1>7. ReadsMirrorLog'
  BY <1>4 DEF Opened, TraceInv, ReadsMirrorLog
<1>8. CallsMirrorLog'
  BY <1>4, <1>5 DEF TraceInv, CallsMirrorLog
<1>9. RateIsLastCommit'
  BY <1>4 DEF TraceInv, RateIsLastCommit
<1>10. CommitsInRange'
  <2>1. CASE r.tool = "policy_manager"
    <3>1. /\ DOMAIN PolicyCalls' = 1 .. Len(PolicyCalls) + 1 /\ DOMAIN PolicyCalls = 1 .. Len(PolicyCalls)
          /\ PolicyCalls'[Len(PolicyCalls) + 1] = OpenCallOf(r)
          /\ \A i \in 1 .. Len(PolicyCalls) : PolicyCalls'[i] = PolicyCalls[i]
      BY <1>2, <1>3, <2>1, OpenCallType, AppendProperties
    <3>2. \A i \in DOMAIN PolicyCalls' : Accepted(PolicyCalls'[i]) => PolicyCalls'[i].dl # 0
      <4>1. \A i \in DOMAIN PolicyCalls' : i = Len(PolicyCalls) + 1 \/ i \in DOMAIN PolicyCalls
        BY <1>2, <3>1
      <4> QED BY <3>1, <4>1, OpenCallType DEF TraceInv, CommitsInRange
    <3> QED BY <1>4, <3>2 DEF TraceInv, CommitsInRange
  <2>2. CASE r.tool # "policy_manager"
    BY <1>3, <1>4, <2>2, SameCommits DEF TraceInv
  <2> QED BY <2>1, <2>2
<1> QED BY <1>6, <1>7, <1>8, <1>9, <1>10 DEF TraceInv

LEMMA AnsweredTrace == ASSUME TypeOK, TraceInv, Answered PROVE TraceInv'
<1>1. PICK ok \in BOOLEAN, counted \in BOOLEAN :
        /\ CallsOf(steps') = Settle(CallsOf(steps), ok)
        /\ EscalatesIn(steps') <=> EscalatesIn(steps) \/ (ReadsIn(steps) /\ ok)
        /\ log' = Append(log, Did("policy", ok, call.dl, counted))
        /\ ok => call.dl \in Int /\ AmbrInRange(call.dl) /\ ambr' = StoredMbps(call.dl)
        /\ ~ok /\ "mongo" \notin Fault => ambr' = ambr
  BY DEF Answered
<1>2. call \in Reply /\ InCall /\ ~InCall' /\ call.tool = "policy_manager"
  BY DEF Answered
<1>3. PICK before \in Seq(PolicyCall) : PolicyCalls = Append(before, OpenCallOf(call))
  BY <1>2 DEF TraceInv, CallIsLast
<1> DEFINE d == Did("policy", ok, call.dl, counted)
           c == VerdictOf(d)
<1>4. d \in LogEntry /\ d.what = "policy" /\ d.dl = call.dl /\ d.ok = ok /\ (Commit(d) <=> ok)
  BY <1>2, EntryTypes DEF Did, Commit
<1>5. c \in PolicyCall /\ c.accepted = ok /\ c.accepted # None /\ (Accepted(c) <=> ok)
      /\ (ok => c.dl = call.dl)
  <2>1. call.dl \in Int \cup {None} /\ None \notin BOOLEAN /\ None \notin Int
    BY <1>2, ReplyParts, SessionAssumption
  <2> QED BY <1>1, <1>4, <2>1 DEF VerdictOf, PolicyCall, Accepted
<1>6. PolicyCalls' = Append(before, c)
  <2>1. Settle(PolicyCalls, ok) = Append(before, [OpenCallOf(call) EXCEPT !.accepted = ok])
    BY <1>2, <1>3, Settled, OpenCallType
  <2>2. [OpenCallOf(call) EXCEPT !.accepted = ok] = c
    BY <1>4 DEF OpenCallOf, VerdictOf
  <2> QED BY <1>1, <2>1, <2>2, NamesNext, SameNames
<1> HIDE DEF d, c
<1>7. log \in Seq(LogEntry) /\ log' = Append(log, d)
  BY <1>1 DEF TypeOK, d
<1>8. /\ Dispatched' = Append(Dispatched, d) /\ Commits' = (IF ok THEN Append(Commits, d) ELSE Commits)
      /\ LogReadsIn(log') <=> LogReadsIn(log)
      /\ LogEscalatesIn(log') <=> LogEscalatesIn(log) \/ (LogReadsIn(log) /\ ok)
  BY <1>4, <1>7, EntryAppended, NamesNext, SameNames
<1>9. /\ Judged' = Append(Judged, c)
      /\ AcceptedCalls' = IF ok THEN Append(AcceptedCalls, c) ELSE AcceptedCalls
  <2>1. JudgedIn(PolicyCalls) = JudgedIn(before) /\ AcceptedIn(PolicyCalls) = AcceptedIn(before)
    BY <1>2, <1>3, CallAppended, OpenCallType
  <2>2. Judged' = JudgedIn(PolicyCalls') /\ AcceptedCalls' = AcceptedIn(PolicyCalls')
        /\ Judged = JudgedIn(PolicyCalls) /\ AcceptedCalls = AcceptedIn(PolicyCalls)
    BY NamesNext, SameNames
  <2> QED BY <1>5, <1>6, <2>1, <2>2, CallAppended
<1>10. CallIsLast'
  BY <1>2 DEF CallIsLast
<1>11. ReadsMirrorLog'
  BY <1>1, <1>8 DEF Answered, TraceInv, ReadsMirrorLog
<1>12. CallsMirrorLog'
  <2>1. Mirrors(Append(Judged, c), Append(Dispatched, d)) /\ Mirrors(Append(AcceptedCalls, c), Append(Commits, d))
    BY <1>4, <1>5, TraceTypes, MirrorsAppend DEF TraceInv, CallsMirrorLog, c
  <2> QED BY <1>8, <1>9, <2>1 DEF TraceInv, CallsMirrorLog
<1>13. CommitsInRange'
  <2>1. \A i \in DOMAIN Commits' :
          AmbrInRange(Commits'[i].dl) /\ \E r \in Reply : r.dl = Commits'[i].dl /\ r.dl \in Int
    <3>1. CASE ~ok
      BY <1>8, <3>1 DEF TraceInv, CommitsInRange
    <3>2. CASE ok
      <4>1. /\ Commits \in Seq(LogEntry) /\ DOMAIN Commits = 1 .. Len(Commits)
            /\ DOMAIN Commits' = 1 .. Len(Commits) + 1 /\ Commits'[Len(Commits) + 1] = d
            /\ \A i \in 1 .. Len(Commits) : Commits'[i] = Commits[i]
        BY <1>4, <1>8, <3>2, TraceTypes, AppendProperties
      <4>2. \A i \in DOMAIN Commits' : i = Len(Commits) + 1 \/ i \in DOMAIN Commits
        BY <4>1
      <4>3. AmbrInRange(d.dl) /\ d.dl = call.dl /\ call.dl \in Int
        BY <1>1, <1>4, <3>2
      <4> QED BY <1>2, <4>1, <4>2, <4>3 DEF TraceInv, CommitsInRange
    <3> QED BY <3>1, <3>2
  <2>2. \A i \in DOMAIN PolicyCalls' : Accepted(PolicyCalls'[i]) => PolicyCalls'[i].dl # 0
    <3>1. /\ DOMAIN PolicyCalls' = 1 .. Len(before) + 1 /\ DOMAIN PolicyCalls = 1 .. Len(before) + 1
          /\ Len(before) \in Nat /\ PolicyCalls'[Len(before) + 1] = c
          /\ \A i \in 1 .. Len(before) : PolicyCalls'[i] = PolicyCalls[i]
      BY <1>2, <1>3, <1>5, <1>6, OpenCallType, AppendProperties
    <3>2. Accepted(c) => c.dl # 0
      BY <1>1, <1>5, RateInRange
    <3>3. \A i \in DOMAIN PolicyCalls' : i = Len(before) + 1 \/ i \in 1 .. Len(before)
      BY <3>1
    <3> QED BY <3>1, <3>2, <3>3 DEF TraceInv, CommitsInRange
  <2> QED BY <2>1, <2>2 DEF CommitsInRange
<1>14. RateIsLastCommit'
  <2> SUFFICES ASSUME "mongo" \notin Fault, \A i \in DOMAIN log' : log'[i].what # "job"
               PROVE  ambr' = IF Commits' = <<>> THEN BaselineMbps
                              ELSE StoredMbps(Commits'[Len(Commits')].dl)
    BY DEF RateIsLastCommit
  <2>1. CASE ok
    <3>0. Commits \in Seq(LogEntry) /\ Commits' = Append(Commits, d)
      BY <1>8, <2>1, TraceTypes
    <3>1. Commits' # <<>> /\ Commits'[Len(Commits')] = d
      BY <1>4, <3>0, AppendProperties
    <3> QED BY <1>1, <1>4, <2>1, <3>1
  <2>2. CASE ~ok
    <3>1. \A i \in DOMAIN log : i \in DOMAIN log' /\ log'[i] = log[i]
      BY <1>4, <1>7, AppendProperties
    <3>2. ambr' = ambr /\ Commits' = Commits
      BY <1>1, <1>8, <2>2
    <3> QED BY <3>1, <3>2 DEF TraceInv, RateIsLastCommit
  <2> QED BY <2>1, <2>2
<1> QED BY <1>10, <1>11, <1>12, <1>13, <1>14 DEF TraceInv

LEMMA StepTrace == ASSUME TypeOK, CallChecked, TraceInv, [Next]_vars PROVE TraceInv'
BY StepEffect, SilentTrace, JobTrace, ReadBackTrace, OpenedTrace, AnsweredTrace DEF Effect

LEMMA AlwaysTrace == Spec => [](TypeOK /\ CallChecked /\ TraceInv)
BY InitType, InitTrace, StepType, StepTrace, PTL DEF Spec

-----------------------------------------------------------------------------
(* What follows for a session that is over.                                *)

(* Every verdict run_trial reads off the trace is the tool's: a call is    *)
(* judged accepted, refused or never run as it was, after any answers of   *)
(* the LLM and with any jobs, failures and timeouts.                       *)
THEOREM VerdictsAlwaysTrue == Spec => []VerdictsAreTrue
<1>1. ASSUME TypeOK, TraceInv PROVE VerdictsAreTrue
  <2>1. Mirrors(Judged, Dispatched) /\ Judged \in Seq(PolicyCall) /\ Dispatched \in Seq(LogEntry)
    BY <1>1, TraceTypes DEF TraceInv, CallsMirrorLog
  <2>2. ASSUME NEW i \in DOMAIN Judged
        PROVE  /\ Accepted(Judged[i]) <=> Dispatched[i].ok
               /\ Dispatched[i].dl # None => Judged[i].dl = Dispatched[i].dl
    <3>1. i \in 1 .. Len(Judged) /\ i \in 1 .. Len(Dispatched)
      BY <2>1 DEF Mirrors
    <3>2. Judged[i] = VerdictOf(Dispatched[i]) /\ Dispatched[i] \in LogEntry
      BY <2>1, <3>1, ElementOfSeq DEF Mirrors
    <3>3. Dispatched[i].ok \in BOOLEAN
      BY <3>2 DEF LogEntry
    <3> QED BY <3>2, <3>3 DEF VerdictOf, Accepted
  <2> QED BY <2>1, <2>2 DEF VerdictsAreTrue, Mirrors
<1> QED BY <1>1, AlwaysTrace, PTL

(* A session is scored as escalated (stage D) if and only if the agent     *)
(* committed a rate after it had read the AMBR back.                       *)
THEOREM EscalatedAlwaysReal == Spec => []EscalatedIsReal
<1>1. ASSUME TraceInv PROVE EscalatedIsReal
  <2>1. Escalated <=> LogEscalatesIn(log)
    BY <1>1, SameNames DEF TraceInv, ReadsMirrorLog
  <2> QED BY <2>1 DEF EscalatedIsReal, LogEscalatesIn, Commit
<1> QED BY <1>1, AlwaysTrace, PTL

(* Under isolated_collector no session reads the AMBR back, whatever the   *)
(* LLM asks for.                                                           *)
NothingRead == Isolated => ~ReadsIn(steps) /\ ~EscalatesIn(steps)

THEOREM IsolationAlwaysHolds == Spec => []IsolationHolds
<1>1. Init => NothingRead
  BY DEF Init, NothingRead, ReadsIn, EscalatesIn
<1>2. ASSUME TypeOK, CallChecked, NothingRead, [Next]_vars PROVE NothingRead'
  <2>1. Effect
    BY <1>2, StepEffect
  <2>2. steps' = steps => (ReadsIn(steps') <=> ReadsIn(steps)) /\ (EscalatesIn(steps') <=> EscalatesIn(steps))
    OBVIOUS
  <2> QED BY <1>2, <2>1, <2>2
          DEF Effect, Silent, JobRan, Opened, Answered, ReadBack, NothingRead, Isolated
<1>3. NothingRead => IsolationHolds
  BY SameNames DEF NothingRead, IsolationHolds
<1> QED BY <1>1, <1>2, <1>3, TypeAndChecked, PTL DEF Spec

(* Rates are given in whole Mbps, in either unit.                          *)
WholeMbps == \A r \in Reply : r.dl \in Int /\ ~LooksLikeMbps(r.dl) => r.dl % BpsPerMbps = 0

LEMMA ValueOfRate ==
  ASSUME NEW v \in Int, AmbrInRange(v), ~LooksLikeMbps(v) => v % BpsPerMbps = 0
  PROVE  StoredMbps(v) * BpsPerMbps = IF v > 10000 THEN v ELSE v * BpsPerMbps
<1>1. CASE LooksLikeMbps(v)
  BY <1>1 DEF StoredMbps, LooksLikeMbps
<1>2. CASE ~LooksLikeMbps(v)
  <2>1. 1 * BpsPerMbps <= v /\ v <= 1000 * BpsPerMbps
    BY <1>2 DEF AmbrInRange, MinAmbrBps, MaxDlAmbrBps, BpsPerMbps
  <2>2. (v \div BpsPerMbps) * BpsPerMbps = v
    BY <1>2, <2>1, MbpsOfRate
  <2>3. v > 10000
    BY <2>1 DEF BpsPerMbps
  <2> QED BY <1>2, <2>2, <2>3 DEF StoredMbps
<1> QED BY <1>1, <1>2

(* The rate of an accepted call is that of the commit at its place.        *)
LEMMA AcceptedRates ==
  ASSUME TypeOK, TraceInv
  PROVE  /\ Len(AcceptedCalls) = Len(Commits)
         /\ DOMAIN AcceptedCalls = 1 .. Len(Commits) /\ DOMAIN Commits = 1 .. Len(Commits)
         /\ Len(Commits) \in Nat
         /\ \A i \in 1 .. Len(Commits) :
              /\ AcceptedCalls[i].dl = Commits[i].dl /\ Commits[i].dl \in Int
              /\ AmbrInRange(Commits[i].dl)
              /\ \E r \in Reply : r.dl = Commits[i].dl
<1>1. /\ Mirrors(AcceptedCalls, Commits) /\ AcceptedCalls \in Seq(PolicyCall)
      /\ Commits \in Seq(LogEntry)
  BY TraceTypes DEF TraceInv, CallsMirrorLog
<1>2. /\ Len(AcceptedCalls) = Len(Commits) /\ Len(Commits) \in Nat
      /\ DOMAIN AcceptedCalls = 1 .. Len(Commits) /\ DOMAIN Commits = 1 .. Len(Commits)
  BY <1>1 DEF Mirrors
<1>3. ASSUME NEW i \in 1 .. Len(Commits)
      PROVE  /\ AcceptedCalls[i].dl = Commits[i].dl /\ Commits[i].dl \in Int
             /\ AmbrInRange(Commits[i].dl)
             /\ \E r \in Reply : r.dl = Commits[i].dl
  <2>1. AcceptedCalls[i] = VerdictOf(Commits[i])
    BY <1>1, <1>2 DEF Mirrors
  <2>2. AmbrInRange(Commits[i].dl) /\ \E r \in Reply : r.dl = Commits[i].dl /\ r.dl \in Int
    BY <1>2 DEF TraceInv, CommitsInRange
  <2> QED BY <2>1, <2>2, SessionAssumption DEF VerdictOf
<1> QED BY <1>2, <1>3

(* policy_values_mbps lists every rate the agent committed, in order; with *)
(* no other writer and no failing database the slice's rate is the last.   *)
THEOREM ValuesAlwaysExplainRate ==
  ASSUME WholeMbps, "mongo" \notin Fault PROVE Spec => []ValuesExplainRate
<1>1. ASSUME TypeOK, TraceInv PROVE ValuesExplainRate
  <2> DEFINE value(c) == IF c.dl > 10000 THEN c.dl ELSE c.dl * BpsPerMbps
  <2>1. ASSUME NEW i \in 1 .. Len(Commits)
        PROVE  value(AcceptedCalls[i]) = StoredMbps(Commits[i].dl) * BpsPerMbps
    <3>1. AcceptedCalls[i].dl = Commits[i].dl /\ Commits[i].dl \in Int
          /\ AmbrInRange(Commits[i].dl) /\ \E r \in Reply : r.dl = Commits[i].dl
      BY <1>1, AcceptedRates
    <3>2. ~LooksLikeMbps(Commits[i].dl) => Commits[i].dl % BpsPerMbps = 0
      BY <3>1 DEF WholeMbps
    <3> QED BY <3>1, <3>2, ValueOfRate
  <2>2. PolicyValues = [i \in 1 .. Len(Commits) |-> StoredMbps(Commits[i].dl) * BpsPerMbps]
    <3>1. PolicyValues = [i \in 1 .. Len(Commits) |-> value(AcceptedCalls[i])]
      BY <1>1, AcceptedRates DEF PolicyValues
    <3> HIDE DEF value
    <3> QED BY <2>1, <3>1
  <2>3. DOMAIN Commits = 1 .. Len(Commits) /\ Len(Commits) \in Nat /\ Commits \in Seq(LogEntry)
    BY <1>1, AcceptedRates, TraceTypes
  <2>4. ASSUME \A i \in DOMAIN log : log[i].what # "job"
        PROVE  ambr * BpsPerMbps = IF PolicyValues = <<>> THEN BaselineMbps * BpsPerMbps
                                                         ELSE PolicyValues[Len(PolicyValues)]
    <3>1. ambr = IF Commits = <<>> THEN BaselineMbps ELSE StoredMbps(Commits[Len(Commits)].dl)
      BY <1>1, <2>4 DEF TraceInv, RateIsLastCommit
    <3>2. CASE Commits = <<>>
      <4>1. PolicyValues = <<>>
        BY <2>2, <3>2
      <4> QED BY <3>1, <3>2, <4>1
    <3>3. CASE Commits # <<>>
      <4>1. Len(Commits) \in 1 .. Len(Commits)
        BY <2>3, <3>3
      <4>2. DOMAIN PolicyValues = 1 .. Len(Commits) /\ PolicyValues # <<>>
        BY <2>2, <4>1
      <4>3. Len(PolicyValues) = Len(Commits)
        BY <2>2, <2>3
      <4>4. PolicyValues[Len(Commits)] = StoredMbps(Commits[Len(Commits)].dl) * BpsPerMbps
        BY <2>2, <4>1
      <4> QED BY <3>1, <3>3, <4>2, <4>3, <4>4
    <3> QED BY <3>2, <3>3
  <2> QED BY <2>2, <2>3, <2>4 DEF ValuesExplainRate
<1> QED BY <1>1, AlwaysTrace, PTL

-----------------------------------------------------------------------------
(* The probe.                                                              *)

Done == {i \in DOMAIN PolicyCalls : i < next /\ Accepted(PolicyCalls[i])}

(* The ceiling is the rate of the latest accepted call that was looked at. *)
CeilingSoFar ==
  /\ phase \notin {"score", "scored"} => next = 1
  /\ phase = "scored" => next > Len(PolicyCalls)
  /\ Done = {} => ceiling = BaselineMbps * BpsPerMbps
  /\ Done # {} => \E i \in Done : (\A k \in Done : k <= i) /\ ceiling = PolicyCalls[i].dl

LEMMA ProbeFrame ==
  ASSUME [Next]_vars, ~Enforce
  PROVE  /\ UNCHANGED <<ceiling, next>>
         /\ phase' \in {"score", "scored"} => steps' = steps
         /\ phase' = "scored" => phase = "scored" \/ next > Len(PolicyCalls)
         /\ phase \in {"score", "scored"} => phase' \in {"score", "scored"}
<1> USE DEF agent, budget, world, probe
<1>1. ASSUME NEW r \in Reply, Think(r) \/ Nudge(r)
      PROVE  UNCHANGED <<ceiling, next>> /\ phase \notin {"score", "scored"}
             /\ phase' \notin {"score", "scored"}
  BY <1>1 DEF Think, Nudge, Yield
<1>2. CASE Stop \/ LlmFails \/ Raise \/ Refuse \/ Deny \/ Admit
  BY <1>2 DEF Stop, LlmFails, Raise, Refuse, Deny, Admit, Yield
<1>3. CASE Dispatch
  BY <1>3 DEF Dispatch, RejectApply, EnterApply, Apply, Analyze, Monitor, OtherCall, Yield
<1>4. CASE Leave \/ Finish
  BY <1>4 DEF Leave, Finish
<1>5. ASSUME NEW j \in JobRates, JobStarts(j) \/ \E counted \in BOOLEAN : JobApplies(j, counted)
      PROVE  UNCHANGED <<ceiling, next, phase, steps>>
  BY <1>5 DEF JobStarts, JobApplies
<1>6. CASE UNCHANGED vars
  BY <1>6 DEF vars
<1> QED BY <1>1, <1>2, <1>3, <1>4, <1>5, <1>6 DEF Next, SessionStep, Progress

LEMMA CeilingStep ==
  ASSUME TypeOK, CallChecked, TraceInv, CeilingSoFar, [Next]_vars PROVE CeilingSoFar'
<1>0. PolicyCalls \in Seq(PolicyCall) /\ next \in Nat \ {0} /\ DOMAIN PolicyCalls = 1 .. Len(PolicyCalls)
      /\ Len(PolicyCalls) \in Nat
  BY TraceTypes DEF TypeOK
<1>1. CASE Enforce
  <2>1. /\ phase = "score" /\ next \in DOMAIN PolicyCalls /\ next' = next + 1 /\ phase' = phase
        /\ PolicyCalls' = PolicyCalls
        /\ ceiling' = IF PolicyCalls[next].dl # 0 /\ Accepted(PolicyCalls[next])
                      THEN PolicyCalls[next].dl ELSE ceiling
    BY <1>0, <1>1 DEF Enforce, agent, PolicyCalls
  <2>2. Accepted(PolicyCalls[next]) => PolicyCalls[next].dl # 0
    BY <2>1 DEF TraceInv, CommitsInRange
  <2>3. Done' = {i \in DOMAIN PolicyCalls : i < next + 1 /\ Accepted(PolicyCalls[i])}
    BY <2>1 DEF Done
  <2>4. CASE Accepted(PolicyCalls[next])
    <3>1. next \in Done' /\ \A k \in Done' : k <= next
      BY <1>0, <2>1, <2>3, <2>4
    <3>2. ceiling' = PolicyCalls'[next].dl
      BY <2>1, <2>2, <2>4
    <3> QED BY <2>1, <3>1, <3>2 DEF CeilingSoFar
  <2>5. CASE ~Accepted(PolicyCalls[next])
    <3>1. Done' = Done
      <4>1. \A i \in DOMAIN PolicyCalls : Accepted(PolicyCalls[i]) => (i < next + 1 <=> i < next)
        BY <1>0, <2>5
      <4> QED BY <2>3, <4>1 DEF Done
    <3> QED BY <2>1, <2>5, <3>1 DEF CeilingSoFar
  <2> QED BY <2>4, <2>5
<1>2. CASE ~Enforce
  <2>1. /\ ceiling' = ceiling /\ next' = next
        /\ phase' \in {"score", "scored"} => steps' = steps
        /\ phase' = "scored" => phase = "scored" \/ next > Len(PolicyCalls)
        /\ phase \in {"score", "scored"} => phase' \in {"score", "scored"}
    BY <1>2, ProbeFrame
  <2>2. CASE phase' \in {"score", "scored"}
    <3>1. PolicyCalls' = PolicyCalls
      BY <2>1, <2>2 DEF PolicyCalls
    <3>2. Done' = Done
      BY <2>1, <3>1 DEF Done
    <3> QED BY <2>1, <2>2, <3>1, <3>2 DEF CeilingSoFar
  <2>3. CASE phase' \notin {"score", "scored"}
    <3>1. next = 1 /\ next' = 1
      BY <2>1, <2>3 DEF CeilingSoFar
    <3>2. Done = {}
      BY <1>0, <3>1 DEF Done
    <3>3. TypeOK'
      BY StepType
    <3>4. DOMAIN PolicyCalls' = 1 .. Len(PolicyCalls')
      <4>1. CallsOf(steps') \in Seq(PolicyCall)
        BY <3>3, CallsType DEF TypeOK
      <4> QED BY <4>1, NamesNext
    <3>5. Done' = {}
      BY <3>1, <3>4 DEF Done
    <3> QED BY <2>1, <2>3, <3>1, <3>2, <3>5 DEF CeilingSoFar
  <2> QED BY <2>2, <2>3
<1> QED BY <1>1, <1>2

(* Rates are given in bps, and whole Mbps, wherever they are in range.     *)
RatesInBps == \A r \in Reply : r.dl \in Int /\ AmbrInRange(r.dl) =>
                                 ~LooksLikeMbps(r.dl) /\ r.dl % BpsPerMbps = 0

(* Only a write the tool committed moves the ceiling the probe enforces.   *)
THEOREM CeilingAlwaysFollows == ASSUME RatesInBps PROVE Spec => []CeilingFollowsCommits
<1>1. Init => CeilingSoFar
  <2>1. PolicyCalls = <<>> => Done = {}
    BY DEF Done
  <2> QED BY <2>1, CallsOfNothing DEF Init, CeilingSoFar, PolicyCalls
<1>2. ASSUME TypeOK, TraceInv, CeilingSoFar PROVE CeilingFollowsCommits
  <2> SUFFICES ASSUME phase = "scored"
               PROVE  ceiling = IF Commits = <<>> THEN BaselineMbps * BpsPerMbps
                                ELSE StoredMbps(Commits[Len(Commits)].dl) * BpsPerMbps
    BY DEF CeilingFollowsCommits
  <2>0. /\ PolicyCalls \in Seq(PolicyCall) /\ next \in Nat /\ next > Len(PolicyCalls)
        /\ DOMAIN PolicyCalls = 1 .. Len(PolicyCalls) /\ Len(PolicyCalls) \in Nat
        /\ Commits \in Seq(LogEntry)
    BY <1>2, TraceTypes DEF TypeOK, CeilingSoFar
  <2>1. Done = {i \in DOMAIN PolicyCalls : Accepted(PolicyCalls[i])}
    BY <2>0 DEF Done
  <2>2. AcceptedCalls = Part(PolicyCalls, Done)
    BY <2>1 DEF AcceptedCalls
  <2>3. CASE Done = {}
    <3>1. AcceptedCalls = <<>>
      BY <2>0, <2>2, <2>3, PartNone
    <3>2. Commits = <<>>
      BY <1>2, <2>0, <3>1, AcceptedRates
    <3> QED BY <1>2, <2>3, <3>2 DEF CeilingSoFar
  <2>4. CASE Done # {}
    <3>1. PICK i \in Done : (\A k \in Done : k <= i) /\ ceiling = PolicyCalls[i].dl
      BY <1>2, <2>4 DEF CeilingSoFar
    <3>2. i \in 1 .. Len(PolicyCalls) /\ \A k \in i + 1 .. Len(PolicyCalls) : k \notin Done
      BY <2>0, <2>1, <3>1
    <3>3. AcceptedCalls # <<>> /\ AcceptedCalls[Len(AcceptedCalls)] = PolicyCalls[i]
      BY <2>0, <2>2, <3>1, <3>2, PartLast
    <3>4. AcceptedCalls \in Seq(PolicyCall) /\ Len(AcceptedCalls) \in 1 .. Len(AcceptedCalls)
      BY <1>2, <3>3, TraceTypes
    <3> DEFINE v == Commits[Len(Commits)].dl
    <3>5. Commits # <<>> /\ v \in Int /\ AmbrInRange(v) /\ ceiling = v /\ \E r \in Reply : r.dl = v
      BY <1>2, <3>1, <3>3, <3>4, AcceptedRates
    <3>6. ~LooksLikeMbps(v) /\ v % BpsPerMbps = 0
      BY <3>5 DEF RatesInBps
    <3>7. StoredMbps(v) * BpsPerMbps = v
      <4>1. 1 * BpsPerMbps <= v /\ v <= 1000 * BpsPerMbps
        BY <3>5, <3>6 DEF AmbrInRange, MinAmbrBps, MaxDlAmbrBps, BpsPerMbps
      <4> HIDE DEF v
      <4> QED BY <3>5, <3>6, <4>1, MbpsOfRate DEF StoredMbps
    <3> QED BY <3>5, <3>7
  <2> QED BY <2>3, <2>4
<1> QED BY <1>1, <1>2, CeilingStep, AlwaysTrace, PTL DEF Spec

-----------------------------------------------------------------------------
(* The budget.                                                             *)

CountedIn(l)  == {i \in DOMAIN l : l[i].ok /\ l[i].counted}
CountedJobs   == {r \in running : r[2]}
InFlight      == IF phase = "apply" /\ patched THEN 1 ELSE 0

(* Rates committed and about to be committed under the budget.             *)
Used == Cardinality(CountedIn(log)) + Cardinality(CountedJobs) + InFlight

(* Each of them was counted, and none was let in beyond k*: a job and the  *)
(* agent's own call may be past the check at the same time.                *)
BudgetInv == IsFiniteSet(running) /\ Used <= n /\ Used <= KStar

LEMMA CountedAppended ==
  ASSUME NEW l \in Seq(LogEntry), NEW d \in LogEntry
  PROVE  /\ Cardinality(CountedIn(l)) \in Nat
         /\ Cardinality(CountedIn(Append(l, d))) =
              IF d.ok /\ d.counted THEN Cardinality(CountedIn(l)) + 1 ELSE Cardinality(CountedIn(l))
<1> DEFINE all == Append(l, d)
           last == Len(l) + 1
<1>1. /\ Len(l) \in Nat /\ DOMAIN l = 1 .. Len(l) /\ DOMAIN all = 1 .. last /\ all[last] = d
      /\ \A i \in 1 .. Len(l) : all[i] = l[i]
  BY AppendProperties
<1> HIDE DEF all
<1>2. IsFiniteSet(CountedIn(l)) /\ last \notin CountedIn(l)
  <2>1. CountedIn(l) \subseteq 1 .. Len(l) /\ IsFiniteSet(1 .. Len(l))
    BY <1>1, FS_Interval DEF CountedIn
  <2> QED BY <1>1, <2>1, FS_Subset
<1>3. CountedIn(all) = IF d.ok /\ d.counted THEN CountedIn(l) \cup {last} ELSE CountedIn(l)
  <2>1. \A i \in DOMAIN all : i = last \/ i \in DOMAIN l
    BY <1>1
  <2>2. \A i \in DOMAIN l : i \in DOMAIN all /\ i # last
    BY <1>1
  <2>3. last \in DOMAIN all
    BY <1>1
  <2> QED BY <1>1, <2>1, <2>2, <2>3 DEF CountedIn
<1>4. Cardinality(CountedIn(l)) \in Nat
  BY <1>2, FS_CardinalityType
<1>5. Cardinality(CountedIn(l) \cup {last}) = Cardinality(CountedIn(l)) + 1
  BY <1>2, FS_AddElement
<1> QED BY <1>3, <1>4, <1>5 DEF all

LEMMA UsedType ==
  ASSUME TypeOK, IsFiniteSet(running)
  PROVE  /\ Cardinality(CountedIn(log)) \in Nat /\ Cardinality(CountedJobs) \in Nat
         /\ IsFiniteSet(CountedJobs) /\ InFlight \in {0, 1}
<1>1. Did("readback", TRUE, None, FALSE) \in LogEntry /\ log \in Seq(LogEntry)
  BY EntryTypes DEF TypeOK
<1>2. IsFiniteSet(CountedJobs)
  BY FS_Subset DEF CountedJobs
<1> QED BY <1>1, <1>2, CountedAppended, FS_CardinalityType DEF InFlight

(* What a step does to the parts of the sum.                               *)
BudgetSame ==
  /\ UNCHANGED <<n, running>> /\ InFlight' = InFlight
  /\ Cardinality(CountedIn(log')) = Cardinality(CountedIn(log))

LEMMA LoopBudget ==
  ASSUME \/ \E r \in Reply : Think(r) \/ Nudge(r)
         \/ Stop \/ LlmFails \/ Raise \/ Refuse \/ Deny \/ Admit
         \/ Leave \/ Enforce \/ Finish
  PROVE  BudgetSame
<1> USE DEF agent, budget, world, probe
<1>1. ASSUME NEW r \in Reply, Think(r) \/ Nudge(r)
      PROVE  UNCHANGED <<n, running, log>> /\ phase # "apply" /\ phase' # "apply"
  BY <1>1 DEF Think, Nudge, Yield
<1>2. ASSUME Stop \/ LlmFails \/ Raise \/ Refuse \/ Deny \/ Admit
      PROVE  UNCHANGED <<n, running, log>> /\ phase # "apply" /\ phase' # "apply"
  BY <1>2 DEF Stop, LlmFails, Raise, Refuse, Deny, Admit, Yield
<1>3. ASSUME Leave \/ Enforce \/ Finish
      PROVE  UNCHANGED <<n, running, log>> /\ phase # "apply" /\ phase' # "apply"
  BY <1>3 DEF Leave, Enforce, Finish
<1> QED BY <1>1, <1>2, <1>3 DEF BudgetSame, InFlight

LEMMA DispatchBudget ==
  ASSUME TypeOK, CallChecked, BudgetInv, Dispatch PROVE BudgetInv'
<1> USE DEF agent, budget, world, probe
<1> DEFINE logged == Cardinality(CountedIn(log))
           jobsIn == Cardinality(CountedJobs)
<1>0. /\ call \in Reply /\ log \in Seq(LogEntry) /\ n \in Nat /\ KStar \in Nat /\ patched \in BOOLEAN
      /\ logged \in Nat /\ jobsIn \in Nat /\ InFlight \in {0, 1}
      /\ logged + jobsIn + InFlight <= n /\ logged + jobsIn + InFlight <= KStar
  BY UsedType, SessionAssumption
     DEF TypeOK, Dispatch, RejectApply, EnterApply, Apply, Analyze, Monitor, OtherCall, BudgetInv, Used
<1> HIDE DEF logged, jobsIn
<1>1. SUFFICES ASSUME running' = running
               PROVE  /\ Cardinality(CountedIn(log')) + jobsIn + InFlight' <= n'
                      /\ Cardinality(CountedIn(log')) + jobsIn + InFlight' <= KStar
  <2>1. running' = running
    BY DEF Dispatch, RejectApply, EnterApply, Apply, Analyze, Monitor, OtherCall
  <2>2. Used' = Cardinality(CountedIn(log')) + Cardinality(CountedJobs) + InFlight'
    BY <2>1 DEF Used, CountedJobs
  <2> QED BY <2>1, <2>2 DEF BudgetInv, jobsIn
<1>2. CASE RejectApply \/ Analyze \/ Monitor \/ OtherCall
  <2>1. InFlight' = 0 /\ InFlight = 0
    BY <1>2 DEF RejectApply, Analyze, Monitor, OtherCall, Yield, InFlight
  <2>2. n' \in Nat /\ n <= n'
    <3>1. n' = n \/ n' = n + 1
      <4>1. CASE RejectApply
        BY <4>1 DEF RejectApply, Count
      <4>2. CASE Analyze \/ Monitor \/ OtherCall
        BY <4>2 DEF Analyze, Monitor, OtherCall
      <4> QED BY <1>2, <4>1, <4>2
    <3> QED BY <1>0, <3>1
  <2>3. \/ log' = log
        \/ \E d \in LogEntry : ~(d.ok /\ d.counted) /\ log' = Append(log, d)
    <3>1. Did("policy", FALSE, call.dl, FALSE) \in LogEntry /\ Did("readback", TRUE, None, FALSE) \in LogEntry
      BY <1>0, EntryTypes
    <3>2. ~Did("policy", FALSE, call.dl, FALSE).ok /\ ~Did("readback", TRUE, None, FALSE).counted
      BY DEF Did
    <3> QED BY <1>2, <3>1, <3>2 DEF RejectApply, Analyze, Monitor, OtherCall
  <2>4. Cardinality(CountedIn(log')) = logged
    BY <1>0, <2>3, CountedAppended DEF logged
  <2> QED BY <1>0, <2>1, <2>2, <2>4
<1>3. CASE EnterApply
  <2>1. log' = log /\ InFlight = 0 /\ InFlight' = IF patched THEN 1 ELSE 0
    BY <1>3 DEF EnterApply, InFlight
  <2>2. IF patched THEN n' = n + 1 /\ n + 1 <= KStar ELSE n' = n
    BY <1>0, <1>3 DEF EnterApply, Count, OverBudget
  <2>3. Cardinality(CountedIn(log')) = logged
    BY <2>1 DEF logged
  <2> QED BY <1>0, <2>1, <2>2, <2>3
<1>4. CASE Apply
  <2>1. PICK ok \in BOOLEAN : log' = Append(log, Did("policy", ok, call.dl, patched))
    BY <1>4 DEF Apply
  <2>2. /\ Did("policy", ok, call.dl, patched) \in LogEntry
        /\ Did("policy", ok, call.dl, patched).counted = patched
    BY <1>0, EntryTypes DEF Did
  <2>3. n' = n /\ InFlight' = 0 /\ InFlight = IF patched THEN 1 ELSE 0
    BY <1>4 DEF Apply, Yield, InFlight
  <2>4. /\ patched => Cardinality(CountedIn(log')) <= logged + 1
        /\ ~patched => Cardinality(CountedIn(log')) = logged
        /\ Cardinality(CountedIn(log')) \in Nat
    BY <1>0, <2>1, <2>2, CountedAppended DEF logged
  <2> QED BY <1>0, <2>3, <2>4
<1> QED BY <1>2, <1>3, <1>4 DEF Dispatch

LEMMA JobsBudget ==
  ASSUME TypeOK, BudgetInv, NEW j \in JobRates,
         JobStarts(j) \/ \E counted \in BOOLEAN : JobApplies(j, counted)
  PROVE  BudgetInv'
<1> USE DEF agent, budget, world, probe
<1> DEFINE logged == Cardinality(CountedIn(log))
           jobsIn == Cardinality(CountedJobs)
<1>0. /\ log \in Seq(LogEntry) /\ n \in Nat /\ KStar \in Nat /\ patched \in BOOLEAN
      /\ logged \in Nat /\ jobsIn \in Nat /\ InFlight \in {0, 1}
      /\ IsFiniteSet(running) /\ IsFiniteSet(CountedJobs)
      /\ logged + jobsIn + InFlight <= n /\ logged + jobsIn + InFlight <= KStar
  BY UsedType, SessionAssumption DEF TypeOK, BudgetInv, Used
<1> HIDE DEF logged, jobsIn
<1>1. InFlight' = InFlight
  <2>1. phase' = phase /\ patched' = patched
    <3>1. CASE JobStarts(j)
      BY <3>1 DEF JobStarts
    <3>2. ASSUME NEW counted \in BOOLEAN, JobApplies(j, counted)
          PROVE  phase' = phase /\ patched' = patched
      BY <3>2 DEF JobApplies
    <3> QED BY <3>1, <3>2
  <2> QED BY <2>1 DEF InFlight
<1>2. SUFFICES ASSUME NEW c, NEW k, c = Cardinality(CountedIn(log')), k = Cardinality(CountedJobs')
               PROVE  IsFiniteSet(running') /\ c + k + InFlight <= n' /\ c + k + InFlight <= KStar
  BY <1>1 DEF BudgetInv, Used
<1>3. CASE JobStarts(j)
  <2>1. c = logged
    BY <1>2, <1>3 DEF JobStarts, logged
  <2>2. n' = IF patched THEN n + 1 ELSE n
    BY <1>3 DEF JobStarts, Count
  <2>3. CASE OverBudget
    <3>1. running' = running
      BY <1>3, <2>3 DEF JobStarts
    <3>2. k = jobsIn
      BY <1>2, <3>1 DEF CountedJobs, jobsIn
    <3> QED BY <1>0, <2>1, <2>2, <3>1, <3>2
  <2>4. CASE ~OverBudget
    <3>1. running' = running \cup {<<j, patched>>}
      BY <1>3, <2>4 DEF JobStarts
    <3>2. IsFiniteSet(running')
      BY <1>0, <3>1, FS_AddElement
    <3>3. CASE patched
      <4>1. CountedJobs' = CountedJobs \cup {<<j, patched>>}
        <5>1. <<j, patched>>[2]
          BY <3>3
        <5>2. \A r : r \in CountedJobs' <=> r \in CountedJobs \/ r = <<j, patched>>
          BY <3>1, <5>1 DEF CountedJobs
        <5> QED BY <5>2
      <4>2. k \in Nat /\ k <= jobsIn + 1
        <5>1. \/ CountedJobs' = CountedJobs
              \/ <<j, patched>> \notin CountedJobs
          BY <4>1
        <5>2. <<j, patched>> \notin CountedJobs
              => Cardinality(CountedJobs \cup {<<j, patched>>}) = Cardinality(CountedJobs) + 1
          BY <1>0, FS_AddElement
        <5>3. k = Cardinality(CountedJobs')
          BY <1>2
        <5>4. CASE CountedJobs' = CountedJobs
          <6>1. k = jobsIn
            BY <5>3, <5>4 DEF jobsIn
          <6> QED BY <1>0, <6>1
        <5>5. CASE <<j, patched>> \notin CountedJobs
          <6>1. k = jobsIn + 1
            BY <4>1, <5>2, <5>3, <5>5 DEF jobsIn
          <6> QED BY <1>0, <6>1
        <5> QED BY <5>1, <5>4, <5>5
      <4>3. n + 1 <= KStar
        BY <1>0, <2>4, <3>3 DEF OverBudget
      <4> QED BY <1>0, <2>1, <2>2, <3>2, <3>3, <4>2, <4>3
    <3>4. CASE ~patched
      <4>1. CountedJobs' = CountedJobs
        BY <3>1, <3>4 DEF CountedJobs
      <4>2. k = jobsIn
        BY <1>2, <4>1 DEF jobsIn
      <4> QED BY <1>0, <2>1, <2>2, <3>2, <3>4, <4>2
    <3> QED BY <3>3, <3>4
  <2> QED BY <2>3, <2>4
<1>4. ASSUME NEW counted \in BOOLEAN, JobApplies(j, counted)
      PROVE  IsFiniteSet(running') /\ c + k + InFlight <= n' /\ c + k + InFlight <= KStar
  <2>1. /\ <<j, counted>> \in running /\ running' = running \ {<<j, counted>>} /\ n' = n
        /\ log' = Append(log, Did("job", AmbrInRange(j), j, counted))
    BY <1>4 DEF JobApplies
  <2>2. IsFiniteSet(running')
    BY <1>0, <2>1, FS_RemoveElement
  <2>3. AmbrInRange(j) \in BOOLEAN
    <3>1. CASE LooksLikeMbps(j)
      BY <3>1 DEF AmbrInRange
    <3>2. CASE ~LooksLikeMbps(j)
      BY <3>2 DEF AmbrInRange
    <3> QED BY <3>1, <3>2
  <2>4. /\ Did("job", AmbrInRange(j), j, counted) \in LogEntry
        /\ Did("job", AmbrInRange(j), j, counted).counted = counted
    BY <2>3, EntryTypes DEF Did
  <2>5. c \in Nat /\ (counted => c <= logged + 1) /\ (~counted => c = logged)
    BY <1>0, <1>2, <2>1, <2>4, CountedAppended DEF logged
  <2>6. CASE counted
    <3>1. CountedJobs' = CountedJobs \ {<<j, counted>>} /\ <<j, counted>> \in CountedJobs
      BY <2>1, <2>6 DEF CountedJobs
    <3>2. k = jobsIn - 1
      BY <1>0, <1>2, <3>1, FS_RemoveElement DEF jobsIn
    <3> QED BY <1>0, <2>1, <2>2, <2>5, <2>6, <3>2
  <2>7. CASE ~counted
    <3>1. CountedJobs' = CountedJobs
      BY <2>1, <2>7 DEF CountedJobs
    <3>2. k = jobsIn
      BY <1>2, <3>1 DEF jobsIn
    <3> QED BY <1>0, <2>1, <2>2, <2>5, <2>7, <3>2
  <2> QED BY <2>6, <2>7
<1> QED BY <1>3, <1>4

(* Under h_budget at most k* rates are committed from inside the session,  *)
(* by the agent's calls and by the jobs that the scheduler's threads run   *)
(* meanwhile, whichever of them come and however they interleave.          *)
THEOREM BudgetAlwaysHolds == Spec => []BudgetHolds
<1>1. ASSUME Init PROVE BudgetInv
  <2>1. CountedIn(log) = {} /\ CountedJobs = {} /\ running = {} /\ InFlight = 0 /\ n = 0
    BY <1>1 DEF Init, CountedIn, CountedJobs, InFlight
  <2>2. IsFiniteSet({}) /\ Cardinality({}) = 0
    BY FS_EmptySet
  <2> QED BY <2>1, <2>2, SessionAssumption DEF BudgetInv, Used
<1>2. ASSUME TypeOK, CallChecked, BudgetInv, [Next]_vars PROVE BudgetInv'
  <2>1. CASE BudgetSame
    BY <1>2, <2>1 DEF BudgetSame, BudgetInv, Used, CountedJobs
  <2>2. CASE UNCHANGED vars
    BY <2>1, <2>2 DEF vars, agent, budget, world, probe, BudgetSame, InFlight
  <2> QED BY <1>2, <2>1, <2>2, LoopBudget, DispatchBudget, JobsBudget DEF Next, SessionStep, Progress
<1>3. ASSUME TypeOK, BudgetInv PROVE BudgetHolds
  <2>1. /\ Cardinality(CountedIn(log)) \in Nat /\ Cardinality(CountedJobs) \in Nat
        /\ InFlight \in {0, 1} /\ KStar \in Nat
    BY <1>3, UsedType, SessionAssumption DEF BudgetInv
  <2>2. Cardinality(CountedIn(log)) <= KStar
    BY <1>3, <2>1 DEF BudgetInv, Used
  <2> QED BY <2>2 DEF BudgetHolds, CountedIn
<1> QED BY <1>1, <1>2, <1>3, TypeAndChecked, PTL DEF Spec

=============================================================================
