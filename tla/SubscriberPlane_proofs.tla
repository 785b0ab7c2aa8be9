----------------------- MODULE SubscriberPlane_proofs -----------------------
(***************************************************************************)
(* Proofs about SubscriberPlane, for any set of subscribers, slices and    *)
(* threads, any provisioning and any faults.                               *)
(***************************************************************************)
EXTENDS SubscriberPlane, TLAPS

-----------------------------------------------------------------------------
(* The values the tools store.                                             *)

LEMMA AmbrBounds == AmbrMbps = 1..1000
  BY DEF AmbrMbps, MinAmbrBps, MaxDlAmbrBps, BpsPerMbps

LEMMA MbpsOfBps ==
  ASSUME NEW v \in Int, MinAmbrBps <= v, v <= MaxDlAmbrBps
  PROVE  v \div BpsPerMbps \in AmbrMbps
<1>1. v \div 1000000 \in 1..1000
  BY SMT DEF MinAmbrBps, MaxDlAmbrBps
<1> QED BY <1>1, AmbrBounds, SMT DEF BpsPerMbps

(* Whatever integer a caller passes, a value that passes ambr_in_range is  *)
(* stored as a whole number of Mbps between the configured bounds.         *)
THEOREM StoredInRange ==
  ASSUME NEW v \in Int, AmbrInRange(v)
  PROVE  StoredMbps(v) \in AmbrMbps
BY MbpsOfBps DEF AmbrInRange, StoredMbps

-----------------------------------------------------------------------------
(* Editing a document.                                                     *)

LEMMA OverlayType ==
  ASSUME NEW x \in Session, NEW v, IsSetting(v)
  PROVE  Overlay(x, v) \in Session
<1>1. \A f \in Field : Overlay(x, v)[f] \in Domain[f]
  BY DEF Session, Overlay, IsSetting
<1>2. \A f \in Field : Domain[f] \subseteq Value
  BY DEF Field, Domain, Value
<1>3. Overlay(x, v) \in [Field -> Value]
  BY <1>1, <1>2 DEF Overlay
<1> QED BY <1>1, <1>3 DEF Session

LEMMA EditType ==
  ASSUME NEW doc \in Doc, NEW s \in Subscriber, NEW d \in Slice,
         NEW v, IsSetting(v)
  PROVE  Edit(doc, s, d, v) \in Doc
BY OverlayType DEF Edit, Doc

(* Where an edited document differs from the one it was made from.         *)
LEMMA EditEffect ==
  ASSUME NEW doc \in Doc, NEW s \in Subscriber, NEW d \in Slice, NEW v,
         IsSetting(v), NEW a \in Array, NEW e \in Slice, NEW f \in Field
  PROVE  Edit(doc, s, d, v)[a][e][f] =
           IF e = d /\ a \in Named(s, d) /\ f \in DOMAIN v THEN v[f]
                                                          ELSE doc[a][e][f]
BY DEF Edit, Doc, Overlay

(* A document whose two arrays hold the same sessions.                     *)
Coherent(s, doc) ==
  \A d \in Slice : \A a, b \in Named(s, d) : doc[a][d] = doc[b][d]

LEMMA EditCoherent ==
  ASSUME NEW doc \in Doc, NEW s \in Subscriber, NEW d \in Slice, NEW v,
         Coherent(s, doc)
  PROVE  Coherent(s, Edit(doc, s, d, v))
BY DEF Edit, Coherent, Named, Doc

-----------------------------------------------------------------------------
(* Type correctness.  The parts of TypeOK, one theorem step per action.    *)

USE DEF Location, Reply

(* Every call a thread begins has valid arguments.                         *)
LEMMA BegunCalls ==
  ASSUME NEW d \in Slice, NEW i \in Subscriber \cup {None}, NEW v,
         NEW tool \in Tool, IsSetting(v)
  PROVE  IsCall(CallOf(tool, d, i, v))
BY DEF IsCall, CallOf, Loop

LEMMA Settings ==
  /\ IsSetting(NothingSet)
  /\ IsSetting(FlowOff)
  /\ \A x \in AmbrMbps : IsSetting([ambr |-> x])
  /\ \A x \in Valid5qi : IsSetting([idx |-> x])
  /\ \A x \in AmbrMbps : IsSetting([mbr |-> x])
  /\ \A x, y \in AmbrMbps : IsSetting([mbr |-> x, gbr |-> y])
BY DEF IsSetting, NothingSet, FlowOff, Field, Domain

(* What a tool call that enters, and possibly leaves at once, may do.      *)
CallBegun(w, c) ==
  /\ IsCall(c)
  /\ c.tool \in Tool
  /\ \E where \in {"find", "validate"}, how \in {"raised", "refused"} :
       \/ Begin(w, c, where)
       \/ c.set = NothingSet /\ Reject(w, c, how)

LEMMA CallsBegun ==
  ASSUME NEW w \in Writer, CallTool(w)
  PROVE  \E c : CallBegun(w, c)
<1> PICK d \in Slice :
      \/ \E i \in Subscriber \cup {None}, v \in RateArg : CallApply(w, d, i, v)
      \/ \E i \in Subscriber, x \in QosArg : CallModifyQos(w, d, i, x)
      \/ \E x \in QosArg : CallSet5qi(w, d, x)
      \/ \E m \in RateArg, g \in RateArg \cup {None} : CallSetFlowBr(w, d, m, g)
      \/ CallRestoreDefaults(w, d)
  BY DEF CallTool
<1>1. ASSUME NEW i \in Subscriber \cup {None}, NEW v \in RateArg,
             CallApply(w, d, i, v)
      PROVE  \E c : CallBegun(w, c)
  <2>1. CASE AmbrInRange(v)
    <3>1. IsSetting([ambr |-> StoredMbps(v)])
      BY <2>1, StoredInRange, Settings, WriterAssumption
    <3> QED BY <1>1, <2>1, <3>1, BegunCalls DEF CallApply, CallBegun, Tool, CallOf
  <2>2. CASE ~AmbrInRange(v)
    BY <1>1, <2>2, Settings, BegunCalls DEF CallApply, CallBegun, Tool, CallOf
  <2> QED BY <2>1, <2>2
<1>2. ASSUME NEW i \in Subscriber, NEW x \in QosArg, CallModifyQos(w, d, i, x)
      PROVE  \E c : CallBegun(w, c)
  <2>1. x \in 1..9 => IsSetting([idx |-> x])
    BY Settings DEF Valid5qi
  <2> QED BY <1>2, <2>1, Settings, BegunCalls
          DEF CallModifyQos, CallBegun, Tool, CallOf
<1>3. ASSUME NEW x \in QosArg, CallSet5qi(w, d, x)
      PROVE  \E c : CallBegun(w, c)
  BY <1>3, Settings, BegunCalls DEF CallSet5qi, CallBegun, Tool, CallOf
<1>4. ASSUME NEW m \in RateArg, NEW g \in RateArg \cup {None},
             CallSetFlowBr(w, d, m, g)
      PROVE  \E c : CallBegun(w, c)
  <2> DEFINE ok   == /\ FlowRateInRange(m)
                     /\ g # None => FlowRateInRange(g) /\ g <= m
             set  == IF g = None THEN [mbr |-> m \div BpsPerMbps]
                     ELSE [mbr |-> m \div BpsPerMbps, gbr |-> g \div BpsPerMbps]
  <2>1. CASE ok
    <3>1. IsSetting(set)
      BY <2>1, MbpsOfBps, Settings, WriterAssumption DEF FlowRateInRange
    <3>2. Begin(w, CallOf("set_flow_br", d, None, set), "find")
      BY <1>4, <2>1 DEF CallSetFlowBr
    <3> HIDE DEF set
    <3> QED BY <3>1, <3>2, BegunCalls DEF CallBegun, Tool, CallOf
  <2>2. CASE ~ok
    BY <1>4, <2>2, Settings, BegunCalls DEF CallSetFlowBr, CallBegun, Tool, CallOf
  <2> QED BY <2>1, <2>2
<1>5. ASSUME CallRestoreDefaults(w, d)
      PROVE  \E c : CallBegun(w, c)
  <2>1. IsSetting([idx |-> 9])
    BY Settings DEF Valid5qi
  <2> QED BY <1>5, <2>1, BegunCalls DEF CallRestoreDefaults, CallBegun, Tool, CallOf
<1> QED BY <1>1, <1>2, <1>3, <1>4, <1>5

(* Type correctness: every variable stays in its type, a running call has  *)
(* valid arguments, and only a call in its write loop holds copies.        *)
LEMMA InitType == Init => TypeOK
BY WriterAssumption DEF Init, TypeOK, CallOK, NoCopies

(* A step of w leaves the calls of the other threads alone.                *)
OnlyCallOf(w) ==
  \A x \in Writer \ {w} : /\ pc'[x] = pc[x]
                          /\ call'[x] = call[x]
                          /\ reply'[x] = reply[x]
                          /\ copies'[x] = copies[x]

LEMMA OthersType ==
  ASSUME TypeOK, NEW w \in Writer, OnlyCallOf(w), CallOK(w)'
  PROVE  \A x \in Writer : CallOK(x)'
<1> SUFFICES ASSUME NEW x \in Writer \ {w}
             PROVE  CallOK(x)'
  OBVIOUS
<1>1. CallOK(x)
  BY DEF TypeOK
<1> QED BY <1>1 DEF OnlyCallOf, CallOK, Targets

LEMMA CallType ==
  ASSUME TypeOK, NEW w \in Writer, CallTool(w)
  PROVE  TypeOK'
<1> PICK c : CallBegun(w, c)
  BY CallsBegun
<1>1. Enter(w, c) /\ IsCall(c)
  BY DEF CallBegun, Begin, Reject
<1>2. /\ pc' \in [Writer -> Location]
      /\ reply' \in [Writer -> Reply]
      /\ pc'[w] \in {"idle", "find", "validate"}
      /\ \A x \in Writer \ {w} : pc'[x] = pc[x] /\ reply'[x] = reply[x]
  <2> PICK where \in {"find", "validate"}, how \in {"raised", "refused"} :
        \/ Begin(w, c, where)
        \/ Reject(w, c, how)
    BY DEF CallBegun
  <2>0. /\ pc \in [Writer -> Location] /\ reply \in [Writer -> Reply]
        /\ pc[w] = "idle"
    BY <1>1 DEF TypeOK, Enter
  <2>1. CASE Begin(w, c, where)
    BY <2>0, <2>1 DEF Begin
  <2>2. CASE Reject(w, c, how)
    BY <2>0, <2>2 DEF Reject
  <2> QED BY <2>1, <2>2
<1>3. /\ DOMAIN call' = Writer
      /\ call'[w] = c
      /\ \A x \in Writer \ {w} : call'[x] = call[x]
  BY <1>1 DEF TypeOK, Enter
<1>4. audit' \in [Writer -> Seq([action : Loop, ok : BOOLEAN])]
  <2>1. << >> \in Seq([action : Loop, ok : BOOLEAN])
    OBVIOUS
  <2> QED BY <1>1, <2>1 DEF TypeOK, Enter
<1>5. UNCHANGED <<db, copies, stale>> /\ pc[w] = "idle"
  BY <1>1 DEF Enter
<1>6. DOMAIN copies[w] = {}
  BY <1>5 DEF TypeOK, CallOK
<1>7. CallOK(w)'
  BY <1>1, <1>2, <1>3, <1>5, <1>6 DEF CallOK
<1>8. OnlyCallOf(w)
  BY <1>2, <1>3, <1>5 DEF OnlyCallOf
<1> QED BY <1>2, <1>3, <1>4, <1>5, <1>7, <1>8, OthersType DEF TypeOK

(* A step that concludes w's loop, dropping its copies.                    *)
LEMMA ConcludeType ==
  ASSUME TypeOK, NEW w \in Writer, NEW r \in Reply, pc[w] # "idle",
         Conclude(w, r), DOMAIN copies'[w] = {}, DOMAIN copies' = Writer,
         \A x \in Writer \ {w} : copies'[x] = copies[x],
         db' \in [Subscriber -> Doc], UNCHANGED audit,
         stale' \in [Writer -> SUBSET Subscriber]
  PROVE  TypeOK'
<1>1. IsCall(call[w]) /\ DOMAIN call = Writer
  BY DEF TypeOK, CallOK
<1>2. IsCall([call[w] EXCEPT !.tool = "drop_flow", !.set = FlowOff])
  BY <1>1, Settings DEF IsCall, Loop
<1>3. /\ IsCall(call'[w]) /\ DOMAIN call' = Writer
      /\ \A x \in Writer \ {w} : call'[x] = call[x]
  <2>1. CASE call[w].tool = "restore_defaults"
    BY <1>1, <1>2, <2>1 DEF Conclude
  <2>2. CASE call[w].tool # "restore_defaults"
    BY <1>1, <2>2 DEF Conclude
  <2> QED BY <2>1, <2>2
<1>4. /\ pc' \in [Writer -> Location] /\ reply' \in [Writer -> Reply]
      /\ pc'[w] \in {"audit", "find", "idle"}
      /\ \A x \in Writer \ {w} : pc'[x] = pc[x] /\ reply'[x] = reply[x]
  BY DEF Conclude, TypeOK
<1>5. CallOK(w)'
  BY <1>3, <1>4 DEF CallOK
<1>6. OnlyCallOf(w)
  BY <1>3, <1>4 DEF OnlyCallOf
<1> QED BY <1>3, <1>4, <1>5, <1>6, OthersType DEF TypeOK

LEMMA OutcomeType ==
  ASSUME TypeOK, NEW w \in Writer, NEW b \in BOOLEAN
  PROVE  Outcome(w, b) \in Reply
BY DEF TypeOK, Outcome

LEMMA ProceedType ==
  ASSUME TypeOK, NEW w \in Writer, Proceed(w)
  PROVE  TypeOK'
<1>0. /\ CallOK(w)
      /\ pc[w] # "idle" => IsCall(call[w])
      /\ DOMAIN copies = Writer
  BY DEF TypeOK, CallOK
<1>1. CASE ValidateQos(w)
  <2>1. CallOK(w)' /\ OnlyCallOf(w)
    BY <1>0, <1>1 DEF ValidateQos, CallOK, OnlyCallOf, TypeOK
  <2>2. pc' \in [Writer -> Location] /\ reply' \in [Writer -> Reply]
    BY <1>1 DEF ValidateQos, TypeOK
  <2> QED BY <1>1, <2>1, <2>2, OthersType DEF ValidateQos, TypeOK
<1>2. CASE FindNone(w)
  <2>1. pc[w] = "find" /\ DOMAIN copies[w] = {}
    BY <1>0, <1>2 DEF FindNone, CallOK
  <2> QED BY <1>0, <1>2, <2>1, OutcomeType, ConcludeType DEF FindNone, TypeOK
<1>3. CASE Find(w)
  <2>1. /\ DOMAIN copies' = Writer
        /\ copies'[w] = [s \in Targets(call[w]) |-> db[s]]
        /\ OnlyCallOf(w)
    BY <1>0, <1>3 DEF Find, OnlyCallOf, TypeOK
  <2>2. Targets(call[w]) \subseteq Subscriber
    BY DEF Targets
  <2>3. \A s \in DOMAIN copies'[w] : copies'[w][s] \in Doc
    BY <2>1, <2>2 DEF TypeOK
  <2>4. DOMAIN copies'[w] = Targets(call'[w]) /\ DOMAIN copies'[w] # {}
    BY <1>3, <2>1 DEF Find
  <2>5. pc'[w] = "write" /\ IsCall(call'[w])
    BY <1>0, <1>3 DEF Find, TypeOK
  <2>6. CallOK(w)'
    BY <2>3, <2>4, <2>5 DEF CallOK
  <2> QED BY <1>3, <2>1, <2>6, OthersType DEF Find, TypeOK
<1>4. ASSUME NEW s \in Subscriber, Write(w, s)
      PROVE  TypeOK'
  <2>1. pc[w] = "write" /\ s \in DOMAIN copies[w]
    BY <1>4 DEF Write
  <2>2. WriteBack(w, s) \in Doc
    BY <1>0, <2>1, EditType DEF WriteBack, CallOK, IsCall
  <2>3. db' \in [Subscriber -> Doc]
    BY <1>4, <2>2 DEF Write, TypeOK
  <2>4. stale' \in [Writer -> SUBSET Subscriber]
    BY <1>4 DEF Write, TypeOK
  <2>5. /\ DOMAIN copies' = Writer
        /\ copies'[w] = [x \in (DOMAIN copies[w]) \ {s} |-> copies[w][x]]
        /\ \A x \in Writer \ {w} : copies'[x] = copies[x]
    BY <1>0, <1>4 DEF Write
  <2>6. CASE DOMAIN copies[w] = {s}
    <3>1. DOMAIN copies'[w] = {}
      BY <2>5, <2>6
    <3>2. Conclude(w, Outcome(w, TRUE)) /\ UNCHANGED audit
      BY <1>4, <2>6 DEF Write
    <3>3. Outcome(w, TRUE) \in Reply
      BY OutcomeType
    <3> QED BY <2>1, <2>3, <2>4, <2>5, <3>1, <3>2, <3>3, ConcludeType
  <2>7. CASE DOMAIN copies[w] # {s}
    <3>1. DOMAIN copies'[w] # {} /\ DOMAIN copies'[w] \subseteq DOMAIN copies[w]
      BY <2>1, <2>5, <2>7
    <3>2. UNCHANGED <<pc, call, reply, audit>>
      BY <1>4, <2>7 DEF Write
    <3>3. \A x \in DOMAIN copies'[w] : copies'[w][x] \in Doc
      BY <1>0, <2>5 DEF CallOK
    <3>4. CallOK(w)'
      <4>1. IsCall(call'[w]) /\ pc'[w] = "write"
        BY <1>0, <2>1, <3>2
      <4>2. DOMAIN copies'[w] \subseteq Targets(call'[w])
        BY <1>0, <2>1, <3>1, <3>2 DEF CallOK
      <4> QED BY <3>1, <3>3, <4>1, <4>2 DEF CallOK
    <3>5. OnlyCallOf(w)
      BY <2>5, <3>2 DEF OnlyCallOf
    <3> QED BY <2>3, <2>4, <2>5, <3>2, <3>4, <3>5, OthersType DEF TypeOK
  <2> QED BY <2>6, <2>7
<1>5. CASE InsertAudit(w)
  <2> DEFINE rec == [action |-> call[w].tool, ok |-> reply[w] = "ok"]
  <2>1. rec \in [action : Loop, ok : BOOLEAN]
    BY <1>0, <1>5 DEF InsertAudit, IsCall
  <2>2. audit[w] \in Seq([action : Loop, ok : BOOLEAN])
    BY DEF TypeOK
  <2>3. audit' = [audit EXCEPT ![w] = Append(audit[w], rec)]
    BY <1>5 DEF InsertAudit
  <2> HIDE DEF rec
  <2>4. Append(audit[w], rec) \in Seq([action : Loop, ok : BOOLEAN])
    BY <2>1, <2>2
  <2>5. audit' \in [Writer -> Seq([action : Loop, ok : BOOLEAN])]
    BY <2>3, <2>4 DEF TypeOK
  <2>6. CallOK(w)' /\ OnlyCallOf(w)
    BY <1>0, <1>5 DEF InsertAudit, CallOK, OnlyCallOf, TypeOK
  <2> QED BY <1>5, <2>5, <2>6, OthersType DEF InsertAudit, TypeOK
<1> QED BY <1>1, <1>2, <1>3, <1>4, <1>5 DEF Proceed

LEMMA FailType ==
  ASSUME TypeOK, NEW w \in Writer, Fail(w)
  PROVE  TypeOK'
<1>0. /\ CallOK(w)
      /\ DOMAIN copies = Writer
  BY DEF TypeOK
<1>1. CASE LoseAudit(w)
  <2>1. CallOK(w)' /\ OnlyCallOf(w)
    BY <1>0, <1>1 DEF LoseAudit, CallOK, OnlyCallOf, TypeOK
  <2> QED BY <1>1, <2>1, OthersType DEF LoseAudit, TypeOK
<1>2. CASE MongoError(w)
  <2>1. /\ DOMAIN copies' = Writer /\ DOMAIN copies'[w] = {}
        /\ \A x \in Writer \ {w} : copies'[x] = copies[x]
    BY <1>0, <1>2 DEF MongoError, NoCopies
  <2>2. CASE pc[w] \in {"find", "write"} /\ Conclude(w, "failed")
    BY <1>2, <2>1, <2>2, ConcludeType DEF MongoError, TypeOK
  <2>3. CASE /\ pc[w] = "validate"
             /\ pc' = [pc EXCEPT ![w] = "idle"]
             /\ reply' = [reply EXCEPT ![w] = "refused"]
             /\ UNCHANGED call
    <3>1. pc' \in [Writer -> Location] /\ reply' \in [Writer -> Reply]
      BY <2>3 DEF TypeOK
    <3>2. CallOK(w)' /\ OnlyCallOf(w)
      BY <1>0, <2>1, <2>3 DEF CallOK, OnlyCallOf, TypeOK
    <3> QED BY <1>2, <2>1, <2>3, <3>1, <3>2, OthersType DEF MongoError, TypeOK
  <2> QED BY <1>2, <2>2, <2>3 DEF MongoError
<1>3. CASE Crash(w)
  <2>1. /\ CallOK(w)' /\ OnlyCallOf(w)
        /\ pc' \in [Writer -> Location] /\ reply' \in [Writer -> Reply]
        /\ DOMAIN copies' = Writer
    BY <1>0, <1>3 DEF Crash, CallOK, OnlyCallOf, TypeOK, NoCopies
  <2> QED BY <1>3, <2>1, OthersType DEF Crash, TypeOK
<1> QED BY <1>1, <1>2, <1>3 DEF Fail

(* The calls, their arguments, their copies and the collection stay        *)
(* well-typed for every provisioning, every set of threads and any fault.  *)
THEOREM TypeCorrect == Spec => []TypeOK
<1>1. TypeOK /\ [Next]_vars => TypeOK'
  <2> SUFFICES ASSUME TypeOK, [Next]_vars
               PROVE  TypeOK'
    OBVIOUS
  <2>1. CASE UNCHANGED vars
    BY <2>1 DEF vars, TypeOK, CallOK, Targets
  <2>2. CASE Next
    BY <2>2, CallType, ProceedType, FailType DEF Next
  <2> QED BY <2>1, <2>2
<1> QED BY <1>1, InitType, PTL DEF Spec

-----------------------------------------------------------------------------
(* How a step may change the documents and the copies.                     *)

(* No document changes; w may drop its copies.                             *)
Quiet(w) ==
  /\ UNCHANGED <<db, stale>>
  /\ copies' = copies \/ copies' = [copies EXCEPT ![w] = NoCopies]

LEMMA DocumentSteps ==
  ASSUME TypeOK, [Next]_vars
  PROVE  \/ \E w \in Writer : Find(w) \/ Quiet(w) \/ \E s \in Subscriber : Write(w, s)
         \/ UNCHANGED vars
<1>1. ASSUME NEW w \in Writer, CallTool(w)
      PROVE  Quiet(w)
  <2> PICK c : CallBegun(w, c)
    BY <1>1, CallsBegun
  <2> QED BY DEF CallBegun, Begin, Reject, Enter, Quiet
<1>2. ASSUME NEW w \in Writer, ValidateQos(w) \/ FindNone(w) \/ InsertAudit(w)
      PROVE  Quiet(w)
  BY <1>2 DEF ValidateQos, FindNone, InsertAudit, Quiet
<1>3. ASSUME NEW w \in Writer, Fail(w)
      PROVE  Quiet(w)
  BY <1>3 DEF Fail, LoseAudit, MongoError, Crash, Quiet
<1> QED BY <1>1, <1>2, <1>3 DEF Next, Proceed

(* What a write changes, spelled out once for the proofs below.            *)
LEMMA WriteEffect ==
  ASSUME TypeOK, NEW w \in Writer, NEW s \in Subscriber, Write(w, s)
  PROVE  /\ s \in DOMAIN copies[w] /\ IsCall(call[w])
         /\ s \in Targets(call[w]) /\ copies[w][s] \in Doc
         /\ db'[s] = WriteBack(w, s)
         /\ \A x \in Subscriber \ {s} : db'[x] = db[x]
         /\ DOMAIN copies'[w] = DOMAIN copies[w] \ {s}
         /\ \A x \in DOMAIN copies'[w] : copies'[w][x] = copies[w][x]
         /\ stale'[w] = stale[w]
         /\ \A x \in Writer \ {w} : /\ copies'[x] = copies[x]
                                   /\ stale'[x] = stale[x] \cup {s}
<1>1. CallOK(w) /\ DOMAIN copies = Writer /\ pc[w] = "write"
  BY DEF TypeOK, Write
<1>2. /\ s \in DOMAIN copies[w] /\ IsCall(call[w])
      /\ s \in Targets(call[w]) /\ copies[w][s] \in Doc
  BY <1>1 DEF CallOK, Write
<1>3. /\ db'[s] = WriteBack(w, s)
      /\ \A x \in Subscriber \ {s} : db'[x] = db[x]
  BY DEF Write, TypeOK
<1>4. /\ DOMAIN copies'[w] = DOMAIN copies[w] \ {s}
      /\ \A x \in DOMAIN copies'[w] : copies'[w][x] = copies[w][x]
      /\ \A x \in Writer \ {w} : copies'[x] = copies[x]
  BY <1>1 DEF Write
<1>5. /\ stale'[w] = stale[w]
      /\ \A x \in Writer \ {w} : stale'[x] = stale[x] \cup {s}
  BY DEF Write
<1> QED BY <1>2, <1>3, <1>4, <1>5

LEMMA QuietCopies ==
  ASSUME TypeOK, NEW w \in Writer, Quiet(w), NEW x \in Writer,
         NEW s \in DOMAIN copies'[x]
  PROVE  s \in DOMAIN copies[x] /\ copies'[x][s] = copies[x][s]
<1>1. CASE copies' = copies
  BY <1>1
<1>2. CASE copies' = [copies EXCEPT ![w] = NoCopies]
  <2>1. DOMAIN copies = Writer
    BY DEF TypeOK
  <2>2. x # w
    BY <1>2, <2>1, Zenon DEF NoCopies
  <2>3. copies'[x] = copies[x]
    BY <1>2, <2>1, <2>2
  <2> QED BY <2>3
<1> QED BY <1>1, <1>2 DEF Quiet

-----------------------------------------------------------------------------
(* The two arrays of a document agree.  The invariant alone does not carry *)
(* through a write-back, which stores a copy: the copies agree too.        *)

CoherentInv ==
  /\ \A s \in Subscriber : Coherent(s, db[s])
  /\ \A w \in Writer : \A s \in DOMAIN copies[w] : Coherent(s, copies[w][s])

LEMMA CoherentStep ==
  ASSUME TypeOK, CoherentInv, [Next]_vars
  PROVE  CoherentInv'
<1>1. ASSUME NEW w \in Writer, Find(w)
      PROVE  CoherentInv'
  <2>1. /\ copies'[w] = [s \in Targets(call[w]) |-> db[s]]
        /\ \A x \in Writer \ {w} : copies'[x] = copies[x]
        /\ db' = db
    BY <1>1 DEF Find, TypeOK
  <2>2. Targets(call[w]) \subseteq Subscriber
    BY DEF Targets
  <2> QED BY <2>1, <2>2 DEF CoherentInv, Coherent
<1>2. ASSUME NEW w \in Writer, Quiet(w)
      PROVE  CoherentInv'
  BY <1>2, QuietCopies DEF CoherentInv, Coherent, Quiet
<1>3. ASSUME NEW w \in Writer, NEW s \in Subscriber, Write(w, s)
      PROVE  CoherentInv'
  <2>1. call[w].slice \in Slice
    BY <1>3, WriteEffect DEF IsCall
  <2>2. Coherent(s, WriteBack(w, s))
    BY <1>3, <2>1, WriteEffect, EditCoherent DEF CoherentInv, WriteBack
  <2>3. \A x \in Subscriber : Coherent(x, db'[x])
    BY <1>3, <2>2, WriteEffect DEF CoherentInv
  <2>4. \A y \in Writer : \A x \in DOMAIN copies'[y] : Coherent(x, copies'[y][x])
    BY <1>3, WriteEffect DEF CoherentInv
  <2> QED BY <2>3, <2>4 DEF CoherentInv, Coherent
<1>4. CASE UNCHANGED vars
  BY <1>4 DEF vars, CoherentInv, Coherent
<1> QED BY <1>1, <1>2, <1>3, <1>4, DocumentSteps

(* Under any interleaving of tools, stale write-back or failure, the two   *)
(* copies of a session in one subscriber document agree.                   *)
THEOREM CopiesAlwaysAgree == Spec => []CopiesAgree
<1>1. Init => CoherentInv
  BY WriterAssumption DEF Init, CoherentInv, Coherent, LayoutsAgree, NoCopies
<1>2. TypeOK /\ CoherentInv /\ [Next]_vars => CoherentInv'
  BY CoherentStep
<1>3. CoherentInv => CopiesAgree
  BY DEF CoherentInv, Coherent, CopiesAgree, LayoutsAgree
<1> QED BY <1>1, <1>2, <1>3, TypeCorrect, PTL DEF Spec

-----------------------------------------------------------------------------
(* Fresh copies, and what a write-back of one can change.                  *)

LEMMA FreshStep ==
  ASSUME TypeOK, FreshCopies, [Next]_vars
  PROVE  FreshCopies'
<1>1. ASSUME NEW w \in Writer, Find(w)
      PROVE  FreshCopies'
  BY <1>1 DEF Find, FreshCopies, TypeOK
<1>2. ASSUME NEW w \in Writer, Quiet(w)
      PROVE  FreshCopies'
  BY <1>2, QuietCopies DEF FreshCopies, Quiet
<1>3. ASSUME NEW w \in Writer, NEW s \in Subscriber, Write(w, s)
      PROVE  FreshCopies'
  <2> SUFFICES ASSUME NEW y \in Writer, NEW x \in DOMAIN copies'[y] \ stale'[y]
               PROVE  copies'[y][x] = db'[x]
    BY DEF FreshCopies
  <2>1. x # s
    BY <1>3, WriteEffect
  <2>2. x \in DOMAIN copies[y] \ stale[y] /\ copies'[y][x] = copies[y][x]
    BY <1>3, WriteEffect
  <2>3. x \in Subscriber
    BY <2>2 DEF TypeOK, CallOK, Targets
  <2> QED BY <1>3, <2>1, <2>2, <2>3, WriteEffect DEF FreshCopies
<1>4. CASE UNCHANGED vars
  BY <1>4 DEF vars, FreshCopies
<1> QED BY <1>1, <1>2, <1>3, <1>4, DocumentSteps

(* A copy differs from the stored document only if another thread wrote    *)
(* that subscriber after the copy was read.                                *)
THEOREM CopiesStayFresh == Spec => []FreshCopies
<1>1. Init => FreshCopies
  BY DEF Init, FreshCopies, NoCopies
<1>2. TypeOK /\ FreshCopies /\ [Next]_vars => FreshCopies'
  BY FreshStep
<1> QED BY <1>1, <1>2, TypeCorrect, PTL DEF Spec

(* The step of FreshWriteIsLocal.                                          *)
LEMMA LocalStep ==
  ASSUME TypeOK, FreshCopies, [Next]_vars, NEW w \in Writer, NEW s \in Subscriber,
         PutsBack(w, s), s \notin stale[w],
         NEW a \in Array, NEW d \in Slice, NEW f \in Field,
         db'[s][a][d][f] # db[s][a][d][f]
  PROVE  d = call[w].slice /\ f \in DOMAIN call[w].set
<1>1. ASSUME NEW y \in Writer, Find(y) \/ Quiet(y)
      PROVE  FALSE
  BY <1>1 DEF Find, Quiet, PutsBack
<1>2. ASSUME NEW y \in Writer, NEW x \in Subscriber, Write(y, x)
      PROVE  d = call[w].slice /\ f \in DOMAIN call[w].set
  <2>1. y = w /\ x = s
    BY <1>2, WriteEffect DEF PutsBack
  <2>2. /\ copies[w][s] \in Doc /\ copies[w][s] = db[s]
        /\ call[w].slice \in Slice /\ IsSetting(call[w].set)
    BY <1>2, <2>1, WriteEffect DEF FreshCopies, IsCall
  <2>3. db'[s] = Edit(db[s], s, call[w].slice, call[w].set)
    BY <1>2, <2>1, <2>2, WriteEffect DEF WriteBack
  <2> QED BY <2>2, <2>3, EditEffect
<1>3. CASE UNCHANGED vars
  BY <1>3 DEF vars, PutsBack
<1> QED BY <1>1, <1>2, <1>3, DocumentSteps

(* Without an intervening writer a tool changes its own fields in its own  *)
(* slice and nothing else; every lost update needs an overtaken copy.      *)
THEOREM FreshWritesAreLocal == Spec => FreshWriteIsLocal
<1>1. TypeOK /\ FreshCopies /\ [Next]_vars =>
        [\A w \in Writer, s \in Subscriber :
           PutsBack(w, s) /\ s \notin stale[w] =>
             \A a \in Array, d \in Slice, f \in Field :
               db'[s][a][d][f] # db[s][a][d][f] =>
                 d = call[w].slice /\ f \in DOMAIN call[w].set]_vars
  BY LocalStep
<1> QED BY <1>1, TypeCorrect, CopiesStayFresh, PTL DEF Spec, FreshWriteIsLocal

(* The step of ChangesAreTargeted.                                         *)
LEMMA TargetedStep ==
  ASSUME TypeOK, [Next]_vars, NEW s \in Subscriber, db'[s] # db[s]
  PROVE  \E w \in Writer : PutsBack(w, s) /\ s \in Targets(call[w])
<1>1. ASSUME NEW w \in Writer, NEW x \in Subscriber, Write(w, x)
      PROVE  PutsBack(w, s) /\ s \in Targets(call[w])
  <2>1. x = s
    BY <1>1, WriteEffect
  <2> QED BY <1>1, <2>1, WriteEffect DEF PutsBack
<1> QED BY <1>1, DocumentSteps DEF Find, Quiet, vars

(* Every change to a document is the write-back of a call that targets it. *)
THEOREM ChangesAlwaysTargeted == Spec => ChangesAreTargeted
<1>1. TypeOK /\ [Next]_vars =>
        [\A s \in Subscriber : db'[s] # db[s] =>
           \E w \in Writer : PutsBack(w, s) /\ s \in Targets(call[w])]_vars
  BY TargetedStep
<1> QED BY <1>1, TypeCorrect, PTL DEF Spec, ChangesAreTargeted

-----------------------------------------------------------------------------
(* A reported success is true.  The strengthening says what the loop has   *)
(* achieved so far: each target it has passed carries the call's values,   *)
(* unless it was overtaken.                                                *)

Achieved(w) ==
  \A s \in (Targets(call[w]) \ DOMAIN copies[w]) \ stale[w] : Carries(s, call[w])

SuccessOK(w) ==
  /\ reply[w] = "ok" => Targets(call[w]) # {}
  /\ pc[w] = "write" => Achieved(w)
  /\ reply[w] = "ok" /\ pc[w] \in {"audit", "idle"} => Achieved(w)

SuccessInv == \A w \in Writer : SuccessOK(w)

(* A thread whose call, documents and history a step leaves alone.         *)
LEMMA SuccessFrame ==
  ASSUME NEW y \in Writer, SuccessOK(y), UNCHANGED db,
         pc'[y] = pc[y], call'[y] = call[y], reply'[y] = reply[y],
         copies'[y] = copies[y], stale'[y] = stale[y]
  PROVE  SuccessOK(y)'
BY DEF SuccessOK, Achieved, Carries, Targets

LEMMA CallSuccess ==
  ASSUME TypeOK, SuccessInv, NEW w \in Writer, CallTool(w)
  PROVE  SuccessInv'
<1> PICK c : CallBegun(w, c)
  BY CallsBegun
<1> PICK where \in {"find", "validate"}, how \in {"raised", "refused"} :
      Begin(w, c, where) \/ Reject(w, c, how)
  BY DEF CallBegun
<1>1. /\ reply'[w] # "ok" /\ pc'[w] # "write"
      /\ \A y \in Writer \ {w} : /\ pc'[y] = pc[y] /\ reply'[y] = reply[y]
                                /\ call'[y] = call[y]
      /\ UNCHANGED <<db, copies, stale>>
  <2>1. CASE Begin(w, c, where)
    BY <2>1, WriterAssumption DEF Begin, Enter, TypeOK
  <2>2. CASE Reject(w, c, how)
    BY <2>2 DEF Reject, Enter, TypeOK
  <2> QED BY <2>1, <2>2
<1>2. SuccessOK(w)'
  BY <1>1 DEF SuccessOK
<1> QED BY <1>1, <1>2, SuccessFrame DEF SuccessInv

(* Steps after which w reports no success and is not in its loop.          *)
LEMMA NoSuccess ==
  ASSUME TypeOK, SuccessInv, NEW w \in Writer, OnlyCallOf(w), UNCHANGED db,
         \A y \in Writer \ {w} : stale'[y] = stale[y],
         reply'[w] # "ok", pc'[w] # "write"
  PROVE  SuccessInv'
<1>1. SuccessOK(w)'
  BY DEF SuccessOK
<1> QED BY <1>1, SuccessFrame DEF SuccessInv, OnlyCallOf

LEMMA ConcludeFrame ==
  ASSUME TypeOK, NEW w \in Writer, NEW r, Conclude(w, r)
  PROVE  /\ reply'[w] = r /\ pc'[w] \in {"audit", "find", "idle"}
         /\ Targets(call'[w]) = Targets(call[w])
         /\ pc'[w] # "find" => call'[w] = call[w]
         /\ \A y \in Writer \ {w} : /\ pc'[y] = pc[y] /\ reply'[y] = reply[y]
                                   /\ call'[y] = call[y]
<1>1. /\ reply'[w] = r /\ pc'[w] \in {"audit", "find", "idle"}
      /\ \A y \in Writer \ {w} : /\ pc'[y] = pc[y] /\ reply'[y] = reply[y]
                                /\ call'[y] = call[y]
  BY DEF Conclude, TypeOK
<1>2. CASE call[w].tool = "restore_defaults"
  <2>1. call'[w] = [call[w] EXCEPT !.tool = "drop_flow", !.set = FlowOff]
    BY <1>2 DEF Conclude, TypeOK
  <2>2. call'[w].slice = call[w].slice /\ call'[w].imsi = call[w].imsi
    BY <2>1
  <2>3. pc'[w] = "find"
    BY <1>2 DEF Conclude, TypeOK
  <2> QED BY <1>1, <2>2, <2>3 DEF Targets
<1>3. CASE call[w].tool # "restore_defaults"
  BY <1>1, <1>3 DEF Conclude, TypeOK, Targets
<1> QED BY <1>2, <1>3

LEMMA WriteSuccess ==
  ASSUME TypeOK, SuccessInv, NEW w \in Writer, NEW s \in Subscriber, Write(w, s)
  PROVE  SuccessInv'
<1> DEFINE c == call[w]
<1>1. \A y \in Writer \ {w} : /\ pc'[y] = pc[y] /\ reply'[y] = reply[y]
                            /\ call'[y] = call[y]
  BY ConcludeFrame DEF Write
<1>2. ASSUME NEW y \in Writer \ {w}
      PROVE  SuccessOK(y)'
  <2>1. \A x \in Subscriber \ {s} : db'[x] = db[x]
    BY WriteEffect
  <2>2. /\ stale'[y] = stale[y] \cup {s} /\ copies'[y] = copies[y]
        /\ SuccessOK(y)
    BY WriteEffect DEF SuccessInv
  <2>3. Achieved(y) => Achieved(y)'
    BY <1>1, <2>1, <2>2 DEF Achieved, Carries, Targets
  <2> QED BY <1>1, <2>2, <2>3 DEF SuccessOK, Targets
<1>3. \A a \in Named(s, c.slice), f \in DOMAIN c.set :
        db'[s][a][c.slice][f] = c.set[f]
  <2>1. /\ copies[w][s] \in Doc /\ c.slice \in Slice /\ IsSetting(c.set)
        /\ db'[s] = Edit(copies[w][s], s, c.slice, c.set)
    BY WriteEffect DEF WriteBack, IsCall
  <2>2. \A a \in Named(s, c.slice) : a \in Array
    BY DEF Named
  <2>3. \A f \in DOMAIN c.set : f \in Field
    BY <2>1 DEF IsSetting
  <2> QED BY <2>1, <2>2, <2>3, EditEffect
<1>4. \A x \in (Targets(c) \ DOMAIN copies'[w]) \ stale'[w] :
        \A a \in Named(x, c.slice), f \in DOMAIN c.set :
          db'[x][a][c.slice][f] = c.set[f]
  <2> SUFFICES ASSUME NEW x \in (Targets(c) \ DOMAIN copies'[w]) \ stale'[w]
               PROVE  \A a \in Named(x, c.slice), f \in DOMAIN c.set :
                        db'[x][a][c.slice][f] = c.set[f]
    OBVIOUS
  <2>1. CASE x = s
    BY <1>3, <2>1
  <2>2. CASE x # s
    <3>1. x \in (Targets(c) \ DOMAIN copies[w]) \ stale[w] /\ x \in Subscriber
      BY <2>2, WriteEffect DEF Targets
    <3>2. pc[w] = "write"
      BY DEF Write
    <3>3. Carries(x, c)
      BY <3>1, <3>2 DEF SuccessInv, SuccessOK, Achieved
    <3>4. db'[x] = db[x]
      BY <2>2, <3>1, WriteEffect
    <3> QED BY <3>3, <3>4 DEF Carries
  <2> QED BY <2>1, <2>2
<1>5. SuccessOK(w)'
  <2>1. /\ Targets(call'[w]) = Targets(c) /\ Targets(c) # {}
        /\ pc'[w] # "find" => call'[w] = c
    BY ConcludeFrame, WriteEffect DEF Write
  <2>2. CASE pc'[w] = "find"
    BY <2>1, <2>2 DEF SuccessOK, Targets
  <2>3. CASE pc'[w] # "find"
    <3>1. call'[w] = c
      BY <2>1, <2>3
    <3>2. Achieved(w)'
      BY <1>4, <3>1 DEF Achieved, Carries, Targets
    <3> QED BY <2>1, <3>1, <3>2 DEF SuccessOK, Targets
  <2> QED BY <2>2, <2>3
<1> QED BY <1>2, <1>5 DEF SuccessInv

LEMMA ProceedSuccess ==
  ASSUME TypeOK, SuccessInv, NEW w \in Writer, Proceed(w)
  PROVE  SuccessInv'
<1>1. CASE ValidateQos(w)
  <2>1. CASE pc'[w] = "find" /\ UNCHANGED reply
    <3>1. SuccessOK(w)'
      BY <1>1, <2>1 DEF ValidateQos, SuccessInv, SuccessOK, Targets
    <3> QED BY <1>1, <2>1, <3>1, SuccessFrame DEF ValidateQos, SuccessInv, TypeOK
  <2>2. CASE pc'[w] = "idle" /\ reply'[w] = "refused"
    BY <1>1, <2>2, NoSuccess DEF ValidateQos, OnlyCallOf, TypeOK
  <2> QED BY <1>1, <2>1, <2>2 DEF ValidateQos, TypeOK
<1>2. CASE FindNone(w)
  <2>1. reply'[w] # "ok"
    <3>1. reply[w] # "ok"
      BY <1>2 DEF FindNone, SuccessInv, SuccessOK
    <3> QED BY <1>2, <3>1, ConcludeFrame DEF FindNone, Outcome
  <2> QED BY <1>2, <2>1, ConcludeFrame, NoSuccess DEF FindNone, OnlyCallOf
<1>3. CASE Find(w)
  <2>1. SuccessOK(w)'
    BY <1>3 DEF Find, SuccessInv, SuccessOK, Achieved, Targets, TypeOK
  <2>2. \A y \in Writer \ {w} : SuccessOK(y)'
    BY <1>3, SuccessFrame DEF Find, SuccessInv, TypeOK
  <2> QED BY <2>1, <2>2 DEF SuccessInv
<1>4. ASSUME NEW s \in Subscriber, Write(w, s)
      PROVE  SuccessInv'
  BY <1>4, WriteSuccess
<1>5. CASE InsertAudit(w)
  <2>1. /\ pc[w] = "audit" /\ pc'[w] = "idle"
        /\ UNCHANGED <<db, call, copies, reply, stale>>
    BY <1>5 DEF InsertAudit, TypeOK
  <2>2. SuccessOK(w)'
    BY <2>1 DEF SuccessInv, SuccessOK, Achieved, Carries, Targets
  <2> QED BY <1>5, <2>1, <2>2, SuccessFrame DEF InsertAudit, SuccessInv, TypeOK
<1> QED BY <1>1, <1>2, <1>3, <1>4, <1>5 DEF Proceed

LEMMA FailSuccess ==
  ASSUME TypeOK, SuccessInv, NEW w \in Writer, Fail(w)
  PROVE  SuccessInv'
<1>1. CASE LoseAudit(w)
  <2>1. /\ pc[w] = "audit" /\ pc'[w] = "idle"
        /\ UNCHANGED <<db, call, copies, reply, stale>>
    BY <1>1 DEF LoseAudit, TypeOK
  <2>2. SuccessOK(w)'
    BY <2>1 DEF SuccessInv, SuccessOK, Achieved, Carries, Targets
  <2> QED BY <1>1, <2>1, <2>2, SuccessFrame DEF LoseAudit, SuccessInv, TypeOK
<1>2. CASE MongoError(w)
  <2>1. /\ UNCHANGED <<db, stale>>
        /\ \A y \in Writer \ {w} : copies'[y] = copies[y]
    BY <1>2 DEF MongoError, TypeOK
  <2>2. CASE Conclude(w, "failed")
    <3>1. /\ reply'[w] = "failed" /\ pc'[w] \in {"audit", "find", "idle"}
          /\ OnlyCallOf(w)
      BY <2>1, <2>2, ConcludeFrame DEF OnlyCallOf
    <3>2. \A y \in Writer \ {w} : stale'[y] = stale[y]
      BY <2>1
    <3> QED BY <2>1, <3>1, <3>2, NoSuccess
  <2>3. CASE /\ pc' = [pc EXCEPT ![w] = "idle"]
             /\ reply' = [reply EXCEPT ![w] = "refused"]
             /\ UNCHANGED call
    BY <2>1, <2>3, NoSuccess DEF OnlyCallOf, TypeOK
  <2> QED BY <1>2, <2>2, <2>3 DEF MongoError
<1>3. CASE Crash(w)
  <2>1. reply'[w] # "ok" /\ pc'[w] # "write"
    BY <1>3, WriterAssumption DEF Crash, TypeOK
  <2>2. OnlyCallOf(w) /\ UNCHANGED <<db, stale>>
    BY <1>3 DEF Crash, OnlyCallOf, TypeOK
  <2> QED BY <2>1, <2>2, NoSuccess
<1> QED BY <1>1, <1>2, <1>3 DEF Fail

(* Whatever races and whatever fails, a success a tool reports is true of  *)
(* every subscriber it targeted that no other call has written since.      *)
THEOREM SuccessAlwaysTrue == Spec => []SuccessIsTrue
<1>1. Init => SuccessInv
  BY WriterAssumption DEF Init, SuccessInv, SuccessOK
<1>2. TypeOK /\ SuccessInv /\ [Next]_vars => SuccessInv'
  <2> SUFFICES ASSUME TypeOK, SuccessInv, [Next]_vars
               PROVE  SuccessInv'
    OBVIOUS
  <2>1. CASE UNCHANGED vars
    BY <2>1, SuccessFrame DEF vars, SuccessInv
  <2>2. CASE Next
    BY <2>2, CallSuccess, ProceedSuccess, FailSuccess DEF Next
  <2> QED BY <2>1, <2>2
<1>3. TypeOK /\ SuccessInv => SuccessIsTrue
  BY DEF SuccessInv, SuccessOK, Achieved, SuccessIsTrue, TypeOK, CallOK
<1> QED BY <1>1, <1>2, <1>3, TypeCorrect, PTL DEF Spec

-----------------------------------------------------------------------------
(* The audit trail of apply_policy.                                        *)

Told(w) == << [action |-> "apply_policy", ok |-> reply[w] = "ok"] >>

(* A call leaves no record before its insert; one that has returned left   *)
(* one, which says what the caller was told, or lost it to a failed insert.*)
AuditOK(w) ==
  call[w].tool = "apply_policy" =>
    /\ pc[w] # "idle" => audit[w] = << >>
    /\ pc[w] = "idle" /\ reply[w] \in {"ok", "failed"} =>
         audit[w] = Told(w) \/ ("audit" \in Fault /\ audit[w] = << >>)

(* Before its first call a thread has a reply of None.                     *)
AuditInv == \A w \in Writer : reply[w] # None \/ pc[w] # "idle" => AuditOK(w)

LEMMA AuditFrame ==
  ASSUME TypeOK, AuditInv, NEW w \in Writer, OnlyCallOf(w),
         \A x \in Writer \ {w} : audit'[x] = audit[x],
         reply'[w] # None \/ pc'[w] # "idle" => AuditOK(w)'
  PROVE  AuditInv'
<1>1. ASSUME NEW x \in Writer \ {w}, reply'[x] # None \/ pc'[x] # "idle"
      PROVE  AuditOK(x)'
  BY <1>1 DEF AuditInv, AuditOK, Told, OnlyCallOf
<1> QED BY <1>1 DEF AuditInv

(* A call that has begun goes on, or ends without a result.                *)
LEMMA AuditKept ==
  ASSUME TypeOK, AuditInv, NEW w \in Writer, OnlyCallOf(w), UNCHANGED audit,
         pc[w] # "idle", call'[w].tool = call[w].tool \/ call'[w].tool # "apply_policy",
         pc'[w] # "idle" \/ reply'[w] \notin {"ok", "failed"} \/ call'[w].tool # "apply_policy"
  PROVE  AuditInv'
<1>1. AuditOK(w)
  BY DEF AuditInv
<1>2. AuditOK(w)'
  BY <1>1 DEF AuditOK
<1> QED BY <1>2, AuditFrame

(* The result of apply_policy is audited before the call returns.          *)
LEMMA AuditConclude ==
  ASSUME TypeOK, AuditInv, NEW w \in Writer, NEW r, Conclude(w, r), UNCHANGED audit,
         pc[w] # "idle", \A x \in Writer \ {w} : copies'[x] = copies[x]
  PROVE  AuditInv'
<1>1. OnlyCallOf(w)
  BY ConcludeFrame DEF OnlyCallOf
<1>2. CASE call[w].tool = "apply_policy"
  <2>1. pc'[w] = "audit" /\ call'[w] = call[w]
    BY <1>2 DEF Conclude, TypeOK
  <2> QED BY <1>1, <2>1, AuditKept
<1>3. CASE call[w].tool = "restore_defaults"
  <2>1. pc'[w] = "find" /\ call'[w] = [call[w] EXCEPT !.tool = "drop_flow", !.set = FlowOff]
    BY <1>3 DEF Conclude, TypeOK
  <2>2. call[w] \in [tool : Loop, slice : Slice, imsi : Subscriber \cup {None}, set : {call[w].set}]
    BY DEF TypeOK, CallOK, IsCall
  <2>3. call'[w].tool = "drop_flow"
    BY <2>1, <2>2
  <2> QED BY <1>1, <2>1, <2>3, AuditKept
<1>4. CASE call[w].tool \notin {"apply_policy", "restore_defaults"}
  <2>1. call'[w] = call[w]
    BY <1>4 DEF Conclude, TypeOK
  <2> QED BY <1>1, <1>4, <2>1, AuditKept
<1> QED BY <1>2, <1>3, <1>4

LEMMA AuditStep == TypeOK /\ AuditInv /\ [Next]_vars => AuditInv'
<1> SUFFICES ASSUME TypeOK, AuditInv, [Next]_vars PROVE AuditInv'
  OBVIOUS
<1>1. ASSUME NEW w \in Writer, CallTool(w) PROVE AuditInv'
  <2>1. PICK c : CallBegun(w, c)
    BY <1>1, CallsBegun
  <2>2. PICK where \in {"find", "validate"}, how \in {"raised", "refused"} :
          Begin(w, c, where) \/ Reject(w, c, how)
    BY <2>1 DEF CallBegun
  <2>3. Enter(w, c)
    BY <2>2 DEF Begin, Reject
  <2>4. /\ audit'[w] = << >> /\ \A x \in Writer \ {w} : audit'[x] = audit[x]
        /\ OnlyCallOf(w)
        /\ pc'[w] # "idle" \/ reply'[w] \notin {"ok", "failed"}
    <3>1. /\ audit'[w] = << >> /\ \A x \in Writer \ {w} : audit'[x] = audit[x]
          /\ \A x \in Writer \ {w} : call'[x] = call[x]
          /\ UNCHANGED copies
      BY <2>3 DEF Enter, TypeOK
    <3>2. CASE Begin(w, c, where)
      BY <3>1, <3>2 DEF Begin, OnlyCallOf, TypeOK
    <3>3. CASE Reject(w, c, how)
      BY <3>1, <3>3 DEF Reject, OnlyCallOf, TypeOK
    <3> QED BY <2>2, <3>2, <3>3
  <2>5. AuditOK(w)'
    BY <2>4 DEF AuditOK
  <2> QED BY <2>4, <2>5, AuditFrame
<1>2. ASSUME NEW w \in Writer, ValidateQos(w) PROVE AuditInv'
  <2>1. /\ OnlyCallOf(w) /\ UNCHANGED audit /\ pc[w] # "idle" /\ call'[w] = call[w]
        /\ pc'[w] # "idle" \/ reply'[w] = "refused"
    BY <1>2 DEF ValidateQos, OnlyCallOf, TypeOK
  <2> QED BY <2>1, AuditKept
<1>3. ASSUME NEW w \in Writer, FindNone(w) PROVE AuditInv'
  BY <1>3, AuditConclude DEF FindNone
<1>4. ASSUME NEW w \in Writer, Find(w) PROVE AuditInv'
  <2>1. /\ OnlyCallOf(w) /\ UNCHANGED audit /\ pc[w] # "idle" /\ call'[w] = call[w]
        /\ pc'[w] # "idle"
    BY <1>4 DEF Find, OnlyCallOf, TypeOK
  <2> QED BY <2>1, AuditKept
<1>5. ASSUME NEW w \in Writer, NEW s \in Subscriber, Write(w, s) PROVE AuditInv'
  <2>1. /\ \A x \in Writer \ {w} : copies'[x] = copies[x]
        /\ pc[w] = "write" /\ UNCHANGED audit
    BY <1>5 DEF Write, TypeOK
  <2>2. CASE Conclude(w, Outcome(w, TRUE))
    BY <2>1, <2>2, AuditConclude
  <2>3. CASE UNCHANGED <<pc, call, reply>>
    BY <2>1, <2>3, AuditKept DEF OnlyCallOf
  <2> QED BY <1>5, <2>2, <2>3 DEF Write
<1>6. ASSUME NEW w \in Writer, InsertAudit(w) PROVE AuditInv'
  <2> DEFINE rec == [action |-> call[w].tool, ok |-> reply[w] = "ok"]
  <2>1. /\ pc[w] = "audit" /\ pc'[w] = "idle" /\ UNCHANGED <<call, reply>> /\ OnlyCallOf(w)
        /\ audit'[w] = Append(audit[w], rec) /\ \A x \in Writer \ {w} : audit'[x] = audit[x]
    BY <1>6 DEF InsertAudit, OnlyCallOf, TypeOK
  <2>2. ASSUME call[w].tool = "apply_policy" PROVE audit'[w] = Told(w)'
    <3>1. audit[w] = << >>
      BY <2>1, <2>2 DEF AuditInv, AuditOK
    <3>2. Append(<< >>, rec) = << rec >>
      OBVIOUS
    <3> QED BY <2>1, <2>2, <3>1, <3>2 DEF Told
  <2>3. AuditOK(w)'
    BY <2>1, <2>2 DEF AuditOK
  <2> QED BY <2>1, <2>3, AuditFrame
<1>7. ASSUME NEW w \in Writer, LoseAudit(w) PROVE AuditInv'
  <2>1. /\ "audit" \in Fault /\ pc[w] = "audit" /\ pc'[w] = "idle"
        /\ UNCHANGED <<call, reply, audit>> /\ OnlyCallOf(w)
    BY <1>7 DEF LoseAudit, OnlyCallOf, TypeOK
  <2>2. AuditOK(w)'
    BY <2>1 DEF AuditInv, AuditOK
  <2> QED BY <2>1, <2>2, AuditFrame
<1>8. ASSUME NEW w \in Writer, MongoError(w) PROVE AuditInv'
  <2>1. UNCHANGED audit /\ \A x \in Writer \ {w} : copies'[x] = copies[x]
    BY <1>8 DEF MongoError, TypeOK
  <2>2. CASE pc[w] \in {"find", "write"} /\ Conclude(w, "failed")
    BY <2>1, <2>2, AuditConclude
  <2>3. CASE /\ pc[w] = "validate" /\ pc' = [pc EXCEPT ![w] = "idle"]
             /\ reply' = [reply EXCEPT ![w] = "refused"] /\ UNCHANGED call
    <3>1. OnlyCallOf(w) /\ reply'[w] = "refused"
      BY <2>1, <2>3 DEF OnlyCallOf, TypeOK
    <3> QED BY <2>1, <2>3, <3>1, AuditKept
  <2> QED BY <1>8, <2>2, <2>3 DEF MongoError
<1>9. ASSUME NEW w \in Writer, Crash(w) PROVE AuditInv'
  <2>1. /\ UNCHANGED audit /\ OnlyCallOf(w) /\ pc[w] # "idle" /\ call'[w] = call[w]
        /\ reply'[w] = None
    BY <1>9 DEF Crash, OnlyCallOf, TypeOK
  <2> QED BY <2>1, AuditKept, WriterAssumption
<1>10. CASE UNCHANGED vars
  BY <1>10 DEF vars, AuditInv, AuditOK, Told
<1> QED
  BY <1>1, <1>2, <1>3, <1>4, <1>5, <1>6, <1>7, <1>8, <1>9, <1>10 DEF Next, Proceed, Fail

LEMMA AlwaysAudited == Spec => []AuditInv
<1>1. Init => AuditInv
  BY DEF Init, AuditInv
<1> QED BY <1>1, AuditStep, TypeCorrect, PTL DEF Spec

(* Where inserting a record does not fail, every call of apply_policy that *)
(* validated its arguments and returned left exactly one record, true to   *)
(* what the caller was told, whatever other calls race it and whatever     *)
(* MongoDB raises before.                                                  *)
THEOREM AuditAlwaysTold ==
  ASSUME "audit" \notin Fault
  PROVE  Spec => []AuditTold
<1>1. AuditInv => AuditTold
  BY WriterAssumption DEF AuditInv, AuditOK, AuditTold, Told
<1> QED BY <1>1, AlwaysAudited, PTL

-----------------------------------------------------------------------------
(* One thread implements the abstract document store.                      *)

NeverOvertaken == \A w \in Writer : stale[w] = {}

(* The abstract store's documents are those of the tools.                  *)
LEMMA SameDocuments ==
  /\ Store!Session = Session
  /\ Store!Field = Field
  /\ \A s, d : Store!Named(s, d) = Named(s, d)
  /\ \A doc, s, d, v : Store!Edit(doc, s, d, v) = Edit(doc, s, d, v)
<1>1. Store!AmbrMbps = AmbrMbps
  BY SMT DEF Store!AmbrMbps, AmbrMbps, Store!BpsPerMbps, BpsPerMbps,
             Store!MinAmbrBps, MinAmbrBps, Store!MaxDlAmbrBps, MaxDlAmbrBps
<1>2. Store!Field = Field /\ Store!Array = Array /\ Store!Valid5qi = Valid5qi
  BY SMT DEF Store!Field, Field, Store!Array, Array, Store!Valid5qi, Valid5qi
<1>3. Store!Domain = Domain /\ Store!Value = Value
  BY <1>1, <1>2 DEF Store!Domain, Domain, Store!Value, Value
<1>4. Store!Session = Session
  BY <1>2, <1>3 DEF Store!Session, Session
<1>5. \A s, d : Store!Named(s, d) = Named(s, d)
  BY <1>2 DEF Store!Named, Named
<1>6. \A x, v : Store!Overlay(x, v) = Overlay(x, v)
  BY <1>2 DEF Store!Overlay, Overlay
<1>7. \A doc, s, d, v : Store!Edit(doc, s, d, v) = Edit(doc, s, d, v)
  BY <1>2, <1>5, <1>6 DEF Store!Edit, Edit
<1> QED BY <1>2, <1>4, <1>5, <1>7

LEMMA StoreStep ==
  ASSUME \A x, y \in Writer : x = y,
         TypeOK, FreshCopies, NeverOvertaken, [Next]_vars
  PROVE  NeverOvertaken' /\ [Store!Next]_db
<1>1. ASSUME NEW w \in Writer, Find(w) \/ Quiet(w)
      PROVE  NeverOvertaken' /\ UNCHANGED db
  BY <1>1 DEF Find, Quiet, NeverOvertaken, TypeOK
<1>2. ASSUME NEW w \in Writer, NEW s \in Subscriber, Write(w, s)
      PROVE  NeverOvertaken' /\ Store!Next
  <2> DEFINE c == call[w]
  <2>1. /\ c.slice \in Slice /\ IsSetting(c.set) /\ s \in Targets(c)
        /\ db[s] \in Doc
        /\ db'[s] = Edit(db[s], s, c.slice, c.set)
    <3>1. s \in DOMAIN copies[w] /\ s \in Targets(c) /\ IsCall(c)
          /\ db'[s] = WriteBack(w, s)
      BY <1>2, WriteEffect
    <3>2. c.slice \in Slice /\ IsSetting(c.set)
      BY <3>1 DEF IsCall
    <3>3. copies[w][s] = db[s]
      BY <3>1 DEF FreshCopies, NeverOvertaken
    <3>4. db[s] \in Doc
      BY DEF TypeOK
    <3> QED BY <3>1, <3>2, <3>3, <3>4 DEF WriteBack
  <2>2. PICK a \in Array : a \in Named(s, c.slice)
    BY <2>1 DEF Targets, Matches, Named, Array
  <2> DEFINE x == db'[s][a][c.slice]
             F == DOMAIN c.set
  <2>3. x \in Session
    BY <2>1, EditType DEF Doc
  <2>4. F \in SUBSET Field /\ \A f \in F : f \in Field /\ x[f] = c.set[f]
    <3>1. F \in SUBSET Field
      BY <2>1 DEF IsSetting
    <3> QED BY <2>1, <2>2, <3>1, EditEffect
  <2>5. Edit(db[s], s, c.slice, [f \in F |-> x[f]]) = Edit(db[s], s, c.slice, c.set)
    <3>1. \A y : Overlay(y, [f \in F |-> x[f]]) = Overlay(y, c.set)
      BY <2>4 DEF Overlay
    <3> QED BY <3>1 DEF Edit
  <2>6. db' = [db EXCEPT ![s] = Edit(db[s], s, c.slice, [f \in F |-> x[f]])]
    <3>1. db' = [db EXCEPT ![s] = WriteBack(w, s)]
      BY <1>2 DEF Write
    <3>2. WriteBack(w, s) = db'[s]
      BY <1>2, WriteEffect
    <3> QED BY <2>1, <2>5, <3>1, <3>2
  <2>7. Store!Update(s, c.slice)
    BY <2>2, <2>3, <2>4, <2>6, SameDocuments DEF Store!Update
  <2>8. NeverOvertaken'
    BY <1>2, WriteEffect DEF NeverOvertaken
  <2> QED BY <2>1, <2>7, <2>8 DEF Store!Next
<1>3. CASE UNCHANGED vars
  BY <1>3 DEF vars, NeverOvertaken
<1> QED BY <1>1, <1>2, <1>3, DocumentSteps

(* A single thread of tool calls, with any failures, implements the        *)
(* abstract store: it loses no update and touches one document at a time.  *)
THEOREM OneThreadImplementsStore ==
  ASSUME \A x, y \in Writer : x = y
  PROVE  Spec => ImplementsStore
<1>1. Init => Store!Init /\ NeverOvertaken
  BY DEF Init, Store!Init, NeverOvertaken
<1>2. TypeOK /\ FreshCopies /\ NeverOvertaken /\ [Next]_vars
        => NeverOvertaken' /\ [Store!Next]_db
  BY StoreStep
<1> QED BY <1>1, <1>2, TypeCorrect, CopiesStayFresh, PTL
        DEF Spec, ImplementsStore, Store!Spec

=============================================================================
