-------------------------- MODULE SubscriberPlane --------------------------
(***************************************************************************)
(* The policy tools as concurrent threads over the subscriber documents:   *)
(* PolicyManager.apply_policy, SessionManager.modify_session_qos and the   *)
(* QoSManager setters.  None of them takes a lock.  Each reads whole       *)
(* documents, edits its copies, and writes the whole session arrays (or    *)
(* the whole document) back one subscriber at a time, so the copy a write  *)
(* puts back may be older than the document it replaces.                   *)
(*                                                                         *)
(* A writer is a thread that runs one tool call at a time: an executor     *)
(* thread of the MCP server, a worker of the background scheduler, or an   *)
(* experiment script.  MongoDB answers or raises; a process may die.       *)
(***************************************************************************)
EXTENDS SubscriberDoc, Sequences

CONSTANTS
  Writer,       (* threads                                                 *)
  Tools,        (* [Writer -> SUBSET Tool]: the tools a thread calls       *)
  RateArg,      (* rates callers pass: bps, or Mbps by mistake             *)
  QosArg,       (* QoS indices callers pass                                *)
  InitDb,       (* the collections a run starts from                       *)
  Fault         (* the failures of this instance, a subset of FaultKind    *)

Tool == {"apply_policy", "modify_qos", "set_5qi", "set_flow_br",
         "restore_defaults"}

FaultKind == {"mongo", "audit", "crash"}

ASSUME WriterAssumption ==
  /\ Tools \in [Writer -> SUBSET Tool]
  /\ RateArg \subseteq Int
  /\ QosArg \subseteq Int
  /\ Fault \subseteq FaultKind
  /\ None \notin {"ok", "failed", "refused", "raised"}
  /\ \A docs \in InitDb : docs \in [Subscriber -> Doc] /\ LayoutsAgree(docs)

VARIABLES
  db,      (* [Subscriber -> Doc], the open5gs.subscribers collection      *)
  pc,      (* where each writer is in its call                             *)
  call,    (* the arguments of its latest call                             *)
  copies,  (* the documents find() returned that it has yet to write back: *)
           (* a function from subscribers to documents                     *)
  reply,   (* the result it computed for that call, None before            *)
  audit,   (* the audit records that call inserted                         *)
  stale    (* history: subscribers others wrote since its find()           *)

vars == <<db, pc, call, copies, reply, audit, stale>>

Location == {"idle", "validate", "find", "write", "audit"}
Reply    == {None, "ok", "failed", "refused", "raised"}

(* A tool's loop over subscribers; drop_flow is restore_defaults' second.  *)
Loop == Tool \cup {"drop_flow"}

IsCall(c) == /\ c \in [tool  : Loop,
                      slice : Slice,
                      imsi  : Subscriber \cup {None},
                      set   : {c.set}]
             /\ IsSetting(c.set)

(* The subscribers a call's find() returns and its loop then edits.        *)
Targets(c) == {s \in Subscriber : Matches(s, c.slice) /\ c.imsi \in {s, None}}

NothingSet == [f \in {} |-> None]
NoCopies   == [s \in {} |-> None]
FlowOff    == [f \in {"mbr", "gbr"} |-> None]

Init ==
  /\ db \in InitDb
  /\ pc     = [w \in Writer |-> "idle"]
  /\ call   = [w \in Writer |-> None]
  /\ copies = [w \in Writer |-> NoCopies]
  /\ reply  = [w \in Writer |-> None]
  /\ audit  = [w \in Writer |-> << >>]
  /\ stale  = [w \in Writer |-> {}]

-----------------------------------------------------------------------------
(* A tool is called.  Its arguments are validated before it reads anything; *)
(* those that fail leave it with an exception or a refusal.                *)

Enter(w, c) ==
  /\ pc[w] = "idle"
  /\ call'  = [call EXCEPT ![w] = c]
  /\ audit' = [audit EXCEPT ![w] = << >>]
  /\ UNCHANGED <<db, copies, stale>>

Begin(w, c, where) ==
  /\ Enter(w, c)
  /\ pc'    = [pc EXCEPT ![w] = where]
  /\ reply' = [reply EXCEPT ![w] = None]

Reject(w, c, how) ==
  /\ Enter(w, c)
  /\ reply' = [reply EXCEPT ![w] = how]
  /\ UNCHANGED pc

CallOf(tool, d, i, v) == [tool |-> tool, slice |-> d, imsi |-> i, set |-> v]

CallApply(w, d, i, v) ==
  LET c(set) == CallOf("apply_policy", d, i, set) IN
  /\ "apply_policy" \in Tools[w]
  /\ \/ AmbrInRange(v) /\ Begin(w, c([ambr |-> StoredMbps(v)]), "find")
     \/ ~AmbrInRange(v) /\ Reject(w, c(NothingSet), "raised")

CallModifyQos(w, d, i, x) ==
  LET c(set) == CallOf("modify_qos", d, i, set) IN
  /\ "modify_qos" \in Tools[w]
  /\ \/ x \in 1..9 /\ Begin(w, c([idx |-> x]), "validate")
     \/ x \notin 1..9 /\ Reject(w, c(NothingSet), "refused")

CallSet5qi(w, d, x) ==
  LET c(set) == CallOf("set_5qi", d, None, set) IN
  /\ "set_5qi" \in Tools[w]
  /\ \/ x \in Valid5qi /\ Begin(w, c([idx |-> x]), "find")
     \/ x \notin Valid5qi /\ Reject(w, c(NothingSet), "raised")

FlowRateInRange(v) == MinAmbrBps <= v /\ v <= MaxDlAmbrBps

CallSetFlowBr(w, d, m, g) ==
  LET c(set) == CallOf("set_flow_br", d, None, set)
      ok     == /\ FlowRateInRange(m)
                /\ g # None => FlowRateInRange(g) /\ g <= m
      mbr    == [mbr |-> m \div BpsPerMbps]
      both   == [mbr |-> m \div BpsPerMbps, gbr |-> g \div BpsPerMbps]
  IN
  /\ "set_flow_br" \in Tools[w]
  /\ \/ ok /\ Begin(w, c(IF g = None THEN mbr ELSE both), "find")
     \/ ~ok /\ Reject(w, c(NothingSet), "raised")

(* restore_defaults runs set_5qi(9, 8) and then its own loop.              *)
CallRestoreDefaults(w, d) ==
  /\ "restore_defaults" \in Tools[w]
  /\ Begin(w, CallOf("restore_defaults", d, None, [idx |-> 9]), "find")

-----------------------------------------------------------------------------
(* The call reads, edits and writes back.                                  *)

(* Mutant: apply_policy audits, like modify_session_qos, only a success.   *)
ConcludeAuditingSuccess(w, r) ==
  /\ reply' = [reply EXCEPT ![w] = r]
  /\ pc' = [pc EXCEPT ![w] = IF r = "ok" THEN "audit" ELSE "idle"]
  /\ UNCHANGED call

(* The result r is known: apply_policy audits it whatever it is,           *)
(* modify_session_qos only a success, and the QoS setters never audit.     *)
(* restore_defaults goes on to clear the flow rates.                       *)
Conclude(w, r) ==
  LET c == call[w] IN
  /\ reply' = [reply EXCEPT ![w] = r]
  /\ \/ /\ \/ c.tool = "apply_policy"
           \/ c.tool = "modify_qos" /\ r = "ok"
        /\ pc' = [pc EXCEPT ![w] = "audit"]
        /\ UNCHANGED call
     \/ /\ c.tool = "restore_defaults"
        /\ pc'   = [pc EXCEPT ![w] = "find"]
        /\ call' = [call EXCEPT ![w].tool = "drop_flow", ![w].set = FlowOff]
     \/ /\ c.tool # "apply_policy"
        /\ c.tool = "modify_qos" => r # "ok"
        /\ c.tool # "restore_defaults"
        /\ pc' = [pc EXCEPT ![w] = "idle"]
        /\ UNCHANGED call

(* Mutant: a loop that matched nothing still reports success.              *)
OutcomeVacuous(w, touched) ==
  IF call[w].tool = "drop_flow" THEN reply[w] ELSE "ok"

(* The result of a call whose loop ended without an exception.  The loop   *)
(* of restore_defaults that clears the flow returns the first loop's.      *)
Outcome(w, touched) ==
  IF call[w].tool = "drop_flow" THEN reply[w]
  ELSE IF touched THEN "ok" ELSE "failed"

(* validate_qos_change asks get_session, which projects the legacy array.  *)
ValidateQos(w) ==
  LET c == call[w] IN
  /\ pc[w] = "validate"
  /\ \/ /\ c.slice \in Provisioned[c.imsi]["session"]
        /\ pc' = [pc EXCEPT ![w] = "find"]
        /\ UNCHANGED reply
     \/ /\ c.slice \notin Provisioned[c.imsi]["session"]
        /\ pc'    = [pc EXCEPT ![w] = "idle"]
        /\ reply' = [reply EXCEPT ![w] = "refused"]
  /\ UNCHANGED <<db, call, copies, audit, stale>>

FindNone(w) ==
  /\ pc[w] = "find"
  /\ Targets(call[w]) = {}
  /\ Conclude(w, Outcome(w, FALSE))
  /\ UNCHANGED <<db, copies, audit, stale>>

Find(w) ==
  /\ pc[w] = "find"
  /\ Targets(call[w]) # {}
  /\ pc'    = [pc EXCEPT ![w] = "write"]
  /\ copies' = [copies EXCEPT ![w] = [s \in Targets(call[w]) |-> db[s]]]
  /\ stale' = [stale EXCEPT ![w] = {}]
  /\ UNCHANGED <<db, call, reply, audit>>

(* Mutant: the name test is dropped, every session of the document is set. *)
WriteBackEverySession(w, s) ==
  [a \in Array |-> [e \in Slice |->
     IF e \in Provisioned[s][a] THEN Overlay(copies[w][s][a][e], call[w].set)
                                ELSE copies[w][s][a][e]]]

(* The document w puts back for s: its copy as read, with its edit.        *)
WriteBack(w, s) == Edit(copies[w][s], s, call[w].slice, call[w].set)

Write(w, s) ==
  /\ pc[w] = "write"
  /\ s \in DOMAIN copies[w]
  /\ db'    = [db EXCEPT ![s] = WriteBack(w, s)]
  /\ copies' = [copies EXCEPT ![w] = [x \in (DOMAIN @) \ {s} |-> @[x]]]
  /\ stale' = [x \in Writer |-> IF x = w THEN stale[x] ELSE stale[x] \cup {s}]
  /\ IF DOMAIN copies[w] = {s} THEN Conclude(w, Outcome(w, TRUE))
                       ELSE UNCHANGED <<pc, call, reply>>
  /\ UNCHANGED audit

-----------------------------------------------------------------------------
(* The audit record, MongoDB failures, and the death of a process.         *)

InsertAudit(w) ==
  /\ pc[w] = "audit"
  /\ audit' = [audit EXCEPT ![w] = Append(@, [action |-> call[w].tool,
                                              ok     |-> reply[w] = "ok"])]
  /\ pc'    = [pc EXCEPT ![w] = "idle"]
  /\ UNCHANGED <<db, call, copies, reply, stale>>

(* The insert raised; the tool logs a warning and returns its result.      *)
LoseAudit(w) ==
  /\ "audit" \in Fault
  /\ pc[w] = "audit"
  /\ pc' = [pc EXCEPT ![w] = "idle"]
  /\ UNCHANGED <<db, call, copies, reply, audit, stale>>

(* A read or an update raised.  What was written so far stays written.     *)
MongoError(w) ==
  /\ "mongo" \in Fault
  /\ copies' = [copies EXCEPT ![w] = NoCopies]
  /\ \/ /\ pc[w] \in {"find", "write"}
        /\ Conclude(w, "failed")
     \/ /\ pc[w] = "validate"
        /\ pc'    = [pc EXCEPT ![w] = "idle"]
        /\ reply' = [reply EXCEPT ![w] = "refused"]
        /\ UNCHANGED call
  /\ UNCHANGED <<db, audit, stale>>

(* The process dies in a call and is started again: no result.             *)
Crash(w) ==
  /\ "crash" \in Fault
  /\ pc[w] # "idle"
  /\ pc'    = [pc EXCEPT ![w] = "idle"]
  /\ copies' = [copies EXCEPT ![w] = NoCopies]
  /\ reply' = [reply EXCEPT ![w] = None]
  /\ UNCHANGED <<db, call, audit, stale>>

-----------------------------------------------------------------------------

CallTool(w) ==
  \E d \in Slice :
    \/ \E i \in Subscriber \cup {None}, v \in RateArg : CallApply(w, d, i, v)
    \/ \E i \in Subscriber, x \in QosArg : CallModifyQos(w, d, i, x)
    \/ \E x \in QosArg : CallSet5qi(w, d, x)
    \/ \E m \in RateArg, g \in RateArg \cup {None} : CallSetFlowBr(w, d, m, g)
    \/ CallRestoreDefaults(w, d)

Proceed(w) == \/ ValidateQos(w)
              \/ FindNone(w)
              \/ Find(w)
              \/ \E s \in Subscriber : Write(w, s)
              \/ InsertAudit(w)

Fail(w) == LoseAudit(w) \/ MongoError(w) \/ Crash(w)

Next == \E w \in Writer : CallTool(w) \/ Proceed(w) \/ Fail(w)

Spec == Init /\ [][Next]_vars

-----------------------------------------------------------------------------
(* Correctness.                                                            *)

(* A running call has valid arguments, and holds copies of subscribers it  *)
(* targets exactly while it is in its write loop.                          *)
CallOK(w) ==
  /\ reply[w] # None \/ pc[w] # "idle" => IsCall(call[w])
  /\ pc[w] = "write" <=> DOMAIN copies[w] # {}
  /\ pc[w] = "write" => DOMAIN copies[w] \subseteq Targets(call[w])
  /\ \A s \in DOMAIN copies[w] : copies[w][s] \in Doc

(* Every variable keeps its type.                                          *)
TypeOK ==
  /\ db \in [Subscriber -> Doc]
  /\ pc \in [Writer -> Location]
  /\ reply \in [Writer -> Reply]
  /\ stale \in [Writer -> SUBSET Subscriber]
  /\ audit \in [Writer -> Seq([action : Loop, ok : BOOLEAN])]
  /\ DOMAIN call = Writer
  /\ DOMAIN copies = Writer
  /\ \A w \in Writer : CallOK(w)

(* The two copies of a session never disagree, whatever calls race, fail   *)
(* halfway or put an old document back: a reader of the legacy array (the  *)
(* collector, get_session) and a reader of the slice array (Open5GS 2.7)   *)
(* see the same AMBR and QoS.                                              *)
CopiesAgree == LayoutsAgree(db)

(* A copy nobody has overtaken is the document: a write-back can undo      *)
(* another writer's change only where that writer wrote since the read.    *)
FreshCopies ==
  \A w \in Writer : \A s \in DOMAIN copies[w] \ stale[w] : copies[w][s] = db[s]

(* s carries the values of call c in every session the call names.         *)
Carries(s, c) ==
  \A a \in Named(s, c.slice), f \in DOMAIN c.set :
    db[s][a][c.slice][f] = c.set[f]

(* A tool that reported success is telling the truth: every subscriber it  *)
(* targeted carries the reported values in every array, unless another     *)
(* call has written that subscriber since this one read it.                *)
SuccessIsTrue ==
  \A w \in Writer :
    reply[w] = "ok" /\ pc[w] \in {"audit", "idle"} =>
      /\ Targets(call[w]) # {}
      /\ \A s \in Targets(call[w]) \ stale[w] : Carries(s, call[w])

(* The audit trail of apply_policy: a call that validated its arguments    *)
(* and returned left exactly one record, and the record says what the      *)
(* caller was told.                                                        *)
AuditTold ==
  \A w \in Writer :
    /\ pc[w] = "idle"
    /\ reply[w] \in {"ok", "failed"}
    /\ call[w].tool = "apply_policy"
    => audit[w] = <<[action |-> "apply_policy", ok |-> reply[w] = "ok"]>>

(* w puts its copy of s back in this step.                                 *)
PutsBack(w, s) == s \in DOMAIN copies[w] /\ db' # db /\ s \notin DOMAIN copies'[w]

(* A document changes only when a call that targets it writes it back, and *)
(* only at that subscriber: an IMSI-scoped apply or a failing loop never   *)
(* touches another subscriber.                                             *)
ChangesAreTargeted ==
  [][\A s \in Subscriber : db'[s] # db[s] =>
       \E w \in Writer : PutsBack(w, s) /\ s \in Targets(call[w])]_vars

(* A write-back of a document nobody overtook changes the fields the tool  *)
(* sets, in the sessions of the slice it was called for, and nothing else. *)
FreshWriteIsLocal ==
  [][\A w \in Writer, s \in Subscriber :
       PutsBack(w, s) /\ s \notin stale[w] =>
         \A a \in Array, d \in Slice, f \in Field :
           db'[s][a][d][f] # db[s][a][d][f] =>
             d = call[w].slice /\ f \in DOMAIN call[w].set]_vars

(* For one thread the tools implement the document store they promise:     *)
(* every step edits one document as it is, or leaves the collection alone. *)
Store == INSTANCE DocumentStore WITH
  Subscriber <- Subscriber, Slice <- Slice, Provisioned <- Provisioned,
  None <- None, InitDb <- InitDb, db <- db
ImplementsStore == Store!Spec

-----------------------------------------------------------------------------
(* What the repository says and the code does not do.                      *)

(* tools/qos_manager.py:71 says the QoS tools write "a different subtree   *)
(* from PolicyManager": their write never changes an AMBR.                 *)
QosWritesLeaveAmbr ==
  [][\A w \in Writer, s \in Subscriber :
       PutsBack(w, s) /\ "ambr" \notin DOMAIN call[w].set =>
         \A a \in Array, d \in Slice : db'[s][a][d]["ambr"] = db[s][a][d]["ambr"]]_vars

(* tools/open5gs_schema.py:9-11 says one traversal covers either layout in *)
(* every tool: modify_session_qos never refuses a subscriber that carries  *)
(* the session, in whichever array.                                        *)
EitherLayoutModifiable ==
  \A w \in Writer :
    /\ reply[w] = "refused"
    /\ call[w].set # NothingSet
    => call[w].imsi \notin Targets(call[w])

(* tools/qos_manager.py:123-124 rejects a GBR above the MBR: no session    *)
(* stores such a pair.                                                     *)
GbrWithinMbr ==
  \A s \in Subscriber, d \in Slice : \A a \in Named(s, d) :
    LET q == db[s][a][d] IN
    q["mbr"] # None /\ q["gbr"] # None => q["gbr"] <= q["mbr"]

(* tools/policy_manager.py:262 says every policy change attempt is written *)
(* to the audit collection.                                                *)
EveryAttemptAudited ==
  \A w \in Writer :
    /\ pc[w] = "idle"
    /\ reply[w] # None
    /\ call[w].tool = "apply_policy"
    => audit[w] # << >>

=============================================================================
