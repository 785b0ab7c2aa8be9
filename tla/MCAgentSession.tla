--------------------------- MODULE MCAgentSession ---------------------------
(***************************************************************************)
(* The answers an LLM may give, small enough to check and rich enough that *)
(* each branch of the loop, the validation and the dispatcher is taken.    *)
(***************************************************************************)
EXTENDS AgentSession

MCSubscriber  == {"u1"}
MCProvisioned == [u \in MCSubscriber |-> [a \in Array |-> {}]]

Say(kind) == [kind |-> kind, tool |-> None, sub |-> None, dl |-> None, whole |-> TRUE]
Use(tool, sub) == [Say("tool_call") EXCEPT !.tool = tool, !.sub = sub]
SetTo(dl)   == [Use("policy_manager", "apply") EXCEPT !.dl = dl]
HalfSet(dl) == [SetTo(dl) EXCEPT !.whole = FALSE]

Talk == {Say("thought"), Say("malformed"), Say("final_answer")}

ReadAmbr   == Use("kpi_analyzer", "ambr_dl_mean")
ReadMemory == Use("kpi_analyzer", "memory_utilization")

(* 30 Mbps, 60 Mbps in bps, 5000, which is taken for Mbps and refused, and *)
(* a call that lacks an argument.                                          *)
AnyUnit == {Say("unknown"), Say("final_answer"), ReadAmbr,
            SetTo(30), SetTo(60000000), SetTo(5000), HalfSet(60000000),
            Use("policy_manager", ""),
            Use("session_manager", "modify_qos"), Use("session_manager", "terminate")}

Budgets == Talk \cup {ReadAmbr, ReadMemory, SetTo(60000000), SetTo(40000000), HalfSet(60000000),
                     Use("monitoring_manager", "schedule"),
                     Use("monitoring_manager", "cancel")}

RaiseOnly == {Say("final_answer"), SetTo(30000000), SetTo(50000000), HalfSet(20000000)}

OldJob == {50000000}

=============================================================================
