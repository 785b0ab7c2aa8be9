-------------------------- MODULE MCPolicySchedule --------------------------
(***************************************************************************)
(* Two subscribers of one slice, a day of three slots, and schedules made  *)
(* by an agent process (a campaign or the Streamlit page) while a second   *)
(* process, the MCP server or the purge script, shares the job store.      *)
(***************************************************************************)
EXTENDS PolicySchedule

MCSubscriber  == {"u1", "u2"}
MCProvisioned == [u \in MCSubscriber |-> [a \in Array |-> {}]]
MCSlot        == 0 .. 2

TwentyMbps   == [u1 |-> 20, u2 |-> 20]
OneMbps      == [u1 |-> 1, u2 |-> 1]
NearTheLimit == [u1 |-> 600, u2 |-> 20]

Raise(delta, target) == [action |-> "increase_ambr", delta |-> delta,
                         start |-> 1, end |-> 2, target |-> target]
Lower(delta, target) == [action |-> "decrease_ambr", delta |-> delta,
                         start |-> 1, end |-> 2, target |-> target]

OneRaise   == [s1 |-> Raise(90, "u1")]
Doubling   == [s1 |-> Raise(100, None)]
OneLower   == [s1 |-> Lower(20, "u1")]

Agent       == [agent |-> {"schedule", "cancel"}]
AgentMonitor == [agent |-> {"schedule", "cancel", "monitor"}]
AgentServer == [agent |-> {"schedule", "cancel"}, server |-> {"schedule", "cancel", "monitor"}]
AgentPurge  == [agent |-> {"schedule", "cancel"}, purge |-> {"purge"}]
Scheduling  == [agent |-> {"schedule"}]

=============================================================================
