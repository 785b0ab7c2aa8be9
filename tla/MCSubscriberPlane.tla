------------------------- MODULE MCSubscriberPlane -------------------------
(***************************************************************************)
(* Two subscribers: u1 carries "internet" in both arrays, u2 only in the   *)
(* slice array, as Open5GS 2.8 writes it; u2 also carries "ims".  The      *)
(* thread roles are those of the deployment: agent calls arrive through    *)
(* the MCP server, jobs run on the scheduler's pool, script is an          *)
(* experiment that drives QoSManager.                                      *)
(***************************************************************************)
EXTENDS SubscriberPlane

MCSubscriber == {"u1", "u2"}
MCSlice      == {"internet", "ims"}

MCProvisioned ==
  [u1 |-> [session |-> {"internet"}, slice |-> {"internet"}],
   u2 |-> [session |-> {},           slice |-> {"internet", "ims"}]]

Baseline == [ambr |-> 20, idx |-> 9, mbr |-> None, gbr |-> None]

MCInitDb == {[s \in MCSubscriber |-> [a \in Array |-> [d \in MCSlice |-> Baseline]]]}

AgentAndScheduler == [agent |-> {"apply_policy", "modify_qos"},
                      job   |-> {"apply_policy"}]
SchedulerAndScript == [job    |-> {"apply_policy"},
                       script |-> {"set_5qi", "restore_defaults"}]
AgentAlone  == [agent |-> {"apply_policy", "modify_qos"}]
ScriptAlone == [script |-> {"set_5qi", "set_flow_br", "restore_defaults"}]
OneOfEach   == [agent |-> Tool]

(* 30 is taken for Mbps and accepted, 5000 for Mbps and refused.           *)
OneRate   == {30, 5000}
FlowRates == {40000000, 50000000, 5000}
AgentQos  == {5, 10}
ScriptQos == {70, 10}

=============================================================================
