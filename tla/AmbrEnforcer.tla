----------------------------- MODULE AmbrEnforcer -----------------------------
(***************************************************************************)
(* Per-UE enforcement of the AMBR on the tunnel of the UPF (srsran/        *)
(* ambr_enforcer.py) and the adapter through which an agent's session      *)
(* drives it (srsran/phi_agent_probe.py).  The enforcer keeps a table of   *)
(* the addresses it has set up; the kernel keeps the classes, numbered by  *)
(* the last octet of an address, and the filters that send the traffic of  *)
(* an address to a class.  Each tc command is a step and may fail, and the *)
(* process may be killed between two of them.                              *)
(***************************************************************************)
EXTENDS Integers, Sequences

CONSTANTS
  Ue,          \* addresses of the UEs
  LastOctet,   \* [address -> its last octet]
  Rate,        \* rates a caller asks for, in units of 0.1 Mbps
  None,
  Fault,       \* subset of {"class", "filter", "change", "crash"}
  MaxFaults    \* bound: faults

ASSUME EnforcerAssumption ==
  /\ LastOctet \in [Ue -> 0 .. 255] /\ Rate \subseteq Nat
  /\ None \notin Int
  /\ None \notin [ue : Ue, rate : Nat, step : {"class", "filter", "change"}]
  /\ Fault \subseteq {"class", "filter", "change", "crash"} /\ MaxFaults \in Nat

VARIABLES
  up,         \* a process has installed the root and not removed it
  table,      \* AmbrEnforcer._classes: the addresses it has set up
  class,      \* the kernel: [class number -> rate], None if there is no class
  filters,    \* the kernel: addresses with a filter to their class
  call,       \* the call of set_ue_ambr in progress, None between calls
  queue,      \* the addresses update_tc_for_ambr has still to call it for
  applied,    \* PhiAgentProbe.applied[-1]
  told,       \* ghost: [address -> the rate last reported as set], None if none
  tainted,    \* ghost: addresses cleared, or whose filter failed, since setup
  missed,     \* ghost: addresses whose call failed in the adapter's last loop
  faults      \* bound

kernel == <<class, filters>>
ghosts == <<told, tainted, missed>>
vars   == <<up, table, kernel, call, queue, applied, ghosts, faults>>

(* Mutant: the first octet, which the UEs share, is taken.                 *)
MinorFirst(u) == 110

Minor(u) == 100 + LastOctet[u]

Minors   == {Minor(u) : u \in Ue}

(* The rate written into a class: at least 0.1 Mbps.                       *)
Ceil(r)  == IF r > 1 THEN r ELSE 1

NoClass  == [m \in Minors |-> None]

(* The kernel sends the traffic of an address with a filter to its class,  *)
(* and everything else to the unconstrained default class.                 *)
Enforced(u) == IF u \in filters THEN class[Minor(u)] ELSE None

Init ==
  /\ up = FALSE /\ table = {} /\ class = NoClass /\ filters = {}
  /\ call = None /\ queue = {} /\ applied = None
  /\ told = [u \in Ue |-> None] /\ tainted = {} /\ missed = {} /\ faults = 0

Wiped ==
  /\ table' = {} /\ class' = NoClass /\ filters' = {} /\ applied' = None
  /\ told' = [u \in Ue |-> None] /\ tainted' = {} /\ missed' = {}

(* Removing the root removes every class and filter below it.              *)
Setup ==
  /\ call = None /\ queue = {}
  /\ up' = TRUE /\ Wiped /\ UNCHANGED <<call, queue, faults>>

Teardown ==
  /\ up /\ call = None /\ queue = {}
  /\ up' = FALSE /\ Wiped /\ UNCHANGED <<call, queue, faults>>

Calls(u, r) ==
  call' = [ue |-> u, rate |-> Ceil(r), step |-> IF u \in table THEN "change" ELSE "class"]

(* A script without the adapter sets one UE's ceiling.                     *)
SetUeAmbr(u, r) ==
  /\ up /\ call = None /\ queue = {}
  /\ Calls(u, r) /\ applied' = None
  /\ UNCHANGED <<up, table, kernel, queue, ghosts, faults>>

(* The adapter sets every UE's ceiling and ignores what the calls return.  *)
UpdateTcForAmbr(r) ==
  /\ up /\ call = None /\ queue = {}
  /\ queue' = Ue /\ applied' = r /\ missed' = {}
  /\ UNCHANGED <<up, table, kernel, call, told, tainted, faults>>

UpdateNext(u) ==
  /\ call = None /\ u \in queue
  /\ queue' = queue \ {u} /\ Calls(u, applied)
  /\ UNCHANGED <<up, table, kernel, applied, ghosts, faults>>

At(step) == call # None /\ call.step = step

Return(ok) ==
  /\ call' = None
  /\ told' = IF ok THEN [told EXCEPT ![call.ue] = call.rate] ELSE told

(* "class add": a class that exists is left as it is and counts as added.  *)
AddClass ==
  /\ At("class")
  /\ class' = IF class[Minor(call.ue)] # None THEN class
              ELSE [class EXCEPT ![Minor(call.ue)] = call.rate]
  /\ call' = [ue |-> call.ue, rate |-> call.rate, step |-> "filter"]
  /\ UNCHANGED <<up, table, filters, queue, applied, ghosts, faults>>

(* Mutant: the address is not entered in the table.                        *)
AddFilterUnlisted ==
  /\ At("filter")
  /\ filters' = filters \cup {call.ue}
  /\ Return(TRUE)
  /\ UNCHANGED <<up, table, class, queue, applied, tainted, missed, faults>>

AddFilter ==
  /\ At("filter")
  /\ filters' = filters \cup {call.ue} /\ table' = table \cup {call.ue}
  /\ Return(TRUE)
  /\ UNCHANGED <<up, class, queue, applied, tainted, missed, faults>>

(* "class change"                                                          *)
ChangeClass ==
  /\ At("change") /\ class[Minor(call.ue)] # None
  /\ class' = [class EXCEPT ![Minor(call.ue)] = call.rate]
  /\ Return(TRUE)
  /\ UNCHANGED <<up, table, filters, queue, applied, tainted, missed, faults>>

(* Mutant: the failure of a command is reported as success.                *)
CommandFailsUnseen ==
  /\ call # None /\ call.step \in Fault /\ faults < MaxFaults
  /\ Return(TRUE)
  /\ faults' = faults + 1 /\ missed' = missed \cup {call.ue}
  /\ tainted' = IF call.step = "filter" THEN tainted \cup {call.ue} ELSE tainted
  /\ UNCHANGED <<up, table, kernel, queue, applied>>

CommandFails ==
  /\ call # None /\ call.step \in Fault /\ faults < MaxFaults
  /\ Return(FALSE)
  /\ faults' = faults + 1 /\ missed' = missed \cup {call.ue}
  /\ tainted' = IF call.step = "filter" THEN tainted \cup {call.ue} ELSE tainted
  /\ UNCHANGED <<up, table, kernel, queue, applied>>

(* The kernel refuses to delete a class that a filter refers to; the       *)
(* refusal is not looked at.                                               *)
ClearUe(u) ==
  /\ up /\ call = None /\ queue = {} /\ u \in table
  /\ class' = IF \E v \in filters : Minor(v) = Minor(u) THEN class
              ELSE [class EXCEPT ![Minor(u)] = None]
  /\ table' = table \ {u}
  /\ told' = [told EXCEPT ![u] = None] /\ tainted' = tainted \cup {u}
  /\ UNCHANGED <<up, filters, call, queue, applied, missed, faults>>

(* The process dies; the kernel keeps what it has.                         *)
Crash ==
  /\ "crash" \in Fault /\ faults < MaxFaults /\ up
  /\ up' = FALSE /\ table' = {} /\ call' = None /\ queue' = {} /\ applied' = None
  /\ faults' = faults + 1
  /\ UNCHANGED <<kernel, ghosts>>

Next ==
  \/ Setup \/ Teardown
  \/ \E u \in Ue, r \in Rate : SetUeAmbr(u, r)
  \/ \E r \in Rate : UpdateTcForAmbr(r)
  \/ \E u \in Ue : UpdateNext(u)
  \/ AddClass \/ AddFilter \/ ChangeClass \/ CommandFails
  \/ \E u \in Ue : ClearUe(u)
  \/ Crash

Spec == Init /\ [][Next]_vars

(***************************************************************************)
(* Properties.                                                             *)
(***************************************************************************)
Ceilings == {Ceil(r) : r \in Rate}

Call     == [ue : Ue, rate : Ceilings, step : {"class", "filter", "change"}]

TypeOK ==
  /\ up \in BOOLEAN /\ table \subseteq Ue /\ filters \subseteq Ue
  /\ class \in [Minors -> Ceilings \cup {None}]
  /\ call \in Call \cup {None} /\ queue \subseteq Ue /\ applied \in Rate \cup {None}
  /\ told \in [Ue -> Ceilings \cup {None}]
  /\ tainted \subseteq Ue /\ missed \subseteq Ue /\ faults \in Nat

(* The address shares its class with no other.                             *)
Own(u) == \A v \in Ue : Minor(v) = Minor(u) => v = u

(* set_ue_ambr returns True only when the ceiling it was given is the one  *)
(* the kernel enforces, and that stays so until the next call for the UE   *)
(* succeeds, whatever calls fail or are cut off by a kill.  (Not for a UE  *)
(* that was cleared, whose filter failed, or that shares its last octet.)  *)
ReportedIsEnforced ==
  \A u \in Ue \ tainted : Own(u) /\ told[u] # None => Enforced(u) = told[u]

(* The same of every UE: false of the code.                                *)
EveryReportEnforced ==
  \A u \in Ue : told[u] # None /\ call = None => Enforced(u) = told[u]

(* Every ceiling the table knows of exists: the "class change" of a later  *)
(* call has a class and a filter to act on.                                *)
TableIsInstalled ==
  \A u \in table : u \in filters /\ class[Minor(u)] # None

(* A measurement is recorded beside the ceiling that is in force: when the *)
(* adapter's loop is over, every UE has it, whatever commands failed in    *)
(* earlier loops, but those whose own call failed in this one (the adapter *)
(* ignores what the calls return, so nothing records that) and those that  *)
(* ReportedIsEnforced leaves out.                                          *)
AppliedIsEnforced ==
  applied # None /\ queue = {} /\ call = None =>
    \A u \in Ue \ (tainted \cup missed) : Own(u) => Enforced(u) = Ceil(applied)

Point == INSTANCE UeCeilings WITH
           ceiling   <- [u \in Ue |-> Enforced(u)],
           Ceiling   <- Ceilings,
           Unlimited <- None

(* "Only this UE's ceiling changes": every step of the enforcer moves the  *)
(* ceiling of at most one UE, or lifts all of them.                        *)
ImplementsCeilings == Point!Spec

=============================================================================
