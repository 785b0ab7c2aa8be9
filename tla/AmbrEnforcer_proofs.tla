-------------------------- MODULE AmbrEnforcer_proofs --------------------------
(***************************************************************************)
(* Proofs about the enforcer, for any UEs, rates and faults: its types,    *)
(* what it reports, what the adapter records, and that it implements one   *)
(* independent ceiling per UE.                                             *)
(***************************************************************************)
EXTENDS AmbrEnforcer, TLAPS

LEMMA Numbers ==
  /\ \A u \in Ue : Minor(u) \in Minors
  /\ \A r \in Rate : Ceil(r) \in Ceilings /\ r # None
  /\ \A c \in Ceilings : c # None
BY EnforcerAssumption DEF Minor, Minors, Ceilings, Ceil

LEMMA CallIsNotNone == \A c \in Call : c # None
<1>1. Ceilings \subseteq Nat
  BY EnforcerAssumption DEF Ceilings, Ceil
<1> QED BY <1>1, EnforcerAssumption DEF Call

-----------------------------------------------------------------------------
(* The inductive invariant.                                                *)

(* A process that is down has no call, no table and no measurement, and    *)
(* the adapter's loop has a rate to set.                                   *)
Alive ==
  /\ ~up => call = None /\ queue = {} /\ table = {} /\ applied = None
  /\ queue # {} => applied # None

(* A call changes a class of the table, or adds one outside it; between    *)
(* its two commands the class exists.                                      *)
CallFits ==
  call # None =>
    /\ call.step = "change" <=> call.ue \in table
    /\ call.step = "filter" => class[Minor(call.ue)] # None
    /\ applied # None => call.rate = Ceil(applied)

(* A UE outside the table that was not cleared has no class, unless its    *)
(* first call is just between its two commands, and nothing was reported   *)
(* of it.                                                                  *)
Untouched(u) ==
  /\ told[u] = None
  /\ \/ class[Minor(u)] = None
     \/ /\ call # None /\ call.ue = u /\ call.step = "filter"
        /\ class[Minor(u)] = call.rate

Fresh == up => \A u \in Ue \ (table \cup tainted) : Own(u) => Untouched(u)

(* The adapter's loop leaves the recorded ceiling on every UE it is past,  *)
(* unless the call for the UE failed.                                      *)
Recorded ==
  applied # None =>
    \A u \in Ue \ (queue \cup tainted \cup missed) :
      Own(u) => Enforced(u) = Ceil(applied) \/ (call # None /\ call.ue = u)

IInv ==
  /\ TypeOK /\ Alive /\ CallFits /\ TableIsInstalled
  /\ Fresh /\ ReportedIsEnforced /\ Recorded

LEMMA InitIInv == Init => IInv
<1> SUFFICES ASSUME Init PROVE IInv
  OBVIOUS
<1> USE DEF Init
<1>1. TypeOK
  BY EnforcerAssumption DEF TypeOK, NoClass
<1>2. Alive /\ CallFits /\ TableIsInstalled
  BY DEF Alive, CallFits, TableIsInstalled
<1>3. Fresh /\ ReportedIsEnforced /\ Recorded
  BY DEF Fresh, ReportedIsEnforced, Recorded
<1> QED BY <1>1, <1>2, <1>3 DEF IInv

(* Between calls, with everything wiped, the invariant says nothing.       *)
LEMMA WipedIInv ==
  ASSUME IInv, call = None, queue = {}, Wiped, UNCHANGED <<call, queue, faults>>,
         up' \in BOOLEAN
  PROVE  IInv'
<1> USE DEF IInv, Wiped
<1>1. TypeOK'
  BY DEF TypeOK, NoClass
<1>2. Alive' /\ CallFits' /\ TableIsInstalled' /\ ReportedIsEnforced' /\ Recorded'
  BY DEF Alive, CallFits, TableIsInstalled, ReportedIsEnforced, Recorded
<1>3. Fresh'
  BY Numbers DEF Fresh, Untouched, NoClass
<1> QED BY <1>1, <1>2, <1>3

(* The beginning of a call, of a script or of the adapter's loop.          *)
LEMMA CallIInv ==
  ASSUME IInv, up, call = None, NEW u \in Ue, NEW r \in Rate, Calls(u, r),
         \/ applied' = None /\ queue' = queue /\ queue = {}
         \/ u \in queue /\ queue' = queue \ {u} /\ applied' = applied /\ applied = r,
         UNCHANGED <<up, table, kernel, ghosts, faults>>
  PROVE  IInv'
<1> USE DEF IInv, kernel, ghosts
<1>1. /\ call' \in Call /\ call' # None /\ call'.ue = u /\ call'.rate = Ceil(r)
      /\ call'.step = IF u \in table THEN "change" ELSE "class"
  <2>1. call' \in Call
    BY Numbers DEF Calls, Call
  <2> QED BY <2>1, CallIsNotNone DEF Calls
<1>2. TypeOK'
  BY <1>1, EnforcerAssumption DEF TypeOK
<1>3. Alive'
  BY DEF Alive
<1>4. CallFits'
  BY <1>1 DEF CallFits
<1>5. TableIsInstalled' /\ ReportedIsEnforced'
  BY DEF TableIsInstalled, ReportedIsEnforced, Enforced
<1>6. Fresh'
  BY DEF Fresh, Untouched
<1>7. Recorded'
  BY <1>1 DEF Recorded, Enforced
<1> QED BY <1>2, <1>3, <1>4, <1>5, <1>6, <1>7

LEMMA UpdateIInv ==
  ASSUME IInv, NEW r \in Rate, UpdateTcForAmbr(r) PROVE IInv'
<1> USE DEF IInv, UpdateTcForAmbr, kernel, ghosts
<1>1. TypeOK'
  BY DEF TypeOK
<1>2. Alive' /\ CallFits'
  BY Numbers DEF Alive, CallFits
<1>3. TableIsInstalled' /\ ReportedIsEnforced' /\ Fresh'
  BY DEF TableIsInstalled, ReportedIsEnforced, Enforced, Fresh, Untouched
<1>4. Recorded'
  BY DEF Recorded
<1> QED BY <1>1, <1>2, <1>3, <1>4

LEMMA AddClassIInv == IInv /\ AddClass => IInv'
<1> SUFFICES ASSUME IInv, AddClass PROVE IInv'
  OBVIOUS
<1> USE DEF IInv, AddClass, At, ghosts
<1> DEFINE u == call.ue
           m == Minor(u)
<1>1. /\ call \in Call /\ u \in Ue /\ m \in Minors /\ call.rate \in Ceilings
      /\ class \in [Minors -> Ceilings \cup {None}]
  BY Numbers DEF TypeOK, Call
<1>2. /\ call' \in Call /\ call' # None /\ call'.ue = u /\ call'.rate = call.rate
      /\ call'.step = "filter"
  <2>1. call' \in Call
    BY <1>1 DEF Call
  <2> QED BY <1>1, <2>1, CallIsNotNone DEF Call
<1>3. /\ class' \in [Minors -> Ceilings \cup {None}]
      /\ class'[m] = IF class[m] # None THEN class[m] ELSE call.rate
      /\ \A x \in Minors \ {m} : class'[x] = class[x]
      /\ \A x \in Minors : class[x] # None => class'[x] = class[x]
      /\ class'[m] # None
  BY <1>1, Numbers
<1>4. u \notin table /\ up
  BY DEF CallFits, Alive
<1>5. TypeOK'
  BY <1>2, <1>3 DEF TypeOK
<1>6. Alive' /\ CallFits'
  BY <1>2, <1>3, <1>4 DEF Alive, CallFits
<1>7. TableIsInstalled'
  BY <1>3, Numbers DEF TableIsInstalled, TypeOK
<1>8. Fresh'
  <2> SUFFICES ASSUME NEW v \in Ue \ (table \cup tainted), Own(v)
               PROVE  Untouched(v)'
    BY DEF Fresh
  <2>1. Untouched(v)
    BY <1>4 DEF Fresh
  <2>2. CASE v = u
    BY <2>1, <2>2, <1>2, <1>3 DEF Untouched
  <2>3. CASE v # u
    <3>1. Minor(v) \in Minors \ {m}
      BY <2>3, <1>1, Numbers DEF Own
    <3> QED BY <2>1, <2>3, <3>1, <1>3 DEF Untouched
  <2> QED BY <2>2, <2>3
<1>9. \A v \in Ue \ {u} : Own(v) => class'[Minor(v)] = class[Minor(v)]
  BY <1>1, <1>3, Numbers DEF Own
<1>10. ReportedIsEnforced'
  BY <1>4, <1>9 DEF ReportedIsEnforced, Enforced, Fresh, Untouched
<1>11. Recorded'
  BY <1>2, <1>9 DEF Recorded, Enforced
<1> QED BY <1>5, <1>6, <1>7, <1>8, <1>10, <1>11

(* What a step may rely on while a call is under way.                      *)
LEMMA CallFacts ==
  ASSUME IInv, call # None
  PROVE  /\ call \in Call /\ call.ue \in Ue /\ call.rate \in Ceilings /\ up
         /\ Minor(call.ue) \in Minors
         /\ class \in [Minors -> Ceilings \cup {None}]
BY Numbers DEF IInv, TypeOK, Call, Alive

(* Until its filter is added, the call's UE is as after the setup.         *)
LEMMA AddingFacts ==
  ASSUME IInv, call # None, call.step # "change"
  PROVE  /\ call.ue \notin table
         /\ call.ue \notin tainted /\ Own(call.ue) => Untouched(call.ue)
BY CallFacts DEF IInv, CallFits, Fresh

LEMMA AddFilterIInv == IInv /\ AddFilter => IInv'
<1> SUFFICES ASSUME IInv, AddFilter PROVE IInv'
  OBVIOUS
<1> USE DEF AddFilter, At, Return
<1> DEFINE u == call.ue
<1>1. /\ call # None /\ u \in Ue /\ call.rate \in Ceilings /\ up
      /\ class[Minor(u)] # None /\ u \notin table
      /\ told' = [told EXCEPT ![u] = call.rate]
  BY CallFacts, AddingFacts DEF IInv, CallFits
<1>2. TypeOK'
  BY <1>1 DEF IInv, TypeOK
<1>3. told \in [Ue -> Ceilings \cup {None}] /\ UNCHANGED class
  BY DEF IInv, TypeOK
<1>4. Alive' /\ CallFits'
  BY <1>1 DEF IInv, Alive, CallFits
<1>5. TableIsInstalled'
  BY <1>1, <1>3 DEF IInv, TableIsInstalled
<1>6. Fresh'
  BY <1>1, <1>3 DEF IInv, Fresh, Untouched
<1>7. u \notin tainted /\ Own(u) => class[Minor(u)] = call.rate
  BY <1>1, AddingFacts DEF Untouched
<1>8. ReportedIsEnforced'
  <2> SUFFICES ASSUME NEW v \in Ue \ tainted, Own(v), told'[v] # None
               PROVE  Enforced(v)' = told'[v]
    BY DEF ReportedIsEnforced
  <2>1. CASE v = u
    BY <2>1, <1>1, <1>3, <1>7 DEF Enforced
  <2>2. CASE v # u
    BY <2>2, <1>1, <1>3 DEF IInv, ReportedIsEnforced, Enforced
  <2> QED BY <2>1, <2>2
<1>9. Recorded'
  <2> SUFFICES ASSUME applied # None,
                      NEW v \in Ue \ (queue \cup tainted \cup missed), Own(v)
               PROVE  Enforced(v)' = Ceil(applied)
    BY DEF Recorded
  <2>1. CASE v = u
    BY <2>1, <1>1, <1>3, <1>7 DEF IInv, CallFits, Enforced
  <2>2. CASE v # u
    BY <2>2, <1>1, <1>3 DEF IInv, Recorded, Enforced
  <2> QED BY <2>1, <2>2
<1> QED BY <1>2, <1>4, <1>5, <1>6, <1>8, <1>9 DEF IInv

LEMMA ChangeClassIInv == IInv /\ ChangeClass => IInv'
<1> SUFFICES ASSUME IInv, ChangeClass PROVE IInv'
  OBVIOUS
<1> USE DEF ChangeClass, At, Return
<1> DEFINE u == call.ue
<1>1. /\ call # None /\ u \in Ue /\ call.rate \in Ceilings /\ up
      /\ Minor(u) \in Minors /\ u \in table /\ u \in filters
      /\ told' = [told EXCEPT ![u] = call.rate]
  BY CallFacts DEF IInv, CallFits, TableIsInstalled
<1>2. /\ class \in [Minors -> Ceilings \cup {None}]
      /\ told \in [Ue -> Ceilings \cup {None}]
      /\ class' = [class EXCEPT ![Minor(u)] = call.rate]
      /\ class'[Minor(u)] = call.rate /\ call.rate # None
  BY <1>1, Numbers DEF IInv, TypeOK
<1>3. TypeOK'
  BY <1>1, <1>2 DEF IInv, TypeOK
<1>4. Alive' /\ CallFits'
  BY <1>1 DEF IInv, Alive, CallFits
<1>5. \A v \in Ue : class[Minor(v)] # None => class'[Minor(v)] # None
  BY <1>1, <1>2, Numbers
<1>6. TableIsInstalled'
  BY <1>5 DEF IInv, TableIsInstalled, TypeOK
<1>7. \A v \in Ue \ {u} : Own(v) => class'[Minor(v)] = class[Minor(v)] /\ told'[v] = told[v]
  BY <1>1, <1>2, Numbers DEF Own
<1>8. Fresh'
  <2> SUFFICES ASSUME NEW v \in Ue \ (table \cup tainted), Own(v)
               PROVE  Untouched(v)'
    BY DEF Fresh
  <2> QED BY <1>1, <1>7 DEF IInv, Fresh, Untouched
<1>9. ReportedIsEnforced'
  <2> SUFFICES ASSUME NEW v \in Ue \ tainted, Own(v), told'[v] # None
               PROVE  Enforced(v)' = told'[v]
    BY DEF ReportedIsEnforced
  <2>1. CASE v = u
    BY <2>1, <1>1, <1>2 DEF Enforced
  <2>2. CASE v # u
    BY <2>2, <1>7 DEF IInv, ReportedIsEnforced, Enforced
  <2> QED BY <2>1, <2>2
<1>10. Recorded'
  <2> SUFFICES ASSUME applied # None,
                      NEW v \in Ue \ (queue \cup tainted \cup missed), Own(v)
               PROVE  Enforced(v)' = Ceil(applied)
    BY DEF Recorded
  <2>1. CASE v = u
    BY <2>1, <1>1, <1>2 DEF IInv, CallFits, Enforced
  <2>2. CASE v # u
    BY <2>2, <1>1, <1>7 DEF IInv, Recorded, Enforced
  <2> QED BY <2>1, <2>2
<1> QED BY <1>3, <1>4, <1>6, <1>8, <1>9, <1>10 DEF IInv

(* A command that fails in the middle of a first call leaves a class of    *)
(* which nothing is known: its UE is tainted from then on.                 *)
LEMMA CommandFailsIInv == IInv /\ CommandFails => IInv'
<1> SUFFICES ASSUME IInv, CommandFails PROVE IInv'
  OBVIOUS
<1> USE DEF CommandFails, Return, kernel
<1>1. call # None /\ call \in Call /\ call.ue \in Ue
  BY CallFacts
<1>2. TypeOK'
  BY <1>1 DEF IInv, TypeOK
<1>3. Alive' /\ CallFits' /\ TableIsInstalled'
  BY DEF IInv, Alive, CallFits, TableIsInstalled
<1>4. Fresh'
  BY DEF IInv, Fresh, Untouched
<1>5. ReportedIsEnforced' /\ Recorded'
  BY DEF IInv, ReportedIsEnforced, Enforced, Recorded
<1> QED BY <1>2, <1>3, <1>4, <1>5 DEF IInv

(* A UE in the table has its filter, so its class is never removed.        *)
LEMMA ClearKeepsClass ==
  ASSUME IInv, NEW u \in Ue, ClearUe(u)
  PROVE  UNCHANGED class
BY DEF IInv, TableIsInstalled, ClearUe

LEMMA ClearUeIInv ==
  ASSUME IInv, NEW u \in Ue, ClearUe(u)
  PROVE  IInv'
<1>1. UNCHANGED <<class, filters>>
  BY ClearKeepsClass DEF ClearUe
<1> USE <1>1 DEF IInv
<1>2. TypeOK'
  BY DEF TypeOK, ClearUe
<1>3. Alive' /\ CallFits' /\ TableIsInstalled'
  BY DEF Alive, CallFits, TableIsInstalled, ClearUe
<1>4. told \in [Ue -> Ceilings \cup {None}] /\ told' = [told EXCEPT ![u] = None]
  BY DEF TypeOK, ClearUe
<1>5. Fresh'
  BY <1>4 DEF Fresh, Untouched, ClearUe
<1>6. ReportedIsEnforced' /\ Recorded'
  BY <1>4 DEF ReportedIsEnforced, Enforced, Recorded, ClearUe
<1> QED BY <1>2, <1>3, <1>5, <1>6

LEMMA CrashIInv == IInv /\ Crash => IInv'
<1> SUFFICES ASSUME IInv, Crash PROVE IInv'
  OBVIOUS
<1> USE DEF IInv, Crash, kernel, ghosts
<1>1. TypeOK'
  <2>1. up' \in BOOLEAN
    BY Zenon DEF TypeOK
  <2>2. faults' \in Nat
    BY DEF TypeOK
  <2>3. /\ table' \subseteq Ue /\ filters' \subseteq Ue /\ queue' \subseteq Ue
        /\ call' \in Call \cup {None} /\ applied' \in Rate \cup {None}
        /\ UNCHANGED <<class, told, tainted, missed>>
    BY DEF TypeOK
  <2> QED BY <2>1, <2>2, <2>3, Zenon DEF TypeOK
<1>2. Alive' /\ CallFits' /\ TableIsInstalled' /\ Fresh' /\ Recorded'
  BY DEF Alive, CallFits, TableIsInstalled, Fresh, Recorded
<1>3. ReportedIsEnforced'
  BY DEF ReportedIsEnforced, Enforced
<1> QED BY <1>1, <1>2, <1>3

LEMMA NextIInv == IInv /\ [Next]_vars => IInv'
<1> SUFFICES ASSUME IInv, [Next]_vars PROVE IInv'
  OBVIOUS
<1>1. CASE Setup \/ Teardown
  BY <1>1, WipedIInv DEF Setup, Teardown
<1>2. ASSUME NEW u \in Ue, NEW r \in Rate, SetUeAmbr(u, r) PROVE IInv'
  BY <1>2, CallIInv DEF SetUeAmbr
<1>3. ASSUME NEW u \in Ue, UpdateNext(u) PROVE IInv'
  <2>1. up /\ applied \in Rate
    BY <1>3 DEF UpdateNext, IInv, Alive, TypeOK
  <2> QED BY <1>3, <2>1, CallIInv DEF UpdateNext
<1>4. CASE UNCHANGED vars
  BY <1>4 DEF IInv, vars, kernel, ghosts, TypeOK, Alive, CallFits, TableIsInstalled,
              Fresh, Untouched, ReportedIsEnforced, Enforced, Recorded
<1> QED
  BY <1>1, <1>2, <1>3, <1>4, UpdateIInv, AddClassIInv, AddFilterIInv,
     ChangeClassIInv, CommandFailsIInv, ClearUeIInv, CrashIInv DEF Next

LEMMA Invariance == Spec => []IInv
BY InitIInv, NextIInv, PTL DEF Spec

-----------------------------------------------------------------------------
(* The theorems.                                                           *)

(* Table, classes, filters and calls keep their types, and every ceiling   *)
(* is at or above the floor.                                               *)
THEOREM TypeCorrect == Spec => []TypeOK
<1>1. IInv => TypeOK
  BY DEF IInv
<1> QED BY <1>1, Invariance, PTL

(* Every address in the table has its filter and its class.                *)
THEOREM TableAlwaysInstalled == Spec => []TableIsInstalled
<1>1. IInv => TableIsInstalled
  BY DEF IInv
<1> QED BY <1>1, Invariance, PTL

(* What set_ue_ambr reported as set is what the kernel enforces, through   *)
(* failing commands and kills, of every UE that was not cleared, had no    *)
(* filter command fail and shares its last octet with no other.            *)
THEOREM ReportsAlwaysTrue == Spec => []ReportedIsEnforced
<1>1. IInv => ReportedIsEnforced
  BY DEF IInv
<1> QED BY <1>1, Invariance, PTL

(* The ceiling recorded beside a measurement is the one in force, whatever *)
(* failed in earlier loops, for the same UEs but those whose call in the   *)
(* loop that set it failed.                                                *)
THEOREM AppliedAlwaysEnforced == Spec => []AppliedIsEnforced
<1>1. IInv => AppliedIsEnforced
  BY DEF IInv, Recorded, AppliedIsEnforced
<1> QED BY <1>1, Invariance, PTL

-----------------------------------------------------------------------------
(* With an octet of its own for each UE, the enforcer implements one       *)
(* independent ceiling per UE.                                             *)

(* A step that touches the class and the filter of one UE alone.           *)
LEMMA CapStep ==
  ASSUME \A v \in Ue : Own(v), NEW w \in Ue,
         \A v \in Ue \ {w} : Enforced(v)' = Enforced(v),
         Enforced(w)' \in Ceilings \/ Enforced(w)' = Enforced(w)
  PROVE  [Point!Next]_[u \in Ue |-> Enforced(u)]
<1> DEFINE before == [u \in Ue |-> Enforced(u)]
           after  == [u \in Ue |-> Enforced(u)']
<1>1. CASE Enforced(w)' = Enforced(w)
  <2>1. after = before
    BY <1>1
  <2> QED BY <2>1
<1>2. CASE Enforced(w)' \in Ceilings
  <2>1. after = [before EXCEPT ![w] = Enforced(w)']
    BY <1>2
  <2> QED BY <2>1, <1>2 DEF Point!Next, Point!Cap
<1> QED BY <1>1, <1>2

LEMMA StepImplements ==
  ASSUME \A v \in Ue : Own(v), IInv, [Next]_vars
  PROVE  [Point!Next]_[u \in Ue |-> Enforced(u)]
<1> DEFINE Moves == [Point!Next]_[u \in Ue |-> Enforced(u)]
<1>1. CASE Setup \/ Teardown
  <2>1. \A x \in Ue : Enforced(x)' = None
    BY <1>1 DEF Setup, Teardown, Wiped, Enforced
  <2> QED BY <2>1 DEF Point!Next, Point!Lift
<1>2. ASSUME UNCHANGED <<class, filters>> PROVE Moves
  <2>1. \A x \in Ue : Enforced(x)' = Enforced(x)
    BY <1>2 DEF Enforced
  <2> QED BY <2>1
<1>3. CASE AddClass
  <2>1. PICK w \in Ue :
        /\ Minor(w) \in Minors /\ call.rate \in Ceilings
        /\ class \in [Minors -> Ceilings \cup {None}] /\ UNCHANGED filters
        /\ class' = IF class[Minor(w)] # None THEN class
                    ELSE [class EXCEPT ![Minor(w)] = call.rate]
    BY <1>3, CallFacts DEF AddClass, At
  <2>2. \A v \in Ue \ {w} : Enforced(v)' = Enforced(v)
    BY <2>1, Numbers DEF Own, Enforced
  <2>3. Enforced(w)' \in Ceilings \/ Enforced(w)' = Enforced(w)
    BY <2>1 DEF Enforced
  <2> QED BY <2>1, <2>2, <2>3, CapStep
<1>4. CASE AddFilter
  <2>1. PICK w \in Ue :
        /\ class[Minor(w)] \in Ceilings /\ UNCHANGED class
        /\ filters' = filters \cup {w}
    BY <1>4, CallFacts DEF AddFilter, At, IInv, CallFits
  <2>2. \A v \in Ue \ {w} : Enforced(v)' = Enforced(v)
    BY <2>1 DEF Enforced
  <2>3. Enforced(w)' \in Ceilings
    BY <2>1 DEF Enforced
  <2> QED BY <2>1, <2>2, <2>3, CapStep
<1>5. CASE ChangeClass
  <2>1. PICK w \in Ue :
        /\ Minor(w) \in Minors /\ call.rate \in Ceilings
        /\ class \in [Minors -> Ceilings \cup {None}] /\ UNCHANGED filters
        /\ class' = [class EXCEPT ![Minor(w)] = call.rate]
    BY <1>5, CallFacts DEF ChangeClass, At
  <2>2. \A v \in Ue \ {w} : Enforced(v)' = Enforced(v)
    BY <2>1, Numbers DEF Own, Enforced
  <2>3. Enforced(w)' \in Ceilings \/ Enforced(w)' = Enforced(w)
    BY <2>1 DEF Enforced
  <2> QED BY <2>1, <2>2, <2>3, CapStep
<1>6. CASE \E u \in Ue : ClearUe(u)
  BY <1>2, <1>6, ClearKeepsClass DEF ClearUe
<1>7. CASE \/ \E u \in Ue, r \in Rate : SetUeAmbr(u, r)
           \/ \E r \in Rate : UpdateTcForAmbr(r)
           \/ \E u \in Ue : UpdateNext(u)
           \/ CommandFails \/ Crash \/ UNCHANGED vars
  BY <1>2, <1>7 DEF SetUeAmbr, UpdateTcForAmbr, UpdateNext, CommandFails, Crash,
                    vars, kernel
<1> QED BY <1>1, <1>3, <1>4, <1>5, <1>6, <1>7 DEF Next

(* Kills and failing commands included, every step of the enforcer moves   *)
(* the ceiling of one UE to a rate that was asked for, or lifts them all.  *)
THEOREM EnforcerImplementsCeilings ==
  ASSUME \A v \in Ue : Own(v)
  PROVE  Spec => ImplementsCeilings
<1>1. Init => Point!Init
  BY DEF Init, Point!Init, Enforced
<1>2. IInv /\ [Next]_vars => [Point!Next]_[u \in Ue |-> Enforced(u)]
  BY StepImplements
<1>3. Spec => Point!Init
  BY <1>1, PTL DEF Spec
<1>4. Spec => [][Next]_vars
  BY PTL DEF Spec
<1>5. Spec => [][Point!Next]_[u \in Ue |-> Enforced(u)]
  BY <1>2, <1>4, Invariance, PTL
<1> QED BY <1>3, <1>5, PTL DEF ImplementsCeilings, Point!Spec

=============================================================================
