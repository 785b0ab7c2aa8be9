----------------------------- MODULE RadioBroker -----------------------------
(***************************************************************************)
(* The broker that stands in for the radio medium (srsran/zmq_broker.py):  *)
(* one thread hands the gNB's downlink blocks to the UEs, the other sums   *)
(* the UEs' uplink blocks for the gNB.  All sockets are REQ/REP: one       *)
(* request, one reply.  A REQ socket that timed out is closed and made     *)
(* anew; its peer may still hold the request of the closed one and spend   *)
(* a block on it.  The radios are external: the gNB transmits only as far  *)
(* as it has been fed uplink slots, a UE only once it has received.        *)
(***************************************************************************)
EXTENDS Integers

CONSTANTS
  N,          \* number of UEs, numbered in the order of their ports
  None,
  Ahead,      \* slots the gNB's radio runs ahead of what it has transmitted
  Wrap,       \* bound: slot numbers wrap here
  MaxStale,   \* bound: requests of closed sockets that a peer still holds
  Fault,      \* subset of {"gnb", "length"}
  MaxFaults   \* bound: faults

ASSUME RadioAssumption ==
  /\ N \in Nat \ {0} /\ Ahead \in Nat \ {0} /\ Wrap \in Nat \ {0, 1}
  /\ MaxStale \in Nat /\ MaxFaults \in Nat /\ None \notin Nat
  /\ Fault \subseteq {"gnb", "length"}

Ue == 1 .. N

VARIABLES
  ready,      \* blocks the gNB may transmit
  gnbAsks,    \* the gNB waits for an uplink slot
  dlPend,     \* the gNB holds a request of the broker's current socket
  dlStale,    \* requests of closed sockets the gNB holds
  dlAns,      \* its answer has arrived on the current socket
  ueRx,       \* [UE -> "idle", "asking" for a downlink block, or "taken"]
  got,        \* ghost: [UE -> the newest block it has: "none", "past", "cur"]
  ulPend,     \* [UE -> the slot of the request it holds], None without one
  ulStale,    \* [UE -> requests of closed sockets it holds]
  ulAns,      \* [UE -> the slot of the request whose answer has arrived]
  dl,         \* the downlink thread: "serve" or "fetch"
  round,      \* the UEs of the last poll that are still to be served
  cur,        \* a block has been fetched
  served,     \* the UEs the current block has gone to
  ul, at,     \* the uplink thread: its step, the UE it is at
  slot,       \* ghost: number of the slot being summed
  sum,        \* the blocks in the sum, with the slot each was asked for
  faults      \* bound

gnb    == <<ready, gnbAsks, dlPend, dlStale, dlAns>>
ues    == <<ueRx, got, ulPend, ulStale, ulAns>>
downTh == <<dl, round, cur, served>>
upTh   == <<ul, at, slot, sum>>
vars   == <<gnb, ues, downTh, upTh, faults>>

Init ==
  /\ ready = 0 /\ gnbAsks = FALSE /\ dlPend = FALSE /\ dlStale = 0 /\ dlAns = FALSE
  /\ ueRx = [u \in Ue |-> "idle"] /\ got = [u \in Ue |-> "none"]
  /\ ulPend = [u \in Ue |-> None] /\ ulStale = [u \in Ue |-> 0] /\ ulAns = [u \in Ue |-> None]
  /\ dl = "serve" /\ round = {} /\ cur = FALSE /\ served = {}
  /\ ul = "poll" /\ at = 1 /\ slot = 0 /\ sum = {}
  /\ faults = 0

Fails(kind) == kind \in Fault /\ faults < MaxFaults /\ faults' = faults + 1

(***************************************************************************)
(* The radios.                                                             *)
(***************************************************************************)
GnbAsk ==
  /\ ~gnbAsks /\ ready < Ahead /\ gnbAsks' = TRUE
  /\ UNCHANGED <<ready, dlPend, dlStale, dlAns, ues, downTh, upTh, faults>>

(* A block that answers the request of a closed socket reaches nobody.     *)
GnbTransmit ==
  /\ ready > 0 /\ ready' = ready - 1
  /\ \/ dlPend /\ dlPend' = FALSE /\ dlAns' = TRUE /\ UNCHANGED dlStale
     \/ dlStale > 0 /\ dlStale' = dlStale - 1 /\ UNCHANGED <<dlPend, dlAns>>
  /\ UNCHANGED <<gnbAsks, ues, downTh, upTh, faults>>

UeAsk(u) ==
  /\ ueRx[u] = "idle" /\ ueRx' = [ueRx EXCEPT ![u] = "asking"]
  /\ UNCHANGED <<gnb, got, ulPend, ulStale, ulAns, downTh, upTh, faults>>

UeTransmit(u) ==
  /\ got[u] # "none"
  /\ \/ /\ ulPend[u] # None
        /\ ulAns' = [ulAns EXCEPT ![u] = ulPend[u]] /\ ulPend' = [ulPend EXCEPT ![u] = None]
        /\ UNCHANGED ulStale
     \/ /\ ulStale[u] > 0 /\ ulStale' = [ulStale EXCEPT ![u] = @ - 1]
        /\ UNCHANGED <<ulPend, ulAns>>
  /\ UNCHANGED <<gnb, ueRx, got, downTh, upTh, faults>>

(* The request of a closed socket stays with the peer or is lost.          *)
Stale(n) == {n} \cup (IF n < MaxStale THEN {n + 1} ELSE {})

(***************************************************************************)
(* The downlink thread.                                                    *)
(***************************************************************************)
(* The UEs of a poll are served in the order of their ports.               *)
Turn(u) == u \in round /\ \A v \in round : u <= v

DlPoll ==
  /\ dl = "serve" /\ round = {} /\ \E u \in Ue : ueRx[u] = "asking"
  /\ round' = {u \in Ue : ueRx[u] = "asking"}
  /\ UNCHANGED <<gnb, ues, dl, cur, served, upTh, faults>>

(* Mutant: a new block once the current one has gone to every UE.          *)
WantsNewOnceAllServed(u) == ~cur \/ served = Ue

WantsNew(u) == ~cur \/ u \in served

DlServe(u) ==
  /\ dl = "serve" /\ Turn(u) /\ ~WantsNew(u)
  /\ ueRx' = [ueRx EXCEPT ![u] = "idle"] /\ got' = [got EXCEPT ![u] = "cur"]
  /\ served' = served \cup {u} /\ round' = round \ {u}
  /\ UNCHANGED <<gnb, ulPend, ulStale, ulAns, dl, cur, upTh, faults>>

DlRequest(u) ==
  /\ dl = "serve" /\ Turn(u) /\ WantsNew(u)
  /\ ueRx' = [ueRx EXCEPT ![u] = "taken"] /\ dlPend' = TRUE /\ dl' = "fetch"
  /\ UNCHANGED <<ready, gnbAsks, dlStale, dlAns, got, ulPend, ulStale, ulAns,
                 round, cur, served, upTh, faults>>

DlFetched(u) ==
  /\ dl = "fetch" /\ Turn(u) /\ dlAns /\ dlAns' = FALSE
  /\ cur' = TRUE /\ served' = {u}
  /\ got' = [v \in Ue |-> IF v = u THEN "cur" ELSE IF got[v] = "cur" THEN "past" ELSE got[v]]
  /\ ueRx' = [ueRx EXCEPT ![u] = "idle"]
  /\ dl' = "serve" /\ round' = round \ {u}
  /\ UNCHANGED <<ready, gnbAsks, dlPend, dlStale, ulPend, ulStale, ulAns, upTh, faults>>

(* The gNB has not answered for two seconds.  The UE whose turn it was     *)
(* gets no reply, and its REP socket takes no request before it sent one.  *)
DlTimeout(u) ==
  /\ dl = "fetch" /\ Turn(u) /\ ~dlAns /\ Fails("gnb")
  /\ dlPend' = FALSE /\ dlStale' \in Stale(dlStale)
  /\ dl' = "serve" /\ round' = round \ {u}
  /\ UNCHANGED <<ready, gnbAsks, dlAns, ues, cur, served, upTh>>

(***************************************************************************)
(* The uplink thread.                                                      *)
(***************************************************************************)
UlTake ==
  /\ ul = "poll" /\ gnbAsks
  /\ ul' = "ask" /\ at' = 1 /\ sum' = {} /\ slot' = (slot + 1) % Wrap
  /\ UNCHANGED <<gnb, ues, downTh, faults>>

UlAsk ==
  /\ ul = "ask" /\ at \in Ue
  /\ ulPend' = [ulPend EXCEPT ![at] = slot] /\ ul' = "wait"
  /\ UNCHANGED <<gnb, ueRx, got, ulStale, ulAns, downTh, at, slot, sum, faults>>

(* A block of another length than the first one is left out of the sum.    *)
UlAnswer ==
  /\ ul = "wait" /\ ulAns[at] # None
  /\ \/ sum' = sum \cup {[ue |-> at, slot |-> ulAns[at]]}
     \/ sum # {} /\ UNCHANGED sum
  /\ ulAns' = [ulAns EXCEPT ![at] = None] /\ at' = at + 1 /\ ul' = "ask"
  /\ UNCHANGED <<gnb, ueRx, got, ulPend, ulStale, downTh, slot, faults>>

(* Mutant: the socket is kept after a timeout.                             *)
UlTimeoutKept ==
  /\ ul = "wait" /\ ulAns[at] = None
  /\ at' = at + 1 /\ ul' = "ask"
  /\ UNCHANGED <<gnb, ues, downTh, slot, sum, faults>>

UlTimeout ==
  /\ ul = "wait" /\ ulAns[at] = None
  /\ ulPend' = [ulPend EXCEPT ![at] = None]
  /\ \E n \in Stale(ulStale[at]) : ulStale' = [ulStale EXCEPT ![at] = n]
  /\ at' = at + 1 /\ ul' = "ask"
  /\ UNCHANGED <<gnb, ueRx, got, ulAns, downTh, slot, sum, faults>>

(* A block that is no sequence of samples ends the thread.                 *)
UlDies ==
  /\ ul = "wait" /\ ulAns[at] # None /\ Fails("length")
  /\ ul' = "dead"
  /\ UNCHANGED <<gnb, ues, downTh, at, slot, sum>>

(* Mutant: the gNB is answered only when a UE was heard.                   *)
UlReplyHeard ==
  /\ ul = "ask" /\ at > N /\ sum # {}
  /\ ul' = "poll" /\ gnbAsks' = FALSE /\ ready' = ready + 1
  /\ UNCHANGED <<dlPend, dlStale, dlAns, ues, downTh, at, slot, sum, faults>>

(* The sum, or a slot of silence, feeds the gNB.                           *)
UlReply ==
  /\ ul = "ask" /\ at > N
  /\ ul' = "poll" /\ gnbAsks' = FALSE /\ ready' = ready + 1
  /\ UNCHANGED <<dlPend, dlStale, dlAns, ues, downTh, at, slot, sum, faults>>

Downlink == DlPoll \/ \E u \in Ue : DlServe(u) \/ DlRequest(u) \/ DlFetched(u)
Uplink   == UlTake \/ UlAsk \/ UlAnswer \/ UlTimeout \/ UlReply

Next ==
  \/ GnbAsk \/ GnbTransmit \/ \E u \in Ue : UeAsk(u) \/ UeTransmit(u)
  \/ Downlink \/ (\E u \in Ue : DlTimeout(u)) \/ Uplink \/ UlDies

Spec == Init /\ [][Next]_vars

(* The threads and the gNB go on; nothing is assumed of the UEs.           *)
FairSpec ==
  Spec /\ WF_vars(Downlink) /\ WF_vars(Uplink) /\ WF_vars(GnbAsk) /\ WF_vars(GnbTransmit)

(***************************************************************************)
(* Properties.                                                             *)
(***************************************************************************)
Slot == 0 .. Wrap - 1

TypeOK ==
  /\ ready \in Nat /\ gnbAsks \in BOOLEAN
  /\ dlPend \in BOOLEAN /\ dlStale \in Nat /\ dlAns \in BOOLEAN
  /\ ueRx \in [Ue -> {"idle", "asking", "taken"}] /\ got \in [Ue -> {"none", "past", "cur"}]
  /\ ulPend \in [Ue -> Slot \cup {None}] /\ ulStale \in [Ue -> Nat]
  /\ ulAns \in [Ue -> Slot \cup {None}]
  /\ dl \in {"serve", "fetch"} /\ round \subseteq Ue /\ cur \in BOOLEAN /\ served \subseteq Ue
  /\ ul \in {"poll", "ask", "wait", "dead"} /\ at \in 1 .. N + 1 /\ slot \in Slot
  /\ sum \subseteq [ue : Ue, slot : Slot] /\ faults \in Nat

(* Everything in the sum was sent for the slot being summed: the answer of *)
(* a UE that came too late is in no later sum, although the UE goes on     *)
(* answering the requests of sockets that were closed.                     *)
SumOfThisSlot == \A b \in sum : b.slot = slot

(* A UE is never handed a block it has already, not even when the fetch of *)
(* a new one failed in between: a reply carries the block just fetched or  *)
(* one the UE lacks.                                                       *)
NoBlockTwice ==
  [][\A u \in Ue : ueRx[u] # "idle" /\ ueRx'[u] = "idle" => dl = "fetch" \/ got[u] # "cur"]_vars

(* Every request of the gNB for an uplink slot is answered, also while no  *)
(* UE transmits: otherwise the gNB, whose blocks the UEs wait for before   *)
(* they transmit, would never send one.                                    *)
UplinkAnswered == gnbAsks ~> ~gnbAsks \/ ul = "dead"

Stuck(u) == ueRx[u] = "taken" /\ ~(dl = "fetch" /\ Turn(u))

(* A UE that asks for a block gets one whatever the others do, unless the  *)
(* gNB timed out in its very turn or the uplink thread is dead.            *)
DownlinkServed ==
  \A u \in Ue : ueRx[u] = "asking" ~> ueRx[u] = "idle" \/ Stuck(u) \/ ul = "dead"

(* Neither side of the broker waits for good: UplinkAnswered for the gNB   *)
(* and DownlinkServed for the UEs.                                         *)
EveryoneServed == UplinkAnswered /\ DownlinkServed

(* The code says that a new block is fetched only once the current one has *)
(* gone to every UE.                                                       *)
BroadcastToAll ==
  [][dlPend' /\ ~dlPend /\ cur => served = Ue]_vars

=============================================================================
