-------------------------- MODULE RadioBroker_proofs --------------------------
(***************************************************************************)
(* Proofs about the broker, for any number of UEs, any run-ahead of the    *)
(* gNB, and any timeouts: its types, which blocks are in a sum, and which  *)
(* block a UE is handed.                                                   *)
(***************************************************************************)
EXTENDS RadioBroker, TLAPS

LEMMA NumbersAreNotNone == Slot \subseteq Nat /\ None \notin Slot
BY RadioAssumption DEF Slot

-----------------------------------------------------------------------------
(* The inductive invariant.                                                *)

(* The uplink thread is at a UE, and only that UE holds a request of its   *)
(* socket or an answer to it, for the slot being summed, never both.       *)
OneExchange ==
  /\ ul \in {"wait", "dead"} => at \in Ue
  /\ ul = "ask" => at \in 1 .. N + 1
  /\ \A u \in Ue :
       /\ ulPend[u] # None => ul \in {"wait", "dead"} /\ u = at /\ ulPend[u] = slot
       /\ ulAns[u] # None => ul \in {"wait", "dead"} /\ u = at /\ ulAns[u] = slot
       /\ ulAns[u] # None => ulPend[u] = None

(* A UE that has the newest block is among those the broker served it to.  *)
GotIsServed == \A u \in Ue : got[u] = "cur" => cur /\ u \in served

IInv == TypeOK /\ OneExchange /\ GotIsServed /\ SumOfThisSlot

LEMMA InitIInv == Init => IInv
<1> SUFFICES ASSUME Init PROVE IInv
  OBVIOUS
<1>1. 0 \in Slot /\ 1 \in 1 .. N + 1
  BY RadioAssumption DEF Slot
<1>2. TypeOK
  BY <1>1 DEF Init, TypeOK
<1>3. OneExchange
  BY <1>1 DEF Init, OneExchange
<1> QED BY <1>2, <1>3 DEF Init, IInv, GotIsServed, SumOfThisSlot

-----------------------------------------------------------------------------
(* One lemma per group of actions.                                         *)

LEMMA RadioStep ==
  ASSUME IInv, GnbAsk \/ GnbTransmit \/ (\E u \in Ue : UeAsk(u) \/ UeTransmit(u)) PROVE IInv'
<1> USE DEF IInv, gnb, ues, downTh, upTh
<1>1. CASE GnbAsk
  BY <1>1 DEF GnbAsk, TypeOK, OneExchange, GotIsServed, SumOfThisSlot
<1>2. CASE GnbTransmit
  <2>1. TypeOK'
    <3>1. ready' \in Nat /\ dlStale' \in Nat
      BY <1>2 DEF GnbTransmit, TypeOK
    <3>2. dlPend' \in BOOLEAN /\ dlAns' \in BOOLEAN
      BY <1>2 DEF GnbTransmit, TypeOK
    <3> QED BY <1>2, <3>1, <3>2 DEF GnbTransmit, TypeOK
  <2> QED BY <1>2, <2>1 DEF GnbTransmit, OneExchange, GotIsServed, SumOfThisSlot
<1>3. ASSUME NEW u \in Ue, UeAsk(u) PROVE IInv'
  BY <1>3 DEF UeAsk, TypeOK, OneExchange, GotIsServed, SumOfThisSlot
<1>4. ASSUME NEW u \in Ue, UeTransmit(u) PROVE IInv'
  <2>1. TypeOK'
    BY <1>4 DEF UeTransmit, TypeOK
  <2>2. OneExchange'
    BY <1>4 DEF UeTransmit, TypeOK, OneExchange
  <2> QED BY <1>4, <2>1, <2>2 DEF UeTransmit, GotIsServed, SumOfThisSlot
<1> QED BY <1>1, <1>2, <1>3, <1>4

LEMMA DownlinkStep == ASSUME IInv, Downlink \/ (\E u \in Ue : DlTimeout(u)) PROVE IInv'
<1> USE DEF IInv, gnb, ues, downTh, upTh
<1>1. CASE DlPoll
  BY <1>1 DEF DlPoll, TypeOK, OneExchange, GotIsServed, SumOfThisSlot
<1>2. ASSUME NEW u \in Ue, DlServe(u) PROVE IInv'
  <2>1. TypeOK'
    BY <1>2 DEF DlServe, TypeOK
  <2>2. GotIsServed'
    BY <1>2 DEF DlServe, WantsNew, GotIsServed, TypeOK
  <2> QED BY <1>2, <2>1, <2>2 DEF DlServe, OneExchange, SumOfThisSlot
<1>3. ASSUME NEW u \in Ue, DlRequest(u) PROVE IInv'
  <2>1. TypeOK'
    BY <1>3 DEF DlRequest, TypeOK
  <2> QED BY <1>3, <2>1 DEF DlRequest, OneExchange, GotIsServed, SumOfThisSlot
<1>4. ASSUME NEW u \in Ue, DlFetched(u) PROVE IInv'
  <2>1. TypeOK'
    BY <1>4 DEF DlFetched, TypeOK
  <2>2. GotIsServed'
    BY <1>4 DEF DlFetched, GotIsServed, TypeOK
  <2> QED BY <1>4, <2>1, <2>2 DEF DlFetched, OneExchange, SumOfThisSlot
<1>5. ASSUME NEW u \in Ue, DlTimeout(u) PROVE IInv'
  <2>1. \A n \in Nat : Stale(n) \subseteq Nat
    BY DEF Stale
  <2>2. dlStale' \in Nat /\ faults' \in Nat
    BY <1>5, <2>1 DEF DlTimeout, Fails, TypeOK
  <2>3. TypeOK'
    BY <1>5, <2>2 DEF DlTimeout, TypeOK
  <2> QED BY <1>5, <2>3 DEF DlTimeout, OneExchange, GotIsServed, SumOfThisSlot
<1> QED BY <1>1, <1>2, <1>3, <1>4, <1>5 DEF Downlink

LEMMA UplinkStep == ASSUME IInv, Uplink \/ UlDies PROVE IInv'
<1> USE DEF IInv, gnb, ues, downTh, upTh
<1>1. CASE UlTake
  <2>1. slot' \in Slot
    BY <1>1, RadioAssumption DEF UlTake, TypeOK, Slot
  <2>2. TypeOK'
    BY <1>1, <2>1, RadioAssumption DEF UlTake, TypeOK
  <2> QED BY <1>1, <2>2, RadioAssumption
          DEF UlTake, OneExchange, GotIsServed, SumOfThisSlot
<1>2. CASE UlAsk
  BY <1>2, NumbersAreNotNone
     DEF UlAsk, TypeOK, OneExchange, GotIsServed, SumOfThisSlot
<1>3. CASE UlAnswer
  <2>1. at \in Ue /\ ulAns[at] = slot
    BY <1>3 DEF UlAnswer, OneExchange
  <2>2. at' \in 1 .. N + 1
    BY <1>3, <2>1, RadioAssumption DEF UlAnswer, Ue
  <2>3. TypeOK'
    BY <1>3, <2>1, <2>2 DEF UlAnswer, TypeOK
  <2>4. OneExchange'
    BY <1>3, <2>1, <2>2 DEF UlAnswer, OneExchange, TypeOK
  <2>5. SumOfThisSlot'
    BY <1>3, <2>1 DEF UlAnswer, SumOfThisSlot
  <2> QED BY <1>3, <2>3, <2>4, <2>5 DEF UlAnswer, GotIsServed
<1>4. CASE UlTimeout
  <2>1. at \in Ue
    BY <1>4 DEF UlTimeout, OneExchange
  <2>2. at' \in 1 .. N + 1
    BY <1>4, <2>1, RadioAssumption DEF UlTimeout, Ue
  <2>3. \A n \in Nat : Stale(n) \subseteq Nat
    BY DEF Stale
  <2>4. TypeOK'
    BY <1>4, <2>1, <2>2, <2>3 DEF UlTimeout, TypeOK
  <2>5. OneExchange'
    BY <1>4, <2>1, <2>2 DEF UlTimeout, OneExchange, TypeOK
  <2> QED BY <1>4, <2>4, <2>5 DEF UlTimeout, GotIsServed, SumOfThisSlot
<1>5. CASE UlReply
  <2>1. ready' \in Nat /\ ul' = "poll" /\ gnbAsks' = FALSE
    BY <1>5 DEF UlReply, TypeOK
  <2>2. TypeOK'
    BY <1>5, <2>1 DEF UlReply, TypeOK
  <2> QED BY <1>5, <2>2 DEF UlReply, OneExchange, GotIsServed, SumOfThisSlot
<1>6. CASE UlDies
  BY <1>6 DEF UlDies, Fails, TypeOK, OneExchange, GotIsServed, SumOfThisSlot
<1> QED BY <1>1, <1>2, <1>3, <1>4, <1>5, <1>6 DEF Uplink

LEMMA StepIInv == IInv /\ [Next]_vars => IInv'
<1> SUFFICES ASSUME IInv, [Next]_vars PROVE IInv'
  OBVIOUS
<1>1. CASE Next
  BY <1>1, RadioStep, DownlinkStep, UplinkStep DEF Next
<1>2. CASE UNCHANGED vars
  BY <1>2 DEF vars, gnb, ues, downTh, upTh,
              IInv, TypeOK, OneExchange, GotIsServed, SumOfThisSlot
<1> QED BY <1>1, <1>2

LEMMA Invariance == Spec => []IInv
BY InitIInv, StepIInv, PTL DEF Spec

-----------------------------------------------------------------------------
(* The types of the broker's state.                                        *)
THEOREM TypeCorrect == Spec => []TypeOK
BY Invariance, PTL DEF IInv

(* No block that came too late is in a later sum, for any number of UEs    *)
(* and of requests left with them.                                         *)
THEOREM SumAlwaysOfThisSlot == Spec => []SumOfThisSlot
BY Invariance, PTL DEF IInv

(* No UE is handed a block it has, whatever timed out before.              *)
THEOREM NeverBlockTwice == Spec => NoBlockTwice
<1>1. IInv /\ [Next]_vars =>
        [\A u \in Ue : ueRx[u] # "idle" /\ ueRx'[u] = "idle" => dl = "fetch" \/ got[u] # "cur"]_vars
  <2> SUFFICES ASSUME IInv, Next, NEW u \in Ue, ueRx[u] # "idle", ueRx'[u] = "idle", dl # "fetch"
               PROVE  got[u] # "cur"
    OBVIOUS
  <2>1. ASSUME NEW w \in Ue, DlServe(w) PROVE got[u] # "cur"
    <3>1. u = w
      BY <2>1 DEF DlServe, IInv, TypeOK
    <3> QED BY <2>1, <3>1 DEF DlServe, WantsNew, IInv, GotIsServed
  <2>2. CASE UlReply \/ UlTake \/ UlAsk \/ UlAnswer \/ UlTimeout \/ UlDies
    BY <2>2 DEF UlReply, UlTake, UlAsk, UlAnswer, UlTimeout, UlDies, ues
  <2>3. CASE GnbAsk \/ GnbTransmit
    BY <2>3 DEF GnbAsk, GnbTransmit, ues
  <2>4. ASSUME NEW w \in Ue, UeAsk(w) \/ UeTransmit(w) PROVE FALSE
    BY <2>4 DEF UeAsk, UeTransmit, IInv, TypeOK
  <2>5. CASE DlPoll
    BY <2>5 DEF DlPoll, ues
  <2>6. ASSUME NEW w \in Ue, DlRequest(w) \/ DlFetched(w) \/ DlTimeout(w) PROVE FALSE
    BY <2>6 DEF DlRequest, DlFetched, DlTimeout, ues, IInv, TypeOK
  <2> QED BY <2>1, <2>2, <2>3, <2>4, <2>5, <2>6 DEF Next, Downlink, Uplink
<1> QED BY <1>1, Invariance, PTL DEF Spec, NoBlockTwice

=============================================================================
