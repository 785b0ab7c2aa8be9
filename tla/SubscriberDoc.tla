--------------------------- MODULE SubscriberDoc ---------------------------
(***************************************************************************)
(* The Open5GS subscriber documents the policy tools edit, and the         *)
(* traversal of tools/open5gs_schema.py over them.                         *)
(*                                                                         *)
(* A document carries its provisioned sessions in a top-level "session"    *)
(* array (Open5GS <= 2.6), under "slice" (2.7 and later), or in both.      *)
(* No tool adds or removes a session, so which sessions a document carries *)
(* is the constant Provisioned.  A document is a total function over       *)
(* arrays and DNNs for brevity; the entry of a session the document does   *)
(* not carry is never read and never changes.                              *)
(***************************************************************************)
EXTENDS Integers

CONSTANTS
  Subscriber,   (* the IMSIs in open5gs.subscribers                        *)
  Slice,        (* DNN / slice names                                       *)
  Provisioned,  (* [Subscriber -> [Array -> SUBSET Slice]]                 *)
  None          (* no value                                                *)

Array == {"session", "slice"}
Field == {"ambr", "idx", "mbr", "gbr"}

ASSUME ProvisionedAssumption ==
  Provisioned \in [Subscriber -> [Array -> SUBSET Slice]]

(***************************************************************************)
(* AMBR values.  Callers pass integers that should be bps; anything in     *)
(* 1..9999 is taken to be Mbps and multiplied.  The product is compared in *)
(* Mbps here (v * 10^6 <= 10^9 iff v <= 1000), which keeps the numbers     *)
(* small; the document stores whole Mbps.                                  *)
(***************************************************************************)
BpsPerMbps   == 1000000
MinAmbrBps   == 1000000
MaxDlAmbrBps == 1000000000
AmbrMbps     == (MinAmbrBps \div BpsPerMbps) .. (MaxDlAmbrBps \div BpsPerMbps)

LooksLikeMbps(v) == 0 < v /\ v < 10000

(* Mutant: the range is checked before the conversion, or not at all.      *)
AmbrInRangeUnconverted(v) ==
  LooksLikeMbps(v) \/ (MinAmbrBps <= v /\ v <= MaxDlAmbrBps)

AmbrInRange(v) ==
  IF LooksLikeMbps(v) THEN v \in AmbrMbps
                      ELSE MinAmbrBps <= v /\ v <= MaxDlAmbrBps

StoredMbps(v) == IF LooksLikeMbps(v) THEN v ELSE v \div BpsPerMbps

(* VALID_5QI of tools/qos_manager.py, TS 23.501 Table 5.7.4-1.             *)
Valid5qi == (1..9) \cup (65..67) \cup (69..74) \cup {76, 79, 80} \cup (82..85)

(***************************************************************************)
(* Documents.  A session maps the four fields the tools write to values:   *)
(* its AMBR (both directions are always written together), its 5QI/ARP     *)
(* pair, and the downlink MBR and GBR of a dedicated flow.                 *)
(***************************************************************************)
Domain == [ambr |-> AmbrMbps,
           idx  |-> Valid5qi,
           mbr  |-> AmbrMbps \cup {None},
           gbr  |-> AmbrMbps \cup {None}]

Value == AmbrMbps \cup Valid5qi \cup {None}

Session == {x \in [Field -> Value] : \A f \in Field : x[f] \in Domain[f]}

Doc == [Array -> [Slice -> Session]]

(* The fields a tool sets, with their new values; a field left out keeps   *)
(* the value that was read.                                                *)
IsSetting(v) == /\ DOMAIN v \subseteq Field
                /\ \A f \in DOMAIN v : v[f] \in Domain[f]

(* subscriber_query: the filter that finds a subscriber by either path.    *)
Matches(s, d) == \/ d \in Provisioned[s]["session"]
                 \/ d \in Provisioned[s]["slice"]

(* iter_named_sessions: the arrays in which the traversal finds d.         *)
Named(s, d) == {a \in Array : d \in Provisioned[s][a]}

Overlay(sess, v) == [f \in Field |-> IF f \in DOMAIN v THEN v[f] ELSE sess[f]]

(* Mutant: the traversal stops at the first array that carries sessions.   *)
EditOneArray(doc, s, d, v) ==
  LET first == IF Provisioned[s]["session"] # {} THEN "session" ELSE "slice" IN
  [doc EXCEPT ![first] =
     [e \in Slice |-> IF e = d /\ first \in Named(s, d) THEN Overlay(@[e], v)
                                                       ELSE @[e]]]

(* Mutate the named sessions of a document in place, in every array that   *)
(* carries one; session_update_doc then writes both arrays whole.          *)
Edit(doc, s, d, v) ==
  [a \in Array |->
     [e \in Slice |-> IF e = d /\ a \in Named(s, d) THEN Overlay(doc[a][e], v)
                                                    ELSE doc[a][e]]]

(* The copies of a session that a document carries in both arrays agree.   *)
LayoutsAgree(docs) ==
  \A s \in Subscriber, d \in Slice :
    \A a, b \in Named(s, d) : docs[s][a][d] = docs[s][b][d]

=============================================================================
