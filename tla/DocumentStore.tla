--------------------------- MODULE DocumentStore ---------------------------
(***************************************************************************)
(* What the policy tools promise: the subscriber collection changes one    *)
(* document at a time, and each change edits some fields of one slice's    *)
(* sessions in the document as it then is, in every array alike.           *)
(*                                                                         *)
(* SubscriberPlane implements this for a single thread.  With two threads  *)
(* it does not: a write-back replaces the document by an edit of an older  *)
(* version of it.                                                          *)
(***************************************************************************)
EXTENDS SubscriberDoc

CONSTANT InitDb   (* the collections a run starts from                     *)

VARIABLE db       (* [Subscriber -> Doc]                                   *)

Init == db \in InitDb

(* The tool chooses the fields F and their new values x.  The values are   *)
(* read off the new document, which keeps the choice finite.               *)
Update(s, d) ==
  \E a \in Named(s, d), F \in SUBSET Field :
    LET x == db'[s][a][d] IN
    /\ x \in Session
    /\ db' = [db EXCEPT ![s] = Edit(db[s], s, d, [f \in F |-> x[f]])]

Next == \E s \in Subscriber, d \in Slice : Update(s, d)

Spec == Init /\ [][Next]_db

=============================================================================
