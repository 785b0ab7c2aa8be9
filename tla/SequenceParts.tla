---------------------------- MODULE SequenceParts ----------------------------
(***************************************************************************)
(* Parts and repetitions of sequences.  SelectSeq takes a predicate;       *)
(* selecting by a set of indices keeps the operator first-order, so that   *)
(* theorems can be stated about it.                                        *)
(***************************************************************************)
EXTENDS Integers, Sequences

(* The entries of s at the indices in I, in their order.                   *)
Part(s, I) ==
  LET part[i \in 0 .. Len(s)] == IF i = 0 THEN <<>>
                                 ELSE IF i \in I THEN Append(part[i - 1], s[i])
                                                 ELSE part[i - 1]
  IN part[Len(s)]

(* s over and over, n times.                                               *)
Times(n, s) ==
  LET times[i \in 0 .. n] == IF i = 0 THEN <<>> ELSE times[i - 1] \o s
  IN times[n]

=============================================================================
