---------------------------- MODULE SequenceFilter ----------------------------
(***************************************************************************)
(* The elements of a sequence that belong to a set, in their order: what   *)
(* an array's filter() leaves, and a Map of which some keys are deleted.   *)
(* It is SelectSeq with a set for the test, and in terms of FlattenSeq,    *)
(* about which SequenceLemmas proves what the proofs need.                 *)
(***************************************************************************)
EXTENDS Sequences, SequencesExt

Filtered(s, S) == FlattenSeq([i \in DOMAIN s |-> IF s[i] \in S THEN <<s[i]>> ELSE <<>>])
===============================================================================
