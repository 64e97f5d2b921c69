---------------------------- MODULE OrderedStream ---------------------------
(***************************************************************************)
(* What a one-way stream of messages promises its two ends: the receiver   *)
(* gets what the sender put in, in that order, without gaps, duplicates or *)
(* messages from nowhere.  It does not promise that everything arrives.    *)
(***************************************************************************)
EXTENDS Naturals, Sequences

CONSTANT Messages

VARIABLES sent, delivered

Init == sent = <<>> /\ delivered = <<>>

Put == /\ \E m \in Messages : sent' = Append(sent, m)
       /\ UNCHANGED delivered

Deliver == /\ Len(delivered) < Len(sent)
           /\ delivered' = Append(delivered, sent[Len(delivered) + 1])
           /\ UNCHANGED sent

Spec == Init /\ [][Put \/ Deliver]_<<sent, delivered>>

=============================================================================
