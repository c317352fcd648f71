------------------------------- MODULE Inputs -------------------------------
(***************************************************************************)
(* How algorithms are checked: a behaviour picks an input of one of them,  *)
(* and stops.                                                              *)
(***************************************************************************)
EXTENDS Sequences

VARIABLES
    subject,    \* what is looked at, "none" before
    input

\* A sequence with whatever elements.
IsSeq(s) == s \in Seq({s[i] : i \in DOMAIN s})

NothingPicked == subject = "none" /\ input = <<>>

Picks(s) == subject = "none" /\ subject' = s

=============================================================================
