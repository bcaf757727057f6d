------------------------------ MODULE MCInbox ------------------------------
(***************************************************************************)
(* A small instance of Inbox for TLC.                                      *)
(***************************************************************************)
EXTENDS Inbox, TLC

Offer(kind, dir) == [kind |-> kind, dir |-> dir, ctrl |-> "none"]

(* One frame of each kind the inbox treats differently, and a barrier. *)
MCOffers ==
  {Offer("InputAudio", "down"), Offer("Interruption", "down"),
   Offer("Text", "down"), Offer("End", "down"), Offer("Text", "up"),
   [kind |-> "none", dir |-> "down", ctrl |-> "barrier"]}

Symmetry == Permutations(Pushers)

(* KeepAt is the subsequence operator of the standard module Sequences. *)
ASSUME KeepAtIsSelectSeq ==
  \A n \in 0..4 : \A s \in [1..n -> 1..3] : \A keep \in SUBSET (1..3) :
    KeepAt(s, {i \in DOMAIN s : s[i] \in keep}) =
      SelectSeq(s, LAMBDA x : x \in keep)
=============================================================================
