----------------------------- MODULE MCInboxCond -----------------------------
(***************************************************************************)
(* A small instance of InboxCond for TLC.                                  *)
(***************************************************************************)
EXTENDS InboxCond, TLC

Offer(kind, dir) == [kind |-> kind, dir |-> dir, ctrl |-> "none"]

(* A frame that blocks, one that never blocks, and one that drains. *)
MCOffers == {Offer("Text", "down"), Offer("Text", "up"), Offer("Interruption", "down")}

(* For the liveness run: all pushes compete for the one place. *)
LiveOffers == {Offer("Text", "down")}

Symmetry == Permutations(Pushers)
=============================================================================
