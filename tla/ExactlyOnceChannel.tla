------------------------- MODULE ExactlyOnceChannel -------------------------
(***************************************************************************)
(* What the off-chain message queue promises to the pallets: the messages  *)
(* that the off-chain state machine of one sender produces are delivered   *)
(* to the chain in the order of their production, each of them once.       *)
(*                                                                         *)
(* A message is identified by the block whose handling produced it.        *)
(***************************************************************************)
EXTENDS Naturals, Sequences

VARIABLES produced,     \* The messages produced so far, in order.
          delivered     \* The messages the chain has consumed, in order.

vars == <<produced, delivered>>

Init == /\ produced = << >>
        /\ delivered = << >>

(* Some message becomes the next one of the stream. *)
Produce == /\ Len(produced') = Len(produced) + 1
           /\ \A k \in 1..Len(produced) : produced'[k] = produced[k]

(* The oldest message that is not delivered yet is handed to the pallets. *)
Deliver == /\ Len(delivered) < Len(produced)
           /\ delivered' = Append(delivered, produced[Len(delivered) + 1])

(* One block may do either or both. *)
Next == \/ /\ Produce
           /\ Deliver \/ UNCHANGED delivered
        \/ Deliver /\ UNCHANGED produced

Spec == Init /\ [][Next]_vars

FairSpec == Spec /\ WF_vars(Deliver)
=============================================================================
