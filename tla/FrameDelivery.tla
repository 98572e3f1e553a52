----------------------------- MODULE FrameDelivery -----------------------------
(***************************************************************************)
(* What the frame transport promises to the thread that calls recv_frame:   *)
(* a packet is one captured frame, whole, with the layout it was captured   *)
(* with, and packets come in capture order without repeats.  Frames may be  *)
(* skipped; nothing is said of how many.                                    *)
(***************************************************************************)
EXTENDS Naturals, Sequences

CONSTANTS Layouts, NoLayout

VARIABLES
  produced,  \* the layout of each captured frame, in capture order
  received   \* the last packet returned

deliveryVars == <<produced, received>>

NoPacket == [raw |-> <<0, 0>>, frame |-> 0, layout |-> NoLayout]

Whole(f) == [raw |-> <<f, f>>, frame |-> f, layout |-> produced[f]]

Produce == \E L \in Layouts : produced' = Append(produced, L) /\ UNCHANGED received

Deliver ==
  \E f \in received.frame + 1 .. Len(produced) :
    received' = Whole(f) /\ UNCHANGED produced

DeliveryInit == produced = <<>> /\ received = NoPacket

DeliverySpec == DeliveryInit /\ [][Produce \/ Deliver]_deliveryVars

=============================================================================
