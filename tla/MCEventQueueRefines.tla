------------------------- MODULE MCEventQueueRefines --------------------------
(* Sets for the run of EventQueueRefines: delays as a .cfg cannot write them. *)
EXTENDS EventQueueRefines

\* No instruction asks for less than the next one.
MCExecDelays == {1, 3}
MCActionDelays == {-1, 0, 2}
=============================================================================
