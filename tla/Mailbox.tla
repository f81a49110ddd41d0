------------------------------ MODULE Mailbox ------------------------------
(***************************************************************************)
(* What HAPPlatformRunLoopScheduleCallback promises: a single slot.  A post *)
(* is accepted only into an empty slot, and each accepted message is       *)
(* handed to the reactor exactly once, in the order accepted, the slot     *)
(* being emptied before the message's callback runs.  A post made while    *)
(* the slot is full is refused (kHAPError_OutOfResources) and changes      *)
(* nothing.                                                                *)
(***************************************************************************)
EXTENDS Sequences

CONSTANTS Messages, None

VARIABLES
    slot,       \* the pending message, or None
    delivered   \* messages handed to the reactor, in order

vars == <<slot, delivered>>

Post(m) ==
    /\ slot = None
    /\ slot' = m
    /\ UNCHANGED delivered

Deliver ==
    /\ slot /= None
    /\ delivered' = Append(delivered, slot)
    /\ slot' = None

Init ==
    /\ slot = None
    /\ delivered = <<>>

Next == (\E m \in Messages : Post(m)) \/ Deliver

Spec == Init /\ [][Next]_vars

=============================================================================
