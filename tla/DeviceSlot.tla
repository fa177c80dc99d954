------------------------------ MODULE DeviceSlot ------------------------------
(***************************************************************************)
(* What the dispatch queue promises an endpoint device: it serves one task *)
(* at a time, and is handed from one task to the next only after the first *)
(* has given it up.                                                        *)
(***************************************************************************)
CONSTANT Tasks

VARIABLE served   \* the tasks the device is asked to work on

Init == served = {}

Take(t)  == served = {} /\ served' = {t}
GiveBack == served # {} /\ served' = {}

Next == GiveBack \/ \E t \in Tasks : Take(t)

Spec == Init /\ [][Next]_served
==============================================================================
