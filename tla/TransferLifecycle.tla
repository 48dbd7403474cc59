------------------------- MODULE TransferLifecycle -------------------------
(***************************************************************************)
(* What the notification side promises about a watched transfer, whatever  *)
(* order its events arrive in: it is first unknown, then pending or mined, *)
(* a pending one gets mined in the block that holds it on the chain, and a *)
(* mined one is confirmed once, when it is deep enough.  Nothing is ever   *)
(* taken back.                                                             *)
(***************************************************************************)
EXTENDS Integers

CONSTANTS Transfers, MinConfirmations

VARIABLES
    height,     \* the height of the chain
    minedIn,    \* the block of each transfer; 0 or less while it has none
    stage,      \* "unknown", "pending", "mined" or "confirmed"
    inBlock     \* the block the service believes a transfer is in, or 0

lifecycle == <<height, minedIn, stage, inBlock>>

LInit ==
    /\ height = 0
    /\ minedIn = [t \in Transfers |-> -1]
    /\ stage = [t \in Transfers |-> "unknown"]
    /\ inBlock = [t \in Transfers |-> 0]

\* The chain grows and mines transfers; a mined transfer stays in its block.
ChainGrows ==
    /\ height' >= height
    /\ \A t \in Transfers : minedIn[t] > 0 => minedIn'[t] = minedIn[t]
    /\ UNCHANGED <<stage, inBlock>>

SeenPending(t) ==
    /\ stage[t] = "unknown"
    /\ stage' = [stage EXCEPT ![t] = "pending"]
    /\ UNCHANGED <<height, minedIn, inBlock>>

SeenMined(t) ==
    /\ stage[t] \in {"unknown", "pending"}
    /\ minedIn[t] > 0
    /\ stage' = [stage EXCEPT ![t] = "mined"]
    /\ inBlock' = [inBlock EXCEPT ![t] = minedIn[t]]
    /\ UNCHANGED <<height, minedIn>>

Confirm(t) ==
    /\ stage[t] = "mined" /\ height - inBlock[t] >= MinConfirmations
    /\ stage' = [stage EXCEPT ![t] = "confirmed"]
    /\ UNCHANGED <<height, minedIn, inBlock>>

LNext ==
    \/ ChainGrows
    \/ \E t \in Transfers : SeenPending(t) \/ SeenMined(t) \/ Confirm(t)

LSpec == LInit /\ [][LNext]_lifecycle
=============================================================================
