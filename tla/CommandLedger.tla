--------------------------- MODULE CommandLedger ---------------------------
(***************************************************************************)
(* What connector commands promise, without how: a command is bound once,  *)
(* while it is confirmed, to the one device that carries it out and no     *)
(* other; and what is recorded of it is an append-only log, in which a     *)
(* device reports nothing before the command is bound.                     *)
(***************************************************************************)
EXTENDS Sequences

CONSTANTS Keys, NoKey, Devices, NoDevice, AgentEvents, DeviceEvents

VARIABLES
    confirmed,  \* commands that the agent has confirmed, and that have not lapsed
    holder,     \* the device that a command is bound to, or NoDevice
    hands,      \* the command that a device is carrying out, or NoKey
    log         \* events of each command

vars == <<confirmed, holder, hands, log>>

Init ==
    /\ confirmed = {}
    /\ holder = [k \in Keys |-> NoDevice]
    /\ hands = [d \in Devices |-> NoKey]
    /\ log = [k \in Keys |-> <<>>]

Confirm(k) ==
    /\ confirmed' = confirmed \cup {k}
    /\ UNCHANGED <<holder, hands, log>>

Lapse(k) ==
    /\ confirmed' = confirmed \ {k}
    /\ UNCHANGED <<holder, hands, log>>

\* A command may be created as confirmed, with what the agent did in its log.
Open(k, first, second) ==
    /\ log[k] = <<>>
    /\ confirmed' = confirmed \cup {k}
    /\ log' = [log EXCEPT ![k] = <<first, second>>]
    /\ UNCHANGED <<holder, hands>>

\* A free command is bound for good, to a device that starts on it.
Bind(d, k) ==
    /\ k \in confirmed
    /\ holder[k] = NoDevice
    /\ holder' = [holder EXCEPT ![k] = d]
    /\ hands' = [hands EXCEPT ![d] = k]
    /\ UNCHANGED <<confirmed, log>>

\* The device takes its command up again, or lays it down.
TakeUp(d, k) ==
    /\ holder[k] = d
    /\ hands' = [hands EXCEPT ![d] = k]
    /\ UNCHANGED <<confirmed, holder, log>>

LayDown(D) ==
    /\ hands' = [d \in Devices |-> IF d \in D THEN NoKey ELSE hands[d]]
    /\ UNCHANGED <<confirmed, holder, log>>

Record(k, type) ==
    /\ type \in DeviceEvents => holder[k] # NoDevice
    /\ log' = [log EXCEPT ![k] = Append(log[k], type)]
    /\ UNCHANGED <<confirmed, holder, hands>>

Next ==
    \/ \E k \in Keys : Confirm(k) \/ Lapse(k)
    \/ \E k \in Keys, first, second \in AgentEvents : Open(k, first, second)
    \/ \E d \in Devices, k \in Keys : Bind(d, k) \/ TakeUp(d, k)
    \/ \E D \in SUBSET Devices : LayDown(D)
    \/ \E k \in Keys, type \in AgentEvents \cup DeviceEvents : Record(k, type)

Spec == Init /\ [][Next]_vars
=============================================================================
