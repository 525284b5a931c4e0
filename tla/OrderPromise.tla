----------------------------- MODULE OrderPromise -----------------------------
(***************************************************************************)
(* What the platform promises about an order, whoever asks for what and in *)
(* whatever order answers arrive.  A change of status is granted only to   *)
(* an order that stands right before it, and may take effect late: an      *)
(* order may be set back, but never skips a stage of models.Order; and the *)
(* merchant is sent its money after the member has confirmed and before    *)
(* the platform says so.  OrderDesk implements this module.                *)
(***************************************************************************)
EXTENDS Naturals, Sequences

CONSTANTS MaxOrders, MaxSends

VARIABLES
    stage,    \* the furthest of: 1 paid, 2 accepted, 3 completed, 4 confirmed, 5 paid out
    status,   \* the one it stands at, 0 when it is cancelled
    granted,  \* the changes that are still to take effect
    sent      \* how often its amount was sent to the merchant

Orders == 1 .. Len(stage)

\* Orders of an earlier version of the program may be there already.
Init ==
    \E n \in 0 .. MaxOrders :
        /\ stage \in [1 .. n -> 1 .. 5] /\ sent \in [1 .. n -> 0 .. MaxSends]
        /\ status = stage /\ granted = [o \in 1 .. n |-> {}]
        /\ \A o \in 1 .. n : (stage[o] = 5) = (sent[o] > 0)

Place ==
    /\ Len(stage) < MaxOrders
    /\ stage' = Append(stage, 1) /\ status' = Append(status, 1)
    /\ granted' = Append(granted, {}) /\ sent' = Append(sent, 0)

Grant(o) ==
    /\ status[o] \in 1 .. 4 /\ (status[o] = 4 => sent[o] > 0)
    /\ granted' = [granted EXCEPT ![o] = @ \cup {status[o] + 1}]
    /\ UNCHANGED <<stage, status, sent>>

\* It may have been granted to two requests, and one is still to come.
TakesEffect(o, to) ==
    /\ to \in granted[o] /\ to <= stage[o] + 1
    /\ status' = [status EXCEPT ![o] = to]
    /\ stage' = IF to > stage[o] THEN [stage EXCEPT ![o] = to] ELSE stage
    /\ granted' \in {granted, [granted EXCEPT ![o] = @ \ {to}]}
    /\ UNCHANGED sent

\* By the contract: orders are placed again, or cancelled.
SetBack ==
    /\ UNCHANGED <<sent, granted, stage>> /\ status' \in [Orders -> 0 .. 5]
    /\ \A o \in Orders : status'[o] \in {status[o], 0, 1}

\* Never before the member has confirmed.  It may be sent again: the wallet of the
\* administrator and the database do not commit together.
Send(o) ==
    /\ stage[o] >= 4 /\ sent[o] < MaxSends
    /\ sent' = [sent EXCEPT ![o] = @ + 1]
    /\ UNCHANGED <<stage, status, granted>>

Next ==
    \/ SetBack \/ Place
    \/ \E o \in Orders : Grant(o) \/ Send(o) \/ \E to \in 2 .. 5 : TakesEffect(o, to)

Spec == Init /\ [][Next]_<<stage, status, granted, sent>>
=============================================================================
