---------------------------- MODULE PaymentLedger ----------------------------
(***************************************************************************)
(* What the inbound payment flow promises, with no mention of requests,    *)
(* leases or recovery: a run is paid once and for all by one successful    *)
(* transfer, and a transfer pays for one run.                              *)
(***************************************************************************)
CONSTANTS Run, Auth, None

VARIABLES
    paid,     \* paid[r]: the authorization whose transfer paid for run r, or None
    transfer  \* transfer[a]: what the chain made of authorization a

Init ==
    /\ paid = [r \in Run |-> None]
    /\ transfer = [a \in Auth |-> "unused"]

Send(a) ==
    /\ transfer[a] = "unused"
    /\ transfer' = [transfer EXCEPT ![a] = "pending"]
    /\ UNCHANGED paid

Mine(a) ==
    /\ transfer[a] = "pending"
    /\ \E outcome \in {"success", "stray", "reverted"} : transfer' = [transfer EXCEPT ![a] = outcome]
    /\ UNCHANGED paid

Pay(r, a) ==
    /\ paid[r] = None
    /\ transfer[a] = "success"
    /\ \A q \in Run : paid[q] # a
    /\ paid' = [paid EXCEPT ![r] = a]
    /\ UNCHANGED transfer

Next ==
    \/ \E a \in Auth : Send(a) \/ Mine(a)
    \/ \E r \in Run, a \in Auth : Pay(r, a)

Spec == Init /\ [][Next]_<<paid, transfer>>
=============================================================================
