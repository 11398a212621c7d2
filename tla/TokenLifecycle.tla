--------------------------- MODULE TokenLifecycle ---------------------------
(***************************************************************************)
(* What the token API promises of a token, whatever processes and          *)
(* statements stand behind it (HOWTO.md, sections 3 to 7): a token leaves  *)
(* OPEN once, it is claimed by one device for good, only a LOCKED token is *)
(* confirmed, together with the remainder it leaves, and only a COMPLETED  *)
(* token is settled, once.  Token.tla is shown to implement this.          *)
(***************************************************************************)
EXTENDS Integers

CONSTANTS TokenId, Device, NoDevice

VARIABLES
    stage,    \* the state of each token, "NONE" before it exists
    holder,   \* the device that claimed it
    worth,    \* its amount
    settled   \* has it been handed to clearing?

Final == {"COMPLETED", "CANCELED", "FAILED", "REJECTED", "RETRACTED"}

Init == /\ stage = [t \in TokenId |-> "NONE"]
        /\ holder = [t \in TokenId |-> NoDevice]
        /\ worth = [t \in TokenId |-> 0]
        /\ settled = [t \in TokenId |-> FALSE]

Issue(t) == /\ stage[t] = "NONE"
            /\ stage' = [stage EXCEPT ![t] = "OPEN"]
            /\ worth' \in [TokenId -> Int]
            /\ \A u \in TokenId \ {t} : worth'[u] = worth[u]
            /\ UNCHANGED <<holder, settled>>

\* The owner withdraws a token, or its time is over for it and for others.
Withdraw(S, s) == /\ \A t \in S : stage[t] = "OPEN"
                  /\ stage' = [t \in TokenId |-> IF t \in S THEN s ELSE stage[t]]
                  /\ UNCHANGED <<holder, worth, settled>>

Claim(t, d, s) == /\ stage[t] = "OPEN"
                  /\ stage' = [stage EXCEPT ![t] = s]
                  /\ holder' = [holder EXCEPT ![t] = d]
                  /\ UNCHANGED <<worth, settled>>

Confirm(t, s) == /\ stage[t] = "LOCKED"
                 /\ stage' = [stage EXCEPT ![t] = s]
                 /\ worth' \in [TokenId -> Int]
                 /\ \A u \in TokenId \ {t} : worth'[u] = worth[u]
                 /\ UNCHANGED <<holder, settled>>

\* A partial confirmation leaves the rest in a new token, in the same step.
ConfirmPart(t, s, rest) ==
    /\ stage[t] = "LOCKED"
    /\ stage[rest] = "NONE"
    /\ stage' = [stage EXCEPT ![t] = s, ![rest] = "OPEN"]
    /\ worth' \in [TokenId -> Int]
    /\ worth'[rest] > 0
    /\ worth'[t] + worth'[rest] = worth[t]
    /\ \A u \in TokenId \ {t, rest} : worth'[u] = worth[u]
    /\ UNCHANGED <<holder, settled>>

Settle(t) == /\ stage[t] = "COMPLETED"
             /\ ~settled[t]
             /\ settled' = [settled EXCEPT ![t] = TRUE]
             /\ UNCHANGED <<stage, holder, worth>>

Next == \/ \E S \in SUBSET TokenId, s \in {"EXPIRED", "DELETED"} : Withdraw(S, s)
        \/ \E t \in TokenId :
             \/ Issue(t)
             \/ \E d \in Device, s \in {"LOCKED", "REJECTED"} : Claim(t, d, s)
             \/ \E s \in Final :
                  \/ Confirm(t, s)
                  \/ \E rest \in TokenId : ConfirmPart(t, s, rest)
             \/ Settle(t)

Spec == Init /\ [][Next]_<<stage, holder, worth, settled>>
=============================================================================
