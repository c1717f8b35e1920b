------------------------------- MODULE Escrow -------------------------------
(***************************************************************************)
(* What a contest promises about its prize, without entries, clocks,       *)
(* currencies or signers: the prize is held in full from the moment the    *)
(* contest opens, and leaves once: paid out up to what was promised, or    *)
(* refunded whole.  What anyone added, or the settlement left, goes when   *)
(* the contest is closed.                                                  *)
(***************************************************************************)
EXTENDS Integers

CONSTANTS
    Contests,   \* contest ids
    Prizes      \* the prizes a contest may promise

VARIABLES
    phase,   \* none, Open, Settled or Cancelled
    owed,    \* the prize promised
    held     \* what the contest's own account holds

escrow == <<phase, owed, held>>

Init ==
    /\ phase = [c \in Contests |-> "none"]
    /\ owed = [c \in Contests |-> 0]
    /\ held = [c \in Contests |-> 0]

Open(c) ==
    /\ phase[c] = "none"
    /\ \E prize \in Prizes : /\ owed' = [owed EXCEPT ![c] = prize]
                          /\ held' = [held EXCEPT ![c] = prize]
    /\ phase' = [phase EXCEPT ![c] = "Open"]

PayOut(c) ==
    /\ phase[c] = "Open"
    /\ \E paid \in 0..owed[c] : held' = [held EXCEPT ![c] = held[c] - paid]
    /\ phase' = [phase EXCEPT ![c] = "Settled"]
    /\ owed' = owed

Refund(c) ==
    /\ phase[c] = "Open"
    /\ held' = [held EXCEPT ![c] = 0]
    /\ phase' = [phase EXCEPT ![c] = "Cancelled"]
    /\ owed' = owed

Close(c) ==
    /\ phase[c] \in {"Settled", "Cancelled"}
    /\ phase' = [phase EXCEPT ![c] = "none"]
    /\ owed' = [owed EXCEPT ![c] = 0]
    /\ held' = [held EXCEPT ![c] = 0]

Deposit(c) ==
    /\ phase[c] # "none"
    /\ held' = [held EXCEPT ![c] = @ + 1]
    /\ UNCHANGED <<phase, owed>>

Next == \E c \in Contests :
            Open(c) \/ PayOut(c) \/ Refund(c) \/ Close(c) \/ Deposit(c)

Spec == Init /\ [][Next]_escrow
=============================================================================
