------------------------------- MODULE Squads -------------------------------
(***************************************************************************)
(* The Squads V4 multisig as the ceremony scripts use it.  The program     *)
(* itself is outside this repository: what it accepts is read off the      *)
(* scripts that call it and the refusals they expect from it.              *)
(*                                                                         *)
(* Transactions are numbered and immutable, a number is never reused, and  *)
(* each carries at most one proposal the members vote on.                  *)
(***************************************************************************)
EXTENDS Integers, FiniteSets

CONSTANTS
    Keys,       \* every key that may be seated
    Threshold,  \* approvals that make a proposal Approved
    Acts,       \* what a vault transaction may carry
    Swaps,      \* what a config transaction may carry: [out, in, mask]
    Nothing,    \* the content of an index not created yet
    StaleVaultExecutes,  \* may an Approved vault transaction execute once stale?
    MaxIndex    \* bound: transactions ever created

Permissions == {"Initiate", "Vote", "Execute"}

ASSUME SquadsAssumption ==
    /\ Threshold \in Nat \ {0} /\ MaxIndex \in Nat
    /\ Swaps \subseteq [out : Keys, in : Keys, mask : SUBSET Permissions]
    /\ Acts \cap Swaps = {} /\ Nothing \notin Acts \cup Swaps
    /\ StaleVaultExecutes \in BOOLEAN

VARIABLES
    perm,     \* Multisig.members: the permissions of each key, none if not seated
    txIndex,  \* Multisig.transactionIndex
    stale,    \* Multisig.staleTransactionIndex
    queue     \* the transaction and the proposal at each index

squad == <<perm, txIndex, stale, queue>>

Members == {k \in Keys : perm[k] # {}}
May(k, p) == p \in perm[k]

Indices == 1..MaxIndex
Statuses == {"none", "Active", "Approved", "Declined", "Executed"}
Entries == [does : Acts \cup Swaps \cup {Nothing}, status : Statuses, approved : SUBSET Keys]
Empty == [does |-> Nothing, status |-> "none", approved |-> {}]

SquadsTypeOK ==
    /\ perm \in [Keys -> SUBSET Permissions]
    /\ txIndex \in 0..MaxIndex
    /\ stale \in 0..MaxIndex
    /\ queue \in [Indices -> Entries]

SquadsInit(seated) ==
    /\ perm = [k \in Keys |-> IF k \in seated THEN Permissions ELSE {}]
    /\ txIndex = 0 /\ stale = 0
    /\ queue = [i \in Indices |-> Empty]

(* A transaction's address is derived from its number: a create built for    *)
(* any but the next one is refused.                                         *)
CanCreate(m, i) == i = txIndex + 1 /\ i <= MaxIndex /\ May(m, "Initiate")
Create(m, i, does, status) ==
    /\ CanCreate(m, i)
    /\ queue' = [queue EXCEPT ![i] = [does |-> does, status |-> status, approved |-> {}]]
    /\ txIndex' = i
    /\ UNCHANGED <<perm, stale>>

CanPropose(m, i) ==
    /\ i \in stale + 1..txIndex /\ queue[i].status = "none"
    /\ May(m, "Initiate")
Propose(m, i) ==
    /\ CanPropose(m, i)
    /\ queue' = [queue EXCEPT ![i].status = "Active"]
    /\ UNCHANGED <<perm, txIndex, stale>>

CanApprove(m, i) ==
    /\ i \in stale + 1..txIndex /\ queue[i].status = "Active"
    /\ May(m, "Vote") /\ m \notin queue[i].approved
Approve(m, i) ==
    /\ CanApprove(m, i)
    /\ LET votes == queue[i].approved \cup {m}
           reached == Cardinality(votes) >= Threshold
       IN  queue' = [queue EXCEPT ![i].approved = votes,
                                  ![i].status = IF reached THEN "Approved" ELSE "Active"]
    /\ UNCHANGED <<perm, txIndex, stale>>

(* The members vote a proposal down or, once Approved, cancel it: Rejected    *)
(* and Cancelled, which no script tells apart.                               *)
Decline(i) ==
    /\ i \in Indices /\ queue[i].status \in {"Active", "Approved"}
    /\ queue' = [queue EXCEPT ![i].status = "Declined"]
    /\ UNCHANGED <<perm, txIndex, stale>>

CanExecuteVault(m, i) ==
    /\ i \in 1..txIndex /\ queue[i].status = "Approved"
    /\ queue[i].does \in Acts /\ May(m, "Execute")
    /\ i > stale \/ StaleVaultExecutes
ExecuteVault(m, i) ==
    /\ CanExecuteVault(m, i)
    /\ queue' = [queue EXCEPT ![i].status = "Executed"]
    /\ UNCHANGED <<perm, txIndex, stale>>

(* A config transaction removes one member and seats another, and makes      *)
(* every proposal up to the latest index stale.                             *)
CanExecuteConfig(m, i) ==
    /\ i \in stale + 1..txIndex /\ queue[i].status = "Approved"
    /\ queue[i].does \in Swaps /\ May(m, "Execute")
    /\ perm[queue[i].does.out] # {} /\ perm[queue[i].does.in] = {}
ExecuteConfig(m, i) ==
    /\ CanExecuteConfig(m, i)
    /\ perm' = [perm EXCEPT ![queue[i].does.out] = {},
                            ![queue[i].does.in] = queue[i].does.mask]
    /\ queue' = [queue EXCEPT ![i].status = "Executed"]
    /\ stale' = txIndex
    /\ UNCHANGED txIndex
=============================================================================
