----------------------------- MODULE SquadSeats -----------------------------
(***************************************************************************)
(* The seats a ceremony may sign with, as lib/squad-clusters.js keeps them: *)
(* per cluster a list of agent seats, the governance candidates among them, *)
(* and the operator's own keys.                                            *)
(***************************************************************************)
EXTENDS Squads

CONSTANTS
    System,      \* the seat that creates, pays and executes
    Governances, \* candidates for the governance seat, exactly one is ever seated
    Operators    \* OPERATOR_KEYS

ASSUME SeatsAssumption ==
    /\ System \in Keys /\ Governances \subseteq Keys /\ Operators \subseteq Keys
    /\ System \notin Governances \cup Operators
    /\ Governances \cap Operators = {}

(* seatsForMembers: a cluster with governance candidates must have exactly   *)
(* one of them seated, and a tool signs only with seats that are.            *)
RosterStands(seats) ==
    Governances \cap seats # {} => Cardinality(Governances \cap seats \cap Members) = 1

Voters(seats) == {k \in seats : May(k, "Vote")}
=============================================================================
