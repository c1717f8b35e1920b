------------------------- MODULE AdminSeatRotation -------------------------
(***************************************************************************)
(* rotate-admin-seat: swap one member of the multisig for another in one   *)
(* config transaction.  create proposes and votes, approve votes, execute  *)
(* carries it out, and executing makes every other open proposal stale.    *)
(*                                                                         *)
(* A transaction is sent without waiting for its confirmation: it is in    *)
(* flight until it lands or expires, while the run polls the chain for its *)
(* effect, gives up, or dies and is run again.                             *)
(***************************************************************************)
EXTENDS SquadSeats

CONSTANTS
    Runs,     \* processes of the tool that may be alive at once
    Agents,   \* AGENT_SEATS of the cluster
    Seated,   \* the members at the start
    Mainnet,  \* is the cluster mainnet-beta?
    Out, In,  \* --old and --new
    ByHand,   \* what other members may create
    MaxFlight \* bound: transactions of the tool in flight at once

ASSUME RotationAssumption ==
    /\ System \in Agents /\ Agents \cup Seated \subseteq Keys
    /\ Agents \cap Operators = {}
    /\ Out \in Keys /\ In \in Keys /\ Out # In
    /\ \A mask \in SUBSET Permissions : [out |-> Out, in |-> In, mask |-> mask] \in Swaps
    /\ ByHand \subseteq Acts \cup Swaps
    /\ Mainnet \in BOOLEAN /\ MaxFlight \in Nat \ {0}

VARIABLES
    run,      \* the processes
    flight,   \* transactions sent that may still land
    unseen,   \* indices a create run passed over because they had no proposal
    made,     \* indices of the swaps the tool created
    signed,   \* indices an agent seat approved or executed through the tool
    executed  \* indices the tool executed

vars == <<squad, run, flight, unseen, made, signed, executed>>
history == <<unseen, made, signed, executed>>

Swap(mask) == [out |-> Out, in |-> In, mask |-> mask]
Idle == [pc |-> "idle", at |-> 0, look |-> 1, open |-> FALSE, stale |-> 0, mask |-> {}, owed |-> {}]
Settling == {"settleMake", "settlePropose", "settleVote", "settleExecute"}
Pcs == {"idle", "look", "propose", "readVote", "readExecute", "vote", "execute"} \cup Settling
Messages == [what : {"make", "propose", "vote", "execute"}, by : Agents, at : Indices,
             mask : SUBSET Permissions]

TypeOK ==
    /\ SquadsTypeOK
    /\ run \in [Runs -> [pc : Pcs, at : 0..MaxIndex, look : 1..MaxIndex + 1,
                         open : BOOLEAN, stale : 0..MaxIndex, mask : SUBSET Permissions,
                         owed : SUBSET Agents]]
    /\ flight \subseteq Messages
    /\ unseen \cup made \cup signed \cup executed \subseteq Indices

Init ==
    /\ SquadsInit(Seated)
    /\ run = [r \in Runs |-> Idle]
    /\ flight = {} /\ unseen = {} /\ made = {} /\ signed = {} /\ executed = {}

-----------------------------------------------------------------------------
Goto(r, pc) == run' = [run EXCEPT ![r].pc = pc, ![r].look = 1, ![r].stale = 0]
Stop(r) == run' = [run EXCEPT ![r] = Idle]

(* sendTransaction simulates first: what would fail now is not sent.         *)
Send(r, what, by, pc) ==
    /\ Cardinality(flight) < MaxFlight
    /\ flight' = flight \cup {[what |-> what, by |-> by, at |-> run[r].at,
                               mask |-> IF what = "make" THEN run[r].mask ELSE {}]}
    /\ Goto(r, pc)
    /\ UNCHANGED <<squad, history>>

(* planRotation: the swap against live membership.  The threshold cannot      *)
(* exceed the members, whose number stays what it was.                       *)
PlanFits == Out \in Members /\ In \notin Members
CanRun == System \in Members /\ RosterStands(Agents) /\ PlanFits

\* Faulty variant: the scan starts at the stale line.
AtTheStaleLine == stale

FirstLive == stale + 1

(* The multisig is read once, at the start; the mask the new member gets and  *)
(* the stale line are those of that moment.                                  *)
Begin(r, i, owed, pc) ==
    /\ run[r].pc = "idle" /\ CanRun
    /\ run' = [run EXCEPT ![r] =
          [Idle EXCEPT !.pc = pc, !.at = i, !.look = IF pc = "look" THEN FirstLive ELSE 1,
                       !.stale = stale, !.mask = perm[Out], !.owed = owed]]
    /\ UNCHANGED <<squad, flight, history>>

(* The outgoing seat may only approve, under a flag of its own.              *)
StartCreate(r, coVoters) ==
    /\ txIndex < MaxIndex
    /\ System # Out /\ {"Initiate", "Vote"} \subseteq perm[System]
    /\ coVoters \subseteq Voters(Agents) \ {System} /\ Cardinality(coVoters) <= 1
    /\ Begin(r, txIndex + 1, {System} \cup coVoters, "look")
StartApprove(r, voter, i) ==
    /\ i \in 1..txIndex /\ voter \in Voters(Agents)
    /\ Begin(r, i, {voter}, "readVote")
StartExecute(r, i) ==
    /\ i \in 1..txIndex /\ System # Out /\ May(System, "Execute")
    /\ Begin(r, i, {}, "readExecute")

-----------------------------------------------------------------------------
\* Faulty variant: what already reached the threshold is not at risk.
OpenUntilApproved(status) == status = "Active"

Open(status) == status \in {"Active", "Approved"}

(* openProposals: from the stale line to the latest index, one read each.     *)
Look(r) ==
    LET i == run[r].look
    IN  /\ run[r].pc = "look" /\ i < run[r].at
        /\ run' = [run EXCEPT ![r].look = i + 1, ![r].open = @ \/ Open(queue[i].status)]
        /\ unseen' = IF queue[i].status = "none" THEN unseen \cup {i} ELSE unseen
        /\ UNCHANGED <<squad, flight, made, signed, executed>>

SendSwap(r) ==
    /\ run[r].pc = "look" /\ run[r].look = run[r].at
    /\ ~run[r].open /\ CanCreate(System, run[r].at)
    /\ Send(r, "make", System, "settleMake")

SendPropose(r) ==
    /\ run[r].pc = "propose" /\ CanPropose(System, run[r].at)
    /\ Send(r, "propose", System, "settlePropose")

\* Faulty variant: only the kinds and the keys of the actions are compared.
IsTheSwapOfKeys(does, mask) ==
    does \in Swaps /\ does.out = Out /\ does.in = In

(* checkReadBack: exactly the plan, the mask included.                       *)
IsThePlan(does, mask) == does = Swap(mask)

\* Faulty variant: the threshold is enough.
GateByThreshold(q) == q.status = "Approved"

(* executeProblems.                                                          *)
Gate(q) ==
    /\ q.status = "Approved" /\ Cardinality(q.approved) >= Threshold
    /\ Mainnet => q.approved \cap Operators # {}

\* Faulty variant: approve has nothing to do once anybody has.
OwesTheFirstVote(r, q) == run[r].pc = "readVote" /\ q.status = "Active" /\ q.approved = {}

OwesAVote(r, q) ==
    run[r].pc = "readVote" /\ q.status = "Active" /\ run[r].owed \cap q.approved = {}

Passes(r) ==
    LET q == queue[run[r].at]
    IN  /\ IsThePlan(q.does, run[r].mask) /\ run[r].at > run[r].stale
        /\ OwesAVote(r, q) \/ (run[r].pc = "readExecute" /\ Gate(q))

Reading == {"readVote", "readExecute"}
Read(r) ==
    /\ run[r].pc \in Reading /\ Passes(r)
    /\ Goto(r, IF run[r].pc = "readExecute" THEN "execute" ELSE "vote")
    /\ UNCHANGED <<squad, flight, history>>

Turn(r) == IF System \in run[r].owed THEN System ELSE CHOOSE k \in run[r].owed : TRUE
SendVote(r) ==
    /\ run[r].pc = "vote" /\ run[r].owed # {} /\ CanApprove(Turn(r), run[r].at)
    /\ Send(r, "vote", Turn(r), "settleVote")

SendExecute(r) ==
    /\ run[r].pc = "execute" /\ CanExecuteConfig(System, run[r].at)
    /\ Send(r, "execute", System, "settleExecute")

(* settle: the chain shows the step.  The swap just created is read back      *)
(* before it is proposed.                                                    *)
Settle(r) ==
    LET q == queue[run[r].at]
    IN  /\ \/ run[r].pc = "settleMake" /\ IsThePlan(q.does, run[r].mask) /\ Goto(r, "propose")
           \/ run[r].pc = "settlePropose" /\ q.status = "Active" /\ Goto(r, "vote")
           \/ /\ run[r].pc = "settleVote" /\ Turn(r) \in q.approved
              /\ run' = [run EXCEPT ![r].pc = "vote", ![r].owed = @ \ {Turn(r)}]
           \/ run[r].pc = "settleExecute" /\ In \in Members /\ Out \notin Members /\ Stop(r)
        /\ UNCHANGED <<squad, flight, history>>

(* The run ends by itself: its votes are cast, or it refuses.                *)
Refuses(r) ==
    \/ /\ run[r].pc = "look" /\ run[r].look = run[r].at
       /\ run[r].open \/ ~CanCreate(System, run[r].at)
    \/ /\ run[r].pc = "settleMake" /\ queue[run[r].at].does \in Swaps
       /\ ~IsThePlan(queue[run[r].at].does, run[r].mask)
    \/ run[r].pc = "propose" /\ ~CanPropose(System, run[r].at)
    \/ run[r].pc \in Reading /\ ~Passes(r)
    \/ run[r].pc = "vote" /\ run[r].owed # {} /\ ~CanApprove(Turn(r), run[r].at)
    \/ run[r].pc = "execute" /\ ~CanExecuteConfig(System, run[r].at)

End(r) ==
    /\ Refuses(r) \/ (run[r].pc = "vote" /\ run[r].owed = {})
    /\ Stop(r)
    /\ UNCHANGED <<squad, flight, history>>

(* A key cannot be read, a request fails, or the process is killed; settle    *)
(* gives up after a number of polls.                                         *)
Dies(r) ==
    /\ run[r].pc # "idle"
    /\ Stop(r)
    /\ UNCHANGED <<squad, flight, history>>
GivesUp(r) == run[r].pc \in Settling /\ Dies(r)

Step(r) ==
    \/ Look(r) \/ SendSwap(r) \/ SendPropose(r) \/ Read(r) \/ SendVote(r)
    \/ SendExecute(r) \/ Settle(r) \/ End(r)

-----------------------------------------------------------------------------
(* A transaction in flight lands, with the effect it has by then, or is lost. *)
Effect(m) ==
    \/ /\ m.what = "make" /\ Create(m.by, m.at, Swap(m.mask), "none")
       /\ made' = made \cup {m.at} /\ UNCHANGED <<signed, executed>>
    \/ /\ m.what = "propose" /\ Propose(m.by, m.at)
       /\ UNCHANGED <<made, signed, executed>>
    \/ /\ m.what = "vote" /\ Approve(m.by, m.at)
       /\ signed' = signed \cup {m.at} /\ UNCHANGED <<made, executed>>
    \/ /\ m.what = "execute" /\ ExecuteConfig(m.by, m.at)
       /\ signed' = signed \cup {m.at} /\ executed' = executed \cup {m.at}
       /\ UNCHANGED made

Lands(m) == Effect(m) /\ flight' = flight \ {m} /\ UNCHANGED <<run, unseen>>
CanLand(m) ==
    \/ m.what = "make" /\ CanCreate(m.by, m.at)
    \/ m.what = "propose" /\ CanPropose(m.by, m.at)
    \/ m.what = "vote" /\ CanApprove(m.by, m.at)
    \/ m.what = "execute" /\ CanExecuteConfig(m.by, m.at)

Lost(m) == flight' = flight \ {m} /\ UNCHANGED <<squad, run, history>>
Fails(m) == ~CanLand(m) /\ Lost(m)

(* Everybody else: other tools and the Squads page create with or without a   *)
(* proposal, propose later, vote, decline and execute.  Agent seats vote by   *)
(* hand only for what the tool does not vote for.  A vault transaction that   *)
(* executes is closed like one that is declined.                             *)
Elsewhere ==
    /\ \/ \E m \in Members \ {System} :
             \/ \E d \in ByHand, status \in {"none", "Active"} : Create(m, txIndex + 1, d, status)
             \/ \E i \in Indices :
                   \/ Propose(m, i) \/ ExecuteConfig(m, i)
                   \/ (m \in Agents => queue[i].does \in ByHand) /\ Approve(m, i)
       \/ \E i \in Indices : Decline(i)
    /\ UNCHANGED <<run, flight, history>>

Next ==
    \/ \E r \in Runs :
          \/ Step(r) \/ Dies(r)
          \/ \E co \in SUBSET Agents : StartCreate(r, co)
          \/ \E i \in Indices : StartExecute(r, i) \/ \E voter \in Agents : StartApprove(r, voter, i)
    \/ \E m \in flight : Lands(m) \/ Lost(m)
    \/ Elsewhere

Spec == Init /\ [][Next]_vars

(* For liveness: a process that is not killed goes on and settle gives up in  *)
(* the end; processes are killed and transactions lost only finitely often,   *)
(* and one in flight lands; whoever votes with the creator's seat runs the    *)
(* tool in the end.  Nothing says that settle ever sees what it waits for.    *)
Ends(r) == run[r].pc \notin Settling \cup {"idle"} /\ run'[r].pc = "idle"
FairSpec ==
    /\ Spec
    /\ \A r \in Runs :
          WF_vars(Step(r) \/ GivesUp(r)) /\ \A i \in Indices : SF_vars(StartApprove(r, System, i))
    /\ WF_vars(\E m \in flight : Lands(m) \/ Fails(m))
    /\ <>[][/\ \A r \in Runs : Ends(r) => Step(r)
            /\ \A m \in flight : Lost(m) => Fails(m)]_vars

-----------------------------------------------------------------------------
(* "the new member gets EXACTLY the old member's live mask", although the     *)
(* mask was read before the swap was created and other swaps run meanwhile:   *)
(* what an agent signed and can still execute grants what is held now.        *)
LiveVotesAreExact ==
    \A i \in signed : i > stale /\ Out \in Members => queue[i].does = Swap(perm[Out])

(* What the tool executes is what was approved: it moves exactly that seat,   *)
(* and on mainnet "agent votes alone never change the Squad", although the    *)
(* gate reads the proposal before the execution lands.                        *)
ExecutesTheSwap ==
    [][\A i \in executed' \ executed :
          /\ perm' = [perm EXCEPT ![Out] = {}, ![In] = perm[Out]]
          /\ Mainnet => queue[i].approved \cap Operators # {}]_vars

(* "--send refuses while any is open": below a swap the tool created there is *)
(* no open proposal its execution would make stale, but one whose transaction *)
(* had no proposal yet when the tool looked.                                 *)
NothingOpenBelow ==
    \A i \in made : \A j \in stale + 1..i - 1 :
        queue[j].status \in {"Active", "Approved"} => j \in unseen

(* A swap the tool proposed is approved by the creator's seat, whatever was   *)
(* lost or cut, unless it is decided or made stale first.                    *)
ProposedIsVoted ==
    \A i \in Indices :
        i \in made /\ queue[i].status = "Active"
            ~> \/ System \in queue[i].approved \/ queue[i].status # "Active"
               \/ i <= stale \/ ~CanRun
=============================================================================
