------------------------- MODULE SquadVaultTransfer -------------------------
(***************************************************************************)
(* squad-vault-transfer: one transfer out of the Squads vault, moved by    *)
(* people who run a tool.  plan reads the transaction index; send creates, *)
(* proposes and votes with the agents' seats; approve casts the votes still *)
(* owed; execute runs it.  Runs overlap, die anywhere, and are run again;  *)
(* other members create, vote, decline and execute meanwhile.              *)
(*                                                                         *)
(* A transaction that is sent either lands or does not; when the           *)
(* confirmation is lost the run ends and nobody knows which: Dies after    *)
(* the step that landed.                                                   *)
(***************************************************************************)
EXTENDS SquadSeats

CONSTANTS
    Runs,         \* processes of the tool that may be alive at once
    Agents,       \* AGENT_SEATS of the cluster
    Seated,       \* the members at the start
    Mainnet,      \* is the cluster mainnet-beta?
    Move,         \* the planned transfer
    ByHand,       \* what other members may create
    SettleTries   \* bound: polls of settle before it gives up

ASSUME TransferAssumption ==
    /\ System \in Agents /\ Agents \cup Seated \subseteq Keys
    /\ Agents \cap Operators = {}
    /\ Move \in Acts /\ ByHand \subseteq Acts \cup Swaps
    /\ SettleTries \in Nat /\ Mainnet \in BOOLEAN

VARIABLES
    plan,     \* what the operator was told last: the plan's index and the next command
    run,      \* the processes
    sent,     \* indices of the transactions the tool created
    signed,   \* indices an agent seat approved or executed through the tool
    executed  \* indices the tool executed

vars == <<squad, plan, run, sent, signed, executed>>

Modes == {"send", "approve", "execute"}
Commands == {"plan", "done"} \cup Modes
Idle == [pc |-> "idle", mode |-> "send", expect |-> 0, at |-> 0, upto |-> 0,
         moved |-> FALSE, live |-> 0, seats |-> {}, owed |-> {}, tries |-> 0]
Settling == {"settleCreate", "settleVote", "settleExecute"}
Pcs == {"idle", "scan", "create", "read", "vote", "execute"} \cup Settling

Plans == [expect : -1..MaxIndex, next : Commands, at : 0..MaxIndex]
Processes == [pc : Pcs, mode : Modes, expect : -1..MaxIndex, at : 0..MaxIndex + 1,
              upto : 0..MaxIndex, moved : BOOLEAN, live : 0..MaxIndex,
              seats : SUBSET Agents, owed : SUBSET Agents, tries : 0..SettleTries]

TypeOK ==
    /\ SquadsTypeOK
    /\ plan \in Plans
    /\ run \in [Runs -> Processes]
    /\ sent \subseteq Indices
    /\ signed \subseteq Indices
    /\ executed \subseteq Indices

Init ==
    /\ SquadsInit(Seated)
    /\ plan = [expect |-> -1, next |-> "plan", at |-> 0]
    /\ run = [r \in Runs |-> Idle]
    /\ sent = {} /\ signed = {} /\ executed = {}

-----------------------------------------------------------------------------
(* Every mode reads the members first and refuses without the system seat.   *)
CanRun == System \in Members /\ RosterStands(Agents)

Goto(r, pc) == run' = [run EXCEPT ![r] = [@ EXCEPT !.pc = pc, !.tries = 0]]
Stop(r) == run' = [run EXCEPT ![r] = Idle]
Tell(next, at) == plan' = [plan EXCEPT !.next = next, !.at = at]

Plan ==
    /\ plan.next = "plan" /\ CanRun
    /\ plan' = [expect |-> txIndex, next |-> "send", at |-> 0]
    /\ UNCHANGED <<squad, run, sent, signed, executed>>

(* The process under the plan it was given, and the latest index it read.     *)
Begun(pc, mode, at) ==
    [pc |-> pc, mode |-> mode, expect |-> plan.expect, at |-> at, upto |-> txIndex,
     moved |-> FALSE, live |-> 0, seats |-> Voters(Agents), owed |-> {}, tries |-> 0]

\* Faulty variant: send takes whatever index is next.
SendUnchecked(r) ==
    /\ run[r].pc = "idle" /\ plan.expect >= 0 /\ CanRun
    /\ txIndex < MaxIndex
    /\ run' = [run EXCEPT ![r] = Begun("create", "send", txIndex + 1)]
    /\ UNCHANGED <<squad, plan, sent, signed, executed>>

(* checkExpectedIndex: the chain still stands where the plan read it, or the *)
(* transactions created since are searched for this very move.               *)
StartSend(r) ==
    /\ run[r].pc = "idle" /\ plan.expect >= 0 /\ CanRun
    /\ run' = [run EXCEPT ![r] =
          Begun(IF txIndex = plan.expect THEN "create" ELSE "scan", "send", plan.expect + 1)]
    /\ UNCHANGED <<squad, plan, sent, signed, executed>>

StartOn(r, mode, i) ==
    /\ run[r].pc = "idle" /\ CanRun
    /\ i \in 1..txIndex
    /\ run' = [run EXCEPT ![r] = Begun("read", mode, i)]
    /\ UNCHANGED <<squad, plan, sent, signed, executed>>

-----------------------------------------------------------------------------
Found(i, statuses) == queue[i].does = Move /\ queue[i].status \in statuses

\* Faulty variant: an Approved copy of the move is not looked for.
ScanActiveOnly(r) ==
    /\ run[r].pc = "scan" /\ run[r].at <= run[r].upto
    /\ run' = [run EXCEPT ![r] =
          [run[r] EXCEPT
              !.at = run[r].at + 1,
              !.moved = run[r].moved \/ Found(run[r].at, {"Executed"}),
              !.live = IF run[r].live = 0 /\ Found(run[r].at, {"Active"})
                       THEN run[r].at ELSE run[r].live]]
    /\ UNCHANGED <<squad, plan, sent, signed, executed>>

(* adviseOnMovedIndex and findMatchingIndex: the transactions created since  *)
(* the plan are read one by one.  An executed copy of the move wins, then    *)
(* the first live one.                                                       *)
Scan(r) ==
    /\ run[r].pc = "scan" /\ run[r].at <= run[r].upto
    /\ run' = [run EXCEPT ![r] =
          [run[r] EXCEPT
              !.at = run[r].at + 1,
              !.moved = run[r].moved \/ Found(run[r].at, {"Executed"}),
              !.live = IF run[r].live = 0 /\ Found(run[r].at, {"Active", "Approved"})
                       THEN run[r].at ELSE run[r].live]]
    /\ UNCHANGED <<squad, plan, sent, signed, executed>>

(* indexMovedAdvice.  Advice about a plan already replaced is not followed.  *)
Advice(r) ==
    CASE run[r].moved -> "done"
      [] ~run[r].moved /\ run[r].live # 0 -> "approve"
      [] OTHER -> "plan"

Advise(r) ==
    /\ run[r].pc = "scan" /\ run[r].at > run[r].upto
    /\ IF run[r].expect = plan.expect THEN Tell(Advice(r), run[r].live) ELSE UNCHANGED plan
    /\ Stop(r)
    /\ UNCHANGED <<squad, sent, signed, executed>>

(* create and propose in one transaction.                                    *)
CreateLands(r) ==
    /\ run[r].pc = "create"
    /\ Create(System, run[r].at, Move, "Active")
    /\ sent' = sent \cup {run[r].at}
    /\ Goto(r, "settleCreate")
    /\ UNCHANGED <<plan, signed, executed>>

\* Faulty variant: the threshold is enough.
GateByThreshold(q) == q.status = "Approved"

\* Faulty variant: execution waits for every agent as well.
GateWithAgents(q) ==
    q.status = "Approved" /\ (Mainnet => q.approved \cap Operators # {})
    /\ Agents \cap Members \subseteq q.approved

(* readBack and what it decides: executeGate, or that the proposal is Active. *)
(* Whoever runs the tool takes its refusal as the answer to what comes next.  *)
Gate(q) == q.status = "Approved" /\ (Mainnet => q.approved \cap Operators # {})

\* Faulty variant: the transaction at the index is not read back.
PassesUnread(q, mode) == IF mode = "execute" THEN Gate(q) ELSE q.status = "Active"

Passes(q, mode) == q.does = Move /\ IF mode = "execute" THEN Gate(q) ELSE q.status = "Active"

\* Faulty variant: one agent vote already cast counts for all.
ReadOneVote(r) ==
    LET q == queue[run[r].at]
        owed == IF Agents \cap q.approved = {} THEN run[r].seats ELSE {}
    IN  /\ run[r].pc = "read" /\ Passes(q, run[r].mode)
        /\ IF run[r].mode = "execute"
           THEN Goto(r, "execute")
           ELSE run' = [run EXCEPT ![r] = [@ EXCEPT !.pc = "vote", !.owed = owed]]
        /\ UNCHANGED <<squad, plan, sent, signed, executed>>

Read(r) ==
    LET q == queue[run[r].at]
    IN  /\ run[r].pc = "read" /\ Passes(q, run[r].mode)
        /\ IF run[r].mode = "execute"
           THEN Goto(r, "execute")
           ELSE run' = [run EXCEPT ![r] =
                    [@ EXCEPT !.pc = "vote", !.owed = run[r].seats \ q.approved]]
        /\ UNCHANGED <<squad, plan, sent, signed, executed>>

Answer(status) ==
    CASE status = "Active"   -> UNCHANGED plan
      [] status = "Approved" -> Tell("execute", plan.at)
      [] status = "Executed" -> Tell("done", 0)
      [] OTHER               -> Tell("send", 0)

Refuse(r) ==
    LET q == queue[run[r].at]
    IN  /\ run[r].pc = "read" /\ ~Passes(q, run[r].mode)
        /\ IF q.does = Move /\ run[r].at = plan.at THEN Answer(q.status) ELSE UNCHANGED plan
        /\ Stop(r)
        /\ UNCHANGED <<squad, sent, signed, executed>>

(* approvalsOwed, in the roster's order.                                     *)
Turn(r) == IF System \in run[r].owed THEN System ELSE CHOOSE k \in run[r].owed : TRUE
VoteLands(r) ==
    /\ run[r].pc = "vote" /\ run[r].owed # {}
    /\ Approve(Turn(r), run[r].at)
    /\ signed' = signed \cup {run[r].at}
    /\ Goto(r, "settleVote")
    /\ UNCHANGED <<plan, sent, executed>>

HandBack(r) ==
    /\ run[r].pc = "vote" /\ run[r].owed = {}
    /\ Stop(r)
    /\ IF run[r].expect = plan.expect THEN Tell("execute", run[r].at) ELSE UNCHANGED plan
    /\ UNCHANGED <<squad, sent, signed, executed>>

ExecuteLands(r) ==
    /\ run[r].pc = "execute"
    /\ ExecuteVault(System, run[r].at)
    /\ signed' = signed \cup {run[r].at}
    /\ executed' = executed \cup {run[r].at}
    /\ Goto(r, "settleExecute")
    /\ UNCHANGED <<plan, sent>>

(* settle polls until the chain shows the step, a bounded number of times.   *)
Probe(r) ==
    LET q == queue[run[r].at]
    IN  CASE run[r].pc = "settleCreate"  -> q.status = "Active"
          [] run[r].pc = "settleVote"    -> Turn(r) \in q.approved
          [] run[r].pc = "settleExecute" -> q.status = "Executed"

Settle(r) ==
    /\ run[r].pc \in Settling /\ Probe(r)
    /\ \/ run[r].pc = "settleCreate" /\ Goto(r, "read") /\ UNCHANGED plan
       \/ /\ run[r].pc = "settleVote"
          /\ run' = [run EXCEPT ![r] =
                [@ EXCEPT !.pc = "vote", !.tries = 0, !.owed = run[r].owed \ {Turn(r)}]]
          /\ UNCHANGED plan
       \/ /\ run[r].pc = "settleExecute" /\ Stop(r)
          /\ IF run[r].at = plan.at THEN Tell("done", 0) ELSE UNCHANGED plan
    /\ UNCHANGED <<squad, sent, signed, executed>>

NotYet(r) ==
    /\ run[r].pc \in Settling
    /\ IF run[r].tries < SettleTries
       THEN run' = [run EXCEPT ![r] = [@ EXCEPT !.tries = run[r].tries + 1]]
       ELSE Stop(r)
    /\ UNCHANGED <<squad, plan, sent, signed, executed>>

(* The chain refuses the transaction: another one took the index, the        *)
(* proposal moved on, or the seat is no member any more.                     *)
TurnedAway(r) ==
    /\ \/ run[r].pc = "create" /\ ~CanCreate(System, run[r].at)
       \/ run[r].pc = "vote" /\ run[r].owed # {} /\ ~CanApprove(Turn(r), run[r].at)
       \/ run[r].pc = "execute" /\ ~CanExecuteVault(System, run[r].at)
    /\ Stop(r)
    /\ UNCHANGED <<squad, plan, sent, signed, executed>>

(* A refusal left out of the model (funds, a key that cannot be read), an    *)
(* expired confirmation, or the end of the process.                          *)
Dies(r) ==
    /\ run[r].pc # "idle"
    /\ Stop(r)
    /\ UNCHANGED <<squad, plan, sent, signed, executed>>

Proceeds(r) ==
    \/ Scan(r) \/ Advise(r) \/ CreateLands(r) \/ Read(r) \/ Refuse(r)
    \/ VoteLands(r) \/ HandBack(r) \/ ExecuteLands(r) \/ Settle(r) \/ TurnedAway(r)
Step(r) == Proceeds(r) \/ NotYet(r)

FollowAdvice(r, mode) ==
    /\ plan.next = mode
    /\ IF mode = "send" THEN StartSend(r) ELSE StartOn(r, mode, plan.at)

-----------------------------------------------------------------------------
(* Everybody else.  An index that holds another vault transaction is only    *)
(* taken; its own votes change nothing here.  Agents vote for a swap through  *)
(* the rotation tool.                                                        *)
Elsewhere ==
    /\ \/ \E m \in Members \ Agents, d \in ByHand : Create(m, txIndex + 1, d, "Active")
       \/ \E m \in Members, i \in Indices :
             /\ \/ queue[i].does \in Swaps /\ m \in Agents \cup Operators
                \/ queue[i].does = Move /\ m \notin Agents
             /\ Approve(m, i) \/ ExecuteConfig(m, i) \/ ExecuteVault(m, i)
       \/ \E i \in Indices : queue[i].does = Move /\ Decline(i)
    /\ UNCHANGED <<plan, run, sent, signed, executed>>

Next ==
    \/ Plan
    \/ \E r \in Runs :
          \/ Step(r) \/ Dies(r) \/ StartSend(r)
          \/ \E mode \in {"approve", "execute"}, i \in Indices : StartOn(r, mode, i)
    \/ Elsewhere

Spec == Init /\ [][Next]_vars

(* What the code and its advice give for liveness: a process that is not     *)
(* killed goes on (every await of the tool ends); runs are killed, and their  *)
(* confirmations or polls time out, only finitely often; and the command the  *)
(* tool advised is given in the end.                                         *)
Ends(r) == run[r].pc # "idle" /\ run'[r].pc = "idle"
FairSpec ==
    /\ Spec
    /\ \A r \in Runs : WF_vars(Step(r)) /\ \A mode \in Modes : SF_vars(FollowAdvice(r, mode))
    /\ WF_vars(Plan)
    /\ <>[][\A r \in Runs : Ends(r) => Proceeds(r)]_vars

-----------------------------------------------------------------------------
(* squad-vault-transfer's promise, over retries, lost confirmations, dead    *)
(* proposals and new plans: of all the transactions the tool created for one *)
(* move, at most one is alive or executed.                                   *)
Standing(i) == queue[i].status \in {"Active", "Approved", "Executed"}
OneMove == \A i, j \in sent : Standing(i) /\ Standing(j) => i = j

(* "an agent never signs an index it has not read back", whatever index a    *)
(* run is pointed at and whoever took the index it meant to create.          *)
SignsOnlyTheMove == \A i \in signed : queue[i].does = Move

(* executeGate: "agent votes alone never move the vault".  What an agent     *)
(* executed on mainnet carries an operator's approval, although the gate     *)
(* reads the proposal before the execution lands.                            *)
OperatorApproved ==
    Mainnet => \A i \in executed : queue[i].approved \cap Operators # {}

(* What the operator was told last stays true until it is acted on: a new    *)
(* plan only when nothing sent stands, done only when the move was executed, *)
(* a vote or an execution only where the move is.                            *)
AdviceIsTrue ==
    /\ plan.next = "plan" => \A i \in sent : ~Standing(i)
    /\ plan.next = "done" =>
          \E i \in Indices : queue[i].does = Move /\ queue[i].status = "Executed"
    /\ plan.next \in {"approve", "execute"} => queue[plan.at].does = Move

(* The advice recovers a run cut anywhere: a move the tool created gets the  *)
(* vote of every seated agent, unless it is decided or made stale first.     *)
SentIsVoted ==
    \A i \in Indices :
        i \in sent ~> \/ Agents \cap Members \subseteq queue[i].approved
                      \/ queue[i].status # "Active" \/ i <= stale

(* And once the operator has approved, it is executed, or somebody cancels.  *)
ApprovedIsExecuted ==
    \A i \in Indices :
        i \in sent /\ queue[i].status = "Approved" /\ queue[i].approved \cap Operators # {}
            ~> \/ queue[i].status \in {"Executed", "Declined"}
               \/ i <= stale /\ ~StaleVaultExecutes
=============================================================================
