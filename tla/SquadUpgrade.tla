---------------------------- MODULE SquadUpgrade ----------------------------
(***************************************************************************)
(* squad-upgrade: one program upgrade through the multisig that holds the  *)
(* upgrade authority.  A run measures the multisig, grows ProgramData if    *)
(* the binary does not fit, takes the next index or resumes a given one,   *)
(* reads back what is there, proposes and votes; where its seats reach the *)
(* threshold it executes too, elsewhere it hands over.                     *)
(*                                                                         *)
(* Meanwhile other members take indices, vote, decline and execute, and    *)
(* the buffer's authority rewrites it.  A confirmed transaction that       *)
(* failed is not told from one that worked: the next read decides.         *)
(***************************************************************************)
EXTENDS SquadSeats

CONSTANTS
    Runs,      \* processes of the tool that may be alive at once
    Clusters,  \* [mainnet, agents, seated]: the cluster, AGENT_SEATS, the members
    Spills,    \* where a buffer's rent may be refunded, the Squad vault among them
    Vault,     \* the Squad vault
    Upgrade(_),  \* the vault transaction that upgrades and refunds to a spill
    ByHand     \* what other members may create

Upgrades == {Upgrade(s) : s \in Spills}

ASSUME UpgradeAssumption ==
    /\ \A c \in Clusters : /\ c.mainnet \in BOOLEAN
                           /\ System \in c.agents
                           /\ c.agents \cup c.seated \subseteq Keys
    /\ Vault \in Spills /\ Upgrades \subseteq Acts
    /\ \A s, t \in Spills : Upgrade(s) = Upgrade(t) => s = t
    /\ ByHand \subseteq Acts \cup Swaps

VARIABLES
    cluster,  \* the one the operator named
    buffer,   \* the buffer account
    program,  \* the bytes the program runs
    fits,     \* is ProgramData large enough for the buffer?
    run,      \* the processes
    made,     \* indices of the transactions the tool created
    signed    \* indices an agent seat approved or executed through the tool

loader == <<buffer, program, fits>>
vars == <<squad, cluster, loader, run, made, signed>>

Bytes == {"reviewed", "other"}
Idle == [pc |-> "idle", at |-> 0, resumes |-> FALSE, spill |-> Vault, owed |-> {},
         alone |-> FALSE]
Pcs == {"idle", "extend", "look", "create", "read", "propose", "vote", "wait", "execute"}
Processes == [pc : Pcs, at : 0..MaxIndex, resumes : BOOLEAN, spill : Spills,
              owed : SUBSET Keys, alone : BOOLEAN]

TypeOK ==
    /\ SquadsTypeOK
    /\ cluster \in Clusters
    /\ buffer \in [bytes : Bytes, authority : {"writer", "vault"}, alive : BOOLEAN]
    /\ program \in {"deployed"} \cup Bytes
    /\ fits \in BOOLEAN
    /\ run \in [Runs -> Processes]
    /\ \A r \in Runs : run[r].pc # "idle" => run[r].at \in Indices
    /\ made \subseteq Indices
    /\ signed \subseteq Indices

Init ==
    /\ cluster \in Clusters /\ SquadsInit(cluster.seated)
    /\ buffer \in [bytes : Bytes, authority : {"writer"}, alive : {TRUE}]
    /\ program = "deployed" /\ fits \in BOOLEAN
    /\ run = [r \in Runs |-> Idle]
    /\ made = {} /\ signed = {}

-----------------------------------------------------------------------------
(* planUpgrade: the roster against live membership.                          *)
Agents == cluster.agents
Holding(p) == {k \in Agents : May(k, p)}
Outside(p) == {k \in Members \ Agents : May(k, p)}
Missing == Threshold - Cardinality(Holding("Vote"))
Autonomous == Missing <= 0 /\ Holding("Execute") # {}
Finishable ==
    /\ Missing <= Cardinality(Outside("Vote"))
    /\ Holding("Execute") \cup Outside("Execute") # {}
PlanStands ==
    /\ RosterStands(Agents)
    /\ Holding("Initiate") # {}
    /\ Autonomous \/ Finishable

\* Faulty variant: the gate looks at the bytes, not at who may rewrite them.
ReviewedBytes == cluster.mainnet => buffer.bytes = "reviewed"

(* assertMainnetUpgradeSend, on the buffer as it was read at the start.       *)
BufferStands == cluster.mainnet => buffer.bytes = "reviewed" /\ buffer.authority = "vault"

(* On mainnet --spill must be given and must be the vault.                   *)
SpillStands(spill) == cluster.mainnet => spill = Vault

Goto(r, pc) == run' = [run EXCEPT ![r].pc = pc]
Stop(r) == run' = [run EXCEPT ![r] = Idle]

\* Faulty variant: a handover leaves the growing to whoever executes.
ExtendsWhenAlone == ~fits /\ Autonomous

NeedsExtend == ~fits

NextIndex == txIndex + 1

(* The buffer, ProgramData and the multisig are read once; the index is the  *)
(* next one of that moment, or the one to resume.                            *)
Start(r, i, resumes, spill) ==
    /\ run[r].pc = "idle"
    /\ IF resumes THEN i \in Indices ELSE i = NextIndex
    /\ buffer.alive /\ PlanStands /\ SpillStands(spill) /\ BufferStands
    /\ run' = [run EXCEPT ![r] =
          [pc |-> IF NeedsExtend THEN "extend" ELSE "look", at |-> i, resumes |-> resumes,
           spill |-> spill, owed |-> Holding("Vote"), alone |-> Autonomous]]
    /\ UNCHANGED <<squad, cluster, loader, made, signed>>

Extend(r) ==
    /\ run[r].pc = "extend"
    /\ fits' = TRUE
    /\ Goto(r, "look")
    /\ UNCHANGED <<squad, cluster, buffer, program, made, signed>>

Look(r) ==
    /\ run[r].pc = "look"
    /\ \/ queue[run[r].at].does # Nothing /\ Goto(r, "read")
       \/ queue[run[r].at].does = Nothing /\ ~run[r].resumes /\ Goto(r, "create")
    /\ UNCHANGED <<squad, cluster, loader, made, signed>>

(* One seat creates and pays: any that may Initiate, by its balance.         *)
CreateLands(r) ==
    /\ run[r].pc = "create"
    /\ \E k \in Agents : Create(k, run[r].at, Upgrade(run[r].spill), "none")
    /\ made' = made \cup {run[r].at}
    /\ Goto(r, "read")
    /\ UNCHANGED <<cluster, loader, signed>>

(* A create that lost its index and was confirmed with an error goes on to    *)
(* whatever is there.                                                        *)
CreateFails(r) ==
    /\ run[r].pc = "create"
    /\ queue[run[r].at].does # Nothing
    /\ Goto(r, "read")
    /\ UNCHANGED <<squad, cluster, loader, made, signed>>

\* Faulty variant: any vault transaction will do.
IsAVaultTransaction(does, spill) == does \in Acts

(* assertIsVaultTransaction, decodeVaultMessage and verifyUpgradeReadback.    *)
IsTheUpgrade(does, spill) == does = Upgrade(spill)

Read(r) ==
    /\ run[r].pc = "read" /\ IsTheUpgrade(queue[run[r].at].does, run[r].spill)
    /\ Goto(r, "propose")
    /\ UNCHANGED <<squad, cluster, loader, made, signed>>

ProposeLands(r) ==
    /\ run[r].pc = "propose"
    /\ \E k \in Agents : Propose(k, run[r].at)
    /\ Goto(r, "vote")
    /\ UNCHANGED <<cluster, loader, made, signed>>

ProposalThere(r) ==
    /\ run[r].pc = "propose" /\ queue[run[r].at].status # "none"
    /\ Goto(r, "vote")
    /\ UNCHANGED <<squad, cluster, loader, made, signed>>

Turn(r) == IF System \in run[r].owed THEN System ELSE CHOOSE k \in run[r].owed : TRUE
Cast(r) == run' = [run EXCEPT ![r].owed = @ \ {Turn(r)}]

\* Faulty variant: one agent's approval passes for all of them.
AnyAgentsApproval(r) == queue[run[r].at].approved \cap Agents # {}

AlreadyApproved(r) == Turn(r) \in queue[run[r].at].approved

Vote(r) ==
    /\ run[r].pc = "vote" /\ run[r].owed # {}
    /\ \/ AlreadyApproved(r) /\ UNCHANGED <<squad, signed>>
       \/ /\ ~AlreadyApproved(r) /\ Approve(Turn(r), run[r].at)
          /\ signed' = signed \cup {run[r].at}
    /\ Cast(r)
    /\ UNCHANGED <<cluster, loader, made>>

AwaitApproval(r) ==
    /\ run[r].pc = "vote" /\ run[r].owed = {} /\ run[r].alone
    /\ Goto(r, "wait")
    /\ UNCHANGED <<squad, cluster, loader, made, signed>>

SeesApproved(r) ==
    /\ run[r].pc = "wait" /\ queue[run[r].at].status = "Approved"
    /\ Goto(r, "execute")
    /\ UNCHANGED <<squad, cluster, loader, made, signed>>

(* The loader upgrades from a buffer of the same authority, into a ProgramData *)
(* large enough, and closes the buffer.                                      *)
CanUpgrade == buffer.alive /\ buffer.authority = "vault" /\ fits
ExecuteUpgrade(m, i) ==
    /\ queue[i].does \in Upgrades /\ CanUpgrade
    /\ ExecuteVault(m, i)
    /\ program' = buffer.bytes
    /\ buffer' = [buffer EXCEPT !.alive = FALSE]
    /\ UNCHANGED fits

ExecuteLands(r) ==
    /\ run[r].pc = "execute"
    /\ \E k \in Agents : ExecuteUpgrade(k, run[r].at)
    /\ signed' = signed \cup {run[r].at}
    /\ Stop(r)
    /\ UNCHANGED <<cluster, made>>

(* The run ends by itself: handed over, or refused by a read or by the chain. *)
Refuses(r) ==
    LET i == run[r].at
        q == queue[i]
    IN  \/ run[r].pc = "look" /\ q.does = Nothing /\ run[r].resumes
        \/ run[r].pc = "create" /\ ~\E k \in Agents : CanCreate(k, i)
        \/ run[r].pc = "read" /\ ~IsTheUpgrade(q.does, run[r].spill)
        \/ run[r].pc = "propose" /\ q.status = "none" /\ ~\E k \in Agents : CanPropose(k, i)
        \/ run[r].pc = "vote" /\ run[r].owed # {} /\ ~AlreadyApproved(r) /\ ~CanApprove(Turn(r), i)
        \/ run[r].pc = "wait" /\ q.status # "Approved"
        \/ run[r].pc = "execute" /\ ~(CanUpgrade /\ \E k \in Agents : CanExecuteVault(k, i))

End(r) ==
    /\ Refuses(r) \/ (run[r].pc = "vote" /\ run[r].owed = {} /\ ~run[r].alone)
    /\ Stop(r)
    /\ UNCHANGED <<squad, cluster, loader, made, signed>>

(* A key cannot be read, a confirmation expires, settle gives up, or the      *)
(* process is killed.                                                        *)
Dies(r) ==
    /\ run[r].pc # "idle"
    /\ Stop(r)
    /\ UNCHANGED <<squad, cluster, loader, made, signed>>

Step(r) ==
    \/ Extend(r) \/ Look(r) \/ CreateLands(r) \/ CreateFails(r) \/ Read(r) \/ ProposeLands(r)
    \/ ProposalThere(r) \/ Vote(r) \/ AwaitApproval(r) \/ SeesApproved(r) \/ ExecuteLands(r) \/ End(r)

-----------------------------------------------------------------------------
(* Everybody else.  Agent seats vote by hand only for a swap of members.  No  *)
(* vault transaction but the upgrade touches the buffer or the program, so    *)
(* the execution of another is a step of no consequence, left out.            *)
OthersAct ==
    /\ \/ \E m \in Members \ Agents :
             \/ \E d \in ByHand : Create(m, txIndex + 1, d, "Active")
             \/ \E i \in Indices : Propose(m, i)
       \/ \E m \in Members, i \in Indices :
             /\ m \in Agents => queue[i].does \in Swaps
             /\ Approve(m, i) \/ ExecuteConfig(m, i)
       \/ \E i \in Indices : Decline(i)
    /\ UNCHANGED <<cluster, loader, run, made, signed>>

OthersUpgrade ==
    /\ \E m \in Members \ Agents, i \in Indices : ExecuteUpgrade(m, i)
    /\ UNCHANGED <<cluster, run, made, signed>>

(* The buffer's authority writes it or hands it to the vault.                 *)
WriteBuffer ==
    /\ buffer.alive /\ buffer.authority = "writer"
    /\ buffer' \in [bytes : Bytes, authority : {"writer", "vault"}, alive : {TRUE}]
    /\ UNCHANGED <<squad, cluster, program, fits, run, made, signed>>

Next ==
    \/ \E r \in Runs :
          \/ Step(r) \/ Dies(r)
          \/ \E i \in 0..MaxIndex, resumes \in BOOLEAN, s \in Spills : Start(r, i, resumes, s)
    \/ OthersAct \/ OthersUpgrade \/ WriteBuffer

Spec == Init /\ [][Next]_vars

(* For liveness: a process that is not killed goes on, processes are killed   *)
(* only finitely often, and an interrupted run is resumed in the end with     *)
(* --index and with the --spill of its transaction.                          *)
Ends(r) == run[r].pc # "idle" /\ run'[r].pc = "idle"
FairSpec ==
    /\ Spec
    /\ \A r \in Runs : WF_vars(Step(r))
    /\ \A r \in Runs, i \in Indices, s \in Spills :
          SF_vars(queue[i].does = Upgrade(s) /\ Start(r, i, TRUE, s))
    /\ <>[][\A r \in Runs : Ends(r) => Step(r)]_vars

-----------------------------------------------------------------------------
(* "NEVER APPROVE A TRANSACTION YOU HAVE NOT READ BACK": whoever took the      *)
(* index that was read several steps before, and whatever --index names, an   *)
(* agent seat signs upgrades only, on mainnet only with the vault's refund.    *)
SignsOnlyTheUpgrade ==
    \A i \in signed : /\ queue[i].does \in Upgrades
                      /\ cluster.mainnet => queue[i].does = Upgrade(Vault)

(* "the bytes hashed here are only the bytes executed if nobody but the vault  *)
(* can write them": from the first mainnet signature on, neither the buffer   *)
(* nor the program ever holds bytes that were not reviewed.                   *)
SignedIsReviewed ==
    cluster.mainnet /\ signed # {} =>
        /\ buffer.bytes = "reviewed" /\ buffer.authority = "vault"
        /\ program \in {"deployed", "reviewed"}

(* "it must happen even in HANDOFF mode, or the human's execute would fail":  *)
(* a proposal an agent seat signed never fails for want of room.             *)
SignedFits == signed # {} => fits

(* A transaction the tool created gets a proposal and the vote of every seat  *)
(* the tool holds, wherever a run was cut, unless it is decided or made stale *)
(* first, the buffer is spent, or the plan no longer stands.                 *)
MadeIsVoted ==
    \A i \in Indices :
        i \in made ~>
            \/ Holding("Vote") \subseteq queue[i].approved
            \/ queue[i].status \notin {"none", "Active"}
            \/ i <= stale \/ ~buffer.alive \/ ~PlanStands
=============================================================================
