---------------------- MODULE SquadVaultTransferProofs ----------------------
(***************************************************************************)
(* Safety of the vault transfer ceremony, for every roster, membership and *)
(* number of overlapping runs.                                             *)
(*                                                                         *)
(* The argument for a single move: a run creates only on the index after   *)
(* its plan's, so the tool's transactions are at most one per plan, and a  *)
(* new plan is made only once everything sent before is dead; the dead     *)
(* never rise, because a transaction never changes and a closed proposal   *)
(* stays closed.                                                           *)
(***************************************************************************)
EXTENDS SquadVaultTransfer, TLAPS

(* An index holds a transaction exactly when it has been given out.          *)
Created == \A i \in Indices : i <= txIndex <=> queue[i].does # Nothing

Moved == \E i \in Indices : queue[i].does = Move /\ queue[i].status = "Executed"

(* What a plan's next command rests on.                                      *)
Advised(n) ==
    /\ n.expect <= txIndex
    /\ n.next = "plan" => n.expect < txIndex /\ \A i \in sent : ~Standing(i)
    /\ n.next = "done" => Moved
    /\ n.next \in {"approve", "execute"} => n.at \in Indices /\ queue[n.at].does = Move

(* The tool's transactions: moves, the last plan's alone alive.              *)
SentInv ==
    \A i \in sent :
        /\ queue[i].does = Move /\ queue[i].status # "none"
        /\ i <= plan.expect + 1
        /\ i <= plan.expect => ~Standing(i)

HasRead == {"vote", "settleVote", "execute", "settleExecute"}

(* What a process under way has made sure of.                                *)
ScanKnows(p) ==
    /\ p.expect < p.upto /\ p.upto <= txIndex /\ p.expect < p.at
    /\ \A i \in Indices :
          i \in sent /\ i = p.expect + 1 /\ i < p.at => ~Standing(i) \/ p.moved \/ p.live # 0
    /\ p.moved => Moved
    /\ p.live # 0 => p.live \in Indices /\ queue[p.live].does = Move
Knows(p) ==
    /\ p.pc \in {"scan", "create"} => 0 <= p.expect /\ p.expect <= plan.expect
    /\ p.pc = "create" => p.at = p.expect + 1
    /\ p.pc = "scan" => ScanKnows(p)
    /\ p.pc \notin {"scan", "create"} => p.at \in Indices
    /\ p.pc \in HasRead => queue[p.at].does = Move
    /\ p.pc = "execute" /\ Mainnet => queue[p.at].approved \cap Operators # {}
Known == \A r \in Runs : run[r].pc # "idle" => Knows(run[r])

IInv == TypeOK /\ Created /\ Advised(plan) /\ SentInv /\ Known
        /\ SignsOnlyTheMove /\ OperatorApproved /\ executed \subseteq signed

(* What time does to an entry of the queue.                                  *)
Later(e, f) ==
    /\ f.does = e.does /\ e.approved \subseteq f.approved
    /\ e.status \in {"Executed", "Declined"} => f.status = e.status
    /\ e.status # "none" => f.status # "none"
Kept == \A i \in Indices : queue[i].does # Nothing => Later(queue[i], queue'[i])

SquadStep ==
    \/ \E m \in Keys, i \in Nat, d \in Acts \cup Swaps, s \in {"none", "Active"} : Create(m, i, d, s)
    \/ \E m \in Keys, i \in Indices : \/ Propose(m, i) \/ Approve(m, i) \/ Decline(i)
                                      \/ ExecuteVault(m, i) \/ ExecuteConfig(m, i)
    \/ UNCHANGED squad

\* What the assumptions on the constants come to here.
LEMMA Assumed ==
    /\ MaxIndex \in Nat /\ Threshold \in Nat \ {0}
    /\ Nothing \notin Acts \cup Swaps
    /\ Swaps \subseteq [out : Keys, in : Keys, mask : SUBSET Permissions]
    /\ Move \in Acts /\ ByHand \subseteq Acts \cup Swaps
    /\ System \in Agents /\ Agents \subseteq Keys
    /\ SettleTries \in Nat /\ Mainnet \in BOOLEAN
BY SquadsAssumption, TransferAssumption

(* A step of the multisig keeps its types, and what an index was given stays. *)
LEMMA QueueMoves ==
    ASSUME SquadsTypeOK, Created, SquadStep
    PROVE  SquadsTypeOK' /\ Created' /\ Kept
<1> USE Assumed DEF SquadsTypeOK, Created, Indices
<1>1. ASSUME NEW m \in Keys, NEW i \in Nat, NEW d \in Acts \cup Swaps,
             NEW s \in {"none", "Active"}, Create(m, i, d, s)
      PROVE  SquadsTypeOK' /\ Created' /\ Kept
  <2>1. i = txIndex + 1 /\ i \in 1..MaxIndex /\ txIndex' = i
        /\ perm' = perm /\ stale' = stale
        /\ queue' = [queue EXCEPT ![i] = [does |-> d, status |-> s, approved |-> {}]]
    BY <1>1 DEF Create, CanCreate
  <2>2. [does |-> d, status |-> s, approved |-> {}] \in Entries
    BY DEF Entries, Statuses
  <2>3. \A j \in Indices : queue'[j] = IF j = i THEN [does |-> d, status |-> s, approved |-> {}]
                                       ELSE queue[j]
    BY <2>1
  <2>4. QED BY <2>1, <2>2, <2>3 DEF Later, Kept
<1>2. ASSUME NEW m \in Keys, NEW i \in Indices, NEW e,
             e \in Entries, Later(queue[i], e),
             queue' = [queue EXCEPT ![i] = e], txIndex' = txIndex,
             perm' \in [Keys -> SUBSET Permissions], stale' \in 0..MaxIndex
      PROVE  SquadsTypeOK' /\ Created' /\ Kept
  BY <1>2 DEF Later, Kept
<1>3. ASSUME NEW m \in Keys, NEW i \in Indices,
             \/ Propose(m, i) \/ Approve(m, i) \/ Decline(i)
             \/ ExecuteVault(m, i) \/ ExecuteConfig(m, i)
      PROVE  \E e \in Entries :
                /\ Later(queue[i], e) /\ queue' = [queue EXCEPT ![i] = e]
                /\ txIndex' = txIndex
                /\ perm' \in [Keys -> SUBSET Permissions] /\ stale' \in 0..MaxIndex
  <2> DEFINE With(s, a) == [queue[i] EXCEPT !.approved = a, !.status = s]
  <2>1. queue[i] \in Entries
    OBVIOUS
  <2>2. \A s \in Statuses, a \in SUBSET Keys :
           /\ With(s, a) \in Entries /\ With(s, a).does = queue[i].does
           /\ With(s, a).approved = a /\ With(s, a).status = s
    BY <2>1 DEF Entries
  <2> HIDE DEF With
  <2>3. CASE Propose(m, i)
    <3>1. queue' = [queue EXCEPT ![i] = With("Active", queue[i].approved)]
      BY <2>1, <2>3 DEF Propose, Entries, With
    <3>2. queue[i].approved \in SUBSET Keys /\ "Active" \in Statuses
      BY <2>1 DEF Entries, Statuses
    <3>3. queue[i].status = "none" /\ UNCHANGED <<perm, txIndex, stale>>
      BY <2>3 DEF Propose, CanPropose
    <3>4. Later(queue[i], With("Active", queue[i].approved))
      BY <2>2, <3>2, <3>3 DEF Later
    <3>5. QED BY <2>2, <3>1, <3>2, <3>3, <3>4
  <2>4. CASE Approve(m, i)
    <3>1. \/ queue' = [queue EXCEPT ![i] = With("Active", queue[i].approved \cup {m})]
          \/ queue' = [queue EXCEPT ![i] = With("Approved", queue[i].approved \cup {m})]
      BY <2>4, Zenon DEF Approve, With
    <3>2. /\ queue[i].approved \cup {m} \in SUBSET Keys
          /\ "Active" \in Statuses /\ "Approved" \in Statuses
      BY <2>1 DEF Entries, Statuses
    <3>3. queue[i].status = "Active" /\ UNCHANGED <<perm, txIndex, stale>>
      BY <2>4 DEF Approve, CanApprove
    <3>4. /\ Later(queue[i], With("Active", queue[i].approved \cup {m}))
          /\ Later(queue[i], With("Approved", queue[i].approved \cup {m}))
      BY <2>2, <3>2, <3>3 DEF Later
    <3>5. QED BY <2>2, <3>1, <3>2, <3>3, <3>4
  <2>5. CASE Decline(i)
    <3>1. queue' = [queue EXCEPT ![i] = With("Declined", queue[i].approved)]
      BY <2>1, <2>5 DEF Decline, Entries, With
    <3>2. queue[i].approved \in SUBSET Keys /\ "Declined" \in Statuses
      BY <2>1 DEF Entries, Statuses
    <3>3. queue[i].status \in {"Active", "Approved"} /\ UNCHANGED <<perm, txIndex, stale>>
      BY <2>5 DEF Decline
    <3>4. Later(queue[i], With("Declined", queue[i].approved))
      BY <2>2, <3>2, <3>3 DEF Later
    <3>5. QED BY <2>2, <3>1, <3>2, <3>3, <3>4
  <2>6. CASE ExecuteVault(m, i)
    <3>1. queue' = [queue EXCEPT ![i] = With("Executed", queue[i].approved)]
      BY <2>1, <2>6 DEF ExecuteVault, Entries, With
    <3>2. queue[i].approved \in SUBSET Keys /\ "Executed" \in Statuses
      BY <2>1 DEF Entries, Statuses
    <3>3. queue[i].status = "Approved" /\ UNCHANGED <<perm, txIndex, stale>>
      BY <2>6 DEF ExecuteVault, CanExecuteVault
    <3>4. Later(queue[i], With("Executed", queue[i].approved))
      BY <2>2, <3>2, <3>3 DEF Later
    <3>5. QED BY <2>2, <3>1, <3>2, <3>3, <3>4
  <2>7. CASE ExecuteConfig(m, i)
    <3>1. queue' = [queue EXCEPT ![i] = With("Executed", queue[i].approved)]
      BY <2>1, <2>7 DEF ExecuteConfig, Entries, With
    <3>2. queue[i].approved \in SUBSET Keys /\ "Executed" \in Statuses
      BY <2>1 DEF Entries, Statuses
    <3>3. queue[i].does \in [out : Keys, in : Keys, mask : SUBSET Permissions]
      BY <2>7 DEF ExecuteConfig, CanExecuteConfig
    <3>4. perm' \in [Keys -> SUBSET Permissions]
      BY <2>7, <3>3 DEF ExecuteConfig
    <3>5. queue[i].status = "Approved" /\ txIndex' = txIndex /\ stale' = txIndex
      BY <2>7 DEF ExecuteConfig, CanExecuteConfig
    <3>6. Later(queue[i], With("Executed", queue[i].approved))
      BY <2>2, <3>2, <3>5 DEF Later
    <3>7. QED BY <2>2, <3>1, <3>2, <3>4, <3>5, <3>6
  <2>8. QED BY <1>3, <2>3, <2>4, <2>5, <2>6, <2>7
<1>4. CASE UNCHANGED squad
  <2>1. perm' = perm /\ txIndex' = txIndex /\ stale' = stale /\ queue' = queue
    BY <1>4 DEF squad
  <2>2. \A j \in Indices : Later(queue[j], queue[j])
    BY DEF Later
  <2>3. QED BY <2>1, <2>2 DEF Kept
<1>5. ASSUME NEW m \in Keys, NEW i \in Indices,
             \/ Propose(m, i) \/ Approve(m, i) \/ Decline(i)
             \/ ExecuteVault(m, i) \/ ExecuteConfig(m, i)
      PROVE  SquadsTypeOK' /\ Created' /\ Kept
  <2>1. PICK e \in Entries :
          /\ Later(queue[i], e) /\ queue' = [queue EXCEPT ![i] = e]
          /\ txIndex' = txIndex
          /\ perm' \in [Keys -> SUBSET Permissions] /\ stale' \in 0..MaxIndex
    BY <1>3, <1>5
  <2>2. QED BY <1>2, <2>1
<1> HIDE DEF SquadsTypeOK, Created, Indices
<1>6. CASE \E m \in Keys, i \in Nat, d \in Acts \cup Swaps, s \in {"none", "Active"} :
             Create(m, i, d, s)
  <2>1. PICK m \in Keys, i \in Nat, d \in Acts \cup Swaps, s \in {"none", "Active"} :
           Create(m, i, d, s)
    BY <1>6
  <2>2. QED BY <1>1, <2>1
<1>7. CASE \E m \in Keys, i \in Indices : \/ Propose(m, i) \/ Approve(m, i) \/ Decline(i)
                                           \/ ExecuteVault(m, i) \/ ExecuteConfig(m, i)
  BY <1>5, <1>7
<1>8. QED BY <1>4, <1>6, <1>7 DEF SquadStep

(* The initial states satisfy the invariant.                                  *)
LEMMA InitInv == Init => IInv
<1> SUFFICES ASSUME Init PROVE IInv
  OBVIOUS
<1> USE Assumed DEF Init
<1>1. SquadsTypeOK /\ Created
  BY TransferAssumption
     DEF SquadsInit, SquadsTypeOK, Created, Indices, Empty, Entries, Statuses, Permissions
<1>2. Idle \in Processes /\ Idle.pc = "idle" /\ plan \in Plans
  BY DEF Idle, Processes, Pcs, Modes, Plans, Commands
<1>3. TypeOK
  BY <1>1, <1>2 DEF TypeOK
<1>4. Advised(plan) /\ SentInv /\ Known
  BY <1>2 DEF Advised, SentInv, Known, SquadsInit
<1>5. SignsOnlyTheMove /\ OperatorApproved /\ executed \subseteq signed
  BY DEF SignsOnlyTheMove, OperatorApproved
<1>6. QED BY <1>1, <1>3, <1>4, <1>5 DEF IInv

(* What a step of the multisig leaves of what was so before it.               *)
LEMMA Stays ==
    ASSUME IInv, SquadStep
    PROVE  /\ SquadsTypeOK' /\ Created' /\ Kept
           /\ txIndex \in 0..MaxIndex /\ txIndex' \in 0..MaxIndex /\ txIndex <= txIndex'
           /\ Moved => Moved'
           /\ \A i \in Indices : queue[i].does = Move =>
                 /\ queue'[i].does = Move /\ queue[i].approved \subseteq queue'[i].approved
           /\ \A i \in sent :
                 /\ i \in Indices /\ queue'[i].status # "none"
                 /\ queue'[i].status \in {"Active", "Approved", "Executed"} => Standing(i)
<1>1. SquadsTypeOK' /\ Created' /\ Kept /\ SquadsTypeOK /\ Created
  BY QueueMoves DEF IInv, TypeOK
<1>2. txIndex \in 0..MaxIndex /\ txIndex' \in 0..MaxIndex
  BY <1>1 DEF SquadsTypeOK
<1>3. txIndex <= txIndex'
  <2>1. CASE txIndex = 0
    BY <2>1, <1>2, Assumed
  <2>2. CASE txIndex \in Indices
    BY <2>2, <1>1, <1>2, Assumed DEF Created, Kept, Later
  <2>3. QED BY <2>1, <2>2, <1>2, Assumed DEF Indices
<1>4. \A i \in Indices : queue[i].does = Move =>
         /\ Later(queue[i], queue'[i]) /\ queue'[i].does = Move
         /\ queue[i].approved \subseteq queue'[i].approved
  BY <1>1, Assumed DEF Kept, Later
<1>5. Moved => Moved'
  BY <1>4 DEF Moved, Later
<1>6. ASSUME NEW i \in sent
      PROVE  /\ i \in Indices /\ queue'[i].status # "none"
             /\ queue'[i].status \in {"Active", "Approved", "Executed"} => Standing(i)
  <2>1. i \in Indices /\ queue[i].does = Move /\ queue[i].status # "none"
    BY DEF IInv, TypeOK, SentInv
  <2>2. Later(queue[i], queue'[i])
    BY <1>4, <2>1
  <2>3. queue[i].status \in Statuses
    BY <1>1, <2>1 DEF SquadsTypeOK, Entries
  <2>4. ~Standing(i) => queue[i].status = "Declined"
    BY <2>1, <2>3 DEF Standing, Statuses
  <2>5. QED BY <2>1, <2>2, <2>4 DEF Later, Standing
<1>7. QED BY <1>1, <1>2, <1>3, <1>4, <1>5, <1>6

(* What a process knows stays so, whatever the others do.                     *)
LEMMA KnowsStays ==
    ASSUME IInv, SquadStep, NEW p \in Processes, p.pc # "idle", Knows(p),
           plan' \in Plans, plan.expect <= plan'.expect,
           \A i \in sent' : i \in sent \/ i = txIndex + 1
    PROVE  Knows(p)'
<1>0. \A i \in sent : ~Standing(i) => ~Standing(i)'
  BY Stays DEF Standing
<1>1. /\ p.expect \in Int /\ p.at \in Int /\ p.upto \in Int /\ plan.expect \in Int
      /\ plan'.expect \in Int /\ txIndex \in Int /\ txIndex' \in Int /\ txIndex <= txIndex'
  BY Stays, Assumed DEF IInv, TypeOK, Processes, Plans
<1>2. p.pc = "scan" => ScanKnows(p)'
  <2> SUFFICES ASSUME p.pc = "scan" PROVE ScanKnows(p)'
    OBVIOUS
  <2>1. ScanKnows(p)
    BY DEF Knows
  <2> HIDE DEF ScanKnows
  <2>2. p.expect < p.upto /\ p.upto <= txIndex' /\ p.expect < p.at
    BY <1>1, <2>1 DEF ScanKnows
  <2>3. p.moved => Moved'
    BY <2>1, Stays DEF ScanKnows
  <2>4. p.live # 0 => p.live \in Indices /\ queue'[p.live].does = Move
    BY <2>1, Stays DEF ScanKnows
  <2>5. \A i \in Indices : i \in sent' /\ i = p.expect + 1 => i \in sent
    BY <1>1, <2>1 DEF ScanKnows
  <2>6. ASSUME NEW i \in Indices, i \in sent', i = p.expect + 1, i < p.at, ~p.moved, p.live = 0
        PROVE  ~Standing(i)'
    <3>1. i \in sent /\ ~Standing(i)
      BY <2>1, <2>5, <2>6 DEF ScanKnows
    <3>2. QED BY <3>1, <1>0
  <2>7. QED BY <2>2, <2>3, <2>4, <2>6 DEF ScanKnows
<1>3. p.pc \in {"scan", "create"} => 0 <= p.expect /\ p.expect <= plan'.expect
  BY <1>1 DEF Knows
<1>4. p.pc \in HasRead => queue'[p.at].does = Move
  BY Stays DEF Knows, HasRead
<1>5. p.pc = "execute" /\ Mainnet => queue'[p.at].approved \cap Operators # {}
  <2>1. p.pc = "execute" => p.at \in Indices /\ queue[p.at].does = Move
    BY DEF Knows, HasRead
  <2>2. p.pc = "execute" => queue[p.at].approved \subseteq queue'[p.at].approved
    BY <2>1, Stays
  <2>3. QED BY <2>2 DEF Knows
<1>6. QED BY <1>2, <1>3, <1>4, <1>5 DEF Knows

(* What every step but a new plan does: a step of the multisig, processes     *)
(* that learn only what is so, a next command that rests on it, a transaction *)
(* of the tool only right after the plan's index, signatures and executions   *)
(* only by those that have read.                                              *)
LEMMA Moves ==
    ASSUME IInv, SquadStep,
           plan' \in Plans, plan'.expect = plan.expect, Advised(plan'),
           run' \in [Runs -> Processes],
           \A r \in Runs : run'[r].pc # "idle" => run'[r] = run[r] \/ Knows(run'[r]),
           \A i \in sent' :
              \/ i \in sent
              \/ /\ i \in Indices /\ i = txIndex + 1 /\ txIndex = plan.expect
                 /\ queue'[i].does = Move /\ queue'[i].status = "Active",
           \A i \in signed' : i \in signed \/ \E r \in Runs : run[r].pc \in HasRead /\ run[r].at = i,
           \A i \in executed' : i \in executed \/ \E r \in Runs : run[r].pc = "execute" /\ run[r].at = i,
           executed' \subseteq signed'
    PROVE  IInv'
<1> USE DEF IInv
<1>1. /\ SquadsTypeOK' /\ Created'
      /\ txIndex \in Int /\ txIndex' \in Int /\ txIndex <= txIndex' /\ plan.expect \in Int
      /\ sent \subseteq Indices /\ signed \subseteq Indices /\ executed \subseteq signed
  BY Stays, Assumed DEF TypeOK, Plans
<1>2. \A r \in Runs : run[r].pc # "idle" => Knows(run[r])
  BY DEF Known
<1>3. Known'
  <2> SUFFICES ASSUME NEW r \in Runs, run'[r].pc # "idle" PROVE Knows(run[r])'
    BY DEF Known
  <2>1. PICK p \in Processes : p = run'[r]
    OBVIOUS
  <2>2. Knows(p)
    BY <1>2, <2>1
  <2>3. Knows(p)'
    BY <1>1, <2>1, <2>2, KnowsStays
  <2>4. QED BY <2>1, <2>3
<1>4. \A i \in signed' : i \in Indices /\ queue[i].does = Move
  BY <1>1, <1>2 DEF SignsOnlyTheMove, Knows, HasRead
<1>5. SignsOnlyTheMove'
  BY <1>4, Stays DEF SignsOnlyTheMove
<1>6. OperatorApproved'
  <2> SUFFICES ASSUME Mainnet, NEW i \in executed' PROVE queue'[i].approved \cap Operators # {}
    BY DEF OperatorApproved
  <2>1. i \in Indices /\ queue[i].approved \subseteq queue'[i].approved
    BY <1>4, Stays
  <2>2. queue[i].approved \cap Operators # {}
    BY <1>2 DEF OperatorApproved, Knows
  <2>3. QED BY <2>1, <2>2
<1>7. SentInv'
  <2> SUFFICES ASSUME NEW i \in sent'
               PROVE  /\ queue'[i].does = Move /\ queue'[i].status # "none"
                      /\ i <= plan'.expect + 1
                      /\ i <= plan'.expect => queue'[i].status \notin {"Active", "Approved", "Executed"}
    BY DEF SentInv, Standing
  <2>1. CASE i \in sent
    BY <2>1, Stays DEF SentInv
  <2>2. CASE i \notin sent
    BY <1>1, <2>2
  <2>3. QED BY <2>1, <2>2
<1>8. Advised(plan)'
  <2>1. plan'.expect <= txIndex'
    BY <1>1 DEF Advised
  <2>2. ASSUME plan'.next = "plan"
        PROVE  /\ plan'.expect < txIndex'
               /\ \A i \in sent' : queue'[i].status \notin {"Active", "Approved", "Executed"}
    <3>1. plan.expect < txIndex /\ \A i \in sent : ~Standing(i)
      BY <2>2 DEF Advised
    <3>2. QED BY <1>1, <3>1, Stays
  <2>3. plan'.next = "done" => Moved'
    BY Stays DEF Advised
  <2>4. plan'.next \in {"approve", "execute"} => plan'.at \in Indices /\ queue'[plan'.at].does = Move
    BY Stays DEF Advised
  <2>5. QED BY <2>1, <2>2, <2>3, <2>4 DEF Advised, Standing
<1>9. TypeOK'
  <2>1. sent' \subseteq Indices
    BY <1>1
  <2>2. signed' \subseteq Indices /\ executed' \subseteq Indices
    BY <1>4
  <2>3. QED BY <1>1, <2>1, <2>2 DEF TypeOK
<1>10. QED BY <1>1, <1>3, <1>5, <1>6, <1>7, <1>8, <1>9

(* The same for a step of one process that creates and executes nothing.      *)
LEMMA ProcessMoves ==
    ASSUME IInv, SquadStep, NEW r \in Runs, NEW q \in Processes,
           run' = [run EXCEPT ![r] = q], q.pc # "idle" => Knows(q),
           plan' \in Plans, plan'.expect = plan.expect, Advised(plan'),
           UNCHANGED <<sent, executed>>,
           \A i \in signed' : i \in signed \/ (run[r].pc \in HasRead /\ run[r].at = i),
           signed \subseteq signed'
    PROVE  IInv'
<1>1. run \in [Runs -> Processes] /\ executed \subseteq signed
  BY DEF IInv, TypeOK
<1>2. run' \in [Runs -> Processes] /\ run'[r] = q /\ \A p \in Runs \ {r} : run'[p] = run[p]
  BY <1>1
<1>3. \A p \in Runs : run'[p].pc # "idle" => run'[p] = run[p] \/ Knows(run'[p])
  BY <1>2
<1>4. QED BY <1>1, <1>2, <1>3, Moves

(* A process that ends knows nothing.                                         *)
LEMMA StopMoves ==
    ASSUME IInv, UNCHANGED <<squad, sent, signed, executed>>, NEW r \in Runs, Stop(r),
           plan' \in Plans, plan'.expect = plan.expect, Advised(plan')
    PROVE  IInv'
<1>1. Idle \in Processes /\ Idle.pc = "idle" /\ SquadStep
  BY Assumed DEF Idle, Processes, Pcs, Modes, SquadStep
<1>2. run' = [run EXCEPT ![r] = Idle]
  BY DEF Stop
<1>3. QED BY <1>1, <1>2, ProcessMoves

\* A new plan is told only when nothing sent is alive.
LEMMA PlanStep ==
    ASSUME IInv, Plan
    PROVE  IInv'
<1> USE DEF IInv
<1>1. /\ plan.next = "plan" /\ UNCHANGED <<squad, run, sent, signed, executed>>
      /\ plan' = [expect |-> txIndex, next |-> "send", at |-> 0] /\ SquadStep
  BY DEF Plan, SquadStep
<1>2. /\ txIndex \in 0..MaxIndex /\ plan.expect \in Int /\ plan.expect <= txIndex
      /\ \A i \in sent : ~Standing(i)
  BY <1>1, Stays DEF TypeOK, Plans, Advised
<1>3. plan' \in Plans
  BY <1>1, <1>2, Assumed DEF Plans, Commands, Modes
<1>4. Known'
  <2> SUFFICES ASSUME NEW r \in Runs, run[r].pc # "idle" PROVE Knows(run[r])'
    BY <1>1 DEF Known
  <2>1. PICK p \in Processes : p = run[r]
    BY DEF TypeOK
  <2>2. Knows(p)
    BY <2>1 DEF Known
  <2>3. Knows(p)'
    BY <1>1, <1>2, <1>3, <2>1, <2>2, KnowsStays
  <2>4. QED BY <1>1, <2>1, <2>3
<1>5. SentInv'
  <2>1. \A i \in sent : i \in Indices /\ queue[i].does # Nothing
    BY Assumed DEF SentInv, TypeOK
  <2>2. \A i \in sent : i <= txIndex
    BY <2>1 DEF Created
  <2>3. \A i \in sent : i <= txIndex + 1
    BY <1>2, <2>1, <2>2, Assumed DEF Indices
  <2>4. QED BY <1>1, <1>2, <2>3 DEF SentInv, Standing, squad
<1>6. Advised(plan)'
  BY <1>1, <1>2 DEF Advised, squad
<1>7. TypeOK'
  BY <1>1, <1>3, Stays DEF TypeOK
<1>8. Created' /\ SignsOnlyTheMove' /\ OperatorApproved' /\ (executed \subseteq signed)'
  BY <1>1, Stays DEF SignsOnlyTheMove, OperatorApproved, squad
<1>9. QED BY <1>4, <1>5, <1>6, <1>7, <1>8

(* A plan that is left alone rests on what it rested on.                      *)
LEMMA SamePlan ==
    ASSUME IInv, UNCHANGED plan
    PROVE  plan' \in Plans /\ plan'.expect = plan.expect /\ Advised(plan')
BY DEF IInv, TypeOK

(* A process under way has the types of its state.                            *)
LEMMA BegunTyped ==
    ASSUME IInv, NEW pc \in Pcs, NEW mode \in Modes, NEW i \in 0..MaxIndex + 1
    PROVE  Begun(pc, mode, i) \in Processes
<1>1. plan.expect \in -1..MaxIndex /\ txIndex \in 0..MaxIndex
  BY DEF IInv, TypeOK, Plans, SquadsTypeOK
<1>2. Voters(Agents) \subseteq Agents /\ 0 \in 0..SettleTries /\ 0 \in 0..MaxIndex
  BY Assumed DEF Voters
<1>3. QED BY <1>1, <1>2 DEF Processes, Begun

\* A run that will send starts from the plan it was told.
LEMMA StartSendStep ==
    ASSUME IInv, NEW r \in Runs, StartSend(r)
    PROVE  IInv'
<1> DEFINE pc == IF txIndex = plan.expect THEN "create" ELSE "scan"
           q == Begun(pc, "send", plan.expect + 1)
<1>1. /\ run' = [run EXCEPT ![r] = q] /\ UNCHANGED <<squad, plan, sent, signed, executed>>
      /\ SquadStep /\ plan.expect >= 0
  BY DEF StartSend, SquadStep
<1>2. /\ plan.expect \in -1..MaxIndex /\ plan.expect <= txIndex /\ txIndex \in 0..MaxIndex
  BY Stays, <1>1 DEF IInv, TypeOK, Plans, Advised
<1>3. pc \in Pcs /\ "send" \in Modes /\ plan.expect + 1 \in 0..MaxIndex + 1
  BY <1>1, <1>2, Assumed DEF Pcs, Modes
<1>4. q \in Processes
  BY <1>3, BegunTyped
<1>5. /\ q.pc \in {"scan", "create"} /\ q.expect = plan.expect /\ q.at = plan.expect + 1
      /\ q.upto = txIndex /\ q.live = 0 /\ q.moved = FALSE
      /\ q.pc = "scan" => txIndex # plan.expect
  BY DEF Begun
<1> HIDE DEF q, pc
<1>6. Knows(q)
  <2>1. q.pc = "scan" => ScanKnows(q)
    BY <1>2, <1>5, Assumed DEF ScanKnows
  <2>2. QED BY <1>1, <1>2, <1>5, <2>1 DEF Knows, HasRead
<1>7. QED BY <1>1, <1>4, <1>6, SamePlan, ProcessMoves

\* A run that approves or executes starts from an index it was given.
LEMMA StartOnStep ==
    ASSUME IInv, NEW r \in Runs, NEW mode \in {"approve", "execute"}, NEW i \in Indices,
           StartOn(r, mode, i)
    PROVE  IInv'
<1> DEFINE q == Begun("read", mode, i)
<1>1. /\ run' = [run EXCEPT ![r] = q] /\ UNCHANGED <<squad, plan, sent, signed, executed>>
      /\ SquadStep
  BY DEF StartOn, SquadStep
<1>2. "read" \in Pcs /\ mode \in Modes /\ i \in 0..MaxIndex + 1
  BY Assumed DEF Pcs, Modes, Indices
<1>3. q \in Processes
  BY <1>2, BegunTyped
<1>4. q.pc = "read" /\ q.at = i
  BY DEF Begun
<1> HIDE DEF q
<1>5. Knows(q)
  BY <1>4 DEF Knows, HasRead
<1>6. QED BY <1>1, <1>3, <1>5, SamePlan, ProcessMoves

(* A process that goes on from what it read.                                  *)
LEMMA OnMoves ==
    ASSUME IInv, SquadStep, NEW r \in Runs, run[r].pc \notin {"idle", "scan", "create"},
           NEW q \in Processes, q.at = run[r].at, q.pc \notin {"scan", "create"},
           run' = [run EXCEPT ![r] = q],
           q.pc \in HasRead => queue[run[r].at].does = Move,
           q.pc = "execute" /\ Mainnet => queue[run[r].at].approved \cap Operators # {},
           UNCHANGED <<plan, sent, executed>>,
           \A i \in signed' : i \in signed \/ (run[r].pc \in HasRead /\ run[r].at = i),
           signed \subseteq signed'
    PROVE  IInv'
<1>1. run[r].at \in Indices
  BY DEF IInv, Known, Knows
<1>2. Knows(q)
  BY <1>1 DEF Knows
<1>3. QED BY <1>2, SamePlan, ProcessMoves

(* What a process under way is.                                               *)
LEMMA UnderWay ==
    ASSUME IInv, NEW r \in Runs, run[r].pc # "idle"
    PROVE  /\ run[r] \in Processes /\ Knows(run[r]) /\ plan \in Plans
           /\ UNCHANGED squad => SquadStep
BY DEF IInv, TypeOK, Known, SquadStep

(* Goto keeps the index.                                                      *)
LEMMA GotoRecord ==
    ASSUME IInv, NEW r \in Runs, run[r].pc # "idle", NEW x \in Pcs, Goto(r, x)
    PROVE  \E q \in Processes : q.pc = x /\ q.at = run[r].at /\ run' = [run EXCEPT ![r] = q]
<1> DEFINE q == [run[r] EXCEPT !.pc = x, !.tries = 0]
<1>0. run[r] \in Processes /\ 0 \in 0..SettleTries
  BY UnderWay, Assumed
<1>1. q \in Processes /\ q.pc = x /\ q.at = run[r].at
  BY <1>0 DEF Processes
<1>2. run' = [run EXCEPT ![r] = q]
  BY DEF Goto
<1> HIDE DEF q
<1>3. QED BY <1>1, <1>2

(* One more transaction is read: the scan knows the index after the plan's    *)
(* from its first step on.                                                   *)
LEMMA ScanStep ==
    ASSUME IInv, NEW r \in Runs, Scan(r)
    PROVE  IInv'
<1> DEFINE p == run[r]
           moved == p.moved \/ Found(p.at, {"Executed"})
           live == IF p.live = 0 /\ Found(p.at, {"Active", "Approved"}) THEN p.at ELSE p.live
           q == [p EXCEPT !.at = p.at + 1, !.moved = moved, !.live = live]
<1>1. p.pc = "scan" /\ p.at <= p.upto /\ UNCHANGED <<squad, plan, sent, signed, executed>>
  BY DEF Scan
<1>2. run' = [run EXCEPT ![r] = q]
  BY Zenon DEF Scan
<1>3. p \in Processes /\ Knows(p) /\ SquadStep
  BY <1>1, UnderWay
<1>4. /\ ScanKnows(p) /\ 0 <= p.expect /\ p.expect <= plan.expect
      /\ p.expect \in Int /\ p.at \in Int /\ p.upto \in 0..MaxIndex
  BY <1>1, <1>3 DEF Knows, Processes
<1>5. p.at \in Indices /\ p.at # 0
  BY <1>1, <1>4, Assumed DEF ScanKnows, Indices
<1>6. /\ p.at + 1 \in 0..MaxIndex + 1 /\ moved \in BOOLEAN
      /\ live \in 0..MaxIndex
  BY <1>1, <1>3, <1>4, <1>5, Assumed DEF Processes, Indices
<1>7. /\ (moved <=> p.moved \/ Found(p.at, {"Executed"}))
       /\ live = IF p.live = 0 /\ Found(p.at, {"Active", "Approved"}) THEN p.at ELSE p.live
  OBVIOUS
<1> HIDE DEF moved, live
<1>8. /\ q \in Processes
      /\ q.pc = "scan" /\ q.at = p.at + 1 /\ q.expect = p.expect /\ q.upto = p.upto
      /\ q.moved = moved /\ q.live = live
  BY <1>1, <1>3, <1>6 DEF Processes
<1> HIDE DEF q
<1>9. ScanKnows(q)
  <2>1. q.expect < q.upto /\ q.upto <= txIndex /\ q.expect < q.at
    BY <1>4, <1>8 DEF ScanKnows
  <2>2. q.moved => Moved
    BY <1>4, <1>5, <1>8, <1>7 DEF ScanKnows, Moved, Found
  <2>3. q.live # 0 => q.live \in Indices /\ queue[q.live].does = Move
    BY <1>4, <1>5, <1>8, <1>7 DEF ScanKnows, Found
  <2>4. ASSUME NEW i \in Indices, i \in sent, i = q.expect + 1, i < q.at
        PROVE  ~Standing(i) \/ q.moved \/ q.live # 0
    <3>1. CASE i < p.at
      BY <1>4, <1>5, <1>8, <1>7, <2>4, <3>1 DEF ScanKnows
    <3>2. CASE i = p.at
      BY <1>5, <1>8, <1>7, <2>4, <3>2 DEF IInv, SentInv, Standing, Found
    <3>3. QED BY <1>4, <1>8, <2>4, <3>1, <3>2 DEF Indices
  <2>5. QED BY <2>1, <2>2, <2>3, <2>4 DEF ScanKnows
<1>10. Knows(q)
  BY <1>4, <1>8, <1>9 DEF Knows, HasRead
<1> HIDE DEF p
<1>11. QED BY <1>2, <1>1, <1>3, <1>8, <1>10, SamePlan, ProcessMoves

(* A next command takes the place of the last, the plan's index stays.        *)
LEMMA TellRecord ==
    ASSUME IInv, NEW next \in Commands, NEW at \in 0..MaxIndex, Tell(next, at)
    PROVE  /\ plan' \in Plans /\ plan'.expect = plan.expect
           /\ plan'.next = next /\ plan'.at = at
BY DEF Tell, IInv, TypeOK, Plans

(* A scan that found nothing sent alive has seen all there could be.          *)
LEMMA AdviseStep ==
    ASSUME IInv, NEW r \in Runs, Advise(r)
    PROVE  IInv'
<1>1. /\ run[r].pc = "scan" /\ run[r].at > run[r].upto /\ Stop(r)
      /\ UNCHANGED <<squad, sent, signed, executed>>
  BY DEF Advise
<1>2. /\ run[r] \in Processes /\ ScanKnows(run[r]) /\ plan.expect \in Int
      /\ run[r].expect \in Int /\ run[r].upto \in Int /\ run[r].at \in Int /\ txIndex \in Int
      /\ plan.expect <= txIndex
  BY <1>1, UnderWay, Stays, Assumed DEF Knows, Processes, Plans, IInv, Advised
<1>3. CASE run[r].expect # plan.expect
  BY <1>1, <1>3, SamePlan, StopMoves DEF Advise
<1>4. CASE run[r].expect = plan.expect
  <2>1. /\ Tell(Advice(r), run[r].live) /\ run[r].live \in 0..MaxIndex
        /\ Advice(r) \in Commands
    BY <1>2, <1>4 DEF Advise, Advice, Commands, Modes, Processes
  <2>2. /\ plan' \in Plans /\ plan'.expect = plan.expect
        /\ plan'.next = Advice(r) /\ plan'.at = run[r].live
    BY <2>1, TellRecord
  <2>3. /\ Advice(r) \in {"done", "approve", "plan"}
        /\ Advice(r) = "done" => run[r].moved
        /\ Advice(r) = "approve" => run[r].live # 0
        /\ Advice(r) = "plan" => ~run[r].moved /\ run[r].live = 0
    BY <1>2 DEF Advice, Processes
  <2>4. ASSUME Advice(r) = "plan", NEW i \in sent
        PROVE  ~Standing(i)
    <3>1. i \in Indices /\ i <= plan.expect + 1 /\ (i <= plan.expect => ~Standing(i))
      BY DEF IInv, TypeOK, SentInv
    <3>2. CASE i = plan.expect + 1
      <4>1. i < run[r].at
        BY <1>1, <1>2, <1>4, <3>2 DEF ScanKnows
      <4>2. QED BY <1>2, <1>4, <2>3, <2>4, <3>1, <3>2, <4>1 DEF ScanKnows
    <3>3. QED BY <1>2, <3>1, <3>2 DEF Indices
  <2>5. Advised(plan')
    BY <1>2, <1>4, <2>2, <2>3, <2>4 DEF Advised, ScanKnows
  <2>6. QED BY <1>1, <2>2, <2>5, StopMoves
<1>5. QED BY <1>3, <1>4

(* The tool creates on the index after its plan's, or not at all.             *)
LEMMA CreateStep ==
    ASSUME IInv, NEW r \in Runs, CreateLands(r)
    PROVE  IInv'
<1>1. /\ run[r].pc = "create" /\ Create(System, run[r].at, Move, "Active")
      /\ sent' = sent \cup {run[r].at} /\ Goto(r, "settleCreate")
      /\ UNCHANGED <<plan, signed, executed>>
  BY DEF CreateLands
<1>2. /\ run[r] \in Processes /\ Knows(run[r]) /\ plan.expect <= txIndex
      /\ plan.expect \in Int /\ txIndex \in 0..MaxIndex /\ run[r].expect \in Int
      /\ queue \in [Indices -> Entries]
  BY <1>1, UnderWay DEF IInv, TypeOK, SquadsTypeOK, Advised, Plans, Processes
<1>3. run[r].at = txIndex + 1 /\ run[r].at \in Indices
  BY <1>1, <1>2, Assumed DEF Create, CanCreate, Indices
<1>4. txIndex = plan.expect
  BY <1>1, <1>2, <1>3, Assumed DEF Knows
<1>5. queue'[run[r].at] = [does |-> Move, status |-> "Active", approved |-> {}]
  BY <1>1, <1>2, <1>3 DEF Create
<1>6. SquadStep
  <2>1. System \in Keys /\ run[r].at \in Nat /\ Move \in Acts \cup Swaps
    BY <1>3, Assumed DEF Indices
  <2>2. QED BY <1>1, <2>1 DEF SquadStep
<1>7. PICK q \in Processes : /\ q.pc = "settleCreate" /\ q.at = run[r].at
                             /\ run' = [run EXCEPT ![r] = q]
  BY <1>1, GotoRecord DEF Pcs, Settling
<1>8. Knows(q)
  BY <1>3, <1>7 DEF Knows, HasRead
<1>9. /\ run' \in [Runs -> Processes] /\ executed \subseteq signed
      /\ \A p \in Runs : run'[p].pc # "idle" => run'[p] = run[p] \/ Knows(run'[p])
  BY <1>7, <1>8 DEF IInv, TypeOK
<1>10. \A i \in sent' :
          \/ i \in sent
          \/ /\ i \in Indices /\ i = txIndex + 1 /\ txIndex = plan.expect
             /\ queue'[i].does = Move /\ queue'[i].status = "Active"
  BY <1>1, <1>3, <1>4, <1>5
<1>11. QED BY <1>1, <1>6, <1>9, <1>10, SamePlan, Moves

(* What is read back is the move, and on mainnet an operator's.               *)
LEMMA ReadStep ==
    ASSUME IInv, NEW r \in Runs, Read(r)
    PROVE  IInv'
<1> DEFINE e == queue[run[r].at]
<1>1. /\ run[r].pc = "read" /\ Passes(e, run[r].mode) /\ e.does = Move
      /\ UNCHANGED <<squad, plan, sent, signed, executed>>
  BY DEF Read, Passes
<1>2. run[r] \in Processes /\ SquadStep
  BY <1>1, UnderWay
<1>3. CASE run[r].mode = "execute"
  <2>1. Goto(r, "execute") /\ (Mainnet => e.approved \cap Operators # {})
    BY <1>1, <1>3 DEF Read, Passes, Gate
  <2>2. PICK q \in Processes : /\ q.pc = "execute" /\ q.at = run[r].at
                               /\ run' = [run EXCEPT ![r] = q]
    BY <1>1, <2>1, GotoRecord DEF Pcs
  <2>3. QED BY <1>1, <1>2, <2>1, <2>2, OnMoves
<1>4. CASE run[r].mode # "execute"
  <2> DEFINE owed == run[r].seats \ e.approved
             q == [run[r] EXCEPT !.pc = "vote", !.owed = owed]
  <2>1. run' = [run EXCEPT ![r] = q]
    BY <1>4 DEF Read
  <2>2. owed \subseteq Agents
    BY <1>2 DEF Processes
  <2> HIDE DEF owed
  <2>3. q \in Processes /\ q.pc = "vote" /\ q.at = run[r].at
    BY <1>2, <2>2 DEF Processes, Pcs
  <2> HIDE DEF q
  <2>4. QED BY <1>1, <1>2, <2>1, <2>3, OnMoves
<1>5. QED BY <1>3, <1>4

(* A refusal answers from what was read.                                      *)
LEMMA RefuseStep ==
    ASSUME IInv, NEW r \in Runs, Refuse(r)
    PROVE  IInv'
<1> DEFINE e == queue[run[r].at]
<1>1. run[r].pc = "read" /\ Stop(r) /\ UNCHANGED <<squad, sent, signed, executed>>
  BY DEF Refuse
<1>2. run[r].at \in Indices /\ plan \in Plans /\ plan.expect <= txIndex
  BY <1>1, UnderWay DEF Knows, IInv, Advised
<1>3. CASE ~(e.does = Move /\ run[r].at = plan.at)
  BY <1>1, <1>3, SamePlan, StopMoves DEF Refuse
<1>4. CASE e.does = Move /\ run[r].at = plan.at
  <2>1. Answer(e.status)
    BY <1>4 DEF Refuse
  <2>2. CASE e.status = "Active"
    <3>1. UNCHANGED plan
      BY <2>1, <2>2 DEF Answer
    <3>2. QED BY <1>1, <3>1, SamePlan, StopMoves
  <2>3. CASE e.status = "Approved"
    <3>1. Tell("execute", plan.at)
      BY <2>1, <2>3 DEF Answer
    <3>2. plan' \in Plans /\ plan'.expect = plan.expect /\ plan'.next = "execute" /\ plan'.at = plan.at
      BY <1>2, <3>1, TellRecord DEF Plans, Commands, Modes
    <3>3. Advised(plan')
      BY <1>2, <1>4, <3>2 DEF Advised
    <3>4. QED BY <1>1, <3>2, <3>3, StopMoves
  <2>4. CASE e.status = "Executed"
    <3>1. Tell("done", 0) /\ 0 \in 0..MaxIndex
      BY <2>1, <2>4, Assumed DEF Answer
    <3>2. plan' \in Plans /\ plan'.expect = plan.expect /\ plan'.next = "done"
      BY <3>1, TellRecord DEF Commands
    <3>3. Moved
      BY <1>2, <1>4, <2>4 DEF Moved
    <3>4. Advised(plan')
      BY <1>2, <3>2, <3>3 DEF Advised
    <3>5. QED BY <1>1, <3>2, <3>4, StopMoves
  <2>5. CASE e.status \notin {"Active", "Approved", "Executed"}
    <3>1. Tell("send", 0) /\ 0 \in 0..MaxIndex
      BY <2>1, <2>5, Assumed DEF Answer
    <3>2. plan' \in Plans /\ plan'.expect = plan.expect /\ plan'.next = "send"
      BY <3>1, TellRecord DEF Commands, Modes
    <3>3. Advised(plan')
      BY <1>2, <3>2 DEF Advised
    <3>4. QED BY <1>1, <3>2, <3>3, StopMoves
  <2>6. QED BY <2>2, <2>3, <2>4, <2>5
<1>5. QED BY <1>3, <1>4

\* A vote is cast on the move the process has read.
LEMMA VoteStep ==
    ASSUME IInv, NEW r \in Runs, VoteLands(r)
    PROVE  IInv'
<1>1. /\ run[r].pc = "vote" /\ run[r].owed # {} /\ Approve(Turn(r), run[r].at)
      /\ signed' = signed \cup {run[r].at} /\ Goto(r, "settleVote")
      /\ UNCHANGED <<plan, sent, executed>>
  BY DEF VoteLands
<1>2. /\ run[r] \in Processes /\ run[r].at \in Indices /\ queue[run[r].at].does = Move
  BY <1>1, UnderWay DEF Knows, HasRead
<1>3. Turn(r) \in Keys
  BY <1>1, <1>2, Assumed DEF Turn, Processes
<1>4. SquadStep
  BY <1>1, <1>2, <1>3 DEF SquadStep
<1>5. PICK q \in Processes : /\ q.pc = "settleVote" /\ q.at = run[r].at
                             /\ run' = [run EXCEPT ![r] = q]
  BY <1>1, GotoRecord DEF Pcs, Settling
<1>6. \A i \in signed' : i \in signed \/ (run[r].pc \in HasRead /\ run[r].at = i)
  BY <1>1 DEF HasRead
<1>7. QED BY <1>1, <1>2, <1>4, <1>5, <1>6, OnMoves

\* Handing the move back advises what is still true of it.
LEMMA HandBackStep ==
    ASSUME IInv, NEW r \in Runs, HandBack(r)
    PROVE  IInv'
<1>1. run[r].pc = "vote" /\ Stop(r) /\ UNCHANGED <<squad, sent, signed, executed>>
  BY DEF HandBack
<1>2. /\ run[r].at \in Indices /\ queue[run[r].at].does = Move /\ run[r].at \in 0..MaxIndex
      /\ plan.expect <= txIndex
  BY <1>1, UnderWay, Assumed DEF Knows, HasRead, IInv, Advised, Indices
<1>3. CASE run[r].expect # plan.expect
  BY <1>1, <1>3, SamePlan, StopMoves DEF HandBack
<1>4. CASE run[r].expect = plan.expect
  <2>1. Tell("execute", run[r].at)
    BY <1>4 DEF HandBack
  <2>2. plan' \in Plans /\ plan'.expect = plan.expect /\ plan'.next = "execute" /\ plan'.at = run[r].at
    BY <1>2, <2>1, TellRecord DEF Commands, Modes
  <2>3. Advised(plan')
    BY <1>2, <2>2 DEF Advised
  <2>4. QED BY <1>1, <2>2, <2>3, StopMoves
<1>5. QED BY <1>3, <1>4

\* What is executed is the move, and it is executed once.
LEMMA ExecuteStep ==
    ASSUME IInv, NEW r \in Runs, ExecuteLands(r)
    PROVE  IInv'
<1>1. /\ run[r].pc = "execute" /\ ExecuteVault(System, run[r].at) /\ Goto(r, "settleExecute")
      /\ signed' = signed \cup {run[r].at} /\ executed' = executed \cup {run[r].at}
      /\ UNCHANGED <<plan, sent>>
  BY DEF ExecuteLands
<1>2. run[r].at \in Indices /\ queue[run[r].at].does = Move
  BY <1>1, UnderWay DEF Knows, HasRead
<1>3. SquadStep
  BY <1>1, <1>2, Assumed DEF SquadStep
<1>4. PICK q \in Processes : /\ q.pc = "settleExecute" /\ q.at = run[r].at
                             /\ run' = [run EXCEPT ![r] = q]
  BY <1>1, GotoRecord DEF Pcs, Settling
<1>5. Knows(q)
  BY <1>2, <1>4 DEF Knows
<1>6. /\ run' \in [Runs -> Processes]
      /\ \A p \in Runs : run'[p].pc # "idle" => run'[p] = run[p] \/ Knows(run'[p])
  BY <1>4, <1>5 DEF IInv, TypeOK
<1>7. /\ \A i \in signed' : i \in signed \/ \E p \in Runs : run[p].pc \in HasRead /\ run[p].at = i
      /\ \A i \in executed' : i \in executed \/ \E p \in Runs : run[p].pc = "execute" /\ run[p].at = i
      /\ executed' \subseteq signed'
  BY <1>1 DEF HasRead, IInv
<1>8. QED BY <1>1, <1>3, <1>6, <1>7, SamePlan, Moves

(* A step the poll has seen: the process reads, votes on, or is done.         *)
LEMMA SettleStep ==
    ASSUME IInv, NEW r \in Runs, Settle(r)
    PROVE  IInv'
<1>1. /\ run[r].pc \in Settling /\ Probe(r)
      /\ UNCHANGED <<squad, sent, signed, executed>>
  BY DEF Settle
<1>2. /\ run[r] \in Processes /\ Knows(run[r]) /\ SquadStep
      /\ run[r].pc \notin {"idle", "scan", "create"}
  BY <1>1, UnderWay DEF Settling
<1>3. CASE run[r].pc = "settleCreate"
  <2>1. Goto(r, "read") /\ UNCHANGED plan
    BY <1>3 DEF Settle
  <2>2. PICK q \in Processes : /\ q.pc = "read" /\ q.at = run[r].at
                               /\ run' = [run EXCEPT ![r] = q]
    BY <1>2, <2>1, GotoRecord DEF Pcs
  <2>3. q.pc \notin HasRead /\ q.pc # "execute"
    BY <2>2 DEF HasRead
  <2>4. QED BY <1>1, <1>2, <2>1, <2>2, <2>3, OnMoves
<1>4. CASE run[r].pc = "settleVote"
  <2> DEFINE owed == run[r].owed \ {Turn(r)}
             q == [run[r] EXCEPT !.pc = "vote", !.tries = 0, !.owed = owed]
  <2>1. run' = [run EXCEPT ![r] = q] /\ UNCHANGED plan
    BY <1>4 DEF Settle
  <2>2. owed \subseteq Agents /\ 0 \in 0..SettleTries
    BY <1>2, Assumed DEF Processes
  <2> HIDE DEF owed
  <2>3. q \in Processes /\ q.pc = "vote" /\ q.at = run[r].at
    BY <1>2, <2>2 DEF Processes, Pcs
  <2> HIDE DEF q
  <2>4. queue[run[r].at].does = Move
    BY <1>2, <1>4 DEF Knows, HasRead
  <2>5. QED BY <1>1, <1>2, <2>1, <2>3, <2>4, OnMoves
<1>5. CASE run[r].pc = "settleExecute"
  <2>1. Stop(r)
    BY <1>5 DEF Settle
  <2>2. CASE run[r].at # plan.at
    <3>1. UNCHANGED plan
      BY <1>5, <2>2 DEF Settle
    <3>2. QED BY <1>1, <2>1, <3>1, SamePlan, StopMoves
  <2>3. CASE run[r].at = plan.at
    <3>1. Tell("done", 0) /\ 0 \in 0..MaxIndex /\ "done" \in Commands
      BY <1>5, <2>3, Assumed DEF Settle, Commands
    <3>2. plan' \in Plans /\ plan'.expect = plan.expect /\ plan'.next = "done"
      BY <3>1, TellRecord
    <3>3. Moved
      BY <1>1, <1>2, <1>5 DEF Probe, Knows, HasRead, Moved
    <3>4. plan.expect <= txIndex
      BY DEF IInv, Advised
    <3>5. Advised(plan')
      BY <3>2, <3>3, <3>4 DEF Advised
    <3>6. QED BY <1>1, <2>1, <3>2, <3>5, StopMoves
  <2>4. QED BY <2>2, <2>3
<1>6. QED BY <1>1, <1>3, <1>4, <1>5 DEF Settling

(* A poll that has not seen it yet only counts, or the process ends.          *)
LEMMA NotYetStep ==
    ASSUME IInv, NEW r \in Runs, NotYet(r)
    PROVE  IInv'
<1>1. run[r].pc \in Settling /\ UNCHANGED <<squad, plan, sent, signed, executed>>
  BY DEF NotYet
<1>2. /\ run[r] \in Processes /\ Knows(run[r]) /\ SquadStep
      /\ run[r].pc \notin {"idle", "scan", "create", "execute"}
  BY <1>1, UnderWay DEF Settling
<1>3. CASE run[r].tries < SettleTries
  <2> DEFINE q == [run[r] EXCEPT !.tries = run[r].tries + 1]
  <2>1. run' = [run EXCEPT ![r] = q]
    BY <1>3 DEF NotYet
  <2>2. run[r].tries + 1 \in 0..SettleTries
    BY <1>2, <1>3, Assumed DEF Processes
  <2>3. q \in Processes /\ q.pc = run[r].pc /\ q.at = run[r].at
    BY <1>2, <2>2 DEF Processes
  <2> HIDE DEF q
  <2>4. QED BY <1>1, <1>2, <2>1, <2>3, OnMoves DEF Knows
<1>4. CASE ~(run[r].tries < SettleTries)
  <2>1. Stop(r)
    BY <1>4 DEF NotYet
  <2>2. QED BY <1>1, <2>1, SamePlan, StopMoves
<1>5. QED BY <1>3, <1>4

(* The other members touch the multisig alone.                                *)
LEMMA ElsewhereStep ==
    ASSUME IInv, Elsewhere
    PROVE  IInv'
<1>1. UNCHANGED <<plan, run, sent, signed, executed>>
  BY DEF Elsewhere
<1>2. SquadStep
  <2>1. CASE \E m \in Members \ Agents, d \in ByHand : Create(m, txIndex + 1, d, "Active")
    <3>1. PICK m \in Members, d \in ByHand : Create(m, txIndex + 1, d, "Active")
      BY <2>1
    <3>2. m \in Keys /\ d \in Acts \cup Swaps /\ txIndex + 1 \in Nat
      BY Assumed DEF Members, IInv, TypeOK, SquadsTypeOK
    <3>3. QED BY <3>1, <3>2 DEF SquadStep
  <2>2. CASE \E m \in Members, i \in Indices :
                Approve(m, i) \/ ExecuteConfig(m, i) \/ ExecuteVault(m, i)
    BY <2>2 DEF SquadStep, Members
  <2>3. CASE \E i \in Indices : Decline(i)
    <3>1. System \in Keys
      BY Assumed
    <3>2. QED BY <2>3, <3>1 DEF SquadStep
  <2>4. \/ \E m \in Members \ Agents, d \in ByHand : Create(m, txIndex + 1, d, "Active")
        \/ \E m \in Members, i \in Indices :
              Approve(m, i) \/ ExecuteConfig(m, i) \/ ExecuteVault(m, i)
        \/ \E i \in Indices : Decline(i)
    BY Zenon DEF Elsewhere
  <2>5. QED BY <2>1, <2>2, <2>3, <2>4
<1>3. /\ run' \in [Runs -> Processes] /\ executed' \subseteq signed'
      /\ \A r \in Runs : run'[r].pc # "idle" => run'[r] = run[r] \/ Knows(run'[r])
  BY <1>1 DEF IInv, TypeOK
<1>4. QED BY <1>1, <1>2, <1>3, SamePlan, Moves

(* Nothing happens.                                                           *)
LEMMA Stutter ==
    ASSUME IInv, UNCHANGED vars
    PROVE  IInv'
<1>1. UNCHANGED <<squad, plan, run, sent, signed, executed>>
  BY DEF vars
<1>2. SquadStep
  BY <1>1 DEF SquadStep
<1>3. /\ run' \in [Runs -> Processes] /\ executed' \subseteq signed'
      /\ \A r \in Runs : run'[r].pc # "idle" => run'[r] = run[r] \/ Knows(run'[r])
  BY <1>1 DEF IInv, TypeOK
<1>4. QED BY <1>1, <1>2, <1>3, SamePlan, Moves

(* Every step preserves the invariant.                                        *)
LEMMA StepInv ==
    ASSUME IInv, [Next]_vars
    PROVE  IInv'
<1>1. ASSUME NEW r \in Runs, Step(r) PROVE IInv'
  <2>1. CASE TurnedAway(r)
    <3>1. Stop(r) /\ UNCHANGED <<squad, plan, sent, signed, executed>>
      BY <2>1 DEF TurnedAway
    <3>2. QED BY <3>1, SamePlan, StopMoves
  <2>2. QED BY <1>1, <2>1, ScanStep, AdviseStep, CreateStep, ReadStep, RefuseStep, VoteStep,
               HandBackStep, ExecuteStep, SettleStep, NotYetStep DEF Step, Proceeds
<1>2. ASSUME NEW r \in Runs, Dies(r) PROVE IInv'
  <2>1. Stop(r) /\ UNCHANGED <<squad, plan, sent, signed, executed>>
    BY <1>2 DEF Dies
  <2>2. QED BY <2>1, SamePlan, StopMoves
<1>3. QED BY <1>1, <1>2, PlanStep, StartSendStep, StartOnStep, ElsewhereStep, Stutter DEF Next

-----------------------------------------------------------------------------
(* The inductive invariant holds of every reachable state.                    *)
LEMMA Invariant == Spec => []IInv
BY InitInv, StepInv, PTL DEF Spec

(* The types of the ceremony's state: no index a process is pointed at leaves *)
(* the queue, and no count of polls its bound.                                *)
THEOREM TypeCorrect == Spec => []TypeOK
<1>1. IInv => TypeOK
  BY DEF IInv
<1>2. QED BY <1>1, Invariant, PTL

(* For every number of runs, retries and dead proposals, of the transactions  *)
(* squad-vault-transfer.js created for a move at most one stands.             *)
THEOREM TheMoveIsMadeOnce == Spec => []OneMove
<1>1. IInv => OneMove
  <2> SUFFICES ASSUME IInv, NEW i \in sent, NEW j \in sent, Standing(i), Standing(j)
               PROVE  i = j
    BY DEF OneMove
  <2>1. /\ i \in Int /\ j \in Int /\ plan.expect \in Int
        /\ i <= plan.expect + 1 /\ ~(i <= plan.expect)
        /\ j <= plan.expect + 1 /\ ~(j <= plan.expect)
    BY DEF IInv, TypeOK, SentInv, Indices, Plans
  <2>2. QED BY <2>1
<1>2. QED BY <1>1, Invariant, PTL

(* The read-back of squad-vault-transfer.js stands between an agent's key and *)
(* any index: what an agent approved or executed is the planned transfer.     *)
THEOREM OnlyTheMoveIsSigned == Spec => []SignsOnlyTheMove
<1>1. IInv => SignsOnlyTheMove
  BY DEF IInv
<1>2. QED BY <1>1, Invariant, PTL

(* The execution gate is read before the execution lands, and still stands    *)
(* when it does: on mainnet no agent executes without an operator.            *)
THEOREM OperatorsApproveExecutions == Spec => []OperatorApproved
<1>1. IInv => OperatorApproved
  BY DEF IInv
<1>2. QED BY <1>1, Invariant, PTL

(* What the tool told its operator last never goes wrong while it waits, not  *)
(* even when the run that said it overlapped others.                          *)
THEOREM TheAdviceIsTrue == Spec => []AdviceIsTrue
<1>1. IInv => AdviceIsTrue
  BY DEF IInv, Advised, AdviceIsTrue, Moved
<1>2. QED BY <1>1, Invariant, PTL
=============================================================================
