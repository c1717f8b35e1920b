---------------------- MODULE AdminSeatRotationProofs ----------------------
(***************************************************************************)
(* Safety of the rotation of a seat, for every roster, membership, number  *)
(* of overlapping runs and of transactions in flight.                      *)
(*                                                                         *)
(* Nothing a run knows is locked while its transactions travel.  The       *)
(* argument is about time: the mask of a seat only changes when a swap is  *)
(* executed, which makes every index given out until then stale, so a      *)
(* live transaction is at most one swap behind, and while it is, the       *)
(* outgoing seat is not a member.                                          *)
(***************************************************************************)
EXTENDS AdminSeatRotation, TLAPS

(* An index holds a transaction exactly when it has been given out.          *)
Created ==
    /\ \A i \in Indices : i <= txIndex <=> queue[i].does # Nothing
    /\ stale <= txIndex

(* The mask is still what Out holds, or index i is next after the swap that   *)
(* took it away.                                                             *)
Holds(i, mask) ==
    i > stale => \/ Out \in Members /\ perm[Out] = mask
                 \/ Out \notin Members /\ i = stale + 1

Exact(i) ==
    /\ i \in Indices /\ i <= txIndex
    /\ \E mask \in SUBSET Permissions : queue[i].does = Swap(mask) /\ Holds(i, mask)

(* What is decided stays so; what had no proposal was seen to have none.      *)
Closed(i) == queue[i].status \in {"Declined", "Executed"} \/ i \in unseen
ClosedBelow(i) == \A j \in Indices : stale < j /\ j < i => Closed(j)

OperatorAgreed(i) == Mainnet => queue[i].approved \cap Operators # {}

HasRead == {"propose", "settlePropose", "vote", "settleVote", "execute", "settleExecute"}

(* What a process under way has made sure of.                                *)
Knows(p) ==
    /\ p.at \in Indices /\ p.at <= txIndex + 1
    /\ Holds(p.at, p.mask)
    /\ p.pc \in {"readVote", "readExecute"} => p.at <= txIndex
    /\ p.pc = "look" => p.look <= p.at /\ (p.open \/ ClosedBelow(p.look))
    /\ p.pc \in HasRead => p.at <= txIndex /\ queue[p.at].does = Swap(p.mask)
    /\ p.pc = "execute" => OperatorAgreed(p.at)
Known == \A r \in Runs : run[r].pc # "idle" => Knows(run[r])

(* What holds of a transaction for as long as it may land.                   *)
Carries(m) ==
    /\ m.at <= txIndex + 1
    /\ m.what = "make" => Holds(m.at, m.mask) /\ ClosedBelow(m.at)
    /\ m.what \in {"vote", "execute"} => Exact(m.at)
    /\ m.what = "execute" => OperatorAgreed(m.at)
Travelling == \A m \in flight : Carries(m)

MadeInv == \A i \in made : i <= txIndex /\ ClosedBelow(i)
SignedInv == \A i \in signed : Exact(i)

IInv == TypeOK /\ Created /\ Known /\ Travelling /\ MadeInv /\ SignedInv

-----------------------------------------------------------------------------
(* What time does to an entry of the queue.                                  *)
Later(e, f) ==
    /\ f.does = e.does /\ e.approved \subseteq f.approved
    /\ e.status \in {"Executed", "Declined"} => f.status = e.status
Kept == \A i \in Indices : queue[i].does # Nothing => Later(queue[i], queue'[i])

(* And to the members: nothing, or one swap that makes all there is stale.    *)
Swapped ==
    /\ stale < txIndex /\ stale' = txIndex /\ txIndex' = txIndex
    /\ \E out \in Keys, in \in Keys, mask \in SUBSET Permissions :
          /\ perm[out] # {} /\ perm[in] = {}
          /\ perm' = [perm EXCEPT ![out] = {}, ![in] = mask]
MembersMove == Swapped \/ UNCHANGED <<perm, stale>>

Voting(m, i) == Propose(m, i) \/ Approve(m, i) \/ Decline(i)
SquadStep ==
    \/ \E m \in Keys, i \in Nat, d \in Acts \cup Swaps, s \in {"none", "Active"} : Create(m, i, d, s)
    \/ \E m \in Keys, i \in Indices : Voting(m, i) \/ ExecuteConfig(m, i)
    \/ UNCHANGED squad

\* What the assumptions on the constants come to here.
LEMMA Assumed ==
    /\ MaxIndex \in Nat
    /\ Nothing \notin Acts \cup Swaps
    /\ Swaps \subseteq [out : Keys, in : Keys, mask : SUBSET Permissions]
    /\ ByHand \subseteq Acts \cup Swaps
    /\ \A mask \in SUBSET Permissions : Swap(mask) \in Swaps
    /\ System \in Agents /\ Agents \subseteq Keys
    /\ Out \in Keys /\ In \in Keys /\ Out # In
BY SquadsAssumption, RotationAssumption DEF Swap

(* A new entry at the next index.                                             *)
LEMMA CreateMoves ==
    ASSUME SquadsTypeOK, Created,
           NEW m \in Keys, NEW i \in Nat, NEW d \in Acts \cup Swaps,
           NEW s \in {"none", "Active"}, Create(m, i, d, s)
    PROVE  /\ SquadsTypeOK' /\ Created' /\ Kept /\ MembersMove
           /\ i \in Indices /\ i = txIndex + 1 /\ txIndex' = i /\ queue'[i].does = d
<1> USE Assumed DEF SquadsTypeOK, Created, Indices
<1> DEFINE e == [does |-> d, status |-> s, approved |-> {}]
<1>1. /\ i = txIndex + 1 /\ i \in 1..MaxIndex /\ txIndex' = i
      /\ perm' = perm /\ stale' = stale /\ queue' = [queue EXCEPT ![i] = e]
  BY DEF Create, CanCreate
<1>2. e \in Entries /\ e.does = d
  BY DEF Entries, Statuses
<1>3. \A j \in Indices : queue'[j] = IF j = i THEN e ELSE queue[j]
  BY <1>1
<1> HIDE DEF e
<1>4. queue[i].does = Nothing
  BY <1>1
<1>5. SquadsTypeOK' /\ Created'
  BY <1>1, <1>2, <1>3
<1>6. Kept
  BY <1>3, <1>4 DEF Kept, Later
<1>7. QED BY <1>1, <1>2, <1>3, <1>5, <1>6 DEF MembersMove

(* A proposal, a vote or a refusal only moves the proposal on.                *)
LEMMA VotingMoves ==
    ASSUME SquadsTypeOK, Created, NEW m \in Keys, NEW i \in Indices, Voting(m, i)
    PROVE  SquadsTypeOK' /\ Created' /\ Kept /\ MembersMove /\ txIndex' = txIndex
<1> USE Assumed DEF SquadsTypeOK, Created
<1> DEFINE q == queue[i]
           With(s, a) == [q EXCEPT !.approved = a, !.status = s]
<1>1. q \in Entries
  OBVIOUS
<1>2. \A s \in Statuses, a \in SUBSET Keys :
         /\ With(s, a) \in Entries /\ With(s, a).does = q.does
         /\ With(s, a).approved = a /\ With(s, a).status = s
  BY <1>1 DEF Entries
<1>3. /\ {"Active", "Approved", "Declined"} \subseteq Statuses
      /\ q.approved \in SUBSET Keys /\ q.approved \cup {m} \in SUBSET Keys
  BY <1>1 DEF Entries, Statuses
<1>4. Propose(m, i) => queue' = [queue EXCEPT ![i] = With("Active", q.approved)]
  BY <1>1 DEF Propose, Entries
<1>5. Decline(i) => queue' = [queue EXCEPT ![i] = With("Declined", q.approved)]
  BY <1>1 DEF Decline, Entries
<1>6. Approve(m, i) =>
         \/ queue' = [queue EXCEPT ![i] = With("Active", q.approved \cup {m})]
         \/ queue' = [queue EXCEPT ![i] = With("Approved", q.approved \cup {m})]
  BY Zenon DEF Approve
<1>7. q.status \in {"none", "Active", "Approved"} /\ UNCHANGED <<perm, txIndex, stale>>
  BY DEF Voting, Propose, CanPropose, Approve, CanApprove, Decline
<1> HIDE DEF With
<1>8. PICK e \in Entries :
         /\ e.does = q.does /\ q.approved \subseteq e.approved
         /\ queue' = [queue EXCEPT ![i] = e]
  BY <1>2, <1>3, <1>4, <1>5, <1>6 DEF Voting
<1> HIDE DEF q
<1>9. \A j \in Indices : queue'[j] = IF j = i THEN e ELSE queue[j]
  BY <1>8
<1>10. Later(queue[i], e)
  BY <1>7, <1>8 DEF Later, q
<1>11. SquadsTypeOK'
  BY <1>7, <1>8
<1>12. Created'
  BY <1>7, <1>8, <1>9 DEF q
<1>13. Kept
  <2>1. \A j \in Indices : Later(queue[j], queue[j])
    BY DEF Later
  <2>2. QED BY <1>9, <1>10, <2>1 DEF Kept
<1>14. QED BY <1>7, <1>11, <1>12, <1>13 DEF MembersMove

(* A swap that is executed.                                                   *)
LEMMA ExecuteMoves ==
    ASSUME SquadsTypeOK, Created, NEW m \in Keys, NEW i \in Indices, ExecuteConfig(m, i)
    PROVE  /\ SquadsTypeOK' /\ Created' /\ Kept /\ MembersMove /\ txIndex' = txIndex
           /\ i > stale /\ perm[queue[i].does.out] # {} /\ queue'[i].approved = queue[i].approved
<1> USE Assumed DEF SquadsTypeOK, Created
<1> DEFINE e == [queue[i] EXCEPT !.status = "Executed"]
           d == queue[i].does
<1>1. queue[i] \in Entries /\ i \in stale + 1..txIndex /\ stale \in Int /\ txIndex \in Int
  BY DEF ExecuteConfig, CanExecuteConfig
<1>2. /\ queue' = [queue EXCEPT ![i] = e] /\ stale' = txIndex /\ txIndex' = txIndex
      /\ d \in [out : Keys, in : Keys, mask : SUBSET Permissions]
      /\ queue[i].status = "Approved" /\ perm[d.out] # {} /\ perm[d.in] = {}
      /\ perm' = [perm EXCEPT ![d.out] = {}, ![d.in] = d.mask]
  BY DEF ExecuteConfig, CanExecuteConfig
<1>3. e \in Entries /\ e.does = d /\ e.approved = queue[i].approved
  BY <1>1 DEF Entries, Statuses
<1>4. \A j \in Indices : queue'[j] = IF j = i THEN e ELSE queue[j]
  BY <1>2
<1>5. Later(queue[i], e)
  BY <1>2, <1>3 DEF Later
<1> HIDE DEF e, d
<1>6. Swapped
  <2>1. d.out \in Keys /\ d.in \in Keys /\ d.mask \in SUBSET Permissions
    BY <1>2
  <2>2. \E out \in Keys, in \in Keys, mask \in SUBSET Permissions :
           /\ perm[out] # {} /\ perm[in] = {}
           /\ perm' = [perm EXCEPT ![out] = {}, ![in] = mask]
    BY <1>2, <2>1
  <2>3. stale < txIndex
    BY <1>1
  <2>4. QED BY <1>2, <2>2, <2>3 DEF Swapped
<1>7. SquadsTypeOK'
  BY <1>1, <1>2, <1>3
<1>8. Created'
  BY <1>1, <1>2, <1>3, <1>4 DEF d
<1>9. Kept
  <2>1. \A j \in Indices : Later(queue[j], queue[j])
    BY DEF Later
  <2>2. QED BY <1>4, <1>5, <2>1 DEF Kept
<1>10. QED BY <1>1, <1>2, <1>3, <1>4, <1>6, <1>7, <1>8, <1>9 DEF MembersMove, d

(* Every step of the multisig: what was created stays what it is, and the     *)
(* members stay or all that was created turns stale.                         *)
LEMMA SquadMoves ==
    ASSUME SquadsTypeOK, Created, SquadStep
    PROVE  /\ SquadsTypeOK' /\ Created' /\ Kept /\ MembersMove
           /\ txIndex \in Nat /\ txIndex' \in Nat /\ txIndex <= txIndex'
           /\ stale \in Nat /\ stale' \in Nat /\ stale <= stale'
<1>1. SquadsTypeOK' /\ Created' /\ Kept /\ MembersMove /\ txIndex' \in {txIndex, txIndex + 1}
  <2>1. CASE \E m \in Keys, i \in Nat, d \in Acts \cup Swaps, s \in {"none", "Active"} :
               Create(m, i, d, s)
    BY <2>1, CreateMoves
  <2>2. CASE \E m \in Keys, i \in Indices : Voting(m, i) \/ ExecuteConfig(m, i)
    BY <2>2, VotingMoves, ExecuteMoves
  <2>3. CASE UNCHANGED squad
    <3>1. perm' = perm /\ txIndex' = txIndex /\ stale' = stale /\ queue' = queue
      BY <2>3 DEF squad
    <3>2. \A j \in Indices : Later(queue[j], queue[j])
      BY DEF Later
    <3>3. QED BY <3>1, <3>2 DEF Kept, MembersMove, SquadsTypeOK, Created
  <2>4. QED BY <2>1, <2>2, <2>3 DEF SquadStep
<1>2. stale \in Nat /\ txIndex \in Nat /\ stale <= txIndex
  BY Assumed DEF SquadsTypeOK, Created
<1>3. stale' \in {stale, txIndex}
  BY <1>1 DEF MembersMove, Swapped
<1>4. /\ txIndex' \in Nat /\ txIndex <= txIndex'
      /\ stale' \in Nat /\ stale <= stale'
  BY <1>1, <1>2, <1>3
<1>5. QED BY <1>1, <1>2, <1>4

-----------------------------------------------------------------------------
(* At most one swap passes a live transaction, and it takes Out's seat away;  *)
(* the next one makes it stale.                                              *)
LEMMA HoldsStays ==
    ASSUME SquadsTypeOK, Created, SquadStep, NEW i \in Indices, i <= txIndex + 1,
           NEW mask, Holds(i, mask)
    PROVE  Holds(i, mask)'
<1>1. /\ SquadsTypeOK' /\ MembersMove
      /\ txIndex \in Nat /\ stale \in Nat /\ stale' \in Nat /\ i \in Int
  BY SquadMoves, Assumed DEF Indices
<1>2. (Out \in Members <=> perm[Out] # {}) /\ (Out \in Members' <=> perm'[Out] # {})
  BY Assumed DEF Members
<1>3. CASE UNCHANGED <<perm, stale>>
  BY <1>3 DEF Holds, Members
<1>4. CASE Swapped
  <2>1. stale < txIndex /\ stale' = txIndex
    BY <1>4 DEF Swapped
  <2>2. perm'[Out] = perm[Out] \/ perm'[Out] = {} \/ Out \notin Members
    BY <1>2, <1>4, Assumed DEF Swapped, SquadsTypeOK
  <2>3. CASE i > stale /\ Out \in Members /\ perm[Out] = mask
    BY <1>1, <1>2, <2>1, <2>2, <2>3 DEF Holds
  <2>4. CASE i > stale /\ Out \notin Members /\ i = stale + 1
    BY <1>1, <2>1, <2>4 DEF Holds
  <2>5. CASE ~(i > stale)
    BY <1>1, <2>1, <2>5 DEF Holds
  <2>6. QED BY <2>3, <2>4, <2>5 DEF Holds
<1>5. QED BY <1>1, <1>3, <1>4 DEF MembersMove

\* A swap that grants what is held goes on doing so, whatever the chain does.
LEMMA ExactStays ==
    ASSUME SquadsTypeOK, Created, SquadStep, NEW i \in Indices, Exact(i)
    PROVE  Exact(i)'
<1>1. PICK mask \in SUBSET Permissions : queue[i].does = Swap(mask) /\ Holds(i, mask)
  BY DEF Exact
<1>2. i <= txIndex /\ i <= txIndex + 1 /\ i <= txIndex'
  BY SquadMoves, Assumed DEF Exact, Indices
<1>3. queue'[i].does = Swap(mask)
  <2>1. Swap(mask) # Nothing
    BY Assumed
  <2>2. QED BY <1>1, <2>1, SquadMoves DEF Kept, Later
<1>4. Holds(i, mask)'
  BY <1>1, <1>2, HoldsStays
<1>5. QED BY <1>2, <1>3, <1>4 DEF Exact, Swap

(* What is closed below an index stays closed: everything there was created.  *)
LEMMA ClosedStays ==
    ASSUME SquadsTypeOK, Created, SquadStep, unseen \subseteq unseen',
           NEW i \in Nat, i <= txIndex + 1, ClosedBelow(i)
    PROVE  ClosedBelow(i)'
<1> SUFFICES ASSUME NEW j \in Indices, stale' < j, j < i PROVE Closed(j)'
  BY DEF ClosedBelow
<1>1. stale < j /\ j <= txIndex
  BY SquadMoves, Assumed DEF Indices
<1>2. Closed(j)
  BY <1>1 DEF ClosedBelow
<1>3. Later(queue[j], queue'[j])
  BY <1>1, SquadMoves DEF Created, Kept
<1>4. QED BY <1>2, <1>3 DEF Closed, Later

\* An operator's approval is never withdrawn.
LEMMA AgreedStays ==
    ASSUME SquadsTypeOK, Created, SquadStep, NEW i \in Indices, i <= txIndex, OperatorAgreed(i)
    PROVE  OperatorAgreed(i)'
<1>1. Later(queue[i], queue'[i])
  BY SquadMoves DEF Created, Kept
<1>2. QED BY <1>1 DEF OperatorAgreed, Later

(* What a process knows and what a transaction carries stays so, whatever the *)
(* others do.                                                                *)
LEMMA KnowsStays ==
    ASSUME SquadsTypeOK, Created, SquadStep, unseen \subseteq unseen',
           NEW p, p.pc # "idle", p.look \in Nat, p.mask \in SUBSET Permissions, Knows(p)
    PROVE  Knows(p)'
<1>1. p.at \in Indices /\ p.at \in Nat /\ p.at <= txIndex + 1 /\ p.at <= txIndex' + 1
      /\ (p.at <= txIndex => p.at <= txIndex')
  BY SquadMoves, Assumed DEF Knows, Indices
<1>2. Holds(p.at, p.mask)'
  BY <1>1, HoldsStays DEF Knows
<1>3. p.pc = "look" => p.look <= p.at /\ (p.open \/ ClosedBelow(p.look)')
  <2> SUFFICES ASSUME p.pc = "look", ~p.open PROVE p.look <= p.at /\ ClosedBelow(p.look)'
    BY DEF Knows
  <2>1. p.look <= p.at /\ ClosedBelow(p.look)
    BY DEF Knows
  <2>2. p.look <= txIndex + 1
    BY <1>1, <2>1, SquadMoves
  <2>3. QED BY <2>1, <2>2, ClosedStays
<1>4. p.pc \in HasRead => p.at <= txIndex' /\ queue'[p.at].does = Swap(p.mask)
  <2>1. Swap(p.mask) # Nothing
    BY Assumed
  <2>2. QED BY <1>1, <2>1, SquadMoves DEF Knows, Kept, Later
<1>5. p.pc = "execute" => OperatorAgreed(p.at)'
  BY <1>1, AgreedStays DEF Knows, HasRead
<1>6. p.pc \in {"readVote", "readExecute"} => p.at <= txIndex'
  BY <1>1 DEF Knows
<1>7. QED BY <1>1, <1>2, <1>3, <1>4, <1>5, <1>6 DEF Knows, Swap

\* What holds of a transaction in flight holds until it lands.
LEMMA CarriesStays ==
    ASSUME SquadsTypeOK, Created, SquadStep, unseen \subseteq unseen',
           NEW m \in Messages, Carries(m)
    PROVE  Carries(m)'
<1>1. m.at \in Indices /\ m.at \in Nat /\ m.at <= txIndex + 1 /\ m.at <= txIndex' + 1
  BY SquadMoves, Assumed DEF Messages, Carries, Indices
<1>2. m.what = "make" => Holds(m.at, m.mask)' /\ ClosedBelow(m.at)'
  BY <1>1, HoldsStays, ClosedStays DEF Carries
<1>3. m.what \in {"vote", "execute"} => Exact(m.at)'
  BY <1>1, ExactStays DEF Carries
<1>4. m.what = "execute" => OperatorAgreed(m.at)'
  BY <1>1, AgreedStays DEF Carries, Exact
<1>5. QED BY <1>1, <1>2, <1>3, <1>4 DEF Carries

-----------------------------------------------------------------------------
(* What every step does: a step of the multisig, processes and transactions   *)
(* that rest only on what is so, and a history that grows by what they do.    *)
LEMMA Moves ==
    ASSUME IInv, SquadStep, TypeOK', unseen \subseteq unseen',
           \A r \in Runs : run'[r].pc # "idle" => run'[r] = run[r] \/ Knows(run[r])',
           \A m \in flight' : m \in flight \/ Carries(m)',
           \A i \in made' : i \in made \/ (i <= txIndex' /\ ClosedBelow(i)'),
           \A i \in signed' : i \in signed \/ Exact(i)'
    PROVE  IInv'
<1> USE DEF IInv
<1>1. SquadsTypeOK /\ Created' /\ txIndex \in Nat /\ txIndex' \in Nat /\ txIndex <= txIndex'
  BY SquadMoves DEF TypeOK
<1>2. Known'
  <2> SUFFICES ASSUME NEW r \in Runs, run'[r].pc # "idle" PROVE Knows(run[r])'
    BY DEF Known
  <2>1. CASE run'[r] = run[r]
    <3>1. /\ run[r].pc # "idle" /\ run[r].look \in Nat
          /\ run[r].mask \in SUBSET Permissions /\ Knows(run[r])
      BY <2>1, Assumed DEF Known, TypeOK
    <3>2. PICK p : p = run[r]
      OBVIOUS
    <3>3. Knows(p)'
      BY <1>1, <3>1, <3>2, KnowsStays
    <3>4. QED BY <2>1, <3>2, <3>3
  <2>2. QED BY <2>1
<1>3. Travelling'
  <2> SUFFICES ASSUME NEW m \in flight' PROVE Carries(m)'
    BY DEF Travelling
  <2>1. CASE m \in flight
    <3>1. m \in Messages /\ Carries(m)
      BY <2>1 DEF TypeOK, Travelling
    <3>2. QED BY <1>1, <3>1, CarriesStays
  <2>2. QED BY <2>1
<1>4. MadeInv'
  <2> SUFFICES ASSUME NEW i \in made' PROVE i <= txIndex' /\ ClosedBelow(i)'
    BY DEF MadeInv
  <2>1. CASE i \in made
    <3>1. i \in Nat /\ i <= txIndex /\ ClosedBelow(i)
      BY <2>1, Assumed DEF MadeInv, TypeOK, Indices
    <3>2. i <= txIndex + 1 /\ i <= txIndex'
      BY <1>1, <3>1
    <3>3. QED BY <1>1, <3>1, <3>2, ClosedStays
  <2>2. QED BY <2>1
<1>5. SignedInv'
  <2> SUFFICES ASSUME NEW i \in signed' PROVE Exact(i)'
    BY DEF SignedInv
  <2>1. CASE i \in signed
    BY <1>1, <2>1, ExactStays DEF SignedInv, TypeOK
  <2>2. QED BY <2>1
<1>6. QED BY <1>1, <1>2, <1>3, <1>4, <1>5

(* The initial states satisfy the invariant.                                  *)
LEMMA InitInv == Init => IInv
<1> SUFFICES ASSUME Init PROVE IInv
  OBVIOUS
<1> USE Assumed DEF Init
<1>1. SquadsTypeOK /\ Created
  BY RotationAssumption
     DEF SquadsInit, SquadsTypeOK, Created, Indices, Empty, Entries, Statuses, Permissions
<1>2. TypeOK
  BY <1>1 DEF TypeOK, Idle, Pcs
<1>3. Known /\ Travelling /\ MadeInv /\ SignedInv
  BY DEF Known, Travelling, MadeInv, SignedInv, Idle
<1>4. QED BY <1>1, <1>2, <1>3 DEF IInv

-----------------------------------------------------------------------------
Processes == [pc : Pcs, at : 0..MaxIndex, look : 1..MaxIndex + 1,
              open : BOOLEAN, stale : 0..MaxIndex, mask : SUBSET Permissions,
              owed : SUBSET Agents]

(* A process goes on alone, on what it knows, and sends what it may.          *)
LEMMA ProcessMoves ==
    ASSUME IInv, UNCHANGED <<squad, history>>,
           NEW r \in Runs, NEW q \in Processes, run' = [run EXCEPT ![r] = q],
           q.pc # "idle" => Knows(q),
           flight' \subseteq Messages, \A m \in flight' : m \in flight \/ Carries(m)
    PROVE  IInv'
<1> USE DEF IInv
<1>1. /\ perm' = perm /\ txIndex' = txIndex /\ stale' = stale /\ queue' = queue
      /\ unseen' = unseen /\ made' = made /\ signed' = signed /\ executed' = executed
  BY DEF squad, history
<1>2. SquadStep /\ SquadsTypeOK
  BY DEF SquadStep, TypeOK
<1>3. run \in [Runs -> Processes]
  BY DEF TypeOK, Processes
<1>4. run' \in [Runs -> Processes] /\ run'[r] = q /\ \A p \in Runs \ {r} : run'[p] = run[p]
  BY <1>3
<1>5. TypeOK'
  BY <1>1, <1>4 DEF TypeOK, SquadsTypeOK, Processes
<1>6. q.pc # "idle" => Knows(q)'
  BY <1>1, <1>2, KnowsStays, Assumed DEF Processes
<1>7. \A p \in Runs : run'[p].pc # "idle" => run'[p] = run[p] \/ Knows(run[p])'
  BY <1>4, <1>6
<1>8. \A m \in flight' : m \in flight \/ Carries(m)'
  BY <1>1, <1>2, CarriesStays
<1>9. QED BY <1>1, <1>2, <1>5, <1>7, <1>8, Moves

(* It stops.                                                                  *)
LEMMA StopMoves ==
    ASSUME IInv, NEW r \in Runs, Stop(r), UNCHANGED <<squad, flight, history>>
    PROVE  IInv'
<1>1. Idle \in Processes /\ Idle.pc = "idle"
  BY Assumed DEF Idle, Processes, Pcs
<1>2. flight' \subseteq Messages /\ flight' = flight
  BY DEF IInv, TypeOK
<1>3. UNCHANGED <<squad, history>> /\ run' = [run EXCEPT ![r] = Idle]
  BY DEF Stop
<1>4. QED BY <1>1, <1>2, <1>3, ProcessMoves

(* It goes on to another point of its run.                                    *)
LEMMA GotoMoves ==
    ASSUME IInv, UNCHANGED <<squad, history>>,
           NEW r \in Runs, run[r].pc # "idle", NEW x \in Pcs, Goto(r, x),
           x \notin {"look", "readVote", "readExecute"},
           x \in HasRead => queue[run[r].at].does = Swap(run[r].mask),
           x = "execute" => OperatorAgreed(run[r].at),
           flight' \subseteq Messages, \A m \in flight' : m \in flight \/ Carries(m)
    PROVE  IInv'
<1> DEFINE p == run[r]
           q == [p EXCEPT !.pc = x, !.look = 1, !.stale = 0]
<1>1. p \in Processes /\ Knows(p)
  BY DEF IInv, TypeOK, Known, Processes
<1>2. run' = [run EXCEPT ![r] = q]
  BY DEF Goto, IInv, TypeOK
<1> HIDE DEF p
<1>3. q \in Processes /\ q.pc = x /\ q.at = p.at /\ q.mask = p.mask
  <2>1. 1 \in 1..MaxIndex + 1 /\ 0 \in 0..MaxIndex
    BY Assumed
  <2>2. QED BY <1>1, <2>1 DEF Processes
<1> HIDE DEF q
<1>4. x \in HasRead => p.at <= txIndex /\ queue[p.at].does = Swap(p.mask)
  <2>1. Swap(p.mask) # Nothing
    BY <1>1, Assumed DEF Processes
  <2>2. QED BY <1>1, <2>1 DEF p, Knows, IInv, Created
<1>5. Knows(q)
  <2>1. q.at \in Indices /\ q.at <= txIndex + 1 /\ Holds(q.at, q.mask)
    BY <1>1, <1>3 DEF Knows
  <2>2. q.pc \in HasRead => q.at <= txIndex /\ queue[q.at].does = Swap(q.mask)
    BY <1>3, <1>4
  <2>3. QED BY <1>3, <2>1, <2>2 DEF Knows, p
<1>6. QED BY <1>2, <1>3, <1>5, ProcessMoves

(* A run begins: what it reads is so, and it has looked at nothing.           *)
LEMMA BeginMoves ==
    ASSUME IInv, NEW r \in Runs, NEW i \in Indices, NEW owed \in SUBSET Agents,
           NEW pc \in {"look", "readVote", "readExecute"}, Begin(r, i, owed, pc),
           pc = "look" => i = txIndex + 1, pc # "look" => i <= txIndex
    PROVE  IInv'
<1> DEFINE q == [Idle EXCEPT !.pc = pc, !.at = i,
                             !.look = IF pc = "look" THEN FirstLive ELSE 1,
                             !.stale = stale, !.mask = perm[Out], !.owed = owed]
<1>1. /\ txIndex \in Nat /\ stale \in 0..MaxIndex /\ stale <= txIndex /\ txIndex <= MaxIndex
      /\ i \in Nat /\ i <= MaxIndex /\ perm[Out] \in SUBSET Permissions
  BY Assumed DEF IInv, TypeOK, SquadsTypeOK, Created, Indices
<1>2. /\ q.pc = pc /\ q.at = i /\ q.mask = perm[Out] /\ ~q.open
      /\ q.look = (IF pc = "look" THEN stale + 1 ELSE 1)
  BY DEF Idle, FirstLive
<1>3. q \in Processes
  <2>1. pc \in Pcs /\ (IF pc = "look" THEN stale + 1 ELSE 1) \in 1..MaxIndex + 1
    BY <1>1, Assumed DEF Pcs
  <2>2. i \in 0..MaxIndex
    BY <1>1
  <2>3. QED BY <1>1, <2>1, <2>2 DEF Idle, FirstLive, Processes
<1>4. run' = [run EXCEPT ![r] = q] /\ Out \in Members /\ UNCHANGED <<squad, flight, history>>
  BY DEF Begin, CanRun, PlanFits
<1> HIDE DEF q
<1>5. ClosedBelow(stale + 1)
  BY <1>1, Assumed DEF ClosedBelow, Indices
<1>6. Knows(q)
  <2>1. q.pc \notin HasRead /\ q.pc # "execute"
    BY <1>2 DEF HasRead
  <2>2. q.pc = "look" => q.look <= q.at /\ ClosedBelow(q.look)
    BY <1>1, <1>2, <1>5
  <2>3. Holds(q.at, q.mask)
    BY <1>2, <1>4 DEF Holds
  <2>4. q.at \in Indices /\ q.at <= txIndex + 1 /\ (q.pc # "look" => q.at <= txIndex)
    BY <1>1, <1>2
  <2>5. QED BY <2>1, <2>2, <2>3, <2>4 DEF Knows
<1>7. flight' = flight /\ flight' \subseteq Messages /\ UNCHANGED <<squad, history>>
  BY <1>4 DEF IInv, TypeOK
<1>8. QED BY <1>3, <1>4, <1>6, <1>7, ProcessMoves

(* What a process under way is and knows.                                     *)
LEMMA UnderWay ==
    ASSUME IInv, NEW r \in Runs, run[r].pc # "idle"
    PROVE  /\ run[r] \in Processes /\ Knows(run[r])
           /\ run[r].at \in Indices /\ run[r].mask \in SUBSET Permissions
           /\ run[r].owed \subseteq Agents
BY DEF IInv, TypeOK, Known, Processes, Knows

(* One transaction more in flight, which carries what is so.                  *)
LEMMA SendMoves ==
    ASSUME IInv, NEW r \in Runs, run[r].pc # "idle",
           NEW what \in {"make", "propose", "vote", "execute"}, NEW by \in Agents,
           NEW x \in {"settleMake", "settlePropose", "settleVote", "settleExecute"},
           Send(r, what, by, x),
           x # "settleMake" => queue[run[r].at].does = Swap(run[r].mask),
           what = "make" => ClosedBelow(run[r].at),
           what \in {"vote", "execute"} => Exact(run[r].at),
           what = "execute" => OperatorAgreed(run[r].at)
    PROVE  IInv'
<1> DEFINE m == [what |-> what, by |-> by, at |-> run[r].at,
                 mask |-> IF what = "make" THEN run[r].mask ELSE {}]
<1>1. m \in Messages
  BY UnderWay DEF Messages
<1>2. /\ m.what = what /\ m.at = run[r].at /\ (what = "make" => m.mask = run[r].mask)
      /\ flight' = flight \cup {m} /\ Goto(r, x) /\ UNCHANGED <<squad, history>>
  BY DEF Send
<1> HIDE DEF m
<1>3. Carries(m)
  BY <1>2, UnderWay DEF Carries, Knows
<1>4. flight' \subseteq Messages /\ \A n \in flight' : n \in flight \/ Carries(n)
  BY <1>1, <1>2, <1>3 DEF IInv, TypeOK
<1>5. x \in Pcs /\ x \notin {"look", "readVote", "readExecute"} /\ x # "execute"
      /\ (x \in HasRead => x # "settleMake")
  BY DEF Pcs, Settling, HasRead
<1>6. QED BY <1>2, <1>4, <1>5, GotoMoves

\* A process that has read its swap back knows that it is exact.
LEMMA ReadIsExact ==
    ASSUME IInv, NEW r \in Runs, run[r].pc \in HasRead
    PROVE  queue[run[r].at].does = Swap(run[r].mask) /\ Exact(run[r].at)
BY UnderWay DEF HasRead, Knows, Exact

(* openProposals adds one index to those that are closed, unseen, or stop it. *)
LEMMA LookStep == ASSUME IInv, NEW r \in Runs, Look(r) PROVE IInv'
<1>0. PICK p, i, q : /\ p = run[r] /\ i = p.look
                     /\ q = [p EXCEPT !.look = i + 1, !.open = @ \/ Open(queue[i].status)]
  OBVIOUS
<1>1. /\ p.pc = "look" /\ i < p.at
      /\ run' = [run EXCEPT ![r] = q]
      /\ unseen' = (IF queue[i].status = "none" THEN unseen \cup {i} ELSE unseen)
      /\ UNCHANGED <<squad, flight, made, signed, executed>>
  BY <1>0 DEF Look, IInv, TypeOK
<1>2. p \in Processes /\ Knows(p) /\ p.at \in Indices /\ i \in Nat /\ i >= 1
  BY <1>0, <1>1, UnderWay, Assumed DEF Processes
<1>3. i \in Indices /\ i + 1 \in 1..MaxIndex + 1 /\ i + 1 <= p.at
  BY <1>1, <1>2, Assumed DEF Indices
<1>4. /\ q \in Processes /\ q.pc = p.pc /\ q.at = p.at /\ q.mask = p.mask
      /\ q.look = i + 1 /\ q.open = (p.open \/ Open(queue[i].status))
  BY <1>0, <1>2, <1>3 DEF Processes, Open
<1>5. queue[i] \in Entries /\ SquadStep /\ SquadsTypeOK /\ Created /\ unseen \subseteq unseen'
      /\ queue' = queue /\ stale' = stale /\ txIndex' = txIndex /\ perm' = perm
  BY <1>1, <1>3 DEF IInv, TypeOK, SquadsTypeOK, SquadStep, squad
<1>6. run \in [Runs -> Processes] /\ run[r] = p
  BY <1>0 DEF IInv, TypeOK, Processes
<1>7. run' \in [Runs -> Processes] /\ run'[r] = q /\ \A o \in Runs \ {r} : run'[o] = run[o]
  BY <1>1, <1>4, <1>6
<1>8. TypeOK'
  <2>1. unseen' \cup made' \cup signed' \cup executed' \subseteq Indices /\ flight' \subseteq Messages
    BY <1>1, <1>3 DEF IInv, TypeOK
  <2>2. SquadsTypeOK'
    BY <1>5 DEF SquadsTypeOK
  <2>3. QED BY <1>7, <2>1, <2>2 DEF TypeOK, Processes
<1>9. Knows(q)'
  <2>1. q.at \in Indices /\ q.at <= txIndex' + 1 /\ Holds(q.at, q.mask)'
    BY <1>2, <1>4, <1>5 DEF Knows, Holds, Members
  <2>2. ASSUME ~q.open PROVE ClosedBelow(q.look)'
    <3>0. ~p.open /\ ~Open(queue[i].status)
      BY <1>4, <2>2, Zenon
    <3>1. ~Open(queue[i].status) /\ ClosedBelow(i)
      BY <1>0, <1>1, <1>2, <3>0 DEF Knows
    <3>2. Closed(i)'
      BY <1>1, <1>5, <3>1 DEF Closed, Open, Entries, Statuses
    <3>3. ASSUME NEW j \in Indices, stale' < j, j < i + 1 PROVE Closed(j)'
      <4>1. CASE j = i
        BY <3>2, <4>1
      <4>2. CASE j # i
        <5>1. j < i
          BY <1>2, <3>3, <4>2, Assumed DEF Indices
        <5>2. QED BY <1>5, <3>1, <3>3, <5>1 DEF ClosedBelow, Closed
      <4>3. QED BY <4>1, <4>2
    <3>4. QED BY <1>4, <3>3 DEF ClosedBelow
  <2>3. q.pc \notin HasRead /\ q.pc = "look" /\ q.look <= q.at
    BY <1>1, <1>3, <1>4 DEF HasRead
  <2>4. QED BY <2>1, <2>2, <2>3 DEF Knows
<1>10. \A o \in Runs : run'[o].pc # "idle" => run'[o] = run[o] \/ Knows(run[o])'
  BY <1>7, <1>9
<1>11. QED BY <1>1, <1>5, <1>8, <1>10, Moves

\* Sending the swap puts nothing in flight that was not looked into.
LEMMA SendSwapStep == ASSUME IInv, NEW r \in Runs, SendSwap(r) PROVE IInv'
<1>1. /\ run[r].pc = "look" /\ run[r].look = run[r].at /\ ~run[r].open
      /\ Send(r, "make", System, "settleMake")
  BY DEF SendSwap
<1>2. ClosedBelow(run[r].at)
  BY <1>1, UnderWay DEF Knows
<1>3. QED BY <1>1, <1>2, SendMoves, Assumed

\* Nor does sending its proposal,
LEMMA SendProposeStep == ASSUME IInv, NEW r \in Runs, SendPropose(r) PROVE IInv'
<1>1. run[r].pc = "propose" /\ Send(r, "propose", System, "settlePropose")
  BY DEF SendPropose
<1>2. QED BY <1>1, ReadIsExact, SendMoves, Assumed DEF HasRead

\* a vote on it,
LEMMA SendVoteStep == ASSUME IInv, NEW r \in Runs, SendVote(r) PROVE IInv'
<1>1. /\ run[r].pc = "vote" /\ run[r].owed # {}
      /\ Send(r, "vote", Turn(r), "settleVote")
  BY DEF SendVote
<1>2. Turn(r) \in Agents
  BY <1>1, UnderWay DEF Turn
<1>3. QED BY <1>1, <1>2, ReadIsExact, SendMoves DEF HasRead

\* or its execution.
LEMMA SendExecuteStep == ASSUME IInv, NEW r \in Runs, SendExecute(r) PROVE IInv'
<1>1. run[r].pc = "execute" /\ Send(r, "execute", System, "settleExecute")
  BY DEF SendExecute
<1>2. OperatorAgreed(run[r].at)
  BY <1>1, UnderWay DEF Knows
<1>3. QED BY <1>1, <1>2, ReadIsExact, SendMoves, Assumed DEF HasRead

(* What is read back is the plan, and for an execution the operator's vote.   *)
LEMMA ReadStep == ASSUME IInv, NEW r \in Runs, Read(r) PROVE IInv'
<1> DEFINE x == IF run[r].pc = "readExecute" THEN "execute" ELSE "vote"
<1>1. run[r].pc \in {"readVote", "readExecute"} /\ Goto(r, x) /\ UNCHANGED <<squad, flight, history>>
  BY DEF Read, Reading
<1>2. queue[run[r].at].does = Swap(run[r].mask)
  BY DEF Read, Passes, IsThePlan
<1>3. x = "execute" => OperatorAgreed(run[r].at)
  BY <1>1 DEF Read, Passes, OwesAVote, Gate, OperatorAgreed
<1>4. x \in Pcs /\ x \notin {"look", "readVote", "readExecute"}
  BY DEF Pcs
<1> HIDE DEF x
<1>5. flight' \subseteq Messages /\ flight' = flight
  BY <1>1 DEF IInv, TypeOK
<1>6. QED BY <1>1, <1>2, <1>3, <1>4, <1>5, GotoMoves

\* Polling for what was sent moves nothing but the process.
LEMMA SettleStep == ASSUME IInv, NEW r \in Runs, Settle(r) PROVE IInv'
<1>1. UNCHANGED <<squad, flight, history>> /\ flight' \subseteq Messages
  BY DEF Settle, IInv, TypeOK
<1>2. CASE run[r].pc = "settleMake" /\ IsThePlan(queue[run[r].at].does, run[r].mask)
           /\ Goto(r, "propose")
  BY <1>1, <1>2, GotoMoves DEF IsThePlan, Pcs
<1>3. CASE run[r].pc = "settlePropose" /\ Goto(r, "vote")
  BY <1>1, <1>3, GotoMoves, ReadIsExact DEF HasRead, Pcs
<1>4. CASE /\ run[r].pc = "settleVote"
           /\ run' = [run EXCEPT ![r].pc = "vote", ![r].owed = @ \ {Turn(r)}]
  <2> DEFINE p == run[r]
             q == [p EXCEPT !.pc = "vote", !.owed = @ \ {Turn(r)}]
  <2>1. p \in Processes /\ Knows(p) /\ p.pc = "settleVote"
    BY <1>4, UnderWay
  <2>2. run' = [run EXCEPT ![r] = q]
    BY <1>4 DEF IInv, TypeOK
  <2> HIDE DEF p
  <2>3. q \in Processes /\ q.pc = "vote" /\ q.at = p.at /\ q.mask = p.mask
    BY <2>1 DEF Processes, Pcs
  <2> HIDE DEF q
  <2>4. Knows(q)
    BY <2>1, <2>3 DEF Knows, HasRead
  <2>5. QED BY <1>1, <2>2, <2>3, <2>4, ProcessMoves
<1>5. CASE Stop(r)
  BY <1>1, <1>5, StopMoves
<1>6. QED BY <1>2, <1>3, <1>4, <1>5 DEF Settle

\* A run starts with what it has just read.
LEMMA StartStep ==
    ASSUME IInv, NEW r \in Runs,
           \/ \E co \in SUBSET Agents : StartCreate(r, co)
           \/ \E i \in Indices : StartExecute(r, i) \/ \E voter \in Agents : StartApprove(r, voter, i)
    PROVE  IInv'
<1>1. txIndex \in 0..MaxIndex /\ \A i \in Indices : i \in 1..txIndex => i <= txIndex
  BY DEF IInv, TypeOK, SquadsTypeOK, Indices
<1>2. ASSUME NEW co \in SUBSET Agents, StartCreate(r, co) PROVE IInv'
  <2>1. txIndex + 1 \in Indices
    BY <1>1, <1>2, Assumed DEF StartCreate, Indices
  <2>2. {System} \cup co \in SUBSET Agents /\ Begin(r, txIndex + 1, {System} \cup co, "look")
    BY <1>2, Assumed DEF StartCreate
  <2>3. QED BY <2>1, <2>2, BeginMoves
<1>3. ASSUME NEW i \in Indices, StartExecute(r, i) PROVE IInv'
  BY <1>1, <1>3, BeginMoves DEF StartExecute
<1>4. ASSUME NEW i \in Indices, NEW voter \in Agents, StartApprove(r, voter, i) PROVE IInv'
  <2>1. {voter} \in SUBSET Agents /\ Begin(r, i, {voter}, "readVote") /\ i <= txIndex
    BY <1>1, <1>4 DEF StartApprove
  <2>2. QED BY <2>1, BeginMoves
<1>5. QED BY <1>2, <1>3, <1>4

-----------------------------------------------------------------------------
(* A step of the multisig that changes no process: a transaction that lands,  *)
(* or somebody else's.                                                       *)
LEMMA ChainMoves ==
    ASSUME IInv, SquadStep, UNCHANGED <<run, unseen>>, flight' \subseteq flight,
           executed' \subseteq Indices,
           \A i \in made' : i \in made \/ (i \in Indices /\ i <= txIndex' /\ ClosedBelow(i)'),
           \A i \in signed' : i \in signed \/ Exact(i)'
    PROVE  IInv'
<1>1. SquadsTypeOK' /\ run' = run /\ unseen' = unseen
  BY SquadMoves DEF IInv, TypeOK
<1>2. made' \subseteq Indices /\ signed' \subseteq Indices
  BY DEF IInv, TypeOK, Exact
<1>3. TypeOK'
  BY <1>1, <1>2 DEF IInv, TypeOK
<1>4. QED BY <1>1, <1>3, Moves

\* Whatever lands finds the chain as its transaction needs it, or fails.
LEMMA LandsStep == ASSUME IInv, NEW m \in flight, Lands(m) PROVE IInv'
<1>1. /\ m \in Messages /\ Carries(m) /\ m.by \in Keys /\ m.at \in Indices /\ m.at \in Nat
      /\ SquadsTypeOK /\ Created
  BY Assumed DEF IInv, TypeOK, Travelling, Messages, Indices
<1>2. Effect(m) /\ UNCHANGED <<run, unseen>> /\ flight' \subseteq flight /\ unseen' = unseen
  BY DEF Lands
<1>3. executed \subseteq Indices /\ m.at <= txIndex + 1
  BY <1>1 DEF IInv, TypeOK, Carries
<1>4. CASE /\ m.what = "make" /\ Create(m.by, m.at, Swap(m.mask), "none")
           /\ made' = made \cup {m.at} /\ UNCHANGED <<signed, executed>>
  <2>1. Swap(m.mask) \in Acts \cup Swaps
    BY <1>1, Assumed DEF Messages
  <2>2. SquadStep /\ txIndex' = m.at
    BY <1>1, <1>4, <2>1 DEF SquadStep, Create
  <2>3. ClosedBelow(m.at)'
    BY <1>1, <1>2, <1>3, <1>4, <2>2, ClosedStays DEF Carries
  <2>4. m.at <= txIndex'
    BY <1>1, <2>2
  <2>5. QED BY <1>1, <1>2, <1>3, <1>4, <2>2, <2>3, <2>4, ChainMoves
<1>5. CASE m.what = "propose" /\ Propose(m.by, m.at) /\ UNCHANGED <<made, signed, executed>>
  <2>1. SquadStep
    BY <1>1, <1>5 DEF SquadStep, Voting
  <2>2. QED BY <1>2, <1>3, <1>5, <2>1, ChainMoves
<1>6. CASE /\ m.what \in {"vote", "execute"} /\ made' = made
           /\ Approve(m.by, m.at) \/ ExecuteConfig(m.by, m.at)
           /\ signed' = signed \cup {m.at} /\ executed' \subseteq executed \cup {m.at}
  <2>1. SquadStep
    BY <1>1, <1>6 DEF SquadStep, Voting
  <2>2. Exact(m.at)'
    BY <1>1, <1>6, <2>1, ExactStays DEF Carries
  <2>3. QED BY <1>1, <1>2, <1>3, <1>6, <2>1, <2>2, ChainMoves
<1>7. QED BY <1>2, <1>4, <1>5, <1>6 DEF Effect

\* The other members and tools cannot undo what is known.
LEMMA ElsewhereStep == ASSUME IInv, Elsewhere PROVE IInv'
<1>1. SquadStep
  <2>1. ASSUME NEW m \in Members \ {System}, NEW d \in ByHand, NEW status \in {"none", "Active"},
               Create(m, txIndex + 1, d, status)
        PROVE  SquadStep
    <3>1. m \in Keys /\ txIndex + 1 \in Nat /\ d \in Acts \cup Swaps
      BY Assumed DEF Members, IInv, TypeOK, SquadsTypeOK
    <3>2. QED BY <2>1, <3>1 DEF SquadStep
  <2>2. ASSUME NEW m \in Members, NEW i \in Indices,
               Propose(m, i) \/ ExecuteConfig(m, i) \/ Approve(m, i)
        PROVE  SquadStep
    <3>1. m \in Keys
      BY DEF Members
    <3>2. QED BY <2>2, <3>1 DEF SquadStep, Voting
  <2>3. ASSUME NEW i \in Indices, Decline(i) PROVE SquadStep
    BY <2>3, Assumed DEF SquadStep, Voting
  <2>4. QED BY <2>1, <2>2, <2>3 DEF Elsewhere
<1>2. UNCHANGED <<run, flight, unseen, made, signed, executed>> /\ executed \subseteq Indices
  BY DEF Elsewhere, history, IInv, TypeOK
<1>3. QED BY <1>1, <1>2, ChainMoves

(* Every step keeps the invariant.                                            *)
LEMMA NextInv == IInv /\ [Next]_vars => IInv'
<1> SUFFICES ASSUME IInv, [Next]_vars PROVE IInv'
  OBVIOUS
<1>1. ASSUME NEW r \in Runs, Step(r) PROVE IInv'
  <2>1. ASSUME End(r) PROVE IInv'
    BY <2>1, StopMoves DEF End
  <2>2. QED BY <1>1, <2>1, LookStep, SendSwapStep, SendProposeStep, ReadStep, SendVoteStep,
               SendExecuteStep, SettleStep DEF Step
<1>2. ASSUME NEW r \in Runs, Dies(r) PROVE IInv'
  BY <1>2, StopMoves DEF Dies
<1>3. ASSUME NEW m \in flight, Lost(m) PROVE IInv'
  <2>1. UNCHANGED <<run, unseen, made, signed, executed>> /\ flight' \subseteq flight
        /\ executed \subseteq Indices
    BY <1>3 DEF Lost, history, IInv, TypeOK
  <2>2. SquadStep
    BY <1>3 DEF Lost, SquadStep
  <2>3. QED BY <2>1, <2>2, ChainMoves
<1>4. CASE UNCHANGED vars
  <2>1. UNCHANGED <<run, flight, unseen, made, signed, executed>> /\ executed \subseteq Indices
    BY <1>4 DEF vars, IInv, TypeOK
  <2>2. SquadStep
    BY <1>4 DEF vars, SquadStep
  <2>3. QED BY <2>1, <2>2, ChainMoves
<1>5. QED BY <1>1, <1>2, <1>3, <1>4, StartStep, LandsStep, ElsewhereStep DEF Next

(* An execution moves the seat with the mask it has, and nothing else, after  *)
(* an operator agreed.                                                       *)
LEMMA ExecutionIsExact ==
    ASSUME IInv, [Next]_vars, NEW i \in executed' \ executed
    PROVE  /\ perm' = [perm EXCEPT ![Out] = {}, ![In] = perm[Out]]
           /\ Mainnet => queue[i].approved \cap Operators # {}
<1>1. PICK m \in flight : Lands(m) /\ i = m.at /\ m.what = "execute" /\ ExecuteConfig(m.by, m.at)
  <2>1. ASSUME NEW r \in Runs,
               \/ Step(r) \/ Dies(r)
               \/ \E co \in SUBSET Agents : StartCreate(r, co)
               \/ \E j \in Indices :
                     StartExecute(r, j) \/ \E voter \in Agents : StartApprove(r, voter, j)
        PROVE  executed' = executed
    BY <2>1 DEF Step, Look, SendSwap, SendPropose, SendVote, SendExecute, Send, Read, Settle, End,
                Dies, StartCreate, StartExecute, StartApprove, Begin, history
  <2>2. ASSUME \/ \E m \in flight : Lost(m)
               \/ Elsewhere \/ UNCHANGED vars
        PROVE  executed' = executed
    BY <2>2 DEF Lost, Elsewhere, vars, history
  <2>3. PICK m \in flight : Lands(m)
    BY <2>1, <2>2 DEF Next
  <2>4. m.what = "execute" /\ ExecuteConfig(m.by, m.at) /\ executed' = executed \cup {m.at}
    BY <2>3 DEF Lands, Effect
  <2>5. QED BY <2>3, <2>4
<1>2. /\ m \in Messages /\ m.by \in Keys /\ Exact(i) /\ OperatorAgreed(i) /\ SquadsTypeOK /\ Created
  BY <1>1, Assumed DEF IInv, TypeOK, Travelling, Messages, Carries
<1>3. PICK mask \in SUBSET Permissions : queue[i].does = Swap(mask) /\ Holds(i, mask)
  BY <1>2 DEF Exact
<1>4. queue[i].does.out = Out /\ queue[i].does.in = In /\ queue[i].does.mask = mask
  BY <1>3 DEF Swap
<1>5. i > stale /\ perm[Out] # {}
  BY <1>1, <1>2, <1>4, ExecuteMoves DEF Exact
<1>6. perm[Out] = mask
  BY <1>3, <1>5, Assumed DEF Holds, Members
<1>7. perm' = [perm EXCEPT ![Out] = {}, ![In] = mask]
  BY <1>1, <1>4 DEF ExecuteConfig
<1>8. QED BY <1>2, <1>6, <1>7 DEF OperatorAgreed

-----------------------------------------------------------------------------
(* What a run knows, what travels and what was signed hold in every state.    *)
THEOREM RotationInductive == Spec => []IInv
<1>1. QED BY InitInv, NextInv, PTL DEF Spec

(* Every reachable state is well typed.                                       *)
THEOREM RotationTypeCorrect == Spec => []TypeOK
<1>1. IInv => TypeOK
  BY DEF IInv
<1>2. QED BY <1>1, RotationInductive, PTL

(* What an agent signed and can still be executed grants exactly the mask the *)
(* outgoing seat holds, however many swaps ran since it was read.             *)
THEOREM LiveVotesStayExact == Spec => []LiveVotesAreExact
<1>1. IInv => LiveVotesAreExact
  <2> SUFFICES ASSUME IInv, NEW i \in signed, i > stale, Out \in Members
               PROVE  queue[i].does = Swap(perm[Out])
    BY DEF LiveVotesAreExact
  <2>1. QED BY DEF IInv, SignedInv, Exact, Holds
<1>2. QED BY <1>1, RotationInductive, PTL

(* What the tool executes moves that seat and keeps its mask, and on mainnet  *)
(* carries an operator's approval, whatever landed since the gate.            *)
THEOREM AlwaysExecutesTheSwap == Spec => ExecutesTheSwap
<1>1. IInv /\ [Next]_vars =>
        [\A i \in executed' \ executed :
          /\ perm' = [perm EXCEPT ![Out] = {}, ![In] = perm[Out]]
          /\ Mainnet => queue[i].approved \cap Operators # {}]_vars
  BY ExecutionIsExact
<1>2. QED BY <1>1, RotationInductive, PTL DEF Spec, ExecutesTheSwap

(* Below a swap of the tool nothing is open but what had no proposal when it  *)
(* looked.                                                                   *)
THEOREM NothingStaysOpenBelow == Spec => []NothingOpenBelow
<1>1. IInv => NothingOpenBelow
  <2> SUFFICES ASSUME IInv, NEW i \in made, NEW j \in stale + 1..i - 1,
                      queue[j].status \in {"Active", "Approved"}
               PROVE  j \in unseen
    BY DEF NothingOpenBelow
  <2>1. /\ stale \in Nat /\ i \in 1..MaxIndex /\ ClosedBelow(i)
    BY Assumed DEF IInv, TypeOK, SquadsTypeOK, MadeInv, Indices
  <2>2. j \in Indices /\ stale < j /\ j < i
    BY <2>1, Assumed DEF Indices
  <2>3. QED BY <2>1, <2>2 DEF ClosedBelow, Closed
<1>2. QED BY <1>1, RotationInductive, PTL
=============================================================================
