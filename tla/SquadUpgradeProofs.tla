------------------------- MODULE SquadUpgradeProofs -------------------------
(***************************************************************************)
(* Safety of the upgrade ceremony, for every roster, cluster and number of *)
(* processes.  The invariant follows what a process knows at each step:    *)
(* what it read stays true because a created transaction never changes,    *)
(* and because nobody writes a buffer the vault holds.                     *)
(***************************************************************************)
EXTENDS SquadUpgrade, TLAPS

(* An index holds a transaction exactly when it has been given out.          *)
Created == \A i \in Indices : i <= txIndex <=> queue[i].does # Nothing

(* The program is untouched until the buffer is spent.                       *)
Fresh == buffer.alive => program = "deployed"

HasRead == {"propose", "vote", "wait", "execute"}

Reviewed == /\ buffer.bytes = "reviewed" /\ buffer.authority = "vault"
            /\ program \in {"deployed", "reviewed"}

(* What a process under way has made sure of.                                *)
Agrees(p) ==
    /\ cluster.mainnet => p.spill = Vault /\ Reviewed
    /\ p.pc \in HasRead => queue[p.at].does = Upgrade(p.spill)
Known ==
    \A r \in Runs : run[r].pc # "idle" =>
        Agrees(run[r]) /\ (run[r].pc # "extend" => fits)

IInv == TypeOK /\ Created /\ Fresh /\ Known
        /\ SignsOnlyTheUpgrade /\ SignedIsReviewed /\ SignedFits

(* What any step of the multisig does to what was created.                   *)
SquadStep ==
    \/ \E m \in Keys, i \in Nat, d \in Acts \cup Swaps, s \in {"none", "Active"} : Create(m, i, d, s)
    \/ \E m \in Keys, i \in Indices : \/ Propose(m, i) \/ Approve(m, i) \/ Decline(i)
                                      \/ ExecuteVault(m, i) \/ ExecuteConfig(m, i)
    \/ UNCHANGED squad

\* What the assumptions on the constants come to here.
LEMMA Assumed ==
    /\ MaxIndex \in Nat /\ Threshold \in Nat \ {0}
    /\ Nothing \notin Acts \cup Swaps
    /\ Swaps \subseteq [out : Keys, in : Keys, mask : SUBSET Permissions]
    /\ Upgrades \subseteq Acts /\ Vault \in Spills
    /\ ByHand \subseteq Acts \cup Swaps
    /\ \A c \in Clusters : c.agents \subseteq Keys
BY SquadsAssumption, UpgradeAssumption

(* A step of the multisig keeps its types, and never changes the content of  *)
(* an index that has one.                                                    *)
LEMMA ContentStays ==
    ASSUME SquadsTypeOK, Created, SquadStep
    PROVE  /\ SquadsTypeOK' /\ Created'
           /\ \A i \in Indices : queue[i].does # Nothing => queue'[i].does = queue[i].does
<1> USE Assumed DEF SquadsTypeOK, Created, Indices
<1>1. ASSUME NEW m \in Keys, NEW i \in Nat, NEW d \in Acts \cup Swaps,
             NEW s \in {"none", "Active"}, Create(m, i, d, s)
      PROVE  /\ SquadsTypeOK' /\ Created'
             /\ \A j \in Indices : queue[j].does # Nothing => queue'[j].does = queue[j].does
  <2>1. i = txIndex + 1 /\ i \in 1..MaxIndex /\ txIndex' = i
        /\ perm' = perm /\ stale' = stale
        /\ queue' = [queue EXCEPT ![i] = [does |-> d, status |-> s, approved |-> {}]]
    BY <1>1 DEF Create, CanCreate
  <2>2. [does |-> d, status |-> s, approved |-> {}] \in Entries
    BY DEF Entries, Statuses
  <2>3. \A j \in Indices : queue'[j] = IF j = i THEN [does |-> d, status |-> s, approved |-> {}]
                                       ELSE queue[j]
    BY <2>1
  <2>4. QED BY <2>1, <2>2, <2>3
<1>2. ASSUME NEW m \in Keys, NEW i \in Indices, NEW e,
             e \in Entries, e.does = queue[i].does,
             queue' = [queue EXCEPT ![i] = e], txIndex' = txIndex,
             perm' \in [Keys -> SUBSET Permissions], stale' \in 0..MaxIndex
      PROVE  /\ SquadsTypeOK' /\ Created'
             /\ \A j \in Indices : queue[j].does # Nothing => queue'[j].does = queue[j].does
  BY <1>2
<1>3. ASSUME NEW m \in Keys, NEW i \in Indices,
             \/ Propose(m, i) \/ Approve(m, i) \/ Decline(i)
             \/ ExecuteVault(m, i) \/ ExecuteConfig(m, i)
      PROVE  \E e \in Entries :
                /\ e.does = queue[i].does /\ queue' = [queue EXCEPT ![i] = e]
                /\ txIndex' = txIndex
                /\ perm' \in [Keys -> SUBSET Permissions] /\ stale' \in 0..MaxIndex
  <2> DEFINE With(s, a) == [queue[i] EXCEPT !.approved = a, !.status = s]
  <2>1. queue[i] \in Entries
    OBVIOUS
  <2>2. \A s \in Statuses, a \in SUBSET Keys :
           /\ With(s, a) \in Entries /\ With(s, a).does = queue[i].does
    BY <2>1 DEF Entries
  <2>3. CASE Propose(m, i)
    <3>1. queue' = [queue EXCEPT ![i] = With("Active", queue[i].approved)]
      BY <2>1, <2>3 DEF Propose, Entries
    <3>2. queue[i].approved \in SUBSET Keys /\ "Active" \in Statuses
      BY <2>1 DEF Entries, Statuses
    <3>3. QED BY <2>2, <2>3, <3>1, <3>2 DEF Propose
  <2>4. CASE Approve(m, i)
    <3>1. \/ queue' = [queue EXCEPT ![i] = With("Active", queue[i].approved \cup {m})]
          \/ queue' = [queue EXCEPT ![i] = With("Approved", queue[i].approved \cup {m})]
      BY <2>4, Zenon DEF Approve
    <3>2. /\ queue[i].approved \cup {m} \in SUBSET Keys
          /\ "Active" \in Statuses /\ "Approved" \in Statuses
      BY <2>1 DEF Entries, Statuses
    <3>3. QED BY <2>2, <2>4, <3>1, <3>2 DEF Approve
  <2>5. CASE Decline(i)
    <3>1. queue' = [queue EXCEPT ![i] = With("Declined", queue[i].approved)]
      BY <2>1, <2>5 DEF Decline, Entries
    <3>2. queue[i].approved \in SUBSET Keys /\ "Declined" \in Statuses
      BY <2>1 DEF Entries, Statuses
    <3>3. QED BY <2>2, <2>5, <3>1, <3>2 DEF Decline
  <2>6. CASE ExecuteVault(m, i)
    <3>1. queue' = [queue EXCEPT ![i] = With("Executed", queue[i].approved)]
      BY <2>1, <2>6 DEF ExecuteVault, Entries
    <3>2. queue[i].approved \in SUBSET Keys /\ "Executed" \in Statuses
      BY <2>1 DEF Entries, Statuses
    <3>3. QED BY <2>2, <2>6, <3>1, <3>2 DEF ExecuteVault
  <2>7. CASE ExecuteConfig(m, i)
    <3>1. queue' = [queue EXCEPT ![i] = With("Executed", queue[i].approved)]
      BY <2>1, <2>7 DEF ExecuteConfig, Entries
    <3>2. queue[i].approved \in SUBSET Keys /\ "Executed" \in Statuses
      BY <2>1 DEF Entries, Statuses
    <3>3. queue[i].does \in [out : Keys, in : Keys, mask : SUBSET Permissions]
      BY <2>7 DEF ExecuteConfig, CanExecuteConfig
    <3>4. perm' \in [Keys -> SUBSET Permissions]
      BY <2>7, <3>3 DEF ExecuteConfig
    <3>5. QED BY <2>2, <2>7, <3>1, <3>2, <3>4 DEF ExecuteConfig
  <2>8. QED BY <1>3, <2>3, <2>4, <2>5, <2>6, <2>7
<1>4. CASE UNCHANGED squad
  BY <1>4 DEF squad
<1>5. ASSUME NEW m \in Keys, NEW i \in Indices,
             \/ Propose(m, i) \/ Approve(m, i) \/ Decline(i)
             \/ ExecuteVault(m, i) \/ ExecuteConfig(m, i)
      PROVE  /\ SquadsTypeOK' /\ Created'
             /\ \A j \in Indices : queue[j].does # Nothing => queue'[j].does = queue[j].does
  <2>1. PICK e \in Entries :
          /\ e.does = queue[i].does /\ queue' = [queue EXCEPT ![i] = e]
          /\ txIndex' = txIndex
          /\ perm' \in [Keys -> SUBSET Permissions] /\ stale' \in 0..MaxIndex
    BY <1>3, <1>5
  <2>2. QED BY <1>2, <2>1
<1>6. CASE \E m \in Keys, i \in Nat, d \in Acts \cup Swaps, s \in {"none", "Active"} :
             Create(m, i, d, s)
  BY <1>1, <1>6
<1>7. CASE \E m \in Keys, i \in Indices : \/ Propose(m, i) \/ Approve(m, i) \/ Decline(i)
                                           \/ ExecuteVault(m, i) \/ ExecuteConfig(m, i)
  BY <1>5, <1>7
<1>8. QED BY <1>4, <1>6, <1>7 DEF SquadStep

(* The initial states satisfy the invariant.                                  *)
LEMMA InitInv == Init => IInv
<1> SUFFICES ASSUME Init PROVE IInv
  OBVIOUS
<1> USE Assumed DEF Init
<1>1. SquadsTypeOK /\ Created
  BY DEF SquadsInit, SquadsTypeOK, Created, Indices, Empty, Entries, Statuses, Permissions
<1>2. Idle \in Processes
  BY DEF Idle, Processes, Pcs
<1>3. TypeOK
  BY <1>1, <1>2 DEF TypeOK, Bytes, Idle
<1>4. Fresh /\ Known
  BY DEF Fresh, Known, Idle
<1>5. SignsOnlyTheUpgrade /\ SignedIsReviewed /\ SignedFits
  BY DEF SignsOnlyTheUpgrade, SignedIsReviewed, SignedFits
<1>6. QED BY <1>1, <1>3, <1>4, <1>5 DEF IInv

(* What every step does: a step of the multisig, processes that learn only    *)
(* what is so, signatures only by those that have read, and a loader that     *)
(* never unlearns a review or shrinks.                                       *)
LEMMA Moves ==
    ASSUME IInv, SquadStep, UNCHANGED cluster,
           buffer' \in [bytes : Bytes, authority : {"writer", "vault"}, alive : BOOLEAN],
           program' \in {"deployed"} \cup Bytes, fits' \in BOOLEAN,
           fits => fits', Fresh', Reviewed => Reviewed',
           run' \in [Runs -> Processes], made' \subseteq Indices,
           \A p \in Runs : run'[p].pc # "idle" =>
              \/ run'[p] = run[p]
              \/ /\ run'[p].at \in Indices /\ Agrees(run'[p])
                 /\ run'[p].pc # "extend" => fits',
           \A i \in signed' : i \in signed \/ \E p \in Runs : run[p].pc \in HasRead /\ run[p].at = i
    PROVE  IInv'
<1> USE DEF IInv
<1>1. /\ SquadsTypeOK' /\ Created'
      /\ \A i \in Indices : queue[i].does # Nothing => queue'[i].does = queue[i].does
  BY ContentStays DEF TypeOK
<1>2. \A s \in Spills : Upgrade(s) # Nothing
  BY Assumed DEF Upgrades
<1>3. \A p \in Runs : run[p].pc # "idle" =>
         /\ run[p].at \in Indices /\ run[p].spill \in Spills /\ Agrees(run[p])
         /\ run[p].pc # "extend" => fits
  BY DEF TypeOK, Known, Processes
<1>4. \A p \in Runs : run'[p].pc # "idle" =>
         /\ run'[p].at \in Indices /\ run'[p].spill \in Spills /\ Agrees(run'[p])
         /\ run'[p].pc # "extend" => fits'
  BY <1>3 DEF Processes
<1>5. Known'
  <2> SUFFICES ASSUME NEW p \in Runs, run'[p].pc # "idle"
               PROVE  /\ cluster'.mainnet => run'[p].spill = Vault /\ Reviewed'
                      /\ run'[p].pc \in HasRead => queue'[run'[p].at].does = Upgrade(run'[p].spill)
                      /\ run'[p].pc # "extend" => fits'
    BY DEF Known, Agrees
  <2>1. cluster'.mainnet => run'[p].spill = Vault /\ Reviewed'
    BY <1>4 DEF Agrees
  <2>2. run'[p].pc \in HasRead => queue'[run'[p].at].does = Upgrade(run'[p].spill)
    BY <1>1, <1>2, <1>4 DEF Agrees
  <2>3. QED BY <2>1, <2>2, <1>4
<1>6. \A i \in signed' :
         /\ i \in Indices /\ fits /\ queue[i].does \in Upgrades
         /\ cluster.mainnet => queue[i].does = Upgrade(Vault) /\ Reviewed
  <2> SUFFICES ASSUME NEW i \in signed'
               PROVE  /\ i \in Indices /\ fits /\ queue[i].does \in Upgrades
                      /\ cluster.mainnet => queue[i].does = Upgrade(Vault) /\ Reviewed
    OBVIOUS
  <2>1. CASE i \in signed
    BY <2>1 DEF TypeOK, SignsOnlyTheUpgrade, SignedIsReviewed, SignedFits, Reviewed
  <2>2. ASSUME NEW p \in Runs, run[p].pc \in HasRead, run[p].at = i
        PROVE  /\ i \in Indices /\ fits /\ queue[i].does \in Upgrades
               /\ cluster.mainnet => queue[i].does = Upgrade(Vault) /\ Reviewed
    BY <2>2, <1>3 DEF HasRead, Agrees, Upgrades
  <2>3. QED BY <2>1, <2>2
<1>7. \A i \in signed' : queue[i].does # Nothing /\ queue'[i].does = queue[i].does
  BY <1>1, <1>6, Assumed
<1>8. SignsOnlyTheUpgrade'
  BY <1>6, <1>7 DEF SignsOnlyTheUpgrade, Upgrades
<1>9. SignedIsReviewed' /\ SignedFits'
  BY <1>6 DEF SignedIsReviewed, SignedFits, Reviewed
<1>10. TypeOK'
  BY <1>1, <1>4, <1>6 DEF TypeOK
<1>11. QED BY <1>1, <1>5, <1>8, <1>9, <1>10

(* The same, for a step of one process that leaves the loader alone.          *)
LEMMA ProcessMoves ==
    ASSUME IInv, SquadStep, UNCHANGED <<cluster, loader>>,
           NEW r \in Runs, NEW q \in Processes, run' = [run EXCEPT ![r] = q],
           q.pc # "idle" => q.at \in Indices /\ Agrees(q) /\ (q.pc # "extend" => fits),
           made' \subseteq Indices,
           \A i \in signed' : i \in signed \/ (run[r].pc \in HasRead /\ run[r].at = i)
    PROVE  IInv'
<1>1. run \in [Runs -> Processes]
  BY DEF IInv, TypeOK
<1>2. run' \in [Runs -> Processes] /\ run'[r] = q /\ \A p \in Runs \ {r} : run'[p] = run[p]
  BY <1>1
<1>3. \A p \in Runs : run'[p].pc # "idle" =>
         \/ run'[p] = run[p]
         \/ /\ run'[p].at \in Indices /\ Agrees(run'[p])
            /\ run'[p].pc # "extend" => fits'
  BY <1>2 DEF loader
<1>4. /\ buffer' = buffer /\ program' = program /\ fits' = fits
      /\ Fresh' /\ (Reviewed => Reviewed')
      /\ buffer \in [bytes : Bytes, authority : {"writer", "vault"}, alive : BOOLEAN]
      /\ program \in {"deployed"} \cup Bytes /\ fits \in BOOLEAN
  BY DEF loader, IInv, TypeOK, Fresh, Reviewed
<1>5. QED BY <1>2, <1>3, <1>4, Moves

(* And for a process that only goes on to another point of its run.           *)
LEMMA PcMoves ==
    ASSUME IInv, SquadStep, UNCHANGED <<cluster, loader>>,
           NEW r \in Runs, run[r].pc \notin {"idle", "extend"},
           NEW x \in Pcs, Goto(r, x),
           x \in HasRead => queue[run[r].at].does = Upgrade(run[r].spill),
           made' \subseteq Indices,
           \A i \in signed' : i \in signed \/ (run[r].pc \in HasRead /\ run[r].at = i)
    PROVE  IInv'
<1> DEFINE q == [run[r] EXCEPT !.pc = x]
<1>1. run[r] \in Processes /\ run[r].at \in Indices /\ Agrees(run[r]) /\ fits
  BY DEF IInv, TypeOK, Known
<1>2. q \in Processes /\ q.pc = x /\ q.at = run[r].at /\ q.spill = run[r].spill
  BY <1>1 DEF Processes
<1>3. run' = [run EXCEPT ![r] = q]
  BY DEF Goto
<1>4. Agrees(q)
  BY <1>1, <1>2 DEF Agrees
<1> HIDE DEF q
<1>5. QED BY <1>1, <1>2, <1>3, <1>4, ProcessMoves

(* A process that ends knows nothing.                                         *)
LEMMA StopMoves ==
    ASSUME IInv, SquadStep, UNCHANGED <<cluster, loader, made, signed>>,
           NEW r \in Runs, Stop(r)
    PROVE  IInv'
<1>1. Idle \in Processes /\ Idle.pc = "idle"
  BY Assumed DEF Idle, Processes, Pcs
<1>2. made' \subseteq Indices /\ signed' = signed /\ run' = [run EXCEPT ![r] = Idle]
  BY DEF IInv, TypeOK, Stop
<1>3. QED BY <1>1, <1>2, ProcessMoves

(* The run starts on what it measured.                                        *)
LEMMA StartStep ==
    ASSUME IInv, NEW r \in Runs, NEW i \in 0..MaxIndex, NEW resumes \in BOOLEAN, NEW s \in Spills,
           Start(r, i, resumes, s)
    PROVE  IInv'
<1> DEFINE q == [pc |-> IF NeedsExtend THEN "extend" ELSE "look", at |-> i, resumes |-> resumes,
                 spill |-> s, owed |-> Holding("Vote"), alone |-> Autonomous]
<1>1. /\ run' = [run EXCEPT ![r] = q]
      /\ UNCHANGED <<squad, cluster, loader, made, signed>>
      /\ buffer.alive /\ SpillStands(s) /\ BufferStands
  BY DEF Start
<1>2. i \in Indices
  <2>1. CASE resumes
    BY <2>1 DEF Start
  <2>2. CASE ~resumes
    BY <2>2, Assumed DEF Start, NextIndex, Indices, IInv, TypeOK, SquadsTypeOK
  <2>3. QED BY <2>1, <2>2
<1>3. Holding("Vote") \subseteq Keys /\ Autonomous \in BOOLEAN
  BY Assumed DEF Holding, Agents, IInv, TypeOK, Autonomous
<1>4. q \in Processes
  BY <1>2, <1>3 DEF Processes, Pcs, Indices
<1>5. q.pc \in {"extend", "look"} /\ q.at = i /\ q.spill = s /\ (q.pc # "extend" => fits)
  BY DEF NeedsExtend, IInv, TypeOK
<1>6. Agrees(q)
  BY <1>1, <1>5 DEF Agrees, HasRead, SpillStands, BufferStands, Reviewed, IInv, Fresh
<1>7. SquadStep /\ made' \subseteq Indices /\ signed' = signed
  BY <1>1 DEF SquadStep, IInv, TypeOK
<1> HIDE DEF q
<1>8. QED BY <1>1, <1>2, <1>4, <1>5, <1>6, <1>7, ProcessMoves

\* Past the extension the binary fits.
LEMMA ExtendStep ==
    ASSUME IInv, NEW r \in Runs, Extend(r)
    PROVE  IInv'
<1> DEFINE q == [run[r] EXCEPT !.pc = "look"]
<1>1. run[r] \in Processes /\ run[r].at \in Indices /\ Agrees(run[r])
  BY DEF IInv, TypeOK, Known, Extend
<1>2. q \in Processes /\ q.pc = "look" /\ q.at = run[r].at /\ q.spill = run[r].spill
  BY <1>1 DEF Processes, Pcs
<1>3. run' = [run EXCEPT ![r] = q]
  BY DEF Extend, Goto
<1>4. Agrees(q)
  BY <1>1, <1>2 DEF Agrees, HasRead
<1> HIDE DEF q
<1>5. /\ run' \in [Runs -> Processes]
      /\ \A p \in Runs : run'[p].pc # "idle" =>
             \/ run'[p] = run[p]
             \/ run'[p].at \in Indices /\ Agrees(run'[p]) /\ (run'[p].pc # "extend" => fits')
  BY <1>1, <1>2, <1>3, <1>4 DEF IInv, TypeOK, Extend
<1>6. /\ SquadStep /\ UNCHANGED <<cluster, buffer, program, made, signed>>
      /\ fits' = TRUE /\ Fresh' /\ (Reviewed => Reviewed')
      /\ buffer \in [bytes : Bytes, authority : {"writer", "vault"}, alive : BOOLEAN]
      /\ program \in {"deployed"} \cup Bytes /\ made \subseteq Indices
  BY DEF Extend, SquadStep, IInv, TypeOK, Fresh, Reviewed
<1>7. QED BY <1>5, <1>6, Moves

\* What is created is made from what the run has checked.
LEMMA CreateStep ==
    ASSUME IInv, NEW r \in Runs, CreateLands(r)
    PROVE  IInv'
<1>1. /\ run[r].pc = "create" /\ run[r].at \in Indices /\ run[r].spill \in Spills
      /\ Agents \subseteq Keys
  BY Assumed DEF CreateLands, IInv, TypeOK, Processes, Agents
<1>2. PICK k \in Agents : Create(k, run[r].at, Upgrade(run[r].spill), "none")
  BY DEF CreateLands
<1>3. Upgrade(run[r].spill) \in Acts \cup Swaps /\ run[r].at \in Nat
  BY <1>1, Assumed DEF Upgrades, Indices
<1>4. SquadStep
  BY <1>1, <1>2, <1>3 DEF SquadStep
<1>5. /\ UNCHANGED <<cluster, loader, signed>> /\ Goto(r, "read")
      /\ made' \subseteq Indices /\ "read" \in Pcs /\ "read" \notin HasRead
  BY <1>1 DEF CreateLands, IInv, TypeOK, Pcs, HasRead
<1>6. QED BY <1>1, <1>4, <1>5, PcMoves

\* A proposal changes the status of an index and nothing else.
LEMMA ProposeStep ==
    ASSUME IInv, NEW r \in Runs, ProposeLands(r)
    PROVE  IInv'
<1>1. /\ run[r].pc = "propose" /\ run[r].at \in Indices /\ Agents \subseteq Keys
      /\ queue[run[r].at].does = Upgrade(run[r].spill)
  BY Assumed DEF ProposeLands, IInv, TypeOK, Agents, Known, Agrees, HasRead
<1>2. PICK k \in Agents : Propose(k, run[r].at)
  BY DEF ProposeLands
<1>3. SquadStep
  BY <1>1, <1>2 DEF SquadStep
<1>4. UNCHANGED <<cluster, loader, signed>> /\ Goto(r, "vote") /\ made' \subseteq Indices /\ "vote" \in Pcs
  BY DEF ProposeLands, IInv, TypeOK, Pcs
<1>5. QED BY <1>1, <1>3, <1>4, PcMoves

(* A vote is cast only by a process that has read what it votes for.          *)
LEMMA VoteStep ==
    ASSUME IInv, NEW r \in Runs, Vote(r)
    PROVE  IInv'
<1> DEFINE q == [run[r] EXCEPT !.owed = @ \ {Turn(r)}]
<1>1. /\ run[r].pc = "vote" /\ run[r].owed # {} /\ run[r].at \in Indices
      /\ run[r] \in Processes /\ Agrees(run[r]) /\ fits
      /\ run' = [run EXCEPT ![r] = q] /\ UNCHANGED <<cluster, loader, made>>
      /\ made' \subseteq Indices
  BY DEF Vote, Cast, IInv, TypeOK, Known
<1>2. Turn(r) \in Keys
  BY <1>1 DEF Turn, Processes
<1>3. SquadStep
  BY <1>1, <1>2 DEF Vote, SquadStep
<1>4. \A i \in signed' : i \in signed \/ (run[r].pc \in HasRead /\ run[r].at = i)
  BY <1>1 DEF Vote, HasRead
<1>5. q \in Processes /\ q.pc = "vote" /\ q.at = run[r].at /\ q.spill = run[r].spill
  BY <1>1 DEF Processes
<1>6. Agrees(q)
  BY <1>1, <1>5 DEF Agrees
<1> HIDE DEF q
<1>7. QED BY <1>1, <1>3, <1>4, <1>5, <1>6, ProcessMoves

(* An upgrade leaves a spent buffer and the program it held.                  *)
LEMMA LoaderMoves ==
    ASSUME IInv, NEW m \in Keys, NEW i \in Indices, ExecuteUpgrade(m, i)
    PROVE  /\ SquadStep /\ Fresh' /\ (Reviewed => Reviewed') /\ fits' = fits
           /\ buffer' \in [bytes : Bytes, authority : {"writer", "vault"}, alive : BOOLEAN]
           /\ program' \in {"deployed"} \cup Bytes /\ fits' \in BOOLEAN
<1>1. /\ ExecuteVault(m, i) /\ program' = buffer.bytes /\ fits' = fits
      /\ buffer' = [buffer EXCEPT !.alive = FALSE]
  BY DEF ExecuteUpgrade
<1>2. QED BY <1>1 DEF SquadStep, Fresh, Reviewed, IInv, TypeOK

\* An execution is of what is at the index, and installs the buffer's bytes.
LEMMA ExecuteStep ==
    ASSUME IInv, NEW r \in Runs, ExecuteLands(r)
    PROVE  IInv'
<1>1. /\ run[r].pc = "execute" /\ run[r].at \in Indices /\ Agents \subseteq Keys
      /\ run \in [Runs -> Processes] /\ made \subseteq Indices
      /\ run' = [run EXCEPT ![r] = Idle] /\ UNCHANGED <<cluster, made>>
      /\ signed' = signed \cup {run[r].at}
  BY Assumed DEF ExecuteLands, Stop, IInv, TypeOK, Agents
<1>2. PICK k \in Agents : ExecuteUpgrade(k, run[r].at)
  BY DEF ExecuteLands
<1>3. Idle \in Processes /\ Idle.pc = "idle"
  BY Assumed DEF Idle, Processes, Pcs
<1>4. /\ run' \in [Runs -> Processes]
      /\ \A p \in Runs : run'[p].pc # "idle" => run'[p] = run[p]
  BY <1>1, <1>3
<1>5. \A i \in signed' : i \in signed \/ \E p \in Runs : run[p].pc \in HasRead /\ run[p].at = i
  BY <1>1 DEF HasRead
<1>6. /\ SquadStep /\ Fresh' /\ (Reviewed => Reviewed') /\ fits' = fits
      /\ buffer' \in [bytes : Bytes, authority : {"writer", "vault"}, alive : BOOLEAN]
      /\ program' \in {"deployed"} \cup Bytes /\ fits' \in BOOLEAN
  BY <1>1, <1>2, LoaderMoves
<1>7. QED BY <1>1, <1>4, <1>5, <1>6, Moves

(* The other members, whatever they create, sign or execute.                  *)
LEMMA OthersStep ==
    ASSUME IInv, OthersAct \/ OthersUpgrade \/ WriteBuffer
    PROVE  IInv'
<1>1. Members \subseteq Keys
  BY DEF Members
<1>2. CASE OthersAct
  <2>1. SquadStep
    <3>1. ASSUME NEW m \in Members, NEW d \in ByHand, Create(m, txIndex + 1, d, "Active")
          PROVE  SquadStep
      <4>1. txIndex + 1 \in Nat /\ d \in Acts \cup Swaps /\ m \in Keys
        BY <1>1, Assumed DEF IInv, TypeOK, SquadsTypeOK
      <4>2. QED BY <3>1, <4>1 DEF SquadStep
    <3>2. ASSUME NEW m \in Members, NEW i \in Indices,
                 Propose(m, i) \/ Approve(m, i) \/ Decline(i) \/ ExecuteConfig(m, i)
          PROVE  SquadStep
      BY <1>1, <3>2 DEF SquadStep
    <3>3. ASSUME NEW i \in Indices, Decline(i)
          PROVE  SquadStep
      <4>1. System \in Keys
        BY SeatsAssumption
      <4>2. QED BY <3>3, <4>1 DEF SquadStep
    <3>4. QED BY <1>2, <3>1, <3>2, <3>3 DEF OthersAct
  <2>2. UNCHANGED <<cluster, loader, run, made, signed>>
    BY <1>2 DEF OthersAct
  <2>3. QED BY <2>1, <2>2, Moves DEF loader, IInv, TypeOK, Fresh, Reviewed
<1>3. CASE OthersUpgrade
  <2>1. PICK m \in Members \ Agents, i \in Indices : ExecuteUpgrade(m, i)
    BY <1>3 DEF OthersUpgrade
  <2>2. UNCHANGED <<cluster, run, made, signed>>
    BY <1>3 DEF OthersUpgrade
  <2>3. /\ SquadStep /\ Fresh' /\ (Reviewed => Reviewed') /\ fits' = fits
        /\ buffer' \in [bytes : Bytes, authority : {"writer", "vault"}, alive : BOOLEAN]
        /\ program' \in {"deployed"} \cup Bytes /\ fits' \in BOOLEAN
    BY <1>1, <2>1, LoaderMoves
  <2>4. run \in [Runs -> Processes] /\ made \subseteq Indices
    BY DEF IInv, TypeOK
  <2>5. QED BY <2>2, <2>3, <2>4, Moves
<1>4. CASE WriteBuffer
  <2>1. SquadStep /\ UNCHANGED <<cluster, program, fits, run, made, signed>>
    BY <1>4 DEF WriteBuffer, SquadStep
  <2>2. Fresh' /\ (Reviewed => Reviewed')
    BY <1>4 DEF WriteBuffer, IInv, Fresh, Reviewed
  <2>3. buffer' \in [bytes : Bytes, authority : {"writer", "vault"}, alive : BOOLEAN]
    BY <1>4 DEF WriteBuffer
  <2>4. /\ run \in [Runs -> Processes] /\ made \subseteq Indices
        /\ program \in {"deployed"} \cup Bytes /\ fits \in BOOLEAN
    BY DEF IInv, TypeOK
  <2>5. QED BY <2>1, <2>2, <2>3, <2>4, Moves
<1>5. QED BY <1>2, <1>3, <1>4

(* Every step keeps the invariant.                                            *)
LEMMA StepInv == IInv /\ [Next]_vars => IInv'
<1> SUFFICES ASSUME IInv, [Next]_vars PROVE IInv'
  OBVIOUS
<1>1. CASE UNCHANGED vars
  <2>1. /\ SquadStep /\ UNCHANGED <<cluster, loader, run, made, signed>>
    BY <1>1 DEF vars, SquadStep
  <2>2. QED BY <2>1, Moves DEF loader, IInv, TypeOK, Fresh, Reviewed
<1>2. ASSUME NEW r \in Runs, Step(r) \/ Dies(r)
      PROVE  IInv'
  <2>1. /\ made \subseteq Indices
        /\ UNCHANGED squad => SquadStep
        /\ run[r].pc \in HasRead => queue[run[r].at].does = Upgrade(run[r].spill)
    BY DEF IInv, TypeOK, SquadStep, Known, Agrees, HasRead
  <2>2. CASE Look(r)
    BY <2>1, <2>2, PcMoves DEF Look, HasRead, Pcs
  <2>3. CASE CreateFails(r)
    BY <2>1, <2>3, PcMoves DEF CreateFails, HasRead, Pcs
  <2>4. CASE Read(r)
    BY <2>1, <2>4, PcMoves DEF Read, IsTheUpgrade, Pcs
  <2>5. CASE ProposalThere(r)
    BY <2>1, <2>5, PcMoves DEF ProposalThere, HasRead, Pcs
  <2>6. CASE AwaitApproval(r)
    BY <2>1, <2>6, PcMoves DEF AwaitApproval, HasRead, Pcs
  <2>7. CASE SeesApproved(r)
    BY <2>1, <2>7, PcMoves DEF SeesApproved, HasRead, Pcs
  <2>8. CASE End(r) \/ Dies(r)
    BY <2>1, <2>8, StopMoves DEF End, Dies
  <2>9. QED BY <1>2, <2>2, <2>3, <2>4, <2>5, <2>6, <2>7, <2>8, ExtendStep, CreateStep,
               ProposeStep, VoteStep, ExecuteStep DEF Step
<1>3. QED BY <1>1, <1>2, StartStep, OthersStep DEF Next

\* The invariant holds at every reachable state of the ceremony.
LEMMA SafeInv == Spec => []IInv
BY InitInv, StepInv, PTL DEF Spec

(* The multisig, the loader and every process keep their types.               *)
THEOREM TypeCorrect == Spec => []TypeOK
BY SafeInv, PTL DEF IInv

(* Whatever roster, cluster and number of processes, and whoever takes the    *)
(* index in between, an agent seat approves or executes upgrades only, and on *)
(* mainnet only with the vault's refund.                                     *)
THEOREM OnlyUpgradesAreSigned == Spec => []SignsOnlyTheUpgrade
BY SafeInv, PTL DEF IInv

(* From the first mainnet signature on, the buffer and the program never hold *)
(* bytes that were not reviewed.                                             *)
THEOREM OnlyReviewedBytesAreSigned == Spec => []SignedIsReviewed
BY SafeInv, PTL DEF IInv

(* An upgrade an agent seat signed finds the room it needs.                   *)
THEOREM SignedUpgradesFit == Spec => []SignedFits
BY SafeInv, PTL DEF IInv
=============================================================================
