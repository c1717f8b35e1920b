-------------------------- MODULE GovernanceProofs --------------------------
(***************************************************************************)
(* Theorems about who decides: the governance state machine, for every set *)
(* of keys, every collection of proposals and every sequence of retunes,   *)
(* and one call of `authorize`, for every account list.  The first takes a *)
(* quorum to be a SET of keys; the second shows that the list the program  *)
(* walks through decides the same.                                         *)
(***************************************************************************)
EXTENDS Governance, AuthorizeCall, FiniteSetTheorems, SequenceTheorems, TLAPS

-----------------------------------------------------------------------------
(* Lemmas about the operators of VaultAuth *)

\* What the program ships is a number from one to three, never below its
\* floor, and a table of the previous binary differs only under a floor.
LEMMA ShippedTables ==
    ASSUME NEW a \in GovActions
    PROVE  /\ DEFAULT_THRESHOLDS[a] \in 1..3
           /\ THRESHOLD_FLOORS[a] \in {1, 3}
           /\ THRESHOLD_FLOORS[a] =< DEFAULT_THRESHOLDS[a]
           /\ PreviousDefaults[a] \in 1..3
           /\ PreviousDefaults[a] # DEFAULT_THRESHOLDS[a] =>
                  /\ PreviousDefaults[a] < THRESHOLD_FLOORS[a]
                  /\ THRESHOLD_FLOORS[a] = DEFAULT_THRESHOLDS[a]
    BY DEF DEFAULT_THRESHOLDS, THRESHOLD_FLOORS, PreviousDefaults, GovActions,
           PAUSE, UNPAUSE, UPDATE_SIGNERS, CLOSE_CONTEST, SET_CONTEST_LOCK_TIME,
           SET_CONTEST_CONCLUSION_TIME, MINT_ENTRY_TOKEN, GRANT_SEEDS,
           ADMIN_USERNAME, CREATE_CONTEST, ENTER_CONTEST, SET_GOVERNANCE,
           OVERWRITE_USERNAME, RESERVE_USERNAME, RELEASE_USERNAME

\* The three actions that decide who governs are floored at three.
LEMMA FlooredActions ==
    /\ SET_GOVERNANCE \in GovActions /\ THRESHOLD_FLOORS[SET_GOVERNANCE] = 3
    /\ UPDATE_SIGNERS \in GovActions /\ THRESHOLD_FLOORS[UPDATE_SIGNERS] = 3
    /\ UNPAUSE \in GovActions /\ THRESHOLD_FLOORS[UNPAUSE] = 3
    BY DEF THRESHOLD_FLOORS, GovActions, UPDATE_SIGNERS, UNPAUSE, SET_GOVERNANCE

\* threshold_for always reads a usable number, at or above the floor.
LEMMA ThresholdRange ==
    ASSUME NEW t \in Tables, NEW a \in GovActions
    PROVE  /\ threshold_for(t, a) \in 1..MAX_SIGNERS
           /\ threshold_for(t, a) >= THRESHOLD_FLOORS[a]
    <1>1. t[a] \in 0..5
        BY DEF Tables, MAX_SIGNERS
    <1>2. QED
        BY <1>1, ShippedTables DEF threshold_for, MAX_SIGNERS

\* Both tables a program can be found with read as the shipped thresholds.
LEMMA BootstrapReadsAsShipped ==
    ASSUME NEW a \in GovActions
    PROVE  /\ threshold_for(DEFAULT_THRESHOLDS, a) = DEFAULT_THRESHOLDS[a]
           /\ threshold_for(PreviousDefaults, a) = DEFAULT_THRESHOLDS[a]
    <1> DEFINE d == DEFAULT_THRESHOLDS[a]
               f == THRESHOLD_FLOORS[a]
               p == PreviousDefaults[a]
    <1>1. d \in 1..3 /\ f \in {1, 3} /\ f =< d /\ p \in 1..3 /\ (p # d => p < f /\ f = d)
        BY ShippedTables
    <1> HIDE DEF d, f, p
    <1>2. (IF (IF d = 0 THEN d ELSE d) < f THEN f ELSE (IF d = 0 THEN d ELSE d)) = d
        BY <1>1
    <1>3. (IF (IF p = 0 THEN d ELSE p) < f THEN f ELSE (IF p = 0 THEN d ELSE p)) = d
        BY <1>1
    <1>4. QED
        BY <1>2, <1>3 DEF threshold_for, d, f, p

\* An interval of slots is finite and as large as it looks.
LEMMA Interval ==
    ASSUME NEW n \in Nat
    PROVE  IsFiniteSet(1..n) /\ Cardinality(1..n) = n
    <1>1. IsFiniteSet(1..n) /\ Cardinality(1..n) = IF 1 > n THEN 0 ELSE n - 1 + 1
        BY FS_Interval
    <1>2. QED
        BY <1>1

\* There are finitely many signer slots.
LEMMA SlotsFinite == IsFiniteSet(Slots)
    BY Interval DEF Slots, MAX_SIGNERS

\* Where no live key is repeated, occupied slots and distinct signers are
\* equally many: the count the program takes is the size of the quorum pool.
LEMMA SlotCount ==
    ASSUME NEW array \in SlotArrays,
           \A i, j \in Slots : i # j /\ array[i] # NoKey => array[i] # array[j]
    PROVE  /\ IsFiniteSet(all_signers(array))
           /\ active_signer_count(array) = Cardinality(all_signers(array))
    <1> DEFINE D == {i \in Slots : array[i] # NoKey}
               f == [i \in D |-> array[i]]
    <1>1. IsFiniteSet(D)
        BY SlotsFinite, FS_Subset
    <1>2. f \in Bijection(D, all_signers(array))
        <2>1. f \in [D -> all_signers(array)]
            BY DEF all_signers
        <2>2. \A s \in all_signers(array) : \E i \in D : f[i] = s
            BY DEF all_signers
        <2>3. \A i, j \in D : f[i] = f[j] => i = j
            OBVIOUS
        <2>4. QED
            BY <2>1, <2>2, <2>3 DEF Bijection, Injection, Surjection, IsInjective
    <1>3. QED
        BY <1>1, <1>2, FS_Bijection DEF ExistsBijection, active_signer_count

\* A packed array with its third slot taken seats at least three.
LEMMA ThreeSeats ==
    ASSUME NEW array \in SlotArrays, LivePacked(array), array[3] # NoKey
    PROVE  Cardinality(all_signers(array)) >= 3
    <1>1. \A i \in 1..3 : array[i] # NoKey
        BY DEF LivePacked, Slots, MAX_SIGNERS
    <1> DEFINE D == {i \in Slots : array[i] # NoKey}
    <1>2. IsFiniteSet(D) /\ 1..3 \subseteq D
        BY <1>1, SlotsFinite, FS_Subset DEF Slots, MAX_SIGNERS
    <1>3. Cardinality(1..3) =< Cardinality(D) /\ Cardinality(D) \in Nat
        BY <1>2, FS_Subset, FS_CardinalityType
    <1>4. Cardinality(1..3) = 3
        BY Interval
    <1>5. Cardinality(D) >= 3
        BY <1>3, <1>4
    <1>6. Cardinality(D) = Cardinality(all_signers(array))
        BY SlotCount DEF LivePacked, active_signer_count
    <1>7. QED
        BY <1>5, <1>6

\* Conversely a packed array of three signers or more has its third slot taken.
LEMMA ThirdSeat ==
    ASSUME NEW array \in SlotArrays, LivePacked(array),
           active_signer_count(array) >= 3
    PROVE  array[3] # NoKey
    <1> SUFFICES ASSUME array[3] = NoKey PROVE FALSE
        OBVIOUS
    <1> DEFINE D == {i \in Slots : array[i] # NoKey}
    <1>1. D \in SUBSET (1..2)
        BY DEF LivePacked, Slots, MAX_SIGNERS
    <1>2. IsFiniteSet(1..2) /\ Cardinality(1..2) = 2
        BY Interval
    <1>3. Cardinality(D) =< 2 /\ Cardinality(D) \in Nat
        BY <1>1, <1>2, FS_Subset, FS_CardinalityType
    <1>4. QED
        BY <1>3 DEF active_signer_count

-----------------------------------------------------------------------------
(* Types *)

\* Every reachable state is well typed, for every choice of the constants.
THEOREM GovernanceTypeCorrect == Spec => []TypeOK
    <1>1. Init => TypeOK
        <2>1. NoSigners \in SlotArrays /\ NoTable \in Tables /\ PreviousDefaults \in Tables
            <3>1. PreviousDefaults \in Tables
                <4>1. PreviousDefaults = [a \in GovActions |-> PreviousDefaults[a]]
                    BY DEF PreviousDefaults
                <4>2. \A a \in GovActions : PreviousDefaults[a] \in 0..MAX_SIGNERS
                    BY ShippedTables DEF MAX_SIGNERS
                <4>3. QED
                    BY <4>1, <4>2 DEF Tables
            <3>2. QED
                BY <3>1 DEF NoSigners, SlotArrays, NoTable, Tables, MAX_SIGNERS
        <2>2. /\ DEFAULT_MINT_WINDOW \in Int \X Nat
              /\ [action |-> NoAction, keys |-> {}]
                     \in [action : GovActions \cup {NoAction}, keys : SUBSET Keys]
            BY DEF DEFAULT_MINT_WINDOW
        <2>3. CASE FreshInit
            BY <2>1, <2>2, <2>3 DEF FreshInit, TypeOK
        <2>4. CASE UpgradedInit
            BY <2>1, <2>2, <2>4, GovernanceAssumption DEF UpgradedInit, TypeOK
        <2>5. QED
            BY <2>3, <2>4 DEF Init
    <1>2. TypeOK /\ [Next]_vars => TypeOK'
        <2> SUFFICES ASSUME TypeOK, [Next]_vars PROVE TypeOK'
            OBVIOUS
        <2> USE GovernanceAssumption
        <2>1. ASSUME NEW signers \in [1..3 -> GenesisKeys], NEW admin \in Held,
                     Initialize(signers, admin)
              PROVE  TypeOK'
            <3>1. slots' \in SlotArrays
                BY <2>1 DEF Initialize, SlotArrays, Slots, MAX_SIGNERS
            <3>2. QED
                BY <2>1, <3>1 DEF Initialize, TypeOK, Log, NoAction, governance
        <2>2. ASSUME NEW keys \in SUBSET (Members \cap Held), Govern(keys)
              PROVE  TypeOK'
            <3>1. keys \in SUBSET Keys
                BY DEF TypeOK, Members, all_signers, SlotArrays
            <3>2. CASE InitGovernance(keys)
                <4>1. DEFAULT_THRESHOLDS \in Tables
                    <5>1. DEFAULT_THRESHOLDS = [a \in GovActions |-> DEFAULT_THRESHOLDS[a]]
                        BY DEF DEFAULT_THRESHOLDS
                    <5>2. \A a \in GovActions : DEFAULT_THRESHOLDS[a] \in 0..MAX_SIGNERS
                        BY ShippedTables DEF MAX_SIGNERS
                    <5>3. QED
                        BY <5>1, <5>2 DEF Tables
                <4>2. QED
                    BY <3>1, <3>2, <4>1
                       DEF InitGovernance, TypeOK, Log, NoAction, vault, DEFAULT_MINT_WINDOW
            <3>3. ASSUME NEW r \in Retunes, SetActionThreshold(r[1], r[2], keys)
                  PROVE  TypeOK'
                <4>1. table' \in Tables /\ agreed' \in Tables /\ r[1] \in GovActions
                    BY <3>3 DEF SetActionThreshold, ThresholdAccepted, TypeOK, Tables, MAX_SIGNERS
                <4>2. SET_GOVERNANCE \in GovActions
                    BY FlooredActions
                <4>3. QED
                    BY <3>1, <3>3, <4>1, <4>2 DEF SetActionThreshold, ThresholdAccepted, TypeOK, vault
            <3>4. ASSUME NEW q \in Policies, SetMintWindowPolicy(q[1], q[2], keys)
                  PROVE  TypeOK'
                BY <3>1, <3>4, FlooredActions DEF SetMintWindowPolicy, TypeOK, Log, vault
            <3>5. ASSUME NEW new \in Proposals, UpdateSigners(new, keys)
                  PROVE  TypeOK'
                BY <3>1, <3>5, FlooredActions DEF UpdateSigners, TypeOK, Log, governance
            <3>6. CASE PauseVault(keys)
                BY <3>1, <3>6 DEF PauseVault, TypeOK, Log, governance, PAUSE, GovActions
            <3>7. CASE UnpauseVault(keys)
                BY <3>1, <3>7, FlooredActions DEF UnpauseVault, TypeOK, Log, governance
            <3>8. ASSUME NEW action \in OtherOps, VaultOp(action, keys)
                  PROVE  TypeOK'
                BY <3>1, <3>8 DEF VaultOp, TypeOK, Log, governance, vault
            <3>9. QED
                BY <2>2, <3>2, <3>3, <3>4, <3>5, <3>6, <3>7, <3>8 DEF Govern
        <2>3. CASE UNCHANGED vars
            BY <2>3 DEF TypeOK, vars, vault, governance
        <2>4. QED
            BY <2>1, <2>2, <2>3 DEF Next
    <1>3. QED
        BY <1>1, <1>2, PTL DEF Spec

-----------------------------------------------------------------------------
(* Safety *)

\* `initialize` is given live keys.  Without this the vault may be born with
\* two signers, and every action floored at three is out of reach for good.
LiveGenesis == NoKey \notin GenesisKeys

\* The invariant holds of a fresh deployment and of an upgraded one.
LEMMA InitIInv == Init => IInv
    <1> SUFFICES ASSUME Init PROVE IInv
        OBVIOUS
    <1>1. CASE FreshInit
        BY <1>1 DEF FreshInit, IInv, SeatsThree, ReadsAsAgreed,
                    EveryActionSatisfiable
    <1>2. CASE UpgradedInit
        <2>1. slots \in SlotArrays
            BY <1>2, GovernanceAssumption DEF UpgradedInit
        <2>2. Cardinality(Members) >= 3 /\ Cardinality(Members) \in Nat
            BY <1>2, <2>1, ThreeSeats, SlotCount, FS_CardinalityType
               DEF UpgradedInit, Members, LivePacked
        <2>3. \A a \in GovActions : threshold_for(table, a) = DEFAULT_THRESHOLDS[a]
            BY <1>2, BootstrapReadsAsShipped DEF UpgradedInit
        <2>4. EveryActionSatisfiable
            BY <2>2, <2>3, ShippedTables DEF EveryActionSatisfiable
        <2>5. QED
            BY <1>2, <2>3, <2>4 DEF UpgradedInit, IInv, SeatsThree, ReadsAsAgreed, Price, NoTable
    <1>3. QED
        BY <1>1, <1>2 DEF Init

\* Creating the vault keeps the invariant.
LEMMA InitializeIInv ==
    ASSUME LiveGenesis, TypeOK, IInv,
           NEW signers \in [1..3 -> GenesisKeys], NEW admin \in Held,
           Initialize(signers, admin)
    PROVE  IInv'
    <1>1. ~tableExists'
        BY DEF Initialize, IInv, governance
    <1>2. \A i \in 1..3 : signers[i] # NoKey
        BY DEF LiveGenesis
    <1>3. LivePacked(slots') /\ slots'[3] # NoKey
        BY <1>2 DEF Initialize, LivePacked, Slots, MAX_SIGNERS
    <1>4. vaultExists'
        BY DEF Initialize
    <1>5. agreed' = NoTable
        BY DEF Initialize, IInv, Log
    <1>6. QED
        BY <1>1, <1>3, <1>4, <1>5
           DEF IInv, SeatsThree, ReadsAsAgreed, EveryActionSatisfiable

\* Creating the table keeps the invariant: every default is at most three.
LEMMA InitGovernanceIInv ==
    ASSUME TypeOK, IInv, NEW keys \in SUBSET (Members \cap Held), InitGovernance(keys)
    PROVE  IInv'
    <1>1. vaultExists /\ LivePacked(slots) /\ slots[3] # NoKey /\ slots \in SlotArrays
        BY DEF InitGovernance, IInv, SeatsThree, TypeOK
    <1>2. Cardinality(all_signers(slots)) >= 3 /\ Cardinality(all_signers(slots)) \in Nat
        BY <1>1, ThreeSeats, SlotCount, FS_CardinalityType DEF LivePacked
    <1>3. vaultExists' = vaultExists /\ slots' = slots
        BY DEF InitGovernance, vault
    <1>4. \A a \in GovActions : threshold_for(table', a) = DEFAULT_THRESHOLDS[a]
        BY BootstrapReadsAsShipped DEF InitGovernance
    <1>5. EveryActionSatisfiable'
        BY <1>2, <1>3, <1>4, ShippedTables DEF EveryActionSatisfiable, Members
    <1>6. ReadsAsAgreed'
        <2>1. agreed' = NoTable
            BY DEF InitGovernance, IInv, Log
        <2>. QED
            BY <1>4, <2>1 DEF ReadsAsAgreed, Price, NoTable
    <1>7. tableExists'
        BY DEF InitGovernance
    <1>8. QED
        BY <1>1, <1>3, <1>5, <1>6, <1>7 DEF IInv, SeatsThree

\* A retune keeps every action within reach of the sitting members.
LEMMA SetActionThresholdIInv ==
    ASSUME TypeOK, IInv, NEW keys \in SUBSET (Members \cap Held),
           NEW action \in Nat, NEW value \in Nat,
           SetActionThreshold(action, value, keys)
    PROVE  IInv'
    <1>1. /\ vaultExists /\ tableExists /\ slots \in SlotArrays
          /\ LivePacked(slots) /\ slots[3] # NoKey
        BY DEF SetActionThreshold, ThresholdAccepted, Authorized, IInv, SeatsThree, TypeOK
    <1>2. vaultExists' = vaultExists /\ tableExists' = tableExists /\ slots' = slots
        BY DEF SetActionThreshold, ThresholdAccepted, vault
    <1>3. /\ action \in GovActions
          /\ value \in 1..5 /\ value >= THRESHOLD_FLOORS[action]
          /\ value =< Cardinality(all_signers(slots))
        BY <1>1, SlotCount DEF SetActionThreshold, ThresholdAccepted, MAX_SIGNERS, LivePacked
    <1>4. \A a \in GovActions : table'[a] = IF a = action THEN value ELSE table[a]
        BY DEF SetActionThreshold, ThresholdAccepted, TypeOK, Tables
    <1>5. threshold_for(table', action) = value
        <2>1. table'[action] = value
            BY <1>3, <1>4
        <2>2. THRESHOLD_FLOORS[action] \in {1, 3}
            BY <1>3, ShippedTables
        <2>3. QED
            BY <1>3, <2>1, <2>2 DEF threshold_for
    <1>6. \A a \in GovActions \ {action} : threshold_for(table', a) = threshold_for(table, a)
        BY <1>4 DEF threshold_for
    <1>7. EveryActionSatisfiable'
        BY <1>1, <1>2, <1>3, <1>5, <1>6 DEF EveryActionSatisfiable, IInv, Members
    <1>8. ReadsAsAgreed'
        <2>1. agreed' = [agreed EXCEPT ![action] = value]
            BY DEF SetActionThreshold
        <2>2. Price(action)' = value
            BY <1>3, <2>1 DEF Price, TypeOK, Tables
        <2>3. \A a \in GovActions \ {action} : Price(a)' = Price(a)
            BY <2>1 DEF Price, TypeOK, Tables
        <2>. QED
            BY <1>1, <1>3, <1>5, <1>6, <2>2, <2>3 DEF ReadsAsAgreed, IInv
    <1>9. QED
        BY <1>1, <1>2, <1>7, <1>8 DEF IInv, SeatsThree

\* A rotation keeps every action within reach of the new members.
LEMMA UpdateSignersIInv ==
    ASSUME TypeOK, IInv, NEW keys \in SUBSET (Members \cap Held), NEW new \in Proposals,
           UpdateSigners(new, keys)
    PROVE  IInv'
    <1>1. new \in SlotArrays /\ slots' = new /\ LivePacked(new)
        BY GovernanceAssumption DEF UpdateSigners
    <1>2. /\ vaultExists' = vaultExists /\ tableExists' = tableExists
          /\ table' = table /\ agreed' = agreed /\ vaultExists /\ tableExists
        BY DEF UpdateSigners, governance, Authorized, Log
    <1>3. /\ active_signer_count(new) = Cardinality(all_signers(new))
          /\ Cardinality(all_signers(new)) \in Nat
        BY <1>1, SlotCount, FS_CardinalityType DEF LivePacked
    <1>4. \A a \in GovActions : threshold_for(table, a) =< active_signer_count(new)
        BY DEF UpdateSigners, covers_max_live_threshold
    <1>5. active_signer_count(new) >= 3
        BY <1>3, <1>4, FlooredActions, ThresholdRange DEF TypeOK, MAX_SIGNERS
    <1>6. new[3] # NoKey
        BY <1>1, <1>5, ThirdSeat
    <1>7. EveryActionSatisfiable'
        BY <1>1, <1>2, <1>3, <1>4 DEF EveryActionSatisfiable, Members
    <1>8. QED
        BY <1>1, <1>2, <1>6, <1>7 DEF IInv, SeatsThree, ReadsAsAgreed, Price

\* Every other step leaves the signers and the thresholds alone.
LEMMA QuietStepIInv ==
    ASSUME IInv, UNCHANGED <<vaultExists, slots, tableExists, table, agreed>>
    PROVE  IInv'
    BY DEF IInv, SeatsThree, ReadsAsAgreed, Price, EveryActionSatisfiable, Members

\* Every instruction keeps the invariant.
LEMMA NextIInv ==
    ASSUME LiveGenesis, TypeOK, IInv, [Next]_vars
    PROVE  IInv'
    <1>1. ASSUME NEW signers \in [1..3 -> GenesisKeys], NEW admin \in Held,
                 Initialize(signers, admin)
          PROVE  IInv'
        BY <1>1, InitializeIInv
    <1>2. ASSUME NEW keys \in SUBSET (Members \cap Held), Govern(keys)
          PROVE  IInv'
        <2>1. CASE InitGovernance(keys)
            BY <2>1, InitGovernanceIInv
        <2>2. ASSUME NEW r \in Retunes, SetActionThreshold(r[1], r[2], keys)
              PROVE  IInv'
            <3>1. r[1] \in Nat /\ r[2] \in Nat
                BY GovernanceAssumption
            <3>2. QED
                BY <2>2, <3>1, SetActionThresholdIInv
        <2>3. ASSUME NEW new \in Proposals, UpdateSigners(new, keys)
              PROVE  IInv'
            BY <2>3, UpdateSignersIInv
        <2>4. ASSUME NEW q \in Policies, SetMintWindowPolicy(q[1], q[2], keys)
              PROVE  IInv'
            BY <2>4, QuietStepIInv DEF SetMintWindowPolicy, vault, Log
        <2>5. CASE PauseVault(keys)
            BY <2>5, QuietStepIInv DEF PauseVault, governance, Log
        <2>6. CASE UnpauseVault(keys)
            BY <2>6, QuietStepIInv DEF UnpauseVault, governance, Log
        <2>7. ASSUME NEW action \in OtherOps, VaultOp(action, keys)
              PROVE  IInv'
            BY <2>7, QuietStepIInv DEF VaultOp, vault, governance, Log
        <2>8. QED
            BY <1>2, <2>1, <2>2, <2>3, <2>4, <2>5, <2>6, <2>7 DEF Govern
    <1>3. CASE UNCHANGED vars
        BY <1>3, QuietStepIInv DEF vars, vault, governance
    <1>4. QED
        BY <1>1, <1>2, <1>3 DEF Next

\* The invariant holds at every reachable state.
LEMMA IInvHolds ==
    ASSUME LiveGenesis
    PROVE  Spec => []IInv
    <1>1. Init => IInv
        BY InitIInv
    <1>2. TypeOK /\ IInv /\ [Next]_vars => IInv'
        BY NextIInv
    <1>3. QED
        BY <1>1, <1>2, GovernanceTypeCorrect, PTL DEF Spec

\* No sequence of retunes and rotations can brick an action: every threshold in
\* force stays within the number of seated signers.
THEOREM ActionsStaySatisfiable ==
    ASSUME LiveGenesis
    PROVE  Spec => []EveryActionSatisfiable
    <1>1. IInv => EveryActionSatisfiable
        BY DEF IInv
    <1>2. QED
        BY <1>1, IInvHolds, PTL

\* Every way of reading the signer set gives the same count.
THEOREM SlotReadersAgree ==
    ASSUME LiveGenesis
    PROVE  Spec => []ReadersAgree
    <1>1. TypeOK /\ IInv => ReadersAgree
        <2> SUFFICES ASSUME TypeOK, IInv PROVE ReadersAgree
            OBVIOUS
        <2>1. slots \in SlotArrays /\ LivePacked(slots)
            BY DEF TypeOK, IInv, SeatsThree, LivePacked, NoSigners, SlotArrays
        <2>2. SlotsBeforeFirstGap = {i \in Slots : slots[i] # NoKey}
            BY <2>1 DEF SlotsBeforeFirstGap, LivePacked, Slots, MAX_SIGNERS
        <2>3. QED
            BY <2>1, <2>2, SlotCount DEF ReadersAgree, Members, LivePacked, active_signer_count
    <1>2. QED
        BY <1>1, IInvHolds, GovernanceTypeCorrect, PTL

\* The table is only ever created under an existing vault, and neither account
\* is ever closed.
TableNeedsVault == tableExists => vaultExists

\* There is never a threshold table without a vault.
LEMMA TableNeedsVaultHolds == Spec => []TableNeedsVault
    <1>1. Init => TableNeedsVault
        BY DEF Init, FreshInit, UpgradedInit, TableNeedsVault
    <1>2. TableNeedsVault /\ [Next]_vars => TableNeedsVault'
        BY DEF Next, Govern, Initialize, InitGovernance, SetActionThreshold, ThresholdAccepted,
               SetMintWindowPolicy, UpdateSigners, PauseVault, UnpauseVault,
               VaultOp, Authorized, vars, vault, governance, TableNeedsVault
    <1>3. QED
        BY <1>1, <1>2, PTL DEF Spec

\* Two captured keys never change who governs, at what price, nor lift the
\* brake: the floors are read whatever the stored table says.  No assumption on
\* the founding set is needed.
THEOREM TwoKeysNeverGovern == Spec => MinorityCannotGovern
    <1>1. TypeOK /\ TableNeedsVault /\ [Next]_vars => [MinorityCannotGovernStep]_vars
        <2> SUFFICES ASSUME TypeOK, TableNeedsVault, Next PROVE MinorityCannotGovernStep
            OBVIOUS
        <2>1. /\ threshold_for(table, SET_GOVERNANCE) \in 3..MAX_SIGNERS
              /\ threshold_for(table, UPDATE_SIGNERS) \in 3..MAX_SIGNERS
              /\ threshold_for(table, UNPAUSE) \in 3..MAX_SIGNERS
            BY FlooredActions, ThresholdRange DEF TypeOK, MAX_SIGNERS
        <2>2. ASSUME NEW action \in {SET_GOVERNANCE, UPDATE_SIGNERS, UNPAUSE},
                     NEW n \in 1..2, NEW keys, Authorized(action, n, keys)
              PROVE  ~(Cardinality(keys) < 3)
            BY <2>1, <2>2 DEF Authorized, cosigned, MAX_SIGNERS
        <2>3. ASSUME NEW signers \in [1..3 -> GenesisKeys], NEW admin \in Held,
                     Initialize(signers, admin)
              PROVE  MinorityCannotGovernStep
            BY <2>3 DEF Initialize, TableNeedsVault, MinorityCannotGovernStep
        <2>4. ASSUME NEW keys \in SUBSET (Members \cap Held), Govern(keys)
              PROVE  MinorityCannotGovernStep
            <3>1. CASE InitGovernance(keys)
                BY <3>1 DEF InitGovernance, MinorityCannotGovernStep
            <3>2. ASSUME NEW r \in Retunes, SetActionThreshold(r[1], r[2], keys)
                  PROVE  MinorityCannotGovernStep
                BY <2>2, <3>2 DEF SetActionThreshold, ThresholdAccepted, MinorityCannotGovernStep
            <3>3. ASSUME NEW q \in Policies, SetMintWindowPolicy(q[1], q[2], keys)
                  PROVE  MinorityCannotGovernStep
                BY <2>2, <3>3 DEF SetMintWindowPolicy, Log, MinorityCannotGovernStep
            <3>4. ASSUME NEW new \in Proposals, UpdateSigners(new, keys)
                  PROVE  MinorityCannotGovernStep
                BY <2>2, <3>4 DEF UpdateSigners, Log, MinorityCannotGovernStep
            <3>5. CASE PauseVault(keys)
                BY <3>5 DEF PauseVault, governance, MinorityCannotGovernStep
            <3>6. CASE UnpauseVault(keys)
                BY <2>2, <3>6 DEF UnpauseVault, Log, MinorityCannotGovernStep
            <3>7. ASSUME NEW action \in OtherOps, VaultOp(action, keys)
                  PROVE  MinorityCannotGovernStep
                BY <3>7 DEF VaultOp, vault, governance, MinorityCannotGovernStep
            <3>8. QED
                BY <2>4, <3>1, <3>2, <3>3, <3>4, <3>5, <3>6, <3>7 DEF Govern
        <2>5. QED
            BY <2>3, <2>4 DEF Next
    <1>2. QED
        BY <1>1, GovernanceTypeCorrect, TableNeedsVaultHolds, PTL DEF Spec, MinorityCannotGovern

\* Every action costs at least what was last agreed on, by a retune or by what
\* the program ships, on both tables the program can wake up with.
THEOREM AgreedPriceHolds ==
    ASSUME LiveGenesis
    PROVE  Spec => AgreedPrice
    <1>1. TypeOK /\ IInv /\ [Next]_vars => [AgreedPriceStep]_vars
        <2> SUFFICES ASSUME TypeOK, IInv, Next PROVE AgreedPriceStep
            OBVIOUS
        <2>1. ASSUME NEW action \in GovActions, NEW n \in 1..2, NEW keys,
                     Authorized(action, n, keys)
              PROVE  Cardinality(keys) >= Price(action)
            <3>1. threshold_for(table, action) = Price(action)
                BY <2>1 DEF Authorized, IInv, ReadsAsAgreed
            <3>2. threshold_for(table, action) \in 1..MAX_SIGNERS
                BY ThresholdRange DEF TypeOK
            <3>. QED
                BY <2>1, <3>1, <3>2 DEF Authorized, cosigned, MAX_SIGNERS
        <2>2. ASSUME NEW signers \in [1..3 -> GenesisKeys], NEW admin \in Held,
                     Initialize(signers, admin)
              PROVE  AgreedPriceStep
            BY <2>2 DEF Initialize, Log, NoAction, GovActions, AgreedPriceStep
        <2>3. ASSUME NEW keys \in SUBSET (Members \cap Held), Govern(keys)
              PROVE  AgreedPriceStep
            <3>1. CASE InitGovernance(keys)
                BY <3>1 DEF InitGovernance, Log, NoAction, GovActions, AgreedPriceStep
            <3>2. ASSUME NEW r \in Retunes, SetActionThreshold(r[1], r[2], keys)
                  PROVE  AgreedPriceStep
                BY <2>1, <3>2 DEF SetActionThreshold, ThresholdAccepted, AgreedPriceStep
            <3>3. ASSUME NEW q \in Policies, SetMintWindowPolicy(q[1], q[2], keys)
                  PROVE  AgreedPriceStep
                BY <2>1, <3>3 DEF SetMintWindowPolicy, Log, AgreedPriceStep
            <3>4. ASSUME NEW new \in Proposals, UpdateSigners(new, keys)
                  PROVE  AgreedPriceStep
                BY <2>1, <3>4 DEF UpdateSigners, Log, AgreedPriceStep
            <3>5. CASE PauseVault(keys)
                BY <2>1, <3>5 DEF PauseVault, AuthorizedOptionalCosigner, Log, AgreedPriceStep
            <3>6. CASE UnpauseVault(keys)
                BY <2>1, <3>6 DEF UnpauseVault, Log, AgreedPriceStep
            <3>7. ASSUME NEW action \in OtherOps, VaultOp(action, keys)
                  PROVE  AgreedPriceStep
                BY <2>1, <3>7 DEF VaultOp, AuthorizedOptionalCosigner, Log, AgreedPriceStep
            <3>8. QED
                BY <2>3, <3>1, <3>2, <3>3, <3>4, <3>5, <3>6, <3>7 DEF Govern
        <2>4. QED
            BY <2>2, <2>3 DEF Next
    <1>2. QED
        BY <1>1, IInvHolds, GovernanceTypeCorrect, PTL DEF Spec, AgreedPrice

\* No step is paid with less than its price, neither the governing ones by a
\* minority nor any other against the shipped table (state.rs:711-768).
THEOREM PricesAlwaysStand ==
    ASSUME LiveGenesis
    PROVE  Spec => PricesStand
    BY TwoKeysNeverGovern, AgreedPriceHolds, PTL
       DEF MinorityCannotGovern, AgreedPrice, PricesStand

\* However the slots are filled, the vault seats at most five.
LEMMA FewSigners ==
    ASSUME NEW array \in SlotArrays
    PROVE  /\ IsFiniteSet(all_signers(array))
           /\ Cardinality(all_signers(array)) \in 0..MAX_SIGNERS
    <1>. DEFINE D == {i \in Slots : array[i] # NoKey}
                f == [i \in D |-> array[i]]
    <1>1. IsFiniteSet(D) /\ Cardinality(D) =< MAX_SIGNERS
        BY SlotsFinite, Interval, FS_Subset DEF Slots, MAX_SIGNERS
    <1>2. f \in Surjection(D, all_signers(array))
        BY DEF all_signers, Surjection
    <1>3. IsFiniteSet(all_signers(array)) /\ Cardinality(all_signers(array)) =< Cardinality(D)
        BY <1>1, <1>2, FS_Surjection
    <1>. HIDE DEF D, f
    <1>4. Cardinality(all_signers(array)) \in Nat /\ Cardinality(D) \in Nat
        BY <1>1, <1>3, FS_CardinalityType
    <1>. QED
        BY <1>1, <1>3, <1>4 DEF MAX_SIGNERS

\* The keys that sign a rotation and survive it are seated and held.
LEMMA RotationMends ==
    ASSUME TypeOK, NEW keys \in SUBSET (Members \cap Held), NEW new \in Proposals,
           UpdateSigners(new, keys)
    PROVE  Mendable'
    <1>1. /\ tableExists' /\ table' = table /\ slots' = new /\ new \in SlotArrays
          /\ Cardinality(proven_keys(new, keys)) >= threshold_for(table, UPDATE_SIGNERS)
        BY GovernanceAssumption DEF UpdateSigners, governance, Authorized
    <1>2. proven_keys(new, keys) \in SUBSET (Members' \cap Held)
        BY <1>1 DEF proven_keys, Members
    <1>3. IsFiniteSet(Members')
        BY <1>1, FewSigners DEF Members
    <1>4. IsFiniteSet(Members' \cap Held)
        BY <1>3, FS_Subset
    <1>5. /\ Cardinality(proven_keys(new, keys)) =< Cardinality(Members' \cap Held)
          /\ Cardinality(proven_keys(new, keys)) \in Nat
          /\ Cardinality(Members' \cap Held) \in Nat
        BY <1>2, <1>4, FS_Subset, FS_CardinalityType
    <1>6. threshold_for(table, UPDATE_SIGNERS) \in Nat
        BY FlooredActions, ThresholdRange DEF TypeOK, MAX_SIGNERS
    <1>7. Payable(UPDATE_SIGNERS)'
        BY <1>1, <1>5, <1>6 DEF Payable
    <1>. QED
        BY <1>1, <1>7 DEF Mendable

\* A retune is paid by three held keys, enough for whichever of the two prices
\* was never raised.
LEMMA RetuneMends ==
    ASSUME TypeOK, IInv, NEW keys \in SUBSET (Members \cap Held),
           NEW action \in Nat, NEW value \in Nat,
           SetActionThreshold(action, value, keys), IInv',
           agreed'[UPDATE_SIGNERS] = 0 \/ agreed'[SET_GOVERNANCE] = 0
    PROVE  Mendable'
    <1>1. /\ tableExists /\ tableExists' /\ slots' = slots /\ slots \in SlotArrays
          /\ cosigned(slots, table, SET_GOVERNANCE, 1, keys)
        BY DEF SetActionThreshold, Authorized, vault, TypeOK
    <1>2. threshold_for(table, SET_GOVERNANCE) \in 3..MAX_SIGNERS
        BY FlooredActions, ThresholdRange DEF TypeOK, MAX_SIGNERS
    <1>3. Cardinality(keys) >= 3
        BY <1>1, <1>2 DEF cosigned, MAX_SIGNERS
    <1>4. IsFiniteSet(Members \cap Held)
        BY <1>1, FewSigners, FS_Subset DEF Members
    <1>5. Cardinality(Members \cap Held) >= 3
        <2>1. Cardinality(keys) =< Cardinality(Members \cap Held)
            BY <1>4, FS_Subset
        <2>2. Cardinality(keys) \in Nat /\ Cardinality(Members \cap Held) \in Nat
            BY <1>4, FS_Subset, FS_CardinalityType
        <2>. QED
            BY <1>3, <2>1, <2>2
    <1>6. Members' = Members
        BY <1>1 DEF Members
    <1>7. PICK a \in {UPDATE_SIGNERS, SET_GOVERNANCE} : agreed'[a] = 0
        OBVIOUS
    <1>8. a \in GovActions /\ DEFAULT_THRESHOLDS[a] \in 1..3
        BY FlooredActions, ShippedTables
    <1>9. threshold_for(table', a) = DEFAULT_THRESHOLDS[a]
        BY <1>1, <1>7, <1>8 DEF IInv, ReadsAsAgreed, Price
    <1>10. Payable(a)'
        <2>1. Cardinality(Members \cap Held) \in Nat
            BY <1>4, FS_CardinalityType
        <2>. QED
            BY <1>5, <1>6, <1>8, <1>9, <2>1 DEF Payable
    <1>. QED
        BY <1>1, <1>10 DEF Mendable

\* Steps that leave the signers and the thresholds alone close no door.
LEMMA QuietStepMends ==
    ASSUME Mendable, UNCHANGED <<slots, tableExists, table>>
    PROVE  Mendable'
    BY DEF Mendable, Payable, Members

\* Mistyped seats and raised prices never close both ways back while one of
\* the two prices that guard them is the shipped one.
THEOREM OneDoorAlwaysOpen ==
    ASSUME LiveGenesis
    PROVE  Spec => OneDoorStaysOpen
    <1>1. TypeOK /\ IInv /\ IInv' /\ [Next]_vars => [OneDoorStaysOpenStep]_vars
        <2> SUFFICES ASSUME TypeOK, IInv, IInv', Next, Mendable,
                            agreed'[UPDATE_SIGNERS] = 0 \/ agreed'[SET_GOVERNANCE] = 0
                     PROVE  Mendable'
            BY DEF OneDoorStaysOpenStep
        <2>1. ASSUME NEW signers \in [1..3 -> GenesisKeys], NEW admin \in Held,
                     Initialize(signers, admin)
              PROVE  Mendable'
            BY <2>1 DEF Initialize, Mendable, IInv
        <2>2. ASSUME NEW keys \in SUBSET (Members \cap Held), Govern(keys)
              PROVE  Mendable'
            <3>1. CASE InitGovernance(keys)
                BY <3>1 DEF InitGovernance, Mendable
            <3>2. ASSUME NEW r \in Retunes, SetActionThreshold(r[1], r[2], keys)
                  PROVE  Mendable'
                <4>1. r[1] \in Nat /\ r[2] \in Nat
                    BY GovernanceAssumption
                <4>. QED
                    BY <3>2, <4>1, RetuneMends
            <3>3. ASSUME NEW q \in Policies, SetMintWindowPolicy(q[1], q[2], keys)
                  PROVE  Mendable'
                BY <3>3, QuietStepMends DEF SetMintWindowPolicy, vault
            <3>4. ASSUME NEW new \in Proposals, UpdateSigners(new, keys)
                  PROVE  Mendable'
                BY <3>4, RotationMends
            <3>5. CASE PauseVault(keys)
                BY <3>5, QuietStepMends DEF PauseVault, governance
            <3>6. CASE UnpauseVault(keys)
                BY <3>6, QuietStepMends DEF UnpauseVault, governance
            <3>7. ASSUME NEW action \in OtherOps, VaultOp(action, keys)
                  PROVE  Mendable'
                BY <3>7, QuietStepMends DEF VaultOp, vault, governance
            <3>. QED
                BY <2>2, <3>1, <3>2, <3>3, <3>4, <3>5, <3>6, <3>7 DEF Govern
        <2>. QED
            BY <2>1, <2>2 DEF Next
    <1>. QED
        BY <1>1, IInvHolds, GovernanceTypeCorrect, PTL DEF Spec, OneDoorStaysOpen

-----------------------------------------------------------------------------
(***************************************************************************)
(* One call of authorize, for every account list                           *)
(***************************************************************************)

\* A function on an interval from one is a sequence of that length.
LEMMA FunctionIsSeq ==
    ASSUME NEW S, NEW n \in Nat, NEW f \in [1..n -> S]
    PROVE  f \in Seq(S) /\ Len(f) = n
    <1>1. f \in Seq(S)
        BY SeqDef
    <1>2. Len(f) \in Nat /\ 1..Len(f) = 1..n
        BY <1>1, LenProperties
    <1>. QED
        BY <1>1, <1>2

\* What is stored is a byte: whatever it is, it reads as a number no lower than
\* the floor, and so at least one.
LEMMA StoredThreshold ==
    ASSUME NEW t \in [GovActions -> 0..255], NEW a \in GovActions
    PROVE  /\ threshold_for(t, a) \in Nat
           /\ threshold_for(t, a) >= THRESHOLD_FLOORS[a]
           /\ THRESHOLD_FLOORS[a] \in {1, 3}
    <1>1. t[a] \in 0..255
        OBVIOUS
    <1>. QED
        BY <1>1, ShippedTables DEF threshold_for

\* The i-th key authorize looks at: a named signer, or a remaining account.
KeyAt(named, remaining, i) ==
    IF i =< Len(named) THEN named[i] ELSE remaining[i - Len(named)].key

\* The keys collected are the named ones and those of the leading accounts.
LEMMA Collected ==
    ASSUME NEW n \in Nat, NEW m \in Nat, NEW named \in [1..n -> Keys],
           NEW remaining \in [1..m -> Accounts], NEW required \in Nat,
           m >= extra_needed(required, named)
    PROVE  LET keys == collected_keys(required, named, remaining)
               e    == extra_needed(required, named)
           IN  /\ e \in Nat /\ Len(named) = n /\ Len(remaining) = m
               /\ Len(keys) = n + e
               /\ \A i \in 1..(n + e) : /\ keys[i] = KeyAt(named, remaining, i)
                                        /\ keys[i] \in Keys
    <1>. DEFINE e == extra_needed(required, named)
                tail == [i \in 1..e |-> remaining[i].key]
    <1>1. named \in Seq(Keys) /\ Len(named) = n
        BY FunctionIsSeq
    <1>2. Len(remaining) = m
        BY FunctionIsSeq
    <1>3. e \in Nat
        BY <1>1 DEF extra_needed
    <1>4. tail \in [1..e -> Keys]
        <2>1. \A i \in 1..e : i \in 1..m
            BY <1>3
        <2>2. \A i \in 1..m : remaining[i].key \in Keys
            BY DEF Accounts
        <2>. QED
            BY <2>1, <2>2
    <1>5. tail \in Seq(Keys) /\ Len(tail) = e
        BY <1>3, <1>4, FunctionIsSeq
    <1>6. collected_keys(required, named, remaining) = named \o tail
        BY DEF collected_keys
    <1>7. \A i \in 1..e : tail[i] = remaining[i].key
        OBVIOUS
    <1>. HIDE DEF e, tail
    <1>8. /\ Len(named \o tail) = n + e
          /\ named \o tail \in Seq(Keys)
          /\ \A i \in 1..(n + e) : (named \o tail)[i] = IF i =< n THEN named[i] ELSE tail[i - n]
        BY <1>1, <1>5, ConcatProperties
    <1>9. \A i \in 1..(n + e) : /\ (named \o tail)[i] = KeyAt(named, remaining, i)
                                /\ (named \o tail)[i] \in Keys
        <2>. TAKE i \in 1..(n + e)
        <2>1. (named \o tail)[i] \in Keys
            BY <1>8, ElementOfSeq
        <2>2. CASE i =< n
            BY <1>1, <1>8, <2>1, <2>2 DEF KeyAt
        <2>3. CASE ~(i =< n)
            <3>1. i - n \in 1..e
                BY <1>3, <2>3
            <3>. QED
                BY <1>1, <1>7, <1>8, <2>1, <2>3, <3>1 DEF KeyAt
        <2>. QED
            BY <2>2, <2>3
    <1>. QED
        BY <1>1, <1>2, <1>3, <1>6, <1>8, <1>9 DEF e

\* authorize, spelled out: enough remaining accounts, the leading ones signing,
\* and every key looked at a member, none of them twice.
Arranged(array, named, remaining, n, e) ==
    /\ Len(remaining) >= e
    /\ \A i \in 1..e : remaining[i].signed
    /\ \A i \in 1..(n + e) : KeyAt(named, remaining, i) \in all_signers(array)
    /\ \A i, j \in 1..(n + e) :
           i # j => KeyAt(named, remaining, i) # KeyAt(named, remaining, j)
    /\ n + e =< MAX_SIGNERS

\* What authorize accepts is what is so arranged.
LEMMA AuthorizeArranged ==
    ASSUME NEW array \in SlotArrays, NEW t \in [GovActions -> 0..255],
           NEW a \in GovActions, NEW n \in Nat, NEW m \in Nat,
           NEW named \in [1..n -> Keys], NEW remaining \in [1..m -> Accounts]
    PROVE  LET e == extra_needed(threshold_for(t, a), named)
           IN  /\ e \in Nat /\ n + e >= threshold_for(t, a)
               /\ n + e = IF threshold_for(t, a) > n THEN threshold_for(t, a) ELSE n
               /\ authorize(array, t, a, named, remaining)
                      <=> Arranged(array, named, remaining, n, e)
    <1>. DEFINE required == threshold_for(t, a)
                e == extra_needed(required, named)
                keys == collected_keys(required, named, remaining)
    <1>1. required \in Nat /\ required >= 1
        BY StoredThreshold
    <1>2. Len(named) = n /\ Len(remaining) = m
        BY FunctionIsSeq
    <1>3. e \in Nat /\ n + e >= required /\ n + e = IF required > n THEN required ELSE n
        <2>. HIDE DEF required
        <2>. QED
            BY <1>1, <1>2 DEF extra_needed
    <1>4. CASE ~(m >= e)
        <2>1. ~authorize(array, t, a, named, remaining)
            BY <1>2, <1>4 DEF authorize
        <2>2. ~Arranged(array, named, remaining, n, e)
            BY <1>2, <1>4 DEF Arranged
        <2>. QED
            BY <1>3, <2>1, <2>2
    <1>5. CASE m >= e
        <2>1. /\ Len(keys) = n + e
              /\ \A i \in 1..(n + e) : keys[i] = KeyAt(named, remaining, i) /\ keys[i] \in Keys
            <3>. HIDE DEF required
            <3>. QED
                BY <1>1, <1>5, Collected
        <2>2. \A k \in Keys : is_signer(array, k) <=> k \in all_signers(array)
            BY DEF is_signer, all_signers
        <2>3. authorize(array, t, a, named, remaining) <=>
                  /\ required \in 1..MAX_SIGNERS
                  /\ Len(remaining) >= e
                  /\ \A i \in 1..e : remaining[i].signed
                  /\ validate_threshold(array, keys, required)
            BY DEF authorize
        <2>. HIDE DEF required, e, keys
        <2>4. validate_threshold(array, keys, required) <=>
                  /\ \A i \in 1..(n + e) : KeyAt(named, remaining, i) \in all_signers(array)
                  /\ \A i, j \in 1..(n + e) :
                         i # j => KeyAt(named, remaining, i) # KeyAt(named, remaining, j)
                  /\ n + e =< MAX_SIGNERS
            <3>1. \A i \in 1..(n + e) :
                      is_signer(array, keys[i]) <=> KeyAt(named, remaining, i) \in all_signers(array)
                BY <2>1, <2>2
            <3>. QED
                BY <1>1, <1>3, <2>1, <3>1 DEF validate_threshold
        <2>5. n + e =< MAX_SIGNERS => required \in 1..MAX_SIGNERS
            BY <1>1, <1>3 DEF MAX_SIGNERS
        <2>. QED
            BY <2>3, <2>4, <2>5, <1>3 DEF Arranged, required, e
    <1>. QED
        BY <1>3, <1>4, <1>5

-----------------------------------------------------------------------------
(* What a call can look like *)

\* The vault and its table are those of the start; a call carries the verdict
\* of authorize on the list it was submitted with.
CallInv ==
    /\ vaultSlots \in SlotArrays
    /\ storedTable \in [GovActions -> 0..255]
    /\ \/ call = NoCall
       \/ /\ call # NoCall
          /\ \E a \in GovActions, n \in 1..2, m \in Nat :
                \E named \in [1..n -> Keys], remaining \in [1..m -> Accounts] :
                    call = [action |-> a, named |-> named, remaining |-> remaining,
                            accepted |-> authorize(vaultSlots, storedTable, a, named, remaining)]

\* At first there is no call.
LEMMA InitCall == CallInit => CallInv
BY CallAssumption DEF CallInit, CallInv

\* A submitted call is judged by authorize, and stays as it is.
LEMMA NextCall == CallInv /\ [CallNext]_callVars => CallInv'
    <1>. SUFFICES ASSUME CallInv, [CallNext]_callVars PROVE CallInv'
        OBVIOUS
    <1>1. CASE UNCHANGED callVars
        BY <1>1 DEF callVars, CallInv
    <1>2. CASE CallNext
        <2>1. PICK a \in CallActions, named \in NamedLists, remaining \in RemainingLists :
                  Submit(a, named, remaining)
            BY <1>2 DEF CallNext
        <2>2. PICK n \in 1..2 : named \in [1..n -> Keys]
            BY DEF NamedLists
        <2>3. PICK m \in 0..MaxRemaining : remaining \in [1..m -> Accounts]
            BY DEF RemainingLists
        <2>4. m \in Nat /\ a \in GovActions
            BY CallAssumption
        <2>5. /\ vaultSlots' = vaultSlots /\ storedTable' = storedTable
              /\ call' = [action |-> a, named |-> named, remaining |-> remaining,
                          accepted |-> authorize(vaultSlots, storedTable, a, named, remaining)]
            BY <2>1 DEF Submit
        <2>6. call' # NoCall
            <3>1. Len(named) = n
                BY <2>2, FunctionIsSeq
            <3>2. Len(<<>>) = 0
                OBVIOUS
            <3>3. named # <<>>
                BY <3>1, <3>2
            <3>4. call'.named = named
                BY <2>5
            <3>. QED
                BY <3>3, <3>4 DEF NoCall
        <2>. HIDE DEF CallInv
        <2>. QED
            BY <2>2, <2>3, <2>4, <2>5, <2>6 DEF CallInv
    <1>. QED
        BY <1>1, <1>2

\* Every reachable call carries the verdict of authorize on its own list.
LEMMA CallInductive == CallSpec => []CallInv
    <1>. QED
        BY InitCall, NextCall, PTL DEF CallSpec

\* As many keys as places, when no key stands in two of them.
LEMMA AsManyKeysAsPlaces ==
    ASSUME NEW k \in Nat, NEW S, NEW f \in [1..k -> S], NEW T, T = {f[i] : i \in 1..k},
           \A i, j \in 1..k : i # j => f[i] # f[j]
    PROVE  IsFiniteSet(T) /\ Cardinality(T) = k
    <1>1. f \in Bijection(1..k, T)
        <2>1. f \in [1..k -> T]
            OBVIOUS
        <2>2. \A s \in T : \E i \in 1..k : f[i] = s
            OBVIOUS
        <2>. QED
            BY <2>1, <2>2 DEF Bijection, Injection, Surjection, IsInjective
    <1>2. IsFiniteSet(1..k) /\ Cardinality(1..k) = k
        BY Interval
    <1>. QED
        BY <1>1, <1>2, FS_Bijection DEF ExistsBijection

\* What authorize lets through was signed by as many members as it takes.
LEMMA AcceptedHasQuorum == CallInv => AcceptedOnlyByAQuorum
    <1>. SUFFICES ASSUME CallInv, call.accepted PROVE
                  Cardinality(TxSigners \cap all_signers(vaultSlots))
                      >= IF Required > THRESHOLD_FLOORS[call.action]
                         THEN Required ELSE THRESHOLD_FLOORS[call.action]
        BY DEF AcceptedOnlyByAQuorum
    <1>1. call # NoCall
        BY DEF NoCall
    <1>2. PICK a \in GovActions, n \in 1..2, m \in Nat :
              \E named \in [1..n -> Keys], remaining \in [1..m -> Accounts] :
                  call = [action |-> a, named |-> named, remaining |-> remaining,
                          accepted |-> authorize(vaultSlots, storedTable, a, named, remaining)]
        BY <1>1 DEF CallInv
    <1>3. PICK named \in [1..n -> Keys], remaining \in [1..m -> Accounts] :
              call = [action |-> a, named |-> named, remaining |-> remaining,
                      accepted |-> authorize(vaultSlots, storedTable, a, named, remaining)]
        BY <1>2
    <1>. DEFINE e == extra_needed(Required, named)
                f == [i \in 1..(n + e) |-> KeyAt(named, remaining, i)]
                T == {f[i] : i \in 1..(n + e)}
    <1>4. /\ call.action = a /\ call.named = named /\ call.remaining = remaining
          /\ authorize(vaultSlots, storedTable, a, named, remaining)
        BY <1>3
    <1>5. /\ Required = threshold_for(storedTable, a) /\ Required \in Nat
          /\ Required >= THRESHOLD_FLOORS[a] /\ THRESHOLD_FLOORS[a] \in {1, 3}
        BY <1>4, StoredThreshold DEF Required, CallInv
    <1>6. /\ e \in Nat /\ n + e >= Required
          /\ Arranged(vaultSlots, named, remaining, n, e)
        <2>1. n \in Nat /\ vaultSlots \in SlotArrays /\ storedTable \in [GovActions -> 0..255]
            BY DEF CallInv
        <2>2. extra_needed(threshold_for(storedTable, a), named) = e
            BY <1>5
        <2>. HIDE DEF e
        <2>. QED
            BY <1>4, <1>5, <2>1, <2>2, AuthorizeArranged
    <1>7. Len(named) = n /\ Len(remaining) = m
        BY FunctionIsSeq
    <1>. HIDE DEF e
    <1>8. f \in [1..(n + e) -> all_signers(vaultSlots)]
        BY <1>6 DEF Arranged
    <1>9. \A i, j \in 1..(n + e) : i # j => f[i] # f[j]
        BY <1>6 DEF Arranged
    <1>10. IsFiniteSet(T) /\ Cardinality(T) = n + e
        <2>. DEFINE k == n + e
        <2>1. k \in Nat
            BY <1>6
        <2>2. f \in [1..k -> all_signers(vaultSlots)] /\ T = {f[i] : i \in 1..k}
            BY <1>8
        <2>3. \A i, j \in 1..k : i # j => f[i] # f[j]
            BY <1>9
        <2>. HIDE DEF f, T, k
        <2>4. IsFiniteSet(T) /\ Cardinality(T) = k
            BY <2>1, <2>2, <2>3, AsManyKeysAsPlaces
        <2>. QED
            BY <2>4 DEF k
    <1>11. T \subseteq TxSigners
        <2>. SUFFICES ASSUME NEW i \in 1..(n + e) PROVE KeyAt(named, remaining, i) \in TxSigners
            OBVIOUS
        <2>1. CASE i =< n
            BY <1>4, <1>7, <2>1 DEF KeyAt, TxSigners
        <2>2. CASE ~(i =< n)
            <3>1. i - n \in 1..e /\ i - n \in 1..m
                BY <1>6, <1>7, <2>2 DEF Arranged
            <3>2. remaining[i - n].signed
                BY <1>6, <3>1 DEF Arranged
            <3>3. remaining[i - n] \in
                      {b \in {call.remaining[j] : j \in 1..Len(call.remaining)} : b.signed}
                BY <1>4, <1>7, <3>1, <3>2
            <3>. QED
                BY <1>7, <2>2, <3>3 DEF KeyAt, TxSigners
        <2>. QED
            BY <2>1, <2>2
    <1>12. T \subseteq all_signers(vaultSlots)
        BY <1>8
    <1>. DEFINE U == TxSigners \cap all_signers(vaultSlots)
    <1>13. IsFiniteSet(U)
        BY FewSigners, FS_Subset DEF CallInv
    <1>14. T \in SUBSET U
        BY <1>11, <1>12
    <1>. HIDE DEF T, U
    <1>15. Cardinality(T) =< Cardinality(U) /\ Cardinality(U) \in Nat
        BY <1>13, <1>14, FS_Subset, FS_CardinalityType
    <1>. QED
        BY <1>4, <1>5, <1>6, <1>10, <1>15 DEF U

\* What authorize lets through was signed by at least the required number of
\* distinct members, for every vault, stored byte, action and account list.
THEOREM QuorumAlwaysSigned == CallSpec => []AcceptedOnlyByAQuorum
    <1>. QED
        BY AcceptedHasQuorum, CallInductive, PTL

\* The keys an account list offers: the named ones, and those of the leading
\* accounts that signed.
Offered(named, remaining, p) ==
    {named[i] : i \in 1..Len(named)}
        \cup {b.key : b \in {b \in {remaining[i] : i \in 1..p} : b.signed}}

\* The places of a list that count: the named ones, and the leading accounts
\* that signed.
Places(remaining, n, p) == {i \in 1..(n + p) : i =< n \/ remaining[i - n].signed}

\* Each place offers one key, and every key offered stands in one.
LEMMA PlacesOffer ==
    ASSUME NEW n \in Nat, NEW m \in Nat, NEW p \in 0..m, NEW named \in [1..n -> Keys],
           NEW remaining \in [1..m -> Accounts]
    PROVE  LET D == Places(remaining, n, p)
               C == Offered(named, remaining, p)
               g == [i \in D |-> KeyAt(named, remaining, i)]
           IN  /\ g \in Surjection(D, C)
               /\ IsFiniteSet(D) /\ Cardinality(D) \in Nat /\ Cardinality(D) =< n + p
               /\ Cardinality(D) = n + p => D = 1..(n + p)
               /\ IsFiniteSet(C) /\ Cardinality(C) \in Nat /\ Cardinality(C) =< Cardinality(D)
               /\ Cardinality(C) = Cardinality(D) <=> g \in Injection(D, C)
    <1>. DEFINE D == Places(remaining, n, p)
                C == Offered(named, remaining, p)
                g == [i \in D |-> KeyAt(named, remaining, i)]
    <1>1. Len(named) = n
        BY FunctionIsSeq
    <1>2. \A i \in D : KeyAt(named, remaining, i) \in C
        <2>. TAKE i \in D
        <2>1. CASE i =< n
            BY <1>1, <2>1 DEF KeyAt, Offered, Places
        <2>2. CASE ~(i =< n)
            <3>1. i - n \in 1..p /\ remaining[i - n].signed
                BY <2>2 DEF Places
            <3>2. remaining[i - n] \in {b \in {remaining[j] : j \in 1..p} : b.signed}
                BY <3>1
            <3>. QED
                BY <1>1, <2>2, <3>2 DEF KeyAt, Offered
        <2>. QED
            BY <2>1, <2>2
    <1>3. \A c \in C : \E i \in D : KeyAt(named, remaining, i) = c
        <2>. TAKE c \in C
        <2>1. CASE \E i \in 1..n : c = named[i]
            BY <1>1, <2>1 DEF KeyAt, Places
        <2>2. CASE \E j \in 1..p : remaining[j].signed /\ c = remaining[j].key
            <3>1. PICK j \in 1..p : remaining[j].signed /\ c = remaining[j].key
                BY <2>2
            <3>2. n + j \in 1..(n + p) /\ ~(n + j =< n) /\ (n + j) - n = j
                OBVIOUS
            <3>3. n + j \in D
                BY <3>1, <3>2 DEF Places
            <3>. QED
                BY <1>1, <3>1, <3>2, <3>3 DEF KeyAt
        <2>. QED
            BY <1>1, <2>1, <2>2 DEF Offered
    <1>4. g \in Surjection(D, C)
        BY <1>2, <1>3 DEF Surjection
    <1>5. IsFiniteSet(1..(n + p)) /\ Cardinality(1..(n + p)) = n + p /\ n + p \in Nat
        BY Interval
    <1>6. D \in SUBSET (1..(n + p))
        BY DEF Places
    <1>. HIDE DEF D, C, g
    <1>7. /\ IsFiniteSet(D) /\ Cardinality(D) =< n + p
          /\ Cardinality(D) = n + p => D = 1..(n + p)
        BY <1>5, <1>6, FS_Subset
    <1>8. /\ IsFiniteSet(C) /\ Cardinality(C) =< Cardinality(D)
          /\ Cardinality(C) = Cardinality(D) <=> g \in Injection(D, C)
        BY <1>4, <1>7, FS_Surjection
    <1>9. Cardinality(D) \in Nat /\ Cardinality(C) \in Nat
        BY <1>7, <1>8, FS_CardinalityType
    <1>. QED
        BY <1>4, <1>7, <1>8, <1>9 DEF D, C, g

\* A list is arranged exactly when the keys it offers are members, and as many
\* as the places authorize looks at.
LEMMA ArrangedOffers ==
    ASSUME NEW array \in SlotArrays, NEW n \in Nat, NEW m \in Nat, NEW e \in Nat,
           NEW named \in [1..n -> Keys], NEW remaining \in [1..m -> Accounts]
    PROVE  LET p == IF e =< m THEN e ELSE m
           IN  Arranged(array, named, remaining, n, e) <=>
                   /\ Offered(named, remaining, p) \subseteq all_signers(array)
                   /\ Cardinality(Offered(named, remaining, p)) = n + e
    <1>. DEFINE p == IF e =< m THEN e ELSE m
                D == Places(remaining, n, p)
                C == Offered(named, remaining, p)
                g == [i \in D |-> KeyAt(named, remaining, i)]
    <1>1. p \in 0..m /\ p =< e
        OBVIOUS
    <1>2. Len(remaining) = m
        BY FunctionIsSeq
    <1>3. /\ g \in Surjection(D, C)
          /\ IsFiniteSet(D) /\ Cardinality(D) \in Nat /\ Cardinality(D) =< n + p
          /\ Cardinality(D) = n + p => D = 1..(n + p)
          /\ IsFiniteSet(C) /\ Cardinality(C) \in Nat /\ Cardinality(C) =< Cardinality(D)
          /\ Cardinality(C) = Cardinality(D) <=> g \in Injection(D, C)
        <2>. HIDE DEF p
        <2>. QED
            BY <1>1, PlacesOffer
    <1>4. \A i \in D : g[i] = KeyAt(named, remaining, i)
        OBVIOUS
    <1>5. ASSUME Arranged(array, named, remaining, n, e)
          PROVE  C \subseteq all_signers(array) /\ Cardinality(C) = n + e
        <2>1. p = e
            BY <1>2, <1>5 DEF Arranged
        <2>2. D = 1..(n + e)
            <3>1. \A i \in 1..(n + e) : i =< n \/ remaining[i - n].signed
                <4>. TAKE i \in 1..(n + e)
                <4>1. ~(i =< n) => i - n \in 1..e
                    OBVIOUS
                <4>. QED
                    BY <1>5, <4>1 DEF Arranged
            <3>. QED
                BY <2>1, <3>1 DEF Places
        <2>. HIDE DEF D, C, g, p
        <2>3. \A i, j \in D : g[i] = g[j] => i = j
            BY <1>4, <1>5, <2>2 DEF Arranged
        <2>4. g \in Injection(D, C)
            BY <1>3, <2>3 DEF Surjection, Injection, IsInjective
        <2>5. Cardinality(D) = n + e
            BY <2>2, Interval
        <2>6. \A c \in C : \E i \in D : g[i] = c
            BY <1>3 DEF Surjection
        <2>7. C \subseteq all_signers(array)
            BY <1>4, <1>5, <2>2, <2>6 DEF Arranged
        <2>. QED
            BY <1>3, <2>4, <2>5, <2>7
    <1>6. ASSUME C \subseteq all_signers(array), Cardinality(C) = n + e
          PROVE  Arranged(array, named, remaining, n, e)
        <2>. HIDE DEF D, C, g, p
        <2>1. Cardinality(D) = n + p /\ p = e
            BY <1>1, <1>3, <1>6
        <2>2. D = 1..(n + e) /\ g \in Injection(D, C)
            BY <1>3, <1>6, <2>1
        <2>3. e =< m
            BY <2>1 DEF p
        <2>4. \A i \in 1..e : remaining[i].signed
            <3>. TAKE i \in 1..e
            <3>1. n + i \in 1..(n + e) /\ ~(n + i =< n) /\ (n + i) - n = i
                OBVIOUS
            <3>2. n + i \in D
                BY <2>2, <3>1
            <3>. QED
                BY <3>1, <3>2 DEF D, Places
        <2>5. \A i \in 1..(n + e) : KeyAt(named, remaining, i) \in all_signers(array)
            BY <1>3, <1>4, <1>6, <2>2 DEF Surjection
        <2>6. \A i, j \in 1..(n + e) :
                  i # j => KeyAt(named, remaining, i) # KeyAt(named, remaining, j)
            BY <1>4, <2>2 DEF Injection, IsInjective
        <2>7. n + e =< MAX_SIGNERS
            <3>1. /\ IsFiniteSet(all_signers(array))
                  /\ Cardinality(all_signers(array)) \in 0..MAX_SIGNERS
                BY FewSigners
            <3>2. Cardinality(C) =< Cardinality(all_signers(array))
                BY <1>6, <3>1, FS_Subset
            <3>. QED
                BY <1>6, <3>1, <3>2 DEF MAX_SIGNERS
        <2>. QED
            BY <1>2, <2>3, <2>4, <2>5, <2>6, <2>7 DEF Arranged
    <1>. QED
        BY <1>5, <1>6

\* The verdict on a call is the set-level decision on the keys it offers.
LEMMA VerdictIsCosigned == CallInv => CollectedKeysAreCosigned
    <1>. SUFFICES ASSUME CallInv, call # NoCall PROVE CollectedKeysAreCosigned
        BY DEF CollectedKeysAreCosigned
    <1>1. PICK a \in GovActions, n \in 1..2, m \in Nat :
              \E named \in [1..n -> Keys], remaining \in [1..m -> Accounts] :
                  call = [action |-> a, named |-> named, remaining |-> remaining,
                          accepted |-> authorize(vaultSlots, storedTable, a, named, remaining)]
        BY DEF CallInv
    <1>2. PICK named \in [1..n -> Keys], remaining \in [1..m -> Accounts] :
              call = [action |-> a, named |-> named, remaining |-> remaining,
                      accepted |-> authorize(vaultSlots, storedTable, a, named, remaining)]
        BY <1>1
    <1>3. /\ call.action = a /\ call.named = named /\ call.remaining = remaining
          /\ call.accepted = authorize(vaultSlots, storedTable, a, named, remaining)
        BY <1>2
    <1>4. Len(named) = n /\ Len(remaining) = m
        BY FunctionIsSeq
    <1>. DEFINE e == extra_needed(threshold_for(storedTable, a), named)
                p == IF e =< m THEN e ELSE m
                C == Offered(named, remaining, p)
    <1>5. n \in Nat /\ vaultSlots \in SlotArrays /\ storedTable \in [GovActions -> 0..255]
        BY DEF CallInv
    <1>6. /\ e \in Nat
          /\ n + e = IF threshold_for(storedTable, a) > n THEN threshold_for(storedTable, a) ELSE n
          /\ authorize(vaultSlots, storedTable, a, named, remaining)
                 <=> Arranged(vaultSlots, named, remaining, n, e)
        BY <1>5, AuthorizeArranged
    <1>7. Arranged(vaultSlots, named, remaining, n, e) <=>
              C \subseteq all_signers(vaultSlots) /\ Cardinality(C) = n + e
        <2>. HIDE DEF e
        <2>. QED
            BY <1>5, <1>6, ArrangedOffers
    <1>. HIDE DEF e, p, C
    <1>8. cosigned(vaultSlots, storedTable, a, n, C) <=>
              C \subseteq all_signers(vaultSlots) /\ Cardinality(C) = n + e
        BY <1>6 DEF cosigned
    <1>9. authorize(vaultSlots, storedTable, a, named, remaining) <=>
              cosigned(vaultSlots, storedTable, a, n, C) /\ Cardinality(C) = n + e
        BY <1>6, <1>7, <1>8
    <1>. QED
        BY <1>3, <1>4, <1>9 DEF CollectedKeysAreCosigned, Required, Offered, e, p, C

\* The decision the state machines take on the SET of keys that signed is the
\* one authorize takes on the list, for every vault, table and list.
THEOREM CosignedIsWhatAuthorizeAccepts == CallSpec => []CollectedKeysAreCosigned
    <1>. QED
        BY VerdictIsCosigned, CallInductive, PTL

\* Keys in an order are a list that is arranged: the first are named, the rest
\* sign as remaining accounts.
LEMMA QuorumArranged ==
    ASSUME NEW array \in SlotArrays, NEW t \in [GovActions -> 0..255],
           NEW a \in GovActions, NEW n \in 1..2, n =< threshold_for(t, a),
           NEW keys \in SUBSET all_signers(array),
           Cardinality(keys) = threshold_for(t, a),
           NEW order \in Bijection(1..threshold_for(t, a), keys)
    PROVE  authorize(array, t, a, SubSeq(order, 1, n),
                     [i \in 1..(threshold_for(t, a) - n) |->
                         [key |-> order[n + i], signed |-> TRUE]])
    <1>. DEFINE r == threshold_for(t, a)
                m == r - n
                named == SubSeq(order, 1, n)
                remaining == [i \in 1..m |-> [key |-> order[n + i], signed |-> TRUE]]
    <1>1. r \in Nat /\ n \in Nat /\ m \in Nat /\ r = n + m
        <2>1. r \in Nat /\ n =< r
            BY StoredThreshold
        <2>. HIDE DEF r
        <2>. QED
            BY <2>1
    <1>2. order \in [1..r -> keys] /\ \A i, j \in 1..r : i # j => order[i] # order[j]
        BY DEF Bijection, Injection, IsInjective
    <1>3. keys \subseteq Keys
        BY DEF all_signers, SlotArrays
    <1>. HIDE DEF r
    <1>4. named \in Seq(Keys) /\ Len(named) = n /\ \A i \in 1..n : named[i] = order[i]
        <2>1. \A i \in 1..n : order[i] \in Keys
            BY <1>1, <1>2, <1>3
        <2>2. /\ named \in Seq(Keys)
              /\ Len(named) = IF 1 =< n THEN n - 1 + 1 ELSE 0
              /\ \A i \in 1..(n - 1 + 1) : named[i] = order[1 + i - 1]
            BY <2>1, SubSeqProperties
        <2>3. n - 1 + 1 = n /\ 1 =< n /\ \A i \in 1..n : 1 + i - 1 = i
            OBVIOUS
        <2>. HIDE DEF named
        <2>. QED
            BY <2>2, <2>3
    <1>5. named \in [1..n -> Keys]
        BY <1>4, LenProperties
    <1>6. remaining \in [1..m -> Accounts]
        <2>1. \A i \in 1..m : order[n + i] \in Keys
            BY <1>1, <1>2, <1>3
        <2>. QED
            BY <2>1 DEF Accounts
    <1>7. Len(remaining) = m
        BY <1>1, <1>6, FunctionIsSeq
    <1>8. extra_needed(r, named) = m
        BY <1>1, <1>4 DEF extra_needed
    <1>9. \A i \in 1..r : KeyAt(named, remaining, i) = order[i]
        <2>. TAKE i \in 1..r
        <2>1. CASE i =< n
            BY <1>4, <2>1 DEF KeyAt
        <2>2. CASE ~(i =< n)
            <3>1. i - n \in 1..m /\ n + (i - n) = i
                BY <1>1, <2>2
            <3>2. remaining[i - n].key = order[n + (i - n)]
                BY <3>1
            <3>. QED
                BY <1>4, <2>2, <3>1, <3>2 DEF KeyAt
        <2>. QED
            BY <2>1, <2>2
    <1>10. r =< MAX_SIGNERS
        <2>1. /\ IsFiniteSet(all_signers(array))
              /\ Cardinality(all_signers(array)) \in 0..MAX_SIGNERS
            BY FewSigners
        <2>2. Cardinality(keys) =< Cardinality(all_signers(array))
            BY <2>1, FS_Subset
        <2>. QED
            BY <1>1, <2>1, <2>2 DEF MAX_SIGNERS, r
    <1>11. \A i \in 1..m : remaining[i].signed
        OBVIOUS
    <1>. HIDE DEF m, named, remaining
    <1>12. Arranged(array, named, remaining, n, m)
        BY <1>1, <1>2, <1>7, <1>9, <1>10, <1>11 DEF Arranged
    <1>13. authorize(array, t, a, named, remaining)
               <=> Arranged(array, named, remaining, n, extra_needed(threshold_for(t, a), named))
        BY <1>1, <1>5, <1>6, AuthorizeArranged
    <1>. QED
        BY <1>8, <1>12, <1>13 DEF r, m, named, remaining

\* Every set of as many members as it takes has an order that is accepted.
LEMMA QuorumCanCall == CallInv => EveryQuorumHasAnArrangement
    <1>. SUFFICES ASSUME CallInv, call = NoCall, NEW a \in CallActions, NEW n \in 1..2,
                         n =< threshold_for(storedTable, a),
                         NEW keys \in SUBSET all_signers(vaultSlots),
                         Cardinality(keys) = threshold_for(storedTable, a)
                  PROVE  \E order \in [1..threshold_for(storedTable, a) -> keys] :
                             authorize(vaultSlots, storedTable, a, SubSeq(order, 1, n),
                                       [i \in 1..(threshold_for(storedTable, a) - n) |->
                                           [key |-> order[n + i], signed |-> TRUE]])
        BY DEF EveryQuorumHasAnArrangement
    <1>1. /\ a \in GovActions /\ vaultSlots \in SlotArrays
          /\ storedTable \in [GovActions -> 0..255]
        BY CallAssumption DEF CallInv
    <1>2. IsFiniteSet(keys)
        BY <1>1, FewSigners, FS_Subset
    <1>3. ExistsBijection(1..threshold_for(storedTable, a), keys)
        BY <1>2, FS_CardinalityType
    <1>4. PICK order \in Bijection(1..threshold_for(storedTable, a), keys) : TRUE
        BY <1>3 DEF ExistsBijection
    <1>5. order \in [1..threshold_for(storedTable, a) -> keys]
        BY <1>4 DEF Bijection, Injection
    <1>6. authorize(vaultSlots, storedTable, a, SubSeq(order, 1, n),
                    [i \in 1..(threshold_for(storedTable, a) - n) |->
                        [key |-> order[n + i], signed |-> TRUE]])
        BY <1>1, <1>4, QuorumArranged
    <1>. QED
        BY <1>5, <1>6

\* The table alone decides: every set of as many members as the threshold can
\* be arranged into an accepted call, for every vault, table and action.
THEOREM QuorumsAlwaysCanCall == CallSpec => []EveryQuorumHasAnArrangement
    <1>. QED
        BY QuorumCanCall, CallInductive, PTL
=============================================================================
