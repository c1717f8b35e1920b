---------------------------- MODULE RegistryProofs ----------------------------
(***************************************************************************)
(* Theorems about the two registries, each of which must mean one thing    *)
(* for good: a name is locked to one owner, for every set of wallets and   *)
(* usernames, and a slot is one mint, for every number of slots, mints and *)
(* contests.  The registries share no state.                               *)
(***************************************************************************)
EXTENDS UsernameRegistry, CurrencyRegistry, TLAPS

(***************************************************************************)
(* The username registry                                                   *)
(***************************************************************************)

\* The key of a submitted username is one of the registry's.
LEMMA KeyOfUsername ==
    ASSUME NEW n \in Usernames
    PROVE  canonical_username_key(n) \in NameKeys
BY DEF NameKeys

\* A wallet shows a username, so its current key is one of the registry's.
LEMMA KeyOfWallet ==
    ASSUME TypeOK, NEW w \in Wallets
    PROVE  CurrentKey(w) \in NameKeys
BY KeyOfUsername DEF TypeOK, CurrentKey

\* A name is nobody's, a wallet's or the vault's, and those are three things.
LEMMA OwnersApart ==
    /\ Vault \notin Wallets /\ Free \notin Wallets /\ Free # Vault
BY RegistryAssumption

\* Renaming writes one record and closes one, both of them the wallet's.
LEMMA RenameRecord ==
    ASSUME TypeOK, NEW w \in Wallets, NEW n \in Usernames,
           NEW previous \in NameKeys \cup {NoRecord}, Rename(w, n, previous)
    PROVE  LET k == canonical_username_key(n)
           IN  /\ k \in NameKeys
               /\ record[k] \in {Free, w}
               /\ record' = [j \in NameKeys |-> IF j = k THEN w
                                         ELSE IF j = previous THEN Free ELSE record[j]]
               /\ previous # NoRecord => /\ previous = CurrentKey(w) /\ previous # k
                                         /\ record[previous] = w
               /\ previous = NoRecord => w \notin registered \/ k = CurrentKey(w)
               /\ username' = [username EXCEPT ![w] = n]
               /\ registered' = registered \cup {w}
               /\ account' = account /\ w \in account
    <1>1. canonical_username_key(n) \in NameKeys
        BY KeyOfUsername
    <1>2. CurrentKey(w) \in NameKeys
        BY KeyOfWallet
    <1>3. NoRecord \notin NameKeys
        BY NoRecordAssumption
    <1>. QED
        BY <1>1, <1>2, <1>3 DEF Rename, settle_previous_record, claim_or_confirm

-----------------------------------------------------------------------------
(* Type correctness *)

\* The state the registry starts from is of its type.
LEMMA InitTypeOK == Init => TypeOK
BY DEF Init, TypeOK, NameKeys

\* Every instruction keeps every type.
LEMMA NextTypeOK == TypeOK /\ [Next]_vars => TypeOK'
    <1>. SUFFICES ASSUME TypeOK, [Next]_vars PROVE TypeOK'
        OBVIOUS
    <1>1. ASSUME NEW w \in Wallets \cup {Vault}, NEW n \in Usernames,
                 CreateUserAccount(w, n)
          PROVE  TypeOK'
        <2>1. w \in Wallets
            BY <1>1 DEF CreateUserAccount, require_not_vault_pda
        <2>2. canonical_username_key(n) \in NameKeys
            BY KeyOfUsername
        <2>. QED
            BY <1>1, <2>1, <2>2 DEF CreateUserAccount, TypeOK
    <1>2. ASSUME NEW w \in Wallets, NEW n \in Usernames,
                 NEW previous \in NameKeys \cup {NoRecord}, Rename(w, n, previous)
          PROVE  TypeOK'
        BY <1>2, RenameRecord DEF TypeOK
    <1>3. ASSUME NEW n \in Usernames, ReserveUsername(n) PROVE TypeOK'
        BY <1>3, KeyOfUsername DEF ReserveUsername, TypeOK
    <1>4. ASSUME NEW k \in NameKeys, ReleaseReservedUsername(k) PROVE TypeOK'
        BY <1>4 DEF ReleaseReservedUsername, TypeOK
    <1>5. ASSUME NEW w \in Wallets, BackfillUsernameRecord(w) PROVE TypeOK'
        <2>1. CurrentKey(w) \in NameKeys
            BY KeyOfWallet
        <2>. QED
            BY <1>5, <2>1 DEF BackfillUsernameRecord, TypeOK
    <1>6. ASSUME UNCHANGED vars PROVE TypeOK'
        BY <1>6 DEF vars, TypeOK
    <1>. QED
        BY <1>1, <1>2, <1>3, <1>4, <1>5, <1>6 DEF Next, SetUsername, OverwriteUsername

\* In every reachable state an account belongs to a wallet, never to the vault,
\* and every record is owned by a wallet or the vault.
THEOREM RegistryTypeCorrect == Spec => []TypeOK
    <1>. QED
        BY InitTypeOK, NextTypeOK, PTL DEF Spec

-----------------------------------------------------------------------------
(* One name each *)

\* The invariant holds where the registry starts.
LEMMA InitIInv == Init => IInv
    <1>. SUFFICES ASSUME Init PROVE IInv
        OBVIOUS
    <1>. QED
        BY OwnersApart DEF Init, IInv, RegisteredHoldsItsName, NobodyHoldsTwoNames

\* Creating an account keeps the invariant.
LEMMA CreateIInv ==
    ASSUME TypeOK, IInv, NEW w \in Wallets \cup {Vault}, NEW n \in Usernames,
           CreateUserAccount(w, n)
    PROVE  IInv'
    <1>. DEFINE k == canonical_username_key(n)
    <1>1. w \in Wallets /\ w \notin account /\ k \in NameKeys
        BY KeyOfUsername DEF CreateUserAccount, require_not_vault_pda
    <1>2. /\ record' = [record EXCEPT ![k] = w]
          /\ username' = [username EXCEPT ![w] = n]
          /\ registered' = registered \cup {w}
          /\ record[k] \in {Free, w}
        BY DEF CreateUserAccount, claim_or_confirm
    <1>3. w \notin registered /\ record[k] = Free
        BY <1>1, <1>2 DEF TypeOK, IInv, NobodyHoldsTwoNames
    <1>4. CurrentKey(w)' = k
        BY <1>1, <1>2 DEF CurrentKey, TypeOK
    <1>5. \A v \in Wallets \ {w} : CurrentKey(v)' = CurrentKey(v)
        BY <1>2 DEF CurrentKey, TypeOK
    <1>6. RegisteredHoldsItsName'
        <2>. SUFFICES ASSUME NEW v \in registered' PROVE record'[CurrentKey(v)'] = v
            BY DEF RegisteredHoldsItsName
        <2>1. CASE v = w
            BY <2>1, <1>1, <1>2, <1>4 DEF TypeOK
        <2>2. CASE v # w
            <3>1. v \in registered /\ v \in Wallets
                BY <2>2, <1>2 DEF TypeOK
            <3>2. record[CurrentKey(v)] = v /\ CurrentKey(v) \in NameKeys
                BY <3>1, KeyOfWallet DEF IInv, RegisteredHoldsItsName
            <3>3. CurrentKey(v) # k
                BY <3>1, <3>2, <1>3, OwnersApart
            <3>. QED
                BY <2>2, <3>1, <3>2, <3>3, <1>2, <1>5 DEF TypeOK
        <2>. QED
            BY <2>1, <2>2
    <1>7. NobodyHoldsTwoNames'
        <2>. SUFFICES ASSUME NEW v \in Wallets, NEW j \in NameKeys, record'[j] = v
                      PROVE  v \in registered' /\ j = CurrentKey(v)'
            BY DEF NobodyHoldsTwoNames
        <2>1. CASE j = k
            BY <2>1, <1>1, <1>2, <1>4 DEF TypeOK
        <2>2. CASE j # k
            <3>1. record[j] = v
                BY <2>2, <1>2 DEF TypeOK
            <3>2. v \in registered /\ j = CurrentKey(v)
                BY <3>1 DEF IInv, NobodyHoldsTwoNames
            <3>. QED
                BY <3>2, <1>2, <1>3, <1>5
        <2>. QED
            BY <2>1, <2>2
    <1>. QED
        BY <1>6, <1>7 DEF IInv

\* A rename, by the user or by the vault, keeps the invariant.
LEMMA RenameIInv ==
    ASSUME TypeOK, IInv, NEW w \in Wallets, NEW n \in Usernames,
           NEW previous \in NameKeys \cup {NoRecord}, Rename(w, n, previous)
    PROVE  IInv'
    <1>. DEFINE k == canonical_username_key(n)
    <1>1. /\ k \in NameKeys /\ record[k] \in {Free, w}
          /\ record' = [j \in NameKeys |-> IF j = k THEN w
                                    ELSE IF j = previous THEN Free ELSE record[j]]
          /\ previous # NoRecord => /\ previous = CurrentKey(w) /\ previous # k
                                    /\ record[previous] = w
          /\ previous = NoRecord => w \notin registered \/ k = CurrentKey(w)
          /\ username' = [username EXCEPT ![w] = n]
          /\ registered' = registered \cup {w}
        BY RenameRecord
    <1>2. CurrentKey(w)' = k
        BY <1>1 DEF CurrentKey, TypeOK
    <1>3. \A v \in Wallets \ {w} : CurrentKey(v)' = CurrentKey(v)
        BY <1>1 DEF CurrentKey, TypeOK
    <1>4. RegisteredHoldsItsName'
        <2>. SUFFICES ASSUME NEW v \in registered' PROVE record'[CurrentKey(v)'] = v
            BY DEF RegisteredHoldsItsName
        <2>1. CASE v = w
            BY <2>1, <1>1, <1>2
        <2>2. CASE v # w
            <3>1. v \in registered /\ v \in Wallets
                BY <2>2, <1>1 DEF TypeOK
            <3>2. record[CurrentKey(v)] = v /\ CurrentKey(v) \in NameKeys
                BY <3>1, KeyOfWallet DEF IInv, RegisteredHoldsItsName
            <3>3. CurrentKey(v) # k
                BY <2>2, <3>1, <3>2, <1>1, OwnersApart
            <3>4. CurrentKey(v) # previous
                BY <2>2, <3>2, <1>1, NoRecordAssumption
            <3>. QED
                BY <2>2, <3>1, <3>2, <3>3, <3>4, <1>1, <1>3
        <2>. QED
            BY <2>1, <2>2
    <1>5. NobodyHoldsTwoNames'
        <2>. SUFFICES ASSUME NEW v \in Wallets, NEW j \in NameKeys, record'[j] = v
                      PROVE  v \in registered' /\ j = CurrentKey(v)'
            BY DEF NobodyHoldsTwoNames
        <2>1. CASE j = k
            BY <2>1, <1>1, <1>2
        <2>2. CASE j # k
            <3>1. record[j] = v /\ j # previous
                BY <2>2, <1>1, OwnersApart
            <3>2. v \in registered /\ j = CurrentKey(v)
                BY <3>1 DEF IInv, NobodyHoldsTwoNames
            <3>3. v # w
                BY <2>2, <3>1, <3>2, <1>1
            <3>. QED
                BY <3>2, <3>3, <1>1, <1>3
        <2>. QED
            BY <2>1, <2>2
    <1>. QED
        BY <1>4, <1>5 DEF IInv

\* Reserving a free name keeps the invariant.
LEMMA ReserveIInv ==
    ASSUME TypeOK, IInv, NEW n \in Usernames, ReserveUsername(n)
    PROVE  IInv'
    <1>. DEFINE k == canonical_username_key(n)
    <1>1. /\ k \in NameKeys /\ record[k] \in {Free, Vault}
          /\ record' = [record EXCEPT ![k] = Vault]
          /\ username' = username /\ registered' = registered
        BY KeyOfUsername DEF ReserveUsername, claim_or_confirm
    <1>2. \A v \in Wallets : CurrentKey(v)' = CurrentKey(v) /\ CurrentKey(v) \in NameKeys
        BY <1>1, KeyOfWallet DEF CurrentKey
    <1>. QED
        BY <1>1, <1>2, OwnersApart
           DEF IInv, RegisteredHoldsItsName, NobodyHoldsTwoNames, TypeOK

\* Releasing a reserved name keeps the invariant.
LEMMA ReleaseIInv ==
    ASSUME TypeOK, IInv, NEW k \in NameKeys, ReleaseReservedUsername(k)
    PROVE  IInv'
    <1>1. /\ record[k] = Vault
          /\ record' = [record EXCEPT ![k] = Free]
          /\ username' = username /\ registered' = registered
        BY DEF ReleaseReservedUsername, reserved_by_vault
    <1>2. \A v \in Wallets : CurrentKey(v)' = CurrentKey(v) /\ CurrentKey(v) \in NameKeys
        BY <1>1, KeyOfWallet DEF CurrentKey
    <1>. QED
        BY <1>1, <1>2, OwnersApart
           DEF IInv, RegisteredHoldsItsName, NobodyHoldsTwoNames, TypeOK

\* Registering the name an old account shows keeps the invariant.
LEMMA BackfillIInv ==
    ASSUME TypeOK, IInv, NEW w \in Wallets, BackfillUsernameRecord(w)
    PROVE  IInv'
    <1>. DEFINE k == CurrentKey(w)
    <1>1. /\ k \in NameKeys /\ record[k] \in {Free, w}
          /\ record' = [record EXCEPT ![k] = w]
          /\ username' = username /\ registered' = registered \cup {w}
        BY KeyOfWallet DEF BackfillUsernameRecord, claim_or_confirm
    <1>2. \A v \in Wallets : CurrentKey(v)' = CurrentKey(v) /\ CurrentKey(v) \in NameKeys
        BY <1>1, KeyOfWallet DEF CurrentKey
    <1>3. RegisteredHoldsItsName'
        <2>. SUFFICES ASSUME NEW v \in registered' PROVE record'[CurrentKey(v)'] = v
            BY DEF RegisteredHoldsItsName
        <2>1. v \in Wallets
            BY <1>1 DEF TypeOK
        <2>2. CASE CurrentKey(v) = k
            BY <2>1, <2>2, <1>1, <1>2, OwnersApart DEF TypeOK, IInv, RegisteredHoldsItsName
        <2>3. CASE CurrentKey(v) # k
            BY <2>1, <2>3, <1>1, <1>2 DEF TypeOK, IInv, RegisteredHoldsItsName
        <2>. QED
            BY <2>2, <2>3
    <1>4. NobodyHoldsTwoNames'
        BY <1>1, <1>2 DEF TypeOK, IInv, NobodyHoldsTwoNames
    <1>. QED
        BY <1>3, <1>4 DEF IInv

\* Every instruction keeps the invariant.
LEMMA NextIInv == TypeOK /\ IInv /\ [Next]_vars => IInv'
    <1>. SUFFICES ASSUME TypeOK, IInv, [Next]_vars PROVE IInv'
        OBVIOUS
    <1>1. ASSUME UNCHANGED vars PROVE IInv'
        BY <1>1 DEF vars, IInv, RegisteredHoldsItsName, NobodyHoldsTwoNames, CurrentKey
    <1>. QED
        BY <1>1, CreateIInv, RenameIInv, ReserveIInv, ReleaseIInv, BackfillIInv
           DEF Next, SetUsername, OverwriteUsername

\* Types and invariant hold at every reachable state.
LEMMA SpecIInv == Spec => [](TypeOK /\ IInv)
    <1>. QED
        BY InitTypeOK, NextTypeOK, InitIInv, NextIInv, PTL DEF Spec

\* A registered account always holds the record of the name it shows.
THEOREM RegisteredAlwaysHoldsItsName == Spec => []RegisteredHoldsItsName
    <1>1. IInv => RegisteredHoldsItsName
        BY DEF IInv
    <1>. QED
        BY <1>1, SpecIInv, PTL

\* No wallet ever holds two names.
THEOREM NobodyEverHoldsTwoNames == Spec => []NobodyHoldsTwoNames
    <1>1. IInv => NobodyHoldsTwoNames
        BY DEF IInv
    <1>. QED
        BY <1>1, SpecIInv, PTL

-----------------------------------------------------------------------------
(* The registry implements the lock *)

\* A rename takes a free name for its wallet and frees at most its own.
LEMMA RenameTakes ==
    ASSUME TypeOK, IInv, NEW w \in Wallets, NEW n \in Usernames,
           NEW previous \in NameKeys \cup {NoRecord}, Rename(w, n, previous)
    PROVE  [Lock!Next]_record
    <1>. DEFINE k == canonical_username_key(n)
    <1>1. /\ k \in NameKeys /\ record[k] \in {Free, w}
          /\ record' = [j \in NameKeys |-> IF j = k THEN w
                                    ELSE IF j = previous THEN Free ELSE record[j]]
          /\ previous # NoRecord => /\ previous = CurrentKey(w) /\ previous # k
                                    /\ record[previous] = w
          /\ previous = NoRecord => w \notin registered \/ k = CurrentKey(w)
        BY RenameRecord
    <1>2. \A j \in NameKeys : record[j] = w => w \in registered /\ j = CurrentKey(w)
        BY DEF IInv, NobodyHoldsTwoNames
    <1>3. CASE record[k] = Free
        <2>1. \A j \in NameKeys \ {k} :
                  record'[j] = IF record[j] = w THEN Free ELSE record[j]
            BY <1>1, <1>2, NoRecordAssumption
        <2>2. record' = [j \in NameKeys |-> IF j = k THEN w
                             ELSE IF record[j] = w THEN Free ELSE record[j]]
            BY <1>1, <2>1
        <2>3. Lock!Take(w, k)
            BY <1>3, <2>2 DEF Lock!Take
        <2>. QED
            BY <1>1, <2>3 DEF Lock!Next
    <1>4. CASE record[k] = w
        <2>1. k = CurrentKey(w)
            BY <1>1, <1>2, <1>4
        <2>2. previous = NoRecord
            BY <1>1, <2>1
        <2>3. record' = record
            BY <1>1, <1>4, <2>2, NoRecordAssumption DEF TypeOK
        <2>. QED
            BY <2>3
    <1>. QED
        BY <1>1, <1>3, <1>4

\* Every instruction is a step of the abstract name lock, or none.
LEMMA NextIsLock == TypeOK /\ IInv /\ [Next]_vars => [Lock!Next]_record
    <1>. SUFFICES ASSUME TypeOK, IInv, [Next]_vars PROVE [Lock!Next]_record
        OBVIOUS
    <1>1. ASSUME NEW w \in Wallets \cup {Vault}, NEW n \in Usernames,
                 CreateUserAccount(w, n)
          PROVE  [Lock!Next]_record
        <2>. DEFINE k == canonical_username_key(n)
        <2>1. w \in Wallets /\ w \notin registered /\ k \in NameKeys
            BY <1>1, KeyOfUsername DEF CreateUserAccount, require_not_vault_pda, TypeOK
        <2>2. \A j \in NameKeys : record[j] # w
            BY <2>1 DEF IInv, NobodyHoldsTwoNames
        <2>3. record[k] = Free /\ record' = [record EXCEPT ![k] = w]
            BY <1>1, <2>1, <2>2 DEF CreateUserAccount, claim_or_confirm
        <2>4. record' = [j \in NameKeys |-> IF j = k THEN w
                             ELSE IF record[j] = w THEN Free ELSE record[j]]
            BY <2>1, <2>2, <2>3 DEF TypeOK
        <2>5. Lock!Take(w, k)
            BY <2>3, <2>4 DEF Lock!Take
        <2>. QED
            BY <2>1, <2>5 DEF Lock!Next
    <1>2. ASSUME NEW n \in Usernames, ReserveUsername(n) PROVE [Lock!Next]_record
        <2>. DEFINE k == canonical_username_key(n)
        <2>1. /\ k \in NameKeys /\ record[k] \in {Free, Vault}
              /\ record' = [record EXCEPT ![k] = Vault]
            BY <1>2, KeyOfUsername DEF ReserveUsername, claim_or_confirm
        <2>2. CASE record[k] = Free
            BY <2>1, <2>2 DEF Lock!Next, Lock!Block
        <2>3. CASE record[k] = Vault
            BY <2>1, <2>3 DEF TypeOK
        <2>. QED
            BY <2>1, <2>2, <2>3
    <1>3. ASSUME NEW k \in NameKeys, ReleaseReservedUsername(k) PROVE [Lock!Next]_record
        BY <1>3 DEF ReleaseReservedUsername, reserved_by_vault, Lock!Next, Lock!Unblock
    <1>4. ASSUME NEW w \in Wallets, BackfillUsernameRecord(w) PROVE [Lock!Next]_record
        <2>. DEFINE k == CurrentKey(w)
        <2>1. /\ k \in NameKeys /\ record[k] \in {Free, w}
              /\ record' = [record EXCEPT ![k] = w]
            BY <1>4, KeyOfWallet DEF BackfillUsernameRecord, claim_or_confirm
        <2>2. CASE record[k] = Free
            <3>1. \A j \in NameKeys \ {k} : record[j] # w
                BY DEF IInv, NobodyHoldsTwoNames
            <3>2. record' = [j \in NameKeys |-> IF j = k THEN w
                                 ELSE IF record[j] = w THEN Free ELSE record[j]]
                BY <2>1, <3>1 DEF TypeOK
            <3>3. Lock!Take(w, k)
                BY <2>2, <3>2 DEF Lock!Take
            <3>. QED
                BY <2>1, <3>3 DEF Lock!Next
        <2>3. CASE record[k] = w
            BY <2>1, <2>3 DEF TypeOK
        <2>. QED
            BY <2>1, <2>2, <2>3
    <1>5. ASSUME UNCHANGED vars PROVE [Lock!Next]_record
        BY <1>5 DEF vars
    <1>. QED
        BY <1>1, <1>2, <1>3, <1>4, <1>5, RenameTakes
           DEF Next, SetUsername, OverwriteUsername

\* The registry implements the lock: whatever accounts, migrations and renames
\* do, a name changes hands only through being free.
THEOREM RegistryImplementsNameLock == Spec => ImplementsNameLock
    <1>1. Init => Lock!Init
        BY DEF Init, Lock!Init
    <1>. QED
        BY <1>1, NextIsLock, SpecIInv, PTL DEF Spec, ImplementsNameLock, Lock!Spec

-----------------------------------------------------------------------------
(***************************************************************************)
(* The currency registry                                                   *)
(***************************************************************************)

CurrencyInv == CurrencyTypeOK /\ CurrencyIInv

\* Initialisation fills the first two slots, left-packed and distinct.
LEMMA CurrencyInitInv == CurrencyInit => CurrencyInv
    <1>. SUFFICES ASSUME CurrencyInit PROVE CurrencyInv
        OBVIOUS
    <1>. USE CurrencyAssumption DEF CurrencyInit, Idx, Registered, NoFees
    <1>1. CurrencyTypeOK
        BY DEF CurrencyTypeOK
    <1>2. PICK usdc \in Mints, usdt \in Mints :
              /\ usdc # usdt
              /\ mint = [i \in Idx |-> IF i = 1 THEN usdc ELSE IF i = 2 THEN usdt ELSE NoMint]
              /\ op_rev = {usdc, usdt}
        OBVIOUS
    <1>3. Registered = {1, 2}
        BY <1>2
    <1>4. OneSlotPerMint
        <2>0. 1 \in Idx /\ 2 \in Idx
            OBVIOUS
        <2>1. mint[1] = usdc /\ mint[2] = usdt
            BY <1>2, <2>0
        <2>2. op_rev = {mint[i] : i \in {1, 2}}
            BY <1>2, <2>1
        <2>3. \A i \in {1, 2} : 1..i \subseteq {1, 2}
            OBVIOUS
        <2>. HIDE DEF Registered
        <2>. QED
            BY <1>2, <1>3, <2>1, <2>2, <2>3 DEF OneSlotPerMint
    <1>. QED
        BY <1>1, <1>3, <1>4 DEF CurrencyInv, CurrencyIInv, FeesPaidInTheirMint

\* A registration takes the slot right after the taken ones.
LEMMA RegisterStep ==
    ASSUME CurrencyInv, NEW m \in Mints, RegisterCurrency(m)
    PROVE  CurrencyInv' /\ SlotsAreForeverStep
    <1>. USE CurrencyAssumption
    <1>1. PICK k \in Idx : /\ first_unused(k)
                           /\ mint' = [mint EXCEPT ![k] = m]
                           /\ active' = active \cup {k}
        BY DEF RegisterCurrency
    <1>2. /\ mint[k] = NoMint /\ \A j \in 1..(k - 1) : mint[j] # NoMint
          /\ \A i \in Idx : mint[i] # m
          /\ op_rev' = op_rev \cup {m} /\ UNCHANGED <<fees, priced, paid>>
        BY <1>1 DEF RegisterCurrency, first_unused, not_registered
    <1>3. Registered' = Registered \cup {k} /\ k \notin Registered
        BY <1>1, <1>2 DEF Registered, CurrencyInv, CurrencyTypeOK
    <1>4. \A i \in Registered : mint'[i] = mint[i] /\ i # k
        BY <1>1, <1>2 DEF Registered, CurrencyInv, CurrencyTypeOK
    <1>5. mint'[k] = m
        BY <1>1 DEF CurrencyInv, CurrencyTypeOK
    <1>6. CurrencyTypeOK'
        BY <1>1, <1>2 DEF CurrencyInv, CurrencyTypeOK
    <1>7. OneSlotPerMint'
        <2>1. \A i, j \in Registered' : mint'[i] = mint'[j] => i = j
            BY <1>2, <1>3, <1>4, <1>5 DEF CurrencyInv, CurrencyIInv, OneSlotPerMint, Registered
        <2>2. op_rev' = {mint'[i] : i \in Registered'}
            BY <1>2, <1>3, <1>4, <1>5 DEF CurrencyInv, CurrencyIInv, OneSlotPerMint
        <2>3. \A i \in Registered' : 1..i \subseteq Registered'
            <3>1. 1..k \subseteq Registered'
                BY <1>2, <1>3 DEF Registered, Idx
            <3>. QED
                BY <1>3, <3>1 DEF CurrencyInv, CurrencyIInv, OneSlotPerMint
        <2>. QED
            BY <2>1, <2>2, <2>3 DEF OneSlotPerMint
    <1>8. FeesPaidInTheirMint' /\ \A p \in paid' : p[2] \in fees'[p[1]]
        BY <1>2 DEF CurrencyInv, CurrencyIInv, FeesPaidInTheirMint
    <1>9. active' \subseteq Registered'
        BY <1>1, <1>3 DEF CurrencyInv, CurrencyIInv
    <1>10. \A c \in Contests : \A i \in fees'[c] : i \in Registered' /\ priced'[c][i] = mint'[i]
        BY <1>2, <1>3, <1>4 DEF CurrencyInv, CurrencyIInv
    <1>11. SlotsAreForeverStep
        BY <1>1, <1>4 DEF SlotsAreForeverStep
    <1>. QED
        BY <1>6, <1>7, <1>8, <1>9, <1>10, <1>11 DEF CurrencyInv, CurrencyIInv

\* Every instruction keeps the invariant and the meaning of every slot.
LEMMA CurrencyNextInv == CurrencyInv /\ [CurrencyNext]_currencyVars => CurrencyInv' /\ SlotsAreForeverStep
    <1>. SUFFICES ASSUME CurrencyInv, [CurrencyNext]_currencyVars PROVE CurrencyInv' /\ SlotsAreForeverStep
        OBVIOUS
    <1>1. ASSUME NEW i \in Idx, DeactivateCurrency(i) PROVE CurrencyInv' /\ SlotsAreForeverStep
        BY <1>1 DEF DeactivateCurrency, CurrencyInv, CurrencyIInv, CurrencyTypeOK, OneSlotPerMint, Registered,
                    FeesPaidInTheirMint, SlotsAreForeverStep
    <1>2. ASSUME NEW c \in Contests, NEW slots \in FeeSlots, CreateContest(c, slots)
          PROVE  CurrencyInv' /\ SlotsAreForeverStep
        <2>1. slots \subseteq Idx /\ slots \subseteq Registered
            BY <1>2, CurrencyAssumption DEF CreateContest, Idx, Registered
        <2>2. /\ UNCHANGED <<mint, active, op_rev, paid>>
              /\ fees' = [fees EXCEPT ![c] = slots]
              /\ priced' = [priced EXCEPT ![c] =
                               [i \in Idx |-> IF i \in slots THEN mint[i] ELSE NoMint]]
              /\ fees[c] = {}
            BY <1>2 DEF CreateContest
        <2>3. CurrencyTypeOK'
            BY <2>1, <2>2 DEF CurrencyInv, CurrencyTypeOK
        <2>4. Registered' = Registered /\ OneSlotPerMint'
            BY <2>2 DEF CurrencyInv, CurrencyIInv, OneSlotPerMint, Registered
        <2>5. \A p \in paid : p[1] # c /\ p[1] \in Contests
            BY <2>2 DEF CurrencyInv, CurrencyIInv, CurrencyTypeOK
        <2>6. FeesPaidInTheirMint' /\ \A p \in paid' : p[2] \in fees'[p[1]]
            <3>1. \A p \in paid : priced'[p[1]] = priced[p[1]] /\ fees'[p[1]] = fees[p[1]]
                BY <2>2, <2>5 DEF CurrencyInv, CurrencyTypeOK
            <3>. QED
                BY <2>2, <3>1 DEF CurrencyInv, CurrencyIInv, FeesPaidInTheirMint
        <2>7. \A d \in Contests : \A i \in fees'[d] : i \in Registered' /\ priced'[d][i] = mint'[i]
            <3>1. \A i \in slots : priced'[c][i] = mint[i] /\ i \in Registered
                BY <2>1, <2>2 DEF CurrencyInv, CurrencyTypeOK
            <3>2. fees'[c] = slots
                BY <2>2 DEF CurrencyInv, CurrencyTypeOK
            <3>3. \A d \in Contests \ {c} : fees'[d] = fees[d] /\ priced'[d] = priced[d]
                BY <2>2 DEF CurrencyInv, CurrencyTypeOK
            <3>. QED
                BY <2>2, <2>4, <3>1, <3>2, <3>3 DEF CurrencyInv, CurrencyIInv
        <2>8. active' \subseteq Registered'
            BY <2>2, <2>4 DEF CurrencyInv, CurrencyIInv
        <2>. QED
            BY <2>2, <2>3, <2>4, <2>6, <2>7, <2>8 DEF CurrencyInv, CurrencyIInv, SlotsAreForeverStep
    <1>3. ASSUME NEW c \in Contests, NEW i \in Idx, EnterContest(c, i)
          PROVE  CurrencyInv' /\ SlotsAreForeverStep
        <2>1. UNCHANGED <<mint, active, op_rev, fees, priced>> /\ paid' = paid \cup {<<c, i, mint[i]>>}
              /\ mint[i] # NoMint /\ priced[c][i] = mint[i]
            BY <1>3 DEF EnterContest, CurrencyInv, CurrencyIInv
        <2>2. CurrencyTypeOK'
            BY <2>1 DEF CurrencyInv, CurrencyTypeOK
        <2>3. Registered' = Registered /\ OneSlotPerMint'
            BY <2>1 DEF CurrencyInv, CurrencyIInv, OneSlotPerMint, Registered
        <2>4. FeesPaidInTheirMint' /\ \A p \in paid' : p[2] \in fees'[p[1]]
            BY <1>3, <2>1 DEF CurrencyInv, CurrencyIInv, FeesPaidInTheirMint, EnterContest
        <2>. QED
            BY <2>1, <2>2, <2>3, <2>4 DEF CurrencyInv, CurrencyIInv, SlotsAreForeverStep
    <1>4. ASSUME UNCHANGED currencyVars PROVE CurrencyInv' /\ SlotsAreForeverStep
        BY <1>4 DEF currencyVars, CurrencyInv, CurrencyIInv, CurrencyTypeOK, OneSlotPerMint, Registered,
                    FeesPaidInTheirMint, SlotsAreForeverStep
    <1>. QED
        BY <1>1, <1>2, <1>3, <1>4, RegisterStep DEF CurrencyNext

\* The invariant holds at every reachable state of the registry.
THEOREM CurrencyInductive == CurrencySpec => []CurrencyInv
    <1>. QED
        BY CurrencyInitInv, CurrencyNextInv, PTL DEF CurrencySpec

\* An entry is paid in the mint its fee was set in.
THEOREM FeesAlwaysPaidInTheirMint == CurrencySpec => []FeesPaidInTheirMint
    <1>1. CurrencyInv => FeesPaidInTheirMint
        BY DEF CurrencyInv, CurrencyIInv
    <1>. QED
        BY <1>1, CurrencyInductive, PTL

\* Index, mint and revenue account name the same currency.
THEOREM OneSlotPerMintAlways == CurrencySpec => []OneSlotPerMint
    <1>1. CurrencyInv => OneSlotPerMint
        BY DEF CurrencyInv, CurrencyIInv
    <1>. QED
        BY <1>1, CurrencyInductive, PTL

\* Nothing revives a dead slot or renames a taken one.
THEOREM SlotsStayForever == CurrencySpec => SlotsAreForever
    <1>. QED
        BY CurrencyNextInv, CurrencyInductive, PTL DEF CurrencySpec, SlotsAreForever
=============================================================================
