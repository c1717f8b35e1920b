# A TLA+ model of turf-vault

turf-vault is an on-chain program (Rust, Anchor) that escrows the money of
contests: a creator funds a prize, players enter for a fee or a pre-purchased
token, a council of at most five keys settles, cancels and governs.  The
repository also holds the scripts with which people run the program: upgrades,
treasury transfers and key rotations through a multisig of another program
(Squads).

This directory holds TLA+ modules for the program's state machines, TLC
configurations that check them on small instances, and theorems proved with
TLAPS.  Paths below are relative to the repository; `instructions/` is
`programs/turf_vault/src/instructions/` and `state.rs` is
`programs/turf_vault/src/state.rs`.

## 1. Inventory

| Part | State | Operations | Code |
|---|---|---|---|
| Authorization | five signer slots of `VaultState`, the table of 25 thresholds | `validate_threshold`, `threshold_for`, `authorize` | `state.rs`, `instructions/governance.rs` |
| Governance | slots, brake, table, mint-window policy | `initialize`, `init_governance`, `set_action_threshold`, `set_mint_window_policy`, `update_signers`, `pause`, `unpause` | `instructions/{initialize,governance,update_signers,pause,unpause}.rs` |
| Contest escrow | `Contest`, `ContestEntry`, prize pools, operator revenue, treasury, counters of `UserAccount` | create, enter, enter with a token, settle, cancel, close, the two schedules, sweep | `instructions/*contest*.rs`, `sweep_operator_revenue.rs` |
| Entry tokens | `EntryTokenAccount`, `MintWindow` | mint, burn, redeem, policy change | `instructions/{mint,burn}_entry_token.rs`, `enter_contest_with_token.rs` |
| Username registry | `UsernameRecord`, the user's name and flag | create, set, overwrite, reserve, release, backfill | `instructions/{username_registry,set_username,overwrite_username,create_user_account}.rs` |
| Seasons and seeds | `Season`, `SeedGrant`, `UserAccount.seeds` | create season, enter, grant | `instructions/{create_season,grant_seeds}.rs` |
| Currencies | 16 slots in `VaultState` | register, deactivate; read by create and enter | `instructions/{register,deactivate}_currency.rs` |
| Squads multisig (external) | members and permissions, transaction index, stale line, a proposal per index | create, propose, approve, decline, execute | as `scripts/` uses it |
| Treasury transfer | the operator's plan, processes of the tool | plan, send, approve, execute | `scripts/squad-vault-transfer.js`, `scripts/lib/vault-transfer.js` |
| Seat rotation | processes, transactions in flight | create, approve, execute | `scripts/ceremony/rotate-admin-seat.js`, `scripts/lib/admin-seat-rotation.js` |
| Program upgrade | buffer, ProgramData, processes | start or resume, extend, create, read back, propose, vote, execute | `scripts/squad-upgrade.js`, `scripts/lib/{upgrade-instruction,squad-roles}.js` |
| Deployment, inspection, CI | none of their own | clients of the above, printers | `scripts/`, `bin/`, `.github/` |

**Interactions.**  An instruction is one atomic transaction over the accounts
it names, so instructions interact only through stored state.  Every one of
them that a vault key may call goes through `authorize`, which reads the slots
and the table.  `enter_contest` is where most parts meet: it reads the pause
flag, the currency slot, the contest and the season, moves the fee to operator
revenue, and writes the entry and the user's counters.
`enter_contest_with_token` consumes a token; `burn_entry_token` races it.
`set_mint_window_policy` changes the index that the next mint will be counted
under.  The ceremony scripts are clients of the multisig, which holds the
program's upgrade authority and a treasury.  They share nothing but the chain:
each reads the members, the transaction index and some proposals, decides, and
sends transactions that land later, or never, among those of the other members
and of other runs of the same script.

**What is hard here.**  Not threads: the runtime locks accounts.  What is hard
is *order over long histories*: a retune between two rotations, a policy change
inside a window, a contest created again under an old id, a donation into a
pool between its creation and its refund, a season created after its contest, a
retried transaction that had already landed, an account written by an older
binary, a clock that passes a deadline between two calls.  The ceremonies are
hard in the classical way: a confirmation is lost although the transaction
landed, a run is killed and run again, an index read before is taken by
somebody else, what was read is stale when the signature on it counts.  The
unit and integration tests each walk one such path; the hazards in
`PROJECT.json` list where they bite.

**What correctness means, part by part.**  A call is accepted only with enough
distinct keys, and every real quorum can be arranged; no history of governance
makes an action unpayable or leaves a minority in charge; the price
last agreed on is the price paid; prizes stay funded, every fee taken is
operator revenue or was swept, entries are graded once and after they closed;
tokens fund one entry each and cheap mints stay within their cap; a name has
one holder and a player one name; a quest is paid once; a fee is paid in the
currency it was quoted in.  A ceremony's tool signs nothing but what its
operator planned, makes one transfer once, executes nothing a person has not
approved, upgrades to reviewed bytes only, and a run cut anywhere can be taken
up again until its votes are cast.

## 2. Modules and how they read the code

`VaultAuth` is shared: the constants, the slots and their three readers
(`all_signers`, `active_signer_count`, `is_signer`), `threshold_for` with its
floors, `validate_threshold`, `authorize`, and `cosigned`, which is `authorize`
seen as a set of keys.  `AuthorizeCall` shows that this last view is right:
it submits an account list to `authorize` and compares the verdict with the
set-level one, for every list within the bounds of its run and for lists of any
length in section 5.  That is what lets the other modules speak of a *set* of
keys, or of no keys at all.

| Module | Variables and the accounts they stand for | Its runs |
|---|---|---|
| `Governance` (extends `VaultAuth`) | `vaultExists slots paused` VaultState; `tableExists table window` GovernanceConfig; `last`, `agreed` are history | `governance`, `governance_door` |
| `ContestEscrow` | `contest pool entry player consumed`, the accounts of those names; `wallet opRev treasury` token accounts; `now paused active` what they read; `created`, `last` and an entry's `paid` and `season` are history | `escrow` |
| `Escrow` | the promise of one prize: `phase owed held` | (abstract) |
| `EntryTokens` | `token` per external reference, `minted` per window index, `policy`, `now`; `cheap`, `ceiling`, `fate` are history | `entry_tokens` |
| `UsernameRegistry` | `account username registered` UserAccount; `record` the owner of each name's record | `username_registry`, `username_tails` |
| `NameLock` | `holder` of each name | (abstract) |
| `SeedGrants` | `schedule` Season; `contest` the season each Contest is bound to; `grant` SeedGrant; `entered`, `entries`, `seeds`; `boundTo` is history | `seed_grants` |
| `CurrencyRegistry` | `mint active op_rev` the slots; `fees` of each contest; `priced`, `paid` are history | `currency_registry` |
| `Squads` | `perm txIndex stale queue`: members, latest index, stale line, transaction and proposal at each index | (shared) |
| `SquadSeats` (extends `Squads`) | none: the roster of agent seats read against live membership | (shared) |
| `SquadVaultTransfer` (extends `SquadSeats`) | `plan` what the operator was told last; `run` the processes; `sent signed executed` are history | `squad_transfer` |
| `AdminSeatRotation` (extends `SquadSeats`) | `run`; `flight` transactions that may still land; `unseen made signed executed` are history | `squad_rotation` |
| `SquadUpgrade` (extends `SquadSeats`) | `cluster`; `buffer program fits` the loader's accounts; `run`; `made signed` are history | `squad_upgrade` |

Where one module of proofs extends two components (section 5), the second of
them names its specification after itself: `CallSpec`, `TokensSpec`,
`CurrencySpec`.

In the ceremonies a process is its program counter and what it remembers of
the chain, so that whatever it read before an `await` may be stale when it
acts.  Each tool's modules let the other members and the other tools create,
vote, decline and execute at any moment (`Elsewhere`, `OthersAct`), and
`Dies` ends a process between any two steps.  The tools treat a lost
confirmation differently, and so do the modules: the transfer tool stops, which
is `Dies` after the step that landed; the rotation tool sends and polls, so
what it sent stays in `flight` and lands later or is `Lost`; the upgrade tool
takes a failed transaction for a confirmed one and goes on to read
(`CreateFails`).

Conventions: one action per handler, with the handler's name in camel case; a
refused transaction changes nothing, so a refusal is a disabled action; error
codes, events and logs are left out.  History variables appear in no guard but
the bound on creations (`created < MaxCreations`).
Definitions introduced by "Faulty variant" are not used by any
specification: each is what a plausible bug would make of the definition next
to it, kept so that every property can be seen to fail for it (the `mutants` of
`PROJECT.json`).  `MC<Module>` gives a module its small constants.

Accounts whose address is derived from data are functions from that data: an
entry from contest, wallet and number, a token from its reference, a window
from its index, a grant from user, kind and invitee, a name's record from its
key.  Anchor's `init` is then "the entry of the function says none".

## 3. Abstraction and bounds

* **Amounts** are small naturals.  The program uses checked arithmetic on
  `u64`; an overflow refuses the transaction and so only removes behaviours.
* **Keys, wallets, mints, references** are model values.  Symmetry is used
  where no property tells two of them apart (`entry_tokens`,
  `username_registry`, `currency_registry`).
* **Keys nobody holds.**  `Held` are the keys that somebody can sign with; only
  they sign.  A rotation may seat any other, as a mistyped key would be.
* **Seasons.**  `create_contest` writes `season_id` at every creation, and a
  closed contest may be created again under its id for another season while its
  entries stay, so a contest's season is state and never a function of its id.
  The entry accounts store no season.  What an entry was worth can therefore
  not be read from the accounts once its contest is closed: only the log line
  of the creation tells.  The sums of seeds in `CountersReconcile` and
  `SeedsReconcile` use history for it (`season` of an entry, `boundTo`).  In
  `ContestEscrow` all seasons exist; `SeedGrants` also creates them, before or
  after the contests that name them.
* **Names** are records of text, capitals and what follows the first zero byte:
  the distinctions the validity checks and the canonical key make.
* **Clock.**  `Tick` is the only action that moves time, at any moment and by
  one, up to `MaxTime`.
* `create_contest` is bounded by `MaxCreations = 2`, enough to meet the entries
  of an earlier contest under the same id.
* `SettleContest` takes every list of at most two rows, including repeated
  rows and overdrafts, over two wallets and the entry numbers 0 and 5 (5 lies
  past the five-place schedule).
* A derived token account (operator revenue, prize pool) is identified with the
  slot or contest it is derived from.  Rent is left out: the lamports of a
  closed account go where the handler says and nothing reads them.

* **Multisig.**  `MaxIndex = 2` transactions: one index for the tool and one
  that is taken before, between or after, which is what every hazard of an
  index needs; `squad_transfer` also meets a second proposal of the same move.
  One process is alive at a time; it may die and be started again any number
  of times, so any number of runs follow one another.  The proofs of the
  three ceremonies hold for any set of concurrent runs.
  `MaxFlight = 2` transactions of the rotation tool in flight, so that one sent
  by a dead run lands in a later one; `SettleTries = 1`, a poll that fails and
  one that gives up.
* **Time** reaches 3 in `escrow`: timestamps -1 (refused), 0 (unset), 2 and 3,
  so that a deadline lies in the future, is now, or has passed, and two of them
  come in either order.  The properties of the schedules are also theorems for
  every time.

| Run | States | What it shows |
|---|---|---|
| `authorize_call` | 35 052 | three slot layouts (also a gap), four stored thresholds, up to two remaining accounts: acceptance means a quorum; every quorum can be arranged |
| `governance` | 19 693 | fresh and upgraded deployments, five keys and one nobody holds, ten proposals of which three are malformed, nine retunes of which four are refused: no action is priced above the seats, the readers of the slots agree, nothing is done below the price last agreed on, and the vault can be mended for as long as the price of rotating or that of retuning is the shipped one |
| `entry_tokens` | 99 924 | three references, two wallets, three accepted policies and a refused one, three ticks |
| `username_registry` | 1 966 | three wallets, six names, every prehistory of accounts older than the registry |
| `escrow` | 219 714 | one contest id created up to twice, for either of two seasons, two wallets, two currencies, a token, donations, sweeps, a brake and both schedules; the refinement of `Escrow` |
| `seed_grants` | 100 660 | two wallets, a contest id closed and created again for either of two seasons, which may not exist yet, invalid kinds and amounts |
| `currency_registry` | 588 | four mints for three slots |
| `squad_transfer` | 54 608 | two agent seats, an operator and another member, threshold three of four, so that the threshold can be met without the operator; another transaction and a swap of the governance seat meanwhile |
| `squad_rotation` | 183 769 | a swap of the governance seat among three members, while another tool swaps the same keys under another mask |
| `squad_upgrade` | 184 173 | the cluster that hands over and the one that finishes alone, a buffer its authority may rewrite, an index others take |

The `escrow` run explores the union of two bounds (`Explored`): either the
schedule stays small (a lock, no conclusion) and the money does all it can, with
one of the brake, a deactivated currency and the sweeps at a time, or the
schedule does all it can
and one wallet plays alone.  What the first bound leaves out, the second
reaches, and no property relates a rescheduled deadline to the money of two
players; the product of the two would not finish.  The theorems of section 5
hold without either bound.

Type invariants, inductive strengthenings and the parts that `GradingStands`,
`DeadlinesStand` and `PricesStand` are made of are theorems of section 5 and
are not repeated in the runs, but for the `TypeOK` of `AdminSeatRotation`,
whose transactions in flight make it worth the run.

`authorize_call`, `seed_grants`, `currency_registry` and the three ceremonies
switch the deadlock check off: one call has been submitted, or every guard
account exists and every slot is taken, or the indices are used up and the
operator is told "done"; then the system really has nothing more to do.

**Fairness.**  None for the program: no transaction is ever obliged to arrive,
and nothing in the program retries, so its properties are all safety
properties.  `NeverStranded` is what stands in for "a contest can always be
concluded": in every state some way to conclude it, or to move its schedule,
is left.  The ceremonies are programs that people run until they work, and
there `FairSpec` says what the code and its printed advice give:

* a process that is not killed goes on, as every `await` of the tools ends:
  `WF(Step(r))`; the rotation tool's `settle` may give up instead;
* processes are killed and confirmations lost only finitely often
  (`<>[][...]`): otherwise nothing retried ever succeeds;
* the operator follows the last advice (`SF(FollowAdvice)`), or resumes an
  interrupted run with `--index` (`SF(Start(..., TRUE, ...))`), or runs
  `--approve` (`SF(StartApprove)`).  Strong fairness, because other members
  may disable the command again and again and people come back to it.

No fairness is assumed of other members: each liveness property lets them
decide the proposal otherwise or make it stale.

## 4. Where the code and its documentation part

Each is a run expected to violate the property that states the sentence.

| Run | Sentence | What happens |
|---|---|---|
| `governance_door` | "no number here is a one-way door" (`state.rs:793`, also `CHANGELOG.md:389`) | a retune is compared with the seats taken (`instructions/governance.rs:287`), and `update_signers` asks only for as many proven keys as it costs itself; with a mistyped key in the fourth seat, three keys retune rotations to four and then retunes to four, and no three keys can take either back.  `OneDoorStaysOpen` is what does hold |
| `username_tails` | "Two usernames collide exactly when this returns the same bytes for both" (`instructions/set_username.rs:237`) | the validity check stops at the first zero byte, the key does not |

Others were met while modelling and have no run of their own.  In the program:

* "lifting the brake costs strictly more than pulling it"
  (`instructions/unpause.rs:11-16`), but the pause threshold may be retuned to
  three, the floor of the unpause threshold.  Put `LiftingCostsMore` among the
  `INVARIANTS` of `MCGovernance.cfg` to see it.
* `initialize` asks that its three signers differ, not that they are live
  (`instructions/initialize.rs:124-128`), while `state.rs:203-205` says that
  empty slots can only be a suffix.  `ReadersAgree` and the theorems that rest
  on it therefore assume `LiveGenesis`; put `NoKey` into `GenesisKeys` of
  `MCGovernance.cfg` to see it fail.
* `mint_entry_token` stores the caller's provenance byte
  (`instructions/mint_entry_token.rs:170`), so bit 7 is free
  (`state.rs:448-450`) only as long as no caller sets it.  The `entry_tokens`
  run keeps to provenances below 128; with 129 among `Sources`,
  `FateIsReadable` fails.
* "grading requires a provably-closed entry window"
  (`instructions/settle_contest.rs:138`), but a passed conclusion is enough
  when no lock was ever scheduled, and entering looks at the lock only.
* "Each kind also indexes Season.quest_seeds for its on-chain reward amount"
  (`state.rs:541`), but `grant_seeds` takes the caller's amount, up to
  `MAX_GRANT_SEEDS`, and reads no season.
* "the NEXT mint lands in a fresh, empty counter"
  (`instructions/governance.rs:315-317`), but the index a new window length
  gives may be one an earlier policy counted in.  `CheapMintsWithinCap` holds
  all the same, because the cap is compared with that count.
* "Number of entries currently in the contest" (`state.rs:378`): entry accounts
  survive the close, so a contest created again under the same id counts from
  zero with old entries in place.  `CountersReconcile` is stated accordingly.

In the scripts, each within what its module models:

* `squad-upgrade` never looks at `err` of `confirmTransaction`
  (`scripts/squad-upgrade.js:305,899`; `scripts/squad-vault-transfer.js:190`
  does), so an execution that landed and failed is reported as done.
* Its vote loop does not look at the proposal's status: when an outside member
  brings it to the threshold first, the remaining agent's vote fails, and a
  run resumed with `--index` (`scripts/squad-upgrade.js:85`) fails at the same
  vote and never reaches its execute.  `MadeIsVoted` therefore ends with a
  proposal that is decided.
* On devnet the default `--spill` is the fee payer, the best-funded seat of
  that run; resumed after the balances changed, the run refuses what it
  created unless `--spill` is given.  `FairSpec` gives it.
* `squad-vault-transfer` does not read `staleTransactionIndex`: it advises
  `approve` on an Active copy of the move that a swap made stale and that can
  never be approved.  `SentIsVoted` excepts a stale index.  Its search through
  newer transactions stops after twenty; `MaxIndex` is far below that.
* `rotate-admin-seat` passes over a transaction that has no proposal yet;
  proposed later, it is made stale by the swap.  `NothingOpenBelow` excepts
  what was `unseen` in that way, and only that.

## 5. What is proved

Every safety property that a run checks is also a theorem: for every value of
the constants that meets the module's `ASSUME`s, and, where a theorem says so,
a hypothesis of its own (`LiveGenesis`, `ProvenancesKnown`: section 4).

| Module of proofs | Components |
|---|---|
| `GovernanceProofs` | `Governance`, `AuthorizeCall`, and the operators of `VaultAuth` |
| `ContestEscrowProofs` | `ContestEscrow`, and that it implements `Escrow` |
| `RewardProofs` | `SeedGrants`, `EntryTokens` |
| `RegistryProofs` | `UsernameRegistry` and that it implements `NameLock`, `CurrencyRegistry` |
| `SquadVaultTransferProofs`, `AdminSeatRotationProofs`, `SquadUpgradeProofs` | the ceremony of that name |
| `SumTheorems` | none: facts about sums and finite sets that the proofs above share |

**Assumptions on the constants.**  Ids, wallets, entry numbers, tokens and keys
form finite sets (`ContestAssumption`, `SeedsAssumption`, `KeysAssumption`): an
id is a hash of 32 bytes, a key one of 32, an entry number a `u32`.  Sums over
all accounts need it.  The rest of the `ASSUME`s say what kind of value a
constant is.

* **Governance.**  `EveryActionSatisfiable` is not inductive: whether a table
  stays payable depends on the set of signers being packed and seating three,
  and on what a table bootstrapped by an older binary reads as.  `IInv` adds
  `SeatsThree` and `ReadsAsAgreed`: the price an action reads as is the one it
  was last retuned to, or the shipped one.  The heart is `SlotCount` (a
  packed array without repeats has as many members as taken slots) and
  `ThirdSeat`; then a retune is bounded by the count of taken slots, and a
  rotation by `covers_max_live_threshold`.  From it: `ActionsStaySatisfiable`,
  `SlotReadersAgree`, `PricesAlwaysStand` (its halves are `AgreedPriceHolds`
  and, from the floors alone, `TwoKeysNeverGovern`) and `OneDoorAlwaysOpen`:
  a rotation leaves as many keys that signed it, hence held ones, as rotating
  costs, and the three keys that raise one of the two prices still pay the
  other while it is the shipped one.  Theorems that need it
  assume `LiveGenesis`: `initialize` is not given the zero key (section 4).
* **AuthorizeCall**, for every vault, stored byte, action and account list.
  `AuthorizeArranged` spells `authorize` out: the places it looks at are the
  named signers and the leading accounts, all signing, all members, none twice.
  Then it is counting.  `QuorumAlwaysSigned`: distinct keys at k places are k
  members that signed.  `CosignedIsWhatAuthorizeAccepts`: conversely, if as
  many keys were offered as there are places, the map from places to keys is
  onto between sets of one size, so no place repeats a key or lacks its
  signature (`PlacesOffer`, `ArrangedOffers`).  `QuorumsAlwaysCanCall`: any
  enumeration of a quorum is such a list.
* **ContestEscrow.**  Type correctness; `PoolAlwaysBacksPrize`;
  `DeadlinesAlwaysStand` and `GradingAlwaysStands`, each from the facts about
  one schedule that it is made of; `ContestsAreNeverStranded`, which needs that
  a lock never follows the conclusion (`LockAlwaysPrecedesConclusion`); and `ContestsKeepTheirPromise`,
  that every step is a step of `Escrow` or leaves it alone.  `StepOnContest`
  sorts a step by the contest it touches, so that each proof has one case per
  handler.

  The properties of the fees, the counters and the tokens are sums and counts
  over all accounts of the program.  `FeesAreAlwaysRevenue` is inductive
  currency by currency (`Backed`); a contest
  created again starts its reported fees from zero, which only helps.
  `CountersAlwaysReconcile` needs that an ungraded entry carries no rank and
  no payout (`UngradedIsClean`): a settlement pays the rows of a list one by
  one, and a row that named an entry twice, or a graded one, would count it
  twice.  `TokensAlwaysFundEntries` matches consumed tokens and token entries
  wallet by wallet (`Matched`).
* **EntryTokens.**  `CapHolds`, from the strengthening that the current
  window's counter is at least the number of cheap mints in it
  (`CheapMintsAreCounted`), whatever the policy was before;
  `TokenHistoryStands`, through the arithmetic of the flag (`FlaggedByte`).
  `FateAlwaysReadable` is inductive with "what carries the flag is consumed",
  so that no burned token is redeemed and read as burned; it assumes
  `ProvenancesKnown`, that no mint is given a provenance of 128 or more, which
  the program does not check (section 4).
* **UsernameRegistry.**  `RegisteredHoldsItsName` and `NobodyHoldsTwoNames` are
  inductive only together: renaming gives the old name up because it is the
  holder's, and the holder's because nobody holds two.  Both, and
  `RegistryImplementsNameLock`, the refinement.
* **SeedGrants.**  `InviteesAlwaysEntered` needs that a positive entry counter
  means an entry account (`EntriesCounted`).  `GrantsStayBounded` counts: the
  guards of a user inject into the quests and the friends that entered.
  `SeedsAlwaysReconcile` is the audit: a balance is the sum of what the seasons
  of the entries say now and of what the guard accounts of that user record.
  It needs that an entry's season exists when it is made (`EntriesAreBound`)
  and that no schedule is written twice; a contest created again for another
  season changes no term of the sum.
* **CurrencyRegistry.**  A fee's mint is the slot's mint at every moment since
  it was quoted, because slots fill from the left and never change.
* **SquadVaultTransfer**, for any roster, threshold and number of concurrent
  runs.  `TheMoveIsMadeOnce` and `TheAdviceIsTrue` are inductive only together:
  a run creates only on the index after its plan's; a new plan is told only
  once everything sent is dead; and the dead never rise.  The strengthening
  keeps, for every process, what it saw (`Known`), what its search has already
  covered, and that the operator's last advice is about this plan.
  `OnlyTheMoveIsSigned` rests on transactions being immutable;
  `OperatorsApproveExecutions` on approvals never being withdrawn.
* **SquadUpgrade**, for any clusters, spills and number of runs.  Once a
  mainnet run has passed the gate, the buffer's bytes and authority are fixed,
  so whatever is signed later is signed over reviewed bytes
  (`OnlyReviewedBytesAreSigned`); every process past `extend` knows that the
  binary fits (`SignedUpgradesFit`); every process past the read-back knows
  what is at its index (`OnlyUpgradesAreSigned`).

* **AdminSeatRotation**, for any roster, number of concurrent runs and of
  transactions in flight.  No property is inductive alone: a vote counts when
  it lands, long after what justified it was read.  The invariant `IInv` says
  what holds of a transaction for as long as it may land (`Carries`) and what a
  process has made sure of (`Knows`), in terms that time cannot undo: the mask
  that was read is the seat's still, or the seat was swapped away and the index
  is past the stale line by one at most (`Holds`); what was decided stays
  decided (`ClosedBelow`); approvals are never withdrawn (`OperatorAgreed`).
  `LiveVotesStayExact`, `NothingStaysOpenBelow` and `AlwaysExecutesTheSwap`
  rest on them in this order.

`SumTheorems` derives what those proofs use of `SumFunctionOnSet` (a sum does
not depend on the order, changes by what a summand changes by, is that of a
part where the rest is zero, and counts) from finite induction.  The library's induction
principle takes an operator, which the provers cannot instantiate;
`SetInduction` states it for a *set of sets* closed under adding an element
instead, and is proved by a minimal counterexample (`LeastSubset`).

**Only model-checked.**  Liveness (`SentIsVoted`, `ApprovedIsExecuted`,
`ProposedIsVoted`, `MadeIsVoted`): it needs `ENABLED` and fairness, which are
out of this prover's reach.  The runs that expect a violation have no theorem
by nature.

## 6. Plan

Done, in this order: `VaultAuth` and `AuthorizeCall`; `Governance`;
`ContestEscrow` with `Escrow`; `EntryTokens`; `UsernameRegistry` with
`NameLock`; `SeedGrants`; `CurrencyRegistry`; `Squads` and `SquadSeats` with
`SquadVaultTransfer`, `AdminSeatRotation` and `SquadUpgrade`; the safety
properties of all of them proved.

Left:

1. `TurfVault`, composing `ContestEscrow`, `EntryTokens` and `CurrencyRegistry`
   over one set of tokens and slots, so that burn, redemption, deactivation,
   settlement and re-creation interleave.
2. `Council`, an abstract specification of who may change what, that
   `Governance` implements.
3. Proofs: that `Governance` implements `Council`, and that the composition
   keeps what its parts promise.

Not modelled, and why: payout tiers stored in a contest (`settle_contest` does
not read them); the resize of old user accounts (layout); `errors.rs`, events
and logs (no state); deployment and inspection scripts (clients and printers;
`squad-membership` and `blast-radius` only read); `sweep-admin-seat`,
`sweep-admin-tokens`, `add-system-seat` and `squad-finish`, written for one
date and one list of keys; continuous integration and lock files.  In
`SquadUpgrade`, a vault transaction other than the upgrade leaves the buffer
and the program alone; one that would move them is a decision of the members
against their own ceremony and not something its tool can see.
