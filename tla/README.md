# Toob-Registry in TLA+

This directory holds a verification development of the Toob-Registry: TLA+
modules that model its tooling, TLC instances that check them, and theorems
proved with TLAPS. The registry is a catalogue of chips, drivers, toolchains
and integrations of the Toob bootloader. Go scripts run by GitHub workflows
version and release it, a CI farm tests every combination of its parts, and a
ledger keeps the outcomes; the C files of the drivers and chips are the payload.

## 1. Inventory

| Part | Source | State it keeps | Operations | Talks to |
| --- | --- | --- | --- | --- |
| Ledger | `scripts/update_ledger.go` | `ledger.db`: `verified_combinations`, `internal_state`; exports `compatibility_matrix.json`, `internal_state.json` | create and migrate, purge `main`, merge result files in one transaction, export | reads `registry.json`, `result_*.json.processing`; the exports are read by the generator and by `build_registry` |
| Operator tools | `scripts/clear_unverified.go`, hard reset (`docs/matrix_farm.md`) | none | delete parked rows, drop the database | the ledger's files |
| Matrix generator | `scripts/matrix_generator.go` | none | compute the queue of untested combinations, at most 256 | reads the exports and `registry.json`; its output goes to the daemon |
| Farm daemon | external (`docs/matrix_farm.md`) | pending targets, the inbox of result files | poll, test, deliver, start a merge, clean up | all of the above |
| SemVer calculator | `scripts/semver_calc.go` | manifests, `.chip_bumps.json` | detect changes, bump, inherit to chips | `git`, `registry.json`; feeds `build_registry` |
| Registry builder | `scripts/build_registry.go` | `registry.json` | validate, aggregate, bump the registry version | manifests, matrix, `releases.json`, `.chip_bumps.json` |
| Release sync | `scripts/sync_releases.go` | `releases.json` | list published CLI, core and compiler versions | GitHub, DockerHub |
| Release workflow | `.github/workflows/main-release.yml` | branch `main`, tags | calculate, build, commit, rebase, push, tag; runs of two pushes overlap | all scripts |
| Version index | `scripts/generate_index.go`, `.github/workflows/version-index.yml` | `version_index.json` on `main` | check out, list tags, registries and software, commit, rebase, push; a job per ended run, and dispatched ones | GitHub, DockerHub; shares `main` with the release |
| Other workflows | `pr-validator.yml`, `pr-matrix.yml` | none | validate a pull request, print its matrix | scripts |
| Flash driver | `drivers/flash/esp_rom_spi/flash.c` | flash contents, the last vendor error | init, read, write in chunks after a bounds check and a blank check, erase a sector | boot ROM |
| Watchdog driver | `drivers/wdt/esp_rwdt_with_swd/wdt.c` | the registers of TIMG0's watchdog, the saved prescaler; it turns off the RTC and super watchdogs | init, kick, suspend, resume, deinit | registers |
| Confirm driver | `drivers/rtc/esp_rtc_mem/confirm.c` | a 64-bit nonce in LP_RAM | check and clear, clear | the operating system writes the nonce; the bootloader says which one it expects |
| Reset reason | `drivers/clock/esp_systimer/reset_reason.c` | a cached reason in BSS | read | registers |
| Start-up and traps | `chips/esp32c6/startup.c`, `chip_platform.c`, `arch/riscv32/arch_trap.c` | the order of initialisation | disarm the watchdogs, clear BSS, install the trap handler, init the drivers, enter the core | all drivers |
| Console, timer | `drivers/uart`, `arch/riscv32/arch_timer.c` | FIFOs, counters | bytes, delays | registers |
| Sandbox | `chips/sandbox` | none of its own | the bootloader on a host, with injected faults | drivers outside this repository |
| Integrations | `integrations/*` | none | stubs for ESP-IDF, Zephyr and bare metal | the bootloader |

What is hard here:

* **Crashes between steps.** The ledger commits, then exports: the files and the
  tables are two copies, and each run decides from its own flags whether to
  rewrite the files. The daemon repeats what a dead run left behind.
* **Readers in the middle.** The generator, the merge and the operator's tools
  share files without locks; `os.WriteFile` truncates first. The generator reads
  three files one after the other and then waits for the network.
* **Errors kept quiet.** The error of a commit, of a query and of writing a file is
  dropped, and the script ends as if it had done its work.
* **Stale data used later.** Results arrive late, for environments that the
  registry has left behind, under hashes whose order means nothing.
* **Starvation.** The generator's cap always cuts at the same place, and results wait
  until a batch of them is full.
* **Overlapping releases.** Two pushes start two runs, each of which computes
  versions from the tree it checked out and then rebases. Each run that ends
  starts an index job, which lists tags at one time and pushes at another, to the
  same branch.
* **Resets at any moment.** A watchdog, a trap or the power may cut a flash write
  between two words and a 64-bit store between its halves; BSS holds whatever the
  last boot left there until start-up clears it.
* **32-bit arithmetic.** The bounds check of the flash driver and the doubled
  timeout of the watchdog wrap.

The properties that make each part correct are stated in the modules; `hazards`
in `PROJECT.json` lists, line by line, what can go wrong and which property
would notice.

## 2. Modules

| Module | What it is |
| --- | --- |
| `Ledger` | The ledger, its daemon-side inputs and its operator tools: variables, actions, invariants. |
| `LedgerClaims` | What the documentation and comments say of the ledger and the code does not do. |
| `LedgerProofs` | Type correctness and `MatrixInSync`, with the strengthened invariant they rest on. |
| `LedgerSafetyProofs` | `PublishedWasProven`, `ParkedExcludesVerified`, `StateInSync`. |
| `MatrixFarm` | Extends `Ledger` with the generator, read by read, the queue and the daemon's batches. |
| `MatrixFarmClaims` | What the documentation says of the farm and the code does not do. |
| `MatrixFarmProofs` | The generator's agreement with the tables, what its cap lets in and leaves out, and the ledger's theorems inside the farm. |
| `SemVer` | The arithmetic of versions: parsing, comparing, bumping. |
| `SemVerProofs` | What that arithmetic guarantees for every version. |
| `Release` | The release workflow with the scripts it runs: overlapping runs, rebases, pushes, tags. Extends `SemVer`. |
| `ReleaseClaims` | What documentation and comments say of a release and the code does not do. |
| `ReleaseProofs` | Type correctness, `NothingRegresses`, `HighestBumpWins`, `QuietMainIsReleased`; that tags are in order and that releases keep the sources. |
| `VersionIndex` | Extends `Release` with the index and its jobs. |
| `VersionIndexProofs` | `IndexOnlyGrows` and `QuietIndexIsCurrent`, and the release's theorems beside the index. |
| `LedgerMergeProofs` | `MergeReachesExports`, the bound on retries for any legacy file; that no result is lost and that a run is bounded. |
| `NorFlash` | The abstract medium: what callers of the flash driver may rely on. |
| `Flash`, `Confirm`, `Boot` | The flash driver; the confirm driver; start-up, watchdogs, traps and reset reason. |
| `Firmware` | The three in one piece, as one thread of execution with resets from outside. |
| `FirmwareClaims` | What a comment says of the flash driver and the code does not do. |
| `FirmwareProofs` | `Flash` implements `NorFlash`; `Firmware` uses `Flash` and `Confirm` as they promise; all its safety properties; how long a hang lasts. |
| `MCLedger`, `MCMatrixFarm`, `MCRelease`, `MCVersionIndex`, `MCFirmware` | Instances for TLC. |

`MatrixFarm` composes the ledger with the generator and the daemon, `VersionIndex`
the release with the index jobs, `Firmware` the parts of the device. The release
and the farm meet in `registry.json`, which `RegistryChange` of `Ledger` lets change
between any two runs, also beside a call of the generator, and in `main`, where the
daemon's commits are steps of `Elsewhere`.
The device shares no state with either: the registry only distributes its sources.

### How `Ledger` corresponds to the code

`verified` and `state` are the two tables, `txVerified` and `txState` what the
open transaction of the merge sees, `matrixJson` and `stateJson` the two files
(`NoFile` missing, `Torn` truncated and not yet written), `reg` the environment
of each chip in `registry.json`, `inbox` the `result_*.json.processing` files.
`pc` is the place the running script has reached; `updated` and `stateUpdated`
are its two flags. One action stands for one step another process can come in
between:

| Action | Code |
| --- | --- |
| `Start`, `ImportMatrix`, `ImportState` | `initDB`, and the two transactions of `importLegacyJSON`, which returns before the second when there is no matrix |
| `Purge` | the `DELETE ... 'main'`, committed on its own |
| `Glob` | list the result files, early return, `db.Begin` |
| `Apply` = `Skip`, `Accept`, `Park` | one iteration of the merge loop, in any order of the files: their names say nothing of the order of the tests |
| `Commit`, `CommitFails` | `tx.Commit`, whose error the code drops |
| `TruncateMatrix`, `WriteMatrix`, `SkipMatrix` | `exportMatrix` behind `updated` |
| `WriteMatrixInPart` | its read of the table ends with an error that nobody asks for, and the rows read so far are exported |
| `TruncateState`, `WriteState`, `SkipState` | `exportInternalState` behind `stateUpdated`; the rows are read before the truncation |
| `ExportStateFails`, `TruncateStateInPart`, `WriteStateFails` | the errors it keeps to itself: of the query or of opening the file, amid the rows, of writing; the run ends normally |
| `Crash` | the process dies anywhere; committed tables and files stay |
| `ClearUnverified`, `HardReset` | the operator's tools, the first also beside a running merge |
| `Deliver`, `Cleanup`, `RegistryChange`, `Tick` | the daemon, the registry, time |

A software triple is one value; an environment hash is a number whose order is
the sorting order of the hexadecimal strings, unrelated to age; a job id is the
tuple it is the checksum of; a file that the merge loop skips for any reason is
one value `INVALID`. `behind` is a history variable: it names the export that a
crash, a failed commit, a failed export, a skipped migration or `clear_unverified`
has left behind its table, and the next export clears it; each property that uses it
names these exceptions. A file cut off in its middle is `Torn` as well; where a reader
tells it from an empty one (the generator ends on a matrix it cannot parse), the
reader's step allows both. `proven` and `infraReports` record what the tests said.

`MatrixFarm` adds `queue`, the daemon's pending targets, and a call of the
generator as the steps between which others come in: what it still has `open`, what
it has read of the failures (`parked`), and where it is (`call`).

| Action | Code |
| --- | --- |
| `ReadRegistry` | `registry.json` and the hashes of its environments; the software it or, later, GitHub lists |
| `ReadMatrix`, `Abort` | `compatibility_matrix.json`; a matrix that is neither empty nor a document is fatal |
| `ReadState` | `internal_state.json`; what cannot be parsed counts as empty |
| `Compute` | after the network calls, the nested loops with their filters and the cut at 256 in the iteration order |
| `TakeOver` | the generator has ended; the daemon adds its output to the queue |
| `FinishTest` | a test ends, with any outcome |

A job does not name the environment, only the versions of chip and toolchain, so a
failure in an older environment of the same versions rests too; the model keeps it so.
`quiet` is history: no run, no change of the registry and no administrator was at work
since the call began.

### How `Release` corresponds to the code

`main` is the tree at the head of the branch and `seq` its number; `runs[i]` is
the workflow run of the `i`-th push: the commits it compares (`before`, `tree`),
what the push did (`edit`), its working tree (`work`), the contents of
`.chip_bumps.json` (`bumps`, `deleted`), the version its tag will have, and the
head it was rebased onto (`at`). `tags` is the remote's tags. `touched` and
`lost` are history: the version a folder had when its code last changed (`Absent`
when the folder was not yet listed), and the folders that are given up, because a
push to them was in a run that failed, or because they were removed while a run
took them for new (`TakenForNew`). A run that has ended is the value `Done` or `Failed`:
nobody reads its working copy again.

| Action | Code |
| --- | --- |
| `Push` | a developer's push: GitHub starts a run if the path filter matches |
| `Calculate` | `semver_calc.go` on the pushed commit |
| `Build`, `BuildFails` | `sync_releases.go` and `build_registry.go`, with its fatal checks |
| `Commit`, `NothingToCommit` | the staging, the commit, and `git checkout -- .`, which discards what was not staged |
| `Rebase`, `RebaseFails` | `git pull --rebase` |
| `PushMain`, `PushRejected` | `git push origin main` |
| `Tag` | `git tag` and its push, which fail quietly |
| `Die` | the runner, the network or git failing a step |
| `Elsewhere` | another workflow or the daemon commits files of its own: the head moves, and nothing here reads what was written |

Abstractions. A folder's code is a counter of the pushes that changed it. An
entry of `registry.json` is the version it was made from: the human error fix
raises the version with every change of a folder's files, so entries and versions
change together. Git merges line by line: a value that both sides changed
differently must conflict, and neighbouring lines may. Developers do not lower a
version and do not use the name of a removed folder again; the script only warns
of the first and the index treats the second as the same folder. Of the builder's
fatal checks `Valid` keeps those on folders: a file that a manifest lists and that is
missing from a folder that stays fails the build in the same way, and no push of the
model makes one. The verified
flag, the environment hashes, `-validate` and the fall-back for a force-push are
left out.

### How `VersionIndex` corresponds to the code

`index` is `version_index.json` on `main`; `jobs[j]` is the job that the end of run
`j` starts, or a dispatched one: its working copy of the index, and the head it was
rebased onto.

| Action | Code |
| --- | --- |
| `CheckOut` | `workflow_run: completed` or `workflow_dispatch`; the checkout of the head of `main`, for a failed run too |
| `Generate` | `generate_index.go`: the branch's registry, all tags with theirs, published software; a list that is not answered is written empty (that of a single tag's registry is not told apart: its release is listed all the same, with an empty snapshot) |
| `RebaseIndex`, `RebaseIndexFails` | the commit and `git pull --rebase` |
| `PushIndex`, `PushIndexRejected` | `git push` |

Every edition writes its own `generated_at`, so two jobs that started from the same
edition always conflict: the edition's number stands for that line. Two jobs do not
write within one second; were they to, and otherwise differently, they would still
conflict on neighbouring lines or be equal. A job that dies is one that takes no
further step: it has changed nothing others read. The release commits of `Release`
and the index commits never conflict, as they touch different files.

### How `Firmware` corresponds to the code

| Action | Code |
| --- | --- |
| `Sterilize`, `ClearBss` | `_start`: `sterilize_watchdogs`, `bss_init`, the trap vector |
| `InitFlash`, `InitWdt`, `InitCrypto`, `InitFails` | `boot_platform_init`, in its order; a failed mandatory part is `boot_panic` |
| `CoreReturns` | the end of `_start`: jump to the operating system, or hang |
| `Kick`, `Suspend`, `Resume`, `Deinit` | `esp_rwdt_*` |
| `GetResetReason` | `esp_get_reset_reason` with its cache |
| `Trap` | `arch_trap_handler`, which waits for the watchdog |
| `BeginWrite`, `WriteChunk`, `WriteFails` | `esp_flash_write`: the checks, one turn of its loop, a ROM call that fails |
| `BeginErase`, `EndErase`, `EraseFails` | `esp_flash_erase_sector` |
| `ForgetVendorError`, `FlashStaysLocked`, `GetVendorError` | `esp_flash_init` (and BSS), its unlock failing, `esp_flash_get_vendor_error` |
| `CheckMatches`, `ClearHalf`, `ClearIsStuck`, `Answer` | `esp_confirm_check_ok`: compare, store zero in two halves, read back, answer |
| `BeginClear` | `esp_confirm_clear` |
| `Tick`, `DogBites`, `OldDogBites`, `FlashCut`, `ConfirmCut` | hardware: the watchdogs' clocks and resets, and what a reset leaves of a driver's call |

External are the boot ROM (which may fail a call half-way and may arm any watchdog
before start-up), the flash chip, the bootloader's core and the operating system.
The core may call any driver in any order once it runs; `boot_panic` is part of the
same place, which only adds behaviours. The operating system confirms, feeds or stops
its watchdog and asks for resets; its own writes to the flash do not go through
this driver and are left out. A cell of the flash is a word, the unit of the blank
check and of the alignment that the driver enforces. Addresses and lengths wrap at
`Wrap`, and the driver's bounds check with them, as `flash.c:92` has no guard against
it: such a write is begun, and what it reads outside the flash may look blank or fault.
The blank check is compiled in, as in the build of this chip; only the sandbox defines
`TOOB_FLASH_DISABLE_BLANK_CHECK` (`flash.c:96`). The C code zeroes the nonce in one 64-bit assignment, which a
32-bit core carries out as two stores in either order.

## 3. Runs

| Run | Question | Bounds |
| --- | --- | --- |
| `merge` | Do the exports follow the tables, and the tables the results? | 1 chip, 1 version, 2 combinations, 2 environments, 2 files, 3 results, 1 fault |
| `migration` | Legacy files, results without a version, the purge, a registry that moves | 2 versions, 2 toolchains, one combination on `main`, 1 file, 2 results, 1 fault, clock to 1 |
| `farm` | Does the queue agree with the tables, is everything tested in the end, and does the farm come to rest? | 2 combinations, an old ledger of a higher-sorting environment or none, cap 1, batches of 2, 1 failure, clock to 1, no faults |
| `lost_export` | A dead run leaves a failed combination public (finding) | 1 combination, 1 fault |
| `escalation` | Two infrastructure errors in a row do not escalate (finding) | 3 results |
| `stale_hash` | The export may prefer the older environment (finding) | 1 change to a lower hash |
| `soft_retrigger` | `clear_unverified` does not bring failed combinations back (finding) | 2 combinations, 1 failure |
| `release` | Do overlapping runs inherit bumps, keep versions from going back, and leave `main` released? Does the index follow? | 2 pushes of 13 kinds, 6 folders and a new chip, 1 fault, 1 outage, index jobs with all lists answered or none |
| `wrong_tag` | A tag may name another registry than its version says (finding) | 3 pushes |
| `driver_bump` | A driver's bump is not inherited (finding) | 1 push |
| `device` | Do flash, watchdog and confirmation keep their promises through traps, failing ROM calls and resets? Does a hang end in a reset? | 2 words of flash in 1 sector, chunks of 1 word, addresses mod 8, 4 writes, 2 nonces, 1 confirmation owed each, 2 watchdogs |
| `out_of_bounds` | A write whose end wraps passes the bounds check (finding) | the same with one write from the last address on |

Why the bounds suffice: two result files are what it takes for one batch to
contradict itself; two hashes within one version meet in one entry of the
matrix; two versions separate what is filed under the wrong one; one fault makes
one export lag, and the second run after it either repairs it or not; a cap of
one below two combinations starves one of them if anything does. Failures are
bounded by number (`Counted`, `MaxResults`), successes in `farm` are not. Two pushes are what it takes for two runs to overlap; the kinds of pushes
were chosen so that each rule of `semver_calc.go` decides one of them, alone and
against another. `QuietMainIsReleased` leaves out the folders in `lost`: a
push whose run ended in a conflict, a rejected push or a dead runner is never
released by a later run, which compares with a commit that contains it. `lost`
also holds a folder that was removed while a run was about to list it for the
first time: section 5 says what happens to that one.

In `release`, the thirteen kinds of pushes are those of `MCPushes`: the code of a
dependency of both chips, of one, of a chip; forgotten and declared bumps of all
three levels, alone and against each other; new and removed folders, one of which
breaks the build; and a push that starts no run. `MaxCommits` stops none of the
index jobs, of which there are two, one for each run; dispatched jobs behave like
them but need no run, and the theorems cover any number of them.

In `device`, a flash of two words in chunks of one has a write that takes two turns
of the loop and one that is cut in between; the writes are one over both words, one
of the second word alone (which overlaps it), one that reaches past the end and is
refused, and an empty one; none of them wraps, as `out_of_bounds` shows what comes of that. Two nonces that share a half are
what a half-finished clear could confuse. Power-on leaves memory as if cleared, or
as an earlier boot had left it. TIMG0 and the super watchdog stand for the dogs the
boot ROM may leave armed. The theorems hold for any sizes, writes, nonces and dogs.

The ledger, the farm and the device never stop, and deadlock is checked. The number of pushes
is bounded, so a release does stop when all runs have ended, and its instances
say so.

In `farm` two combinations make a full batch of two, and a cap of one returns one of
them at a time. An old ledger, in which both are verified under a hash that sorts
higher than the chip's present one, makes `Hidden` and `CrowdedOut` happen; from an
empty one everything has to be tested. The registry changes only when the chip
arrives, and there are no faults: what these do to the queue is proved
(`QueuedIsOpen`, `NothingIsForgotten`), and what they do to the files is the question
of `merge` and `migration`. A failure rests for one tick of the clock.

Fairness. `FairFarmSpec` follows the daemon of `docs/matrix_farm.md:63`: it starts a
run of `update_ledger` only when a full batch of results waits, never for a part of
one, and weak fairness is asked of that start and of the running script. The slots
finish every queued test (strong fairness of each combination's test, as a slot is
freed and files are renamed between two runs). The generator is called hourly and a
run takes an instant: again and again a whole call, from its first read to the moment
its output is taken over, meets no run. Calls that do meet one remain possible. The
operator's tools are allowed and nothing is asked of them.
`EveryTargetIsTested` names its exceptions: a matrix that a crash left torn may end
every call, and combinations that are done, but hidden in the matrix by rows of a
higher-sorting hash, are queued by every call; once they fill the cap, those behind
them wait for ever. `FarmSettles` says that calls keep coming back empty, not that the
queue stays empty: a call that comes between a test and its batch queues the
combination again. `FairSpec` of `Firmware` asks for weak fairness of the watchdog's
clock and of its bite alone: nothing is assumed of the core, the operating system or
the power.

## 4. Proofs

`tlapm` checks every theorem for all values of the constants that satisfy the
named assumptions of `Ledger`, `MatrixFarm`, `SemVer`, `Release`, `VersionIndex`,
`Flash`, `Confirm` and `Boot`: how many chips, versions, results, pushes, runs,
jobs, words, nonces or faults there are does not matter.
The bounds of the runs are constants of the modules, so they are covered too.

| Theorem | Rests on |
| --- | --- |
| `LedgerProofs!TypeCorrect` | the types are inductive by themselves |
| `LedgerProofs!MatrixStaysInSync` | `MatrixInv`: at each `pc`, either `updated` is up, or the file is the export of the table the run sees, or `behind` names it. Between two runs that is the property; inside one it is not, hence the strengthening |
| `LedgerSafetyProofs!OnlyProvenIsPublished` | `ProvenInv`: the open transaction and both legacy files hold nothing unproven either |
| `LedgerSafetyProofs!VerifiedIsNotParked` | `ExcludesInv`: the transaction's tables exclude each other between any two files, and the legacy files do before they are imported |
| `LedgerSafetyProofs!StateStaysInSync` | `StateSyncInv`, as for the matrix, with the rows read before the truncation |
| `LedgerMergeProofs!BatchReachesExports` | `MergeInv`: what of the batch is merged shows in the transaction, then in the tables, then in each file, as `pc` passes them |
| `LedgerMergeProofs!GivingUpTakesReports` | `RetryInv`: the count of a job is bounded by what it brought along, the reports merged so far and those waiting, once per fault. `L` is any bound on the counts of the legacy files (the repository's own `internal_state.json` holds jobs with two retries, given up), so nothing is assumed of them; with `L` zero it is `RetriesAreReported` |
| `LedgerMergeProofs!NoResultIsLost` | `MergeReachesExports` at the one step that removes files |
| `LedgerMergeProofs!RunsAreBounded` | the measure `Left`: the steps of the script ahead, and one for each file to merge; assumes finitely many file names |
| `MatrixFarmProofs!FarmTypeCorrect` | the types, and that `open` comes from one reading of the registry |
| `MatrixFarmProofs!QueuedIsOpen`, `NothingIsForgotten` | `QuietInv`, below, and the ledger's theorems, which the lemma `FarmRunsTheLedger` carries over |
| `MatrixFarmProofs!CapIsKept`, `CapLeavesNoGap` | `CappedIsFirst`, below |
| `MatrixFarmProofs!LedgerInFarm` | the same lemma |
| `SemVerProofs!BumpAdvances`, `BumpIsRecognised`, `InheritedBumpIsExact`, `BumpsCompose` | arithmetic, number by number. The scripts take a third number with a suffix for zero; `BumpAdvances` compares the numbers as they are written and says when a bump goes back all the same |
| `ReleaseProofs!TypeCorrect` | the types of the operators, then one lemma for the steps that replace one run's record |
| `ReleaseProofs!NeverRegresses` | `ReleaseInv`, below; its second half says of the versions as written that they fall only where a dated third number restarts. Integrations are not part of it |
| `ReleaseProofs!HighestAlwaysWins` | `ReleaseInv` and `AllCompared`, below; of the bumps of arch, toolchain and the chip's own folder, and a patch for listed driver files (`driver_bump` shows that a driver's own bump does not count) |
| `ReleaseProofs!QuietMain` | `ReleaseInv` and `SettledInv`, below |
| `ReleaseProofs!TagsAreInOrder`, `ReleasesKeepSources` | `ReleaseInv` and `CommitInv`, below |
| `VersionIndexProofs!IndexGrows` | `IndexInv`: a job's copy of the current edition lists at least what that edition lists, and a rebased job whose head is still the head has the current edition |
| `VersionIndexProofs!QuietIndex` | `CurrentInv`, below |
| `VersionIndexProofs!ReleaseBesideIndex` | the lemma that each step of the index is a stutter of the release, or `Elsewhere` |
| `FirmwareProofs!FlashIsSafe`, `FlashKeepsTheRules` | `FlashInv`: during a write the words ahead are still blank and those behind hold the data; during an erase nothing of the sector counts as stored. Assumes `NoRequestWraps` |
| `FirmwareProofs!ConfirmIsSafe` | `OwedInv`: a nonce that lies in memory, or is being confirmed, is owed at least once |
| `FirmwareProofs!ImplementsFlash`, `ImplementsConfirm` | each step of the firmware is one of the driver or leaves its state alone |
| `FirmwareProofs!WhatIsStoredStays`, `FirmwareKeepsTheRules` (both assuming `NoRequestWraps`), `NonceIsNotReplayed` | the drivers' theorems, carried over by these refinements |
| `FirmwareProofs!GuardedByOneDog`, `ReasonIsOfThisBoot`, `TypeCorrect` | `BootInv`: what holds of watchdog, saved prescaler and cached reason at each place of start-up |
| `FirmwareProofs!HangIsBounded` | `BootInv`, and that no count passes its limit |

**Nothing regresses.** That a rebase does not take `main` back depends on what
the run did long before. `ReleaseInv` says that `main` and every pushed tree are
`InOrder` (no entry is newer than its manifest), that each run's tree is
`Outlived` by `main`, that a run has only `Raised` manifests and `Indexed` them,
and that a rebased commit `Follows` the head it was rebased onto for as long as
that head stays. The merge (`RebasedFollows`) takes each line from one of the
sides; the cases that need the invariant are those in which an entry and its
manifest come from different sides.

**The highest bump wins.** `ChipIsExact` shows that the version a chip is left
with differs from the one before the push by exactly the highest bump, whether
or not the developer or the human error fix had raised it already; this is
`InheritedBumpIsExact`. The registry's version follows since its builder compares
entries: a chip that was bumped has a manifest later than the one before the
push, the entry is not later than that one (`InOrder`), so they differ and the
version rises. It rises by no more and no less than the most of these bumps: the
bumps recorded in `.chip_bumps.json` are those read off the manifests
(`BumpsShow`), so their maximum is the same (`MostIsRecorded`), and `BumpIsRecognised`
says that comparing the two registry versions yields it again.

**Tags and sources.** A tag's name is read from the working copy before the
rebase, and the rebase may take the registry's version from `main` instead: the run
`wrong_tag` shows the two apart. `CommitInv` bounds the difference: from the rebase
on the version committed is not earlier than the one read, and once pushed not
later than `main`'s, which never falls (`NothingRegresses`). So a tag may name too
new a registry, never too old a one. The same invariant says that calculating
versions adds and removes no folder (`SameFolders`) and that the raised manifests of
integrations are not in the commit; a merge of the commit with the head then leaves
code, folders and integrations as the head has them, which is `KeepsSources`.

**A quiet main is released.** At the end of all runs the property compares `main`
with nothing but itself, so the invariant has to say who will put right what is not
right yet. `SettledInv` says of each folder that is not `lost` that its entry is its
manifest or an active run `Mends` it, the run of the push that gave the manifest its
present version (`Mended`); and that its version has `Outgrown` the one its code
changed under, or an active run `Raises` it. A run pushes all folders at once,
though, also those it has nothing to do with, in a state computed from an older
commit. `Landing` is the case analysis of that merge for one folder: a folder the
run did not raise lands as `main` has it, or with its manifest's own value as
entry, or with a manifest that another run `Mends`. The one case left is a folder
that was new in the run's commit and is gone from `main`; its entry outlives it,
which is why such a folder is `lost`. The rest is that a run that ends has settled
what it was to mend (`PushMainSettles`, `NothingSettles`) or gives it up
(`FailureSettles`).

**The index is current.** The job of the last run to end checks out `main` after
that run, and after every other one; but its index may be overwritten, or its push
rejected. `CurrentInv` says that either some run is `Pending` (it has not ended, or
its job has still to push) or the index shows what `main` holds, and the same of
every job's copy of the current edition. A push replaces the edition, which fails
every other copy: so if no job has failed, none was overtaken.

**What assumptions leave out.** `NoRequestWraps` says that no write of the bootloader's
core has an end past 2^32; the driver does not check that (`out_of_bounds`), and without
it neither theorem about the flash's contents holds. `NonceIsNotReplayed` counts
nonces both of whose halves are neither zero nor lost: cleared memory confirms a nonce
of zero (`confirm.c:59`), and the bootloader that draws nonces is not in this
repository. `BootAssumption` takes a timeout whose double fits the watchdog's
register; one that wraps (`wdt.c:105`) would give a shorter limit or none.

**What is stored stays.** `StoredStays` by itself is not inductive: a chunk written
over stored words would spoil them. That the words `Ahead` of a write under way are
blank, established by the blank check and preserved chunk by chunk since the driver
is called by one thread, gives both this property and `NorFlash`, whose `Program`
demands blank cells and which changes other cells in no way but by an erase that was
asked for.

**A quiet call.** The filters see files, read at different moments, and the properties
speak of tables at the moment of the last step. `QuietInv` says what a call that is
still `quiet` knows at each of its steps: no run is under way, `open` is what the
registry and the matrix of this moment leave, and `parked` is the state file of this
moment. Between two runs the files are the exports of the tables (`MatrixInSync`,
`StateInSync`) unless `behind` names them, so the filters are those of the tables. Time
may pass and results may arrive in between: a failure that rests later rested before
(`RestEnds`).

**The cap.** `Capped` lets a target in if fewer than `Cap` eligible ones come
before it. The position in the generator's nested loops tells any two targets
apart (`RanksDiffer`; `FarmAssumption` says that `Rank` is injective, and the registry
names one environment per chip). So the number of targets before each one is an
injection of what is let in into `0 .. Cap - 1`, which bounds it; and the least target
left out has only let-in ones before it, at least `Cap` of them, which makes it
exactly `Cap`. What a call leaves out thus stands behind a full load that is queued.

**What fairness is not needed for.** `EveryTargetIsTested` and `HangEndsInReset` stay with
TLC, but what they ask of the code is proved. `RunsAreBounded`: each step of a run of
`update_ledger` has fewer left, whatever the operator, the clock or the daemon do
meanwhile; a run that the system schedules ends. `NoResultIsLost`: a file that leaves the
inbox, and that no other of its batch contradicts, is in both exports, unless one of them
is behind. `HangIsBounded`: a hanging core under an armed watchdog only
counts, at a rate that is not zero, towards a limit it has not passed.

Only model-checked: the liveness properties, since fairness and `ENABLED` are beyond
the prover. Every invariant and action property of the passing
runs is proved (`RetriesAreReported` as the case of `GivingUpTakesReports` in which the
legacy files count no retries, which is that of its run).

## 5. Findings

Seven statements of the documentation or comments do not hold of the code. Each
has a run in which TLC finds the counterexample, and an entry in `PROJECT.json`
with both lines: a combination that failed stays public after a crash
(`lost_export`), two infrastructure errors in a row do not escalate
(`escalation`), the export keeps the greatest hash instead of the newest
(`stale_hash`), the soft retrigger does not make the generator retest what failed
(`soft_retrigger`), a tag names a registry with another version (`wrong_tag`; never an
earlier one, `TagsAreInOrder`), a driver's bump is not inherited (`driver_bump`), a
write whose end wraps passes the bounds check of the flash (`out_of_bounds`).

More were met while modelling and have no run: they are plain from the lines quoted,
or what contradicts them is outside the state the models keep, or is no statement of
the repository.

* A deleted chip. `semver_calc.go:523-533` looks for chips that are gone, to make their
  deletion a major change of the registry. It looks in the `registry.json` of the working
  tree, which is rebuilt only afterwards and still lists them: the run that releases
  the deletion releases it as a patch.
* A failure for good. `docs/matrix_farm.md:74` says of a `FATAL_INFRA_ERROR` "Der Chip
  wird dann komplett ignoriert, bis ein Mensch eingreift". `matrix_generator.go:448-451`
  leaves out one job, not the chip, and only for thirty days. The model has that window
  (`ParkWindow`); `QueuesOnlyWhatIsOpen` speaks of it.
* A dated third number. `semver_calc.go:205` reads the third number of `13.2.5_20240530`
  as zero, so a patch makes it `13.2.1`, which the scripts take for later.
  `BumpAdvances` and `NeverRegresses` say that this is the only way back.
* A trap in start-up. `arch_trap.c:75-76` says "Enter an infinite loop. The hardware WDT
  will reset the system." `_start` turns every watchdog off before it installs the
  handler, and the watchdog is armed only after flash and clock are up: a trap in
  between waits for ever. `HangEndsInReset` asks for an armed TIMG0.
* The verified flag. `docs/chip_contribution_guide.md:457` says that `verified` "is set to
  `true` only after CI validation succeeds". `build_registry.go:430-453` computes the
  hash it compares from the raw entries of `registry.json`, all integrations
  included; `matrix_generator.go:364-386`, whose hash the matrix holds, leaves the
  integrations out. With one integration in the registry the hashes never agree and
  the flag is never set. Without any, setting the flag changes the chip's own entry
  and so the hash, and the next build takes the flag back.
* The index. `docs/release.md` says that `version-index.yml` is triggered "ONLY via
  `workflow_run` when Phase 1 successfully completes" and that the index "accurately
  reflects the newly minted tags from Phase 1 without race conditions". The workflow
  also starts for failed runs and by dispatch, two overlapping jobs always conflict
  so that the later one fails, and its commits move the head under a release that has
  just rebased, whose push is then rejected and whose bump is lost. `QuietIndexIsCurrent`
  is what does hold: the index is current if no job has failed.
* A folder removed at once. A push adds a folder, and the next removes it before the
  run of the first has released it. The second run finds nothing to do; the first
  one's rebase finds the manifest gone but merges its new entry into `registry.json`,
  where it stays until some later push rebuilds the file. `QuietMainIsReleased` leaves
  such folders out as `lost`.

## 6. Not modelled

* The workflows of pull requests change no state that another part reads.
* The HTTP requests of `sync_releases.go`, of `generate_index.go` and of the
  generator's fall-back are reduced to whether a source answered; pages, waits for
  the rate limit and the compilers' pages that are kept as far as they came are left
  out.
* The contents of registry entries, environment hashes as functions of bytes, the
  text of versions, and logs are abstracted.
* The console and the RISC-V timer: how long a spin lasts and which halves a latch
  yields depend on the speeds of core and counter, which a model would have to
  assume in order to show anything.
* The sandbox runs the bootloader on a host with drivers that are not in this
  repository; the mock of the eFuses returns constants; the integrations are stubs.

## 7. Plan

1. The environment hash as a set of the entries each of the three scripts feeds it,
   to turn the remark on the verified flag into a run.
2. The fall-back of `semver_calc.go` for a force-push.
