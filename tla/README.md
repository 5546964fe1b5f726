# TLA+ models of the Magisk build script (`src/build.py`)

This directory models how `build.py` orchestrates native builds: target
selection, the cargo and ndk-build passes, artifact relocation, the generated
headers, the ELF cleaner and `clean`. It also models the app and emulator
commands, the NDK and rustup setup, and the config parser. Everything is plain
TLA+ checked with TLC.

## 1. Inventory

`build.py` is one single-threaded Python process per invocation. It runs
external tools synchronously and reads their exit status. The only state that
survives from one invocation to the next is the file tree. That is why the
model treats the hard behaviour as a sequence of invocations over one tree,
any of which may stop part way, and not as concurrency inside one run.

| Component | Code | State it keeps | Operations |
|---|---|---|---|
| Toolchain Locator | `build_binary` 356-361, paths 82-91 | none (reads `ndk/magisk/ONDK_VERSION`) | version check, fatal on mismatch |
| Target Selector | `build_binary` 363-371, `run_cargo_build` 258-263, `cleanup` 499-506 | none (pure) | resolve request, crate set, pass flags, clean scopes |
| Cross-Compilation Driver | `run_cargo_build` 254-294, `run_ndk_build` 232-243, `mv` 99-104 | `native/out/<arch>/lib*-rs.a`, `native/libs/<arch>/*`, `native/obj`, `native/out/<arch>/*` | cargo per arch, ndk-build pass, relocation sweep |
| Flag/Header Generator | `write_if_diff` 307-315, `binary_dump` 318-325, `dump_bin_header` 328-334, `dump_flag_header` 337-352 | `native/out/generated/flags.h`, `<arch>_binaries.h` | write-if-different |
| Binary Post-Processor | `clean_elf` 205-229 | `native/out/elf-cleaner` | lazy gcc build, one batched run |
| Cleanup Coordinator | `cleanup` 498-526, `rm`, `rm_rf`/`rm_on_error` 115-135 | removes trees | cpp / rust / java scopes |
| Pipeline Controller | `build_binary` 355-421, `main` 716-724 | the step reached | sequence the above |
| App build | `build_apk`/`build_app`/`build_stub` 456-496, `build_all` 624-626 | outdir APKs, `stub.apk` asset | gradle, `mv`/`cp` into the outdir |
| Emulator setup | `push_files` 545-567, `setup_avd` 570-580, `patch_avd_ramdisk` 583-621 | `ramdisk.img(.bak)`, `advancedFeatures.ini(.bak)`, files on the device | push, run script, backup once, pull |
| Configuration | `parse_props` 158-171, `load_config` 174-202 | the config dict | parse, merge, validate `versionCode` |
| Toolchain install | `setup_ndk` 529-542, `setup_rustup` 629-651, `rm_rf`/`rm_on_error` 123-135 | `ndk/ondk-<v>`, `ndk/magisk`, the wrapper dir, `~/.cargo/bin/rustup` | remove, download and extract, move; link, build, copy |
| Logging, `cargo` pass-through | `header`/`vprint` 32-39, `run_cargo_cmd` 297-304 | none | not modelled (see §6) |

How the components interact:
- `build_binary` calls the Target Selector and then runs cargo once per
  architecture. Cargo creates `native/out/<arch>` and moves the crate archives
  there. Then come `dump_flag_header`, ndk-build pass 1, `dump_bin_header`,
  pass 2, `clean_elf` and the busybox pass.
- The components share nothing but files. ndk-build reads `flags.h`, the payload
  headers and the Rust archives. `dump_bin_header` reads the preload that
  pass 1 moved into `native/out`.
- `clean_elf` reads the binaries that the passes relocated.

What is hard here:
- **Partial failure.** Every external process may fail. `error()` exits at
  once and nothing is rolled back. Files from a failed run, such as a module
  make already installed or a header already rewritten, are then read by the
  next run.
- **Silent best effort.** `mv` swallows every exception, and several exit
  statuses are never read.
- **Ordering across files.** The payload header must come from this run's
  preload before magiskinit is compiled. Every binary must link a Rust archive
  of its own profile.
- **Incremental builds.** `write_if_diff` keeps old timestamps, and make
  decides from timestamps what to rebuild.

What makes each component correct:
- **Target Selector:** the passes it chooses are closed under what they
  produce and link.
- **Driver + Generator:** a binary in `native/out` is consistent with what it
  links and embeds. Requested artifacts reach `native/out`. A pass relocates
  only what it built.
- **Controller:** a non-zero exit when an external process fails (§6), and
  every invocation ending.

The end-to-end scenario of spec §8 lists "the unmanaged-toolchain pass with
only the preload flag" before "generate the flags header". The code writes
`flags.h` first (line 379), before pass 1 (line 399); `Stages` follows the
code. No property states the spec's order: pass 1 compiles against
`flags.h`, so the code's order is the one that keeps the preload current,
and `ImplementsBuildSpec` fails if a module ever compiles against a stale
`flags.h`.

The hazards are listed in `PROJECT.json` under "hazards", each at its source
line.

## 2. Modules

### `BuildTargets.tla` (Target Selector)
Pure operators with the source's names:
- `default_targets`, `support_targets`, `rust_targets`;
- `Resolve` and `NothingToBuild` (lines 363-371);
- `CargoTargets` with the resetprop → magisk crate rule (line 259);
- `Pass1Flags`, `Pass2Flags`, `BusyboxFlags`, `CleanElf`;
- `CleanScopes`.

`FlagOutput`, `NdkModules` and `RustLibOf` say which artifact each ndk-build
flag produces and which crate it links. That is `native/src/Android.mk`, which
is not among the sources, so these come from the spec and are marked
spec_modelled. The module also defines the mutation operators used by the
mutation checks; each has a `Mutation:` comment.

### `MCBuildTargets.tla` (check of the selector)
The only variable is the request. It ranges over all subsets of the catalog
plus an unknown name (`Unknown = {"su"}`), which gives 128 requests.

### `BuildBinary.tla` (Driver, Generator, Post-Processor, Cleanup, Controller)

**Invocation state:**
- `pc` is the step reached: `check`, `cargo`, `flags`, `ndk1`, `binhdr`,
  `ndk2`, `elf`, `bb`, `done`.
- `req`, `tgts` and `prof` hold the request, the resolved targets and the
  profile.
- `ai` is the index of the cargo loop.
- `procFailed` records a non-zero exit of any process in this invocation.
- `exitCode` is the exit status of the last invocation.

**File state:**
- `rustOut` models `native/out/<arch>/lib*-rs.a`.
- `libs`, `obj` and `out` model `native/libs`, `native/obj` and
  `native/out/<arch>`.
- `outDirs` is the set of `native/out/<arch>` directories that exist.
- `flagsH` and `binH` are the generated headers, each with content and mtime.
- `elfCleaner` says whether the cleaner binary is absent, built, or
  `Partial` (truncated).
- `hist[k]` is the profile of invocation `k`, or `wipe`/`keep` for a clean.
  Only the refinement mapping reads it.

An artifact is a record of:
- its architecture;
- its profile, which is the `flags.h` content it was compiled with;
- the invocation that compiled it;
- the Rust archive it links;
- the payload it embeds.

Contents are abstracted to what produced them. `binary_dump` (xz +
hex) maps a preload to its architecture and profile. It is injective, as the
real compression is.

**Actions, one per step of the code:**
- `StartBinary` (main);
- `NdkMismatch` / `NdkVerified` (the ONDK check, resolution and the early
  return);
- `CargoArch` / `CargoFails` (one architecture of `run_cargo_build`);
- `DumpFlagHeader`, and `DumpFlagHeaderInterrupted` (the write is
  interrupted and leaves `flags.h` as `Partial`);
- `RunNdkBuild`, with `NdkBuildOk`, which installs every module and then
  does the sweep of `mv` over all 7 names, and `NdkBuildFails`, where any
  subset of the buildable modules was installed before the exit;
- `DumpBinHeader`, which crashes at the first architecture without a preload,
  and `DumpBinHeaderInterrupted` (the headers before architecture `i` are
  written, and `i`'s is left `Partial`);
- `CleanElfRun`, plus `CleanElfGccFails` (gcc is killed and may leave a
  truncated cleaner) and `CleanElfExecFails` (running a truncated cleaner
  fails);
- `Finish`;
- `Cleanup`, and `CleanupStops`, where an `rm_rf` of the cpp scope raises
  part way: the trees before it are gone, some children of its own tree are
  removed, and the later trees are untouched. In `Cleanup`, the rust scope
  may also raise (`rm` swallows only `FileNotFoundError`): the invocation
  exits 1 and the java scope never runs;
- `Terminated`, the stutter step once `MaxInv` invocations have run.

ndk-build itself is external. It is modelled as make: a module is recompiled
when it has no object, when `flags.h` (or for magiskinit its payload header)
is newer than the object, or when its Rust archive's content changed.
Otherwise the old object is installed again. This is the behaviour
`write_if_diff` exists for (spec §3).

**Fault model.** Every external process may fail (the `*Fails` actions). An
interrupt may also stop a file write part way. `write_if_diff` opens the file
with mode "w" and writes it, so an interrupt leaves a truncated file
(`write_interrupted`, content `Partial`). gcc removes its output on SIGINT,
SIGTERM and SIGHUP, but not on SIGKILL, so a cleaner can be left truncated.
Python then exits with the interrupt, which the model shows as `Exit("fail")`.

**Fairness.** `FairSpec == Spec /\ WF_vars(RunStep)`, where `RunStep` is any
step of a running invocation. `build.py` is one sequential process. Each step
either runs a tool that returns (success or failure) or computes locally, so
a started invocation keeps taking steps. Starting a new invocation is not
fair: nobody has to run the script again.

**Refinement.** `Contract == INSTANCE BuildSpec WITH ...` maps:
- `tree` to `out` with each artifact cut down to `[arch, prof, built]`;
- `Names` to the ndk-build outputs;
- `busy` to `pc # "idle"`;
- `hist` and `inv` to themselves.

`ImplementsBuildSpec == Contract!Spec` is checked as a PROPERTY.

### `BuildSpec.tla` (abstract contract of `native/out`)
This module states what the canonical output tree promises, with no
ndk-build, cargo or headers in sight:
- every entry of `native/out/<a>` is a build of architecture `a`;
- it was made by an invocation since the last clean that wiped `native/out`;
- it carries the profile that invocation was given;
- entries are added or replaced only while an invocation runs (`Produce`);
- a wiping `Clean` removes them all at once, and a clean that stops part way
  may remove some.

Which entries an invocation replaces is left open. That leaves room for
make's reuse and for the sweep, which both move older builds in. The contract
does *not* promise that the requested artifacts arrive; the relocation
finding shows they may not.

### `AppDeploy.tla` (App build, emulator setup, `clean java`)
`build_binary` is a single step here, which either succeeds or fails
(`BuildBinary` models its inside). The model abstracts:
- an APK to `[mod, type, built]`;
- a ramdisk image to `[depth, apk]`, where `depth` is how many times it was
  patched.

**State:**
- `plan` is the steps the subcommand still has to take;
- `outApk`, `stubAsset`: the outdir APKs and the stub asset;
- `ramdisk`, `backup`, `ini`, `iniBak`: files on the host;
- `devApk`, `devCpio`, `devOut`: files in `/data/local/tmp`.

**Plans.** `Start` puts the subcommand's steps into `plan` (`Steps`, from
`main`, `build_all`, `setup_avd` and `patch_avd_ramdisk`). `ResetRelease` is
line 585, where avd_patch forces a debug build before `build_all`.

**Actions.** `BuildApk`, `CopyStub`, `PushFiles`, `MakeBackup` (the
once-only backup of lines 592-595), `PatchIni`, `PushBackup`, `PatchScript`,
`PullRamdisk`/`PullFails`, `StepFails` for any external failure, `Finish`,
`CleanJava` (which may stop after removing `app/src/debug`) and `Terminated`.

`cp` (lines 107-112) catches every exception with a bare `except`. That
includes `KeyboardInterrupt`. So an interrupted copy leaves a `Partial`
target and the invocation carries on. `Patched` stands for
`scripts/avd_patch.sh`, which is not under `src/`, and is spec_modelled.

### `Toolchain.tla` (Toolchain install and the NDK check)
It covers the machine's toolchain trees over a sequence of `ndk`, `rustup`
and `binary` invocations. A `Checkout` between invocations may change the
configured ONDK version or the wrapper source.

A tree is abstracted to its version and to which of its two parts exist: the
`ONDK_VERSION` file and the toolchains. `rm_rf` is `shutil.rmtree` with
`rm_on_error`:
- a missing path is tolerated;
- any other error, or an interrupt, escapes part way. `RmRfLeft` gives every
  subset of the tree that can be left behind.

**Actions:**
- `setup_ndk`: `NdkClear`, `Fetch`, `NdkReplace` and `NdkMove`. Each of the
  first three has a `*Fails` twin that crashes part way. `NdkMove` models
  `shutil.move` onto an existing directory, which nests the source inside it.
- `binary`: `NdkCheck` (lines 356-361), which records the tree it accepted.
- `setup_rustup`: `WrapperClear`, `Link`, `CargoBuild`, `Unlink`, `Copy` and
  `Chmod`.
  - `CargoBuildFails` is not fatal, because the status is not read.
  - `CopyInterrupted` is swallowed by `cp`.
  - `CopyTo` writes through a symlink, as `shutil.copyfile` does.

### `ConfigProps.tla` + `MCConfigProps.tla` (Configuration)
`ConfigProps` translates three operations over lines given as sequences of
characters:
- `parse_props`: `Strip`, a RECURSIVE `Split` on "=", and `ParseLine`,
  folded with `FoldLeft`;
- `load_config`'s merge: the defaults of lines 177-180, then
  `config.prop`, then each `magisk.<k>` of `gradle.properties` overriding
  `<k>`;
- `ConfigError`: the `int(versionCode)` check, with `IntLiteral` the
  base-10 literal grammar of `int()`: blanks, an optional sign, and digits
  with single underscores between them.

`MCConfigProps` fixes the two files in `Init`. There are six characters,
lines of up to 3 characters, and at most two lines between the two files.
Besides those, the lines include every `versionCode` definition, plain and
`magisk.`-prefixed, whose value is up to three of `1`, `-` and `_`. The
reference for `int()` is an automaton (`IntStep`, `RefInt`) rather than the
code's conjunction of conditions. It
then compares `load_config` with an index-based reference written
independently of the code: `Entry`, `LastDef`, `RefValue` and `RefKeys`.

### `MCBuildBinary.tla`
It sets the following bounds:
- architectures `<<arm, x86>>`, as model values kept in order;
- requests `{magiskinit}`, `{magisk}`, `{resetprop}`, `{busybox, su}` and
  `{su}`;
- clean requests `{native}` and `{java}`;
- `MaxInv = 3`.

## 3. Runs

| Run | Module / cfg | Expect | What it shows |
|---|---|---|---|
| targets | `MCBuildTargets.cfg` | pass | `BuildClosure` holds for all 128 requests. |
| pipeline | `MCBuildBinary.cfg` | pass | Under `FairSpec`, `TypeOK`, `PayloadHeaderCurrent`, `EmbeddedPayloadConsistent`, `LinkedRustConsistent`, `ImplementsBuildSpec` and `InvocationEnds` hold over every sequence of 3 invocations, with any process failing, any write interrupted or any clean stopping part way (≈408k states, about 1.5 min). |
| toolchain | `MCToolchain.cfg` | pass | `SetupNdkInstallsConfigured` and `CargoHomeIntact` hold over 4 invocations with any interrupt and checkouts in between (≈218k states). |
| app_deploy | `MCAppDeploy.cfg` | pass | `RamdiskPatchedOnce` and `PatchedWithThisBuild` hold over 3 invocations of any app subcommand with any step failing (≈146k states). |
| config | `MCConfigProps.cfg` | pass | `load_config` agrees with the reference on every pair of small files, signed and underscored version codes included (≈339k states, under 2 min). |
| relocation | `MCBuildBinary_RequestedArtifactsDelivered.cfg` | violation | On a fresh tree, `binary busybox` exits 0 and busybox stays in `native/libs/<arch>`. |
| sweep | `MCBuildBinary_SweepMovesOnlyPassOutputs.cfg` | violation | A later pass moves into `native/out` a magisk left by a failed pass. |
| exit_status | `MCBuildBinary_FailureAborts.cfg` | violation | `clean java` exits 0 after gradle clean failed, and so does `binary magisk` after the ELF cleaner failed. |
| elf_retry | `MCBuildBinary_ElfCleanerRunnable.cfg` | violation | A truncated `elf-cleaner` is never rebuilt, so every later pass that needs it fails. |
| cp_copies | `MCAppDeploy_CopiesIntact.cfg` | violation | An interrupted `cp` is swallowed: a truncated `advancedFeatures.ini.bak` is kept while the ini is overwritten, a truncated `ramdisk.img.bak` is kept for good, and `app` exits 0 with a truncated stub APK. |
| ndk_check | `MCToolchain_NdkCheckSound.cfg` | violation | The `ONDK_VERSION` check accepts an `ndk/magisk` that an interrupted `rm_rf` left half removed. |
| rustup_wrapper | `MCToolchain_RustupWrapperCurrent.cfg` | violation | `rustup` exits 0 with a truncated wrapper (after an interrupted `cp`) or a stale one (after a failed cargo build). |

### Properties of the passing runs
- **`BuildClosure`** (targets): every requested target is produced by some
  pass, and every produced binary that links a crate has it built by cargo
  (resetprop pulls in the magisk crate, line 259).
- **`PayloadHeaderCurrent`** (pipeline): when the B_INIT pass starts, each
  architecture's header is the image of that architecture's preload, and the
  preload has this run's profile.
- **`EmbeddedPayloadConsistent`** (pipeline): every magiskinit in
  `native/out`, at any time, embeds its own architecture's preload with its
  own profile. This holds even across interrupted header writes.
- **`LinkedRustConsistent`** (pipeline): every binary in `native/out` that
  links a crate linked one with its own architecture and profile.
- **`ImplementsBuildSpec`** (pipeline): `BuildBinary` refines `BuildSpec`.
  Every artifact in `native/out` was built since the last C++ clean, by an
  invocation with the profile it carries, and it changes only while an
  invocation runs.
- **`InvocationEnds`** (pipeline): under the fairness of §2, a running
  invocation always reaches an exit status. No step of it can block or loop.
- **`RamdiskPatchedOnce`** (app_deploy): `ramdisk.img` is never patched
  twice, however often avd_patch runs and fails. It is always the stock
  image, one patch of it, or a truncated pull.
- **`PatchedWithThisBuild`** (app_deploy): a successful `avd_patch` without
  `-s` leaves the debug app APK of that same invocation in `ramdisk.img`.
- **`LoadConfigMatchesReference`** (config): the keys, values and the
  `versionCode` error all match the reference, for values such as `-1`,
  `1_1`, `_1`, `1_`, `1__1` and `--1`.
- **`SetupNdkInstallsConfigured`** (toolchain): an `ndk` invocation that
  meets no fault itself exits 0 with the complete NDK of the configured
  version. This holds whatever earlier interrupted runs left: a partial
  `ondk-<v>` or a half-removed `ndk/magisk`.
- **`CargoHomeIntact`** (toolchain): `setup_rustup` never overwrites the
  real `~/.cargo/bin/rustup` through the symlink in the wrapper dir.

Each property has a mutant in `PROJECT.json`: a plausible bug in the mapped
code that TLC catches. The mutants are:
- the request not intersected with the catalog;
- the resetprop crate rule dropped;
- `write_if_diff` writing only missing files (this breaks the header and the
  refinement);
- every header dumped from the first architecture's preload;
- `error()` not halting;
- the ramdisk backup refreshed on every run;
- the release flag reset after `build_all` instead of before it;
- empty values kept by `parse_props`;
- `rm_rf(ndk_path)` dropped from `setup_ndk`, so the move nests the new NDK
  inside the old one;
- the `unlink` of the rustup symlink dropped, so `cp` writes through it.

### Why these bounds are enough
- Two architectures are enough for one to be handled before another fails.
  This covers cargo, the header loop and a partial ndk-build install, and an
  interrupt between two header writes.
- Three invocations let a failed run leave files, a second run of the other
  profile change `flags.h`, and a third run consume the result. Each
  counterexample needs at most two.
- The requests cover every step: both passes, the header dump, the ELF
  cleaner, the busybox pass, the early return and the resetprop dependency.
  The default request builds the union of these paths. With it the run does
  not finish within 10 minutes, so it is left out (see the plan). `MCBuildTargets` checks the
  selection for every request, the default one included.
- AppDeploy with `MaxInv = 3` runs avd_patch three times, so a stale backup
  or ini from a failed run is used twice. Every subcommand runs with both
  build types and with and without `-s`.
- Toolchain: two ONDK versions and two wrapper revisions let a checkout
  change what is configured. Four invocations allow an interrupted `ndk` or
  `rustup`, a repair run, and a `binary` check after them.
- ConfigProps: lines of 3 characters can hold `k=1`, `mk=`, a comment, a
  blank line, two `=`, and surrounding blanks. Two lines allow last-wins in a
  file and an override across files. Values of three sign, underscore or
  digit characters reach every state of the `int()` automaton and every
  way out of it.

## 4. Findings
See "findings" in `PROJECT.json`. In short:
1. **relocation:** `binary busybox` on a fresh or cleaned tree never
   relocates busybox, yet exits 0. `native/out/<arch>` is only created by the
   cargo step, and `mv` swallows every error.
2. **sweep:** the broad relocation sweep can promote binaries from a failed
   earlier run (spec §9's open question, made concrete).
3. **exit_status:** the code ignores the exit status of gradle clean, of the
   gcc build of the elf-cleaner, and of the cleaner itself. Spec §6 says any
   non-zero status aborts.
4. **elf_retry:** `clean_elf` builds the cleaner only when the file does not
   exist. A cleaner truncated by a killed gcc stays, and every later pass
   that needs it fails until someone runs `clean`.
5. **cp_copies:** `cp`'s bare `except` swallows `KeyboardInterrupt`. A Ctrl-C
   during the ramdisk backup leaves a truncated `.bak` and the patch carries
   on. The backup is never refreshed, so every later avd_patch pushes the
   truncated image and fails until the `.bak` is deleted by hand;
   `ramdisk.img` itself stays stock. During the backup of
   `advancedFeatures.ini` (the shortest trace TLC reports) it is worse: lines
   606-607 rewrite the ini anyway and its original is lost. The same applies
   to the stub APK that `build_app` copies into the outdir (line 490): `app` exits 0
   with a truncated `stub-<type>.apk`. `CopiesIntact` states all three.
6. **ndk_check:** `build_binary` checks the NDK only by its `ONDK_VERSION`
   file. An interrupted or failed `rm_rf(ndk/magisk)` (line 541) can leave
   that file behind with toolchain files gone. When the configured version is
   unchanged, the next `binary` passes the check and fails later inside the
   toolchain.
7. **rustup_wrapper:** `setup_rustup` ignores the wrapper's cargo build
   status and copies it with `cp`, which swallows a missing source and
   Ctrl-C. `rustup` can then exit 0 with a stale or truncated wrapper, against
   spec §6.

## 5. Plan
Done:
1. `BuildTargets` and `BuildBinary`: the core pipeline over repeated
   invocations.
2. The interrupt fault model, `BuildSpec` with the refinement, fairness with
   `InvocationEnds`, `AppDeploy`, and `ConfigProps`.
3. `Toolchain`: `setup_ndk`, `setup_rustup`, `rm_rf`/`rm_on_error` and the
   NDK check. The liveness run was merged into the pipeline run. A
   `clean cpp` that stops part way (`CleanupStops`), with `BuildSpec`
   widened to match; every pipeline property still holds.

4. `cp_copies` states every copy `build.py` makes with `cp` (the stub APK
   of line 490 and the two backups); `ConfigProps` follows `int()`'s literal
   grammar; the rust scope of `clean` may raise.

Next, each out of reach today:
- Compose `AppDeploy` with `BuildBinary`, so that `build_all`'s binary step
  uses the detailed model. The product of the two state spaces (≈150k and
  ≈408k) is far beyond a 5-minute run; `AppDeploy` keeps the binary step as
  one step that succeeds or exits.
- The default request in the pipeline run. Alone at `MaxInv = 3` it passes
  850k states without finishing in 10 minutes; with every request at
  `MaxInv = 2` it takes about 60k states and 20 s, but only two invocations
  lose the failed-run / other-profile / consumer sequence the current bound
  is chosen for.

## 6. Not modelled
- **Left out entirely:**
  - `cargo` pass-through (`run_cargo_cmd`) and `run_cargo`'s environment:
    they change only the working directory and the environment of a child;
  - the environment checks and tool discovery at import time (lines 54-69);
  - logging and colour output;
  - the Windows branches: the prebuilt elf-cleaner and the read-only retry in
    `rm_on_error`;
  - the `config.prop` defaults other than `versionCode`, and the outdir
    creation.
- **Abstracted:**
  - file contents, compression and the header text;
  - cargo's own incremental build: a crate archive is identified by its
    architecture and profile, and cargo's staging dir is not kept;
  - make's decision is reduced to `flags.h`, the payload header and the Rust
    archive;
  - APKs and ramdisk images are reduced to what built them;
  - in `ConfigProps`, blank space is one character and the digits are
    one character: `int()`'s acceptance of other Unicode digits and
    whitespace is not modelled;
  - the rust scope of `clean` removes only files the model does not keep,
    so only its error exit is modelled;
  - a removal that stops part way removes whole children of the tree it was
    in: an architecture's directory, `generated/`, or `elf-cleaner`. A
    half-emptied architecture directory is not modelled.
