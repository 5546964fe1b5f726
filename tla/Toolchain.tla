----------------------------- MODULE Toolchain -----------------------------
(***************************************************************************)
(* The toolchain trees build.py installs and checks, over a sequence of    *)
(* invocations of "ndk", "rustup" and "binary" on one machine:             *)
(*   - setup_ndk (lines 529-542): rm -rf ndk/ondk-<v>, download and        *)
(*     extract the archive into ndk/, rm -rf ndk/magisk, mv ondk-<v> to    *)
(*     ndk/magisk;                                                         *)
(*   - the ONDK_VERSION check that build_binary starts with (356-361);     *)
(*   - setup_rustup (629-651): a fresh wrapper dir of symlinks to          *)
(*     ~/.cargo/bin, the wrapper built with cargo, rustup replaced by it.  *)
(* rm_rf (133-135) is shutil.rmtree with rm_on_error (123-130) as the     *)
(* error handler: a missing path is tolerated, anything else (an          *)
(* interrupt, a directory or a permission error the retry cannot fix)     *)
(* escapes and ends the invocation with part of the tree removed.         *)
(* A tree is abstracted to its version and which of its parts exist: the  *)
(* ONDK_VERSION file and the tools.                                       *)
(***************************************************************************)
EXTENDS Naturals

CONSTANTS
    Versions,   \* ONDK versions config.prop may name
    Revs,       \* revisions of tools/rustup_wrapper
    Tools,      \* the entries of ~/.cargo/bin, "rustup" among them
    MaxInv,     \* number of invocations explored
    NONE,       \* an absent file or directory
    Partial     \* a truncated file

VARIABLES
    pc,         \* the step the running invocation is at, "idle" between them
    cmd,        \* the subcommand of the last invocation
    inv,        \* invocations started so far
    exitCode,   \* exit status of the last finished invocation
    faulted,    \* the running invocation met an interrupt or an I/O error
    ondkVer,    \* config["ondkVersion"] of the checkout
    src,        \* the checked-out revision of tools/rustup_wrapper
    ondk,       \* ondk[v]: the directory ndk/ondk-<v>
    ndk,        \* ndk/magisk
    accepted,   \* the ndk/magisk the last binary invocation went on with
    wrapperDir, \* args.wrapper_dir: NONE or a function of Tools
    target,     \* tools/rustup_wrapper/target/release/rustup_wrapper
    cargoBin    \* ~/.cargo/bin/rustup

vars == <<pc, cmd, inv, exitCode, faulted, ondkVer, src, ondk, ndk,
          accepted, wrapperDir, target, cargoBin>>
run  == <<cmd, inv, ondkVer, src>>

Parts == {"ONDK_VERSION", "toolchains"}

\* The complete tree of version v, and what is left of it part way.
Tree(v)     == [ver |-> v, parts |-> Parts]
PartTrees(v) == {[ver |-> v, parts |-> S] : S \in SUBSET Parts \ {Parts}}

\* What rmtree leaves when rm_on_error re-raises part way: any subset of the
\* tree.  A missing path never raises: FileNotFoundError is caught (line 129).
RmRfLeft(t) == IF t = NONE THEN {} ELSE {[t EXCEPT !.parts = S] : S \in SUBSET t.parts}

\* The rustup rustup-init installed in ~/.cargo/bin.
RealRustup == [tool |-> "rustup"]

\* A symlink to ~/.cargo/bin/<t>.
LinkTo(t) == [link |-> t]

Init ==
    /\ pc = "idle" /\ cmd = NONE /\ inv = 0 /\ exitCode = "none"
    /\ faulted = FALSE
    /\ ondkVer \in Versions /\ src \in Revs
    /\ ondk = [v \in Versions |-> NONE]
    /\ ndk \in {NONE} \cup {Tree(v) : v \in Versions}
    /\ accepted = NONE
    /\ wrapperDir = NONE /\ target = NONE /\ cargoBin = RealRustup

\* A git checkout between invocations may bump ONDK or the wrapper source.
Checkout ==
    /\ pc = "idle"
    /\ cmd' = "checkout" /\ ondkVer' \in Versions /\ src' \in Revs
    /\ UNCHANGED <<pc, inv, exitCode, faulted, ondk, ndk, accepted,
                   wrapperDir, target, cargoBin>>

Start(c, first) ==
    /\ pc = "idle" /\ inv < MaxInv
    /\ pc' = first /\ cmd' = c /\ inv' = inv + 1
    /\ exitCode' = "none" /\ faulted' = FALSE
    /\ UNCHANGED <<ondkVer, src, ondk, ndk, accepted, wrapperDir, target, cargoBin>>

\* An exception escapes: traceback, exit status 1, the trees as they are.
Crash == pc' = "idle" /\ exitCode' = "fail" /\ faulted' = TRUE /\ UNCHANGED run

Return == pc' = "idle" /\ exitCode' = "ok" /\ UNCHANGED <<faulted, run>>

Goto(p) == pc' = p /\ UNCHANGED <<exitCode, faulted, run>>

(***************************************************************************)
(* setup_ndk                                                               *)
(***************************************************************************)

\* Line 536: rm_rf(ondk_path) clears what an interrupted run extracted.
NdkClear ==
    /\ pc = "ondk_rm" /\ Goto("fetch")
    /\ ondk' = [ondk EXCEPT ![ondkVer] = NONE]
    /\ UNCHANGED <<ndk, accepted, wrapperDir, target, cargoBin>>

NdkClearFails ==
    /\ pc = "ondk_rm" /\ Crash
    /\ ondk' \in {[ondk EXCEPT ![ondkVer] = t] : t \in RmRfLeft(ondk[ondkVer])}
    /\ UNCHANGED <<ndk, accepted, wrapperDir, target, cargoBin>>

\* Lines 537-539: urlopen and a streamed tar extraction into ndk/.
Fetch ==
    /\ pc = "fetch" /\ Goto("ndk_rm")
    /\ ondk' = [ondk EXCEPT ![ondkVer] = Tree(ondkVer)]
    /\ UNCHANGED <<ndk, accepted, wrapperDir, target, cargoBin>>

FetchFails ==
    /\ pc = "fetch" /\ Crash
    /\ ondk' \in {[ondk EXCEPT ![ondkVer] = t] : t \in {NONE} \cup PartTrees(ondkVer)}
    /\ UNCHANGED <<ndk, accepted, wrapperDir, target, cargoBin>>

\* Mutation: rm_rf(ndk_path) dropped.
NdkReplaceSkipped ==
    /\ pc = "ndk_rm" /\ Goto("mv")
    /\ UNCHANGED <<ondk, ndk, accepted, wrapperDir, target, cargoBin>>

\* Line 541: rm_rf(ndk_path).
NdkReplace ==
    /\ pc = "ndk_rm" /\ Goto("mv")
    /\ ndk' = NONE
    /\ UNCHANGED <<ondk, accepted, wrapperDir, target, cargoBin>>

NdkReplaceFails ==
    /\ pc = "ndk_rm" /\ Crash
    /\ ndk' \in RmRfLeft(ndk)
    /\ UNCHANGED <<ondk, accepted, wrapperDir, target, cargoBin>>

(***************************************************************************)
(* Line 542: mv (lines 99-104) is shutil.move, a rename within ndk/.  Onto *)
(* an existing directory it moves the source inside it, leaving ndk/magisk *)
(* itself as it was; its errors are swallowed.  setup_ndk then returns.   *)
(***************************************************************************)
NdkMove ==
    /\ pc = "mv" /\ Return
    /\ ndk' = IF ndk = NONE THEN ondk[ondkVer] ELSE ndk
    /\ ondk' = [ondk EXCEPT ![ondkVer] = NONE]
    /\ UNCHANGED <<accepted, wrapperDir, target, cargoBin>>

(***************************************************************************)
(* build_binary, lines 356-361: ndk/magisk/ONDK_VERSION must exist and     *)
(* hold config["ondkVersion"], or error() exits.  Only the check is       *)
(* modelled here; BuildBinary models what follows it.                     *)
(***************************************************************************)
NdkCheck ==
    /\ pc = "idle" /\ inv < MaxInv
    /\ cmd' = "binary" /\ inv' = inv + 1 /\ faulted' = FALSE
    /\ IF ndk # NONE /\ "ONDK_VERSION" \in ndk.parts /\ ndk.ver = ondkVer
       THEN exitCode' = "ok" /\ accepted' = ndk
       ELSE exitCode' = "fail" /\ accepted' = NONE
    /\ UNCHANGED <<pc, ondkVer, src, ondk, ndk, wrapperDir, target, cargoBin>>

(***************************************************************************)
(* setup_rustup                                                            *)
(***************************************************************************)

\* Lines 631-632: rm_rf(wrapper_dir), then mkdir.
WrapperClear ==
    /\ pc = "wrap_rm" /\ Goto("link")
    /\ wrapperDir' = [t \in Tools |-> NONE]
    /\ UNCHANGED <<ondk, ndk, accepted, target, cargoBin>>

WrapperClearFails ==
    /\ pc = "wrap_rm" /\ wrapperDir # NONE /\ Crash
    /\ wrapperDir' \in {[t \in Tools |-> IF t \in S THEN wrapperDir[t] ELSE NONE] :
                            S \in SUBSET Tools}
    /\ UNCHANGED <<ondk, ndk, accepted, target, cargoBin>>

\* Lines 637-640: a symlink per entry of ~/.cargo/bin; an interrupt stops
\* the loop after some of them.
Link ==
    /\ pc = "link" /\ Goto("cargo")
    /\ wrapperDir' = [t \in Tools |-> LinkTo(t)]
    /\ UNCHANGED <<ondk, ndk, accepted, target, cargoBin>>

LinkInterrupted ==
    /\ pc = "link" /\ Crash
    /\ wrapperDir' \in {[t \in Tools |-> IF t \in S THEN LinkTo(t) ELSE NONE] :
                            S \in SUBSET Tools}
    /\ UNCHANGED <<ondk, ndk, accepted, target, cargoBin>>

\* Lines 643-645: cargo builds the wrapper; its exit status is not read, so
\* a failed build leaves the binary of an earlier build, if any.
CargoBuild ==
    /\ pc = "cargo" /\ Goto("unlink")
    /\ target' = [rev |-> src]
    /\ UNCHANGED <<ondk, ndk, accepted, wrapperDir, cargoBin>>

CargoBuildFails ==
    /\ pc = "cargo" /\ pc' = "unlink" /\ faulted' = TRUE
    /\ UNCHANGED <<exitCode, run, ondk, ndk, accepted, wrapperDir, target, cargoBin>>

\* Mutation: the symlink is left in place.
UnlinkSkipped ==
    /\ pc = "unlink" /\ Goto("cp")
    /\ UNCHANGED <<ondk, ndk, accepted, wrapperDir, target, cargoBin>>

\* Line 649: wrapper.unlink(missing_ok=True) removes the rustup symlink.
Unlink ==
    /\ pc = "unlink" /\ Goto("cp")
    /\ wrapperDir' = [wrapperDir EXCEPT !["rustup"] = NONE]
    /\ UNCHANGED <<ondk, ndk, accepted, target, cargoBin>>

(***************************************************************************)
(* Line 650: cp (107-112) is shutil.copyfile, which opens the destination  *)
(* for writing and so writes through a symlink; a missing source raises   *)
(* and an interrupt truncates the copy, and the bare except swallows both.*)
(***************************************************************************)
CopyTo(val) ==
    IF wrapperDir["rustup"] = LinkTo("rustup")
    THEN cargoBin' = val /\ UNCHANGED wrapperDir
    ELSE wrapperDir' = [wrapperDir EXCEPT !["rustup"] = val] /\ UNCHANGED cargoBin

Copy ==
    /\ pc = "cp" /\ Goto("chmod")
    /\ IF target = NONE THEN UNCHANGED <<wrapperDir, cargoBin>> ELSE CopyTo(target)
    /\ UNCHANGED <<ondk, ndk, accepted, target>>

CopyInterrupted ==
    /\ pc = "cp" /\ target # NONE
    /\ pc' = "chmod" /\ faulted' = TRUE /\ UNCHANGED <<exitCode, run>>
    /\ CopyTo(Partial)
    /\ UNCHANGED <<ondk, ndk, accepted, target>>

\* Line 651: chmod of a wrapper cp never created raises FileNotFoundError.
Chmod ==
    /\ pc = "chmod"
    /\ IF wrapperDir["rustup"] = NONE THEN Crash ELSE Return
    /\ UNCHANGED <<ondk, ndk, accepted, wrapperDir, target, cargoBin>>

Terminated == pc = "idle" /\ inv = MaxInv /\ UNCHANGED vars

Next ==
    \/ Checkout
    \/ Start("ndk", "ondk_rm") \/ Start("rustup", "wrap_rm") \/ NdkCheck
    \/ NdkClear \/ NdkClearFails \/ Fetch \/ FetchFails
    \/ NdkReplace \/ NdkReplaceFails \/ NdkMove
    \/ WrapperClear \/ WrapperClearFails \/ Link \/ LinkInterrupted
    \/ CargoBuild \/ CargoBuildFails \/ Unlink \/ Copy \/ CopyInterrupted
    \/ Chmod
    \/ Terminated

Spec == Init /\ [][Next]_vars

(***************************************************************************)
(* Properties                                                              *)
(***************************************************************************)

(***************************************************************************)
(* setup_ndk repairs whatever an earlier interrupted run left: an "ndk"   *)
(* invocation that meets no fault itself exits 0 with ndk/magisk the      *)
(* complete tree of the configured version, even after partial            *)
(* extractions and half-removed trees.  This rests on both rm_rf calls    *)
(* and on rm_on_error tolerating a missing path.                          *)
(***************************************************************************)
SetupNdkInstallsConfigured ==
    (pc = "idle" /\ cmd = "ndk" /\ ~faulted) =>
        exitCode = "ok" /\ ndk = Tree(ondkVer)

(***************************************************************************)
(* setup_rustup never touches ~/.cargo/bin: the copy of the wrapper onto  *)
(* the rustup entry of the wrapper dir must not write through the symlink *)
(* to the real rustup, whatever invocations were interrupted before.      *)
(***************************************************************************)
CargoHomeIntact == cargoBin = RealRustup

(***************************************************************************)
(* The check of lines 356-361 is what build_binary relies on for a usable *)
(* NDK: whenever it lets a build go on, ndk/magisk is complete.           *)
(***************************************************************************)
NdkCheckSound == accepted # NONE => accepted.parts = Parts

(***************************************************************************)
(* Spec 6, a failing process aborts the invocation: "rustup" exits 0 only *)
(* with the wrapper of the checked-out source installed, complete.        *)
(***************************************************************************)
RustupWrapperCurrent ==
    (pc = "idle" /\ cmd = "rustup" /\ exitCode = "ok") =>
        wrapperDir["rustup"] = [rev |-> src]

====
