----------------------------- MODULE AppDeploy -----------------------------
(***************************************************************************)
(* The app side of build.py over a sequence of invocations: "app", "stub", *)
(* "all", "emulator", "avd_patch" and "clean java", with the emulator's   *)
(* ramdisk.img and advancedFeatures.ini on the host and the files pushed  *)
(* to /data/local/tmp on the device.                                       *)
(*                                                                         *)
(* build_binary is one step that succeeds or exits (BuildBinary models    *)
(* it); gradle, adb and the device scripts are external processes that    *)
(* may fail.  An APK is abstracted to the module and build type it is and *)
(* the invocation that built it; a ramdisk image to how many times it was *)
(* patched and the APK patched into it.  cp's bare "except: pass" also    *)
(* swallows a KeyboardInterrupt, so an interrupted copy leaves a          *)
(* truncated target and the invocation carries on.                        *)
(***************************************************************************)
EXTENDS Naturals, Sequences

CONSTANTS
    MaxInv,     \* number of invocations explored
    NONE,       \* an absent file
    Partial     \* a truncated file

Types    == {"debug", "release"}       \* args.release
\* The parser's subcommands (lines 654-714) this module runs; "clean java" is
\* CleanJava, the others are BuildBinary's and Toolchain's.
Commands == {"app", "stub", "all", "emulator", "avd_patch"}

VARIABLES
    busy,       \* an invocation is running
    cmd,        \* the subcommand of the running invocation
    plan,       \* the steps it still has to take, in order
    typ,        \* args.release as a build type
    skip,       \* args.skip of "emulator" and "avd_patch"
    inv,        \* invocations started so far
    exitCode,   \* exit status of the last finished invocation
    outApk,     \* outApk[f][t]: <outdir>/<f>-<t>.apk, f \in {"app", "stub"}
    stubAsset,  \* app/src/<t>/assets/stub.apk: the invocation that generated it
    ramdisk,    \* the emulator's ramdisk.img
    backup,     \* ramdisk.img.bak
    ini,        \* SystemAsRoot in advancedFeatures.ini: "on", "off" or Partial
    iniBak,     \* advancedFeatures.ini.bak
    devApk,     \* /data/local/tmp/magisk.apk
    devCpio,    \* /data/local/tmp/ramdisk.cpio.tmp
    devOut      \* /data/local/tmp/ramdisk.cpio.gz

vars == <<busy, cmd, plan, typ, skip, inv, exitCode, outApk, stubAsset,
          ramdisk, backup, ini, iniBak, devApk, devCpio, devOut>>

Apk   == [mod : {"app", "stub"}, type : Types, built : 1..MaxInv]
Stock == [depth |-> 0, apk |-> NONE]
Image == [depth : 0..MaxInv, apk : Apk \cup {NONE}]

\* avd_patch.sh on the device: magisk from the pushed APK patched into the image.
Patched(img) == [depth |-> img.depth + 1, apk |-> devApk]

\* An emulator with its stock ramdisk and nothing built yet.
Init ==
    /\ busy = FALSE /\ cmd = NONE /\ plan = <<>> /\ typ = "debug"
    /\ skip = FALSE /\ inv = 0 /\ exitCode = "none"
    /\ outApk = [f \in {"app", "stub"} |-> [t \in Types |-> NONE]]
    /\ stubAsset = [t \in Types |-> NONE]
    /\ ramdisk = Stock /\ backup = NONE
    /\ ini \in {"on", "off"} /\ iniBak = NONE
    /\ devApk = NONE /\ devCpio = NONE /\ devOut = NONE

(***************************************************************************)
(* The dispatch of main (lines 716-724) to the subcommand, as the steps it *)
(* takes: build_all (lines 624-626) is build_binary then build_app;       *)
(* setup_avd (570-580) and patch_avd_ramdisk (583-621) run build_all      *)
(* first unless -s is given, and patch_avd_ramdisk first forces a debug   *)
(* build (line 585).                                                       *)
(***************************************************************************)
BuildAll == <<"binary", "apk_app", "stub_cp">>

\* Mutation: args.release is reset only after build_all has run.
StepsResetLate(c, s) ==
    CASE c = "app"       -> <<"apk_app", "stub_cp">>
      [] c = "stub"      -> <<"apk_stub">>
      [] c = "all"       -> BuildAll
      [] c = "emulator"  -> (IF s THEN <<>> ELSE BuildAll) \o <<"push", "avd_sh">>
      [] c = "avd_patch" -> (IF s THEN <<>> ELSE BuildAll \o <<"reset">>)
                            \o <<"backup", "ini", "push", "push_bak", "patch_sh", "pull">>

Steps(c, s) ==
    CASE c = "app"       -> <<"apk_app", "stub_cp">>
      [] c = "stub"      -> <<"apk_stub">>
      [] c = "all"       -> BuildAll
      [] c = "emulator"  -> (IF s THEN <<>> ELSE BuildAll) \o <<"push", "avd_sh">>
      [] c = "avd_patch" -> (IF s THEN <<>> ELSE <<"reset">> \o BuildAll)
                            \o <<"backup", "ini", "push", "push_bak", "patch_sh", "pull">>

ctl    == <<busy, cmd, typ, skip, inv, exitCode>>
build  == <<outApk, stubAsset>>
emu    == <<ramdisk, backup, ini, iniBak>>
device == <<devApk, devCpio, devOut>>
files  == <<build, emu, device>>

Start(c, t, s) ==
    /\ ~busy /\ inv < MaxInv
    /\ busy' = TRUE /\ cmd' = c /\ typ' = t /\ skip' = s
    /\ plan' = Steps(c, s)
    /\ inv' = inv + 1
    /\ exitCode' = "none"
    /\ UNCHANGED files

At(step) == busy /\ plan # <<>> /\ Head(plan) = step

\* The step completes and the invocation goes on with the next one.
Done == plan' = Tail(plan) /\ UNCHANGED ctl

\* error() or an uncaught exception: exit status 1, files as they are.
Fail == busy' = FALSE /\ exitCode' = "fail" /\ UNCHANGED <<cmd, plan, typ, skip, inv>>

StepOk(step)    == At(step) /\ Done /\ UNCHANGED files
StepFails(step) == At(step) /\ Fail /\ UNCHANGED files

ResetRelease ==
    /\ At("reset") /\ typ' = "debug"
    /\ plan' = Tail(plan) /\ UNCHANGED <<busy, cmd, skip, inv, exitCode, files>>

(***************************************************************************)
(* build_apk (lines 456-477): find_jdk (424-453) and gradle may exit       *)
(* (StepFails); otherwise <module>-<type>.apk is moved into the outdir.   *)
(* The app's gradle build also generates app/src/<type>/assets/stub.apk.  *)
(***************************************************************************)
BuildApk(m) ==
    /\ At("apk_" \o m) /\ Done
    /\ outApk' = [outApk EXCEPT ![m][typ] = [mod |-> m, type |-> typ, built |-> inv]]
    /\ stubAsset' = IF m = "app" THEN [stubAsset EXCEPT ![typ] = inv] ELSE stubAsset
    /\ UNCHANGED <<emu, device>>

\* build_app, lines 480-490, after its build_apk step: cp of the stub asset, failures swallowed; an
\* interrupted copy leaves the target truncated.
CopyStub ==
    /\ At("stub_cp") /\ Done
    /\ IF stubAsset[typ] = NONE THEN UNCHANGED outApk
       ELSE \E f \in {[mod |-> "app", type |-> typ, built |-> stubAsset[typ]], Partial} :
               outApk' = [outApk EXCEPT !["stub"][typ] = f]
    /\ UNCHANGED <<stubAsset, emu, device>>

(***************************************************************************)
(* push_files (lines 545-567): busybox is extracted from the outdir's app  *)
(* APK of the build type (a missing APK raises), pushed with the script,  *)
(* and the APK pushed as magisk.apk; either adb push may fail.  The       *)
(* extracted busybox is removed in a finally block and is not kept here.  *)
(***************************************************************************)
PushFiles ==
    /\ At("push") /\ Done
    /\ outApk["app"][typ] \in Apk
    /\ devApk' = outApk["app"][typ]
    /\ UNCHANGED <<build, emu, devCpio, devOut>>

(***************************************************************************)
(* patch_avd_ramdisk, lines 592-595: the backup is made only if none       *)
(* exists, by cp (failures and interrupts swallowed).                     *)
(***************************************************************************)
\* Mutation: the backup is refreshed on every run.
BackupAlways(img) == {img, Partial}

BackupOf(img) == IF backup = NONE THEN {img, Partial} ELSE {backup}

MakeBackup ==
    /\ At("backup") /\ Done
    /\ backup' \in BackupOf(ramdisk)
    /\ UNCHANGED <<build, ramdisk, ini, iniBak, device>>

(***************************************************************************)
(* Lines 597-607: if SystemAsRoot is on, advancedFeatures.ini is copied to *)
(* .bak (cp, as above) and rewritten with it off; an interrupt of that    *)
(* write leaves the file truncated and ends the invocation.               *)
(***************************************************************************)
PatchIni ==
    /\ At("ini")
    /\ IF ini = "on"
       THEN /\ iniBak' \in {ini, Partial}
            /\ \/ ini' = "off" /\ Done
               \/ ini' = Partial /\ Fail
       ELSE Done /\ UNCHANGED <<ini, iniBak>>
    /\ UNCHANGED <<build, ramdisk, backup, device>>

\* Line 611: adb push of the backup; a missing backup makes it fail.
PushBackup ==
    /\ At("push_bak") /\ Done
    /\ backup # NONE
    /\ devCpio' = backup
    /\ UNCHANGED <<build, emu, devApk, devOut>>

\* Line 615: avd_patch.sh patches the pushed image; a truncated cpio fails.
PatchScript ==
    /\ At("patch_sh") /\ Done
    /\ devCpio \in Image
    /\ devOut' = Patched(devCpio)
    /\ UNCHANGED <<build, emu, devApk, devCpio>>

\* Line 619: adb pull writes ramdisk.img in place; a failed pull may leave it
\* truncated.
PullRamdisk ==
    /\ At("pull") /\ Done
    /\ ramdisk' = devOut
    /\ UNCHANGED <<build, backup, ini, iniBak, device>>

PullFails ==
    /\ At("pull") /\ Fail
    /\ ramdisk' \in {ramdisk, Partial}
    /\ UNCHANGED <<build, backup, ini, iniBak, device>>

\* The subcommand returns: exit status 0.
Finish ==
    /\ busy /\ plan = <<>>
    /\ busy' = FALSE /\ exitCode' = "ok"
    /\ UNCHANGED <<cmd, plan, typ, skip, inv, files>>

(***************************************************************************)
(* cleanup, java scope (lines 522-526): find_jdk may exit; gradle clean is *)
(* unchecked; rm_rf removes app/src/debug, then app/src/release, with     *)
(* their stub assets, and an error it re-raises (lines 123-135) ends the  *)
(* invocation after the trees removed so far.  The outdir is left alone.  *)
(***************************************************************************)
CleanJava ==
    /\ ~busy /\ inv < MaxInv
    /\ inv' = inv + 1
    /\ cmd' = "clean"
    /\ \/ exitCode' = "ok" /\ stubAsset' = [t \in Types |-> NONE]
       \/ exitCode' = "fail"
          /\ \E gone \in {{}, {"debug"}, Types} :
                stubAsset' = [t \in Types |-> IF t \in gone THEN NONE ELSE stubAsset[t]]
    /\ UNCHANGED <<busy, plan, typ, skip, outApk, emu, device>>

Terminated == ~busy /\ inv = MaxInv /\ UNCHANGED vars

Next ==
    \/ \E c \in Commands, t \in Types, s \in BOOLEAN : Start(c, t, s)
    \/ CleanJava
    \/ ResetRelease
    \/ \E step \in {"binary", "avd_sh"} : StepOk(step)
    \/ \E step \in {"binary", "apk_app", "apk_stub", "push", "avd_sh",
                    "push_bak", "patch_sh"} : StepFails(step)
    \/ \E m \in {"app", "stub"} : BuildApk(m)
    \/ CopyStub
    \/ PushFiles
    \/ MakeBackup
    \/ PatchIni
    \/ PushBackup
    \/ PatchScript
    \/ PullRamdisk \/ PullFails
    \/ Finish
    \/ Terminated

Spec == Init /\ [][Next]_vars

(***************************************************************************)
(* Properties                                                              *)
(***************************************************************************)

(***************************************************************************)
(* patch_avd_ramdisk patches the stock image every time, never its own     *)
(* output: ramdisk.img is the stock image, one patch of it, or what a     *)
(* failed pull left, however many times avd_patch runs and fails.  This   *)
(* is what the once-only backup of lines 592-595 is for.                  *)
(***************************************************************************)
RamdiskPatchedOnce == ramdisk = Partial \/ ramdisk.depth =< 1

(***************************************************************************)
(* A successful "avd_patch" without -s leaves ramdisk.img carrying the     *)
(* debug app APK this very invocation built, not an older one from the    *)
(* outdir: args.release is forced off before build_all and push_files     *)
(* reads the APK of that same build type.                                 *)
(***************************************************************************)
PatchedWithThisBuild ==
    (~busy /\ exitCode = "ok" /\ cmd = "avd_patch" /\ ~skip) =>
        ramdisk.apk = [mod |-> "app", type |-> "debug", built |-> inv]

(***************************************************************************)
(* What build.py relies on cp (lines 107-112) for: after "app" exits 0,   *)
(* stub-<type>.apk in the outdir is a whole copy of the stub asset (line  *)
(* 490); and, as the comment at line 592 says ("Create a backup to        *)
(* prevent accidental overwrites"), ramdisk.img.bak, once made, is the    *)
(* stock image, and advancedFeatures.ini, once changed, has a backup of   *)
(* its original.                                                          *)
(***************************************************************************)
CopiesIntact ==
    /\ (~busy /\ exitCode = "ok") => \A t \in Types : outApk["stub"][t] # Partial
    /\ backup \in {NONE, Stock}
    /\ (ini = Partial \/ iniBak # NONE) => iniBak = "on"

====
