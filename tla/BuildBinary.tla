---------------------------- MODULE BuildBinary ----------------------------
(***************************************************************************)
(* The "binary" and "clean" commands of build.py as a sequence of          *)
(* invocations over one persistent source tree.  One invocation of        *)
(* build_binary runs its steps strictly in order (NDK check, cargo per     *)
(* architecture, flags.h, ndk-build pass 1, payload headers, pass 2, ELF   *)
(* cleaner, busybox pass); every external process may fail, which ends     *)
(* the invocation with exit code 1 and leaves the files as they are.       *)
(*                                                                         *)
(* Files are abstracted to what they were built from: an artifact records *)
(* its architecture, the profile flags.h held when it was compiled, the    *)
(* invocation that compiled it, the Rust library it links and the payload *)
(* it embeds.  ndk-build is modelled as make: a module is recompiled when  *)
(* a header it includes is newer than its object, or its Rust library      *)
(* changed, and installed into native/libs/<arch> either way.              *)
(***************************************************************************)
EXTENDS BuildTargets, Naturals, Sequences

CONSTANTS
    ArchSeq,        \* archs (line 71), in build order
    Requests,       \* target lists given to "binary"
    CleanRequests,  \* target lists given to "clean"
    MaxInv,         \* number of invocations of build.py explored
    NONE,           \* an absent file
    Partial         \* a file an interrupted write or link left truncated

Archs == {ArchSeq[i] : i \in 1..Len(ArchSeq)}
ArchIndex(a) == CHOOSE i \in 1..Len(ArchSeq) : ArchSeq[i] = a
Profiles == {"debug", "release"}     \* args.release

ASSUME MaxInv \in Nat \ {0}

VARIABLES
    (* the invocation in progress *)
    pc,          \* the step build_binary is at, "idle" between invocations
    inv,         \* number of invocations started so far
    req,         \* args.target as given
    tgts,        \* args.target after resolution (line 366-371)
    prof,        \* args.release as a profile
    ai,          \* index into ArchSeq of the cargo loop (line 277)
    procFailed,  \* an external process of this invocation returned non-zero
    exitCode,    \* exit status of the last finished invocation
    hist,        \* history: the profile of each invocation, or the kind of clean
    (* the file system *)
    rustOut,     \* native/out/<arch>/lib<crate>-rs.a
    libs,        \* native/libs/<arch>/<name>  (ndk-build install dir)
    obj,         \* native/obj: what make last compiled per module
    out,         \* native/out/<arch>/<name>   (canonical tree)
    outDirs,     \* the directories native/out/<arch> that exist
    flagsH,      \* native/out/generated/flags.h
    binH,        \* native/out/generated/<arch>_binaries.h
    elfCleaner   \* native/out/elf-cleaner: "absent", "built" or a Partial file

runVars == <<pc, inv, req, tgts, prof, ai, procFailed, exitCode, hist>>
fsVars  == <<rustOut, libs, obj, out, outDirs, flagsH, binH, elfCleaner>>
vars    == <<runVars, fsVars>>
\* What stays fixed while an invocation runs, once its targets are resolved.
fixed   == <<inv, req, tgts, prof, hist>>

RustLib  == [arch : Archs, prof : Profiles]        \* a built crate archive
Payload  == [arch : Archs, prof : Profiles]        \* xz bytes of a preload
Artifact == [arch : Archs, prof : Profiles \cup {Partial}, built : 1..MaxInv,
             rust : RustLib \cup {NONE}, payload : Payload \cup {NONE, Partial}]
Header(C) == [content : C \cup {NONE, Partial}, mtime : 0..MaxInv]
PcValues == {"idle", "check", "cargo", "flags", "ndk1", "binhdr", "ndk2", "elf", "bb", "done"}

NoArchFile == [n \in NdkOutputs |-> NONE]
NoFile     == [a \in Archs |-> NoArchFile]
Absent == [content |-> NONE, mtime |-> 0]

TypeOK ==
    /\ pc \in PcValues
    /\ inv \in 0..MaxInv
    /\ req \in Requests \cup CleanRequests \cup {{}}
    /\ tgts \subseteq support_targets
    /\ prof \in Profiles
    /\ ai \in 1..Len(ArchSeq)
    /\ procFailed \in BOOLEAN
    /\ exitCode \in {"none", "ok", "fail"}
    /\ hist \in [1..MaxInv -> Profiles \cup {"wipe", "keep", NONE}]
    /\ rustOut \in [Archs -> [rust_targets -> RustLib \cup {NONE}]]
    /\ libs \in [Archs -> [NdkOutputs -> Artifact \cup {NONE}]]
    /\ obj \in [Archs -> [NdkOutputs -> Artifact \cup {NONE}]]
    /\ out \in [Archs -> [NdkOutputs -> Artifact \cup {NONE}]]
    /\ outDirs \subseteq Archs
    /\ flagsH \in Header(Profiles)
    /\ binH \in [Archs -> Header(Payload)]
    /\ elfCleaner \in {"absent", "built", Partial}

\* A fresh checkout: no build output at all.
Init ==
    /\ pc = "idle" /\ inv = 0 /\ req = {} /\ tgts = {} /\ prof = "debug"
    /\ ai = 1 /\ procFailed = FALSE /\ exitCode = "none"
    /\ hist = [k \in 1..MaxInv |-> NONE]
    /\ rustOut = [a \in Archs |-> [t \in rust_targets |-> NONE]]
    /\ libs = NoFile /\ obj = NoFile /\ out = NoFile
    /\ outDirs = {}
    /\ flagsH = Absent
    /\ binH = [a \in Archs |-> Absent]
    /\ elfCleaner = "absent"

\* error(): sys.exit(1) ends the invocation; a normal return exits 0.
\* Mutation: error() reports but does not call sys.exit.
ExitNoHalt(code) == pc' = pc /\ exitCode' = code

Exit(code) == pc' = "idle" /\ exitCode' = code

(***************************************************************************)
(* write_if_diff (lines 307-315): the file is rewritten, and so gets a new *)
(* modification time, only when its content differs from the new text.   *)
(***************************************************************************)
\* Mutation: only a missing file is written (do_write = not exists()).
write_if_missing(file, text) ==
    IF file.content = NONE THEN [content |-> text, mtime |-> inv] ELSE file

write_if_diff(file, text) ==
    IF file.content = text THEN file ELSE [content |-> text, mtime |-> inv]

\* The same call interrupted (KeyboardInterrupt, kill) after open(..., "w")
\* truncated the file and before write() completed.
write_interrupted(file, text) ==
    IF file.content = text THEN file ELSE [content |-> Partial, mtime |-> inv]

(***************************************************************************)
(* The steps of one invocation after flags.h, in the order of lines        *)
(* 384-421, and whether each one runs for the resolved targets.           *)
(***************************************************************************)
Stages == <<"flags", "ndk1", "binhdr", "ndk2", "elf", "bb">>

StageRuns(s) ==
    CASE s = "ndk1"   -> Pass1Flags(tgts) # {}
      [] s = "binhdr" -> "magiskinit" \in tgts
      [] s = "ndk2"   -> Pass2Flags(tgts) # {}
      [] s = "elf"    -> CleanElf(tgts)
      [] s = "bb"     -> BusyboxFlags(tgts) # {}
      [] OTHER        -> TRUE

NextStage(s) ==
    LET i     == CHOOSE k \in 1..Len(Stages) : Stages[k] = s
        later == {k \in i + 1..Len(Stages) : StageRuns(Stages[k])}
    IN  IF later = {} THEN "done"
        ELSE Stages[CHOOSE k \in later : \A j \in later : k =< j]

(***************************************************************************)
(* main (lines 720-724) dispatching to build_binary: a new invocation with *)
(* a target list and a profile.                                           *)
(***************************************************************************)
StartBinary(r, p) ==
    /\ pc = "idle"
    /\ inv < MaxInv
    /\ inv' = inv + 1
    /\ pc' = "check"
    /\ req' = r
    /\ prof' = p
    /\ procFailed' = FALSE
    /\ exitCode' = "none"
    /\ hist' = [hist EXCEPT ![inv + 1] = p]
    /\ UNCHANGED <<tgts, ai, fsVars>>

(***************************************************************************)
(* build_binary, lines 357-377: the ONDK version check fails fatally, an   *)
(* all-unknown request returns without building, otherwise the targets     *)
(* are resolved and run_cargo_build starts (it returns at line 263 when   *)
(* no crate is needed).                                                    *)
(***************************************************************************)
NdkMismatch ==
    /\ pc = "check"
    /\ Exit("fail")
    /\ UNCHANGED <<fixed, ai, procFailed, fsVars>>

NdkVerified ==
    /\ pc = "check"
    /\ IF NothingToBuild(req)
       THEN /\ pc' = "done"
            /\ tgts' = {}
       ELSE /\ tgts' = Resolve(req)
            /\ pc' = IF CargoTargets(tgts') # {} THEN "cargo" ELSE "flags"
    /\ ai' = 1
    /\ UNCHANGED <<inv, req, prof, procFailed, exitCode, hist, fsVars>>

(***************************************************************************)
(* run_cargo_build, lines 277-294, one iteration per architecture: cargo   *)
(* builds every crate for the triple (a failure is fatal), then            *)
(* native/out/<arch> is created and each lib<crate>.a is moved there.      *)
(***************************************************************************)
CargoArch ==
    LET a == ArchSeq[ai] IN
    /\ pc = "cargo"
    /\ rustOut' = [rustOut EXCEPT ![a] =
                     [t \in rust_targets |->
                        IF t \in CargoTargets(tgts) THEN [arch |-> a, prof |-> prof]
                        ELSE @[t]]]
    /\ outDirs' = outDirs \cup {a}
    /\ IF ai = Len(ArchSeq)
       THEN pc' = "flags" /\ ai' = ai
       ELSE pc' = "cargo" /\ ai' = ai + 1
    /\ UNCHANGED <<fixed, procFailed, exitCode, libs, obj, out, flagsH, binH,
                   elfCleaner>>

CargoFails ==
    /\ pc = "cargo"
    /\ Exit("fail")
    /\ UNCHANGED <<fixed, ai, procFailed, fsVars>>

(***************************************************************************)
(* dump_flag_header (lines 337-352): flags.h carries the debug flag of the *)
(* profile and is written only if it differs.                             *)
(***************************************************************************)
DumpFlagHeader ==
    /\ pc = "flags"
    /\ flagsH' = write_if_diff(flagsH, prof)
    /\ pc' = NextStage("flags")
    /\ UNCHANGED <<fixed, ai, procFailed, exitCode, rustOut, libs, obj, out,
                   outDirs, binH, elfCleaner>>

DumpFlagHeaderInterrupted ==
    /\ pc = "flags"
    /\ flagsH.content # prof
    /\ flagsH' = write_interrupted(flagsH, prof)
    /\ Exit("fail")
    /\ UNCHANGED <<fixed, ai, procFailed, rustOut, libs, obj, out,
                   outDirs, binH, elfCleaner>>

(***************************************************************************)
(* ndk-build as make.  A module's inputs on an architecture are flags.h,   *)
(* the Rust archive it links from native/out/<arch>, and for magiskinit    *)
(* the payload header.  It is recompiled when it has no object yet, when   *)
(* flags.h or its payload header is newer than the object, or when the    *)
(* archive changed; otherwise the old object is installed again.          *)
(***************************************************************************)
RustInput(a, n) ==
    IF RustLibOf(n) = NoRust THEN NONE ELSE rustOut[a][RustLibOf(n)]

PayloadInput(a, n) == IF n = "magiskinit" THEN binH[a].content ELSE NONE

Buildable(a, n) ==
    /\ flagsH.content # NONE
    /\ RustLibOf(n) # NoRust => RustInput(a, n) # NONE
    /\ n = "magiskinit" => PayloadInput(a, n) # NONE

UpToDate(a, n) ==
    /\ obj[a][n] # NONE
    /\ obj[a][n].built >= flagsH.mtime
    /\ n = "magiskinit" => obj[a][n].built >= binH[a].mtime
    /\ obj[a][n].rust = RustInput(a, n)

Compiled(a, n) ==
    IF UpToDate(a, n) THEN obj[a][n]
    ELSE [arch |-> a, prof |-> flagsH.content, built |-> inv,
          rust |-> RustInput(a, n), payload |-> PayloadInput(a, n)]

\* native/libs and native/obj after make built the (arch, module) pairs in S.
Installed(S) == [a \in Archs |-> [n \in NdkOutputs |->
                    IF <<a, n>> \in S THEN Compiled(a, n) ELSE libs[a][n]]]
Objects(S)   == [a \in Archs |-> [n \in NdkOutputs |->
                    IF <<a, n>> \in S THEN Compiled(a, n) ELSE obj[a][n]]]

(***************************************************************************)
(* mv (lines 99-104) as run_ndk_build uses it (lines 239-243): for every   *)
(* architecture and every name of support_targets + libinit-ld.so,         *)
(* shutil.move libs -> out.  A missing source, or a missing                *)
(* native/out/<arch> directory, raises inside mv and is swallowed.        *)
(***************************************************************************)
MovedOut(inst) ==
    [a \in Archs |-> IF a \notin outDirs THEN out[a]
                     ELSE [n \in NdkOutputs |->
                             IF inst[a][n] # NONE THEN inst[a][n] ELSE out[a][n]]]

MovedLibs(inst) ==
    [a \in Archs |-> IF a \notin outDirs THEN inst[a]
                     ELSE [n \in NdkOutputs |-> NONE]]

(***************************************************************************)
(* run_ndk_build (lines 232-243): one ndk-build over all architectures.    *)
(* On success every module of the flags is installed and everything is    *)
(* relocated; on failure make has installed some of the modules it could  *)
(* build and error() exits before any relocation.                          *)
(***************************************************************************)
NdkBuildOk(s, flags) ==
    LET S == Archs \X NdkModules(flags) IN
    /\ \A p \in S : Buildable(p[1], p[2])
    /\ obj' = Objects(S)
    /\ out' = MovedOut(Installed(S))
    /\ libs' = MovedLibs(Installed(S))
    /\ pc' = NextStage(s)
    /\ UNCHANGED <<fixed, ai, procFailed, exitCode, rustOut, outDirs, flagsH,
                   binH, elfCleaner>>

NdkBuildFails(flags) ==
    \E S \in SUBSET {p \in Archs \X NdkModules(flags) : Buildable(p[1], p[2])} :
        /\ obj' = Objects(S)
        /\ libs' = Installed(S)
        /\ Exit("fail")
        /\ UNCHANGED <<fixed, ai, procFailed, rustOut, out, outDirs,
                       flagsH, binH, elfCleaner>>

RunNdkBuild(s, flags) == pc = s /\ (NdkBuildOk(s, flags) \/ NdkBuildFails(flags))

(***************************************************************************)
(* dump_bin_header (lines 328-334), called at line 405: for each arch in   *)
(* order, open native/out/<arch>/libinit-ld.so, xz it and write the header *)
(* if it differs.  A missing preload raises out of the loop, leaving the  *)
(* headers of the earlier architectures written.                          *)
(***************************************************************************)
\* Mutation: every header is dumped from the first architecture's preload.
preload_of_first_arch(a) == out[ArchSeq[1]][Preload]

preload_of(a) == out[a][Preload]

binary_dump(art) == [arch |-> art.arch, prof |-> art.prof]

\* The number of leading archs whose preload exists: the loop raises at the next.
DumpUpTo ==
    LET missing == {i \in 1..Len(ArchSeq) : preload_of(ArchSeq[i]) = NONE} IN
    IF missing = {} THEN Len(ArchSeq)
    ELSE (CHOOSE i \in missing : \A j \in missing : i =< j) - 1

\* The payload headers after the loop wrote those of the first k archs.
DumpedHeaders(k) ==
    [a \in Archs |-> IF ArchIndex(a) =< k
                     THEN write_if_diff(binH[a], binary_dump(preload_of(a)))
                     ELSE binH[a]]

DumpBinHeader ==
    /\ pc = "binhdr"
    /\ binH' = DumpedHeaders(DumpUpTo)
    /\ IF DumpUpTo = Len(ArchSeq)
       THEN pc' = NextStage("binhdr") /\ UNCHANGED exitCode
       ELSE Exit("fail")
    /\ UNCHANGED <<fixed, ai, procFailed, rustOut, libs, obj, out, outDirs,
                   flagsH, elfCleaner>>

\* Interrupted while rewriting the header of the i-th arch.
DumpBinHeaderInterrupted ==
    /\ pc = "binhdr"
    /\ \E i \in 1..DumpUpTo :
          LET a == ArchSeq[i] IN
          /\ binH[a].content # binary_dump(preload_of(a))
          /\ binH' = [DumpedHeaders(i - 1) EXCEPT
                         ![a] = write_interrupted(binH[a], binary_dump(preload_of(a)))]
    /\ Exit("fail")
    /\ UNCHANGED <<fixed, ai, procFailed, rustOut, libs, obj, out,
                   outDirs, flagsH, elfCleaner>>

(***************************************************************************)
(* clean_elf (lines 205-229), non-Windows branch: build the cleaner with   *)
(* gcc if native/out/elf-cleaner is missing (exit status unchecked), then  *)
(* run it once on magisk and magiskpolicy of every arch, again without    *)
(* checking its exit status.  If gcc produced nothing, execv raises.  If  *)
(* gcc was killed mid-link it leaves a truncated file, which is cached by *)
(* existence from then on and makes every execv raise ENOEXEC.  The       *)
(* cleaner fails at least when one of its input files is missing.         *)
(***************************************************************************)
ElfInputsPresent ==
    \A a \in Archs : \A n \in {"magisk", "magiskpolicy"} : out[a][n] # NONE

CleanElfRun ==
    /\ pc = "elf"
    /\ elfCleaner # Partial
    /\ elfCleaner' = "built"
    /\ \E failed \in IF ElfInputsPresent THEN BOOLEAN ELSE {TRUE} :
           procFailed' = (procFailed \/ failed)
    /\ pc' = NextStage("elf")
    /\ UNCHANGED <<fixed, ai, exitCode, rustOut, libs, obj, out, outDirs, flagsH, binH>>

\* gcc leaves no cleaner, or a truncated one; execv then raises.
CleanElfGccFails ==
    /\ pc = "elf"
    /\ elfCleaner = "absent"
    /\ elfCleaner' \in {"absent", Partial}
    /\ Exit("fail")
    /\ UNCHANGED <<fixed, ai, procFailed, rustOut, libs, obj, out,
                   outDirs, flagsH, binH>>

\* The cached cleaner is truncated: execv raises OSError.
CleanElfExecFails ==
    /\ pc = "elf"
    /\ elfCleaner = Partial
    /\ Exit("fail")
    /\ UNCHANGED <<fixed, ai, procFailed, fsVars>>

\* build_binary returns normally: exit code 0.
Finish ==
    /\ pc = "done"
    /\ Exit("ok")
    /\ UNCHANGED <<fixed, ai, procFailed, fsVars>>

(***************************************************************************)
(* cleanup (lines 498-526).  "cpp" removes native/libs, native/obj and     *)
(* native/out (with the generated headers, the Rust archives and the ELF  *)
(* cleaner); "rust" removes cargo's target dir and generated bindings,     *)
(* none of which the model keeps; "java" runs gradle clean without         *)
(* checking its status, after find_jdk, which may exit with an error.     *)
(***************************************************************************)
\* f with the entries of the architectures in G removed.
Drop(f, G, empty) == [a \in Archs |-> IF a \in G THEN empty ELSE f[a]]

NoArchRust == [t \in rust_targets |-> NONE]

\* Lines 509-512: the three rm_rf calls complete.
CppCleaned ==
    /\ rustOut' = [a \in Archs |-> NoArchRust]
    /\ libs' = NoFile /\ obj' = NoFile /\ out' = NoFile
    /\ outDirs' = {}
    /\ flagsH' = Absent
    /\ binH' = [a \in Archs |-> Absent]
    /\ elfCleaner' = "absent"

(***************************************************************************)
(* One of those rm_rf calls raises part way (rm_on_error, lines 123-130,  *)
(* re-raises all but FileNotFoundError): the trees before it are gone, it *)
(* has removed some children of its directory (an architecture's dir;     *)
(* generated/; elf-cleaner), the later ones are untouched.                *)
(***************************************************************************)
CppCleanStops ==
    \E G \in SUBSET Archs :
      \/ /\ libs' = Drop(libs, G, NoArchFile)
         /\ UNCHANGED <<rustOut, obj, out, outDirs, flagsH, binH, elfCleaner>>
      \/ /\ libs' = NoFile /\ obj' = Drop(obj, G, NoArchFile)
         /\ UNCHANGED <<rustOut, out, outDirs, flagsH, binH, elfCleaner>>
      \/ /\ libs' = NoFile /\ obj' = NoFile
         /\ out' = Drop(out, G, NoArchFile)
         /\ rustOut' = Drop(rustOut, G, NoArchRust)
         /\ outDirs' = outDirs \ G
         /\ \E gen \in BOOLEAN :
               /\ flagsH' = IF gen THEN Absent ELSE flagsH
               /\ binH' = IF gen THEN [a \in Archs |-> Absent] ELSE binH
         /\ elfCleaner' \in {elfCleaner, "absent"}

\* rm (lines 115-120) swallows only FileNotFoundError and rm_rf re-raises
\* the rest, so the rust scope may end a clean with an exception.
RustScopeMayRaise(scopes) == "rust" \in scopes

Cleanup(r) ==
    LET scopes == CleanScopes(r) IN
    /\ pc = "idle"
    /\ inv < MaxInv
    /\ inv' = inv + 1
    /\ req' = r
    /\ \/ /\ "cpp" \in scopes /\ CppCleaned
          /\ hist' = [hist EXCEPT ![inv + 1] = "wipe"]
       \/ /\ "cpp" \notin scopes /\ UNCHANGED fsVars
          /\ hist' = [hist EXCEPT ![inv + 1] = "keep"]
    /\ \/ /\ RustScopeMayRaise(scopes)   \* java never runs
          /\ exitCode' = "fail" /\ procFailed' = FALSE
       \/ IF "java" \in scopes
          THEN \/ exitCode' = "fail" /\ procFailed' = FALSE
               \/ exitCode' = "ok" /\ procFailed' \in BOOLEAN
          ELSE exitCode' = "ok" /\ procFailed' = FALSE
    /\ UNCHANGED <<pc, tgts, prof, ai>>

\* The "cpp" scope stops part way: the exception ends the invocation.
CleanupStops(r) ==
    /\ pc = "idle" /\ inv < MaxInv
    /\ "cpp" \in CleanScopes(r)
    /\ inv' = inv + 1 /\ req' = r
    /\ hist' = [hist EXCEPT ![inv + 1] = "keep"]
    /\ CppCleanStops
    /\ exitCode' = "fail" /\ procFailed' = FALSE
    /\ UNCHANGED <<pc, tgts, prof, ai>>

\* No invocation is left to explore.
Terminated == pc = "idle" /\ inv = MaxInv /\ UNCHANGED vars

Next ==
    \/ \E r \in Requests, p \in Profiles : StartBinary(r, p)
    \/ \E r \in CleanRequests : Cleanup(r) \/ CleanupStops(r)
    \/ NdkMismatch \/ NdkVerified
    \/ CargoArch \/ CargoFails
    \/ DumpFlagHeader \/ DumpFlagHeaderInterrupted
    \/ RunNdkBuild("ndk1", Pass1Flags(tgts))
    \/ DumpBinHeader \/ DumpBinHeaderInterrupted
    \/ RunNdkBuild("ndk2", Pass2Flags(tgts))
    \/ CleanElfRun \/ CleanElfGccFails \/ CleanElfExecFails
    \/ RunNdkBuild("bb", BusyboxFlags(tgts))
    \/ Finish
    \/ Terminated

Spec == Init /\ [][Next]_vars

(***************************************************************************)
(* build.py is one sequential process that blocks on every external tool  *)
(* it starts; once an invocation has begun, some step of it is always     *)
(* enabled, and it is taken provided the tools themselves return.  That   *)
(* is weak fairness on the steps of a running invocation; starting a new  *)
(* invocation is up to the user and is not fair.                          *)
(***************************************************************************)
RunStep == pc # "idle" /\ Next

FairSpec == Spec /\ WF_vars(RunStep)

(***************************************************************************)
(* Properties                                                              *)
(***************************************************************************)

(***************************************************************************)
(* Ordering of spec 4.3: when the embedding pass (B_INIT) starts, the      *)
(* payload header of every architecture holds the xz image of the preload *)
(* that sits in native/out/<arch>, and that preload was compiled with this *)
(* invocation's profile.  Breaks if dump_bin_header runs on a preload the  *)
(* first pass did not rebuild, or on another architecture's file.         *)
(***************************************************************************)
PayloadHeaderCurrent ==
    (pc = "ndk2" /\ "B_INIT" \in Pass2Flags(tgts)) =>
        \A a \in Archs :
            /\ out[a][Preload] # NONE
            /\ out[a][Preload].prof = prof
            /\ binH[a].content = [arch |-> a, prof |-> prof]

(***************************************************************************)
(* Every magiskinit in the canonical tree embeds the preload of its own    *)
(* architecture built with its own profile, across any sequence of         *)
(* invocations, failures and cleanups.  This is what write_if_diff and     *)
(* make's timestamp check must jointly preserve: a header whose content   *)
(* changed must look newer than the magiskinit object.                     *)
(***************************************************************************)
EmbeddedPayloadConsistent ==
    \A a \in Archs :
        out[a]["magiskinit"] # NONE =>
            out[a]["magiskinit"].payload = [arch |-> a, prof |-> out[a]["magiskinit"].prof]

(***************************************************************************)
(* Every binary in the canonical tree that links a Rust archive linked one *)
(* of its own architecture and profile.  Relies on run_cargo_build        *)
(* rebuilding every crate an ndk module links in the same invocation,      *)
(* including the magisk crate for resetprop (line 259).                   *)
(***************************************************************************)
LinkedRustConsistent ==
    \A a \in Archs : \A n \in NdkOutputs :
        (out[a][n] # NONE /\ RustLibOf(n) # NoRust) =>
            out[a][n].rust = [arch |-> a, prof |-> out[a][n].prof]

(***************************************************************************)
(* Refinement of the output contract BuildSpec: native/out/<arch> only     *)
(* ever holds builds of that arch, made since the last "clean cpp" by an  *)
(* invocation with the profile that invocation was given, and changes    *)
(* only while build_binary runs.  Checked across object reuse by make,    *)
(* leftovers of failed passes swept in by later ones, and cleans; it     *)
(* fails if flags.h can lag behind args.release when a module compiles,   *)
(* or if anything built before a wipe can come back.                      *)
(***************************************************************************)
AsBuild(art) == [arch |-> art.arch, prof |-> art.prof, built |-> art.built]

Contract == INSTANCE BuildSpec WITH
    Names <- NdkOutputs,
    tree  <- [a \in Archs |-> [n \in NdkOutputs |->
                 IF out[a][n] = NONE THEN NONE ELSE AsBuild(out[a][n])]],
    busy  <- pc # "idle"

ImplementsBuildSpec == Contract!Spec

(***************************************************************************)
(* Every invocation that starts ends, with an exit status: the steps of   *)
(* build_binary (NDK check, the cargo loop over archs, the stage chain    *)
(* of lines 384-421) cannot cycle, and no failure path leaves the         *)
(* invocation hanging without reaching error() or a normal return.       *)
(***************************************************************************)
InvocationEnds == (pc # "idle") ~> (pc = "idle" /\ exitCode # "none")

(***************************************************************************)
(* Relocation correctness of spec 8: when build_binary returns normally,   *)
(* every resolved target of every architecture is in native/out/<arch>,    *)
(* built with this invocation's profile, and no longer in native/libs.    *)
(***************************************************************************)
RequestedArtifactsDelivered ==
    (pc = "done" /\ exitCode = "none") =>
        \A a \in Archs : \A n \in tgts :
            /\ out[a][n] # NONE
            /\ out[a][n].prof = prof
            /\ libs[a][n] = NONE

\* The flags of the ndk-build pass a step runs.
PassFlags(s) ==
    CASE s = "ndk1" -> Pass1Flags(tgts)
      [] s = "ndk2" -> Pass2Flags(tgts)
      [] s = "bb"   -> BusyboxFlags(tgts)
      [] OTHER      -> {}

(***************************************************************************)
(* A successful ndk-build pass only changes the entries of the canonical   *)
(* tree that the pass itself built (spec 8: "the canonical output          *)
(* directory contains exactly the expected artifact names"; spec 9 leaves  *)
(* the broad sweep of run_ndk_build, lines 239-243, as an open question). *)
(***************************************************************************)
SweepMovesOnlyPassOutputs ==
    [][(pc \in {"ndk1", "ndk2", "bb"}) =>
         \A a \in Archs : \A n \in NdkOutputs :
             out'[a][n] # out[a][n] => n \in NdkModules(PassFlags(pc))]_out

(***************************************************************************)
(* Exit behaviour of spec 6: an invocation that exits 0 had no external    *)
(* process return a non-zero status.                                       *)
(***************************************************************************)
FailureAborts == (pc = "idle" /\ exitCode = "ok") => ~procFailed

(***************************************************************************)
(* Retry of spec 5 ("re-runs effectively incremental"): whatever a failed *)
(* invocation left on disk, the ELF cleaner clean_elf finds cached at     *)
(* native/out/elf-cleaner (line 210) is one it can execute, so a re-run   *)
(* can get past the ELF step.                                              *)
(***************************************************************************)
ElfCleanerRunnable == pc = "elf" => elfCleaner # Partial

=============================================================================
