---------------------------- MODULE BuildTargets ----------------------------
(***************************************************************************)
(* Target selection of build.py: which Rust crates cargo builds, which     *)
(* feature flags each ndk-build pass gets, whether the ELF cleaner runs,   *)
(* and which scopes "clean" removes.  Pure operators over sets of names;  *)
(* the pipeline module BuildBinary uses them, MCBuildTargets checks them   *)
(* over every request drawn from a small universe of names.               *)
(***************************************************************************)
EXTENDS FiniteSets

\* build.py lines 78-80: the target catalog.
default_targets == {"magisk", "magiskinit", "magiskboot", "magiskpolicy", "busybox"}
support_targets == default_targets \cup {"resetprop"}
rust_targets == {"magisk", "magiskinit", "magiskboot", "magiskpolicy"}

\* The second artifact run_ndk_build relocates besides the targets (line 240).
Preload == "libinit-ld.so"

\* Every name run_ndk_build moves from native/libs/<arch> to native/out/<arch>.
NdkOutputs == support_targets \cup {Preload}

(***************************************************************************)
(* build_binary, lines 363-371: the resolved target set.  A non-empty      *)
(* request is intersected with the catalog; an empty one means defaults.  *)
(* NothingToBuild is the early "return" of line 369.                      *)
(***************************************************************************)
\* Mutation: the request is not intersected with the catalog.
ResolveUnfiltered(req) == IF req # {} THEN req ELSE default_targets

Resolve(req) == IF req # {} THEN req \cap support_targets ELSE default_targets

NothingToBuild(req) == req # {} /\ req \cap support_targets = {}

(***************************************************************************)
(* run_cargo_build, lines 258-260: the crates cargo builds.  resetprop     *)
(* links the magisk crate, so requesting it pulls that crate in.          *)
(***************************************************************************)
\* Mutation: the resetprop rule of line 259 is missing.
CargoTargetsNoDep(tgts) == tgts \cap rust_targets

CargoTargets(tgts) ==
    (tgts \cap rust_targets) \cup (IF "resetprop" \in tgts THEN {"magisk"} ELSE {})

(***************************************************************************)
(* build_binary, lines 381-396: the flags of the first ndk-build pass, one *)
(* per requested target, and the "clean" switch that later runs the ELF   *)
(* cleaner (set by magisk and magiskpolicy only).                          *)
(***************************************************************************)
Pass1Flags(tgts) ==
    LET flag == [magisk |-> "B_MAGISK", magiskpolicy |-> "B_POLICY",
                 magiskinit |-> "B_PRELOAD", resetprop |-> "B_PROP"]
    IN  {flag[t] : t \in tgts \cap DOMAIN flag}

CleanElf(tgts) == {"magisk", "magiskpolicy"} \cap tgts # {}

(***************************************************************************)
(* build_binary, lines 401-413: the second pass.  magiskinit embeds the   *)
(* payload header; B_CRT0 is added whenever the pass runs at all.         *)
(***************************************************************************)
Pass2Flags(tgts) ==
    LET flag == [magiskinit |-> "B_INIT", magiskboot |-> "B_BOOT"]
        base == {flag[t] : t \in tgts \cap DOMAIN flag}
    IN  IF base # {} THEN base \cup {"B_CRT0"} ELSE {}

\* The busybox pass of lines 420-421.
BusyboxFlags(tgts) == IF "busybox" \in tgts THEN {"B_BB"} ELSE {}

(***************************************************************************)
(* Which artifact each ndk-build feature flag produces, and which Rust     *)
(* static library an artifact links.  This is native/src/Android.mk, which *)
(* is not among the sources: it is taken from the spec (4.3) and from the  *)
(* crate pulled in by run_cargo_build for resetprop.                       *)
(***************************************************************************)
FlagOutput == [B_MAGISK |-> "magisk", B_POLICY |-> "magiskpolicy",
               B_PRELOAD |-> Preload, B_PROP |-> "resetprop",
               B_INIT |-> "magiskinit", B_BOOT |-> "magiskboot", B_BB |-> "busybox"]

NdkModules(flags) == {FlagOutput[f] : f \in flags \cap DOMAIN FlagOutput}

NoRust == "none"

RustLibOf(n) ==
    CASE n \in rust_targets -> n
      [] n = "resetprop"    -> "magisk"
      [] OTHER              -> NoRust

(***************************************************************************)
(* cleanup, lines 499-506: the scopes "clean" removes.                     *)
(***************************************************************************)
clean_targets == {"native", "cpp", "rust", "java"}

CleanScopes(req) ==
    IF req # {}
    THEN LET s == req \cap clean_targets
         IN  IF "native" \in s THEN s \cup {"cpp", "rust"} ELSE s
    ELSE clean_targets
=============================================================================
