--------------------------- MODULE MCBuildTargets ---------------------------
(***************************************************************************)
(* Checks the target selection of build.py over every request built from   *)
(* the catalog plus names outside it.  The state is just the request the  *)
(* command line passes to "binary"; each step picks another one.          *)
(***************************************************************************)
EXTENDS BuildTargets

CONSTANT Unknown   \* names given on the command line that are not targets

Universe == support_targets \cup Unknown

VARIABLE req

Init == req \in SUBSET Universe
Next == req' \in SUBSET Universe
Spec == Init /\ [][Next]_req

(***************************************************************************)
(* For every request, the passes build_binary runs are closed under what   *)
(* they consume: every requested target is produced by one of the ndk      *)
(* passes (lines 381-421), and every produced binary that links a Rust     *)
(* library has its crate built by cargo first (run_cargo_build, 258-260). *)
(***************************************************************************)
BuildClosure ==
    ~NothingToBuild(req) =>
        LET t    == Resolve(req)
            mods == NdkModules(Pass1Flags(t) \cup Pass2Flags(t) \cup BusyboxFlags(t))
        IN  /\ t \subseteq mods
            /\ \A n \in mods : RustLibOf(n) # NoRust => RustLibOf(n) \in CargoTargets(t)
=============================================================================
