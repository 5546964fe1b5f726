----------------------------- MODULE BuildSpec -----------------------------
(***************************************************************************)
(* What the canonical output tree native/out/<arch>/<name> promises across *)
(* invocations of build.py, with no ndk-build, cargo or headers in sight.  *)
(*                                                                         *)
(* Every entry of the tree is a build: of the architecture whose directory *)
(* holds it, by some invocation since the last C++ clean, with the profile *)
(* that invocation was given.  Entries are added or replaced only while  *)
(* an invocation is running, and removed only by a clean: all at once by *)
(* one that wipes native/out, some of them by one that stops part way.  *)
(* Which entries an invocation replaces, and with the builds of which    *)
(* earlier invocation, is left open: that is the freedom make's reuse of *)
(* objects and the broad relocation sweep need.                          *)
(***************************************************************************)
EXTENDS Naturals

CONSTANTS Archs, Names, Profiles, MaxInv, NONE

VARIABLES
    tree,   \* native/out/<arch>/<name>: a Build or NONE
    hist,   \* hist[k]: the profile of invocation k, or "wipe"/"keep" for a clean
    inv,    \* invocations started so far
    busy    \* an invocation is running

vars == <<tree, hist, inv, busy>>

Build   == [arch : Archs, prof : Profiles, built : 1..MaxInv]
Empty   == [a \in Archs |-> [n \in Names |-> NONE]]

\* The last invocation that wiped native/out, 0 if none did.
LastWipe ==
    LET W == {k \in 1..inv : hist[k] = "wipe"} IN
    IF W = {} THEN 0 ELSE CHOOSE k \in W : \A j \in W : j =< k

\* A build that may sit in native/out/<a> now.
Valid(a, b) ==
    /\ b \in Build
    /\ b.arch = a
    /\ LastWipe < b.built /\ b.built =< inv
    /\ hist[b.built] = b.prof

Init ==
    /\ tree = Empty
    /\ hist = [k \in 1..MaxInv |-> NONE]
    /\ inv = 0
    /\ busy = FALSE

Begin(p) ==
    /\ ~busy /\ inv < MaxInv
    /\ inv' = inv + 1
    /\ hist' = [hist EXCEPT ![inv + 1] = p]
    /\ busy' = TRUE
    /\ UNCHANGED tree

\* The running invocation replaces some entries by valid builds.
Produce ==
    /\ busy
    /\ tree' \in [Archs -> [Names -> Build \cup {NONE}]]
    /\ \A a \in Archs, n \in Names :
          tree'[a][n] # tree[a][n] => Valid(a, tree'[a][n])
    /\ UNCHANGED <<hist, inv, busy>>

End == busy /\ busy' = FALSE /\ UNCHANGED <<tree, hist, inv>>

\* A clean is an invocation of its own.  A wiping one empties the tree; one
\* that stops part way may have removed some entries, and adds none.
Clean(wipe) ==
    /\ ~busy /\ inv < MaxInv
    /\ inv' = inv + 1
    /\ hist' = [hist EXCEPT ![inv + 1] = IF wipe THEN "wipe" ELSE "keep"]
    /\ IF wipe THEN tree' = Empty
       ELSE tree' \in [Archs -> [Names -> Build \cup {NONE}]]
            /\ \A a \in Archs, n \in Names : tree'[a][n] \in {tree[a][n], NONE}
    /\ UNCHANGED busy

Next ==
    \/ \E p \in Profiles : Begin(p)
    \/ Produce
    \/ End
    \/ \E w \in BOOLEAN : Clean(w)

Spec == Init /\ [][Next]_vars

=============================================================================
