--------------------------- MODULE MCConfigProps ---------------------------
(***************************************************************************)
(* load_config checked against a declarative reference on every pair of   *)
(* small config.prop and gradle.properties files.                         *)
(***************************************************************************)
EXTENDS ConfigProps, FiniteSets

Chars   == {"k", "m", "1", "=", "#", " "}
MCMagiskPrefix   == <<"m">>      \* "magisk."
MCVersionCodeKey == <<"k">>      \* "versionCode"
MCDigits         == {"1"}
\* versionCode's default 1000000; "version" and "outdir" are keys no line
\* over Chars can name, so their defaults cannot interact with the files.
MCDefaults       == [k \in {<<"k">>} |-> <<"1">>]
LineLen == 3
\* Lines over Chars, and versionCode definitions (plain and "magisk."-
\* prefixed) whose values are up to three sign, underscore or digit characters.
IntChars == {"1", "-", "_"}
Lines ==
    BoundedSeq(Chars, LineLen) \cup
    {p \o <<"=">> \o v : p \in {MCVersionCodeKey, MCMagiskPrefix \o MCVersionCodeKey},
                         v \in BoundedSeq(IntChars, 3)}

VARIABLES config, gradle
vars == <<config, gradle>>

\* Two files with at most two lines between them.
Init ==
    \/ config \in BoundedSeq(Lines, 2) /\ gradle = <<>>
    \/ config \in BoundedSeq(Lines, 1) /\ gradle \in SeqOf(Lines, 1)
    \/ config = <<>> /\ gradle \in SeqOf(Lines, 2)

Next == UNCHANGED vars
Spec == Init /\ [][Next]_vars

(***************************************************************************)
(* The reference: a line defines key k as v when, blank space around it   *)
(* ignored, it is not a comment and has exactly one "=", with k left of   *)
(* it and a non-empty v right of it (both without surrounding blanks).    *)
(* The last definition in a file counts; a "magisk."-prefixed definition  *)
(* in gradle.properties overrides config.prop, which overrides the        *)
(* defaults.                                                              *)
(***************************************************************************)
Entry(raw) ==
    LET t   == Strip(raw)
        eqs == {i \in DOMAIN t : t[i] = "="}
        i   == CHOOSE i \in eqs : TRUE
    IN  IF t = <<>> \/ t[1] = "#" \/ Cardinality(eqs) # 1
           \/ Strip(SubSeq(t, i + 1, Len(t))) = <<>>
        THEN NONE
        ELSE [key |-> Strip(SubSeq(t, 1, i - 1)), value |-> Strip(SubSeq(t, i + 1, Len(t)))]

Entries(file) == {Entry(file[i]) : i \in DOMAIN file} \ {NONE}

LastDef(file, k) ==
    LET D == {i \in DOMAIN file : Entry(file[i]) # NONE /\ Entry(file[i]).key = k} IN
    IF D = {} THEN NONE ELSE Entry(file[Max(D)]).value

RefValue(k) ==
    IF LastDef(gradle, MagiskPrefix \o k) # NONE THEN LastDef(gradle, MagiskPrefix \o k)
    ELSE IF LastDef(config, k) # NONE THEN LastDef(config, k)
    ELSE IF k \in DOMAIN Defaults THEN Defaults[k]
    ELSE NONE

RefKeys ==
    DOMAIN Defaults \cup {e.key : e \in Entries(config)} \cup
    {SubSeq(e.key, Len(MagiskPrefix) + 1, Len(e.key)) :
        e \in {e \in Entries(gradle) : IsPrefix(MagiskPrefix, e.key)}}

(***************************************************************************)
(* load_config yields exactly the keys the reference defines, each with   *)
(* the reference's value, and exits on a versionCode that is not an int  *)
(* literal: line splitting, stripping, comment and empty-value skipping,  *)
(* last-wins in a file and the prefix override of lines 184-187.         *)
(***************************************************************************)
(***************************************************************************)
(* The reference for int(): a literal is read by an automaton that goes    *)
(* from "start" to "sign" on + or -, to "digit" on a digit, from "digit"   *)
(* to "under" on _, and back to "digit" only on a digit; it must end in    *)
(* "digit".                                                               *)
(***************************************************************************)
IntStep(q, c) ==
    CASE q \in {"start", "sign", "digit", "under"} /\ c \in Digits -> "digit"
      [] q = "start" /\ c \in {"+", "-"}                         -> "sign"
      [] q = "digit" /\ c = "_"                                  -> "under"
      [] OTHER                                                   -> "bad"

RefInt(s) == FoldLeft(IntStep, "start", Strip(s)) = "digit"

LoadConfigMatchesReference ==
    LET final == load_config(config, gradle) IN
    /\ DOMAIN final = RefKeys
    /\ \A k \in DOMAIN final : final[k] = RefValue(k)
    /\ ConfigError(config, gradle) <=>
          (RefValue(VersionCodeKey) # NONE /\ ~RefInt(RefValue(VersionCodeKey)))

=============================================================================
