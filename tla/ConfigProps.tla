---------------------------- MODULE ConfigProps ----------------------------
(***************************************************************************)
(* parse_props (lines 158-171) and the merge of load_config (lines         *)
(* 174-202) over files given as sequences of lines of characters.  Blank  *)
(* space is the one character " ", the prefix "magisk." is the sequence   *)
(* MagiskPrefix, and Digits the decimal digits of an int() literal.      *)
(***************************************************************************)
EXTENDS SequencesExt, Naturals

CONSTANTS
    MagiskPrefix,    \* the key prefix "magisk." of gradle.properties
    VersionCodeKey,  \* the key "versionCode"
    Digits,          \* the decimal digits
    Defaults,        \* the values set before the files are read
    NONE

Blank == {" "}

\* str.strip(" \t\r\n")
Strip(s) ==
    LET keep == {i \in DOMAIN s : s[i] \notin Blank} IN
    IF keep = {} THEN <<>> ELSE SubSeq(s, Min(keep), Max(keep))

\* str.split("="): the pieces between the separators, empty ones included.
RECURSIVE Split(_)
Split(s) ==
    IF s = <<>> THEN << <<>> >>
    ELSE LET rest == Split(Tail(s)) IN
         IF Head(s) = "=" THEN << <<>> >> \o rest
         ELSE << <<Head(s)>> \o Head(rest) >> \o Tail(rest)

\* One line of the file: a [key, value] entry, or NONE if it is skipped.
\* Mutation: an empty value is kept (the check of line 168 dropped).
ParseLineKeepEmpty(raw) ==
    LET line == Strip(raw)
        prop == Split(line)
    IN  IF line = <<>> \/ line[1] = "#" \/ Len(prop) # 2 THEN NONE
        ELSE [key |-> Strip(prop[1]), value |-> Strip(prop[2])]

ParseLine(raw) ==
    LET line == Strip(raw)
        prop == Split(line)
    IN  IF line = <<>> \/ line[1] = "#" \/ Len(prop) # 2 \/ Strip(prop[2]) = <<>>
        THEN NONE
        ELSE [key |-> Strip(prop[1]), value |-> Strip(prop[2])]

\* dict[key] = value
Put(d, k, v) == [x \in DOMAIN d \cup {k} |-> IF x = k THEN v ELSE d[x]]

EmptyDict == [x \in {} |-> NONE]

\* dict.update(e)
Update(d, e) == [x \in DOMAIN d \cup DOMAIN e |-> IF x \in DOMAIN e THEN e[x] ELSE d[x]]

parse_props(file) ==
    FoldLeft(LAMBDA d, l : IF ParseLine(l) = NONE THEN d
                           ELSE Put(d, ParseLine(l).key, ParseLine(l).value),
             EmptyDict, file)

(***************************************************************************)
(* load_config: defaults, then config.prop, then every "magisk.<k>" of    *)
(* gradle.properties as <k>; a versionCode int() rejects is a fatal error *)
(* (line 194).  Defaults holds what lines 177-180 set first.            *)
(***************************************************************************)
load_config(config, gradle) ==
    LET c == Update(Defaults, parse_props(config))
        g == parse_props(gradle)
        overrides == {k \in DOMAIN g : IsPrefix(MagiskPrefix, k)}
        final == FoldSet(LAMBDA k, d : Put(d, SubSeq(k, Len(MagiskPrefix) + 1, Len(k)), g[k]),
                         c, overrides)
    IN  final

(***************************************************************************)
(* int(str), base 10: blanks around it, an optional sign, and digits with  *)
(* single underscores between them ("-1", "1_000" and "007" are ints).     *)
(***************************************************************************)
IntLiteral(s) ==
    LET t    == Strip(s)
        body == IF t # <<>> /\ t[1] \in {"+", "-"} THEN Tail(t) ELSE t
    IN  /\ body # <<>>
        /\ \A i \in DOMAIN body : body[i] \in Digits \cup {"_"}
        /\ body[1] \in Digits /\ body[Len(body)] \in Digits
        /\ \A i \in 1..Len(body) - 1 : body[i] = "_" => body[i + 1] \in Digits

\* Lines 193-196: int(config["versionCode"]) (line 194) raising ValueError is fatal.
ConfigError(config, gradle) ==
    LET final == load_config(config, gradle) IN
    VersionCodeKey \in DOMAIN final /\ ~IntLiteral(final[VersionCodeKey])

=============================================================================
