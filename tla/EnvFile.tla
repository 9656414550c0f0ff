------------------------------ MODULE EnvFile ------------------------------
(***************************************************************************)
(* userver_auth/envpersist.go as an algorithm: which keys of the env file  *)
(* bootstrap:auth may fill, and what the file is afterwards, read back by  *)
(* the same code.  A value is a sequence of one-character strings.         *)
(***************************************************************************)
EXTENDS Naturals, Sequences, FiniteSets, SequencesExt, FiniteSetsExt

CONSTANTS
    Order,     \* the keys bootstrap:auth writes, in the order it appends them
    Cases,     \* files (sequences of lines) with the values of a first run (by key)
    Later      \* the values of the runs after it

NoKey == "no key"  \* of a comment, a blank line, or anything else but KEY=value
NBSP == "U+00A0"   \* a white space above U+0020

VARIABLES lines, upd
envVars == <<lines, upd>>

Blanks == {" ", "\t", "\n", "\r", NBSP}

TrimSpace(s) ==
    LET ink == {i \in DOMAIN s : s[i] \notin Blanks} IN
    IF ink = {} THEN <<>> ELSE SubSeq(s, Min(ink), Max(ink))

Holds(s, c) == \E i \in DOMAIN s : s[i] = c

-----------------------------------------------------------------------------
(* One value. *)

Escape(c) ==
    CASE c \in {"\"", "\\"} -> <<"\\", c>>
      [] c = "\n" -> <<"\\", "n">>
      [] c = "\r" -> <<"\\", "r">>
      [] OTHER -> <<c>>

NeedsQuote(s) ==
    s = <<>> \/ \E c \in {" ", "\t", "\n", "\r", "#", "\"", "'", "=", "$"} : Holds(s, c)

(* Mutant: the quoted value is written as it is. *)
FormatEnvValue_Raw(s) == IF NeedsQuote(s) THEN <<"\"">> \o s \o <<"\"">> ELSE s

FormatEnvValue(s) ==
    IF NeedsQuote(s)
    THEN <<"\"">> \o FlattenSeq([i \in DOMAIN s |-> Escape(s[i])]) \o <<"\"">>
    ELSE s

(* One character of a quoted value; "open" after a backslash. *)
Unescape(acc, c) ==
    IF ~acc.open
    THEN IF c = "\\" THEN [acc EXCEPT !.open = TRUE] ELSE [acc EXCEPT !.out = Append(@, c)]
    ELSE [open |-> FALSE,
          out  |-> acc.out \o CASE c \in {"\"", "\\"} -> <<c>>
                                [] c = "n" -> <<"\n">>
                                [] c = "r" -> <<"\r">>
                                [] OTHER -> <<"\\", c>>]

ParseEnvValue(raw) ==
    LET v == TrimSpace(raw)
        read == FoldLeft(Unescape, [out |-> <<>>, open |-> FALSE], SubSeq(v, 2, Len(v) - 1))
    IN IF Len(v) >= 2 /\ v[1] = "\"" /\ v[Len(v)] = "\""
       THEN read.out \o (IF read.open THEN <<"\\">> ELSE <<>>)
       ELSE v

IsPlaceholderEnvValue(v) == Holds(v, "<") /\ Holds(v, ">")

-----------------------------------------------------------------------------
(* The file. *)

Assigned(file) == {file[i].key : i \in DOMAIN file} \ {NoKey}
LastOf(file, k) == Max({i \in DOMAIN file : file[i].key = k})

ReadLastEnvFileValues(file) ==
    [k \in Assigned(file) |-> ParseEnvValue(file[LastOf(file, k)].raw)]

FilterUpdatesSkipProtectedInFile(file, u) ==
    LET cur == ReadLastEnvFileValues(file)
        Free(k) == \/ k \notin DOMAIN cur
                   \/ TrimSpace(cur[k]) = <<>>
                   \/ IsPlaceholderEnvValue(cur[k])
    IN [k \in {j \in DOMAIN u : u[j] # <<>> /\ Free(j)} |-> u[k]]

Assignment(k, v) == [key |-> k, raw |-> FormatEnvValue(v)]

(* Mutant: the lines of a key after the first are kept. *)
MergeEnvLines_KeepsDuplicates(file, f) ==
    [i \in DOMAIN file |->
        IF file[i].key \notin DOMAIN f \/ \E j \in 1..(i - 1) : file[j].key = file[i].key
        THEN file[i]
        ELSE Assignment(file[i].key, f[file[i].key])]

(* The first line of a key gets its new value, the others go. *)
MergeEnvLines(file, f) ==
    FlattenSeq([i \in DOMAIN file |->
        IF file[i].key \notin DOMAIN f THEN <<file[i]>>
        ELSE IF \E j \in 1..(i - 1) : file[j].key = file[i].key THEN <<>>
        ELSE <<Assignment(file[i].key, f[file[i].key])>>])

AppendMissingEnvKeys(file, f) ==
    LET Missing(k) == k \in DOMAIN f \ Assigned(file)
        keys == SelectSeq(Order, Missing)
    IN file \o [i \in DOMAIN keys |-> Assignment(keys[i], f[keys[i]])]

(* A file that is one empty line reads as one without lines. *)
OneEmptyLine(file) == file = <<[key |-> NoKey, raw |-> <<>>]>>
SplitLines(file) == IF OneEmptyLine(file) THEN <<>> ELSE file

(* With nothing to write the file is left alone. *)
UpsertEnvFile(file, f) ==
    IF DOMAIN f = {} THEN file
    ELSE AppendMissingEnvKeys(MergeEnvLines(SplitLines(file), f), f)

-----------------------------------------------------------------------------
EnvInit == \E c \in Cases : lines = c.file /\ upd = c.upd

(* persistBootstrapEnv, nothing failing; then a later run, with its values. *)
Persist ==
    /\ lines' = UpsertEnvFile(lines, FilterUpdatesSkipProtectedInFile(lines, upd))
    /\ upd' \in Later

EnvSpec == EnvInit /\ [][Persist]_envVars

-----------------------------------------------------------------------------
(* What a file is for its readers: every key has one value. *)

ValueOf(file, k) ==
    IF k \in Assigned(file) THEN ReadLastEnvFileValues(file)[k] ELSE <<>>

(* The file has a value of its own for k, which is not to be touched. *)
Own(file, k) ==
    TrimSpace(ValueOf(file, k)) # <<>> /\ ~IsPlaceholderEnvValue(ValueOf(file, k))

(* The end of an unquoted value is cut at white space of any kind. *)
Readable(v) == TrimSpace(v) = v \/ NeedsQuote(v)

(* Writing reads back: after persistBootstrapEnv every key it was given has  *)
(* the given value or, if the file had one of its own, that; and every other *)
(* key has the value it had, whatever the quoting, the duplicates and the    *)
(* order of the lines.                                                       *)
ReadsBack ==
    [][(\A k \in DOMAIN upd : Readable(upd[k])) =>
        \A k \in Assigned(lines) \cup DOMAIN upd :
            ValueOf(lines', k) =
                IF k \notin DOMAIN upd \/ Own(lines, k) \/ upd[k] = <<>>
                THEN ValueOf(lines, k) ELSE upd[k]]_envVars

(* The lines of every key that is not filled, the comments and the blank     *)
(* lines stay, in their order, but for the empty line of a file that has     *)
(* nothing else, and a key that is filled is assigned once.                  *)
OtherLinesStay ==
    [][LET filled == {k \in DOMAIN upd : upd[k] # <<>> /\ ~Own(lines, k)}
           Other(l) == l.key \notin filled
       IN /\ \/ SelectSeq(lines', Other) = SelectSeq(lines, Other)
             \/ OneEmptyLine(lines) /\ SelectSeq(lines', Other) = <<>>
          /\ \A k \in filled :
                Cardinality({i \in DOMAIN lines' : lines'[i].key = k}) = 1]_envVars
=============================================================================
