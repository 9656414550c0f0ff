----------------------------- MODULE MCEnvFile -----------------------------
(* Bounded instances of EnvFile: files of a few lines over two keys the      *)
(* program writes and one it does not.                                       *)
EXTENDS EnvFile

CONSTANTS
    MaxLines,  \* lines of a file at the start
    MaxChars   \* characters of a value

MCOrder == <<"TOKEN", "PASSWORD">>

(* Right-hand sides: absent, blank, plain, a placeholder, quoted. *)
Raws == {<<>>, <<" ", "a">>, <<"<", "a", ">">>, <<"\"", "\\", "n", "\"">>}

Lines == [key : {"TOKEN", "PASSWORD", "OTHER"}, raw : Raws]
            \cup [key : {NoKey}, raw : {<<"#">>, <<>>}]

GivenValues == {<<>>, <<"b">>, <<"\\", "b">>, <<"\"", "\\">>, <<"$", "\n">>, <<"b", NBSP>>}

(* Every short file with some values. *)
FileCases ==
    [file : BoundedSeq(Lines, MaxLines),
     upd  : [{"TOKEN"} -> GivenValues] \cup [{"TOKEN", "PASSWORD"} -> GivenValues]]

Chars == {"a", "n", " ", "\n", "\r", "\"", "\\", "<", ">", NBSP}

(* Every short value with some files. *)
ValueCases ==
    [file : {<<>>, <<[key |-> "OTHER", raw |-> <<"a">>], [key |-> "TOKEN", raw |-> <<"<", ">">>]>>},
     upd  : [{"TOKEN"} -> BoundedSeq(Chars, MaxChars)]]

MCCases == FileCases \cup ValueCases

MCLater == {[k \in {"TOKEN", "PASSWORD"} |-> <<"c">>], [k \in {"PASSWORD"} |-> <<"<", "\"", ">">>]}
=============================================================================
