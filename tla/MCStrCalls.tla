------------------------------ MODULE MCStrCalls -----------------------------
(* StrCalls for TLC. *)
EXTENDS StrCalls

\* Backspace, new line, blank, quote, minus, digit, backslash, letter.
SomeChars == {8, 10, 32, 34, 45, 49, 92, 97}
\* a, aa, ab, b and -a: some begin others, some overlap themselves.
SomeWords == {<<97>>, <<97, 97>>, <<97, 98>>, <<98>>, <<45, 97>>}
=============================================================================
