------------------------------- MODULE Arrays -------------------------------
(***************************************************************************)
(* Arrays of JavaScript, as sequences                                      *)
(***************************************************************************)
EXTENDS Integers, Sequences

\* s.filter(x => G has x), or a loop that collects them.
Those(s, G) ==
  LET f[i \in 0..Len(s)] == IF i = 0 THEN <<>>
                            ELSE IF s[i] \in G THEN Append(f[i - 1], s[i]) ELSE f[i - 1]
  IN  f[Len(s)]
=============================================================================
