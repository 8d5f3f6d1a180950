------------------------------- MODULE MCSearch -------------------------------
(* Small directories for Search.                                             *)
EXTENDS Search

File(ms) == [error |-> FALSE, plain |-> FALSE, matches |-> ms]
Plain(ms) == [error |-> FALSE, plain |-> TRUE, matches |-> ms]
Broken == [error |-> TRUE, plain |-> FALSE, matches |-> <<>>]

(* A block of 4 is too large for grep when max_tokens is 0 or 1, and for     *)
(* structural when it is 0; one of 8 is too large for structural at 1 as     *)
(* well.                                                                   *)
Files == {File(ms) : ms \in {<<>>, <<NoBlock>>, <<4>>, <<8>>, <<4, 8>>, <<NoBlock, 8, 4>>}}
           \cup {Plain(<<8>>)}
Entries == Files \cup {Broken}

Directories == UNION {[1..n -> Entries] : n \in 0..3}
Results == 0..3
Tokens == {NoLimit, 0, 1, 4}
Caps == {1, 2, 3}
=============================================================================
