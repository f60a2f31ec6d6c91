--------------------------- MODULE MCPipelineData ---------------------------
(***************************************************************************)
(* Values for TLC.                                                         *)
(***************************************************************************)
EXTENDS PipelineInvariant

echo == [input |-> FALSE, endless |-> FALSE, size |-> 1]
big == [input |-> FALSE, endless |-> FALSE, size |-> 3]  \* head takes 1, a pipe 1
yes == [input |-> FALSE, endless |-> TRUE, size |-> 1]
head == [input |-> TRUE, endless |-> FALSE, size |-> 1]
cat == [input |-> TRUE, endless |-> TRUE, size |-> 1]

SomeRedirections ==
  {<<>>, <<[fd |-> 1, exists |-> TRUE]>>, <<[fd |-> 0, exists |-> FALSE]>>,
   <<[fd |-> 2, exists |-> TRUE], [fd |-> 0, exists |-> TRUE]>>}

With(program, redirections) == [program : {program}, redir : redirections]

Plain(program) == [program |-> program, redir |-> <<>>]

(* Where descriptors go; pipes with an end in every place; and how data    *)
(* flows, also when more is written than a pipe holds.                     *)
SomeLines ==
  {<<p>> : p \in With(echo, SomeRedirections) \cup With(cat, SomeRedirections)}
    \cup {<<p, Plain(cat)>> : p \in With(echo, SomeRedirections)}
    \cup {<<Plain(echo), p>> : p \in With(cat, SomeRedirections)}
    \cup {<<Plain(p), Plain(q)>> : p \in {big, yes}, q \in {head, cat}}
    \cup {<<Plain(big), Plain(p), Plain(q)>> : p, q \in {head, cat}}
    \cup {<<Plain(head), Plain(p), Plain(head)>> : p \in {yes, head}}

YesHead == {<<Plain(yes), Plain(head)>>}
=============================================================================
