---------------------------- MODULE MCBatchResolve ----------------------------
(* Instances of BatchResolve for TLC. *)
EXTENDS BatchResolve, Functions

Identifier(kind, form, key) == [kind |-> kind, form |-> form, key |-> key]

\* A paper, two DOIs, a patent, a book, and an S2 id that begins like a patent
\* number.
Mixed ==
    {Identifier("paper", "paper", "id"), Identifier("paper", "patent", "be1"),
     Identifier("doi", "doi", "doi1"), Identifier("doi", "doi", "doi2"),
     Identifier("patent", "patent", "EP1"), Identifier("isbn", "isbn", "isbn")}

\* Any three of them, in any order.
ThreeOfAll == {list \in [1..3 -> Mixed] : IsInjective(list)}
=============================================================================
