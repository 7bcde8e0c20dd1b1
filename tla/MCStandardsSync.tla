--------------------------- MODULE MCStandardsSync ---------------------------
(* Instances of StandardsSync for TLC. *)
EXTENDS StandardsSync

CONSTANTS iso, iec, own1, own2, own3, joint

Publishers ==
    [b \in {iso, iec} |-> IF b = iso THEN {own1, own2, own3, joint} ELSE {joint}]

\* Two Relaton repositories that share a joint standard, over two commits.
Joint == [bodies |-> {iso, iec}, tables |-> {}, ids |-> {own1, joint}, commits |-> 2]

\* One repository or table, over three.
Alone(asTable) ==
    [bodies |-> {iso}, tables |-> IF asTable THEN {iso} ELSE {}, ids |-> {own1, own2, own3},
     commits |-> 3]

AllScenes == {Joint} \union {Alone(asTable) : asTable \in BOOLEAN}
AloneOnly == {Alone(FALSE)}
=============================================================================
