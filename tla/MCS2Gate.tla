------------------------------ MODULE MCS2Gate ------------------------------
(* Instances of S2Gate for TLC. *)
EXTENDS S2Gate

CONSTANTS direct, other, body1, body2, tool

\* A direct call that may also be the keepalive's probe (TryOnce tells), and a
\* tool body that has two requests in flight under one context.
MixedCallers == {direct, body1, body2}
MixedContextOf ==
    [c \in MixedCallers |-> IF c \in {body1, body2} THEN tool ELSE NoContext]

\* Two direct calls and one tool body.
PairContextOf ==
    [c \in {direct, other, body1} |-> IF c = body1 THEN tool ELSE NoContext]
=============================================================================
