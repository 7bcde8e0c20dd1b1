--------------------------- MODULE MCPatentTools ---------------------------
(* Two calls at a time, every pair of the kinds below, under chosen lights. *)
EXTENDS PatentTools

CONSTANTS c1, c2

Plain(kind) == [kind |-> kind, wanted |-> {}]
Sectioned(wanted) == [kind |-> "sections", wanted |-> wanted]

Pair(w, v) == [c \in {c1, c2} |-> IF c = c1 THEN w ELSE v]

MCWishes ==
    {Pair(Sectioned({"claims", "family"}), Plain("search")),
     Pair(Sectioned({"family"}), Sectioned({"biblio"})),
     Pair(Sectioned({"citations"}), Plain("document")),
     Pair(Sectioned({"family"}), Plain("citing")),
     Pair(Plain("search"), Plain("search"))}

\* All green, all congested or spent, or only inpadoc congested.
MCLights == {[b \in Buckets |-> colour] : colour \in Colours}
            \cup {[b \in Buckets |-> IF b = "inpadoc" THEN "busy" ELSE "green"]}
=============================================================================
