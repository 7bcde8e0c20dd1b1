--------------------------- MODULE MCRelatonFiles ---------------------------
(* Files of a standard by any of three bodies, as each may spell it, and its *)
(* trademark (RelatonRecords).                                               *)
EXTENDS Naturals, Sequences

Entry(type, prefix, marks) ==
    [type |-> type, id |-> [prefix |-> prefix, number |-> 1],
     trademark |-> "trademark" \in marks, primary |-> "primary" \in marks]

Entries(type, prefixes) == {<<>>} \union {<<Entry(type, prefix, {"primary"})>> : prefix \in prefixes}

IsoEntries == Entries("ISO", {<<"ISO">>, <<"ISO", "IEC">>, <<"ISO", "IEC", "IEEE">>})
IecEntries == Entries("IEC", {<<"IEC">>, <<"ISO", "IEC">>, <<"IEC", "ISO">>})
IeeeEntries ==
    Entries("IEEE", {<<"IEEE">>, <<"IEEE", "IEC">>, <<"ISO", "IEC", "IEEE">>, <<"IEEE", "ISO", "IEC">>})
OtherEntries == Entries("BSI", {<<"BSI">>})
Trademarks == {<<>>, <<Entry("IEEE", <<"IEEE", "TM">>, {"trademark"})>>}

RelatonDocuments ==
    {[entries |-> t \o a \o b \o c \o d, titled |-> titled, stage |-> stage] :
        a \in IsoEntries, b \in IecEntries, c \in IeeeEntries, d \in OtherEntries, t \in Trademarks,
        titled \in BOOLEAN, stage \in {"60.60", "95.99"}}
=============================================================================
