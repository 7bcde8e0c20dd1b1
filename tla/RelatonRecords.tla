---------------------------- MODULE RelatonRecords ----------------------------
(***************************************************************************)
(* What a file of a Relaton repository becomes (src/scholar_mcp/            *)
(* _sync_relaton.py, _yaml_to_record): a record under one identifier, and   *)
(* the other identifiers it lists as aliases.  A joint standard is in the   *)
(* repository of each of its bodies, spelled and ordered by the habit of    *)
(* each, and must become one row (module StandardsSync).                    *)
(*                                                                         *)
(* An identifier is the bodies before its number, as a sequence, and the    *)
(* number.  Titles, dates, links and relations are left out.                *)
(***************************************************************************)
EXTENDS Naturals, Sequences, FiniteSets, SequencesExt

CONSTANT Documents  \* files that are read: [entries, titled, stage]

VARIABLES
    doc,        \* the file
    made        \* what it became, or NotRead

recordVars == <<doc, made>>

ISO == "ISO"
IEC == "IEC"
IEEE == "IEEE"

Id(prefix, number) == [prefix |-> prefix, number |-> number]

\* An entry of docid: the body it is of, the identifier, and what it is marked as.
Listed(type, id, marks) ==
    [type |-> type, id |-> id, trademark |-> "trademark" \in marks, primary |-> "primary" \in marks]

NoRecord == [read |-> TRUE, stored |-> FALSE]
NotRead == [read |-> FALSE, stored |-> FALSE]

RecordInit == doc \in Documents /\ made = NotRead

-----------------------------------------------------------------------------
\* Prefixes that are spelled in another order.
Reordered(prefix) ==
    CASE prefix = <<IEC, ISO>> -> <<ISO, IEC>>
      [] prefix = <<IEEE, IEC>> -> <<IEC, IEEE>>
      [] prefix \in {<<IEEE, ISO, IEC>>, <<IEC, ISO, IEEE>>, <<IEEE, IEC, ISO>>} -> <<ISO, IEC, IEEE>>
      [] OTHER -> prefix

\* _normalise_joint: the identifier under the joint prefix.
Joined(id, joint) ==
    IF IsPrefix(joint, Reordered(id.prefix)) THEN Id(Reordered(id.prefix), id.number)
    ELSE Id(joint, id.number)

Unknown == [id |-> Id(<<>>, 0), body |-> <<>>]

\* The types that are counted decide the body, and which entry is the identifier:
\* that of the body that lists it last, or the one that is spelled jointly.
Identity(entries, counted) ==
    LET Of(type) == {k \in counted : entries[k].type = type}
        Has(type) == Of(type) # {}
        SpelledJoint(type) == {k \in Of(type) : {ISO, IEC} \subseteq Range(entries[k].id.prefix)}
        Primary == {k \in counted : entries[k].primary}
        First(places) == entries[Min(places)]
        As(id, body) == [id |-> id, body |-> body]
        Joint(places, body) == As(Joined(First(places).id, body), body)
    IN CASE Has(IEEE) /\ Has(IEC) /\ Has(ISO) -> Joint(Of(IEEE), <<ISO, IEC, IEEE>>)
         [] Has(IEEE) /\ Has(IEC) /\ ~Has(ISO) -> Joint(Of(IEEE), <<IEC, IEEE>>)
         [] Has(IEEE) /\ ~Has(IEC) -> As(First(Of(IEEE)).id, <<IEEE>>)
         [] ~Has(IEEE) /\ Has(IEC) /\ Has(ISO) ->
              Joint(IF SpelledJoint(ISO) # {} THEN SpelledJoint(ISO)
                    ELSE IF SpelledJoint(IEC) # {} THEN SpelledJoint(IEC) ELSE Of(ISO), <<ISO, IEC>>)
         [] ~Has(IEEE) /\ ~Has(IEC) /\ Has(ISO) -> As(First(Of(ISO)).id, <<ISO>>)
         [] ~Has(IEEE) /\ Has(IEC) /\ ~Has(ISO) -> As(First(Of(IEC)).id, <<IEC>>)
         [] OTHER -> IF Primary = {} THEN Unknown
                     ELSE As(First(Primary).id, <<First(Primary).type>>)

\* Mutated Canonical: a trademark's spelling counts like any other.
CanonicalOfAll(entries) == Identity(entries, DOMAIN entries)

\* Where a file lists what is no trademark, and what it lists there.
NotTrademarks(entries) == {k \in DOMAIN entries : ~entries[k].trademark}
Counted(entries) == {entries[k] : k \in NotTrademarks(entries)}

\* A file lists one identifier of each of the three bodies beside trademarks, if any,
\* and one primary identifier if it lists none of theirs.
OneOfEach(entries) ==
    /\ entries \in Seq(Range(entries))
    /\ \A d, e \in Counted(entries) :
          d.type = e.type /\ d.type \in {ISO, IEC, IEEE} => d.id = e.id
    /\ (\A d \in Counted(entries) : d.type \notin {ISO, IEC, IEEE}) =>
          \A d, e \in Counted(entries) : d.primary /\ e.primary => d.type = e.type /\ d.id = e.id

ASSUME RecordAssumption == \A file \in Documents : OneOfEach(file.entries)

\* _canonical_identifier_and_body
Canonical(entries) == Identity(entries, NotTrademarks(entries))

Withdrawn == {"95.99", "95.60"}

\* _STAGE_TO_STATUS, with published for every other stage.
StatusOf(stage) == IF stage \in Withdrawn THEN "withdrawn" ELSE "published"

\* Every other identifier the file lists, trademarks included.
AliasesOf(entries, id) == {entries[k].id : k \in DOMAIN entries} \ {id}

\* A file without identifier or title is an error of the loader's report.
YamlToRecord ==
    /\ made = NotRead
    /\ LET identity == Canonical(doc.entries)
       IN made' = IF identity = Unknown \/ ~doc.titled THEN NoRecord
                  ELSE [read |-> TRUE, stored |-> TRUE, id |-> identity.id, body |-> identity.body,
                        status |-> StatusOf(doc.stage),
                        aliases |-> AliasesOf(doc.entries, identity.id)]
    /\ UNCHANGED doc

RecordNext == YamlToRecord

RecordSpec == RecordInit /\ [][RecordNext]_recordVars

-----------------------------------------------------------------------------
Turned(entries, order) == [k \in DOMAIN entries |-> entries[order[k]]]

\* Files that list the same identifiers, one of each body, in any order, with or
\* without their trademarks, become one row under one body; a joint one carries the names of
\* its bodies; and every other identifier leads to it, none to itself.
JointRecordsAgree ==
    made.stored =>
        /\ \A entries \in {file.entries : file \in Documents} :
              Counted(entries) = Counted(doc.entries) =>
                  \A order \in Surjection(DOMAIN entries, DOMAIN entries) :
                      Canonical(Turned(entries, order)) = [id |-> made.id, body |-> made.body]
        /\ Len(made.body) > 1 => IsPrefix(made.body, made.id.prefix)
        /\ {doc.entries[k].id : k \in DOMAIN doc.entries} \subseteq made.aliases \union {made.id}
        /\ made.id \notin made.aliases
=============================================================================
