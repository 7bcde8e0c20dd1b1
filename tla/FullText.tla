------------------------------- MODULE FullText -------------------------------
(***************************************************************************)
(* The full text of get_standard (_tools_standards.py, _handle_full_text):  *)
(* a standard whose record is known is asked for, with its text or without. *)
(* A text is converted by docling once and kept in a table of its own,      *)
(* never in the record's row.  A text is the version of the document it was *)
(* converted from, 0 where there is none.                                   *)
(***************************************************************************)
EXTENDS Naturals

CONSTANTS
    Readers,
    MaxVersion   \* bound of the model: versions of the document

\* The URL serves a version to begin with.
TextAssumption == MaxVersion \in Nat \ {0}

ASSUME TextAssumption

VARIABLES
    offered,     \* the record has a full_text_url, and says that it serves
    docling,     \* docling is configured
    document,    \* the version the URL serves
    row,         \* the text the record's row carries
    texts,       \* the text in standard_full_text
    reader,      \* the state of each call
    converted    \* history: versions that were converted to their end

textVars == <<offered, docling, document, row, texts, reader, converted>>

Versions == 0..MaxVersion

TextTypeOK ==
    /\ offered \in BOOLEAN /\ docling \in BOOLEAN
    /\ document \in Versions /\ row \in Versions /\ texts \in Versions
    /\ \A r \in Readers :
          /\ reader[r].at \in {"start", "text", "download", "convert", "store", "done"}
          /\ reader[r].wants \in BOOLEAN /\ reader[r].failed \in BOOLEAN
          /\ reader[r].content \in Versions /\ reader[r].text \in Versions
    /\ converted \subseteq Versions

TextBegins(on, with, wants) ==
    /\ offered = on /\ docling = with
    /\ document = 1
    /\ row = 0 /\ texts = 0
    /\ reader = [r \in Readers |-> [at |-> "start", wants |-> wants[r], content |-> 0,
                                    text |-> 0, failed |-> FALSE]]
    /\ converted = {}

TextInit == \E on, with \in BOOLEAN, wants \in [Readers -> BOOLEAN] : TextBegins(on, with, wants)

Stands(r, place) == reader[r].at = place
Turns(r, state) == reader' = [reader EXCEPT ![r] = state]
Given(r, text) == [reader[r] EXCEPT !.at = "done", !.text = text]

\* The URL serves another edition; a text outlives its TTL.
Republish ==
    /\ document < MaxVersion
    /\ document' = document + 1
    /\ UNCHANGED <<offered, docling, row, texts, reader, converted>>

TextExpires ==
    /\ texts # 0 /\ texts' = 0
    /\ UNCHANGED <<offered, docling, document, row, reader, converted>>

\* The record comes from its row; what is in the row is in the answer.
ReadRow(r) ==
    /\ Stands(r, "start")
    /\ Turns(r, IF reader[r].wants THEN [reader[r] EXCEPT !.at = "text"] ELSE Given(r, row))
    /\ UNCHANGED <<offered, docling, document, row, texts, converted>>

\* A text that is there needs no docling; without either the record is answered.
GetFullText(r) ==
    /\ Stands(r, "text")
    /\ Turns(r, IF ~offered THEN Given(r, row)
                ELSE IF texts # 0 THEN Given(r, texts)
                ELSE IF ~docling THEN Given(r, row)
                ELSE [reader[r] EXCEPT !.at = "download"])
    /\ UNCHANGED <<offered, docling, document, row, texts, converted>>

DownloadText(r) ==
    /\ Stands(r, "download")
    /\ Turns(r, [reader[r] EXCEPT !.at = "convert", !.content = document])
    /\ UNCHANGED <<offered, docling, document, row, texts, converted>>

Convert(r) ==
    /\ Stands(r, "convert")
    /\ Turns(r, [reader[r] EXCEPT !.at = "store"])
    /\ converted' = converted \union {reader[r].content}
    /\ UNCHANGED <<offered, docling, document, row, texts>>

\* The download or the conversion fails: the record, marked.
TextFails(r) ==
    /\ Stands(r, "download") \/ Stands(r, "convert")
    /\ Turns(r, [Given(r, row) EXCEPT !.failed = TRUE])
    /\ UNCHANGED <<offered, docling, document, row, texts, converted>>

\* Mutated SetFullText: the text is written into the record's row.
SetFullTextInRow(r) ==
    /\ Stands(r, "store")
    /\ row' = reader[r].content
    /\ Turns(r, Given(r, reader[r].content))
    /\ UNCHANGED <<offered, docling, document, texts, converted>>

SetFullText(r) ==
    /\ Stands(r, "store")
    /\ texts' = reader[r].content
    /\ Turns(r, Given(r, reader[r].content))
    /\ UNCHANGED <<offered, docling, document, row, converted>>

\* A text that cannot be stored is answered all the same.
StoreFails(r) ==
    /\ Stands(r, "store")
    /\ Turns(r, Given(r, reader[r].content))
    /\ UNCHANGED <<offered, docling, document, row, texts, converted>>

TextNext ==
    \/ Republish \/ TextExpires
    \/ \E r \in Readers : \/ ReadRow(r) \/ GetFullText(r) \/ DownloadText(r) \/ Convert(r)
                          \/ TextFails(r) \/ SetFullText(r) \/ StoreFails(r)

TextSpec == TextInit /\ [][TextNext]_textVars

-----------------------------------------------------------------------------
\* A document comes to those who asked for it and to nobody else (#479); only what
\* was converted to its end is answered or kept, so that a failure never passes for
\* a text; and a call that asked for one that can be had is given it or told of the
\* failure, never both and never neither.
TextsAreHonest ==
    /\ TextTypeOK
    /\ texts # 0 => texts \in converted
    /\ \A r \in Readers : Stands(r, "done") =>
          /\ reader[r].text # 0 => reader[r].wants /\ reader[r].text \in converted
          /\ reader[r].wants /\ offered /\ docling => (reader[r].failed <=> reader[r].text = 0)
=============================================================================
