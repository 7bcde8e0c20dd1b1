------------------------------ MODULE CacheOpen ------------------------------
(***************************************************************************)
(* Opening the SQLite cache (src/scholar_mcp/_cache.py): the schema, the    *)
(* two columns that version 2 added, and the one-shot repairs of rows that  *)
(* earlier releases cached wrongly.  A server and a command of the program  *)
(* may open one database at once, and either may be killed at any point.    *)
(*                                                                         *)
(* The driver's transactions matter: ALTER TABLE commits by itself; the     *)
(* INSERT into schema_version begins a transaction, which takes SQLite's    *)
(* write lock, and everything from there to the commit of open() is one     *)
(* transaction.  A row is what the repairs' predicates tell apart.          *)
(***************************************************************************)
EXTENDS Naturals, Sequences, SequencesExt

CONSTANTS Procs,    \* processes that open the database
          NoProc

ASSUME CacheAssumption == NoProc \notin Procs

VARIABLES
    columns,    \* the added columns that the standards table has
    ledger,     \* repairs: the names recorded
    stored,       \* one row per table that a repair is about, see Slots
    texts,      \* standard_full_text: standards whose text is stored
    marker,     \* whether standards_sync_runs holds a commit of ISO
    lock,       \* the process that holds the write lock
    proc,       \* each process, see Closed
    dueTexts,       \* history: texts that were converted and not cleared
    harmed      \* history: rows that a repair changed after it was recorded

db == <<columns, ledger, stored, texts, marker>>
cacheVars == <<db, lock, proc, dueTexts, harmed>>

\* A patent, its legal events, a book, three standards by body, a search.
Slots == {"patents", "patent_legal", "books_isbn", "NIST", "CC", "ISO", "standards_search"}

Standards == {"NIST", "CC", "ISO"}

\* bad: the sign a deleting repair looks for; synced: synced_at is set; text:
\* converted text inside the row; seen (history): the ledger when it was written.
Row(bad, synced, text, seen) == [bad |-> bad, synced |-> synced, text |-> text, seen |-> seen]

Absent == Row("absent", FALSE, FALSE, {})

\* What earlier releases can have left in a slot.
OldRows(slot, seen) ==
    {row \in [bad : {"none", "no_abstract", "lowercase", "no_authors", "foreign"},
              synced : BOOLEAN, text : BOOLEAN, seen : {seen}] :
        /\ row.bad = "no_abstract" => slot = "patents"
        /\ row.bad = "lowercase" => slot \in {"patents", "patent_legal"}
        /\ row.bad = "no_authors" => slot = "books_isbn"
        /\ row.bad = "foreign" => slot = "NIST"
        /\ row.synced => slot \in {"CC", "ISO"}
        /\ row.text => slot \in Standards}

\* What this release writes: no text, no lowercase kind, no foreign identity,
\* and CC rows as synced ones; a book or patent may really lack its list.
NewRows(slot, seen) ==
    {row \in OldRows(slot, seen) :
        /\ ~row.text
        /\ row.bad \notin {"lowercase", "foreign"}
        /\ slot = "CC" => row.synced}

-----------------------------------------------------------------------------
(* _REPAIRS, in the order of the registry.                                  *)

Repairs == <<"399_abstract", "405_legal", "403_authors", "400_nist", "444_kind",
             "479_move", "479_resync", "479_strip",
             "480_marker", "480_live", "480_search", "496_resync">>

\* Rows that a statement deletes.
Deletes(name, slot, row) ==
    \/ name = "399_abstract" /\ slot = "patents" /\ row.bad = "no_abstract"
    \/ name = "405_legal" /\ slot = "patent_legal"
    \/ name = "403_authors" /\ slot = "books_isbn" /\ row.bad = "no_authors"
    \/ name = "400_nist" /\ slot = "NIST" /\ row.bad = "foreign"
    \/ name = "444_kind" /\ row.bad = "lowercase"
    \/ name = "480_live" /\ slot = "ISO" /\ ~row.synced
    \/ name = "480_search" /\ slot = "standards_search"

\* Rows that a statement updates.
Resyncs(name, slot, row) == name \in {"479_resync", "496_resync"} /\ slot = "CC" /\ ~row.synced
Strips(name, slot, row) == name = "479_strip" /\ row.text

Matches(name, slot, row) ==
    row # Absent /\ (Deletes(name, slot, row) \/ Resyncs(name, slot, row) \/ Strips(name, slot, row))

Repaired(name, slot, row) ==
    IF ~Matches(name, slot, row) THEN row
    ELSE IF Deletes(name, slot, row) THEN Absent
    ELSE IF Resyncs(name, slot, row) THEN [row EXCEPT !.synced = TRUE]
    ELSE [row EXCEPT !.text = FALSE]

\* Repairs whose fix ended such rows; the others can match a row that is right.
Fixes == {"400_nist", "444_kind", "479_strip", "496_resync"}

\* A fix and its repairs are of one release: the lengths a ledger can have.
Releases == {0, 1, 2, 3, 4, 5, 8, 11, 12}

Texts(store) == {s \in Standards : store[s] # Absent /\ store[s].text}

\* The effect of one statement on the pages that its transaction has changed.
Apply(name, work) ==
    [stored |-> [s \in Slots |-> Repaired(name, s, work.stored[s])],
     texts |-> IF name = "479_move" THEN work.texts \union Texts(work.stored) ELSE work.texts,
     marker |-> work.marker /\ name # "480_marker"]

-----------------------------------------------------------------------------
NoWork == [stored |-> [s \in Slots |-> Absent], texts |-> {}, marker |-> FALSE]

\* cols: what PRAGMA table_info showed; applied: the names read from the
\* ledger; next: the repair to try; work: the transaction's own view.
Closed == [pc |-> "closed", cols |-> {}, applied |-> {}, next |-> 0, work |-> NoWork]

Turns(p, state) == proc' = [proc EXCEPT ![p] = state]

Reached(p, pc) == proc[p].pc = pc

\* The database of any earlier release: its ledger is a beginning of the
\* registry, and one row of one table is enough to see what becomes of it.
CacheBegins(cols, applied, slot, row, synced) ==
    /\ columns = cols
    /\ ledger = applied
    /\ stored = [s \in Slots |-> IF s = slot THEN row ELSE Absent]
    /\ texts = {}
    /\ marker = synced
    /\ lock = NoProc
    /\ proc = [p \in Procs |-> Closed]
    /\ dueTexts = {t \in Texts(stored) : stored[t].bad # "foreign"}
    /\ harmed = {}

CacheInit ==
    \E cols \in {{}, {"source", "synced_at"}}, k \in Releases, slot \in Slots, synced \in BOOLEAN :
        LET applied == {Repairs[j] : j \in 1..k}
        IN \E row \in OldRows(slot, applied) :
              /\ cols = {} => applied = {} /\ ~row.synced
              /\ \A name \in applied \intersect Fixes : ~Matches(name, slot, row)
              /\ CacheBegins(cols, applied, slot, row, synced)

\* connect, the schema (every statement IF NOT EXISTS, so a kill between two
\* shows as little as one after them), and the columns that are there.
ReadColumns(p) ==
    /\ Reached(p, "closed")
    /\ Turns(p, [Closed EXCEPT !.pc = "alter", !.cols = columns])
    /\ UNCHANGED <<db, lock, dueTexts, harmed>>

\* ALTER TABLE ADD COLUMN, which commits; a column another process has added
\* meanwhile raises.
AddColumn(p, column) ==
    /\ Reached(p, "alter")
    /\ column \notin proc[p].cols
    /\ column = "synced_at" => "source" \in proc[p].cols
    /\ lock = NoProc
    /\ IF column \in columns
       THEN Turns(p, [proc[p] EXCEPT !.pc = "failed"]) /\ UNCHANGED columns
       ELSE /\ columns' = columns \union {column}
            /\ Turns(p, [proc[p] EXCEPT !.cols = @ \union {column}])
    /\ UNCHANGED <<ledger, stored, texts, marker, lock, dueTexts, harmed>>

\* Mutated ReadLedger: the ledger is read before the write lock is taken.
ReadLedgerUnlocked(p) ==
    /\ Reached(p, "alter")
    /\ proc[p].cols = {"source", "synced_at"}
    /\ \/ /\ proc[p].next = 0
          /\ Turns(p, [proc[p] EXCEPT !.applied = ledger, !.next = 1])
          /\ UNCHANGED lock
       \/ /\ proc[p].next = 1
          /\ lock = NoProc
          /\ lock' = p
          /\ Turns(p, [proc[p] EXCEPT !.pc = "repair",
                           !.work = [stored |-> stored, texts |-> texts, marker |-> marker]])
    /\ UNCHANGED <<db, dueTexts, harmed>>

\* The write to schema_version takes the lock, and under it the ledger is read.
ReadLedger(p) ==
    /\ Reached(p, "alter")
    /\ proc[p].cols = {"source", "synced_at"}
    /\ lock = NoProc
    /\ lock' = p
    /\ Turns(p, [proc[p] EXCEPT !.pc = "repair", !.applied = ledger, !.next = 1,
                     !.work = [stored |-> stored, texts |-> texts, marker |-> marker]])
    /\ UNCHANGED <<db, dueTexts, harmed>>

\* Waiting for the lock ends in "database is locked" after the busy timeout.
LockTimesOut(p) ==
    /\ Reached(p, "alter")
    /\ lock \notin {NoProc, p}
    /\ Turns(p, [proc[p] EXCEPT !.pc = "failed"])
    /\ UNCHANGED <<db, lock, dueTexts, harmed>>

Repairing(p) == Reached(p, "repair") /\ proc[p].next <= Len(Repairs)

\* Mutated Repair: the text is stripped where it should have been moved.
RepairStrippingFirst(p) ==
    /\ Repairing(p)
    /\ LET order == SelectSeq(Repairs, LAMBDA n : n # "479_move") \o <<"479_move">>
           name == order[proc[p].next]
       IN Turns(p, [proc[p] EXCEPT !.next = @ + 1,
                        !.work = IF name \in proc[p].applied THEN @ ELSE Apply(name, @)])
    /\ UNCHANGED <<db, lock, dueTexts, harmed>>

\* The next repair, unless the ledger has its name.
Repair(p) ==
    /\ Repairing(p)
    /\ LET name == Repairs[proc[p].next]
       IN /\ Turns(p, [proc[p] EXCEPT !.next = @ + 1,
                           !.work = IF name \in proc[p].applied THEN @ ELSE Apply(name, @)])
          /\ harmed' = harmed \union
               {s \in Slots : /\ name \notin proc[p].applied
                              /\ Matches(name, s, proc[p].work.stored[s])
                              /\ name \in proc[p].work.stored[s].seen}
    /\ UNCHANGED <<db, lock, dueTexts>>

\* The commit of open(): rows, ledger and marker change together.
Commit(p) ==
    /\ Reached(p, "repair") /\ ~Repairing(p)
    /\ stored' = proc[p].work.stored
    /\ texts' = proc[p].work.texts
    /\ marker' = proc[p].work.marker
    /\ ledger' = ledger \union Range(Repairs)
    /\ lock' = NoProc
    /\ Turns(p, [Closed EXCEPT !.pc = "open"])
    /\ UNCHANGED <<columns, dueTexts, harmed>>

-----------------------------------------------------------------------------
\* A tool of an open cache stores a row, a loader's marker with it.  Bound of
\* the model: one row at a time, as no repair relates two.
Write(p, slot) ==
    /\ Reached(p, "open") /\ lock = NoProc
    /\ \A t \in Slots \ {slot} : stored[t] = Absent
    /\ \E row \in NewRows(slot, ledger) : stored' = [stored EXCEPT ![slot] = row]
    /\ marker' = (marker \/ slot = "ISO")
    /\ UNCHANGED <<columns, ledger, texts, lock, proc, dueTexts, harmed>>

\* clear(): every table with a TTL, neither the ledger nor the marker.
ClearCache(p) ==
    /\ Reached(p, "open") /\ lock = NoProc
    /\ stored' = [s \in Slots |-> Absent]
    /\ texts' = {}
    /\ dueTexts' = {}
    /\ UNCHANGED <<columns, ledger, marker, lock, proc, harmed>>

\* close(), or a kill: an open transaction is rolled back.
Leave(p) ==
    /\ ~Reached(p, "closed")
    /\ Turns(p, Closed)
    /\ lock' = IF lock = p THEN NoProc ELSE lock
    /\ UNCHANGED <<db, dueTexts, harmed>>

Open(p) ==
    \/ ReadColumns(p)
    \/ \E column \in {"source", "synced_at"} : AddColumn(p, column)
    \/ ReadLedger(p) \/ LockTimesOut(p) \/ Repair(p) \/ Commit(p)

CacheNext ==
    \E p \in Procs :
        Open(p) \/ (\E s \in Slots : Write(p, s)) \/ ClearCache(p) \/ Leave(p)

CacheSpec == CacheInit /\ [][CacheNext]_cacheVars

-----------------------------------------------------------------------------
\* Once its name is in the ledger, a repair has left no row of those that were
\* there before it: rows and ledger change in one transaction, so no kill can
\* record a repair that was not done.
RecordedMeansDone ==
    \A k \in DOMAIN Repairs : Repairs[k] \in ledger =>
        \A s \in Slots : stored[s] # Absent /\ Repairs[k] \notin stored[s].seen =>
            ~Matches(Repairs[k], s, stored[s])

\* "a row cached afterwards is never touched again", by no repair of any
\* process, although it may look like the rows the repair was for.
NewRowsAreLeft == harmed = {}

\* "no conversion is thrown away": a text that was inside a row is in the row
\* still or in the table of texts, but for the text of a record under a foreign
\* identity, which goes with its row.
NoTextIsLost == dueTexts \subseteq texts \union Texts(stored)

\* A repair runs once over the rows of its time: each of them is repaired when
\* the ledger says so, and no row of a later time is touched.
RepairsRunOnce == RecordedMeansDone /\ NewRowsAreLeft

\* Whoever opens the file and whenever it is killed: each repair runs once, and
\* none loses a converted text.
RepairsAreSafe == RepairsRunOnce /\ NoTextIsLost
=============================================================================
