-------------------------- MODULE CommonCriteriaSync --------------------------
(***************************************************************************)
(* The third loader of sync-standards, CCLoader (_sync_cc.py).  It writes   *)
(* a table of framework documents first, each under its CC and, when it is  *)
(* published twice, its ISO identifier, followed by its aliases; then it    *)
(* fetches the portal's list of Protection Profiles, whose hash decides     *)
(* whether its rows are read at all; then it withdraws profiles that the    *)
(* list has dropped.  Every write is a transaction of its own.              *)
(*                                                                         *)
(* A record is its source and status, the list a version and the status it  *)
(* gives each profile.  The counts of a report are left out.                *)
(***************************************************************************)
EXTENDS Naturals, FiniteSets, Sequences, Functions

CONSTANTS
    Frameworks,     \* the framework table: a sequence of [cc, iso] entries
    Profiles,       \* identifiers of Protection Profiles
    NoIso,          \* the iso of an entry published once
    MayArchive,     \* profiles the portal may archive,
    MaySpoil,       \* and those whose row may lose a required field
    MaxVersion      \* bound of the model: versions of pps.csv

VARIABLES
    pps,        \* pps.csv: its version, what it lists, and unusable rows
    rows,       \* the standards table: CC's part and the shared ISO/IEC rows
    aliased,    \* framework documents whose aliases are stored
    run,        \* standards_sync_runs["CC"]: upstream_ref (0 is NULL), errors
    loader,     \* the coroutine, see Idle
    promised,   \* history: what the recorded list parsed to
    wiped       \* history: ids a clear removed and no sync rewrote

criteriaVars == <<pps, rows, aliased, run, loader, promised, wiped>>

-----------------------------------------------------------------------------
\* _framework_to_records: one record, or two that name each other.
RecordsOf(entry) ==
    IF entry.iso = NoIso THEN <<entry.cc>> ELSE <<entry.cc, entry.iso>>

FrameworkIds == UNION {Range(RecordsOf(Frameworks[k])) : k \in DOMAIN Frameworks}

Ids == FrameworkIds \union Profiles

\* An identifier of a profile begins with its scheme, or with "CC PP"
\* (_extract_pp_id), as none of the table's does.
ASSUME CCAssumption ==
    /\ Len(Frameworks) \in Nat /\ DOMAIN Frameworks = 1..Len(Frameworks)
    /\ \A k \in DOMAIN Frameworks : DOMAIN Frameworks[k] = {"cc", "iso"}
    /\ IsFiniteSet(Profiles) /\ Profiles \intersect (FrameworkIds \union {NoIso}) = {}
    /\ MayArchive \subseteq Profiles /\ MaySpoil \subseteq Profiles
    /\ MaxVersion \in Nat \ {0}

NoRow == [source |-> "none", status |-> "absent"]

\* _pp_row_to_record: the profiles whose rows can be used.
Parsed(csv) == {p \in Profiles : csv.lists[p] # "absent"} \ csv.unusable

\* A row with an archived date is archived.
StatusIn(csv, p) == csv.lists[p]

\* list_synced_standard_ids("CC")
Owned == {i \in Ids : rows[i].source = "CC"}

NoCsv == [version |-> 0, lists |-> [p \in Profiles |-> "absent"], unusable |-> {}]

Idle == [pc |-> "idle", force |-> FALSE,
         prev |-> {},       \* prev_ids
         entry |-> 1,       \* the framework entry to write,
         written |-> 0,     \* and how many of its records are
         csv |-> NoCsv,     \* the list as it was fetched,
         todo |-> {},       \* rows to write, then profiles to withdraw
         marking |-> NoIso, \* the profile whose row the pass has read
         result |-> "none",
         failed |-> FALSE,  \* whether the report has errors
         cleared |-> FALSE] \* history: a clear during the run

Away == loader.pc = "idle"

\* The row of a body in standards_sync_runs: its upstream_ref, or NULL, and the row
\* that replaces it.
GetSyncRun == run.ref
SetSyncRun(ref, errors) == run' = [ref |-> ref, errors |-> errors]

CriteriaInit ==
    /\ pps = [version |-> 1, lists |-> [p \in Profiles |-> "published"], unusable |-> {}]
    /\ rows = [i \in Ids |-> NoRow]
    /\ aliased = {}
    /\ run = [ref |-> 0, errors |-> FALSE]
    /\ loader = Idle
    /\ promised = {}
    /\ wiped = {}

-----------------------------------------------------------------------------
(* Around the loader.                                                       *)

\* The portal publishes another list.
Republish(lists, unusable) ==
    /\ pps.version < MaxVersion
    /\ \A p \in Profiles : lists[p] = "archived" => p \in MayArchive
    /\ pps' = [version |-> pps.version + 1, lists |-> lists, unusable |-> unusable]
    /\ UNCHANGED <<rows, aliased, run, loader, promised, wiped>>

\* The ISO or the IEC loader of the same run writes a shared record.
RelatonWrites(i) ==
    /\ i \in FrameworkIds
    /\ \E k \in DOMAIN Frameworks : Frameworks[k].iso = i
    /\ rows' = [rows EXCEPT ![i] = [source |-> "ISO", status |-> "published"]]
    /\ wiped' = wiped \ {i}
    /\ UNCHANGED <<pps, aliased, run, loader, promised>>

\* scholar-mcp cache clear leaves the recorded run.
Clear ==
    /\ rows' = [i \in Ids |-> NoRow]
    /\ aliased' = {}
    /\ wiped' = Ids
    /\ loader' = [loader EXCEPT !.cleared = ~Away]
    /\ UNCHANGED <<pps, run, promised>>

\* The process is killed; what was committed stays.
Kill ==
    /\ ~Away
    /\ loader' = Idle
    /\ UNCHANGED <<pps, rows, aliased, run, promised, wiped>>

-----------------------------------------------------------------------------
(* CCLoader.sync.                                                           *)

Begin(forced) ==
    /\ Away
    /\ loader' = [Idle EXCEPT !.pc = "framework", !.force = forced,
                              !.prev = Owned]
    /\ UNCHANGED <<pps, rows, aliased, run, promised, wiped>>

Store(i, status) ==
    /\ rows' = [rows EXCEPT ![i] = [source |-> "CC", status |-> status]]
    /\ wiped' = wiped \ {i}

\* Phase 1: the next record of an entry, always rewritten ...
WriteFramework ==
    /\ loader.pc = "framework"
    /\ loader.entry <= Len(Frameworks)
    /\ loader.written < Len(RecordsOf(Frameworks[loader.entry]))
    /\ Store(RecordsOf(Frameworks[loader.entry])[loader.written + 1], "published")
    /\ loader' = [loader EXCEPT !.written = @ + 1]
    /\ UNCHANGED <<pps, aliased, run, promised>>

\* ... and after its records its aliases.
WriteAliases ==
    /\ loader.pc = "framework"
    /\ loader.entry <= Len(Frameworks)
    /\ loader.written = Len(RecordsOf(Frameworks[loader.entry]))
    /\ aliased' = aliased \union {Frameworks[loader.entry].cc}
    /\ loader' = [loader EXCEPT !.entry = @ + 1, !.written = 0]
    /\ UNCHANGED <<pps, rows, run, promised, wiped>>

FrameworkDone == loader.pc = "framework" /\ loader.entry > Len(Frameworks)

\* Mutated Fetch: an unchanged list ends the run before its frameworks.
FetchFirst ==
    /\ loader.pc = "framework"
    /\ LET same == ~loader.force /\ GetSyncRun = pps.version
       IN /\ same \/ FrameworkDone
          /\ loader' = [loader EXCEPT
                 !.csv = pps,
                 !.todo = IF same THEN {} ELSE Parsed(pps),
                 !.failed = ~same /\ pps.unusable # {},
                 !.result = IF same THEN "unchanged" ELSE "full",
                 !.pc = IF same THEN "report" ELSE "profiles"]
    /\ UNCHANGED <<pps, rows, aliased, run, promised, wiped>>

\* Phase 2: the list is fetched and its hash compared with the one the last
\* run recorded.
Fetch ==
    /\ FrameworkDone
    /\ LET same == ~loader.force /\ GetSyncRun = pps.version
       IN loader' = [loader EXCEPT
                 !.csv = pps,
                 !.todo = IF same THEN {} ELSE Parsed(pps),
                 !.failed = ~same /\ pps.unusable # {},
                 !.result = IF same THEN "unchanged" ELSE "full",
                 !.pc = IF same THEN "report" ELSE "profiles"]
    /\ UNCHANGED <<pps, rows, aliased, run, promised, wiped>>

\* The fetch fails: a report of its own, without a hash.  A list that does not
\* decode raises, and the driver reports the same way.
FetchFails ==
    /\ FrameworkDone
    /\ loader' = [loader EXCEPT !.result = "crashed", !.failed = TRUE, !.pc = "report"]
    /\ UNCHANGED <<pps, rows, aliased, run, promised, wiped>>

\* A row of the list.
WriteProfile(p) ==
    /\ loader.pc = "profiles"
    /\ p \in loader.todo
    /\ Store(p, StatusIn(loader.csv, p))
    /\ loader' = [loader EXCEPT !.todo = @ \ {p}]
    /\ UNCHANGED <<pps, aliased, run, promised>>

\* Mutated PlanWithdrawal: the guard counts framework documents as well.
PlanWithdrawalOfAll ==
    /\ loader.pc = "profiles"
    /\ loader.todo = {}
    /\ LET missing == (loader.prev \ FrameworkIds) \ Parsed(loader.csv)
           tooMany == loader.prev # {} /\ 2 * Cardinality(missing) > Cardinality(loader.prev)
       IN loader' = IF tooMany
                    THEN [loader EXCEPT !.failed = TRUE, !.pc = "report"]
                    ELSE [loader EXCEPT !.todo = missing, !.pc = "withdraw"]
    /\ UNCHANGED <<pps, rows, aliased, run, promised, wiped>>

\* Phase 3 counts profiles only: the framework never shrinks.
PlanWithdrawal ==
    /\ loader.pc = "profiles"
    /\ loader.todo = {}
    /\ LET prevPps == loader.prev \ FrameworkIds
           missing == prevPps \ Parsed(loader.csv)
           tooMany == prevPps # {} /\ 2 * Cardinality(missing) > Cardinality(prevPps)
       IN loader' = IF tooMany
                    THEN [loader EXCEPT !.failed = TRUE, !.pc = "report"]
                    ELSE [loader EXCEPT !.todo = missing, !.pc = "withdraw"]
    /\ UNCHANGED <<pps, rows, aliased, run, promised, wiped>>

\* The row of a missing profile is read; one that is gone is skipped ...
ReadMissing(p) ==
    /\ loader.pc = "withdraw"
    /\ loader.marking = NoIso
    /\ p \in loader.todo
    /\ loader' = [loader EXCEPT !.todo = @ \ {p},
                                !.marking = IF rows[p] = NoRow THEN NoIso ELSE p]
    /\ UNCHANGED <<pps, rows, aliased, run, promised, wiped>>

\* ... and written back as withdrawn.
MarkWithdrawn ==
    /\ loader.marking # NoIso
    /\ Store(loader.marking, "withdrawn")
    /\ loader' = [loader EXCEPT !.marking = NoIso]
    /\ UNCHANGED <<pps, aliased, run, promised>>

Withdrawn ==
    /\ loader.pc = "withdraw"
    /\ loader.todo = {} /\ loader.marking = NoIso
    /\ loader' = [loader EXCEPT !.pc = "report"]
    /\ UNCHANGED <<pps, rows, aliased, run, promised, wiped>>

\* The driver stores the report over the last one (set_sync_run).
Report ==
    /\ loader.pc = "report"
    /\ SetSyncRun(IF loader.result = "crashed" THEN 0 ELSE loader.csv.version, loader.failed)
    /\ promised' = CASE loader.result = "full" -> Parsed(loader.csv)
                     [] loader.result = "crashed" -> {}
                     [] OTHER -> promised
    /\ loader' = Idle
    /\ UNCHANGED <<pps, rows, aliased, wiped>>

Loader ==
    \/ WriteFramework \/ WriteAliases \/ Fetch \/ FetchFails
    \/ \E p \in Profiles : WriteProfile(p) \/ ReadMissing(p)
    \/ PlanWithdrawal \/ MarkWithdrawn \/ Withdrawn \/ Report

CriteriaNext ==
    \/ \E lists \in [Profiles -> {"absent", "published", "archived"}] :
          \E unusable \in SUBSET {p \in MaySpoil : lists[p] # "absent"} :
             Republish(lists, unusable)
    \/ \E i \in FrameworkIds : RelatonWrites(i)
    \/ Clear
    \/ \E forced \in BOOLEAN : Begin(forced)
    \/ Loader
    \/ Kill

CriteriaSpec == CriteriaInit /\ [][CriteriaNext]_criteriaVars

-----------------------------------------------------------------------------
\* The recorded hash is worth skipping a list for: each profile of that list is
\* a stored row of CC, whatever was killed since, unless a clear removed it.
MarkerMeansProfiles == \A p \in promised \ wiped : rows[p].source = "CC"

\* Every report, that of an unchanged list or of a failed fetch too, leaves the
\* framework documents under both their identifiers, and their aliases, even
\* where a clear emptied the table since the last run.
ReportMeansFrameworks ==
    loader.pc = "report" /\ ~loader.cleared =>
        /\ \A i \in FrameworkIds : rows[i].status = "published"
        /\ \A k \in DOMAIN Frameworks : Frameworks[k].cc \in aliased

\* A report without errors on a list that was read means the profiles' rows say
\* what the list says, and withdrawn when it has dropped them.
CleanReportAgrees ==
    loader.pc = "report" /\ loader.result = "full" /\ ~loader.failed /\ ~loader.cleared =>
        \A p \in Profiles :
            IF p \in Parsed(loader.csv) THEN rows[p].status = StatusIn(loader.csv, p)
            ELSE rows[p].status \in {"absent", "withdrawn"}

\* A pass withdraws at most half of the profiles CC had when the run started.
HalfAtMost ==
    loader.pc = "withdraw" =>
        2 * Cardinality(loader.todo) <= Cardinality(loader.prev \ FrameworkIds)

\* The recorded hash stands for stored profiles, a clean report for rows that say
\* what the list says, a pass takes at most half of the profiles, and whatever a
\* run reports, its framework documents are stored.
CriteriaSyncIsTrue ==
    MarkerMeansProfiles /\ CleanReportAgrees /\ HalfAtMost /\ ReportMeansFrameworks
=============================================================================
