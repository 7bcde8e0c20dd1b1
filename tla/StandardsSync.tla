---------------------------- MODULE StandardsSync ----------------------------
(***************************************************************************)
(* sync-standards: one loader per standards body copies what its upstream   *)
(* publishes into the standards table (src/scholar_mcp/_standards_sync.py,  *)
(* _sync_relaton.py, _sync_cen.py and the standards part of _cache.py).     *)
(* The loaders of one run are concurrent coroutines that share the table    *)
(* and one connection.  A loader that reads GitHub writes its records in    *)
(* one batch; one that copies a table of the program (CEN) writes them one  *)
(* by one.  The process may be killed at every await.                       *)
(*                                                                         *)
(* Records are reduced to their status.  An upstream commit is a version,   *)
(* the identifiers it publishes and those among them whose file cannot be   *)
(* parsed; tarball/{sha} is immutable, so a loader sees the commit it asked *)
(* for even when upstream moves on.  The counts of a report are left out,   *)
(* and so is the expiry of live rows and aliases, which no loader acts on.  *)
(***************************************************************************)
EXTENDS Naturals, FiniteSets

CONSTANTS
    Bodies,         \* standards bodies, one loader each
    Ids,            \* canonical identifiers
    NoBody, NoId,
    MayPublish,     \* what a body's upstream can contain
    Fragile,        \* ids whose file upstream may break
    MaxVersion,     \* bound of the model: upstream commits of one body
    Scenes          \* bounds of the model: what a behaviour is about, see scene

ASSUME BodiesAssumption ==
    /\ NoBody \notin Bodies
    /\ NoId \notin Ids
    /\ MayPublish \in [Bodies -> SUBSET Ids]
    /\ Fragile \subseteq Ids
    /\ IsFiniteSet(Ids)
    /\ MaxVersion \in Nat \ {0}
    /\ Scenes \subseteq [bodies : SUBSET Bodies, tables : SUBSET Bodies, ids : SUBSET Ids,
                        commits : 1..MaxVersion]

VARIABLES
    scene,      \* for good: the bodies that are synced, those whose upstream is a
                \* table in the program, the ids there are and the last commit
    version, published, broken,   \* upstream: the commit, its ids, unparseable ones
    rows,       \* the standards table
    aliased,    \* ids whose aliases a sync has stored
    runs,       \* standards_sync_runs: upstream_ref (0 is NULL) and errors
    force,      \* the flag of the current run
    loader,     \* the coroutine of each body, see NoRun
    promised,   \* history: what the recorded upstream_ref's commit parsed to
    wiped       \* history: ids that a clear removed and no sync rewrote

upstream == <<scene, version, published, broken>>
tables == scene.tables
store == <<rows, aliased, runs>>
history == <<promised, wiped>>
vars == <<upstream, store, force, loader, history>>

Rows == [kind : {"absent", "live", "synced"},
         source : Bodies \union {NoBody},
         status : {"published", "withdrawn"}]

NoRow == [kind |-> "absent", source |-> NoBody, status |-> "published"]

LiveRow == [kind |-> "live", source |-> NoBody, status |-> "published"]

\* A loader that does not run.
NoRun == [pc |-> "idle",
          sha |-> 0,          \* the commit it reads,
          want |-> {},        \* that commit's ids,
          parsed |-> {},      \* those whose file is parsed
          prev |-> {},        \* prev_ids
          todo |-> {},        \* ids still to write, then still to withdraw
          marking |-> NoId,   \* the id whose row the withdrawal pass has read
          result |-> "none",  \* how its report came about,
          failed |-> FALSE,   \* and whether that has errors
          known |-> {}]       \* history: the body's synced ids at the start

Loaders ==
    [pc : {"idle", "head", "snapshot", "write", "alias", "withdraw", "mark", "report"},
     sha : 0..MaxVersion,
     want : SUBSET Ids, parsed : SUBSET Ids, prev : SUBSET Ids, todo : SUBSET Ids,
     marking : Ids \union {NoId},
     result : {"none", "unchanged", "full", "crashed"},
     failed : BOOLEAN,
     known : SUBSET Ids]

TypeOK ==
    /\ scene \in Scenes
    /\ version \in [Bodies -> 1..MaxVersion]
    /\ published \in [Bodies -> SUBSET Ids]
    /\ broken \in [Bodies -> SUBSET Ids]
    /\ rows \in [Ids -> Rows]
    /\ aliased \in SUBSET Ids
    /\ runs \in [Bodies -> [ref : 0..MaxVersion, errors : BOOLEAN]]
    /\ force \in BOOLEAN
    /\ loader \in [Bodies -> Loaders]
    /\ \A b \in Bodies : loader[b].pc = "mark" <=> loader[b].marking # NoId
    /\ promised \in [Bodies -> SUBSET Ids]
    /\ wiped \in SUBSET Ids

-----------------------------------------------------------------------------
Synced(i) == rows[i].kind = "synced"

\* cache.list_synced_standard_ids(source=b)
SyncedIds(b) == {i \in Ids : Synced(i) /\ rows[i].source = b}

\* A sync write replaces whatever the row holds (_WRITE_STANDARD).
SyncedRow(b, status) == [kind |-> "synced", source |-> b, status |-> status]

WriteRows(b, ids) ==
    rows' = [i \in Ids |-> IF i \in ids THEN SyncedRow(b, "published") ELSE rows[i]]

At(b, place) == loader[b].pc = place

Becomes(b, state) == loader' = [loader EXCEPT ![b] = state]

NobodyRuns == \A b \in Bodies : At(b, "idle")

\* More than half of what the body had is missing: likely a partial dump.
TooMany(missing, b) ==
    loader[b].prev # {} /\ 2 * Cardinality(missing) > Cardinality(loader[b].prev)

\* The withdrawal pass goes on with the ids left, or is over.
NextMissing(left) == IF left = {} THEN "report" ELSE "withdraw"

Init ==
    /\ scene \in Scenes
    /\ version = [b \in Bodies |-> 1]
    /\ published = [b \in Bodies |-> MayPublish[b] \intersect scene.ids]
    /\ broken = [b \in Bodies |-> {}]
    /\ rows = [i \in Ids |-> NoRow]
    /\ aliased = {}
    /\ runs = [b \in Bodies |-> [ref |-> 0, errors |-> FALSE]]
    /\ force = FALSE
    /\ loader = [b \in Bodies |-> NoRun]
    /\ promised = [b \in Bodies |-> {}]
    /\ wiped = {}

-----------------------------------------------------------------------------
(* What happens around the loaders.                                         *)

\* Upstream commits; a table moves with a release, between two runs.
Publish(b, ids, bad) ==
    /\ b \in scene.bodies /\ ids \subseteq scene.ids
    /\ version[b] < scene.commits
    /\ b \in tables => bad = {} /\ NobodyRuns
    /\ version' = [version EXCEPT ![b] = @ + 1]
    /\ published' = [published EXCEPT ![b] = ids]
    /\ broken' = [broken EXCEPT ![b] = bad]
    /\ UNCHANGED <<scene, store, force, loader, history>>

\* Mutated LiveWrite: the upsert without its WHERE.
LiveWriteOver(i) ==
    /\ i \in scene.ids
    /\ rows' = [rows EXCEPT ![i] = LiveRow]
    /\ UNCHANGED <<upstream, aliased, runs, force, loader, history>>

\* A lookup of the server caches what it fetched (set_standard without
\* synced), which leaves a synced row alone.
LiveWrite(i) ==
    /\ i \in scene.ids
    /\ rows' = [rows EXCEPT ![i] = IF Synced(i) THEN @ ELSE LiveRow]
    /\ UNCHANGED <<upstream, aliased, runs, force, loader, history>>

\* scholar-mcp cache clear: every table with a TTL, sync_runs is none.
Clear ==
    /\ rows' = [i \in Ids |-> NoRow]
    /\ aliased' = {}
    /\ wiped' = Ids
    /\ UNCHANGED <<upstream, runs, force, loader, promised>>

-----------------------------------------------------------------------------
(* One run: run_sync starts the selected loaders and gathers their reports. *)

RunSync(selected, forced) ==
    /\ selected \subseteq scene.bodies
    /\ NobodyRuns
    /\ loader' = [b \in Bodies |-> IF b \in selected
                                   THEN [NoRun EXCEPT !.pc = "head"] ELSE NoRun]
    /\ force' = forced
    /\ UNCHANGED <<upstream, store, history>>

\* The commit (or the hash of the table) against the recorded one.
HeadSha(b) ==
    /\ At(b, "head")
    /\ LET same == ~force /\ runs[b].ref = version[b]
       IN Becomes(b, [loader[b] EXCEPT
                 !.sha = version[b],
                 !.want = published[b],
                 !.parsed = published[b] \ broken[b],
                 !.known = SyncedIds(b),
                 !.result = IF same THEN "unchanged" ELSE "full",
                 !.pc = IF same THEN "report" ELSE "snapshot"])
    /\ UNCHANGED <<upstream, store, force, history>>

\* Mutated Snapshot: the aliases go first.
SnapshotAliasing(b) ==
    /\ At(b, "snapshot")
    /\ Becomes(b, [loader[b] EXCEPT !.prev = SyncedIds(b),
                                    !.todo = loader[b].parsed,
                                    !.pc = "write"])
    /\ aliased' = aliased \union loader[b].parsed
    /\ UNCHANGED <<upstream, rows, runs, force, history>>

\* prev_ids, before anything is written.
Snapshot(b) ==
    /\ At(b, "snapshot")
    /\ Becomes(b, [loader[b] EXCEPT !.prev = SyncedIds(b),
                                    !.todo = loader[b].parsed,
                                    !.pc = "write"])
    /\ UNCHANGED <<upstream, store, force, history>>

\* A request to GitHub fails: the loader raises, run_sync reports for it.
Crash(b) ==
    /\ At(b, "head") \/ At(b, "write")
    /\ b \notin tables
    /\ Becomes(b, [loader[b] EXCEPT !.result = "crashed",
                                    !.failed = TRUE,
                                    !.pc = "report"])
    /\ UNCHANGED <<upstream, store, force, history>>

Written(b) ==
    /\ Becomes(b, [loader[b] EXCEPT !.todo = {},
                                    !.failed = loader[b].parsed # loader[b].want,
                                    !.pc = "alias"])
    /\ wiped' = wiped \ loader[b].todo
    /\ UNCHANGED <<upstream, aliased, runs, force, promised>>

\* Mutated WriteBatch: rows that exist are left as they are.
WriteBatchNew(b) ==
    /\ At(b, "write")
    /\ b \notin tables
    /\ WriteRows(b, {i \in loader[b].todo : ~Synced(i)})
    /\ Written(b)

\* Mutated WriteBatch: prev_ids are listed after the records are written.
WriteBatchSnapshot(b) ==
    /\ At(b, "write")
    /\ b \notin tables
    /\ WriteRows(b, loader[b].todo)
    /\ Becomes(b, [loader[b] EXCEPT !.todo = {},
                                    !.failed = loader[b].parsed # loader[b].want,
                                    !.prev = SyncedIds(b) \union loader[b].todo,
                                    !.pc = "alias"])
    /\ wiped' = wiped \ loader[b].todo
    /\ UNCHANGED <<upstream, aliased, runs, force, promised>>

\* The tarball is read, and its records are written in one transaction
\* (set_standards_batch).
WriteBatch(b) ==
    /\ At(b, "write")
    /\ b \notin tables
    /\ WriteRows(b, loader[b].todo)
    /\ Written(b)

\* Mutated PlanWithdrawal: an aborted pass is not reported.
PlanWithdrawalSilently(b) ==
    LET missing == loader[b].prev \ loader[b].parsed
    IN Becomes(b, IF TooMany(missing, b)
                  THEN [loader[b] EXCEPT !.pc = "report"]
                  ELSE [loader[b] EXCEPT !.todo = missing, !.pc = NextMissing(missing)])

\* The withdrawal pass is decided without an await after the last write.
PlanWithdrawal(b) ==
    LET missing == loader[b].prev \ loader[b].parsed
    IN Becomes(b, IF TooMany(missing, b)
                  THEN [loader[b] EXCEPT !.failed = TRUE, !.pc = "report"]
                  ELSE [loader[b] EXCEPT !.todo = missing, !.pc = NextMissing(missing)])

\* set_standard_aliases_batch
WriteAliases(b) ==
    /\ At(b, "alias")
    /\ aliased' = aliased \union loader[b].parsed
    /\ PlanWithdrawal(b)
    /\ UNCHANGED <<upstream, rows, runs, force, history>>

\* CENLoader: record by record, no aliases.
WriteOne(b, i) ==
    /\ At(b, "write")
    /\ b \in tables
    /\ i \in loader[b].todo
    /\ WriteRows(b, {i})
    /\ wiped' = wiped \ {i}
    /\ Becomes(b, [loader[b] EXCEPT !.todo = @ \ {i}])
    /\ UNCHANGED <<upstream, aliased, runs, force, promised>>

WroteAll(b) ==
    /\ At(b, "write")
    /\ b \in tables
    /\ loader[b].todo = {}
    /\ PlanWithdrawal(b)
    /\ UNCHANGED <<upstream, store, force, history>>

\* The pass reads a missing id's row; one that is gone is skipped ...
ReadMissing(b, i) ==
    /\ At(b, "withdraw")
    /\ i \in loader[b].todo
    /\ LET left == loader[b].todo \ {i}
       IN Becomes(b, IF rows[i] = NoRow
                     THEN [loader[b] EXCEPT !.todo = left, !.pc = NextMissing(left)]
                     ELSE [loader[b] EXCEPT !.todo = left, !.marking = i, !.pc = "mark"])
    /\ UNCHANGED <<upstream, store, force, history>>

\* ... and, an await later, written back as withdrawn.
MarkWithdrawn(b) ==
    /\ At(b, "mark")
    /\ rows' = [rows EXCEPT ![loader[b].marking] = SyncedRow(b, "withdrawn")]
    /\ Becomes(b, [loader[b] EXCEPT !.marking = NoId,
                                    !.pc = NextMissing(loader[b].todo)])
    /\ UNCHANGED <<upstream, aliased, runs, force, history>>

\* The coroutine is over; the last one ends the run.
LoaderEnds(b) ==
    /\ Becomes(b, NoRun)
    /\ force' = (force /\ \E c \in Bodies \ {b} : ~At(c, "idle"))
    /\ UNCHANGED <<upstream, rows, aliased, wiped>>

\* Mutated Report: the report of a crash has the commit it saw.
ReportWithRef(b) ==
    /\ At(b, "report")
    /\ runs' = [runs EXCEPT ![b] = [ref |-> loader[b].sha,
                                    errors |-> loader[b].failed]]
    /\ promised' = [promised EXCEPT ![b] =
                      IF loader[b].result = "unchanged" THEN @ ELSE loader[b].parsed]
    /\ LoaderEnds(b)

\* set_sync_run: the report replaces the body's row.
Report(b) ==
    /\ At(b, "report")
    /\ runs' = [runs EXCEPT ![b] =
                  [ref |-> IF loader[b].result = "crashed" THEN 0 ELSE loader[b].sha,
                   errors |-> loader[b].failed]]
    /\ promised' = [promised EXCEPT ![b] =
                      IF loader[b].result = "full" THEN loader[b].parsed
                      ELSE IF loader[b].result = "crashed" THEN {} ELSE @]
    /\ LoaderEnds(b)

\* The process is killed; what was committed stays.
Kill ==
    /\ ~NobodyRuns
    /\ loader' = [b \in Bodies |-> NoRun]
    /\ force' = FALSE
    /\ UNCHANGED <<upstream, store, history>>

Loader(b) ==
    \/ HeadSha(b) \/ Snapshot(b) \/ Crash(b)
    \/ WriteBatch(b) \/ WriteAliases(b)
    \/ \E i \in Ids : WriteOne(b, i)
    \/ WroteAll(b)
    \/ \E i \in Ids : ReadMissing(b, i)
    \/ MarkWithdrawn(b) \/ Report(b)

Next ==
    \/ \E b \in Bodies : \E ids \in SUBSET MayPublish[b] :
          \E bad \in SUBSET (ids \intersect Fragile) : Publish(b, ids, bad)
    \/ \E i \in Ids : LiveWrite(i)
    \/ Clear
    \/ \E forced \in BOOLEAN :
          \/ RunSync(Bodies, forced)
          \/ \E b \in Bodies : RunSync({b}, forced)
    \/ \E b \in Bodies : Loader(b)
    \/ Kill

Spec == Init /\ [][Next]_vars

-----------------------------------------------------------------------------
\* Ids that only body b publishes.
Own(b) == {i \in Ids : \A c \in Bodies : i \in MayPublish[c] <=> c = b}

\* The upstream_ref recorded for a body is worth skipping a sync for: every
\* record its commit parsed to is a synced row, whatever runs were killed or
\* crashed since and whatever the server cached, unless a clear removed it.
MarkerMeansStored ==
    \A b \in Bodies : \A i \in promised[b] \ wiped : Synced(i)

\* While upstream stands where it was recorded and no run is under way, the
\* records of that commit are not withdrawn (body's own ids; a joint id is
\* withdrawn by whichever body drops it).
UpToDateMeansPublished ==
    NobodyRuns =>
        \A b \in Bodies : runs[b].ref = version[b] =>
            \A i \in (promised[b] \intersect Own(b)) \ wiped :
                rows[i].status = "published"

\* A withdrawal pass is at most half of what the body had when its loader
\* started, whatever the run has added meanwhile (the 50% guard and the early
\* snapshot of prev_ids).
WithdrawalsAreGuarded ==
    \A b \in Bodies : At(b, "withdraw") =>
        2 * Cardinality(loader[b].todo) <= Cardinality(loader[b].known)

\* Aliases are stored after the records they lead to: a kill between the two
\* batches leaves no alias without its record.
AliasesLeadToRows == \A i \in aliased \ wiped : Synced(i)

\* A full report without errors means the body's own rows now say what its
\* commit says: published if it is in it, withdrawn if not.
CleanReport(b) == At(b, "report") /\ loader[b].result = "full" /\ ~loader[b].failed

CleanRunAgrees ==
    \A b \in Bodies : CleanReport(b) =>
        \A i \in Own(b) : Synced(i) =>
            (rows[i].status = "published" <=> i \in loader[b].want)

\* What a sync run says of itself is true, whichever bodies run together.
SyncIsTrue ==
    /\ MarkerMeansStored /\ UpToDateMeansPublished
    /\ WithdrawalsAreGuarded
    /\ CleanRunAgrees

\* docs/use/standards.md:14 "Only a sync replaces a synced record": a synced
\* row stays one until a clear.
SyncedStaysSynced ==
    [][\A i \in Ids : Synced(i) => Synced(i)' \/ i \in wiped']_vars

-----------------------------------------------------------------------------
(* What the documentation says and the code does not keep.                  *)

\* docs/use/standards.md:133 on an aborted withdrawal pass: "Run `--force`
\* after confirming upstream state is sane": a forced run that gets through
\* withdraws what upstream no longer has.
ForceWithdraws ==
    \A b \in Bodies : At(b, "report") /\ loader[b].result = "full" /\ force =>
        \A i \in loader[b].known \ loader[b].want :
            Synced(i) /\ rows[i].source = b => rows[i].status = "withdrawn"

=============================================================================
