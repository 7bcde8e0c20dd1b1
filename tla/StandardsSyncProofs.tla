------------------------- MODULE StandardsSyncProofs -------------------------
(* Theorems about StandardsSync, for all bodies, identifiers and commits,    *)
(* and about RelatonRecords, for all files.                                  *)
EXTENDS StandardsSync, RelatonRecords, FiniteSetTheorems, WellFoundedInduction, TLAPS

USE DEF tables

\* What TypeOK says of one loader.
Proper(l) == l \in Loaders /\ (l.pc = "mark" <=> l.marking # NoId)

\* The withdrawal pass goes on reading or reports.
LEMMA NextMissingPlace ==
    ASSUME NEW left
    PROVE  NextMissing(left) \in {"report", "withdraw"}
BY DEF NextMissing

\* The synced ids of a body are ids.
LEMMA SyncedIdsAreIds == ASSUME NEW b PROVE SyncedIds(b) \subseteq Ids
BY DEF SyncedIds

\* One loader changes: the others stay what they are.
LEMMA BecomesProper ==
    ASSUME TypeOK, NEW b \in Bodies, NEW l, Proper(l), Becomes(b, l)
    PROVE  /\ loader' \in [Bodies -> Loaders]
           /\ \A c \in Bodies : loader'[c].pc = "mark" <=> loader'[c].marking # NoId
BY DEF TypeOK, Becomes, Proper

\* Deciding the withdrawal pass leaves a proper loader.
LEMMA PlanWithdrawalProper ==
    ASSUME TypeOK, NEW b \in Bodies, PlanWithdrawal(b), ~At(b, "mark")
    PROVE  /\ loader' \in [Bodies -> Loaders]
           /\ \A c \in Bodies : loader'[c].pc = "mark" <=> loader'[c].marking # NoId
<1> DEFINE missing == loader[b].prev \ loader[b].parsed
           stopped == [loader[b] EXCEPT !.failed = TRUE, !.pc = "report"]
           goesOn == [loader[b] EXCEPT !.todo = missing, !.pc = NextMissing(missing)]
<1>1. loader[b] \in Loaders /\ loader[b].marking = NoId
    BY DEF TypeOK, At
<1>2. Proper(stopped)
    BY <1>1 DEF Proper, Loaders
<1>3. Proper(goesOn)
    BY <1>1, NextMissingPlace DEF Proper, Loaders
<1>4. Becomes(b, IF TooMany(missing, b) THEN stopped ELSE goesOn)
    BY DEF PlanWithdrawal
<1> HIDE DEF stopped, goesOn, missing
<1>5. QED
    BY <1>2, <1>3, <1>4, BecomesProper

\* Every reachable state is well typed.
THEOREM TypeCorrect == Spec => []TypeOK
<1>1. Init => TypeOK
    <2> SUFFICES ASSUME Init PROVE TypeOK
        OBVIOUS
    <2>1. NoRun \in Loaders /\ NoRun.pc # "mark" /\ NoRun.marking = NoId
        BY BodiesAssumption DEF NoRun, Loaders
    <2>2. loader \in [Bodies -> Loaders]
        BY <2>1 DEF Init
    <2>3. \A b \in Bodies : loader[b].pc = "mark" <=> loader[b].marking # NoId
        BY <2>1 DEF Init
    <2>4. rows \in [Ids -> Rows]
        BY DEF Init, Rows, NoRow
    <2>5. runs \in [Bodies -> [ref : 0..MaxVersion, errors : BOOLEAN]]
        BY BodiesAssumption DEF Init
    <2>6. /\ version \in [Bodies -> 1..MaxVersion]
          /\ published \in [Bodies -> SUBSET Ids]
          /\ broken \in [Bodies -> SUBSET Ids]
          /\ promised \in [Bodies -> SUBSET Ids]
        BY BodiesAssumption DEF Init
    <2>7. QED
        BY <2>2, <2>3, <2>4, <2>5, <2>6 DEF Init, TypeOK
<1>2. TypeOK /\ [Next]_vars => TypeOK'
    <2> SUFFICES ASSUME TypeOK, [Next]_vars PROVE TypeOK'
        OBVIOUS
    <2> USE BodiesAssumption DEF upstream, store, history
    <2>1. ASSUME NEW b \in Bodies, NEW ids \in SUBSET MayPublish[b],
                 NEW bad \in SUBSET (ids \intersect Fragile), Publish(b, ids, bad)
          PROVE  TypeOK'
        <3>1. ids \subseteq Ids /\ bad \subseteq Ids
            OBVIOUS
        <3>2. version' \in [Bodies -> 1..MaxVersion]
            <4>1. version[b] + 1 \in 1..MaxVersion
                <5>1. scene.commits \in 1..MaxVersion
                    BY DEF TypeOK
                <5>2. QED
                    BY <2>1, <5>1 DEF Publish, TypeOK
            <4>2. QED
                BY <2>1, <4>1 DEF Publish, TypeOK
        <3>3. QED
            BY <2>1, <3>1, <3>2 DEF Publish, TypeOK
    <2>2. ASSUME NEW i \in Ids, LiveWrite(i) PROVE TypeOK'
        BY <2>2 DEF LiveWrite, Rows, LiveRow, Synced, TypeOK
    <2>3. CASE Clear
        BY <2>3 DEF Clear, Rows, NoRow, TypeOK
    <2>4. ASSUME NEW selected, NEW forced \in BOOLEAN, RunSync(selected, forced)
          PROVE  TypeOK'
        <3>1. NoRun \in Loaders /\ NoRun.pc # "mark" /\ NoRun.marking = NoId
            BY DEF NoRun, Loaders
        <3> DEFINE start == [NoRun EXCEPT !.pc = "head"]
        <3>2. start \in Loaders /\ start.pc # "mark" /\ start.marking = NoId
            BY <3>1 DEF Loaders
        <3>3. loader' = [b \in Bodies |-> IF b \in selected THEN start ELSE NoRun]
            BY <2>4 DEF RunSync
        <3> HIDE DEF start
        <3>4. loader' \in [Bodies -> Loaders]
            BY <3>1, <3>2, <3>3
        <3>5. \A b \in Bodies : loader'[b].pc = "mark" <=> loader'[b].marking # NoId
            BY <3>1, <3>2, <3>3
        <3>6. QED
            BY <2>4, <3>4, <3>5 DEF RunSync, TypeOK
    <2>5. ASSUME NEW b \in Bodies, Loader(b) PROVE TypeOK'
        <3>0. loader[b] \in Loaders /\ (At(b, "mark") <=> loader[b].marking # NoId)
            BY DEF TypeOK, At
        <3>1. CASE HeadSha(b)
            <4> DEFINE same == ~force /\ runs[b].ref = version[b]
                       next == [loader[b] EXCEPT
                                   !.sha = version[b],
                                   !.want = published[b],
                                   !.parsed = published[b] \ broken[b],
                                   !.known = SyncedIds(b),
                                   !.result = IF same THEN "unchanged" ELSE "full",
                                   !.pc = IF same THEN "report" ELSE "snapshot"]
            <4>1. Proper(next)
                <5>1. version[b] \in 0..MaxVersion /\ published[b] \subseteq Ids
                    BY DEF TypeOK
                <5>2. loader[b].marking = NoId
                    BY <3>0, <3>1 DEF HeadSha, At
                <5> HIDE DEF same
                <5>3. QED
                    BY <3>0, <5>1, <5>2, SyncedIdsAreIds DEF Proper, Loaders
            <4>2. Becomes(b, next)
                BY <3>1 DEF HeadSha
            <4> HIDE DEF next
            <4>3. QED
                BY <3>1, <4>1, <4>2, BecomesProper DEF HeadSha, TypeOK
        <3>2. CASE Snapshot(b)
            <4> DEFINE next == [loader[b] EXCEPT !.prev = SyncedIds(b),
                                                 !.todo = loader[b].parsed,
                                                 !.pc = "write"]
            <4>1. Proper(next)
                BY <3>0, <3>2, SyncedIdsAreIds DEF Proper, Loaders, Snapshot, At
            <4>2. Becomes(b, next)
                BY <3>2 DEF Snapshot
            <4> HIDE DEF next
            <4>3. QED
                BY <3>2, <4>1, <4>2, BecomesProper DEF Snapshot, TypeOK
        <3>3. CASE Crash(b)
            <4> DEFINE next == [loader[b] EXCEPT !.result = "crashed",
                                                 !.failed = TRUE,
                                                 !.pc = "report"]
            <4>1. Proper(next)
                BY <3>0, <3>3 DEF Proper, Loaders, Crash, At
            <4>2. Becomes(b, next)
                BY <3>3 DEF Crash
            <4> HIDE DEF next
            <4>3. QED
                BY <3>3, <4>1, <4>2, BecomesProper DEF Crash, TypeOK
        <3>4. CASE WriteBatch(b)
            <4> DEFINE next == [loader[b] EXCEPT
                                   !.todo = {},
                                   !.failed = loader[b].parsed # loader[b].want,
                                   !.pc = "alias"]
            <4>1. Proper(next)
                BY <3>0, <3>4 DEF Proper, Loaders, WriteBatch, At
            <4>2. Becomes(b, next)
                BY <3>4 DEF WriteBatch, Written
            <4>3. rows' \in [Ids -> Rows]
                BY <3>4 DEF WriteBatch, WriteRows, SyncedRow, Rows, TypeOK
            <4> HIDE DEF next
            <4>4. QED
                BY <3>4, <4>1, <4>2, <4>3, BecomesProper
                DEF WriteBatch, Written, TypeOK
        <3>5. CASE WriteAliases(b)
            BY <3>0, <3>5, PlanWithdrawalProper DEF WriteAliases, At, TypeOK, Loaders
        <3>6. ASSUME NEW i \in Ids, WriteOne(b, i) PROVE TypeOK'
            <4> DEFINE next == [loader[b] EXCEPT !.todo = @ \ {i}]
            <4>1. Proper(next)
                BY <3>0, <3>6 DEF Proper, Loaders, WriteOne, At
            <4>2. Becomes(b, next)
                BY <3>6 DEF WriteOne
            <4>3. rows' \in [Ids -> Rows]
                BY <3>6 DEF WriteOne, WriteRows, SyncedRow, Rows, TypeOK
            <4> HIDE DEF next
            <4>4. QED
                BY <3>6, <4>1, <4>2, <4>3, BecomesProper DEF WriteOne, TypeOK
        <3>7. CASE WroteAll(b)
            BY <3>7, PlanWithdrawalProper DEF WroteAll, At, TypeOK
        <3>8. ASSUME NEW i \in Ids, ReadMissing(b, i) PROVE TypeOK'
            <4> DEFINE left == loader[b].todo \ {i}
                       skip == [loader[b] EXCEPT !.todo = left, !.pc = NextMissing(left)]
                       take == [loader[b] EXCEPT !.todo = left, !.marking = i,
                                                 !.pc = "mark"]
            <4>1. Proper(skip)
                BY <3>0, <3>8, NextMissingPlace DEF Proper, Loaders, ReadMissing, At
            <4>2. Proper(take)
                BY <3>0, <3>8 DEF Proper, Loaders, ReadMissing, At
            <4>3. Becomes(b, IF rows[i] = NoRow THEN skip ELSE take)
                BY <3>8 DEF ReadMissing
            <4> HIDE DEF left, skip, take
            <4>4. QED
                BY <3>8, <4>1, <4>2, <4>3, BecomesProper DEF ReadMissing, TypeOK
        <3>9. CASE MarkWithdrawn(b)
            <4> DEFINE next == [loader[b] EXCEPT !.marking = NoId,
                                                 !.pc = NextMissing(loader[b].todo)]
            <4>1. Proper(next)
                BY <3>0, <3>9, NextMissingPlace DEF Proper, Loaders, MarkWithdrawn, At
            <4>2. Becomes(b, next)
                BY <3>9 DEF MarkWithdrawn
            <4>3. rows' \in [Ids -> Rows]
                BY <3>9 DEF MarkWithdrawn, SyncedRow, Rows, TypeOK
            <4> HIDE DEF next
            <4>4. QED
                BY <3>9, <4>1, <4>2, <4>3, BecomesProper DEF MarkWithdrawn, TypeOK
        <3>10. CASE Report(b)
            <4>1. Proper(NoRun) /\ Becomes(b, NoRun)
                BY <3>10 DEF Proper, NoRun, Loaders, Report, LoaderEnds
            <4>2. runs' \in [Bodies -> [ref : 0..MaxVersion, errors : BOOLEAN]]
                <5>1. (IF loader[b].result = "crashed" THEN 0 ELSE loader[b].sha)
                        \in 0..MaxVersion
                    BY <3>0 DEF Loaders
                <5>2. loader[b].failed \in BOOLEAN
                    BY <3>0 DEF Loaders
                <5>3. QED
                    BY <3>10, <5>1, <5>2 DEF Report, TypeOK
            <4>3. promised' \in [Bodies -> SUBSET Ids]
                BY <3>0, <3>10 DEF Report, TypeOK, Loaders
            <4>4. force' \in BOOLEAN
                BY <3>10 DEF Report, LoaderEnds
            <4>5. QED
                BY <3>10, <4>1, <4>2, <4>3, <4>4, BecomesProper
                DEF Report, LoaderEnds, TypeOK
        <3>11. QED
            BY <2>5, <3>1, <3>2, <3>3, <3>4, <3>5, <3>6, <3>7, <3>8, <3>9, <3>10
            DEF Loader
    <2>6. CASE Kill
        <3>1. NoRun \in Loaders /\ NoRun.pc # "mark" /\ NoRun.marking = NoId
            BY DEF NoRun, Loaders
        <3>2. QED
            BY <2>6, <3>1 DEF Kill, TypeOK
    <2>7. CASE UNCHANGED vars
        BY <2>7 DEF vars, TypeOK
    <2>8. ASSUME Next PROVE TypeOK'
        <3>1. CASE \E b \in Bodies : \E ids \in SUBSET MayPublish[b] :
                      \E bad \in SUBSET (ids \intersect Fragile) : Publish(b, ids, bad)
            BY <2>1, <3>1
        <3>2. CASE \E forced \in BOOLEAN :
                      \/ RunSync(Bodies, forced)
                      \/ \E b \in Bodies : RunSync({b}, forced)
            <4>1. ASSUME NEW forced \in BOOLEAN, RunSync(Bodies, forced) PROVE TypeOK'
                BY <2>4, <4>1
            <4>2. ASSUME NEW forced \in BOOLEAN, NEW b \in Bodies, RunSync({b}, forced)
                  PROVE  TypeOK'
                BY <2>4, <4>2
            <4>3. QED
                BY <3>2, <4>1, <4>2
        <3>3. CASE \E i \in Ids : LiveWrite(i)
            BY <2>2, <3>3
        <3>4. CASE \E b \in Bodies : Loader(b)
            BY <2>5, <3>4
        <3>5. QED
            BY <2>3, <2>6, <2>8, <3>1, <3>2, <3>3, <3>4 DEF Next
    <2>9. QED
        BY <2>7, <2>8
<1>3. QED
    BY <1>1, <1>2, PTL DEF Spec

-----------------------------------------------------------------------------
(* What a sync has stored stays stored, until a clear wipes it.             *)

\* The ids whose record is a synced row, or that a clear removed for good.
Covered == {i \in Ids : Synced(i)} \union wiped

\* How far a loader has got: what it is done writing is covered.
LoaderStored(b) ==
    /\ At(b, "write") => loader[b].parsed \ loader[b].todo \subseteq Covered
    /\ At(b, "alias") \/ At(b, "withdraw") \/ At(b, "mark")
          => loader[b].parsed \subseteq Covered
    /\ At(b, "report") /\ loader[b].result = "full"
          => loader[b].parsed \subseteq Covered

StoredInv ==
    /\ aliased \subseteq Covered
    /\ \A b \in Bodies : promised[b] \subseteq Covered
    /\ \A b \in Bodies : LoaderStored(b)

\* How the withdrawal pass is bounded by what the body had at the start.
LoaderGuarded(b) ==
    /\ At(b, "snapshot") => SyncedIds(b) \subseteq loader[b].known
    /\ At(b, "write") \/ At(b, "alias") \/ At(b, "withdraw") \/ At(b, "mark")
          => loader[b].prev \subseteq loader[b].known
    /\ At(b, "withdraw") \/ At(b, "mark")
          => 2 * Cardinality(loader[b].todo) <= Cardinality(loader[b].prev)

GuardInv == \A b \in Bodies : LoaderGuarded(b)

LEMMA BecomesFrame ==
    ASSUME TypeOK, NEW b \in Bodies, NEW l, Becomes(b, l)
    PROVE  loader'[b] = l /\ \A c \in Bodies \ {b} : loader'[c] = loader[c]
BY DEF TypeOK, Becomes

\* Writing rows makes them synced and leaves the others alone.
LEMMA WriteRowsSynced ==
    ASSUME TypeOK, NEW b, NEW ids, WriteRows(b, ids)
    PROVE  \A i \in Ids : (i \in ids => Synced(i)') /\ (Synced(i) => Synced(i)')
BY DEF TypeOK, WriteRows, SyncedRow, Synced

\* No step uncovers an id.
LEMMA CoveredGrows ==
    ASSUME TypeOK, [Next]_vars
    PROVE  Covered \subseteq Covered'
<1> USE DEF upstream, store, history
<1>0. SUFFICES ASSUME NEW i \in Covered PROVE i \in Covered'
    OBVIOUS
<1>1. i \in Ids
    BY DEF Covered, TypeOK
<1>2. ASSUME UNCHANGED <<rows, wiped>> PROVE i \in Covered'
    BY <1>2 DEF Covered, Synced
<1>3. ASSUME NEW k \in Ids, LiveWrite(k) PROVE i \in Covered'
    BY <1>3, <1>1 DEF LiveWrite, Covered, Synced, TypeOK
<1>4. CASE Clear
    BY <1>4, <1>1 DEF Clear, Covered
<1>5. ASSUME NEW b \in Bodies, Loader(b) PROVE i \in Covered'
    <2>1. CASE WriteBatch(b)
        BY <2>1, <1>1, WriteRowsSynced DEF WriteBatch, Written, Covered
    <2>2. ASSUME NEW k \in Ids, WriteOne(b, k) PROVE i \in Covered'
        BY <2>2, <1>1, WriteRowsSynced DEF WriteOne, Covered
    <2>3. CASE MarkWithdrawn(b)
        BY <2>3, <1>1 DEF MarkWithdrawn, SyncedRow, Covered, Synced, TypeOK
    <2>4. CASE HeadSha(b) \/ Snapshot(b) \/ Crash(b) \/ WriteAliases(b) \/ WroteAll(b)
        BY <2>4, <1>2 DEF HeadSha, Snapshot, Crash, WriteAliases, WroteAll
    <2>5. CASE Report(b) \/ \E k \in Ids : ReadMissing(b, k)
        BY <2>5, <1>2 DEF Report, LoaderEnds, ReadMissing
    <2>6. QED
        BY <1>5, <2>1, <2>2, <2>3, <2>4, <2>5 DEF Loader
<1>6. CASE \/ \E b \in Bodies : \E ids \in SUBSET MayPublish[b] :
              \E bad \in SUBSET (ids \intersect Fragile) : Publish(b, ids, bad)
           \/ \E selected \in SUBSET Bodies : \E forced \in BOOLEAN :
                 RunSync(selected, forced)
           \/ Kill
           \/ UNCHANGED vars
    BY <1>6, <1>2 DEF Publish, RunSync, Kill, vars
<1>7. QED
    BY <1>3, <1>4, <1>5, <1>6 DEF Next

\* Only a sync replaces a synced record: a synced row stays one, until a clear.
THEOREM SyncedStays == Spec => SyncedStaysSynced
<1>1. TypeOK /\ [Next]_vars
        => [\A i \in Ids : Synced(i) => Synced(i)' \/ i \in wiped']_vars
    BY CoveredGrows DEF Covered
<1>2. QED
    BY <1>1, TypeCorrect, PTL DEF Spec, SyncedStaysSynced

\* A step of one loader keeps StoredInv if it leaves that loader's share and
\* what it publishes in order.
LEMMA LoaderKeepsStored ==
    ASSUME TypeOK, StoredInv, Covered \subseteq Covered',
           NEW b \in Bodies, NEW l, Becomes(b, l), LoaderStored(b)',
           aliased' \subseteq Covered',
           \A c \in Bodies : promised'[c] \subseteq Covered'
    PROVE  StoredInv'
<1>1. ASSUME NEW c \in Bodies \ {b} PROVE LoaderStored(c)'
    <2>1. loader'[c] = loader[c] /\ LoaderStored(c)
        BY <1>1, BecomesFrame DEF StoredInv
    <2> HIDE DEF Covered
    <2>2. QED
        BY <2>1 DEF LoaderStored, At
<1>2. QED
    BY <1>1 DEF StoredInv

\* The decision on the withdrawal pass keeps what the loader has parsed.
LEMMA PlanWithdrawalPlace ==
    ASSUME TypeOK, NEW b \in Bodies, PlanWithdrawal(b)
    PROVE  /\ loader'[b].parsed = loader[b].parsed
           /\ loader'[b].pc \in {"report", "withdraw"}
<1> DEFINE missing == loader[b].prev \ loader[b].parsed
           stopped == [loader[b] EXCEPT !.failed = TRUE, !.pc = "report"]
           goesOn == [loader[b] EXCEPT !.todo = missing, !.pc = NextMissing(missing)]
<1>1. loader'[b] = IF TooMany(missing, b) THEN stopped ELSE goesOn
    BY BecomesFrame DEF PlanWithdrawal
<1>2. loader[b] \in Loaders
    BY DEF TypeOK
<1>3. stopped.parsed = loader[b].parsed /\ stopped.pc = "report"
    BY <1>2 DEF Loaders
<1>4. goesOn.parsed = loader[b].parsed /\ goesOn.pc = NextMissing(missing)
    BY <1>2 DEF Loaders
<1> HIDE DEF stopped, goesOn, missing
<1>5. QED
    BY <1>1, <1>3, <1>4, NextMissingPlace

\* What the loaders have stored stays covered.
LEMMA StoredStep ==
    ASSUME TypeOK, StoredInv, [Next]_vars
    PROVE  StoredInv'
<1> USE DEF upstream, store, history
<1>0. Covered \subseteq Covered'
    BY CoveredGrows
<1>1. ASSUME UNCHANGED <<aliased, promised, loader>> PROVE StoredInv'
    <2> HIDE DEF Covered
    <2>1. QED
        BY <1>0, <1>1 DEF StoredInv, LoaderStored, At
<1>2. CASE Clear
    BY <1>2, <1>0 DEF Clear, StoredInv, LoaderStored, At
<1>3. ASSUME NEW selected, NEW forced, RunSync(selected, forced) PROVE StoredInv'
    <2>1. \A b \in Bodies : loader'[b].pc \in {"idle", "head"}
        BY <1>3 DEF RunSync, NoRun
    <2> HIDE DEF Covered
    <2>2. QED
        BY <1>0, <1>3, <2>1 DEF StoredInv, LoaderStored, At, RunSync
<1>4. CASE Kill
    <2>1. \A b \in Bodies : loader'[b].pc = "idle"
        BY <1>4 DEF Kill, NoRun
    <2> HIDE DEF Covered
    <2>2. QED
        BY <1>0, <1>4, <2>1 DEF StoredInv, LoaderStored, At, Kill
<1>5. ASSUME NEW b \in Bodies, Loader(b) PROVE StoredInv'
    <2>0. /\ loader[b] \in Loaders
          /\ LoaderStored(b)
          /\ aliased \subseteq Covered
          /\ \A c \in Bodies : promised[c] \subseteq Covered
        BY DEF TypeOK, StoredInv
    <2>1. CASE HeadSha(b)
        <3> DEFINE same == ~force /\ runs[b].ref = version[b]
                   l == [loader[b] EXCEPT
                            !.sha = version[b],
                            !.want = published[b],
                            !.parsed = published[b] \ broken[b],
                            !.known = SyncedIds(b),
                            !.result = IF same THEN "unchanged" ELSE "full",
                            !.pc = IF same THEN "report" ELSE "snapshot"]
        <3>1. /\ Becomes(b, l)
              /\ l.pc \in {"report", "snapshot"}
              /\ l.pc = "report" => l.result # "full"
            BY <2>0, <2>1 DEF HeadSha, Loaders
        <3> HIDE DEF l, Covered
        <3>2. LoaderStored(b)'
            BY <3>1, BecomesFrame DEF LoaderStored, At
        <3>3. QED
            BY <1>0, <2>0, <2>1, <3>1, <3>2, LoaderKeepsStored DEF HeadSha
    <2>2. CASE Snapshot(b)
        <3> DEFINE l == [loader[b] EXCEPT !.prev = SyncedIds(b),
                                          !.todo = loader[b].parsed,
                                          !.pc = "write"]
        <3>1. Becomes(b, l) /\ l.pc = "write" /\ l.parsed = l.todo
            BY <2>0, <2>2 DEF Snapshot, Loaders
        <3> HIDE DEF l, Covered
        <3>2. LoaderStored(b)'
            BY <3>1, BecomesFrame DEF LoaderStored, At
        <3>3. QED
            BY <1>0, <2>0, <2>2, <3>1, <3>2, LoaderKeepsStored DEF Snapshot
    <2>3. CASE Crash(b)
        <3> DEFINE l == [loader[b] EXCEPT !.result = "crashed", !.failed = TRUE,
                                          !.pc = "report"]
        <3>1. Becomes(b, l) /\ l.pc = "report" /\ l.result = "crashed"
            BY <2>0, <2>3 DEF Crash, Loaders
        <3> HIDE DEF l, Covered
        <3>2. LoaderStored(b)'
            BY <3>1, BecomesFrame DEF LoaderStored, At
        <3>3. QED
            BY <1>0, <2>0, <2>3, <3>1, <3>2, LoaderKeepsStored DEF Crash
    <2>4. CASE WriteBatch(b)
        <3> DEFINE l == [loader[b] EXCEPT
                            !.todo = {},
                            !.failed = loader[b].parsed # loader[b].want,
                            !.pc = "alias"]
        <3>1. Becomes(b, l) /\ l.pc = "alias" /\ l.parsed = loader[b].parsed
            BY <2>0, <2>4 DEF WriteBatch, Written, Loaders
        <3>2. loader[b].todo \subseteq Covered'
            BY <2>0, <2>4, WriteRowsSynced DEF WriteBatch, Covered, Loaders
        <3>3. loader[b].parsed \ loader[b].todo \subseteq Covered
            BY <2>0, <2>4 DEF WriteBatch, LoaderStored
        <3> HIDE DEF l, Covered
        <3>4. LoaderStored(b)'
            BY <1>0, <3>1, <3>2, <3>3, BecomesFrame DEF LoaderStored, At
        <3>5. QED
            BY <1>0, <2>0, <2>4, <3>1, <3>4, LoaderKeepsStored
            DEF WriteBatch, Written
    <2>5. ASSUME PlanWithdrawal(b), loader[b].parsed \subseteq Covered
          PROVE  LoaderStored(b)'
        <3> HIDE DEF Covered
        <3>1. QED
            BY <1>0, <2>5, PlanWithdrawalPlace DEF LoaderStored, At
    <2>6. CASE WriteAliases(b)
        <3>1. loader[b].parsed \subseteq Covered /\ PlanWithdrawal(b)
            BY <2>0, <2>6 DEF WriteAliases, LoaderStored
        <3>2. PICK l : Becomes(b, l)
            BY <3>1 DEF PlanWithdrawal
        <3> HIDE DEF Covered
        <3>3. QED
            BY <1>0, <2>0, <2>5, <2>6, <3>1, <3>2, LoaderKeepsStored DEF WriteAliases
    <2>7. CASE WroteAll(b)
        <3>1. loader[b].parsed \subseteq Covered /\ PlanWithdrawal(b)
            BY <2>0, <2>7 DEF WroteAll, LoaderStored
        <3>2. PICK l : Becomes(b, l)
            BY <3>1 DEF PlanWithdrawal
        <3> HIDE DEF Covered
        <3>3. QED
            BY <1>0, <2>0, <2>5, <2>7, <3>1, <3>2, LoaderKeepsStored DEF WroteAll
    <2>8. ASSUME NEW i \in Ids, WriteOne(b, i) PROVE StoredInv'
        <3> DEFINE l == [loader[b] EXCEPT !.todo = @ \ {i}]
        <3>1. /\ Becomes(b, l)
              /\ l.pc = "write" /\ l.parsed = loader[b].parsed
              /\ l.todo = loader[b].todo \ {i}
            BY <2>0, <2>8 DEF WriteOne, Loaders, At
        <3>2. i \in Covered'
            BY <2>8, WriteRowsSynced DEF WriteOne, Covered
        <3>3. loader[b].parsed \ loader[b].todo \subseteq Covered
            BY <2>0, <2>8 DEF WriteOne, LoaderStored
        <3> HIDE DEF l, Covered
        <3>4. LoaderStored(b)'
            BY <1>0, <3>1, <3>2, <3>3, BecomesFrame DEF LoaderStored, At
        <3>5. QED
            BY <1>0, <2>0, <2>8, <3>1, <3>4, LoaderKeepsStored DEF WriteOne
    <2>9. ASSUME NEW i \in Ids, ReadMissing(b, i) PROVE StoredInv'
        <3> DEFINE left == loader[b].todo \ {i}
                   skip == [loader[b] EXCEPT !.todo = left, !.pc = NextMissing(left)]
                   take == [loader[b] EXCEPT !.todo = left, !.marking = i,
                                             !.pc = "mark"]
                   l == IF rows[i] = NoRow THEN skip ELSE take
        <3>1. /\ Becomes(b, l)
              /\ l.pc \in {"report", "withdraw", "mark"}
              /\ l.parsed = loader[b].parsed
            BY <2>0, <2>9, NextMissingPlace DEF ReadMissing, Loaders
        <3>2. loader[b].parsed \subseteq Covered
            BY <2>0, <2>9 DEF ReadMissing, LoaderStored
        <3> HIDE DEF l, Covered
        <3>3. LoaderStored(b)'
            BY <1>0, <3>1, <3>2, BecomesFrame DEF LoaderStored, At
        <3>4. QED
            BY <1>0, <2>0, <2>9, <3>1, <3>3, LoaderKeepsStored DEF ReadMissing
    <2>10. CASE MarkWithdrawn(b)
        <3> DEFINE l == [loader[b] EXCEPT !.marking = NoId,
                                          !.pc = NextMissing(loader[b].todo)]
        <3>1. /\ Becomes(b, l)
              /\ l.pc \in {"report", "withdraw"}
              /\ l.parsed = loader[b].parsed
            BY <2>0, <2>10, NextMissingPlace DEF MarkWithdrawn, Loaders
        <3>2. loader[b].parsed \subseteq Covered
            BY <2>0, <2>10 DEF MarkWithdrawn, LoaderStored
        <3> HIDE DEF l, Covered
        <3>3. LoaderStored(b)'
            BY <1>0, <3>1, <3>2, BecomesFrame DEF LoaderStored, At
        <3>4. QED
            BY <1>0, <2>0, <2>10, <3>1, <3>3, LoaderKeepsStored DEF MarkWithdrawn
    <2>11. CASE Report(b)
        <3>1. Becomes(b, NoRun) /\ NoRun.pc = "idle"
            BY <2>11 DEF Report, LoaderEnds, NoRun
        <3>2. loader[b].result = "full" => loader[b].parsed \subseteq Covered
            BY <2>0, <2>11 DEF Report, LoaderStored
        <3>3. \A c \in Bodies : promised'[c] = promised[c] \/ promised'[c] = {}
                                \/ promised'[c] \subseteq Covered
            BY <2>0, <2>11, <3>2 DEF Report, TypeOK
        <3> HIDE DEF Covered
        <3>4. LoaderStored(b)'
            BY <3>1, BecomesFrame DEF LoaderStored, At
        <3>5. QED
            BY <1>0, <2>0, <2>11, <3>1, <3>3, <3>4, LoaderKeepsStored
            DEF Report, LoaderEnds
    <2>12. QED
        BY <1>5, <2>1, <2>2, <2>3, <2>4, <2>6, <2>7, <2>8, <2>9, <2>10, <2>11
        DEF Loader
<1>6. CASE \/ \E b \in Bodies : \E ids \in SUBSET MayPublish[b] :
              \E bad \in SUBSET (ids \intersect Fragile) : Publish(b, ids, bad)
           \/ \E i \in Ids : LiveWrite(i)
           \/ UNCHANGED vars
    BY <1>6, <1>1 DEF Publish, LiveWrite, vars
<1>7. QED
    BY <1>2, <1>3, <1>4, <1>5, <1>6 DEF Next

THEOREM StoredCorrect == Spec => []StoredInv
<1>1. Init => StoredInv
    BY DEF Init, NoRun, StoredInv, LoaderStored, At
<1>2. QED
    BY <1>1, StoredStep, TypeCorrect, PTL DEF Spec

\* The upstream_ref recorded for a body is worth skipping a sync for.
THEOREM MarkerMeansStoredAlways == Spec => []MarkerMeansStored
<1>1. StoredInv /\ TypeOK => MarkerMeansStored
    BY DEF StoredInv, MarkerMeansStored, Covered, TypeOK
<1>2. QED
    BY <1>1, StoredCorrect, TypeCorrect, PTL

\* Aliases are stored after the records they lead to.
THEOREM AliasesLeadToRowsAlways == Spec => []AliasesLeadToRows
<1>1. StoredInv /\ TypeOK => AliasesLeadToRows
    BY DEF StoredInv, AliasesLeadToRows, Covered, TypeOK
<1>2. QED
    BY <1>1, StoredCorrect, TypeCorrect, PTL

-----------------------------------------------------------------------------
(* The 50% guard.                                                           *)

\* Only a body's own loader adds to the synced rows of that body.
LEMMA OnlyTheOwnerAdds ==
    ASSUME TypeOK, NEW b \in Bodies, NEW c \in Bodies \ {b}, Loader(b)
    PROVE  SyncedIds(c)' \subseteq SyncedIds(c)
<1> USE DEF store, SyncedIds, Synced, SyncedRow
<1>1. CASE UNCHANGED rows
    BY <1>1
<1>2. CASE \E ids : WriteRows(b, ids)
    BY <1>2 DEF WriteRows, TypeOK
<1>3. CASE MarkWithdrawn(b)
    BY <1>3 DEF MarkWithdrawn, TypeOK
<1>4. QED
    <2>1. CASE HeadSha(b) \/ Snapshot(b) \/ Crash(b) \/ WriteAliases(b) \/ WroteAll(b)
        BY <2>1, <1>1 DEF HeadSha, Snapshot, Crash, WriteAliases, WroteAll
    <2>2. CASE Report(b) \/ \E i \in Ids : ReadMissing(b, i)
        BY <2>2, <1>1 DEF Report, LoaderEnds, ReadMissing
    <2>3. CASE WriteBatch(b) \/ \E i \in Ids : WriteOne(b, i)
        BY <2>3, <1>2 DEF WriteBatch, WriteOne
    <2>4. QED
        BY <1>3, <2>1, <2>2, <2>3 DEF Loader

\* Ids are finitely many, so a part of some of them counts no more.
LEMMA PartCountsNoMore ==
    ASSUME NEW T \in SUBSET Ids, NEW U \in SUBSET T
    PROVE  /\ Cardinality(U) \in Nat /\ Cardinality(T) \in Nat
           /\ Cardinality(U) <= Cardinality(T)
<1>1. IsFiniteSet(T)
    BY BodiesAssumption, FS_Subset
<1>2. QED
    BY <1>1, FS_Subset, FS_CardinalityType

\* The pass begins with at most half of what the body had.
LEMMA PlanWithdrawalGuards ==
    ASSUME TypeOK, NEW b \in Bodies, PlanWithdrawal(b),
           loader[b].prev \subseteq loader[b].known
    PROVE  LoaderGuarded(b)'
<1> DEFINE missing == loader[b].prev \ loader[b].parsed
           stopped == [loader[b] EXCEPT !.failed = TRUE, !.pc = "report"]
           goesOn == [loader[b] EXCEPT !.todo = missing, !.pc = NextMissing(missing)]
<1>1. loader'[b] = IF TooMany(missing, b) THEN stopped ELSE goesOn
    BY BecomesFrame DEF PlanWithdrawal
<1>2. loader[b] \in Loaders
    BY DEF TypeOK
<1>3. stopped.pc = "report"
    BY <1>2 DEF Loaders
<1>4. /\ goesOn.pc \in {"report", "withdraw"}
      /\ goesOn.prev = loader[b].prev /\ goesOn.known = loader[b].known
      /\ goesOn.todo = missing
    BY <1>2, NextMissingPlace DEF Loaders
<1>5. ~TooMany(missing, b) => 2 * Cardinality(missing) <= Cardinality(loader[b].prev)
    <2>1. loader[b].prev \in SUBSET Ids
        BY <1>2 DEF Loaders
    <2>2. Cardinality(missing) \in Nat /\ Cardinality(loader[b].prev) \in Nat
        BY <2>1, PartCountsNoMore
    <2>3. loader[b].prev = {} => Cardinality(missing) = 0 /\ Cardinality(loader[b].prev) = 0
        BY FS_EmptySet
    <2> HIDE DEF missing
    <2>4. QED
        BY <2>2, <2>3 DEF TooMany
<1> HIDE DEF stopped, goesOn
<1>6. QED
    BY <1>1, <1>3, <1>4, <1>5 DEF LoaderGuarded, At

\* The guard holds of every loader after every step.
LEMMA GuardStep ==
    ASSUME TypeOK, GuardInv, [Next]_vars
    PROVE  GuardInv'
<1> USE DEF upstream, store, history
<1>1. ASSUME UNCHANGED loader,
             \A b \in Bodies : SyncedIds(b)' \subseteq SyncedIds(b)
      PROVE  GuardInv'
    BY <1>1 DEF GuardInv, LoaderGuarded, At
<1>2. CASE \/ \E b \in Bodies : \E ids \in SUBSET MayPublish[b] :
              \E bad \in SUBSET (ids \intersect Fragile) : Publish(b, ids, bad)
           \/ UNCHANGED vars
    BY <1>1, <1>2 DEF Publish, vars, SyncedIds, Synced
<1>3. ASSUME NEW i \in Ids, LiveWrite(i) PROVE GuardInv'
    <2>1. \A b \in Bodies : SyncedIds(b)' \subseteq SyncedIds(b)
        BY <1>3 DEF LiveWrite, LiveRow, SyncedIds, Synced, TypeOK
    <2>2. QED
        BY <1>1, <1>3, <2>1 DEF LiveWrite
<1>4. CASE Clear
    <2>1. \A b \in Bodies : SyncedIds(b)' \subseteq SyncedIds(b)
        BY <1>4 DEF Clear, NoRow, SyncedIds, Synced
    <2>2. QED
        BY <1>1, <1>4, <2>1 DEF Clear
<1>5. ASSUME NEW selected, NEW forced, RunSync(selected, forced) PROVE GuardInv'
    <2>1. \A b \in Bodies : loader'[b].pc \in {"idle", "head"}
        BY <1>5 DEF RunSync, NoRun
    <2>2. QED
        BY <2>1 DEF GuardInv, LoaderGuarded, At
<1>6. CASE Kill
    <2>1. \A b \in Bodies : loader'[b].pc = "idle"
        BY <1>6 DEF Kill, NoRun
    <2>2. QED
        BY <2>1 DEF GuardInv, LoaderGuarded, At
<1>7. ASSUME NEW b \in Bodies, Loader(b) PROVE GuardInv'
    <2>0. loader[b] \in Loaders /\ LoaderGuarded(b)
        BY DEF TypeOK, GuardInv
    <2>1. \E l : Becomes(b, l)
        BY <1>7 DEF Loader, HeadSha, Snapshot, Crash, WriteBatch, Written, WriteAliases,
                    PlanWithdrawal, WriteOne, WroteAll, ReadMissing, MarkWithdrawn,
                    Report, LoaderEnds
    <2>2. ASSUME NEW c \in Bodies \ {b} PROVE LoaderGuarded(c)'
        <3>1. loader'[c] = loader[c]
            BY <2>1, BecomesFrame
        <3>2. SyncedIds(c)' \subseteq SyncedIds(c)
            BY <1>7, OnlyTheOwnerAdds
        <3>3. QED
            BY <3>1, <3>2 DEF GuardInv, LoaderGuarded, At
    <2>3. LoaderGuarded(b)'
        <3>1. CASE HeadSha(b)
            <4> DEFINE same == ~force /\ runs[b].ref = version[b]
                       l == [loader[b] EXCEPT
                                !.sha = version[b],
                                !.want = published[b],
                                !.parsed = published[b] \ broken[b],
                                !.known = SyncedIds(b),
                                !.result = IF same THEN "unchanged" ELSE "full",
                                !.pc = IF same THEN "report" ELSE "snapshot"]
            <4>1. /\ Becomes(b, l)
                  /\ l.pc \in {"report", "snapshot"} /\ l.known = SyncedIds(b)
                BY <2>0, <3>1 DEF HeadSha, Loaders
            <4>2. SyncedIds(b)' = SyncedIds(b)
                BY <3>1 DEF HeadSha, SyncedIds, Synced
            <4> HIDE DEF l
            <4>3. QED
                BY <4>1, <4>2, BecomesFrame DEF LoaderGuarded, At
        <3>2. CASE Snapshot(b)
            <4> DEFINE l == [loader[b] EXCEPT !.prev = SyncedIds(b),
                                              !.todo = loader[b].parsed,
                                              !.pc = "write"]
            <4>1. /\ Becomes(b, l)
                  /\ l.pc = "write" /\ l.prev = SyncedIds(b)
                  /\ l.known = loader[b].known
                BY <2>0, <3>2 DEF Snapshot, Loaders
            <4>2. SyncedIds(b) \subseteq loader[b].known
                BY <2>0, <3>2 DEF Snapshot, LoaderGuarded
            <4> HIDE DEF l
            <4>3. QED
                BY <4>1, <4>2, BecomesFrame DEF LoaderGuarded, At
        <3>3. CASE Crash(b)
            <4> DEFINE l == [loader[b] EXCEPT !.result = "crashed", !.failed = TRUE,
                                              !.pc = "report"]
            <4>1. Becomes(b, l) /\ l.pc = "report"
                BY <2>0, <3>3 DEF Crash, Loaders
            <4> HIDE DEF l
            <4>2. QED
                BY <4>1, BecomesFrame DEF LoaderGuarded, At
        <3>4. CASE WriteBatch(b)
            <4> DEFINE l == [loader[b] EXCEPT
                                !.todo = {},
                                !.failed = loader[b].parsed # loader[b].want,
                                !.pc = "alias"]
            <4>1. /\ Becomes(b, l)
                  /\ l.pc = "alias" /\ l.prev = loader[b].prev
                  /\ l.known = loader[b].known
                BY <2>0, <3>4 DEF WriteBatch, Written, Loaders
            <4>2. loader[b].prev \subseteq loader[b].known
                BY <2>0, <3>4 DEF WriteBatch, LoaderGuarded
            <4> HIDE DEF l
            <4>3. QED
                BY <4>1, <4>2, BecomesFrame DEF LoaderGuarded, At
        <3>5. CASE WriteAliases(b) \/ WroteAll(b)
            BY <2>0, <3>5, PlanWithdrawalGuards DEF WriteAliases, WroteAll, LoaderGuarded
        <3>6. ASSUME NEW i \in Ids, WriteOne(b, i) PROVE LoaderGuarded(b)'
            <4> DEFINE l == [loader[b] EXCEPT !.todo = @ \ {i}]
            <4>1. /\ Becomes(b, l)
                  /\ l.pc = "write" /\ l.prev = loader[b].prev
                  /\ l.known = loader[b].known
                BY <2>0, <3>6 DEF WriteOne, Loaders, At
            <4>2. loader[b].prev \subseteq loader[b].known
                BY <2>0, <3>6 DEF WriteOne, LoaderGuarded
            <4> HIDE DEF l
            <4>3. QED
                BY <4>1, <4>2, BecomesFrame DEF LoaderGuarded, At
        <3>7. ASSUME NEW i \in Ids, ReadMissing(b, i) PROVE LoaderGuarded(b)'
            <4> DEFINE left == loader[b].todo \ {i}
                       skip == [loader[b] EXCEPT !.todo = left, !.pc = NextMissing(left)]
                       take == [loader[b] EXCEPT !.todo = left, !.marking = i,
                                                 !.pc = "mark"]
                       l == IF rows[i] = NoRow THEN skip ELSE take
            <4>1. /\ Becomes(b, l)
                  /\ l.pc \in {"report", "withdraw", "mark"}
                  /\ l.prev = loader[b].prev /\ l.known = loader[b].known
                  /\ l.todo = left
                BY <2>0, <3>7, NextMissingPlace DEF ReadMissing, Loaders
            <4>2. /\ loader[b].prev \subseteq loader[b].known
                  /\ 2 * Cardinality(loader[b].todo) <= Cardinality(loader[b].prev)
                BY <2>0, <3>7 DEF ReadMissing, LoaderGuarded
            <4>3. loader[b].todo \in SUBSET Ids /\ loader[b].prev \in SUBSET Ids
                BY <2>0 DEF Loaders
            <4>4. /\ Cardinality(left) \in Nat /\ Cardinality(loader[b].todo) \in Nat
                  /\ Cardinality(left) <= Cardinality(loader[b].todo)
                  /\ Cardinality(loader[b].prev) \in Nat
                BY <4>3, PartCountsNoMore
            <4> HIDE DEF l, left
            <4>5. 2 * Cardinality(left) <= Cardinality(loader[b].prev)
                BY <4>2, <4>4
            <4>6. QED
                BY <4>1, <4>2, <4>5, BecomesFrame DEF LoaderGuarded, At
        <3>8. CASE MarkWithdrawn(b)
            <4> DEFINE l == [loader[b] EXCEPT !.marking = NoId,
                                              !.pc = NextMissing(loader[b].todo)]
            <4>1. /\ Becomes(b, l)
                  /\ l.pc \in {"report", "withdraw"}
                  /\ l.prev = loader[b].prev /\ l.known = loader[b].known
                  /\ l.todo = loader[b].todo
                BY <2>0, <3>8, NextMissingPlace DEF MarkWithdrawn, Loaders
            <4>2. /\ loader[b].prev \subseteq loader[b].known
                  /\ 2 * Cardinality(loader[b].todo) <= Cardinality(loader[b].prev)
                BY <2>0, <3>8 DEF MarkWithdrawn, LoaderGuarded
            <4> HIDE DEF l
            <4>3. QED
                BY <4>1, <4>2, BecomesFrame DEF LoaderGuarded, At
        <3>9. CASE Report(b)
            <4>1. Becomes(b, NoRun) /\ NoRun.pc = "idle"
                BY <3>9 DEF Report, LoaderEnds, NoRun
            <4>2. QED
                BY <4>1, BecomesFrame DEF LoaderGuarded, At
        <3>10. QED
            BY <1>7, <3>1, <3>2, <3>3, <3>4, <3>5, <3>6, <3>7, <3>8, <3>9 DEF Loader
    <2>4. QED
        BY <2>2, <2>3 DEF GuardInv
<1>8. QED
    BY <1>2, <1>3, <1>4, <1>5, <1>6, <1>7 DEF Next

\* A withdrawal pass is at most half of what the body had when its loader
\* started (the 50% guard and the early snapshot of prev_ids).
THEOREM WithdrawalsAreGuardedAlways == Spec => []WithdrawalsAreGuarded
<1>1. Init => GuardInv
    BY DEF Init, NoRun, GuardInv, LoaderGuarded, At
<1>2. TypeOK /\ GuardInv => WithdrawalsAreGuarded
    <2> SUFFICES ASSUME TypeOK, GuardInv, NEW b \in Bodies, At(b, "withdraw")
                 PROVE  2 * Cardinality(loader[b].todo) <= Cardinality(loader[b].known)
        BY DEF WithdrawalsAreGuarded
    <2>1. /\ loader[b].prev \subseteq loader[b].known
          /\ 2 * Cardinality(loader[b].todo) <= Cardinality(loader[b].prev)
        BY DEF GuardInv, LoaderGuarded
    <2>2. loader[b].todo \in SUBSET Ids /\ loader[b].known \in SUBSET Ids
        BY DEF TypeOK, Loaders
    <2>3. /\ Cardinality(loader[b].prev) \in Nat /\ Cardinality(loader[b].known) \in Nat
          /\ Cardinality(loader[b].prev) <= Cardinality(loader[b].known)
          /\ Cardinality(loader[b].todo) \in Nat
        BY <2>1, <2>2, PartCountsNoMore
    <2>4. QED
        BY <2>1, <2>3
<1>3. QED
    BY <1>1, <1>2, GuardStep, TypeCorrect, PTL DEF Spec

-----------------------------------------------------------------------------
(* What a sync says of a body's own rows.                                   *)

\* A row that is not synced was never withdrawn; a synced one is of a body that
\* publishes its id.
RowsFit ==
    \A i \in Ids :
       /\ ~Synced(i) => rows[i].status = "published"
       /\ Synced(i) => rows[i].source \in Bodies /\ i \in MayPublish[rows[i].source]

Reading == {"snapshot", "write", "alias", "withdraw", "mark"}
Full(b) == At(b, "report") /\ loader[b].result = "full"

\* What a loader holds is of its body, and is what its next steps are about.
Holds(b, l) ==
    /\ l.parsed \subseteq l.want /\ l.want \subseteq MayPublish[b]
    /\ l.prev \subseteq MayPublish[b]
    /\ b \in tables => l.parsed = l.want
    /\ l.pc \in Reading => l.result = "full"
    /\ l.pc = "report" => l.result # "none"
    /\ l.pc = "write" => l.todo \subseteq l.parsed
    /\ l.pc \in {"withdraw", "mark"} => l.todo \subseteq l.prev \ l.parsed
    /\ l.pc = "mark" => l.marking \in l.prev \ l.parsed
    /\ l.pc \in {"alias", "withdraw", "mark"} \/ (l.pc = "report" /\ l.result = "full")
          => l.failed \/ l.parsed = l.want

LoadersHold ==
    \A b \in Bodies :
       /\ published[b] \subseteq MayPublish[b]
       /\ b \in tables => broken[b] = {}
       /\ Holds(b, loader[b])

\* The commit a loader has read is no older than the recorded one and no newer than
\* upstream's, and equal commits are the same ids.
Reads(b, l) ==
    l.pc \in Reading \/ (l.pc = "report" /\ l.result # "crashed") =>
       /\ runs[b].ref <= l.sha /\ l.sha <= version[b]
       /\ l.sha = version[b] => l.parsed = published[b] \ broken[b]
       /\ l.result = "unchanged" => l.sha = runs[b].ref

CommitsFit ==
    \A b \in Bodies :
       /\ runs[b].ref <= version[b]
       /\ runs[b].ref = version[b] => promised[b] = published[b] \ broken[b]
       /\ Reads(b, loader[b])

\* How far a loader has brought an id that only its body publishes: l is the
\* loader, r the row, isSynced whether it is synced.
Brought(l, i, r, isSynced) ==
    /\ l.pc = "write" /\ i \in l.parsed \ l.todo => r.status = "published"
    /\ l.pc \in {"alias", "withdraw", "mark"} \/ (l.pc = "report" /\ l.result = "full")
          => (i \in l.parsed => r.status = "published")
    /\ l.pc \in {"write", "alias", "withdraw", "mark"} /\ isSynced => i \in l.prev \union l.parsed
    /\ l.pc \in {"withdraw", "mark"} /\ isSynced =>
          i \in l.parsed \union l.todo \/ i = l.marking \/ r.status = "withdrawn"
    /\ l.pc = "report" /\ l.result = "full" /\ ~l.failed /\ isSynced =>
          i \in l.parsed \/ r.status = "withdrawn"

AllBrought == \A b \in Bodies : \A i \in Own(b) : Brought(loader[b], i, rows[i], Synced(i))

\* What the recorded commit parsed to is not withdrawn while upstream stands there.
MarkersAgree ==
    \A b \in Bodies : runs[b].ref = version[b] =>
       \A i \in promised[b] \intersect Own(b) : rows[i].status = "published"

AgreeInv == RowsFit /\ LoadersHold /\ CommitsFit /\ AllBrought /\ MarkersAgree

\* An id is of at most one body.
LEMMA OwnIsOwn ==
    ASSUME NEW b \in Bodies, NEW i \in Own(b), NEW c \in Bodies
    PROVE  i \in Ids /\ (i \in MayPublish[c] <=> c = b)
BY DEF Own

LEMMA WriteRowsIs ==
    ASSUME TypeOK, NEW b, NEW ids, WriteRows(b, ids), NEW i \in Ids
    PROVE  /\ i \in ids => rows'[i] = SyncedRow(b, "published")
           /\ i \notin ids => rows'[i] = rows[i]
BY DEF TypeOK, WriteRows

LEMMA MarkIs ==
    ASSUME TypeOK, NEW b \in Bodies, MarkWithdrawn(b), NEW i \in Ids
    PROVE  /\ i = loader[b].marking => rows'[i] = SyncedRow(b, "withdrawn")
           /\ i # loader[b].marking => rows'[i] = rows[i]
BY DEF TypeOK, MarkWithdrawn

LEMMA SyncedRowIs ==
    ASSUME NEW b, NEW s
    PROVE  /\ SyncedRow(b, s).kind = "synced" /\ SyncedRow(b, s).source = b
           /\ SyncedRow(b, s).status = s
BY DEF SyncedRow

\* What a loader writes is of its body.
LEMMA TodoIsOfTheBody ==
    ASSUME LoadersHold, NEW b \in Bodies
    PROVE  /\ At(b, "write") => loader[b].todo \subseteq MayPublish[b]
           /\ At(b, "mark") => loader[b].marking \in MayPublish[b]
BY DEF LoadersHold, Holds, At

LEMMA RowsStep ==
    ASSUME TypeOK, RowsFit, LoadersHold, [Next]_vars
    PROVE  RowsFit'
<1> SUFFICES ASSUME NEW i \in Ids
             PROVE  /\ ~Synced(i)' => rows'[i].status = "published"
                    /\ Synced(i)' => rows'[i].source \in Bodies /\ i \in MayPublish[rows'[i].source]
    BY DEF RowsFit
<1>0. /\ ~Synced(i) => rows[i].status = "published"
      /\ Synced(i) => rows[i].source \in Bodies /\ i \in MayPublish[rows[i].source]
    BY DEF RowsFit
<1>1. CASE UNCHANGED rows \/ rows'[i] = rows[i]
    BY <1>0, <1>1 DEF Synced
<1>2. ASSUME NEW k \in Ids, LiveWrite(k) PROVE rows'[i] = rows[i] \/ rows'[i] = LiveRow
    BY <1>2 DEF LiveWrite, TypeOK
<1>3. CASE rows'[i] = LiveRow \/ rows'[i] = NoRow
    BY <1>3 DEF LiveRow, NoRow, Synced
<1>4. CASE Clear
    BY <1>3, <1>4 DEF Clear
<1>5. ASSUME NEW b \in Bodies, i \in MayPublish[b],
             \/ rows'[i] = SyncedRow(b, "published")
             \/ rows'[i] = SyncedRow(b, "withdrawn")
      PROVE  Synced(i)' /\ rows'[i].source = b
    BY <1>5, SyncedRowIs DEF Synced
<1>6. ASSUME NEW b \in Bodies, Loader(b)
      PROVE  \/ rows'[i] = rows[i]
             \/ /\ i \in MayPublish[b]
                /\ \/ rows'[i] = SyncedRow(b, "published")
                   \/ rows'[i] = SyncedRow(b, "withdrawn")
    <2>1. CASE WriteBatch(b)
        BY <2>1, TodoIsOfTheBody, WriteRowsIs DEF WriteBatch
    <2>2. ASSUME NEW k \in Ids, WriteOne(b, k)
          PROVE  \/ rows'[i] = rows[i]
                 \/ i \in MayPublish[b] /\ rows'[i] = SyncedRow(b, "published")
        <3>1. WriteRows(b, {k}) /\ k \in MayPublish[b]
            BY <2>2, TodoIsOfTheBody DEF WriteOne
        <3>2. QED
            BY <3>1, WriteRowsIs
    <2>3. CASE MarkWithdrawn(b)
        <3>1. At(b, "mark")
            BY <2>3 DEF MarkWithdrawn
        <3>2. QED
            BY <2>3, <3>1, TodoIsOfTheBody, MarkIs
    <2>4. CASE HeadSha(b) \/ Snapshot(b) \/ Crash(b) \/ WriteAliases(b) \/ WroteAll(b)
        BY <2>4 DEF HeadSha, Snapshot, Crash, WriteAliases, WroteAll, store
    <2>5. CASE Report(b) \/ \E k \in Ids : ReadMissing(b, k)
        <3>1. ASSUME Report(b) PROVE UNCHANGED rows
            BY <3>1 DEF Report, LoaderEnds
        <3>2. ASSUME NEW k \in Ids, ReadMissing(b, k) PROVE UNCHANGED rows
            BY <3>2 DEF ReadMissing, store
        <3>3. QED
            BY <2>5, <3>1, <3>2
    <2>6. QED
        BY <1>6, <2>1, <2>2, <2>3, <2>4, <2>5 DEF Loader
<1>7. CASE \/ \E b \in Bodies : \E ids \in SUBSET MayPublish[b] :
              \E bad \in SUBSET (ids \intersect Fragile) : Publish(b, ids, bad)
           \/ \E selected \in SUBSET Bodies : \E forced \in BOOLEAN : RunSync(selected, forced)
           \/ Kill
           \/ UNCHANGED vars
    BY <1>1, <1>7 DEF Publish, RunSync, Kill, vars, store
<1>8. CASE \E k \in Ids : LiveWrite(k)
    BY <1>1, <1>2, <1>3, <1>8
<1>9. CASE \E b \in Bodies : Loader(b)
    BY <1>1, <1>5, <1>6, <1>9
<1>10. QED
    BY <1>4, <1>7, <1>8, <1>9 DEF Next

\* A loader leaves the ids alone that only another body publishes.
LEMMA OthersAreLeft ==
    ASSUME TypeOK, LoadersHold, NEW b \in Bodies, Loader(b),
           NEW c \in Bodies \ {b}, NEW i \in Own(c)
    PROVE  rows'[i] = rows[i]
<1>0. i \in Ids /\ i \notin MayPublish[b]
    BY OwnIsOwn
<1>1. CASE WriteBatch(b)
    BY <1>0, <1>1, TodoIsOfTheBody, WriteRowsIs DEF WriteBatch
<1>2. ASSUME NEW k \in Ids, WriteOne(b, k) PROVE rows'[i] = rows[i]
    <2>1. WriteRows(b, {k}) /\ k \in MayPublish[b]
        BY <1>2, TodoIsOfTheBody DEF WriteOne
    <2>2. QED
        BY <1>0, <2>1, WriteRowsIs
<1>3. CASE MarkWithdrawn(b)
    <2>1. At(b, "mark")
        BY <1>3 DEF MarkWithdrawn
    <2>2. QED
        BY <1>0, <1>3, <2>1, TodoIsOfTheBody, MarkIs
<1>4. CASE HeadSha(b) \/ Snapshot(b) \/ Crash(b) \/ WriteAliases(b) \/ WroteAll(b)
    BY <1>4 DEF HeadSha, Snapshot, Crash, WriteAliases, WroteAll, store
<1>5. CASE Report(b) \/ \E k \in Ids : ReadMissing(b, k)
    <2>1. ASSUME Report(b) PROVE UNCHANGED rows
        BY <2>1 DEF Report, LoaderEnds
    <2>2. ASSUME NEW k \in Ids, ReadMissing(b, k) PROVE UNCHANGED rows
        BY <2>2 DEF ReadMissing, store
    <2>3. QED
        BY <1>5, <2>1, <2>2
<1>6. QED
    BY <1>1, <1>2, <1>3, <1>4, <1>5 DEF Loader

\* A step of one loader that records nothing keeps the invariant if the loader
\* stays in order and brings its body's ids on.
LEMMA LoaderKeepsAgreement ==
    ASSUME TypeOK, AgreeInv, RowsFit', NEW b \in Bodies, NEW l, Becomes(b, l), Loader(b),
           UNCHANGED <<upstream, runs, promised>>,
           Holds(b, l), Reads(b, l),
           \A i \in Own(b) : Brought(l, i, rows'[i], Synced(i)'),
           runs[b].ref = version[b] =>
              \A i \in promised[b] \intersect Own(b) : rows'[i].status = "published"
    PROVE  AgreeInv'
<1> USE DEF upstream
<1>1. loader'[b] = l /\ \A c \in Bodies \ {b} : loader'[c] = loader[c]
    BY BecomesFrame
<1>2. \A c \in Bodies \ {b} : \A i \in Own(c) : rows'[i] = rows[i]
    BY OthersAreLeft DEF AgreeInv
<1>3. LoadersHold'
    <2>1. ASSUME NEW c \in Bodies PROVE Holds(c, loader[c])'
        BY <1>1 DEF AgreeInv, LoadersHold, Holds
    <2>2. QED
        BY <2>1 DEF AgreeInv, LoadersHold
<1>4. CommitsFit'
    <2>1. ASSUME NEW c \in Bodies PROVE Reads(c, loader[c])'
        BY <1>1 DEF AgreeInv, CommitsFit, Reads
    <2>2. QED
        BY <2>1 DEF AgreeInv, CommitsFit
<1>5. AllBrought'
    <2>1. ASSUME NEW c \in Bodies \ {b}, NEW i \in Own(c) PROVE Brought(loader'[c], i, rows'[i], Synced(i)')
        <3>1. Brought(loader[c], i, rows[i], Synced(i))
            BY DEF AgreeInv, AllBrought
        <3>2. Synced(i)' <=> Synced(i)
            BY <1>2, <2>1 DEF Synced
        <3>3. QED
            BY <1>1, <1>2, <3>1, <3>2 DEF Brought
    <2>2. QED
        BY <1>1, <2>1 DEF AllBrought
<1>6. MarkersAgree'
    <2>1. ASSUME NEW c \in Bodies \ {b}, runs[c].ref = version[c], NEW i \in promised[c] \intersect Own(c)
          PROVE  rows'[i].status = "published"
        BY <1>2, <2>1 DEF AgreeInv, MarkersAgree
    <2>2. QED
        BY <2>1 DEF MarkersAgree
<1>7. QED
    BY <1>3, <1>4, <1>5, <1>6 DEF AgreeInv

\* What the invariant says of one loader, and of the ids only its body publishes.
LEMMA OneLoader ==
    ASSUME TypeOK, AgreeInv, NEW b \in Bodies
    PROVE  /\ loader[b] \in Loaders /\ Holds(b, loader[b]) /\ Reads(b, loader[b])
           /\ \A i \in Own(b) : Brought(loader[b], i, rows[i], Synced(i))
           /\ runs[b].ref = version[b] =>
                 /\ promised[b] = published[b] \ broken[b]
                 /\ \A i \in promised[b] \intersect Own(b) : rows[i].status = "published"
BY DEF TypeOK, AgreeInv, LoadersHold, CommitsFit, AllBrought, MarkersAgree

\* A loader that leaves the rows alone.
LEMMA RowsAreLeft ==
    ASSUME TypeOK, AgreeInv, NEW b \in Bodies, NEW l, Becomes(b, l), Loader(b),
           UNCHANGED <<upstream, rows, runs, promised>>,
           Holds(b, l), Reads(b, l),
           \A i \in Own(b) : Brought(l, i, rows[i], Synced(i))
    PROVE  AgreeInv'
<1>1. RowsFit'
    BY DEF AgreeInv, RowsFit, Synced
<1>2. \A i \in Own(b) : Brought(l, i, rows'[i], Synced(i)')
    BY DEF Synced
<1>3. runs[b].ref = version[b] => \A i \in promised[b] \intersect Own(b) : rows'[i].status = "published"
    BY OneLoader
<1>4. QED
    BY <1>1, <1>2, <1>3, LoaderKeepsAgreement

LEMMA HeadAgrees == ASSUME TypeOK, AgreeInv, NEW b \in Bodies, HeadSha(b) PROVE AgreeInv'
<1> DEFINE same == ~force /\ runs[b].ref = version[b]
           l == [loader[b] EXCEPT
                    !.sha = version[b],
                    !.want = published[b],
                    !.parsed = published[b] \ broken[b],
                    !.known = SyncedIds(b),
                    !.result = IF same THEN "unchanged" ELSE "full",
                    !.pc = IF same THEN "report" ELSE "snapshot"]
<1>1. Becomes(b, l) /\ UNCHANGED <<upstream, rows, runs, promised>> /\ Loader(b)
    BY DEF HeadSha, store, history, Loader
<1>2. /\ l.sha = version[b] /\ l.want = published[b] /\ l.parsed = published[b] \ broken[b]
      /\ l.prev = loader[b].prev
      /\ \/ l.result = "unchanged" /\ l.pc = "report" /\ runs[b].ref = version[b]
         \/ l.result = "full" /\ l.pc = "snapshot"
    BY OneLoader DEF Loaders
<1> HIDE DEF l
<1>3. /\ published[b] \subseteq MayPublish[b] /\ (b \in tables => broken[b] = {})
      /\ runs[b].ref <= version[b] /\ version[b] \in Nat
      /\ loader[b].prev \subseteq MayPublish[b]
    BY OneLoader DEF AgreeInv, LoadersHold, CommitsFit, TypeOK, Holds
<1>4. Holds(b, l)
    BY <1>2, <1>3 DEF Holds, Reading
<1>5. Reads(b, l)
    BY <1>2, <1>3 DEF Reads
<1>6. \A i \in Own(b) : Brought(l, i, rows[i], Synced(i))
    BY <1>2 DEF Brought
<1>7. QED
    BY <1>1, <1>4, <1>5, <1>6, RowsAreLeft

\* prev_ids are all that is synced of the body.
LEMMA SnapshotAgrees == ASSUME TypeOK, AgreeInv, NEW b \in Bodies, Snapshot(b) PROVE AgreeInv'
<1> DEFINE q == loader[b]
           l == [q EXCEPT !.prev = SyncedIds(b), !.todo = q.parsed, !.pc = "write"]
<1>1. Becomes(b, l) /\ UNCHANGED <<upstream, rows, runs, promised>> /\ Loader(b) /\ q.pc = "snapshot"
    BY DEF Snapshot, store, history, Loader, At
<1>2. /\ l.sha = q.sha /\ l.want = q.want /\ l.parsed = q.parsed /\ l.result = q.result
      /\ l.prev = SyncedIds(b) /\ l.todo = q.parsed /\ l.pc = "write"
    BY OneLoader DEF Loaders
<1> HIDE DEF l
<1>3. Holds(b, q) /\ Reads(b, q)
    BY OneLoader
<1>4. SyncedIds(b) \subseteq MayPublish[b]
    BY DEF AgreeInv, RowsFit, SyncedIds
<1>5. Holds(b, l)
    BY <1>1, <1>2, <1>3, <1>4 DEF Holds, Reading
<1>6. Reads(b, l)
    BY <1>1, <1>2, <1>3 DEF Reads, Reading
<1>7. ASSUME NEW i \in Own(b), Synced(i) PROVE i \in SyncedIds(b)
    BY <1>7, OwnIsOwn DEF AgreeInv, RowsFit, SyncedIds
<1>8. \A i \in Own(b) : Brought(l, i, rows[i], Synced(i))
    BY <1>2, <1>7 DEF Brought
<1>9. QED
    BY <1>1, <1>5, <1>6, <1>8, RowsAreLeft

LEMMA CrashAgrees == ASSUME TypeOK, AgreeInv, NEW b \in Bodies, Crash(b) PROVE AgreeInv'
<1> DEFINE q == loader[b]
           l == [q EXCEPT !.result = "crashed", !.failed = TRUE, !.pc = "report"]
<1>1. Becomes(b, l) /\ UNCHANGED <<upstream, rows, runs, promised>> /\ Loader(b)
    BY DEF Crash, store, history, Loader
<1>2. /\ l.want = q.want /\ l.parsed = q.parsed /\ l.prev = q.prev
      /\ l.result = "crashed" /\ l.pc = "report"
    BY OneLoader DEF Loaders
<1> HIDE DEF l
<1>3. Holds(b, l)
    BY <1>2, OneLoader DEF Holds, Reading
<1>4. Reads(b, l) /\ \A i \in Own(b) : Brought(l, i, rows[i], Synced(i))
    BY <1>2 DEF Reads, Brought, Reading
<1>5. QED
    BY <1>1, <1>3, <1>4, RowsAreLeft

\* The decision on the withdrawal pass, once all records are written.
LEMMA PlanAgrees ==
    ASSUME TypeOK, AgreeInv, NEW b \in Bodies, PlanWithdrawal(b), Loader(b),
           UNCHANGED <<upstream, rows, runs, promised>>,
           loader[b].pc \in {"write", "alias"},
           loader[b].pc = "write" => b \in tables /\ loader[b].todo = {}
    PROVE  AgreeInv'
<1> DEFINE q == loader[b]
           missing == q.prev \ q.parsed
           stopped == [q EXCEPT !.failed = TRUE, !.pc = "report"]
           goesOn == [q EXCEPT !.todo = missing, !.pc = NextMissing(missing)]
           l == IF TooMany(missing, b) THEN stopped ELSE goesOn
<1>1. Becomes(b, l)
    BY DEF PlanWithdrawal
<1>2. /\ l.sha = q.sha /\ l.want = q.want /\ l.parsed = q.parsed /\ l.result = q.result
      /\ l.prev = q.prev
      /\ \/ l.pc = "report" /\ l.failed
         \/ /\ l.todo = missing /\ l.failed = q.failed
            /\ \/ l.pc = "report" /\ missing = {}
               \/ l.pc = "withdraw"
    BY OneLoader DEF Loaders, NextMissing
<1> HIDE DEF l, stopped, goesOn
<1>3. Holds(b, q) /\ Reads(b, q) /\ q.result = "full"
    BY OneLoader DEF Holds, Reading
<1>4. Holds(b, l)
    BY <1>2, <1>3 DEF Holds, Reading
<1>5. Reads(b, l)
    BY <1>2, <1>3 DEF Reads, Reading
<1>6. ASSUME NEW i \in Own(b) PROVE Brought(l, i, rows[i], Synced(i))
    <2>1. /\ i \in q.parsed => rows[i].status = "published"
          /\ Synced(i) => i \in q.prev \union q.parsed
        BY OneLoader DEF Brought
    <2>2. QED
        BY <1>2, <2>1 DEF Brought
<1>7. QED
    BY <1>1, <1>4, <1>5, <1>6, RowsAreLeft

\* A record is written, or the batch: ids are, and the loader becomes l.
Writes(b, ids, l) ==
    /\ At(b, "write") /\ ids \subseteq loader[b].todo /\ Becomes(b, l)
    /\ \A i \in Ids : /\ i \in ids => rows'[i] = SyncedRow(b, "published")
                      /\ i \notin ids => rows'[i] = rows[i]
    /\ UNCHANGED <<upstream, runs, promised>>
    /\ l.sha = loader[b].sha /\ l.want = loader[b].want /\ l.parsed = loader[b].parsed
    /\ l.prev = loader[b].prev /\ l.result = loader[b].result /\ l.todo = loader[b].todo \ ids
    /\ l.pc = "write" \/ (l.pc = "alias" /\ l.todo = {})

LEMMA WritingAgrees ==
    ASSUME TypeOK, AgreeInv, RowsFit', NEW b \in Bodies, Loader(b),
           NEW ids, NEW l, Writes(b, ids, l), Holds(b, l)
    PROVE  AgreeInv'
<1> DEFINE q == loader[b]
<1>0. /\ q.pc = "write" /\ ids \subseteq q.todo /\ Becomes(b, l)
      /\ UNCHANGED <<upstream, runs, promised>>
      /\ l.sha = q.sha /\ l.want = q.want /\ l.parsed = q.parsed
      /\ l.prev = q.prev /\ l.result = q.result /\ l.todo = q.todo \ ids
      /\ l.pc = "write" \/ (l.pc = "alias" /\ l.todo = {})
    BY DEF Writes, At
<1>10. \A i \in Ids : /\ i \in ids => rows'[i] = SyncedRow(b, "published")
                      /\ i \notin ids => rows'[i] = rows[i]
    BY DEF Writes
<1>1. Holds(b, q) /\ Reads(b, q) /\ q.pc = "write" /\ q.todo \subseteq q.parsed
    BY <1>0, OneLoader DEF Holds
<1>2. Reads(b, l)
    BY <1>0, <1>1 DEF Reads, Reading
<1>3. ASSUME NEW i \in Own(b)
      PROVE  Brought(l, i, rows'[i], Synced(i)') /\ (rows[i].status = "published" => rows'[i].status = "published")
    <2>1. /\ i \in q.parsed \ q.todo => rows[i].status = "published"
          /\ Synced(i) => i \in q.prev \union q.parsed
        BY <1>1, OneLoader DEF Brought
    <2>2. \/ i \in ids /\ rows'[i] = SyncedRow(b, "published")
          \/ i \notin ids /\ rows'[i] = rows[i]
        <3>1. i \in Ids
            BY OwnIsOwn
        <3>2. i \in ids => rows'[i] = SyncedRow(b, "published")
            BY <1>10, <3>1
        <3>3. i \notin ids => rows'[i] = rows[i]
            BY <1>10, <3>1
        <3>4. QED
            BY <3>2, <3>3
    <2>3. \/ i \in ids /\ rows'[i].status = "published"
          \/ i \notin ids /\ rows'[i] = rows[i] /\ (Synced(i)' <=> Synced(i))
        BY <2>2, SyncedRowIs DEF Synced
    <2>4. QED
        BY <1>0, <1>1, <2>1, <2>3 DEF Brought
<1>4. runs[b].ref = version[b] => \A i \in promised[b] \intersect Own(b) : rows'[i].status = "published"
    BY <1>3, OneLoader
<1>5. QED
    BY <1>0, <1>2, <1>3, <1>4, LoaderKeepsAgreement

LEMMA WriteBatchAgrees ==
    ASSUME TypeOK, AgreeInv, RowsFit', NEW b \in Bodies, WriteBatch(b) PROVE AgreeInv'
<1> DEFINE q == loader[b]
           l == [q EXCEPT !.todo = {}, !.failed = q.parsed # q.want, !.pc = "alias"]
<1>1. /\ Becomes(b, l) /\ UNCHANGED <<upstream, runs, promised>> /\ Loader(b)
      /\ At(b, "write") /\ WriteRows(b, q.todo)
    BY DEF WriteBatch, Written, Loader
<1>2. /\ l.sha = q.sha /\ l.want = q.want /\ l.parsed = q.parsed /\ l.result = q.result
      /\ l.prev = q.prev /\ l.todo = {} /\ l.pc = "alias" /\ l.failed = (q.parsed # q.want)
    BY OneLoader DEF Loaders
<1> HIDE DEF l
<1>3. Holds(b, l)
    BY <1>1, <1>2, OneLoader DEF Holds, Reading, At
<1>4. Writes(b, q.todo, l)
    BY <1>1, <1>2, WriteRowsIs DEF Writes
<1>5. QED
    BY <1>1, <1>3, <1>4, WritingAgrees

LEMMA WriteOneAgrees ==
    ASSUME TypeOK, AgreeInv, RowsFit', NEW b \in Bodies, NEW k \in Ids, WriteOne(b, k) PROVE AgreeInv'
<1> DEFINE q == loader[b]
           ids == {k}
           l == [q EXCEPT !.todo = @ \ ids]
<1>1. /\ Becomes(b, l) /\ UNCHANGED <<upstream, runs, promised>> /\ Loader(b)
      /\ At(b, "write") /\ WriteRows(b, ids) /\ ids \subseteq q.todo
    BY DEF WriteOne, Loader
<1>2. /\ l.sha = q.sha /\ l.want = q.want /\ l.parsed = q.parsed /\ l.result = q.result
      /\ l.prev = q.prev /\ l.todo = q.todo \ ids /\ l.pc = q.pc
    BY OneLoader DEF Loaders
<1> HIDE DEF l, ids
<1>3. Holds(b, l)
    BY <1>1, <1>2, OneLoader DEF Holds, Reading, At
<1>4. l.pc = "write"
    BY <1>1, <1>2 DEF At
<1>5. Writes(b, ids, l)
    BY <1>1, <1>2, <1>4, WriteRowsIs DEF Writes
<1>6. QED
    BY <1>1, <1>3, <1>5, WritingAgrees

\* The pass goes on: a row that is gone is skipped.
LEMMA ReadMissingAgrees ==
    ASSUME TypeOK, AgreeInv, NEW b \in Bodies, NEW k \in Ids, ReadMissing(b, k) PROVE AgreeInv'
<1> DEFINE q == loader[b]
           left == q.todo \ {k}
           skip == [q EXCEPT !.todo = left, !.pc = NextMissing(left)]
           take == [q EXCEPT !.todo = left, !.marking = k, !.pc = "mark"]
           l == IF rows[k] = NoRow THEN skip ELSE take
<1>1. /\ Becomes(b, l) /\ UNCHANGED <<upstream, rows, runs, promised>> /\ Loader(b)
      /\ q.pc = "withdraw" /\ k \in q.todo
    BY DEF ReadMissing, store, history, Loader, At
<1>2. /\ l.sha = q.sha /\ l.want = q.want /\ l.parsed = q.parsed /\ l.result = q.result
      /\ l.prev = q.prev /\ l.todo = left /\ l.failed = q.failed
      /\ \/ /\ rows[k] = NoRow
            /\ \/ l.pc = "report" /\ left = {}
               \/ l.pc = "withdraw"
         \/ l.pc = "mark" /\ l.marking = k
    BY OneLoader DEF Loaders, NextMissing
<1> HIDE DEF l, skip, take
<1>3. Holds(b, q) /\ Reads(b, q) /\ q.result = "full" /\ q.marking = NoId
    BY <1>1, OneLoader DEF Holds, Reading, TypeOK
<1>4. Holds(b, l)
    BY <1>1, <1>2, <1>3 DEF Holds, Reading
<1>5. Reads(b, l)
    BY <1>1, <1>2, <1>3 DEF Reads, Reading
<1>6. ASSUME NEW i \in Own(b) PROVE Brought(l, i, rows[i], Synced(i))
    <2>1. /\ i \in q.parsed => rows[i].status = "published"
          /\ Synced(i) => /\ i \in q.prev \union q.parsed
                          /\ i \in q.parsed \union q.todo \/ rows[i].status = "withdrawn"
        BY <1>1, <1>3, OneLoader, OwnIsOwn, BodiesAssumption DEF Brought
    <2>2. rows[k] = NoRow => ~Synced(k)
        BY DEF NoRow, Synced
    <2>3. QED
        BY <1>1, <1>2, <2>1, <2>2 DEF Brought
<1>7. QED
    BY <1>1, <1>4, <1>5, <1>6, RowsAreLeft

\* A row that is marked is of an id that the commit does not have.
LEMMA MarkAgrees ==
    ASSUME TypeOK, AgreeInv, RowsFit', NEW b \in Bodies, MarkWithdrawn(b) PROVE AgreeInv'
<1> DEFINE q == loader[b]
           l == [q EXCEPT !.marking = NoId, !.pc = NextMissing(q.todo)]
<1>1. Becomes(b, l) /\ UNCHANGED <<upstream, runs, promised>> /\ Loader(b) /\ q.pc = "mark"
    BY DEF MarkWithdrawn, history, Loader, At
<1>2. /\ l.sha = q.sha /\ l.want = q.want /\ l.parsed = q.parsed /\ l.result = q.result
      /\ l.prev = q.prev /\ l.todo = q.todo /\ l.failed = q.failed
      /\ \/ l.pc = "report" /\ q.todo = {}
         \/ l.pc = "withdraw"
    BY OneLoader DEF Loaders, NextMissing
<1> HIDE DEF l
<1>3. Holds(b, q) /\ Reads(b, q) /\ q.result = "full" /\ q.marking \in q.prev \ q.parsed
    BY <1>1, OneLoader DEF Holds, Reading
<1>4. Holds(b, l)
    BY <1>1, <1>2, <1>3 DEF Holds, Reading
<1>5. Reads(b, l)
    BY <1>1, <1>2, <1>3 DEF Reads, Reading
<1>6. ASSUME NEW i \in Own(b)
      PROVE  \/ i = q.marking /\ rows'[i].status = "withdrawn"
             \/ i # q.marking /\ rows'[i] = rows[i] /\ (Synced(i)' <=> Synced(i))
    BY MarkIs, OwnIsOwn, SyncedRowIs DEF Synced
<1>7. ASSUME NEW i \in Own(b) PROVE Brought(l, i, rows'[i], Synced(i)')
    <2>1. /\ i \in q.parsed => rows[i].status = "published"
          /\ Synced(i) => /\ i \in q.prev \union q.parsed
                          /\ i \in q.parsed \union q.todo \/ i = q.marking
                             \/ rows[i].status = "withdrawn"
        BY <1>1, OneLoader DEF Brought
    <2>2. QED
        BY <1>2, <1>3, <1>6, <2>1 DEF Brought
<1>8. ASSUME runs[b].ref = version[b], NEW i \in promised[b] \intersect Own(b)
      PROVE  rows'[i].status = "published"
    <2>1. version[b] \in Nat /\ runs[b].ref \in Nat /\ q.sha \in Nat
        BY OneLoader DEF TypeOK, Loaders
    <2>2. q.sha = version[b]
        BY <1>1, <1>3, <1>8, <2>1 DEF Reads, Reading
    <2>3. promised[b] = q.parsed
        BY <1>1, <1>3, <1>8, <2>2, OneLoader DEF Reads, Reading
    <2>4. QED
        BY <1>3, <1>6, <1>8, <2>3, OneLoader
<1>9. QED
    BY <1>1, <1>4, <1>5, <1>7, <1>8, LoaderKeepsAgreement

\* What the last line of a report says of the commit.
LEMMA ReportAgrees ==
    ASSUME TypeOK, AgreeInv, NEW b \in Bodies, Report(b) PROVE AgreeInv'
<1> DEFINE q == loader[b]
           ref == IF q.result = "crashed" THEN 0 ELSE q.sha
           fresh == IF q.result = "full" THEN q.parsed
                   ELSE IF q.result = "crashed" THEN {} ELSE promised[b]
<1>1. /\ Becomes(b, NoRun) /\ UNCHANGED <<upstream, rows>> /\ q.pc = "report"
      /\ runs'[b].ref = ref /\ promised'[b] = fresh
      /\ \A c \in Bodies \ {b} : runs'[c] = runs[c] /\ promised'[c] = promised[c]
    BY DEF Report, LoaderEnds, At, TypeOK
<1>2. loader'[b] = NoRun /\ \A c \in Bodies \ {b} : loader'[c] = loader[c]
    BY <1>1, BecomesFrame
<1>3. \A i \in Ids : Synced(i)' <=> Synced(i)
    BY <1>1 DEF Synced
<1>4. RowsFit'
    BY <1>1 DEF AgreeInv, RowsFit, Synced
<1>5. LoadersHold'
    <2>1. Holds(b, NoRun)'
        BY DEF Holds, NoRun, Reading
    <2>2. ASSUME NEW c \in Bodies \ {b} PROVE Holds(c, loader[c])'
        BY <1>1, <1>2 DEF AgreeInv, LoadersHold, Holds, upstream
    <2>3. QED
        BY <1>1, <1>2, <2>1, <2>2 DEF AgreeInv, LoadersHold, upstream
<1>6. /\ ref <= version[b]
      /\ ref = version[b] => fresh = published[b] \ broken[b]
      /\ ref = version[b] => \A i \in fresh \intersect Own(b) : rows[i].status = "published"
    <2>1. version[b] \in Nat \ {0} /\ q.result \in {"none", "unchanged", "full", "crashed"}
        BY OneLoader DEF TypeOK, Loaders
    <2>2. CASE q.result = "crashed"
        BY <2>1, <2>2
    <2>3. CASE q.result # "crashed"
        <3>1. /\ q.sha <= version[b] /\ ref = q.sha
              /\ q.sha = version[b] => q.parsed = published[b] \ broken[b]
              /\ q.result = "unchanged" => q.sha = runs[b].ref
            BY <1>1, <2>3, OneLoader DEF Reads
        <3>2. q.result = "full" => \A i \in Own(b) : i \in q.parsed => rows[i].status = "published"
            BY <1>1, OneLoader DEF Brought
        <3>3. q.result \in {"unchanged", "full"}
            BY <1>1, <2>1, <2>3, OneLoader DEF Holds
        <3>4. QED
            BY <3>1, <3>2, <3>3, OneLoader
    <2>4. QED
        BY <2>2, <2>3
<1> HIDE DEF ref, fresh
<1>7. CommitsFit'
    <2>1. Reads(b, NoRun)'
        BY DEF Reads, NoRun, Reading
    <2>2. ASSUME NEW c \in Bodies \ {b}
          PROVE  /\ Reads(c, loader[c])' /\ (runs[c].ref <= version[c])'
                 /\ (runs[c].ref = version[c] => promised[c] = published[c] \ broken[c])'
        BY <1>1, <1>2 DEF AgreeInv, CommitsFit, Reads, upstream
    <2>3. QED
        BY <1>1, <1>2, <1>6, <2>1, <2>2 DEF CommitsFit, upstream
<1>8. AllBrought'
    <2>1. ASSUME NEW i \in Own(b) PROVE Brought(NoRun, i, rows'[i], Synced(i)')
        BY DEF Brought, NoRun
    <2>2. ASSUME NEW c \in Bodies \ {b}, NEW i \in Own(c) PROVE Brought(loader[c], i, rows[i], Synced(i)')
        BY <1>3, OwnIsOwn, OneLoader DEF Brought
    <2>3. QED
        BY <1>1, <1>2, <2>1, <2>2 DEF AllBrought
<1>9. MarkersAgree'
    BY <1>1, <1>6 DEF AgreeInv, MarkersAgree, upstream
<1>10. QED
    BY <1>4, <1>5, <1>7, <1>8, <1>9 DEF AgreeInv

\* Steps that touch no loader but to start or stop all of them.
LEMMA RestartAgrees ==
    ASSUME TypeOK, AgreeInv, UNCHANGED <<upstream, store, history>>,
           loader' \in [Bodies -> {NoRun, [NoRun EXCEPT !.pc = "head"]}]
    PROVE  AgreeInv'
<1> USE DEF upstream, store, history
<1>1. ASSUME NEW b \in Bodies
      PROVE  /\ loader'[b].pc \in {"idle", "head"} /\ loader'[b].result = "none"
             /\ loader'[b].parsed = {} /\ loader'[b].want = {} /\ loader'[b].prev = {}
    BY DEF NoRun
<1>2. \A i \in Ids : Synced(i)' <=> Synced(i)
    BY DEF Synced
<1>3. RowsFit'
    BY DEF AgreeInv, RowsFit, Synced
<1>4. LoadersHold'
    BY <1>1 DEF AgreeInv, LoadersHold, Holds, Reading
<1>5. CommitsFit'
    BY <1>1 DEF AgreeInv, CommitsFit, Reads, Reading
<1>6. AllBrought'
    BY <1>1 DEF AllBrought, Brought
<1>7. MarkersAgree'
    BY DEF AgreeInv, MarkersAgree
<1>8. QED
    BY <1>3, <1>4, <1>5, <1>6, <1>7 DEF AgreeInv

\* A newer commit is not the one that is recorded or read.
LEMMA PublishAgrees ==
    ASSUME TypeOK, AgreeInv, NEW b \in Bodies, NEW ids \in SUBSET MayPublish[b],
           NEW bad \in SUBSET (ids \intersect Fragile), Publish(b, ids, bad)
    PROVE  AgreeInv'
<1>1. /\ version'[b] = version[b] + 1 /\ published'[b] = ids /\ broken'[b] = bad
      /\ \A c \in Bodies \ {b} : /\ version'[c] = version[c] /\ published'[c] = published[c]
                                 /\ broken'[c] = broken[c]
      /\ UNCHANGED <<scene, rows, runs, promised, loader>>
      /\ b \in tables => bad = {}
    BY DEF Publish, TypeOK, store, history
<1>2. RowsFit'
    BY <1>1 DEF AgreeInv, RowsFit, Synced
<1>3. LoadersHold'
    <2>1. \A c \in Bodies : Holds(c, loader[c])'
        BY <1>1 DEF AgreeInv, LoadersHold, Holds
    <2>2. QED
        BY <1>1, <2>1 DEF AgreeInv, LoadersHold
<1>4. \A c \in Bodies : version[c] \in Nat /\ runs[c].ref \in Nat /\ loader[c].sha \in Nat
    BY OneLoader DEF TypeOK, Loaders
<1>5. CommitsFit'
    <2>1. ASSUME NEW c \in Bodies
          PROVE  /\ Reads(c, loader[c])' /\ (runs[c].ref <= version[c])'
                 /\ (runs[c].ref = version[c] => promised[c] = published[c] \ broken[c])'
        <3>1. /\ Reads(c, loader[c]) /\ runs[c].ref <= version[c]
              /\ runs[c].ref = version[c] => promised[c] = published[c] \ broken[c]
            BY DEF AgreeInv, CommitsFit
        <3>2. CASE c = b
            BY <1>1, <1>4, <3>1, <3>2 DEF Reads
        <3>3. CASE c # b
            BY <1>1, <3>1, <3>3 DEF Reads
        <3>4. QED
            BY <3>2, <3>3
    <2>2. QED
        BY <1>1, <2>1 DEF CommitsFit
<1>6. AllBrought'
    <2>1. ASSUME NEW c \in Bodies, NEW i \in Own(c) PROVE Brought(loader[c], i, rows[i], Synced(i))'
        BY <1>1, OneLoader DEF Brought, Synced
    <2>2. QED
        BY <2>1 DEF AllBrought
<1>7. MarkersAgree'
    <2>1. runs[b].ref <= version[b]
        BY DEF AgreeInv, CommitsFit
    <2>2. runs'[b].ref # version'[b]
        BY <1>1, <1>4, <2>1
    <2>3. QED
        BY <1>1, <2>2 DEF AgreeInv, MarkersAgree
<1>8. QED
    BY <1>2, <1>3, <1>5, <1>6, <1>7 DEF AgreeInv

\* A lookup writes no synced row, a clear leaves none: neither withdraws anything.
LEMMA PlainRowsAgree ==
    ASSUME TypeOK, AgreeInv, RowsFit', UNCHANGED <<upstream, runs, promised, loader>>,
           \A i \in Ids : rows'[i] = rows[i] \/ rows'[i] \in {LiveRow, NoRow}
    PROVE  AgreeInv'
<1> USE DEF upstream
<1>1. ASSUME NEW i \in Ids
      PROVE  /\ Synced(i)' => Synced(i) /\ rows'[i] = rows[i]
             /\ rows[i].status = "published" => rows'[i].status = "published"
    BY DEF Synced, LiveRow, NoRow
<1>2. LoadersHold'
    BY DEF AgreeInv, LoadersHold, Holds
<1>3. CommitsFit'
    BY DEF AgreeInv, CommitsFit, Reads
<1>4. AllBrought'
    <2>1. ASSUME NEW c \in Bodies, NEW i \in Own(c) PROVE Brought(loader[c], i, rows'[i], Synced(i)')
        BY <1>1, OneLoader, OwnIsOwn DEF Brought
    <2>2. QED
        BY <2>1 DEF AllBrought
<1>5. MarkersAgree'
    BY <1>1, OwnIsOwn DEF AgreeInv, MarkersAgree
<1>6. QED
    BY <1>2, <1>3, <1>4, <1>5 DEF AgreeInv

LEMMA LoaderAgrees ==
    ASSUME TypeOK, AgreeInv, RowsFit', NEW b \in Bodies, Loader(b) PROVE AgreeInv'
<1>1. CASE WriteAliases(b)
    <2>1. /\ PlanWithdrawal(b) /\ loader[b].pc = "alias"
          /\ UNCHANGED <<upstream, rows, runs, promised>>
        BY <1>1 DEF WriteAliases, history, At
    <2>2. QED
        BY <2>1, PlanAgrees
<1>2. CASE WroteAll(b)
    <2>1. /\ PlanWithdrawal(b) /\ loader[b].pc = "write" /\ b \in tables /\ loader[b].todo = {}
          /\ UNCHANGED <<upstream, rows, runs, promised>>
        BY <1>2 DEF WroteAll, store, history, At
    <2>2. QED
        BY <2>1, PlanAgrees
<1>3. QED
    BY <1>1, <1>2, HeadAgrees, SnapshotAgrees, CrashAgrees, WriteBatchAgrees, WriteOneAgrees,
       ReadMissingAgrees, MarkAgrees, ReportAgrees DEF Loader

LEMMA AgreeStep == ASSUME TypeOK, AgreeInv, [Next]_vars PROVE AgreeInv'
<1>0. RowsFit'
    BY RowsStep DEF AgreeInv
<1>1. ASSUME NEW k \in Ids, LiveWrite(k) PROVE AgreeInv'
    <2>1. /\ \A i \in Ids : rows'[i] = rows[i] \/ rows'[i] = LiveRow
          /\ UNCHANGED <<upstream, runs, promised, loader>>
        BY <1>1 DEF LiveWrite, TypeOK, history
    <2>2. QED
        BY <1>0, <2>1, PlainRowsAgree
<1>2. CASE Clear
    <2>1. /\ \A i \in Ids : rows'[i] = NoRow
          /\ UNCHANGED <<upstream, runs, promised, loader>>
        BY <1>2 DEF Clear
    <2>2. QED
        BY <1>0, <2>1, PlainRowsAgree
<1>3. ASSUME NEW selected, NEW forced, RunSync(selected, forced) PROVE AgreeInv'
    BY <1>3, RestartAgrees DEF RunSync
<1>4. CASE Kill
    BY <1>4, RestartAgrees DEF Kill
<1>5. CASE UNCHANGED vars
    <2>1. UNCHANGED <<upstream, rows, runs, promised, loader>>
        BY <1>5 DEF vars, store, history
    <2>2. QED
        BY <1>0, <2>1, PlainRowsAgree
<1>6. QED
    BY <1>0, <1>1, <1>2, <1>3, <1>4, <1>5, PublishAgrees, LoaderAgrees DEF Next

LEMMA InitAgrees == Init => AgreeInv
<1> SUFFICES ASSUME Init PROVE AgreeInv
    OBVIOUS
<1>1. /\ \A b \in Bodies : loader[b] = NoRun /\ published[b] \subseteq MayPublish[b] /\ broken[b] = {}
                           /\ version[b] = 1 /\ runs[b].ref = 0 /\ promised[b] = {}
      /\ \A i \in Ids : rows[i] = NoRow
    BY DEF Init
<1>2. RowsFit
    BY <1>1 DEF RowsFit, NoRow, Synced
<1>3. LoadersHold
    <2>1. \A b \in Bodies : Holds(b, NoRun)
        BY DEF Holds, NoRun, Reading
    <2>2. QED
        BY <1>1, <2>1 DEF LoadersHold
<1>4. CommitsFit
    BY <1>1 DEF CommitsFit, Reads, NoRun, Reading
<1>5. AllBrought
    BY <1>1 DEF AllBrought, Brought, NoRun
<1>6. MarkersAgree
    BY <1>1 DEF MarkersAgree
<1>7. QED
    BY <1>2, <1>3, <1>4, <1>5, <1>6 DEF AgreeInv

THEOREM AgreeCorrect == Spec => []AgreeInv
<1>1. QED
    BY InitAgrees, AgreeStep, TypeCorrect, PTL DEF Spec

\* A full report without errors means that the body's own synced rows are published
\* if the commit has them and withdrawn if it has not: for any bodies that run
\* together, lookups, clears and kills among them.
THEOREM CleanRunsAgree == Spec => []CleanRunAgrees
<1>1. TypeOK /\ AgreeInv => CleanRunAgrees
    <2> SUFFICES ASSUME TypeOK, AgreeInv, NEW b \in Bodies, CleanReport(b), NEW i \in Own(b), Synced(i)
                 PROVE  rows[i].status = "published" <=> i \in loader[b].want
        BY DEF CleanRunAgrees
    <2>1. loader[b].parsed = loader[b].want
        BY OneLoader DEF CleanReport, Holds, At
    <2>2. /\ i \in loader[b].parsed => rows[i].status = "published"
          /\ i \notin loader[b].parsed => rows[i].status = "withdrawn"
        BY OneLoader DEF CleanReport, Brought, At
    <2>3. QED
        BY <2>1, <2>2
<1>2. QED
    BY <1>1, AgreeCorrect, TypeCorrect, PTL

\* While upstream stands where it was recorded, nothing the recorded commit parsed
\* to is withdrawn, even by a forced run that was killed.
THEOREM UpToDateMeansPublishedAlways == Spec => []UpToDateMeansPublished
<1>1. AgreeInv => UpToDateMeansPublished
    BY DEF AgreeInv, MarkersAgree, UpToDateMeansPublished
<1>2. QED
    BY <1>1, AgreeCorrect, PTL

\* The recorded commit stands for stored rows, which are published while upstream
\* stands still; a withdrawal pass takes at most half of what its body had; and a full
\* report without errors means that the rows agree with upstream: for any bodies,
\* repositories or tables, that run together, and a kill anywhere.
THEOREM SyncIsTrueAlways == Spec => []SyncIsTrue
<1>1. QED
    BY MarkerMeansStoredAlways, UpToDateMeansPublishedAlways, WithdrawalsAreGuardedAlways,
       CleanRunsAgree, PTL DEF SyncIsTrue

-----------------------------------------------------------------------------
(* RelatonRecords: what a file becomes depends on what it counts, not on the    *)
(* places where it lists it.                                                    *)

\* Intervals 0..n are finite, and finite sets are well founded under inclusion.
LEMMA MinOfPlaces ==
    ASSUME NEW P, P \subseteq Nat, P # {}
    PROVE  Min(P) \in P
<1> DEFINE T == {0..n : n \in P}
<1>1. T \subseteq FiniteSubsetsOf(Nat)
    <2> SUFFICES ASSUME NEW n \in P PROVE 0..n \in FiniteSubsetsOf(Nat)
        OBVIOUS
    <2>1. QED
        BY FS_Interval DEF FiniteSubsetsOf
<1>2. \E x \in T : \A y \in T : <<y, x>> \notin StrictSubsetOrdering(Nat)
    <2>1. T # {}
        OBVIOUS
    <2> HIDE DEF T
    <2>2. QED
        BY <1>1, <2>1, WFMin, FS_StrictSubsetOrderingWellFounded
<1>3. PICK n \in P : \A m \in P : <<0..m, 0..n>> \notin StrictSubsetOrdering(Nat)
    BY <1>2
<1>4. ASSUME NEW m \in P, ~(n =< m) PROVE FALSE
    <2>1. 0..m \subseteq 0..n /\ n \in 0..n /\ n \notin 0..m
        BY <1>4
    <2>2. 0..m # 0..n
        BY <2>1
    <2>3. <<0..m, 0..n>> \in StrictSubsetOrdering(Nat)
        BY <2>1, <2>2 DEF StrictSubsetOrdering
    <2>4. QED
        BY <1>3, <2>3
<1>5. QED
    BY <1>4 DEF Min

\* The counted places of a type, those of them that are spelled jointly, and the
\* primary ones.
PlacesOf(s, type) == {k \in NotTrademarks(s) : s[k].type = type}
JointOf(s, type) == {k \in PlacesOf(s, type) : {ISO, IEC} \subseteq Range(s[k].id.prefix)}
PrimaryOf(s) == {k \in NotTrademarks(s) : s[k].primary}

\* A file as Canonical takes it: its entries have places in a row.
Readable(s) == DOMAIN s \subseteq Nat

\* The first entry of some places is one that is counted there.
LEMMA FirstIsCounted ==
    ASSUME NEW s, Readable(s), NEW P, P \subseteq NotTrademarks(s), P # {}
    PROVE  Min(P) \in P /\ s[Min(P)] \in Counted(s)
<1>1. P \subseteq Nat
    BY DEF Readable, NotTrademarks
<1>2. QED
    BY <1>1, MinOfPlaces DEF Counted

\* What two files that count the same have in common.
LEMMA SamePlaces ==
    ASSUME NEW s, NEW t, Counted(s) = Counted(t)
    PROVE  /\ \A type : PlacesOf(s, type) = {} <=> PlacesOf(t, type) = {}
           /\ \A type : JointOf(s, type) = {} <=> JointOf(t, type) = {}
           /\ PrimaryOf(s) = {} <=> PrimaryOf(t) = {}
<1>1. ASSUME NEW a, NEW b, Counted(a) = Counted(b)
      PROVE  /\ \A type : PlacesOf(a, type) # {} => PlacesOf(b, type) # {}
             /\ \A type : JointOf(a, type) # {} => JointOf(b, type) # {}
             /\ PrimaryOf(a) # {} => PrimaryOf(b) # {}
    <2>1. \A k \in NotTrademarks(a) : \E j \in NotTrademarks(b) : a[k] = b[j]
        BY <1>1 DEF Counted
    <2>2. QED
        BY <2>1 DEF PlacesOf, JointOf, PrimaryOf
<1>2. QED
    BY <1>1

Theirs == {ISO, IEC, IEEE}

LEMMA SameFirst ==
    ASSUME NEW s, NEW t, Readable(s), Readable(t), OneOfEach(s), Counted(s) = Counted(t)
    PROVE  /\ \A type \in Theirs : PlacesOf(s, type) # {} =>
                 s[Min(PlacesOf(s, type))].id = t[Min(PlacesOf(t, type))].id
           /\ \A type \in Theirs : JointOf(s, type) # {} =>
                 s[Min(JointOf(s, type))].id = t[Min(JointOf(t, type))].id
           /\ (\A type \in Theirs : PlacesOf(s, type) = {}) /\ PrimaryOf(s) # {} =>
                 /\ s[Min(PrimaryOf(s))].id = t[Min(PrimaryOf(t))].id
                 /\ s[Min(PrimaryOf(s))].type = t[Min(PrimaryOf(t))].type
<1>1. \A d, e \in Counted(s) : d.type = e.type /\ d.type \in Theirs => d.id = e.id
    BY DEF OneOfEach, Theirs
<1>2. ASSUME NEW type \in Theirs, PlacesOf(s, type) # {}
      PROVE  s[Min(PlacesOf(s, type))].id = t[Min(PlacesOf(t, type))].id
    <2>1. PlacesOf(t, type) # {}
        BY <1>2, SamePlaces
    <2>2. /\ s[Min(PlacesOf(s, type))] \in Counted(s) /\ s[Min(PlacesOf(s, type))].type = type
          /\ t[Min(PlacesOf(t, type))] \in Counted(s) /\ t[Min(PlacesOf(t, type))].type = type
        BY <1>2, <2>1, FirstIsCounted DEF PlacesOf
    <2>3. QED
        BY <1>1, <2>2
<1>3. ASSUME NEW type \in Theirs, JointOf(s, type) # {}
      PROVE  s[Min(JointOf(s, type))].id = t[Min(JointOf(t, type))].id
    <2>1. JointOf(t, type) # {}
        BY <1>3, SamePlaces
    <2>2. /\ s[Min(JointOf(s, type))] \in Counted(s) /\ s[Min(JointOf(s, type))].type = type
          /\ t[Min(JointOf(t, type))] \in Counted(s) /\ t[Min(JointOf(t, type))].type = type
        BY <1>3, <2>1, FirstIsCounted DEF PlacesOf, JointOf
    <2>3. QED
        BY <1>1, <2>2
<1>4. ASSUME \A type \in Theirs : PlacesOf(s, type) = {}, PrimaryOf(s) # {}
      PROVE  /\ s[Min(PrimaryOf(s))].id = t[Min(PrimaryOf(t))].id
             /\ s[Min(PrimaryOf(s))].type = t[Min(PrimaryOf(t))].type
    <2>1. PrimaryOf(t) # {}
        BY <1>4, SamePlaces
    <2>2. /\ s[Min(PrimaryOf(s))] \in Counted(s) /\ s[Min(PrimaryOf(s))].primary
          /\ t[Min(PrimaryOf(t))] \in Counted(s) /\ t[Min(PrimaryOf(t))].primary
        BY <1>4, <2>1, FirstIsCounted DEF PrimaryOf
    <2>3. \A d \in Counted(s) : d.type \notin Theirs
        BY <1>4 DEF Counted, PlacesOf
    <2>4. QED
        BY <2>2, <2>3 DEF OneOfEach, Theirs
<1>5. QED
    BY <1>2, <1>3, <1>4

\* Files that count the same have one identity.
LEMMA SameIdentity ==
    ASSUME NEW s, NEW t, Readable(s), Readable(t), OneOfEach(s), Counted(s) = Counted(t)
    PROVE  Canonical(s) = Canonical(t)
<1> DEFINE F(a, P) == a[Min(P)]
           Has(a, type) == PlacesOf(a, type) # {}
           As(id, body) == [id |-> id, body |-> body]
           Of(a) ==
               CASE Has(a, IEEE) /\ Has(a, IEC) /\ Has(a, ISO) ->
                      As(Joined(F(a, PlacesOf(a, IEEE)).id, <<ISO, IEC, IEEE>>), <<ISO, IEC, IEEE>>)
                 [] Has(a, IEEE) /\ Has(a, IEC) /\ ~Has(a, ISO) ->
                      As(Joined(F(a, PlacesOf(a, IEEE)).id, <<IEC, IEEE>>), <<IEC, IEEE>>)
                 [] Has(a, IEEE) /\ ~Has(a, IEC) -> As(F(a, PlacesOf(a, IEEE)).id, <<IEEE>>)
                 [] ~Has(a, IEEE) /\ Has(a, IEC) /\ Has(a, ISO) ->
                      As(Joined(F(a, IF JointOf(a, ISO) # {} THEN JointOf(a, ISO)
                                     ELSE IF JointOf(a, IEC) # {} THEN JointOf(a, IEC)
                                     ELSE PlacesOf(a, ISO)).id, <<ISO, IEC>>), <<ISO, IEC>>)
                 [] ~Has(a, IEEE) /\ ~Has(a, IEC) /\ Has(a, ISO) -> As(F(a, PlacesOf(a, ISO)).id, <<ISO>>)
                 [] ~Has(a, IEEE) /\ Has(a, IEC) /\ ~Has(a, ISO) -> As(F(a, PlacesOf(a, IEC)).id, <<IEC>>)
                 [] OTHER -> IF PrimaryOf(a) = {} THEN Unknown
                             ELSE As(F(a, PrimaryOf(a)).id, <<F(a, PrimaryOf(a)).type>>)
<1>1. Canonical(s) = Of(s) /\ Canonical(t) = Of(t)
    BY DEF Canonical, Identity, PlacesOf, JointOf, PrimaryOf
<1>2. \A type \in Theirs :
         /\ Has(s, type) <=> Has(t, type)
         /\ JointOf(s, type) = {} <=> JointOf(t, type) = {}
         /\ Has(s, type) => F(s, PlacesOf(s, type)).id = F(t, PlacesOf(t, type)).id
         /\ JointOf(s, type) # {} => F(s, JointOf(s, type)).id = F(t, JointOf(t, type)).id
    BY SamePlaces, SameFirst
<1>3. /\ PrimaryOf(s) = {} <=> PrimaryOf(t) = {}
      /\ ~Has(s, ISO) /\ ~Has(s, IEC) /\ ~Has(s, IEEE) /\ PrimaryOf(s) # {} =>
            /\ F(s, PrimaryOf(s)).id = F(t, PrimaryOf(t)).id
            /\ F(s, PrimaryOf(s)).type = F(t, PrimaryOf(t)).type
    BY SamePlaces, SameFirst DEF Theirs
<1>4. ISO \in Theirs /\ IEC \in Theirs /\ IEEE \in Theirs
    BY DEF Theirs
<1> HIDE DEF F, Has
<1>5. Of(s) = Of(t)
    <2>1. CASE Has(s, IEEE)
        BY <1>2, <1>4, <2>1
    <2>2. CASE ~Has(s, IEEE) /\ Has(s, IEC) /\ Has(s, ISO)
        BY <1>2, <1>4, <2>2
    <2>3. CASE ~Has(s, IEEE) /\ ~(Has(s, IEC) /\ Has(s, ISO)) /\ (Has(s, IEC) \/ Has(s, ISO))
        BY <1>2, <1>4, <2>3
    <2>4. CASE ~Has(s, IEEE) /\ ~Has(s, IEC) /\ ~Has(s, ISO)
        BY <1>2, <1>3, <1>4, <2>4
    <2>5. QED
        BY <2>1, <2>2, <2>3, <2>4
<1>6. QED
    BY <1>1, <1>5

\* Turning a file changes no entry.
LEMMA TurnedCounts ==
    ASSUME NEW s, NEW order \in Surjection(DOMAIN s, DOMAIN s)
    PROVE  /\ DOMAIN Turned(s, order) = DOMAIN s
           /\ Counted(Turned(s, order)) = Counted(s)
<1>1. /\ order \in [DOMAIN s -> DOMAIN s]
      /\ \A w \in DOMAIN s : \E v \in DOMAIN s : order[v] = w
    BY DEF Surjection
<1>2. /\ DOMAIN Turned(s, order) = DOMAIN s
      /\ \A k \in DOMAIN s : Turned(s, order)[k] = s[order[k]]
    BY DEF Turned
<1>3. Counted(Turned(s, order)) \subseteq Counted(s)
    BY <1>1, <1>2 DEF Counted, NotTrademarks
<1>4. Counted(s) \subseteq Counted(Turned(s, order))
    <2> SUFFICES ASSUME NEW k \in NotTrademarks(s) PROVE s[k] \in Counted(Turned(s, order))
        BY DEF Counted
    <2>1. k \in DOMAIN s /\ ~s[k].trademark
        BY DEF NotTrademarks
    <2>2. PICK j \in DOMAIN s : order[j] = k
        BY <1>1, <2>1
    <2>3. Turned(s, order)[j] = s[k] /\ j \in NotTrademarks(Turned(s, order))
        BY <1>2, <2>1, <2>2 DEF NotTrademarks
    <2>4. QED
        BY <2>3 DEF Counted
<1>5. QED
    BY <1>2, <1>3, <1>4

\* A joint record's identifier begins with its bodies.
LEMMA JoinedBegins ==
    ASSUME NEW id, NEW joint \in {<<ISO, IEC, IEEE>>, <<IEC, IEEE>>, <<ISO, IEC>>}
    PROVE  IsPrefix(joint, Joined(id, joint).prefix)
<1>1. IsPrefix(joint, joint)
    BY DEF IsPrefix
<1>2. QED
    BY <1>1 DEF Joined, Id

LEMMA JointNamesBodies ==
    ASSUME NEW s, Len(Canonical(s).body) > 1
    PROVE  IsPrefix(Canonical(s).body, Canonical(s).id.prefix)
<1> DEFINE Jointly(c) == \E id : \E joint \in {<<ISO, IEC, IEEE>>, <<IEC, IEEE>>, <<ISO, IEC>>} :
                            c = [id |-> Joined(id, joint), body |-> joint]
           Singly(c) == \E id, body : c = [id |-> id, body |-> <<body>>]
<1>1. Jointly(Canonical(s)) \/ Singly(Canonical(s)) \/ Canonical(s) = Unknown
    <2> HIDE DEF Jointly, Singly
    <2>1. \A id : \A joint \in {<<ISO, IEC, IEEE>>, <<IEC, IEEE>>, <<ISO, IEC>>} :
             Jointly([id |-> Joined(id, joint), body |-> joint])
        BY DEF Jointly
    <2>2. \A id, body : Singly([id |-> id, body |-> <<body>>])
        BY DEF Singly
    <2>3. QED
        BY <2>1, <2>2, Zenon DEF Canonical, Identity
<1>2. CASE Jointly(Canonical(s))
    <2>1. PICK id : \E joint \in {<<ISO, IEC, IEEE>>, <<IEC, IEEE>>, <<ISO, IEC>>} :
                 Canonical(s) = [id |-> Joined(id, joint), body |-> joint]
        BY <1>2
    <2>2. PICK joint \in {<<ISO, IEC, IEEE>>, <<IEC, IEEE>>, <<ISO, IEC>>} :
                 Canonical(s) = [id |-> Joined(id, joint), body |-> joint]
        BY <2>1
    <2>3. IsPrefix(joint, Joined(id, joint).prefix)
        BY JoinedBegins
    <2>4. QED
        BY <2>2, <2>3
<1>3. CASE Singly(Canonical(s))
    <2>1. PICK id, body : Canonical(s) = [id |-> id, body |-> <<body>>]
        BY <1>3
    <2>2. Len(Canonical(s).body) = 1
        BY <2>1
    <2>3. QED
        BY <2>2
<1>4. CASE Canonical(s) = Unknown
    <2>1. Len(Canonical(s).body) = 0
        BY <1>4 DEF Unknown
    <2>2. QED
        BY <2>1
<1>5. QED
    BY <1>1, <1>2, <1>3, <1>4

\* What a file has become is what it says now.
RecordInv ==
    /\ doc \in Documents
    /\ made.stored =>
          /\ Canonical(doc.entries) = [id |-> made.id, body |-> made.body]
          /\ made.aliases = AliasesOf(doc.entries, made.id)

LEMMA RecordCorrect == RecordSpec => []RecordInv
<1>1. RecordInit => RecordInv
    BY DEF RecordInit, RecordInv, NotRead
<1>2. RecordInv /\ [RecordNext]_recordVars => RecordInv'
    <2>1. ASSUME RecordInv, YamlToRecord PROVE RecordInv'
        <3> DEFINE identity == Canonical(doc.entries)
        <3>1. identity = [id |-> identity.id, body |-> identity.body]
            BY Zenon DEF Canonical, Identity, Unknown
        <3>2. QED
            BY <2>1, <3>1 DEF RecordInv, YamlToRecord, NoRecord
    <2>2. ASSUME RecordInv, UNCHANGED recordVars PROVE RecordInv'
        BY <2>2 DEF RecordInv, recordVars
    <2>3. QED
        BY <2>1, <2>2 DEF RecordNext
<1>3. QED
    BY <1>1, <1>2, PTL DEF RecordSpec

\* Files that count the same identifiers, one of each body, become one row whatever the
\* order they list them in and whatever trademarks they list; a joint row carries the
\* names of its bodies, and every other identifier leads to it: for any files.
THEOREM JointRecordsDoAgree == RecordSpec => []JointRecordsAgree
<1>1. RecordInv => JointRecordsAgree
    <2> SUFFICES ASSUME RecordInv, made.stored PROVE JointRecordsAgree
        BY DEF JointRecordsAgree
    <2>1. Canonical(doc.entries) = [id |-> made.id, body |-> made.body]
        BY DEF RecordInv
    <2>2. ASSUME NEW entries \in {file.entries : file \in Documents},
                 Counted(entries) = Counted(doc.entries),
                 NEW order \in Surjection(DOMAIN entries, DOMAIN entries)
          PROVE  Canonical(Turned(entries, order)) = Canonical(doc.entries)
        <3>1. OneOfEach(doc.entries) /\ OneOfEach(entries)
            BY RecordAssumption DEF RecordInv
        <3>2. Readable(doc.entries) /\ Readable(entries)
            BY <3>1 DEF OneOfEach, Readable
        <3>3. Readable(Turned(entries, order)) /\ Counted(Turned(entries, order)) = Counted(doc.entries)
            BY <2>2, <3>2, TurnedCounts DEF Readable
        <3>4. QED
            BY <3>1, <3>2, <3>3, SameIdentity
    <2>3. Len(made.body) > 1 => IsPrefix(made.body, made.id.prefix)
        BY <2>1, JointNamesBodies
    <2>4. /\ {doc.entries[k].id : k \in DOMAIN doc.entries} \subseteq made.aliases \union {made.id}
          /\ made.id \notin made.aliases
        BY DEF RecordInv, AliasesOf
    <2>5. QED
        BY <2>1, <2>2, <2>3, <2>4 DEF JointRecordsAgree
<1>2. QED
    BY <1>1, RecordCorrect, PTL
=============================================================================
