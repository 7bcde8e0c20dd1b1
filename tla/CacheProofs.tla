----------------------------- MODULE CacheProofs -----------------------------
(***************************************************************************)
(* Proofs about what the cache keeps across runs, releases and calls: the   *)
(* Common Criteria loader, for any table of frameworks and any profiles,    *)
(* the opening of a database of an earlier release, for any processes, and  *)
(* the standards tools over their tables, for any calls and fetchers.       *)
(***************************************************************************)
EXTENDS CommonCriteriaSync, CacheOpen, StandardsLookup, FiniteSetTheorems, TLAPS

-----------------------------------------------------------------------------
(* CommonCriteriaSync.  A report is only as good as every phase before it:    *)
(* what makes the properties inductive is what each phase has done so far.    *)

LoaderFields == {"pc", "force", "prev", "entry", "written", "csv", "todo", "marking", "result",
                 "failed", "cleared"}

Listings == [Profiles -> {"absent", "published", "archived"}]

Stands == {NoRow} \union [source : {"CC", "ISO"}, status : {"published", "archived", "withdrawn"}]

\* Only the loader writes a row of a profile.
CriteriaTyped ==
    /\ rows \in [Ids -> Stands]
    /\ \A p \in Profiles : rows[p] = NoRow \/ rows[p].source = "CC"
    /\ pps.lists \in Listings
    /\ promised \subseteq Profiles
    /\ DOMAIN loader = LoaderFields
    /\ loader.pc \in {"idle", "framework", "profiles", "withdraw", "report"}
    /\ loader.entry \in Nat \ {0} /\ loader.written \in Nat
    /\ loader.prev \subseteq Ids /\ loader.todo \subseteq Profiles
    /\ loader.csv.lists \in Listings
    /\ loader.marking \in Profiles \union {NoIso}
    /\ loader.marking # NoIso => loader.pc = "withdraw"
    /\ loader.pc \in {"profiles", "withdraw"} => loader.result = "full"

\* Of the table, the entries before one are stored, and some records of that one.
StoredUpTo(entry, written) ==
    \A k \in DOMAIN Frameworks :
        /\ k < entry => /\ \A n \in DOMAIN RecordsOf(Frameworks[k]) :
                             rows[RecordsOf(Frameworks[k])[n]].status = "published"
                        /\ Frameworks[k].cc \in aliased
        /\ k = entry => \A n \in DOMAIN RecordsOf(Frameworks[k]) :
                           n <= written => rows[RecordsOf(Frameworks[k])[n]].status = "published"

FrameworksKept ==
    ~loader.cleared =>
        /\ loader.pc = "framework" => StoredUpTo(loader.entry, loader.written)
        /\ loader.pc \in {"profiles", "withdraw", "report"} =>
              StoredUpTo(Len(Frameworks) + 1, 0)

\* The profiles of the list that the run has written are rows of CC, unless a
\* clear took them, and without a clear they say what the list says.
ListedAreStored ==
    loader.pc \in {"profiles", "withdraw", "report"} /\ loader.result = "full" =>
        \A p \in Parsed(loader.csv) :
            loader.pc # "profiles" \/ p \notin loader.todo =>
                /\ p \in wiped \/ rows[p].source = "CC"
                /\ loader.cleared \/ rows[p].status = StatusIn(loader.csv, p)

\* A profile that the list has dropped has no row, or one that is to be withdrawn.
Dropped(p) ==
    \/ rows[p] = NoRow \/ rows[p].status = "withdrawn"
    \/ loader.pc = "withdraw" /\ (p \in loader.todo \/ p = loader.marking)
    \/ loader.pc = "report" /\ loader.failed

DroppedAreFound ==
    ~loader.cleared =>
        /\ loader.pc = "framework" => \A p \in Profiles \ loader.prev : rows[p] = NoRow
        /\ loader.pc = "profiles" =>
              \A p \in Profiles \ (loader.prev \union Parsed(loader.csv)) : rows[p] = NoRow
        /\ loader.pc \in {"withdraw", "report"} /\ loader.result = "full" =>
              \A p \in Profiles \ Parsed(loader.csv) : Dropped(p)

\* What a phase has to do: write listed profiles, then mark the others.
Tasks ==
    /\ loader.pc = "profiles" => loader.todo \subseteq Parsed(loader.csv)
    /\ loader.pc = "withdraw" =>
          /\ loader.todo \intersect Parsed(loader.csv) = {}
          /\ loader.marking \notin Parsed(loader.csv)

CriteriaInv ==
    /\ CriteriaTyped /\ FrameworksKept /\ ListedAreStored /\ DroppedAreFound /\ Tasks
    /\ MarkerMeansProfiles /\ HalfAtMost

-----------------------------------------------------------------------------
\* Profiles are no documents of the table, whose records are its documents.
LEMMA Apart ==
    /\ NoIso \notin Profiles
    /\ Profiles \subseteq Ids /\ FrameworkIds \subseteq Ids
    /\ \A p \in Profiles : p \notin FrameworkIds
    /\ \A k \in DOMAIN Frameworks : \A n \in DOMAIN RecordsOf(Frameworks[k]) :
          RecordsOf(Frameworks[k])[n] \in FrameworkIds
    /\ \A i \in FrameworkIds : \E k \in DOMAIN Frameworks :
          \E n \in DOMAIN RecordsOf(Frameworks[k]) : i = RecordsOf(Frameworks[k])[n]
<1>1. \A i : i \in FrameworkIds <=>
        \E k \in DOMAIN Frameworks : \E n \in DOMAIN RecordsOf(Frameworks[k]) :
            i = RecordsOf(Frameworks[k])[n]
  BY DEF FrameworkIds, Range
<1> QED BY <1>1, CCAssumption DEF Ids

LEMMA RecordCount ==
    ASSUME NEW entry
    PROVE  /\ Len(RecordsOf(entry)) \in Nat
           /\ DOMAIN RecordsOf(entry) = 1..Len(RecordsOf(entry))
<1>1. CASE entry.iso = NoIso
  BY <1>1 DEF RecordsOf
<1>2. CASE entry.iso # NoIso
  BY <1>2 DEF RecordsOf
<1> QED BY <1>1, <1>2

LEMMA ParsedAreProfiles ==
    ASSUME NEW csv PROVE Parsed(csv) \subseteq Profiles
BY DEF Parsed

\* A whole table that is stored is what a report promises.
LEMMA WholeTable ==
    ASSUME StoredUpTo(Len(Frameworks) + 1, 0)
    PROVE  /\ \A i \in FrameworkIds : rows[i].status = "published"
           /\ \A k \in DOMAIN Frameworks : Frameworks[k].cc \in aliased
<1>1. \A k \in DOMAIN Frameworks : k < Len(Frameworks) + 1
  BY CCAssumption
<1> QED BY <1>1, Apart DEF StoredUpTo

\* Stored documents stay so while rows of the table are published and none is
\* taken away.
LEMMA TableStays ==
    ASSUME NEW entry, NEW written, StoredUpTo(entry, written),
           aliased \subseteq aliased',
           \A i \in FrameworkIds : rows'[i] = rows[i] \/ rows'[i].status = "published"
    PROVE  StoredUpTo(entry, written)'
BY Apart DEF StoredUpTo

LEMMA CriteriaStarts == CriteriaInit => CriteriaInv
<1> SUFFICES ASSUME CriteriaInit PROVE CriteriaInv
  OBVIOUS
<1>1. loader.pc = "idle" /\ loader.marking = NoIso /\ DOMAIN loader = LoaderFields
      /\ loader.entry = 1 /\ loader.written = 0 /\ loader.prev = {} /\ loader.todo = {}
      /\ loader.csv.lists = [p \in Profiles |-> "absent"]
  BY DEF CriteriaInit, Idle, NoCsv, LoaderFields
<1>2. CriteriaTyped
  BY <1>1, Apart DEF CriteriaInit, CriteriaTyped, Listings, Stands
<1> QED BY <1>1, <1>2 DEF CriteriaInit, CriteriaInv, FrameworksKept, ListedAreStored,
          DroppedAreFound, Tasks, MarkerMeansProfiles, HalfAtMost

\* The steps that change no field of the loader but whether a clear has come.
LEMMA AroundKeeps ==
    ASSUME CriteriaInv, UNCHANGED promised,
           loader' = loader \/ loader' = [loader EXCEPT !.cleared = ~Away],
           \/ /\ UNCHANGED <<rows, aliased, wiped, loader>> /\ pps'.lists \in Listings
           \/ /\ UNCHANGED pps /\ \E i : RelatonWrites(i)
           \/ /\ UNCHANGED pps /\ Clear
    PROVE  CriteriaInv'
<1> USE DEF CriteriaInv
<1>1. CASE UNCHANGED <<rows, aliased, wiped, loader>> /\ pps'.lists \in Listings
  <2>1. CriteriaTyped'
    BY <1>1 DEF CriteriaTyped
  <2>2. FrameworksKept' /\ ListedAreStored' /\ DroppedAreFound' /\ Tasks'
    <3>1. FrameworksKept'
      BY <1>1 DEF FrameworksKept, StoredUpTo
    <3>2. ListedAreStored'
      BY <1>1 DEF ListedAreStored, Parsed, StatusIn
    <3>3. \A p : Dropped(p)' <=> Dropped(p)
      BY <1>1 DEF Dropped
    <3>4. DroppedAreFound'
      BY <1>1, <3>3 DEF DroppedAreFound
    <3>5. Tasks'
      BY <1>1 DEF Tasks, Parsed
    <3> QED BY <3>1, <3>2, <3>4, <3>5
  <2> QED BY <1>1, <2>1, <2>2 DEF MarkerMeansProfiles, HalfAtMost
<1>2. ASSUME UNCHANGED pps, NEW i, RelatonWrites(i) PROVE CriteriaInv'
  <2>1. /\ i \in FrameworkIds /\ i \notin Profiles /\ i \in Ids
        /\ rows' = [rows EXCEPT ![i] = [source |-> "ISO", status |-> "published"]]
        /\ wiped' = wiped \ {i}
        /\ UNCHANGED <<pps, aliased, run, loader, promised>>
    BY <1>2, Apart DEF RelatonWrites
  <2>2. CriteriaTyped'
    BY <2>1 DEF CriteriaTyped, Stands
  <2>3. \A p \in Profiles : rows'[p] = rows[p] /\ (p \in wiped' <=> p \in wiped)
    BY <2>1
  <2>4. \A j \in FrameworkIds : rows'[j] = rows[j] \/ rows'[j].status = "published"
    BY <2>1, Apart DEF CriteriaTyped
  <2>5. FrameworksKept'
    BY <2>1, <2>4, TableStays DEF FrameworksKept
  <2>6. ListedAreStored' /\ DroppedAreFound' /\ Tasks' /\ MarkerMeansProfiles' /\ HalfAtMost'
    BY <2>1, <2>3, ParsedAreProfiles DEF CriteriaTyped, ListedAreStored, DroppedAreFound, Dropped,
       Tasks, MarkerMeansProfiles, HalfAtMost, Parsed, StatusIn
  <2> QED BY <2>2, <2>5, <2>6
<1>3. CASE UNCHANGED pps /\ Clear
  <2> DEFINE l == [loader EXCEPT !.cleared = ~Away]
  <2>1. /\ loader' = l /\ rows' = [i \in Ids |-> NoRow] /\ wiped' = Ids
        /\ UNCHANGED <<pps, promised>>
    BY <1>3 DEF Clear
  <2>2. /\ \A f \in LoaderFields \ {"cleared"} : l[f] = loader[f]
        /\ DOMAIN l = LoaderFields
        /\ loader.pc # "idle" => l.cleared
    BY DEF CriteriaTyped, LoaderFields, Away
  <2>3. /\ l.pc = loader.pc /\ l.entry = loader.entry /\ l.written = loader.written
        /\ l.prev = loader.prev /\ l.csv = loader.csv /\ l.todo = loader.todo
        /\ l.marking = loader.marking /\ l.result = loader.result
    BY <2>2 DEF LoaderFields
  <2> HIDE DEF l
  <2>4. CriteriaTyped'
    BY <2>1, <2>2, <2>3, Apart DEF CriteriaTyped, Stands
  <2>5. FrameworksKept' /\ DroppedAreFound'
    BY <2>1, <2>2, <2>3 DEF FrameworksKept, DroppedAreFound
  <2>6. ListedAreStored' /\ Tasks' /\ MarkerMeansProfiles' /\ HalfAtMost'
    BY <2>1, <2>2, <2>3, ParsedAreProfiles, Apart DEF CriteriaTyped, ListedAreStored, Tasks,
       MarkerMeansProfiles, HalfAtMost, Parsed, StatusIn
  <2> QED BY <2>4, <2>5, <2>6
<1> QED BY <1>1, <1>2, <1>3

\* The run begins with the whole table to write and what CC owns in its hands.
LEMMA BeginKeeps ==
    ASSUME CriteriaInv, NEW forced, Begin(forced) PROVE CriteriaInv'
<1> DEFINE l == [Idle EXCEPT !.pc = "framework", !.force = forced, !.prev = Owned]
<1>1. /\ DOMAIN l = LoaderFields /\ l.pc = "framework" /\ l.entry = 1 /\ l.written = 0
      /\ l.prev = Owned /\ l.todo = {} /\ l.marking = NoIso
      /\ l.csv.lists = [p \in Profiles |-> "absent"]
  BY DEF Idle, NoCsv, LoaderFields
<1>2. loader' = l /\ UNCHANGED <<pps, rows, aliased, promised, wiped>>
  BY DEF Begin
<1> HIDE DEF l
<1>3. \A p \in Profiles \ Owned : rows[p] = NoRow
  BY Apart DEF Owned, CriteriaInv, CriteriaTyped
<1>4. CriteriaTyped'
  BY <1>1, <1>2 DEF CriteriaInv, CriteriaTyped, Listings, Owned
<1>5. FrameworksKept'
  BY <1>1, <1>2, CCAssumption, RecordCount DEF FrameworksKept, StoredUpTo
<1>6. ListedAreStored' /\ DroppedAreFound' /\ Tasks'
  BY <1>1, <1>2, <1>3 DEF ListedAreStored, DroppedAreFound, Tasks
<1> QED BY <1>1, <1>2, <1>4, <1>5, <1>6 DEF CriteriaInv, MarkerMeansProfiles, HalfAtMost

\* An idle loader has nothing to keep.
LEMMA IdleKeeps ==
    ASSUME CriteriaInv, loader' = Idle, UNCHANGED <<pps, rows, aliased, wiped>>,
           promised' \subseteq Profiles,
           \A p \in promised' \ wiped : rows[p].source = "CC"
    PROVE  CriteriaInv'
<1>1. /\ DOMAIN Idle = LoaderFields /\ Idle.pc = "idle" /\ Idle.entry = 1 /\ Idle.written = 0
      /\ Idle.prev = {} /\ Idle.todo = {} /\ Idle.marking = NoIso
      /\ Idle.csv.lists = [p \in Profiles |-> "absent"]
  BY DEF Idle, NoCsv, LoaderFields
<1>2. CriteriaTyped'
  BY <1>1 DEF CriteriaInv, CriteriaTyped, Listings
<1> QED BY <1>1, <1>2 DEF CriteriaInv, FrameworksKept, ListedAreStored, DroppedAreFound, Tasks,
           MarkerMeansProfiles, HalfAtMost

\* The first phase writes the table, entry by entry.
LEMMA FrameworkKeeps ==
    ASSUME CriteriaInv, WriteFramework \/ WriteAliases PROVE CriteriaInv'
<1> SUFFICES ASSUME NEW entry, entry = loader.entry, NEW w, w = loader.written PROVE CriteriaInv'
  OBVIOUS
<1> DEFINE of == RecordsOf(Frameworks[entry])
           l == [loader EXCEPT !.written = w + 1]
           next == [loader EXCEPT !.entry = entry + 1, !.written = 0]
<1>1. /\ loader.pc = "framework" /\ entry \in DOMAIN Frameworks /\ entry \in Nat \ {0}
      /\ w \in Nat /\ DOMAIN loader = LoaderFields /\ DOMAIN of = 1..Len(of) /\ Len(of) \in Nat
      /\ loader.marking = NoIso
  BY CCAssumption, RecordCount DEF WriteFramework, WriteAliases, CriteriaInv, CriteriaTyped
<1>2. /\ l.written = w + 1 /\ DOMAIN l = LoaderFields
      /\ \A f \in LoaderFields \ {"written"} : l[f] = loader[f]
      /\ next.written = 0 /\ next.entry = entry + 1 /\ DOMAIN next = LoaderFields
      /\ \A f \in LoaderFields \ {"written", "entry"} : next[f] = loader[f]
  BY <1>1 DEF LoaderFields
<1>3. /\ l.pc = "framework" /\ l.entry = entry /\ l.prev = loader.prev /\ l.todo = loader.todo
      /\ l.csv = loader.csv /\ l.marking = NoIso /\ l.cleared = loader.cleared
      /\ next.pc = "framework" /\ next.prev = loader.prev /\ next.todo = loader.todo
      /\ next.csv = loader.csv /\ next.marking = NoIso /\ next.cleared = loader.cleared
  BY <1>1, <1>2 DEF LoaderFields
<1> HIDE DEF l, next
<1>4. UNCHANGED <<pps, promised>> /\ loader' \in {l, next}
  BY DEF WriteFramework, WriteAliases, l, next
<1>5. ASSUME \A p \in Profiles : rows'[p] = rows[p] /\ (p \in wiped' <=> p \in wiped),
             rows' \in [Ids -> Stands], FrameworksKept'
      PROVE  CriteriaInv'
  <2>1. CriteriaTyped'
    BY <1>1, <1>2, <1>3, <1>4, <1>5 DEF CriteriaInv, CriteriaTyped
  <2>2. ListedAreStored' /\ Tasks' /\ HalfAtMost'
    BY <1>3, <1>4 DEF ListedAreStored, Tasks, HalfAtMost
  <2>3. DroppedAreFound' /\ MarkerMeansProfiles'
    BY <1>1, <1>3, <1>4, <1>5 DEF CriteriaInv, CriteriaTyped, DroppedAreFound, MarkerMeansProfiles
  <2> QED BY <1>5, <2>1, <2>2, <2>3 DEF CriteriaInv
<1>6. CASE WriteFramework
  <2> DEFINE id == of[w + 1]
  <2>1. /\ w + 1 \in DOMAIN of /\ loader' = l /\ UNCHANGED aliased
        /\ rows' = [rows EXCEPT ![id] = [source |-> "CC", status |-> "published"]]
        /\ wiped' = wiped \ {id}
    BY <1>1, <1>6 DEF WriteFramework, Store, l
  <2>2. id \in FrameworkIds /\ id \notin Profiles /\ id \in Ids
    BY <1>1, <2>1, Apart
  <2> HIDE DEF id
  <2>3. /\ \A p \in Profiles : rows'[p] = rows[p] /\ (p \in wiped' <=> p \in wiped)
        /\ rows' \in [Ids -> Stands]
        /\ \A j \in FrameworkIds : rows'[j] = rows[j] \/ rows'[j].status = "published"
        /\ rows'[id].status = "published"
    BY <2>1, <2>2, Apart DEF CriteriaInv, CriteriaTyped, Stands
  <2>4. ASSUME ~loader.cleared PROVE StoredUpTo(entry, w + 1)'
    <3>1. StoredUpTo(entry, w)
      BY <1>1, <2>4 DEF CriteriaInv, FrameworksKept
    <3>2. StoredUpTo(entry, w)'
      BY <2>1, <2>3, <3>1, TableStays
    <3>3. \A n \in DOMAIN of : n <= w + 1 => n <= w \/ n = w + 1
      BY <1>1
    <3>4. rows'[of[w + 1]].status = "published"
      BY <2>3 DEF id
    <3> QED BY <3>2, <3>3, <3>4 DEF StoredUpTo
  <2>5. FrameworksKept'
    BY <1>2, <1>3, <2>1, <2>4 DEF FrameworksKept
  <2> QED BY <1>5, <2>3, <2>5
<1>7. CASE WriteAliases
  <2>1. /\ w = Len(of) /\ loader' = next /\ UNCHANGED <<rows, wiped>>
        /\ aliased' = aliased \union {Frameworks[entry].cc}
    BY <1>7 DEF WriteAliases, next
  <2>2. ASSUME ~loader.cleared PROVE StoredUpTo(entry + 1, 0)'
    <3>1. StoredUpTo(entry, w)
      BY <1>1, <2>2 DEF CriteriaInv, FrameworksKept
    <3>2. \A k \in DOMAIN Frameworks : k < entry + 1 => k < entry \/ k = entry
      BY <1>1, CCAssumption
    <3>3. \A n \in DOMAIN of : n <= w
      BY <1>1, <2>1
    <3>4. \A k \in DOMAIN Frameworks : \A n \in DOMAIN RecordsOf(Frameworks[k]) : ~(n <= 0)
      BY RecordCount
    <3> QED BY <2>1, <3>1, <3>2, <3>3, <3>4 DEF StoredUpTo
  <2>3. FrameworksKept'
    BY <1>2, <1>3, <2>1, <2>2 DEF FrameworksKept
  <2> QED BY <1>5, <2>1, <2>3 DEF CriteriaInv, CriteriaTyped
<1> QED BY <1>6, <1>7

\* A table that is written to its end is stored.
LEMMA TableDone ==
    ASSUME NEW entry \in Nat, NEW written, StoredUpTo(entry, written), entry > Len(Frameworks)
    PROVE  StoredUpTo(Len(Frameworks) + 1, 0)
<1>1. \A k \in DOMAIN Frameworks : k < entry /\ k # Len(Frameworks) + 1
  BY CCAssumption
<1> QED BY <1>1 DEF StoredUpTo

\* The list is fetched, or not.
LEMMA FetchKeeps ==
    ASSUME CriteriaInv, Fetch \/ FetchFails PROVE CriteriaInv'
<1>1. /\ loader.pc = "framework" /\ loader.marking = NoIso
      /\ ~loader.cleared => StoredUpTo(Len(Frameworks) + 1, 0)
  BY TableDone DEF Fetch, FetchFails, FrameworkDone, CriteriaInv, FrameworksKept, CriteriaTyped
<1>2. UNCHANGED <<pps, rows, aliased, promised, wiped>>
  BY DEF Fetch, FetchFails
<1>3. \A e, w : StoredUpTo(e, w)' <=> StoredUpTo(e, w)
  BY <1>2 DEF StoredUpTo
<1>4. CASE Fetch
  <2> DEFINE same == ~loader.force /\ GetSyncRun = pps.version
             l == [loader EXCEPT !.csv = pps,
                                 !.todo = IF same THEN {} ELSE Parsed(pps),
                                 !.failed = ~same /\ pps.unusable # {},
                                 !.result = IF same THEN "unchanged" ELSE "full",
                                 !.pc = IF same THEN "report" ELSE "profiles"]
  <2>1. loader' = l
    BY <1>4 DEF Fetch
  <2>2. /\ DOMAIN l = LoaderFields /\ l.csv = pps
        /\ l.entry = loader.entry /\ l.written = loader.written /\ l.prev = loader.prev
        /\ l.marking = NoIso /\ l.cleared = loader.cleared
        /\ \/ l.pc = "report" /\ l.result = "unchanged" /\ l.todo = {}
           \/ l.pc = "profiles" /\ l.result = "full" /\ l.todo = Parsed(pps)
    BY <1>1 DEF LoaderFields, CriteriaInv, CriteriaTyped
  <2> HIDE DEF l
  <2>3. CriteriaTyped'
    BY <1>2, <2>1, <2>2, ParsedAreProfiles DEF CriteriaInv, CriteriaTyped
  <2>4. FrameworksKept'
    BY <1>1, <1>3, <2>1, <2>2 DEF FrameworksKept
  <2>5. DroppedAreFound'
    BY <1>1, <1>2, <2>1, <2>2 DEF DroppedAreFound, CriteriaInv
  <2>6. ListedAreStored' /\ Tasks' /\ MarkerMeansProfiles' /\ HalfAtMost'
    BY <1>2, <2>1, <2>2 DEF ListedAreStored, Tasks, MarkerMeansProfiles, HalfAtMost, CriteriaInv
  <2> QED BY <2>3, <2>4, <2>5, <2>6 DEF CriteriaInv
<1>5. CASE FetchFails
  <2> DEFINE l == [loader EXCEPT !.result = "crashed", !.failed = TRUE, !.pc = "report"]
  <2>1. loader' = l
    BY <1>5 DEF FetchFails
  <2>2. /\ DOMAIN l = LoaderFields /\ l.csv = loader.csv /\ l.todo = loader.todo
        /\ l.entry = loader.entry /\ l.written = loader.written /\ l.prev = loader.prev
        /\ l.marking = NoIso /\ l.cleared = loader.cleared
        /\ l.pc = "report" /\ l.result = "crashed"
    BY <1>1 DEF LoaderFields, CriteriaInv, CriteriaTyped
  <2> HIDE DEF l
  <2>3. CriteriaTyped'
    BY <1>2, <2>1, <2>2 DEF CriteriaInv, CriteriaTyped
  <2>4. FrameworksKept'
    BY <1>1, <1>3, <2>1, <2>2 DEF FrameworksKept
  <2>5. ListedAreStored' /\ DroppedAreFound' /\ Tasks' /\ MarkerMeansProfiles' /\ HalfAtMost'
    BY <1>2, <2>1, <2>2 DEF ListedAreStored, DroppedAreFound, Tasks, MarkerMeansProfiles,
       HalfAtMost, CriteriaInv
  <2> QED BY <2>3, <2>4, <2>5 DEF CriteriaInv
<1> QED BY <1>4, <1>5

\* A row of a profile is written: what it touches is that profile alone.
LEMMA ProfileWritten ==
    ASSUME CriteriaInv, NEW p \in Profiles, NEW status \in {"published", "archived", "withdrawn"},
           Store(p, status), UNCHANGED aliased
    PROVE  /\ rows' \in [Ids -> Stands]
           /\ rows'[p] = [source |-> "CC", status |-> status] /\ p \notin wiped'
           /\ \A q \in Profiles : q # p => rows'[q] = rows[q] /\ (q \in wiped' <=> q \in wiped)
           /\ \A e, w : StoredUpTo(e, w) => StoredUpTo(e, w)'
           /\ \A q \in Profiles : rows'[q] = NoRow \/ rows'[q].source = "CC"
<1>1. /\ p \in Ids /\ p \notin FrameworkIds /\ wiped' = wiped \ {p}
      /\ rows' = [rows EXCEPT ![p] = [source |-> "CC", status |-> status]]
  BY Apart DEF Store
<1>2. rows \in [Ids -> Stands] /\ \A q \in Profiles : rows[q] = NoRow \/ rows[q].source = "CC"
  BY DEF CriteriaInv, CriteriaTyped
<1>3. rows' \in [Ids -> Stands] /\ rows'[p] = [source |-> "CC", status |-> status]
  BY <1>1, <1>2 DEF Stands
<1>4. \A i \in Ids : i # p => rows'[i] = rows[i]
  BY <1>1, <1>2
<1>5. \A i \in FrameworkIds : rows'[i] = rows[i]
  BY <1>1, <1>4, Apart
<1> QED BY <1>1, <1>2, <1>3, <1>4, <1>5, TableStays, Apart

LEMMA WriteProfileKeeps ==
    ASSUME CriteriaInv, NEW p, WriteProfile(p) PROVE CriteriaInv'
<1> DEFINE l == [loader EXCEPT !.todo = @ \ {p}]
           status == StatusIn(loader.csv, p)
<1>1. /\ loader.pc = "profiles" /\ loader.result = "full" /\ p \in loader.todo
      /\ p \in Parsed(loader.csv) /\ p \in Profiles /\ status \in {"published", "archived"}
      /\ loader.marking = NoIso /\ loader.todo \subseteq Parsed(loader.csv)
  BY ParsedAreProfiles DEF WriteProfile, CriteriaInv, CriteriaTyped, Tasks, Parsed, StatusIn, Listings
<1>2. loader' = l /\ UNCHANGED <<pps, aliased, promised>> /\ Store(p, status)
  BY DEF WriteProfile
<1>3. /\ DOMAIN l = LoaderFields /\ l.csv = loader.csv /\ l.todo = loader.todo \ {p}
      /\ l.entry = loader.entry /\ l.written = loader.written /\ l.prev = loader.prev
      /\ l.marking = NoIso /\ l.cleared = loader.cleared /\ l.pc = "profiles" /\ l.result = "full"
  BY <1>1 DEF LoaderFields, CriteriaInv, CriteriaTyped
<1>4. /\ rows' \in [Ids -> Stands]
      /\ rows'[p] = [source |-> "CC", status |-> status] /\ p \notin wiped'
      /\ \A q \in Profiles : q # p => rows'[q] = rows[q] /\ (q \in wiped' <=> q \in wiped)
      /\ \A e, w : StoredUpTo(e, w) => StoredUpTo(e, w)'
      /\ \A q \in Profiles : rows'[q] = NoRow \/ rows'[q].source = "CC"
  BY <1>1, <1>2, ProfileWritten
<1> HIDE DEF l
<1>5. CriteriaTyped'
  BY <1>2, <1>3, <1>4 DEF CriteriaInv, CriteriaTyped
<1>6. FrameworksKept'
  BY <1>1, <1>2, <1>3, <1>4 DEF CriteriaInv, FrameworksKept
<1>7. ListedAreStored'
  <2> SUFFICES ASSUME NEW q \in Parsed(loader.csv), q \notin loader.todo \ {p}
               PROVE  /\ q \in wiped' \/ rows'[q].source = "CC"
                      /\ loader.cleared \/ rows'[q].status = StatusIn(loader.csv, q)
    BY <1>2, <1>3 DEF ListedAreStored
  <2>1. CASE q = p
    BY <1>4, <2>1
  <2>2. CASE q # p
    BY <1>1, <1>4, <2>2, ParsedAreProfiles DEF CriteriaInv, ListedAreStored
  <2> QED BY <2>1, <2>2
<1>8. DroppedAreFound'
  BY <1>1, <1>2, <1>3, <1>4 DEF CriteriaInv, DroppedAreFound
<1>9. Tasks' /\ MarkerMeansProfiles' /\ HalfAtMost'
  BY <1>1, <1>2, <1>3, <1>4 DEF CriteriaInv, CriteriaTyped, Tasks, MarkerMeansProfiles, HalfAtMost
<1> QED BY <1>5, <1>6, <1>7, <1>8, <1>9 DEF CriteriaInv

\* A part of a finite set is finite and no larger.
LEMMA HalfOfProfiles ==
    ASSUME NEW S, NEW T \in SUBSET S, S \subseteq Profiles
    PROVE  /\ Cardinality(T) \in Nat /\ Cardinality(S) \in Nat /\ Cardinality(T) <= Cardinality(S)
           /\ S = {} => Cardinality(T) = 0
<1>1. IsFiniteSet(S) /\ IsFiniteSet(T)
  BY CCAssumption, FS_Subset
<1> QED BY <1>1, FS_Subset, FS_CardinalityType, FS_EmptySet

\* The pass is planned, or given up with an error.
LEMMA PlanKeeps ==
    ASSUME CriteriaInv, PlanWithdrawal PROVE CriteriaInv'
<1> DEFINE prevPps == loader.prev \ FrameworkIds
           missing == prevPps \ Parsed(loader.csv)
           tooMany == prevPps # {} /\ 2 * Cardinality(missing) > Cardinality(prevPps)
           l == [loader EXCEPT !.failed = TRUE, !.pc = "report"]
           next == [loader EXCEPT !.todo = missing, !.pc = "withdraw"]
<1>1. /\ loader.pc = "profiles" /\ loader.result = "full" /\ loader.todo = {}
      /\ loader.marking = NoIso /\ DOMAIN loader = LoaderFields /\ missing \subseteq Profiles
      /\ prevPps \subseteq Profiles
  BY DEF PlanWithdrawal, CriteriaInv, CriteriaTyped, Ids
<1>2. UNCHANGED <<pps, rows, aliased, promised, wiped>>
  BY DEF PlanWithdrawal
<1>3. \A e, w : StoredUpTo(e, w)' <=> StoredUpTo(e, w)
  BY <1>2 DEF StoredUpTo
<1>4. NoIso \notin Parsed(loader.csv)
  BY Apart, ParsedAreProfiles
<1>5. CASE tooMany
  <2>1. loader' = l
    BY <1>5 DEF PlanWithdrawal
  <2>2. /\ DOMAIN l = LoaderFields /\ l.csv = loader.csv /\ l.todo = {} /\ l.failed = TRUE
        /\ l.entry = loader.entry /\ l.written = loader.written /\ l.prev = loader.prev
        /\ l.marking = NoIso /\ l.cleared = loader.cleared /\ l.pc = "report" /\ l.result = "full"
    BY <1>1 DEF LoaderFields
  <2> HIDE DEF l
  <2>3. CriteriaTyped'
    BY <1>2, <2>1, <2>2 DEF CriteriaInv, CriteriaTyped
  <2>4. FrameworksKept' /\ DroppedAreFound'
    BY <1>1, <1>3, <2>1, <2>2 DEF FrameworksKept, DroppedAreFound, Dropped, CriteriaInv
  <2>5. ListedAreStored' /\ Tasks' /\ MarkerMeansProfiles' /\ HalfAtMost'
    BY <1>1, <1>2, <2>1, <2>2 DEF ListedAreStored, Tasks, MarkerMeansProfiles, HalfAtMost, CriteriaInv
  <2> QED BY <2>3, <2>4, <2>5 DEF CriteriaInv
<1>6. CASE ~tooMany
  <2>1. loader' = next
    BY <1>6 DEF PlanWithdrawal
  <2>2. /\ DOMAIN next = LoaderFields /\ next.csv = loader.csv /\ next.todo = missing
        /\ next.entry = loader.entry /\ next.written = loader.written /\ next.prev = loader.prev
        /\ next.marking = NoIso /\ next.cleared = loader.cleared
        /\ next.pc = "withdraw" /\ next.result = "full"
    BY <1>1 DEF LoaderFields
  <2> HIDE DEF next
  <2>3. CriteriaTyped'
    BY <1>1, <1>2, <2>1, <2>2 DEF CriteriaInv, CriteriaTyped
  <2>4. FrameworksKept'
    BY <1>1, <1>3, <2>1, <2>2 DEF FrameworksKept, CriteriaInv
  <2>5. DroppedAreFound'
    <3> SUFFICES ASSUME ~loader.cleared, NEW p \in Profiles \ Parsed(loader.csv) PROVE Dropped(p)'
      BY <2>1, <2>2 DEF DroppedAreFound
    <3>1. CASE p \in loader.prev
      BY <3>1, <2>1, <2>2, Apart DEF Dropped
    <3>2. CASE p \notin loader.prev
      BY <3>2, <1>1, <1>2 DEF Dropped, CriteriaInv, DroppedAreFound
    <3> QED BY <3>1, <3>2
  <2>6. HalfAtMost'
    <3>1. 2 * Cardinality(missing) <= Cardinality(prevPps)
      BY <1>1, <1>6, HalfOfProfiles
    <3> QED BY <2>1, <2>2, <3>1 DEF HalfAtMost
  <2>7. ListedAreStored' /\ Tasks' /\ MarkerMeansProfiles'
    BY <1>1, <1>2, <1>4, <2>1, <2>2 DEF ListedAreStored, Tasks, MarkerMeansProfiles, CriteriaInv
  <2> QED BY <2>3, <2>4, <2>5, <2>6, <2>7 DEF CriteriaInv
<1> QED BY <1>5, <1>6

\* The row of a profile to withdraw is read, and the pass ends with the last one.
LEMMA PassKeeps ==
    ASSUME CriteriaInv, Withdrawn \/ \E p \in Profiles : ReadMissing(p) PROVE CriteriaInv'
<1>1. /\ loader.pc = "withdraw" /\ loader.result = "full" /\ loader.marking = NoIso
      /\ DOMAIN loader = LoaderFields /\ loader.todo \subseteq Profiles
  BY DEF Withdrawn, ReadMissing, CriteriaInv, CriteriaTyped
<1>2. UNCHANGED <<pps, rows, aliased, promised, wiped>>
  BY DEF Withdrawn, ReadMissing
<1>3. \A e, w : StoredUpTo(e, w)' <=> StoredUpTo(e, w)
  BY <1>2 DEF StoredUpTo
<1>4. CASE Withdrawn
  <2> DEFINE l == [loader EXCEPT !.pc = "report"]
  <2>1. loader' = l /\ loader.todo = {}
    BY <1>4 DEF Withdrawn
  <2>2. /\ DOMAIN l = LoaderFields /\ l.csv = loader.csv /\ l.todo = {}
        /\ l.entry = loader.entry /\ l.written = loader.written /\ l.prev = loader.prev
        /\ l.marking = NoIso /\ l.cleared = loader.cleared /\ l.pc = "report" /\ l.result = "full"
    BY <1>1, <2>1 DEF LoaderFields
  <2> HIDE DEF l
  <2>3. CriteriaTyped'
    BY <1>2, <2>1, <2>2 DEF CriteriaInv, CriteriaTyped
  <2>4. DroppedAreFound'
    <3> SUFFICES ASSUME ~loader.cleared, NEW p \in Profiles \ Parsed(loader.csv) PROVE Dropped(p)'
      BY <2>1, <2>2 DEF DroppedAreFound
    <3>1. Dropped(p) /\ p # NoIso
      BY <1>1, Apart DEF CriteriaInv, DroppedAreFound
    <3> QED BY <1>1, <1>2, <2>1, <2>2, <3>1 DEF Dropped
  <2>5. FrameworksKept' /\ ListedAreStored' /\ Tasks' /\ MarkerMeansProfiles' /\ HalfAtMost'
    BY <1>1, <1>2, <1>3, <2>1, <2>2 DEF FrameworksKept, ListedAreStored, Tasks,
       MarkerMeansProfiles, HalfAtMost, CriteriaInv
  <2> QED BY <2>3, <2>4, <2>5 DEF CriteriaInv
<1>5. ASSUME NEW p \in Profiles, ReadMissing(p) PROVE CriteriaInv'
  <2> DEFINE mark == IF rows[p] = NoRow THEN NoIso ELSE p
             l == [loader EXCEPT !.todo = @ \ {p}, !.marking = mark]
  <2>1. loader' = l /\ p \in loader.todo
    BY <1>5 DEF ReadMissing
  <2>2. /\ DOMAIN l = LoaderFields /\ l.csv = loader.csv /\ l.todo = loader.todo \ {p}
        /\ l.entry = loader.entry /\ l.written = loader.written /\ l.prev = loader.prev
        /\ l.marking = mark /\ l.cleared = loader.cleared
        /\ l.pc = "withdraw" /\ l.result = "full"
    BY <1>1, <2>1 DEF LoaderFields
  <2>3. mark \in {NoIso, p} /\ (mark = NoIso => rows[p] = NoRow)
    BY Apart
  <2> HIDE DEF l, mark
  <2>4. CriteriaTyped'
    BY <1>1, <1>2, <2>1, <2>2, <2>3 DEF CriteriaInv, CriteriaTyped
  <2>5. DroppedAreFound'
    <3> SUFFICES ASSUME ~loader.cleared, NEW q \in Profiles \ Parsed(loader.csv) PROVE Dropped(q)'
      BY <2>1, <2>2 DEF DroppedAreFound
    <3>1. Dropped(q) /\ q # NoIso
      BY <1>1, Apart DEF CriteriaInv, DroppedAreFound
    <3> QED BY <1>1, <1>2, <2>1, <2>2, <2>3, <3>1 DEF Dropped
  <2>6. HalfAtMost'
    <3> DEFINE rest == loader.todo \ {p}
               half == loader.prev \ FrameworkIds
    <3>1. /\ Cardinality(rest) \in Nat /\ Cardinality(loader.todo) \in Nat
          /\ Cardinality(rest) <= Cardinality(loader.todo)
      BY <1>1, HalfOfProfiles
    <3>2. half \subseteq Profiles
      BY DEF CriteriaInv, CriteriaTyped, Ids
    <3>3. Cardinality(half) \in Nat
      BY <3>2, HalfOfProfiles
    <3>4. 2 * Cardinality(loader.todo) <= Cardinality(half)
      BY <1>1 DEF CriteriaInv, HalfAtMost
    <3>5. 2 * Cardinality(rest) <= Cardinality(half)
      BY <3>1, <3>3, <3>4
    <3> QED BY <2>1, <2>2, <3>5 DEF HalfAtMost
  <2>7. Tasks'
    BY <1>1, <2>1, <2>2, <2>3, Apart, ParsedAreProfiles DEF Tasks, CriteriaInv
  <2>8. FrameworksKept' /\ ListedAreStored' /\ MarkerMeansProfiles'
    BY <1>1, <1>2, <1>3, <2>1, <2>2 DEF FrameworksKept, ListedAreStored,
       MarkerMeansProfiles, CriteriaInv
  <2> QED BY <2>4, <2>5, <2>6, <2>7, <2>8 DEF CriteriaInv
<1> QED BY <1>4, <1>5

\* The profile that was read is withdrawn, even if a clear has come between.
LEMMA MarkKeeps ==
    ASSUME CriteriaInv, MarkWithdrawn PROVE CriteriaInv'
<1> SUFFICES ASSUME NEW p, p = loader.marking PROVE CriteriaInv'
  OBVIOUS
<1> DEFINE l == [loader EXCEPT !.marking = NoIso]
<1>1. /\ loader.pc = "withdraw" /\ loader.result = "full" /\ p \in Profiles
      /\ p \notin Parsed(loader.csv) /\ DOMAIN loader = LoaderFields
  BY DEF MarkWithdrawn, CriteriaInv, CriteriaTyped, Tasks
<1>2. loader' = l /\ UNCHANGED <<pps, aliased, promised>> /\ Store(p, "withdrawn")
  BY DEF MarkWithdrawn
<1>3. /\ DOMAIN l = LoaderFields /\ l.csv = loader.csv /\ l.todo = loader.todo
      /\ l.entry = loader.entry /\ l.written = loader.written /\ l.prev = loader.prev
      /\ l.marking = NoIso /\ l.cleared = loader.cleared
      /\ l.pc = "withdraw" /\ l.result = "full"
  BY <1>1 DEF LoaderFields
<1>4. /\ rows' \in [Ids -> Stands]
      /\ rows'[p] = [source |-> "CC", status |-> "withdrawn"] /\ p \notin wiped'
      /\ \A q \in Profiles : q # p => rows'[q] = rows[q] /\ (q \in wiped' <=> q \in wiped)
      /\ \A e, w : StoredUpTo(e, w) => StoredUpTo(e, w)'
      /\ \A q \in Profiles : rows'[q] = NoRow \/ rows'[q].source = "CC"
  BY <1>1, <1>2, ProfileWritten
<1> HIDE DEF l
<1>5. CriteriaTyped'
  BY <1>2, <1>3, <1>4 DEF CriteriaInv, CriteriaTyped
<1>6. FrameworksKept'
  BY <1>1, <1>2, <1>3, <1>4 DEF CriteriaInv, FrameworksKept
<1>7. ListedAreStored'
  BY <1>1, <1>2, <1>3, <1>4, ParsedAreProfiles DEF CriteriaInv, ListedAreStored
<1>8. DroppedAreFound'
  <2> SUFFICES ASSUME ~loader.cleared, NEW q \in Profiles \ Parsed(loader.csv) PROVE Dropped(q)'
    BY <1>2, <1>3 DEF DroppedAreFound
  <2>1. Dropped(q)
    BY <1>1 DEF CriteriaInv, DroppedAreFound
  <2>2. CASE q = p
    BY <1>4, <2>2 DEF Dropped
  <2>3. CASE q # p
    BY <1>1, <1>2, <1>3, <1>4, <2>1, <2>3 DEF Dropped
  <2> QED BY <2>2, <2>3
<1>9. Tasks' /\ MarkerMeansProfiles' /\ HalfAtMost'
  BY <1>1, <1>2, <1>3, <1>4, Apart, ParsedAreProfiles
     DEF CriteriaInv, CriteriaTyped, Tasks, MarkerMeansProfiles, HalfAtMost
<1> QED BY <1>5, <1>6, <1>7, <1>8, <1>9 DEF CriteriaInv

LEMMA CriteriaStep == CriteriaInv /\ [CriteriaNext]_criteriaVars => CriteriaInv'
<1> SUFFICES ASSUME CriteriaInv, [CriteriaNext]_criteriaVars PROVE CriteriaInv'
  OBVIOUS
<1>1. pps.lists \in Listings /\ promised \subseteq Profiles
  BY DEF CriteriaInv, CriteriaTyped
<1>2. CASE UNCHANGED criteriaVars
  BY <1>1, <1>2, AroundKeeps DEF criteriaVars
<1>3. ASSUME NEW lists \in Listings, NEW unusable, Republish(lists, unusable) PROVE CriteriaInv'
  BY <1>3, AroundKeeps DEF Republish
<1>4. ASSUME NEW i, RelatonWrites(i) PROVE CriteriaInv'
  BY <1>4, AroundKeeps DEF RelatonWrites
<1>5. CASE Clear
  BY <1>5, AroundKeeps DEF Clear
<1>6. CASE Kill
  BY <1>1, <1>6, IdleKeeps DEF Kill, CriteriaInv, MarkerMeansProfiles
<1>7. CASE Report
  <2>1. \A p \in promised' \ wiped : rows[p].source = "CC"
    BY <1>7 DEF Report, CriteriaInv, MarkerMeansProfiles, ListedAreStored
  <2>2. promised' \subseteq Profiles
    BY <1>1, <1>7, ParsedAreProfiles DEF Report
  <2> QED BY <1>7, <2>1, <2>2, IdleKeeps DEF Report
<1>8. CASE Loader
  BY <1>7, <1>8, FrameworkKeeps, FetchKeeps, WriteProfileKeeps, PlanKeeps, PassKeeps, MarkKeeps DEF Loader
<1> QED BY <1>2, <1>3, <1>4, <1>5, <1>6, <1>8, BeginKeeps DEF CriteriaNext, Listings

\* The recorded hash of pps.csv stands for stored profiles, a clean report for rows
\* that say what the list says, a withdrawal takes at most half of the profiles, and
\* every report leaves the framework documents stored: for any table and any
\* profiles, with kills, clears and other loaders at any step (CCLoader.sync).
THEOREM CriteriaTrue == CriteriaSpec => []CriteriaSyncIsTrue
<1>1. CriteriaInv => CriteriaSyncIsTrue
  <2> SUFFICES ASSUME CriteriaInv PROVE CleanReportAgrees /\ ReportMeansFrameworks
    BY DEF CriteriaInv, CriteriaSyncIsTrue
  <2>1. ReportMeansFrameworks
    BY WholeTable DEF CriteriaInv, FrameworksKept, ReportMeansFrameworks
  <2>2. CleanReportAgrees
    BY DEF CriteriaInv, CriteriaTyped, ListedAreStored, DroppedAreFound, Dropped, CleanReportAgrees, NoRow
  <2> QED BY <2>1, <2>2
<1> QED BY <1>1, CriteriaStarts, CriteriaStep, PTL DEF CriteriaSpec

-----------------------------------------------------------------------------
(* CacheOpen.  A transaction's own view and the committed one satisfy the same *)
(* condition, each for the repairs it has behind it.  What makes it inductive  *)
(* is the order of the registry: a text is moved before it is stripped, and    *)
(* rows that may have one are deleted after that.                              *)

Names == {Repairs[j] : j \in DOMAIN Repairs}

\* Rows of standards have no kind code, and have seen nothing but the ledger.
RowOK(slot, row) ==
    /\ DOMAIN row = {"bad", "synced", "text", "seen"}
    /\ row.synced \in BOOLEAN /\ row.text \in BOOLEAN
    /\ slot \in Standards => row.bad # "lowercase"
    /\ row.seen \subseteq ledger

\* Rows and texts after the repairs of a set.
Sound(done, rowOf, kept) ==
    /\ DOMAIN rowOf = Slots /\ \A s \in Slots : RowOK(s, rowOf[s])
    /\ \A name \in done : \A s \in Slots : Matches(name, s, rowOf[s]) => name \in rowOf[s].seen
    /\ "479_strip" \in done => \A s \in Slots : ~rowOf[s].text
    /\ "479_move" \in done => dueTexts \subseteq kept
    /\ dueTexts \subseteq kept \union Texts(rowOf)
    /\ \A s \in dueTexts : rowOf[s].text => rowOf[s].bad # "foreign"

Done(next) == ledger \union {Repairs[j] : j \in 1..(next - 1)}

\* Whoever repairs holds the lock, so that its ledger is the file's.
ProcOK(state, p) ==
    /\ DOMAIN state = {"pc", "cols", "applied", "next", "work"}
    /\ state.pc = "open" => Names \subseteq ledger
    /\ state.pc = "repair" <=> lock = p
    /\ state.pc = "repair" =>
          /\ state.next \in 1..13 /\ state.applied = ledger
          /\ DOMAIN state.work = {"stored", "texts", "marker"}
          /\ Sound(Done(state.next), state.work.stored, state.work.texts)

OpenInv ==
    /\ harmed = {} /\ ledger \subseteq Names /\ dueTexts \subseteq Standards
    /\ Sound(ledger, stored, texts)
    /\ DOMAIN proc = Procs /\ \A p \in Procs : ProcOK(proc[p], p)

-----------------------------------------------------------------------------
\* The registry, as far as its order matters.
LEMMA Registry ==
    /\ Len(Repairs) = 12 /\ DOMAIN Repairs = 1..12
    /\ Repairs[6] = "479_move" /\ Repairs[8] = "479_strip"
    /\ \A n \in 1..12 : /\ Repairs[n] = "479_move" => n = 6
                        /\ Repairs[n] = "479_strip" => n = 8
                        /\ Repairs[n] = "480_live" => n = 10
BY DEF Repairs

\* What a row of an earlier release is.
LEMMA OldRowIs ==
    ASSUME NEW slot \in Slots, NEW seen, NEW row \in OldRows(slot, seen)
    PROVE  /\ DOMAIN row = {"bad", "synced", "text", "seen"}
           /\ row.synced \in BOOLEAN /\ row.text \in BOOLEAN /\ row.seen = seen
           /\ slot \in Standards => row.bad # "lowercase"
BY DEF OldRows, Standards

LEMMA AbsentRow ==
    /\ DOMAIN Absent = {"bad", "synced", "text", "seen"} /\ Absent.bad = "absent"
    /\ Absent.synced = FALSE /\ Absent.text = FALSE /\ Absent.seen = {}
BY DEF Absent, Row

LEMMA AbsentIs ==
    /\ \A slot : RowOK(slot, Absent)
    /\ Absent.text = FALSE /\ \A name, slot : ~Matches(name, slot, Absent)
BY AbsentRow DEF RowOK, Matches

\* A statement repairs the rows it matches, and matches no other afterwards; only
\* two of them delete a row of a standard.
LEMMA RowRepaired ==
    ASSUME NEW name, NEW slot, NEW row, RowOK(slot, row), NEW r, r = Repaired(name, slot, row)
    PROVE  /\ RowOK(slot, r) /\ ~Matches(name, slot, r)
           /\ r # Absent => r.seen = row.seen
           /\ \A m : Matches(m, slot, r) => Matches(m, slot, row)
           /\ r.text => row.text /\ r.bad = row.bad
           /\ row.text /\ slot \in Standards /\ ~r.text =>
                 name \in {"479_strip", "480_live"} \/ row.bad = "foreign"
<1>1. CASE ~Matches(name, slot, row)
  BY <1>1 DEF Repaired
<1>2. CASE Matches(name, slot, row) /\ Deletes(name, slot, row)
  <2>1. r = Absent
    BY <1>2 DEF Repaired
  <2>2. slot \in Standards => name = "480_live" \/ row.bad = "foreign"
    BY <1>2 DEF Deletes, RowOK, Standards
  <2> QED BY <2>1, <2>2, AbsentIs
<1>3. CASE Matches(name, slot, row) /\ ~Deletes(name, slot, row) /\ Resyncs(name, slot, row)
  <2>1. r = [row EXCEPT !.synced = TRUE]
    BY <1>3 DEF Repaired
  <2>2. /\ DOMAIN r = {"bad", "synced", "text", "seen"} /\ r.synced = TRUE
        /\ r.text = row.text /\ r.bad = row.bad /\ r.seen = row.seen
    BY <2>1 DEF RowOK
  <2>3. RowOK(slot, r)
    BY <2>2 DEF RowOK
  <2>4. \A m : Matches(m, slot, r) => Matches(m, slot, row)
    BY <1>3, <2>2 DEF Matches, Deletes, Resyncs, Strips
  <2>5. ~Matches(name, slot, r)
    BY <1>3, <2>2 DEF Matches, Deletes, Resyncs, Strips
  <2> QED BY <2>2, <2>3, <2>4, <2>5
<1>4. CASE Matches(name, slot, row) /\ ~Deletes(name, slot, row) /\ ~Resyncs(name, slot, row)
  <2>1. r = [row EXCEPT !.text = FALSE] /\ name = "479_strip" /\ row # Absent
    BY <1>4 DEF Repaired, Matches, Strips
  <2>2. /\ DOMAIN r = {"bad", "synced", "text", "seen"} /\ r.text = FALSE
        /\ r.synced = row.synced /\ r.bad = row.bad /\ r.seen = row.seen
    BY <2>1 DEF RowOK
  <2>3. RowOK(slot, r)
    BY <2>2 DEF RowOK
  <2>4. \A m : Matches(m, slot, r) => Matches(m, slot, row)
    BY <2>1, <2>2 DEF Matches, Deletes, Resyncs, Strips
  <2>5. ~Matches(name, slot, r)
    BY <1>4, <2>1, <2>2 DEF Matches, Deletes, Resyncs, Strips
  <2> QED BY <2>1, <2>2, <2>3, <2>4, <2>5
<1> QED BY <1>1, <1>2, <1>3, <1>4

\* A statement of the registry, in its place, leaves rows and texts sound.
LEMMA RepairSound ==
    ASSUME NEW done, NEW work, NEW rowOf, NEW kept, rowOf = work.stored, kept = work.texts,
           Sound(done, rowOf, kept), NEW name,
           dueTexts \subseteq Standards,
           name = "479_strip" => "479_move" \in done,
           name = "480_live" => "479_strip" \in done,
           NEW w, w = Apply(name, work)
    PROVE  Sound(done \union {name}, w.stored, w.texts)
<1> DEFINE after == [s \in Slots |-> Repaired(name, s, rowOf[s])]
           moved == IF name = "479_move" THEN kept \union Texts(rowOf) ELSE kept
<1>1. w.stored = after /\ w.texts = moved
  BY DEF Apply
<1>2. \A s \in Slots : RowOK(s, rowOf[s])
  BY DEF Sound
<1>3. ASSUME NEW s \in Slots
      PROVE  /\ RowOK(s, after[s]) /\ ~Matches(name, s, after[s])
             /\ after[s] # Absent => after[s].seen = rowOf[s].seen
             /\ \A m : Matches(m, s, after[s]) => Matches(m, s, rowOf[s])
             /\ after[s].text => rowOf[s].text /\ after[s].bad = rowOf[s].bad
             /\ rowOf[s].text /\ s \in Standards /\ ~after[s].text =>
                   name \in {"479_strip", "480_live"} \/ rowOf[s].bad = "foreign"
  <2>1. after[s] = Repaired(name, s, rowOf[s]) /\ RowOK(s, rowOf[s])
    BY <1>2
  <2> HIDE DEF after
  <2> QED BY <2>1, RowRepaired
<1>4. Standards \subseteq Slots
  BY DEF Standards, Slots
<1>5. DOMAIN after = Slots
  OBVIOUS
<1> HIDE DEF after
<1>6. \A m \in done \union {name} : \A s \in Slots : Matches(m, s, after[s]) => m \in after[s].seen
  BY <1>3 DEF Sound, Matches
<1>7. "479_strip" \in done \union {name} => \A s \in Slots : ~after[s].text
  <2>1. CASE name = "479_strip"
    BY <1>3, <2>1, AbsentIs DEF Matches, Strips
  <2>2. CASE name # "479_strip"
    BY <1>3, <2>2 DEF Sound
  <2> QED BY <2>1, <2>2
<1>8. "479_move" \in done \union {name} => dueTexts \subseteq moved
  BY DEF Sound
<1>9. dueTexts \subseteq moved \union Texts(after)
  <2> SUFFICES ASSUME NEW s \in dueTexts, s \notin moved PROVE s \in Texts(after)
    OBVIOUS
  <2>1. s \in Standards /\ s \in Slots /\ name # "479_move" /\ s \notin kept /\ "479_move" \notin done
    BY <1>4 DEF Sound
  <2>2. rowOf[s].text /\ s \in Texts(rowOf)
    BY <2>1 DEF Sound, Texts
  <2>3. rowOf[s].bad # "foreign" /\ name \notin {"479_strip", "480_live"}
    BY <2>1, <2>2 DEF Sound
  <2>4. after[s].text
    BY <1>3, <2>1, <2>2, <2>3
  <2> QED BY <2>1, <2>4, AbsentIs DEF Texts
<1>10. \A s \in dueTexts : after[s].text => after[s].bad # "foreign"
  BY <1>3, <1>4 DEF Sound
<1>11. \A s \in Slots : RowOK(s, after[s])
  BY <1>3
<1> HIDE DEF moved
<1> QED BY <1>1, <1>5, <1>6, <1>7, <1>8, <1>9, <1>10, <1>11 DEF Sound

\* What this release writes is an old row without text that saw the ledger.
LEMMA NewRowIs ==
    ASSUME NEW slot \in Slots, NEW seen, NEW row \in NewRows(slot, seen)
    PROVE  row \in OldRows(slot, seen) /\ ~row.text
BY DEF NewRows

LEMMA StandardsAreSlots == Standards \subseteq Slots
BY DEF Standards, Slots

\* The database of an earlier release: a recorded repair of the texts stands
\* beside a recorded strip, and then there is no text in any row.
LEMMA OpenStarts == CacheInit => OpenInv
<1> SUFFICES ASSUME CacheInit PROVE OpenInv
  OBVIOUS
<1>1. PICK cols \in {{}, {"source", "synced_at"}}, k \in Releases, slot \in Slots, synced \in BOOLEAN :
         LET applied == {Repairs[j] : j \in 1..k}
         IN \E row \in OldRows(slot, applied) :
               /\ cols = {} => applied = {} /\ ~row.synced
               /\ \A name \in applied \intersect Fixes : ~Matches(name, slot, row)
               /\ CacheBegins(cols, applied, slot, row, synced)
  BY DEF CacheInit
<1> DEFINE applied == {Repairs[j] : j \in 1..k}
<1>2. PICK row \in OldRows(slot, applied) :
         /\ \A name \in applied \intersect Fixes : ~Matches(name, slot, row)
         /\ CacheBegins(cols, applied, slot, row, synced)
  BY <1>1
<1>3. /\ ledger = applied /\ texts = {} /\ lock = NoProc /\ harmed = {}
      /\ stored = [s \in Slots |-> IF s = slot THEN row ELSE Absent]
      /\ proc = [p \in Procs |-> Closed]
      /\ dueTexts = {t \in Texts(stored) : stored[t].bad # "foreign"}
  BY <1>2 DEF CacheBegins
<1>4. k \in 0..12 /\ (k >= 6 => k >= 8)
  BY DEF Releases
<1>5. applied \subseteq Names
  BY <1>4, Registry DEF Names
<1>6. "479_move" \in applied => "479_strip" \in applied
  BY <1>4, Registry
<1> HIDE DEF applied
<1>7. /\ DOMAIN row = {"bad", "synced", "text", "seen"}
      /\ row.synced \in BOOLEAN /\ row.text \in BOOLEAN /\ row.seen = applied
      /\ slot \in Standards => row.bad # "lowercase"
  BY OldRowIs
<1>8. "479_strip" \in applied => ~row.text
  BY <1>2, <1>7, AbsentIs DEF Fixes, Matches, Strips
<1>9. DOMAIN stored = Slots /\ \A s \in Slots : stored[s] = IF s = slot THEN row ELSE Absent
  BY <1>3
<1>10. \A s \in Slots : RowOK(s, stored[s])
  <2>1. RowOK(slot, row)
    BY <1>3, <1>7 DEF RowOK
  <2> QED BY <2>1, <1>9, AbsentIs
<1>11. \A s \in Slots : stored[s].text => s = slot /\ row.text
  BY <1>9, AbsentIs
<1>12. \A name \in ledger : \A s \in Slots : Matches(name, s, stored[s]) => name \in stored[s].seen
  BY <1>3, <1>7, <1>9, AbsentIs
<1>13. /\ dueTexts \subseteq Texts(stored) /\ dueTexts \subseteq Standards
       /\ \A s \in dueTexts : stored[s].bad # "foreign" /\ stored[s].text
  BY <1>3 DEF Texts
<1>14. Sound(ledger, stored, texts)
  <2>1. "479_strip" \in ledger => dueTexts = {} /\ \A s \in Slots : ~stored[s].text
    BY <1>3, <1>8, <1>11, <1>13, StandardsAreSlots
  <2> QED BY <1>3, <1>6, <1>9, <1>10, <1>12, <1>13, <2>1 DEF Sound
<1>15. DOMAIN proc = Procs /\ \A p \in Procs : ProcOK(proc[p], p)
  BY <1>3, CacheAssumption DEF ProcOK, Closed
<1> QED BY <1>3, <1>5, <1>13, <1>14, <1>15 DEF OpenInv

-----------------------------------------------------------------------------
\* A process that neither repairs nor has the database open asks for nothing.
LEMMA IdleProc ==
    ASSUME NEW p, NEW state, lock # p,
           DOMAIN state = {"pc", "cols", "applied", "next", "work"}, state.pc \notin {"open", "repair"}
    PROVE  ProcOK(state, p)
BY DEF ProcOK

\* Turning one process, when nothing that the others speak of changes.
LEMMA OneTurns ==
    ASSUME OpenInv, NEW p \in Procs, NEW state, Turns(p, state),
           ledger' = ledger, dueTexts' = dueTexts,
           \A q \in Procs \ {p} : lock' = q <=> lock = q,
           ProcOK(state, p)'
    PROVE  DOMAIN proc' = Procs /\ \A q \in Procs : ProcOK(proc[q], q)'
<1>1. /\ DOMAIN proc' = Procs /\ proc'[p] = state
      /\ \A q \in Procs \ {p} : proc'[q] = proc[q]
  BY DEF OpenInv, Turns
<1>2. ASSUME NEW q \in Procs, q # p PROVE ProcOK(proc[q], q)'
  <2>1. ProcOK(proc[q], q) /\ proc'[q] = proc[q] /\ (lock' = q <=> lock = q)
    BY <1>1, <1>2 DEF OpenInv
  <2> QED BY <2>1 DEF ProcOK, Sound, Done, RowOK, Texts
<1> QED BY <1>1, <1>2

\* A step of one process that leaves database and histories alone.
LEMMA QuietStep ==
    ASSUME OpenInv, NEW p \in Procs, NEW state, Turns(p, state), harmed' = harmed,
           UNCHANGED <<ledger, stored, texts, dueTexts>>,
           \A q \in Procs \ {p} : lock' = q <=> lock = q,
           ProcOK(state, p)'
    PROVE  OpenInv'
<1>1. Sound(ledger, stored, texts)'
  BY DEF OpenInv, Sound, RowOK, Texts
<1>2. DOMAIN proc' = Procs /\ \A q \in Procs : ProcOK(proc[q], q)'
  BY OneTurns
<1> QED BY <1>1, <1>2 DEF OpenInv

LEMMA ReadColumnsOpens ==
    ASSUME OpenInv, NEW p \in Procs, ReadColumns(p) PROVE OpenInv'
<1>1. PICK state : state = [Closed EXCEPT !.pc = "alter", !.cols = columns] /\ Turns(p, state)
  BY DEF ReadColumns
<1>2. DOMAIN state = {"pc", "cols", "applied", "next", "work"} /\ state.pc = "alter"
  BY <1>1 DEF Closed
<1>3. lock' = lock /\ lock # p /\ harmed' = harmed /\ UNCHANGED <<ledger, stored, texts, dueTexts>>
  BY DEF ReadColumns, Reached, OpenInv, ProcOK, db
<1>4. ProcOK(state, p)'
  BY <1>2, <1>3 DEF ProcOK
<1> QED BY <1>1, <1>3, <1>4, QuietStep

LEMMA AddColumnOpens ==
    ASSUME OpenInv, NEW p \in Procs, NEW column, AddColumn(p, column) PROVE OpenInv'
<1>1. PICK state : /\ \/ state = [proc[p] EXCEPT !.pc = "failed"]
                      \/ state = [proc[p] EXCEPT !.cols = @ \union {column}]
                   /\ Turns(p, state)
  BY DEF AddColumn
<1>2. DOMAIN proc[p] = {"pc", "cols", "applied", "next", "work"} /\ proc[p].pc = "alter" /\ lock # p
  BY DEF AddColumn, Reached, OpenInv, ProcOK
<1>3. DOMAIN state = {"pc", "cols", "applied", "next", "work"} /\ state.pc \in {"failed", "alter"}
  BY <1>1, <1>2
<1>4. lock' = lock /\ harmed' = harmed /\ UNCHANGED <<ledger, stored, texts, dueTexts>>
  BY DEF AddColumn
<1>5. ProcOK(state, p)'
  BY <1>2, <1>3, <1>4 DEF ProcOK
<1> QED BY <1>1, <1>4, <1>5, QuietStep

LEMMA LockTimesOutOpens ==
    ASSUME OpenInv, NEW p \in Procs, LockTimesOut(p) PROVE OpenInv'
<1>1. PICK state : state = [proc[p] EXCEPT !.pc = "failed"] /\ Turns(p, state)
  BY DEF LockTimesOut
<1>2. DOMAIN proc[p] = {"pc", "cols", "applied", "next", "work"} /\ lock # p
  BY DEF LockTimesOut, OpenInv, ProcOK
<1>3. DOMAIN state = {"pc", "cols", "applied", "next", "work"} /\ state.pc = "failed"
  BY <1>1, <1>2
<1>4. lock' = lock /\ harmed' = harmed /\ UNCHANGED <<ledger, stored, texts, dueTexts>>
  BY DEF LockTimesOut, db
<1>5. ProcOK(state, p)'
  BY <1>2, <1>3, <1>4 DEF ProcOK
<1> QED BY <1>1, <1>4, <1>5, QuietStep

LEMMA LeaveOpens ==
    ASSUME OpenInv, NEW p \in Procs, Leave(p) PROVE OpenInv'
<1>1. PICK state : state = Closed /\ Turns(p, state)
  BY DEF Leave
<1>2. DOMAIN state = {"pc", "cols", "applied", "next", "work"} /\ state.pc = "closed"
  BY <1>1 DEF Closed
<1>3. lock' = (IF lock = p THEN NoProc ELSE lock) /\ harmed' = harmed
      /\ UNCHANGED <<ledger, stored, texts, dueTexts>>
  BY DEF Leave, db
<1>4. lock' # p /\ \A q \in Procs \ {p} : lock' = q <=> lock = q
  BY <1>3, CacheAssumption
<1>5. ProcOK(state, p)'
  BY <1>2, <1>4 DEF ProcOK
<1> QED BY <1>1, <1>3, <1>4, <1>5, QuietStep

\* The ledger is read under the lock: the transaction starts from the file.
LEMMA ReadLedgerOpens ==
    ASSUME OpenInv, NEW p \in Procs, ReadLedger(p) PROVE OpenInv'
<1> DEFINE begun == [stored |-> stored, texts |-> texts, marker |-> marker]
<1>1. PICK state : /\ state = [proc[p] EXCEPT !.pc = "repair", !.applied = ledger, !.next = 1, !.work = begun]
                   /\ Turns(p, state)
  BY DEF ReadLedger
<1>2. DOMAIN proc[p] = {"pc", "cols", "applied", "next", "work"}
  BY DEF OpenInv, ProcOK
<1>3. /\ DOMAIN state = {"pc", "cols", "applied", "next", "work"} /\ state.pc = "repair"
      /\ state.next = 1 /\ state.applied = ledger /\ state.work = begun
  BY <1>1, <1>2
<1>4. /\ DOMAIN state.work = {"stored", "texts", "marker"}
      /\ state.work.stored = stored /\ state.work.texts = texts
  BY <1>3
<1>5. lock = NoProc /\ lock' = p /\ harmed' = harmed /\ UNCHANGED <<ledger, stored, texts, dueTexts>>
  BY DEF ReadLedger, db
<1>6. Done(state.next) = ledger
  BY <1>3 DEF Done
<1>7. Sound(ledger, state.work.stored, state.work.texts)
  BY <1>4 DEF OpenInv
<1>8. Sound(Done(state.next), state.work.stored, state.work.texts)'
  BY <1>5, <1>6, <1>7 DEF Sound, RowOK, Done, Texts
<1>9. ProcOK(state, p)'
  BY <1>3, <1>4, <1>5, <1>8 DEF ProcOK
<1>10. \A q \in Procs \ {p} : lock' = q <=> lock = q
  BY <1>5, CacheAssumption
<1> QED BY <1>1, <1>5, <1>9, <1>10, QuietStep

\* A repair that the ledger has is behind the transaction already; another one
\* finds its rows older than the ledger, so that no later row is harmed.
LEMMA RepairOpens ==
    ASSUME OpenInv, NEW p \in Procs, Repair(p) PROVE OpenInv'
<1> DEFINE n == proc[p].next
           name == Repairs[n]
           work == proc[p].work
           after == IF name \in proc[p].applied THEN work ELSE Apply(name, work)
<1>1. /\ DOMAIN proc[p] = {"pc", "cols", "applied", "next", "work"} /\ proc[p].pc = "repair"
      /\ n \in 1..12 /\ proc[p].applied = ledger /\ lock = p
      /\ DOMAIN work = {"stored", "texts", "marker"}
      /\ Sound(Done(n), work.stored, work.texts)
  BY Registry DEF Repair, Repairing, Reached, OpenInv, ProcOK
<1>2. PICK state : state = [proc[p] EXCEPT !.next = n + 1, !.work = after] /\ Turns(p, state)
  BY DEF Repair
<1>3. /\ lock' = lock /\ UNCHANGED <<ledger, stored, texts, dueTexts>>
      /\ harmed' = harmed \union
               {s \in Slots : /\ name \notin proc[p].applied
                              /\ Matches(name, s, work.stored[s])
                              /\ name \in work.stored[s].seen}
  BY DEF Repair, db
<1>4. harmed' = harmed
  <2>1. \A s \in Slots : work.stored[s].seen \subseteq proc[p].applied
    BY <1>1 DEF Sound, RowOK
  <2> QED BY <1>3, <2>1
<1>5. Done(n + 1) = Done(n) \union {name} /\ ledger \subseteq Done(n)
  BY <1>1 DEF Done
<1>6. DOMAIN after = {"stored", "texts", "marker"}
  BY <1>1 DEF Apply
<1>7. Sound(Done(n + 1), after.stored, after.texts)
  <2>1. CASE name \in ledger
    BY <1>1, <1>5, <2>1
  <2>2. CASE name \notin ledger
    <3>1. after = Apply(name, work)
      BY <1>1, <2>2
    <3>2. name = "479_strip" => "479_move" \in Done(n)
      BY <1>1, Registry DEF Done
    <3>3. name = "480_live" => "479_strip" \in Done(n)
      BY <1>1, Registry DEF Done
    <3>4. dueTexts \subseteq Standards
      BY DEF OpenInv
    <3> HIDE DEF after, name, n, work
    <3>5. Sound(Done(n) \union {name}, after.stored, after.texts)
      BY <1>1, <3>1, <3>2, <3>3, <3>4, RepairSound
    <3> QED BY <1>5, <3>5
  <2> QED BY <2>1, <2>2
<1>8. /\ DOMAIN state = {"pc", "cols", "applied", "next", "work"} /\ state.pc = "repair"
      /\ state.next = n + 1 /\ state.next \in 1..13 /\ state.applied = ledger /\ state.work = after
  BY <1>1, <1>2
<1> HIDE DEF after
<1>9. /\ DOMAIN state.work = {"stored", "texts", "marker"}
      /\ Sound(Done(state.next), state.work.stored, state.work.texts)
  BY <1>6, <1>7, <1>8
<1>10. Sound(Done(state.next), state.work.stored, state.work.texts)'
  BY <1>3, <1>9 DEF Sound, RowOK, Done, Texts
<1>11. ProcOK(state, p)'
  <2> SUFFICES lock' = p /\ ledger' = ledger
    BY <1>8, <1>9, <1>10 DEF ProcOK
  <2> QED BY <1>1, <1>3
<1> QED BY <1>2, <1>3, <1>4, <1>11, QuietStep

\* The commit makes the transaction's view the file, with every repair behind it.
LEMMA CommitOpens ==
    ASSUME OpenInv, NEW p \in Procs, Commit(p) PROVE OpenInv'
<1> DEFINE work == proc[p].work
<1>1. /\ proc[p].pc = "repair" /\ proc[p].next = 13 /\ lock = p
      /\ Sound(Done(13), work.stored, work.texts)
  BY Registry DEF Commit, Repairing, Reached, OpenInv, ProcOK
<1>2. Range(Repairs) = Names
  BY DEF Range, Names
<1>3. /\ ledger' = Names /\ ledger \subseteq Names
      /\ stored' = work.stored /\ texts' = work.texts /\ lock' = NoProc
      /\ dueTexts' = dueTexts /\ harmed' = harmed
      /\ proc' = [proc EXCEPT ![p] = [Closed EXCEPT !.pc = "open"]]
  BY <1>2 DEF Commit, Turns, OpenInv
<1>4. Done(13) = Names
  BY <1>3, Registry DEF Done, Names
<1>5. Sound(Names, stored', texts')
  BY <1>1, <1>3, <1>4
<1>6. Sound(ledger, stored, texts)'
  BY <1>3, <1>5 DEF Sound, RowOK, Texts
<1>7. DOMAIN proc' = Procs /\ \A q \in Procs : proc'[q] = IF q = p THEN [Closed EXCEPT !.pc = "open"] ELSE proc[q]
  BY <1>3 DEF OpenInv
<1>8. ASSUME NEW q \in Procs PROVE ProcOK(proc[q], q)'
  <2>1. lock' # q
    BY <1>3, CacheAssumption
  <2>2. /\ DOMAIN proc'[q] = {"pc", "cols", "applied", "next", "work"}
        /\ proc'[q].pc # "repair"
    <3>1. CASE q = p
      BY <1>7, <3>1 DEF Closed
    <3>2. CASE q # p
      BY <1>1, <1>7, <3>2 DEF OpenInv, ProcOK
    <3> QED BY <3>1, <3>2
  <2> QED BY <1>3, <2>1, <2>2 DEF ProcOK
<1> QED BY <1>3, <1>6, <1>7, <1>8 DEF OpenInv

\* A tool that writes has opened the file, so that no repair is left to run.
LEMMA WriteOpens ==
    ASSUME OpenInv, NEW p \in Procs, NEW slot \in Slots, Write(p, slot) PROVE OpenInv'
<1>1. PICK row \in NewRows(slot, ledger) : stored' = [stored EXCEPT ![slot] = row]
  BY DEF Write
<1>2. /\ Names \subseteq ledger /\ lock = NoProc /\ harmed' = harmed
      /\ UNCHANGED <<ledger, texts, dueTexts, lock, proc>>
  BY DEF Write, Reached, OpenInv, ProcOK
<1>3. row \in OldRows(slot, ledger) /\ ~row.text
  BY NewRowIs
<1>4. RowOK(slot, row) /\ row.seen = ledger
  BY <1>3, OldRowIs DEF RowOK
<1>5. Sound(ledger, stored, texts)
  BY DEF OpenInv
<1>6. DOMAIN stored' = Slots /\ \A s \in Slots : stored'[s] = IF s = slot THEN row ELSE stored[s]
  BY <1>1, <1>5 DEF Sound
<1>7. "479_move" \in ledger
  BY <1>2, Registry DEF Names
<1>8. Sound(ledger, stored', texts)
  <2>1. \A s \in Slots : RowOK(s, stored'[s])
    BY <1>4, <1>5, <1>6 DEF Sound
  <2>2. \A name \in ledger : \A s \in Slots : Matches(name, s, stored'[s]) => name \in stored'[s].seen
    BY <1>4, <1>5, <1>6 DEF Sound
  <2>3. \A s \in Slots : stored'[s].text => s # slot /\ stored[s].text
    BY <1>3, <1>6
  <2>4. dueTexts \subseteq texts /\ dueTexts \subseteq Slots
    BY <1>5, <1>7, StandardsAreSlots DEF Sound, OpenInv
  <2> QED BY <1>5, <1>6, <2>1, <2>2, <2>3, <2>4 DEF Sound
<1>9. Sound(ledger, stored, texts)'
  BY <1>2, <1>8 DEF Sound, RowOK, Texts
<1>10. ASSUME NEW q \in Procs PROVE ProcOK(proc[q], q)'
  <2>1. ProcOK(proc[q], q) /\ proc[q].pc # "repair"
    BY <1>2, CacheAssumption DEF OpenInv, ProcOK
  <2> QED BY <1>2, <2>1 DEF ProcOK
<1> QED BY <1>2, <1>9, <1>10 DEF OpenInv

LEMMA ClearCacheOpens ==
    ASSUME OpenInv, NEW p \in Procs, ClearCache(p) PROVE OpenInv'
<1>1. /\ stored' = [s \in Slots |-> Absent] /\ texts' = {} /\ dueTexts' = {} /\ harmed' = harmed
      /\ lock = NoProc /\ UNCHANGED <<ledger, lock, proc>>
  BY DEF ClearCache
<1>2. DOMAIN stored' = Slots /\ \A s \in Slots : stored'[s] = Absent
  BY <1>1
<1>3. \A s \in Slots : RowOK(s, stored[s])'
  BY <1>2, AbsentRow DEF RowOK
<1>4. Sound(ledger, stored, texts)'
  <2>1. \A s \in Slots : ~stored'[s].text /\ \A name : ~Matches(name, s, stored'[s])
    BY <1>2, AbsentIs
  <2> QED BY <1>1, <1>2, <1>3, <2>1 DEF Sound
<1>5. ASSUME NEW q \in Procs PROVE ProcOK(proc[q], q)'
  <2>1. ProcOK(proc[q], q) /\ proc[q].pc # "repair"
    BY <1>1, CacheAssumption DEF OpenInv, ProcOK
  <2> QED BY <1>1, <2>1 DEF ProcOK
<1> QED BY <1>1, <1>4, <1>5 DEF OpenInv

LEMMA OpenStutters ==
    ASSUME OpenInv, UNCHANGED cacheVars PROVE OpenInv'
BY DEF OpenInv, cacheVars, db, ProcOK, Sound, RowOK, Done, Texts

LEMMA OpenStep == OpenInv /\ [CacheNext]_cacheVars => OpenInv'
<1> SUFFICES ASSUME OpenInv, [CacheNext]_cacheVars PROVE OpenInv'
  OBVIOUS
<1>1. CASE UNCHANGED cacheVars
  BY <1>1, OpenStutters
<1>2. CASE CacheNext
  <2>1. PICK p \in Procs : Open(p) \/ (\E s \in Slots : Write(p, s)) \/ ClearCache(p) \/ Leave(p)
    BY <1>2 DEF CacheNext
  <2>2. CASE Open(p)
    BY <2>2, ReadColumnsOpens, AddColumnOpens, ReadLedgerOpens, LockTimesOutOpens, RepairOpens,
       CommitOpens DEF Open
  <2>3. CASE (\E s \in Slots : Write(p, s)) \/ ClearCache(p) \/ Leave(p)
    BY <2>3, WriteOpens, ClearCacheOpens, LeaveOpens
  <2> QED BY <2>1, <2>2, <2>3
<1> QED BY <1>1, <1>2

\* Rows and ledger change together, no repair touches a row of a later time, and
\* every converted text is in its row or in the table of texts.
LEMMA OpenIsSafe == OpenInv => RepairsAreSafe
<1> SUFFICES ASSUME OpenInv PROVE RepairsAreSafe
  OBVIOUS
<1>1. Sound(ledger, stored, texts) /\ harmed = {}
  BY DEF OpenInv
<1>2. RecordedMeansDone
  BY <1>1 DEF RecordedMeansDone, Sound
<1> QED BY <1>1, <1>2 DEF RepairsAreSafe, RepairsRunOnce, NewRowsAreLeft, NoTextIsLost, Sound

\* RepairsAreSafe, of AsyncSQLiteCache.open and _apply_repairs: for every number of
\* processes that open, repair, write and clear one database of any earlier
\* release and are killed anywhere, a repair that is recorded has left none of
\* its rows, no repair touches a row cached after it was recorded, and no
\* converted text is lost.
THEOREM RepairsSafe == CacheSpec => []RepairsAreSafe
<1> QED BY OpenStarts, OpenStep, OpenIsSafe, PTL DEF CacheSpec

-----------------------------------------------------------------------------
(* StandardsLookup: what a call knows at each place, and what its jobs brought.  *)

Jobs == [place : Places, found : SUBSET (Identifiers \cup {Stub}), page : 1..Len(ListPages)]

Calls == [stage : LookupStages, mode : {"search", "get"}, key : Keys, known : BOOLEAN, asks : Seq(Fetchers),
          got : SUBSET (Identifiers \cup {Stub}), failed : SUBSET Fetchers, answer : Answers]

SearchRows == [text : Keys, body : Fetchers \cup {AllBodies}, found : SUBSET Identifiers]

LookupTyped ==
    /\ query \in Queries
    /\ lookup \in [Clients -> Calls]
    /\ job \in [Clients -> [Fetchers -> Jobs]]
    /\ nist \in [memory : BOOLEAN, disk : {"none", "torn", "whole"}]
    /\ stubs \in (SUBSET Of("W3C")) \cup {NoRecord}
    /\ records \in [Keys -> Identifiers \cup {Stub, NoRecord}]
    /\ \A i \in Synced : records[i] = i
    /\ alias \in [Keys -> Keys \cup {NoRecord}]
    /\ searches \subseteq SearchRows

\* A key that its form does not change; a synced identifier may have one of another.
Settled(key) == Canonical(key) = key \/ key \in Synced

\* What a search for key of some fetchers must have found to be kept.
Complete(found, key, fetchers) ==
    /\ found \subseteq Hits[key]
    /\ \A f \in fetchers : Hits[key] \cap Of(f) \cap (Synced \cup Of("ETSI")) \subseteq found

SearchesFit ==
    /\ \A s, t \in searches : s.text = t.text /\ s.body = t.body => s = t
    /\ \A s \in searches : Complete(s.found, s.text, Asking(s.body))

AliasesFit == \A k \in Keys : alias[k] # NoRecord => Settled(alias[k])

\* What fetcher f says in its job j of a call for key.
JobSays(mode, key, f, j) ==
    /\ j.place = "crashed" => f \in {"IETF", "NIST", "W3C"}
    /\ j.place = "refused" => f = "ETSI" /\ j.found = {}
    /\ j.place = "list" /\ mode = "search" => Complete(j.found, key, {f})
    /\ j.place = "list" /\ mode = "get" /\ j.found = {} =>
          /\ f = "ETSI" => Hits[key] \cap Of("ETSI") = {}
          /\ f = "Relaton" => key \notin Of("Relaton")
    /\ j.place = "lock" => j.found = {}
    /\ j.place = "page" => f = "W3C" /\ j.found \subseteq Of("W3C")

JobsSay ==
    \A c \in Clients : InStage(c, "fetch") =>
        \A f \in Fetchers : JobSays(lookup[c].mode, lookup[c].key, f, job[c][f])

\* "not_found" may be said of key.
MayBeAbsent(key) ==
    /\ Hits[key] \cap Of("ETSI") = {} \/ (LocalId[key] # NoRecord /\ Fetcher[LocalId[key]] # "ETSI")
    /\ key \notin Synced
    /\ LocalId[key] # NoRecord => Fetcher[LocalId[key]] # "Relaton"

AskedBy(q) == {q.asks[k] : k \in DOMAIN q.asks}

\* A search asks all that are to be asked.
Searching(q, w) ==
    /\ w.tool # "get"
    /\ w.tool = "search" => q.key = w.text
    /\ AskedBy(q) = Asking(IF w.tool = "search" THEN w.body ELSE AllBodies)

\* A get asks the one its key belongs to, or walks; whoever is behind it has been heard.
Walking(q, w) ==
    /\ w.tool # "search"
    /\ Canonical(q.key) = q.key
    /\ w.tool = "get" => q.key \notin Synced
    /\ q.asks # <<>>
    /\ LocalId[q.key] # NoRecord => q.asks = <<Fetcher[q.key]>>
    /\ LocalId[q.key] = NoRecord /\ "ETSI" \notin AskedBy(q) =>
          "ETSI" \in q.failed \/ Hits[q.key] \cap Of("ETSI") = {}

CallKnows(q, w) ==
    /\ q.stage # "done" => q.answer = "none"
    /\ q.stage = "fetch" => IF q.mode = "search" THEN Searching(q, w) ELSE Walking(q, w)
    /\ q.stage = "store" => w.tool = "search" /\ Complete(q.got, w.text, Asking(w.body))
    /\ q.stage \in {"alias", "row"} => q.got # {} /\ Settled(q.key)
    /\ q.answer = "not_found" => MayBeAbsent(q.key)

CallsKnow == \A c \in Clients : CallKnows(lookup[c], query[c])

Loads(c) == InStage(c, "fetch") /\ job[c]["NIST"].place \in {"url", "mods"}

LoadedOnce ==
    /\ \A c, d \in Clients : Loads(c) /\ Loads(d) => c = d
    /\ nist.memory => \A c \in Clients : ~Loads(c)

LookupInv ==
    LookupTyped /\ SearchesFit /\ AliasesFit /\ JobsSay /\ CallsKnow /\ LoadedOnce

-----------------------------------------------------------------------------
(* Keys, and what is as it was.                                                 *)

LEMMA Tabled ==
    ASSUME LookupAssumption
    PROVE  /\ Fetcher \in [Identifiers -> Fetchers]
           /\ LocalId \in [Keys -> Identifiers \cup {NoRecord}] /\ NoRecord \notin Keys
           /\ \A k \in Keys : LocalId[k] # NoRecord => LocalId[LocalId[k]] = LocalId[k]
           /\ \A i \in Identifiers \ Synced : LocalId[i] \in {i, NoRecord}
           /\ Hits \in [Keys -> SUBSET Identifiers] /\ Stub \notin Identifiers /\ Stub # NoRecord
           /\ Synced \subseteq {i \in Identifiers : Fetcher[i] \in {"Relaton", "local"}}
           /\ ListPages \in Seq(SUBSET {i \in Identifiers : Fetcher[i] = "W3C"}) /\ ListPages # <<>>
           /\ Queries \subseteq [Clients -> Query]
           /\ Identifiers \subseteq Keys
BY DEF LookupAssumption, Keys

\* A form is its own form, and what a search finds is a key.
LEMMA CanonicalSettles ==
    ASSUME LookupAssumption, NEW k \in Keys
    PROVE  /\ Canonical(k) \in Keys /\ Canonical(Canonical(k)) = Canonical(k)
           /\ LocalId[k] # NoRecord => LocalId[k] \in Identifiers /\ Canonical(LocalId[k]) = LocalId[k]
           /\ Canonical(k) = k /\ LocalId[k] # NoRecord => LocalId[k] = k /\ k \in Identifiers
           /\ k \in Identifiers => Settled(k)
<1>1. LocalId[k] # NoRecord => LocalId[k] \in Identifiers /\ LocalId[k] \in Keys /\ LocalId[LocalId[k]] = LocalId[k]
  BY Tabled
<1>2. k \in Identifiers => Settled(k)
  BY Tabled DEF Settled, Canonical
<1> QED BY <1>1, <1>2 DEF Canonical

\* Where a text leads: to a key that stands for itself, unless it is synced.
LEMMA KeyOfSettles ==
    ASSUME LookupAssumption, LookupTyped, AliasesFit, NEW text \in Keys
    PROVE  KeyOf(text) \in Keys /\ Settled(KeyOf(text))
<1>1. CASE alias[text] # NoRecord
  <2>1. alias[text] \in Keys
    BY <1>1 DEF LookupTyped
  <2> QED BY <1>1, <2>1 DEF KeyOf, GetAlias, AliasesFit
<1>2. CASE alias[text] = NoRecord
  BY <1>2, CanonicalSettles DEF KeyOf, GetAlias, Settled
<1> QED BY <1>1, <1>2

\* Fields of a call and of a job.
LEMMA CallFields ==
    ASSUME LookupTyped, NEW c \in Clients
    PROVE  /\ lookup[c] \in Calls
           /\ lookup[c].stage \in LookupStages /\ lookup[c].mode \in {"search", "get"} /\ lookup[c].key \in Keys
           /\ lookup[c].known \in BOOLEAN /\ lookup[c].asks \in Seq(Fetchers)
           /\ lookup[c].got \in SUBSET (Identifiers \cup {Stub}) /\ lookup[c].failed \in SUBSET Fetchers
           /\ lookup[c].answer \in Answers
           /\ \A f \in Fetchers : /\ job[c][f] \in Jobs /\ job[c][f].place \in Places
                                  /\ job[c][f].found \in SUBSET (Identifiers \cup {Stub})
                                  /\ job[c][f].page \in 1..Len(ListPages)
BY DEF LookupTyped, Calls, Jobs

LEMMA WishFields ==
    ASSUME LookupAssumption, LookupTyped, NEW c \in Clients
    PROVE  /\ query[c].tool \in {"search", "resolve", "get"} /\ query[c].text \in Keys
           /\ query[c].body \in Fetchers \cup {AllBodies}
<1>1. query \in [Clients -> Query]
  BY DEF LookupAssumption, LookupTyped
<1>2. query[c] \in Query
  BY <1>1
<1> QED BY <1>2 DEF Query

-----------------------------------------------------------------------------
(* One call, or one of its jobs, goes on.                                       *)

Others(c) == \A d \in Clients \ {c} : lookup'[d] = lookup[d] /\ job'[d] = job[d]

\* Nobody begins to load, and what is in memory was.
LEMMA LoadsShrink ==
    ASSUME LoadedOnce, \A d \in Clients : Loads(d)' => Loads(d),
           nist'.memory => nist.memory
    PROVE  LoadedOnce'
BY DEF LoadedOnce

\* A call goes on while its jobs stay as they are; it asks nothing any more.
LEMMA CallGoesOn ==
    ASSUME LookupTyped, JobsSay, CallsKnow, LoadedOnce,
           NEW c \in Clients, NEW q \in Calls, Says(c, q), q.stage # "fetch",
           UNCHANGED <<query, catalogues>>, CallKnows(q, query[c])
    PROVE  /\ lookup' \in [Clients -> Calls] /\ job' \in [Clients -> [Fetchers -> Jobs]]
           /\ JobsSay' /\ CallsKnow' /\ LoadedOnce'
<1>1. /\ lookup' = [lookup EXCEPT ![c] = q] /\ job' = job /\ query' = query /\ nist' = nist
      /\ lookup \in [Clients -> Calls] /\ job \in [Clients -> [Fetchers -> Jobs]]
  BY DEF Says, catalogues, LookupTyped
<1>2. lookup' \in [Clients -> Calls] /\ lookup'[c] = q /\ \A d \in Clients : d # c => lookup'[d] = lookup[d]
  BY <1>1
<1>3. CallsKnow'
  BY <1>1, <1>2 DEF CallsKnow
<1>4. \A d \in Clients : InStage(d, "fetch")' => d # c /\ InStage(d, "fetch")
  BY <1>1, <1>2 DEF InStage
<1>5. JobsSay'
  BY <1>1, <1>2, <1>4 DEF JobsSay
<1>6. \A d \in Clients : Loads(d)' => Loads(d)
  BY <1>1, <1>4 DEF Loads
<1>7. LoadedOnce'
  BY <1>1, <1>6, LoadsShrink
<1> QED BY <1>1, <1>2, <1>3, <1>5, <1>7

\* A call has asked: none of its jobs has begun.
LEMMA AskedAnew ==
    ASSUME LookupAssumption, LookupInv, NEW c \in Clients, NEW mode \in {"search", "get"}, NEW key \in Keys,
           NEW asks \in Seq(Fetchers), InStage(c, "start"), Ask(c, mode, key, asks),
           UNCHANGED <<query, catalogues, tables>>,
           \A q \in Calls : /\ q.stage = "fetch" /\ q.mode = mode /\ q.key = key /\ q.asks = asks
                            /\ q.answer = "none"
                            => CallKnows(q, query[c])
    PROVE  LookupInv'
<1> USE DEF LookupInv
<1> DEFINE q == [lookup[c] EXCEPT !.stage = "fetch", !.mode = mode, !.key = key, !.asks = asks,
                               !.known = (GetAlias(query[c].text) # NoRecord)]
           J(f) == IF \E k \in DOMAIN asks : asks[k] = f /\ (mode = "search" \/ k = 1)
                   THEN FirstPlace(mode, f) ELSE NotAsked
<1>1. /\ lookup' = [lookup EXCEPT ![c] = q] /\ job' = [job EXCEPT ![c] = [f \in Fetchers |-> J(f)]]
      /\ lookup \in [Clients -> Calls] /\ job \in [Clients -> [Fetchers -> Jobs]]
      /\ query' = query /\ nist' = nist /\ stubs' = stubs /\ records' = records /\ alias' = alias
      /\ searches' = searches
  BY DEF Ask, LookupTyped, catalogues, tables
<1>2. /\ q \in Calls /\ q.stage = "fetch" /\ q.mode = mode /\ q.key = key /\ q.asks = asks
      /\ q.answer = "none"
  <2>1. lookup[c].answer = "none"
    BY DEF InStage, CallsKnow, CallKnows
  <2>2. lookup[c] \in Calls /\ (GetAlias(query[c].text) # NoRecord) \in BOOLEAN
    BY <1>1
  <2> QED BY <2>1, <2>2 DEF Calls, LookupStages
<1> HIDE DEF q
<1>3. 1 \in 1..Len(ListPages)
  BY Tabled
<1>4. \A f \in Fetchers : J(f) \in Jobs /\ J(f).place \in {"idle", "ask", "lock"} /\ J(f).found = {}
  BY <1>3 DEF FirstPlace, NotAsked, Jobs, Places
<1> HIDE DEF J
<1>5. /\ lookup' \in [Clients -> Calls] /\ lookup'[c] = q /\ \A d \in Clients : d # c => lookup'[d] = lookup[d]
      /\ job' \in [Clients -> [Fetchers -> Jobs]] /\ \A d \in Clients : d # c => job'[d] = job[d]
      /\ \A f \in Fetchers : job'[c][f].place \in {"idle", "ask", "lock"} /\ job'[c][f].found = {}
  BY <1>1, <1>2, <1>4
<1>6. CallsKnow'
  <2>1. CallKnows(q, query[c])
    BY <1>2
  <2> QED BY <1>1, <1>5, <2>1 DEF CallsKnow
<1>7. JobsSay'
  <2>1. ASSUME NEW d \in Clients, InStage(d, "fetch")', NEW f \in Fetchers
        PROVE  JobSays(lookup'[d].mode, lookup'[d].key, f, job'[d][f])
    <3>1. CASE d = c
      BY <1>5, <3>1 DEF JobSays
    <3>2. CASE d # c
      BY <1>5, <2>1, <3>2 DEF JobsSay, InStage
    <3> QED BY <3>1, <3>2
  <2> QED BY <2>1 DEF JobsSay
<1>8. LoadedOnce'
  <2>1. "NIST" \in Fetchers
    BY DEF Fetchers
  <2>2. \A d \in Clients : Loads(d)' => Loads(d)
    BY <1>5, <2>1 DEF Loads, InStage
  <2> QED BY <1>1, <2>2, LoadsShrink
<1>9. LookupTyped'
  BY <1>1, <1>5 DEF LookupTyped
<1>10. SearchesFit' /\ AliasesFit'
  BY <1>1 DEF SearchesFit, AliasesFit
<1> QED BY <1>6, <1>7, <1>8, <1>9, <1>10

\* A fetcher's job is now j, and all the others are as they were.
JobIs(c, f, j) ==
    /\ job' \in [Clients -> [Fetchers -> Jobs]]
    /\ job'[c][f] = j
    /\ \A d \in Clients : \A g \in Fetchers : d # c \/ g # f => job'[d][g] = job[d][g]

\* A job that has moved, and one that has ended with a list.
MovedTo(c, f, place) == [job[c][f] EXCEPT !.place = place]
BroughtTo(c, f, found) == [job[c][f] EXCEPT !.place = "list", !.found = found]

LEMMA JobTurns ==
    ASSUME LookupTyped, NEW c \in Clients, NEW f \in Fetchers
    PROVE  /\ \A place \in Places : JobGoes(c, f, place) => JobIs(c, f, MovedTo(c, f, place))
           /\ \A found \in SUBSET (Identifiers \cup {Stub}) :
                 Lists(c, f, found) => JobIs(c, f, BroughtTo(c, f, found))
<1>0. job \in [Clients -> [Fetchers -> Jobs]] /\ job[c][f] \in Jobs
  BY DEF LookupTyped
<1>1. ASSUME NEW j \in Jobs, job' = [job EXCEPT ![c] = [job[c] EXCEPT ![f] = j]]
      PROVE  JobIs(c, f, j)
  BY <1>0, <1>1 DEF JobIs
<1>2. ASSUME NEW place \in Places, JobGoes(c, f, place)
      PROVE  JobIs(c, f, MovedTo(c, f, place))
  <2> DEFINE j == MovedTo(c, f, place)
  <2>0. job[c][f] \in Jobs
    BY <1>0
  <2>1. j \in Jobs
    BY <2>0 DEF Jobs, MovedTo
  <2>2. job' = [job EXCEPT ![c] = [job[c] EXCEPT ![f] = j]]
    BY <1>0, <1>2 DEF JobGoes, MovedTo
  <2> HIDE DEF j
  <2>3. JobIs(c, f, j)
    BY <1>1, <2>1, <2>2
  <2> QED BY <2>3 DEF j
<1>3. ASSUME NEW found \in SUBSET (Identifiers \cup {Stub}), Lists(c, f, found)
      PROVE  JobIs(c, f, BroughtTo(c, f, found))
  <2> DEFINE j == BroughtTo(c, f, found)
  <2>0. job[c][f] \in Jobs
    BY <1>0
  <2>1. j \in Jobs
    BY <2>0 DEF Jobs, Places, BroughtTo
  <2>2. job' = [job EXCEPT ![c] = [job[c] EXCEPT ![f] = j]]
    BY <1>0, <1>3 DEF Lists, BroughtTo
  <2> HIDE DEF j
  <2>3. JobIs(c, f, j)
    BY <1>1, <2>1, <2>2
  <2> QED BY <2>3 DEF j
<1> QED BY <1>2, <1>3

\* A job goes on while its call waits.
LEMMA JobGoesOn ==
    ASSUME LookupInv, NEW c \in Clients, NEW f \in Fetchers, NEW j \in Jobs, JobIs(c, f, j),
           UNCHANGED <<query, lookup, tables>>, JobSays(lookup[c].mode, lookup[c].key, f, j),
           nist' \in [memory : BOOLEAN, disk : {"none", "torn", "whole"}],
           stubs' \in (SUBSET Of("W3C")) \cup {NoRecord}, LoadedOnce'
    PROVE  LookupInv'
<1> USE DEF LookupInv
<1>1. JobsSay'
  <2>1. ASSUME NEW d \in Clients, InStage(d, "fetch")', NEW g \in Fetchers
        PROVE  JobSays(lookup'[d].mode, lookup'[d].key, g, job'[d][g])
    <3>1. CASE d = c /\ g = f
      BY <3>1 DEF JobIs
    <3>2. CASE d # c \/ g # f
      BY <2>1, <3>2 DEF JobIs, JobsSay, InStage
    <3> QED BY <3>1, <3>2
  <2> QED BY <2>1 DEF JobsSay
<1>2. LookupTyped'
  BY DEF LookupTyped, JobIs, tables
<1>3. SearchesFit' /\ AliasesFit' /\ CallsKnow'
  BY DEF SearchesFit, AliasesFit, CallsKnow, tables
<1> QED BY <1>1, <1>2, <1>3

\* A job that is no loader's loads nothing.
LEMMA LoadsAside ==
    ASSUME LookupInv, NEW c \in Clients, NEW f \in Fetchers, NEW j, JobIs(c, f, j),
           UNCHANGED lookup, nist'.memory => nist.memory,
           f = "NIST" /\ j.place \in {"url", "mods"} => Loads(c)
    PROVE  LoadedOnce'
<1>1. "NIST" \in Fetchers
  BY DEF Fetchers
<1>2. \A d \in Clients : Loads(d)' => Loads(d)
  BY <1>1 DEF Loads, InStage, JobIs
<1> QED BY <1>2, LoadsShrink DEF LookupInv

\* The fields of such a job.
LEMMA MovedFields ==
    ASSUME LookupTyped, NEW c \in Clients, NEW f \in Fetchers
    PROVE  /\ \A place \in Places :
                 /\ MovedTo(c, f, place) \in Jobs /\ MovedTo(c, f, place).place = place
                 /\ MovedTo(c, f, place).found = job[c][f].found
           /\ \A found \in SUBSET (Identifiers \cup {Stub}) :
                 /\ BroughtTo(c, f, found) \in Jobs /\ BroughtTo(c, f, found).place = "list"
                 /\ BroughtTo(c, f, found).found = found
<1>1. job[c][f] \in Jobs
  BY DEF LookupTyped
<1>2. ASSUME NEW place \in Places
      PROVE  /\ MovedTo(c, f, place) \in Jobs /\ MovedTo(c, f, place).place = place
             /\ MovedTo(c, f, place).found = job[c][f].found
  BY <1>1 DEF MovedTo, Jobs
<1>3. ASSUME NEW found \in SUBSET (Identifiers \cup {Stub})
      PROVE  /\ BroughtTo(c, f, found) \in Jobs /\ BroughtTo(c, f, found).place = "list"
             /\ BroughtTo(c, f, found).found = found
  BY <1>1 DEF BroughtTo, Jobs, Places
<1> QED BY <1>2, <1>3

-----------------------------------------------------------------------------
(* What the fetchers answer.                                                    *)

\* The matches of a fetcher are complete for a search, and missing of a get only
\* where there is none.
LEMMA MatchesAre ==
    ASSUME LookupAssumption, LookupTyped, NEW c \in Clients, NEW f \in Fetchers
    PROVE  /\ MatchesFor(c, f) \subseteq Identifiers
           /\ MatchesFor(c, f) \subseteq Hits[lookup[c].key]
           /\ lookup[c].mode = "search" => MatchesFor(c, f) = Hits[lookup[c].key] \cap Of(f)
           /\ f = "ETSI" => MatchesFor(c, f) = Hits[lookup[c].key] \cap Of("ETSI")
BY Tabled, CallFields DEF MatchesFor, Of

\* Only Relaton and what is read from the cache have synced standards.
LEMMA SyncedAside ==
    ASSUME LookupAssumption, NEW f \in Fetchers, f \notin {"ETSI", "Relaton", "local"}
    PROVE  Of(f) \cap (Synced \cup Of("ETSI")) = {}
BY Tabled DEF Of

\* A list of some of its matches is an answer of these.
LEMMA PartsAreComplete ==
    ASSUME LookupAssumption, LookupTyped, NEW c \in Clients, NEW f \in Fetchers,
           f \notin {"ETSI", "Relaton", "local"}, NEW found \in SUBSET MatchesFor(c, f),
           NEW j \in Jobs, j.place = "list", j.found = found
    PROVE  JobSays(lookup[c].mode, lookup[c].key, f, j)
<1>1. Complete(found, lookup[c].key, {f})
  BY MatchesAre, SyncedAside DEF Complete
<1> QED BY <1>1 DEF JobSays

\* What a single request comes to.
LEMMA OutcomesSay ==
    ASSUME LookupAssumption, LookupInv, NEW c \in Clients, NEW f \in Fetchers, f # "NIST",
           NEW j \in FetchOutcomes(c, f)
    PROVE  j \in Jobs /\ JobSays(lookup[c].mode, lookup[c].key, f, j)
<1> DEFINE key == lookup[c].key
           mode == lookup[c].mode
<1>1. /\ LookupTyped /\ key \in Keys /\ mode \in {"search", "get"} /\ 1 \in 1..Len(ListPages)
      /\ Hits[key] \subseteq Identifiers
  BY CallFields, Tabled DEF LookupInv
<1>2. ASSUME NEW found \in SUBSET (Identifiers \cup {Stub})
      PROVE  List(found) \in Jobs /\ List(found).place = "list" /\ List(found).found = found
  BY <1>1 DEF List, NotAsked, Jobs, Places
<1>3. ASSUME NEW place \in {"refused", "crashed"}
      PROVE  Stopped(place) \in Jobs /\ Stopped(place).place = place /\ Stopped(place).found = {}
  <2>1. Stopped(place) = [place |-> place, found |-> {}, page |-> 1]
    BY DEF Stopped, NotAsked
  <2> QED BY <1>1, <2>1 DEF Jobs, Places
<1>4. ASSUME NEW l \in Heard(c, f)
      PROVE  /\ \E found \in SUBSET MatchesFor(c, f) :
                   l = List(found) /\ (found = {} => MatchesFor(c, f) = {})
             /\ mode = "search" => l = List(MatchesFor(c, f))
  BY DEF Heard
<1>5. MatchesFor(c, f) \subseteq Identifiers
  BY <1>1, MatchesAre
<1> HIDE DEF key, mode
<1>6. CASE f = "local" \/ (f = "Relaton" /\ mode = "search")
  <2>1. j \in FromCache(c, f)
    BY <1>6 DEF FetchOutcomes, mode
  <2>2. CASE mode = "search"
    <3>1. j = List(SearchSynced(key, f)) /\ SearchSynced(key, f) \subseteq Identifiers
      BY <1>1, <2>1, <2>2 DEF FromCache, SearchSynced, mode, key
    <3>2. Complete(SearchSynced(key, f), key, {f})
      BY <1>6 DEF Complete, SearchSynced, Of
    <3>3. j \in Jobs /\ j.place = "list" /\ j.found = SearchSynced(key, f)
      BY <1>2, <3>1
    <3> QED BY <2>2, <3>2, <3>3 DEF JobSays, mode, key
  <2>3. CASE mode = "get"
    <3>1. j = List({records[key]} \ {NoRecord}) /\ {records[key]} \ {NoRecord} \subseteq Identifiers \cup {Stub}
      BY <1>1, <2>1, <2>3 DEF FromCache, mode, key, LookupTyped
    <3>2. j \in Jobs /\ j.place = "list"
      BY <1>2, <3>1
    <3> QED BY <1>6, <2>3, <3>2 DEF JobSays, mode, key
  <2> QED BY <1>1, <2>2, <2>3
<1>7. CASE f = "Relaton" /\ mode = "get"
  <2>1. CASE key \notin Of("Relaton")
    <3>1. j = List({})
      BY <1>7, <2>1 DEF FetchOutcomes, Unreadable, mode, key
    <3>2. j \in Jobs /\ j.place = "list"
      BY <1>2, <3>1
    <3> QED BY <1>7, <2>1, <3>2 DEF JobSays, mode, key
  <2>2. CASE key \in Of("Relaton")
    <3>1. j = List({Stub}) \/ (j \in Heard(c, f) /\ j # List({}))
      BY <1>7, <2>2 DEF FetchOutcomes, Unreadable, mode, key
    <3>2. PICK found \in SUBSET (Identifiers \cup {Stub}) : j = List(found) /\ found # {}
      BY <1>4, <1>5, <3>1
    <3>3. j \in Jobs /\ j.place = "list" /\ j.found # {}
      BY <1>2, <3>2
    <3> QED BY <1>7, <3>3 DEF JobSays, mode, key
  <2> QED BY <2>1, <2>2
<1>8. CASE f = "ETSI"
  <2>1. j \in Heard(c, f) \/ j = Stopped("refused")
    BY <1>8 DEF FetchOutcomes, Unreadable, Stopped
  <2>2. CASE j = Stopped("refused")
    <3>1. j \in Jobs /\ j.place = "refused" /\ j.found = {}
      BY <1>3, <2>2
    <3> QED BY <1>8, <3>1 DEF JobSays
  <2>3. CASE j \in Heard(c, f)
    <3>1. PICK found \in SUBSET MatchesFor(c, f) : j = List(found) /\ (found = {} => MatchesFor(c, f) = {})
      BY <1>4, <2>3
    <3>2. j \in Jobs /\ j.place = "list" /\ j.found = found
      BY <1>2, <1>5, <3>1
    <3>3. MatchesFor(c, f) = Hits[key] \cap Of("ETSI")
      BY <1>1, <1>8, MatchesAre DEF key
    <3>4. CASE mode = "search"
      <4>1. j = List(MatchesFor(c, f))
        BY <1>4, <2>3, <3>4
      <4>2. j.found = MatchesFor(c, f)
        BY <1>2, <1>5, <4>1
      <4>3. Complete(j.found, key, {f})
        BY <1>8, <3>3, <4>2 DEF Complete
      <4> QED BY <3>2, <3>4, <4>3 DEF JobSays, mode, key
    <3>5. CASE mode = "get"
      <4>1. found = {} => Hits[key] \cap Of("ETSI") = {}
        BY <3>1, <3>3, Zenon
      <4> QED BY <1>8, <3>2, <3>5, <4>1 DEF JobSays, mode, key
    <3> QED BY <1>1, <3>4, <3>5
  <2> QED BY <2>1, <2>2, <2>3
<1>9. CASE f \in {"IETF", "W3C"}
  <2>1. j \in Heard(c, f) \/ j = List({}) \/ j = Stopped("crashed")
    BY <1>9 DEF FetchOutcomes, Stopped
  <2>2. CASE j = Stopped("crashed")
    <3>1. j \in Jobs /\ j.place = "crashed"
      BY <1>3, <2>2
    <3> QED BY <1>9, <3>1 DEF JobSays
  <2>3. CASE j \in Heard(c, f) \/ j = List({})
    <3>1. PICK found \in SUBSET MatchesFor(c, f) : j = List(found)
      BY <1>4, <2>3
    <3>2. j \in Jobs /\ j.place = "list" /\ j.found = found
      BY <1>2, <1>5, <3>1
    <3> QED BY <1>1, <1>9, <3>2, PartsAreComplete
  <2> QED BY <2>1, <2>2, <2>3
<1> QED BY <1>1, <1>6, <1>7, <1>8, <1>9 DEF Fetchers

-----------------------------------------------------------------------------
(* Steps of the fetchers.                                                       *)

LEMMA RequestsKeep ==
    ASSUME LookupAssumption, LookupInv, NEW c \in Clients, Requests(c)
    PROVE  LookupInv'
<1> USE DEF LookupInv
<1> DEFINE O(f) == IF AtPlace(c, f, "ask") THEN FetchOutcomes(c, f) ELSE {job[c][f]}
<1>1. /\ job \in [Clients -> [Fetchers -> Jobs]] /\ UNCHANGED <<query, lookup, catalogues, tables>>
      /\ InStage(c, "fetch")
  BY DEF LookupTyped, Requests, AtPlace
<1>2. PICK i \in O("IETF"), w \in O("W3C"), e \in O("ETSI"), r \in O("Relaton"), l \in O("local") :
           job' = [job EXCEPT ![c] = [job[c] EXCEPT !["IETF"] = i, !["W3C"] = w, !["ETSI"] = e,
                                                     !["Relaton"] = r, !["local"] = l]]
  BY DEF Requests
<1>3. ASSUME NEW f \in Fetchers, f # "NIST", NEW j \in O(f)
      PROVE  j \in Jobs /\ JobSays(lookup[c].mode, lookup[c].key, f, j)
  <2>1. CASE AtPlace(c, f, "ask")
    BY <1>3, <2>1, OutcomesSay
  <2>2. CASE ~AtPlace(c, f, "ask")
    BY <1>1, <1>3, <2>2 DEF JobsSay
  <2> QED BY <2>1, <2>2
<1> HIDE DEF O
<1>4. /\ i \in Jobs /\ JobSays(lookup[c].mode, lookup[c].key, "IETF", i)
      /\ w \in Jobs /\ JobSays(lookup[c].mode, lookup[c].key, "W3C", w)
      /\ e \in Jobs /\ JobSays(lookup[c].mode, lookup[c].key, "ETSI", e)
      /\ r \in Jobs /\ JobSays(lookup[c].mode, lookup[c].key, "Relaton", r)
      /\ l \in Jobs /\ JobSays(lookup[c].mode, lookup[c].key, "local", l)
  BY <1>3 DEF Fetchers
<1>5. /\ job' \in [Clients -> [Fetchers -> Jobs]]
      /\ \A d \in Clients : d # c => job'[d] = job[d]
      /\ job'[c]["IETF"] = i /\ job'[c]["W3C"] = w /\ job'[c]["ETSI"] = e
      /\ job'[c]["Relaton"] = r /\ job'[c]["local"] = l /\ job'[c]["NIST"] = job[c]["NIST"]
  BY <1>1, <1>2, <1>4 DEF Fetchers
<1>6. JobsSay'
  <2>1. ASSUME NEW d \in Clients, InStage(d, "fetch")', NEW f \in Fetchers
        PROVE  JobSays(lookup'[d].mode, lookup'[d].key, f, job'[d][f])
    <3>1. InStage(d, "fetch") /\ lookup'[d] = lookup[d]
      BY <1>1, <2>1 DEF InStage
    <3>2. CASE d = c
      <4>1. JobSays(lookup[c].mode, lookup[c].key, "NIST", job[c]["NIST"])
        BY <1>1 DEF JobsSay, Fetchers
      <4> QED BY <1>4, <1>5, <3>1, <3>2, <4>1 DEF Fetchers
    <3>3. CASE d # c
      BY <1>5, <3>1, <3>3 DEF JobsSay
    <3> QED BY <3>2, <3>3
  <2> QED BY <2>1 DEF JobsSay
<1>7. LoadedOnce'
  <2>1. \A d \in Clients : Loads(d)' => Loads(d)
    BY <1>1, <1>5 DEF Loads, InStage
  <2> QED BY <1>1, <2>1, LoadsShrink DEF catalogues
<1>8. LookupTyped' /\ SearchesFit' /\ AliasesFit' /\ CallsKnow'
  BY <1>1, <1>5 DEF LookupTyped, SearchesFit, AliasesFit, CallsKnow, tables, catalogues
<1> QED BY <1>6, <1>7, <1>8

\* A job moves on to a place at which it says nothing yet and loads nothing, or
\* ends with some matches: a step of NIST's and W3C's.
LEMMA MoveKeeps ==
    ASSUME LookupAssumption, LookupInv, NEW c \in Clients, NEW f \in {"NIST", "W3C"},
           NEW place \in {"mods", "details", "crashed"}, JobGoes(c, f, place),
           f = "NIST" /\ place = "mods" => Loads(c),
           UNCHANGED <<query, lookup, nist, tables>>, stubs' \in (SUBSET Of("W3C")) \cup {NoRecord}
    PROVE  LookupInv'
<1>1. LookupTyped /\ f \in Fetchers /\ place \in Places
  BY DEF LookupInv, Fetchers, Places
<1> DEFINE j == MovedTo(c, f, place)
<1>2. JobIs(c, f, j) /\ j \in Jobs /\ j.place = place
  BY <1>1, JobTurns, MovedFields
<1> HIDE DEF j
<1>3. JobSays(lookup[c].mode, lookup[c].key, f, j)
  BY <1>2 DEF JobSays
<1>4. LoadedOnce'
  BY <1>1, <1>2, LoadsAside
<1>5. nist' \in [memory : BOOLEAN, disk : {"none", "torn", "whole"}]
  BY <1>1 DEF LookupTyped
<1> QED BY <1>1, <1>2, <1>3, <1>4, <1>5, JobGoesOn

LEMMA ListKeeps ==
    ASSUME LookupAssumption, LookupInv, NEW c \in Clients, NEW f \in {"NIST", "W3C"},
           NEW found \in SUBSET MatchesFor(c, f), Lists(c, f, found),
           UNCHANGED <<query, lookup, stubs, tables>>,
           nist' \in [memory : BOOLEAN, disk : {"none", "torn", "whole"}],
           nist'.memory => nist.memory \/ \A d \in Clients : Loads(d) => d = c /\ f = "NIST"
    PROVE  LookupInv'
<1>1. LookupTyped /\ f \in Fetchers /\ found \in SUBSET (Identifiers \cup {Stub})
  BY MatchesAre DEF LookupInv, Fetchers
<1> DEFINE j == BroughtTo(c, f, found)
<1>2. JobIs(c, f, j) /\ j \in Jobs /\ j.place = "list" /\ j.found = found
  BY <1>1, JobTurns, MovedFields
<1> HIDE DEF j
<1>3. JobSays(lookup[c].mode, lookup[c].key, f, j)
  BY <1>1, <1>2, PartsAreComplete
<1>4. LoadedOnce'
  <2>1. \A d \in Clients : Loads(d)' => Loads(d) /\ ~(d = c /\ f = "NIST")
    BY <1>1, <1>2 DEF Loads, InStage, JobIs, Fetchers
  <2> QED BY <2>1 DEF LookupInv, LoadedOnce
<1>5. stubs' \in (SUBSET Of("W3C")) \cup {NoRecord}
  BY <1>1 DEF LookupTyped
<1> QED BY <1>1, <1>2, <1>3, <1>4, <1>5, JobGoesOn

LEMMA NistKeeps ==
    ASSUME LookupAssumption, LookupInv, NEW c \in Clients,
           NistEnters(c) \/ NistUrl(c) \/ NistLoads(c) \/ NistFails(c)
    PROVE  LookupInv'
<1>1. /\ LookupTyped /\ nist \in [memory : BOOLEAN, disk : {"none", "torn", "whole"}]
      /\ MatchesFor(c, "NIST") \in SUBSET MatchesFor(c, "NIST")
      /\ {} \in SUBSET MatchesFor(c, "NIST") /\ LoadedOnce /\ "NIST" \in Fetchers
  BY DEF LookupInv, LookupTyped, Fetchers
<1>2. CASE NistEnters(c)
  <2>1. /\ AtPlace(c, "NIST", "lock") /\ ~Loading("NIST") /\ UNCHANGED <<query, lookup, stubs, tables>>
    BY <1>2 DEF NistEnters
  <2>2. \A d \in Clients : ~Loads(d)
    BY <2>1 DEF Loading, Loads, AtPlace
  <2>3. CASE Lists(c, "NIST", MatchesFor(c, "NIST")) /\ nist' = [nist EXCEPT !.memory = TRUE]
    <3>1. nist' \in [memory : BOOLEAN, disk : {"none", "torn", "whole"}]
      BY <1>1, <2>3
    <3> QED BY <1>1, <2>1, <2>2, <2>3, <3>1, ListKeeps
  <2>4. CASE ~nist.memory /\ JobGoes(c, "NIST", "url") /\ UNCHANGED nist
    <3> DEFINE j == MovedTo(c, "NIST", "url")
    <3>1. JobIs(c, "NIST", j) /\ j \in Jobs /\ j.place = "url"
      BY <1>1, <2>4, JobTurns, MovedFields DEF Places
    <3> HIDE DEF j
    <3>2. JobSays(lookup[c].mode, lookup[c].key, "NIST", j)
      BY <3>1 DEF JobSays
    <3>3. \A d \in Clients : Loads(d)' => d = c
      BY <1>1, <2>1, <2>2, <3>1 DEF Loads, InStage, JobIs
    <3>4. LoadedOnce'
      BY <2>4, <3>3 DEF LoadedOnce
    <3> QED BY <1>1, <2>1, <2>4, <3>1, <3>2, <3>4, JobGoesOn DEF LookupTyped
  <2> QED BY <1>2, <2>3, <2>4 DEF NistEnters
<1>3. CASE NistUrl(c)
  <2>1. Loads(c) /\ UNCHANGED <<query, lookup, nist, stubs, tables>>
    BY <1>3 DEF NistUrl, AtPlace, Loads, catalogues
  <2>2. CASE JobGoes(c, "NIST", "mods")
    BY <1>1, <2>1, <2>2, MoveKeeps DEF LookupTyped
  <2>3. CASE Lists(c, "NIST", {})
    BY <1>1, <2>1, <2>3, ListKeeps
  <2> QED BY <1>3, <2>2, <2>3 DEF NistUrl
<1>4. CASE NistLoads(c)
  <2>1. /\ Loads(c) /\ UNCHANGED <<query, lookup, stubs, tables>> /\ Lists(c, "NIST", MatchesFor(c, "NIST"))
        /\ nist' \in [memory : BOOLEAN, disk : {"none", "torn", "whole"}]
    BY <1>1, <1>4 DEF NistLoads, AtPlace, Loads, Written
  <2>2. \A d \in Clients : Loads(d) => d = c
    BY <1>1, <2>1 DEF LoadedOnce
  <2> QED BY <1>1, <2>1, <2>2, ListKeeps
<1>5. CASE NistFails(c)
  <2>1. UNCHANGED <<query, lookup, nist, stubs, tables>> /\ Lists(c, "NIST", {})
    BY <1>5 DEF NistFails, catalogues
  <2> QED BY <1>1, <2>1, ListKeeps
<1> QED BY <1>2, <1>3, <1>4, <1>5

\* The job that has read a page more.
PagedTo(here, list) == [here EXCEPT !.page = here.page + 1, !.found = list]

LEMMA W3CKeeps ==
    ASSUME LookupAssumption, LookupInv, NEW c \in Clients,
           W3CEnters(c) \/ W3CPage(c) \/ W3CPageRefused(c) \/ W3CDetails(c)
    PROVE  LookupInv'
<1>1. /\ LookupTyped /\ "W3C" \in Fetchers /\ stubs \in (SUBSET Of("W3C")) \cup {NoRecord}
      /\ nist \in [memory : BOOLEAN, disk : {"none", "torn", "whole"}]
      /\ \A d \in Clients : InStage(d, "fetch") =>
            JobSays(lookup[d].mode, lookup[d].key, "W3C", job[d]["W3C"])
  BY DEF LookupInv, LookupTyped, JobsSay, Fetchers
<1>2. CASE W3CEnters(c)
  <2>1. UNCHANGED <<query, lookup, nist, stubs, tables>> /\ AtPlace(c, "W3C", "lock")
    BY <1>2 DEF W3CEnters, catalogues
  <2>2. CASE JobGoes(c, "W3C", "details")
    BY <1>1, <2>1, <2>2, MoveKeeps
  <2>3. CASE JobGoes(c, "W3C", "page")
    <3> DEFINE j == MovedTo(c, "W3C", "page")
    <3>1. JobIs(c, "W3C", j) /\ j \in Jobs /\ j.place = "page" /\ j.found = job[c]["W3C"].found
      BY <1>1, <2>3, JobTurns, MovedFields DEF Places
    <3> HIDE DEF j
    <3>2. job[c]["W3C"].found = {}
      BY <1>1, <2>1 DEF AtPlace, JobSays
    <3>3. JobSays(lookup[c].mode, lookup[c].key, "W3C", j)
      BY <3>1, <3>2 DEF JobSays
    <3>4. LoadedOnce'
      BY <1>1, <2>1, <3>1, LoadsAside
    <3> QED BY <1>1, <2>1, <3>1, <3>3, <3>4, JobGoesOn
  <2> QED BY <1>2, <2>2, <2>3 DEF W3CEnters
<1>3. CASE W3CPage(c)
  <2> DEFINE here == job[c]["W3C"]
             list == here.found \cup ListPages[here.page]
  <2>1. /\ UNCHANGED <<query, lookup, nist, tables>> /\ AtPlace(c, "W3C", "page")
        /\ here \in Jobs /\ here.found \subseteq Of("W3C") /\ here.page \in 1..Len(ListPages)
    BY <1>1, <1>3, CallFields DEF W3CPage, AtPlace, JobSays
  <2>2. list \in SUBSET Of("W3C")
    BY <2>1, Tabled DEF Of
  <2>3. CASE JobGoes(c, "W3C", "details") /\ stubs' = list
    <3>1. stubs' \in (SUBSET Of("W3C")) \cup {NoRecord}
      BY <2>2, <2>3
    <3> QED BY <1>1, <2>1, <2>3, <3>1, MoveKeeps
  <2>4. CASE /\ here.page < Len(ListPages) /\ UNCHANGED stubs
             /\ job' = [job EXCEPT ![c]["W3C"] = [here EXCEPT !.page = here.page + 1, !.found = list]]
    <3> DEFINE j == PagedTo(here, list)
    <3>2. job' = [job EXCEPT ![c] = [job[c] EXCEPT !["W3C"] = j]]
      BY <1>1, <2>4, Zenon DEF PagedTo
    <3>5. Len(ListPages) \in Nat /\ list \in SUBSET (Identifiers \cup {Stub}) /\ here.place = "page"
      BY <2>1, <2>2, Tabled DEF AtPlace, Of
    <3> HIDE DEF list, here
    <3>1. j \in Jobs /\ j.place = "page" /\ j.found = list
      <4>1. here \in Jobs /\ here.page \in 1..Len(ListPages) /\ here.page < Len(ListPages)
        BY <2>1, <2>4
      <4>2. here.page + 1 \in 1..Len(ListPages)
        BY <3>5, <4>1
      <4> QED BY <3>5, <4>1, <4>2 DEF PagedTo, Jobs
    <3> HIDE DEF j
    <3>3. JobIs(c, "W3C", j)
      BY <1>1, <3>1, <3>2 DEF JobIs, LookupTyped
    <3>4. JobSays(lookup[c].mode, lookup[c].key, "W3C", j)
      BY <2>2, <3>1 DEF JobSays
    <3>6. LoadedOnce'
      BY <1>1, <2>1, <3>1, <3>3, LoadsAside
    <3> QED BY <1>1, <2>1, <2>4, <3>1, <3>3, <3>4, <3>6, JobGoesOn
  <2> QED BY <1>3, <2>3, <2>4 DEF W3CPage
<1>4. CASE W3CPageRefused(c)
  <2>1. job[c]["W3C"].found \subseteq Of("W3C")
    BY <1>1, <1>4 DEF W3CPageRefused, AtPlace, JobSays
  <2> QED BY <1>1, <1>4, <2>1, MoveKeeps DEF W3CPageRefused
<1>5. CASE W3CDetails(c)
  <2>1. PICK found \in SUBSET MatchesFor(c, "W3C") : Lists(c, "W3C", found)
    BY <1>5 DEF W3CDetails
  <2> QED BY <1>1, <1>5, <2>1, ListKeeps DEF W3CDetails, catalogues
<1> QED BY <1>2, <1>3, <1>4, <1>5

LEMMA FetchingKeeps ==
    ASSUME LookupAssumption, LookupInv, NEW c \in Clients, Fetching(c)
    PROVE  LookupInv'
<1>1. CASE Requests(c)
  BY <1>1, RequestsKeep
<1>2. ASSUME NEW f \in {"NIST", "W3C"}, Crashes(c, f)
      PROVE  LookupInv'
  <2>1. JobGoes(c, f, "crashed") /\ UNCHANGED <<query, lookup, nist, stubs, tables>>
    BY <1>2 DEF Crashes, catalogues
  <2>2. stubs' \in (SUBSET Of("W3C")) \cup {NoRecord}
    BY <2>1 DEF LookupInv, LookupTyped
  <2> QED BY <2>1, <2>2, MoveKeeps
<1>3. CASE NistEnters(c) \/ NistUrl(c) \/ NistLoads(c) \/ NistFails(c)
  BY <1>3, NistKeeps
<1>4. CASE W3CEnters(c) \/ W3CPage(c) \/ W3CPageRefused(c) \/ W3CDetails(c)
  BY <1>4, W3CKeeps
<1> QED BY <1>1, <1>2, <1>3, <1>4 DEF Fetching

-----------------------------------------------------------------------------
(* Steps of the tools.                                                          *)

\* The fetchers a call asks: all of a walk, or one.
LEMMA WalkAsksAll ==
    /\ Walk \in Seq(Fetchers) /\ Walk # <<>> /\ {Walk[k] : k \in DOMAIN Walk} = Fetchers
    /\ \A f \in Fetchers : /\ <<f>> \in Seq(Fetchers) /\ <<f>> # <<>>
                           /\ {<<f>>[k] : k \in DOMAIN <<f>>} = {f}
<1>1. DOMAIN Walk = 1..6
  BY DEF Walk
<1>2. {Walk[k] : k \in DOMAIN Walk} = Fetchers
  <2>1. \A k \in 1..6 : k \in {1, 2, 3, 4, 5, 6}
    OBVIOUS
  <2>2. {1, 2, 3, 4, 5, 6} \subseteq 1..6
    OBVIOUS
  <2> QED BY <1>1, <2>1, <2>2 DEF Walk, Fetchers
<1>3. Walk \in Seq(Fetchers) /\ Walk # <<>>
  BY DEF Walk, Fetchers
<1>4. ASSUME NEW f \in Fetchers
      PROVE  /\ <<f>> \in Seq(Fetchers) /\ <<f>> # <<>>
             /\ {<<f>>[k] : k \in DOMAIN <<f>>} = {f}
  OBVIOUS
<1> QED BY <1>2, <1>3, <1>4

\* A call that asks nothing goes on, and the tables are as they were.
LEMMA SaysKeeps ==
    ASSUME LookupInv, NEW c \in Clients, NEW q \in Calls, Says(c, q), q.stage # "fetch",
           UNCHANGED <<query, catalogues, tables>>, CallKnows(q, query[c])
    PROVE  LookupInv'
<1>1. /\ lookup' \in [Clients -> Calls] /\ job' \in [Clients -> [Fetchers -> Jobs]]
      /\ JobsSay' /\ CallsKnow' /\ LoadedOnce'
  BY CallGoesOn DEF LookupInv
<1>2. LookupTyped' /\ SearchesFit' /\ AliasesFit'
  BY <1>1 DEF LookupInv, LookupTyped, SearchesFit, AliasesFit, catalogues, tables
<1> QED BY <1>1, <1>2 DEF LookupInv

LEMMA SearchAsks ==
    ASSUME LookupAssumption, LookupInv, NEW c \in Clients, NEW key \in Keys, NEW asks \in Seq(Fetchers),
           InStage(c, "start"), Ask(c, "search", key, asks), UNCHANGED <<query, catalogues, tables>>,
           query[c].tool # "get", query[c].tool = "search" => key = query[c].text,
           {asks[k] : k \in DOMAIN asks} = Asking(IF query[c].tool = "search" THEN query[c].body ELSE AllBodies)
    PROVE  LookupInv'
<1>1. ASSUME NEW q \in Calls, q.stage = "fetch", q.mode = "search", q.key = key, q.asks = asks,
             q.answer = "none"
      PROVE  CallKnows(q, query[c])
  <2>1. AskedBy(q) = {asks[k] : k \in DOMAIN asks}
    BY <1>1 DEF AskedBy
  <2> QED BY <1>1, <2>1 DEF CallKnows, Searching
<1> QED BY <1>1, AskedAnew

LEMMA GetAsks ==
    ASSUME LookupAssumption, LookupInv, NEW c \in Clients, NEW key \in Keys,
           InStage(c, "start"), AskFor(c, key), UNCHANGED <<query, catalogues, tables>>,
           query[c].tool # "search", query[c].tool = "get" => key \notin Synced, Canonical(key) = key
    PROVE  LookupInv'
<1> DEFINE asks == IF LocalId[key] # NoRecord THEN <<Fetcher[LocalId[key]]>> ELSE Walk
<1>1. Ask(c, "get", key, asks)
  BY DEF AskFor
<1>2. LocalId[key] # NoRecord => LocalId[key] = key /\ Fetcher[key] \in Fetchers
  BY Tabled, CanonicalSettles
<1>3. /\ asks \in Seq(Fetchers) /\ asks # <<>>
      /\ LocalId[key] # NoRecord => asks = <<Fetcher[key]>>
      /\ LocalId[key] = NoRecord => {asks[k] : k \in DOMAIN asks} = Fetchers
  BY <1>2, WalkAsksAll
<1> HIDE DEF asks
<1>4. ASSUME NEW q \in Calls, q.stage = "fetch", q.mode = "get", q.key = key, q.asks = asks,
             q.answer = "none"
      PROVE  CallKnows(q, query[c])
  <2>1. LocalId[key] = NoRecord => AskedBy(q) = Fetchers
    BY <1>3, <1>4 DEF AskedBy
  <2>2. "ETSI" \in Fetchers
    BY DEF Fetchers
  <2> QED BY <1>3, <1>4, <2>1, <2>2 DEF CallKnows, Walking
<1> QED BY <1>1, <1>3, <1>4, AskedAnew

LEMMA SearchStartsKeeps ==
    ASSUME LookupAssumption, LookupInv, NEW c \in Clients, SearchStarts(c)
    PROVE  LookupInv'
<1> DEFINE w == query[c]
<1>1. /\ LookupTyped /\ w.text \in Keys /\ w.body \in Fetchers \cup {AllBodies}
      /\ InStage(c, "start") /\ w.tool = "search" /\ UNCHANGED <<query, catalogues, tables>>
  BY WishFields DEF LookupInv, SearchStarts
<1>2. CASE Says(c, [AnswerWith(c, "cached") EXCEPT !.got = UNION {s.found : s \in Kept(w.text, w.body)}])
  <2> DEFINE got == UNION {s.found : s \in Kept(w.text, w.body)}
             q == [AnswerWith(c, "cached") EXCEPT !.got = got]
  <2>1. got \in SUBSET (Identifiers \cup {Stub})
    BY <1>1 DEF Kept, LookupTyped, SearchRows
  <2> HIDE DEF got
  <2>2. q \in Calls /\ q.stage = "done" /\ q.answer = "cached"
    BY <1>1, <2>1, CallFields DEF AnswerWith, Calls, LookupStages, Answers
  <2> HIDE DEF q
  <2>3. Says(c, q)
    BY <1>2 DEF q, got
  <2> QED BY <1>1, <2>2, <2>3, SaysKeeps DEF CallKnows
<1>3. CASE Ask(c, "search", w.text, IF w.body = AllBodies THEN Walk ELSE <<w.body>>)
  <2> DEFINE asks == IF w.body = AllBodies THEN Walk ELSE <<w.body>>
  <2>1. asks \in Seq(Fetchers) /\ {asks[k] : k \in DOMAIN asks} = Asking(w.body)
    BY <1>1, WalkAsksAll DEF Asking
  <2> HIDE DEF asks
  <2>2. Ask(c, "search", w.text, asks)
    BY <1>3 DEF asks
  <2> QED BY <1>1, <2>1, <2>2, SearchAsks
<1> QED BY <1>2, <1>3 DEF SearchStarts

\* A call is answered from the row of the key its text leads to.
RowFound(c, key) == [AnswerWith(c, "found") EXCEPT !.key = key, !.got = {records[key]}]

LEMMA RowAnswers ==
    ASSUME LookupAssumption, LookupInv, NEW c \in Clients, NEW key \in Keys, records[key] # NoRecord,
           Says(c, RowFound(c, key)),
           UNCHANGED <<query, catalogues, tables>>
    PROVE  LookupInv'
<1> DEFINE q == RowFound(c, key)
<1>1. LookupTyped /\ {records[key]} \in SUBSET (Identifiers \cup {Stub})
  BY DEF LookupInv, LookupTyped
<1>2. q \in Calls /\ q.stage = "done" /\ q.answer = "found"
  BY <1>1, CallFields DEF RowFound, AnswerWith, Calls, LookupStages, Answers
<1> HIDE DEF q
<1>3. Says(c, q)
  BY DEF q
<1> QED BY <1>2, <1>3, SaysKeeps DEF CallKnows

LEMMA ResolveStartsKeeps ==
    ASSUME LookupAssumption, LookupInv, NEW c \in Clients, ResolveStarts(c)
    PROVE  LookupInv'
<1> DEFINE text == query[c].text
<1>1. /\ LookupTyped /\ AliasesFit /\ text \in Keys
      /\ InStage(c, "start") /\ query[c].tool = "resolve" /\ UNCHANGED <<query, catalogues, tables>>
  BY WishFields DEF LookupInv, ResolveStarts
<1>2. CASE /\ records[KeyOf(text)] # NoRecord
           /\ Says(c, [AnswerWith(c, "found") EXCEPT !.key = KeyOf(text), !.got = {records[KeyOf(text)]}])
  <2> DEFINE key == KeyOf(text)
  <2>1. key \in Keys
    BY <1>1, KeyOfSettles
  <2> HIDE DEF key
  <2>2. /\ records[key] # NoRecord /\ UNCHANGED <<query, catalogues, tables>>
        /\ Says(c, RowFound(c, key))
    BY <1>1, <1>2 DEF key, RowFound
  <2> QED BY <2>1, <2>2, RowAnswers
<1>3. CASE LocalId[text] # NoRecord /\ AskFor(c, LocalId[text])
  <2>1. LocalId[text] \in Keys /\ Canonical(LocalId[text]) = LocalId[text]
    BY <1>1, <1>3, CanonicalSettles, Tabled
  <2> QED BY <1>1, <1>3, <2>1, GetAsks
<1>4. CASE SearchAll(c, text)
  BY <1>1, <1>4, WalkAsksAll, SearchAsks DEF SearchAll, Asking
<1> QED BY <1>2, <1>3, <1>4 DEF ResolveStarts

LEMMA GetStartsKeeps ==
    ASSUME LookupAssumption, LookupInv, NEW c \in Clients, GetStarts(c)
    PROVE  LookupInv'
<1> DEFINE key == KeyOf(query[c].text)
<1>1. /\ LookupTyped /\ AliasesFit /\ query[c].text \in Keys
      /\ InStage(c, "start") /\ query[c].tool = "get" /\ UNCHANGED <<query, catalogues, tables>>
  BY WishFields DEF LookupInv, GetStarts
<1>2. key \in Keys /\ Settled(key)
  BY <1>1, KeyOfSettles
<1> HIDE DEF key
<1>3. CASE records[key] # NoRecord /\ Says(c, [AnswerWith(c, "found") EXCEPT !.key = key, !.got = {records[key]}])
  <2>1. Says(c, RowFound(c, key))
    BY <1>3 DEF RowFound
  <2> QED BY <1>1, <1>2, <1>3, <2>1, RowAnswers
<1>4. CASE records[key] = NoRecord /\ AskFor(c, key)
  <2>1. key \notin Synced
    BY <1>1, <1>2, <1>4, Tabled DEF LookupTyped
  <2> QED BY <1>1, <1>2, <1>4, <2>1, GetAsks DEF Settled
<1> QED BY <1>3, <1>4 DEF GetStarts, key

\* The fetchers of a search have all ended: what it is told, and that it may be
\* kept when nobody refused.
LEMMA SearchedKeeps ==
    ASSUME LookupAssumption, LookupInv, NEW c \in Clients, Searched(c)
    PROVE  LookupInv'
<1> DEFINE got == UNION {job[c][f].found : f \in Those(c, "list")}
           failed == Those(c, "refused")
           key == lookup[c].key
<1>1. /\ LookupTyped /\ InStage(c, "fetch") /\ lookup[c].mode = "search" /\ key \in Keys
      /\ \A f \in Asked(c) : job[c][f].place \in Ended
      /\ UNCHANGED <<query, catalogues, tables>>
  BY CallFields DEF LookupInv, Searched, Collect
<1>2. CallKnows(lookup[c], query[c]) /\ Searching(lookup[c], query[c]) /\ lookup[c].answer = "none"
  BY <1>1 DEF LookupInv, CallsKnow, CallKnows, InStage
<1>3. Asked(c) = AskedBy(lookup[c]) /\ Asked(c) \subseteq Fetchers
  BY <1>1, CallFields DEF Asked, AskedBy
<1>4. \A f \in Asked(c) : JobSays("search", key, f, job[c][f])
  BY <1>1, <1>3 DEF LookupInv, JobsSay
<1>5. \A f \in Those(c, "list") : Complete(job[c][f].found, key, {f})
  BY <1>4 DEF Those, JobSays
<1>6. got \subseteq Hits[key] /\ got \in SUBSET Identifiers /\ got \in SUBSET (Identifiers \cup {Stub})
  BY <1>1, <1>5, Tabled DEF Complete
<1>7. failed \in SUBSET Fetchers
  BY <1>3 DEF Those
<1>8. ASSUME failed = {}
      PROVE  Complete(got, key, Asked(c))
  <2>1. ASSUME NEW f \in Asked(c)
        PROVE  Hits[key] \cap Of(f) \cap (Synced \cup Of("ETSI")) \subseteq got
    <3>1. CASE job[c][f].place = "list"
      <4>1. f \in Those(c, "list")
        BY <2>1, <3>1 DEF Those
      <4>2. Complete(job[c][f].found, key, {f})
        BY <1>5, <4>1
      <4> QED BY <4>1, <4>2 DEF Complete
    <3>2. CASE job[c][f].place = "crashed"
      <4>1. f \in Fetchers /\ f \notin {"ETSI", "Relaton", "local"}
        BY <1>3, <1>4, <2>1, <3>2 DEF JobSays
      <4> QED BY <4>1, SyncedAside
    <3>3. job[c][f].place # "refused"
      BY <1>8, <2>1 DEF Those
    <3> QED BY <1>1, <2>1, <3>1, <3>2, <3>3 DEF Ended
  <2> QED BY <1>6, <2>1 DEF Complete
<1> DEFINE state == [lookup[c] EXCEPT !.got = got, !.failed = failed]
<1> HIDE DEF got, failed
<1>9. CASE Says(c, AnswerWith(c, "raised"))
  <2> DEFINE q == AnswerWith(c, "raised")
  <2>1. q \in Calls /\ q.stage = "done" /\ q.answer = "raised"
    BY <1>1, CallFields DEF AnswerWith, Calls, LookupStages, Answers
  <2> HIDE DEF q
  <2>2. Says(c, q)
    BY <1>9 DEF q
  <2> QED BY <1>1, <2>1, <2>2, SaysKeeps DEF CallKnows
<1>10. CASE query[c].tool = "search" /\ failed = {} /\ Says(c, [state EXCEPT !.stage = "store"])
  <2> DEFINE q == [state EXCEPT !.stage = "store"]
  <2>1. /\ q \in Calls /\ q.stage = "store" /\ q.got = got /\ q.answer = lookup[c].answer
    BY <1>1, <1>6, <1>7, CallFields DEF Calls, LookupStages
  <2> HIDE DEF q, state
  <2>2. Complete(got, query[c].text, Asking(query[c].body))
    BY <1>2, <1>3, <1>8, <1>10 DEF Searching
  <2>3. Says(c, q) /\ CallKnows(q, query[c])
    BY <1>2, <1>10, <2>1, <2>2 DEF q, CallKnows
  <2> QED BY <1>1, <2>1, <2>3, SaysKeeps
<1>11. ASSUME NEW answer \in {"partial", "null", "ambiguous"},
              Says(c, [state EXCEPT !.stage = "done", !.answer = answer])
       PROVE  LookupInv'
  <2> DEFINE q == [state EXCEPT !.stage = "done", !.answer = answer]
  <2>1. q \in Calls /\ q.stage = "done" /\ q.answer = answer
    BY <1>1, <1>6, <1>7, CallFields DEF Calls, LookupStages, Answers
  <2> HIDE DEF q, state
  <2>2. Says(c, q)
    BY <1>11 DEF q
  <2> QED BY <1>1, <2>1, <2>2, SaysKeeps DEF CallKnows
<1>12. CASE Cardinality(got) = 1 /\ Says(c, [state EXCEPT !.stage = "alias", !.key = CHOOSE i \in got : TRUE])
  <2> DEFINE i == CHOOSE i \in got : TRUE
             q == [state EXCEPT !.stage = "alias", !.key = i]
  <2>1. got # {}
    BY <1>12, FS_EmptySet
  <2>2. i \in Identifiers
    BY <1>6, <2>1
  <2> HIDE DEF i
  <2>3. i \in Keys /\ Settled(i)
    BY <2>2, Tabled, CanonicalSettles
  <2>4. q \in Calls /\ q.stage = "alias" /\ q.got = got /\ q.key = i /\ q.answer = lookup[c].answer
    BY <1>1, <1>6, <1>7, <2>3, CallFields DEF Calls, LookupStages
  <2> HIDE DEF q, state
  <2>5. Says(c, q) /\ CallKnows(q, query[c])
    BY <1>2, <1>12, <2>1, <2>3, <2>4 DEF q, i, CallKnows
  <2> QED BY <1>1, <2>4, <2>5, SaysKeeps
<1> QED
  <2>1. \/ Says(c, AnswerWith(c, "raised"))
        \/ query[c].tool = "search" /\ failed = {} /\ Says(c, [state EXCEPT !.stage = "store"])
        \/ Says(c, [state EXCEPT !.stage = "done", !.answer = "partial"])
        \/ Says(c, [state EXCEPT !.stage = "done", !.answer = "null"])
        \/ Says(c, [state EXCEPT !.stage = "done", !.answer = "ambiguous"])
        \/ Cardinality(got) = 1 /\ Says(c, [state EXCEPT !.stage = "alias", !.key = CHOOSE i \in got : TRUE])
    BY DEF Searched, Collect, got, failed
  <2> QED BY <1>9, <1>10, <1>11, <1>12, <2>1

\* The fetcher of a get has ended and brought nothing: what it has said is known,
\* or it refused.
LEMMA HeardNothing ==
    ASSUME LookupAssumption, LookupInv, NEW c \in Clients, InStage(c, "fetch"), lookup[c].mode = "get",
           NEW f \in Fetchers, job[c][f].place \in Ended, job[c][f].place # "crashed", job[c][f].found = {}
    PROVE  /\ f = "ETSI" => job[c][f].place = "refused" \/ Hits[lookup[c].key] \cap Of("ETSI") = {}
           /\ f = "Relaton" => lookup[c].key \notin Of("Relaton")
<1>1. JobSays("get", lookup[c].key, f, job[c][f])
  BY DEF LookupInv, JobsSay
<1> QED BY <1>1 DEF JobSays, Ended

LEMMA HeadAndTail ==
    ASSUME NEW S, NEW s \in Seq(S), s # <<>>
    PROVE  {s[k] : k \in DOMAIN s} = {Head(s)} \cup {Tail(s)[k] : k \in DOMAIN Tail(s)}
<1>1. /\ Len(s) \in Nat \ {0} /\ DOMAIN s = 1..Len(s) /\ Head(s) = s[1]
      /\ DOMAIN Tail(s) = 1..(Len(s) - 1) /\ \A k \in 1..(Len(s) - 1) : Tail(s)[k] = s[k + 1]
  OBVIOUS
<1>2. \A k \in 1..Len(s) : k = 1 \/ (k - 1 \in 1..(Len(s) - 1) /\ (k - 1) + 1 = k)
  BY <1>1
<1>3. \A k \in 1..(Len(s) - 1) : k + 1 \in 1..Len(s)
  BY <1>1
<1>4. ASSUME NEW k \in DOMAIN s
      PROVE  s[k] \in {Head(s)} \cup {Tail(s)[i] : i \in DOMAIN Tail(s)}
  <2>1. CASE k = 1
    BY <1>1, <2>1
  <2>2. CASE k # 1
    <3> DEFINE i == k - 1
    <3>1. i \in DOMAIN Tail(s) /\ i + 1 = k
      BY <1>1, <1>2, <2>2
    <3>2. Tail(s)[i] = s[i + 1]
      BY <1>1, <3>1
    <3> HIDE DEF i
    <3>3. Tail(s)[i] = s[k]
      BY <3>1, <3>2
    <3> QED BY <3>1, <3>3
  <2> QED BY <2>1, <2>2
<1>5. \A k \in DOMAIN Tail(s) : Tail(s)[k] \in {s[i] : i \in DOMAIN s}
  BY <1>1, <1>3
<1>6. Head(s) \in {s[i] : i \in DOMAIN s}
  BY <1>1
<1> QED BY <1>4, <1>5, <1>6, SMTT(30)

\* The call that asks the next of its fetchers.
NextAsked(c, rest, failed) == [lookup[c] EXCEPT !.asks = rest, !.failed = failed]

\* A get goes on: it takes what was found, asks the next, or ends with an answer
\* that what it has heard allows.
LEMMA GotKeeps ==
    ASSUME LookupAssumption, LookupInv, NEW c \in Clients, Got(c)
    PROVE  LookupInv'
<1> DEFINE q0 == lookup[c]
           w == query[c]
           f == Head(q0.asks)
           rest == Tail(q0.asks)
           here == job[c][f]
           failed == q0.failed \cup Refused(c)
<1>1. /\ LookupTyped /\ InStage(c, "fetch") /\ q0.mode = "get" /\ q0.key \in Keys /\ q0.asks \in Seq(Fetchers)
      /\ here.place \in Ended /\ UNCHANGED <<query, catalogues, tables>>
  BY CallFields DEF LookupInv, Got, Take
<1>2. Walking(q0, w) /\ q0.answer = "none" /\ q0.stage = "fetch"
  BY <1>1 DEF LookupInv, CallsKnow, CallKnows, InStage
<1>3. f \in Fetchers /\ rest \in Seq(Fetchers)
  BY <1>1, <1>2 DEF Walking
<1>4. AskedBy(q0) = {f} \cup {rest[k] : k \in DOMAIN rest}
  BY <1>1, <1>2, HeadAndTail DEF AskedBy, Walking
<1>5. /\ failed \in SUBSET Fetchers /\ q0.failed \subseteq failed /\ here.found \in SUBSET (Identifiers \cup {Stub})
      /\ here.place = "refused" => f \in failed
  BY <1>1, <1>3, CallFields DEF Refused
<1>6. LocalId[q0.key] # NoRecord =>
         /\ LocalId[q0.key] = q0.key /\ q0.key \in Identifiers /\ q0.asks = <<Fetcher[q0.key]>>
         /\ f = Fetcher[q0.key] /\ rest = <<>>
  <2>1. ASSUME LocalId[q0.key] # NoRecord, NEW g, q0.asks = <<g>>
        PROVE  f = g /\ rest = <<>>
    BY <2>1
  <2> QED BY <1>1, <1>2, <2>1, CanonicalSettles DEF Walking
<1>7. here.place # "crashed" /\ here.found = {} /\ LocalId[q0.key] = NoRecord
         /\ "ETSI" \notin {rest[k] : k \in DOMAIN rest} =>
      "ETSI" \in failed \/ Hits[q0.key] \cap Of("ETSI") = {}
  BY <1>1, <1>2, <1>3, <1>4, <1>5, HeardNothing DEF Walking
<1>8. CASE Says(c, AnswerWith(c, "raised"))
  <2> DEFINE q == AnswerWith(c, "raised")
  <2>1. q \in Calls /\ q.stage = "done" /\ q.answer = "raised"
    BY <1>1, CallFields DEF AnswerWith, Calls, LookupStages, Answers
  <2> HIDE DEF q
  <2>2. Says(c, q)
    BY <1>8 DEF q
  <2> QED BY <1>1, <2>1, <2>2, SaysKeeps DEF CallKnows
<1>9. ASSUME NEW stage \in {"row", "alias"}, here.found # {},
             Says(c, [lookup[c] EXCEPT !.stage = stage, !.got = here.found])
      PROVE  LookupInv'
  <2> DEFINE found == here.found
             q == [lookup[c] EXCEPT !.stage = stage, !.got = found]
  <2> HIDE DEF found
  <2>1. /\ q \in Calls /\ q.stage = stage /\ q.got = found /\ q.key = q0.key /\ q.answer = q0.answer
    BY <1>1, <1>5, CallFields DEF Calls, LookupStages, found
  <2> HIDE DEF q
  <2>2. Settled(q0.key) /\ found # {}
    BY <1>2, <1>9 DEF Walking, Settled, found
  <2>3. Says(c, q) /\ CallKnows(q, query[c])
    BY <1>2, <1>9, <2>1, <2>2 DEF q, found, CallKnows
  <2> QED BY <1>1, <2>1, <2>3, SaysKeeps
<1>10. ASSUME NEW answer \in {"not_found", "null", "upstream_error", "warned"},
              answer = "not_found" => /\ failed = {} /\ w.tool = "get" /\ rest = <<>>
                                      /\ here.place # "crashed" /\ here.found = {},
              Says(c, [AnswerWith(c, answer) EXCEPT !.failed = failed])
       PROVE  LookupInv'
  <2> DEFINE q == [AnswerWith(c, answer) EXCEPT !.failed = failed]
  <2> HIDE DEF failed
  <2>1. /\ q \in Calls /\ q.stage = "done" /\ q.answer = answer /\ q.key = q0.key
    BY <1>1, <1>5, CallFields DEF AnswerWith, Calls, LookupStages, Answers
  <2> HIDE DEF q
  <2>2. ASSUME answer = "not_found"
        PROVE  MayBeAbsent(q0.key)
    <3> DEFINE key == q0.key
    <3>1. /\ failed = {} /\ key \notin Synced /\ rest = <<>>
          /\ here.place # "crashed" /\ here.place # "refused" /\ here.found = {}
      BY <1>2, <1>5, <1>10, <2>2 DEF Walking
    <3>2. /\ f = "ETSI" => Hits[key] \cap Of("ETSI") = {}
          /\ f = "Relaton" => key \notin Of("Relaton")
      BY <1>1, <1>3, <3>1, HeardNothing
    <3>3. CASE LocalId[key] # NoRecord
      BY <1>6, <3>1, <3>2, <3>3 DEF MayBeAbsent, Of
    <3>4. CASE LocalId[key] = NoRecord
      <4>1. {rest[k] : k \in DOMAIN rest} = {}
        BY <3>1
      <4> QED BY <1>7, <3>1, <3>4, <4>1 DEF MayBeAbsent
    <3> QED BY <3>3, <3>4
  <2>3. Says(c, q) /\ CallKnows(q, query[c])
    BY <1>10, <2>1, <2>2 DEF q, CallKnows
  <2> QED BY <1>1, <2>1, <2>3, SaysKeeps
<1>11. CASE /\ here.place # "crashed" /\ here.found = {} /\ rest # <<>>
            /\ lookup' = [lookup EXCEPT ![c].asks = rest, ![c].failed = failed]
            /\ job' = [job EXCEPT ![c][Head(rest)] = FirstPlace("get", Head(rest))]
  <2> DEFINE q == NextAsked(c, rest, failed)
             g == Head(rest)
             j == FirstPlace("get", g)
  <2>1. g \in Fetchers /\ lookup \in [Clients -> Calls] /\ job \in [Clients -> [Fetchers -> Jobs]]
    BY <1>1, <1>3, <1>11 DEF LookupTyped
  <2>2. lookup' = [lookup EXCEPT ![c] = q] /\ job' = [job EXCEPT ![c] = [job[c] EXCEPT ![g] = j]]
    BY <1>11, <2>1 DEF NextAsked
  <2> HIDE DEF rest, failed
  <2>3. /\ q \in Calls /\ q.stage = "fetch" /\ q.mode = "get" /\ q.key = q0.key /\ q.asks = rest
        /\ q.failed = failed /\ q.answer = "none"
    BY <1>1, <1>2, <1>3, <1>5, CallFields DEF NextAsked, Calls
  <2> HIDE DEF q
  <2>4. j \in Jobs /\ j.place \in {"ask", "lock"} /\ j.found = {}
    <3>1. 1 \in 1..Len(ListPages)
      BY Tabled
    <3> QED BY <3>1 DEF FirstPlace, NotAsked, Jobs, Places
  <2> HIDE DEF j, g
  <2>5. /\ lookup' \in [Clients -> Calls] /\ lookup'[c] = q /\ \A d \in Clients : d # c => lookup'[d] = lookup[d]
        /\ JobIs(c, g, j)
    BY <2>1, <2>2, <2>3, <2>4 DEF JobIs
  <2>6. Walking(q, w)
    <3>1. LocalId[q0.key] = NoRecord
      BY <1>6, <1>11
    <3>2. AskedBy(q) = {rest[k] : k \in DOMAIN rest}
      BY <2>3 DEF AskedBy
    <3> QED BY <1>2, <1>7, <1>11, <2>3, <3>1, <3>2 DEF Walking
  <2>7. CallsKnow'
    BY <1>1, <2>3, <2>5, <2>6 DEF LookupInv, CallsKnow, CallKnows
  <2>8. JobsSay'
    <3>1. ASSUME NEW d \in Clients, InStage(d, "fetch")', NEW h \in Fetchers
          PROVE  JobSays(lookup'[d].mode, lookup'[d].key, h, job'[d][h])
      <4>1. InStage(d, "fetch") /\ lookup'[d].mode = lookup[d].mode /\ lookup'[d].key = lookup[d].key
        BY <1>1, <2>3, <2>5, <3>1 DEF InStage
      <4>2. CASE d = c /\ h = g
        BY <2>4, <2>5, <4>2 DEF JobIs, JobSays
      <4>3. CASE d # c \/ h # g
        BY <2>5, <4>1, <4>3 DEF JobIs, LookupInv, JobsSay
      <4> QED BY <4>2, <4>3
    <3> QED BY <3>1 DEF JobsSay
  <2>9. LoadedOnce'
    <3>1. \A d \in Clients : InStage(d, "fetch")' => InStage(d, "fetch")
      BY <1>1, <2>5 DEF InStage
    <3>2. \A d \in Clients : Loads(d)' => Loads(d)
      BY <2>4, <2>5, <3>1 DEF Loads, JobIs, Fetchers
    <3> QED BY <1>1, <3>2, LoadsShrink DEF LookupInv, catalogues
  <2>10. LookupTyped' /\ SearchesFit' /\ AliasesFit'
    BY <1>1, <2>5 DEF LookupInv, LookupTyped, JobIs, SearchesFit, AliasesFit, catalogues, tables
  <2> QED BY <2>7, <2>8, <2>9, <2>10 DEF LookupInv
<1> QED
  <2>1. \/ Says(c, AnswerWith(c, "raised"))
        \/ here.found # {} /\ Says(c, [lookup[c] EXCEPT !.stage = "row", !.got = here.found])
        \/ here.found # {} /\ Says(c, [lookup[c] EXCEPT !.stage = "alias", !.got = here.found])
        \/ /\ here.place # "crashed" /\ here.found = {} /\ rest # <<>>
           /\ lookup' = [lookup EXCEPT ![c].asks = rest, ![c].failed = failed]
           /\ job' = [job EXCEPT ![c][Head(rest)] = FirstPlace("get", Head(rest))]
        \/ /\ failed = {} /\ w.tool = "get" /\ rest = <<>> /\ here.place # "crashed" /\ here.found = {}
           /\ Says(c, [AnswerWith(c, "not_found") EXCEPT !.failed = failed])
        \/ Says(c, [AnswerWith(c, "null") EXCEPT !.failed = failed])
        \/ Says(c, [AnswerWith(c, "upstream_error") EXCEPT !.failed = failed])
        \/ Says(c, [AnswerWith(c, "warned") EXCEPT !.failed = failed])
    BY DEF Got, Take
  <2> HIDE DEF f, rest, here, failed
  <2>2. CASE \/ Says(c, AnswerWith(c, "raised"))
             \/ here.found # {} /\ Says(c, [lookup[c] EXCEPT !.stage = "row", !.got = here.found])
             \/ here.found # {} /\ Says(c, [lookup[c] EXCEPT !.stage = "alias", !.got = here.found])
    BY <1>8, <1>9, <2>2
  <2>3. CASE /\ failed = {} /\ w.tool = "get" /\ rest = <<>> /\ here.place # "crashed" /\ here.found = {}
             /\ Says(c, [AnswerWith(c, "not_found") EXCEPT !.failed = failed])
    BY <1>10, <2>3
  <2>4. ASSUME NEW answer \in {"null", "upstream_error", "warned"},
               Says(c, [AnswerWith(c, answer) EXCEPT !.failed = failed])
        PROVE  LookupInv'
    BY <1>10, <2>4
  <2> HIDE DEF q0, w
  <2> QED BY <1>11, <2>1, <2>2, <2>3, <2>4, ZenonT(30)

-----------------------------------------------------------------------------
(* What the tools store, what expires, and a restart.                           *)

LEMMA StoreSearchKeeps ==
    ASSUME LookupAssumption, LookupInv, NEW c \in Clients, StoreSearch(c)
    PROVE  LookupInv'
<1> DEFINE w == query[c]
           q == AnswerWith(c, "complete")
           new == [text |-> w.text, body |-> w.body, found |-> lookup[c].got]
<1>1. /\ LookupTyped /\ InStage(c, "store") /\ Says(c, q) /\ UNCHANGED <<query, catalogues, records, alias>>
      /\ searches' = (searches \ Kept(w.text, w.body)) \cup {new}
  BY DEF LookupInv, StoreSearch
<1>2. Complete(lookup[c].got, w.text, Asking(w.body))
  BY <1>1 DEF LookupInv, CallsKnow, CallKnows, InStage
<1>3. new \in SearchRows /\ new.text = w.text /\ new.body = w.body /\ new.found = lookup[c].got
  BY <1>1, <1>2, WishFields, Tabled DEF Complete, SearchRows
<1>4. q \in Calls /\ q.stage = "done" /\ q.answer = "complete"
  BY <1>1, CallFields DEF AnswerWith, Calls, LookupStages, Answers
<1> HIDE DEF q, new
<1>5. /\ lookup' \in [Clients -> Calls] /\ job' \in [Clients -> [Fetchers -> Jobs]]
      /\ JobsSay' /\ CallsKnow' /\ LoadedOnce'
  <2>1. CallKnows(q, query[c])
    BY <1>4 DEF CallKnows
  <2> QED BY <1>1, <1>4, <2>1, CallGoesOn DEF LookupInv
<1>6. searches' \subseteq SearchRows
  BY <1>1, <1>3 DEF LookupTyped
<1>7. SearchesFit'
  <2>1. \A s \in searches' : s = new \/ (s \in searches /\ ~(s.text = w.text /\ s.body = w.body))
    BY <1>1 DEF Kept
  <2>2. \A s, t \in searches' : s.text = t.text /\ s.body = t.body => s = t
    BY <1>3, <2>1 DEF LookupInv, SearchesFit
  <2>3. \A s \in searches' : Complete(s.found, s.text, Asking(s.body))
    BY <1>2, <1>3, <2>1 DEF LookupInv, SearchesFit
  <2> QED BY <2>2, <2>3 DEF SearchesFit
<1>8. LookupTyped' /\ AliasesFit'
  BY <1>1, <1>5, <1>6 DEF LookupInv, LookupTyped, AliasesFit, catalogues
<1> QED BY <1>5, <1>7, <1>8 DEF LookupInv

LEMMA StoreAliasKeeps ==
    ASSUME LookupAssumption, LookupInv, NEW c \in Clients, StoreAlias(c)
    PROVE  LookupInv'
<1> DEFINE q == IF query[c].tool = "resolve" THEN [lookup[c] EXCEPT !.stage = "row"] ELSE AnswerWith(c, "found")
           text == query[c].text
<1>1. /\ LookupTyped /\ InStage(c, "alias") /\ Says(c, q) /\ UNCHANGED <<query, catalogues, records, searches>>
      /\ alias' = [alias EXCEPT ![text] = lookup[c].key] /\ text \in Keys /\ lookup[c].key \in Keys
  BY WishFields, CallFields DEF LookupInv, StoreAlias
<1>2. lookup[c].got # {} /\ Settled(lookup[c].key) /\ lookup[c].answer = "none"
  BY <1>1 DEF LookupInv, CallsKnow, CallKnows, InStage
<1>3. /\ q \in Calls /\ q.stage \in {"row", "done"} /\ q.got = lookup[c].got /\ q.key = lookup[c].key
      /\ q.answer \in {"none", "found"} /\ (q.stage = "row" => q.answer = "none")
  BY <1>1, <1>2, CallFields DEF AnswerWith, Calls, LookupStages, Answers
<1> HIDE DEF q, text
<1>4. /\ lookup' \in [Clients -> Calls] /\ job' \in [Clients -> [Fetchers -> Jobs]]
      /\ JobsSay' /\ CallsKnow' /\ LoadedOnce'
  <2>1. CallKnows(q, query[c])
    BY <1>2, <1>3 DEF CallKnows
  <2> QED BY <1>1, <1>3, <2>1, CallGoesOn DEF LookupInv
<1>5. alias' \in [Keys -> Keys \cup {NoRecord}] /\ AliasesFit'
  BY <1>1, <1>2 DEF LookupInv, LookupTyped, AliasesFit
<1>6. LookupTyped' /\ SearchesFit'
  BY <1>1, <1>4, <1>5 DEF LookupInv, LookupTyped, SearchesFit, catalogues
<1> QED BY <1>4, <1>5, <1>6 DEF LookupInv

LEMMA StoreRowKeeps ==
    ASSUME LookupAssumption, LookupInv, NEW c \in Clients, StoreRow(c)
    PROVE  LookupInv'
<1> DEFINE key == lookup[c].key
           q == IF query[c].tool = "get" /\ ~lookup[c].known THEN [lookup[c] EXCEPT !.stage = "alias"]
                ELSE AnswerWith(c, "found")
           row == IF key \in Synced THEN records[key] ELSE CHOOSE i \in lookup[c].got : TRUE
<1>1. /\ LookupTyped /\ InStage(c, "row") /\ Says(c, q) /\ UNCHANGED <<query, catalogues, alias, searches>>
      /\ records' = [records EXCEPT ![key] = row] /\ key \in Keys
      /\ lookup[c].got \subseteq Identifiers \cup {Stub}
  BY CallFields DEF LookupInv, StoreRow
<1>2. lookup[c].got # {} /\ Settled(key) /\ lookup[c].answer = "none"
  BY <1>1 DEF LookupInv, CallsKnow, CallKnows, InStage
<1>3. /\ q \in Calls /\ q.stage \in {"alias", "done"} /\ q.got = lookup[c].got /\ q.key = key
      /\ q.answer \in {"none", "found"} /\ (q.stage = "alias" => q.answer = "none")
  BY <1>1, <1>2, CallFields DEF AnswerWith, Calls, LookupStages, Answers
<1>4. row \in Identifiers \cup {Stub, NoRecord} /\ (key \in Synced => row = records[key])
  BY <1>1, <1>2 DEF LookupTyped
<1> HIDE DEF q, row
<1>5. /\ lookup' \in [Clients -> Calls] /\ job' \in [Clients -> [Fetchers -> Jobs]]
      /\ JobsSay' /\ CallsKnow' /\ LoadedOnce'
  <2>1. CallKnows(q, query[c])
    BY <1>2, <1>3 DEF CallKnows
  <2> QED BY <1>1, <1>3, <2>1, CallGoesOn DEF LookupInv
<1>6. /\ records' \in [Keys -> Identifiers \cup {Stub, NoRecord}]
      /\ \A i \in Synced : records'[i] = i
  <2>1. records \in [Keys -> Identifiers \cup {Stub, NoRecord}] /\ \A i \in Synced : records[i] = i /\ i \in Keys
    BY <1>1, Tabled DEF LookupTyped
  <2> QED BY <1>1, <1>4, <2>1
<1>7. LookupTyped' /\ SearchesFit' /\ AliasesFit'
  BY <1>1, <1>5, <1>6 DEF LookupInv, LookupTyped, SearchesFit, AliasesFit, catalogues
<1> QED BY <1>5, <1>7 DEF LookupInv

LEMMA ExpiresKeeps ==
    ASSUME LookupAssumption, LookupInv, Expires
    PROVE  LookupInv'
<1>1. /\ LookupTyped /\ UNCHANGED <<query, lookup, job, nist, stubs>>
      /\ \A i \in Synced : i \in Keys
  BY Tabled DEF LookupInv, Expires, catalogues
<1>2. JobsSay' /\ CallsKnow' /\ LoadedOnce'
  BY <1>1 DEF LookupInv, JobsSay, CallsKnow, LoadedOnce, Loads, InStage
<1>3. /\ records' \in [Keys -> Identifiers \cup {Stub, NoRecord}]
      /\ \A i \in Synced : records'[i] = i
  <2>1. CASE UNCHANGED records
    BY <1>1, <2>1 DEF LookupTyped
  <2>2. ASSUME NEW k \in Keys \ Synced, records' = [records EXCEPT ![k] = NoRecord]
        PROVE  /\ records' \in [Keys -> Identifiers \cup {Stub, NoRecord}]
               /\ \A i \in Synced : records'[i] = i
    BY <1>1, <2>2 DEF LookupTyped
  <2> QED BY <2>1, <2>2 DEF Expires
<1>4. alias' \in [Keys -> Keys \cup {NoRecord}] /\ AliasesFit'
  <2>1. CASE UNCHANGED alias
    BY <1>1, <2>1 DEF LookupInv, LookupTyped, AliasesFit
  <2>2. ASSUME NEW k \in Keys, alias' = [alias EXCEPT ![k] = NoRecord]
        PROVE  alias' \in [Keys -> Keys \cup {NoRecord}] /\ AliasesFit'
    BY <1>1, <2>2 DEF LookupInv, LookupTyped, AliasesFit
  <2> QED BY <2>1, <2>2 DEF Expires
<1>5. searches' \subseteq searches
  BY DEF Expires
<1>6. LookupTyped' /\ SearchesFit'
  BY <1>1, <1>3, <1>4, <1>5 DEF LookupInv, LookupTyped, SearchesFit
<1> QED BY <1>2, <1>4, <1>6 DEF LookupInv

\* After a restart no call of before asks anything or keeps a catalogue.
LEMMA RestartKeeps ==
    ASSUME LookupAssumption, LookupInv, Restart
    PROVE  LookupInv'
<1>1. /\ LookupTyped /\ UNCHANGED <<query, job, records, alias, searches>> /\ stubs' = NoRecord
      /\ lookup' = [c \in Clients |-> IF InStage(c, "done") \/ InStage(c, "start") THEN lookup[c]
                                    ELSE [lookup[c] EXCEPT !.stage = "dead"]]
  BY DEF LookupInv, Restart, tables
<1>2. nist' \in [memory : BOOLEAN, disk : {"none", "torn", "whole"}]
  BY <1>1 DEF LookupTyped, Restart
<1>3. ASSUME NEW c \in Clients
      PROVE  lookup'[c] \in Calls /\ CallKnows(lookup'[c], query[c]) /\ lookup'[c].stage # "fetch"
  <2>1. lookup[c] \in Calls /\ CallKnows(lookup[c], query[c])
    BY <1>1 DEF LookupInv, LookupTyped, CallsKnow
  <2>2. CASE InStage(c, "done") \/ InStage(c, "start")
    BY <1>1, <2>1, <2>2 DEF InStage
  <2>3. CASE ~(InStage(c, "done") \/ InStage(c, "start"))
    <3> DEFINE q == [lookup[c] EXCEPT !.stage = "dead"]
    <3>1. q \in Calls /\ q.stage = "dead" /\ q.answer = "none"
      BY <2>1, <2>3 DEF Calls, LookupStages, InStage, CallKnows
    <3>2. lookup'[c] = q
      BY <1>1, <2>3
    <3> HIDE DEF q
    <3> QED BY <3>1, <3>2 DEF CallKnows
  <2> QED BY <2>2, <2>3
<1>4. lookup' \in [Clients -> Calls]
  <2>1. lookup' = [c \in Clients |-> lookup'[c]]
    BY <1>1
  <2> QED BY <1>3, <2>1
<1>5. CallsKnow' /\ JobsSay' /\ LoadedOnce'
  BY <1>1, <1>3 DEF CallsKnow, JobsSay, LoadedOnce, Loads, InStage
<1>6. /\ UNCHANGED <<query, job, records, alias, searches>>
      /\ stubs' \in (SUBSET Of("W3C")) \cup {NoRecord}
  BY <1>1
<1>7. LookupTyped'
  BY <1>2, <1>4, <1>6 DEF LookupInv, LookupTyped
<1>8. SearchesFit' /\ AliasesFit'
  BY <1>6 DEF LookupInv, SearchesFit, AliasesFit
<1> QED BY <1>5, <1>7, <1>8 DEF LookupInv

LEMMA LookupStarts ==
    ASSUME LookupAssumption, LookupInit
    PROVE  LookupInv
<1>1. /\ query \in Queries /\ stubs = NoRecord /\ searches = {}
      /\ job = [c \in Clients |-> [f \in Fetchers |-> NotAsked]]
      /\ nist \in [memory : BOOLEAN, disk : {"none", "torn", "whole"}] /\ nist.memory = FALSE
      /\ records = [k \in Keys |-> IF k \in Synced THEN k ELSE NoRecord]
      /\ alias = [k \in Keys |-> NoRecord]
      /\ lookup = [c \in Clients |-> [stage |-> "start", mode |-> "get", key |-> query[c].text,
                                    known |-> FALSE, asks |-> <<>>, got |-> {}, failed |-> {},
                                    answer |-> "none"]]
  BY DEF LookupInit
<1>2. ASSUME NEW c \in Clients
      PROVE  query[c].text \in Keys
  <2>1. query[c] \in Query
    BY <1>1, Tabled
  <2> QED BY <2>1 DEF Query
<1>3. NotAsked \in Jobs
  <2>1. 1 \in 1..Len(ListPages)
    BY Tabled
  <2> QED BY <2>1 DEF NotAsked, Jobs, Places
<1>4. job \in [Clients -> [Fetchers -> Jobs]]
  BY <1>1, <1>3
<1>5. lookup \in [Clients -> Calls]
  <2>1. <<>> \in Seq(Fetchers)
    OBVIOUS
  <2> QED BY <1>1, <1>2, <2>1 DEF Calls, LookupStages, Answers
<1>6. records \in [Keys -> Identifiers \cup {Stub, NoRecord}] /\ \A i \in Synced : records[i] = i
  BY <1>1, Tabled
<1>7. LookupTyped
  <2>1. /\ query \in Queries /\ nist \in [memory : BOOLEAN, disk : {"none", "torn", "whole"}]
        /\ stubs \in (SUBSET Of("W3C")) \cup {NoRecord} /\ searches \subseteq SearchRows
        /\ alias \in [Keys -> Keys \cup {NoRecord}]
    BY <1>1
  <2> QED BY <1>4, <1>5, <1>6, <2>1 DEF LookupTyped
<1>8. \A c \in Clients : lookup[c].stage = "start" /\ lookup[c].answer = "none"
  BY <1>1
<1>9. SearchesFit /\ AliasesFit
  BY <1>1 DEF SearchesFit, AliasesFit
<1>10. JobsSay /\ CallsKnow /\ LoadedOnce
  BY <1>1, <1>8 DEF JobsSay, CallsKnow, CallKnows, LoadedOnce, Loads, InStage
<1> QED BY <1>7, <1>9, <1>10 DEF LookupInv

LEMMA LookupSteps ==
    ASSUME LookupAssumption, LookupInv, [LookupNext]_lookupVars
    PROVE  LookupInv'
<1>1. ASSUME NEW c \in Clients, LookupStep(c)
      PROVE  LookupInv'
  BY <1>1, SearchStartsKeeps, ResolveStartsKeeps, GetStartsKeeps, FetchingKeeps, SearchedKeeps, GotKeeps,
     StoreSearchKeeps, StoreAliasKeeps, StoreRowKeeps DEF LookupStep
<1>2. CASE Expires
  BY <1>2, ExpiresKeeps
<1>3. CASE Restart
  BY <1>3, RestartKeeps
<1>4. CASE UNCHANGED lookupVars
  BY <1>4 DEF lookupVars, catalogues, tables, LookupInv, LookupTyped, SearchesFit, AliasesFit, JobsSay, CallsKnow,
              LoadedOnce, Loads, InStage
<1> QED BY <1>1, <1>2, <1>3, <1>4 DEF LookupNext

\* What the invariant says of the specification's own properties.
LEMMA LookupTells ==
    ASSUME LookupAssumption, LookupInv
    PROVE  LookupTypeOK /\ SearchesAreHonest /\ NotFoundIsHeard /\ CatalogueIsShared
<1>1. LookupTypeOK
  <2>1. \A s \in searches : /\ s.text \in Keys /\ s.body \in Fetchers \cup {AllBodies}
                            /\ s.found \subseteq Identifiers /\ Kept(s.text, s.body) = {s}
    BY DEF LookupInv, LookupTyped, SearchRows, SearchesFit, Kept
  <2>2. \A c \in Clients :
          /\ lookup[c].stage \in LookupStages /\ lookup[c].key \in Keys /\ lookup[c].answer \in Answers
          /\ lookup[c].mode \in {"search", "get"} /\ lookup[c].known \in BOOLEAN
          /\ lookup[c].asks \in Seq(Fetchers) /\ lookup[c].got \subseteq Identifiers \cup {Stub}
          /\ lookup[c].failed \subseteq Fetchers
          /\ \A f \in Fetchers : /\ job[c][f].place \in Places
                                 /\ job[c][f].found \subseteq Identifiers \cup {Stub}
                                 /\ job[c][f].page \in 1..Len(ListPages)
    BY CallFields DEF LookupInv
  <2> QED BY <2>1, <2>2 DEF LookupInv, LookupTyped, LookupTypeOK
<1>2. SearchesAreHonest
  BY DEF LookupInv, SearchesFit, Complete, SearchesAreHonest
<1>3. NotFoundIsHeard
  BY DEF LookupInv, CallsKnow, CallKnows, MayBeAbsent, NotFoundIsHeard
<1>4. CatalogueIsShared
  <2> DEFINE loaders == {c \in Clients : AtPlace(c, "NIST", "url") \/ AtPlace(c, "NIST", "mods")}
  <2>1. loaders = {c \in Clients : Loads(c)}
    BY DEF AtPlace, Loads
  <2>2. nist.memory => loaders = {}
    BY <2>1 DEF LookupInv, LoadedOnce
  <2>3. loaders = {} \/ \E c \in Clients : loaders = {c}
    BY <2>1 DEF LookupInv, LoadedOnce
  <2>4. Cardinality(loaders) \in {0, 1} /\ (loaders = {} => Cardinality(loaders) = 0)
    BY <2>3, FS_EmptySet, FS_Singleton
  <2> HIDE DEF loaders
  <2>5. Cardinality(loaders) <= (IF nist.memory THEN 0 ELSE 1)
    BY <2>2, <2>4
  <2> QED BY <2>5 DEF CatalogueIsShared, loaders
<1> QED BY <1>1, <1>2, <1>3, <1>4

\* StandardsLookup's invariants, of the standards tools of _tools_standards.py: for
\* every number of calls and fetchers' answers, in every order in which requests
\* end, a catalogue's lock is taken, rows expire and the server is restarted, a
\* search that is kept holds only matches and all that ETSI has or a sync has
\* stored, "not found" is said of nothing that ETSI was not heard of, and NIST's
\* catalogue is loaded by one call at a time.
THEOREM LookupsHonest == LookupSpec => []LookupsAreHonest
<1>1. LookupInit => LookupInv
  BY LookupAssumption, LookupStarts
<1>2. LookupInv /\ [LookupNext]_lookupVars => LookupInv'
  BY LookupAssumption, LookupSteps
<1>3. LookupInv => LookupsAreHonest
  BY LookupAssumption, LookupTells DEF LookupsAreHonest
<1> QED BY <1>1, <1>2, <1>3, PTL DEF LookupSpec

-----------------------------------------------------------------------------
(* A lookup comes to an end.  What a call still has to do is counted, and none  *)
(* waits but for a lock whose holder can go on.                                 *)

\* Where the coroutine of a call in a fetcher can be.
PlacesOf(f) ==
    CASE f = "NIST" -> {"idle", "lock", "url", "mods", "list", "crashed"}
      [] f = "W3C" -> {"idle", "ask", "lock", "page", "details", "list", "crashed"}
      [] OTHER -> {"idle", "ask", "list", "refused", "crashed"}

\* A search has begun to ask all of its fetchers, a get the first of those left.
SentTo(q, js) ==
    /\ \A f \in Fetchers : js[f].place \in PlacesOf(f)
    /\ q.asks # <<>>
    /\ IF q.mode = "search" THEN \A f \in AskedBy(q) : js[f].place # "idle" ELSE js[Head(q.asks)].place # "idle"

Sent == \A c \in Clients : InStage(c, "fetch") => SentTo(lookup[c], job[c])

\* The steps that are left: of a coroutine, of all of a call's, and of a call, for
\* which a fetcher that it may still come to ask counts like one that has just begun.
Pages == Len(ListPages)
JobSteps(j) ==
    CASE j.place \in {"ask", "mods", "details"} -> 1
      [] j.place = "url" -> 2
      [] j.place = "page" -> Pages + 2 - j.page
      [] j.place = "lock" -> Pages + 3
      [] OTHER -> 0
AllJobSteps(js) ==
    JobSteps(js["IETF"]) + JobSteps(js["NIST"]) + JobSteps(js["W3C"])
    + JobSteps(js["ETSI"]) + JobSteps(js["Relaton"]) + JobSteps(js["local"])
StoreSteps(stage, tool) ==
    CASE stage = "store" -> 1
      [] stage = "alias" -> IF tool = "resolve" THEN 2 ELSE 1
      [] stage = "row" -> IF tool = "get" THEN 2 ELSE 1
      [] OTHER -> 0
AtMost == 12 * Pages + 46
StepsIn(q, js, tool) ==
    CASE q.stage = "start" -> AtMost
      [] q.stage = "fetch" -> 3 + Len(q.asks) * (Pages + 4) + AllJobSteps(js)
      [] OTHER -> StoreSteps(q.stage, tool)
StepsLeft(c) == StepsIn(lookup[c], job[c], query[c].tool)

\* A step of a call leaves it fewer to take, and nothing that others do, nor what
\* expires, nor a restart, ever adds to them.
CountsDown ==
    \A c \in Clients :
        /\ StepsLeft(c) \in Nat /\ StepsLeft(c)' \in Nat
        /\ StepsLeft(c)' <= StepsLeft(c)
        /\ LookupStep(c) => StepsLeft(c)' < StepsLeft(c)

\* A call whose next step waits for nobody.
MayGoOn(c) ==
    \/ lookup[c].stage \in {"start", "store", "alias", "row"}
    \/ \E f \in Fetchers \ {"NIST"} : AtPlace(c, f, "ask")
    \/ AtPlace(c, "NIST", "url") \/ AtPlace(c, "NIST", "mods")
    \/ AtPlace(c, "W3C", "page") \/ AtPlace(c, "W3C", "details")
    \/ \E f \in {"NIST", "W3C"} : AtPlace(c, f, "lock") /\ ~Loading(f)
    \/ InStage(c, "fetch") /\ lookup[c].mode = "search" /\ \A f \in Asked(c) : job[c][f].place \in Ended
    \/ InStage(c, "fetch") /\ lookup[c].mode = "get" /\ job[c][Head(lookup[c].asks)].place \in Ended

\* Every call that is not over can go on, or waits for the lock of a catalogue that
\* another call, which can go on, is loading.
NobodyIsStuck ==
    \A c \in Clients : lookup[c].stage \notin {"done", "dead"} =>
        \/ MayGoOn(c)
        \/ \E f \in {"NIST", "W3C"}, d \in Clients :
              /\ AtPlace(c, f, "lock") /\ d # c /\ MayGoOn(d)
              /\ AtPlace(d, f, "url") \/ AtPlace(d, f, "mods") \/ AtPlace(d, f, "page")

\* What counts is natural, and a coroutine has no more left than at a lock.
LEMMA JobStepsFit ==
    ASSUME LookupAssumption, NEW j \in Jobs
    PROVE  /\ Pages \in Nat /\ Pages >= 1
           /\ JobSteps(j) \in Nat /\ JobSteps(j) <= Pages + 3
<1>1. Pages \in Nat /\ Pages >= 1
  <2>1. ListPages \in Seq(SUBSET {i \in Identifiers : Fetcher[i] = "W3C"}) /\ ListPages # <<>>
    BY Tabled
  <2> HIDE DEF Pages
  <2>2. \A s \in Seq(SUBSET {i \in Identifiers : Fetcher[i] = "W3C"}) : s # <<>> => Len(s) \in Nat /\ Len(s) >= 1
    OBVIOUS
  <2> QED BY <2>1, <2>2 DEF Pages
<1>2. j.page \in 1..Pages
  BY DEF Jobs, Pages
<1> QED BY <1>1, <1>2 DEF JobSteps

LEMMA AllJobStepsFit ==
    ASSUME LookupAssumption, NEW js \in [Fetchers -> Jobs]
    PROVE  /\ \A f \in Fetchers : JobSteps(js[f]) \in Nat
           /\ AllJobSteps(js) \in Nat /\ AllJobSteps(js) <= 6 * (Pages + 3)
<1>1. \A f \in Fetchers : JobSteps(js[f]) \in Nat /\ JobSteps(js[f]) <= Pages + 3
  BY JobStepsFit
<1>2. Pages \in Nat
  <2>1. js["IETF"] \in Jobs
    BY DEF Fetchers
  <2> QED BY <2>1, JobStepsFit
<1>3. \A f \in {"IETF", "NIST", "W3C", "ETSI", "Relaton", "local"} :
        JobSteps(js[f]) \in Nat /\ JobSteps(js[f]) <= Pages + 3
  BY <1>1 DEF Fetchers
<1> HIDE DEF JobSteps, Pages
<1> QED BY <1>1, <1>2, <1>3 DEF AllJobSteps

\* One of them has less left and none has more.
LEMMA FewerJobSteps ==
    ASSUME LookupAssumption, NEW js \in [Fetchers -> Jobs], NEW ks \in [Fetchers -> Jobs],
           \A f \in Fetchers : JobSteps(ks[f]) <= JobSteps(js[f]),
           \E f \in Fetchers : JobSteps(ks[f]) < JobSteps(js[f])
    PROVE  AllJobSteps(ks) < AllJobSteps(js)
<1>1. \A f \in {"IETF", "NIST", "W3C", "ETSI", "Relaton", "local"} :
        JobSteps(js[f]) \in Nat /\ JobSteps(ks[f]) \in Nat /\ JobSteps(ks[f]) <= JobSteps(js[f])
  BY AllJobStepsFit DEF Fetchers
<1>2. PICK f \in {"IETF", "NIST", "W3C", "ETSI", "Relaton", "local"} : JobSteps(ks[f]) < JobSteps(js[f])
  BY DEF Fetchers
<1> HIDE DEF JobSteps
<1> QED BY <1>1, <1>2 DEF AllJobSteps

LEMMA StepsFit ==
    ASSUME LookupAssumption, NEW q \in Calls, NEW js \in [Fetchers -> Jobs], NEW tool
    PROVE  /\ StepsIn(q, js, tool) \in Nat
           /\ StoreSteps(q.stage, tool) \in 0..2
           /\ q.stage = "fetch" => StepsIn(q, js, tool) >= 3
           /\ q.stage \notin {"start", "fetch"} => StepsIn(q, js, tool) = StoreSteps(q.stage, tool)
<1>1. StoreSteps(q.stage, tool) \in 0..2
  BY DEF StoreSteps
<1>2. Pages \in Nat
  <2>1. js["IETF"] \in Jobs
    BY DEF Fetchers
  <2> QED BY <2>1, JobStepsFit
<1>3. Len(q.asks) \in Nat
  BY DEF Calls
<1>4. Len(q.asks) * (Pages + 4) \in Nat
  <2>1. \A l, p \in Nat : l * (p + 4) \in Nat
    OBVIOUS
  <2> QED BY <1>2, <1>3, <2>1
<1>5. AllJobSteps(js) \in Nat
  BY AllJobStepsFit
<1> HIDE DEF Pages, AllJobSteps, StoreSteps
<1>6. CASE q.stage = "start"
  BY <1>1, <1>2, <1>6 DEF StepsIn, AtMost
<1>7. CASE q.stage = "fetch"
  <2>1. StepsIn(q, js, tool) = 3 + Len(q.asks) * (Pages + 4) + AllJobSteps(js)
    BY <1>7 DEF StepsIn
  <2> QED BY <1>1, <1>4, <1>5, <1>7, <2>1
<1>8. CASE q.stage \notin {"start", "fetch"}
  BY <1>1, <1>8 DEF StepsIn
<1> QED BY <1>6, <1>7, <1>8

\* A call has taken a step of its own that leaves it fewer.
Fewer(c) ==
    /\ Others(c) /\ query' = query
    /\ StepsIn(lookup'[c], job'[c], query[c].tool) < StepsIn(lookup[c], job[c], query[c].tool)
    /\ lookup'[c].stage = "fetch" => SentTo(lookup'[c], job'[c])

\* It asks nothing any more.
LEMMA StopCounts ==
    ASSUME LookupAssumption, LookupInv, NEW c \in Clients, NEW q \in Calls, Says(c, q), UNCHANGED query,
           q.stage \notin {"start", "fetch"},
           \/ lookup[c].stage \in {"start", "fetch"}
           \/ StoreSteps(q.stage, query[c].tool) < StoreSteps(lookup[c].stage, query[c].tool)
    PROVE  Fewer(c)
<1>1. /\ lookup \in [Clients -> Calls] /\ job \in [Clients -> [Fetchers -> Jobs]]
      /\ lookup' = [lookup EXCEPT ![c] = q] /\ job' = job
  BY DEF LookupInv, LookupTyped, Says
<1>2. lookup'[c] = q /\ Others(c) /\ lookup[c] \in Calls /\ job[c] \in [Fetchers -> Jobs] /\ job'[c] = job[c]
  BY <1>1 DEF Others
<1>3. /\ StepsIn(q, job[c], query[c].tool) = StoreSteps(q.stage, query[c].tool)
      /\ StoreSteps(q.stage, query[c].tool) \in 0..2
  BY <1>2, StepsFit
<1>4. StoreSteps(q.stage, query[c].tool) < StepsIn(lookup[c], job[c], query[c].tool)
  <2>1. CASE lookup[c].stage = "start"
    <3>1. Pages \in Nat
      <4>1. job[c]["IETF"] \in Jobs
        BY <1>2 DEF Fetchers
      <4> QED BY <4>1, JobStepsFit
    <3>2. StepsIn(lookup[c], job[c], query[c].tool) = AtMost
      BY <2>1 DEF StepsIn
    <3> HIDE DEF Pages
    <3> QED BY <1>3, <3>1, <3>2 DEF AtMost
  <2>2. CASE lookup[c].stage = "fetch"
    <3>1. StepsIn(lookup[c], job[c], query[c].tool) \in Nat /\ StepsIn(lookup[c], job[c], query[c].tool) >= 3
      BY <1>2, <2>2, StepsFit
    <3> QED BY <1>3, <3>1
  <2>3. CASE lookup[c].stage \notin {"start", "fetch"}
    <3>1. StepsIn(lookup[c], job[c], query[c].tool) = StoreSteps(lookup[c].stage, query[c].tool)
      BY <1>2, <2>3, StepsFit
    <3> QED BY <2>3, <3>1
  <2> QED BY <2>1, <2>2, <2>3
<1> QED BY <1>1, <1>2, <1>3, <1>4 DEF Fewer

\* One of its coroutines goes on, to a place of its own.
LEMMA JobCounts ==
    ASSUME LookupAssumption, LookupInv, Sent, NEW c \in Clients, NEW f \in Fetchers, NEW j \in Jobs,
           JobIs(c, f, j), InStage(c, "fetch"), UNCHANGED <<query, lookup>>,
           j.place \in PlacesOf(f), j.place # "idle", JobSteps(j) < JobSteps(job[c][f])
    PROVE  Fewer(c)
<1>1. /\ lookup[c] \in Calls /\ lookup[c].asks \in Seq(Fetchers) /\ job[c] \in [Fetchers -> Jobs] /\ job'[c] \in [Fetchers -> Jobs]
      /\ SentTo(lookup[c], job[c]) /\ lookup[c].stage = "fetch" /\ lookup'[c] = lookup[c]
  BY CallFields DEF LookupInv, LookupTyped, JobIs, Sent, InStage
<1>2. job'[c][f] = j /\ \A g \in Fetchers \ {f} : job'[c][g] = job[c][g]
  BY DEF JobIs
<1>3. Others(c)
  <2>1. \A d \in Clients : job[d] \in [Fetchers -> Jobs] /\ job'[d] \in [Fetchers -> Jobs]
    BY DEF LookupInv, LookupTyped, JobIs
  <2>2. \A d \in Clients \ {c} : \A g \in Fetchers : job'[d][g] = job[d][g]
    BY DEF JobIs
  <2>3. \A d \in Clients \ {c} : job'[d] = job[d]
    BY <2>1, <2>2
  <2> QED BY <2>3 DEF Others
<1>4. \A g \in Fetchers : JobSteps(job'[c][g]) <= JobSteps(job[c][g])
  <2>1. \A g \in Fetchers : JobSteps(job[c][g]) \in Nat /\ JobSteps(job'[c][g]) \in Nat
    BY <1>1, JobStepsFit
  <2> HIDE DEF JobSteps
  <2> QED BY <1>2, <2>1
<1>5. AllJobSteps(job'[c]) < AllJobSteps(job[c])
  <2>1. JobSteps(job'[c][f]) < JobSteps(job[c][f])
    BY <1>2
  <2> HIDE DEF JobSteps
  <2> QED BY <1>1, <1>4, <2>1, FewerJobSteps
<1>6. StepsIn(lookup'[c], job'[c], query[c].tool) < StepsIn(lookup[c], job[c], query[c].tool)
  <2> DEFINE most == 3 + Len(lookup[c].asks) * (Pages + 4)
  <2>1. /\ StepsIn(lookup'[c], job'[c], query[c].tool) = most + AllJobSteps(job'[c])
        /\ StepsIn(lookup[c], job[c], query[c].tool) = most + AllJobSteps(job[c])
    BY <1>1 DEF StepsIn
  <2>2. AllJobSteps(job'[c]) \in Nat /\ AllJobSteps(job[c]) \in Nat
    BY <1>1, AllJobStepsFit
  <2>3. most \in Nat
    <3>1. Len(lookup[c].asks) \in Nat /\ Pages \in Nat
      BY <1>1, JobStepsFit
    <3>2. \A l, p \in Nat : 3 + l * (p + 4) \in Nat
      OBVIOUS
    <3> HIDE DEF Pages
    <3> QED BY <3>1, <3>2
  <2> HIDE DEF most
  <2> QED BY <1>5, <2>1, <2>2, <2>3
<1>7. SentTo(lookup'[c], job'[c])
  <2>1. \A g \in Fetchers : job'[c][g].place \in PlacesOf(g) /\ (job[c][g].place # "idle" => job'[c][g].place # "idle")
    BY <1>1, <1>2 DEF SentTo
  <2>2. Head(lookup[c].asks) \in Fetchers /\ AskedBy(lookup[c]) \subseteq Fetchers
    BY <1>1 DEF SentTo, AskedBy
  <2> QED BY <1>1, <2>1, <2>2 DEF SentTo
<1> QED BY <1>1, <1>3, <1>6, <1>7 DEF Fewer

\* A coroutine gets on, or comes to its end.
LEMMA MoveCounts ==
    ASSUME LookupAssumption, LookupInv, Sent, NEW c \in Clients, NEW f \in {"NIST", "W3C"},
           InStage(c, "fetch"), UNCHANGED <<query, lookup>>
    PROVE  /\ \A place \in PlacesOf(f) \ {"idle"} :
                 /\ JobGoes(c, f, place)
                 /\ \A k \in Jobs : k.place = place /\ k.page = job[c][f].page => JobSteps(k) < JobSteps(job[c][f])
                 => Fewer(c)
           /\ \A found \in SUBSET (Identifiers \cup {Stub}) :
                 Lists(c, f, found) /\ job[c][f].place \notin {"idle", "list", "crashed"} => Fewer(c)
<1>1. LookupTyped /\ f \in Fetchers /\ PlacesOf(f) \subseteq Places /\ job[c][f] \in Jobs
  BY DEF LookupInv, LookupTyped, Fetchers, Places, PlacesOf
<1>2. ASSUME NEW place \in PlacesOf(f) \ {"idle"}, JobGoes(c, f, place),
             \A k \in Jobs : k.place = place /\ k.page = job[c][f].page => JobSteps(k) < JobSteps(job[c][f])
      PROVE  Fewer(c)
  <2> DEFINE j == MovedTo(c, f, place)
  <2>1. JobIs(c, f, j) /\ j \in Jobs /\ j.place = place
    BY <1>1, <1>2, JobTurns, MovedFields
  <2>2. j.page = job[c][f].page
    BY <1>1 DEF MovedTo, Jobs
  <2> HIDE DEF j, JobSteps
  <2>3. JobSteps(j) < JobSteps(job[c][f])
    BY <1>2, <2>1, <2>2
  <2> QED BY <1>1, <2>1, <2>3, JobCounts
<1>3. ASSUME NEW found \in SUBSET (Identifiers \cup {Stub}), Lists(c, f, found),
             job[c][f].place \notin {"idle", "list", "crashed"}
      PROVE  Fewer(c)
  <2> DEFINE j == BroughtTo(c, f, found)
  <2>1. JobIs(c, f, j) /\ j \in Jobs /\ j.place = "list"
    BY <1>1, <1>3, JobTurns, MovedFields
  <2> HIDE DEF j
  <2>2. SentTo(lookup[c], job[c])
    BY DEF Sent
  <2>3. job[c][f].place \in PlacesOf(f)
    BY <1>1, <2>2 DEF SentTo
  <2>4. JobSteps(j) = 0
    BY <2>1 DEF JobSteps
  <2>5. JobSteps(job[c][f]) > 0
    <3>1. Pages \in Nat /\ Pages >= 1 /\ job[c][f].page \in 1..Pages
      BY <1>1, JobStepsFit DEF Jobs, Pages
    <3> HIDE DEF Pages
    <3> QED BY <1>3, <2>3, <3>1 DEF JobSteps, PlacesOf
  <2>6. JobSteps(j) < JobSteps(job[c][f])
    <3> HIDE DEF JobSteps
    <3> QED BY <2>4, <2>5
  <2>7. "list" \in PlacesOf(f)
    BY DEF PlacesOf
  <2> QED BY <1>1, <2>1, <2>6, <2>7, JobCounts
<1> QED BY <1>2, <1>3

LEMMA NistCounts ==
    ASSUME LookupAssumption, LookupInv, Sent, NEW c \in Clients,
           NistEnters(c) \/ NistUrl(c) \/ NistLoads(c) \/ NistFails(c) \/ Crashes(c, "NIST")
    PROVE  Fewer(c)
<1> DEFINE here == job[c]["NIST"]
<1>1. /\ InStage(c, "fetch") /\ UNCHANGED <<query, lookup>> /\ here \in Jobs
      /\ {} \in SUBSET (Identifiers \cup {Stub}) /\ MatchesFor(c, "NIST") \in SUBSET (Identifiers \cup {Stub})
      /\ {"url", "mods", "crashed"} \subseteq PlacesOf("NIST") \ {"idle"}
  BY MatchesAre DEF LookupInv, LookupTyped, Fetchers, PlacesOf, AtPlace, NistEnters, NistUrl, NistLoads, NistFails, Crashes
<1>2. Pages \in Nat /\ Pages >= 1
  BY <1>1, JobStepsFit
<1>3. here.place \in PlacesOf("NIST")
  BY <1>1 DEF Sent, SentTo, Fetchers
<1>4. CASE \E found \in SUBSET (Identifiers \cup {Stub}) : Lists(c, "NIST", found) /\ here.place \in {"lock", "url", "mods"}
  BY <1>1, <1>4, MoveCounts
<1>5. CASE JobGoes(c, "NIST", "url") /\ here.place = "lock"
  <2>1. \A k \in Jobs : k.place = "url" /\ k.page = here.page => JobSteps(k) < JobSteps(here)
    BY <1>2, <1>5 DEF JobSteps
  <2> QED BY <1>1, <1>5, <2>1, MoveCounts
<1>6. CASE JobGoes(c, "NIST", "mods") /\ here.place = "url"
  <2>1. \A k \in Jobs : k.place = "mods" /\ k.page = here.page => JobSteps(k) < JobSteps(here)
    BY <1>2, <1>6 DEF JobSteps
  <2> QED BY <1>1, <1>6, <2>1, MoveCounts
<1>7. CASE JobGoes(c, "NIST", "crashed") /\ here.place \in {"url", "mods"}
  <2>1. \A k \in Jobs : k.place = "crashed" /\ k.page = here.page => JobSteps(k) < JobSteps(here)
    BY <1>2, <1>7 DEF JobSteps
  <2> QED BY <1>1, <1>7, <2>1, MoveCounts
<1>8. CASE NistEnters(c)
  <2>1. here.place = "lock" /\ (Lists(c, "NIST", MatchesFor(c, "NIST")) \/ JobGoes(c, "NIST", "url"))
    BY <1>8 DEF NistEnters, AtPlace
  <2> QED BY <1>1, <1>4, <1>5, <2>1
<1>9. CASE NistUrl(c)
  <2>1. here.place = "url" /\ (Lists(c, "NIST", {}) \/ JobGoes(c, "NIST", "mods"))
    BY <1>9 DEF NistUrl, AtPlace
  <2> QED BY <1>1, <1>4, <1>6, <2>1
<1>10. CASE NistLoads(c) \/ NistFails(c)
  <2>1. here.place = "mods" /\ (Lists(c, "NIST", {}) \/ Lists(c, "NIST", MatchesFor(c, "NIST")))
    BY <1>10 DEF NistLoads, NistFails, AtPlace
  <2> QED BY <1>1, <1>4, <2>1
<1>11. CASE Crashes(c, "NIST")
  <2>1. here.place \in {"url", "mods"} /\ JobGoes(c, "NIST", "crashed")
    BY <1>3, <1>11 DEF Crashes, AtPlace, PlacesOf
  <2> QED BY <1>7, <2>1
<1> QED BY <1>8, <1>9, <1>10, <1>11

LEMMA W3CCounts ==
    ASSUME LookupAssumption, LookupInv, Sent, NEW c \in Clients,
           W3CEnters(c) \/ W3CPage(c) \/ W3CPageRefused(c) \/ W3CDetails(c) \/ Crashes(c, "W3C")
    PROVE  Fewer(c)
<1> DEFINE here == job[c]["W3C"]
<1>1. /\ InStage(c, "fetch") /\ UNCHANGED <<query, lookup>> /\ here \in Jobs /\ here.page \in 1..Pages
      /\ {"page", "details", "crashed"} \subseteq PlacesOf("W3C") \ {"idle"}
  BY DEF LookupInv, LookupTyped, Fetchers, PlacesOf, AtPlace, W3CEnters, W3CPage, W3CPageRefused, W3CDetails,
         Crashes, Jobs, Pages
<1>2. Pages \in Nat /\ Pages >= 1
  BY <1>1, JobStepsFit
<1>3. here.place \in PlacesOf("W3C")
  BY <1>1 DEF Sent, SentTo, Fetchers
<1>4. ASSUME NEW place \in {"page", "details", "crashed"}, JobGoes(c, "W3C", place),
             \/ place \in {"page", "details"} /\ here.place = "lock"
             \/ place = "details" /\ here.place = "page"
             \/ place = "crashed" /\ here.place \in {"page", "details"}
      PROVE  Fewer(c)
  <2>1. \A k \in Jobs : k.place = place /\ k.page = here.page => JobSteps(k) < JobSteps(here)
    <3> HIDE DEF here, Pages
    <3> QED BY <1>1, <1>2, <1>4 DEF JobSteps
  <2> QED BY <1>1, <1>4, <2>1, MoveCounts
<1>5. CASE W3CEnters(c)
  <2>1. here.place = "lock" /\ (JobGoes(c, "W3C", "page") \/ JobGoes(c, "W3C", "details"))
    BY <1>5 DEF W3CEnters, AtPlace
  <2> QED BY <1>4, <2>1
<1>6. CASE W3CPage(c)
  <2> DEFINE list == here.found \cup ListPages[here.page]
  <2>1. here.place = "page" /\ job' \in [Clients -> [Fetchers -> Jobs]]
    <3>1. LookupNext
      <4> HIDE DEF here, list
      <4>1. Fetching(c)
        BY <1>6 DEF Fetching
      <4> QED BY <4>1 DEF LookupNext, LookupStep
    <3>2. LookupInv'
      BY <3>1, LookupSteps
    <3> QED BY <1>6, <3>2 DEF W3CPage, AtPlace, LookupInv, LookupTyped
  <2>2. CASE JobGoes(c, "W3C", "details")
    BY <1>4, <2>1, <2>2
  <2>3. CASE /\ here.page < Len(ListPages)
             /\ job' = [job EXCEPT ![c]["W3C"] = [here EXCEPT !.page = here.page + 1, !.found = list]]
    <3> DEFINE j == PagedTo(here, list)
    <3>1. job \in [Clients -> [Fetchers -> Jobs]] /\ "W3C" \in Fetchers
      BY DEF LookupInv, LookupTyped, Fetchers
    <3>2. job' = [job EXCEPT ![c] = [job[c] EXCEPT !["W3C"] = j]]
      BY <2>3, <3>1, Zenon DEF PagedTo
    <3>3. j.place = "page" /\ j.page = here.page + 1
      BY <1>1, <2>1 DEF PagedTo, Jobs
    <3> HIDE DEF j, list, here
    <3>4. JobIs(c, "W3C", j) /\ j \in Jobs
      <4>1. job'[c] = [job[c] EXCEPT !["W3C"] = j]
        BY <3>1, <3>2
      <4>2. job'[c]["W3C"] = j
        BY <3>1, <4>1
      <4>3. \A d \in Clients : \A g \in Fetchers : d # c \/ g # "W3C" => job'[d][g] = job[d][g]
        BY <3>1, <3>2
      <4> QED BY <2>1, <3>1, <4>2, <4>3 DEF JobIs
    <3>5. JobSteps(j) < JobSteps(here)
      <4>1. here.page + 1 <= Pages
        BY <1>1, <1>2, <2>3 DEF Pages
      <4> HIDE DEF Pages
      <4> QED BY <1>1, <1>2, <2>1, <3>3, <4>1 DEF JobSteps
    <3>6. j.place \in PlacesOf("W3C") /\ j.place # "idle"
      BY <3>3 DEF PlacesOf
    <3> HIDE DEF JobSteps
    <3> QED BY <1>1, <3>1, <3>4, <3>5, <3>6, JobCounts DEF here
  <2> QED BY <1>6, <2>2, <2>3 DEF W3CPage
<1>7. CASE W3CPageRefused(c)
  BY <1>4, <1>7 DEF W3CPageRefused, AtPlace
<1>8. CASE W3CDetails(c)
  <2>1. PICK found \in SUBSET (MatchesFor(c, "W3C") \cap stubs) : Lists(c, "W3C", found)
    BY <1>8 DEF W3CDetails
  <2>2. found \in SUBSET (Identifiers \cup {Stub}) /\ here.place = "details"
    BY <1>8, <2>1, MatchesAre DEF LookupInv, Fetchers, W3CDetails, AtPlace
  <2> QED BY <1>1, <2>1, <2>2, MoveCounts
<1>9. CASE Crashes(c, "W3C")
  <2>1. here.place \in {"page", "details"} /\ JobGoes(c, "W3C", "crashed")
    BY <1>3, <1>9 DEF Crashes, AtPlace, PlacesOf
  <2> QED BY <1>4, <2>1
<1> QED BY <1>5, <1>6, <1>7, <1>8, <1>9

\* What a single request comes to is an end.
LEMMA OutcomesEnd ==
    ASSUME LookupAssumption, LookupInv, NEW c \in Clients, NEW f \in Fetchers, f # "NIST",
           NEW j \in FetchOutcomes(c, f)
    PROVE  j.place \in PlacesOf(f) /\ j.place # "idle" /\ JobSteps(j) = 0
<1>1. /\ \A found : List(found).place = "list"
      /\ \A place : Stopped(place).place = place
  BY DEF List, Stopped, NotAsked
<1>2. \A l \in Heard(c, f) : l.place = "list"
  BY <1>1 DEF Heard
<1>3. \A l \in FromCache(c, f) : l.place = "list"
  BY <1>1 DEF FromCache
<1>4. \/ j \in FromCache(c, f) \/ j \in Heard(c, f) \/ \E found : j = List(found)
      \/ j = Stopped("refused") /\ f = "ETSI"
      \/ j = Stopped("crashed") /\ f \in {"IETF", "W3C"}
  <2>1. CASE f = "local" \/ (f = "Relaton" /\ lookup[c].mode = "search")
    BY <2>1 DEF FetchOutcomes
  <2>2. CASE Unreadable(c, f) /\ ~(f = "local" \/ (f = "Relaton" /\ lookup[c].mode = "search"))
    BY <2>2 DEF FetchOutcomes
  <2>3. CASE ~Unreadable(c, f) /\ f = "ETSI"
    BY <2>3 DEF FetchOutcomes
  <2>4. CASE ~Unreadable(c, f) /\ f = "Relaton" /\ lookup[c].mode # "search"
    BY <2>4 DEF FetchOutcomes
  <2>5. CASE ~Unreadable(c, f) /\ f \in {"IETF", "W3C"}
    BY <2>5 DEF FetchOutcomes
  <2> QED BY <2>1, <2>2, <2>3, <2>4, <2>5 DEF Fetchers
<1>5. j.place = "list" \/ (j.place = "refused" /\ f = "ETSI") \/ (j.place = "crashed" /\ f \in {"IETF", "W3C"})
  BY <1>1, <1>2, <1>3, <1>4
<1> QED BY <1>5 DEF PlacesOf, JobSteps

LEMMA RequestsCount ==
    ASSUME LookupAssumption, LookupInv, Sent, NEW c \in Clients, Requests(c)
    PROVE  Fewer(c)
<1> DEFINE O(f) == IF AtPlace(c, f, "ask") THEN FetchOutcomes(c, f) ELSE {job[c][f]}
<1>1. /\ UNCHANGED <<query, lookup>> /\ InStage(c, "fetch") /\ SentTo(lookup[c], job[c])
      /\ job \in [Clients -> [Fetchers -> Jobs]] /\ lookup[c].asks \in Seq(Fetchers) /\ lookup[c] \in Calls
  BY CallFields DEF LookupInv, LookupTyped, Requests, AtPlace, Sent
<1>2. PICK i \in O("IETF"), w \in O("W3C"), e \in O("ETSI"), r \in O("Relaton"), l \in O("local") :
           job' = [job EXCEPT ![c] = [job[c] EXCEPT !["IETF"] = i, !["W3C"] = w, !["ETSI"] = e,
                                                     !["Relaton"] = r, !["local"] = l]]
  BY DEF Requests
<1>3. ASSUME NEW f \in Fetchers, f # "NIST", NEW j \in O(f)
      PROVE  /\ j \in Jobs
             /\ AtPlace(c, f, "ask") => j.place \in PlacesOf(f) /\ j.place # "idle" /\ JobSteps(j) = 0
             /\ ~AtPlace(c, f, "ask") => j = job[c][f]
  <2>1. CASE AtPlace(c, f, "ask")
    BY <1>3, <2>1, OutcomesSay, OutcomesEnd
  <2>2. CASE ~AtPlace(c, f, "ask")
    BY <1>1, <1>3, <2>2
  <2> QED BY <2>1, <2>2
<1> HIDE DEF O
<1>4. i \in Jobs /\ w \in Jobs /\ e \in Jobs /\ r \in Jobs /\ l \in Jobs
  BY <1>3 DEF Fetchers
<1>5. /\ job'[c]["IETF"] = i /\ job'[c]["W3C"] = w /\ job'[c]["ETSI"] = e
      /\ job'[c]["Relaton"] = r /\ job'[c]["local"] = l /\ job'[c]["NIST"] = job[c]["NIST"]
      /\ job'[c] \in [Fetchers -> Jobs] /\ \A d \in Clients : d # c => job'[d] = job[d]
  BY <1>1, <1>2, <1>4 DEF Fetchers
<1>6. ASSUME NEW f \in Fetchers
      PROVE  /\ AtPlace(c, f, "ask") => /\ job'[c][f].place \in PlacesOf(f) /\ job'[c][f].place # "idle"
                                        /\ JobSteps(job'[c][f]) = 0
             /\ ~AtPlace(c, f, "ask") => job'[c][f] = job[c][f]
  <2>1. CASE f = "NIST"
    BY <1>1, <1>5, <2>1 DEF AtPlace, SentTo, PlacesOf
  <2>2. CASE f # "NIST"
    <3>1. job'[c][f] \in O(f)
      BY <1>2, <1>5, <2>2 DEF Fetchers
    <3> QED BY <1>3, <2>2, <3>1
  <2> QED BY <2>1, <2>2
<1>7. \A f \in Fetchers : AtPlace(c, f, "ask") => job[c][f].place = "ask" /\ JobSteps(job[c][f]) = 1
  BY DEF AtPlace, JobSteps
<1>8. AllJobSteps(job'[c]) < AllJobSteps(job[c])
  <2>1. \E f \in Fetchers : AtPlace(c, f, "ask")
    BY DEF Requests
  <2>2. \A f \in Fetchers : JobSteps(job'[c][f]) \in Nat /\ JobSteps(job[c][f]) \in Nat
    BY <1>1, <1>5, JobStepsFit
  <2> HIDE DEF JobSteps
  <2>3. \A f \in Fetchers : JobSteps(job'[c][f]) <= JobSteps(job[c][f])
    BY <1>6, <1>7, <2>2
  <2>4. \E f \in Fetchers : JobSteps(job'[c][f]) < JobSteps(job[c][f])
    BY <1>6, <1>7, <2>1
  <2> QED BY <1>1, <1>5, <2>3, <2>4, FewerJobSteps
<1>9. StepsIn(lookup'[c], job'[c], query[c].tool) < StepsIn(lookup[c], job[c], query[c].tool)
  <2> DEFINE most == 3 + Len(lookup[c].asks) * (Pages + 4)
  <2>1. /\ StepsIn(lookup'[c], job'[c], query[c].tool) = most + AllJobSteps(job'[c])
        /\ StepsIn(lookup[c], job[c], query[c].tool) = most + AllJobSteps(job[c])
    BY <1>1 DEF StepsIn, InStage
  <2>2. AllJobSteps(job'[c]) \in Nat /\ AllJobSteps(job[c]) \in Nat
    BY <1>1, <1>5, AllJobStepsFit
  <2>3. most \in Nat
    <3>1. Len(lookup[c].asks) \in Nat /\ Pages \in Nat
      BY <1>1, <1>4, JobStepsFit
    <3>2. \A a, p \in Nat : 3 + a * (p + 4) \in Nat
      OBVIOUS
    <3> HIDE DEF Pages
    <3> QED BY <3>1, <3>2
  <2> HIDE DEF most
  <2> QED BY <1>8, <2>1, <2>2, <2>3
<1>10. SentTo(lookup'[c], job'[c])
  <2>1. \A g \in Fetchers : job'[c][g].place \in PlacesOf(g) /\ (job[c][g].place # "idle" => job'[c][g].place # "idle")
    BY <1>1, <1>6 DEF SentTo
  <2>2. Head(lookup[c].asks) \in Fetchers /\ AskedBy(lookup[c]) \subseteq Fetchers
    BY <1>1 DEF SentTo, AskedBy
  <2> QED BY <1>1, <2>1, <2>2 DEF SentTo
<1> QED BY <1>1, <1>5, <1>9, <1>10 DEF Fewer, Others

LEMMA FetchingCounts ==
    ASSUME LookupAssumption, LookupInv, Sent, NEW c \in Clients, Fetching(c)
    PROVE  Fewer(c)
<1>1. CASE Requests(c)
  BY <1>1, RequestsCount
<1>2. CASE NistEnters(c) \/ NistUrl(c) \/ NistLoads(c) \/ NistFails(c) \/ Crashes(c, "NIST")
  BY <1>2, NistCounts
<1>3. CASE W3CEnters(c) \/ W3CPage(c) \/ W3CPageRefused(c) \/ W3CDetails(c) \/ Crashes(c, "W3C")
  BY <1>3, W3CCounts
<1> QED BY <1>1, <1>2, <1>3 DEF Fetching

-----------------------------------------------------------------------------
(* The tools.                                                                   *)

\* A coroutine that begins is where its fetcher begins.
LEMMA FirstPlaceFits ==
    ASSUME LookupAssumption, NEW mode \in {"search", "get"}, NEW f \in Fetchers
    PROVE  /\ FirstPlace(mode, f) \in Jobs /\ FirstPlace(mode, f).place \in PlacesOf(f)
           /\ FirstPlace(mode, f).place # "idle"
           /\ NotAsked \in Jobs /\ NotAsked.place = "idle" /\ "idle" \in PlacesOf(f)
<1>1. 1 \in 1..Len(ListPages)
  BY Tabled
<1>2. NotAsked \in Jobs /\ NotAsked.place = "idle" /\ "idle" \in PlacesOf(f)
  BY <1>1 DEF NotAsked, Jobs, Places, PlacesOf
<1>3. /\ FirstPlace(mode, f) \in Jobs
      /\ FirstPlace(mode, f).place = IF f = "NIST" \/ (f = "W3C" /\ mode = "search") THEN "lock" ELSE "ask"
  BY <1>1 DEF FirstPlace, NotAsked, Jobs, Places
<1> QED BY <1>2, <1>3 DEF PlacesOf, Fetchers

\* A call asks its fetchers: it has less left than before it began.
LEMMA AskCounts ==
    ASSUME LookupAssumption, LookupInv, NEW c \in Clients, NEW mode \in {"search", "get"}, NEW key \in Keys,
           NEW asks \in Seq(Fetchers), InStage(c, "start"), Ask(c, mode, key, asks), UNCHANGED query,
           asks # <<>>, Len(asks) \in {1, 6}
    PROVE  Fewer(c)
<1> DEFINE q == [lookup[c] EXCEPT !.stage = "fetch", !.mode = mode, !.key = key, !.asks = asks,
                               !.known = (GetAlias(query[c].text) # NoRecord)]
           J(f) == IF \E k \in DOMAIN asks : asks[k] = f /\ (mode = "search" \/ k = 1)
                   THEN FirstPlace(mode, f) ELSE NotAsked
           js == [f \in Fetchers |-> J(f)]
<1>1. /\ lookup' = [lookup EXCEPT ![c] = q] /\ job' = [job EXCEPT ![c] = js]
      /\ lookup \in [Clients -> Calls] /\ job \in [Clients -> [Fetchers -> Jobs]]
  BY DEF Ask, LookupInv, LookupTyped
<1>2. /\ q \in Calls /\ q.stage = "fetch" /\ q.mode = mode /\ q.asks = asks
  <2>1. lookup[c] \in Calls /\ (GetAlias(query[c].text) # NoRecord) \in BOOLEAN
    BY <1>1
  <2> QED BY <2>1 DEF Calls, LookupStages
<1> HIDE DEF q
<1>3. \A f \in Fetchers :
         /\ J(f) \in Jobs /\ J(f).place \in PlacesOf(f)
         /\ (\E k \in DOMAIN asks : asks[k] = f /\ (mode = "search" \/ k = 1)) => J(f).place # "idle"
  BY FirstPlaceFits
<1> HIDE DEF J
<1>4. js \in [Fetchers -> Jobs] /\ \A f \in Fetchers : js[f] = J(f)
  BY <1>3
<1> HIDE DEF js
<1>5. lookup'[c] = q /\ job'[c] = js /\ Others(c)
  BY <1>1, <1>2, <1>4 DEF Others
<1>6. SentTo(q, js)
  <2>1. AskedBy(q) = {asks[k] : k \in DOMAIN asks} /\ AskedBy(q) \subseteq Fetchers
    BY <1>2 DEF AskedBy
  <2>2. 1 \in DOMAIN asks /\ Head(asks) = asks[1] /\ Head(asks) \in Fetchers
    OBVIOUS
  <2> QED BY <1>2, <1>3, <1>4, <2>1, <2>2 DEF SentTo
<1>7. StepsIn(q, js, query[c].tool) < StepsIn(lookup[c], job[c], query[c].tool)
  <2>1. StepsIn(lookup[c], job[c], query[c].tool) = 12 * Pages + 46
    BY DEF StepsIn, InStage, AtMost
  <2>2. StepsIn(q, js, query[c].tool) = 3 + Len(asks) * (Pages + 4) + AllJobSteps(js)
    BY <1>2 DEF StepsIn
  <2>3. AllJobSteps(js) \in Nat /\ AllJobSteps(js) <= 6 * (Pages + 3)
    BY <1>4, AllJobStepsFit
  <2>4. Pages \in Nat
    <3>1. js["IETF"] \in Jobs
      BY <1>4 DEF Fetchers
    <3> QED BY <3>1, JobStepsFit
  <2>5. Len(asks) * (Pages + 4) <= 6 * Pages + 24 /\ Len(asks) * (Pages + 4) \in Nat
    <3>1. \A n \in {1, 6}, p \in Nat : n * (p + 4) <= 6 * p + 24 /\ n * (p + 4) \in Nat
      <4>1. \A p \in Nat : /\ 1 * (p + 4) <= 6 * p + 24 /\ 1 * (p + 4) \in Nat
                           /\ 6 * (p + 4) <= 6 * p + 24 /\ 6 * (p + 4) \in Nat
        OBVIOUS
      <4> QED BY <4>1, Zenon
    <3> HIDE DEF Pages
    <3> QED BY <2>4, <3>1, Zenon
  <2> HIDE DEF Pages, AllJobSteps
  <2> QED BY <2>1, <2>2, <2>3, <2>4, <2>5
<1> QED BY <1>2, <1>5, <1>6, <1>7 DEF Fewer

\* The fetchers of a walk are six.
LEMMA FewAsks ==
    ASSUME LookupAssumption
    PROVE  /\ Walk \in Seq(Fetchers) /\ Walk # <<>> /\ Len(Walk) \in {1, 6}
           /\ \A f \in Fetchers : <<f>> \in Seq(Fetchers) /\ <<f>> # <<>> /\ Len(<<f>>) \in {1, 6}
<1>1. Len(Walk) = 6 /\ \A f \in Fetchers : Len(<<f>>) = 1
  BY DEF Walk
<1> QED BY <1>1, WalkAsksAll

LEMMA StartsCount ==
    ASSUME LookupAssumption, LookupInv, NEW c \in Clients,
           SearchStarts(c) \/ ResolveStarts(c) \/ GetStarts(c)
    PROVE  Fewer(c)
<1> DEFINE text == query[c].text
           body == query[c].body
<1>1. /\ LookupTyped /\ AliasesFit /\ text \in Keys /\ body \in Fetchers \cup {AllBodies}
      /\ InStage(c, "start") /\ UNCHANGED <<query, catalogues, tables>> /\ KeyOf(text) \in Keys
  BY WishFields, KeyOfSettles DEF LookupInv, SearchStarts, ResolveStarts, GetStarts
<1>2. ASSUME NEW q \in Calls, q.stage = "done", Says(c, q)
      PROVE  Fewer(c)
  BY <1>1, <1>2, StopCounts DEF InStage
<1>3. ASSUME NEW key \in Keys, AskFor(c, key)
      PROVE  Fewer(c)
  <2>1. LocalId[key] # NoRecord => Fetcher[LocalId[key]] \in Fetchers
    BY Tabled
  <2>2. CASE LocalId[key] # NoRecord
    <3>1. Ask(c, "get", key, <<Fetcher[LocalId[key]]>>)
      BY <1>3, <2>2 DEF AskFor
    <3> QED BY <1>1, <2>1, <2>2, <3>1, FewAsks, AskCounts
  <2>3. CASE LocalId[key] = NoRecord
    <3>1. Ask(c, "get", key, Walk)
      BY <1>3, <2>3 DEF AskFor
    <3> QED BY <1>1, <3>1, FewAsks, AskCounts
  <2> QED BY <2>2, <2>3
<1>4. CASE SearchStarts(c)
  <2>1. CASE Says(c, [AnswerWith(c, "cached") EXCEPT !.got = UNION {s.found : s \in Kept(text, body)}])
    <3> DEFINE got == UNION {s.found : s \in Kept(text, body)}
               q == [AnswerWith(c, "cached") EXCEPT !.got = got]
    <3>1. got \in SUBSET (Identifiers \cup {Stub})
      BY <1>1 DEF Kept, LookupTyped, SearchRows
    <3> HIDE DEF got
    <3>2. q \in Calls /\ q.stage = "done"
      BY <1>1, <3>1, CallFields DEF AnswerWith, Calls, LookupStages, Answers
    <3> HIDE DEF q
    <3>3. Says(c, q)
      BY <2>1 DEF q, got
    <3> QED BY <1>2, <3>2, <3>3
  <2>2. CASE Ask(c, "search", text, Walk)
    BY <1>1, <2>2, FewAsks, AskCounts
  <2>3. CASE body # AllBodies /\ Ask(c, "search", text, <<body>>)
    BY <1>1, <2>3, FewAsks, AskCounts
  <2> QED BY <1>4, <2>1, <2>2, <2>3 DEF SearchStarts
<1>5. ASSUME NEW key \in Keys, records[key] # NoRecord, Says(c, RowFound(c, key))
      PROVE  Fewer(c)
  <2> DEFINE q == RowFound(c, key)
  <2>1. {records[key]} \in SUBSET (Identifiers \cup {Stub})
    BY <1>1, <1>5 DEF LookupTyped
  <2>2. q \in Calls /\ q.stage = "done"
    BY <1>1, <2>1, CallFields DEF RowFound, AnswerWith, Calls, LookupStages, Answers
  <2> HIDE DEF q
  <2>3. Says(c, q)
    BY <1>5 DEF q
  <2> QED BY <1>2, <2>2, <2>3
<1> DEFINE key == KeyOf(text)
<1> HIDE DEF key
<1>6. CASE ResolveStarts(c)
  <2>1. CASE /\ records[key] # NoRecord
             /\ Says(c, [AnswerWith(c, "found") EXCEPT !.key = key, !.got = {records[key]}])
    <3>1. Says(c, RowFound(c, key)) /\ key \in Keys
      BY <1>1, <2>1 DEF RowFound, key
    <3> QED BY <1>5, <2>1, <3>1
  <2>2. CASE LocalId[text] # NoRecord /\ AskFor(c, LocalId[text])
    <3>1. LocalId[text] \in Keys
      BY <1>1, <2>2, Tabled
    <3> QED BY <1>3, <2>2, <3>1
  <2>3. CASE Ask(c, "search", text, Walk)
    BY <1>1, <2>3, FewAsks, AskCounts
  <2> QED BY <1>6, <2>1, <2>2, <2>3 DEF ResolveStarts, SearchAll, key
<1>7. CASE GetStarts(c)
  <2>1. CASE /\ records[key] # NoRecord
             /\ Says(c, [AnswerWith(c, "found") EXCEPT !.key = key, !.got = {records[key]}])
    <3>1. Says(c, RowFound(c, key)) /\ key \in Keys
      BY <1>1, <2>1 DEF RowFound, key
    <3> QED BY <1>5, <2>1, <3>1
  <2>2. CASE AskFor(c, key)
    BY <1>1, <1>3, <2>2 DEF key
  <2> QED BY <1>7, <2>1, <2>2 DEF GetStarts, key
<1> QED BY <1>4, <1>6, <1>7

LEMMA SearchedCounts ==
    ASSUME LookupAssumption, LookupInv, NEW c \in Clients, Searched(c)
    PROVE  Fewer(c)
<1> DEFINE got == UNION {job[c][f].found : f \in Those(c, "list")}
           failed == Those(c, "refused")
           state == [lookup[c] EXCEPT !.got = got, !.failed = failed]
<1>1. LookupTyped /\ InStage(c, "fetch") /\ lookup[c].asks \in Seq(Fetchers) /\ UNCHANGED query
  BY CallFields DEF LookupInv, Searched, Collect
<1>2. got \in SUBSET (Identifiers \cup {Stub}) /\ failed \in SUBSET Fetchers
  <2>1. Asked(c) \subseteq Fetchers
    BY <1>1 DEF Asked
  <2> QED BY <1>1, <2>1, CallFields DEF Those
<1> HIDE DEF got, failed
<1>3. ASSUME NEW q \in Calls, Says(c, q), q.stage \in {"done", "store", "alias"}
      PROVE  Fewer(c)
  BY <1>1, <1>3, StopCounts DEF InStage
<1>4. CASE Says(c, AnswerWith(c, "raised"))
  <2>1. AnswerWith(c, "raised") \in Calls /\ AnswerWith(c, "raised").stage = "done"
    BY <1>1, CallFields DEF AnswerWith, Calls, LookupStages, Answers
  <2> QED BY <1>3, <1>4, <2>1
<1>5. CASE Says(c, [state EXCEPT !.stage = "store"])
  <2> DEFINE q == [state EXCEPT !.stage = "store"]
  <2>1. q \in Calls /\ q.stage = "store"
    BY <1>1, <1>2, CallFields DEF Calls, LookupStages
  <2> QED BY <1>3, <1>5, <2>1
<1>6. ASSUME NEW answer \in {"partial", "null", "ambiguous"},
             Says(c, [state EXCEPT !.stage = "done", !.answer = answer])
      PROVE  Fewer(c)
  <2> DEFINE q == [state EXCEPT !.stage = "done", !.answer = answer]
  <2>1. q \in Calls /\ q.stage = "done"
    BY <1>1, <1>2, CallFields DEF Calls, LookupStages, Answers
  <2> QED BY <1>3, <1>6, <2>1
<1>7. CASE Cardinality(got) = 1 /\ Says(c, [state EXCEPT !.stage = "alias", !.key = CHOOSE i \in got : TRUE])
  <2> DEFINE i == CHOOSE i \in got : TRUE
             q == [state EXCEPT !.stage = "alias", !.key = i]
  <2>1. got # {}
    BY <1>7, FS_EmptySet
  <2>2. ASSUME NEW f \in Those(c, "list")
        PROVE  job[c][f].found \subseteq Keys
    <3>1. f \in Fetchers /\ job[c][f].place = "list"
      BY <1>1 DEF Those, Asked
    <3>2. JobSays(lookup[c].mode, lookup[c].key, f, job[c][f]) /\ lookup[c].mode = "search"
      BY <1>1, <3>1 DEF LookupInv, JobsSay, Searched, Collect
    <3>3. job[c][f].found \subseteq Hits[lookup[c].key]
      BY <3>1, <3>2 DEF JobSays, Complete
    <3> QED BY <1>1, <3>3, Tabled, CallFields
  <2>3. i \in Keys
    BY <2>1, <2>2 DEF got
  <2> HIDE DEF i
  <2>4. q \in Calls /\ q.stage = "alias"
    BY <1>1, <1>2, <2>3, CallFields DEF Calls, LookupStages
  <2> HIDE DEF q, state
  <2>5. Says(c, q)
    BY <1>7 DEF q, i
  <2> QED BY <1>3, <2>4, <2>5
<1> HIDE DEF state
<1> QED
  <2>1. \/ Says(c, AnswerWith(c, "raised"))
        \/ Says(c, [state EXCEPT !.stage = "store"])
        \/ Says(c, [state EXCEPT !.stage = "done", !.answer = "partial"])
        \/ Says(c, [state EXCEPT !.stage = "done", !.answer = "null"])
        \/ Says(c, [state EXCEPT !.stage = "done", !.answer = "ambiguous"])
        \/ Cardinality(got) = 1 /\ Says(c, [state EXCEPT !.stage = "alias", !.key = CHOOSE i \in got : TRUE])
    BY DEF Searched, Collect, got, failed, state
  <2> QED BY <1>4, <1>5, <1>6, <1>7, <2>1, Zenon

\* A coroutine that begins adds no more than one has.
LEMMA OneBegins ==
    ASSUME LookupAssumption, NEW js \in [Fetchers -> Jobs], NEW ks \in [Fetchers -> Jobs], NEW g \in Fetchers,
           \A f \in Fetchers : f # g => ks[f] = js[f]
    PROVE  AllJobSteps(ks) <= AllJobSteps(js) + Pages + 3
<1>1. \A f \in {"IETF", "NIST", "W3C", "ETSI", "Relaton", "local"} :
        /\ JobSteps(js[f]) \in Nat /\ JobSteps(ks[f]) \in Nat
        /\ f # g => JobSteps(ks[f]) = JobSteps(js[f])
  BY AllJobStepsFit DEF Fetchers
<1>2. JobSteps(ks[g]) <= Pages + 3 /\ Pages \in Nat
  BY JobStepsFit
<1>3. g \in {"IETF", "NIST", "W3C", "ETSI", "Relaton", "local"}
  BY DEF Fetchers
<1> HIDE DEF JobSteps, Pages
<1> QED BY <1>1, <1>2, <1>3 DEF AllJobSteps

\* A get asks the next of its fetchers: one less is to come.
LEMMA NextCounts ==
    ASSUME LookupAssumption, LookupInv, Sent, NEW c \in Clients, InStage(c, "fetch"), lookup[c].mode = "get",
           NEW rest, rest = Tail(lookup[c].asks), lookup[c].asks # <<>>, rest # <<>>,
           NEW failed \in SUBSET Fetchers,
           lookup' = [lookup EXCEPT ![c].asks = rest, ![c].failed = failed],
           job' = [job EXCEPT ![c][Head(rest)] = FirstPlace("get", Head(rest))], UNCHANGED query
    PROVE  Fewer(c)
<1> DEFINE q == NextAsked(c, rest, failed)
           g == Head(rest)
           j == FirstPlace("get", g)
           js == [job[c] EXCEPT ![g] = j]
<1>1. /\ lookup \in [Clients -> Calls] /\ job \in [Clients -> [Fetchers -> Jobs]]
      /\ lookup[c].asks \in Seq(Fetchers) /\ lookup[c] \in Calls /\ job[c] \in [Fetchers -> Jobs]
  BY CallFields DEF LookupInv, LookupTyped
<1>2. rest \in Seq(Fetchers) /\ Len(rest) \in Nat /\ Len(lookup[c].asks) = Len(rest) + 1 /\ g \in Fetchers
  BY <1>1
<1>3. lookup' = [lookup EXCEPT ![c] = q] /\ job' = [job EXCEPT ![c] = js]
  BY <1>1, <1>2 DEF NextAsked
<1>4. q \in Calls /\ q.stage = "fetch" /\ q.mode = "get" /\ q.asks = rest
  BY <1>1, <1>2 DEF NextAsked, Calls, InStage
<1>5. j \in Jobs /\ j.place \in PlacesOf(g) /\ j.place # "idle"
  BY <1>2, FirstPlaceFits
<1> HIDE DEF q, j, g
<1>6. js \in [Fetchers -> Jobs] /\ js[g] = j /\ \A f \in Fetchers : f # g => js[f] = job[c][f]
  BY <1>1, <1>2, <1>5
<1> HIDE DEF js
<1>7. lookup'[c] = q /\ job'[c] = js /\ Others(c)
  BY <1>1, <1>3, <1>4, <1>6 DEF Others
<1>8. SentTo(q, js)
  <2>1. SentTo(lookup[c], job[c])
    BY DEF Sent
  <2> QED BY <1>4, <1>5, <1>6, <2>1 DEF SentTo, g
<1>9. StepsIn(q, js, query[c].tool) < StepsIn(lookup[c], job[c], query[c].tool)
  <2>1. StepsIn(q, js, query[c].tool) = 3 + Len(rest) * (Pages + 4) + AllJobSteps(js)
    BY <1>4 DEF StepsIn
  <2>2. StepsIn(lookup[c], job[c], query[c].tool) = 3 + (Len(rest) + 1) * (Pages + 4) + AllJobSteps(job[c])
    BY <1>2 DEF StepsIn, InStage
  <2>3. AllJobSteps(js) \in Nat /\ AllJobSteps(job[c]) \in Nat
    BY <1>1, <1>6, AllJobStepsFit
  <2>4. AllJobSteps(js) <= AllJobSteps(job[c]) + Pages + 3
    BY <1>1, <1>2, <1>6, OneBegins
  <2>5. Pages \in Nat
    BY <1>5, JobStepsFit
  <2>6. /\ (Len(rest) + 1) * (Pages + 4) = Len(rest) * (Pages + 4) + Pages + 4
        /\ Len(rest) * (Pages + 4) \in Nat
    <3>1. \A l, p \in Nat : (l + 1) * (p + 4) = l * (p + 4) + p + 4 /\ l * (p + 4) \in Nat
      OBVIOUS
    <3> HIDE DEF Pages
    <3> QED BY <1>2, <2>5, <3>1, Zenon
  <2> HIDE DEF Pages
  <2> DEFINE most == Len(rest) * (Pages + 4)
  <2> HIDE DEF most
  <2>7. /\ StepsIn(q, js, query[c].tool) = 3 + most + AllJobSteps(js) /\ most \in Nat
        /\ StepsIn(lookup[c], job[c], query[c].tool) = 3 + (most + Pages + 4) + AllJobSteps(job[c])
    BY <2>1, <2>2, <2>6 DEF most
  <2> QED BY <2>3, <2>4, <2>5, <2>7
<1> QED BY <1>4, <1>7, <1>8, <1>9 DEF Fewer

LEMMA GotCounts ==
    ASSUME LookupAssumption, LookupInv, Sent, NEW c \in Clients, Got(c)
    PROVE  Fewer(c)
<1> DEFINE q0 == lookup[c]
           f == Head(q0.asks)
           rest == Tail(q0.asks)
           here == job[c][f]
           failed == q0.failed \cup Refused(c)
<1>1. /\ LookupTyped /\ InStage(c, "fetch") /\ q0.mode = "get" /\ q0.asks \in Seq(Fetchers) /\ UNCHANGED query
      /\ q0.asks # <<>> /\ q0 \in Calls
  BY CallFields DEF LookupInv, Got, Take, Sent, SentTo
<1>2. f \in Fetchers /\ rest \in Seq(Fetchers)
  BY <1>1
<1>3. failed \in SUBSET Fetchers /\ here.found \in SUBSET (Identifiers \cup {Stub})
  BY <1>1, <1>2, CallFields DEF Refused
<1>4. ASSUME NEW q \in Calls, Says(c, q), q.stage \in {"done", "row", "alias"}
      PROVE  Fewer(c)
  BY <1>1, <1>4, StopCounts DEF InStage
<1>5. CASE Says(c, AnswerWith(c, "raised"))
  <2>1. AnswerWith(c, "raised") \in Calls /\ AnswerWith(c, "raised").stage = "done"
    BY <1>1, CallFields DEF AnswerWith, Calls, LookupStages, Answers
  <2> QED BY <1>4, <1>5, <2>1
<1>6. ASSUME NEW stage \in {"row", "alias"}, Says(c, [lookup[c] EXCEPT !.stage = stage, !.got = here.found])
      PROVE  Fewer(c)
  <2> DEFINE found == here.found
             q == [lookup[c] EXCEPT !.stage = stage, !.got = found]
  <2> HIDE DEF found
  <2>1. q \in Calls /\ q.stage = stage
    BY <1>1, <1>3, CallFields DEF Calls, LookupStages, found
  <2> HIDE DEF q
  <2>2. Says(c, q)
    BY <1>6 DEF q, found
  <2> QED BY <1>4, <2>1, <2>2
<1>7. ASSUME NEW answer \in {"not_found", "null", "upstream_error", "warned"},
             Says(c, [AnswerWith(c, answer) EXCEPT !.failed = failed])
      PROVE  Fewer(c)
  <2> DEFINE q == [AnswerWith(c, answer) EXCEPT !.failed = failed]
  <2> HIDE DEF failed
  <2>1. q \in Calls /\ q.stage = "done"
    BY <1>1, <1>3, CallFields DEF AnswerWith, Calls, LookupStages, Answers
  <2> HIDE DEF q
  <2>2. Says(c, q)
    BY <1>7 DEF q
  <2> QED BY <1>4, <2>1, <2>2
<1>8. CASE /\ rest # <<>>
           /\ lookup' = [lookup EXCEPT ![c].asks = rest, ![c].failed = failed]
           /\ job' = [job EXCEPT ![c][Head(rest)] = FirstPlace("get", Head(rest))]
  <2> HIDE DEF failed
  <2> QED BY <1>1, <1>3, <1>8, NextCounts
<1> QED
  <2>1. \/ Says(c, AnswerWith(c, "raised"))
        \/ Says(c, [lookup[c] EXCEPT !.stage = "row", !.got = here.found])
        \/ Says(c, [lookup[c] EXCEPT !.stage = "alias", !.got = here.found])
        \/ /\ rest # <<>>
           /\ lookup' = [lookup EXCEPT ![c].asks = rest, ![c].failed = failed]
           /\ job' = [job EXCEPT ![c][Head(rest)] = FirstPlace("get", Head(rest))]
        \/ Says(c, [AnswerWith(c, "not_found") EXCEPT !.failed = failed])
        \/ Says(c, [AnswerWith(c, "null") EXCEPT !.failed = failed])
        \/ Says(c, [AnswerWith(c, "upstream_error") EXCEPT !.failed = failed])
        \/ Says(c, [AnswerWith(c, "warned") EXCEPT !.failed = failed])
    BY DEF Got, Take
  <2> HIDE DEF f, rest, here, failed, q0
  <2>2. CASE \/ Says(c, [lookup[c] EXCEPT !.stage = "row", !.got = here.found])
             \/ Says(c, [lookup[c] EXCEPT !.stage = "alias", !.got = here.found])
    BY <1>6, <2>2
  <2>3. ASSUME NEW answer \in {"not_found", "null", "upstream_error", "warned"},
               Says(c, [AnswerWith(c, answer) EXCEPT !.failed = failed])
        PROVE  Fewer(c)
    BY <1>7, <2>3
  <2> QED BY <1>5, <1>8, <2>1, <2>2, <2>3, ZenonT(30)

LEMMA StoringCounts ==
    ASSUME LookupAssumption, LookupInv, NEW c \in Clients, StoreSearch(c) \/ StoreAlias(c) \/ StoreRow(c)
    PROVE  Fewer(c)
<1> DEFINE tool == query[c].tool
           over(answer) == AnswerWith(c, answer)
           to(stage) == [lookup[c] EXCEPT !.stage = stage]
<1>1. /\ \A answer \in {"complete", "found"} : over(answer) \in Calls /\ over(answer).stage = "done"
      /\ \A stage \in {"row", "alias"} : to(stage) \in Calls /\ to(stage).stage = stage
      /\ UNCHANGED query
  BY CallFields DEF LookupInv, AnswerWith, Calls, LookupStages, Answers, StoreSearch, StoreAlias, StoreRow
<1>2. CASE StoreSearch(c)
  <2>1. Says(c, over("complete")) /\ StoreSteps("done", tool) < StoreSteps(lookup[c].stage, tool)
    BY <1>2 DEF StoreSearch, InStage, StoreSteps
  <2> HIDE DEF over, tool
  <2> QED BY <1>1, <2>1, StopCounts DEF tool
<1>3. CASE StoreAlias(c)
  <2>1. CASE tool = "resolve"
    <3>1. Says(c, to("row")) /\ StoreSteps("row", tool) < StoreSteps(lookup[c].stage, tool)
      BY <1>3, <2>1 DEF StoreAlias, InStage, StoreSteps
    <3> HIDE DEF to, tool
    <3> QED BY <1>1, <3>1, StopCounts DEF tool
  <2>2. CASE tool # "resolve"
    <3>1. Says(c, over("found")) /\ StoreSteps("done", tool) < StoreSteps(lookup[c].stage, tool)
      BY <1>3, <2>2 DEF StoreAlias, InStage, StoreSteps
    <3> HIDE DEF over, tool
    <3> QED BY <1>1, <3>1, StopCounts DEF tool
  <2> QED BY <2>1, <2>2
<1>4. CASE StoreRow(c)
  <2>1. CASE tool = "get" /\ ~lookup[c].known
    <3>1. Says(c, to("alias")) /\ StoreSteps("alias", tool) < StoreSteps(lookup[c].stage, tool)
      BY <1>4, <2>1 DEF StoreRow, InStage, StoreSteps
    <3> HIDE DEF to, tool
    <3> QED BY <1>1, <3>1, StopCounts DEF tool
  <2>2. CASE ~(tool = "get" /\ ~lookup[c].known)
    <3>1. Says(c, over("found")) /\ StoreSteps("done", tool) < StoreSteps(lookup[c].stage, tool)
      BY <1>4, <2>2 DEF StoreRow, InStage, StoreSteps
    <3> HIDE DEF over, tool
    <3> QED BY <1>1, <3>1, StopCounts DEF tool
  <2> QED BY <2>1, <2>2
<1> QED BY <1>2, <1>3, <1>4

LEMMA StepCounts ==
    ASSUME LookupAssumption, LookupInv, Sent, NEW c \in Clients, LookupStep(c)
    PROVE  Fewer(c)
BY StartsCount, FetchingCounts, SearchedCounts, GotCounts, StoringCounts DEF LookupStep

LEMMA SentBegins == LookupInit => Sent
<1> SUFFICES ASSUME LookupInit PROVE Sent
  OBVIOUS
<1>1. \A c \in Clients : lookup[c].stage = "start"
  BY DEF LookupInit
<1> QED BY <1>1 DEF Sent, InStage

LEMMA SentKeeps ==
    ASSUME LookupAssumption, LookupInv, Sent, [LookupNext]_lookupVars
    PROVE  Sent'
<1>1. ASSUME NEW c \in Clients, LookupStep(c)
      PROVE  Sent'
  <2>1. Fewer(c)
    BY <1>1, StepCounts
  <2> QED BY <2>1 DEF Fewer, Others, Sent, InStage
<1>2. CASE Expires
  BY <1>2 DEF Expires, Sent, InStage
<1>3. CASE Restart
  <2>1. \A c \in Clients : lookup'[c].stage # "fetch"
    BY <1>3 DEF Restart, LookupInv, LookupTyped, InStage, Calls
  <2> QED BY <2>1 DEF Sent, InStage
<1>4. CASE UNCHANGED lookupVars
  BY <1>4 DEF lookupVars, Sent, InStage
<1> QED BY <1>1, <1>2, <1>3, <1>4 DEF LookupNext

\* What nobody but the call itself does leaves it no more to take.
LEMMA NothingIsAdded ==
    ASSUME LookupAssumption, LookupInv, Sent, LookupInv', LookupNext
    PROVE  CountsDown
<1>1. ASSUME NEW c \in Clients
      PROVE  /\ lookup[c] \in Calls /\ job[c] \in [Fetchers -> Jobs] /\ StepsLeft(c) \in Nat
             /\ lookup'[c] \in Calls /\ job'[c] \in [Fetchers -> Jobs] /\ StepsLeft(c)' \in Nat
  <2>1. /\ lookup[c] \in Calls /\ job[c] \in [Fetchers -> Jobs]
        /\ lookup'[c] \in Calls /\ job'[c] \in [Fetchers -> Jobs]
    BY DEF LookupInv, LookupTyped
  <2>2. \A tool : StepsIn(lookup[c], job[c], tool) \in Nat /\ StepsIn(lookup'[c], job'[c], tool) \in Nat
    BY <2>1, StepsFit
  <2>3. StepsLeft(c)' = StepsIn(lookup'[c], job'[c], query'[c].tool)
    BY DEF StepsLeft
  <2> QED BY <2>1, <2>2, <2>3 DEF StepsLeft
<1>2. ASSUME NEW c \in Clients, LookupStep(c)
      PROVE  /\ StepsLeft(c)' < StepsLeft(c)
             /\ \A d \in Clients : d # c => StepsLeft(d)' = StepsLeft(d)
  <2>1. Fewer(c)
    BY <1>2, StepCounts
  <2>2. StepsLeft(c)' = StepsIn(lookup'[c], job'[c], query[c].tool)
    BY <2>1 DEF StepsLeft, Fewer
  <2>3. ASSUME NEW d \in Clients, d # c
        PROVE  StepsLeft(d)' = StepsLeft(d)
    <3>1. lookup'[d] = lookup[d] /\ job'[d] = job[d] /\ query'[d] = query[d]
      BY <2>1, <2>3 DEF Fewer, Others
    <3> QED BY <3>1 DEF StepsLeft
  <2> QED BY <2>1, <2>2, <2>3 DEF Fewer, StepsLeft
<1>3. ASSUME Expires \/ Restart, NEW c \in Clients
      PROVE  StepsLeft(c)' <= StepsLeft(c)
  <2>1. query' = query /\ job' = job /\ (lookup'[c] = lookup[c] \/ lookup'[c].stage = "dead")
    <3>1. CASE Expires
      BY <3>1 DEF Expires
    <3>2. CASE Restart
      BY <1>1, <3>2 DEF Restart, Calls
    <3> QED BY <1>3, <3>1, <3>2
  <2>2. StepsLeft(c)' = StepsIn(lookup'[c], job[c], query[c].tool)
    BY <2>1 DEF StepsLeft
  <2>3. CASE lookup'[c] = lookup[c]
    <3>1. StepsLeft(c)' = StepsLeft(c)
      BY <2>2, <2>3 DEF StepsLeft
    <3> QED BY <1>1, <3>1
  <2>4. CASE lookup'[c].stage = "dead"
    <3>1. StepsLeft(c)' = 0
      BY <2>2, <2>4 DEF StepsIn, StoreSteps
    <3> QED BY <1>1, <3>1
  <2> QED BY <2>1, <2>3, <2>4
<1> HIDE DEF StepsLeft
<1>4. \A c \in Clients : StepsLeft(c)' <= StepsLeft(c)
  <2>1. CASE Expires \/ Restart
    BY <1>3, <2>1
  <2>2. CASE \E d \in Clients : LookupStep(d)
    BY <1>1, <1>2, <2>2
  <2> QED BY <2>1, <2>2 DEF LookupNext
<1> QED BY <1>1, <1>2, <1>4 DEF CountsDown

\* The steps of every call of the standards tools run out: each leaves it fewer of
\* at most 12 * Pages + 46, whatever the fetchers answer, whichever catalogue it
\* waits for and whatever others store, expires or is lost in a restart.
THEOREM LookupsRunDown == LookupSpec => [][CountsDown]_lookupVars
<1>1. LookupInit => LookupInv /\ Sent
  BY LookupAssumption, LookupStarts, SentBegins
<1>2. LookupInv /\ Sent /\ [LookupNext]_lookupVars => LookupInv' /\ Sent'
  BY LookupAssumption, LookupSteps, SentKeeps
<1>3. LookupInv /\ Sent /\ LookupInv' /\ [LookupNext]_lookupVars => [CountsDown]_lookupVars
  BY LookupAssumption, NothingIsAdded
<1> QED BY <1>1, <1>2, <1>3, PTL DEF LookupSpec

\* A call that is fetching can go on, or waits for who does.
LEMMA NobodySticks ==
    ASSUME LookupAssumption, LookupInv, Sent
    PROVE  NobodyIsStuck
<1>1. ASSUME NEW c \in Clients, NEW f \in Fetchers, InStage(c, "fetch"), job[c][f].place \notin Ended \cup {"idle"}
      PROVE  \/ MayGoOn(c)
             \/ \E g \in {"NIST", "W3C"}, d \in Clients :
                   /\ AtPlace(c, g, "lock") /\ d # c /\ MayGoOn(d)
                   /\ AtPlace(d, g, "url") \/ AtPlace(d, g, "mods") \/ AtPlace(d, g, "page")
  <2>1. job[c][f].place \in PlacesOf(f)
    BY <1>1 DEF Sent, SentTo
  <2>2. CASE job[c][f].place # "lock"
    BY <1>1, <2>1, <2>2 DEF MayGoOn, AtPlace, PlacesOf, Ended
  <2>3. CASE job[c][f].place = "lock"
    <3>1. f \in {"NIST", "W3C"} /\ AtPlace(c, f, "lock")
      BY <1>1, <2>1, <2>3 DEF PlacesOf, AtPlace
    <3>2. CASE ~Loading(f)
      BY <3>1, <3>2 DEF MayGoOn
    <3>3. CASE Loading(f)
      <4>1. PICK d \in Clients : AtPlace(d, f, "url") \/ AtPlace(d, f, "mods") \/ AtPlace(d, f, "page")
        BY <3>3 DEF Loading
      <4>2. d # c
        BY <3>1, <4>1 DEF AtPlace
      <4>3. MayGoOn(d)
        <5>1. InStage(d, "fetch") /\ job[d][f].place \in PlacesOf(f)
          BY <4>1 DEF AtPlace, Sent, SentTo
        <5> QED BY <3>1, <4>1, <5>1 DEF MayGoOn, AtPlace, PlacesOf
      <4> QED BY <3>1, <4>1, <4>2, <4>3
    <3> QED BY <3>2, <3>3
  <2> QED BY <2>2, <2>3
<1>2. ASSUME NEW c \in Clients, InStage(c, "fetch"), \A f \in Fetchers : job[c][f].place \in Ended \cup {"idle"}
      PROVE  MayGoOn(c)
  <2>1. SentTo(lookup[c], job[c]) /\ lookup[c].asks \in Seq(Fetchers) /\ lookup[c].mode \in {"search", "get"}
    BY <1>2, CallFields DEF Sent, LookupInv
  <2>2. CASE lookup[c].mode = "search"
    <3>1. Asked(c) = AskedBy(lookup[c]) /\ Asked(c) \subseteq Fetchers
      BY <2>1 DEF Asked, AskedBy
    <3> QED BY <1>2, <2>1, <2>2, <3>1 DEF SentTo, MayGoOn
  <2>3. CASE lookup[c].mode = "get"
    <3>1. Head(lookup[c].asks) \in Fetchers
      BY <2>1 DEF SentTo
    <3> QED BY <1>2, <2>1, <2>3, <3>1 DEF SentTo, MayGoOn
  <2> QED BY <2>1, <2>2, <2>3
<1>3. \A c \in Clients : lookup[c].stage \in LookupStages
  BY CallFields DEF LookupInv
<1>4. ASSUME NEW c \in Clients, lookup[c].stage \notin {"done", "dead"}, ~InStage(c, "fetch")
      PROVE  MayGoOn(c)
  BY <1>3, <1>4 DEF MayGoOn, InStage, LookupStages
<1> QED BY <1>1, <1>2, <1>4 DEF NobodyIsStuck

\* No call of the standards tools waits for nothing: what is not over can go on, or
\* is in line for a catalogue that a call which can go on is loading.  Neither a
\* crash of the loader nor a restart leaves a lock behind (_fetch_all, _load_stubs).
THEOREM NoLookupHangs == LookupSpec => []NobodyIsStuck
<1>1. LookupInit => LookupInv /\ Sent
  BY LookupAssumption, LookupStarts, SentBegins
<1>2. LookupInv /\ Sent /\ [LookupNext]_lookupVars => LookupInv' /\ Sent'
  BY LookupAssumption, LookupSteps, SentKeeps
<1>3. LookupInv /\ Sent => NobodyIsStuck
  BY LookupAssumption, NobodySticks
<1> QED BY <1>1, <1>2, <1>3, PTL DEF LookupSpec
=============================================================================
