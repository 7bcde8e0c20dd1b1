---------------------------- MODULE CitationScan ----------------------------
(***************************************************************************)
(* get_citations and get_references (src/scholar_mcp/_tools_graph.py): one  *)
(* page of the list, or, with min_citations, a scan of it: S2 lists citing  *)
(* papers newest first and cannot filter them by that, so the tool          *)
(* pages through the list until it has enough papers above the threshold,   *)
(* the list ends, or the cap on scanned records is reached.  Papers that    *)
(* appear meanwhile shift the list under the call.                          *)
(***************************************************************************)
EXTENDS CitationPages, SequencesExt

CONSTANTS
    Listed,      \* the citing papers when the call begins, newest first
    Fresh,       \* papers that may appear during it
    Liked,       \* papers at or above min_citations
    Offset, Limit,
    BatchSize,   \* _S2_PAGE_SIZE
    MaxUpstream  \* _MAX_UPSTREAM_SCAN

Listable == ToSet(Listed) \union Fresh

\* What a call may be asked, and what S2 lists.
ASSUME ScanAssumption ==
    /\ Listed \in Seq(Listable)
    /\ IsInjective(Listed) /\ ToSet(Listed) \intersect Fresh = {}
    /\ Liked \subseteq Listable
    /\ Offset \in Nat /\ Limit \in Nat \ {0}
    /\ BatchSize \in Nat \ {0} /\ MaxUpstream \in Nat \ {0}

VARIABLES
    way,         \* "threshold", "citations" or "references"
    list,        \* what S2 has
    items, scanned, exhausted,
    scanPc

scanVars == <<way, list, items, scanned, exhausted, scanPc>>

ScanTypeOK ==
    /\ way \in {"threshold", "citations", "references"}
    /\ list \in Seq(Listable) /\ IsInjective(list)
    /\ items \in Seq(IF way = "threshold" THEN Liked ELSE Listable)
    /\ scanned \in 0..MaxUpstream
    /\ exhausted \in BOOLEAN
    /\ scanPc \in {"scan", "answer", "error"}

Needed == Offset + Limit

ScanInit ==
    /\ way \in {"threshold", "citations", "references"}
    /\ list = Listed
    /\ items = <<>>
    /\ scanned = 0
    /\ exhausted = FALSE
    /\ scanPc = "scan"

\* A new paper cites the one asked about; what a paper references stays.
Appear(p) ==
    /\ way # "references"
    /\ p \in Fresh
    /\ ~Contains(list, p)
    /\ list' = <<p>> \o list
    /\ UNCHANGED <<way, items, scanned, exhausted, scanPc>>

\* The one page, which S2 has filtered.
PageAsked ==
    /\ scanPc = "scan"
    /\ items' = Page(list, Offset, Limit)
    /\ scanPc' = "answer"
    /\ UNCHANGED <<way, list, scanned, exhausted>>

CitationsPage == way = "citations" /\ PageAsked
ReferencesPage == way = "references" /\ PageAsked

Scanning ==
    way = "threshold" /\ scanPc = "scan" /\ Len(items) < Needed /\ scanned < MaxUpstream

ScanBatch == Min({BatchSize, MaxUpstream - scanned})

\* Mutated ScanPage: a page without a match ends the scan.
ScanPageHasty ==
    /\ Scanning
    /\ LET page == Page(list, scanned, ScanBatch)
           kept == Sifted(page, Liked)
       IN /\ items' = items \o kept
          /\ scanned' = scanned + Len(page)
          /\ exhausted' = (Len(kept) = 0)
          /\ scanPc' = IF Len(kept) = 0 THEN "answer" ELSE scanPc
    /\ UNCHANGED <<way, list>>

\* One page; a short one is the last.
ScanPage ==
    /\ Scanning
    /\ LET page == Page(list, scanned, ScanBatch)
       IN /\ items' = items \o Sifted(page, Liked)
          /\ scanned' = scanned + Len(page)
          /\ exhausted' = (Len(page) < ScanBatch)
          /\ scanPc' = IF Len(page) < ScanBatch THEN "answer" ELSE scanPc
    /\ UNCHANGED <<way, list>>

\* A request fails: the call answers with the error.
ScanFails ==
    /\ scanPc = "scan"
    /\ Scanning \/ way # "threshold"
    /\ scanPc' = "error"
    /\ UNCHANGED <<way, list, items, scanned, exhausted>>

\* Enough, or the cap.
ScanEnds ==
    /\ way = "threshold" /\ scanPc = "scan"
    /\ ~Scanning
    /\ scanPc' = "answer"
    /\ UNCHANGED <<way, list, items, scanned, exhausted>>

ScanNext ==
    \/ \E p \in Fresh : Appear(p)
    \/ CitationsPage \/ ReferencesPage
    \/ ScanPage \/ ScanFails \/ ScanEnds

ScanSpec == ScanInit /\ [][ScanNext]_scanVars

-----------------------------------------------------------------------------
Data == IF way = "threshold" THEN Page(items, Offset, Limit) ELSE items
Warning == ~exhausted /\ scanned >= MaxUpstream /\ Len(items) < Needed

\* An answer that is shorter than Limit and carries no warning says there is no
\* more: every paper above the threshold that was listed when the call began
\* is among the items, on this page or on those before it, and without a
\* threshold all but the first Offset are on the page, however many papers
\* have shifted the list meanwhile.
ShortPageIsTheEnd ==
    /\ ScanTypeOK
    /\ scanPc = "answer" /\ Len(Data) < Limit /\ ~Warning =>
         IF way = "threshold" THEN ToSet(Listed) \intersect Liked \subseteq ToSet(items)
         ELSE ToSet(SubSeq(Listed, Offset + 1, Len(Listed))) \subseteq ToSet(items)

=============================================================================
