------------------------------ MODULE PdfTools ------------------------------
(***************************************************************************)
(* The tools that leave files: fetch_paper_pdf, fetch_and_convert,          *)
(* fetch_pdf_by_url and convert_pdf_to_markdown (_tools_pdf.py) and the     *)
(* files of fetch_patent_pdf (_tools_patent.py), over the candidates of     *)
(* _pdf_url_resolver.py and the conversions of _docling_client.py.          *)
(*                                                                          *)
(* File work runs in threads, so that another call may act between opening  *)
(* a file and closing it.  A downloaded PDF is moved into place in one      *)
(* step; a patent and every markdown file are written in place.             *)
(* The process may be killed at any time: calls are gone, files stay.       *)
(***************************************************************************)
EXTENDS Naturals, Sequences, SequencesExt

CONSTANTS Callers,
          Wishes,   \* what the callers may come to ask, see Wish
          Urls,
          Paths,    \* where PDFs may lie
          Stem,     \* the file name of each path without directory and suffix
          MaxPolls, \* how often a conversion is polled (200)
          Nothing   \* no file, no URL

ConvertingTools == {"convert_paper", "by_url", "patent", "local"}
Tools == {"fetch_paper"} \cup ConvertingTools
PaperTools == {"fetch_paper", "convert_paper"}

\* The sources in trial order: four for a paper, then the caller's URL and EPO.
Order == <<"s2_oa", "arxiv", "pmc", "unpaywall", "caller", "epo">>
Sources == ToSet(Order)
KnownUrls == UNION {[S -> Urls] : S \in SUBSET Sources}

\* Where a tool gets a PDF from: what the record of the paper knows, or one place.
ComesFrom(tool) ==
    CASE tool \in PaperTools -> SUBSET {"s2_oa", "arxiv", "pmc", "unpaywall"}
      [] tool = "by_url" -> {{"caller"}}
      [] tool = "patent" -> {{"epo"}}
      [] tool = "local" -> {{}}

\* A call: its tool, the path of its PDF, the URL each of its sources knows,
\* whether VLM enrichment is asked for (and configured), whether docling is.
Wish == {w \in [tool : Tools, path : Paths, known : KnownUrls, vlm : BOOLEAN, docling : BOOLEAN] :
            DOMAIN w.known \in ComesFrom(w.tool)}

ASSUME PdfAssumption ==
    /\ Wishes \subseteq [Callers -> Wish]
    /\ Stem \in [Paths -> STRING]
    /\ MaxPolls \in Nat \ {0}
    /\ Nothing \notin Urls

VARIABLES wish,   \* what the callers ask
          pdf,    \* the PDF at each path
          md,     \* the markdown file of each stem and mode
          call,   \* the state of each call
          killed  \* whether the process was killed and started again

vars == <<wish, pdf, md, call, killed>>

\* A PDF: how much of it is there, the URL it came from and the call that wrote
\* it, which tells two writes apart as inode, size and times do.  "junk" lacks
\* the header, "part" was cut short behind it.
PdfFile == [bytes : {"none", "junk", "part", "whole"}, of : Urls \cup {Nothing},
            by : Callers \cup {Nothing}]
NoPdf == [bytes |-> "none", of |-> Nothing, by |-> Nothing]

\* A markdown file: what it holds and the PDF it was made of.
MdFile == [bytes : {"none", "part", "mixed", "whole"}, from : PdfFile]
NoMd == [bytes |-> "none", from |-> NoPdf]
MdKeys == {Stem[p] : p \in Paths} \X BOOLEAN

Stages == {"new", "candidate", "check", "compare", "download", "publish", "truncate", "fill",
           "have", "read", "load", "convert", "open_md", "fill_md", "done"}
Errors == {"not_found", "file_not_found", "no_oa_pdf", "not_pdf", "download_failed",
           "docling_not_configured", "conversion_failed"}
Outcomes == {"path", "markdown", "killed", "none"} \cup Errors

\* A call: the place in the order it has come to, the URLs that failed, the file it
\* opened or loaded, the source it will name, what was there when it began.
Call == [stage : Stages, next : 1..(Len(Order) + 1), failed : Seq(Urls),
         file : PdfFile, source : Sources \cup {"none"}, polls : 0..MaxPolls,
         hadPdf : BOOLEAN, hadMd : BOOLEAN, outcome : Outcomes, text : MdFile]

TypeOK ==
    /\ wish \in Wishes
    /\ pdf \in [Paths -> PdfFile]
    /\ md \in [MdKeys -> MdFile]
    /\ call \in [Callers -> Call]
    /\ killed \in BOOLEAN
    /\ \A c \in Callers : call[c].outcome # "none" <=> call[c].stage = "done"

New == [stage |-> "new", next |-> 1, failed |-> <<>>, file |-> NoPdf, source |-> "none", polls |-> 0,
        hadPdf |-> FALSE, hadMd |-> FALSE, outcome |-> "none", text |-> NoMd]

Tool(c) == wish[c].tool
Path(c) == wish[c].path

\* What may lie at a path at the beginning: nothing, a page an old release saved
\* for a paper's PDF, or a PDF the user placed there.
Found(p) ==
    LET tools == {Tool(c) : c \in {d \in Callers : Path(d) = p}}
    IN {"none"} \cup (IF "local" \in tools THEN {"whole"} ELSE {})
                \cup (IF tools \subseteq PaperTools \cup {"by_url"} THEN {"junk"} ELSE {})

Init ==
    /\ wish \in Wishes
    /\ \E found \in [Paths -> {"none", "junk", "whole"}] :
         /\ \A p \in Paths : found[p] \in Found(p)
         /\ pdf = [p \in Paths |-> [NoPdf EXCEPT !.bytes = found[p]]]
    /\ md = [k \in MdKeys |-> NoMd]
    /\ call = [c \in Callers |-> New]
    /\ killed = FALSE

MdKey(c) == <<Stem[Path(c)], wish[c].vlm>>

\* The places in the order that know a URL, those still to be tried, and the next.
Candidates(c) == {i \in DOMAIN Order : Order[i] \in DOMAIN wish[c].known}
Left(c) == {i \in Candidates(c) : i >= call[c].next}
Turn(c) == Min(Left(c))
Candidate(c) == Order[Turn(c)]
Url(c) == wish[c].known[Candidate(c)]
SeenUrls(c) == {wish[c].known[Order[i]] : i \in Candidates(c) \ Left(c)}

At(c, stage) == call[c].stage = stage
Moves(c, changed) == call' = [call EXCEPT ![c] = changed]
Goes(c, stage) == Moves(c, [call[c] EXCEPT !.stage = stage])
Answer(c, outcome) == Moves(c, [call[c] EXCEPT !.stage = "done", !.outcome = outcome])

\* Whether a call is about to put a PDF at p.
Busy(p) == \E c \in Callers : /\ Path(c) = p
                              /\ ~At(c, "new")
                              /\ call[c].stage \notin {"have", "read", "load", "convert", "open_md",
                                                       "fill_md", "done"}

-----------------------------------------------------------------------------
\* Where a call enters: a patent is taken from its file whatever that holds.
Entrance(c) ==
    CASE Tool(c) \in PaperTools -> "candidate"
      [] Tool(c) = "by_url" -> "check"
      [] Tool(c) = "patent" -> IF pdf[Path(c)] = NoPdf THEN "download" ELSE "have"
      [] Tool(c) = "local" -> "have"

Begun(c) == [call[c] EXCEPT !.hadPdf = pdf[Path(c)].bytes = "whole" /\ ~Busy(Path(c)),
                            !.hadMd = md[MdKey(c)] # NoMd]

\* The call begins: a paper is looked up, a local file must exist.
Begin(c) ==
    /\ At(c, "new")
    /\ IF Tool(c) = "local" /\ (~wish[c].docling \/ pdf[Path(c)] = NoPdf)
       THEN Moves(c, [Begun(c) EXCEPT !.stage = "done",
                         !.outcome = IF wish[c].docling THEN "file_not_found" ELSE "docling_not_configured"])
       ELSE \/ Moves(c, [Begun(c) EXCEPT !.stage = Entrance(c)])
            \/ /\ Tool(c) \in PaperTools
               /\ Moves(c, [Begun(c) EXCEPT !.stage = "done", !.outcome = "not_found"])
    /\ UNCHANGED <<wish, pdf, md, killed>>

\* Mutated Propose: the file is not looked at.
ProposeBlind(c) ==
    /\ At(c, "candidate") /\ Left(c) # {}
    /\ \E listed \in IF Candidate(c) = "unpaywall" THEN BOOLEAN ELSE {TRUE} :
         IF listed /\ Url(c) \notin SeenUrls(c)
         THEN Moves(c, [call[c] EXCEPT !.source = Candidate(c), !.stage = "download"])
         ELSE Moves(c, [call[c] EXCEPT !.next = Turn(c) + 1])
    /\ UNCHANGED <<wish, pdf, md, killed>>

\* The next candidate of a paper: each URL once, Unpaywall asked only now (and
\* perhaps in vain).  The file is looked at before the first download only.
Propose(c) ==
    /\ At(c, "candidate") /\ Left(c) # {}
    /\ \E listed \in IF Candidate(c) = "unpaywall" THEN BOOLEAN ELSE {TRUE} :
         IF listed /\ Url(c) \notin SeenUrls(c)
         THEN Moves(c, [call[c] EXCEPT !.source = Candidate(c),
                                       !.stage = IF call[c].failed = <<>> THEN "check" ELSE "download"])
         ELSE Moves(c, [call[c] EXCEPT !.next = Turn(c) + 1])
    /\ UNCHANGED <<wish, pdf, md, killed>>

\* No candidate is left.
Exhausted(c) ==
    /\ At(c, "candidate") /\ Left(c) = {}
    /\ IF call[c].failed = <<>> THEN Answer(c, "no_oa_pdf")
       ELSE \E error \in {"not_pdf", "download_failed"} : Answer(c, error)
    /\ UNCHANGED <<wish, pdf, md, killed>>

\* The cached file is opened and its header read ...
CheckOpens(c) ==
    /\ At(c, "check")
    /\ IF pdf[Path(c)] = NoPdf THEN Goes(c, "download")
       ELSE Moves(c, [call[c] EXCEPT !.file = pdf[Path(c)], !.stage = "compare"])
    /\ UNCHANGED <<wish, pdf, md, killed>>

\* ... and it counts if it has the header and is still the file at the path.
CheckCompares(c) ==
    /\ At(c, "compare")
    /\ Goes(c, IF call[c].file.bytes \in {"part", "whole"} /\ pdf[Path(c)] = call[c].file
               THEN "have" ELSE "download")
    /\ UNCHANGED <<wish, pdf, md, killed>>

\* Mutated Download: the first URL without a PDF ends the call.
DownloadOnce(c) ==
    /\ At(c, "download")
    /\ \/ Goes(c, IF Tool(c) = "patent" THEN "truncate" ELSE "publish")
       \/ \E error \in {"not_pdf", "download_failed"} :
            Moves(c, [call[c] EXCEPT !.failed = Append(@, Url(c)), !.stage = "done", !.outcome = error])
    /\ UNCHANGED <<wish, pdf, md, killed>>

\* The candidate serves a PDF, or something else, or fails (refused addresses and
\* EPO errors are failures too).
Download(c) ==
    /\ At(c, "download")
    /\ \/ Goes(c, IF Tool(c) = "patent" THEN "truncate" ELSE "publish")
       \/ /\ Tool(c) \in PaperTools
          /\ Moves(c, [call[c] EXCEPT !.failed = Append(@, Url(c)), !.next = Turn(c) + 1,
                                      !.stage = "candidate"])
       \/ Tool(c) \notin PaperTools /\ \E error \in {"not_pdf", "download_failed"} : Answer(c, error)
    /\ UNCHANGED <<wish, pdf, md, killed>>

Downloaded(c, bytes) == [bytes |-> bytes, of |-> Url(c), by |-> c]

\* Mutated Publish: a download is written in place.
PublishInPlace(c) ==
    /\ At(c, "publish")
    /\ pdf' = [pdf EXCEPT ![Path(c)] = Downloaded(c, "part")]
    /\ Goes(c, "fill")
    /\ UNCHANGED <<wish, md, killed>>

\* A verified download takes the place of whatever is there.
Publish(c) ==
    /\ At(c, "publish")
    /\ pdf' = [pdf EXCEPT ![Path(c)] = Downloaded(c, "whole")]
    /\ Goes(c, "have")
    /\ UNCHANGED <<wish, md, killed>>

\* A patent is written in place.
PatentTruncates(c) ==
    /\ At(c, "truncate")
    /\ pdf' = [pdf EXCEPT ![Path(c)] = Downloaded(c, "part")]
    /\ Goes(c, "fill")
    /\ UNCHANGED <<wish, md, killed>>

PatentFills(c) ==
    /\ At(c, "fill")
    /\ pdf' = [pdf EXCEPT ![Path(c)] = Downloaded(c, "whole")]
    /\ Goes(c, "have")
    /\ UNCHANGED <<wish, md, killed>>

\* The PDF is there: the answer, or its markdown from the file or from docling.
Have(c) ==
    /\ At(c, "have")
    /\ CASE Tool(c) = "fetch_paper" -> Answer(c, "path")
         [] Tool(c) # "fetch_paper" /\ ~wish[c].docling ->
              Answer(c, IF Tool(c) = "convert_paper" THEN "docling_not_configured" ELSE "path")
         [] OTHER -> Goes(c, IF md[MdKey(c)] = NoMd THEN "load" ELSE "read")
    /\ UNCHANGED <<wish, pdf, md, killed>>

ReadMd(c) ==
    /\ At(c, "read")
    /\ Moves(c, [call[c] EXCEPT !.stage = "done", !.outcome = "markdown", !.text = md[MdKey(c)]])
    /\ UNCHANGED <<wish, pdf, md, killed>>

Load(c) ==
    /\ At(c, "load")
    /\ Moves(c, [call[c] EXCEPT !.stage = "convert", !.file = pdf[Path(c)]])
    /\ UNCHANGED <<wish, pdf, md, killed>>

\* One poll of the conversion.  A patent is answered without its markdown when
\* that fails.
Poll(c) ==
    /\ At(c, "convert")
    /\ \/ call[c].polls + 1 < MaxPolls /\ Moves(c, [call[c] EXCEPT !.polls = @ + 1])
       \/ Goes(c, "open_md")
       \/ Answer(c, IF Tool(c) = "patent" THEN "path" ELSE "conversion_failed")
    /\ UNCHANGED <<wish, pdf, md, killed>>

\* The markdown is written in place, the file emptied first ...
OpenMd(c) ==
    /\ At(c, "open_md")
    /\ md' = [md EXCEPT ![MdKey(c)] = [bytes |-> "part", from |-> call[c].file]]
    /\ Goes(c, "fill_md")
    /\ UNCHANGED <<wish, pdf, killed>>

\* ... and where a call that opened it too has written meanwhile, the end of the
\* longer text may stay.
FillMd(c) ==
    /\ At(c, "fill_md")
    /\ LET mine == [bytes |-> "whole", from |-> call[c].file]
           overlaps == md[MdKey(c)].bytes # "part"
       IN /\ \E written \in {mine} \cup IF overlaps THEN {[mine EXCEPT !.bytes = "mixed"]} ELSE {} :
               md' = [md EXCEPT ![MdKey(c)] = written]
          /\ Moves(c, [call[c] EXCEPT !.stage = "done", !.outcome = "markdown", !.text = mine])
    /\ UNCHANGED <<wish, pdf, killed>>

\* The process is killed: what it wrote stays as it is.
Kill ==
    /\ ~killed
    /\ killed' = TRUE
    /\ call' = [c \in Callers |-> IF call[c].stage \in {"new", "done"} THEN call[c]
                                  ELSE [call[c] EXCEPT !.stage = "done", !.outcome = "killed"]]
    /\ UNCHANGED <<wish, pdf, md>>

Step(c) ==
    \/ Propose(c) \/ Exhausted(c) \/ CheckOpens(c) \/ CheckCompares(c) \/ Download(c) \/ Publish(c)
    \/ PatentTruncates(c) \/ PatentFills(c) \/ Have(c) \/ ReadMd(c) \/ Load(c) \/ Poll(c)
    \/ OpenMd(c) \/ FillMd(c)

Next == Kill \/ \E c \in Callers : Begin(c) \/ Step(c)

Spec == Init /\ [][Next]_vars

\* Downloads and conversions answer or time out; nobody has to call.
FairSpec == Spec /\ WF_vars(\E c \in Callers : Step(c))

-----------------------------------------------------------------------------
\* A paper or URL call that has got its PDF (_ensure_paper_pdf has returned)
\* finds a whole one at its path from then on, and what it gives to docling is
\* whole, whatever others download there and wherever the process is killed:
\* neither an old page nor partial bytes are ever used.
OnlyWholePdfs ==
    \A c \in Callers : Tool(c) \in PaperTools \cup {"by_url"} =>
        /\ call[c].stage \in {"have", "read", "load", "convert", "open_md", "fill_md"} =>
             pdf[Path(c)].bytes = "whole"
        /\ call[c].stage \in {"convert", "open_md", "fill_md"} => call[c].file.bytes = "whole"

\* A paper call that answers without a PDF has tried every URL the record knows,
\* once each and in order, before it asked Unpaywall; "no_oa_pdf" says there was
\* none to try (docs/design/pdf-downloads.md).
FailureNamesEverySource ==
    \A c \in Callers :
        LET static == {wish[c].known[s] : s \in DOMAIN wish[c].known \ {"unpaywall"}}
            asking == At(c, "candidate") /\ Left(c) # {} /\ Candidate(c) = "unpaywall"
        IN Tool(c) \in PaperTools =>
             /\ IsInjective(call[c].failed)
             /\ asking \/ call[c].outcome \in {"no_oa_pdf", "not_pdf", "download_failed"} =>
                  static \subseteq ToSet(call[c].failed)
             /\ call[c].outcome = "no_oa_pdf" => static = {}

\* A call that begins when its PDF is there and nobody is replacing it downloads
\* nothing, and one that begins when its markdown file is there converts nothing,
\* whatever calls begin after it ("never fetched twice", "converts once",
\* docs/use/pdf-conversion.md).
NothingTwice ==
    \A c \in Callers :
        /\ call[c].hadPdf => call[c].stage \notin {"download", "publish", "truncate", "fill"}
        /\ call[c].hadMd => call[c].stage \notin {"load", "convert", "open_md", "fill_md"}

\* A fetch of a PDF tries all that it may, each source once, and nothing whose
\* file is there.
TriesEverythingOnce == TypeOK /\ FailureNamesEverySource /\ NothingTwice

\* The source a paper call names when it answers is the one the file at its path
\* was obtained from.
SourceIsTrue ==
    [][\A c \in Callers :
         /\ Tool(c) \in PaperTools
         /\ call[c].outcome = "none" /\ call'[c].outcome \in {"path", "markdown"}
         => wish[c].known[call[c].source] = pdf[Path(c)].of]_vars

\* Every call that has begun ends: again and again none is under way.
CallsEnd == []<>(\A c \in Callers : At(c, "new") \/ At(c, "done"))
=============================================================================
