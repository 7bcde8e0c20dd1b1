---------------------------- MODULE DocumentProofs ----------------------------
(* Only whole PDFs are used, every source is tried once and nothing is done     *)
(* twice, for any number of calls, papers and URLs; the windows of page_text    *)
(* tile the text, for texts and sizes of any length; a standard's text is of    *)
(* one document; and a bibliography can be used, whoever its authors are.       *)
EXTENDS PdfTools, TextWindow, FullText, Citations, SequenceTheorems, FiniteSetTheorems, WellFoundedInduction, TLAPS

Getters == PaperTools \cup {"by_url"}
Writing == {"truncate", "fill"}
Holding == {"convert", "open_md", "fill_md"}
Past == {"have", "read", "load"} \cup Holding

\* No URL is saved under the name of a patent (its caller chooses the name).
PatentsApart ==
    \A w \in Wishes : \A c, d \in Callers :
        w[c].tool = "patent" /\ w[d].tool \in Getters => w[c].path # w[d].path

\* The fields of a call, and nothing else.
Fields == {"stage", "next", "failed", "file", "source", "polls", "hadPdf", "hadMd", "outcome", "text"}
Proper(r) == r = [f \in Fields |-> r[f]]

Shaped ==
    /\ wish \in Wishes
    /\ pdf = [p \in Paths |-> pdf[p]]
    /\ call = [c \in Callers |-> call[c]]
    /\ \A c \in Callers : Proper(call[c])

\* What is inductive: the files of papers and URLs are never partial, and only a
\* patent is written in place.
WholeInv ==
    \A c \in Callers :
        /\ call[c].stage \in Writing => Tool(c) = "patent"
        /\ Tool(c) \in Getters =>
             /\ pdf[Path(c)].bytes # "part"
             /\ call[c].stage \in Past => pdf[Path(c)].bytes = "whole"
             /\ call[c].stage \in Holding => call[c].file.bytes = "whole"

LEMMA WishesFit ==
    ASSUME Shaped, NEW c \in Callers
    PROVE  Tool(c) \in Tools /\ Path(c) \in Paths
BY PdfAssumption DEF Shaped, Wish, Tool, Path

\* A call that changes leaves the others as they are.
LEMMA OthersStay ==
    ASSUME Shaped, NEW c \in Callers, NEW r, Proper(r), Moves(c, r)
    PROVE  /\ call' = [d \in Callers |-> call'[d]]
           /\ call'[c] = r
           /\ \A d \in Callers \ {c} : call'[d] = call[d]
           /\ \A d \in Callers : Proper(call'[d])
<1>1. call' = [d \in Callers |-> IF d = c THEN r ELSE call[d]]
  BY DEF Shaped, Moves
<1>2. call'[c] = r /\ \A d \in Callers \ {c} : call'[d] = call[d]
  BY <1>1
<1>3. \A d \in Callers : Proper(call'[d])
  BY <1>2 DEF Shaped
<1> QED BY <1>1, <1>2, <1>3

\* What the new state of a call must satisfy where the PDFs stay.
Fits(c, r) ==
    /\ Proper(r)
    /\ r.stage \in Writing => Tool(c) = "patent"
    /\ Tool(c) \in Getters =>
         /\ r.stage \in Past => pdf[Path(c)].bytes = "whole"
         /\ r.stage \in Holding => r.file.bytes = "whole"

\* A step of a call that touches no PDF.
LEMMA QuietStep ==
    ASSUME Shaped, WholeInv, NEW c \in Callers, NEW r, Fits(c, r), Moves(c, r), UNCHANGED <<wish, pdf>>
    PROVE  (Shaped /\ WholeInv)'
<1>1. /\ call' = [d \in Callers |-> call'[d]]
      /\ call'[c] = r
      /\ \A d \in Callers \ {c} : call'[d] = call[d]
      /\ \A d \in Callers : Proper(call'[d])
  BY OthersStay DEF Fits
<1>2. Shaped'
  BY <1>1 DEF Shaped, Proper
<1>3. ASSUME NEW d \in Callers
      PROVE  /\ call'[d].stage \in Writing => Tool(d)' = "patent"
             /\ Tool(d)' \in Getters =>
                  /\ pdf'[Path(d)'].bytes # "part"
                  /\ call'[d].stage \in Past => pdf'[Path(d)'].bytes = "whole"
                  /\ call'[d].stage \in Holding => call'[d].file.bytes = "whole"
  <2>1. Tool(d)' = Tool(d) /\ Path(d)' = Path(d) /\ pdf' = pdf
    BY DEF Tool, Path
  <2>2. CASE d = c
    BY <1>1, <2>1, <2>2 DEF Fits, WholeInv
  <2>3. CASE d # c
    BY <1>1, <2>1, <2>3 DEF WholeInv
  <2> QED BY <2>2, <2>3
<1>4. WholeInv'
  BY <1>3 DEF WholeInv
<1> QED BY <1>2, <1>4

\* A step that writes a PDF: a patent's, or a whole one.
LEMMA WriteStep ==
    ASSUME PatentsApart, Shaped, WholeInv, NEW c \in Callers, NEW r, Proper(r), Moves(c, r), NEW f,
           pdf' = [pdf EXCEPT ![Path(c)] = f], UNCHANGED wish,
           Tool(c) = "patent" \/ (f.bytes = "whole" /\ r.stage = "have")
    PROVE  (Shaped /\ WholeInv)'
<1>1. /\ call' = [d \in Callers |-> call'[d]]
      /\ call'[c] = r
      /\ \A d \in Callers \ {c} : call'[d] = call[d]
      /\ \A d \in Callers : Proper(call'[d])
  BY OthersStay
<1>2. /\ pdf' = [p \in Paths |-> pdf'[p]]
      /\ pdf'[Path(c)] = f
      /\ \A p \in Paths \ {Path(c)} : pdf'[p] = pdf[p]
  BY WishesFit DEF Shaped
<1>3. Shaped'
  BY <1>1, <1>2 DEF Shaped, Proper
<1>4. ASSUME NEW d \in Callers
      PROVE  /\ call'[d].stage \in Writing => Tool(d)' = "patent"
             /\ Tool(d)' \in Getters =>
                  /\ pdf'[Path(d)'].bytes # "part"
                  /\ call'[d].stage \in Past => pdf'[Path(d)'].bytes = "whole"
                  /\ call'[d].stage \in Holding => call'[d].file.bytes = "whole"
  <2>1. Tool(d)' = Tool(d) /\ Path(d)' = Path(d) /\ Path(d) \in Paths
    BY WishesFit DEF Tool, Path
  <2>2. call'[d].stage \in Writing => Tool(d) = "patent"
    BY <1>1 DEF WholeInv, Writing
  <2>3. ASSUME Tool(d) \in Getters
        PROVE  /\ pdf'[Path(d)].bytes # "part"
               /\ call'[d].stage \in Past => pdf'[Path(d)].bytes = "whole"
               /\ call'[d].stage \in Holding => call'[d].file.bytes = "whole"
    <3>1. CASE Path(d) # Path(c)
      <4>1. pdf'[Path(d)] = pdf[Path(d)] /\ call'[d] = call[d]
        BY <1>1, <1>2, <2>1, <3>1
      <4> QED BY <2>3, <4>1 DEF WholeInv
    <3>2. CASE Path(d) = Path(c)
      <4>1. Tool(c) # "patent"
        BY <2>3, <3>2 DEF PatentsApart, Shaped, Tool, Path
      <4>2. pdf'[Path(d)].bytes = "whole" /\ r.stage = "have"
        BY <1>2, <3>2, <4>1
      <4>3. call'[d].stage \in Holding => call'[d].file.bytes = "whole"
        BY <1>1, <2>3, <4>2 DEF WholeInv, Holding
      <4> QED BY <4>2, <4>3
    <3> QED BY <3>1, <3>2
  <2> QED BY <2>1, <2>2, <2>3
<1>5. WholeInv'
  BY <1>4 DEF WholeInv
<1> QED BY <1>3, <1>5

\* A changed stage makes no other record of a call.
LEMMA Changed ==
    ASSUME NEW q, Proper(q), NEW s
    PROVE  /\ Proper([q EXCEPT !.stage = s])
           /\ [q EXCEPT !.stage = s].stage = s
           /\ [q EXCEPT !.stage = s].file = q.file
BY DEF Proper, Fields

LEMMA BegunIsProper ==
    ASSUME Shaped, NEW c \in Callers
    PROVE  Proper(Begun(c))
<1>1. ASSUME NEW x, NEW y PROVE Proper([call[c] EXCEPT !.hadPdf = x, !.hadMd = y])
  BY DEF Shaped, Proper, Fields
<1> QED BY <1>1, Zenon DEF Begun

\* A new state in no stage past the PDF always fits.
LEMMA EarlyFits ==
    ASSUME NEW c \in Callers, NEW r, Proper(r), r.stage \notin Writing \cup Past
    PROVE  Fits(c, r)
BY DEF Fits, Writing, Past, Holding

LEMMA BeginKeeps ==
    ASSUME Shaped, WholeInv, NEW c \in Callers, Begin(c)
    PROVE  (Shaped /\ WholeInv)'
<1>1. ASSUME NEW o, Moves(c, [Begun(c) EXCEPT !.stage = "done", !.outcome = o])
      PROVE  (Shaped /\ WholeInv)'
  <2> DEFINE r == [Begun(c) EXCEPT !.stage = "done", !.outcome = o]
  <2>0. Proper(Begun(c))
    BY BegunIsProper
  <2>1. Proper(r) /\ r.stage = "done"
    BY <2>0 DEF Proper, Fields
  <2> HIDE DEF r
  <2>2. Fits(c, r)
    BY <2>1, EarlyFits DEF Writing, Past, Holding
  <2>3. Moves(c, r)
    BY <1>1 DEF r
  <2> QED BY <2>2, <2>3, QuietStep DEF Begin
<1>2. ASSUME Moves(c, [Begun(c) EXCEPT !.stage = Entrance(c)])
      PROVE  (Shaped /\ WholeInv)'
  <2> DEFINE r == [Begun(c) EXCEPT !.stage = Entrance(c)]
  <2>1. Proper(r) /\ r.stage = Entrance(c)
    BY BegunIsProper, Changed
  <2>2. /\ Entrance(c) \in {"candidate", "check", "download", "have"}
        /\ Entrance(c) = "have" => Tool(c) \notin Getters
    BY WishesFit DEF Entrance, Tools, ConvertingTools, PaperTools, Getters
  <2> HIDE DEF r
  <2>3. Fits(c, r)
    BY <2>1, <2>2 DEF Fits, Writing, Past, Holding
  <2>4. Moves(c, r)
    BY <1>2 DEF r
  <2> QED BY <2>3, <2>4, QuietStep DEF Begin
<1>3. \/ Moves(c, [Begun(c) EXCEPT !.stage = Entrance(c)])
      \/ \E o : Moves(c, [Begun(c) EXCEPT !.stage = "done", !.outcome = o])
  BY Zenon DEF Begin
<1> QED BY <1>1, <1>2, <1>3

\* A call goes to a stage before its PDF, or ends.
LEMMA EarlyStep ==
    ASSUME Shaped, WholeInv, NEW c \in Callers, NEW r, Proper(r), r.stage \notin Writing \cup Past,
           Moves(c, r), UNCHANGED <<wish, pdf>>
    PROVE  (Shaped /\ WholeInv)'
BY EarlyFits, QuietStep

LEMMA AnswerKeeps ==
    ASSUME Shaped, WholeInv, NEW c \in Callers, NEW o, Answer(c, o), UNCHANGED <<wish, pdf>>
    PROVE  (Shaped /\ WholeInv)'
<1> DEFINE r == [call[c] EXCEPT !.stage = "done", !.outcome = o]
<1>1. Proper(call[c])
  BY DEF Shaped
<1>2. Proper(r) /\ r.stage = "done"
  BY <1>1 DEF Proper, Fields
<1>3. Moves(c, r)
  BY DEF Answer
<1> HIDE DEF r
<1> QED BY <1>2, <1>3, EarlyStep DEF Writing, Past, Holding

LEMMA GoesKeeps ==
    ASSUME Shaped, WholeInv, NEW c \in Callers, NEW s, Goes(c, s), UNCHANGED <<wish, pdf>>,
           s \in Writing => Tool(c) = "patent",
           Tool(c) \in Getters /\ s \in Past => pdf[Path(c)].bytes = "whole",
           Tool(c) \in Getters /\ s \in Holding => call[c].file.bytes = "whole"
    PROVE  (Shaped /\ WholeInv)'
<1> DEFINE r == [call[c] EXCEPT !.stage = s]
<1>1. Proper(call[c])
  BY DEF Shaped
<1>2. Proper(r) /\ r.stage = s /\ r.file = call[c].file
  BY <1>1, Changed, Zenon
<1>3. Moves(c, r)
  BY DEF Goes
<1> HIDE DEF r
<1>4. Fits(c, r)
  BY <1>2 DEF Fits
<1> QED BY <1>3, <1>4, QuietStep

\* What a call is about to do where it only looks and asks.
LEMMA AskingKeeps ==
    ASSUME Shaped, WholeInv, NEW c \in Callers,
           Propose(c) \/ Exhausted(c) \/ CheckOpens(c) \/ Download(c)
    PROVE  (Shaped /\ WholeInv)'
<1>1. ASSUME Propose(c) PROVE (Shaped /\ WholeInv)'
  <2>1. \/ \E o, s : /\ s \in {"check", "download"}
                     /\ Moves(c, [call[c] EXCEPT !.source = o, !.stage = s])
        \/ \E n : Moves(c, [call[c] EXCEPT !.next = n])
    BY <1>1 DEF Propose
  <2>2. ASSUME NEW o, NEW s \in {"check", "download"},
               Moves(c, [call[c] EXCEPT !.source = o, !.stage = s])
        PROVE  (Shaped /\ WholeInv)'
    <3> DEFINE r == [call[c] EXCEPT !.source = o, !.stage = s]
    <3>1. Proper(r) /\ r.stage = s
      BY DEF Shaped, Proper, Fields
    <3>2. Moves(c, r)
      BY <2>2
    <3> HIDE DEF r
    <3> QED BY <1>1, <3>1, <3>2, EarlyStep DEF Propose, Writing, Past, Holding
  <2>3. ASSUME NEW n, Moves(c, [call[c] EXCEPT !.next = n])
        PROVE  (Shaped /\ WholeInv)'
    <3> DEFINE r == [call[c] EXCEPT !.next = n]
    <3>1. Proper(r) /\ r.stage = "candidate"
      BY <1>1 DEF Shaped, Proper, Fields, Propose, At
    <3>2. Moves(c, r)
      BY <2>3
    <3> HIDE DEF r
    <3> QED BY <1>1, <3>1, <3>2, EarlyStep DEF Propose, Writing, Past, Holding
  <2> QED BY <2>1, <2>2, <2>3
<1>2. ASSUME Exhausted(c) PROVE (Shaped /\ WholeInv)'
  <2>1. \E o : Answer(c, o)
    BY <1>2 DEF Exhausted
  <2> QED BY <1>2, <2>1, AnswerKeeps DEF Exhausted
<1>3. ASSUME CheckOpens(c) PROVE (Shaped /\ WholeInv)'
  <2>1. CASE Goes(c, "download")
    BY <1>3, <2>1, GoesKeeps DEF CheckOpens, Writing, Past, Holding
  <2>2. CASE Moves(c, [call[c] EXCEPT !.file = pdf[Path(c)], !.stage = "compare"])
    <3> DEFINE r == [call[c] EXCEPT !.file = pdf[Path(c)], !.stage = "compare"]
    <3>1. Proper(r) /\ r.stage = "compare"
      BY DEF Shaped, Proper, Fields
    <3>2. Moves(c, r)
      BY <2>2
    <3> HIDE DEF r
    <3> QED BY <1>3, <3>1, <3>2, EarlyStep DEF CheckOpens, Writing, Past, Holding
  <2> QED BY <1>3, <2>1, <2>2 DEF CheckOpens
<1>4. ASSUME Download(c) PROVE (Shaped /\ WholeInv)'
  <2>1. CASE Goes(c, IF Tool(c) = "patent" THEN "truncate" ELSE "publish")
    <3>1. CASE Tool(c) = "patent"
      BY <1>4, <2>1, <3>1, GoesKeeps DEF Download, Getters, PaperTools, Writing, Past, Holding
    <3>2. CASE Tool(c) # "patent"
      BY <1>4, <2>1, <3>2, GoesKeeps DEF Download, Writing, Past, Holding
    <3> QED BY <3>1, <3>2
  <2>2. CASE \E f, n : Moves(c, [call[c] EXCEPT !.failed = f, !.next = n, !.stage = "candidate"])
    <3>1. PICK f, n : Moves(c, [call[c] EXCEPT !.failed = f, !.next = n, !.stage = "candidate"])
      BY <2>2
    <3> DEFINE r == [call[c] EXCEPT !.failed = f, !.next = n, !.stage = "candidate"]
    <3>2. Proper(r) /\ r.stage = "candidate"
      BY DEF Shaped, Proper, Fields
    <3>3. Moves(c, r)
      BY <3>1
    <3> HIDE DEF r
    <3> QED BY <1>4, <3>2, <3>3, EarlyStep DEF Download, Writing, Past, Holding
  <2>3. CASE \E o : Answer(c, o)
    BY <1>4, <2>3, AnswerKeeps DEF Download
  <2>4. \/ Goes(c, IF Tool(c) = "patent" THEN "truncate" ELSE "publish")
        \/ \E f, n : Moves(c, [call[c] EXCEPT !.failed = f, !.next = n, !.stage = "candidate"])
        \/ \E o : Answer(c, o)
    BY <1>4 DEF Download
  <2> QED BY <2>1, <2>2, <2>3, <2>4
<1> QED BY <1>1, <1>2, <1>3, <1>4

\* What a call does at the files.
LEMMA FilingKeeps ==
    ASSUME PatentsApart, Shaped, WholeInv, NEW c \in Callers,
           \/ CheckCompares(c) \/ Publish(c) \/ PatentTruncates(c) \/ PatentFills(c)
    PROVE  (Shaped /\ WholeInv)'
<1>1. ASSUME CheckCompares(c) PROVE (Shaped /\ WholeInv)'
  <2>1. CASE call[c].file.bytes \in {"part", "whole"} /\ pdf[Path(c)] = call[c].file
    <3>1. Goes(c, "have") /\ UNCHANGED <<wish, pdf>>
      BY <1>1, <2>1 DEF CheckCompares
    <3>2. Tool(c) \in Getters => pdf[Path(c)].bytes = "whole"
      BY <2>1 DEF WholeInv
    <3> QED BY <3>1, <3>2, GoesKeeps DEF Writing, Holding
  <2>2. CASE ~(call[c].file.bytes \in {"part", "whole"} /\ pdf[Path(c)] = call[c].file)
    <3>1. Goes(c, "download") /\ UNCHANGED <<wish, pdf>>
      BY <1>1, <2>2 DEF CheckCompares
    <3> QED BY <3>1, GoesKeeps DEF Writing, Past, Holding
  <2> QED BY <2>1, <2>2
<1>2. ASSUME NEW s, Goes(c, s), NEW f, pdf' = [pdf EXCEPT ![Path(c)] = f], UNCHANGED wish,
             Tool(c) = "patent" \/ (f.bytes = "whole" /\ s = "have")
      PROVE  (Shaped /\ WholeInv)'
  <2> DEFINE r == [call[c] EXCEPT !.stage = s]
  <2>1. Proper(r) /\ r.stage = s
    BY DEF Shaped, Proper, Fields
  <2>2. Moves(c, r)
    BY <1>2 DEF Goes
  <2> HIDE DEF r
  <2> QED BY <1>2, <2>1, <2>2, WriteStep
<1>3. \A b : Downloaded(c, b).bytes = b
  BY DEF Downloaded
<1>4. ASSUME Publish(c) PROVE (Shaped /\ WholeInv)'
  BY <1>2, <1>3, <1>4 DEF Publish
<1>5. ASSUME PatentTruncates(c) PROVE (Shaped /\ WholeInv)'
  <2>1. Tool(c) = "patent"
    BY <1>5 DEF PatentTruncates, At, WholeInv, Writing
  <2> QED BY <1>2, <1>5, <2>1 DEF PatentTruncates
<1>6. ASSUME PatentFills(c) PROVE (Shaped /\ WholeInv)'
  BY <1>2, <1>3, <1>6 DEF PatentFills
<1> QED BY <1>1, <1>4, <1>5, <1>6

\* What a call does with the PDF it has.
LEMMA UsingKeeps ==
    ASSUME Shaped, WholeInv, NEW c \in Callers,
           Have(c) \/ ReadMd(c) \/ Load(c) \/ Poll(c) \/ OpenMd(c) \/ FillMd(c)
    PROVE  (Shaped /\ WholeInv)'
<1> USE DEF At
<1>1. ASSUME Have(c) PROVE (Shaped /\ WholeInv)'
  <2>1. \/ \E o : Answer(c, o)
        \/ \E s \in {"load", "read"} : Goes(c, s)
    BY <1>1 DEF Have
  <2>2. Tool(c) \in Getters => pdf[Path(c)].bytes = "whole"
    BY <1>1 DEF Have, WholeInv, Past
  <2>3. ASSUME NEW s \in {"load", "read"}, Goes(c, s) PROVE (Shaped /\ WholeInv)'
    BY <1>1, <2>2, <2>3, GoesKeeps DEF Have, Writing, Holding
  <2> QED BY <1>1, <2>1, <2>3, AnswerKeeps DEF Have
<1>2. ASSUME NEW m, \/ Moves(c, [call[c] EXCEPT !.stage = "done", !.outcome = "markdown", !.text = m]),
             UNCHANGED <<wish, pdf>>
      PROVE  (Shaped /\ WholeInv)'
  <2> DEFINE r == [call[c] EXCEPT !.stage = "done", !.outcome = "markdown", !.text = m]
  <2>1. Proper(r) /\ r.stage = "done"
    BY DEF Shaped, Proper, Fields
  <2>2. Moves(c, r)
    BY <1>2
  <2> HIDE DEF r
  <2> QED BY <1>2, <2>1, <2>2, EarlyStep DEF Writing, Past, Holding
<1>3. ASSUME Load(c) PROVE (Shaped /\ WholeInv)'
  <2> DEFINE r == [call[c] EXCEPT !.stage = "convert", !.file = pdf[Path(c)]]
  <2>1. Proper(r) /\ r.stage = "convert" /\ r.file = pdf[Path(c)]
    BY DEF Shaped, Proper, Fields
  <2>2. Moves(c, r)
    BY <1>3 DEF Load
  <2>3. Tool(c) \in Getters => pdf[Path(c)].bytes = "whole"
    BY <1>3 DEF Load, WholeInv, Past
  <2> HIDE DEF r
  <2>4. Fits(c, r)
    BY <2>1, <2>3 DEF Fits, Writing
  <2> QED BY <1>3, <2>2, <2>4, QuietStep DEF Load
<1>4. ASSUME call[c].stage \in Holding, NEW s \in Holding, Goes(c, s), UNCHANGED <<wish, pdf>>
      PROVE  (Shaped /\ WholeInv)'
  <2>1. Tool(c) \in Getters => pdf[Path(c)].bytes = "whole" /\ call[c].file.bytes = "whole"
    BY <1>4 DEF WholeInv, Past
  <2> QED BY <1>4, <2>1, GoesKeeps DEF Writing, Holding
<1>5. ASSUME Poll(c) PROVE (Shaped /\ WholeInv)'
  <2>1. \/ Moves(c, [call[c] EXCEPT !.polls = @ + 1])
        \/ Goes(c, "open_md")
        \/ \E o : Answer(c, o)
    BY <1>5 DEF Poll
  <2>2. ASSUME NEW n, Moves(c, [call[c] EXCEPT !.polls = n]) PROVE (Shaped /\ WholeInv)'
    <3> DEFINE r == [call[c] EXCEPT !.polls = n]
    <3>1. Proper(r) /\ r.stage = call[c].stage /\ r.file = call[c].file
      BY DEF Shaped, Proper, Fields
    <3>2. Moves(c, r)
      BY <2>2
    <3> HIDE DEF r
    <3>3. Fits(c, r)
      BY <3>1 DEF Fits, WholeInv
    <3> QED BY <1>5, <3>2, <3>3, QuietStep DEF Poll
  <2> QED BY <1>4, <1>5, <2>1, <2>2, AnswerKeeps DEF Poll, Holding
<1>6. ASSUME OpenMd(c) PROVE (Shaped /\ WholeInv)'
  BY <1>4, <1>6 DEF OpenMd, Holding
<1> QED BY <1>1, <1>2, <1>3, <1>5, <1>6 DEF ReadMd, FillMd

LEMMA KillKeeps ==
    ASSUME Shaped, WholeInv, Kill
    PROVE  (Shaped /\ WholeInv)'
<1>1. ASSUME NEW d \in Callers
      PROVE  /\ Proper(call'[d])
             /\ call'[d] = call[d] \/ call'[d].stage = "done"
  BY DEF Kill, Shaped, Proper, Fields
<1>2. Shaped'
  BY <1>1 DEF Kill, Shaped
<1>3. WholeInv'
  BY <1>1 DEF Kill, WholeInv, Tool, Path, Writing, Past, Holding
<1> QED BY <1>2, <1>3

\* Whoever uses a paper's PDF, or one got from a URL, finds a whole one, as long
\* as no URL is saved under a patent's name.
THEOREM WholePdfsOnly ==
    ASSUME PatentsApart
    PROVE  Spec => []OnlyWholePdfs
<1>1. Init => Shaped /\ WholeInv
  <2> SUFFICES ASSUME Init PROVE Shaped /\ WholeInv
    OBVIOUS
  <2>1. Shaped
    BY DEF Init, Shaped, Proper, Fields, New
  <2>2. ASSUME NEW c \in Callers
        PROVE  call[c].stage = "new" /\ pdf[Path(c)].bytes # "part"
    BY <2>1, WishesFit DEF Init, New, NoPdf
  <2>3. WholeInv
    BY <2>2 DEF WholeInv, Writing, Past, Holding
  <2> QED BY <2>1, <2>3
<1>2. Shaped /\ WholeInv /\ [Next]_vars => (Shaped /\ WholeInv)'
  <2> SUFFICES ASSUME Shaped, WholeInv, [Next]_vars PROVE (Shaped /\ WholeInv)'
    OBVIOUS
  <2>1. CASE UNCHANGED vars
    BY <2>1 DEF vars, Shaped, WholeInv, Tool, Path, Proper
  <2>2. CASE Kill
    BY <2>2, KillKeeps
  <2>3. ASSUME NEW c \in Callers, Begin(c) \/ Step(c) PROVE (Shaped /\ WholeInv)'
    BY <2>3, BeginKeeps, AskingKeeps, FilingKeeps, UsingKeeps DEF Step
  <2> QED BY <2>1, <2>2, <2>3 DEF Next
<1>3. WholeInv => OnlyWholePdfs
  BY DEF WholeInv, OnlyWholePdfs, Getters, Past, Holding
<1> QED BY <1>1, <1>2, <1>3, PTL DEF Spec

-----------------------------------------------------------------------------
(* TextWindow.                                                               *)

\* A window starts inside the text and goes forward, to the end or by at least
\* one character (the clamps of _text_window.py).
THEOREM WindowIsForward ==
    ASSUME total \in Nat, NEW offset \in Int, NEW size \in Sizes \cup {All}
    PROVE  /\ WindowStart(offset) \in 0..total
           /\ WindowEnd(offset, size) \in WindowStart(offset)..total
           /\ WindowStart(offset) < total => WindowStart(offset) < WindowEnd(offset, size)
<1>1. WindowStart(offset) \in 0..total
  BY DEF WindowStart, Least, Most
<1>2. CASE size = All
  BY <1>1, <1>2 DEF WindowEnd
<1>3. CASE size \in Sizes /\ size # All
  <2>1. size \in Int /\ Cap \in Nat \ {0}
    BY <1>3, WindowAssumption
  <2>2. DEFINE w == Most(1, Least(size, Cap))
  <2>3. w \in Nat \ {0}
    BY <2>1 DEF Most, Least
  <2>4. WindowEnd(offset, size) = Least(WindowStart(offset) + w, total)
    BY <1>3 DEF WindowEnd
  <2> QED BY <1>1, <2>3, <2>4 DEF Least
<1> QED BY <1>1, <1>2, <1>3

\* A slice as a sequence.
LEMMA SliceIsSeq ==
    ASSUME NEW x \in Nat, NEW y \in Nat, x <= y
    PROVE  /\ Slice(x, y) \in Seq(Nat) /\ Len(Slice(x, y)) = y - x
           /\ \A i \in 1..(y - x) : Slice(x, y)[i] = x + i
BY DEF Slice

\* A slice of the text is of its characters.
LEMMA SliceInText ==
    ASSUME NEW x \in Nat, NEW y \in Nat, x <= y, NEW n \in Nat, y <= n
    PROVE  Slice(x, y) \in Seq(1..n)
BY DEF Slice

\* Two adjacent slices are one.
LEMMA SlicesJoin ==
    ASSUME NEW a \in Nat, NEW b \in Nat, NEW c \in Nat, a <= b, b <= c
    PROVE  Slice(a, b) \o Slice(b, c) = Slice(a, c)
<1> DEFINE s == Slice(a, b)
           t == Slice(b, c)
           u == Slice(a, c)
<1>1. a <= c
  OBVIOUS
<1>2. /\ s \in Seq(Nat) /\ Len(s) = b - a /\ \A i \in 1..(b - a) : s[i] = a + i
      /\ t \in Seq(Nat) /\ Len(t) = c - b /\ \A i \in 1..(c - b) : t[i] = b + i
      /\ u \in Seq(Nat) /\ Len(u) = c - a /\ \A i \in 1..(c - a) : u[i] = a + i
  <2>1. s \in Seq(Nat) /\ Len(s) = b - a /\ \A i \in 1..(b - a) : s[i] = a + i
    BY SliceIsSeq
  <2>2. t \in Seq(Nat) /\ Len(t) = c - b /\ \A i \in 1..(c - b) : t[i] = b + i
    BY SliceIsSeq
  <2>3. u \in Seq(Nat) /\ Len(u) = c - a /\ \A i \in 1..(c - a) : u[i] = a + i
    BY <1>1, SliceIsSeq
  <2> QED BY <2>1, <2>2, <2>3
<1> HIDE DEF s, t, u
<1>3. /\ s \o t \in Seq(Nat)
      /\ Len(s \o t) = Len(s) + Len(t)
      /\ \A i \in 1..(Len(s) + Len(t)) :
            (s \o t)[i] = IF i <= Len(s) THEN s[i] ELSE t[i - Len(s)]
  BY <1>2, ConcatProperties, Zenon
<1>4. Len(s \o t) = Len(u)
  BY <1>2, <1>3
<1>5. ASSUME NEW i \in 1..Len(u) PROVE (s \o t)[i] = u[i]
  <2>1. CASE i <= Len(s)
    BY <1>2, <1>3, <2>1
  <2>2. CASE i > Len(s)
    <3>1. (s \o t)[i] = t[i - Len(s)] /\ i - Len(s) \in 1..(c - b)
      BY <1>2, <1>3, <2>2
    <3>2. t[i - Len(s)] = b + (i - Len(s))
      BY <1>2, <3>1
    <3> QED BY <1>2, <3>1, <3>2
  <2> QED BY <1>2, <2>1, <2>2
<1>6. s \o t = u
  BY <1>2, <1>3, <1>4, <1>5, SeqEqual
<1> QED BY <1>6 DEF s, t, u

\* What is inductive: the reader is where a window ended, or has had none.
ReaderInv ==
    /\ total \in Nat /\ from \in Nat /\ next \in Int /\ more \in BOOLEAN
    /\ from <= WindowStart(next)
    /\ PagesTile

\* Every reader of page_text gets the text from its offset on, in order and
\* without gaps or repetitions.
THEOREM WindowsTileTheText ==
    ReaderSpec => []PagesTile
<1>1. ReaderInit => ReaderInv
  <2> SUFFICES ASSUME ReaderInit PROVE ReaderInv
    OBVIOUS
  <2>1. total \in Nat /\ next \in Int
    BY WindowAssumption DEF ReaderInit
  <2>2. from = WindowStart(next) /\ from \in Nat
    BY <2>1 DEF ReaderInit, WindowStart, Least, Most
  <2>3. Slice(from, WindowStart(next)) = <<>>
    BY <2>2 DEF Slice
  <2>4. WindowTypeOK
    BY <2>1, <2>2 DEF ReaderInit, WindowTypeOK
  <2> QED BY <2>1, <2>2, <2>3, <2>4 DEF ReaderInit, ReaderInv, PagesTile
<1>2. ReaderInv /\ [ReaderNext]_readerVars => ReaderInv'
  <2> SUFFICES ASSUME ReaderInv, [ReaderNext]_readerVars PROVE ReaderInv'
    OBVIOUS
  <2>1. CASE UNCHANGED readerVars
    BY <2>1 DEF readerVars, ReaderInv, PagesTile, WindowTypeOK, WindowStart, Slice
  <2>2. ASSUME NEW size \in Sizes \cup {All}, Window(size) PROVE ReaderInv'
    <3> DEFINE start == WindowStart(next)
               end == WindowEnd(next, size)
    <3>1. /\ start \in 0..total /\ end \in start..total
          /\ total \in Nat /\ from \in Nat /\ from <= start
      BY WindowIsForward DEF ReaderInv
    <3>2. next' = end /\ total' = total /\ from' = from /\ more' = (end < total)
      BY <2>2 DEF Window
    <3>3. WindowStart(next)' = end
      BY <3>1, <3>2 DEF WindowStart, Least, Most
    <3>4. got' = Slice(from, start) \o Slice(start, end)
      BY <2>2 DEF Window, ReaderInv, PagesTile
    <3>5. start \in Nat /\ end \in Nat /\ start <= end
      BY <3>1
    <3> HIDE DEF start, end
    <3>6. got' = Slice(from, end)
      BY <3>1, <3>4, <3>5, SlicesJoin
    <3>7. got' = Slice(from, WindowStart(next))'
      BY <3>2, <3>3, <3>6 DEF Slice
    <3>8. ~more' => end = total
      <4>1. ~(end < total) => end = total
        BY <3>1, <3>5
      <4>2. ~more' => ~(end < total)
        BY <3>2, Zenon
      <4> QED BY <4>1, <4>2, Zenon
    <3>9. WindowTypeOK'
      <4>1. total \in Totals /\ total \in Nat /\ from \in Nat /\ from <= end /\ end <= total
        BY <3>1, <3>5 DEF ReaderInv, PagesTile, WindowTypeOK
      <4>2. got' \in Seq(1..total)
        BY <3>5, <3>6, <4>1, SliceInText
      <4>3. more' \in BOOLEAN
        <5> DEFINE met == end < total
        <5>1. met \in BOOLEAN
          OBVIOUS
        <5>2. more' = met
          BY <3>2
        <5> HIDE DEF met
        <5> QED BY <5>1, <5>2
      <4> QED BY <3>2, <3>5, <4>1, <4>2, <4>3 DEF WindowTypeOK
    <3>10. PagesTile'
      BY <3>3, <3>2, <3>7, <3>8, <3>9 DEF PagesTile
    <3> QED BY <3>1, <3>2, <3>3, <3>5, <3>9, <3>10 DEF ReaderInv, WindowTypeOK
  <2> QED BY <2>1, <2>2 DEF ReaderNext
<1>3. ReaderInv => PagesTile
  BY DEF ReaderInv
<1> QED BY <1>1, <1>2, <1>3, PTL DEF ReaderSpec

-----------------------------------------------------------------------------
(* A fetch tries all that it may, and nothing that is there.                 *)

Writers == {"download", "publish", "truncate", "fill"}
Converting == {"load"} \cup Holding
Fetching == {"check", "compare"} \cup Writers
Fruitless == {"no_oa_pdf", "not_pdf", "download_failed"}

\* The places from n on that know a URL, the URLs of those before n, and the next.
From(c, n) == {i \in Candidates(c) : i >= n}
Before(c, n) == {wish[c].known[Order[i]] : i \in Candidates(c) \ From(c, n)}
NextUrl(c, n) == wish[c].known[Order[Min(From(c, n))]]

\* The URLs that a paper's record knows.
Recorded(c) == {wish[c].known[s] : s \in DOMAIN wish[c].known \ {"unpaywall"}}

\* What a paper's call has tried when its state is r: each URL once, and all
\* before its place that the record knows.
Tried(c, r) ==
    /\ IsInjective(r.failed)
    /\ ToSet(r.failed) \subseteq Before(c, r.next)
    /\ \A i \in Candidates(c) : i < r.next /\ Order[i] # "unpaywall" =>
          wish[c].known[Order[i]] \in ToSet(r.failed)
    /\ r.stage \in Fetching => NextUrl(c, r.next) \notin Before(c, r.next)
    /\ r.outcome \in Fruitless => Recorded(c) \subseteq ToSet(r.failed)
    /\ r.outcome = "no_oa_pdf" => Recorded(c) = {}

\* A call's state as far as no other call matters to it.
Own(c, r) ==
    /\ r \in Call
    /\ r.outcome # "none" <=> r.stage = "done"
    /\ r.stage = "new" => r = New
    /\ Tool(c) \notin PaperTools => r.next = 1 /\ r.stage # "candidate"
    /\ r.stage \in Fetching => From(c, r.next) # {}
    /\ Tool(c) \in PaperTools => Tried(c, r)

\* A call that writes no PDF where a whole one lies.
Calm(c, r) ==
    /\ r.stage \notin Writers
    /\ r.stage = "candidate" => r.failed = <<>>
    /\ r.stage = "compare" => r.file = pdf[Path(c)]

\* A PDF that is there and will not be written again.
Settled(p) ==
    /\ pdf[p].bytes = "whole"
    /\ \A c \in Callers : Path(c) = p => Calm(c, call[c])

FilesFit ==
    /\ wish \in Wishes
    /\ pdf \in [Paths -> PdfFile]
    /\ md \in [MdKeys -> MdFile]
    /\ killed \in BOOLEAN

CallsFit ==
    /\ call = [c \in Callers |-> call[c]]
    /\ \A c \in Callers : Own(c, call[c])

PdfsKept == \A c \in Callers : call[c].hadPdf => Settled(Path(c))

MdKept == \A c \in Callers : call[c].hadMd => md[MdKey(c)] # NoMd /\ call[c].stage \notin Converting

OnceInv == FilesFit /\ CallsFit /\ PdfsKept /\ MdKept

LEMMA OrderIs ==
    /\ Len(Order) = 6 /\ DOMAIN Order = 1..6
    /\ Order[1] = "s2_oa" /\ Order[2] = "arxiv" /\ Order[3] = "pmc" /\ Order[4] = "unpaywall"
    /\ Order[5] = "caller" /\ Order[6] = "epo"
    /\ Sources = {"s2_oa", "arxiv", "pmc", "unpaywall", "caller", "epo"}
<1>1. /\ Len(Order) = 6 /\ DOMAIN Order = 1..6
      /\ Order[1] = "s2_oa" /\ Order[2] = "arxiv" /\ Order[3] = "pmc" /\ Order[4] = "unpaywall"
      /\ Order[5] = "caller" /\ Order[6] = "epo"
  BY DEF Order
<1> HIDE DEF Order
<1>2. Sources = {Order[i] : i \in 1..6}
  BY <1>1 DEF Sources, ToSet
<1> QED BY <1>1, <1>2

\* What the callers ask for.
LEMMA AskedIs ==
    ASSUME FilesFit, NEW c \in Callers
    PROVE  /\ Tool(c) \in Tools /\ Path(c) \in Paths /\ MdKey(c) \in MdKeys
           /\ \A s \in DOMAIN wish[c].known : wish[c].known[s] \in Urls
           /\ DOMAIN wish[c].known \in ComesFrom(Tool(c))
<1>1. wish[c] \in Wish
  BY PdfAssumption DEF FilesFit
<1>2. /\ wish[c].tool \in Tools /\ wish[c].path \in Paths /\ wish[c].vlm \in BOOLEAN
      /\ wish[c].known \in KnownUrls /\ DOMAIN wish[c].known \in ComesFrom(wish[c].tool)
  BY <1>1 DEF Wish
<1>3. \A s \in DOMAIN wish[c].known : wish[c].known[s] \in Urls
  BY <1>2 DEF KnownUrls
<1> QED BY <1>2, <1>3 DEF Tool, Path, MdKey, MdKeys

LEMMA CandidatesAre ==
    ASSUME FilesFit, NEW c \in Callers
    PROVE  /\ Candidates(c) \subseteq 1..6
           /\ \A i \in Candidates(c) : wish[c].known[Order[i]] \in Urls
           /\ Tool(c) \in PaperTools => Candidates(c) \subseteq 1..4
           /\ Tool(c) \in {"by_url", "patent"} => Candidates(c) # {}
<1>1. DOMAIN wish[c].known \in ComesFrom(Tool(c)) /\ Tool(c) \in Tools
  BY AskedIs
<1>2. Candidates(c) \subseteq 1..6
  BY OrderIs DEF Candidates
<1>3. \A i \in Candidates(c) : wish[c].known[Order[i]] \in Urls
  BY AskedIs DEF Candidates
<1>4. ASSUME Tool(c) \in PaperTools PROVE Candidates(c) \subseteq 1..4
  <2>1. DOMAIN wish[c].known \subseteq {"s2_oa", "arxiv", "pmc", "unpaywall"}
    BY <1>1, <1>4 DEF ComesFrom, PaperTools
  <2>2. 5 \notin Candidates(c) /\ 6 \notin Candidates(c)
    BY <2>1, OrderIs DEF Candidates
  <2> QED BY <1>2, <2>2
<1>5. ASSUME Tool(c) = "by_url" PROVE 5 \in Candidates(c)
  <2>1. "caller" \in DOMAIN wish[c].known
    BY <1>1, <1>5 DEF ComesFrom, PaperTools
  <2> QED BY <2>1, OrderIs DEF Candidates
<1>6. ASSUME Tool(c) = "patent" PROVE 6 \in Candidates(c)
  <2>1. "epo" \in DOMAIN wish[c].known
    BY <1>1, <1>6 DEF ComesFrom, PaperTools
  <2> QED BY <2>1, OrderIs DEF Candidates
<1> QED BY <1>2, <1>3, <1>4, <1>5, <1>6

\* A set of places has a first one.
LEMMA FirstIs ==
    ASSUME NEW S, S \subseteq 1..6, S # {}
    PROVE  Min(S) \in S /\ \A j \in S : Min(S) <= j
<1>1. \E i \in S : \A j \in S : i <= j
  <2>1. CASE 1 \in S
    BY <2>1
  <2>2. CASE 1 \notin S /\ 2 \in S
    BY <2>2
  <2>3. CASE 1 \notin S /\ 2 \notin S /\ 3 \in S
    BY <2>3
  <2>4. CASE 1 \notin S /\ 2 \notin S /\ 3 \notin S /\ 4 \in S
    BY <2>4
  <2>5. CASE 1 \notin S /\ 2 \notin S /\ 3 \notin S /\ 4 \notin S /\ 5 \in S
    BY <2>5
  <2>6. CASE 1 \notin S /\ 2 \notin S /\ 3 \notin S /\ 4 \notin S /\ 5 \notin S
    <3>1. ASSUME NEW j \in S PROVE j = 6
      <4>1. j \in 1..6 /\ j # 1 /\ j # 2 /\ j # 3 /\ j # 4 /\ j # 5
        BY <2>6
      <4> QED BY <4>1
    <3>2. PICK i \in S : TRUE
      OBVIOUS
    <3> QED BY <3>1, <3>2
  <2> QED BY <2>1, <2>2, <2>3, <2>4, <2>5, <2>6
<1> QED BY <1>1 DEF Min

LEMMA NextIs ==
    ASSUME FilesFit, NEW c \in Callers, NEW n \in 1..7, From(c, n) # {}
    PROVE  /\ Min(From(c, n)) \in Candidates(c) /\ Min(From(c, n)) >= n
           /\ Min(From(c, n)) + 1 \in 1..7
           /\ NextUrl(c, n) \in Urls
           /\ \A i \in Candidates(c) : i < Min(From(c, n)) + 1 <=> i < n \/ i = Min(From(c, n))
<1> DEFINE m == Min(From(c, n))
<1>1. Candidates(c) \subseteq 1..6 /\ From(c, n) \subseteq 1..6
  BY CandidatesAre DEF From
<1>2. m \in From(c, n) /\ \A j \in From(c, n) : m <= j
  BY <1>1, FirstIs
<1>3. NextUrl(c, n) = wish[c].known[Order[m]]
  BY DEF NextUrl
<1> HIDE DEF m
<1>4. m \in Candidates(c) /\ m >= n /\ m \in 1..6
  BY <1>1, <1>2 DEF From
<1>5. NextUrl(c, n) \in Urls
  BY <1>3, <1>4, CandidatesAre
<1>6. \A i \in Candidates(c) : i < m + 1 <=> i < n \/ i = m
  BY <1>1, <1>2, <1>4 DEF From
<1>7. m + 1 \in 1..7
  BY <1>4
<1> QED BY <1>4, <1>5, <1>6, <1>7 DEF m

LEMMA LeftIs ==
    ASSUME NEW c \in Callers
    PROVE  /\ Left(c) = From(c, call[c].next)
           /\ Url(c) = NextUrl(c, call[c].next)
           /\ Turn(c) = Min(From(c, call[c].next))
           /\ SeenUrls(c) = Before(c, call[c].next)
BY DEF Left, From, Url, Candidate, Turn, NextUrl, SeenUrls, Before

\* The URLs before the place after the next one.
LEMMA BeforeGrows ==
    ASSUME FilesFit, NEW c \in Callers, NEW n \in 1..7, From(c, n) # {}
    PROVE  Before(c, Min(From(c, n)) + 1) = Before(c, n) \cup {NextUrl(c, n)}
<1> DEFINE m == Min(From(c, n))
           K(i) == wish[c].known[Order[i]]
<1>1. /\ m \in Candidates(c) /\ Candidates(c) \subseteq 1..6
      /\ \A i \in Candidates(c) : i < m + 1 <=> i < n \/ i = m
  BY NextIs, CandidatesAre
<1>2. NextUrl(c, n) = K(m)
  BY DEF NextUrl
<1>3. \A k \in 1..7 : Before(c, k) = {K(i) : i \in {j \in Candidates(c) : j < k}}
  BY <1>1 DEF Before, From
<1>4. m + 1 \in 1..7
  BY NextIs
<1> HIDE DEF m, K
<1>5. {j \in Candidates(c) : j < m + 1} = {j \in Candidates(c) : j < n} \cup {m}
  BY <1>1
<1>6. Before(c, m + 1) = {K(i) : i \in {j \in Candidates(c) : j < n} \cup {m}}
  BY <1>3, <1>4, <1>5
<1>7. Before(c, m + 1) = Before(c, n) \cup {K(m)}
  BY <1>3, <1>6
<1> QED BY <1>2, <1>7 DEF m

-----------------------------------------------------------------------------
\* The state of a call that goes on, and one that ends.
LEMMA OwnGoesOn ==
    ASSUME NEW c, NEW q, Own(c, q), q.stage \notin {"new", "done"}, NEW r \in Call,
           r.stage \notin {"new", "done", "candidate"}, r.outcome = q.outcome, r.next = q.next,
           r.failed = q.failed, r.stage \in Fetching => q.stage \in Fetching
    PROVE  Own(c, r)
BY DEF Own, Tried

LEMMA OwnEnds ==
    ASSUME NEW c, NEW q, Own(c, q), NEW r \in Call, r.stage = "done", r.outcome # "none",
           r.next = q.next, r.failed = q.failed,
           Tool(c) \in PaperTools /\ r.outcome \in Fruitless => Recorded(c) \subseteq ToSet(r.failed),
           Tool(c) \in PaperTools /\ r.outcome = "no_oa_pdf" => Recorded(c) = {}
    PROVE  Own(c, r)
BY DEF Own, Tried, Fetching, Writers

\* A call that changes leaves the others as they are.
LEMMA OneMoves ==
    ASSUME CallsFit, NEW c \in Callers, NEW r, Moves(c, r)
    PROVE  /\ call' = [d \in Callers |-> call'[d]]
           /\ call'[c] = r
           /\ \A d \in Callers \ {c} : call'[d] = call[d]
BY DEF CallsFit, Moves

LEMMA OwnStays ==
    ASSUME wish' = wish
    PROVE  /\ \A c : Tool(c)' = Tool(c) /\ Path(c)' = Path(c) /\ MdKey(c)' = MdKey(c)
           /\ \A c, r : Own(c, r)' <=> Own(c, r)
<1>1. \A c : Tool(c)' = Tool(c) /\ Path(c)' = Path(c) /\ MdKey(c)' = MdKey(c)
  BY DEF Tool, Path, MdKey
<1>2. \A c : Candidates(c)' = Candidates(c) /\ Recorded(c)' = Recorded(c)
  BY DEF Candidates, Recorded
<1>3. \A c, n : From(c, n)' = From(c, n)
  BY <1>2 DEF From
<1>4. \A c, n : Before(c, n)' = Before(c, n) /\ NextUrl(c, n)' = NextUrl(c, n)
  BY <1>2, <1>3 DEF Before, NextUrl
<1>5. \A c, r : Tried(c, r)' <=> Tried(c, r)
  BY <1>2, <1>4 DEF Tried
<1> QED BY <1>1, <1>3, <1>5 DEF Own

LEMMA OwnStep ==
    ASSUME CallsFit, NEW c \in Callers, NEW r, Own(c, r), Moves(c, r), wish' = wish
    PROVE  CallsFit'
<1>1. \A d \in Callers : Own(d, call'[d])
  BY OneMoves DEF CallsFit
<1> QED BY <1>1, OneMoves, OwnStays DEF CallsFit

\* A step that writes no PDF and begins no call.
Good(c, r) ==
    /\ Own(c, r)
    /\ r.hadPdf = call[c].hadPdf
    /\ r.hadMd = call[c].hadMd
    /\ r.hadMd => r.stage \notin Converting
    /\ Settled(Path(c)) => Calm(c, r)

MdGrows == md' \in [MdKeys -> MdFile] /\ \A k \in MdKeys : md[k] # NoMd => md'[k] # NoMd

\* What others have to do with a settled PDF.
SettledBut(c) ==
    /\ pdf[Path(c)].bytes = "whole"
    /\ \A d \in Callers \ {c} : Path(d) = Path(c) => Calm(d, call[d])

LEMMA OneStep ==
    ASSUME OnceInv, NEW c \in Callers, NEW r, Own(c, r), Moves(c, r), UNCHANGED <<wish, pdf, killed>>,
           MdGrows, r.hadMd => md[MdKey(c)] # NoMd /\ r.stage \notin Converting,
           r.hadPdf => SettledBut(c), r.hadPdf \/ Settled(Path(c)) => Calm(c, r)
    PROVE  OnceInv'
<1>0. FilesFit /\ CallsFit /\ PdfsKept /\ MdKept
  BY DEF OnceInv
<1>1. FilesFit'
  BY <1>0 DEF FilesFit, MdGrows, MdKeys
<1>2. CallsFit'
  BY <1>0, OwnStep
<1>3. /\ call'[c] = r
      /\ \A d \in Callers \ {c} : call'[d] = call[d]
  BY <1>0, OneMoves
<1>4. \A d : Path(d)' = Path(d) /\ MdKey(d)' = MdKey(d)
  BY OwnStays
<1>5. MdKept'
  <2>1. \A d \in Callers : MdKey(d) \in MdKeys
    BY <1>0, AskedIs
  <2> QED BY <1>0, <1>3, <1>4, <2>1 DEF MdKept, MdGrows
<1>6. ASSUME NEW d \in Callers, Settled(Path(d)) \/ (d = c /\ r.hadPdf) PROVE Settled(Path(d))'
  <2>1. ASSUME NEW e \in Callers, Path(e) = Path(d) PROVE Calm(e, call'[e])
    <3>1. CASE e = c
      BY <1>3, <1>6, <2>1, <3>1
    <3>2. CASE e # c
      BY <1>3, <1>6, <2>1, <3>2 DEF Settled, SettledBut
    <3> QED BY <3>1, <3>2
  <2>2. \A e, q : Calm(e, q)' <=> Calm(e, q)
    BY <1>4 DEF Calm
  <2>3. \A e \in Callers : Path(e)' = Path(d)' => Calm(e, call[e])'
    BY <1>4, <2>1, <2>2
  <2>4. pdf'[Path(d)'].bytes = "whole"
    BY <1>4, <1>6 DEF Settled, SettledBut
  <2> QED BY <2>3, <2>4 DEF Settled
<1>7. \A d \in Callers : call'[d].hadPdf => call[d].hadPdf \/ (d = c /\ r.hadPdf)
  BY <1>3
<1>8. PdfsKept'
  BY <1>0, <1>6, <1>7 DEF PdfsKept
<1> QED BY <1>1, <1>2, <1>5, <1>8 DEF OnceInv

LEMMA GoodStep ==
    ASSUME OnceInv, NEW c \in Callers, NEW r, Good(c, r), Moves(c, r), UNCHANGED <<wish, pdf, killed>>,
           MdGrows
    PROVE  OnceInv'
<1>1. /\ call[c].hadPdf => Settled(Path(c))
      /\ call[c].hadMd => md[MdKey(c)] # NoMd
  BY DEF OnceInv, PdfsKept, MdKept
<1>2. Settled(Path(c)) => SettledBut(c)
  BY DEF Settled, SettledBut
<1> QED BY <1>1, <1>2, OneStep DEF Good

\* A step that writes a PDF where none is settled.
LEMMA WriteGood ==
    ASSUME OnceInv, NEW c \in Callers, NEW r, Own(c, r), Moves(c, r), UNCHANGED <<wish, md, killed>>,
           r.hadPdf = call[c].hadPdf, r.hadMd = call[c].hadMd, r.stage \notin Converting,
           NEW f \in PdfFile, pdf' = [pdf EXCEPT ![Path(c)] = f], ~Settled(Path(c))
    PROVE  OnceInv'
<1>0. FilesFit /\ CallsFit /\ PdfsKept /\ MdKept
  BY DEF OnceInv
<1>1. FilesFit'
  BY <1>0 DEF FilesFit, MdKeys
<1>2. CallsFit'
  BY <1>0, OwnStep
<1>3. /\ call'[c] = r
      /\ \A d \in Callers \ {c} : call'[d] = call[d]
  BY <1>0, OneMoves
<1>4. \A d : Path(d)' = Path(d) /\ MdKey(d)' = MdKey(d)
  BY OwnStays
<1>5. MdKept'
  BY <1>0, <1>3, <1>4 DEF MdKept
<1>6. ASSUME NEW d \in Callers, Settled(Path(d)) PROVE Settled(Path(d))'
  <2>1. Path(d) \in Paths /\ Path(d) # Path(c)
    BY <1>0, <1>6, AskedIs
  <2>2. pdf'[Path(d)] = pdf[Path(d)]
    BY <1>0, <2>1 DEF FilesFit
  <2>3. ASSUME NEW e \in Callers, Path(e) = Path(d) PROVE Calm(e, call[e])'
    <3>1. call'[e] = call[e] /\ Calm(e, call[e])
      BY <1>3, <1>6, <2>1, <2>3 DEF Settled
    <3> QED BY <1>4, <2>2, <2>3, <3>1 DEF Calm
  <2>4. pdf'[Path(d)'].bytes = "whole"
    BY <1>4, <1>6, <2>2 DEF Settled
  <2> QED BY <1>4, <2>3, <2>4 DEF Settled
<1>7. PdfsKept'
  BY <1>0, <1>3, <1>6 DEF PdfsKept
<1> QED BY <1>1, <1>2, <1>5, <1>7 DEF OnceInv

\* What is written is a PDF.
LEMMA DownloadedIs ==
    ASSUME OnceInv, NEW c \in Callers, call[c].stage \in Fetching, NEW b \in {"part", "whole"}
    PROVE  Downloaded(c, b) \in PdfFile
<1>1. call[c] \in Call /\ From(c, call[c].next) # {}
  BY DEF OnceInv, CallsFit, Own
<1>2. call[c].next \in 1..7
  BY <1>1, OrderIs DEF Call
<1>3. Url(c) \in Urls
  BY <1>1, <1>2, NextIs, LeftIs DEF OnceInv
<1> QED BY <1>3 DEF Downloaded, PdfFile

\* A call in a stage that writes is not calm.
LEMMA WriterUnsettles ==
    ASSUME NEW c \in Callers, call[c].stage \in Writers
    PROVE  ~Settled(Path(c))
BY DEF Settled, Calm

\* The call's state, of the right type in any new one of its fields.
LEMMA CallIs ==
    ASSUME NEW q \in Call
    PROVE  /\ q.stage \in Stages /\ q.next \in 1..7 /\ q.failed \in Seq(Urls) /\ q.outcome \in Outcomes
           /\ q.hadPdf \in BOOLEAN /\ q.hadMd \in BOOLEAN /\ q.file \in PdfFile
BY OrderIs DEF Call

\* A call goes to another stage.
LEMMA GoesGood ==
    ASSUME OnceInv, NEW c \in Callers, call[c].stage \notin {"new", "done"},
           NEW s \in Stages \ {"new", "done", "candidate"}, s \in Fetching => call[c].stage \in Fetching,
           Goes(c, s), UNCHANGED <<wish, pdf, killed>>, MdGrows,
           call[c].hadMd => s \notin Converting,
           Settled(Path(c)) => s \notin Writers \cup {"compare"}
    PROVE  OnceInv'
<1> DEFINE q == call[c]
           r == [q EXCEPT !.stage = s]
<1>1. Own(c, q) /\ q \in Call
  BY DEF OnceInv, CallsFit, Own
<1>2. /\ r \in Call /\ r.stage = s /\ r.outcome = q.outcome /\ r.next = q.next /\ r.failed = q.failed
      /\ r.hadPdf = q.hadPdf /\ r.hadMd = q.hadMd
  BY <1>1 DEF Call
<1>3. Moves(c, r)
  BY DEF Goes
<1> HIDE DEF r
<1>4. Own(c, r)
  BY <1>1, <1>2, OwnGoesOn
<1>5. Good(c, r)
  BY <1>2, <1>4 DEF Good, Calm
<1> QED BY <1>3, <1>5, GoodStep

Tells(c, o) ==
    \/ Answer(c, o)
    \/ \E t \in MdFile : Moves(c, [call[c] EXCEPT !.stage = "done", !.outcome = o, !.text = t])

\* A call ends, with nothing to say of its candidates.
LEMMA EndsGood ==
    ASSUME OnceInv, NEW c \in Callers, NEW o \in Outcomes \ {"none"},
           Tool(c) \in PaperTools => o \notin Fruitless,
           UNCHANGED <<wish, pdf, killed>>, MdGrows, Tells(c, o)
    PROVE  OnceInv'
<1> DEFINE q == call[c]
<1>1. Own(c, q) /\ q \in Call
  BY DEF OnceInv, CallsFit, Own
<1>2. ASSUME NEW r \in Call, r.stage = "done", r.outcome = o, r.next = q.next, r.failed = q.failed,
             r.hadPdf = q.hadPdf, r.hadMd = q.hadMd, Moves(c, r)
      PROVE  OnceInv'
  <2>1. Own(c, r)
    BY <1>1, <1>2, OwnEnds DEF Fruitless
  <2>2. Good(c, r)
    BY <1>2, <2>1 DEF Good, Calm, Writers, Converting, Holding
  <2> QED BY <1>2, <2>2, GoodStep
<1>3. CASE Answer(c, o)
  <2> DEFINE r == [q EXCEPT !.stage = "done", !.outcome = o]
  <2>1. /\ r \in Call /\ r.stage = "done" /\ r.outcome = o /\ r.next = q.next /\ r.failed = q.failed
        /\ r.hadPdf = q.hadPdf /\ r.hadMd = q.hadMd
    BY <1>1 DEF Call, Stages
  <2>2. Moves(c, r)
    BY <1>3 DEF Answer
  <2> HIDE DEF r
  <2> QED BY <1>2, <2>1, <2>2
<1>4. ASSUME NEW t \in MdFile, Moves(c, [q EXCEPT !.stage = "done", !.outcome = o, !.text = t])
      PROVE  OnceInv'
  <2> DEFINE r == [q EXCEPT !.stage = "done", !.outcome = o, !.text = t]
  <2>1. /\ r \in Call /\ r.stage = "done" /\ r.outcome = o /\ r.next = q.next /\ r.failed = q.failed
        /\ r.hadPdf = q.hadPdf /\ r.hadMd = q.hadMd
    BY <1>1 DEF Call, Stages
  <2>2. Moves(c, r)
    BY <1>4
  <2> HIDE DEF r
  <2> QED BY <1>2, <2>1, <2>2
<1> QED BY <1>3, <1>4 DEF Tells

LEMMA MdStands ==
    ASSUME OnceInv, md' = md
    PROVE  MdGrows
BY DEF OnceInv, FilesFit, MdGrows, MdKeys

\* The PDF is at hand: what is left to do with it.
LEMMA UsingOnce ==
    ASSUME OnceInv, NEW c \in Callers,
           Have(c) \/ ReadMd(c) \/ Load(c) \/ Poll(c)
    PROVE  OnceInv'
<1>0. /\ call[c] \in Call /\ md \in [MdKeys -> MdFile] /\ MdKey(c) \in MdKeys
      /\ call[c].hadMd => md[MdKey(c)] # NoMd /\ call[c].stage \notin Converting
      /\ pdf[Path(c)] \in PdfFile
  BY AskedIs DEF OnceInv, FilesFit, CallsFit, Own, MdKept
<1>1. CASE Have(c)
  <2>1. \/ \E o \in {"path", "docling_not_configured"} : Answer(c, o)
        \/ /\ Goes(c, IF md[MdKey(c)] = NoMd THEN "load" ELSE "read")
    BY <1>1 DEF Have
  <2>2. ASSUME NEW o \in {"path", "docling_not_configured"}, Answer(c, o) PROVE OnceInv'
    BY <1>1, <2>2, EndsGood, MdStands DEF Tells, Have, Outcomes, Errors, Fruitless
  <2>3. CASE Goes(c, "load") /\ md[MdKey(c)] = NoMd
    BY <1>0, <1>1, <2>3, GoesGood, MdStands DEF Have, At, Stages, Fetching, Writers
  <2>4. CASE Goes(c, "read")
    BY <1>1, <2>4, GoesGood, MdStands DEF Have, At, Stages, Fetching, Writers, Converting, Holding
  <2> QED BY <2>1, <2>2, <2>3, <2>4
<1>2. CASE ReadMd(c)
  <2>1. md[MdKey(c)] \in MdFile
    BY <1>0
  <2>2. Tells(c, "markdown")
    BY <1>2, <2>1 DEF ReadMd, Tells
  <2> QED BY <1>2, <2>2, EndsGood, MdStands DEF ReadMd, Outcomes, Fruitless
<1>3. CASE Load(c)
  <2> DEFINE q == call[c]
             r == [q EXCEPT !.stage = "convert", !.file = pdf[Path(c)]]
  <2>1. /\ r \in Call /\ r.stage = "convert" /\ r.outcome = q.outcome /\ r.next = q.next
        /\ r.failed = q.failed /\ r.hadPdf = q.hadPdf /\ r.hadMd = q.hadMd
    BY <1>0 DEF Call, Stages
  <2>2. Moves(c, r) /\ q.stage = "load"
    BY <1>3 DEF Load, At
  <2> HIDE DEF r
  <2>3. Own(c, q)
    BY DEF OnceInv, CallsFit
  <2>4. Own(c, r)
    BY <2>1, <2>2, <2>3, OwnGoesOn DEF Fetching, Writers
  <2>5. Good(c, r)
    BY <1>0, <2>1, <2>2, <2>4 DEF Good, Calm, Writers, Converting, Holding
  <2> QED BY <1>3, <2>2, <2>5, GoodStep, MdStands DEF Load
<1>4. CASE Poll(c)
  <2>1. \/ call[c].polls + 1 < MaxPolls /\ Moves(c, [call[c] EXCEPT !.polls = @ + 1])
        \/ Goes(c, "open_md")
        \/ \E o \in {"path", "conversion_failed"} : Answer(c, o)
    BY <1>4 DEF Poll
  <2>2. ASSUME NEW o \in {"path", "conversion_failed"}, Answer(c, o) PROVE OnceInv'
    BY <1>4, <2>2, EndsGood, MdStands DEF Tells, Poll, Outcomes, Errors, Fruitless
  <2>3. CASE Goes(c, "open_md")
    BY <1>0, <1>4, <2>3, GoesGood, MdStands DEF Poll, At, Stages, Fetching, Writers, Converting, Holding
  <2>4. CASE call[c].polls + 1 < MaxPolls /\ Moves(c, [call[c] EXCEPT !.polls = @ + 1])
    <3> DEFINE q == call[c]
               r == [q EXCEPT !.polls = @ + 1]
    <3>0. q.polls + 1 \in 0..MaxPolls
      BY <1>0, <2>4, PdfAssumption DEF Call
    <3>1. /\ r \in Call /\ r.stage = q.stage /\ r.outcome = q.outcome /\ r.next = q.next
          /\ r.failed = q.failed /\ r.hadPdf = q.hadPdf /\ r.hadMd = q.hadMd
      BY <1>0, <3>0 DEF Call
    <3>2. Moves(c, r) /\ q.stage = "convert"
      BY <1>4, <2>4 DEF Poll, At
    <3> HIDE DEF r
    <3>3. Own(c, q)
      BY DEF OnceInv, CallsFit
    <3>4. Own(c, r)
      BY <3>1, <3>2, <3>3, OwnGoesOn
    <3>5. Good(c, r)
      BY <1>0, <3>1, <3>2, <3>4 DEF Good, Calm, Writers
    <3> QED BY <1>4, <3>2, <3>5, GoodStep, MdStands DEF Poll
  <2> QED BY <2>1, <2>2, <2>3, <2>4
<1> QED BY <1>1, <1>2, <1>3, <1>4

\* The markdown file is written.
LEMMA WritingMdOnce ==
    ASSUME OnceInv, NEW c \in Callers, OpenMd(c) \/ FillMd(c)
    PROVE  OnceInv'
<1>0. /\ call[c] \in Call /\ md \in [MdKeys -> MdFile] /\ MdKey(c) \in MdKeys
      /\ call[c].hadMd => call[c].stage \notin Converting
      /\ call[c].file \in PdfFile
  BY AskedIs, CallIs DEF OnceInv, FilesFit, CallsFit, Own, MdKept
<1>1. ASSUME NEW b \in {"part", "mixed", "whole"}, NEW f,
             f = [bytes |-> b, from |-> call[c].file], md' = [md EXCEPT ![MdKey(c)] = f]
      PROVE  MdGrows /\ f \in MdFile
  <2>1. f \in MdFile /\ f.bytes # "none"
    BY <1>0, <1>1 DEF MdFile
  <2>2. f # NoMd
    BY <2>1 DEF NoMd
  <2> QED BY <1>0, <1>1, <2>1, <2>2 DEF MdGrows
<1>2. CASE OpenMd(c)
  <2>1. MdGrows
    BY <1>1, <1>2 DEF OpenMd
  <2> QED BY <1>0, <1>2, <2>1, GoesGood DEF OpenMd, At, Stages, Fetching, Writers, Converting, Holding
<1>3. CASE FillMd(c)
  <2> DEFINE mine == [bytes |-> "whole", from |-> call[c].file]
             other == [bytes |-> "mixed", from |-> call[c].file]
  <2>1. [mine EXCEPT !.bytes = "mixed"] = other
    OBVIOUS
  <2>2. \E written \in {mine, other} : md' = [md EXCEPT ![MdKey(c)] = written]
    BY <1>3, <2>1 DEF FillMd
  <2>3. MdGrows
    BY <1>1, <2>2
  <2>4. mine \in MdFile
    BY <1>0 DEF MdFile
  <2>5. Moves(c, [call[c] EXCEPT !.stage = "done", !.outcome = "markdown", !.text = mine])
    BY <1>3 DEF FillMd
  <2> HIDE DEF mine
  <2>6. Tells(c, "markdown")
    BY <2>4, <2>5 DEF Tells
  <2> QED BY <1>3, <2>3, <2>6, EndsGood DEF FillMd, Outcomes, Fruitless
<1> QED BY <1>2, <1>3

\* The call begins.
LEMMA BeginOnce ==
    ASSUME OnceInv, NEW c \in Callers, Begin(c)
    PROVE  OnceInv'
<1> DEFINE hp == pdf[Path(c)].bytes = "whole" /\ ~Busy(Path(c))
           hm == md[MdKey(c)] # NoMd
<1>1. call[c] = New /\ New \in Call /\ Own(c, New)
  BY DEF Begin, At, OnceInv, CallsFit, Own
<1>2. Tool(c) \in Tools /\ MdGrows
  BY AskedIs, MdStands DEF OnceInv, Begin
<1>3. hp \in BOOLEAN /\ hm \in BOOLEAN
  OBVIOUS
<1>4. hp => SettledBut(c)
  <2>1. ASSUME hp, NEW d \in Callers \ {c}, Path(d) = Path(c) PROVE Calm(d, call[d])
    <3>1. call[d].stage \in Stages
      BY CallIs DEF OnceInv, CallsFit, Own
    <3>2. call[d].stage \in {"new", "have", "read", "load", "convert", "open_md", "fill_md", "done"}
      BY <2>1, <3>1 DEF Busy, At
    <3> QED BY <3>2 DEF Calm, Writers
  <2> QED BY <2>1 DEF SettledBut
<1>5. /\ hm => md[MdKey(c)] # NoMd
      /\ hp \/ Settled(Path(c)) => pdf[Path(c)] # NoPdf
  BY DEF Settled, NoPdf
<1>6. Begun(c) = [New EXCEPT !.hadPdf = hp, !.hadMd = hm]
  BY <1>1, Zenon DEF Begun
<1> HIDE DEF hp, hm
<1>7. ASSUME NEW r \in Call, r.hadPdf = hp, r.hadMd = hm, r.next = 1, r.failed = <<>>, Moves(c, r),
             \/ /\ r.stage = "done"
                /\ r.outcome \in {"file_not_found", "docling_not_configured", "not_found"}
             \/ r.stage = Entrance(c) /\ r.outcome = "none"
      PROVE  OnceInv'
  <2>1. CASE r.stage = "done"
    <3>1. /\ r.outcome \in {"file_not_found", "docling_not_configured", "not_found"}
      BY <1>2, <1>7, <2>1 DEF Entrance, Tools, ConvertingTools, PaperTools
    <3>2. Own(c, r)
      BY <1>1, <1>7, <2>1, <3>1, OwnEnds DEF New, Fruitless
    <3>3. Calm(c, r) /\ r.stage \notin Converting
      BY <2>1 DEF Calm, Writers, Converting, Holding
    <3> QED BY <1>2, <1>4, <1>5, <1>7, <3>2, <3>3, OneStep DEF Begin
  <2>2. CASE r.stage = Entrance(c) /\ r.outcome = "none"
    <3>1. /\ Entrance(c) \in {"candidate", "check", "download", "have"}
          /\ Entrance(c) = "candidate" => Tool(c) \in PaperTools
          /\ Entrance(c) = "check" => Tool(c) = "by_url"
          /\ Entrance(c) = "download" => Tool(c) = "patent" /\ pdf[Path(c)] = NoPdf
          /\ Tool(c) \in PaperTools => Entrance(c) = "candidate"
      BY <1>2 DEF Entrance, Tools, ConvertingTools, PaperTools
    <3>2. r.stage \in Fetching => From(c, r.next) # {}
      <4>1. ASSUME r.stage \in Fetching PROVE Tool(c) \in {"by_url", "patent"}
        BY <2>2, <3>1, <4>1 DEF Fetching, Writers
      <4>2. Tool(c) \in {"by_url", "patent"} => Candidates(c) # {} /\ Candidates(c) \subseteq 1..6
        BY CandidatesAre DEF OnceInv
      <4>3. Tool(c) \in {"by_url", "patent"} => From(c, 1) # {}
        BY <4>2 DEF From
      <4> QED BY <1>7, <4>1, <4>3
    <3>3. Tool(c) \in PaperTools => Tried(c, r)
      <4>1. ASSUME Tool(c) \in PaperTools PROVE Tried(c, r)
        <5>1. Candidates(c) \subseteq 1..6
          BY CandidatesAre DEF OnceInv
        <5>2. \A i \in Candidates(c) : ~(i < r.next)
          BY <1>7, <5>1
        <5>3. ToSet(r.failed) = {} /\ IsInjective(r.failed)
          BY <1>7 DEF ToSet, IsInjective
        <5>4. r.stage \notin Fetching /\ r.outcome = "none"
          BY <2>2, <3>1, <4>1 DEF Fetching, Writers
        <5> QED BY <5>2, <5>3, <5>4 DEF Tried, Fruitless
      <4> QED BY <4>1
    <3>4. Own(c, r)
      BY <1>7, <2>2, <3>1, <3>2, <3>3 DEF Own
    <3>5. r.stage \notin Converting
      BY <2>2, <3>1 DEF Converting, Holding
    <3>6. hp \/ Settled(Path(c)) => Calm(c, r)
      BY <1>5, <1>7, <2>2, <3>1 DEF Calm, Writers
    <3> QED BY <1>2, <1>4, <1>5, <1>7, <3>4, <3>5, <3>6, OneStep DEF Begin
  <2> QED BY <1>7, <2>1, <2>2
<1>8. ASSUME NEW o \in {"file_not_found", "docling_not_configured", "not_found"},
             Moves(c, [Begun(c) EXCEPT !.stage = "done", !.outcome = o])
      PROVE  OnceInv'
  <2> DEFINE r == [Begun(c) EXCEPT !.stage = "done", !.outcome = o]
  <2>1. /\ r \in Call /\ r.hadPdf = hp /\ r.hadMd = hm /\ r.next = 1 /\ r.failed = <<>>
        /\ r.stage = "done" /\ r.outcome = o
    BY <1>1, <1>3, <1>6 DEF Call, New, Stages, Outcomes, Errors
  <2>2. Moves(c, r)
    BY <1>8
  <2> HIDE DEF r
  <2> QED BY <1>7, <2>1, <2>2
<1>9. ASSUME Moves(c, [Begun(c) EXCEPT !.stage = Entrance(c)])
      PROVE  OnceInv'
  <2> DEFINE r == [Begun(c) EXCEPT !.stage = Entrance(c)]
  <2>0. Entrance(c) \in Stages
    BY <1>2 DEF Entrance, Tools, ConvertingTools, PaperTools, Stages
  <2>1. /\ r \in Call /\ r.hadPdf = hp /\ r.hadMd = hm /\ r.next = 1 /\ r.failed = <<>>
        /\ r.stage = Entrance(c) /\ r.outcome = "none"
    BY <1>1, <1>3, <1>6, <2>0 DEF Call, New
  <2>2. Moves(c, r)
    BY <1>9
  <2> HIDE DEF r
  <2> QED BY <1>7, <2>1, <2>2
<1>10. \/ \E o \in {"file_not_found", "docling_not_configured", "not_found"} :
             Moves(c, [Begun(c) EXCEPT !.stage = "done", !.outcome = o])
       \/ Moves(c, [Begun(c) EXCEPT !.stage = Entrance(c)])
  <2>1. CASE Tool(c) = "local" /\ (~wish[c].docling \/ pdf[Path(c)] = NoPdf)
    BY <2>1 DEF Begin
  <2>2. CASE ~(Tool(c) = "local" /\ (~wish[c].docling \/ pdf[Path(c)] = NoPdf))
    BY <2>2 DEF Begin
  <2> QED BY <2>1, <2>2
<1> QED BY <1>8, <1>9, <1>10

\* A call's state that has given up the next place, as skipped or as failed.
LEMMA PassesOn ==
    ASSUME OnceInv, NEW c \in Callers, Tool(c) \in PaperTools, Left(c) # {}, call[c].stage # "done",
           NEW r \in Call, r.stage = "candidate", r.outcome = "none", r.next = Turn(c) + 1,
           \/ /\ r.failed = call[c].failed
              /\ Candidate(c) = "unpaywall" \/ Url(c) \in SeenUrls(c)
           \/ /\ r.failed = Append(call[c].failed, Url(c))
              /\ Url(c) \notin SeenUrls(c)
    PROVE  Own(c, r)
<1> DEFINE q == call[c]
           n == q.next
           u == NextUrl(c, n)
           m == Min(From(c, n))
<1>1. FilesFit /\ Own(c, q) /\ Tried(c, q) /\ n \in 1..7 /\ q.failed \in Seq(Urls)
  BY CallIs DEF OnceInv, CallsFit, Own
<1>2. From(c, n) # {} /\ Url(c) = u /\ Turn(c) = m /\ SeenUrls(c) = Before(c, n) /\ Candidate(c) = Order[m]
  BY LeftIs DEF Candidate
<1>3. /\ m \in Candidates(c) /\ m + 1 \in 1..7 /\ u \in Urls /\ m >= n
      /\ \A i \in Candidates(c) : i < m + 1 <=> i < n \/ i = m
      /\ u = wish[c].known[Order[m]]
  BY <1>1, <1>2, NextIs DEF NextUrl
<1>4. Before(c, m + 1) = Before(c, n) \cup {u}
  BY <1>1, <1>2, BeforeGrows
<1>5. /\ Candidates(c) \subseteq 1..4
      /\ \A i \in Candidates(c) : i \in 1..4
  BY <1>1, CandidatesAre
<1> HIDE DEF q, n, u, m
<1>6. r.next = m + 1 /\ r.stage \notin Fetching \cup {"new", "done"} /\ r.outcome \notin Fruitless
  BY <1>2 DEF Fetching, Writers, Fruitless
<1>7. Before(c, n) = {wish[c].known[Order[i]] : i \in {j \in Candidates(c) : j < n}}
  BY <1>1, <1>5 DEF Before, From
<1>8. Tried(c, r)
  <2>1. CASE r.failed = q.failed /\ (Order[m] = "unpaywall" \/ u \in Before(c, n))
    <3>1. IsInjective(r.failed) /\ ToSet(r.failed) \subseteq Before(c, r.next)
      BY <1>1, <1>4, <1>6, <2>1 DEF Tried, n
    <3>2. Order[m] # "unpaywall" => u \in ToSet(r.failed)
      <4>1. ASSUME Order[m] # "unpaywall" PROVE u \in ToSet(r.failed)
        <5>1. PICK i \in Candidates(c) : i < n /\ u = wish[c].known[Order[i]]
          BY <1>7, <2>1, <4>1
        <5>2. i < m /\ m \in 1..4
          BY <1>1, <1>3, <1>5, <5>1
        <5>3. Order[i] # "unpaywall"
          <6>1. i \in 1..3
            BY <1>5, <5>1, <5>2
          <6> QED BY <6>1, OrderIs
        <5> QED BY <1>1, <2>1, <5>1, <5>3 DEF Tried, n
      <4> QED BY <4>1
    <3>3. \A i \in Candidates(c) : i < r.next /\ Order[i] # "unpaywall" =>
             wish[c].known[Order[i]] \in ToSet(r.failed)
      BY <1>1, <1>3, <1>6, <2>1, <3>2 DEF Tried, n
    <3> QED BY <1>6, <3>1, <3>3 DEF Tried, Fruitless
  <2>2. CASE r.failed = Append(q.failed, u) /\ u \notin Before(c, n)
    <3>1. u \notin ToSet(q.failed)
      BY <1>1, <2>2 DEF Tried, n
    <3>2. /\ DOMAIN r.failed = 1..(Len(q.failed) + 1) /\ Len(q.failed) \in Nat
          /\ DOMAIN q.failed = 1..Len(q.failed)
          /\ \A i \in 1..Len(q.failed) : r.failed[i] = q.failed[i]
          /\ r.failed[Len(q.failed) + 1] = u
      BY <1>1, <1>3, <2>2
    <3>3. ToSet(r.failed) = ToSet(q.failed) \cup {u}
      BY <3>2 DEF ToSet
    <3>4. IsInjective(r.failed)
      <4>1. \A i, j \in 1..Len(q.failed) : q.failed[i] = q.failed[j] => i = j
        BY <1>1, <3>2 DEF Tried, IsInjective
      <4>2. \A i \in 1..Len(q.failed) : q.failed[i] # u
        BY <3>1, <3>2 DEF ToSet
      <4>3. \A i, j \in 1..(Len(q.failed) + 1) : r.failed[i] = r.failed[j] => i = j
        BY <3>2, <4>1, <4>2
      <4> QED BY <3>2, <4>3 DEF IsInjective
    <3>5. ToSet(r.failed) \subseteq Before(c, r.next)
      BY <1>1, <1>4, <1>6, <3>3 DEF Tried, n
    <3>6. \A i \in Candidates(c) : i < r.next /\ Order[i] # "unpaywall" =>
             wish[c].known[Order[i]] \in ToSet(r.failed)
      BY <1>1, <1>3, <1>6, <3>3 DEF Tried, n
    <3> QED BY <1>6, <3>4, <3>5, <3>6 DEF Tried, Fruitless
  <2> QED BY <1>2, <2>1, <2>2 DEF q, u
<1> QED BY <1>6, <1>8 DEF Own

\* The next candidate is looked for.
LEMMA ProposeOnce ==
    ASSUME OnceInv, NEW c \in Callers, Propose(c)
    PROVE  OnceInv'
<1> DEFINE q == call[c]
<1>1. /\ q \in Call /\ Own(c, q) /\ q.stage = "candidate" /\ q.outcome = "none" /\ q.next \in 1..7
      /\ q.hadMd => md[MdKey(c)] # NoMd
      /\ FilesFit /\ MdGrows /\ Left(c) # {}
  BY CallIs, MdStands DEF OnceInv, CallsFit, Own, MdKept, Propose, At
<1>2. Tool(c) \in PaperTools
  BY <1>1 DEF Own
<1>3. /\ Turn(c) + 1 \in 1..7 /\ Turn(c) \in Candidates(c) /\ Candidates(c) \subseteq 1..6
  BY <1>1, NextIs, LeftIs, CandidatesAre
<1>4. Candidate(c) \in Sources
  BY <1>3, OrderIs DEF Candidate
<1>5. ASSUME Url(c) \notin SeenUrls(c), NEW s \in {"check", "download"},
             s = "download" => q.failed # <<>>,
             Moves(c, [q EXCEPT !.source = Candidate(c), !.stage = s])
      PROVE  OnceInv'
  <2> DEFINE r == [q EXCEPT !.source = Candidate(c), !.stage = s]
  <2>1. /\ r \in Call /\ r.stage = s /\ r.outcome = "none" /\ r.next = q.next /\ r.failed = q.failed
        /\ r.hadPdf = q.hadPdf /\ r.hadMd = q.hadMd
    BY <1>1, <1>4 DEF Call, Stages
  <2>2. Moves(c, r)
    BY <1>5
  <2> HIDE DEF r
  <2>3. From(c, r.next) # {} /\ NextUrl(c, r.next) \notin Before(c, r.next)
    BY <1>1, <1>5, <2>1, LeftIs
  <2>4. Own(c, r)
    BY <1>1, <1>2, <2>1, <2>3 DEF Own, Tried
  <2>5. Good(c, r)
    <3>1. Settled(Path(c)) => s = "check"
      BY <1>1, <1>5 DEF Settled, Calm
    <3> QED BY <2>1, <2>4, <3>1 DEF Good, Calm, Converting, Holding, Writers
  <2> QED BY <1>1, <2>2, <2>5, GoodStep DEF Propose
<1>6. ASSUME Candidate(c) = "unpaywall" \/ Url(c) \in SeenUrls(c),
             Moves(c, [q EXCEPT !.next = Turn(c) + 1])
      PROVE  OnceInv'
  <2> DEFINE r == [q EXCEPT !.next = Turn(c) + 1]
  <2>1. /\ r \in Call /\ r.stage = "candidate" /\ r.outcome = "none" /\ r.next = Turn(c) + 1
        /\ r.failed = q.failed /\ r.hadPdf = q.hadPdf /\ r.hadMd = q.hadMd
    BY <1>1, <1>3, OrderIs DEF Call
  <2>2. Moves(c, r)
    BY <1>6
  <2> HIDE DEF r
  <2>3. Own(c, r)
    BY <1>1, <1>2, <1>6, <2>1, PassesOn
  <2>4. Good(c, r)
    BY <1>1, <2>1, <2>3 DEF Good, Calm, Settled, Converting, Holding, Writers
  <2> QED BY <1>1, <2>2, <2>4, GoodStep DEF Propose
<1>7. \/ /\ Url(c) \notin SeenUrls(c)
         /\ \E s \in {"check", "download"} :
               /\ s = "download" => q.failed # <<>>
               /\ Moves(c, [q EXCEPT !.source = Candidate(c), !.stage = s])
      \/ /\ Candidate(c) = "unpaywall" \/ Url(c) \in SeenUrls(c)
         /\ Moves(c, [q EXCEPT !.next = Turn(c) + 1])
  <2>1. PICK listed \in IF Candidate(c) = "unpaywall" THEN BOOLEAN ELSE {TRUE} :
           IF listed /\ Url(c) \notin SeenUrls(c)
           THEN Moves(c, [q EXCEPT !.source = Candidate(c),
                                   !.stage = IF q.failed = <<>> THEN "check" ELSE "download"])
           ELSE Moves(c, [q EXCEPT !.next = Turn(c) + 1])
    BY Zenon DEF Propose
  <2>2. CASE listed /\ Url(c) \notin SeenUrls(c)
    <3>1. Moves(c, [q EXCEPT !.source = Candidate(c), !.stage = IF q.failed = <<>> THEN "check" ELSE "download"])
      BY <2>1, <2>2
    <3> QED BY <2>2, <3>1
  <2>3. CASE ~(listed /\ Url(c) \notin SeenUrls(c))
    BY <2>1, <2>3
  <2> QED BY <2>2, <2>3
<1> QED BY <1>5, <1>6, <1>7

LEMMA ExhaustedOnce ==
    ASSUME OnceInv, NEW c \in Callers, Exhausted(c)
    PROVE  OnceInv'
<1> DEFINE q == call[c]
<1>1. /\ q \in Call /\ Own(c, q) /\ q.stage = "candidate" /\ q.next \in 1..7 /\ q.failed \in Seq(Urls)
      /\ FilesFit /\ MdGrows /\ From(c, q.next) = {}
  BY CallIs, LeftIs, MdStands DEF OnceInv, CallsFit, Own, Exhausted, At
<1>2. PICK o \in Fruitless : Answer(c, o) /\ (o = "no_oa_pdf" => q.failed = <<>>)
  BY DEF Exhausted, Fruitless
<1> DEFINE r == [q EXCEPT !.stage = "done", !.outcome = o]
<1>3. /\ r \in Call /\ r.stage = "done" /\ r.outcome = o /\ r.next = q.next /\ r.failed = q.failed
      /\ r.hadPdf = q.hadPdf /\ r.hadMd = q.hadMd /\ o # "none"
  BY <1>1, <1>2 DEF Call, Stages, Outcomes, Errors, Fruitless
<1>4. Moves(c, r)
  BY <1>2 DEF Answer
<1>5. Tool(c) \in PaperTools => Recorded(c) \subseteq ToSet(q.failed)
  <2>1. ASSUME Tool(c) \in PaperTools, NEW s \in DOMAIN wish[c].known \ {"unpaywall"}
        PROVE  wish[c].known[s] \in ToSet(q.failed)
    <3>1. s \in {"s2_oa", "arxiv", "pmc", "unpaywall"}
      BY <1>1, <2>1, AskedIs DEF ComesFrom, PaperTools
    <3>2. \E i \in Candidates(c) : Order[i] = s
      BY <2>1, <3>1, OrderIs DEF Candidates
    <3>3. \A i \in Candidates(c) : i \in 1..6 /\ i < q.next
      BY <1>1, CandidatesAre DEF From
    <3> QED BY <1>1, <2>1, <3>2, <3>3 DEF Own, Tried
  <2> QED BY <2>1 DEF Recorded
<1>6. q.failed = <<>> => ToSet(q.failed) = {}
  BY DEF ToSet
<1> HIDE DEF r
<1>7. Own(c, r)
  BY <1>1, <1>2, <1>3, <1>5, <1>6, OwnEnds
<1>8. Good(c, r)
  BY <1>3, <1>7 DEF Good, Calm, Writers, Converting, Holding
<1> QED BY <1>1, <1>4, <1>8, GoodStep DEF Exhausted

\* The file is looked at.
LEMMA CheckOnce ==
    ASSUME OnceInv, NEW c \in Callers, CheckOpens(c) \/ CheckCompares(c)
    PROVE  OnceInv'
<1> DEFINE q == call[c]
<1>1. /\ q \in Call /\ Own(c, q) /\ pdf[Path(c)] \in PdfFile /\ MdGrows
  BY AskedIs, MdStands DEF OnceInv, CallsFit, Own, FilesFit, CheckOpens, CheckCompares
<1>2. CASE CheckOpens(c)
  <2>1. CASE pdf[Path(c)] = NoPdf /\ Goes(c, "download")
    <3>1. ~Settled(Path(c))
      BY <2>1 DEF Settled, NoPdf
    <3> QED BY <1>1, <1>2, <2>1, <3>1, GoesGood
          DEF CheckOpens, At, Stages, Fetching, Writers, Converting, Holding
  <2>2. CASE Moves(c, [q EXCEPT !.file = pdf[Path(c)], !.stage = "compare"])
    <3> DEFINE r == [q EXCEPT !.file = pdf[Path(c)], !.stage = "compare"]
    <3>1. /\ r \in Call /\ r.stage = "compare" /\ r.outcome = q.outcome /\ r.next = q.next
          /\ r.failed = q.failed /\ r.hadPdf = q.hadPdf /\ r.hadMd = q.hadMd /\ r.file = pdf[Path(c)]
      BY <1>1 DEF Call, Stages
    <3>2. Moves(c, r) /\ q.stage = "check"
      BY <1>2, <2>2 DEF CheckOpens, At
    <3> HIDE DEF r
    <3>3. Own(c, r)
      BY <1>1, <3>1, <3>2, OwnGoesOn DEF Fetching
    <3>4. Good(c, r)
      BY <3>1, <3>3 DEF Good, Calm, Writers, Converting, Holding
    <3> QED BY <1>1, <1>2, <3>2, <3>4, GoodStep DEF CheckOpens
  <2> QED BY <1>2, <2>1, <2>2 DEF CheckOpens
<1>3. CASE CheckCompares(c)
  <2>1. CASE Goes(c, "have")
    BY <1>1, <1>3, <2>1, GoesGood DEF CheckCompares, At, Stages, Fetching, Writers, Converting, Holding
  <2>2. CASE /\ ~(q.file.bytes \in {"part", "whole"} /\ pdf[Path(c)] = q.file)
             /\ Goes(c, "download")
    <3>1. ~Settled(Path(c))
      BY <1>3, <2>2 DEF Settled, Calm, CheckCompares, At
    <3> QED BY <1>1, <1>3, <2>2, <3>1, GoesGood
          DEF CheckCompares, At, Stages, Fetching, Writers, Converting, Holding
  <2> QED BY <1>3, <2>1, <2>2 DEF CheckCompares
<1> QED BY <1>2, <1>3

LEMMA DownloadKeepsOnce ==
    ASSUME OnceInv, NEW c \in Callers, Download(c)
    PROVE  OnceInv'
<1> DEFINE q == call[c]
<1>1. /\ q \in Call /\ Own(c, q) /\ MdGrows /\ q.stage = "download" /\ FilesFit /\ q.next \in 1..7
      /\ q.failed \in Seq(Urls)
  BY CallIs, MdStands DEF OnceInv, CallsFit, Own, Download, At
<1>2. ~Settled(Path(c))
  BY <1>1, WriterUnsettles DEF Writers
<1>3. CASE \E s \in {"truncate", "publish"} : Goes(c, s)
  BY <1>1, <1>2, <1>3, GoesGood DEF Download, Stages, Fetching, Writers, Converting, Holding
<1>4. CASE \E error \in {"not_pdf", "download_failed"} : Tool(c) \notin PaperTools /\ Answer(c, error)
  BY <1>1, <1>4, EndsGood DEF Download, Tells, Outcomes, Errors
<1>5. CASE /\ Tool(c) \in PaperTools
           /\ Moves(c, [q EXCEPT !.failed = Append(@, Url(c)), !.next = Turn(c) + 1, !.stage = "candidate"])
  <2> DEFINE a == Append(q.failed, Url(c))
             n == Turn(c) + 1
             r == [q EXCEPT !.failed = a, !.next = n, !.stage = "candidate"]
  <2>1. From(c, q.next) # {} /\ NextUrl(c, q.next) \notin Before(c, q.next) /\ q.outcome = "none"
    BY <1>1, <1>5 DEF Own, Tried, Fetching, Writers
  <2>2. Left(c) # {} /\ Url(c) \notin SeenUrls(c) /\ Url(c) \in Urls /\ Turn(c) + 1 \in 1..7
    BY <1>1, <2>1, NextIs, LeftIs
  <2>3. a \in Seq(Urls)
    BY <1>1, <2>2
  <2>4. Moves(c, r)
    BY <1>5
  <2>5. n \in 1..(Len(Order) + 1)
    BY <2>2, OrderIs
  <2> HIDE DEF a, n
  <2>6. /\ r \in Call /\ r.stage = "candidate" /\ r.outcome = "none" /\ r.next = n
        /\ r.failed = a /\ r.hadPdf = q.hadPdf /\ r.hadMd = q.hadMd
    BY <1>1, <2>1, <2>3, <2>5 DEF Call, Stages
  <2> HIDE DEF r
  <2>7. Own(c, r)
    BY <1>1, <1>5, <2>2, <2>6, PassesOn DEF a, n
  <2>8. Good(c, r)
    BY <1>2, <2>6, <2>7 DEF Good, Converting, Holding
  <2> QED BY <1>1, <2>4, <2>8, GoodStep DEF Download
<1> QED BY <1>3, <1>4, <1>5 DEF Download

\* A PDF is written.
LEMMA WritingOnce ==
    ASSUME OnceInv, NEW c \in Callers, Publish(c) \/ PatentTruncates(c) \/ PatentFills(c)
    PROVE  OnceInv'
<1> DEFINE q == call[c]
<1>1. /\ q \in Call /\ Own(c, q) /\ q.stage \in Writers
  BY DEF OnceInv, CallsFit, Own, Publish, PatentTruncates, PatentFills, At, Writers
<1>2. PICK s \in {"have", "fill"}, b \in {"part", "whole"} :
        Goes(c, s) /\ pdf' = [pdf EXCEPT ![Path(c)] = Downloaded(c, b)]
  BY DEF Publish, PatentTruncates, PatentFills
<1>3. Downloaded(c, b) \in PdfFile
  BY <1>1, DownloadedIs DEF Fetching
<1> DEFINE r == [q EXCEPT !.stage = s]
<1>4. /\ r \in Call /\ r.stage = s /\ r.outcome = q.outcome /\ r.next = q.next /\ r.failed = q.failed
      /\ r.hadPdf = q.hadPdf /\ r.hadMd = q.hadMd
  BY <1>1 DEF Call, Stages
<1>5. Moves(c, r)
  BY <1>2 DEF Goes
<1> HIDE DEF r
<1>6. Own(c, r)
  BY <1>1, <1>4, OwnGoesOn DEF Fetching, Writers
<1>7. r.stage \notin Converting
  BY <1>4 DEF Converting, Holding
<1>8. UNCHANGED <<wish, md, killed>>
  BY DEF Publish, PatentTruncates, PatentFills
<1> QED BY <1>1, <1>2, <1>3, <1>4, <1>5, <1>6, <1>7, <1>8, WriterUnsettles, WriteGood

LEMMA KillOnce ==
    ASSUME OnceInv, Kill
    PROVE  OnceInv'
<1>0. FilesFit /\ CallsFit /\ PdfsKept /\ MdKept
  BY DEF OnceInv
<1>1. /\ call' = [d \in Callers |-> call'[d]]
      /\ \A d \in Callers : call'[d] = IF call[d].stage \in {"new", "done"} THEN call[d]
                            ELSE [call[d] EXCEPT !.stage = "done", !.outcome = "killed"]
  BY DEF Kill
<1>2. ASSUME NEW d \in Callers
      PROVE  /\ Own(d, call'[d])
             /\ call'[d].hadPdf = call[d].hadPdf /\ call'[d].hadMd = call[d].hadMd
             /\ call'[d] = call[d] \/ call'[d].stage = "done"
  <2>1. CASE call[d].stage \in {"new", "done"}
    BY <1>0, <1>1, <2>1 DEF CallsFit
  <2>2. CASE call[d].stage \notin {"new", "done"}
    <3> DEFINE r == [call[d] EXCEPT !.stage = "done", !.outcome = "killed"]
    <3>1. Own(d, call[d]) /\ call[d] \in Call
      BY <1>0 DEF CallsFit, Own
    <3>2. /\ r \in Call /\ r.stage = "done" /\ r.outcome = "killed" /\ r.next = call[d].next
          /\ r.failed = call[d].failed /\ r.hadPdf = call[d].hadPdf /\ r.hadMd = call[d].hadMd
      BY <3>1 DEF Call, Stages, Outcomes
    <3>3. call'[d] = r
      BY <1>1, <2>2
    <3> HIDE DEF r
    <3>4. Own(d, r)
      BY <3>1, <3>2, OwnEnds DEF Fruitless
    <3> QED BY <3>2, <3>3, <3>4
  <2> QED BY <2>1, <2>2
<1>3. /\ wish' = wish /\ pdf' = pdf /\ md' = md /\ killed' = TRUE
      /\ \A d : Path(d)' = Path(d) /\ MdKey(d)' = MdKey(d)
  BY OwnStays DEF Kill
<1>4. FilesFit'
  BY <1>0, <1>3 DEF FilesFit, MdKeys
<1>5. CallsFit'
  BY <1>1, <1>2, <1>3, OwnStays DEF CallsFit
<1>6. MdKept'
  BY <1>0, <1>2, <1>3 DEF MdKept, Converting, Holding
<1>7. ASSUME NEW p, Settled(p) PROVE Settled(p)'
  <2>1. \A d \in Callers : Path(d) = p => Calm(d, call'[d])
    BY <1>2, <1>7 DEF Settled, Calm, Writers
  <2> QED BY <1>3, <1>7, <2>1 DEF Settled, Calm
<1>8. PdfsKept'
  BY <1>0, <1>2, <1>3, <1>7 DEF PdfsKept
<1> QED BY <1>4, <1>5, <1>6, <1>8 DEF OnceInv

LEMMA OnceBegins == Init => OnceInv
<1> SUFFICES ASSUME Init PROVE OnceInv
  OBVIOUS
<1>1. NoPdf \in PdfFile /\ NoMd \in MdFile
  BY DEF NoPdf, PdfFile, NoMd, MdFile
<1>2. FilesFit
  <2>1. PICK found \in [Paths -> {"none", "junk", "whole"}] : pdf = [p \in Paths |-> [NoPdf EXCEPT !.bytes = found[p]]]
    BY DEF Init
  <2>2. \A p \in Paths : [NoPdf EXCEPT !.bytes = found[p]] \in PdfFile
    BY <2>1 DEF NoPdf, PdfFile
  <2> QED BY <1>1, <2>1, <2>2 DEF FilesFit, Init
<1>3. New \in Call
  <2>1. /\ New.stage \in Stages /\ New.next \in 1..(Len(Order) + 1) /\ New.failed \in Seq(Urls)
        /\ New.file \in PdfFile /\ New.source \in Sources \cup {"none"} /\ New.polls \in 0..MaxPolls
        /\ New.outcome \in Outcomes /\ New.text \in MdFile /\ New.hadPdf \in BOOLEAN /\ New.hadMd \in BOOLEAN
    BY <1>1, OrderIs, PdfAssumption DEF New, Stages, Outcomes
  <2> QED BY <2>1 DEF New, Call
<1>4. call = [c \in Callers |-> New]
  BY DEF Init
<1>5. ASSUME NEW c \in Callers PROVE Own(c, New)
  <2>1. Candidates(c) \subseteq 1..6
    BY <1>2, CandidatesAre
  <2>2. \A i \in Candidates(c) : ~(i < New.next)
    BY <2>1 DEF New
  <2>3. ToSet(New.failed) = {} /\ IsInjective(New.failed)
    BY DEF New, ToSet, IsInjective
  <2>4. New.stage = "new" /\ New.outcome = "none" /\ New.next = 1
    BY DEF New
  <2>5. Tried(c, New)
    BY <2>2, <2>3, <2>4 DEF Tried, Fetching, Writers, Fruitless
  <2> QED BY <1>3, <2>4, <2>5 DEF Own, Fetching, Writers
<1>6. CallsFit
  BY <1>4, <1>5 DEF CallsFit
<1>7. PdfsKept /\ MdKept
  BY <1>4 DEF PdfsKept, MdKept, New
<1> QED BY <1>2, <1>6, <1>7 DEF OnceInv

LEMMA OnceStands ==
    ASSUME OnceInv, UNCHANGED vars
    PROVE  OnceInv'
<1>1. wish' = wish /\ pdf' = pdf /\ md' = md /\ call' = call /\ killed' = killed
  BY DEF vars
<1>2. FilesFit' /\ CallsFit' /\ MdKept'
  BY <1>1, OwnStays DEF OnceInv, FilesFit, CallsFit, MdKept, MdKeys
<1>3. PdfsKept'
  BY <1>1, OwnStays DEF OnceInv, PdfsKept, Settled, Calm
<1> QED BY <1>2, <1>3 DEF OnceInv

LEMMA OnceSteps == OnceInv /\ [Next]_vars => OnceInv'
<1> SUFFICES ASSUME OnceInv, [Next]_vars PROVE OnceInv'
  OBVIOUS
<1>1. ASSUME NEW c \in Callers, Begin(c) \/ Step(c) PROVE OnceInv'
  BY <1>1, BeginOnce, ProposeOnce, ExhaustedOnce, CheckOnce, DownloadKeepsOnce, WritingOnce, UsingOnce,
     WritingMdOnce DEF Step
<1> QED BY <1>1, KillOnce, OnceStands DEF Next

\* A call for a paper's PDF tries each URL that is known once, asks Unpaywall after
\* all others, and says that there is none only if there is none; a call downloads
\* or converts nothing whose file was there when it began: for any calls, papers
\* and files, however they meet and wherever the process is killed.
THEOREM EverythingIsTriedOnce == Spec => []TriesEverythingOnce
<1>1. OnceInv /\ [Next]_vars => OnceInv'
  BY OnceSteps
<1>2. OnceInv => TriesEverythingOnce
  <2> SUFFICES ASSUME OnceInv PROVE TriesEverythingOnce
    OBVIOUS
  <2>1. /\ \A c \in Callers : Own(c, call[c])
        /\ call = [c \in Callers |-> call[c]]
        /\ FilesFit
    BY DEF OnceInv, CallsFit
  <2>2. TypeOK
    <3>1. call \in [Callers -> Call]
      BY <2>1 DEF Own
    <3> QED BY <2>1, <3>1 DEF TypeOK, FilesFit, Own
  <2>3. FailureNamesEverySource
    <3>1. ASSUME NEW c \in Callers, Tool(c) \in PaperTools
          PROVE  /\ IsInjective(call[c].failed)
                 /\ At(c, "candidate") /\ Left(c) # {} /\ Candidate(c) = "unpaywall" =>
                       Recorded(c) \subseteq ToSet(call[c].failed)
                 /\ call[c].outcome \in {"no_oa_pdf", "not_pdf", "download_failed"} =>
                       Recorded(c) \subseteq ToSet(call[c].failed)
                 /\ call[c].outcome = "no_oa_pdf" => Recorded(c) = {}
      <4>1. Tried(c, call[c]) /\ call[c].next \in 1..7
        BY <2>1, <3>1, CallIs DEF Own
      <4>2. ASSUME Left(c) # {}, Candidate(c) = "unpaywall", NEW s \in DOMAIN wish[c].known \ {"unpaywall"}
            PROVE  wish[c].known[s] \in ToSet(call[c].failed)
        <5>1. /\ Turn(c) \in Candidates(c) /\ Candidates(c) \subseteq 1..4 /\ Order[Turn(c)] = "unpaywall"
              /\ Turn(c) = Min(From(c, call[c].next)) /\ From(c, call[c].next) # {}
          BY <2>1, <3>1, <4>1, <4>2, NextIs, LeftIs, CandidatesAre DEF Candidate
        <5>2. Turn(c) = 4
          BY <5>1, OrderIs
        <5>3. \A i \in Candidates(c) : i < 5 <=> i < call[c].next \/ i = 4
          BY <2>1, <4>1, <5>1, <5>2, NextIs
        <5>4. s \in {"s2_oa", "arxiv", "pmc"}
          BY <2>1, <3>1, <4>2, AskedIs DEF ComesFrom, PaperTools
        <5>5. \E i \in {1, 2, 3} : i \in Candidates(c) /\ Order[i] = s
          BY <4>2, <5>4, OrderIs DEF Candidates
        <5> QED BY <4>1, <4>2, <5>3, <5>5 DEF Tried
      <4> QED BY <4>1, <4>2 DEF Tried, Fruitless, Recorded
    <3> QED BY <3>1 DEF FailureNamesEverySource, Recorded
  <2>4. NothingTwice
    BY DEF OnceInv, PdfsKept, MdKept, Settled, Calm, NothingTwice, Writers, Converting, Holding
  <2> QED BY <2>2, <2>3, <2>4 DEF TriesEverythingOnce
<1> QED BY <1>1, <1>2, OnceBegins, PTL DEF Spec

\* How many steps a call of these tools can still take before it is answered: a
\* paper may go through the first four stages for each place in the order that is
\* left, and a conversion be polled MaxPolls times.
StageSteps(k) ==
    CASE k.stage = "new" -> MaxPolls + 12
      [] k.stage = "candidate" -> MaxPolls + 11
      [] k.stage = "check" -> MaxPolls + 10
      [] k.stage = "compare" -> MaxPolls + 9
      [] k.stage = "download" -> MaxPolls + 8
      [] k.stage = "truncate" -> MaxPolls + 7
      [] k.stage \in {"publish", "fill"} -> MaxPolls + 6
      [] k.stage = "have" -> MaxPolls + 5
      [] k.stage = "load" -> MaxPolls + 4
      [] k.stage = "convert" -> MaxPolls + 3 - k.polls
      [] k.stage = "open_md" -> 2
      [] k.stage \in {"read", "fill_md"} -> 1
      [] OTHER -> 0
StepsIn(k) == IF k.stage = "done" THEN 0 ELSE 4 * (7 - k.next) + StageSteps(k)
StepsLeft(c) == StepsIn(call[c])

\* A step of a call leaves it fewer to take, and nothing that others do, a kill
\* least of all, ever adds to them.
CountsDown ==
    \A c \in Callers :
        /\ StepsLeft(c) \in Nat /\ StepsLeft(c)' \in Nat
        /\ StepsLeft(c)' <= StepsLeft(c)
        /\ Begin(c) \/ Step(c) => StepsLeft(c)' < StepsLeft(c)

LEMMA StepsCounted ==
    ASSUME NEW k \in Call
    PROVE  /\ StepsIn(k) \in Nat /\ StageSteps(k) \in Nat /\ k.next \in 1..7 /\ k.stage \in Stages
           /\ k.polls \in 0..MaxPolls /\ MaxPolls \in Nat
           /\ k.stage # "done" => StageSteps(k) > 0 /\ StepsIn(k) = 4 * (7 - k.next) + StageSteps(k)
<1>1. k.stage \in Stages /\ k.next \in 1..7 /\ k.polls \in 0..MaxPolls /\ MaxPolls \in Nat
  BY CallIs, PdfAssumption DEF Call
<1>2. 4 * (7 - k.next) \in Nat
  BY <1>1
<1>3. StageSteps(k) \in Nat /\ (k.stage # "done" => StageSteps(k) > 0)
  BY <1>1 DEF StageSteps, Stages
<1> QED BY <1>1, <1>2, <1>3 DEF StepsIn

\* A call that ends, goes to a later stage, or goes on to a later place.
LEMMA FewerLeft ==
    ASSUME OnceInv, NEW c \in Callers, NEW k \in Call, Moves(c, k), call[c].stage # "done",
           \/ k.stage = "done"
           \/ k.next = call[c].next /\ StageSteps(k) < StageSteps(call[c])
           \/ k.next > call[c].next /\ StageSteps(k) < StageSteps(call[c]) + 4
    PROVE  StepsLeft(c)' < StepsLeft(c)
<1> DEFINE q == call[c]
<1>1. q \in Call /\ call = [d \in Callers |-> call[d]]
  BY DEF OnceInv, CallsFit, Own
<1>2. call'[c] = k
  BY <1>1 DEF Moves
<1>3. StepsLeft(c)' = StepsIn(k)
  BY <1>2 DEF StepsLeft, StepsIn, StageSteps
<1>4. /\ StageSteps(q) \in Nat /\ StageSteps(q) > 0 /\ q.next \in 1..7
      /\ StepsIn(q) = 4 * (7 - q.next) + StageSteps(q)
      /\ StageSteps(k) \in Nat /\ k.next \in 1..7
      /\ k.stage # "done" => StepsIn(k) = 4 * (7 - k.next) + StageSteps(k)
      /\ k.stage = "done" => StepsIn(k) = 0
  BY <1>1, StepsCounted DEF StepsIn
<1>5. \/ k.stage = "done"
      \/ k.next = q.next /\ StageSteps(k) < StageSteps(q)
      \/ k.next > q.next /\ StageSteps(k) < StageSteps(q) + 4
  OBVIOUS
<1>6. StepsLeft(c) = StepsIn(q)
  BY DEF StepsLeft
<1> HIDE DEF q
<1>7. StepsIn(k) < StepsIn(q)
  BY <1>4, <1>5
<1> QED BY <1>3, <1>6, <1>7

\* An answer ends a call.
LEMMA AnswerEnds ==
    ASSUME OnceInv, NEW c \in Callers, NEW o \in Outcomes, Answer(c, o), call[c].stage # "done"
    PROVE  StepsLeft(c)' < StepsLeft(c)
<1> DEFINE k == [call[c] EXCEPT !.stage = "done", !.outcome = o]
<1>1. call[c] \in Call
  BY DEF OnceInv, CallsFit, Own
<1>2. k \in Call /\ k.stage = "done"
  BY <1>1 DEF Call, Stages
<1>3. Moves(c, k)
  BY DEF Answer
<1> HIDE DEF k
<1> QED BY <1>2, <1>3, FewerLeft

\* The stages in the order a call goes through them, from the entrance on.
LEMMA StageEnds ==
    ASSUME OnceInv, NEW c \in Callers, NEW s \in Stages, Goes(c, s), call[c].stage # "done",
           \/ call[c].stage = "check" /\ s = "download"
           \/ call[c].stage = "compare" /\ s \in {"have", "download"}
           \/ call[c].stage = "download" /\ s \in {"truncate", "publish"}
           \/ call[c].stage = "truncate" /\ s = "fill"
           \/ call[c].stage \in {"publish", "fill"} /\ s = "have"
           \/ call[c].stage = "have" /\ s \in {"load", "read"}
           \/ call[c].stage = "convert" /\ s = "open_md"
           \/ call[c].stage = "open_md" /\ s = "fill_md"
    PROVE  StepsLeft(c)' < StepsLeft(c)
<1> DEFINE k == [call[c] EXCEPT !.stage = s]
<1>1. call[c] \in Call
  BY DEF OnceInv, CallsFit, Own
<1>2. k \in Call /\ k.stage = s /\ k.next = call[c].next
  BY <1>1 DEF Call
<1>3. Moves(c, k)
  BY DEF Goes
<1>4. call[c].polls \in 0..MaxPolls /\ MaxPolls \in Nat
  BY <1>1, StepsCounted
<1> HIDE DEF k
<1>5. StageSteps(k) < StageSteps(call[c])
  BY <1>2, <1>4 DEF StageSteps
<1> QED BY <1>2, <1>3, <1>5, FewerLeft

\* A step changes the state of one call.
LEMMA StepMoves ==
    ASSUME NEW c \in Callers, Begin(c) \/ Step(c)
    PROVE  \E k : Moves(c, k)
<1>1. CASE Begin(c)
  BY <1>1 DEF Begin
<1>2. CASE Propose(c)
  BY <1>2 DEF Propose
<1>3. CASE Exhausted(c) \/ CheckOpens(c) \/ CheckCompares(c) \/ ReadMd(c) \/ Load(c)
  BY <1>3 DEF Exhausted, CheckOpens, CheckCompares, ReadMd, Load, Goes, Answer
<1>4. CASE Download(c)
  BY <1>4 DEF Download, Goes, Answer
<1>5. CASE Publish(c) \/ PatentTruncates(c) \/ PatentFills(c)
  BY <1>5 DEF Publish, PatentTruncates, PatentFills, Goes
<1>6. CASE Have(c)
  BY <1>6 DEF Have, Goes, Answer
<1>7. CASE Poll(c) \/ OpenMd(c) \/ FillMd(c)
  BY <1>7 DEF Poll, OpenMd, FillMd, Goes, Answer
<1> QED BY <1>1, <1>2, <1>3, <1>4, <1>5, <1>6, <1>7 DEF Step

LEMMA BeginCounts ==
    ASSUME OnceInv, NEW c \in Callers, Begin(c)
    PROVE  StepsLeft(c)' < StepsLeft(c)
<1> DEFINE q == call[c]
           b == Begun(c)
<1>1. q \in Call /\ FilesFit /\ q.stage = "new" /\ MaxPolls \in Nat
  BY PdfAssumption DEF OnceInv, CallsFit, Own, Begin, At
<1>2. Tool(c) \in Tools
  BY <1>1, PdfAssumption DEF FilesFit, Wish, Tool
<1>3. b \in Call /\ b.next = q.next
  BY <1>1 DEF Begun, Call
<1> DEFINE Refused(o) == [b EXCEPT !.stage = "done", !.outcome = o]
           Entered == [b EXCEPT !.stage = Entrance(c)]
<1>4. \/ \E o \in Outcomes : Moves(c, Refused(o))
      \/ Moves(c, Entered)
  BY DEF Begin, Outcomes, Errors
<1> HIDE DEF b, Refused, Entered
<1>5. CASE \E o \in Outcomes : Moves(c, Refused(o))
  <2>1. PICK o \in Outcomes : Moves(c, Refused(o))
    BY <1>5
  <2> DEFINE k == Refused(o)
  <2>2. k \in Call /\ k.stage = "done"
    BY <1>3 DEF Call, Stages, Refused
  <2>3. Moves(c, k)
    BY <2>1
  <2> HIDE DEF k
  <2> QED BY <1>1, <2>2, <2>3, FewerLeft
<1>6. CASE Moves(c, Entered)
  <2> DEFINE k == Entered
  <2>1. Entrance(c) \in {"candidate", "check", "download", "have"}
    BY <1>2 DEF Entrance, Tools, ConvertingTools, PaperTools
  <2>2. k \in Call /\ k.stage = Entrance(c) /\ k.next = q.next
    BY <1>3, <2>1 DEF Call, Stages, Entered
  <2>3. Moves(c, k)
    BY <1>6
  <2> HIDE DEF k
  <2>4. StageSteps(k) < StageSteps(q)
    BY <1>1, <2>1, <2>2 DEF StageSteps
  <2> QED BY <1>1, <2>2, <2>3, <2>4, FewerLeft
<1> QED BY <1>4, <1>5, <1>6

\* The next place that is left lies ahead.
LEMMA TurnIsAhead ==
    ASSUME OnceInv, NEW c \in Callers, Left(c) # {}
    PROVE  /\ call[c] \in Call /\ Turn(c) \in Nat /\ Turn(c) + 1 \in 1..7 /\ Turn(c) + 1 > call[c].next
           /\ Candidate(c) \in Sources /\ Url(c) \in Urls
<1>1. FilesFit /\ call[c] \in Call /\ call[c].next \in 1..7
  BY CallIs DEF OnceInv, CallsFit, Own
<1>2. /\ Turn(c) \in Candidates(c) /\ Turn(c) >= call[c].next /\ Turn(c) + 1 \in 1..7 /\ Url(c) \in Urls
      /\ Candidates(c) \subseteq 1..6
  BY <1>1, NextIs, LeftIs, CandidatesAre
<1>3. Candidate(c) \in Sources
  BY <1>2, OrderIs DEF Candidate
<1> QED BY <1>1, <1>2, <1>3

LEMMA ProposeCounts ==
    ASSUME OnceInv, NEW c \in Callers, Propose(c)
    PROVE  StepsLeft(c)' < StepsLeft(c)
<1> DEFINE q == call[c]
<1>1. /\ q \in Call /\ q.stage = "candidate" /\ Turn(c) \in Nat /\ Turn(c) + 1 \in 1..7 /\ Turn(c) + 1 > q.next
      /\ Candidate(c) \in Sources /\ MaxPolls \in Nat
  BY TurnIsAhead, PdfAssumption DEF Propose, At
<1>2. \/ \E s \in {"check", "download"} : Moves(c, [q EXCEPT !.source = Candidate(c), !.stage = s])
      \/ Moves(c, [q EXCEPT !.next = Turn(c) + 1])
  BY DEF Propose
<1>3. CASE \E s \in {"check", "download"} : Moves(c, [q EXCEPT !.source = Candidate(c), !.stage = s])
  <2>1. PICK s \in {"check", "download"} : Moves(c, [q EXCEPT !.source = Candidate(c), !.stage = s])
    BY <1>3
  <2> DEFINE k == [q EXCEPT !.source = Candidate(c), !.stage = s]
  <2>2. k \in Call /\ k.stage = s /\ k.next = q.next
    BY <1>1 DEF Call, Stages
  <2>3. Moves(c, k)
    BY <2>1
  <2> HIDE DEF k
  <2>4. StageSteps(k) < StageSteps(q)
    BY <1>1, <2>2 DEF StageSteps
  <2> QED BY <1>1, <2>2, <2>3, <2>4, FewerLeft
<1>4. CASE Moves(c, [q EXCEPT !.next = Turn(c) + 1])
  <2> DEFINE n == Turn(c) + 1
             k == [q EXCEPT !.next = n]
  <2>1. n \in 1..(Len(Order) + 1)
    BY <1>1, OrderIs
  <2>2. k \in Call /\ k.stage = "candidate" /\ k.next = n
    BY <1>1, <2>1 DEF Call
  <2>3. Moves(c, k) /\ n > q.next
    BY <1>1, <1>4
  <2> HIDE DEF k, n
  <2>4. StageSteps(k) < StageSteps(q) + 4
    BY <1>1, <2>2 DEF StageSteps
  <2> QED BY <1>1, <2>2, <2>3, <2>4, FewerLeft
<1> QED BY <1>2, <1>3, <1>4

LEMMA DownloadCounts ==
    ASSUME OnceInv, NEW c \in Callers, Download(c)
    PROVE  StepsLeft(c)' < StepsLeft(c)
<1> DEFINE q == call[c]
<1>1. q \in Call /\ q.stage = "download" /\ q.failed \in Seq(Urls) /\ MaxPolls \in Nat /\ Own(c, q) /\ q.next \in 1..7
  BY CallIs, PdfAssumption DEF OnceInv, CallsFit, Own, Download, At
<1>2. Left(c) # {}
  BY <1>1, LeftIs DEF Own, Fetching, Writers
<1>3. /\ Turn(c) \in Nat /\ Turn(c) + 1 \in 1..7 /\ Turn(c) + 1 > q.next /\ Url(c) \in Urls
  BY <1>2, TurnIsAhead
<1>4. \/ \E s \in {"truncate", "publish"} : Goes(c, s)
      \/ \E o \in Outcomes : Answer(c, o)
      \/ Moves(c, [q EXCEPT !.failed = Append(@, Url(c)), !.next = Turn(c) + 1, !.stage = "candidate"])
  BY DEF Download, Outcomes, Errors
<1>5. CASE \E s \in {"truncate", "publish"} : Goes(c, s)
  BY <1>1, <1>5, StageEnds DEF Stages
<1>6. CASE \E o \in Outcomes : Answer(c, o)
  BY <1>1, <1>6, AnswerEnds
<1>7. CASE Moves(c, [q EXCEPT !.failed = Append(@, Url(c)), !.next = Turn(c) + 1, !.stage = "candidate"])
  <2> DEFINE n == Turn(c) + 1
             a == Append(q.failed, Url(c))
             k == [q EXCEPT !.failed = a, !.next = n, !.stage = "candidate"]
  <2>1. n \in 1..(Len(Order) + 1) /\ a \in Seq(Urls) /\ n > q.next
    BY <1>1, <1>3, OrderIs
  <2>3. Moves(c, k)
    BY <1>7
  <2> HIDE DEF n, a
  <2>2. k \in Call /\ k.stage = "candidate" /\ k.next = n
    BY <1>1, <2>1 DEF Call, Stages
  <2> HIDE DEF k
  <2>4. StageSteps(k) < StageSteps(q) + 4
    BY <1>1, <2>2 DEF StageSteps
  <2> QED BY <1>1, <2>1, <2>2, <2>3, <2>4, FewerLeft
<1> QED BY <1>4, <1>5, <1>6, <1>7

\* The stages with a file, up to the conversion.
LEMMA UsesCount ==
    ASSUME OnceInv, NEW c \in Callers,
           \/ CheckOpens(c) \/ CheckCompares(c) \/ Publish(c) \/ PatentTruncates(c) \/ PatentFills(c)
           \/ Have(c) \/ ReadMd(c) \/ Load(c) \/ Exhausted(c)
    PROVE  StepsLeft(c)' < StepsLeft(c)
<1> DEFINE q == call[c]
           f == pdf[Path(c)]
           m == md[MdKey(c)]
<1>1. /\ q \in Call /\ FilesFit /\ MaxPolls \in Nat /\ f \in PdfFile /\ m \in MdFile
      /\ q.polls \in 0..MaxPolls
  <2>1. q \in Call /\ FilesFit
    BY DEF OnceInv, CallsFit, Own
  <2>2. Path(c) \in Paths /\ wish[c].vlm \in BOOLEAN
    BY <2>1, PdfAssumption DEF FilesFit, Wish, Path
  <2> QED BY <2>1, <2>2, StepsCounted DEF FilesFit, MdKeys, MdKey
<1>2. CASE CheckOpens(c)
  <2>1. CASE pdf[Path(c)] = NoPdf
    BY <1>1, <1>2, <2>1, StageEnds DEF CheckOpens, At, Stages
  <2>2. CASE pdf[Path(c)] # NoPdf
    <3> DEFINE k == [q EXCEPT !.file = f, !.stage = "compare"]
    <3>1. k \in Call /\ k.stage = "compare" /\ k.next = q.next
      BY <1>1 DEF Call, Stages
    <3>2. Moves(c, k) /\ q.stage = "check"
      BY <1>2, <2>2 DEF CheckOpens, At
    <3> HIDE DEF k, f, m
    <3>3. StageSteps(k) < StageSteps(q)
      BY <1>1, <3>1, <3>2 DEF StageSteps
    <3> QED BY <3>1, <3>2, <3>3, FewerLeft
  <2> QED BY <2>1, <2>2
<1>3. CASE CheckCompares(c)
  <2>1. q.stage = "compare" /\ \E s \in {"have", "download"} : Goes(c, s)
    BY <1>3 DEF CheckCompares, At
  <2> QED BY <1>1, <2>1, StageEnds DEF Stages
<1>4. CASE Publish(c) \/ PatentTruncates(c) \/ PatentFills(c)
  BY <1>1, <1>4, StageEnds DEF Publish, PatentTruncates, PatentFills, At, Stages
<1>5. CASE Have(c)
  <2>1. /\ q.stage = "have"
        /\ (\E o \in Outcomes : Answer(c, o)) \/ (\E s \in {"load", "read"} : Goes(c, s))
    BY <1>5 DEF Have, At, Outcomes, Errors
  <2> QED BY <1>1, <2>1, StageEnds, AnswerEnds DEF Stages
<1>6. CASE ReadMd(c)
  <2> DEFINE k == [q EXCEPT !.stage = "done", !.outcome = "markdown", !.text = m]
  <2>1. k \in Call /\ k.stage = "done"
    BY <1>1 DEF Call, Stages, Outcomes
  <2>2. Moves(c, k) /\ q.stage = "read"
    BY <1>6 DEF ReadMd, At
  <2> HIDE DEF k
  <2> QED BY <1>1, <2>1, <2>2, FewerLeft
<1>7. CASE Load(c)
  <2> DEFINE k == [q EXCEPT !.stage = "convert", !.file = f]
  <2>1. k \in Call /\ k.stage = "convert" /\ k.next = q.next /\ k.polls = q.polls
    BY <1>1 DEF Call, Stages
  <2>2. Moves(c, k) /\ q.stage = "load"
    BY <1>7 DEF Load, At
  <2> HIDE DEF k, f, m
  <2>3. StageSteps(k) < StageSteps(q)
    BY <1>1, <2>1, <2>2 DEF StageSteps
  <2> QED BY <1>1, <2>1, <2>2, <2>3, FewerLeft
<1>8. CASE Exhausted(c)
  <2>1. q.stage = "candidate" /\ \E o \in Outcomes : Answer(c, o)
    BY <1>8 DEF Exhausted, At, Outcomes, Errors
  <2> QED BY <2>1, AnswerEnds
<1> QED BY <1>2, <1>3, <1>4, <1>5, <1>6, <1>7, <1>8

\* A conversion and the writing of its markdown.
LEMMA ConversionCounts ==
    ASSUME OnceInv, NEW c \in Callers, Poll(c) \/ OpenMd(c) \/ FillMd(c)
    PROVE  StepsLeft(c)' < StepsLeft(c)
<1> DEFINE q == call[c]
<1>1. /\ q \in Call /\ MaxPolls \in Nat /\ q.polls \in 0..MaxPolls /\ q.file \in PdfFile
  <2>1. q \in Call
    BY DEF OnceInv, CallsFit, Own
  <2> QED BY <2>1, StepsCounted, CallIs
<1>2. CASE Poll(c)
  <2>1. /\ q.stage = "convert"
        /\ \/ q.polls + 1 < MaxPolls /\ Moves(c, [q EXCEPT !.polls = @ + 1])
           \/ Goes(c, "open_md")
           \/ \E o \in Outcomes : Answer(c, o)
    BY <1>2 DEF Poll, At, Outcomes, Errors
  <2>2. CASE q.polls + 1 < MaxPolls /\ Moves(c, [q EXCEPT !.polls = @ + 1])
    <3> DEFINE n == q.polls + 1
               k == [q EXCEPT !.polls = n]
    <3>1. n \in 0..MaxPolls /\ Moves(c, k)
      BY <1>1, <2>2
    <3>2. k \in Call /\ k.stage = "convert" /\ k.next = q.next /\ k.polls = n
      BY <1>1, <2>1, <3>1 DEF Call
    <3> HIDE DEF k
    <3>3. StageSteps(k) < StageSteps(q)
      BY <1>1, <2>1, <3>2 DEF StageSteps
    <3> QED BY <2>1, <3>1, <3>2, <3>3, FewerLeft
  <2> QED BY <2>1, <2>2, StageEnds, AnswerEnds DEF Stages
<1>3. CASE OpenMd(c)
  BY <1>1, <1>3, StageEnds DEF OpenMd, At, Stages
<1>4. CASE FillMd(c)
  <2> DEFINE mine == [bytes |-> "whole", from |-> q.file]
             k == [q EXCEPT !.stage = "done", !.outcome = "markdown", !.text = mine]
  <2>1. k \in Call /\ k.stage = "done"
    BY <1>1 DEF Call, Stages, Outcomes, MdFile
  <2>2. Moves(c, k) /\ q.stage = "fill_md"
    BY <1>4 DEF FillMd, At
  <2> HIDE DEF k
  <2> QED BY <2>1, <2>2, FewerLeft
<1> QED BY <1>2, <1>3, <1>4

\* Every step of a call on the PDF files leaves it fewer steps to take, and nothing
\* that others do, nor a kill, adds to them: with any number of calls it ends after
\* at most MaxPolls + 36 steps of its own, whatever the others do to its files.
THEOREM FileCallsRunDown == Spec => [][CountsDown]_vars
<1>1. Init => OnceInv
  BY OnceBegins
<1>2. OnceInv /\ [Next]_vars => OnceInv'
  BY OnceSteps
<1>3. OnceInv /\ OnceInv' /\ [Next]_vars => [CountsDown]_vars
  <2> SUFFICES ASSUME OnceInv, OnceInv', Next PROVE CountsDown
    OBVIOUS
  <2>1. \A d \in Callers : Begin(d) \/ Step(d) => StepsLeft(d)' < StepsLeft(d)
    BY BeginCounts, ProposeCounts, DownloadCounts, UsesCount, ConversionCounts DEF Step
  <2>2. \A d \in Callers : call[d] \in Call /\ call'[d] \in Call
    BY DEF OnceInv, CallsFit, Own
  <2>3. ASSUME NEW d \in Callers
        PROVE  /\ StepsLeft(d) \in Nat /\ StepsLeft(d)' \in Nat
               /\ StepsLeft(d)' = StepsIn(call'[d])
    <3>1. StepsLeft(d)' = StepsIn(call'[d])
      BY DEF StepsLeft, StepsIn, StageSteps
    <3> QED BY <2>2, <3>1, StepsCounted DEF StepsLeft
  <2>4. ASSUME NEW d \in Callers, ~(Begin(d) \/ Step(d))
        PROVE  StepsLeft(d)' <= StepsLeft(d)
    <3>1. CASE Kill
      <4> DEFINE gone == [call[d] EXCEPT !.stage = "done", !.outcome = "killed"]
      <4>1. call'[d] = IF call[d].stage \in {"new", "done"} THEN call[d]
                       ELSE [call[d] EXCEPT !.stage = "done", !.outcome = "killed"]
        BY <3>1 DEF Kill
      <4>2. gone.stage = "done" /\ (call'[d] = call[d] \/ call'[d] = gone)
        BY <2>2, <4>1 DEF Call
      <4> HIDE DEF gone
      <4>3. call'[d] = call[d] \/ call'[d].stage = "done"
        BY <4>2
      <4> QED BY <2>3, <4>3 DEF StepsLeft, StepsIn
    <3>2. CASE \E c \in Callers : Begin(c) \/ Step(c)
      <4>1. PICK c \in Callers : Begin(c) \/ Step(c)
        BY <3>2
      <4>2. c # d
        BY <2>4, <4>1
      <4>3. \E k : Moves(c, k)
        BY <4>1, StepMoves
      <4>4. call'[d] = call[d]
        BY <4>2, <4>3 DEF Moves, OnceInv, CallsFit
      <4> QED BY <2>3, <4>4 DEF StepsLeft
    <3> QED BY <3>1, <3>2 DEF Next
  <2> QED BY <2>1, <2>3, <2>4 DEF CountsDown
<1> QED BY <1>1, <1>2, <1>3, PTL DEF Spec

-----------------------------------------------------------------------------
(* FullText: whose text an answer carries, and where it was converted.          *)

TextPlaces == {"start", "text", "download", "convert", "store", "done"}

TextCalls == [at : TextPlaces, wants : BOOLEAN, failed : BOOLEAN, content : Versions, text : Versions]

\* What a call knows at each place: only those who asked go on, only where there is a
\* document and docling do they download, and what they store was converted to its end.
TextCallFits(q, served, can, done) ==
    /\ q.at # "done" => ~q.failed
    /\ q.at \notin {"start", "done"} => q.wants
    /\ q.at \in {"download", "convert", "store"} => served /\ can
    /\ q.at \in {"convert", "store"} => q.content # 0
    /\ q.at = "store" => q.content \in done
    /\ q.at = "done" =>
          /\ q.text # 0 => q.wants /\ q.text \in done
          /\ q.wants /\ served /\ can => (q.failed <=> q.text = 0)

TextCallOK(q) == TextCallFits(q, offered, docling, converted)

\* Nothing is ever written into the record's row.
ShelfOK ==
    /\ offered \in BOOLEAN /\ docling \in BOOLEAN
    /\ document \in Versions \ {0} /\ row = 0 /\ texts \in Versions
    /\ converted \subseteq Versions
    /\ texts # 0 => texts \in converted

ReadersStand == reader \in [Readers -> TextCalls] /\ \A r \in Readers : TextCallOK(reader[r])

TextInv == ShelfOK /\ ReadersStand

LEMMA TextStarts == ASSUME TextAssumption, TextInit PROVE TextInv
<1>1. PICK on \in BOOLEAN, with \in BOOLEAN, wants \in [Readers -> BOOLEAN] : TextBegins(on, with, wants)
  BY DEF TextInit
<1>2. ShelfOK
  BY <1>1 DEF TextBegins, ShelfOK, TextAssumption, Versions
<1>3. ReadersStand
  BY <1>1 DEF TextBegins, ReadersStand, TextCalls, TextCallOK, TextCallFits, TextPlaces, Versions, TextAssumption
<1> QED BY <1>2, <1>3 DEF TextInv

\* A step of one call, after which what was converted still is.
LEMMA TextTurn ==
    ASSUME ReadersStand, NEW r \in Readers, NEW q \in TextCalls, Turns(r, q),
           UNCHANGED <<offered, docling>>, converted \subseteq converted', TextCallFits(q, offered', docling', converted')
    PROVE  ReadersStand'
<1>1. reader' \in [Readers -> TextCalls]
  BY DEF ReadersStand, Turns
<1>2. ASSUME NEW s \in Readers PROVE TextCallOK(reader[s])'
  <2>1. CASE s = r
    BY <2>1 DEF ReadersStand, Turns, TextCallOK, TextCallFits
  <2>2. CASE s # r
    <3>1. reader'[s] = reader[s] /\ TextCallOK(reader[s])
      BY <2>2 DEF ReadersStand, Turns
    <3> QED BY <3>1 DEF TextCallOK, TextCallFits
  <2> QED BY <2>1, <2>2
<1> QED BY <1>1, <1>2 DEF ReadersStand

LEMMA TextStep == ASSUME TextAssumption, TextInv, [TextNext]_textVars PROVE TextInv'
<1> USE DEF TextInv
<1>1. CASE Republish
  <2>1. ShelfOK'
    BY <1>1 DEF Republish, ShelfOK, Versions, TextAssumption
  <2> QED BY <1>1, <2>1 DEF Republish, ReadersStand, TextCallOK, TextCallFits
<1>2. CASE TextExpires
  BY <1>2 DEF TextExpires, ShelfOK, ReadersStand, TextCallOK, TextCallFits, Versions, TextAssumption
<1>3. ASSUME NEW r \in Readers,
             ReadRow(r) \/ GetFullText(r) \/ DownloadText(r) \/ Convert(r) \/ TextFails(r)
                 \/ SetFullText(r) \/ StoreFails(r)
      PROVE  TextInv'
  <2> DEFINE q == reader[r]
  <2>0. /\ ReadersStand /\ ShelfOK /\ q \in TextCalls /\ TextCallOK(q)
        /\ row = 0 /\ 0 \in Versions
    BY <1>3 DEF ReadersStand, ShelfOK, Versions, TextAssumption
  <2>1. ASSUME NEW text \in Versions
        PROVE  /\ Given(r, text) \in TextCalls /\ Given(r, text).at = "done"
               /\ Given(r, text).text = text /\ Given(r, text).wants = q.wants
               /\ Given(r, text).failed = q.failed
    BY <2>0 DEF Given, TextCalls, TextPlaces
  <2>2. ASSUME NEW place \in TextPlaces
        PROVE  /\ [q EXCEPT !.at = place] \in TextCalls /\ [q EXCEPT !.at = place].at = place
               /\ [q EXCEPT !.at = place].wants = q.wants /\ [q EXCEPT !.at = place].failed = q.failed
               /\ [q EXCEPT !.at = place].content = q.content
    BY <2>0 DEF TextCalls
  <2> HIDE DEF q
  <2>3. CASE ReadRow(r)
    <3> DEFINE n == IF q.wants THEN [q EXCEPT !.at = "text"] ELSE Given(r, row)
    <3>1. Turns(r, n) /\ Stands(r, "start") /\ UNCHANGED <<offered, docling, document, row, texts, converted>>
      BY <2>3 DEF ReadRow, q
    <3>2. q.at = "start"
      BY <3>1 DEF Stands, q
    <3>3. n \in TextCalls /\ TextCallFits(n, offered', docling', converted')
      BY <2>0, <2>1, <2>2, <3>1, <3>2 DEF TextCallOK, TextCallFits, TextPlaces
    <3> HIDE DEF n
    <3>4. ReadersStand'
      BY <2>0, <3>1, <3>3, TextTurn
    <3> QED BY <2>0, <3>1, <3>4 DEF ShelfOK
  <2>4. CASE GetFullText(r)
    <3> DEFINE n == IF ~offered THEN Given(r, row)
                    ELSE IF texts # 0 THEN Given(r, texts)
                    ELSE IF ~docling THEN Given(r, row)
                    ELSE [q EXCEPT !.at = "download"]
    <3>1. Turns(r, n) /\ Stands(r, "text") /\ UNCHANGED <<offered, docling, document, row, texts, converted>>
      BY <2>4 DEF GetFullText, q
    <3>2. q.at = "text"
      BY <3>1 DEF Stands, q
    <3>3. n \in TextCalls /\ TextCallFits(n, offered', docling', converted')
      BY <2>0, <2>1, <2>2, <3>1, <3>2 DEF TextCallOK, TextCallFits, TextPlaces, ShelfOK
    <3> HIDE DEF n
    <3>4. ReadersStand'
      BY <2>0, <3>1, <3>3, TextTurn
    <3> QED BY <2>0, <3>1, <3>4 DEF ShelfOK
  <2>5. CASE DownloadText(r)
    <3> DEFINE n == [q EXCEPT !.at = "convert", !.content = document]
    <3>1. Turns(r, n) /\ Stands(r, "download") /\ UNCHANGED <<offered, docling, document, row, texts, converted>>
      BY <2>5 DEF DownloadText, q
    <3>2. q.at = "download"
      BY <3>1 DEF Stands, q
    <3>3. /\ n \in TextCalls /\ n.at = "convert" /\ n.content = document
          /\ n.wants = q.wants /\ n.failed = q.failed
      BY <2>0 DEF TextCalls, TextPlaces, ShelfOK
    <3> HIDE DEF n
    <3>4. TextCallFits(n, offered', docling', converted')
      BY <2>0, <3>1, <3>2, <3>3 DEF TextCallOK, TextCallFits, ShelfOK
    <3>5. ReadersStand'
      BY <2>0, <3>1, <3>3, <3>4, TextTurn
    <3> QED BY <2>0, <3>1, <3>5 DEF ShelfOK
  <2>6. CASE Convert(r)
    <3> DEFINE n == [q EXCEPT !.at = "store"]
    <3>1. /\ Turns(r, n) /\ Stands(r, "convert") /\ UNCHANGED <<offered, docling, document, row, texts>>
          /\ converted' = converted \union {q.content}
      BY <2>6 DEF Convert, q
    <3>2. q.at = "convert"
      BY <3>1 DEF Stands, q
    <3>3. n \in TextCalls /\ TextCallFits(n, offered', docling', converted')
      BY <2>0, <2>2, <3>1, <3>2 DEF TextCallOK, TextCallFits, TextPlaces
    <3> HIDE DEF n
    <3>4. ReadersStand'
      BY <2>0, <3>1, <3>3, TextTurn
    <3>5. q.content \in Versions
      BY <2>0 DEF TextCalls
    <3> QED BY <2>0, <3>1, <3>4, <3>5 DEF ShelfOK
  <2>7. CASE TextFails(r)
    <3> DEFINE n == [Given(r, row) EXCEPT !.failed = TRUE]
    <3>1. /\ Turns(r, n) /\ UNCHANGED <<offered, docling, document, row, texts, converted>>
          /\ Stands(r, "download") \/ Stands(r, "convert")
      BY <2>7 DEF TextFails
    <3>2. q.at \in {"download", "convert"}
      BY <3>1 DEF Stands, q
    <3>3. n \in TextCalls /\ n.at = "done" /\ n.failed /\ n.text = 0
      BY <2>0, <2>1 DEF TextCalls
    <3> HIDE DEF n
    <3>4. TextCallFits(n, offered', docling', converted')
      BY <3>3 DEF TextCallOK, TextCallFits
    <3>5. ReadersStand'
      BY <2>0, <3>1, <3>3, <3>4, TextTurn
    <3> QED BY <2>0, <3>1, <3>5 DEF ShelfOK
  <2>8. CASE SetFullText(r) \/ StoreFails(r)
    <3> DEFINE n == Given(r, q.content)
    <3>1. /\ Turns(r, n) /\ Stands(r, "store") /\ UNCHANGED <<offered, docling, document, row, converted>>
          /\ texts' \in {texts, q.content}
      BY <2>8 DEF SetFullText, StoreFails, q
    <3>2. q.at = "store" /\ q.content \in Versions
      BY <2>0, <3>1 DEF Stands, TextCalls, q
    <3>3. n \in TextCalls /\ TextCallFits(n, offered', docling', converted')
      BY <2>0, <2>1, <3>1, <3>2 DEF TextCallOK, TextCallFits
    <3> HIDE DEF n
    <3>4. ReadersStand'
      BY <2>0, <3>1, <3>3, TextTurn
    <3> QED BY <2>0, <3>1, <3>2, <3>4 DEF ShelfOK, TextCallOK, TextCallFits
  <2> QED BY <1>3, <2>3, <2>4, <2>5, <2>6, <2>7, <2>8
<1>4. CASE UNCHANGED textVars
  BY <1>4 DEF textVars, ShelfOK, ReadersStand, TextCallOK, TextCallFits
<1> QED BY <1>1, <1>2, <1>3, <1>4 DEF TextNext

\* A standard's full text comes to those who asked for it and to nobody else, only what
\* was converted to its end is answered or kept, and a call that asked for a text that
\* can be had is given it or told of the failure: for any calls and any editions.
THEOREM TextsHonest == TextSpec => []TextsAreHonest
<1>1. TextInv => TextsAreHonest
  <2> SUFFICES ASSUME TextInv PROVE TextsAreHonest
    OBVIOUS
  <2>1. 0 \in Versions
    BY TextAssumption DEF Versions, TextAssumption
  <2>2. TextTypeOK
    BY <2>1 DEF TextInv, ShelfOK, ReadersStand, TextTypeOK, TextCalls, TextPlaces
  <2> QED BY <2>2 DEF TextInv, ShelfOK, ReadersStand, TextCallOK, TextCallFits, TextsAreHonest, Stands
<1>2. TextInit => TextInv
  BY TextAssumption, TextStarts
<1>3. TextInv /\ [TextNext]_textVars => TextInv'
  BY TextAssumption, TextStep
<1> QED BY <1>1, <1>2, <1>3, PTL DEF TextSpec

-----------------------------------------------------------------------------
(* Citations: names.                                                           *)

LEMMA LeastOfSome ==
    ASSUME NEW S, S \subseteq Nat, S # {}
    PROVE  \E n \in S : \A m \in S : n <= m
<1> DEFINE T == {0..n : n \in S}
<1>1. IsWellFoundedOn(StrictSubsetOrdering(Nat), FiniteSubsetsOf(Nat))
  BY FS_StrictSubsetOrderingWellFounded
<1>2. T \subseteq FiniteSubsetsOf(Nat)
  <2> SUFFICES ASSUME NEW n \in S PROVE 0..n \in FiniteSubsetsOf(Nat)
    OBVIOUS
  <2>1. IsFiniteSet(0..n)
    BY FS_Interval
  <2> QED BY <2>1 DEF FiniteSubsetsOf
<1>3. \E x \in T : \A y \in T : ~(<<y, x>> \in StrictSubsetOrdering(Nat))
  <2>1. T # {}
    OBVIOUS
  <2> HIDE DEF T
  <2> QED BY <1>1, <1>2, <2>1, WFMin
<1>4. PICK n \in S : \A m \in S : ~(<<0..m, 0..n>> \in StrictSubsetOrdering(Nat))
  BY <1>3
<1>5. ASSUME NEW m \in S, ~(n <= m) PROVE FALSE
  <2>1. n \in 0..n /\ n \notin 0..m
    BY <1>5
  <2>2. 0..m \subseteq 0..n /\ 0..m # 0..n
    BY <1>5, <2>1
  <2>3. <<0..m, 0..n>> \in StrictSubsetOrdering(Nat)
    BY <2>2 DEF StrictSubsetOrdering
  <2> QED BY <2>3, <1>4
<1> QED BY <1>5

\* What comes before the last element, and the last element, are the sequence.
LEMMA FrontAndLast ==
    ASSUME NEW S, NEW s \in Seq(S), s # <<>>
    PROVE  /\ Front(s) \in Seq(S) /\ Last(s) \in S
           /\ Front(s) \o <<Last(s)>> = s
           /\ Len(Front(s)) = Len(s) - 1
<1>1. Len(s) \in Nat \ {0}
  BY EmptySeq
<1>2. SubSeq(s, 1, Len(s)) = SubSeq(s, 1, Len(s) - 1) \o <<s[Len(s)]>>
  BY <1>1, SubSeqRecursiveSecond, SMT
<1>3. /\ SubSeq(s, 1, Len(s) - 1) \in Seq(S)
      /\ Len(SubSeq(s, 1, Len(s) - 1)) = Len(s) - 1
  <2> DEFINE m == Len(s) - 1
  <2>1. m \in Nat /\ \A i \in 1..m : s[i] \in S
    BY <1>1, ElementOfSeq
  <2> HIDE DEF m
  <2>2. SubSeq(s, 1, m) \in Seq(S) /\ Len(SubSeq(s, 1, m)) = m
    BY <2>1, SubSeqProperties
  <2> QED BY <2>2 DEF m
<1> QED BY <1>1, <1>2, <1>3, SubSeqFull, ElementOfSeq DEF Front, Last

\* A sequence that is cut in two is the two pieces.
LEMMA Cut ==
    ASSUME NEW S, NEW s \in Seq(S), NEW k \in 1..(Len(s) + 1)
    PROVE  /\ SubSeq(s, 1, k - 1) \in Seq(S) /\ SubSeq(s, k, Len(s)) \in Seq(S)
           /\ SubSeq(s, 1, k - 1) \o SubSeq(s, k, Len(s)) = s
<1> DEFINE n == Len(s)
           j == k - 1
           one == SubSeq(s, 1, j)
           two == SubSeq(s, k, n)
<1>1. n \in Nat /\ k \in 1..(n + 1) /\ j \in 0..n /\ k = j + 1
  BY LenProperties
<1>2. \A i \in 1..n : s[i] \in S
  BY ElementOfSeq
<1>3. /\ one \in Seq(S) /\ Len(one) = j
      /\ \A i \in 1..j : one[i] = s[i]
  <2> HIDE DEF n, j
  <2>1. \A i \in 1..j : s[i] \in S
    BY <1>1, <1>2
  <2>2. /\ SubSeq(s, 1, j) \in Seq(S)
        /\ Len(SubSeq(s, 1, j)) = IF 1 <= j THEN j - 1 + 1 ELSE 0
        /\ \A i \in 1..(j - 1 + 1) : SubSeq(s, 1, j)[i] = s[1 + i - 1]
    BY <1>1, <2>1, SubSeqProperties
  <2> QED BY <1>1, <2>2
<1>4. /\ two \in Seq(S) /\ Len(two) = n - j
      /\ \A i \in 1..(n - j) : two[i] = s[j + i]
  <2> HIDE DEF n, j
  <2>1. \A i \in k..n : s[i] \in S
    BY <1>1, <1>2
  <2>2. /\ SubSeq(s, k, n) \in Seq(S)
        /\ Len(SubSeq(s, k, n)) = IF k <= n THEN n - k + 1 ELSE 0
        /\ \A i \in 1..(n - k + 1) : SubSeq(s, k, n)[i] = s[k + i - 1]
    BY <1>1, <2>1, SubSeqProperties
  <2> QED BY <1>1, <2>2
<1>5. one \o two = s
  <2> HIDE DEF j, one, two
  <2>1. /\ one \o two \in Seq(S) /\ Len(one \o two) = Len(one) + Len(two)
        /\ \A i \in 1..(Len(one) + Len(two)) :
              (one \o two)[i] = IF i <= Len(one) THEN one[i] ELSE two[i - Len(one)]
    BY <1>3, <1>4, ConcatProperties
  <2>2. Len(one) + Len(two) = n
    BY <1>1, <1>3, <1>4
  <2>3. ASSUME NEW i \in 1..n PROVE (one \o two)[i] = s[i]
    <3>1. CASE i <= j
      <4>1. i \in 1..j
        BY <1>1, <3>1
      <4> QED BY <1>1, <1>3, <2>1, <2>2, <3>1, <4>1
    <3>2. CASE ~(i <= j)
      <4>1. i - j \in 1..(n - j) /\ j + (i - j) = i
        BY <1>1, <3>2
      <4> QED BY <1>1, <1>3, <1>4, <2>1, <2>2, <3>2, <4>1
    <3> QED BY <3>1, <3>2
  <2> QED BY <2>1, <2>2, <2>3, SeqEqual
<1> QED BY <1>3, <1>4, <1>5

\* The particles begin at some place in the words, or after them.
LEMMA ParticlesAreThere ==
    ASSUME NEW words \in Seq(Words)
    PROVE  ParticlesFrom(words) \in 1..(Len(words) + 1)
<1> DEFINE runs == {k \in 1..(Len(words) + 1) :
                        \A j \in k..Len(words) : words[j].kind = "particle"}
<1>1. Len(words) \in Nat /\ (words # <<>> => Len(words) # 0)
  BY EmptySeq
<1>2. Len(words) + 1 \in runs /\ runs \subseteq Nat
  BY <1>1
<1>3. \E k \in runs : \A j \in runs : k <= j
  <2> HIDE DEF runs
  <2> QED BY <1>2, LeastOfSome
<1>4. (CHOOSE k \in runs : \A j \in runs : k <= j) \in runs
  <2> HIDE DEF runs
  <2> QED BY <1>3
<1> QED BY <1>1, <1>4 DEF ParticlesFrom

\* The parts of a name are sequences of words which together are the name.
PartsAre(parts, name) ==
    /\ parts.first \in Seq(Words) /\ parts.prefix \in Seq(Words)
    /\ parts.last \in Seq(Words) /\ parts.suffix \in Seq(Words)
    /\ parts.first \o parts.prefix \o parts.last \o parts.suffix = name
    /\ name # <<>> => parts.last # <<>>

LEMMA NameIsTakenApart ==
    ASSUME NEW name \in Seq(Words)
    PROVE  PartsAre(ParseName(name), name)
<1> DEFINE n == Len(name)
           suffixed == n >= 2 /\ name[n].kind = "suffix"
           rest == IF suffixed THEN Front(name) ELSE name
           given == IF rest = <<>> THEN <<>> ELSE Front(rest)
           last == IF rest = <<>> THEN <<>> ELSE <<Last(rest)>>
           suffix == IF suffixed THEN <<name[n]>> ELSE <<>>
           start == ParticlesFrom(given)
           first == SubSeq(given, 1, start - 1)
           prefix == SubSeq(given, start, Len(given))
<1>1. n \in Nat /\ (name # <<>> <=> n # 0)
  BY EmptySeq
<1>2. /\ rest \in Seq(Words) /\ suffix \in Seq(Words) /\ rest \o suffix = name
      /\ name # <<>> => rest # <<>>
  <2>1. CASE suffixed
    <3>1. name # <<>> /\ Last(name) = name[n]
      BY <1>1, <2>1 DEF Last
    <3>2. /\ Front(name) \in Seq(Words) /\ name[n] \in Words
          /\ Front(name) \o <<name[n]>> = name /\ Len(Front(name)) = n - 1
      BY <3>1, FrontAndLast
    <3>3. Front(name) # <<>>
      BY <1>1, <2>1, <3>2, EmptySeq
    <3>4. rest = Front(name) /\ suffix = <<name[n]>>
      BY <2>1
    <3>5. <<name[n]>> \in Seq(Words)
      BY <3>2
    <3> HIDE DEF rest, suffix
    <3> QED BY <3>2, <3>3, <3>4, <3>5
  <2>2. CASE ~suffixed
    <3>1. rest = name /\ suffix = <<>>
      BY <2>2
    <3> HIDE DEF rest, suffix
    <3> QED BY <3>1, ConcatEmptySeq, EmptySeq
  <2> QED BY <2>1, <2>2
<1>3. given \in Seq(Words) /\ last \in Seq(Words) /\ given \o last = rest
  <2> HIDE DEF rest
  <2>1. CASE rest = <<>>
    <3>1. given = <<>> /\ last = <<>>
      BY <2>1
    <3> HIDE DEF given, last
    <3> QED BY <2>1, <3>1, EmptySeq, ConcatEmptySeq
  <2>2. CASE rest # <<>>
    <3>1. given = Front(rest) /\ last = <<Last(rest)>>
      BY <2>2
    <3>2. Front(rest) \in Seq(Words) /\ Last(rest) \in Words /\ Front(rest) \o <<Last(rest)>> = rest
      BY <1>2, <2>2, FrontAndLast
    <3>3. <<Last(rest)>> \in Seq(Words)
      BY <3>2
    <3> HIDE DEF given, last
    <3> QED BY <3>1, <3>2, <3>3
  <2> QED BY <2>1, <2>2
<1>4. first \in Seq(Words) /\ prefix \in Seq(Words) /\ first \o prefix = given
  <2> HIDE DEF given
  <2> QED BY <1>3, ParticlesAreThere, Cut
<1>5. name # <<>> => last # <<>>
  BY <1>2
<1>6. ParseName(name) = Parts(first, prefix, last, suffix)
  BY DEF ParseName
<1> HIDE DEF first, prefix, last, suffix, given, rest
<1>7. first \o prefix \o last \o suffix = name
  BY <1>2, <1>3, <1>4
<1>8. /\ ParseName(name).first = first /\ ParseName(name).prefix = prefix
      /\ ParseName(name).last = last /\ ParseName(name).suffix = suffix
  BY <1>6 DEF Parts
<1> QED BY <1>2, <1>3, <1>4, <1>5, <1>7, <1>8 DEF PartsAre

\* The pieces of a name, put together.
LEMMA PiecesInARow ==
    ASSUME NEW S, NEW x \in S, NEW y \in S, NEW z \in S
    PROVE  /\ <<x>> \o <<>> \o <<>> = <<x>>
           /\ <<x>> \o <<>> \o <<z>> = <<x, z>>
           /\ <<x>> \o <<y>> \o <<>> = <<x, y>>
           /\ <<x>> \o <<y>> \o <<z>> = <<x, y, z>>
<1>1. /\ <<x>> \in Seq(S) /\ <<y>> \in Seq(S) /\ <<z>> \in Seq(S)
      /\ <<x, y>> \in Seq(S) /\ <<x, z>> \in Seq(S)
  OBVIOUS
<1>2. ASSUME NEW w \in S PROVE <<x>> \o <<w>> = <<x, w>>
  <2>1. <<x>> \in Seq(S) /\ <<w>> \in Seq(S) /\ Len(<<x>>) = 1 /\ Len(<<w>>) = 1
    OBVIOUS
  <2>2. /\ <<x>> \o <<w>> \in Seq(S) /\ Len(<<x>> \o <<w>>) = 2
        /\ \A i \in 1..2 : (<<x>> \o <<w>>)[i] = IF i <= 1 THEN <<x>>[i] ELSE <<w>>[i - 1]
    BY <2>1, ConcatProperties
  <2>3. (<<x>> \o <<w>>)[1] = x /\ (<<x>> \o <<w>>)[2] = w
    BY <2>2
  <2>4. <<x, w>> \in Seq(S) /\ Len(<<x, w>>) = 2 /\ <<x, w>>[1] = x /\ <<x, w>>[2] = w
    OBVIOUS
  <2>5. \A i \in 1..2 : i = 1 \/ i = 2
    OBVIOUS
  <2> QED BY <2>2, <2>3, <2>4, <2>5, SeqEqual
<1>3. <<x, y>> \o <<z>> = <<x, y, z>>
  <2>1. Len(<<x, y>>) = 2 /\ Len(<<z>>) = 1
    OBVIOUS
  <2>2. /\ <<x, y>> \o <<z>> \in Seq(S) /\ Len(<<x, y>> \o <<z>>) = 3
        /\ \A i \in 1..3 : (<<x, y>> \o <<z>>)[i] = IF i <= 2 THEN <<x, y>>[i] ELSE <<z>>[i - 2]
    BY <1>1, <2>1, ConcatProperties
  <2>3. /\ (<<x, y>> \o <<z>>)[1] = x /\ (<<x, y>> \o <<z>>)[2] = y
        /\ (<<x, y>> \o <<z>>)[3] = z
    BY <2>2
  <2>4. /\ <<x, y, z>> \in Seq(S) /\ Len(<<x, y, z>>) = 3
        /\ <<x, y, z>>[1] = x /\ <<x, y, z>>[2] = y /\ <<x, y, z>>[3] = z
    OBVIOUS
  <2>5. \A i \in 1..3 : i = 1 \/ i = 2 \/ i = 3
    OBVIOUS
  <2> QED BY <2>2, <2>3, <2>4, <2>5, SeqEqual
<1> QED BY <1>1, <1>2, <1>3, ConcatEmptySeq

\* A name that has a word has a surname.
LEMMA SurnameIsThere ==
    ASSUME NEW parts, NEW name, PartsAre(parts, name)
    PROVE  /\ Surname(parts) \in Seq(Words) /\ parts.suffix \in Seq(Words) /\ parts.first \in Seq(Words)
           /\ Surname(parts) = <<>> => parts.suffix = <<>> /\ parts.first = <<>>
           /\ Surname(parts) = <<>> <=> parts.prefix = <<>> /\ parts.last = <<>>
<1> DEFINE s == Surname(parts)
           x == parts.suffix
           f == parts.first
<1>1. /\ s \in Seq(Words) /\ x \in Seq(Words) /\ f \in Seq(Words)
      /\ parts.prefix \in Seq(Words) /\ parts.last \in Seq(Words)
      /\ f \o parts.prefix \in Seq(Words) /\ f \o parts.prefix \o parts.last \in Seq(Words)
  BY ConcatProperties DEF PartsAre, Surname
<1>2. s # <<>> \/ (s = <<>> /\ x = <<>> /\ f = <<>>)
  <2>1. CASE name # <<>>
    <3>1. parts.last # <<>>
      BY <2>1 DEF PartsAre
    <3> QED BY <1>1, <3>1, ConcatEqualIffEmpty DEF Surname
  <2>2. CASE name = <<>>
    <3>1. f \o parts.prefix \o parts.last \o x = <<>>
      BY <2>2 DEF PartsAre
    <3>2. f \o parts.prefix \o parts.last = <<>> /\ x = <<>>
      BY <1>1, <3>1, ConcatEqualIffEmpty
    <3>3. f \o parts.prefix = <<>> /\ parts.last = <<>>
      BY <1>1, <3>2, ConcatEqualIffEmpty
    <3>4. f = <<>> /\ parts.prefix = <<>>
      BY <1>1, <3>3, ConcatEqualIffEmpty
    <3>5. s = <<>>
      BY <1>1, <3>3, <3>4, ConcatEqualIffEmpty DEF Surname
    <3> QED BY <3>2, <3>4, <3>5
  <2> QED BY <2>1, <2>2
<1>3. s = <<>> <=> parts.prefix = <<>> /\ parts.last = <<>>
  BY <1>1, ConcatEqualIffEmpty DEF Surname
<1> QED BY <1>1, <1>2, <1>3

\* What is written of a name in BibTeX is read as the same name, unless it has a
\* suffix and no given name.
LEMMA NameIsReadBack ==
    ASSUME NEW parts, NEW name, PartsAre(parts, name),
           parts.suffix = <<>> \/ parts.first # <<>>
    PROVE  /\ BibtexReads(BibtexAuthor(parts)).first = parts.first
           /\ BibtexReads(BibtexAuthor(parts)).suffix = parts.suffix
           /\ BibtexReads(BibtexAuthor(parts)).last = Surname(parts)
<1> DEFINE s == Surname(parts)
           x == parts.suffix
           f == parts.first
<1>1. /\ s \in Seq(Words) /\ x \in Seq(Words) /\ f \in Seq(Words)
      /\ s = <<>> => x = <<>> /\ f = <<>>
  BY SurnameIsThere
<1>2. BibtexAuthor(parts) = IF s = <<>> THEN <<>> ELSE <<s>> \o Piece(x) \o Piece(f)
  BY DEF BibtexAuthor
<1>3. BibtexReads(BibtexAuthor(parts)) = Parts(f, <<>>, s, x)
  <2> HIDE DEF s, x, f
  <2>1. CASE s = <<>>
    <3>1. BibtexAuthor(parts) = <<>>
      BY <1>2, <2>1
    <3> QED BY <1>1, <2>1, <3>1 DEF BibtexReads
  <2>2. CASE s # <<>> /\ x = <<>> /\ f = <<>>
    <3>1. BibtexAuthor(parts) = <<s>>
      BY <1>1, <1>2, <2>2, PiecesInARow DEF Piece
    <3>2. Len(<<s>>) = 1 /\ <<s>>[1] = s
      OBVIOUS
    <3> QED BY <2>2, <3>1, <3>2 DEF BibtexReads
  <2>3. CASE s # <<>> /\ x = <<>> /\ f # <<>>
    <3> DEFINE pieces == <<s, f>>
    <3>1. BibtexAuthor(parts) = pieces
      BY <1>1, <1>2, <2>3, PiecesInARow DEF Piece
    <3>2. Len(pieces) = 2 /\ pieces[1] = s /\ pieces[2] = f
      OBVIOUS
    <3> HIDE DEF pieces
    <3>3. BibtexReads(pieces) = Parts(pieces[2], <<>>, pieces[1], <<>>)
      BY <3>2 DEF BibtexReads
    <3> QED BY <2>3, <3>1, <3>2, <3>3
  <2>4. CASE s # <<>> /\ x # <<>> /\ f # <<>>
    <3>1. BibtexAuthor(parts) = <<s, x, f>>
      BY <1>1, <1>2, <2>4, PiecesInARow DEF Piece
    <3>2. /\ Len(<<s, x, f>>) = 3 /\ <<s, x, f>>[1] = s
          /\ <<s, x, f>>[2] = x /\ <<s, x, f>>[3] = f
      OBVIOUS
    <3> QED BY <3>1, <3>2 DEF BibtexReads
  <2>5. x = <<>> \/ f # <<>>
    BY DEF x, f
  <2> QED BY <2>1, <2>2, <2>3, <2>4, <2>5
<1> QED BY <1>3 DEF Parts

\* Something is written of a name in each format, if the name has a word.
LEMMA WrittenEverywhere ==
    ASSUME NEW parts, NEW name, PartsAre(parts, name), NEW style \in Formats
    PROVE  AuthorIn(style, parts) = <<>> <=> Surname(parts) = <<>>
<1> DEFINE s == Surname(parts)
           x == parts.suffix
           f == parts.first
<1>1. /\ s \in Seq(Words) /\ x \in Seq(Words) /\ f \in Seq(Words)
      /\ s = <<>> => x = <<>> /\ f = <<>>
      /\ s = <<>> <=> parts.prefix = <<>> /\ parts.last = <<>>
  BY SurnameIsThere
<1>2. ASSUME NEW v \in Seq(Words), NEW w \in Seq(Words)
      PROVE  <<s>> \o Piece(v) \o Piece(w) # <<>>
  <2>1. <<s>> \in Seq(Seq(Words)) /\ <<s>> # <<>>
    BY <1>1
  <2>2. Piece(v) \in Seq(Seq(Words)) /\ Piece(w) \in Seq(Seq(Words))
    BY DEF Piece
  <2>3. <<s>> \o Piece(v) \in Seq(Seq(Words)) /\ <<s>> \o Piece(v) # <<>>
    BY <2>1, <2>2, ConcatProperties, ConcatEqualIffEmpty
  <2> QED BY <2>2, <2>3, ConcatEqualIffEmpty
<1>3. CASE style = "bibtex"
  <2>1. AuthorIn(style, parts) = IF s = <<>> THEN <<>> ELSE <<s>> \o Piece(x) \o Piece(f)
    BY <1>3 DEF AuthorIn, BibtexAuthor
  <2> HIDE DEF s, x, f
  <2>2. AuthorIn(style, parts) = <<>> <=> s = <<>>
    BY <1>1, <1>2, <2>1
  <2> QED BY <2>2 DEF s
<1>4. CASE style = "ris"
  <2>1. AuthorIn(style, parts) =
          IF s \o f \o x = <<>> THEN <<>> ELSE <<s>> \o Piece(f) \o Piece(x)
    BY <1>4 DEF AuthorIn, RisAuthor
  <2> HIDE DEF s, x, f
  <2>2. s \o f \in Seq(Words) /\ (s \o f = <<>> <=> s = <<>> /\ f = <<>>)
    BY <1>1, ConcatProperties, ConcatEqualIffEmpty
  <2>3. s \o f \o x = <<>> <=> s = <<>>
    BY <1>1, <2>2, ConcatEqualIffEmpty
  <2>4. AuthorIn(style, parts) = <<>> <=> s = <<>>
    BY <1>1, <1>2, <2>1, <2>3
  <2> QED BY <2>4 DEF s
<1>5. CASE style = "csl-json"
  <2> DEFINE pieces == <<parts.last, parts.first, parts.prefix, parts.suffix>>
  <2>1. AuthorIn(style, parts) = IF \A k \in DOMAIN pieces : pieces[k] = <<>> THEN <<>> ELSE pieces
    BY <1>5 DEF AuthorIn, CslAuthor
  <2>2. pieces # <<>>
    OBVIOUS
  <2>3. (\A k \in DOMAIN pieces : pieces[k] = <<>>)
        <=> f = <<>> /\ parts.prefix = <<>> /\ parts.last = <<>> /\ x = <<>>
    OBVIOUS
  <2> HIDE DEF pieces, s, x, f
  <2>4. AuthorIn(style, parts) = <<>> <=> s = <<>>
    BY <1>1, <2>1, <2>2, <2>3
  <2> QED BY <2>4 DEF s
<1> QED BY <1>3, <1>4, <1>5 DEF Formats

\* The authors of a list of names, whatever the format.
LEMMA SameAuthors ==
    ASSUME NEW names \in Seq(Seq(Words)), NEW style \in Formats
    PROVE  Authors(names, style) = Authors(names, "csl-json")
<1>1. ASSUME NEW k \in DOMAIN names
      PROVE  AuthorIn(style, ParseName(names[k])) = <<>>
             <=> AuthorIn("csl-json", ParseName(names[k])) = <<>>
  <2>1. names[k] \in Seq(Words)
    BY ElementOfSeq, LenProperties
  <2>2. PartsAre(ParseName(names[k]), names[k])
    BY <2>1, NameIsTakenApart
  <2> QED BY <2>2, WrittenEverywhere DEF Formats
<1> QED BY <1>1 DEF Authors

-----------------------------------------------------------------------------
(* Citations: fields, keys and entries.                                        *)

CitationTyped ==
    /\ wanted \in Seq(Papers)
    /\ papers \subseteq DOMAIN wanted
    /\ IsFiniteSet(keys) /\ keys \subseteq Seq(Symbols)

\* A key is used up by the paper it is for, and there are not more papers than
\* numbers to try.
KeysFit ==
    /\ stage = "asked" => keys = {}
    /\ stage # "asked" => Cardinality(keys) + Cardinality(papers) <= MaxPapers
    /\ format # "ris" =>
         /\ keys = {entries[k].key : k \in DOMAIN entries}
         /\ KeysAreUnique

\* What is written comes before what is still to be written, and both together
\* are what was found.
EntriesFit ==
    /\ entries \in Seq([at : DOMAIN wanted, key : Seq(Symbols),
                        type : {"book", "inproceedings", "misc", "article"}])
    /\ stage = "asked" => papers = {} /\ entries = <<>>
    /\ stage \in {"found", "writing", "answered"} =>
         {entries[k].at : k \in DOMAIN entries} \cup papers = DOMAIN wanted \ failed
    /\ stage = "answered" => papers = {}
    /\ \A j, k \in DOMAIN entries : j < k => entries[j].at < entries[k].at
    /\ \A k \in DOMAIN entries, i \in papers : entries[k].at < i

CitationInv == CitationTyped /\ KeysFit /\ EntriesFit

\* Each paper has the same authors in each format, and the same fields.
LEMMA FormatsDoAgree ==
    ASSUME wanted \in Seq(Papers)
    PROVE  FormatsAgree
<1> SUFFICES ASSUME NEW i \in DOMAIN wanted
             PROVE  /\ NamesAt(i, "bibtex") = NamesAt(i, "csl-json")
                    /\ NamesAt(i, "ris") = NamesAt(i, "csl-json")
                    /\ BibtexFields(FactsAt(i)) \ {"arxiv", "edition"} = CslFields(FactsAt(i))
                    /\ RisFields(FactsAt(i)) = CslFields(FactsAt(i))
  BY DEF FormatsAgree
<1>1. /\ wanted[i].authors \in Seq(Seq(Words)) /\ wanted[i].book \in Seq(Seq(Words))
      /\ wanted[i].facts \subseteq Facts /\ wanted[i].more \subseteq Facts
  <2>1. wanted[i] \in Papers
    BY ElementOfSeq, LenProperties
  <2> QED BY <2>1 DEF Papers
<1>2. ASSUME NEW style \in Formats PROVE NamesAt(i, style) = NamesAt(i, "csl-json")
  <2>1. /\ Authors(wanted[i].authors, style) = Authors(wanted[i].authors, "csl-json")
        /\ Authors(wanted[i].book, style) = Authors(wanted[i].book, "csl-json")
    BY <1>1, SameAuthors
  <2> QED BY <2>1 DEF NamesAt
<1> DEFINE facts == FactsAt(i)
<1>3. EntryType(facts) \in {"book", "inproceedings", "misc", "article"}
  BY DEF EntryType
<1>4. /\ BibtexFields(facts) \ {"arxiv", "edition"} = CslFields(facts)
      /\ RisFields(facts) = CslFields(facts)
  <2> HIDE DEF facts
  <2>1. CASE EntryType(facts) = "book"
    <3>1. BibtexFields(facts) = (facts \cap {"year", "doi", "arxiv"}) \cup UrlField(facts)
                                \cup (facts \cap {"publisher", "edition", "isbn"})
      BY <2>1 DEF BibtexFields
    <3>2. RisFields(facts) = (facts \cap {"year", "doi"}) \cup UrlField(facts)
                             \cup (facts \cap {"publisher", "isbn"})
      BY <2>1 DEF RisFields
    <3>3. CslFields(facts) = (facts \cap {"year", "doi"}) \cup UrlField(facts)
                             \cup (facts \cap {"publisher", "isbn"})
      BY <2>1 DEF CslFields
    <3> QED BY <3>1, <3>2, <3>3 DEF UrlField
  <2>2. CASE EntryType(facts) # "book" /\ Shows(facts, Venues)
    <3>1. BibtexFields(facts) = (facts \cap {"year", "doi", "arxiv"}) \cup UrlField(facts)
                                \cup {"container"}
      BY <1>3, <2>2 DEF BibtexFields, facts
    <3>2. RisFields(facts) = (facts \cap {"year", "doi"}) \cup UrlField(facts) \cup {"container"}
      BY <2>2 DEF RisFields
    <3>3. CslFields(facts) = (facts \cap {"year", "doi"}) \cup UrlField(facts) \cup {"container"}
      BY <2>2 DEF CslFields
    <3> QED BY <3>1, <3>2, <3>3 DEF UrlField
  <2>3. CASE EntryType(facts) # "book" /\ ~Shows(facts, Venues)
    <3>1. BibtexFields(facts) = (facts \cap {"year", "doi", "arxiv"}) \cup UrlField(facts)
      BY <2>3 DEF BibtexFields
    <3>2. RisFields(facts) = (facts \cap {"year", "doi"}) \cup UrlField(facts)
      BY <2>3 DEF RisFields
    <3>3. CslFields(facts) = (facts \cap {"year", "doi"}) \cup UrlField(facts)
      BY <2>3 DEF CslFields
    <3> QED BY <3>1, <3>2, <3>3 DEF UrlField
  <2> QED BY <2>1, <2>2, <2>3
<1> QED BY <1>2, <1>4 DEF Formats

\* No word of a name is lost.
LEMMA NamesDoSurvive ==
    ASSUME wanted \in Seq(Papers)
    PROVE  NamesSurvive
<1> SUFFICES ASSUME NEW i \in DOMAIN wanted, NEW name \in Range(wanted[i].authors)
             PROVE  LET parts == ParseName(name)
                        read == BibtexReads(BibtexAuthor(parts))
                    IN /\ parts.first \o parts.prefix \o parts.last \o parts.suffix = name
                       /\ name # <<>> => parts.last # <<>>
                       /\ parts.suffix = <<>> \/ parts.first # <<>> =>
                             /\ read.first = parts.first /\ read.suffix = parts.suffix
                             /\ read.last = Surname(parts)
  BY DEF NamesSurvive
<1>1. wanted[i].authors \in Seq(Seq(Words))
  <2>1. wanted[i] \in Papers
    BY ElementOfSeq, LenProperties
  <2> QED BY <2>1 DEF Papers
<1>2. name \in Seq(Words)
  BY <1>1, RangeOfSeq
<1> DEFINE parts == ParseName(name)
<1>3. PartsAre(parts, name)
  BY <1>2, NameIsTakenApart
<1> HIDE DEF parts
<1>4. /\ parts.first \o parts.prefix \o parts.last \o parts.suffix = name
      /\ name # <<>> => parts.last # <<>>
  BY <1>3 DEF PartsAre
<1>5. ASSUME parts.suffix = <<>> \/ parts.first # <<>>
      PROVE  /\ BibtexReads(BibtexAuthor(parts)).first = parts.first
             /\ BibtexReads(BibtexAuthor(parts)).suffix = parts.suffix
             /\ BibtexReads(BibtexAuthor(parts)).last = Surname(parts)
  BY <1>3, <1>5, NameIsReadBack
<1> QED BY <1>4, <1>5 DEF parts

\* Strings in a row are text.
LEMMA TextOfStrings ==
    ASSUME NEW S, NEW x \in S, NEW y \in S
    PROVE  <<x>> \in Seq(S) /\ <<x, y>> \in Seq(S)
OBVIOUS

LEMMA LettersFit ==
    ASSUME CitationAssumption
    PROVE  MaxPapers \in Nat \ {0} /\ Letters \in Seq(Symbols)
BY Zenon DEF CitationAssumption

LEMMA BaseIsText ==
    ASSUME CitationAssumption, wanted \in Seq(Papers), NEW i \in DOMAIN wanted
    PROVE  Base(i) \in Seq(Symbols)
<1> DEFINE last == IF wanted[i].authors = <<>> THEN <<>>
                   ELSE ParseName(Head(wanted[i].authors)).last
           text == IF last = <<>> THEN <<"anon">> ELSE Head(last).text
           year == IF "year" \in FactsAt(i) THEN <<"2020">> ELSE <<>>
<1>1. wanted[i].authors \in Seq(Seq(Words))
  <2>1. wanted[i] \in Papers
    BY ElementOfSeq, LenProperties
  <2> QED BY <2>1 DEF Papers
<1>2. last \in Seq(Words)
  <2>1. CASE wanted[i].authors # <<>>
    <3>1. Head(wanted[i].authors) \in Seq(Words)
      BY <1>1, <2>1, HeadTailProperties
    <3> QED BY <2>1, <3>1, NameIsTakenApart DEF PartsAre
  <2>2. CASE wanted[i].authors = <<>>
    BY <2>2, EmptySeq
  <2> QED BY <2>1, <2>2
<1>3. text \in Seq(Symbols)
  <2> HIDE DEF last
  <2>1. CASE last # <<>>
    <3>1. Head(last) \in Words
      BY <1>2, <2>1, HeadTailProperties
    <3> QED BY <2>1, <3>1 DEF Words
  <2>2. CASE last = <<>>
    <3>1. text = <<"anon">> /\ "anon" \in Symbols
      BY <2>2 DEF CitationAssumption
    <3> HIDE DEF text
    <3> QED BY <3>1, TextOfStrings
  <2> QED BY <2>1, <2>2
<1>4. year \in Seq(Symbols)
  <2>1. "2020" \in Symbols
    BY DEF CitationAssumption
  <2>2. <<"2020">> \in Seq(Symbols) /\ <<>> \in Seq(Symbols)
    BY <2>1, TextOfStrings, EmptySeq
  <2> QED BY <2>2
<1>5. Base(i) = text \o year
  BY DEF Base
<1> HIDE DEF text, year
<1> QED BY <1>3, <1>4, <1>5, ConcatProperties

\* A key is new, whatever the base and the keys before it: among one more number
\* than there are keys there is one that is free.
LEMMA KeyIsNew ==
    ASSUME CitationAssumption, IsFiniteSet(keys), keys \subseteq Seq(Symbols),
           Cardinality(keys) <= MaxPapers, NEW base \in Seq(Symbols)
    PROVE  CitationKey(base) \in Seq(Symbols) /\ CitationKey(base) \notin keys
<1> DEFINE Lettered(k) == base \o <<Letters[k]>>
           Numbered(k) == base \o <<"_", Numeral(k)>>
           Free == {k \in DOMAIN Letters : Lettered(k) \notin keys}
           n == Cardinality(keys)
           letter == CHOOSE k \in Free : \A j \in Free : k <= j
           number == CHOOSE k \in n..(2 * n) :
                         /\ Numbered(k) \notin keys
                         /\ \A j \in n..(k - 1) : Numbered(j) \in keys
<1>1. n \in Nat /\ n <= MaxPapers /\ MaxPapers \in Nat
  BY FS_CardinalityType DEF CitationAssumption
<1>2. \A k \in n..(2 * n) : k \in 0..(2 * MaxPapers)
  BY <1>1
<1>3. ASSUME NEW k \in n..(2 * n)
      PROVE  <<"_", Numeral(k)>> \in Seq(Symbols) /\ Numbered(k) \in Seq(Symbols)
  <2>1. Numeral(k) \in Symbols
    BY <1>2 DEF CitationAssumption
  <2>2. "_" \in Symbols
    BY DEF CitationAssumption
  <2>3. <<"_", Numeral(k)>> \in Seq(Symbols)
    BY <2>1, <2>2, TextOfStrings
  <2> QED BY <2>3, ConcatProperties
<1>4. ASSUME NEW j \in n..(2 * n), NEW k \in n..(2 * n), Numbered(j) = Numbered(k)
      PROVE  j = k
  <2>1. <<"_", Numeral(j)>> = <<"_", Numeral(k)>>
    BY <1>3, <1>4, ConcatSimplifications
  <2>2. Numeral(j) = Numeral(k)
    BY <2>1
  <2> QED BY <1>2, <2>2 DEF CitationAssumption
<1>5. CASE base \notin keys
  <2>1. CitationKey(base) = base
    BY <1>5 DEF CitationKey
  <2> QED BY <1>5, <2>1
<1>6. CASE base \in keys /\ Free # {}
  <2>1. CitationKey(base) = Lettered(letter)
    BY <1>6, Zenon DEF CitationKey
  <2>2. Free \subseteq Nat
    BY LettersFit, LenProperties
  <2>3. \E k \in Free : \A j \in Free : k <= j
    <3> HIDE DEF Free
    <3> QED BY <1>6, <2>2, LeastOfSome
  <2>4. letter \in Free
    <3> HIDE DEF Free
    <3> QED BY <2>3
  <2> HIDE DEF letter
  <2>5. letter \in DOMAIN Letters /\ Lettered(letter) \notin keys
    BY <2>4
  <2>6. Letters[letter] \in Symbols
    BY <2>5, ElementOfSeq, LenProperties DEF CitationAssumption
  <2>7. <<Letters[letter]>> \in Seq(Symbols)
    BY <2>6
  <2>8. Lettered(letter) \in Seq(Symbols)
    BY <2>7, ConcatProperties
  <2> HIDE DEF Lettered
  <2> QED BY <2>1, <2>5, <2>8
<1>7. CASE base \in keys /\ Free = {}
  <2>1. CitationKey(base) = Numbered(number)
    BY <1>7, Zenon DEF CitationKey
  <2> DEFINE Open == {k \in n..(2 * n) : Numbered(k) \notin keys}
  <2> HIDE DEF Numbered
  <2>2. Open # {}
    <3> SUFFICES ASSUME \A k \in n..(2 * n) : Numbered(k) \in keys PROVE FALSE
      OBVIOUS
    <3> DEFINE f == [k \in n..(2 * n) |-> Numbered(k)]
    <3>1. f \in [n..(2 * n) -> keys]
      OBVIOUS
    <3>2. IsFiniteSet(n..(2 * n)) /\ Cardinality(n..(2 * n)) = n + 1
      <4> HIDE DEF n
      <4> QED BY <1>1, FS_Interval
    <3>3. n < n + 1
      BY <1>1
    <3>4. \E x, y \in n..(2 * n) : x # y /\ f[x] = f[y]
      <4> HIDE DEF f
      <4> QED BY <3>1, <3>2, <3>3, FS_PigeonHole
    <3> QED BY <1>4, <3>4
  <2>3. PICK k \in Open : \A j \in Open : k <= j
    <3>1. Open \subseteq Nat
      BY <1>1
    <3> HIDE DEF Open
    <3> QED BY <2>2, <3>1, LeastOfSome
  <2>4. \A j \in n..(k - 1) : Numbered(j) \in keys
    <3> HIDE DEF n
    <3>1. ASSUME NEW j \in n..(k - 1) PROVE j \in n..(2 * n) /\ ~(k <= j)
      BY <1>1
    <3> QED BY <2>3, <3>1
  <2>5. number \in n..(2 * n) /\ Numbered(number) \notin keys
    <3> HIDE DEF n
    <3> QED BY <2>3, <2>4
  <2> HIDE DEF number
  <2> QED BY <1>3, <2>1, <2>5
<1> QED BY <1>5, <1>6, <1>7

LEMMA CitationsBegun ==
    ASSUME CitationAssumption, CitationInit
    PROVE  CitationInv
<1>1. PICK list \in Bibliographies, style \in Formats : CitationsBegin(list, style)
  BY DEF CitationInit
<1>2. wanted \in Seq(Papers) /\ stage = "asked" /\ papers = {} /\ keys = {} /\ entries = <<>>
  BY <1>1 DEF CitationsBegin, CitationAssumption
<1>3. DOMAIN entries = {}
  BY <1>2
<1> QED BY <1>2, <1>3, FS_EmptySet, EmptySeq
        DEF CitationInv, CitationTyped, KeysFit, EntriesFit, KeysAreUnique

\* The next paper is the first of those still to be written.
LEMMA NextIsFirst ==
    ASSUME wanted \in Seq(Papers), papers \subseteq DOMAIN wanted, papers # {}
    PROVE  NextPaper \in papers /\ \A j \in papers : NextPaper <= j
<1>1. papers \subseteq Nat
  BY LenProperties
<1>2. \E i \in papers : \A j \in papers : i <= j
  BY <1>1, LeastOfSome
<1> QED BY <1>2 DEF NextPaper

LEMMA CitationsGoOn ==
    ASSUME CitationAssumption, CitationInv, [CitationNext]_citationVars
    PROVE  CitationInv'
<1> USE DEF CitationInv, CitationTyped
<1> DEFINE Told == {entries[k].at : k \in DOMAIN entries}
<1>1. CASE RefuseCitations
  <2>1. /\ UNCHANGED <<wanted, format, papers, failed, enriched, keys, entries>>
        /\ stage = "asked" /\ stage' = "refused" /\ keys = {} /\ papers = {} /\ entries = <<>>
    BY <1>1 DEF RefuseCitations, KeysFit, EntriesFit
  <2>2. Cardinality(keys) + Cardinality(papers) <= MaxPapers
    BY <2>1, FS_EmptySet, LettersFit
  <2> QED BY <2>1, <2>2 DEF KeysFit, EntriesFit, KeysAreUnique
<1>2. CASE ResolvePapers
  <2>1. /\ UNCHANGED <<wanted, format, keys, entries>> /\ stage = "asked"
        /\ keys = {} /\ papers = {} /\ entries = <<>> /\ DOMAIN entries = {}
        /\ Len(wanted) \in 1..MaxPapers
    BY <1>2 DEF ResolvePapers, KeysFit, EntriesFit
  <2>2. /\ papers' \subseteq DOMAIN wanted /\ stage' # "asked"
        /\ stage' # "answered"
        /\ stage' \in {"found", "writing"} => papers' = DOMAIN wanted \ failed'
    BY <1>2, <2>1 DEF ResolvePapers
  <2>3. IsFiniteSet(papers') /\ Cardinality(papers') <= MaxPapers
    <3>1. DOMAIN wanted = 1..Len(wanted)
      BY LenProperties
    <3>2. IsFiniteSet(1..Len(wanted)) /\ Cardinality(1..Len(wanted)) = Len(wanted)
      BY <2>1, FS_Interval
    <3>3. papers' \in SUBSET (1..Len(wanted))
      BY <2>2, <3>1
    <3>4. IsFiniteSet(papers') /\ Cardinality(papers') <= Len(wanted)
      BY <3>2, <3>3, FS_Subset
    <3> QED BY <2>1, <3>4, FS_CardinalityType, LettersFit
  <2>4. Cardinality(keys') + Cardinality(papers') <= MaxPapers
    BY <2>1, <2>3, FS_EmptySet, FS_CardinalityType
  <2>5. KeysFit'
    BY <2>1, <2>2, <2>4 DEF KeysFit, KeysAreUnique
  <2>6. EntriesFit'
    BY <2>1, <2>2 DEF EntriesFit
  <2> QED BY <2>1, <2>2, <2>5, <2>6
<1>3. CASE EnrichPapers
  <2>1. /\ UNCHANGED <<wanted, format, papers, failed, keys, entries>>
        /\ stage = "found" /\ stage' \in {"none resolved", "writing"}
    BY <1>3 DEF EnrichPapers
  <2> QED BY <2>1 DEF KeysFit, EntriesFit, KeysAreUnique
<1>4. CASE WriteEntry
  <2> DEFINE i == NextPaper
             key == IF format = "ris" THEN <<>> ELSE CitationKey(Base(i))
             entry == [at |-> i, key |-> key, type |-> EntryType(FactsAt(i))]
             n == Len(entries)
  <2>1. /\ UNCHANGED <<wanted, format, stage, failed, enriched>> /\ stage = "writing"
        /\ papers # {} /\ papers' = papers \ {i} /\ entries' = Append(entries, entry)
        /\ keys' = IF format = "ris" THEN keys ELSE keys \cup {key}
    BY <1>4 DEF WriteEntry
  <2>2. i \in papers /\ \A j \in papers : i <= j
    BY <2>1, NextIsFirst
  <2>3. IsFiniteSet(papers) /\ papers \subseteq Nat
    <3>1. IsFiniteSet(1..Len(wanted)) /\ DOMAIN wanted = 1..Len(wanted) /\ Len(wanted) \in Nat
      BY LenProperties, FS_Interval
    <3> QED BY <3>1, FS_Subset
  <2>4. /\ Cardinality(papers') = Cardinality(papers) - 1
        /\ Cardinality(keys) \in Nat /\ Cardinality(papers) \in Nat
        /\ Cardinality(keys) + Cardinality(papers) <= MaxPapers
    BY <2>1, <2>2, <2>3, FS_RemoveElement, FS_CardinalityType DEF KeysFit
  <2>5. key \in Seq(Symbols) /\ (format # "ris" => key \notin keys)
    <3>1. Base(i) \in Seq(Symbols)
      BY <2>2, BaseIsText
    <3>2. Cardinality(keys) <= MaxPapers
      BY <2>4, LettersFit
    <3>3. CitationKey(Base(i)) \in Seq(Symbols) /\ CitationKey(Base(i)) \notin keys
      BY <3>1, <3>2, KeyIsNew
    <3>4. <<>> \in Seq(Symbols)
      BY EmptySeq
    <3> QED BY <3>3, <3>4
  <2>6. EntryType(FactsAt(i)) \in {"book", "inproceedings", "misc", "article"}
    BY DEF EntryType
  <2> DEFINE Entries == [at : DOMAIN wanted, key : Seq(Symbols),
                         type : {"book", "inproceedings", "misc", "article"}]
  <2>7. entry \in Entries
    <3> HIDE DEF key, i
    <3> QED BY <2>2, <2>5, <2>6
  <2>8. entry.at = i /\ entry.key = key
    OBVIOUS
  <2>9. entries \in Seq(Entries) /\ n \in Nat /\ DOMAIN entries = 1..n
    BY LenProperties DEF EntriesFit
  <2> HIDE DEF i, key, entry, Entries
  <2>10. /\ entries' \in Seq(Entries) /\ DOMAIN entries' = 1..(n + 1)
         /\ \A k \in 1..n : entries'[k] = entries[k]
         /\ entries'[n + 1] = entry
    <3>1. Append(entries, entry) \in Seq(Entries) /\ Len(Append(entries, entry)) = n + 1
      BY <2>7, <2>9, AppendProperties
    <3>2. DOMAIN Append(entries, entry) = 1..(n + 1)
      BY <3>1, LenProperties
    <3> QED BY <2>1, <2>7, <2>9, <3>1, <3>2, AppendProperties
  <2>11. /\ {entries'[k].at : k \in DOMAIN entries'} = Told \cup {i}
         /\ {entries'[k].key : k \in DOMAIN entries'} = {entries[k].key : k \in DOMAIN entries} \cup {key}
    <3>1. 1..(n + 1) = (1..n) \cup {n + 1}
      BY <2>9
    <3> HIDE DEF n
    <3> QED BY <2>8, <2>9, <2>10, <3>1
  <2>12. CitationTyped'
    <3>1. IsFiniteSet(keys')
      BY <2>1, FS_AddElement
    <3> QED BY <2>1, <2>5, <3>1
  <2>13. KeysFit'
    <3>1. Cardinality(keys') + Cardinality(papers') <= MaxPapers
      <4>1. IsFiniteSet(keys)
        OBVIOUS
      <4>2. Cardinality(keys \cup {key}) \in {Cardinality(keys), Cardinality(keys) + 1}
        BY <4>1, FS_AddElement
      <4>3. Cardinality(keys') \in {Cardinality(keys), Cardinality(keys) + 1}
        BY <2>1, <4>2
      <4> QED BY <2>4, <4>3, LettersFit
    <3>2. ASSUME format # "ris"
          PROVE  /\ keys' = {entries'[k].key : k \in DOMAIN entries'}
                 /\ KeysAreUnique'
      <4>1. keys = {entries[k].key : k \in DOMAIN entries} /\ KeysAreUnique
        BY <3>2 DEF KeysFit
      <4>2. \A k \in 1..n : entries'[k].key \in keys
        BY <2>9, <2>10, <4>1
      <4>3. entries'[n + 1].key \notin keys
        BY <2>5, <2>8, <2>10, <3>2
      <4>4. ASSUME NEW j \in 1..(n + 1), NEW k \in 1..(n + 1), entries'[j].key = entries'[k].key
            PROVE  j = k
        <5>1. CASE j \in 1..n /\ k \in 1..n
          BY <2>9, <2>10, <3>2, <4>1, <4>4, <5>1 DEF KeysAreUnique
        <5>2. CASE j = n + 1 /\ k \in 1..n
          BY <4>2, <4>3, <4>4, <5>2
        <5>3. CASE k = n + 1 /\ j \in 1..n
          BY <4>2, <4>3, <4>4, <5>3
        <5>4. CASE j = n + 1 /\ k = n + 1
          BY <5>4
        <5> HIDE DEF n
        <5> QED BY <2>9, <5>1, <5>2, <5>3, <5>4
      <4> QED BY <2>1, <2>10, <2>11, <3>2, <4>1, <4>4 DEF KeysAreUnique
    <3>3. stage' # "asked" /\ format' = format
      BY <2>1
    <3> QED BY <3>1, <3>2, <3>3 DEF KeysFit, KeysAreUnique
  <2>14. EntriesFit'
    <3>1. /\ {entries'[k].at : k \in DOMAIN entries'} \cup papers' = DOMAIN wanted' \ failed'
          /\ stage' = "writing"
      <4>1. Told \cup papers = DOMAIN wanted \ failed
        BY <2>1 DEF EntriesFit
      <4> HIDE DEF Told
      <4> QED BY <2>1, <2>2, <2>11, <4>1
    <3>2. \A k \in 1..n : entries[k].at \in Nat /\ entries[k].at < i
      <4>1. \A k \in 1..n : entries[k].at < i
        BY <2>2, <2>9 DEF EntriesFit
      <4>2. \A k \in 1..n : entries[k] \in Entries
        BY <2>9, ElementOfSeq
      <4>3. DOMAIN wanted \subseteq Nat
        BY LenProperties
      <4> QED BY <4>1, <4>2, <4>3 DEF Entries
    <3>3. ASSUME NEW j \in 1..(n + 1), NEW k \in 1..(n + 1), j < k
          PROVE  entries'[j].at < entries'[k].at
      <4>1. CASE k \in 1..n
        <5>1. j \in 1..n
          BY <2>9, <3>3, <4>1
        <5> QED BY <2>9, <2>10, <3>3, <4>1, <5>1 DEF EntriesFit
      <4>2. CASE k = n + 1
        <5>1. j \in 1..n
          BY <2>9, <3>3, <4>2
        <5> QED BY <2>8, <2>10, <3>2, <4>2, <5>1
      <4> QED BY <2>9, <4>1, <4>2
    <3>4. ASSUME NEW k \in 1..(n + 1), NEW p \in papers'
          PROVE  entries'[k].at < p
      <4>1. p \in papers /\ p # i /\ p \in Nat /\ i \in Nat /\ i <= p
        BY <2>1, <2>2, <2>3
      <4>2. CASE k \in 1..n
        BY <2>9, <2>10, <4>1, <4>2 DEF EntriesFit
      <4>3. CASE k = n + 1
        BY <2>8, <2>10, <4>1, <4>3
      <4> QED BY <2>9, <4>2, <4>3
    <3>5. entries' \in Seq([at : DOMAIN wanted', key : Seq(Symbols),
                            type : {"book", "inproceedings", "misc", "article"}])
      BY <2>1, <2>10 DEF Entries
    <3> HIDE DEF n, Told
    <3> QED BY <2>10, <3>1, <3>3, <3>4, <3>5 DEF EntriesFit
  <2> QED BY <2>12, <2>13, <2>14
<1>5. CASE AnswerCitations
  <2>1. /\ UNCHANGED <<wanted, format, papers, failed, keys, entries>>
        /\ stage = "writing" /\ papers = {} /\ stage' = "answered"
    BY <1>5 DEF AnswerCitations
  <2> QED BY <2>1 DEF KeysFit, EntriesFit, KeysAreUnique
<1>6. CASE UNCHANGED citationVars
  BY <1>6 DEF citationVars, KeysFit, EntriesFit, KeysAreUnique
<1> QED BY <1>1, <1>2, <1>3, <1>4, <1>5, <1>6 DEF CitationNext

LEMMA CitationsFitTheProperty ==
    ASSUME CitationInv
    PROVE  CitationsAreUsable
<1> USE DEF CitationInv, CitationTyped
<1>1. KeysAreUnique
  BY DEF KeysFit, KeysAreUnique
<1>2. EveryPaperIsTold
  <2> SUFFICES ASSUME stage = "answered"
               PROVE  /\ {entries[k].at : k \in DOMAIN entries} = DOMAIN wanted \ failed
                      /\ \A k \in 2..Len(entries) : entries[k - 1].at < entries[k].at
    BY DEF EveryPaperIsTold
  <2>1. {entries[k].at : k \in DOMAIN entries} = DOMAIN wanted \ failed
    BY DEF EntriesFit
  <2>2. Len(entries) \in Nat /\ DOMAIN entries = 1..Len(entries)
    BY LenProperties DEF EntriesFit
  <2>3. ASSUME NEW k \in 2..Len(entries) PROVE entries[k - 1].at < entries[k].at
    <3>1. k \in DOMAIN entries /\ k - 1 \in DOMAIN entries /\ k - 1 < k
      BY <2>2
    <3> QED BY <3>1 DEF EntriesFit
  <2> QED BY <2>1, <2>3
<1> QED BY <1>1, <1>2, NamesDoSurvive, FormatsDoAgree DEF CitationsAreUsable

\* Every bibliography can be used: its keys are unique, it is complete and in the
\* order asked for, and its formats agree, for any papers and names.
THEOREM BibliographiesUsable ==
    ASSUME CitationAssumption
    PROVE  CitationSpec => []CitationsAreUsable
<1>1. CitationInit => CitationInv
  BY CitationsBegun
<1>2. CitationInv /\ [CitationNext]_citationVars => CitationInv'
  BY CitationsGoOn
<1>3. CitationInv => CitationsAreUsable
  BY CitationsFitTheProperty
<1> QED BY <1>1, <1>2, <1>3, PTL DEF CitationSpec
=============================================================================
