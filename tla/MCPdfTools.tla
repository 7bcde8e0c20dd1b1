----------------------------- MODULE MCPdfTools -----------------------------
(* Two calls that meet at a path, a markdown file or a stem.                *)
EXTENDS PdfTools, TLC

CONSTANTS first, second, u1, u2, u3, paper, patent, placed

Wanted(tool, path, known) ==
    [tool |-> tool, path |-> path, known |-> known, vlm |-> FALSE, docling |-> TRUE]

Rich == "s2_oa" :> u1 @@ "arxiv" :> u2 @@ "unpaywall" :> u1
Poor == "arxiv" :> u2 @@ "unpaywall" :> u3
OnlyUnpaywall == "unpaywall" :> u3
None == [s \in {} |-> u1]

ConvertPaper(known) == Wanted("convert_paper", paper, known)
Fetch(known) == Wanted("fetch_paper", paper, known)
ByUrl(u) == Wanted("by_url", paper, "caller" :> u)
Patent == Wanted("patent", patent, "epo" :> u1)
Local(p) == Wanted("local", p, None)

\* Papers, URLs under one name, patents, local files, and a server without docling.
Pairs(A, B) == {first :> a @@ second :> b : a \in A, b \in B}
MCWishes ==
    Pairs({ConvertPaper(Rich), Fetch(Rich), ConvertPaper(OnlyUnpaywall), ConvertPaper(None)}, {ConvertPaper(Rich), Fetch(Poor)})
    \cup Pairs({ByUrl(u1), [ByUrl(u1) EXCEPT !.vlm = TRUE]}, {ByUrl(u3), ConvertPaper(Poor)})
    \cup Pairs({Patent}, {Patent, [Patent EXCEPT !.vlm = TRUE], Local(patent)})
    \cup Pairs({Local(paper)}, {Local(paper), Local(placed), ByUrl(u1)})
    \cup Pairs({ConvertPaper(Rich), ByUrl(u1), Patent, Local(paper)}, {[w EXCEPT !.docling = FALSE] :
                   w \in {ConvertPaper(Poor), ByUrl(u3), Patent, Local(paper)}})

\* The same paper fetched twice.
TwiceThePaper == Pairs({Fetch(Rich)}, {Fetch(Rich)})

MCStem == paper :> "smith" @@ placed :> "smith" @@ patent :> "patent"
=============================================================================
