----------------------------- MODULE WalkProofs -----------------------------
(* get_citation_graph, for literatures, requests and budgets of any size. The  *)
(* inductions and the lemmas on pages are those of GraphProofs.                *)
EXTENDS CitationWalk, GraphProofs


-----------------------------------------------------------------------------
(* The walk: how far it may come.                                              *)

LEMMA MaxOfTwo ==
    ASSUME NEW i \in Int, NEW j \in Int
    PROVE  Max({i, j}) = IF i >= j THEN i ELSE j
<1> DEFINE m == IF i >= j THEN i ELSE j
<1>1. m \in {i, j} /\ \A x \in {i, j} : m >= x
  OBVIOUS
<1>2. \A n \in {i, j} : (\A x \in {i, j} : n >= x) => n = m
  OBVIOUS
<1> QED BY <1>1, <1>2 DEF Max

\* A walk goes one hop at least.
LEMMA DepthIs ==
    ASSUME asked \in Requests
    PROVE  ClampedDepth \in Nat \ {0}
<1>1. asked.depth \in Nat
  BY WalkAssumption
<1>2. Min({asked.depth, 3}) \in Nat
  BY <1>1, MinOfTwo
<1>3. ClampedDepth = IF 1 >= Min({asked.depth, 3}) THEN 1 ELSE Min({asked.depth, 3})
  BY <1>2, MaxOfTwo DEF ClampedDepth
<1> QED BY <1>2, <1>3

LEMMA WithinIs ==
    /\ Within(0) = ToSet(asked.seeds)
    /\ \A n \in Nat : Within(n + 1) = Spread(Within(n))
<1> DEFINE Body(f, k) == IF k = 0 THEN ToSet(asked.seeds) ELSE Spread(f[k - 1])
           Made(f, n) == f = [k \in 0..n |-> Body(f, k)]
           Exists == {n \in Nat : \E f : Made(f, n)}
<1>1. Nat \subseteq Exists
  <2>1. 0 \in Exists
    <3> DEFINE f == [k \in 0..0 |-> ToSet(asked.seeds)]
    <3>1. Made(f, 0)
      OBVIOUS
    <3> QED BY <3>1
  <2>2. ASSUME NEW n \in Nat, n \in Exists PROVE n + 1 \in Exists
    <3>1. PICK f : Made(f, n)
      <4> HIDE DEF Made
      <4> QED BY <2>2
    <3>2. \A k \in 0..n : f[k] = Body(f, k)
      BY <3>1
    <3> DEFINE g == [k \in 0..(n + 1) |-> IF k <= n THEN f[k] ELSE Body(f, k)]
    <3>3. ASSUME NEW k \in 0..(n + 1) PROVE g[k] = Body(g, k)
      <4>1. CASE k = 0
        BY <3>2, <4>1
      <4>2. CASE k # 0
        <5>1. k - 1 \in 0..n /\ g[k - 1] = f[k - 1]
          BY <4>2
        <5>2. Body(g, k) = Body(f, k)
          BY <5>1
        <5>3. g[k] = Body(f, k)
          BY <3>2
        <5> QED BY <5>2, <5>3
      <4> QED BY <4>1, <4>2
    <3>4. Made(g, n + 1)
      BY <3>3
    <3> HIDE DEF Made, g
    <3> QED BY <3>4
  <2> HIDE DEF Exists
  <2> QED BY <2>1, <2>2, SetInduction
<1> DEFINE reach(n) == CHOOSE f : Made(f, n)
<1>2. ASSUME NEW n \in Nat PROVE Made(reach(n), n)
  <2>1. \E f : Made(f, n)
    <3>1. n \in Exists
      <4> HIDE DEF Exists
      <4> QED BY <1>1
    <3> HIDE DEF Made
    <3> QED BY <3>1
  <2> HIDE DEF Made
  <2> QED BY <2>1
<1>3. ASSUME NEW n \in Nat PROVE Within(n) = reach(n)[n]
  BY DEF Within
<1>4. ASSUME NEW n \in Nat
      PROVE  /\ reach(n)[0] = ToSet(asked.seeds)
             /\ \A k \in 0..n : k # 0 => reach(n)[k] = Spread(reach(n)[k - 1])
  <2>1. Made(reach(n), n)
    BY <1>2
  <2> DEFINE r == reach(n)
  <2>2. Made(r, n)
    BY <2>1
  <2> HIDE DEF r
  <2>3. \A k \in 0..n : r[k] = Body(r, k)
    BY <2>2
  <2>4. /\ r[0] = ToSet(asked.seeds)
        /\ \A k \in 0..n : k # 0 => r[k] = Spread(r[k - 1])
    BY <2>3
  <2> QED BY <2>4 DEF r
<1> HIDE DEF reach
\* The functions agree wherever both are defined.
<1>5. ASSUME NEW n \in Nat PROVE reach(n + 1)[n] = reach(n)[n]
  <2> DEFINE Agreed == {k \in Nat : k <= n => reach(n + 1)[k] = reach(n)[k]}
  <2>1. 0 \in Agreed
    BY <1>4
  <2>2. ASSUME NEW k \in Nat, k \in Agreed PROVE k + 1 \in Agreed
    <3> SUFFICES ASSUME k + 1 <= n PROVE reach(n + 1)[k + 1] = reach(n)[k + 1]
      OBVIOUS
    <3>1. k + 1 \in 0..n /\ k + 1 \in 0..(n + 1) /\ k + 1 # 0 /\ (k + 1) - 1 = k
      OBVIOUS
    <3>2. reach(n)[k + 1] = Spread(reach(n)[k])
      BY <1>4, <3>1
    <3>3. n + 1 \in Nat
      OBVIOUS
    <3>4. reach(n + 1)[k + 1] = Spread(reach(n + 1)[k])
      BY <1>4, <3>1, <3>3
    <3> QED BY <2>2, <3>2, <3>4
  <2>3. Nat \subseteq Agreed
    <3> HIDE DEF Agreed
    <3> QED BY <2>1, <2>2, SetInduction
  <2> QED BY <2>3
<1>6. Within(0) = ToSet(asked.seeds)
  BY <1>3, <1>4
<1>7. ASSUME NEW n \in Nat PROVE Within(n + 1) = Spread(Within(n))
  <2>1. n + 1 \in Nat /\ n + 1 \in 0..(n + 1) /\ n + 1 # 0 /\ (n + 1) - 1 = n
    OBVIOUS
  <2>2. reach(n + 1)[n + 1] = Spread(reach(n + 1)[n])
    BY <1>4, <2>1
  <2> QED BY <1>3, <1>5, <2>1, <2>2
<1> QED BY <1>6, <1>7

\* An expansion leads on from the papers that are expanded.
LEMMA SpreadIs ==
    ASSUME NEW papers
    PROVE  /\ papers \subseteq Spread(papers)
           /\ \A p \in papers : \A e \in EdgesOf(p) : e[1] \in Spread(papers) /\ e[2] \in Spread(papers)
           /\ \A q \in Spread(papers) \ papers :
                 \E p \in papers : \E e \in EdgesOf(p) : q \in {e[1], e[2]}
BY DEF Spread

LEMMA WithinGrows ==
    ASSUME NEW m \in Nat, NEW n \in Nat, m <= n
    PROVE  Within(m) \subseteq Within(n)
<1> DEFINE Grown == {k \in Nat : Within(m) \subseteq Within(m + k)}
<1>1. 0 \in Grown
  OBVIOUS
<1>2. ASSUME NEW k \in Nat, k \in Grown PROVE k + 1 \in Grown
  <2>1. m + k \in Nat /\ m + (k + 1) = (m + k) + 1
    OBVIOUS
  <2>2. Within(m + (k + 1)) = Spread(Within(m + k))
    BY <2>1, WithinIs
  <2> QED BY <1>2, <2>2, SpreadIs
<1>3. Nat \subseteq Grown
  <2> HIDE DEF Grown
  <2> QED BY <1>1, <1>2, SetInduction
<1>4. n - m \in Nat /\ m + (n - m) = n
  OBVIOUS
<1> QED BY <1>3, <1>4

\* Where an expansion leads to nothing new, no further one does.
LEMMA WithinStops ==
    ASSUME NEW m \in Nat, NEW n \in Nat, m <= n, Within(m + 1) = Within(m)
    PROVE  Within(n) = Within(m)
<1> DEFINE Same == {k \in Nat : Within(m + k) = Within(m)}
<1>1. 0 \in Same
  OBVIOUS
<1>2. ASSUME NEW k \in Nat, k \in Same PROVE k + 1 \in Same
  <2>1. m + k \in Nat /\ m + (k + 1) = (m + k) + 1
    OBVIOUS
  <2>2. Within(m + (k + 1)) = Spread(Within(m + k)) /\ Within(m + 1) = Spread(Within(m))
    BY <2>1, WithinIs
  <2> QED BY <1>2, <2>2
<1>3. Nat \subseteq Same
  <2> HIDE DEF Same
  <2> QED BY <1>1, <1>2, SetInduction
<1>4. n - m \in Nat /\ m + (n - m) = n
  OBVIOUS
<1> QED BY <1>3, <1>4

LEMMA SameReach ==
    ASSUME given' = given
    PROVE  /\ \A n : Within(n)' = Within(n)
           /\ \A p : EdgesOf(p)' = EdgesOf(p)
           /\ ClampedDepth' = ClampedDepth
<1>1. cites' = cites /\ asked' = asked
  BY DEF given
<1>2. \A p : EdgesOf(p)' = EdgesOf(p)
  <2>1. \A p : ReadCiting(p)' = ReadCiting(p) /\ ReadCited(p)' = ReadCited(p)
    BY <1>1 DEF ReadCiting, ReadCited, Citing, Cited, References, ScanCap
  <2> QED BY <1>1, <2>1 DEF EdgesOf
<1>3. \A s : Spread(s)' = Spread(s)
  BY <1>2 DEF Spread
<1>4. \A n : Within(n)' = Within(n)
  BY <1>1, <1>3 DEF Within
<1>5. ClampedDepth' = ClampedDepth
  BY <1>1 DEF ClampedDepth
<1> QED BY <1>2, <1>4, <1>5

-----------------------------------------------------------------------------
(* The walk: the triples of a paper join the graph.                            *)

LEMMA Appended ==
    ASSUME NEW V, NEW s \in Seq(V), NEW x \in V
    PROVE  /\ Append(s, x) \in Seq(V) /\ Len(Append(s, x)) = Len(s) + 1
           /\ DOMAIN s = 1..Len(s) /\ DOMAIN Append(s, x) = 1..(Len(s) + 1)
           /\ \A i \in 1..Len(s) : Append(s, x)[i] = s[i]
           /\ Append(s, x)[Len(s) + 1] = x
           /\ ToSet(Append(s, x)) = ToSet(s) \union {x}
           /\ x \notin ToSet(s) /\ IsInjective(s) => IsInjective(Append(s, x))
<1> DEFINE t == Append(s, x)
<1>1. /\ t \in Seq(V) /\ Len(s) \in Nat /\ Len(t) = Len(s) + 1
      /\ DOMAIN s = 1..Len(s) /\ DOMAIN t = 1..(Len(s) + 1)
      /\ \A i \in 1..Len(s) : t[i] = s[i]
      /\ t[Len(s) + 1] = x
  OBVIOUS
<1> HIDE DEF t
<1>2. ToSet(t) = ToSet(s) \union {x}
  <2>1. ASSUME NEW y \in ToSet(t) PROVE y \in ToSet(s) \union {x}
    BY <1>1, <2>1 DEF ToSet
  <2>2. ASSUME NEW y \in ToSet(s) PROVE y \in ToSet(t)
    <3>1. PICK i \in 1..Len(s) : s[i] = y
      BY <1>1 DEF ToSet
    <3>2. i \in DOMAIN t /\ t[i] = y
      BY <1>1, <3>1
    <3> QED BY <3>2 DEF ToSet
  <2>3. Len(s) + 1 \in DOMAIN t
    BY <1>1
  <2>4. x \in ToSet(t)
    BY <1>1, <2>3 DEF ToSet
  <2> QED BY <2>1, <2>2, <2>4
<1>3. ASSUME x \notin ToSet(s), IsInjective(s) PROVE IsInjective(t)
  <2>1. \A i \in 1..Len(s) : t[i] # x
    BY <1>1, <1>3 DEF ToSet
  <2>2. \A i, j \in 1..Len(s) : t[i] = t[j] => i = j
    BY <1>1, <1>3 DEF IsInjective
  <2>3. \A i \in DOMAIN t : i \in 1..Len(s) \/ i = Len(s) + 1
    BY <1>1
  <2> QED BY <1>1, <2>1, <2>2, <2>3 DEF IsInjective
<1> QED BY <1>1, <1>2, <1>3 DEF t

Growing == [nodes : Seq(Papers), edges : SUBSET Edges, queue : Seq(Papers \X Nat), full : BOOLEAN]

\* What has become of the graph when some triples have joined it.
Grown(g, done) ==
    /\ IsInjective(g.nodes)
    /\ g.nodes = nodes \/ (Len(nodes) < Len(g.nodes) /\ Len(g.nodes) <= asked.maxNodes)
    /\ ToSet(nodes) \subseteq ToSet(g.nodes)
    /\ Len(queue) <= Len(g.queue)
    /\ \A i \in 1..Len(queue) : g.queue[i] = queue[i]
    /\ \A i \in (Len(queue) + 1)..Len(g.queue) :
          g.queue[i][2] = at[2] + 1 /\ \E t \in done : g.queue[i][1] = t[1]
    /\ \A p \in ToSet(g.nodes) \ ToSet(nodes) :
          /\ \E i \in 1..Len(g.queue) : g.queue[i] = <<p, at[2] + 1>>
          /\ \E t \in done : t[1] = p
    /\ edges \subseteq g.edges
    /\ \A e \in g.edges \ edges : \E t \in done : t[2] = e
    /\ ~g.full => \A t \in done : t[1] \in ToSet(g.nodes) /\ t[2] \in g.edges

\* One more triple that adds no node.
LEMMA GrownOn ==
    ASSUME NEW g, NEW h, NEW done, NEW t, Grown(g, done), h.nodes = g.nodes, h.queue = g.queue,
           h.edges \in {g.edges, g.edges \union {t[2]}},
           ~h.full => ~g.full /\ t[1] \in ToSet(g.nodes) /\ t[2] \in h.edges
    PROVE  Grown(h, done \union {t})
<1>1. \A i \in (Len(queue) + 1)..Len(h.queue) :
        h.queue[i][2] = at[2] + 1 /\ \E u \in done \union {t} : h.queue[i][1] = u[1]
  BY DEF Grown
<1>2. ASSUME NEW p \in ToSet(h.nodes) \ ToSet(nodes)
      PROVE  /\ \E i \in 1..Len(h.queue) : h.queue[i] = <<p, at[2] + 1>>
             /\ \E u \in done \union {t} : u[1] = p
  <2>1. p \in ToSet(g.nodes) \ ToSet(nodes)
    OBVIOUS
  <2>2. \E i \in 1..Len(g.queue) : g.queue[i] = <<p, at[2] + 1>>
    BY <2>1 DEF Grown
  <2>3. \E u \in done : u[1] = p
    BY <2>1 DEF Grown
  <2> QED BY <2>2, <2>3
<1>3. /\ edges \subseteq h.edges
      /\ \A e \in h.edges \ edges : \E u \in done \union {t} : u[2] = e
  BY DEF Grown
<1>4. ~h.full => \A u \in done \union {t} : u[1] \in ToSet(h.nodes) /\ u[2] \in h.edges
  BY DEF Grown
<1>5. /\ IsInjective(h.nodes)
      /\ h.nodes = nodes \/ (Len(nodes) < Len(h.nodes) /\ Len(h.nodes) <= asked.maxNodes)
      /\ ToSet(nodes) \subseteq ToSet(h.nodes)
      /\ Len(queue) <= Len(h.queue)
      /\ \A i \in 1..Len(queue) : h.queue[i] = queue[i]
  BY DEF Grown
<1> QED BY <1>1, <1>2, <1>3, <1>4, <1>5 DEF Grown

LEMMA AddIs ==
    ASSUME asked \in Requests, at[2] \in Nat, NEW g \in Growing, NEW done, Grown(g, done),
           queue \in Seq(Papers \X Nat), NEW t \in Papers \X Edges
    PROVE  Add(g, t) \in Growing /\ Grown(Add(g, t), done \union {t})
<1> DEFINE edged == g.edges \union {t[2]}
<1>1. /\ t[1] \in Papers /\ t[2] \in Edges /\ edged \in SUBSET Edges
      /\ g.nodes \in Seq(Papers) /\ g.queue \in Seq(Papers \X Nat) /\ g.edges \in SUBSET Edges
      /\ g.full \in BOOLEAN /\ Len(g.nodes) \in Nat /\ Len(g.queue) \in Nat /\ Len(queue) \in Nat
      /\ asked.maxNodes \in Nat
  BY WalkAssumption DEF Growing
<1>2. Contains(g.nodes, t[1]) <=> t[1] \in ToSet(g.nodes)
  <2>1. DOMAIN g.nodes = 1..Len(g.nodes)
    BY <1>1
  <2> QED BY <2>1 DEF Contains, ToSet
<1>3. CASE g.full
  <2>1. Add(g, t) = g
    BY <1>3 DEF Add
  <2> QED BY <1>3, <2>1, GrownOn
<1>4. CASE ~g.full /\ Len(g.nodes) >= asked.maxNodes
  <2> DEFINE h == Add(g, t)
  <2>1. h = [g EXCEPT !.edges = edged, !.full = TRUE]
    BY <1>4 DEF Add
  <2>2. h \in Growing /\ h.nodes = g.nodes /\ h.queue = g.queue /\ h.edges = edged /\ h.full
    BY <1>1, <2>1 DEF Growing
  <2> HIDE DEF h
  <2>3. Grown(h, done \union {t})
    BY <2>2, GrownOn
  <2> QED BY <2>2, <2>3 DEF h
<1>5. CASE ~g.full /\ Len(g.nodes) < asked.maxNodes /\ t[1] \in ToSet(g.nodes)
  <2> DEFINE h == Add(g, t)
  <2>1. h = [g EXCEPT !.edges = edged]
    BY <1>1, <1>2, <1>5 DEF Add
  <2>2. h \in Growing /\ h.nodes = g.nodes /\ h.queue = g.queue /\ h.edges = edged /\ h.full = g.full
    BY <1>1, <2>1 DEF Growing
  <2> HIDE DEF h
  <2>3. Grown(h, done \union {t})
    BY <1>5, <2>2, GrownOn
  <2> QED BY <2>2, <2>3 DEF h
<1>6. CASE ~g.full /\ Len(g.nodes) < asked.maxNodes /\ t[1] \notin ToSet(g.nodes)
  <2> DEFINE h == Add(g, t)
             pair == <<t[1], at[2] + 1>>
  <2>1. h = [g EXCEPT !.edges = edged, !.nodes = Append(g.nodes, t[1]), !.queue = Append(g.queue, pair)]
    BY <1>1, <1>2, <1>6 DEF Add
  <2>2. pair \in Papers \X Nat /\ pair[1] = t[1] /\ pair[2] = at[2] + 1
    BY <1>1
  <2>3. /\ h \in Growing /\ h.nodes = Append(g.nodes, t[1]) /\ h.queue = Append(g.queue, pair)
        /\ h.edges = edged /\ h.full = FALSE
    <3>1. Append(g.nodes, t[1]) \in Seq(Papers) /\ Append(g.queue, pair) \in Seq(Papers \X Nat)
      BY <1>1, <2>2, Appended
    <3> HIDE DEF pair, edged
    <3> QED BY <1>1, <1>6, <2>1, <3>1 DEF Growing
  <2> HIDE DEF h
  <2>4. /\ Len(h.nodes) = Len(g.nodes) + 1 /\ ToSet(h.nodes) = ToSet(g.nodes) \union {t[1]}
        /\ IsInjective(h.nodes)
    BY <1>1, <1>6, <2>3, Appended DEF Grown
  <2>5. /\ Len(h.queue) = Len(g.queue) + 1 /\ \A i \in 1..Len(g.queue) : h.queue[i] = g.queue[i]
        /\ h.queue[Len(g.queue) + 1] = pair
    BY <1>1, <2>2, <2>3, Appended
  <2>6. /\ Len(queue) <= Len(h.queue)
        /\ \A i \in 1..Len(queue) : h.queue[i] = queue[i]
    BY <1>1, <2>5 DEF Grown
  <2>7. \A i \in (Len(queue) + 1)..Len(h.queue) :
          h.queue[i][2] = at[2] + 1 /\ \E u \in done \union {t} : h.queue[i][1] = u[1]
    <3> TAKE i \in (Len(queue) + 1)..Len(h.queue)
    <3>1. CASE i = Len(g.queue) + 1
      BY <2>2, <2>5, <3>1
    <3>2. CASE i # Len(g.queue) + 1
      <4>1. i \in (Len(queue) + 1)..Len(g.queue) /\ i \in 1..Len(g.queue)
        BY <1>1, <2>5, <3>2
      <4>2. h.queue[i] = g.queue[i]
        BY <2>5, <4>1
      <4>3. g.queue[i][2] = at[2] + 1 /\ \E u \in done : g.queue[i][1] = u[1]
        BY <4>1 DEF Grown
      <4> QED BY <4>2, <4>3
    <3> QED BY <3>1, <3>2
  <2>8. ASSUME NEW p \in ToSet(h.nodes) \ ToSet(nodes)
        PROVE  /\ \E i \in 1..Len(h.queue) : h.queue[i] = <<p, at[2] + 1>>
               /\ \E u \in done \union {t} : u[1] = p
    <3>1. CASE p = t[1]
      <4>1. Len(g.queue) + 1 \in 1..Len(h.queue)
        BY <1>1, <2>5
      <4> QED BY <2>5, <3>1, <4>1
    <3>2. CASE p # t[1]
      <4>1. p \in ToSet(g.nodes) \ ToSet(nodes)
        BY <2>4, <3>2
      <4>2. PICK i \in 1..Len(g.queue) : g.queue[i] = <<p, at[2] + 1>>
        BY <4>1 DEF Grown
      <4>3. \E u \in done : u[1] = p
        BY <4>1 DEF Grown
      <4>4. i \in 1..Len(h.queue) /\ h.queue[i] = g.queue[i]
        BY <1>1, <2>5
      <4> QED BY <4>2, <4>3, <4>4
    <3> QED BY <3>1, <3>2
  <2>9. /\ edges \subseteq h.edges
        /\ \A e \in h.edges \ edges : \E u \in done \union {t} : u[2] = e
        /\ \A u \in done \union {t} : u[1] \in ToSet(h.nodes) /\ u[2] \in h.edges
    BY <1>6, <2>3, <2>4 DEF Grown
  <2>10. /\ Len(nodes) < Len(h.nodes) /\ Len(h.nodes) <= asked.maxNodes
         /\ ToSet(nodes) \subseteq ToSet(h.nodes)
    BY <1>1, <1>6, <2>4 DEF Grown
  <2>11. Grown(h, done \union {t})
    BY <2>4, <2>6, <2>7, <2>8, <2>9, <2>10 DEF Grown
  <2> QED BY <2>3, <2>11 DEF h
<1> QED BY <1>1, <1>3, <1>4, <1>5, <1>6

LEMMA JoinedIs ==
    ASSUME TypeOK, NEW triples \in Seq(Papers \X Edges)
    PROVE  Joined(triples) \in Growing /\ Grown(Joined(triples), ToSet(triples))
<1> DEFINE start == [nodes |-> nodes, edges |-> edges, queue |-> queue, full |-> FALSE]
           Body(f, k) == IF k = 0 THEN start ELSE Add(f[k - 1], triples[k])
           Made(f, n) == f = [k \in 0..n |-> Body(f, k)]
           Exists == {n \in Nat : \E f : Made(f, n)}
<1>1. Nat \subseteq Exists
  <2> HIDE DEF start
  <2>1. 0 \in Exists
    <3> DEFINE f == [k \in 0..0 |-> start]
    <3>1. Made(f, 0)
      OBVIOUS
    <3> QED BY <3>1
  <2>2. ASSUME NEW n \in Nat, n \in Exists PROVE n + 1 \in Exists
    <3>1. PICK f : Made(f, n)
      <4> HIDE DEF Made
      <4> QED BY <2>2
    <3>2. \A k \in 0..n : f[k] = Body(f, k)
      BY <3>1
    <3> DEFINE g == [k \in 0..(n + 1) |-> IF k <= n THEN f[k] ELSE Body(f, k)]
    <3>3. ASSUME NEW k \in 0..(n + 1) PROVE g[k] = Body(g, k)
      <4>1. CASE k = 0
        BY <3>2, <4>1
      <4>2. CASE k # 0
        <5>1. k - 1 \in 0..n /\ g[k - 1] = f[k - 1]
          BY <4>2
        <5>2. Body(g, k) = Body(f, k)
          BY <5>1
        <5>3. g[k] = Body(f, k)
          BY <3>2
        <5> QED BY <5>2, <5>3
      <4> QED BY <4>1, <4>2
    <3>4. Made(g, n + 1)
      BY <3>3
    <3> HIDE DEF Made, g
    <3> QED BY <3>4
  <2> HIDE DEF Exists
  <2> QED BY <2>1, <2>2, SetInduction
<1>2. PICK f : Made(f, Len(triples)) /\ Joined(triples) = f[Len(triples)]
  <2>1. \E h : Made(h, Len(triples))
    <3>1. Len(triples) \in Nat
      OBVIOUS
    <3>2. Len(triples) \in Exists
      <4> HIDE DEF Exists
      <4> QED BY <1>1, <3>1
    <3> HIDE DEF Made
    <3> QED BY <3>1, <3>2
  <2> DEFINE chosen == CHOOSE h : Made(h, Len(triples))
  <2>2. Made(chosen, Len(triples))
    <3> HIDE DEF Made
    <3> QED BY <2>1
  <2>3. Joined(triples) = chosen[Len(triples)]
    BY DEF Joined
  <2> HIDE DEF chosen, Made
  <2> QED BY <2>2, <2>3
<1>3. /\ f[0] = start
      /\ \A n \in 0..(Len(triples) - 1) : f[n + 1] = Add(f[n], triples[n + 1])
  <2> HIDE DEF start
  <2>1. \A k \in 0..Len(triples) : f[k] = Body(f, k)
    BY <1>2
  <2>2. ASSUME NEW n \in 0..(Len(triples) - 1)
        PROVE  f[n + 1] = Add(f[n], triples[n + 1])
    <3>1. n + 1 \in 0..Len(triples) /\ n + 1 # 0 /\ (n + 1) - 1 = n
      OBVIOUS
    <3>2. f[n + 1] = Body(f, n + 1)
      BY <2>1, <3>1
    <3> QED BY <3>1, <3>2
  <2>3. f[0] = Body(f, 0)
    BY <2>1
  <2> QED BY <2>2, <2>3
<1> HIDE DEF Made, Exists, Body
<1>4. /\ asked \in Requests /\ at[2] \in Nat /\ queue \in Seq(Papers \X Nat)
      /\ nodes \in Seq(Papers) /\ edges \subseteq Edges
      /\ IsInjective(nodes)
  <2>1. asked \in Requests
    BY DEF TypeOK
  <2>2. 0..ClampedDepth \subseteq Nat
    BY <2>1, DepthIs
  <2>3. queue \in Seq(Papers \X (0..ClampedDepth)) /\ at \in Papers \X (0..ClampedDepth)
    BY DEF TypeOK
  <2>4. queue \in Seq(Papers \X Nat)
    BY <2>2, <2>3
  <2>5. at[2] \in Nat
    BY <2>2, <2>3
  <2> QED BY <2>1, <2>4, <2>5 DEF TypeOK
<1> DEFINE Handled(n) == {triples[k] : k \in 1..n}
           Good == {n \in Nat : n <= Len(triples) => f[n] \in Growing /\ Grown(f[n], Handled(n))}
<1>5. 0 \in Good
  <2>1. start \in Growing
    BY <1>4 DEF Growing
  <2>2. start.nodes = nodes /\ start.edges = edges /\ start.queue = queue /\ ~start.full
    OBVIOUS
  <2>3. Handled(0) = {} /\ Len(queue) \in Nat
    BY <1>4
  <2> HIDE DEF start, Handled
  <2>4. Grown(start, Handled(0))
    BY <1>4, <2>2, <2>3 DEF Grown
  <2> QED BY <1>3, <2>1, <2>4
<1>6. ASSUME NEW n \in Nat, n \in Good PROVE n + 1 \in Good
  <2> SUFFICES ASSUME n + 1 <= Len(triples)
               PROVE  f[n + 1] \in Growing /\ Grown(f[n + 1], Handled(n + 1))
    OBVIOUS
  <2>1. Len(triples) \in Nat /\ n \in 0..(Len(triples) - 1) /\ n + 1 \in 1..Len(triples)
    OBVIOUS
  <2>2. f[n + 1] = Add(f[n], triples[n + 1])
    BY <1>3, <2>1
  <2>3. f[n] \in Growing /\ Grown(f[n], Handled(n))
    BY <1>6, <2>1
  <2>4. triples[n + 1] \in Papers \X Edges
    BY <2>1
  <2>5. Handled(n + 1) = Handled(n) \union {triples[n + 1]}
    <3>1. \A k \in 1..(n + 1) : k \in 1..n \/ k = n + 1
      OBVIOUS
    <3> QED BY <3>1
  <2> HIDE DEF Handled
  <2>6. Add(f[n], triples[n + 1]) \in Growing /\ Grown(Add(f[n], triples[n + 1]), Handled(n) \union {triples[n + 1]})
    BY <1>4, <2>3, <2>4, AddIs
  <2> QED BY <2>2, <2>5, <2>6
<1>7. Nat \subseteq Good
  <2> HIDE DEF Good
  <2> QED BY <1>5, <1>6, SetInduction
<1>8. Len(triples) \in Nat /\ Handled(Len(triples)) = ToSet(triples)
  BY DEF ToSet
<1>9. f[Len(triples)] \in Growing /\ Grown(f[Len(triples)], Handled(Len(triples)))
  <2>1. Len(triples) \in Good
    <3> HIDE DEF Good
    <3> QED BY <1>7, <1>8
  <2> HIDE DEF Handled
  <2> QED BY <1>8, <2>1
<1> QED BY <1>2, <1>8, <1>9

-----------------------------------------------------------------------------
(* The walk: nodes and edges are what the literature says.                     *)

\* What may join the graph when p is expanded.
Triples(p) == {t \in Papers \X Edges : t[2] \in EdgesOf(p) /\ t[1] \in {t[2][1], t[2][2]}}

Expanding == pc \in {"citing", "cited"}

WalkInv ==
    /\ TypeOK
    /\ \A i \in DOMAIN queue : queue[i][1] \in Within(queue[i][2])
    /\ ToSet(nodes) \subseteq Within(ClampedDepth)
    /\ \A e \in edges : e[2] \in cites[e[1]]
    /\ Expanding => at[2] < ClampedDepth /\ at[1] \in Within(at[2])
    /\ pc = "citing" => "citations" \in asked.direction
    /\ pc = "cited" => "references" \in asked.direction
    /\ ToSet(found) \subseteq Triples(at[1])
    /\ ~Expanding => found = <<>>
    /\ pc = "seeds" => ~partial
    /\ pc # "citing" \/ ~asked.deep => offset = 0

LEMMA SequenceFrom ==
    ASSUME NEW V, NEW n \in Nat, NEW f, f = [k \in 1..n |-> f[k]], \A k \in 1..n : f[k] \in V
    PROVE  f \in Seq(V)
OBVIOUS

LEMMA Joining ==
    ASSUME NEW V, NEW s \in Seq(V), NEW t \in Seq(V)
    PROVE  s \o t \in Seq(V) /\ ToSet(s \o t) = ToSet(s) \union ToSet(t)
<1> DEFINE u == s \o t
<1>1. /\ u \in Seq(V) /\ Len(s) \in Nat /\ Len(t) \in Nat /\ Len(u) = Len(s) + Len(t)
      /\ DOMAIN s = 1..Len(s) /\ DOMAIN t = 1..Len(t) /\ DOMAIN u = 1..(Len(s) + Len(t))
      /\ \A i \in 1..Len(s) : u[i] = s[i]
      /\ \A i \in 1..Len(t) : u[Len(s) + i] = t[i]
  OBVIOUS
<1> HIDE DEF u
<1>2. ASSUME NEW y \in ToSet(u) PROVE y \in ToSet(s) \union ToSet(t)
  <2>1. PICK i \in 1..(Len(s) + Len(t)) : u[i] = y
    BY <1>1 DEF ToSet
  <2>2. CASE i \in 1..Len(s)
    BY <1>1, <2>1, <2>2 DEF ToSet
  <2>3. CASE i \notin 1..Len(s)
    <3>1. i - Len(s) \in 1..Len(t) /\ Len(s) + (i - Len(s)) = i
      BY <1>1, <2>3
    <3> QED BY <1>1, <2>1, <3>1 DEF ToSet
  <2> QED BY <2>2, <2>3
<1>3. ASSUME NEW y \in ToSet(s) PROVE y \in ToSet(u)
  <2>1. PICK i \in 1..Len(s) : s[i] = y
    BY <1>1 DEF ToSet
  <2>2. i \in DOMAIN u /\ u[i] = y
    BY <1>1, <2>1
  <2> QED BY <2>2 DEF ToSet
<1>4. ASSUME NEW y \in ToSet(t) PROVE y \in ToSet(u)
  <2>1. PICK i \in 1..Len(t) : t[i] = y
    BY <1>1 DEF ToSet
  <2>2. Len(s) + i \in DOMAIN u /\ u[Len(s) + i] = y
    BY <1>1, <2>1
  <2> QED BY <2>2 DEF ToSet
<1> QED BY <1>1, <1>2, <1>3, <1>4 DEF u

\* S2's list of the papers of a set, in its order.
LEMMA ListIs ==
    ASSUME NEW S, S \subseteq Papers
    PROVE  LET listed == Sifted(Newest, S)
           IN /\ listed \in Seq(S)
              /\ Len(listed) <= Len(Newest)
              /\ \A q \in S : \E j \in 1..Len(listed) : listed[j] = q
<1> DEFINE listed == Sifted(Newest, S)
<1>1. Newest \in Seq(Papers)
  BY WalkAssumption
<1>2. IsSifted(listed, Papers, Newest, S)
  BY <1>1, SiftedIs
<1> HIDE DEF listed
<1>3. listed \in Seq(Papers \cap S) /\ Papers \cap S = S /\ DOMAIN listed = 1..Len(listed)
  BY <1>2 DEF IsSifted
<1>4. ASSUME NEW q \in S PROVE \E j \in 1..Len(listed) : listed[j] = q
  <2>1. PICK i \in DOMAIN Newest : Newest[i] = q
    BY DEF Papers, ToSet
  <2> QED BY <1>2, <1>3, <2>1 DEF IsSifted
<1>5. Len(listed) <= Len(Newest)
  BY <1>2 DEF IsSifted
<1> QED BY <1>3, <1>4, <1>5 DEF listed

CitersOf(p) == {q \in Papers : p \in cites[q]}

LEMMA GraphsAre ==
    ASSUME TypeOK
    PROVE  /\ cites \in [Papers -> SUBSET Papers] /\ asked \in Requests
           /\ asked.liked \subseteq Papers /\ asked.direction \subseteq {"citations", "references"}
           /\ asked.direction # {} /\ asked.deep \in BOOLEAN /\ asked.maxNodes \in Nat
           /\ asked.seeds \in Seq(Papers) /\ IsInjective(asked.seeds)
           /\ Newest \in Seq(Papers) /\ Len(Newest) \in Nat \ {0} /\ Newest[1] \in Papers
           /\ at[1] \in Papers /\ at[2] \in Nat /\ at[2] <= ClampedDepth
           /\ ClampedDepth \in Nat \ {0} /\ at = <<at[1], at[2]>>
           /\ queue \in Seq(Papers \X Nat)
<1>1. cites \in Graphs /\ asked \in Requests
  BY DEF TypeOK
<1>2. ClampedDepth \in Nat \ {0}
  BY <1>1, DepthIs
<1>3. at \in Papers \X (0..ClampedDepth) /\ queue \in Seq(Papers \X (0..ClampedDepth))
  BY DEF TypeOK
<1>4. 0..ClampedDepth \subseteq Nat
  BY <1>2
<1>5. queue \in Seq(Papers \X Nat)
  BY <1>3, <1>4
<1>6. Newest \in Seq(Papers) /\ Newest # <<>>
  BY WalkAssumption
<1>7. Len(Newest) \in Nat \ {0} /\ Newest[1] \in Papers
  BY <1>6
<1>8. at[1] \in Papers /\ at[2] \in Nat /\ at[2] <= ClampedDepth /\ at = <<at[1], at[2]>>
  BY <1>2, <1>3
<1> QED BY <1>1, <1>2, <1>5, <1>6, <1>7, <1>8, WalkAssumption

\* The list of the papers that cite one, and what of it a walk reads.
LEMMA CitingIs ==
    ASSUME NEW p
    PROVE  /\ Citing(p) \in Seq(CitersOf(p)) /\ Len(Citing(p)) \in Nat
           /\ Len(Citing(p)) <= Len(Newest)
           /\ \A q \in CitersOf(p) : \E j \in 1..Len(Citing(p)) : Citing(p)[j] = q
<1>1. Citing(p) = Sifted(Newest, CitersOf(p)) /\ CitersOf(p) \subseteq Papers
  BY DEF Citing, CitersOf
<1>2. /\ Citing(p) \in Seq(CitersOf(p)) /\ Len(Citing(p)) <= Len(Newest)
      /\ \A q \in CitersOf(p) : \E j \in 1..Len(Citing(p)) : Citing(p)[j] = q
  BY <1>1, ListIs
<1> QED BY <1>2

\* How many records a scan may read of a list.
ToCap(p) == IF Len(Citing(p)) <= ScanCap THEN Len(Citing(p)) ELSE ScanCap

LEMMA CapIs ==
    ASSUME TypeOK
    PROVE  ScanCap \in Nat /\ (~asked.deep => ScanCap = FetchLimit)
BY GraphsAre, WalkAssumption DEF ScanCap

LEMMA ReadCitingIs ==
    ASSUME TypeOK, NEW p
    PROVE  /\ ReadCiting(p) \in Seq(CitersOf(p) \cap asked.liked)
           /\ Len(ReadCiting(p)) = Cardinality(LikedAt(Citing(p), asked.liked, 0, ToCap(p)))
           /\ \A j \in 1..Len(Citing(p)) : j <= ScanCap /\ Citing(p)[j] \in asked.liked =>
                 Citing(p)[j] \in ToSet(ReadCiting(p))
           /\ \A q \in ToSet(ReadCiting(p)) :
                 q \in asked.liked /\ \E j \in 1..Len(Citing(p)) : j <= ScanCap /\ Citing(p)[j] = q
<1> DEFINE cs == Citing(p)
           page == Page(cs, 0, ScanCap)
           kept == ReadCiting(p)
           Early == {cs[j] : j \in 1..ToCap(p)}
<1>1. cs \in Seq(CitersOf(p)) /\ Len(cs) \in Nat /\ ScanCap \in Nat
  BY CitingIs, CapIs
<1>2. IsPage(page, CitersOf(p), cs, 0, ScanCap)
  BY <1>1, PageOf
<1>3. kept = Sifted(page, asked.liked)
  BY DEF ReadCiting
<1> HIDE DEF page, kept, cs
<1>4. /\ page \in Seq(CitersOf(p)) /\ Len(page) = ToCap(p) /\ ToCap(p) \in Nat
      /\ ToCap(p) <= Len(cs) /\ ToCap(p) <= ScanCap
      /\ \A k \in 1..Len(page) : page[k] = cs[0 + k]
      /\ \A j \in 1..Len(cs) : j <= ScanCap => j <= ToCap(p)
  BY <1>1, <1>2 DEF IsPage, ToCap, cs
<1>5. IsSifted(kept, CitersOf(p), page, asked.liked)
  BY <1>3, <1>4, SiftedIs
<1>6. page \in Seq(Early)
  <2>1. \A k \in 1..ToCap(p) : page[k] \in Early
    BY <1>4
  <2>2. page = [k \in 1..ToCap(p) |-> page[k]]
    BY <1>4
  <2> HIDE DEF Early
  <2> QED BY <1>4, <2>1, <2>2, SequenceFrom
<1>7. kept \in Seq(Early \cap asked.liked)
  <2> HIDE DEF Early
  <2> QED BY <1>3, <1>6, SiftedIs DEF IsSifted
<1>8. kept \in Seq(CitersOf(p) \cap asked.liked)
  BY <1>5 DEF IsSifted
<1>9. Len(kept) = Cardinality(LikedAt(cs, asked.liked, 0, ToCap(p)))
  <2>1. Len(kept) = Cardinality(LikedAt(cs, asked.liked, 0, 0 + Len(page)))
    BY <1>1, <1>3, <1>4, SiftedCounts
  <2>2. 0 + Len(page) = ToCap(p)
    BY <1>4
  <2> QED BY <2>1, <2>2
<1>10. ASSUME NEW j \in 1..Len(cs), j <= ScanCap, cs[j] \in asked.liked PROVE cs[j] \in ToSet(kept)
  <2>1. j \in 1..Len(page) /\ page[j] = cs[j] /\ j \in DOMAIN page
    BY <1>1, <1>4, <1>10
  <2> QED BY <1>5, <1>10, <2>1 DEF IsSifted, ToSet
<1>11. ASSUME NEW q \in ToSet(kept)
       PROVE  q \in asked.liked /\ \E j \in 1..Len(cs) : j <= ScanCap /\ cs[j] = q
  <2>1. q \in Early /\ q \in asked.liked
    <3>1. \A k \in DOMAIN kept : kept[k] \in Early /\ kept[k] \in asked.liked
      <4> HIDE DEF Early
      <4> QED BY <1>7
    <3> QED BY <3>1 DEF ToSet
  <2>2. PICK j \in 1..ToCap(p) : cs[j] = q
    BY <2>1
  <2>3. j \in 1..Len(cs) /\ j <= ScanCap
    BY <1>1, <1>4, <2>2
  <2> QED BY <2>1, <2>2, <2>3
<1> QED BY <1>8, <1>9, <1>10, <1>11 DEF kept, cs

LEMMA ReadCitedIs ==
    ASSUME TypeOK, NEW p \in Papers
    PROVE  ReadCited(p) \in Seq(cites[p] \cap asked.liked)
<1>1. cites[p] \subseteq Papers
  BY GraphsAre
<1>2. Cited(p) \in Seq(cites[p])
  BY <1>1, ListIs DEF Cited
<1>3. References(p) \in Seq(cites[p])
  BY <1>2, PageOf, WalkAssumption DEF References, IsPage
<1> QED BY <1>3, SiftedIs DEF ReadCited, IsSifted

LEMMA EdgesAre ==
    ASSUME TypeOK, NEW p \in Papers
    PROVE  EdgesOf(p) \subseteq Edges /\ \A e \in EdgesOf(p) : e[2] \in cites[e[1]]
<1>1. ToSet(ReadCiting(p)) \subseteq CitersOf(p)
  <2>1. ReadCiting(p) \in Seq(CitersOf(p) \cap asked.liked)
    BY ReadCitingIs
  <2>2. \A k \in DOMAIN ReadCiting(p) : ReadCiting(p)[k] \in CitersOf(p)
    BY <2>1
  <2> QED BY <2>2 DEF ToSet
<1>2. ToSet(ReadCited(p)) \subseteq cites[p]
  <2>1. ReadCited(p) \in Seq(cites[p] \cap asked.liked)
    BY ReadCitedIs
  <2>2. \A k \in DOMAIN ReadCited(p) : ReadCited(p)[k] \in cites[p]
    BY <2>1
  <2> QED BY <2>2 DEF ToSet
<1>3. cites[p] \subseteq Papers
  BY GraphsAre
<1>4. ASSUME NEW e \in EdgesOf(p) PROVE e \in Edges /\ e[2] \in cites[e[1]]
  <2>1. CASE e \in ToSet(ReadCiting(p)) \X {p}
    BY <1>1, <2>1 DEF CitersOf, Edges
  <2>2. CASE e \in {p} \X ToSet(ReadCited(p))
    BY <1>2, <1>3, <2>2 DEF Edges
  <2>3. e \in ToSet(ReadCiting(p)) \X {p} \/ e \in {p} \X ToSet(ReadCited(p))
    BY DEF EdgesOf
  <2> QED BY <2>1, <2>2, <2>3
<1> QED BY <1>4

\* What is made of a page of citations.
LEMMA FoundCitingIs ==
    ASSUME TypeOK, "citations" \in asked.direction, NEW page \in Seq(CitersOf(at[1])),
           \A k \in 1..Len(page) : page[k] \in asked.liked => page[k] \in ToSet(ReadCiting(at[1]))
    PROVE  /\ FoundCiting(page) \in Seq(Papers \X Edges)
           /\ ToSet(FoundCiting(page)) \subseteq Triples(at[1])
           /\ Len(FoundCiting(page)) = Len(Sifted(page, asked.liked))
           /\ \A k \in 1..Len(page) : page[k] \in asked.liked =>
                 <<page[k], <<page[k], at[1]>>>> \in ToSet(FoundCiting(page))
<1> DEFINE kept == Sifted(page, asked.liked)
           S == CitersOf(at[1])
           Kept == {page[k] : k \in 1..Len(page)}
           of == FoundCiting(page)
<1>1. IsSifted(kept, S, page, asked.liked) /\ IsSifted(kept, Kept, page, asked.liked)
  <2>1. page = [k \in 1..Len(page) |-> page[k]] /\ Len(page) \in Nat /\ \A k \in 1..Len(page) : page[k] \in Kept
    OBVIOUS
  <2> HIDE DEF Kept
  <2>2. page \in Seq(Kept)
    BY <2>1, SequenceFrom
  <2> QED BY <2>2, SiftedIs
<1> HIDE DEF kept
<1>2. /\ kept \in Seq(S \cap asked.liked) /\ DOMAIN kept = 1..Len(kept) /\ Len(kept) \in Nat
      /\ kept \in Seq(Kept \cap asked.liked)
  <2> HIDE DEF Kept
  <2> QED BY <1>1 DEF IsSifted
<1>3. of = [k \in 1..Len(kept) |-> <<kept[k], <<kept[k], at[1]>>>>]
  BY <1>2 DEF FoundCiting, kept
<1>4. \A q \in Kept \cap asked.liked : <<q, <<q, at[1]>>>> \in Triples(at[1])
  <2> SUFFICES ASSUME NEW q \in Kept, q \in asked.liked PROVE <<q, <<q, at[1]>>>> \in Triples(at[1])
    OBVIOUS
  <2>1. q \in ToSet(ReadCiting(at[1]))
    OBVIOUS
  <2>2. <<q, at[1]>> \in EdgesOf(at[1])
    BY <2>1 DEF EdgesOf
  <2>3. <<q, at[1]>> \in Edges
    BY <2>2, EdgesAre, GraphsAre
  <2> QED BY <2>2, <2>3 DEF Triples, Edges
<1>5. \A k \in 1..Len(kept) : kept[k] \in Kept \cap asked.liked
  <2> HIDE DEF Kept
  <2> QED BY <1>2
<1> HIDE DEF of, Kept
<1>6. /\ \A k \in 1..Len(kept) : of[k] = <<kept[k], <<kept[k], at[1]>>>> /\ of[k] \in Triples(at[1])
      /\ DOMAIN of = 1..Len(kept)
  BY <1>3, <1>4, <1>5
<1>7. ToSet(of) \subseteq Triples(at[1])
  BY <1>6 DEF ToSet
<1>8. of \in Seq(Papers \X Edges)
  <2>1. \A k \in 1..Len(kept) : of[k] \in Papers \X Edges
    BY <1>6 DEF Triples
  <2>2. of = [k \in 1..Len(kept) |-> of[k]]
    BY <1>3, <1>6
  <2> QED BY <1>2, <2>1, <2>2, SequenceFrom
<1>9. ASSUME NEW k \in 1..Len(page), page[k] \in asked.liked
      PROVE  <<page[k], <<page[k], at[1]>>>> \in ToSet(of)
  <2>1. PICK j \in DOMAIN kept : kept[j] = page[k]
    BY <1>1, <1>9 DEF IsSifted
  <2>2. j \in DOMAIN of /\ of[j] = <<page[k], <<page[k], at[1]>>>>
    BY <1>2, <1>6, <2>1
  <2> QED BY <2>2 DEF ToSet
<1>10. Len(of) = Len(kept)
  BY <1>2, <1>6, <1>8
<1> QED BY <1>7, <1>8, <1>9, <1>10 DEF of, kept

\* What is made of the page of references.
LEMMA FoundCitedIs ==
    ASSUME TypeOK, "references" \in asked.direction
    PROVE  LET of == FoundCited(References(at[1]))
           IN /\ of \in Seq(Papers \X Edges)
              /\ ToSet(of) \subseteq Triples(at[1])
              /\ \A q \in ToSet(ReadCited(at[1])) : <<q, <<at[1], q>>>> \in ToSet(of)
<1> DEFINE kept == ReadCited(at[1])
           of == FoundCited(References(at[1]))
<1>1. kept \in Seq(cites[at[1]] \cap asked.liked) /\ at[1] \in Papers
  BY GraphsAre, ReadCitedIs
<1>2. of = [k \in DOMAIN kept |-> <<kept[k], <<at[1], kept[k]>>>>]
  BY DEF FoundCited, ReadCited
<1> HIDE DEF kept
<1>3. DOMAIN kept = 1..Len(kept) /\ Len(kept) \in Nat
  BY <1>1
<1>4. \A q \in ToSet(kept) : <<q, <<at[1], q>>>> \in Triples(at[1])
  <2> SUFFICES ASSUME NEW q \in ToSet(kept) PROVE <<q, <<at[1], q>>>> \in Triples(at[1])
    OBVIOUS
  <2>1. <<at[1], q>> \in EdgesOf(at[1])
    BY DEF EdgesOf, kept
  <2>2. <<at[1], q>> \in Edges
    BY <1>1, <2>1, EdgesAre
  <2> QED BY <2>1, <2>2 DEF Triples, Edges
<1>5. \A k \in 1..Len(kept) : kept[k] \in ToSet(kept)
  BY <1>3 DEF ToSet
<1> HIDE DEF of
<1>6. /\ \A k \in 1..Len(kept) : of[k] = <<kept[k], <<at[1], kept[k]>>>> /\ of[k] \in Triples(at[1])
      /\ DOMAIN of = 1..Len(kept)
  BY <1>2, <1>3, <1>4, <1>5
<1>7. ToSet(of) \subseteq Triples(at[1])
  BY <1>6 DEF ToSet
<1>8. of \in Seq(Papers \X Edges)
  <2>1. \A k \in 1..Len(kept) : of[k] \in Papers \X Edges
    BY <1>6 DEF Triples
  <2>2. of = [k \in 1..Len(kept) |-> of[k]]
    BY <1>2, <1>3, <1>6
  <2> QED BY <1>3, <2>1, <2>2, SequenceFrom
<1>9. ASSUME NEW q \in ToSet(kept) PROVE <<q, <<at[1], q>>>> \in ToSet(of)
  <2>1. PICK k \in 1..Len(kept) : kept[k] = q
    BY <1>3 DEF ToSet
  <2> QED BY <1>6, <2>1 DEF ToSet
<1> QED BY <1>7, <1>8, <1>9 DEF of, kept

LEMMA JoinSound ==
    ASSUME WalkInv, Expanding, NEW triples \in Seq(Papers \X Edges),
           ToSet(triples) \subseteq Triples(at[1]), Join(triples),
           given' = given, at' = at, offset' = 0, partial' \in BOOLEAN
    PROVE  WalkInv'
<1> DEFINE g == Joined(triples)
           T == ToSet(triples)
           n == at[2]
<1>1. TypeOK
  BY DEF WalkInv
<1>2. g \in Growing /\ Grown(g, T)
  BY <1>1, JoinedIs
<1>3. /\ nodes' = g.nodes /\ edges' = g.edges /\ queue' = g.queue /\ truncated' = g.full
      /\ pc' = IF g.full THEN "done" ELSE "pop"
      /\ found' = <<>>
  BY DEF Join
<1> HIDE DEF g, T
<1>4. n \in Nat /\ n < ClampedDepth /\ ClampedDepth \in Nat \ {0} /\ at[1] \in Within(n) /\ n + 1 <= ClampedDepth
  BY <1>1, GraphsAre DEF WalkInv
<1>5. \A t \in T : t[1] \in Within(n + 1) /\ t[2] \in EdgesOf(at[1])
  <2>1. Within(n + 1) = Spread(Within(n))
    BY <1>4, WithinIs
  <2>2. \A e \in EdgesOf(at[1]) : e[1] \in Within(n + 1) /\ e[2] \in Within(n + 1)
    BY <1>4, <2>1, SpreadIs
  <2> QED BY <2>2 DEF Triples, T
<1>6. Within(n + 1) \subseteq Within(ClampedDepth)
  BY <1>4, WithinGrows
<1>7. /\ g.queue \in Seq(Papers \X Nat) /\ Len(g.queue) \in Nat /\ Len(queue) \in Nat
      /\ DOMAIN g.queue = 1..Len(g.queue) /\ DOMAIN queue = 1..Len(queue)
      /\ queue \in Seq(Papers \X Nat)
  BY <1>1, <1>2, GraphsAre DEF Growing
<1>8. ASSUME NEW i \in 1..Len(g.queue)
      PROVE  /\ g.queue[i][2] \in Nat /\ g.queue[i][2] <= ClampedDepth
             /\ g.queue[i][1] \in Within(g.queue[i][2])
  <2>1. CASE i \in 1..Len(queue)
    <3>1. g.queue[i] = queue[i] /\ i \in DOMAIN queue
      BY <1>2, <1>7, <2>1 DEF Grown
    <3>2. queue[i] \in Papers \X (0..ClampedDepth)
      BY <1>1, <3>1 DEF TypeOK
    <3> QED BY <1>4, <3>1, <3>2 DEF WalkInv
  <2>2. CASE i \notin 1..Len(queue)
    <3>1. i \in (Len(queue) + 1)..Len(g.queue)
      BY <1>7, <2>2
    <3>2. g.queue[i][2] = n + 1 /\ \E t \in T : g.queue[i][1] = t[1]
      BY <1>2, <3>1 DEF Grown
    <3> QED BY <1>4, <1>5, <3>2
  <2> QED BY <2>1, <2>2
<1>9. g.queue \in Seq(Papers \X (0..ClampedDepth))
  <2>1. ASSUME NEW i \in 1..Len(g.queue) PROVE g.queue[i] \in Papers \X (0..ClampedDepth)
    <3>1. g.queue[i] \in Papers \X Nat
      BY <1>7
    <3> QED BY <1>4, <1>8, <3>1
  <2>2. g.queue = [i \in 1..Len(g.queue) |-> g.queue[i]]
    BY <1>7
  <2> QED BY <1>7, <2>1, <2>2, SequenceFrom
<1>10. /\ g.nodes \in Seq(Papers) /\ IsInjective(g.nodes)
       /\ Len(g.nodes) <= asked.maxNodes \/ g.nodes = asked.seeds
       /\ ToSet(g.nodes) \subseteq Within(ClampedDepth)
  <2>1. Len(g.nodes) <= asked.maxNodes \/ g.nodes = asked.seeds
    BY <1>1, <1>2 DEF Grown, TypeOK
  <2>2. ASSUME NEW p \in ToSet(g.nodes) PROVE p \in Within(ClampedDepth)
    <3>1. CASE p \in ToSet(nodes)
      BY <3>1 DEF WalkInv
    <3>2. CASE p \notin ToSet(nodes)
      <4>1. \E t \in T : t[1] = p
        BY <1>2, <3>2 DEF Grown
      <4> QED BY <1>5, <1>6, <4>1
    <3> QED BY <3>1, <3>2
  <2> QED BY <1>2, <2>1, <2>2 DEF Grown, Growing
<1>11. g.edges \subseteq Edges /\ \A e \in g.edges : e[2] \in cites[e[1]]
  <2>1. \A e \in EdgesOf(at[1]) : e[2] \in cites[e[1]]
    BY <1>1, GraphsAre, EdgesAre
  <2>2. ASSUME NEW e \in g.edges PROVE e[2] \in cites[e[1]]
    <3>1. CASE e \in edges
      BY <3>1 DEF WalkInv
    <3>2. CASE e \notin edges
      BY <1>2, <1>5, <2>1, <3>2 DEF Grown
    <3> QED BY <3>1, <3>2
  <2> QED BY <1>2, <2>2 DEF Growing
<1>12. /\ \A m : Within(m)' = Within(m)
       /\ ClampedDepth' = ClampedDepth
       /\ cites' = cites /\ asked' = asked
  BY SameReach DEF given
<1>13. g.full \in BOOLEAN
  BY <1>2 DEF Growing
<1>14. TypeOK'
  <2>1. pc' \in {"seeds", "pop", "citing", "cited", "done"} /\ found' \in Seq(Papers \X Edges)
    BY <1>3
  <2>2. offset' \in 0..Len(Newest)
    BY <1>1, GraphsAre
  <2> QED BY <1>1, <1>3, <1>9, <1>10, <1>11, <1>12, <1>13, <2>1, <2>2 DEF TypeOK
<1>15. (\A i \in DOMAIN queue : queue[i][1] \in Within(queue[i][2]))'
  <2>1. \A i \in DOMAIN queue' : queue'[i][1] \in Within(queue'[i][2])
    BY <1>3, <1>7, <1>8
  <2> QED BY <1>12, <2>1
<1>16. (ToSet(nodes) \subseteq Within(ClampedDepth))'
  BY <1>3, <1>10, <1>12
<1>17. (\A e \in edges : e[2] \in cites[e[1]])'
  BY <1>3, <1>11, <1>12
<1>18. ~Expanding' /\ pc' # "citing" /\ pc' # "cited" /\ pc' # "seeds" /\ found' = <<>> /\ offset' = 0
  BY <1>3 DEF Expanding
<1>19. ToSet(found') = {}
  BY <1>18 DEF ToSet
<1>20. (ToSet(found) \subseteq Triples(at[1]))'
  BY <1>19
<1> QED BY <1>14, <1>15, <1>16, <1>17, <1>18, <1>20 DEF WalkInv

LEMMA WalkBegins == Init => WalkInv
<1> SUFFICES ASSUME Init PROVE WalkInv
  OBVIOUS
<1>1. asked \in Requests /\ cites \in Graphs
  BY DEF Init
<1>2. /\ asked.seeds \in Seq(Papers) /\ IsInjective(asked.seeds)
      /\ Newest \in Seq(Papers) /\ Newest # <<>> /\ ClampedDepth \in Nat \ {0}
  BY <1>1, WalkAssumption, DepthIs
<1>3. Newest[1] \in Papers /\ Len(Newest) \in Nat
  BY <1>2
<1>4. /\ queue = [k \in 1..Len(asked.seeds) |-> queue[k]] /\ DOMAIN queue = 1..Len(asked.seeds)
      /\ \A k \in 1..Len(asked.seeds) : queue[k] = <<asked.seeds[k], 0>>
      /\ Len(asked.seeds) \in Nat /\ \A k \in 1..Len(asked.seeds) : asked.seeds[k] \in Papers
  BY <1>2 DEF Init
<1>5. queue \in Seq(Papers \X (0..ClampedDepth))
  <2>1. ASSUME NEW k \in 1..Len(asked.seeds) PROVE queue[k] \in Papers \X (0..ClampedDepth)
    <3>1. queue[k] = <<asked.seeds[k], 0>> /\ asked.seeds[k] \in Papers
      BY <1>4
    <3>2. 0 \in 0..ClampedDepth
      BY <1>2
    <3> QED BY <3>1, <3>2
  <2> QED BY <1>4, <2>1, SequenceFrom
<1>6. Within(0) = ToSet(asked.seeds) /\ Within(0) \subseteq Within(ClampedDepth)
  BY <1>2, WithinIs, WithinGrows
<1>7. TypeOK
  <2>1. <<Newest[1], 0>> \in Papers \X (0..ClampedDepth) /\ 0 \in 0..Len(Newest)
    BY <1>2, <1>3
  <2>2. /\ pc = "seeds" /\ nodes = asked.seeds /\ edges = {} /\ at = <<Newest[1], 0>>
        /\ found = <<>> /\ offset = 0 /\ partial = FALSE /\ truncated = FALSE
    BY DEF Init
  <2>3. edges \subseteq Edges /\ found \in Seq(Papers \X Edges) /\ pc \in {"seeds", "pop", "citing", "cited", "done"}
    BY <2>2
  <2>4. at \in Papers \X (0..ClampedDepth) /\ offset \in 0..Len(Newest)
    BY <2>1, <2>2
  <2> QED BY <1>1, <1>2, <1>5, <2>2, <2>3, <2>4 DEF TypeOK
<1>8. ASSUME NEW i \in DOMAIN queue PROVE queue[i][1] \in Within(queue[i][2])
  <2>1. queue[i] = <<asked.seeds[i], 0>> /\ i \in DOMAIN asked.seeds
    <3>1. i \in 1..Len(asked.seeds)
      BY <1>4
    <3>2. DOMAIN asked.seeds = 1..Len(asked.seeds)
      BY <1>2
    <3> QED BY <1>4, <3>1, <3>2
  <2>2. asked.seeds[i] \in ToSet(asked.seeds)
    BY <2>1 DEF ToSet
  <2> QED BY <1>6, <2>1, <2>2
<1>9. ToSet(found) = {}
  BY DEF Init, ToSet
<1> QED BY <1>6, <1>7, <1>8, <1>9 DEF Init, WalkInv, Expanding

\* What is behind the head of the queue.
LEMMA Behind ==
    ASSUME NEW V, NEW q \in Seq(V), q # <<>>
    PROVE  /\ Tail(q) \in Seq(V) /\ Head(q) = q[1] /\ q[1] \in V /\ Len(q) \in Nat /\ Len(q) >= 1
           /\ DOMAIN q = 1..Len(q) /\ DOMAIN Tail(q) = 1..(Len(q) - 1)
           /\ \A k \in 1..(Len(q) - 1) : Tail(q)[k] = q[k + 1]
OBVIOUS

LEMMA PopSound == WalkInv /\ Pop => WalkInv'
<1> SUFFICES ASSUME WalkInv, Pop PROVE WalkInv'
  OBVIOUS
<1>1. TypeOK /\ pc = "pop" /\ queue # <<>> /\ found = <<>> /\ offset = 0
  BY DEF WalkInv, Pop, Expanding
<1>2. /\ queue' = Tail(queue) /\ given' = given /\ nodes' = nodes /\ edges' = edges
      /\ found' = <<>> /\ offset' = 0 /\ partial' = partial /\ truncated' = truncated
  BY <1>1 DEF Pop
<1>3. /\ \A m : Within(m)' = Within(m)
      /\ ClampedDepth' = ClampedDepth
      /\ cites' = cites /\ asked' = asked
  BY <1>2, SameReach DEF given
<1>4. queue \in Seq(Papers \X (0..ClampedDepth)) /\ ClampedDepth \in Nat
  BY <1>1, GraphsAre DEF TypeOK
<1>5. /\ Tail(queue) \in Seq(Papers \X (0..ClampedDepth)) /\ Head(queue) = queue[1]
      /\ queue[1] \in Papers \X (0..ClampedDepth) /\ Len(queue) \in Nat /\ Len(queue) >= 1
      /\ DOMAIN queue = 1..Len(queue) /\ DOMAIN Tail(queue) = 1..(Len(queue) - 1)
      /\ \A k \in 1..(Len(queue) - 1) : Tail(queue)[k] = queue[k + 1]
  BY <1>1, <1>4, Behind
<1>6. (\A i \in DOMAIN queue : queue[i][1] \in Within(queue[i][2]))'
  <2>1. ASSUME NEW i \in DOMAIN queue' PROVE queue'[i][1] \in Within(queue'[i][2])
    <3>1. i \in 1..(Len(queue) - 1) /\ queue'[i] = queue[i + 1] /\ i + 1 \in DOMAIN queue
      BY <1>2, <1>5
    <3> QED BY <3>1 DEF WalkInv
  <2> QED BY <1>3, <2>1
<1>7. ToSet(found') = {}
  BY <1>2 DEF ToSet
<1>8. (ToSet(found) \subseteq Triples(at[1]))'
  BY <1>7
<1>9. ToSet(nodes') \subseteq Within(ClampedDepth)' /\ \A e \in edges' : e[2] \in cites'[e[1]]
  BY <1>2, <1>3 DEF WalkInv
<1>10. CASE queue[1][2] >= ClampedDepth
  <2>1. pc' = pc /\ at' = at
    BY <1>5, <1>10 DEF Pop
  <2>2. TypeOK'
    BY <1>1, <1>2, <1>3, <1>5, <2>1 DEF TypeOK
  <2> QED BY <1>1, <1>2, <1>6, <1>8, <1>9, <2>1, <2>2 DEF WalkInv, Expanding
<1>11. CASE ~(queue[1][2] >= ClampedDepth)
  <2>1. at' = queue[1] /\ pc' = IF "citations" \in asked.direction THEN "citing" ELSE "cited"
    BY <1>5, <1>11 DEF Pop
  <2>2. TypeOK'
    BY <1>1, <1>2, <1>3, <1>5, <2>1 DEF TypeOK
  <2>3. at'[2] < ClampedDepth' /\ at'[1] \in Within(at[2])'
    <3>1. queue[1][2] \in Nat /\ queue[1][1] \in Within(queue[1][2])
      BY <1>4, <1>5 DEF WalkInv
    <3> QED BY <1>3, <1>4, <1>11, <2>1, <3>1
  <2>4. pc' = "citing" => "citations" \in asked'.direction
    BY <1>3, <2>1
  <2>5. pc' = "cited" => "references" \in asked'.direction
    BY <1>1, <1>3, <2>1, GraphsAre
  <2> QED BY <1>2, <1>6, <1>8, <1>9, <2>1, <2>2, <2>3, <2>4, <2>5 DEF WalkInv, Expanding
<1> QED BY <1>10, <1>11

\* Steps that leave the graph alone.
LEMMA GraphStays ==
    ASSUME WalkInv, given' = given, graph' = graph, at' = at, TypeOK',
           pc' = "citing" => "citations" \in asked.direction,
           pc' = "cited" => "references" \in asked.direction,
           Expanding' => Expanding, ToSet(found') \subseteq Triples(at[1]),
           ~Expanding' => found' = <<>>, pc' # "seeds" \/ (pc = "seeds" /\ partial' = partial),
           pc' # "citing" \/ ~asked.deep => offset' = 0
    PROVE  WalkInv'
<1>1. /\ \A m : Within(m)' = Within(m)
      /\ \A p : EdgesOf(p)' = EdgesOf(p)
      /\ ClampedDepth' = ClampedDepth
      /\ cites' = cites /\ asked' = asked
  BY SameReach DEF given
<1>2. nodes' = nodes /\ edges' = edges /\ queue' = queue
  BY DEF graph
<1>3. Triples(at[1])' = Triples(at[1])
  BY <1>1 DEF Triples
<1>4. (\A i \in DOMAIN queue : queue[i][1] \in Within(queue[i][2]))'
  <2>1. \A i \in DOMAIN queue' : queue'[i][1] \in Within(queue'[i][2])
    BY <1>2 DEF WalkInv
  <2> QED BY <1>1, <2>1
<1>5. Expanding' => at'[2] < ClampedDepth' /\ at'[1] \in Within(at[2])'
  BY <1>1 DEF WalkInv
<1>6. ToSet(nodes') \subseteq Within(ClampedDepth)' /\ \A e \in edges' : e[2] \in cites'[e[1]]
  BY <1>1, <1>2 DEF WalkInv
<1> QED BY <1>1, <1>3, <1>4, <1>5, <1>6 DEF WalkInv

LEMMA CitationsSound ==
    ASSUME WalkInv, pc = "citing", NEW triples \in Seq(Papers \X Edges),
           ToSet(triples) \subseteq Triples(at[1]), Citations(triples), partial' \in BOOLEAN
    PROVE  WalkInv'
<1>1. given' = given /\ at' = at /\ offset' = 0 /\ TypeOK /\ Expanding
  BY DEF Citations, WalkInv, Expanding
<1>2. CASE "references" \in asked.direction
  <2>1. pc' = "cited" /\ found' = triples /\ graph' = graph /\ truncated' = truncated
    BY <1>2 DEF Citations
  <2>2. TypeOK'
    <3>1. ClampedDepth' = ClampedDepth /\ cites' = cites /\ asked' = asked
      BY <1>1, SameReach DEF given
    <3>2. nodes' = nodes /\ edges' = edges /\ queue' = queue
      BY <2>1 DEF graph
    <3>3. offset' \in 0..Len(Newest)
      BY <1>1, GraphsAre
    <3> QED BY <1>1, <2>1, <3>1, <3>2, <3>3 DEF TypeOK
  <2> QED BY <1>1, <1>2, <2>1, <2>2, GraphStays DEF Expanding
<1>3. CASE "references" \notin asked.direction
  <2>1. Join(triples)
    BY <1>3 DEF Citations
  <2> QED BY <1>1, <2>1, JoinSound
<1> QED BY <1>2, <1>3

\* The page of citations that comes next.
NextPage == Page(Citing(at[1]), offset, Batch)

LEMMA NextPageIs ==
    ASSUME WalkInv, pc = "citing", Wanting
    PROVE  /\ Batch \in Nat \ {0} /\ offset \in Nat /\ offset + Batch <= ScanCap
           /\ ~asked.deep => offset = 0 /\ Batch = ScanCap
           /\ IsPage(NextPage, CitersOf(at[1]), Citing(at[1]), offset, Batch)
           /\ \A k \in 1..Len(NextPage) :
                 NextPage[k] \in asked.liked => NextPage[k] \in ToSet(ReadCiting(at[1]))
<1>1. TypeOK /\ offset \in Nat /\ offset < ScanCap /\ (~asked.deep => offset = 0)
  BY GraphsAre DEF WalkInv, TypeOK, Wanting
<1>2. Citing(at[1]) \in Seq(CitersOf(at[1])) /\ Len(Citing(at[1])) \in Nat
  BY CitingIs
<1>3. /\ FetchLimit \in Nat \ {0} /\ PageSize \in Nat \ {0} /\ asked.deep \in BOOLEAN
      /\ ScanCap \in Nat /\ (~asked.deep => ScanCap = FetchLimit)
  BY <1>1, WalkAssumption, GraphsAre, CapIs
<1>4. Batch \in Nat \ {0} /\ offset + Batch <= ScanCap /\ (~asked.deep => Batch = ScanCap)
  <2> DEFINE size == IF asked.deep THEN PageSize ELSE FetchLimit
             left == ScanCap - offset
  <2>1. /\ size \in Nat \ {0} /\ left \in Nat \ {0} /\ offset + left = ScanCap
        /\ ~asked.deep => size = ScanCap /\ left = ScanCap
    BY <1>1, <1>3
  <2>2. Batch = Min({size, left})
    BY DEF Batch
  <2> HIDE DEF size, left
  <2>3. Batch = IF size <= left THEN size ELSE left
    BY <2>1, <2>2, MinOfTwo
  <2> QED BY <1>1, <1>3, <2>1, <2>3
<1>5. IsPage(NextPage, CitersOf(at[1]), Citing(at[1]), offset, Batch)
  BY <1>1, <1>2, <1>4, PageOf DEF NextPage
<1>6. ASSUME NEW k \in 1..Len(NextPage), NextPage[k] \in asked.liked
      PROVE  NextPage[k] \in ToSet(ReadCiting(at[1]))
  <2>1. NextPage[k] = Citing(at[1])[offset + k]
    BY <1>5 DEF IsPage
  <2>2. offset + k \in 1..Len(Citing(at[1])) /\ offset + k <= ScanCap
    <3>1. /\ Len(NextPage) = IF Len(Citing(at[1])) <= offset THEN 0
                             ELSE IF Len(Citing(at[1])) - offset <= Batch
                             THEN Len(Citing(at[1])) - offset ELSE Batch
          /\ k \in 1..Len(NextPage)
      BY <1>5 DEF IsPage
    <3> QED BY <1>1, <1>2, <1>3, <1>4, <3>1
  <2> QED BY <1>1, <1>6, <2>1, <2>2, ReadCitingIs
<1> QED BY <1>1, <1>4, <1>5, <1>6

LEMMA CitingPageSound == WalkInv /\ CitingPage => WalkInv'
<1> SUFFICES ASSUME WalkInv, CitingPage PROVE WalkInv'
  OBVIOUS
<1> DEFINE triples == found \o FoundCiting(NextPage)
<1>1. pc = "citing" /\ Wanting /\ TypeOK /\ "citations" \in asked.direction /\ partial' = partial
  BY DEF CitingPage, WalkInv
<1>2. /\ NextPage \in Seq(CitersOf(at[1])) /\ Len(NextPage) \in Nat
      /\ Len(NextPage) = IF Len(Citing(at[1])) <= offset THEN 0
                         ELSE IF Len(Citing(at[1])) - offset <= Batch THEN Len(Citing(at[1])) - offset ELSE Batch
      /\ Len(Citing(at[1])) \in Nat /\ Len(Citing(at[1])) <= Len(Newest) /\ offset \in Nat
  BY <1>1, NextPageIs, CitingIs DEF IsPage
<1>3. triples \in Seq(Papers \X Edges) /\ ToSet(triples) \subseteq Triples(at[1])
  <2>1. found \in Seq(Papers \X Edges) /\ ToSet(found) \subseteq Triples(at[1])
    BY DEF WalkInv, TypeOK
  <2>2. FoundCiting(NextPage) \in Seq(Papers \X Edges) /\ ToSet(FoundCiting(NextPage)) \subseteq Triples(at[1])
    BY <1>1, <1>2, NextPageIs, FoundCitingIs
  <2> QED BY <2>1, <2>2, Joining
<1> HIDE DEF triples
<1>4. CASE Len(NextPage) < Batch \/ ~asked.deep
  <2>1. Citations(triples)
    BY <1>4 DEF CitingPage, NextPage, triples
  <2>2. partial' \in BOOLEAN
    BY <1>1 DEF TypeOK
  <2> QED BY <1>1, <1>3, <2>1, <2>2, CitationsSound
<1>5. CASE ~(Len(NextPage) < Batch \/ ~asked.deep)
  <2>1. /\ found' = triples /\ offset' = offset + Len(NextPage)
        /\ given' = given /\ pc' = pc /\ graph' = graph /\ at' = at /\ truncated' = truncated
    BY <1>5 DEF CitingPage, NextPage, triples
  <2>2. offset' \in 0..Len(Newest)
    <3>1. offset <= Len(Newest) /\ Len(Newest) \in Nat
      BY <1>1, GraphsAre DEF TypeOK
    <3> QED BY <1>2, <2>1, <3>1
  <2>3. TypeOK'
    <3>1. ClampedDepth' = ClampedDepth /\ cites' = cites /\ asked' = asked
      BY <2>1, SameReach DEF given
    <3>2. nodes' = nodes /\ edges' = edges /\ queue' = queue
      BY <2>1 DEF graph
    <3> QED BY <1>1, <1>3, <2>1, <2>2, <3>1, <3>2 DEF TypeOK
  <2> QED BY <1>1, <1>3, <1>5, <2>1, <2>3, GraphStays DEF Expanding
<1> QED BY <1>4, <1>5

LEMMA CitedPageSound == WalkInv /\ CitedPage => WalkInv'
<1> SUFFICES ASSUME WalkInv, CitedPage PROVE WalkInv'
  OBVIOUS
<1> DEFINE more == FoundCited(References(at[1]))
           triples == found \o more
<1>1. /\ pc = "cited" /\ TypeOK /\ "references" \in asked.direction /\ Expanding
      /\ partial' = partial /\ offset' = 0 /\ given' = given /\ at' = at
  BY DEF CitedPage, WalkInv, Expanding
<1>5. more \in Seq(Papers \X Edges) /\ ToSet(more) \subseteq Triples(at[1])
  BY <1>1, FoundCitedIs
<1>6. triples \in Seq(Papers \X Edges) /\ ToSet(triples) \subseteq Triples(at[1])
  <2>1. found \in Seq(Papers \X Edges) /\ ToSet(found) \subseteq Triples(at[1])
    BY DEF WalkInv, TypeOK
  <2> HIDE DEF more
  <2> QED BY <1>5, <2>1, Joining
<1>7. Join(triples) /\ partial' \in BOOLEAN
  BY <1>1 DEF CitedPage, TypeOK
<1> QED BY <1>1, <1>6, <1>7, JoinSound

\* A request fails, or is not made: what is there already joins.
LEMMA EnoughSound == WalkInv /\ (CitingEnough \/ CitingFails \/ CitedFails) => WalkInv'
<1> SUFFICES ASSUME WalkInv, CitingEnough \/ CitingFails \/ CitedFails PROVE WalkInv'
  OBVIOUS
<1>1. TypeOK /\ found \in Seq(Papers \X Edges) /\ ToSet(found) \subseteq Triples(at[1]) /\ partial \in BOOLEAN
  BY DEF WalkInv, TypeOK
<1>2. CASE CitingEnough \/ CitingFails
  <2>1. pc = "citing" /\ Citations(found) /\ partial' \in BOOLEAN
    BY <1>1, <1>2 DEF CitingEnough, CitingFails
  <2> QED BY <1>1, <2>1, CitationsSound
<1>3. CASE CitedFails
  <2>1. /\ Expanding /\ Join(found) /\ partial' \in BOOLEAN
        /\ offset' = 0 /\ given' = given /\ at' = at
    BY <1>3 DEF CitedFails, WalkInv, Expanding
  <2> QED BY <1>1, <2>1, JoinSound
<1> QED BY <1>2, <1>3

LEMMA WalkStep == WalkInv /\ [Next]_vars => WalkInv'
<1> SUFFICES ASSUME WalkInv, [Next]_vars PROVE WalkInv'
  OBVIOUS
<1>0. TypeOK /\ ToSet(found) \subseteq Triples(at[1])
  BY DEF WalkInv
<1>1. ASSUME NEW failed \in BOOLEAN, ResolveSeeds(failed) PROVE WalkInv'
  <2>1. /\ pc = "seeds" /\ pc' = "pop" /\ partial' = failed
        /\ given' = given /\ graph' = graph /\ at' = at /\ found' = found
        /\ offset' = offset /\ truncated' = truncated /\ found = <<>> /\ offset = 0
    BY <1>1 DEF ResolveSeeds, WalkInv, Expanding
  <2>2. TypeOK'
    <3>1. ClampedDepth' = ClampedDepth /\ cites' = cites /\ asked' = asked
      BY <2>1, SameReach DEF given
    <3>2. nodes' = nodes /\ edges' = edges /\ queue' = queue
      BY <2>1 DEF graph
    <3> QED BY <1>0, <2>1, <3>1, <3>2 DEF TypeOK
  <2> QED BY <1>0, <2>1, <2>2, GraphStays DEF Expanding
<1>2. CASE Finish
  <2>1. /\ pc = "pop" /\ pc' = "done" /\ partial' = partial
        /\ given' = given /\ graph' = graph /\ at' = at /\ found' = found
        /\ offset' = offset /\ truncated' = truncated /\ found = <<>> /\ offset = 0
    BY <1>2 DEF Finish, WalkInv, Expanding
  <2>2. TypeOK'
    <3>1. ClampedDepth' = ClampedDepth /\ cites' = cites /\ asked' = asked
      BY <2>1, SameReach DEF given
    <3>2. nodes' = nodes /\ edges' = edges /\ queue' = queue
      BY <2>1 DEF graph
    <3> QED BY <1>0, <2>1, <3>1, <3>2 DEF TypeOK
  <2> QED BY <1>0, <2>1, <2>2, GraphStays DEF Expanding
<1>3. CASE UNCHANGED vars
  <2>1. /\ pc' = pc /\ partial' = partial
        /\ given' = given /\ graph' = graph /\ at' = at /\ found' = found
        /\ offset' = offset /\ truncated' = truncated
    BY <1>3 DEF vars
  <2>2. TypeOK'
    <3>1. ClampedDepth' = ClampedDepth /\ cites' = cites /\ asked' = asked
      BY <2>1, SameReach DEF given
    <3>2. nodes' = nodes /\ edges' = edges /\ queue' = queue
      BY <2>1 DEF graph
    <3> QED BY <1>0, <2>1, <3>1, <3>2 DEF TypeOK
  <2> QED BY <1>0, <2>1, <2>2, GraphStays DEF Expanding, WalkInv
<1> QED BY <1>1, <1>2, <1>3, PopSound, CitingPageSound, CitedPageSound, EnoughSound DEF Next

\* Whatever fails, wherever the budget cuts and however long the lists are, a
\* node lies within depth hops of a seed, an edge of the graph is a citation of
\* the literature, and max_nodes is kept: for every literature and every request.
THEOREM GraphsAreSound == Spec => []GraphIsSound
<1>1. Init => WalkInv
  BY WalkBegins
<1>2. WalkInv /\ [Next]_vars => WalkInv'
  BY WalkStep
<1>3. WalkInv => GraphIsSound
  BY DEF WalkInv, GraphIsSound
<1> QED BY <1>1, <1>2, <1>3, PTL DEF Spec

-----------------------------------------------------------------------------
(* The walk: an answer without a mark is complete.                             *)

\* What expanding p shows is there.
Expanded(p) ==
    /\ EdgesOf(p) \subseteq edges
    /\ \A e \in EdgesOf(p) : e[1] \in ToSet(nodes) /\ e[2] \in ToSet(nodes)

Waits(p, k) == \E i \in DOMAIN queue : queue[i] = <<p, k>>

\* The walk is k hops from the seeds: what is nearer is expanded, what is as
\* near waits or is expanded, and what is found beyond waits behind it.
AtHop(k) ==
    /\ \A i \in DOMAIN queue : queue[i][2] \in {k, k + 1}
    /\ \A i, j \in DOMAIN queue : i < j => queue[i][2] <= queue[j][2]
    /\ Within(k) \subseteq ToSet(nodes) /\ ToSet(nodes) \subseteq Within(k + 1)
    /\ \A p \in Within(k) :
          k = ClampedDepth \/ Waits(p, k) \/ (Expanding /\ at = <<p, k>>) \/ Expanded(p)
    /\ \A p \in ToSet(nodes) \ Within(k) : Waits(p, k + 1)
    /\ k > 0 => \A p \in Within(k - 1) : Expanded(p)
    /\ Expanding => at[2] = k

\* The liked ones of the first n papers of the list of citations have been found.
Read(n) ==
    \A j \in 1..Len(Citing(at[1])) : j <= n /\ Citing(at[1])[j] \in asked.liked =>
        <<Citing(at[1])[j], <<Citing(at[1])[j], at[1]>>>> \in ToSet(found)

\* Nothing else has been found, and nothing twice.
Counted ==
    /\ Len(found) = Cardinality(LikedAt(Citing(at[1]), asked.liked, 0, offset))
    /\ offset <= Len(Citing(at[1]))

CompleteInv ==
    ~partial =>
        /\ pc # "done" => \E k \in 0..ClampedDepth : AtHop(k)
        /\ pc = "citing" => Read(offset) /\ Counted
        /\ pc = "cited" /\ "citations" \in asked.direction => Read(ScanCap)
        /\ pc = "done" =>
              \E k \in 0..ClampedDepth :
                 Within(k) \subseteq ToSet(nodes) /\ ToSet(nodes) \subseteq Within(k + 1)
        /\ pc = "done" /\ ~truncated =>
              /\ Within(ClampedDepth) \subseteq ToSet(nodes)
              /\ \A p \in Within(ClampedDepth - 1) : Expanded(p)

LEMMA SameCiters ==
    ASSUME given' = given, at' = at
    PROVE  Citing(at[1])' = Citing(at[1]) /\ asked' = asked /\ ScanCap' = ScanCap
BY DEF given, Citing, ScanCap

\* The walk's own step: nothing changes but the place.
LEMMA HopStays ==
    ASSUME NEW k \in Nat, AtHop(k), given' = given, graph' = graph, at' = at, Expanding' = Expanding
    PROVE  AtHop(k)'
<1>1. /\ \A m : Within(m)' = Within(m)
      /\ \A p : EdgesOf(p)' = EdgesOf(p)
      /\ ClampedDepth' = ClampedDepth
  BY SameReach
<1>2. nodes' = nodes /\ edges' = edges /\ queue' = queue
  BY DEF graph
<1>3. \A p : Expanded(p)' <=> Expanded(p)
  BY <1>1, <1>2 DEF Expanded
<1>4. \A p, m : Waits(p, m)' <=> Waits(p, m)
  BY <1>2 DEF Waits
<1> QED BY <1>1, <1>2, <1>3, <1>4 DEF AtHop

\* An edge of what is expanded, and the triple that brings it.
Brings(T) ==
    \A e \in EdgesOf(at[1]) :
        \E t \in T : t[2] = e /\ e[1] \in {t[1], at[1]} /\ e[2] \in {t[1], at[1]}

LEMMA JoinWhole ==
    ASSUME WalkInv, Expanding, NEW k \in 0..ClampedDepth, AtHop(k),
           NEW triples \in Seq(Papers \X Edges), ToSet(triples) \subseteq Triples(at[1]),
           Brings(ToSet(triples)), Join(triples), given' = given, at' = at
    PROVE  CompleteInv'
<1> DEFINE g == Joined(triples)
           T == ToSet(triples)
<1>1. TypeOK
  BY DEF WalkInv
<1>2. g \in Growing /\ Grown(g, T)
  BY <1>1, JoinedIs
<1>3. /\ nodes' = g.nodes /\ edges' = g.edges /\ queue' = g.queue /\ truncated' = g.full
      /\ pc' = IF g.full THEN "done" ELSE "pop"
  BY DEF Join
<1>4. /\ T \subseteq Triples(at[1])
      /\ \A e \in EdgesOf(at[1]) : \E t \in T : t[2] = e /\ e[1] \in {t[1], at[1]} /\ e[2] \in {t[1], at[1]}
  BY DEF Brings
<1> HIDE DEF g, T
<1>5. /\ k \in Nat /\ at[2] = k /\ k < ClampedDepth /\ ClampedDepth \in Nat \ {0} /\ at[1] \in Within(k)
      /\ at = <<at[1], k>>
  BY <1>1, GraphsAre DEF WalkInv, AtHop
<1>6. \A t \in T : t[1] \in Within(k + 1)
  <2>1. Within(k + 1) = Spread(Within(k))
    BY <1>5, WithinIs
  <2>2. \A e \in EdgesOf(at[1]) : e[1] \in Within(k + 1) /\ e[2] \in Within(k + 1)
    BY <1>5, <2>1, SpreadIs
  <2> QED BY <1>4, <2>2 DEF Triples
<1>7. /\ \A m : Within(m)' = Within(m)
      /\ \A p : EdgesOf(p)' = EdgesOf(p)
      /\ ClampedDepth' = ClampedDepth
  BY SameReach
<1>8. Within(k) \subseteq ToSet(g.nodes) /\ ToSet(g.nodes) \subseteq Within(k + 1)
  <2>1. Within(k) \subseteq ToSet(g.nodes)
    BY <1>2 DEF Grown, AtHop
  <2>2. ASSUME NEW p \in ToSet(g.nodes) PROVE p \in Within(k + 1)
    <3>1. CASE p \in ToSet(nodes)
      BY <3>1 DEF AtHop
    <3>2. CASE p \notin ToSet(nodes)
      <4>1. \E t \in T : t[1] = p
        BY <1>2, <3>2 DEF Grown
      <4> QED BY <1>6, <4>1
    <3> QED BY <3>1, <3>2
  <2> QED BY <2>1, <2>2
<1>9. (Within(k) \subseteq ToSet(nodes) /\ ToSet(nodes) \subseteq Within(k + 1))'
  BY <1>3, <1>7, <1>8
<1>10. CASE g.full
  <2>1. pc' = "done" /\ truncated' = TRUE
    BY <1>3, <1>10
  <2> QED BY <1>7, <1>9, <2>1 DEF CompleteInv
<1>11. CASE ~g.full
  <2>1. pc' = "pop" /\ ~Expanding'
    BY <1>3, <1>11 DEF Expanding
  <2>2. /\ g.queue \in Seq(Papers \X Nat) /\ Len(g.queue) \in Nat /\ Len(queue) \in Nat
        /\ DOMAIN g.queue = 1..Len(g.queue) /\ DOMAIN queue = 1..Len(queue)
        /\ Len(queue) <= Len(g.queue)
    BY <1>1, <1>2, GraphsAre DEF Growing, Grown
  <2>3. \A i \in 1..Len(queue) : g.queue[i] = queue[i] /\ queue[i][2] \in {k, k + 1}
    BY <1>2, <2>2 DEF Grown, AtHop
  <2>4. \A i \in 1..Len(g.queue) : i \notin 1..Len(queue) => g.queue[i][2] = k + 1
    <3>1. \A i \in 1..Len(g.queue) : i \notin 1..Len(queue) => i \in (Len(queue) + 1)..Len(g.queue)
      BY <2>2
    <3> QED BY <1>2, <1>5, <3>1 DEF Grown
  <2>5. \A i \in 1..Len(g.queue) : g.queue[i][2] \in {k, k + 1}
    BY <2>3, <2>4
  <2>6. ASSUME NEW i \in 1..Len(g.queue), NEW j \in 1..Len(g.queue), i < j
        PROVE  g.queue[i][2] <= g.queue[j][2]
    <3>1. CASE j \in 1..Len(queue)
      <4>1. i \in 1..Len(queue)
        BY <2>2, <2>6, <3>1
      <4>2. queue[i][2] <= queue[j][2]
        BY <2>2, <2>6, <3>1, <4>1 DEF AtHop
      <4> QED BY <2>3, <3>1, <4>1, <4>2
    <3>2. CASE j \notin 1..Len(queue)
      <4>1. g.queue[j][2] = k + 1 /\ g.queue[i][2] \in {k, k + 1}
        BY <2>4, <2>5, <3>2
      <4> QED BY <1>5, <4>1
    <3> QED BY <3>1, <3>2
  <2>7. \A p, m : Waits(p, m) => Waits(p, m)'
    <3> SUFFICES ASSUME NEW p, NEW m, NEW i \in DOMAIN queue, queue[i] = <<p, m>> PROVE Waits(p, m)'
      BY DEF Waits
    <3>1. i \in DOMAIN queue' /\ queue'[i] = <<p, m>>
      BY <1>3, <2>2, <2>3
    <3> QED BY <3>1 DEF Waits
  <2>8. \A p : Expanded(p) => Expanded(p)'
    BY <1>2, <1>3, <1>7 DEF Expanded, Grown
  <2>9. Expanded(at[1])'
    <3>1. at[1] \in ToSet(g.nodes)
      BY <1>5, <1>8
    <3>2. \A t \in T : t[1] \in ToSet(g.nodes) /\ t[2] \in g.edges
      BY <1>2, <1>11 DEF Grown
    <3>3. \A e \in EdgesOf(at[1]) : e \in g.edges /\ e[1] \in ToSet(g.nodes) /\ e[2] \in ToSet(g.nodes)
      BY <1>4, <3>1, <3>2
    <3> QED BY <1>3, <1>7, <3>3 DEF Expanded
  <2>10. ASSUME NEW p \in Within(k) PROVE k = ClampedDepth \/ Waits(p, k)' \/ Expanded(p)'
    <3>1. Waits(p, k) \/ p = at[1] \/ Expanded(p)
      BY <1>5 DEF AtHop
    <3> QED BY <2>7, <2>8, <2>9, <3>1
  <2>11. ASSUME NEW p \in ToSet(g.nodes) \ Within(k) PROVE Waits(p, k + 1)'
    <3>1. CASE p \in ToSet(nodes)
      BY <2>7, <3>1 DEF AtHop
    <3>2. CASE p \notin ToSet(nodes)
      <4>1. \E i \in 1..Len(g.queue) : g.queue[i] = <<p, k + 1>>
        BY <1>2, <1>5, <3>2 DEF Grown
      <4> QED BY <1>3, <2>2, <4>1 DEF Waits
    <3> QED BY <3>1, <3>2
  <2>12. k > 0 => \A p \in Within(k - 1) : Expanded(p)'
    BY <2>8 DEF AtHop
  <2>13. /\ \A i \in DOMAIN queue' : queue'[i][2] \in {k, k + 1}
         /\ \A i, j \in DOMAIN queue' : i < j => queue'[i][2] <= queue'[j][2]
    BY <1>3, <2>2, <2>5, <2>6
  <2>14. AtHop(k)'
    BY <1>3, <1>7, <1>9, <2>1, <2>10, <2>11, <2>12, <2>13 DEF AtHop
  <2> QED BY <1>7, <2>1, <2>14 DEF CompleteInv
<1> QED BY <1>10, <1>11

\* All that waits is a hop further on: so is the walk.
LEMMA HopOn ==
    ASSUME WalkInv, pc = "pop", NEW k \in 0..ClampedDepth, AtHop(k), queue # <<>>, queue[1][2] = k + 1
    PROVE  k + 1 \in 0..ClampedDepth /\ AtHop(k + 1)
<1>1. /\ TypeOK /\ ClampedDepth \in Nat /\ queue \in Seq(Papers \X (0..ClampedDepth)) /\ k \in Nat
      /\ ~Expanding
  BY GraphsAre DEF WalkInv, TypeOK, Expanding
<1>2. /\ DOMAIN queue = 1..Len(queue) /\ Len(queue) \in Nat /\ Len(queue) >= 1
      /\ queue[1] \in Papers \X (0..ClampedDepth)
  BY <1>1, Behind
<1>3. k + 1 \in 0..ClampedDepth /\ k < ClampedDepth
  BY <1>1, <1>2
<1>4. \A i \in DOMAIN queue : queue[i][2] = k + 1
  <2> SUFFICES ASSUME NEW i \in DOMAIN queue PROVE queue[i][2] = k + 1
    OBVIOUS
  <2>1. i = 1 \/ (1 \in DOMAIN queue /\ 1 < i)
    BY <1>2
  <2>2. queue[i][2] \in {k, k + 1} /\ (1 \in DOMAIN queue /\ 1 < i => queue[1][2] <= queue[i][2])
    BY DEF AtHop
  <2> QED BY <1>1, <2>1, <2>2
<1>5. \A p \in Within(k) : Expanded(p)
  <2>1. \A p : ~Waits(p, k)
    BY <1>1, <1>4 DEF Waits
  <2> QED BY <1>1, <1>3, <2>1 DEF AtHop
<1>6. Within(k + 1) = Spread(Within(k)) /\ Within((k + 1) + 1) = Spread(Within(k + 1))
  BY <1>1, WithinIs
<1>7. Within(k + 1) \subseteq ToSet(nodes)
  BY <1>5, <1>6, SpreadIs DEF Expanded, AtHop
<1>8. ToSet(nodes) \subseteq Within((k + 1) + 1) /\ ToSet(nodes) \subseteq Within(k + 1)
  BY <1>6, SpreadIs DEF AtHop
<1>9. \A p \in Within(k + 1) : Waits(p, k + 1) \/ Expanded(p)
  BY <1>5, <1>7 DEF AtHop
<1>10. \A p \in Within((k + 1) - 1) : Expanded(p)
  BY <1>1, <1>5
<1>11. AtHop(k + 1)
  <2>1. /\ \A i \in DOMAIN queue : queue[i][2] \in {k + 1, (k + 1) + 1}
        /\ \A i, j \in DOMAIN queue : i < j => queue[i][2] <= queue[j][2]
    BY <1>1, <1>4
  <2> QED BY <1>1, <1>7, <1>8, <1>9, <1>10, <2>1 DEF AtHop
<1> QED BY <1>3, <1>11

LEMMA PopGoesOn == WalkInv /\ CompleteInv /\ Pop => CompleteInv'
<1> SUFFICES ASSUME WalkInv, CompleteInv, Pop, ~partial' PROVE CompleteInv'
  BY DEF CompleteInv
<1>1. /\ TypeOK /\ pc = "pop" /\ queue # <<>> /\ ~partial /\ ~Expanding /\ offset' = 0
      /\ queue' = Tail(queue) /\ given' = given /\ nodes' = nodes /\ edges' = edges
  BY DEF WalkInv, Pop, Expanding
<1>2. /\ \A m : Within(m)' = Within(m)
      /\ \A p : EdgesOf(p)' = EdgesOf(p)
      /\ ClampedDepth' = ClampedDepth /\ asked' = asked
  BY <1>1, SameReach DEF given
<1>3. ClampedDepth \in Nat /\ queue \in Seq(Papers \X (0..ClampedDepth))
  BY <1>1, GraphsAre DEF TypeOK
<1>4. /\ Head(queue) = queue[1] /\ queue[1] \in Papers \X (0..ClampedDepth)
      /\ Len(queue) \in Nat /\ Len(queue) >= 1
      /\ DOMAIN queue = 1..Len(queue) /\ DOMAIN Tail(queue) = 1..(Len(queue) - 1)
      /\ \A i \in 1..(Len(queue) - 1) : Tail(queue)[i] = queue[i + 1]
  BY <1>1, <1>3, Behind
<1>5. PICK k \in 0..ClampedDepth : AtHop(k) /\ queue[1][2] = k
  <2>1. PICK m \in 0..ClampedDepth : AtHop(m)
    BY <1>1 DEF CompleteInv
  <2>2. queue[1][2] \in {m, m + 1}
    BY <1>4, <2>1 DEF AtHop
  <2>3. CASE queue[1][2] = m
    BY <2>1, <2>3
  <2>4. CASE queue[1][2] = m + 1
    BY <1>1, <2>1, <2>4, HopOn
  <2> QED BY <2>2, <2>3, <2>4
<1>6. k \in Nat /\ queue[1] = <<queue[1][1], k>>
  BY <1>3, <1>4, <1>5
<1>7. \A i \in DOMAIN queue' : i + 1 \in DOMAIN queue /\ queue'[i] = queue[i + 1]
  BY <1>1, <1>4
<1>8. \A i \in DOMAIN queue : i # 1 => i - 1 \in DOMAIN queue' /\ queue'[i - 1] = queue[i]
  <2> SUFFICES ASSUME NEW i \in DOMAIN queue, i # 1 PROVE i - 1 \in DOMAIN queue' /\ queue'[i - 1] = queue[i]
    OBVIOUS
  <2>1. i - 1 \in 1..(Len(queue) - 1) /\ (i - 1) + 1 = i
    BY <1>4
  <2> QED BY <1>1, <1>4, <2>1
<1>9. /\ \A i \in DOMAIN queue' : queue'[i][2] \in {k, k + 1}
      /\ \A i, j \in DOMAIN queue' : i < j => queue'[i][2] <= queue'[j][2]
  <2>1. \A i \in DOMAIN queue' : queue'[i][2] \in {k, k + 1}
    BY <1>5, <1>7 DEF AtHop
  <2>2. ASSUME NEW i \in DOMAIN queue', NEW j \in DOMAIN queue', i < j PROVE queue'[i][2] <= queue'[j][2]
    <3>1. i + 1 \in DOMAIN queue /\ j + 1 \in DOMAIN queue /\ i + 1 < j + 1
      BY <1>1, <1>4, <1>7, <2>2
    <3>2. queue[i + 1][2] <= queue[j + 1][2]
      BY <1>5, <3>1 DEF AtHop
    <3> QED BY <1>7, <3>2
  <2> QED BY <2>1, <2>2
<1>10. /\ Within(k) \subseteq ToSet(nodes) /\ ToSet(nodes) \subseteq Within(k + 1)
       /\ k > 0 => \A p \in Within(k - 1) : Expanded(p)
  BY <1>5 DEF AtHop
<1>11. \A p : Expanded(p)' <=> Expanded(p)
  BY <1>1, <1>2 DEF Expanded
\* Only the head stops waiting.
<1>12. \A p, m : Waits(p, m) => Waits(p, m)' \/ queue[1] = <<p, m>>
  <2> SUFFICES ASSUME NEW p, NEW m, NEW i \in DOMAIN queue, queue[i] = <<p, m>>, i # 1 PROVE Waits(p, m)'
    BY DEF Waits
  <2>1. i - 1 \in DOMAIN queue' /\ queue'[i - 1] = <<p, m>>
    BY <1>8
  <2> QED BY <2>1 DEF Waits
<1>13. \A p \in ToSet(nodes) \ Within(k) : Waits(p, k + 1)'
  <2> SUFFICES ASSUME NEW p \in ToSet(nodes) \ Within(k) PROVE Waits(p, k + 1)'
    OBVIOUS
  <2>1. Waits(p, k + 1)
    BY <1>5 DEF AtHop
  <2>2. queue[1] # <<p, k + 1>>
    BY <1>5, <1>6
  <2> QED BY <1>12, <2>1, <2>2
<1>14. CASE k >= ClampedDepth
  <2>1. pc' = pc /\ k = ClampedDepth
    BY <1>3, <1>4, <1>5, <1>14 DEF Pop
  <2>2. ~Expanding'
    BY <1>1, <2>1 DEF Expanding
  <2>3. AtHop(k)'
    BY <1>1, <1>2, <1>9, <1>10, <1>11, <1>13, <2>1, <2>2 DEF AtHop
  <2> QED BY <1>1, <1>2, <2>1, <2>3 DEF CompleteInv
<1>15. CASE ~(k >= ClampedDepth)
  <2>1. at' = queue[1] /\ pc' = IF "citations" \in asked.direction THEN "citing" ELSE "cited"
    BY <1>4, <1>5, <1>15 DEF Pop
  <2>2. Expanding' /\ pc' # "done"
    BY <2>1 DEF Expanding
  <2>3. \A p \in Within(k) : Waits(p, k)' \/ at' = <<p, k>> \/ Expanded(p)
    <3>1. \A p \in Within(k) : Waits(p, k) \/ Expanded(p)
      BY <1>1, <1>5, <1>15 DEF AtHop
    <3> QED BY <1>12, <2>1, <3>1
  <2>4. at'[2] = k
    BY <1>5, <2>1
  <2>5. AtHop(k)'
    BY <1>1, <1>2, <1>9, <1>10, <1>11, <1>13, <2>2, <2>3, <2>4 DEF AtHop
  <2>6. Read(offset)'
    <3>1. \A j \in 1..Len(Citing(at[1])') : ~(j <= 0)
      OBVIOUS
    <3> QED BY <1>1, <3>1 DEF Read
  <2>7. pc' = "cited" => "citations" \notin asked'.direction
    BY <1>2, <2>1
  <2>8. Counted'
    <3>1. found' = <<>> /\ TypeOK'
      BY <1>1, PopSound DEF WalkInv, Pop, Expanding
    <3>2. LikedAt(Citing(at[1])', asked'.liked, 0, 0) = {}
      BY DEF LikedAt
    <3>3. Len(Citing(at[1]))' \in Nat
      <4>1. Citing(at[1])' = Citing(at'[1])
        BY <1>1 DEF given, Citing
      <4> QED BY <4>1, CitingIs
    <3>4. Len(found') = 0 /\ Cardinality({}) = 0 /\ 0 <= Len(Citing(at[1]))'
      BY <3>1, <3>3, FS_EmptySet
    <3> QED BY <1>1, <3>2, <3>4 DEF Counted
  <2> QED BY <1>2, <2>2, <2>5, <2>6, <2>7, <2>8 DEF CompleteInv
<1> QED BY <1>14, <1>15

\* With nothing waiting, everything within reach has been found.
LEMMA FinishComplete == WalkInv /\ CompleteInv /\ Finish => CompleteInv'
<1> SUFFICES ASSUME WalkInv, CompleteInv, Finish, ~partial' PROVE CompleteInv'
  BY DEF CompleteInv
<1>1. /\ TypeOK /\ pc = "pop" /\ queue = <<>> /\ ~partial /\ ~Expanding /\ pc' = "done"
      /\ given' = given /\ nodes' = nodes /\ edges' = edges
  BY DEF WalkInv, Finish, Expanding, graph
<1>2. /\ \A m : Within(m)' = Within(m)
      /\ \A p : EdgesOf(p)' = EdgesOf(p)
      /\ ClampedDepth' = ClampedDepth
  BY <1>1, SameReach
<1>3. ClampedDepth \in Nat \ {0}
  BY <1>1, GraphsAre
<1>4. PICK k \in 0..ClampedDepth : AtHop(k)
  BY <1>1 DEF CompleteInv
<1>5. \A p, m : ~Waits(p, m)
  BY <1>1 DEF Waits
<1>6. \A p : Expanded(p)' <=> Expanded(p)
  BY <1>1, <1>2 DEF Expanded
<1>7. Within(ClampedDepth) \subseteq ToSet(nodes) /\ \A p \in Within(ClampedDepth - 1) : Expanded(p)
  <2>1. CASE k = ClampedDepth
    BY <1>3, <1>4, <2>1 DEF AtHop
  <2>2. CASE k # ClampedDepth
    <3>1. k \in Nat /\ k <= ClampedDepth - 1 /\ ClampedDepth - 1 \in Nat /\ k <= ClampedDepth
      BY <1>3, <2>2
    <3>2. \A p \in Within(k) : Expanded(p)
      BY <1>1, <1>4, <1>5, <2>2 DEF AtHop
    <3>3. ToSet(nodes) \subseteq Within(k) /\ Within(k) \subseteq ToSet(nodes)
      BY <1>4, <1>5 DEF AtHop
    <3>4. Within(k + 1) = Spread(Within(k))
      BY <3>1, WithinIs
    <3>5. Within(k + 1) = Within(k)
      <4>1. \A p \in Within(k) : \A e \in EdgesOf(p) : e[1] \in Within(k) /\ e[2] \in Within(k)
        BY <3>2, <3>3 DEF Expanded
      <4>2. \A q \in Spread(Within(k)) \ Within(k) : FALSE
        BY <4>1, SpreadIs
      <4>3. Within(k) \subseteq Spread(Within(k))
        BY SpreadIs
      <4> QED BY <3>4, <4>2, <4>3
    <3>6. Within(ClampedDepth) = Within(k) /\ Within(ClampedDepth - 1) = Within(k)
      BY <1>3, <3>1, <3>5, WithinStops
    <3> QED BY <3>2, <3>3, <3>6
  <2> QED BY <2>1, <2>2
<1>8. Within(k) \subseteq ToSet(nodes) /\ ToSet(nodes) \subseteq Within(k + 1)
  BY <1>4 DEF AtHop
<1> QED BY <1>1, <1>2, <1>6, <1>7, <1>8 DEF CompleteInv

\* The citations of a paper have been read to the end, or to the cap.
LEMMA CitationsWhole ==
    ASSUME WalkInv, CompleteInv, ~partial, pc = "citing", NEW triples \in Seq(Papers \X Edges),
           ToSet(triples) \subseteq Triples(at[1]), Citations(triples),
           \A j \in 1..Len(Citing(at[1])) : j <= ScanCap /\ Citing(at[1])[j] \in asked.liked =>
              <<Citing(at[1])[j], <<Citing(at[1])[j], at[1]>>>> \in ToSet(triples)
    PROVE  CompleteInv'
<1>1. given' = given /\ at' = at /\ Expanding /\ TypeOK
  BY DEF Citations, Expanding, WalkInv
<1>2. PICK k \in 0..ClampedDepth : AtHop(k)
  BY DEF CompleteInv
<1>3. ClampedDepth \in Nat /\ k \in Nat
  BY <1>1, GraphsAre
<1>4. CASE "references" \in asked.direction
  <2>1. pc' = "cited" /\ found' = triples /\ graph' = graph /\ Expanding'
    BY <1>4 DEF Citations, Expanding
  <2>2. AtHop(k)'
    BY <1>1, <1>2, <1>3, <2>1, HopStays
  <2>3. Read(ScanCap)'
    BY <1>1, <2>1, SameCiters DEF Read
  <2>4. ClampedDepth' = ClampedDepth
    BY <1>1, SameReach
  <2> QED BY <2>1, <2>2, <2>3, <2>4 DEF CompleteInv
<1>5. CASE "references" \notin asked.direction
  <2>1. Join(triples)
    BY <1>5 DEF Citations
  <2>2. Brings(ToSet(triples))
    <3> SUFFICES ASSUME NEW e \in EdgesOf(at[1])
                 PROVE  \E t \in ToSet(triples) :
                           t[2] = e /\ e[1] \in {t[1], at[1]} /\ e[2] \in {t[1], at[1]}
      BY DEF Brings
    <3>1. e[1] \in ToSet(ReadCiting(at[1])) /\ e[2] = at[1] /\ e = <<e[1], e[2]>>
      BY <1>5 DEF EdgesOf
    <3>2. /\ e[1] \in asked.liked
          /\ \E j \in 1..Len(Citing(at[1])) : j <= ScanCap /\ Citing(at[1])[j] = e[1]
      BY <1>1, <3>1, ReadCitingIs
    <3>4. <<e[1], <<e[1], at[1]>>>> \in ToSet(triples)
      BY <3>2
    <3> QED BY <3>1, <3>4
  <2> QED BY <1>1, <1>2, <2>1, <2>2, JoinWhole
<1> QED BY <1>4, <1>5

\* What a page adds to what has been read.
LEMMA PageRead ==
    ASSUME WalkInv, pc = "citing", Wanting, Read(offset)
    PROVE  LET triples == found \o FoundCiting(NextPage)
           IN /\ \A j \in 1..Len(Citing(at[1])) :
                    j <= offset + Len(NextPage) /\ Citing(at[1])[j] \in asked.liked =>
                       <<Citing(at[1])[j], <<Citing(at[1])[j], at[1]>>>> \in ToSet(triples)
              /\ Counted =>
                    /\ Len(triples) = Cardinality(LikedAt(Citing(at[1]), asked.liked, 0, offset + Len(NextPage)))
                    /\ offset + Len(NextPage) <= Len(Citing(at[1]))
<1> DEFINE triples == found \o FoundCiting(NextPage)
           cs == Citing(at[1])
<1>1. TypeOK /\ "citations" \in asked.direction
  BY DEF WalkInv
<1>2. /\ NextPage \in Seq(CitersOf(at[1])) /\ Len(NextPage) \in Nat /\ offset \in Nat /\ Len(cs) \in Nat
      /\ \A i \in 1..Len(NextPage) : NextPage[i] = cs[offset + i]
      /\ Len(NextPage) = IF Len(cs) <= offset THEN 0
                         ELSE IF Len(cs) - offset <= Batch THEN Len(cs) - offset ELSE Batch
      /\ Batch \in Nat /\ cs \in Seq(CitersOf(at[1]))
      /\ \A k \in 1..Len(NextPage) :
            NextPage[k] \in asked.liked => NextPage[k] \in ToSet(ReadCiting(at[1]))
  BY NextPageIs, CitingIs DEF IsPage
<1>3. ToSet(triples) = ToSet(found) \union ToSet(FoundCiting(NextPage))
  <2>1. found \in Seq(Papers \X Edges)
    BY <1>1 DEF TypeOK
  <2>2. FoundCiting(NextPage) \in Seq(Papers \X Edges)
    BY <1>1, <1>2, FoundCitingIs
  <2> QED BY <2>1, <2>2, Joining
<1>4. \A i \in 1..Len(NextPage) : NextPage[i] \in asked.liked =>
         <<NextPage[i], <<NextPage[i], at[1]>>>> \in ToSet(FoundCiting(NextPage))
  BY <1>1, <1>2, FoundCitingIs
<1>7. ASSUME Counted
      PROVE  /\ Len(triples) = Cardinality(LikedAt(cs, asked.liked, 0, offset + Len(NextPage)))
             /\ offset + Len(NextPage) <= Len(cs)
  <2>1. Len(Sifted(NextPage, asked.liked)) = Cardinality(LikedAt(cs, asked.liked, offset, offset + Len(NextPage)))
    <3> HIDE DEF cs
    <3>1. /\ NextPage \in Seq(CitersOf(at[1])) /\ cs \in Seq(CitersOf(at[1])) /\ offset \in Nat
          /\ \A i \in 1..Len(NextPage) : NextPage[i] = cs[offset + i]
      BY <1>2
    <3> QED BY <3>1, SiftedCounts
  <2>2. /\ FoundCiting(NextPage) \in Seq(Papers \X Edges)
        /\ Len(FoundCiting(NextPage)) = Len(Sifted(NextPage, asked.liked))
    BY <1>1, <1>2, FoundCitingIs
  <2>3. Len(triples) = Len(found) + Len(FoundCiting(NextPage))
    <3>1. found \in Seq(Papers \X Edges)
      BY <1>1 DEF TypeOK
    <3> QED BY <2>2, <3>1, ConcatProperties
  <2>4. Len(found) = Cardinality(LikedAt(cs, asked.liked, 0, offset)) /\ offset <= Len(cs)
    BY <1>7 DEF Counted
  <2> HIDE DEF triples, cs
  <2>5. Cardinality(LikedAt(cs, asked.liked, 0, offset + Len(NextPage)))
          = Cardinality(LikedAt(cs, asked.liked, 0, offset))
            + Cardinality(LikedAt(cs, asked.liked, offset, offset + Len(NextPage)))
    <3> DEFINE upto == offset + Len(NextPage)
    <3>1. offset \in Nat /\ upto \in Nat /\ offset <= upto
      BY <1>2
    <3> HIDE DEF upto
    <3>2. Cardinality(LikedAt(cs, asked.liked, 0, upto))
            = Cardinality(LikedAt(cs, asked.liked, 0, offset))
              + Cardinality(LikedAt(cs, asked.liked, offset, upto))
      BY <3>1, LikedAdds
    <3> QED BY <3>2 DEF upto
  <2> QED BY <1>2, <2>1, <2>2, <2>3, <2>4, <2>5
<1>5. \A j \in 1..Len(cs) : j <= offset /\ cs[j] \in asked.liked =>
         <<cs[j], <<cs[j], at[1]>>>> \in ToSet(found)
  BY DEF Read
<1> HIDE DEF triples, cs
<1>6. ASSUME NEW j \in 1..Len(cs), j <= offset + Len(NextPage), cs[j] \in asked.liked
      PROVE  <<cs[j], <<cs[j], at[1]>>>> \in ToSet(triples)
  <2>1. CASE j <= offset
    BY <1>3, <1>5, <1>6, <2>1
  <2>2. CASE ~(j <= offset)
    <3>1. j - offset \in 1..Len(NextPage) /\ offset + (j - offset) = j
      BY <1>2, <1>6, <2>2
    <3>2. NextPage[j - offset] = cs[j]
      BY <1>2, <3>1
    <3> QED BY <1>3, <1>4, <1>6, <3>1, <3>2
  <2> QED BY <2>1, <2>2
<1> QED BY <1>6, <1>7 DEF triples, cs

LEMMA CitingPageWhole == WalkInv /\ CompleteInv /\ CitingPage => CompleteInv'
<1> SUFFICES ASSUME WalkInv, CompleteInv, CitingPage, ~partial' PROVE CompleteInv'
  BY DEF CompleteInv
<1> DEFINE triples == found \o FoundCiting(NextPage)
           cs == Citing(at[1])
<1>1. /\ pc = "citing" /\ Wanting /\ TypeOK /\ "citations" \in asked.direction /\ ~partial
      /\ Read(offset) /\ Expanding /\ Counted
  BY DEF CitingPage, WalkInv, CompleteInv, Expanding
<1>2. /\ NextPage \in Seq(CitersOf(at[1])) /\ Len(NextPage) \in Nat
      /\ Len(NextPage) = IF Len(cs) <= offset THEN 0
                         ELSE IF Len(cs) - offset <= Batch THEN Len(cs) - offset ELSE Batch
      /\ Len(cs) \in Nat /\ offset \in Nat /\ Batch \in Nat \ {0} /\ ScanCap \in Nat
      /\ ~asked.deep => offset = 0 /\ Batch = ScanCap
  BY <1>1, NextPageIs, CitingIs, CapIs DEF IsPage
<1>3. triples \in Seq(Papers \X Edges) /\ ToSet(triples) \subseteq Triples(at[1])
  <2>1. found \in Seq(Papers \X Edges) /\ ToSet(found) \subseteq Triples(at[1])
    BY DEF WalkInv, TypeOK
  <2>2. FoundCiting(NextPage) \in Seq(Papers \X Edges) /\ ToSet(FoundCiting(NextPage)) \subseteq Triples(at[1])
    BY <1>1, <1>2, NextPageIs, FoundCitingIs
  <2> QED BY <2>1, <2>2, Joining
<1>4. \A j \in 1..Len(cs) : j <= offset + Len(NextPage) /\ cs[j] \in asked.liked =>
         <<cs[j], <<cs[j], at[1]>>>> \in ToSet(triples)
  BY <1>1, PageRead
<1>7. /\ Len(triples) = Cardinality(LikedAt(cs, asked.liked, 0, offset + Len(NextPage)))
      /\ offset + Len(NextPage) <= Len(cs)
  BY <1>1, PageRead
<1> HIDE DEF triples
<1>5. CASE Len(NextPage) < Batch \/ ~asked.deep
  <2>1. Citations(triples)
    BY <1>5 DEF CitingPage, NextPage, triples
  <2>2. \A j \in 1..Len(cs) : j <= ScanCap => j <= offset + Len(NextPage)
    <3> HIDE DEF cs
    <3>1. CASE Len(NextPage) < Batch
      BY <1>2, <3>1
    <3>2. CASE ~asked.deep
      BY <1>2, <3>2
    <3> QED BY <1>5, <3>1, <3>2
  <2>3. \A j \in 1..Len(cs) : j <= ScanCap /\ cs[j] \in asked.liked =>
           <<cs[j], <<cs[j], at[1]>>>> \in ToSet(triples)
    BY <1>4, <2>2
  <2> QED BY <1>1, <1>3, <2>1, <2>3, CitationsWhole
<1>6. CASE ~(Len(NextPage) < Batch \/ ~asked.deep)
  <2>1. /\ found' = triples /\ offset' = offset + Len(NextPage)
        /\ given' = given /\ pc' = pc /\ graph' = graph /\ at' = at
    BY <1>6 DEF CitingPage, NextPage, triples
  <2>2. PICK k \in 0..ClampedDepth : AtHop(k)
    BY <1>1 DEF CompleteInv
  <2>3. AtHop(k)' /\ ClampedDepth' = ClampedDepth
    <3>1. k \in Nat
      BY <1>1, GraphsAre
    <3> QED BY <2>1, <2>2, <3>1, HopStays, SameReach DEF Expanding
  <2>4. Read(offset)'
    BY <1>4, <2>1, SameCiters DEF Read
  <2>5. Counted'
    BY <1>7, <2>1, SameCiters DEF Counted
  <2> QED BY <1>1, <2>1, <2>3, <2>4, <2>5 DEF CompleteInv
<1> QED BY <1>5, <1>6

\* A scan that ends for want of room, though none is wanting, has found it all.
LEMMA CitingEnoughWhole == WalkInv /\ CompleteInv /\ RoomToSpare /\ CitingEnough => CompleteInv'
<1> SUFFICES ASSUME WalkInv, CompleteInv, RoomToSpare, CitingEnough, ~partial' PROVE CompleteInv'
  BY DEF CompleteInv
<1> DEFINE cs == Citing(at[1])
           A(n) == LikedAt(cs, asked.liked, 0, n)
<1>1. /\ pc = "citing" /\ ~Wanting /\ Citations(found) /\ ~partial /\ TypeOK /\ Read(offset) /\ Counted
      /\ found \in Seq(Papers \X Edges) /\ ToSet(found) \subseteq Triples(at[1]) /\ Expanding
      /\ "citations" \in asked.direction /\ (~asked.deep => offset = 0)
  BY DEF CitingEnough, WalkInv, CompleteInv, TypeOK, Expanding
<1>2. /\ offset \in Nat /\ cs \in Seq(CitersOf(at[1])) /\ Len(cs) \in Nat /\ ScanCap \in Nat
      /\ asked.maxNodes \in Nat /\ Len(nodes) \in Nat /\ Len(found) \in Nat
  <2>1. offset \in 0..Len(Newest) /\ nodes \in Seq(Papers)
    BY <1>1 DEF TypeOK
  <2> QED BY <1>1, <2>1, GraphsAre, CitingIs, CapIs
<1>3. at[1] \in ToSet(nodes)
  <2>1. PICK k \in 0..ClampedDepth : AtHop(k)
    BY <1>1 DEF CompleteInv
  <2> QED BY <1>1, <2>1 DEF AtHop, WalkInv
<1>4. Len(found) = Cardinality(A(offset)) /\ offset <= Len(cs)
  BY <1>1 DEF Counted
<1>5. ASSUME NEW j \in 1..Len(cs), j <= ScanCap, cs[j] \in asked.liked PROVE j <= offset
  <2> SUFFICES ASSUME j > offset PROVE FALSE
    BY <1>2
  <2>1. Len(found) + Len(nodes) >= asked.maxNodes
    <3>1. offset < ScanCap
      <4> HIDE DEF cs
      <4> QED BY <1>2, <1>5
    <3> QED BY <1>1, <1>2, <3>1 DEF Wanting
  <2>2. CASE asked.deep
    <3>1. Len(ReadCiting(at[1])) + Len(nodes) <= asked.maxNodes
      BY <1>1, <1>3, <2>2 DEF RoomToSpare
    <3>2. Len(ReadCiting(at[1])) = Cardinality(A(ToCap(at[1])))
      BY <1>1, ReadCitingIs
    <3>3. ToCap(at[1]) \in Nat /\ j \in (offset + 1)..ToCap(at[1])
      <4>1. ToCap(at[1]) = IF Len(cs) <= ScanCap THEN Len(cs) ELSE ScanCap
        BY DEF ToCap
      <4> HIDE DEF cs
      <4> QED BY <1>2, <1>5, <4>1
    <3> HIDE DEF cs
    <3>4. Cardinality(A(offset)) < Cardinality(A(ToCap(at[1])))
      BY <1>2, <1>5, <3>3, LikedMore
    <3>5. Cardinality(A(ToCap(at[1]))) \in Nat
      BY <3>3, LikedAtFinite
    <3> HIDE DEF A
    <3> QED BY <1>2, <1>4, <2>1, <3>1, <3>2, <3>4, <3>5
  <2>3. CASE ~asked.deep
    <3>1. A(0) = {}
      BY DEF LikedAt
    <3>2. Len(found) = 0
      BY <1>1, <1>4, <2>3, <3>1, FS_EmptySet
    <3>3. Len(nodes) < asked.maxNodes
      BY <1>1, <2>3 DEF RoomToSpare
    <3> QED BY <1>2, <2>1, <3>2, <3>3
  <2> QED BY <2>2, <2>3
<1>6. \A j \in 1..Len(cs) : j <= ScanCap /\ cs[j] \in asked.liked =>
         <<cs[j], <<cs[j], at[1]>>>> \in ToSet(found)
  BY <1>1, <1>5 DEF Read
<1> QED BY <1>1, <1>6, CitationsWhole

LEMMA CitedPageWhole == WalkInv /\ CompleteInv /\ CitedPage => CompleteInv'
<1> SUFFICES ASSUME WalkInv, CompleteInv, CitedPage, ~partial' PROVE CompleteInv'
  BY DEF CompleteInv
<1> DEFINE more == FoundCited(References(at[1]))
           triples == found \o more
<1>1. /\ pc = "cited" /\ TypeOK /\ "references" \in asked.direction /\ Expanding /\ ~partial
      /\ given' = given /\ at' = at /\ Join(triples)
  BY DEF CitedPage, WalkInv, Expanding
<1>2. /\ more \in Seq(Papers \X Edges) /\ ToSet(more) \subseteq Triples(at[1])
      /\ \A q \in ToSet(ReadCited(at[1])) : <<q, <<at[1], q>>>> \in ToSet(more)
  BY <1>1, FoundCitedIs
<1> HIDE DEF more
<1>3. found \in Seq(Papers \X Edges) /\ ToSet(found) \subseteq Triples(at[1])
  BY DEF WalkInv, TypeOK
<1>4. /\ triples \in Seq(Papers \X Edges) /\ ToSet(triples) \subseteq Triples(at[1])
      /\ ToSet(triples) = ToSet(found) \union ToSet(more)
  BY <1>2, <1>3, Joining
<1>5. "citations" \in asked.direction => Read(ScanCap)
  BY <1>1 DEF CompleteInv
<1> HIDE DEF triples
<1>6. Brings(ToSet(triples))
  <2> SUFFICES ASSUME NEW e \in EdgesOf(at[1])
               PROVE  \E t \in ToSet(triples) :
                         t[2] = e /\ e[1] \in {t[1], at[1]} /\ e[2] \in {t[1], at[1]}
    BY DEF Brings
  <2>1. CASE "citations" \in asked.direction /\ e \in ToSet(ReadCiting(at[1])) \X {at[1]}
    <3>1. e[1] \in ToSet(ReadCiting(at[1])) /\ e[2] = at[1] /\ e = <<e[1], e[2]>>
      BY <2>1
    <3>2. /\ e[1] \in asked.liked
          /\ \E j \in 1..Len(Citing(at[1])) : j <= ScanCap /\ Citing(at[1])[j] = e[1]
      BY <1>1, <3>1, ReadCitingIs
    <3>3. <<e[1], <<e[1], at[1]>>>> \in ToSet(found)
      BY <1>5, <2>1, <3>2 DEF Read
    <3> QED BY <1>4, <3>1, <3>3
  <2>2. CASE e \in {at[1]} \X ToSet(ReadCited(at[1]))
    <3>1. e[1] = at[1] /\ e[2] \in ToSet(ReadCited(at[1])) /\ e = <<e[1], e[2]>>
      BY <2>2
    <3>2. <<e[2], <<at[1], e[2]>>>> \in ToSet(triples)
      BY <1>2, <1>4, <3>1
    <3> QED BY <3>1, <3>2
  <2> QED BY <2>1, <2>2 DEF EdgesOf
<1>7. PICK k \in 0..ClampedDepth : AtHop(k)
  BY <1>1 DEF CompleteInv
<1>8. Join(triples)
  BY <1>1 DEF triples
<1> QED BY <1>1, <1>4, <1>6, <1>7, <1>8, JoinWhole

LEMMA WalkBeginsWhole == Init => CompleteInv
<1> SUFFICES ASSUME Init PROVE CompleteInv
  OBVIOUS
<1>1. WalkInv /\ TypeOK
  BY WalkBegins DEF WalkInv
<1>2. ClampedDepth \in Nat /\ asked.seeds \in Seq(Papers)
  BY <1>1, GraphsAre
<1>3. Within(0) = ToSet(nodes) /\ Within(0 + 1) = Spread(Within(0))
  BY WithinIs DEF Init
<1>4. /\ DOMAIN queue = 1..Len(asked.seeds) /\ DOMAIN asked.seeds = 1..Len(asked.seeds)
      /\ \A i \in 1..Len(asked.seeds) : queue[i] = <<asked.seeds[i], 0>>
  BY <1>2 DEF Init
<1>5. \A p \in Within(0) : Waits(p, 0)
  BY <1>3, <1>4 DEF Waits, ToSet, Init
<1>6. /\ \A i \in DOMAIN queue : queue[i][2] \in {0, 0 + 1}
      /\ \A i, j \in DOMAIN queue : i < j => queue[i][2] <= queue[j][2]
  BY <1>4
<1>7. pc = "seeds" /\ ~Expanding
  BY DEF Init, Expanding
<1>8. AtHop(0)
  BY <1>3, <1>5, <1>6, <1>7, SpreadIs DEF AtHop
<1> QED BY <1>2, <1>7, <1>8 DEF CompleteInv

LEMMA WalkStepWhole == WalkInv /\ CompleteInv /\ RoomToSpare /\ [Next]_vars => CompleteInv'
<1> SUFFICES ASSUME WalkInv, CompleteInv, RoomToSpare, [Next]_vars, ~partial' PROVE CompleteInv'
  BY DEF CompleteInv
<1>0. ClampedDepth \in Nat
  BY GraphsAre DEF WalkInv
<1>1. ASSUME NEW failed \in BOOLEAN, ResolveSeeds(failed) PROVE CompleteInv'
  <2>1. /\ pc = "seeds" /\ pc' = "pop" /\ ~Expanding /\ ~Expanding'
        /\ given' = given /\ graph' = graph /\ at' = at
    BY <1>1 DEF ResolveSeeds, Expanding
  <2>2. PICK k \in 0..ClampedDepth : AtHop(k)
    BY <2>1 DEF WalkInv, CompleteInv
  <2>3. AtHop(k)' /\ ClampedDepth' = ClampedDepth
    <3>1. k \in Nat
      BY <1>0
    <3>2. ClampedDepth' = ClampedDepth
      BY <2>1, SameReach
    <3>3. Expanding' = Expanding
      BY <2>1 DEF Expanding
    <3> QED BY <2>1, <2>2, <3>1, <3>2, <3>3, HopStays
  <2> QED BY <2>1, <2>3 DEF CompleteInv
<1>2. CASE CitingFails \/ CitedFails
  BY <1>2 DEF CitingFails, CitedFails
<1>3. CASE UNCHANGED vars
  <2>1. /\ pc' = pc /\ partial' = partial /\ nodes' = nodes /\ edges' = edges /\ Expanding' = Expanding
        /\ given' = given /\ graph' = graph /\ at' = at /\ found' = found
        /\ offset' = offset /\ truncated' = truncated
    BY <1>3 DEF vars, graph, Expanding
  <2>2. /\ \A m : Within(m)' = Within(m)
        /\ \A p : EdgesOf(p)' = EdgesOf(p)
        /\ ClampedDepth' = ClampedDepth
    BY <2>1, SameReach
  <2>3. Citing(at[1])' = Citing(at[1]) /\ asked' = asked /\ ScanCap' = ScanCap
    BY <2>1, SameCiters
  <2>4. (\E k \in 0..ClampedDepth : AtHop(k)) => (\E k \in 0..ClampedDepth : AtHop(k))'
    <3> SUFFICES ASSUME NEW k \in 0..ClampedDepth, AtHop(k) PROVE (\E m \in 0..ClampedDepth : AtHop(m))'
      OBVIOUS
    <3>1. AtHop(k)'
      BY <1>0, <2>1, HopStays
    <3> QED BY <2>2, <3>1
  <2>5. (Read(offset) => Read(offset)') /\ (Read(ScanCap) => Read(ScanCap)') /\ (Counted => Counted')
    BY <2>1, <2>3 DEF Read, Counted
  <2>6. \A p : Expanded(p) => Expanded(p)'
    BY <2>1, <2>2 DEF Expanded
  <2> QED BY <2>1, <2>2, <2>3, <2>4, <2>5, <2>6 DEF CompleteInv
<1> QED BY <1>1, <1>2, <1>3, PopGoesOn, FinishComplete, CitingPageWhole, CitingEnoughWhole, CitedPageWhole DEF Next

\* A walk never loses a node, and adds one only where there is room.
LEMMA NodesGrow ==
    ASSUME WalkInv, [Next]_vars
    PROVE  /\ given' = given
           /\ ToSet(nodes) \subseteq ToSet(nodes')
           /\ nodes' = nodes \/ (Len(nodes) < Len(nodes') /\ Len(nodes') <= asked.maxNodes)
           /\ partial => partial'
<1>1. TypeOK /\ found \in Seq(Papers \X Edges) /\ ToSet(found) \subseteq Triples(at[1])
  BY DEF WalkInv, TypeOK
<1>2. ASSUME NEW triples \in Seq(Papers \X Edges), Join(triples)
      PROVE  /\ ToSet(nodes) \subseteq ToSet(nodes')
             /\ nodes' = nodes \/ (Len(nodes) < Len(nodes') /\ Len(nodes') <= asked.maxNodes)
  BY <1>1, <1>2, JoinedIs DEF Join, Grown
<1>3. ASSUME NEW triples \in Seq(Papers \X Edges), Citations(triples)
      PROVE  /\ given' = given /\ ToSet(nodes) \subseteq ToSet(nodes')
             /\ nodes' = nodes \/ (Len(nodes) < Len(nodes') /\ Len(nodes') <= asked.maxNodes)
  <2>1. CASE Join(triples)
    BY <1>2, <1>3, <2>1 DEF Citations
  <2>2. CASE UNCHANGED graph
    BY <1>3, <2>2 DEF Citations, graph
  <2> QED BY <1>3, <2>1, <2>2 DEF Citations
<1>4. CASE CitingPage
  <2>1. NextPage \in Seq(CitersOf(at[1])) /\ pc = "citing" /\ Wanting /\ partial' = partial
    BY <1>4, NextPageIs DEF CitingPage, IsPage
  <2>2. found \o FoundCiting(NextPage) \in Seq(Papers \X Edges)
    <3>1. FoundCiting(NextPage) \in Seq(Papers \X Edges)
      BY <1>1, <2>1, NextPageIs, FoundCitingIs DEF WalkInv
    <3> QED BY <1>1, <3>1, Joining
  <2>3. CASE Citations(found \o FoundCiting(NextPage))
    BY <1>3, <2>1, <2>2, <2>3
  <2>4. CASE UNCHANGED <<given, graph>>
    BY <2>1, <2>4 DEF graph
  <2>5. Citations(found \o FoundCiting(NextPage)) \/ UNCHANGED <<given, graph>>
    BY <1>4 DEF CitingPage, NextPage
  <2> QED BY <2>3, <2>4, <2>5
<1>5. CASE CitingEnough \/ CitingFails
  <2>1. Citations(found) /\ (partial => partial')
    BY <1>5 DEF CitingEnough, CitingFails
  <2> QED BY <1>1, <1>3, <2>1
<1>6. CASE CitedPage
  <2>1. /\ "references" \in asked.direction /\ given' = given /\ partial' = partial
        /\ Join(found \o FoundCited(References(at[1])))
    BY <1>6 DEF CitedPage, WalkInv
  <2>2. found \o FoundCited(References(at[1])) \in Seq(Papers \X Edges)
    <3>1. FoundCited(References(at[1])) \in Seq(Papers \X Edges)
      BY <1>1, <2>1, FoundCitedIs
    <3> QED BY <1>1, <3>1, Joining
  <2> QED BY <1>2, <2>1, <2>2
<1>7. CASE CitedFails
  <2>1. given' = given /\ partial' /\ Join(found)
    BY <1>7 DEF CitedFails
  <2> QED BY <1>1, <1>2, <2>1
<1>8. CASE UNCHANGED vars \/ Pop \/ Finish
  <2>1. given' = given /\ nodes' = nodes /\ partial' = partial
    BY <1>8 DEF vars, graph, Pop, Finish
  <2> QED BY <2>1
<1>9. ASSUME NEW failed \in BOOLEAN, ResolveSeeds(failed)
      PROVE  given' = given /\ nodes' = nodes /\ ~partial
  BY <1>9 DEF ResolveSeeds, graph, WalkInv
<1> QED BY <1>4, <1>5, <1>6, <1>7, <1>8, <1>9 DEF Next

\* Room that is to spare was to spare before.
LEMMA RoomShrinks == WalkInv /\ [Next]_vars /\ RoomToSpare' => RoomToSpare
<1> SUFFICES ASSUME WalkInv, [Next]_vars, RoomToSpare' PROVE RoomToSpare
  OBVIOUS
<1>1. /\ given' = given /\ ToSet(nodes) \subseteq ToSet(nodes')
      /\ nodes' = nodes \/ Len(nodes) < Len(nodes')
  BY NodesGrow
<1>2. asked' = asked /\ \A p : ReadCiting(p)' = ReadCiting(p)
  BY <1>1 DEF given, ReadCiting, Citing, ScanCap
<1>3. TypeOK /\ WalkInv'
  BY WalkStep DEF WalkInv
<1>4. nodes \in Seq(Papers) /\ nodes' \in Seq(Papers)
  BY <1>3 DEF WalkInv, TypeOK
<1>5. Len(nodes) \in Nat /\ Len(nodes') \in Nat /\ Len(nodes) <= Len(nodes') /\ asked.maxNodes \in Nat
  BY <1>1, <1>3, <1>4, GraphsAre
<1>6. \A p : Len(ReadCiting(p)) \in Nat
  <2> TAKE p
  <2>1. ReadCiting(p) \in Seq(CitersOf(p) \cap asked.liked)
    BY <1>3, ReadCitingIs
  <2> QED BY <2>1
<1>7. Len(nodes) <= asked.maxNodes
  BY <1>2, <1>5 DEF RoomToSpare
<1>8. ASSUME "citations" \in asked.direction, asked.deep, NEW p \in ToSet(nodes)
      PROVE  Len(ReadCiting(p)) + Len(nodes) <= asked.maxNodes
  <2>1. Len(ReadCiting(p)) + Len(nodes') <= asked.maxNodes
    BY <1>1, <1>2, <1>8 DEF RoomToSpare
  <2>2. Len(ReadCiting(p)) \in Nat
    BY <1>6
  <2> QED BY <1>5, <2>1, <2>2
<1>9. ASSUME "citations" \in asked.direction, ~asked.deep PROVE Len(nodes) < asked.maxNodes
  <2>1. Len(nodes') < asked.maxNodes
    BY <1>2, <1>9 DEF RoomToSpare
  <2> QED BY <1>5, <2>1
<1> QED BY <1>7, <1>8, <1>9 DEF RoomToSpare

\* The nodes are all papers within some hops and some that are a hop further.
Rim ==
    \E k \in 0..ClampedDepth : Within(k) \subseteq ToSet(nodes) /\ ToSet(nodes) \subseteq Within(k + 1)

Weighed == asked.deep /\ "citations" \in asked.direction => RoomToSpare

UnmarkedInv ==
    /\ WalkInv
    /\ RoomToSpare => CompleteInv
    /\ ~partial /\ Weighed => Rim

LEMMA CompleteHasRim == CompleteInv /\ ~partial => Rim
BY DEF CompleteInv, AtHop, Rim

LEMMA UnmarkedStep == UnmarkedInv /\ [Next]_vars => UnmarkedInv'
<1> SUFFICES ASSUME UnmarkedInv, [Next]_vars PROVE UnmarkedInv'
  OBVIOUS
<1>1. WalkInv /\ WalkInv' /\ TypeOK
  BY WalkStep DEF UnmarkedInv, WalkInv
<1>2. RoomToSpare => CompleteInv'
  BY <1>1, WalkStepWhole DEF UnmarkedInv
<1>3. RoomToSpare' => RoomToSpare
  BY <1>1, RoomShrinks
<1>4. ASSUME ~partial', Weighed' PROVE Rim'
  <2>1. /\ given' = given /\ ~partial
        /\ nodes' = nodes \/ (Len(nodes) < Len(nodes') /\ Len(nodes') <= asked.maxNodes)
    BY <1>1, <1>4, NodesGrow
  <2>2. asked' = asked /\ Weighed
    <3>1. asked' = asked
      BY <2>1 DEF given
    <3>2. asked.deep /\ "citations" \in asked.direction => RoomToSpare'
      BY <1>4, <3>1 DEF Weighed
    <3> QED BY <1>3, <3>1, <3>2 DEF Weighed
  <2>3. CASE nodes' = nodes
    <3>1. Rim
      BY <2>1, <2>2 DEF UnmarkedInv
    <3>2. (\A m : Within(m)' = Within(m)) /\ ClampedDepth' = ClampedDepth
      BY <2>1, SameReach
    <3> QED BY <2>3, <3>1, <3>2 DEF Rim
  <2>4. CASE Len(nodes) < Len(nodes') /\ Len(nodes') <= asked.maxNodes
    <3>1. nodes \in Seq(Papers) /\ nodes' \in Seq(Papers) /\ asked.maxNodes \in Nat
      BY <1>1, GraphsAre DEF WalkInv, TypeOK
    <3>2. Len(nodes) < asked.maxNodes /\ Len(nodes) <= asked.maxNodes
      BY <2>4, <3>1
    <3>3. RoomToSpare
      BY <2>2, <3>2 DEF RoomToSpare, Weighed
    <3>4. CompleteInv'
      BY <1>2, <3>3
    <3> QED BY <1>4, <3>4, CompleteHasRim, PTL
  <2> QED BY <2>1, <2>3, <2>4
<1> QED BY <1>1, <1>2, <1>3, <1>4 DEF UnmarkedInv

LEMMA UnmarkedBegins == Init => UnmarkedInv
BY WalkBegins, WalkBeginsWhole, CompleteHasRim DEF UnmarkedInv, Init

LEMMA CompleteIsTold == UnmarkedInv => UnmarkedIsComplete
<1> SUFFICES ASSUME UnmarkedInv, RoomToSpare, pc = "done", ~truncated, ~partial
             PROVE  /\ Within(ClampedDepth) \subseteq ToSet(ShownNodes)
                    /\ UNION {EdgesOf(p) : p \in Within(ClampedDepth - 1)} \subseteq ShownEdges
  BY DEF UnmarkedIsComplete, CompleteUnlessTold
<1>1. /\ TypeOK /\ ClampedDepth \in Nat \ {0} /\ ClampedDepth - 1 \in Nat /\ nodes \in Seq(Papers)
      /\ asked.maxNodes \in Nat /\ CompleteInv /\ Len(nodes) <= asked.maxNodes
  BY GraphsAre DEF UnmarkedInv, WalkInv, TypeOK, RoomToSpare
<1>2. /\ Within(ClampedDepth) \subseteq ToSet(nodes)
      /\ \A p \in Within(ClampedDepth - 1) : Expanded(p)
  BY <1>1 DEF CompleteInv
<1> DEFINE shown == ShownNodes
<1>3. /\ shown \in Seq(Papers) /\ Len(nodes) \in Nat /\ DOMAIN nodes = 1..Len(nodes)
      /\ Len(shown) = IF Len(nodes) <= 0 THEN 0
                      ELSE IF Len(nodes) - 0 <= asked.maxNodes THEN Len(nodes) - 0 ELSE asked.maxNodes
      /\ \A i \in 1..Len(shown) : shown[i] = nodes[0 + i]
  <2>1. IsPage(Page(nodes, 0, asked.maxNodes), Papers, nodes, 0, asked.maxNodes)
    BY <1>1, PageOf
  <2> QED BY <1>1, <2>1 DEF IsPage, ShownNodes
<1> HIDE DEF shown
<1>4. Len(shown) = Len(nodes) /\ \A i \in 1..Len(nodes) : shown[i] = nodes[i]
  BY <1>1, <1>3
<1>5. \A p \in ToSet(nodes) : p \in ToSet(shown) /\ Contains(shown, p)
  <2>1. DOMAIN shown = 1..Len(shown)
    BY <1>3
  <2> QED BY <1>3, <1>4, <2>1 DEF ToSet, Contains
<1>6. ASSUME NEW p \in Within(ClampedDepth - 1), NEW e \in EdgesOf(p) PROVE e \in ShownEdges
  <2>1. e \in edges /\ e[1] \in ToSet(nodes) /\ e[2] \in ToSet(nodes)
    BY <1>2 DEF Expanded
  <2> QED BY <1>5, <2>1 DEF ShownEdges, shown
<1> QED BY <1>2, <1>5, <1>6 DEF shown

LEMMA RimIsCut == UnmarkedInv => WalkIsSound
<1> SUFFICES ASSUME UnmarkedInv, ~partial, Weighed, NEW n \in 0..ClampedDepth
             PROVE  ToSet(nodes) \subseteq Within(n) \/ Within(n) \subseteq ToSet(nodes)
  BY DEF UnmarkedInv, WalkInv, WalkIsSound, GraphIsSound, CutAtTheRim, Weighed
<1>1. PICK k \in 0..ClampedDepth : Within(k) \subseteq ToSet(nodes) /\ ToSet(nodes) \subseteq Within(k + 1)
  BY DEF UnmarkedInv, Rim
<1>2. n \in Nat /\ k \in Nat /\ k + 1 \in Nat
  BY GraphsAre DEF UnmarkedInv, WalkInv
<1>3. CASE n <= k
  BY <1>1, <1>2, <1>3, WithinGrows
<1>4. CASE k + 1 <= n
  BY <1>1, <1>2, <1>4, WithinGrows
<1> QED BY <1>2, <1>3, <1>4

LEMMA UnmarkedAlways == Spec => []UnmarkedInv
BY UnmarkedBegins, UnmarkedStep, PTL DEF Spec

\* Where the budget was not used up, a graph that is neither truncated nor partial
\* has every node within depth hops and every edge that expanding those above the
\* rim could read, however long the lists are and however few requests are made.
THEOREM UnmarkedGraphsAreComplete == Spec => []UnmarkedIsComplete
BY UnmarkedAlways, CompleteIsTold, PTL

\* What a budget keeps out of a graph is its rim: while no request has failed a
\* paper is a node only if all papers nearer to the seeds are.  Of a scan of many
\* pages, which may end early, this is said only while there is room to spare.
THEOREM GraphsAreCutAtTheRim == Spec => []WalkIsSound
BY UnmarkedAlways, RimIsCut, PTL

\* A walk along references needs no room: it is complete or says that it is not,
\* whatever its budget, if its seeds fit into it.
THEOREM ReferenceGraphsAreComplete ==
    ASSUME \A request \in Requests :
              request.direction = {"references"} /\ Len(request.seeds) <= request.maxNodes
    PROVE  Spec => [](CompleteUnlessTold /\ WalkIsSound)
<1>1. UnmarkedInv => RoomToSpare
  <2> SUFFICES ASSUME UnmarkedInv PROVE RoomToSpare
    OBVIOUS
  <2>1. asked \in Requests /\ (Len(nodes) <= asked.maxNodes \/ nodes = asked.seeds)
    BY DEF UnmarkedInv, WalkInv, TypeOK
  <2> QED BY <2>1 DEF RoomToSpare
<1>2. UnmarkedInv => CompleteUnlessTold /\ WalkIsSound
  BY <1>1, CompleteIsTold, RimIsCut DEF UnmarkedIsComplete
<1> QED BY <1>2, UnmarkedAlways, PTL
=============================================================================
