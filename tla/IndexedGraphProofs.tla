-------------------------- MODULE IndexedGraphProofs --------------------------
(***************************************************************************)
(* Proofs about IndexedGraph: whatever the names, the documents and the    *)
(* number of workers, adjacency and reverse stay mirror images and the     *)
(* index lists only nodes of the graph.                                    *)
(***************************************************************************)
EXTENDS IndexedGraph, FiniteSetTheorems, SequenceTheorems, TLAPS

(* The properties of a graph rather than of the variable that holds it.    *)
MirrorOf(g) ==
    /\ DOMAIN g.adj = DOMAIN g.rev
    /\ \A a \in DOMAIN g.adj : \A b \in DOMAIN g.adj[a] :
          /\ b \in DOMAIN g.rev /\ a \in DOMAIN g.rev[b]
          /\ g.rev[b][a] = g.adj[a][b]
    /\ \A b \in DOMAIN g.rev : \A a \in DOMAIN g.rev[b] :
          a \in DOMAIN g.adj /\ b \in DOMAIN g.adj[a]

SoundOf(g) == \A p \in DOMAIN g.index : p[2] \in DOMAIN g.adj

GraphInv(g) == MirrorOf(g) /\ SoundOf(g)

LEMMA GraphFields ==
    ASSUME NEW a, NEW r, NEW x
    PROVE  Graph(a, r, x).adj = a /\ Graph(a, r, x).rev = r /\ Graph(a, r, x).index = x
  BY DEF Graph

LEMMA EmptyInv == GraphInv(EmptyGraph)
  BY GraphFields DEF GraphInv, MirrorOf, SoundOf, EmptyGraph, EmptyMap

LEMMA EnsureInv ==
    ASSUME NEW g, NEW n, GraphInv(g)
    PROVE  /\ GraphInv(Ensure(g, n))
           /\ DOMAIN Ensure(g, n).adj = DOMAIN g.adj \cup {n}
           /\ \A a \in DOMAIN g.adj : Ensure(g, n).adj[a] = g.adj[a]
  <1>1. CASE n \in DOMAIN g.adj
    BY <1>1 DEF Ensure
  <1>2. CASE n \notin DOMAIN g.adj
    <2> DEFINE h == Ensure(g, n)
    <2>1. /\ h.adj = Put(g.adj, n, EmptyMap) /\ h.rev = Put(g.rev, n, EmptyMap)
          /\ h.index = g.index
      BY <1>2, GraphFields DEF Ensure
    <2>2. /\ DOMAIN h.adj = DOMAIN g.adj \cup {n} /\ DOMAIN h.rev = DOMAIN g.rev \cup {n}
          /\ DOMAIN h.adj[n] = {} /\ DOMAIN h.rev[n] = {}
          /\ \A a \in DOMAIN g.adj : h.adj[a] = g.adj[a]
          /\ \A a \in DOMAIN g.rev : h.rev[a] = g.rev[a]
      BY <2>1, <1>2 DEF Put, EmptyMap, GraphInv, MirrorOf
    <2> HIDE DEF h
    <2>3. MirrorOf(h)
      BY <2>2 DEF GraphInv, MirrorOf
    <2>4. SoundOf(h)
      BY <2>1, <2>2 DEF GraphInv, SoundOf
    <2> QED
      BY <2>2, <2>3, <2>4 DEF GraphInv, h
  <1> QED
    BY <1>1, <1>2

LEMMA AppendInv ==
    ASSUME NEW g, NEW k, NEW n, GraphInv(g), n \in DOMAIN g.adj
    PROVE  GraphInv(Graph(g.adj, g.rev, Append1(g.index, k, n)))
  <1> DEFINE h == Graph(g.adj, g.rev, Append1(g.index, k, n))
  <1>1. h.adj = g.adj /\ h.rev = g.rev /\ DOMAIN h.index = DOMAIN g.index \cup {<<k, n>>}
    BY GraphFields DEF Append1, Put
  <1> HIDE DEF h
  <1>2. MirrorOf(h)
    BY <1>1 DEF GraphInv, MirrorOf
  <1>3. SoundOf(h)
    BY <1>1 DEF GraphInv, SoundOf
  <1> QED
    BY <1>2, <1>3 DEF GraphInv, h

LEMMA AddNodeInv ==
    ASSUME NEW g, NEW n, NEW ty, GraphInv(g)
    PROVE  /\ GraphInv(AddNode(g, n, ty))
           /\ \A a \in DOMAIN g.adj : a \in DOMAIN AddNode(g, n, ty).adj
                                        /\ AddNode(g, n, ty).adj[a] = g.adj[a]
  <1> DEFINE h == Ensure(g, n)
  <1>1. GraphInv(h) /\ n \in DOMAIN h.adj
    BY EnsureInv
  <1>2. GraphInv(Graph(h.adj, h.rev, Append1(h.index, <<"type", ty>>, n)))
    BY <1>1, AppendInv
  <1>3. GraphInv(Graph(h.adj, h.rev, h.index))
    BY <1>1, GraphFields DEF GraphInv, MirrorOf, SoundOf
  <1>4. AddNode(g, n, ty).adj = h.adj
    BY GraphFields DEF AddNode
  <1> QED
    BY <1>2, <1>3, <1>4, EnsureInv DEF AddNode

LEMMA AddEdgeInv ==
    ASSUME NEW g, NEW a, NEW b, NEW r, GraphInv(g)
    PROVE  /\ GraphInv(AddEdge(g, a, b, r))
           /\ \A x \in DOMAIN g.adj : \A y \in DOMAIN g.adj[x] :
                 Linked(AddEdge(g, a, b, r), x, y)
  <1> DEFINE h == Ensure(Ensure(g, a), b)
             l == Graph(Link(h.adj, a, b, r), Link(h.rev, b, a, r), h.index)
             k == <<"relationship", r>>
  <1>1. /\ GraphInv(h) /\ a \in DOMAIN h.adj /\ b \in DOMAIN h.adj
        /\ \A x \in DOMAIN g.adj : x \in DOMAIN h.adj /\ h.adj[x] = g.adj[x]
    BY EnsureInv
  <1>2. /\ l.adj = Link(h.adj, a, b, r) /\ l.rev = Link(h.rev, b, a, r)
        /\ l.index = h.index
    BY GraphFields
  <1> HIDE DEF h, l
  <1>3. b \in DOMAIN h.rev /\ DOMAIN h.adj = DOMAIN h.rev
    BY <1>1 DEF GraphInv, MirrorOf
  <1>4. /\ DOMAIN l.adj = DOMAIN h.adj
        /\ \A x \in DOMAIN h.adj \ {a} : l.adj[x] = h.adj[x]
        /\ DOMAIN l.adj[a] = DOMAIN h.adj[a] \cup {b}
        /\ \A y \in DOMAIN h.adj[a] \ {b} : l.adj[a][y] = h.adj[a][y]
        /\ l.adj[a][b] = r
    BY <1>1, <1>2 DEF Link, Put
  <1>5. /\ DOMAIN l.rev = DOMAIN h.rev
        /\ \A x \in DOMAIN h.rev \ {b} : l.rev[x] = h.rev[x]
        /\ DOMAIN l.rev[b] = DOMAIN h.rev[b] \cup {a}
        /\ \A y \in DOMAIN h.rev[b] \ {a} : l.rev[b][y] = h.rev[b][y]
        /\ l.rev[b][a] = r
    BY <1>2, <1>3 DEF Link, Put
  <1>6. MirrorOf(l)
    <2>1. ASSUME NEW x \in DOMAIN l.adj, NEW y \in DOMAIN l.adj[x]
          PROVE  y \in DOMAIN l.rev /\ x \in DOMAIN l.rev[y] /\ l.rev[y][x] = l.adj[x][y]
      <3>1. CASE x = a /\ y = b
        BY <3>1, <1>3, <1>4, <1>5
      <3>2. CASE ~(x = a /\ y = b)
        <4>1. x \in DOMAIN h.adj /\ y \in DOMAIN h.adj[x] /\ l.adj[x][y] = h.adj[x][y]
          BY <2>1, <3>2, <1>4
        <4>2. y \in DOMAIN h.rev /\ x \in DOMAIN h.rev[y] /\ h.rev[y][x] = h.adj[x][y]
          BY <4>1, <1>1 DEF GraphInv, MirrorOf
        <4> QED
          BY <4>1, <4>2, <3>2, <1>5
      <3> QED
        BY <3>1, <3>2
    <2>2. ASSUME NEW y \in DOMAIN l.rev, NEW x \in DOMAIN l.rev[y]
          PROVE  x \in DOMAIN l.adj /\ y \in DOMAIN l.adj[x]
      <3>1. CASE x = a /\ y = b
        BY <3>1, <1>1, <1>4
      <3>2. CASE ~(x = a /\ y = b)
        <4>1. y \in DOMAIN h.rev /\ x \in DOMAIN h.rev[y]
          BY <2>2, <3>2, <1>5
        <4>2. x \in DOMAIN h.adj /\ y \in DOMAIN h.adj[x]
          BY <4>1, <1>1 DEF GraphInv, MirrorOf
        <4> QED
          BY <4>2, <1>4
      <3> QED
        BY <3>1, <3>2
    <2>3. DOMAIN l.adj = DOMAIN l.rev
      BY <1>3, <1>4, <1>5
    <2> QED
      BY <2>1, <2>2, <2>3 DEF MirrorOf
  <1>7. SoundOf(l)
    BY <1>1, <1>2, <1>4 DEF GraphInv, SoundOf
  <1>8. GraphInv(Graph(l.adj, l.rev, Append1(l.index, k, a)))
    BY <1>1, <1>4, <1>6, <1>7, AppendInv DEF GraphInv
  <1>9. AddEdge(g, a, b, r) = Graph(l.adj, l.rev, Append1(l.index, k, a))
    BY <1>2 DEF AddEdge, h, k
  <1>10. AddEdge(g, a, b, r).adj = l.adj
    BY <1>9, GraphFields
  <1>11. \A x \in DOMAIN g.adj : \A y \in DOMAIN g.adj[x] : x \in DOMAIN l.adj /\ y \in DOMAIN l.adj[x]
    BY <1>1, <1>4
  <1> QED
    BY <1>8, <1>9, <1>10, <1>11 DEF Linked

LEMMA RemoveNodeInv ==
    ASSUME NEW g, NEW n, GraphInv(g)
    PROVE  GraphInv(RemoveNode(g, n))
  <1> DEFINE h == RemoveNode(g, n)
  <1>0. /\ h.adj = [m \in DOMAIN g.adj \ {n} |-> Drop(g.adj[m], n)]
        /\ h.rev = [m \in DOMAIN g.rev \ {n} |-> Drop(g.rev[m], n)]
        /\ h.index = [p \in {q \in DOMAIN g.index : q[2] # n} |-> g.index[p]]
    BY GraphFields DEF RemoveNode
  <1> HIDE DEF h
  <1>1. /\ DOMAIN h.adj = DOMAIN g.adj \ {n}
        /\ \A m \in DOMAIN h.adj : /\ DOMAIN h.adj[m] = DOMAIN g.adj[m] \ {n}
                                   /\ \A y \in DOMAIN h.adj[m] : h.adj[m][y] = g.adj[m][y]
    BY <1>0 DEF Drop
  <1>2. /\ DOMAIN h.rev = DOMAIN g.rev \ {n}
        /\ \A m \in DOMAIN h.rev : /\ DOMAIN h.rev[m] = DOMAIN g.rev[m] \ {n}
                                   /\ \A y \in DOMAIN h.rev[m] : h.rev[m][y] = g.rev[m][y]
    BY <1>0 DEF Drop
  <1>3. DOMAIN h.index = {q \in DOMAIN g.index : q[2] # n}
    BY <1>0
  <1>4. MirrorOf(h)
    BY <1>1, <1>2 DEF GraphInv, MirrorOf
  <1>5. SoundOf(h)
    BY <1>1, <1>3 DEF GraphInv, SoundOf
  <1> QED
    BY <1>4, <1>5 DEF GraphInv, h

LEMMA UnlinkFields ==
    ASSUME NEW m, NEW a, NEW b
    PROVE  /\ DOMAIN Unlink(m, a, b) = DOMAIN m
           /\ \A x \in DOMAIN m :
                /\ DOMAIN Unlink(m, a, b)[x] = IF x = a THEN DOMAIN m[x] \ {b} ELSE DOMAIN m[x]
                /\ \A y \in DOMAIN Unlink(m, a, b)[x] : Unlink(m, a, b)[x][y] = m[x][y]
  BY DEF Unlink, Put, Drop

LEMMA RemoveEdgeInv ==
    ASSUME NEW g, NEW a, NEW b, GraphInv(g)
    PROVE  GraphInv(RemoveEdge(g, a, b))
  <1> DEFINE h == RemoveEdge(g, a, b)
  <1>0. h.adj = Unlink(g.adj, a, b) /\ h.rev = Unlink(g.rev, b, a) /\ h.index = g.index
    BY GraphFields DEF RemoveEdge
  <1> HIDE DEF h
  <1>1. /\ DOMAIN h.adj = DOMAIN g.adj
        /\ \A x \in DOMAIN g.adj :
             /\ DOMAIN h.adj[x] = IF x = a THEN DOMAIN g.adj[x] \ {b} ELSE DOMAIN g.adj[x]
             /\ \A y \in DOMAIN h.adj[x] : h.adj[x][y] = g.adj[x][y]
    BY <1>0, UnlinkFields
  <1>2. /\ DOMAIN h.rev = DOMAIN g.rev
        /\ \A x \in DOMAIN g.rev :
             /\ DOMAIN h.rev[x] = IF x = b THEN DOMAIN g.rev[x] \ {a} ELSE DOMAIN g.rev[x]
             /\ \A y \in DOMAIN h.rev[x] : h.rev[x][y] = g.rev[x][y]
    BY <1>0, UnlinkFields
  <1>3. MirrorOf(h)
    <2>1. DOMAIN h.adj = DOMAIN h.rev
      BY <1>1, <1>2 DEF GraphInv, MirrorOf
    <2>2. ASSUME NEW x \in DOMAIN h.adj, NEW y \in DOMAIN h.adj[x]
          PROVE  y \in DOMAIN h.rev /\ x \in DOMAIN h.rev[y] /\ h.rev[y][x] = h.adj[x][y]
      <3>1. ~(x = a /\ y = b) /\ y \in DOMAIN g.adj[x] /\ h.adj[x][y] = g.adj[x][y]
        BY <2>2, <1>1
      <3>2. y \in DOMAIN g.rev /\ x \in DOMAIN g.rev[y] /\ g.rev[y][x] = g.adj[x][y]
        BY <3>1, <1>1 DEF GraphInv, MirrorOf
      <3> QED
        BY <3>1, <3>2, <1>2
    <2>3. ASSUME NEW y \in DOMAIN h.rev, NEW x \in DOMAIN h.rev[y]
          PROVE  x \in DOMAIN h.adj /\ y \in DOMAIN h.adj[x]
      <3>1. ~(x = a /\ y = b) /\ x \in DOMAIN g.rev[y]
        BY <2>3, <1>2
      <3>2. x \in DOMAIN g.adj /\ y \in DOMAIN g.adj[x]
        BY <3>1, <1>2 DEF GraphInv, MirrorOf
      <3> QED
        BY <3>1, <3>2, <1>1
    <2> QED
      BY <2>1, <2>2, <2>3 DEF MirrorOf
  <1>4. SoundOf(h)
    BY <1>0, <1>1 DEF GraphInv, SoundOf
  <1> QED
    BY <1>3, <1>4 DEF GraphInv, h

LEMMA GraphOfInv ==
    ASSUME NEW ls, NEW c
    PROVE  GraphInv(GraphOf(ls, c))
  <1> DEFINE h  == GraphOf(ls, c)
             es == Entries(ls)
  <1>1. /\ h.adj = [a \in Ends(ls) |->
                      [b \in {x \in Ends(ls) : <<a, x>> \in Pairs(es)} |-> PickOf(es, c, a, b)]]
        /\ h.rev = [b \in Ends(ls) |->
                      [a \in {x \in Ends(ls) : <<x, b>> \in Pairs(es)} |-> PickOf(es, c, a, b)]]
        /\ h.index = EmptyMap
    BY GraphFields DEF GraphOf
  <1> HIDE DEF h, es
  <1>2. MirrorOf(h)
    BY <1>1 DEF MirrorOf
  <1>3. SoundOf(h)
    BY <1>1 DEF SoundOf, EmptyMap
  <1> QED
    BY <1>2, <1>3 DEF GraphInv, h

(***************************************************************************)
(* Types.                                                                  *)
(***************************************************************************)
LEMMA TokenText == \A t \in Tokens : <<t>> \in Texts
  BY DEF Texts

LEMMA EmptyRow == IsRow(EmptyMap) /\ IsLinks(EmptyMap) /\ IsIndex(EmptyMap)
  BY DEF IsRow, IsLinks, IsIndex, EmptyMap

LEMMA PutRow ==
    ASSUME NEW x, IsRow(x), NEW b \in Texts, NEW r \in Texts
    PROVE  IsRow(Put(x, b, r))
  BY DEF IsRow, Put

LEMMA DropRow ==
    ASSUME NEW x, IsRow(x), NEW b
    PROVE  IsRow(Drop(x, b))
  BY DEF IsRow, Drop

LEMMA PutLinks ==
    ASSUME NEW m, IsLinks(m), NEW a \in Texts, NEW x, IsRow(x)
    PROVE  IsLinks(Put(m, a, x))
  <1> DEFINE l == Put(m, a, x)
  <1>1. /\ l = [k \in DOMAIN l |-> l[k]]
        /\ DOMAIN l = DOMAIN m \cup {a}
        /\ \A k \in DOMAIN l : l[k] = IF k = a THEN x ELSE m[k]
    BY DEF Put
  <1> HIDE DEF l
  <1>2. ASSUME NEW k \in DOMAIN l PROVE k \in Texts /\ IsRow(l[k])
    <2>1. CASE k = a
      BY <1>1, <2>1
    <2>2. CASE k # a
      BY <1>1, <2>2 DEF IsLinks
    <2> QED
      BY <2>1, <2>2
  <1>3. IsLinks(l)
    BY <1>1, <1>2 DEF IsLinks
  <1> QED
    BY <1>3 DEF l

LEMMA DropLinks ==
    ASSUME NEW m, IsLinks(m), NEW n
    PROVE  IsLinks([k \in DOMAIN m \ {n} |-> Drop(m[k], n)])
  <1> DEFINE l == [k \in DOMAIN m \ {n} |-> Drop(m[k], n)]
  <1>1. ASSUME NEW k \in DOMAIN l PROVE k \in Texts /\ IsRow(l[k])
    <2>1. k \in DOMAIN m /\ l[k] = Drop(m[k], n)
      OBVIOUS
    <2> QED
      BY <2>1, DropRow DEF IsLinks
  <1>2. l = [k \in DOMAIN l |-> l[k]]
    OBVIOUS
  <1> HIDE DEF l
  <1>3. IsLinks(l)
    BY <1>1, <1>2 DEF IsLinks
  <1> QED
    BY <1>3 DEF l

LEMMA EnsureType ==
    ASSUME NEW g, IsGraph(g), NEW n \in Texts
    PROVE  IsGraph(Ensure(g, n))
  <1>1. CASE n \in DOMAIN g.adj
    BY <1>1 DEF Ensure
  <1>2. CASE n \notin DOMAIN g.adj
    <2>1. IsLinks(Put(g.adj, n, EmptyMap)) /\ IsLinks(Put(g.rev, n, EmptyMap))
      BY EmptyRow, PutLinks DEF IsGraph
    <2> QED
      BY <1>2, <2>1, GraphFields DEF Ensure, IsGraph
  <1> QED
    BY <1>1, <1>2

LEMMA AppendType ==
    ASSUME NEW x, IsIndex(x), NEW k, IsIndexKey(k), NEW n \in Texts
    PROVE  IsIndex(Append1(x, k, n))
  <1>1. Listed(x, k, n) + 1 \in Nat \ {0}
    BY DEF Listed, IsIndex
  <1>2. ASSUME NEW p \in DOMAIN Append1(x, k, n)
        PROVE  /\ IsIndexKey(p[1]) /\ p[2] \in Texts
               /\ Append1(x, k, n)[p] \in Nat \ {0}
    <2>1. CASE p = <<k, n>>
      BY <1>1, <2>1 DEF Append1, Put
    <2>2. CASE p # <<k, n>>
      BY <1>2, <2>2 DEF Append1, Put, IsIndex
    <2> QED
      BY <2>1, <2>2
  <1> QED
    BY <1>2 DEF IsIndex

LEMMA AddNodeType ==
    ASSUME NEW g, IsGraph(g), NEW n \in Texts, NEW ty \in NodeTypes \cup {NoType}
    PROVE  IsGraph(AddNode(g, n, ty))
  <1> DEFINE h == Ensure(g, n)
  <1>1. IsGraph(h)
    BY EnsureType
  <1>2. ty # NoType => IsIndexKey(<<"type", ty>>)
    BY DEF IsIndexKey
  <1>3. ty # NoType => IsIndex(Append1(h.index, <<"type", ty>>, n))
    BY <1>1, <1>2, AppendType DEF IsGraph
  <1> QED
    BY <1>1, <1>3, GraphFields DEF AddNode, IsGraph

LEMMA LinkType ==
    ASSUME NEW m, IsLinks(m), NEW a \in DOMAIN m, NEW b \in Texts, NEW r \in Texts
    PROVE  IsLinks(Link(m, a, b, r))
  <1>1. a \in Texts /\ IsRow(Put(m[a], b, r))
    BY PutRow DEF IsLinks
  <1> QED
    BY <1>1, PutLinks DEF Link

LEMMA AddEdgeType ==
    ASSUME NEW g, IsGraph(g), GraphInv(g), NEW a \in Texts, NEW b \in Texts, NEW r \in Texts
    PROVE  IsGraph(AddEdge(g, a, b, r))
  <1> DEFINE h == Ensure(Ensure(g, a), b)
  <1>1. IsGraph(h) /\ GraphInv(h) /\ a \in DOMAIN h.adj /\ b \in DOMAIN h.adj
    BY EnsureType, EnsureInv
  <1>2. b \in DOMAIN h.rev
    BY <1>1 DEF GraphInv, MirrorOf
  <1>3. IsIndexKey(<<"relationship", r>>)
    BY DEF IsIndexKey
  <1> HIDE DEF h
  <1>4. IsIndex(Append1(h.index, <<"relationship", r>>, a))
    BY <1>1, <1>3, AppendType DEF IsGraph
  <1>5. IsLinks(Link(h.adj, a, b, r)) /\ IsLinks(Link(h.rev, b, a, r))
    BY <1>1, <1>2, LinkType DEF IsGraph
  <1> QED
    BY <1>4, <1>5, GraphFields DEF AddEdge, IsGraph, h

LEMMA RemoveNodeType ==
    ASSUME NEW g, IsGraph(g), NEW n
    PROVE  IsGraph(RemoveNode(g, n))
  <1>1. IsIndex([p \in {q \in DOMAIN g.index : q[2] # n} |-> g.index[p]])
    BY DEF IsGraph, IsIndex
  <1>2. /\ IsLinks([m \in DOMAIN g.adj \ {n} |-> Drop(g.adj[m], n)])
        /\ IsLinks([m \in DOMAIN g.rev \ {n} |-> Drop(g.rev[m], n)])
    BY DropLinks DEF IsGraph
  <1> QED
    BY <1>1, <1>2, GraphFields DEF RemoveNode, IsGraph

LEMMA RemoveEdgeType ==
    ASSUME NEW g, IsGraph(g), NEW a, NEW b
    PROVE  IsGraph(RemoveEdge(g, a, b))
  <1>1. ASSUME NEW m, IsLinks(m), NEW x, NEW y PROVE IsLinks(Unlink(m, x, y))
    <2>1. CASE x \in DOMAIN m
      <3>1. x \in Texts /\ IsRow(Drop(m[x], y))
        BY <1>1, <2>1, DropRow DEF IsLinks
      <3> QED
        BY <1>1, <2>1, <3>1, PutLinks DEF Unlink
    <2>2. CASE x \notin DOMAIN m
      BY <1>1, <2>2 DEF Unlink
    <2> QED
      BY <2>1, <2>2
  <1> QED
    BY <1>1, GraphFields DEF RemoveEdge, IsGraph

(* What a well-formed file makes of names and relationships.               *)
LEMMA LineType ==
    ASSUME NEW l, IsLine(l)
    PROVE  /\ LineNode(l) \in Texts
           /\ \A w \in LineWords(l) : WordNode(w) \in Texts /\ WordRel(w) \in Texts
  <1>1. Head(l.start) \in Tokens /\ Tail(l.start) \in Seq(Tokens)
    BY HeadTailProperties, EmptySeq DEF IsLine
  <1>2. ASSUME NEW w \in LineWords(l)
        PROVE  WordNode(w) \in Texts /\ WordRel(w) \in Texts
    <2>1. w \in Seq(Tokens) /\ Len(w) >= 2
      BY <1>1, <1>2 DEF LineWords, IsLine, Texts
    <2>2. Head(w) \in Tokens /\ Tail(w) \in Seq(Tokens) /\ Len(Tail(w)) = Len(w) - 1
      BY <2>1, HeadTailProperties, EmptySeq
    <2>3. Tail(w) # <<>>
      <3>1. Len(Tail(w)) # 0
        BY <2>1, <2>2, LenProperties
      <3>2. Len(<<>>) = 0
        BY EmptySeq
      <3> QED
        BY <3>1, <3>2
    <2> QED
      BY <2>2, <2>3, TokenText DEF WordNode, WordRel, Texts
  <1> QED
    BY <1>1, <1>2, TokenText DEF LineNode

LEMMA GraphOfType ==
    ASSUME NEW ls, \A l \in ls : IsLine(l), NEW c \in Picks(Entries(ls))
    PROVE  IsGraph(GraphOf(ls, c))
  <1> DEFINE h  == GraphOf(ls, c)
             es == Entries(ls)
  <1>1. /\ h.adj = [a \in Ends(ls) |->
                      [b \in {x \in Ends(ls) : <<a, x>> \in Pairs(es)} |-> PickOf(es, c, a, b)]]
        /\ h.rev = [b \in Ends(ls) |->
                      [a \in {x \in Ends(ls) : <<x, b>> \in Pairs(es)} |-> PickOf(es, c, a, b)]]
        /\ h.index = EmptyMap
    BY GraphFields DEF GraphOf
  <1>2. \A e \in es : e.to \in Texts /\ e.rel \in Texts
    BY LineType DEF Entries
  <1>3. Ends(ls) \subseteq Texts
    BY <1>2, LineType DEF Ends
  <1>4. ASSUME NEW a, NEW b, <<a, b>> \in Pairs(es) PROVE PickOf(es, c, a, b) \in Texts
    <2>1. PICK e \in es : e.from = a /\ e.to = b
      BY <1>4 DEF Pairs
    <2>2. e.rel \in Rels(es, a, b) /\ Rels(es, a, b) \subseteq Texts
      BY <1>2, <2>1 DEF Rels
    <2>3. <<a, b>> \in DOMAIN c => c[<<a, b>>] \in Rels(es, a, b)
      BY DEF Picks
    <2> QED
      BY <2>2, <2>3 DEF PickOf
  <1> HIDE DEF h, es
  <1>5. \A a \in DOMAIN h.adj : IsRow(h.adj[a])
    BY <1>1, <1>3, <1>4 DEF IsRow
  <1>6. \A b \in DOMAIN h.rev : IsRow(h.rev[b])
    BY <1>1, <1>3, <1>4 DEF IsRow
  <1>7. IsLinks(h.adj) /\ IsLinks(h.rev)
    BY <1>1, <1>3, <1>5, <1>6 DEF IsLinks
  <1> QED
    BY <1>1, <1>7, EmptyRow DEF IsGraph, h

LEMMA WordType ==
    ASSUME NEW b \in Texts, NEW r \in Texts
    PROVE  Word(b, r) \in Texts /\ Len(Word(b, r)) = Len(b) + Len(r)
  <1>1. Word(b, r) \in Seq(Tokens) /\ Len(Word(b, r)) = Len(b) + Len(r)
    BY ConcatProperties DEF Word, Texts
  <1>2. Len(b) \in Nat \ {0} /\ Len(r) \in Nat \ {0}
    BY EmptySeq DEF Texts
  <1> QED
    BY <1>1, <1>2, EmptySeq DEF Texts

LEMMA FileType ==
    ASSUME NEW m, IsLinks(m), NEW f \in Files(m)
    PROVE  \A l \in f : IsLine(l)
  <1>1. PICK c \in Firsts(m) : f = {Line(n, m[n], FirstOf(m, c, n)) : n \in DOMAIN m}
    BY DEF Files
  <1> SUFFICES ASSUME NEW n \in DOMAIN m PROVE IsLine(Line(n, m[n], FirstOf(m, c, n)))
    BY <1>1
  <1>2. n \in Texts /\ IsRow(m[n]) /\ n \in Seq(Tokens) /\ Len(n) \in Nat \ {0}
    BY EmptySeq DEF IsLinks, Texts
  <1>3. CASE DOMAIN m[n] = {}
    <2>1. n \o <<Blank>> \in Seq(Tokens) /\ Len(n \o <<Blank>>) = Len(n) + 1
      BY <1>2, BlankIsToken, ConcatProperties
    <2> QED
      BY <1>2, <1>3, <2>1 DEF Line, IsLine
  <1>4. CASE DOMAIN m[n] # {}
    <2> DEFINE b == FirstOf(m, c, n)
    <2>1. b \in DOMAIN m[n]
      BY <1>4 DEF FirstOf, Firsts
    <2>2. \A x \in DOMAIN m[n] : Word(x, m[n][x]) \in Texts
      BY <1>2, WordType DEF IsRow
    <2>3. Word(b, m[n][b]) \in Seq(Tokens) /\ Len(Word(b, m[n][b])) \in Nat \ {0}
      BY <2>1, <2>2, EmptySeq DEF Texts
    <2> HIDE DEF b
    <2>4. /\ n \o Word(b, m[n][b]) \in Seq(Tokens)
          /\ Len(n \o Word(b, m[n][b])) = Len(n) + Len(Word(b, m[n][b]))
      BY <1>2, <2>3, ConcatProperties
    <2>5. IsLine([start |-> n \o Word(b, m[n][b]),
                  words |-> {Word(x, m[n][x]) : x \in DOMAIN m[n] \ {b}}])
      BY <1>2, <2>2, <2>3, <2>4 DEF IsLine
    <2> QED
      BY <1>4, <2>5 DEF Line, b
  <1> QED
    BY <1>3, <1>4

(***************************************************************************)
(* The theorems.                                                           *)
(***************************************************************************)
LEMMA InvStep ==
    ASSUME GraphInv(graph), [Next]_vars
    PROVE  GraphInv(graph)'
  <1>1. ASSUME NEW w \in Workers, UpdateNode(w) PROVE GraphInv(graph)'
    BY <1>1, AddNodeInv DEF UpdateNode
  <1>2. ASSUME NEW w \in Workers, UpdateEdge(w) PROVE GraphInv(graph)'
    BY <1>2, AddEdgeInv DEF UpdateEdge
  <1>3. ASSUME Remove PROVE GraphInv(graph)'
    BY <1>3, RemoveNodeInv DEF Remove
  <1>4. ASSUME RemoveLink PROVE GraphInv(graph)'
    BY <1>4, RemoveEdgeInv DEF RemoveLink
  <1>5. ASSUME Restart PROVE GraphInv(graph)'
    <2>1. CASE graph' = EmptyGraph
      BY <2>1, EmptyInv
    <2>2. CASE \E ls \in Readable(file) : graph' \in Loads(ls)
      BY <2>2, GraphOfInv DEF Loads
    <2> QED
      BY <1>5, <2>1, <2>2 DEF Restart
  <1>6. ASSUME Clear PROVE GraphInv(graph)'
    BY <1>6, EmptyInv DEF Clear
  <1>7. CASE UNCHANGED graph
    BY <1>7
  <1>8. ASSUME NEW w \in Workers, BeginUpdate(w) PROVE UNCHANGED graph
    BY <1>8 DEF BeginUpdate
  <1> QED
    BY <1>1, <1>2, <1>3, <1>4, <1>5, <1>6, <1>7, <1>8 DEF Next, Update, Save, vars

LEMMA JobType ==
    ASSUME NEW w \in Workers, job = [x \in Workers |-> job[x]],
           \A x \in Workers : job[x] # NoJob => IsJob(job[x]),
           NEW j, j # NoJob => IsJob(j), job' = [job EXCEPT ![w] = j]
    PROVE  /\ job' = [x \in Workers |-> job'[x]]
           /\ \A x \in Workers : job'[x] # NoJob => IsJob(job'[x])
  OBVIOUS

LEMMA ProceedType ==
    ASSUME TypeOK, NEW w \in Workers, job[w] # NoJob, NEW todo \in SUBSET job[w].todo,
           Proceed(w, todo)
    PROVE  /\ job' = [x \in Workers |-> job'[x]]
           /\ \A x \in Workers : job'[x] # NoJob => IsJob(job'[x])
  <1> DEFINE j == IF todo = {} THEN NoJob ELSE Job(job[w], "refs", todo)
  <1>1. IsJob(job[w])
    BY DEF TypeOK
  <1>2. IsJob(Job(job[w], "refs", todo))
    BY <1>1 DEF IsJob, Job
  <1>3. (j # NoJob => IsJob(j)) /\ job' = [job EXCEPT ![w] = j]
    BY <1>2 DEF Proceed, TypeOK
  <1> HIDE DEF j
  <1> QED
    BY <1>3, JobType DEF TypeOK

LEMMA TypeStep ==
    ASSUME TypeOK, GraphInv(graph), [Next]_vars
    PROVE  TypeOK'
  <1>1. ASSUME NEW w \in Workers, BeginUpdate(w) PROVE TypeOK'
    <2>1. PICK u \in Updates : job' = [job EXCEPT ![w] = Job(u, "node", u.refs)]
      BY <1>1 DEF BeginUpdate
    <2>2. IsJob(Job(u, "node", u.refs))
      BY UpdatesAreDocuments DEF IsJob, Job
    <2>3. /\ job' = [x \in Workers |-> job'[x]]
          /\ \A x \in Workers : job'[x] # NoJob => IsJob(job'[x])
      BY <2>1, <2>2, JobType DEF TypeOK
    <2> QED
      BY <1>1, <2>3 DEF BeginUpdate, TypeOK
  <1>2. ASSUME NEW w \in Workers, UpdateNode(w) PROVE TypeOK'
    <2>1. job[w] # NoJob /\ IsJob(job[w]) /\ Proceed(w, job[w].todo) /\ UNCHANGED file
      BY <1>2 DEF UpdateNode, TypeOK
    <2>2. IsGraph(graph')
      BY <1>2, <2>1, AddNodeType DEF UpdateNode, TypeOK, IsJob
    <2> QED
      BY <2>1, <2>2, ProceedType DEF TypeOK
  <1>3. ASSUME NEW w \in Workers, UpdateEdge(w) PROVE TypeOK'
    <2>1. job[w] # NoJob /\ IsJob(job[w]) /\ UNCHANGED file
      BY <1>3 DEF UpdateEdge, TypeOK
    <2>2. PICK r \in job[w].todo : /\ graph' = AddEdge(graph, job[w].node, r.to, r.rel)
                                  /\ Proceed(w, job[w].todo \ {r})
      BY <1>3 DEF UpdateEdge
    <2>3. r.to \in Texts /\ r.rel \in Texts /\ job[w].node \in Texts
      BY <2>1 DEF IsJob, Refs
    <2>4. IsGraph(graph')
      BY <2>2, <2>3, AddEdgeType DEF TypeOK
    <2>5. /\ job' = [x \in Workers |-> job'[x]]
          /\ \A x \in Workers : job'[x] # NoJob => IsJob(job'[x])
      BY <2>1, <2>2, ProceedType
    <2> QED
      BY <2>1, <2>4, <2>5 DEF TypeOK
  <1>4. ASSUME Remove PROVE TypeOK'
    BY <1>4, RemoveNodeType DEF Remove, TypeOK
  <1>5. ASSUME RemoveLink PROVE TypeOK'
    BY <1>5, RemoveEdgeType DEF RemoveLink, TypeOK
  <1>6. ASSUME Clear PROVE TypeOK'
    <2>1. IsGraph(EmptyGraph)
      BY EmptyRow, GraphFields DEF EmptyGraph, IsGraph
    <2> QED
      BY <1>6, <2>1 DEF Clear, TypeOK
  <1>7. ASSUME Save PROVE TypeOK'
    <2>1. \A l \in file' : IsLine(l)
      BY <1>7, FileType DEF Save, TypeOK, IsGraph
    <2> QED
      BY <1>7, <2>1 DEF Save, TypeOK
  <1>8. ASSUME Restart PROVE TypeOK'
    <2>1. IsGraph(graph')
      <3>1. CASE file = NoFile
        BY <1>8, <3>1, EmptyRow, GraphFields DEF Restart, EmptyGraph, IsGraph
      <3>2. CASE file # NoFile
        <4>1. PICK ls \in Readable(file) : graph' \in Loads(ls)
          BY <1>8, <3>2 DEF Restart
        <4>2. \A l \in ls : IsLine(l)
          BY <3>2, <4>1 DEF Readable, TypeOK
        <4> QED
          BY <4>1, <4>2, GraphOfType DEF Loads
      <3> QED
        BY <3>1, <3>2
    <2> QED
      BY <1>8, <2>1 DEF Restart, TypeOK
  <1>9. ASSUME UNCHANGED vars PROVE TypeOK'
    BY <1>9 DEF vars, TypeOK
  <1> QED
    BY <1>1, <1>2, <1>3, <1>4, <1>5, <1>6, <1>7, <1>8, <1>9 DEF Next, Update

Inv == TypeOK /\ GraphInv(graph)

LEMMA InvInit == Init => Inv
  <1>1. IsGraph(EmptyGraph)
    BY EmptyRow, GraphFields DEF EmptyGraph, IsGraph
  <1> QED
    BY <1>1, EmptyInv DEF Init, Inv, TypeOK

LEMMA InvNext == Inv /\ [Next]_vars => Inv'
  BY TypeStep, InvStep DEF Inv

(* The maps, the file and the pending calls keep their types: every text   *)
(* that Save writes, Load can cut into a node and its words.               *)
THEOREM GraphTypeCorrect == Spec => []TypeOK
  <1>1. Inv => TypeOK
    BY DEF Inv
  <1> QED
    BY <1>1, InvInit, InvNext, PTL DEF Spec

(* adjacency and reverse are transposes of each other, and the index names *)
(* only their nodes, whatever updates, removals and restarts interleave:   *)
(* the steps of UpdateFromEntity keep the maps together one by one.        *)
THEOREM GraphMirrored == Spec => []MapsAgree
  <1>1. Init => GraphInv(graph)
    BY EmptyInv DEF Init
  <1>2. GraphInv(graph) /\ [Next]_vars => GraphInv(graph)'
    BY InvStep
  <1>3. GraphInv(graph) => Mirrored
    BY DEF GraphInv, MirrorOf, Mirrored
  <1>4. GraphInv(graph) => IndexSound
    BY DEF GraphInv, SoundOf, IndexSound
  <1>5. GraphInv(graph) => MapsAgree
    BY <1>3, <1>4 DEF MapsAgree
  <1> QED
    BY <1>1, <1>2, <1>5, PTL DEF Spec

LEMMA PersistStep ==
    ASSUME GraphInv(graph), NEW w \in Workers, Update(w),
           NEW a \in DOMAIN graph.adj, NEW b \in DOMAIN graph.adj[a]
    PROVE  Linked(graph', a, b)
  <1>1. CASE BeginUpdate(w)
    BY <1>1 DEF BeginUpdate, Linked
  <1>2. CASE UpdateNode(w)
    BY <1>2, AddNodeInv DEF UpdateNode, Linked
  <1>3. CASE UpdateEdge(w)
    BY <1>3, AddEdgeInv DEF UpdateEdge
  <1> QED
    BY <1>1, <1>2, <1>3 DEF Update

(* No step of UpdateFromEntity takes an edge out of the graph.             *)
THEOREM UpdatesKeepEdges == Spec => EdgesPersist
  <1> DEFINE Kept == \A a \in DOMAIN graph.adj : \A b \in DOMAIN graph.adj[a] : Linked(graph', a, b)
             Act == (\E w \in Workers : Update(w)) => Kept
  <1>1. Init => GraphInv(graph)
    BY EmptyInv DEF Init
  <1>2. GraphInv(graph) /\ [Next]_vars => GraphInv(graph)'
    BY InvStep
  <1>3. GraphInv(graph) => Act
    BY PersistStep
  <1>4. GraphInv(graph) /\ [Next]_vars => [Act]_vars
    BY <1>3
  <1>5. Spec => [][Act]_vars
    <2> HIDE DEF Act
    <2> QED
      BY <1>1, <1>2, <1>4, PTL DEF Spec
  <1> QED
    BY <1>5 DEF EdgesPersist

(***************************************************************************)
(* What Load makes of a file Save wrote, when no node name has a colon.    *)
(***************************************************************************)
LEMMA CutName ==
    ASSUME NEW n \in Texts, Len(n) = 1, NEW s \in Texts
    PROVE  <<Head(n \o s)>> = n /\ Tail(n \o s) = s
  <1> DEFINE x == n \o s
  <1>1. n \in Seq(Tokens) /\ s \in Seq(Tokens) /\ Len(s) \in Nat \ {0}
    BY EmptySeq DEF Texts
  <1>2. /\ x \in Seq(Tokens) /\ Len(x) = 1 + Len(s) /\ x[1] = n[1]
        /\ \A i \in 1 .. Len(s) : x[i + 1] = s[i]
    BY <1>1, ConcatProperties
  <1> HIDE DEF x
  <1>3. x # <<>>
    BY <1>1, <1>2, EmptySeq
  <1>4. /\ Tail(x) \in Seq(Tokens) /\ Len(Tail(x)) = Len(s)
        /\ \A i \in 1 .. Len(s) : Tail(x)[i] = s[i]
    BY <1>1, <1>2, <1>3, HeadTailProperties
  <1>5. Tail(x) = s
    BY <1>1, <1>4, SeqEqual
  <1>6. Head(x) = n[1] /\ n = <<n[1]>>
    BY <1>1, <1>2
  <1> QED
    BY <1>5, <1>6 DEF x

LEMMA SavedLine ==
    ASSUME NEW m, IsLinks(m), NEW c \in Firsts(m), NEW n \in DOMAIN m, Len(n) = 1
    PROVE  /\ LineNode(Line(n, m[n], FirstOf(m, c, n))) = n
           /\ LineWords(Line(n, m[n], FirstOf(m, c, n))) =
                 {Word(b, m[n][b]) : b \in DOMAIN m[n]}
  <1> DEFINE b == FirstOf(m, c, n)
             l == Line(n, m[n], b)
  <1>1. n \in Texts /\ IsRow(m[n])
    BY DEF IsLinks
  <1>2. CASE DOMAIN m[n] = {}
    <2>1. l.start = n \o <<Blank>> /\ l.words = {}
      BY <1>2 DEF Line
    <2>2. LineNode(l) = n /\ Tail(l.start) = <<Blank>>
      BY <1>1, <2>1, CutName, TokenText, BlankIsToken DEF LineNode
    <2>3. LineWords(l) = {}
      BY <2>1, <2>2 DEF LineWords
    <2> QED
      BY <1>2, <2>2, <2>3
  <1>3. CASE DOMAIN m[n] # {}
    <2>1. b \in DOMAIN m[n]
      BY <1>3 DEF FirstOf, Firsts
    <2>2. ASSUME NEW x \in DOMAIN m[n]
          PROVE  Word(x, m[n][x]) \in Texts /\ Len(Word(x, m[n][x])) >= 2
      <3>1. x \in Texts /\ m[n][x] \in Texts
        BY <1>1 DEF IsRow
      <3>2. Len(x) \in Nat \ {0} /\ Len(m[n][x]) \in Nat \ {0}
        BY <3>1, EmptySeq DEF Texts
      <3> QED
        BY <3>1, <3>2, WordType
    <2>3. /\ l.start = n \o Word(b, m[n][b])
          /\ l.words = {Word(x, m[n][x]) : x \in DOMAIN m[n] \ {b}}
      BY <1>3 DEF Line
    <2> HIDE DEF b, l
    <2>4. LineNode(l) = n /\ Tail(l.start) = Word(b, m[n][b])
      BY <1>1, <2>1, <2>2, <2>3, CutName DEF LineNode
    <2>5. {Tail(l.start)} \cup l.words = {Word(x, m[n][x]) : x \in DOMAIN m[n]}
      BY <2>1, <2>3, <2>4
    <2>6. LineWords(l) = {Word(x, m[n][x]) : x \in DOMAIN m[n]}
      BY <2>2, <2>5 DEF LineWords
    <2> QED
      BY <2>4, <2>6 DEF b, l
  <1> QED
    BY <1>2, <1>3

(* A graph whose names have one token.                                     *)
Plain(m) == IsLinks(m) /\ \A a \in DOMAIN m : Len(a) = 1 /\ DOMAIN m[a] \subseteq DOMAIN m

LEMMA SavedEntries ==
    ASSUME NEW m, Plain(m), NEW f \in Files(m)
    PROVE  /\ {LineNode(l) : l \in f} = DOMAIN m
           /\ \A a \in DOMAIN m : \A b \in DOMAIN m[a] :
                 [from |-> a, to |-> b, rel |-> m[a][b]] \in Entries(f)
           /\ \A e \in Entries(f) : \E a \in DOMAIN m : \E b \in DOMAIN m[a] :
                 e = [from |-> a, to |-> b, rel |-> m[a][b]]
  <1>1. PICK c \in Firsts(m) : f = {Line(n, m[n], FirstOf(m, c, n)) : n \in DOMAIN m}
    BY DEF Files
  <1> DEFINE L(n) == Line(n, m[n], FirstOf(m, c, n))
  <1>2. f = {L(n) : n \in DOMAIN m}
    BY <1>1
  <1>3. \A n \in DOMAIN m : /\ LineNode(L(n)) = n
                             /\ LineWords(L(n)) = {Word(b, m[n][b]) : b \in DOMAIN m[n]}
    BY SavedLine DEF Plain
  <1> HIDE DEF L
  <1>4. \A a \in DOMAIN m : \A b \in DOMAIN m[a] :
          WordNode(Word(b, m[a][b])) = b /\ WordRel(Word(b, m[a][b])) = m[a][b]
    <2> SUFFICES ASSUME NEW a \in DOMAIN m, NEW b \in DOMAIN m[a]
                 PROVE  /\ WordNode(Word(b, m[a][b])) = b
                        /\ WordRel(Word(b, m[a][b])) = m[a][b]
      OBVIOUS
    <2>1. b \in Texts /\ Len(b) = 1 /\ m[a][b] \in Texts
      BY DEF Plain, IsLinks, IsRow
    <2> QED
      BY <2>1, CutName DEF WordNode, WordRel, Word
  <1>5. {LineNode(l) : l \in f} = DOMAIN m
    <2>1. \A l \in f : LineNode(l) \in DOMAIN m
      BY <1>2, <1>3
    <2>2. \A n \in DOMAIN m : L(n) \in f /\ LineNode(L(n)) = n
      BY <1>2, <1>3
    <2> QED
      BY <2>1, <2>2
  <1>6. ASSUME NEW a \in DOMAIN m, NEW b \in DOMAIN m[a]
        PROVE  [from |-> a, to |-> b, rel |-> m[a][b]] \in Entries(f)
    <2>1. L(a) \in f /\ Word(b, m[a][b]) \in LineWords(L(a))
      BY <1>2, <1>3
    <2>2. [from |-> LineNode(L(a)), to |-> WordNode(Word(b, m[a][b])),
           rel |-> WordRel(Word(b, m[a][b]))] \in Entries(f)
      BY <2>1 DEF Entries
    <2> QED
      BY <2>2, <1>3, <1>4
  <1>7. ASSUME NEW e \in Entries(f)
        PROVE  \E a \in DOMAIN m : \E b \in DOMAIN m[a] :
                 e = [from |-> a, to |-> b, rel |-> m[a][b]]
    <2>1. PICK l \in f : \E w \in LineWords(l) :
             e = [from |-> LineNode(l), to |-> WordNode(w), rel |-> WordRel(w)]
      BY <1>7 DEF Entries
    <2>2. PICK a \in DOMAIN m : l = L(a)
      BY <1>2
    <2>3. PICK w \in LineWords(L(a)) :
             e = [from |-> LineNode(L(a)), to |-> WordNode(w), rel |-> WordRel(w)]
      BY <2>1, <2>2
    <2>4. PICK b \in DOMAIN m[a] : w = Word(b, m[a][b])
      BY <1>3, <2>3
    <2> QED
      BY <1>3, <1>4, <2>3, <2>4
  <1> QED
    BY <1>5, <1>6, <1>7

LEMMA LoadInvertsSave ==
    ASSUME NEW g, IsGraph(g), GraphInv(g), Unbroken(g), NEW f \in Files(g.adj),
           NEW h \in Loads(f)
    PROVE  h.adj = g.adj /\ h.rev = g.rev
  <1> DEFINE m == g.adj
             es == Entries(f)
  <1>1. Plain(m)
    BY DEF Plain, Unbroken, IsGraph, GraphInv, MirrorOf
  <1>2. PICK c \in Picks(es) : h = GraphOf(f, c)
    BY DEF Loads
  <1>3. /\ {LineNode(l) : l \in f} = DOMAIN m
        /\ \A a \in DOMAIN m : \A b \in DOMAIN m[a] : [from |-> a, to |-> b, rel |-> m[a][b]] \in es
        /\ \A e \in es : \E a \in DOMAIN m : \E b \in DOMAIN m[a] :
              e = [from |-> a, to |-> b, rel |-> m[a][b]]
    BY <1>1, SavedEntries
  <1>4. Ends(f) = DOMAIN m
    BY <1>1, <1>3 DEF Ends, Plain
  <1>5. \A a, b : <<a, b>> \in Pairs(es) <=> a \in DOMAIN m /\ b \in DOMAIN m[a]
    <2>1. ASSUME NEW a, NEW b, <<a, b>> \in Pairs(es)
          PROVE  a \in DOMAIN m /\ b \in DOMAIN m[a]
      BY <1>3, <2>1 DEF Pairs
    <2>2. ASSUME NEW a \in DOMAIN m, NEW b \in DOMAIN m[a]
          PROVE  <<a, b>> \in Pairs(es)
      <3> DEFINE e0 == [from |-> a, to |-> b, rel |-> m[a][b]]
      <3>1. e0 \in es /\ <<e0.from, e0.to>> = <<a, b>>
        BY <1>3
      <3> HIDE DEF e0
      <3> QED
        BY <3>1 DEF Pairs
    <2> QED
      BY <2>1, <2>2
  <1>6. ASSUME NEW a \in DOMAIN m, NEW b \in DOMAIN m[a]
        PROVE  Rels(es, a, b) = {m[a][b]}
    <2> DEFINE e0 == [from |-> a, to |-> b, rel |-> m[a][b]]
    <2>1. e0 \in es /\ e0.from = a /\ e0.to = b /\ e0.rel = m[a][b]
      BY <1>3
    <2>2. ASSUME NEW e \in es, e.from = a, e.to = b
          PROVE  e.rel = m[a][b]
      <3>1. PICK s \in DOMAIN m : \E t \in DOMAIN m[s] : e = [from |-> s, to |-> t, rel |-> m[s][t]]
        BY <1>3
      <3>2. PICK t \in DOMAIN m[s] : e = [from |-> s, to |-> t, rel |-> m[s][t]]
        BY <3>1
      <3>3. e.from = s /\ e.to = t /\ e.rel = m[s][t]
        BY <3>2
      <3> QED
        BY <2>2, <3>3
    <2> HIDE DEF e0, es, m
    <2> QED
      BY <2>1, <2>2 DEF Rels
  <1>7. Contested(es) = {}
    <2> SUFFICES ASSUME NEW x \in Pairs(es) PROVE ~(Cardinality(Rels(es, x[1], x[2])) > 1)
      BY DEF Contested
    <2>1. PICK e \in es : x = <<e.from, e.to>>
      BY DEF Pairs
    <2>2. PICK a \in DOMAIN m : \E b \in DOMAIN m[a] : e = [from |-> a, to |-> b, rel |-> m[a][b]]
      BY <1>3
    <2>3. PICK b \in DOMAIN m[a] : e = [from |-> a, to |-> b, rel |-> m[a][b]]
      BY <2>2
    <2>4. x = <<a, b>>
      BY <2>1, <2>3
    <2>5. Rels(es, x[1], x[2]) = {m[a][b]}
      BY <1>6, <2>4
    <2>6. Cardinality({m[a][b]}) = 1
      BY FS_Singleton
    <2> HIDE DEF m
    <2> QED
      BY <2>5, <2>6
  <1>8. ASSUME NEW a \in DOMAIN m, NEW b \in DOMAIN m[a]
        PROVE  PickOf(es, c, a, b) = m[a][b]
    <2>1. <<a, b>> \notin DOMAIN c
      BY <1>7 DEF Picks
    <2> QED
      BY <1>6, <2>1 DEF PickOf
  <1>9. h.adj = [a \in DOMAIN m |-> [b \in {x \in DOMAIN m : <<a, x>> \in Pairs(es)} |->
                                       PickOf(es, c, a, b)]]
    BY <1>2, <1>4, GraphFields DEF GraphOf
  <1>10. h.rev = [b \in DOMAIN m |-> [a \in {x \in DOMAIN m : <<x, b>> \in Pairs(es)} |->
                                       PickOf(es, c, a, b)]]
    BY <1>2, <1>4, GraphFields DEF GraphOf
  <1> HIDE DEF es
  <1>11. h.adj = m
    <2>1. \A a \in DOMAIN m : h.adj[a] = m[a]
      <3> SUFFICES ASSUME NEW a \in DOMAIN m PROVE h.adj[a] = m[a]
        OBVIOUS
      <3>1. {x \in DOMAIN m : <<a, x>> \in Pairs(es)} = DOMAIN m[a]
        BY <1>1, <1>5 DEF Plain
      <3>2. h.adj[a] = [b \in DOMAIN m[a] |-> PickOf(es, c, a, b)]
        BY <1>9, <3>1
      <3>3. m[a] = [b \in DOMAIN m[a] |-> m[a][b]]
        BY <1>1 DEF Plain, IsLinks, IsRow
      <3> QED
        BY <1>8, <3>2, <3>3
    <2>2. m = [a \in DOMAIN m |-> m[a]]
      BY <1>1 DEF Plain, IsLinks
    <2> QED
      BY <1>9, <2>1, <2>2
  <1>12. h.rev = g.rev
    <2>1. /\ DOMAIN g.rev = DOMAIN m /\ g.rev = [b \in DOMAIN g.rev |-> g.rev[b]]
          /\ \A b \in DOMAIN g.rev : g.rev[b] = [a \in DOMAIN g.rev[b] |-> g.rev[b][a]]
      BY DEF GraphInv, MirrorOf, IsGraph, IsLinks, IsRow
    <2>2. \A b \in DOMAIN m : h.rev[b] = g.rev[b]
      <3> SUFFICES ASSUME NEW b \in DOMAIN m PROVE h.rev[b] = g.rev[b]
        OBVIOUS
      <3>1. {x \in DOMAIN m : <<x, b>> \in Pairs(es)} = DOMAIN g.rev[b]
        BY <1>5, <2>1 DEF GraphInv, MirrorOf
      <3>2. h.rev[b] = [a \in DOMAIN g.rev[b] |-> PickOf(es, c, a, b)]
        BY <1>10, <3>1
      <3>3. \A a \in DOMAIN g.rev[b] : PickOf(es, c, a, b) = g.rev[b][a]
        BY <1>8, <2>1 DEF GraphInv, MirrorOf
      <3> QED
        BY <2>1, <3>2, <3>3
    <2> QED
      BY <1>10, <2>1, <2>2
  <1> QED
    BY <1>11, <1>12

(* Whatever the names and the order of Go's maps: a saved graph without    *)
(* colons in its names and without long lines is the graph that is loaded. *)
THEOREM ReloadIsStable == Spec => ReloadStable
  <1> DEFINE Act == Unbroken(graph) /\ UpToDate /\ Restart /\ (\A l \in file : ~TooLong(l))
                      => graph'.adj = graph.adj /\ graph'.rev = graph.rev
  <1>1. Inv => Act
    <2> SUFFICES ASSUME Inv, Unbroken(graph), UpToDate, Restart, \A l \in file : ~TooLong(l)
                 PROVE  graph'.adj = graph.adj /\ graph'.rev = graph.rev
      OBVIOUS
    <2>1. Readable(file) = {file}
      BY DEF Readable
    <2>2. graph' \in Loads(file)
      BY <2>1 DEF Restart, UpToDate
    <2> QED
      BY <2>2, LoadInvertsSave DEF Inv, TypeOK, UpToDate
  <1>2. Inv /\ [Next]_vars => [Act]_vars
    BY <1>1
  <1>3. Spec => [][Act]_vars
    <2> HIDE DEF Act
    <2> QED
      BY <1>2, InvInit, InvNext, PTL DEF Spec
  <1> QED
    BY <1>3 DEF ReloadStable
==============================================================================
