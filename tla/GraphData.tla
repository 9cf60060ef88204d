------------------------------ MODULE GraphData ------------------------------
(***************************************************************************)
(* The data structure of pkg/graph/graph.go and its file format.           *)
(*                                                                         *)
(* A node name and a relationship are what the code joins with colons, so  *)
(* a text is the sequence of its colon-free tokens: <<"users", "2">> for   *)
(* "users:2", <<"">> for the empty text.  Tokens hold no blank either; a   *)
(* field name with one would be split at it when it is loaded.             *)
(***************************************************************************)
EXTENDS Naturals, FiniteSets, Sequences, Maps

CONSTANTS
    Tokens,     \* texts without colon or blank
    Blank,      \* the empty text
    NodeTypes,  \* the "type" fields AddNode indexes
    NoType,     \* no "type" field, or an empty one
    LineRoom    \* neighbors in the longest line a bufio.Scanner takes

ASSUME BlankIsToken == Blank \in Tokens
ASSUME NoTypeIsNone == NoType \notin NodeTypes
ASSUME LinesHaveRoom == LineRoom \in Nat

Texts == Seq(Tokens) \ {<<>>}

IsIndexKey(k) == \/ k[1] = "type" /\ k[2] \in NodeTypes
                 \/ k[1] = "relationship" /\ k[2] \in Texts

(***************************************************************************)
(* The graph: adjacency, reverse and index.  A list of the index keeps     *)
(* duplicates, and nobody looks at its order: how often a node is listed   *)
(* under a key stands for it.  Its keys are a "type" as it is and          *)
(* "relationship:" with a relationship: no "type" begins that way here.    *)
(***************************************************************************)
Graph(a, r, x) == [adj |-> a, rev |-> r, index |-> x]

EmptyGraph == Graph(EmptyMap, EmptyMap, EmptyMap)

Listed(x, k, n) == IF <<k, n>> \in DOMAIN x THEN x[<<k, n>>] ELSE 0
Append1(x, k, n) == Put(x, <<k, n>>, Listed(x, k, n) + 1)

(* Fault: the maps of a node are made anew whether it exists or not.       *)
EnsureAnew(g, n) == Graph(Put(g.adj, n, EmptyMap), Put(g.rev, n, EmptyMap), g.index)

Ensure(g, n) ==
    IF n \in DOMAIN g.adj THEN g
    ELSE Graph(Put(g.adj, n, EmptyMap), Put(g.rev, n, EmptyMap), g.index)

AddNode(g, n, ty) ==
    LET h == Ensure(g, n) IN
    Graph(h.adj, h.rev, IF ty = NoType THEN h.index ELSE Append1(h.index, <<"type", ty>>, n))

(* A node has one relationship to a neighbor: the last one set.            *)
Link(m, a, b, r) == Put(m, a, Put(m[a], b, r))

AddEdge(g, a, b, r) ==
    LET h == Ensure(Ensure(g, a), b) IN
    Graph(Link(h.adj, a, b, r), Link(h.rev, b, a, r),
          Append1(h.index, <<"relationship", r>>, a))

(* Fault: only the neighbors' adjacency lists are cleaned.                 *)
RemoveNodeForward(g, n) ==
    Graph([m \in DOMAIN g.adj \ {n} |-> Drop(g.adj[m], n)], Drop(g.rev, n),
          [p \in {q \in DOMAIN g.index : q[2] # n} |-> g.index[p]])

(* Fault: the index keeps the removed node.                                *)
RemoveNodeUnindexed(g, n) ==
    Graph([m \in DOMAIN g.adj \ {n} |-> Drop(g.adj[m], n)],
          [m \in DOMAIN g.rev \ {n} |-> Drop(g.rev[m], n)], g.index)

RemoveNode(g, n) ==
    Graph([m \in DOMAIN g.adj \ {n} |-> Drop(g.adj[m], n)],
          [m \in DOMAIN g.rev \ {n} |-> Drop(g.rev[m], n)],
          [p \in {q \in DOMAIN g.index : q[2] # n} |-> g.index[p]])

Unlink(m, a, b) == IF a \in DOMAIN m THEN Put(m, a, Drop(m[a], b)) ELSE m

RemoveEdge(g, a, b) == Graph(Unlink(g.adj, a, b), Unlink(g.rev, b, a), g.index)

(***************************************************************************)
(* The file.  A line is "node:" and the words "neighbor:relationship",     *)
(* separated by blanks.  Lines and words come in the order of a Go map,    *)
(* that is in any; only which word is first in its line matters.           *)
(***************************************************************************)
Word(b, r) == b \o r

(* The text of the line up to its first blank, then the other words.       *)
Line(n, nbrs, first) ==
    IF DOMAIN nbrs = {} THEN [start |-> n \o <<Blank>>, words |-> {}]
    ELSE [start |-> n \o Word(first, nbrs[first]),
          words |-> {Word(b, nbrs[b]) : b \in DOMAIN nbrs \ {first}}]

(* The neighbor each line begins with, for the nodes that have a choice.   *)
Wide(adj)   == {n \in DOMAIN adj : Cardinality(DOMAIN adj[n]) > 1}
Firsts(adj) == {c \in [Wide(adj) -> UNION {DOMAIN adj[n] : n \in Wide(adj)}] :
                  \A n \in Wide(adj) : c[n] \in DOMAIN adj[n]}

FirstOf(adj, c, n) == IF n \in DOMAIN c THEN c[n] ELSE CHOOSE b \in DOMAIN adj[n] : TRUE

(* What Save may write: one file for each order of the maps.               *)
Files(adj) == {{Line(n, adj[n], FirstOf(adj, c, n)) : n \in DOMAIN adj} : c \in Firsts(adj)}

(* Load cuts a line at its first colon, and what follows at the blanks.    *)
LineNode(l) == <<Head(l.start)>>

(* Fault: a word without a colon is an edge without relationship.          *)
LineWordsAll(l) == {Tail(l.start)} \cup l.words

LineWords(l) == {w \in {Tail(l.start)} \cup l.words : Len(w) >= 2}

(* The first colon of a word ends the neighbor's name.                     *)
WordNode(w) == <<Head(w)>>
WordRel(w)  == Tail(w)

Entries(ls) == UNION {{[from |-> LineNode(l), to |-> WordNode(w), rel |-> WordRel(w)] :
                         w \in LineWords(l)} : l \in ls}

Pairs(es) == {<<e.from, e.to>> : e \in es}

Ends(ls) == {LineNode(l) : l \in ls} \cup {e.to : e \in Entries(ls)}

Rels(es, a, b) == {e.rel : e \in {x \in es : x.from = a /\ x.to = b}}

(* Of several entries between two nodes the last one read remains.         *)
Contested(es) == {x \in Pairs(es) : Cardinality(Rels(es, x[1], x[2])) > 1}
Picks(es)     == {c \in [Contested(es) -> {e.rel : e \in es}] :
                    \A x \in Contested(es) : c[x] \in Rels(es, x[1], x[2])}

PickOf(es, c, a, b) == IF <<a, b>> \in DOMAIN c THEN c[<<a, b>>]
                       ELSE CHOOSE r \in Rels(es, a, b) : TRUE

GraphOf(ls, c) ==
    LET es == Entries(ls) IN
    Graph([a \in Ends(ls) |->
              [b \in {x \in Ends(ls) : <<a, x>> \in Pairs(es)} |-> PickOf(es, c, a, b)]],
          [b \in Ends(ls) |->
              [a \in {x \in Ends(ls) : <<x, b>> \in Pairs(es)} |-> PickOf(es, c, a, b)]],
          EmptyMap)

(* What Load may make of the lines it reads.                               *)
Loads(ls) == {GraphOf(ls, c) : c \in Picks(Entries(ls))}

(* The scanner stops with ErrTooLong at a line it has no room for: what is *)
(* loaded are the lines before the first such line.                        *)
TooLong(l) == Cardinality(l.words) >= LineRoom

Readable(ls) == IF \E l \in ls : TooLong(l) THEN SUBSET {l \in ls : ~TooLong(l)}
                                            ELSE {ls}
==============================================================================
