----------------------------- MODULE IndexedGraph ----------------------------
(***************************************************************************)
(* pkg/graph/graph.go at work.  A method holds the graph's mutex from its  *)
(* first line to its last and is one step here; UpdateFromEntity is not    *)
(* such a method: it calls AddNode and then AddEdge for each reference of  *)
(* the document, and takes the mutex anew for each.  Save holds it too     *)
(* (what overlapping Saves do to their temporary file is in GraphFile).    *)
(***************************************************************************)
EXTENDS GraphData

CONSTANTS
    Workers,    \* goroutines of the request handlers
    Updates,    \* the documents they pass to UpdateFromEntity
    Removals,   \* the nodes they remove
    NoJob,      \* no UpdateFromEntity in progress
    NoFile,     \* nothing was saved yet
    MaxListed   \* bound: no update begins once a node is listed so often

VARIABLES
    graph,      \* adjacency, reverse and index
    file,       \* the lines of the graph's file
    job         \* per worker, the UpdateFromEntity it runs

vars == <<graph, file, job>>

Refs == [to : Texts, rel : Texts]

ASSUME UpdatesAreDocuments ==
    \A u \in Updates : /\ u.node \in Texts
                       /\ u.type \in NodeTypes \cup {NoType}
                       /\ u.refs \subseteq Refs

ASSUME RemovalsAreNames == Removals \subseteq Texts

IsRow(x) == /\ x = [b \in DOMAIN x |-> x[b]]
            /\ \A b \in DOMAIN x : b \in Texts /\ x[b] \in Texts

IsLinks(m) == /\ m = [a \in DOMAIN m |-> m[a]]
              /\ \A a \in DOMAIN m : a \in Texts /\ IsRow(m[a])

IsIndex(x) == \A p \in DOMAIN x : /\ IsIndexKey(p[1]) /\ p[2] \in Texts
                                 /\ x[p] \in Nat \ {0}

IsGraph(g) == IsLinks(g.adj) /\ IsLinks(g.rev) /\ IsIndex(g.index)

IsLine(l) == /\ l.start \in Seq(Tokens) /\ Len(l.start) >= 2
             /\ l.words \subseteq Texts

IsJob(j) == /\ j.node \in Texts /\ j.type \in NodeTypes \cup {NoType}
            /\ j.todo \subseteq j.refs /\ j.refs \subseteq Refs
            /\ j.at \in {"node", "refs"}

TypeOK ==
    /\ IsGraph(graph)
    /\ file # NoFile => \A l \in file : IsLine(l)
    /\ job = [w \in Workers |-> job[w]]
    /\ \A w \in Workers : job[w] # NoJob => IsJob(job[w])

Init == /\ graph = EmptyGraph
        /\ file = NoFile
        /\ job = [w \in Workers |-> NoJob]

(***************************************************************************)
(* UpdateFromEntity.                                                       *)
(***************************************************************************)
Job(u, at, todo) == [node |-> u.node, type |-> u.type, refs |-> u.refs,
                     at |-> at, todo |-> todo]

(* The call returns when no reference is left.                             *)
Proceed(w, todo) ==
    job' = [job EXCEPT ![w] = IF todo = {} THEN NoJob ELSE Job(@, "refs", todo)]

BeginUpdate(w) ==
    /\ job[w] = NoJob
    /\ \A p \in DOMAIN graph.index : graph.index[p] < MaxListed
    /\ \E u \in Updates : job' = [job EXCEPT ![w] = Job(u, "node", u.refs)]
    /\ UNCHANGED <<graph, file>>

UpdateNode(w) ==
    /\ job[w] # NoJob /\ job[w].at = "node"
    /\ graph' = AddNode(graph, job[w].node, job[w].type)
    /\ Proceed(w, job[w].todo)
    /\ UNCHANGED file

(* References come in the order of a Go map.                               *)
UpdateEdge(w) ==
    /\ job[w] # NoJob /\ job[w].at = "refs"
    /\ \E r \in job[w].todo : /\ graph' = AddEdge(graph, job[w].node, r.to, r.rel)
                              /\ Proceed(w, job[w].todo \ {r})
    /\ UNCHANGED file

(***************************************************************************)
(* The other methods that change the graph.                                *)
(***************************************************************************)
Remove == /\ \E n \in Removals : graph' = RemoveNode(graph, n)
          /\ UNCHANGED <<file, job>>

RemoveLink == /\ \E a, b \in Removals : graph' = RemoveEdge(graph, a, b)
              /\ UNCHANGED <<file, job>>

Clear == graph' = EmptyGraph /\ UNCHANGED <<file, job>>

(***************************************************************************)
(* Save, and main's NewIndexedGraph and Load after the process stopped.    *)
(* The entities main loads next (loadEntitiesIntoGraph) are updates that   *)
(* some worker makes.                                                      *)
(***************************************************************************)
Save == /\ file' \in Files(graph.adj)
        /\ UNCHANGED <<graph, job>>

Restart ==
    /\ IF file = NoFile THEN graph' = EmptyGraph
       ELSE \E ls \in Readable(file) : graph' \in Loads(ls)
    /\ job' = [w \in Workers |-> NoJob]
    /\ UNCHANGED file

Update(w) == BeginUpdate(w) \/ UpdateNode(w) \/ UpdateEdge(w)

Next == \/ \E w \in Workers : Update(w)
        \/ Remove \/ RemoveLink \/ Clear \/ Save \/ Restart

Spec == Init /\ [][Next]_vars

(***************************************************************************)
(* What it promises.                                                       *)
(***************************************************************************)

(* adjacency and reverse have the same nodes, each is the transpose of the *)
(* other with the same relationships, and every neighbor is a node: a      *)
(* query in either direction sees the same graph, whatever UpdateFromEntity *)
(* was cut in two by RemoveNode and whatever file was loaded.              *)
Mirrored ==
    /\ DOMAIN graph.adj = DOMAIN graph.rev
    /\ \A a \in DOMAIN graph.adj : \A b \in DOMAIN graph.adj[a] :
          /\ b \in DOMAIN graph.rev /\ a \in DOMAIN graph.rev[b]
          /\ graph.rev[b][a] = graph.adj[a][b]
    /\ \A b \in DOMAIN graph.rev : \A a \in DOMAIN graph.rev[b] :
          a \in DOMAIN graph.adj /\ b \in DOMAIN graph.adj[a]

(* The index lists only nodes of the graph: RemoveNode cleans every key,   *)
(* and Load forgets an index whose nodes it does not know.                 *)
IndexSound == \A p \in DOMAIN graph.index : p[2] \in DOMAIN graph.adj

(* All three maps agree, in every state another goroutine can see.         *)
MapsAgree == Mirrored /\ IndexSound

Linked(g, a, b) == a \in DOMAIN g.adj /\ b \in DOMAIN g.adj[a]

(* An edge goes away only by the removal of one of its ends, or of itself, *)
(* never because another update meets a node that is already there.        *)
EdgesPersist ==
    [][(\E w \in Workers : Update(w)) =>
         \A a \in DOMAIN graph.adj : \A b \in DOMAIN graph.adj[a] : Linked(graph', a, b)]_vars

(* The file holds what Save would write now.                               *)
UpToDate == file # NoFile /\ file \in Files(graph.adj)

Unbroken(g) == \A n \in DOMAIN g.adj : Len(n) = 1

(* A restart loads the graph that was saved if no node name has a colon    *)
(* and no line is too long: what the first restart makes of the names,     *)
(* later ones leave alone.                                                 *)
ReloadStable ==
    [][Unbroken(graph) /\ UpToDate /\ Restart /\ (\A l \in file : ~TooLong(l)) =>
         graph'.adj = graph.adj /\ graph'.rev = graph.rev]_vars

(* A restart loads the graph that was saved.                               *)
LoadRestores ==
    [][UpToDate /\ Restart => graph'.adj = graph.adj]_vars

(* A graph file that cannot be read leaves the server with an empty graph. *)
FailedLoadIsEmpty ==
    [][(file # NoFile /\ \E l \in file : TooLong(l)) /\ Restart => graph' = EmptyGraph]_vars

Returns(w) == job[w] # NoJob /\ job'[w] = NoJob /\ ~Restart

(* When UpdateFromEntity returns, the node's neighbors are the references  *)
(* of the document it was given.                                           *)
UpdateInstalls ==
    [][\A w \in Workers : Returns(w) =>
         DOMAIN graph'.adj[job[w].node] = {r.to : r \in job[w].refs}]_vars

(* ... and each reference has its relationship.                            *)
EveryFieldLinked ==
    [][\A w \in Workers : Returns(w) =>
         \A r \in job[w].refs : graph'.adj[job[w].node][r.to] = r.rel]_vars
==============================================================================
