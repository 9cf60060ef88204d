----------------------------- MODULE GraphSearch -----------------------------
(***************************************************************************)
(* FindPath and HasCycle of pkg/graph/graph.go.  A search holds the read   *)
(* lock from its beginning to its end, so it sees one graph; all it looks  *)
(* at are the neighbors of each node, which are nodes themselves           *)
(* (IndexedGraph!Mirrored).  Go ranges over a map in any order.            *)
(***************************************************************************)
EXTENDS Integers, Sequences, FiniteSets

CONSTANTS
    Names,          \* the node names there are, and requests ask for
    Graphs,         \* the graphs searched: per node, the set of its neighbors
    Depths,         \* the max_depth of requests
    MaxQueryDepth   \* of the configuration, for requests without one

ASSUME NamesAreFinite == IsFiniteSet(Names) /\ Names # {}

ASSUME GraphsAreClosed ==
    \A a \in Graphs : /\ DOMAIN a \subseteq Names
                      /\ a \in [DOMAIN a -> SUBSET DOMAIN a]

ASSUME DepthsAreIntegers == Depths \subseteq Int /\ MaxQueryDepth \in Int

VARIABLES
    adj,        \* the graph
    stage,      \* what is going on
    from, to, depth,    \* the question of FindPath
    queue,      \* paths yet to look at
    visited,    \* nodes a search has come across
    roots,      \* nodes HasCycle has yet to start from
    stack,      \* its calls of hasCycleFrom: a node and its neighbors left
    recStack,   \* the nodes marked as on the stack
    answer,     \* the path, or whether there is a cycle
    passed      \* history: whether a path was passed over for its length

question == <<from, to, depth>>
calls    == <<roots, stack, recStack>>
vars     == <<adj, stage, question, queue, visited, calls, answer, passed>>

NoNodes == [n \in {} |-> {}]
NoName  == CHOOSE n \in Names : TRUE

(* No search is going on; the graph is left out until one begins.          *)
Init == /\ stage = "idle" /\ adj = NoNodes
        /\ from = NoName /\ to = NoName /\ depth = 0
        /\ queue = <<>> /\ visited = {} /\ roots = {}
        /\ stack = <<>> /\ recStack = {}
        /\ answer = <<>> /\ passed = FALSE

(***************************************************************************)
(* FindPath: breadth first; a node is visited when it enters the queue.    *)
(***************************************************************************)
(* What handleGraphPath makes of max_depth.                                *)
DepthOf(d) == IF d <= 0 THEN MaxQueryDepth ELSE d

(* Fault: the nodes are not looked up.                                     *)
AskPathBlind ==
    /\ stage = "idle" /\ adj' \in Graphs
    /\ from' \in Names /\ to' \in Names /\ \E d \in Depths : depth' = DepthOf(d)
    /\ stage' = "path"
    /\ queue' = <<<<from'>>>> /\ visited' = {from'}
    /\ UNCHANGED <<calls, answer, passed>>

AskPath ==
    /\ stage = "idle" /\ adj' \in Graphs
    /\ from' \in Names /\ to' \in Names /\ \E d \in Depths : depth' = DepthOf(d)
    /\ stage' = IF {from', to'} \subseteq DOMAIN adj' THEN "path" ELSE "unknown"
    /\ queue' = <<<<from'>>>> /\ visited' = {from'}
    /\ UNCHANGED <<calls, answer, passed>>

Last(p) == p[Len(p)]

(* Every order a Go map can be ranged over.                                *)
Orders(s) == {o \in [1 .. Cardinality(s) -> s] : \A i, j \in DOMAIN o : o[i] = o[j] => i = j}

Extended(p, ns) == [i \in DOMAIN ns |-> Append(p, ns[i])]

(* Fault: the depth counts edges.                                          *)
TooDeepLate(p) == Len(p) > depth + 1

(* Fault: a path of the greatest length is passed over.                    *)
TooDeepEarly(p) == Len(p) >= depth

TooDeep(p) == Len(p) > depth

(* Fault: paths are put before those that are already there.               *)
EnqueuedFirst(ps) == ps \o Tail(queue)

(* Fault: the queue is begun anew.                                         *)
EnqueuedAlone(ps) == ps

Enqueued(ps) == Tail(queue) \o ps

(* Fault: the path is taken off the queue after its length is looked at.   *)
PassOverKeeps == /\ stage = "path" /\ queue # <<>> /\ TooDeep(Head(queue))
                 /\ passed' = TRUE
                 /\ UNCHANGED <<adj, stage, question, queue, visited, calls, answer>>

PassOver == /\ stage = "path" /\ queue # <<>> /\ TooDeep(Head(queue))
            /\ queue' = Tail(queue)
            /\ passed' = TRUE
            /\ UNCHANGED <<adj, stage, question, visited, calls, answer>>

PathFound == /\ stage = "path" /\ queue # <<>> /\ ~TooDeep(Head(queue))
             /\ Last(Head(queue)) = to
             /\ answer' = Head(queue)
             /\ stage' = "found"
             /\ UNCHANGED <<adj, question, queue, visited, calls, passed>>

Expand ==
    /\ stage = "path" /\ queue # <<>> /\ ~TooDeep(Head(queue)) /\ Last(Head(queue)) # to
    /\ LET p   == Head(queue)
           new == adj[Last(p)] \ visited
       IN /\ \E o \in Orders(new) : queue' = Enqueued(Extended(p, o))
          /\ visited' = visited \cup new
    /\ UNCHANGED <<adj, stage, question, calls, answer, passed>>

NoPath == /\ stage = "path" /\ queue = <<>>
          /\ stage' = "none"
          /\ UNCHANGED <<adj, question, queue, visited, calls, answer, passed>>

(***************************************************************************)
(* HasCycle: depth first from every node.                                  *)
(***************************************************************************)
AskCycle ==
    /\ stage = "idle" /\ stage' = "cycle"
    /\ adj' \in Graphs /\ roots' = DOMAIN adj'
    /\ UNCHANGED <<question, queue, visited, stack, recStack, answer, passed>>

(* Fault: a node is marked as visited when it is left.                     *)
EnterUnseen(st, n) == /\ stack' = Append(st, [node |-> n, rest |-> adj[n]])
                      /\ visited' = visited
                      /\ recStack' = recStack \cup {n}

(* A call of hasCycleFrom.                                                 *)
Enter(st, n) == /\ stack' = Append(st, [node |-> n, rest |-> adj[n]])
                /\ visited' = visited \cup {n}
                /\ recStack' = recStack \cup {n}

NextRoot ==
    /\ stage = "cycle" /\ stack = <<>>
    /\ \E n \in roots : /\ roots' = roots \ {n}
                        /\ IF n \in visited THEN UNCHANGED <<stack, visited, recStack>>
                                            ELSE Enter(stack, n)
    /\ UNCHANGED <<adj, stage, question, queue, answer, passed>>

Top == stack[Len(stack)]

Popped == SubSeq(stack, 1, Len(stack) - 1)

NextNeighbor ==
    /\ stage = "cycle" /\ stack # <<>>
    /\ \E n \in Top.rest :
       LET rest == Append(Popped, [Top EXCEPT !.rest = @ \ {n}]) IN
       \/ n \notin visited /\ Enter(rest, n) /\ UNCHANGED <<stage, answer>>
       \/ /\ n \in visited \cap recStack
          /\ stage' = "cycleAnswered" /\ answer' = <<n>>
          /\ UNCHANGED <<stack, visited, recStack>>
       \/ /\ n \in visited \ recStack
          /\ stack' = rest
          /\ UNCHANGED <<stage, answer, visited, recStack>>
    /\ UNCHANGED <<adj, question, queue, roots, passed>>

(* Fault: a node that is left stays marked.                                *)
UnmarkedNot(n) == recStack

Unmarked(n) == recStack \ {n}

Leave ==
    /\ stage = "cycle" /\ stack # <<>> /\ Top.rest = {}
    /\ recStack' = Unmarked(Top.node)
    /\ stack' = Popped
    /\ UNCHANGED <<adj, stage, question, queue, visited, roots, answer, passed>>

NoCycle ==
    /\ stage = "cycle" /\ stack = <<>> /\ roots = {}
    /\ stage' = "cycleAnswered" /\ answer' = <<>>
    /\ UNCHANGED <<adj, question, queue, visited, calls, passed>>

(* The answer is sent, and the lock given back.                            *)
Respond == /\ stage \in {"unknown", "found", "none", "cycleAnswered"}
           /\ stage' = "idle" /\ adj' = NoNodes
           /\ from' = NoName /\ to' = NoName /\ depth' = 0
           /\ queue' = <<>> /\ visited' = {} /\ roots' = {}
           /\ stack' = <<>> /\ recStack' = {}
           /\ answer' = <<>> /\ passed' = FALSE

FindPath == PassOver \/ PathFound \/ Expand \/ NoPath
HasCycle == NextRoot \/ NextNeighbor \/ Leave \/ NoCycle

Next == AskPath \/ AskCycle \/ FindPath \/ HasCycle \/ Respond

Spec == Init /\ [][Next]_vars

(* A search waits for nobody once it has the lock.                         *)
FairSpec == Spec /\ WF_vars(FindPath \/ HasCycle)

(***************************************************************************)
(* What it promises.                                                       *)
(***************************************************************************)
TypeOK ==
    /\ IF stage = "idle" THEN adj = NoNodes ELSE adj \in Graphs
    /\ stage \in {"idle", "unknown", "path", "found", "none", "cycle", "cycleAnswered"}
    /\ from \in Names /\ to \in Names /\ depth \in Int
    /\ visited \subseteq Names /\ roots \subseteq Names /\ recStack \subseteq Names
    /\ queue \in Seq(Seq(Names)) /\ answer \in Seq(Names)
    /\ stack \in Seq([node : Names, rest : SUBSET Names])
    /\ passed \in BOOLEAN
    /\ stage \in {"path", "found", "none"} => {from, to} \subseteq DOMAIN adj

IsPath(p) == /\ Len(p) >= 1 /\ \A i \in 1 .. Len(p) : p[i] \in DOMAIN adj
             /\ \A i \in 1 .. Len(p) - 1 : p[i + 1] \in adj[p[i]]

(* The paths of n nodes that the question asks for.                        *)
Paths(n) == {p \in [1 .. n -> DOMAIN adj] : IsPath(p) /\ p[1] = from /\ p[n] = to}

(* A path that is found leads along edges from the one node to the other,  *)
(* and is no longer than what was asked for.                               *)
PathsAreReal ==
    stage = "found" =>
        IsPath(answer) /\ answer[1] = from /\ Last(answer) = to /\ Len(answer) <= depth

(* No path is shorter than the one found.                                  *)
PathsAreShortest == stage = "found" => \A n \in 1 .. Len(answer) - 1 : Paths(n) = {}

(* What FindPath finds is a shortest path.                                 *)
FindsShortest == PathsAreReal /\ PathsAreShortest

(* Where none is found, there is none of that length.                      *)
MissesAreReal == stage = "none" => \A n \in 1 .. depth : Paths(n) = {}

(* Where none is found and nothing was too long, no path leads there: some *)
(* nodes, from among them, have no edge to any other, to among these.      *)
MissesAreFinal ==
    stage = "none" /\ ~passed =>
        \E s \in SUBSET DOMAIN adj : /\ from \in s /\ to \notin s
                                     /\ \A n \in s : adj[n] \subseteq s

(* What FindPath does not find is not there.                               *)
MissesNothing == MissesAreReal /\ MissesAreFinal

(* From every node of some set an edge leads to one of them.               *)
Cyclic == \E s \in SUBSET DOMAIN adj : s # {} /\ \A n \in s : adj[n] \cap s # {}

(* HasCycle says that there is a cycle exactly when there is one.          *)
CyclesAreFound == stage = "cycleAnswered" => (answer # <<>> <=> Cyclic)

Fewer(s, t) == s \subseteq t /\ s # t

Unseen == DOMAIN adj \ visited

(* The step comes across a node; or else there is a path less to look at,  *)
(* a node less to begin from, a call less to return from, or a neighbor    *)
(* less in the last call.                                                  *)
Nearer ==
    \/ Fewer(Unseen', Unseen)
    \/ /\ Unseen' = Unseen
       /\ IF stage = "path" THEN Len(queue') < Len(queue)
          ELSE \/ Fewer(roots', roots)
               \/ roots' = roots /\ Len(stack') < Len(stack)
               \/ /\ roots' = roots /\ Len(stack') = Len(stack) /\ stack # <<>>
                  /\ Fewer(Top'.rest, Top.rest)

(* Every step of a search that does not end it brings it nearer its end,   *)
(* by an order in which nothing comes down forever: a search that runs     *)
(* goes through no more than so many steps, however the graph is knotted.  *)
SearchesProgress ==
    [][stage' = stage /\ stage \in {"path", "cycle"} => adj' = adj /\ Nearer]_vars

(* Both searches end, however the graph is knotted.                        *)
SearchesEnd == stage \in {"path", "cycle"} ~> stage \notin {"path", "cycle"}
==============================================================================
